------------------------------- MODULE SeqNum -------------------------------
(***************************************************************************)
(* Serial-number comparison (RFC 1982) as chiaki/seqnum.h defines it for   *)
(* 16 and 32 bits.  The modulus M stands for 2^bits, so that small even    *)
(* moduli show every case the real widths have.  At a distance of exactly  *)
(* M \div 2 neither number is before the other, as in the code.            *)
(* Addition is that of 32 bits, the width takion.c gives its queues; the   *)
(* 16-bit queue of reorderqueue.c:37 adds in int and keeps the carry, but  *)
(* nothing uses it.                                                        *)
(***************************************************************************)
LOCAL INSTANCE Integers

\* Mutant of SeqLt: plain comparison, wrong once the numbers wrap
SeqLtPlain(M, a, b) == a < b

\* chiaki_seq_num_*_lt
SeqLt(M, a, b) == \/ a < b /\ b - a < M \div 2
                  \/ a > b /\ a - b > M \div 2

\* chiaki_seq_num_*_gt
SeqGt(M, a, b) == \/ a < b /\ b - a > M \div 2
                  \/ a > b /\ a - b < M \div 2

SeqLe(M, a, b) == a = b \/ SeqLt(M, a, b)

SeqGe(M, a, b) == a = b \/ SeqGt(M, a, b)

\* seq_num_32_add, and what assignment to a ChiakiSeqNum16 makes of a sum
SeqAdd(M, a, b) == (a + b) % M
=============================================================================
