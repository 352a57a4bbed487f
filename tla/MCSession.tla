----------------------------- MODULE MCSession -----------------------------
(***************************************************************************)
(* Two PINs, so that a second prompt and a replaced PIN happen; a message  *)
(* to race with a PIN for the pipe; two console messages, enough for two   *)
(* requests, a request and its refusal or a request and a session id, in   *)
(* one buffer or after one another.                                        *)
(***************************************************************************)
EXTENDS Session
=============================================================================
