\* Numbers modulo 6, packets of both streams, two reports.
SPECIFICATION Spec
CONSTANTS
  M = 6
  Frames = 8
  Source <- MCSource
  Fec <- MCFec
  ProfileOf <- MCProfileOf
  Profiles = 2
  Refs = 2
  AudioSource = 2
  AudioFec = 1
  AudioFrames = 8
  Packets = 6
  Reports = 2
  Wide = 64
INVARIANTS
  TypeOK
  InOrder
  GapsReported
  PicturesIntact
  CountedOnce
CHECK_DEADLOCK FALSE
