\* Sound only: the numbers of the audio packets wrap between two reports.
SPECIFICATION Spec
CONSTANTS
  M = 6
  Frames = 1
  Source <- MCSource
  Fec <- MCFec
  ProfileOf <- MCProfileOf
  Profiles = 2
  Refs = 2
  AudioSource = 1
  AudioFec = 1
  AudioFrames = 9
  Packets = 5
  Reports = 2
  Wide = 64
PROPERTIES
  LossWithinWidth
CHECK_DEADLOCK FALSE
