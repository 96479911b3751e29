\* A client that tears down and plays again while the file goes on.
CONSTANTS
  H264Files <- MCH264Files
  AacFiles <- MCAacFiles
  Mtu = 22
  SeqLimit = 4
  VideoInterval = 3
  AudioInterval = 2
  Gaps = {1, 3}
  MaxLate = 3
  MaxPlays = 2

SPECIFICATION Spec

INVARIANT IFramesFollowParameterSets
CHECK_DEADLOCK FALSE
