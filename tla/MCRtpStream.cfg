\* Sequence numbers modulo 4, the callback on time or late, a second PLAY that
\* reads on.
CONSTANTS
  H264Files <- MCH264Files
  AacFiles <- MCAacFiles
  Mtu = 22
  SeqLimit = 4
  VideoInterval = 3
  AudioInterval = 2
  Gaps = {1, 3}
  MaxLate = 3
  MaxPlays = 2

SPECIFICATION Spec

INVARIANT TypeOK
INVARIANT FramesAreTheNalUnits
INVARIANT ReceiverGetsWhatWasRead
INVARIANT PacketsFitMtu
INVARIANT StreamsKeepTime
INVARIANT AudioFramesAreWhole
\* The client has played as often as it may.
CHECK_DEADLOCK FALSE
