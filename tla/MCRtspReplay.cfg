\* One client that may send PLAY twice.
CONSTANTS
  c1 = c1
  c2 = c2
  Conns = {c1}
  NoSession = NoSession
  MaxSessions = 1
  FirstPort = 10000
  MaxAllocations = 2
  MaxPushers = 2
  NamedSessions = {}
  Methods = {"SETUP", "PLAY", "TEARDOWN"}
  Transports = {"interleaved", "udp"}

SPECIFICATION Spec
SYMMETRY ConnSymmetry

INVARIANT TimerHasLivePusher
\* The clients may have nothing left to do within the bounds.
CHECK_DEADLOCK FALSE
