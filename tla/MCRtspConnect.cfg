\* Two connections that may play twice, and set up, play and tear down each
\* other's session.
CONSTANTS
  c1 = c1
  c2 = c2
  Conns = {c1, c2}
  NoSession = NoSession
  MaxSessions = 2
  FirstPort = 10000
  MaxAllocations = 2
  MaxPushers = 2
  NamedSessions = {1}
  Methods = {"SETUP", "PLAY", "TEARDOWN", "OPTIONS"}
  Transports = {"udp"}

SPECIFICATION Spec
SYMMETRY ConnSymmetry

INVARIANT TypeOK
INVARIANT NoPusherRunsAfterClose
INVARIANT TimerFollowsRunning
INVARIANT EverySessionHasItsConnection
\* The clients may have nothing left to do within the bounds.
CHECK_DEADLOCK FALSE
