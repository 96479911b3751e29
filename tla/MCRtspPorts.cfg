\* Two sessions, both tracks over UDP.
CONSTANTS
  c1 = c1
  c2 = c2
  Conns = {c1, c2}
  NoSession = NoSession
  MaxSessions = 2
  FirstPort = 10000
  MaxAllocations = 4
  MaxPushers = 0
  NamedSessions = {}
  Methods = {"SETUP"}
  Transports = {"interleaved", "udp", "udpWithoutPorts"}

SPECIFICATION Spec
SYMMETRY ConnSymmetry

INVARIANT NoPortConflict
\* The clients may have nothing left to do within the bounds.
CHECK_DEADLOCK FALSE
