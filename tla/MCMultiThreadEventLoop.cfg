\* Two workers, a queue that just holds their tasks, three connections, and a
\* signal anywhere except between the choice of a loop and runInLoop.
CONSTANTS
  w1 = w1
  w2 = w2
  Workers = {w1, w2}
  Main = Main
  NoThread = NoThread
  NoTask = NoTask
  QueueSize = 2
  MaxConns = 3
  SignalAt = {"idle", "push", "ready", "epoll"}

SPECIFICATION Spec

INVARIANT TypeOK
INVARIANT ClearedLoopsAreLeft
INVARIANT LoopsLostToConnectionsOnly
INVARIANT RoundRobin

PROPERTY ConnectionIsAdded
PROPERTY StartReachesMainLoop
\* The server stops.
CHECK_DEADLOCK FALSE
