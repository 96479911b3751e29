\* As in MCMultiThreadEventLoop.cfg: a client may connect as soon as the server
\* listens, before the workers have drawn their loops.
CONSTANTS
  w1 = w1
  w2 = w2
  Workers = {w1, w2}
  Main = Main
  NoThread = NoThread
  NoTask = NoTask
  QueueSize = 2
  MaxConns = 3
  SignalAt = {"idle", "push", "ready", "epoll"}

SPECIFICATION Spec

INVARIANT AssertionHolds

\* The server stops.
CHECK_DEADLOCK FALSE
