\* One adder, one worker: the write of _notExit falls between the test in pop
\* and the wait.
CONSTANTS
  a1 = a1
  w1 = w1
  Workers = {w1}
  Adders = {a1}
  Main = Main
  NoThread = NoThread
  NoTask = NoTask
  QueueSize = 1
  MaxTasks = 1

SPECIFICATION Spec

PROPERTY StopReturns


\* The pool stops.
CHECK_DEADLOCK FALSE
