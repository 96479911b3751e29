\* Two adders and two workers over a queue of a single slot: both condition
\* variables get two waiters.
CONSTANTS
  a1 = a1
  a2 = a2
  w1 = w1
  w2 = w2
  Workers = {w1, w2}
  Adders = {a1, a2}
  Main = Main
  NoThread = NoThread
  NoTask = NoTask
  QueueSize = 1
  MaxTasks = 2

SPECIFICATION Spec

INVARIANT TypeOK
INVARIANT FrontNeverOnEmpty
INVARIANT FifoWithinBound
INVARIANT DrainedWhenStopped

PROPERTY AddTaskReturns
PROPERTY QueuedTaskRuns
\* The pool stops.
CHECK_DEADLOCK FALSE
