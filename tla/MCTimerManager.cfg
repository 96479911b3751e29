\* Three timers, so that one id can stand between two others; delays and
\* intervals of different lengths; callbacks that take up to two ticks.
CONSTANTS
  Delays = {0, 2}
  Intervals = {1, 2}
  MaxTimers = 3
  MaxLag = 2
  MaxAge = 3

SPECIFICATION Spec

INVARIANT TypeOK
INVARIANT NeverEarly
INVARIANT LateOnlyBehindLowerId
INVARIANT RemovedByHandlerIsGone

PROPERTY EveryTimerIsTaken
