\* Two callers, two functors each: every interleaving of two pushes with the
\* eventfd read, the swap and the batch.
CONSTANTS
  c1 = c1
  c2 = c2
  Callers = {c1, c2}
  NoThread = NoThread
  MaxPosts = 2

SPECIFICATION Spec

INVARIANT TypeOK
INVARIANT NoLostWakeup
INVARIANT ExactlyOnceInOrder

PROPERTY EveryFunctorRuns
PROPERTY ImplementsMailbox
\* All MaxPosts calls made and run: the bound ends the behaviour.
CHECK_DEADLOCK FALSE
