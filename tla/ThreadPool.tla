----------------------------- MODULE ThreadPool -----------------------------
(***************************************************************************)
(* reactor/ThreadPool.cc on top of TaskQueue: worker threads that run      *)
(* doTask, threads that call addTask, and the thread that calls start and  *)
(* stop.  stop polls isEmpty() without the lock until it sees the queue    *)
(* empty, sets _isExit, calls wakeUp and joins the workers.                *)
(***************************************************************************)
EXTENDS TaskQueue

CONSTANTS Workers,   \* the threads start() creates
          Adders,    \* the threads that call addTask
          Main,      \* the thread that calls start and stop
          MaxTasks   \* bound on the calls of addTask of one adder

ASSUME ThreadPoolAssumption ==
  /\ QueueSize \in Nat \ {0}
  /\ MaxTasks \in Nat
  /\ Workers \cap Adders = {}
  /\ Main \notin Workers \cup Adders
  /\ NoThread \notin Workers \cup Adders \cup {Main}
  /\ NoTask \notin Adders \X (1..MaxTasks)

VARIABLES
  isExit,     \* _isExit
  calls,      \* number of calls of addTask by each adder
  executed,   \* history: the tasks whose call has returned
  backlog     \* history: number of tasks pushed when stop was called

poolVars == <<isExit, calls, executed, backlog>>
vars == <<queueVars, poolVars>>

Threads == Workers \cup Adders \cup {Main}
Task == Adders \X (1..MaxTasks)

Init == /\ queue = <<>>
        /\ notExit = TRUE
        /\ mutex = NoThread
        /\ pc = [t \in Threads |-> CASE t \in Workers -> "notCreated"
                                     [] t \in Adders  -> "idle"
                                     [] OTHER         -> "constructed"]
        /\ item = [t \in Workers \cup Adders |-> NoTask]
        /\ added = <<>>
        /\ taken = <<>>
        /\ isExit = FALSE
        /\ calls = [a \in Adders |-> 0]
        /\ executed = {}
        /\ backlog = 0

-----------------------------------------------------------------------------
(* Threads that add tasks.                                                 *)

AddTask(a) ==
  /\ pc[a] = "idle"
  /\ calls[a] < MaxTasks
  /\ calls' = [calls EXCEPT ![a] = @ + 1]
  /\ item' = [item EXCEPT ![a] = <<a, calls[a] + 1>>]
  /\ pc' = [pc EXCEPT ![a] = "push"]
  /\ UNCHANGED <<queue, notExit, mutex, added, taken, isExit, executed, backlog>>

PushTask(a) == Push(a) /\ UNCHANGED poolVars

-----------------------------------------------------------------------------
(* Worker threads: doTask.                                                 *)

\* while(!_isExit)
CheckExit(w) ==
  /\ pc[w] = "check"
  /\ pc' = [pc EXCEPT ![w] = IF isExit THEN "exited" ELSE "pop"]
  /\ UNCHANGED <<queue, notExit, mutex, item, added, taken, poolVars>>

\* getTask
GetTask(w) == (Pop(w) \/ PopPark(w) \/ PopTake(w)) /\ UNCHANGED poolVars

\* if(task) task(); and back to the loop's condition.
RunTask(w) ==
  /\ pc[w] = "popped"
  /\ executed' = executed \cup ({item[w]} \ {NoTask})
  /\ item' = [item EXCEPT ![w] = NoTask]
  /\ pc' = [pc EXCEPT ![w] = "check"]
  /\ UNCHANGED <<queue, notExit, mutex, added, taken, isExit, calls, backlog>>

-----------------------------------------------------------------------------
(* The controlling thread.                                                 *)

\* start: create the workers.
Start ==
  /\ pc[Main] = "constructed"
  /\ pc' = [t \in Threads |-> CASE t \in Workers -> "check"
                                [] t = Main      -> "started"
                                [] OTHER         -> pc[t]]
  /\ UNCHANGED <<queue, notExit, mutex, item, added, taken, poolVars>>

\* stop is called; its first statement is the polling loop.
Stop ==
  /\ pc[Main] = "started"
  /\ pc' = [pc EXCEPT ![Main] = "drain"]
  /\ backlog' = Len(added)
  /\ UNCHANGED <<queue, notExit, mutex, item, added, taken, isExit, calls, executed>>

\* Mutant: stop does not wait for the queue to empty.
StopWithoutDrain ==
  /\ pc[Main] = "drain"
  /\ pc' = [pc EXCEPT ![Main] = "setIsExit"]
  /\ UNCHANGED <<queue, notExit, mutex, item, added, taken, poolVars>>

\* stop: isEmpty() has been seen to hold.
DrainDone ==
  /\ pc[Main] = "drain"
  /\ queue = <<>>
  /\ pc' = [pc EXCEPT ![Main] = "setIsExit"]
  /\ UNCHANGED <<queue, notExit, mutex, item, added, taken, poolVars>>

\* stop: _isExit = true.
SetIsExit ==
  /\ pc[Main] = "setIsExit"
  /\ isExit' = TRUE
  /\ pc' = [pc EXCEPT ![Main] = "clearNotExit"]
  /\ UNCHANGED <<queue, notExit, mutex, item, added, taken, calls, executed, backlog>>

\* stop: _taskQueue.wakeUp().
WakeUpQueue == (ClearNotExit(Main) \/ NotifyAllPops(Main)) /\ UNCHANGED poolVars

\* stop: every worker has been joined.
Join ==
  /\ pc[Main] = "join"
  /\ \A w \in Workers : pc[w] = "exited"
  /\ pc' = [pc EXCEPT ![Main] = "stopped"]
  /\ UNCHANGED <<queue, notExit, mutex, item, added, taken, poolVars>>

-----------------------------------------------------------------------------
AdderStep(a) == AddTask(a) \/ PushTask(a)
WorkerStep(w) == CheckExit(w) \/ GetTask(w) \/ RunTask(w)
StopStep == DrainDone \/ SetIsExit \/ WakeUpQueue \/ Join
Spurious == \E t \in Workers \cup Adders : SpuriousWakeUp(t) /\ UNCHANGED poolVars

Next == \/ \E a \in Adders : AdderStep(a)
        \/ \E w \in Workers : WorkerStep(w)
        \/ Start \/ Stop \/ StopStep
        \/ Spurious

Safety == Init /\ [][Next]_vars

(***************************************************************************)
(* Threads are scheduled, and one that keeps asking for _mutex eventually  *)
(* gets it (strong fairness, since others may hold it in between).  Nobody *)
(* has to add a task or to call stop, and wakeups without a notification   *)
(* are never relied on.                                                    *)
(***************************************************************************)
Fairness ==
  /\ WF_vars(Start)
  /\ WF_vars(StopStep)
  /\ \A a \in Adders : SF_vars(PushTask(a))
  /\ \A w \in Workers : WF_vars(WorkerStep(w)) /\ SF_vars(GetTask(w))

Spec == Safety /\ Fairness

-----------------------------------------------------------------------------
TypeOK ==
  /\ queue \in Seq(Task)
  /\ notExit \in BOOLEAN
  /\ mutex \in Workers \cup {NoThread}
  /\ pc \in [Threads -> {"notCreated", "check", "pop", "popPark", "popWait", "popTake",
                         "popped", "exited", "idle", "push", "pushWait", "constructed",
                         "started", "drain", "setIsExit", "clearNotExit", "notifyAll",
                         "join", "stopped"}]
  /\ item \in [Workers \cup Adders -> Task \cup {NoTask}]
  /\ added \in Seq(Task)
  /\ taken \in Seq(Task)
  /\ isExit \in BOOLEAN
  /\ calls \in [Adders -> 0..MaxTasks]
  /\ executed \subseteq Task
  /\ backlog \in Nat

\* front() is never called on an empty queue, although wakeUp writes
\* _notExit between the two reads of it in pop (TaskQueue::pop).
FrontNeverOnEmpty ==
  \A w \in Workers : pc[w] = "popTake" /\ notExit => queue # <<>>

\* Exactly once, in order, and never more than _queueSize: the tasks pushed
\* are those popped followed by those queued (TaskQueue::push and pop).
FifoWithinBound == added = taken \o queue /\ Len(queue) <= QueueSize

\* A task pushed before stop was called has been executed when stop returns
\* (the polling loop of ThreadPool::stop, and the join).
DrainedWhenStopped ==
  pc[Main] = "stopped" => \A i \in 1..backlog : added[i] \in executed

\* A thread in addTask gets its task into the queue, unless the pool is told
\* to stop (the two notify_one calls pair the waiters correctly).
AddTaskReturns ==
  \A a \in Adders : pc[a] = "push" ~> (pc[a] = "idle" \/ isExit)

\* A queued task is executed, unless the pool is told to stop.
QueuedTaskRuns ==
  \A t \in Task : (\E i \in DOMAIN queue : queue[i] = t) ~> (t \in executed \/ isExit)

\* "Decide to exit, wake up every thread waiting for a task" (the comment on
\* _notExit = false in TaskQueue::wakeUp): stop gets every worker to exit.
StopReturns == pc[Main] = "drain" ~> pc[Main] = "stopped"
=============================================================================
