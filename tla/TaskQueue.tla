----------------------------- MODULE TaskQueue -----------------------------
(***************************************************************************)
(* The bounded blocking queue of reactor/TaskQueue.cc: push waits while    *)
(* the queue is full, pop while it is empty, and wakeUp, which writes      *)
(* _notExit without holding _mutex, releases the waiting pops.             *)
(*                                                                         *)
(* pc[t] says where thread t is: "push" and "pop" stand for a thread that  *)
(* is about to take _mutex and (re-)evaluate its while condition,          *)
(* "pushWait" and "popWait" for one parked on _notFull and _notEmpty.      *)
(* push evaluates isFull() and acts on it under _mutex, in one step.  pop  *)
(* also reads _notExit, twice, which wakeUp may change in between.         *)
(***************************************************************************)
EXTENDS Naturals, Sequences

CONSTANTS QueueSize,  \* _queueSize
          NoThread,   \* the owner of a free mutex
          NoTask      \* the nullptr that pop returns when exiting

VARIABLES
  queue,    \* _queue
  notExit,  \* _notExit
  mutex,    \* owner of _mutex while a pop holds it across steps, or NoThread
  pc,       \* where each thread is
  item,     \* the task each thread is pushing, or has popped
  added,    \* history: every task pushed, in order
  taken     \* history: every task popped, in order

queueVars == <<queue, notExit, mutex, pc, item, added, taken>>

\* Mutant: one slot is kept free.
FullOneEarly == Len(queue) + 1 = QueueSize

Full == Len(queue) = QueueSize

\* The values pc may have after notify_one on the condition variable whose
\* waiters are at label from: one of them goes back to label to.
NotifyOne(f, from, to) ==
  LET waiting == {t \in DOMAIN f : f[t] = from}
  IN  IF waiting = {} THEN {f} ELSE {[f EXCEPT ![t] = to] : t \in waiting}

\* ... and after notify_all.
NotifyAll(f, from, to) == [t \in DOMAIN f |-> IF f[t] = from THEN to ELSE f[t]]

-----------------------------------------------------------------------------
\* Mutant: the new task is not announced on _notEmpty.
PushWithoutNotify(t) ==
  /\ pc[t] = "push"
  /\ mutex = NoThread
  /\ \/ /\ Full
        /\ pc' = [pc EXCEPT ![t] = "pushWait"]
        /\ UNCHANGED <<queue, added>>
     \/ /\ ~Full
        /\ queue' = Append(queue, item[t])
        /\ added' = Append(added, item[t])
        /\ pc' = [pc EXCEPT ![t] = "idle"]
  /\ UNCHANGED <<notExit, mutex, item, taken>>

\* push: wait while the queue is full, else enqueue and notify one pop.
Push(t) ==
  /\ pc[t] = "push"
  /\ mutex = NoThread
  /\ \/ /\ Full
        /\ pc' = [pc EXCEPT ![t] = "pushWait"]
        /\ UNCHANGED <<queue, added>>
     \/ /\ ~Full
        /\ queue' = Append(queue, item[t])
        /\ added' = Append(added, item[t])
        /\ pc' \in NotifyOne([pc EXCEPT ![t] = "idle"], "popWait", "pop")
  /\ UNCHANGED <<notExit, mutex, item, taken>>

\* pop: lock and evaluate isEmpty() & _notExit.
Pop(t) ==
  /\ pc[t] = "pop"
  /\ mutex = NoThread
  /\ mutex' = t
  /\ pc' = [pc EXCEPT ![t] = IF queue = <<>> /\ notExit THEN "popPark" ELSE "popTake"]
  /\ UNCHANGED <<queue, notExit, item, added, taken>>

\* pop: _notEmpty.wait releases the lock and parks the thread.
PopPark(t) ==
  /\ pc[t] = "popPark"
  /\ mutex' = NoThread
  /\ pc' = [pc EXCEPT ![t] = "popWait"]
  /\ UNCHANGED <<queue, notExit, item, added, taken>>

\* Mutant: the front is copied but not popped.
TakeWithoutPop(t) ==
  /\ pc[t] = "popTake"
  /\ mutex' = NoThread
  /\ item' = [item EXCEPT ![t] = IF notExit THEN Head(queue) ELSE NoTask]
  /\ taken' = IF notExit THEN Append(taken, Head(queue)) ELSE taken
  /\ pc' = [pc EXCEPT ![t] = "popped"]
  /\ UNCHANGED <<queue, notExit, added>>

\* Mutant: a slot has become free, but no waiting push is told.
TakeWithoutNotify(t) ==
  /\ pc[t] = "popTake"
  /\ mutex' = NoThread
  /\ item' = [item EXCEPT ![t] = IF notExit THEN Head(queue) ELSE NoTask]
  /\ queue' = IF notExit THEN Tail(queue) ELSE queue
  /\ taken' = IF notExit THEN Append(taken, Head(queue)) ELSE taken
  /\ pc' = [pc EXCEPT ![t] = "popped"]
  /\ UNCHANGED <<notExit, added>>

\* Mutant: the nullptr returned when exiting is counted as a task.
TakeNullAsTask(t) ==
  /\ pc[t] = "popTake"
  /\ mutex' = NoThread
  /\ item' = [item EXCEPT ![t] = IF notExit THEN Head(queue) ELSE NoTask]
  /\ queue' = IF notExit THEN Tail(queue) ELSE queue
  /\ taken' = Append(taken, item'[t])
  /\ pc' = [pc EXCEPT ![t] = "popped"]
  /\ UNCHANGED <<notExit, added>>

\* pop: read _notExit again; dequeue and notify one push, or give up.
PopTake(t) ==
  /\ pc[t] = "popTake"
  /\ mutex' = NoThread
  /\ \/ /\ notExit
        /\ item' = [item EXCEPT ![t] = Head(queue)]
        /\ queue' = Tail(queue)
        /\ taken' = Append(taken, Head(queue))
        /\ pc' \in NotifyOne([pc EXCEPT ![t] = "popped"], "pushWait", "push")
     \/ /\ ~notExit
        /\ item' = [item EXCEPT ![t] = NoTask]
        /\ pc' = [pc EXCEPT ![t] = "popped"]
        /\ UNCHANGED <<queue, taken>>
  /\ UNCHANGED <<notExit, added>>

\* Mutant: "if" instead of "while": a woken pop does not look again.
SpuriousWithoutRecheck(t) ==
  /\ \/ /\ pc[t] = "pushWait"
        /\ pc' = [pc EXCEPT ![t] = "push"]
        /\ UNCHANGED mutex
     \/ /\ pc[t] = "popWait"
        /\ mutex = NoThread
        /\ mutex' = t
        /\ pc' = [pc EXCEPT ![t] = "popTake"]
  /\ UNCHANGED <<queue, notExit, item, added, taken>>

\* A condition variable may wake a thread without a notification.
SpuriousWakeUp(t) ==
  /\ \/ /\ pc[t] = "pushWait"
        /\ pc' = [pc EXCEPT ![t] = "push"]
     \/ /\ pc[t] = "popWait"
        /\ pc' = [pc EXCEPT ![t] = "pop"]
  /\ UNCHANGED <<queue, notExit, mutex, item, added, taken>>

\* wakeUp, its two statements, neither of them under _mutex.
ClearNotExit(t) ==
  /\ pc[t] = "clearNotExit"
  /\ notExit' = FALSE
  /\ pc' = [pc EXCEPT ![t] = "notifyAll"]
  /\ UNCHANGED <<queue, mutex, item, added, taken>>

NotifyAllPops(t) ==
  /\ pc[t] = "notifyAll"
  /\ pc' = NotifyAll([pc EXCEPT ![t] = "join"], "popWait", "pop")
  /\ UNCHANGED <<queue, notExit, mutex, item, added, taken>>
=============================================================================
