-------------------------- MODULE ThreadPoolProofs --------------------------
(***************************************************************************)
(* Proofs about ThreadPool and its TaskQueue, for any number of workers,   *)
(* adders and tasks and any queue size: a worker never calls front() on an *)
(* empty queue, the queue is a bounded FIFO that loses and repeats         *)
(* nothing, spurious wakeups and the unlocked write of _notExit included,  *)
(* and stop returns when its backlog has been executed.                    *)
(***************************************************************************)
EXTENDS ThreadPool, SequenceTheorems, TLAPS

\* The labels of TypeOK.
Label == {"notCreated", "check", "pop", "popPark", "popWait", "popTake",
          "popped", "exited", "idle", "push", "pushWait", "constructed",
          "started", "drain", "setIsExit", "clearNotExit", "notifyAll",
          "join", "stopped"}

\* A worker between pop's test and its wait or dequeue holds the lock.
LockHeld == \A w \in Workers : pc[w] \in {"popPark", "popTake"} => mutex = w

\* Only an adder that has a task in hand is inside push.
PushHasTask ==
  \A t \in Threads : pc[t] \in {"push", "pushWait"} => t \in Adders /\ item[t] \in Task

\* FrontNeverOnEmpty is not inductive: it needs to know that no other thread
\* changes the queue between the test and the dequeue.
IInv == /\ TypeOK
        /\ LockHeld
        /\ PushHasTask
        /\ FrontNeverOnEmpty
        /\ FifoWithinBound

-----------------------------------------------------------------------------
\* notify_one changes at most the label of one waiter.
LEMMA NotifyOneEffect ==
  ASSUME NEW S, NEW f \in [Threads -> S], NEW from, NEW to \in S,
         NEW g \in NotifyOne(f, from, to)
  PROVE  /\ g \in [Threads -> S]
         /\ \A t \in Threads : g[t] = f[t] \/ (f[t] = from /\ g[t] = to)
BY DEF NotifyOne

\* IInv holds before the pool is started.
LEMMA InitInv == Init => IInv
<1> SUFFICES ASSUME Init PROVE IInv
  OBVIOUS
<1>1. pc \in [Threads -> Label]
  BY DEF Init, Threads, Label
<1>2. TypeOK
  <2>1. /\ item \in [Workers \cup Adders -> Task \cup {NoTask}]
        /\ calls \in [Adders -> 0..MaxTasks]
    BY ThreadPoolAssumption DEF Init
  <2>2. /\ <<>> \in Seq(Task)
        /\ backlog \in Nat
        /\ mutex \in Workers \cup {NoThread}
    BY EmptySeq DEF Init
  <2> QED  BY <1>1, <2>1, <2>2 DEF Init, TypeOK, Label
<1>3. \A t \in Threads : pc[t] \in {"notCreated", "idle", "constructed"}
  BY DEF Init, Threads
<1>4. LockHeld /\ PushHasTask /\ FrontNeverOnEmpty
  BY <1>3 DEF LockHeld, PushHasTask, FrontNeverOnEmpty, Threads
<1>5. FifoWithinBound
  BY ThreadPoolAssumption DEF Init, FifoWithinBound
<1> QED  BY <1>2, <1>4, <1>5 DEF IInv

-----------------------------------------------------------------------------
\* An adder's steps keep IInv: a push finds the lock free, so no worker is
\* between its test and its dequeue.
LEMMA AdderStepInv ==
  ASSUME IInv, NEW a \in Adders, AdderStep(a)
  PROVE  IInv'
<1> USE DEF IInv, TypeOK
<1>a. a \in Threads /\ \A w \in Workers : w \in Threads /\ w # a
  BY ThreadPoolAssumption DEF Threads
<1>b. NoThread \notin Workers
  BY ThreadPoolAssumption
<1>1. CASE AddTask(a)
  <2>1. <<a, calls[a] + 1>> \in Task
    BY <1>1, ThreadPoolAssumption DEF AddTask, Task
  <2>2. TypeOK'
    BY <1>1, <1>a, <2>1, ThreadPoolAssumption DEF AddTask
  <2>3. LockHeld' /\ PushHasTask' /\ FrontNeverOnEmpty' /\ FifoWithinBound'
    BY <1>1, <1>a, <2>1 DEF AddTask, LockHeld, PushHasTask, FrontNeverOnEmpty,
                            FifoWithinBound, Threads
  <2> QED  BY <2>2, <2>3
<1>2. CASE PushTask(a)
  <2>1. CASE Full /\ pc' = [pc EXCEPT ![a] = "pushWait"] /\ UNCHANGED <<queue, added>>
    BY <1>2, <2>1, <1>a DEF PushTask, Push, poolVars, LockHeld, PushHasTask,
                            FrontNeverOnEmpty, FifoWithinBound
  <2>2. CASE ~Full
    <3>1. item[a] \in Task
      BY <1>2, <1>a DEF PushTask, Push, PushHasTask
    <3>2. /\ queue' = Append(queue, item[a])
          /\ added' = Append(added, item[a])
          /\ pc' \in NotifyOne([pc EXCEPT ![a] = "idle"], "popWait", "pop")
          /\ mutex = NoThread
          /\ UNCHANGED <<notExit, mutex, item, taken, isExit, calls, executed, backlog>>
      BY <1>2, <2>2 DEF PushTask, Push, poolVars
    <3>3. /\ pc' \in [Threads -> Label]
          /\ \A t \in Threads : pc'[t] # pc[t] => pc'[t] \in {"idle", "pop"}
      <4> DEFINE f == [pc EXCEPT ![a] = "idle"]
      <4>1. f \in [Threads -> Label] /\ \A t \in Threads : f[t] = pc[t] \/ f[t] = "idle"
        BY DEF Label
      <4>2. pc' \in NotifyOne(f, "popWait", "pop") /\ "pop" \in Label
        BY <3>2 DEF Label
      <4> HIDE DEF f
      <4>3. /\ pc' \in [Threads -> Label]
            /\ \A t \in Threads : pc'[t] = f[t] \/ pc'[t] = "pop"
        BY ONLY <4>1, <4>2, NotifyOneEffect
      <4> QED  BY <4>1, <4>3
    <3>4. queue' \in Seq(Task) /\ added' \in Seq(Task)
      BY <3>1, <3>2, AppendProperties
    <3>5. TypeOK'
      BY <3>2, <3>3, <3>4 DEF Label
    <3>6. LockHeld' /\ PushHasTask'
      BY <3>2, <3>3, <1>a DEF LockHeld, PushHasTask
    <3>7. FrontNeverOnEmpty'
      BY <3>2, <3>3, <1>a, <1>b DEF FrontNeverOnEmpty, LockHeld
    <3>8. FifoWithinBound'
      <4>1. <<item[a]>> \in Seq(Task)
        BY <3>1
      <4>2. added' = (taken \o queue) \o <<item[a]>> /\ queue' = queue \o <<item[a]>>
        BY <3>1, <3>2, AppendIsConcat DEF FifoWithinBound
      <4>3. (taken \o queue) \o <<item[a]>> = taken \o (queue \o <<item[a]>>)
        <5>1. taken \in Seq(Task) /\ queue \in Seq(Task)
          OBVIOUS
        <5> QED  BY ONLY <4>1, <5>1, ConcatAssociative
      <4>4. Len(queue') <= QueueSize
        BY <2>2, <3>1, <3>2, AppendProperties, LenProperties, ThreadPoolAssumption
           DEF Full, FifoWithinBound
      <4> QED  BY <3>2, <4>2, <4>3, <4>4 DEF FifoWithinBound
    <3> QED  BY <3>5, <3>6, <3>7, <3>8
  <2> QED  BY <1>2, <2>1, <2>2 DEF PushTask, Push
<1> QED  BY <1>1, <1>2 DEF AdderStep

-----------------------------------------------------------------------------
\* A worker's steps keep IInv.
LEMMA WorkerStepInv ==
  ASSUME IInv, NEW w \in Workers, WorkerStep(w)
  PROVE  IInv'
<1> USE DEF IInv, TypeOK
<1>a. w \in Threads /\ w \in Workers \cup Adders /\ Workers \subseteq Threads
  BY DEF Threads
<1>b. w \notin Adders /\ NoThread \notin Workers
  BY ThreadPoolAssumption
<1>1. CASE CheckExit(w)
  BY <1>1, <1>a DEF CheckExit, poolVars, LockHeld, PushHasTask, FrontNeverOnEmpty,
                    FifoWithinBound
<1>2. CASE RunTask(w)
  <2>1. TypeOK'
    BY <1>2, <1>a DEF RunTask
  <2>2. LockHeld' /\ FrontNeverOnEmpty' /\ FifoWithinBound'
    BY <1>2, <1>a DEF RunTask, LockHeld, FrontNeverOnEmpty, FifoWithinBound
  <2>3. PushHasTask'
    BY <1>2, <1>a, <1>b DEF RunTask, PushHasTask
  <2> QED  BY <2>1, <2>2, <2>3
<1>3. CASE Pop(w) /\ UNCHANGED poolVars
  BY <1>3, <1>a, <1>b DEF Pop, poolVars, LockHeld, PushHasTask, FrontNeverOnEmpty,
                          FifoWithinBound
<1>4. CASE PopPark(w) /\ UNCHANGED poolVars
  BY <1>4, <1>a, <1>b DEF PopPark, poolVars, LockHeld, PushHasTask, FrontNeverOnEmpty,
                          FifoWithinBound
<1>5. CASE PopTake(w) /\ UNCHANGED poolVars
  <2>0. mutex = w /\ \A v \in Workers \ {w} : pc[v] \notin {"popPark", "popTake"}
    BY <1>5, <1>a DEF PopTake, LockHeld
  <2>1. CASE notExit
    <3>1. queue # <<>>
      BY <1>5, <2>1 DEF PopTake, FrontNeverOnEmpty
    <3>2. /\ mutex' = NoThread
          /\ item' = [item EXCEPT ![w] = Head(queue)]
          /\ queue' = Tail(queue)
          /\ taken' = Append(taken, Head(queue))
          /\ pc' \in NotifyOne([pc EXCEPT ![w] = "popped"], "pushWait", "push")
          /\ UNCHANGED <<notExit, added, isExit, calls, executed, backlog>>
      BY <1>5, <2>1 DEF PopTake, poolVars
    <3>3. Head(queue) \in Task /\ Tail(queue) \in Seq(Task) /\ Len(Tail(queue)) = Len(queue) - 1
      BY <3>1, HeadTailProperties
    <3>4. /\ pc' \in [Threads -> Label]
          /\ pc'[w] = "popped"
          /\ \A t \in Threads : pc'[t] = pc[t] \/ t = w \/ (pc[t] = "pushWait" /\ pc'[t] = "push")
      <4> DEFINE f == [pc EXCEPT ![w] = "popped"]
      <4>1. /\ f \in [Threads -> Label]
            /\ f[w] = "popped"
            /\ \A t \in Threads \ {w} : f[t] = pc[t]
        BY <1>a DEF Label
      <4>2. pc' \in NotifyOne(f, "pushWait", "push") /\ "push" \in Label
        BY <3>2 DEF Label
      <4> HIDE DEF f
      <4>3. /\ pc' \in [Threads -> Label]
            /\ \A t \in Threads : pc'[t] = f[t] \/ (f[t] = "pushWait" /\ pc'[t] = "push")
        BY ONLY <4>1, <4>2, NotifyOneEffect
      <4> QED  BY <4>1, <4>3, <1>a
    <3>5. TypeOK'
      <4>1. taken' \in Seq(Task)
        BY <3>2, <3>3, AppendProperties
      <4> QED  BY <3>2, <3>3, <3>4, <4>1, <1>a DEF Label
    <3>6. LockHeld' /\ FrontNeverOnEmpty'
      BY <3>2, <3>4, <2>0, <1>a DEF LockHeld, FrontNeverOnEmpty
    <3>7. PushHasTask'
      BY <3>2, <3>4, <1>a, <1>b DEF PushHasTask
    <3>8. FifoWithinBound'
      <4>1. <<Head(queue)>> \in Seq(Task) /\ queue = <<Head(queue)>> \o Tail(queue)
        BY <3>1, <3>3
      <4>2. taken' = taken \o <<Head(queue)>>
        BY <3>2, <3>3, AppendIsConcat
      <4>3. taken' \o queue' = taken \o queue
        <5>1. taken \in Seq(Task) /\ Tail(queue) \in Seq(Task) /\ queue' = Tail(queue)
          BY <3>2, <3>3
        <5> QED  BY ONLY <4>1, <4>2, <5>1, ConcatAssociative
      <4>4. Len(queue') <= QueueSize
        BY <3>2, <3>3, LenProperties, ThreadPoolAssumption DEF FifoWithinBound
      <4> QED  BY <3>2, <4>3, <4>4 DEF FifoWithinBound
    <3> QED  BY <3>5, <3>6, <3>7, <3>8
  <2>2. CASE ~notExit
    <3>1. /\ mutex' = NoThread
          /\ item' = [item EXCEPT ![w] = NoTask]
          /\ pc' = [pc EXCEPT ![w] = "popped"]
          /\ UNCHANGED <<queue, taken, notExit, added, isExit, calls, executed, backlog>>
      BY <1>5, <2>2 DEF PopTake, poolVars
    <3>2. TypeOK'
      BY <3>1, <1>a
    <3>3. LockHeld' /\ FrontNeverOnEmpty' /\ FifoWithinBound'
      BY <3>1, <2>0, <1>a DEF LockHeld, FrontNeverOnEmpty, FifoWithinBound
    <3>4. PushHasTask'
      BY <3>1, <1>a, <1>b DEF PushHasTask
    <3> QED  BY <3>2, <3>3, <3>4
  <2> QED  BY <2>1, <2>2
<1> QED  BY <1>1, <1>2, <1>3, <1>4, <1>5 DEF WorkerStep, GetTask

-----------------------------------------------------------------------------
\* The controlling thread's steps and spurious wakeups keep IInv: clearing
\* _notExit only weakens what pop relies on.
LEMMA MainStepInv ==
  ASSUME IInv, Start \/ Stop \/ StopStep \/ Spurious \/ UNCHANGED vars
  PROVE  IInv'
<1> USE DEF IInv, TypeOK
<1>a. Main \in Threads /\ Main \notin Workers \cup Adders /\ Workers \subseteq Threads
  BY ThreadPoolAssumption DEF Threads
<1>b. ASSUME NEW from \in {"popWait"}
      PROVE  NotifyAll([pc EXCEPT ![Main] = "join"], from, "pop") \in [Threads -> Label]
  BY DEF NotifyAll, Label
<1>1. CASE Start
  <2>1. pc' \in [Threads -> Label]
    BY <1>1 DEF Start, Label
  <2>2. \A t \in Threads : pc'[t] \in {"check", "started"} \/ pc'[t] = pc[t]
    BY <1>1 DEF Start
  <2>3. UNCHANGED <<queue, notExit, mutex, item, added, taken, isExit, calls, executed, backlog>>
    BY <1>1 DEF Start, poolVars
  <2>4. TypeOK'
    BY <2>1, <2>3 DEF Label
  <2> QED  BY <2>2, <2>3, <2>4, <1>a DEF LockHeld, PushHasTask, FrontNeverOnEmpty, FifoWithinBound
<1>2. CASE Stop
  <2>1. /\ Len(added) \in Nat
        /\ pc' = [pc EXCEPT ![Main] = "drain"]
        /\ backlog' = Len(added)
        /\ UNCHANGED <<queue, notExit, mutex, item, added, taken, isExit, calls, executed>>
    BY <1>2, LenProperties DEF Stop
  <2>2. TypeOK'
    BY <2>1, <1>a
  <2>3. LockHeld' /\ PushHasTask' /\ FrontNeverOnEmpty' /\ FifoWithinBound'
    BY <2>1, <1>a DEF LockHeld, PushHasTask, FrontNeverOnEmpty, FifoWithinBound
  <2> QED  BY <2>2, <2>3
<1>3. CASE DrainDone \/ SetIsExit \/ Join
  <2>1. /\ \E l \in {"setIsExit", "clearNotExit", "stopped"} : pc' = [pc EXCEPT ![Main] = l]
        /\ isExit' \in BOOLEAN
        /\ UNCHANGED <<queue, notExit, mutex, item, added, taken, calls, executed, backlog>>
    BY <1>3 DEF DrainDone, SetIsExit, Join, poolVars
  <2>2. TypeOK'
    BY <2>1, <1>a
  <2>3. LockHeld' /\ PushHasTask' /\ FrontNeverOnEmpty' /\ FifoWithinBound'
    BY <2>1, <1>a DEF LockHeld, PushHasTask, FrontNeverOnEmpty, FifoWithinBound
  <2> QED  BY <2>2, <2>3
<1>4. CASE ClearNotExit(Main) /\ UNCHANGED poolVars
  BY <1>4, <1>a DEF ClearNotExit, poolVars, LockHeld, PushHasTask, FrontNeverOnEmpty,
                    FifoWithinBound
<1>5. CASE NotifyAllPops(Main) /\ UNCHANGED poolVars
  <2>1. pc' \in [Threads -> Label]
    BY <1>5, <1>b DEF NotifyAllPops
  <2>2. \A t \in Threads : pc'[t] \in {"join", "pop"} \/ pc'[t] = pc[t]
    BY <1>5, <1>a DEF NotifyAllPops, NotifyAll
  <2>3. UNCHANGED <<queue, notExit, mutex, item, added, taken, isExit, calls, executed, backlog>>
    BY <1>5 DEF NotifyAllPops, poolVars
  <2>4. TypeOK'
    BY <2>1, <2>3 DEF Label
  <2> QED  BY <2>2, <2>3, <2>4, <1>a DEF LockHeld, PushHasTask, FrontNeverOnEmpty, FifoWithinBound
<1>6. CASE Spurious
  <2>1. PICK t \in Workers \cup Adders : SpuriousWakeUp(t) /\ UNCHANGED poolVars
    BY <1>6 DEF Spurious
  <2>2. t \in Threads
    BY DEF Threads
  <2> QED  BY <2>1, <2>2, <1>a DEF SpuriousWakeUp, poolVars, LockHeld, PushHasTask,
                                   FrontNeverOnEmpty, FifoWithinBound
<1>7. CASE UNCHANGED vars
  BY <1>7 DEF vars, queueVars, poolVars, LockHeld, PushHasTask, FrontNeverOnEmpty, FifoWithinBound
<1> QED
  BY <1>1, <1>2, <1>3, <1>4, <1>5, <1>6, <1>7 DEF StopStep, WakeUpQueue

\* IInv is an invariant of every behaviour.
LEMMA Inductive == Safety => []IInv
<1>1. IInv /\ [Next]_vars => IInv'
  BY AdderStepInv, WorkerStepInv, MainStepInv DEF Next
<1> QED  BY <1>1, InitInv, PTL DEF Safety

\* The type invariant, for any threads, tasks and queue size.
THEOREM TypeCorrect == Safety => []TypeOK
BY Inductive, PTL DEF IInv

\* No worker ever takes the front of an empty queue.
THEOREM NoFrontOfEmptyQueue == Safety => []FrontNeverOnEmpty
BY Inductive, PTL DEF IInv

\* The queue is a FIFO of at most _queueSize tasks that loses and repeats none.
THEOREM BoundedFifo == Safety => []FifoWithinBound
BY Inductive, PTL DEF IInv

-----------------------------------------------------------------------------
(* The drain of stop.                                                      *)

\* A task taken has been executed, or a worker is executing it.
TakenRun ==
  \A i \in 1..Len(taken) :
    taken[i] \in executed \/ \E w \in Workers : pc[w] = "popped" /\ item[w] = taken[i]

\* The backlog has been pushed; it has been taken once the queue has been
\* seen empty; workers exist from start until they are joined.
BacklogInv ==
  /\ backlog <= Len(added)
  /\ pc[Main] \in {"setIsExit", "clearNotExit", "notifyAll", "join", "stopped"}
       => backlog <= Len(taken)
  /\ pc[Main] = "stopped" => \A w \in Workers : pc[w] = "exited"
  /\ pc[Main] = "constructed" => \A w \in Workers : pc[w] = "notCreated"
  /\ TakenRun

\* A step that takes and executes nothing, and leaves those who execute alone.
LEMMA DrainFrame ==
  ASSUME BacklogInv, UNCHANGED <<taken, executed, backlog>>,
         added' = added \/ (Len(added) \in Nat /\ Len(added') = Len(added) + 1 /\ backlog \in Nat),
         pc'[Main] \in {pc[Main], "started", "pop", "push"},
         \A w \in Workers : /\ pc[w] = "popped" => pc'[w] = "popped" /\ item'[w] = item[w]
                            /\ pc[w] \in {"notCreated", "exited"} => pc'[w] = pc[w]
  PROVE  BacklogInv'
<1>1. TakenRun'
  BY DEF BacklogInv, TakenRun
<1> QED  BY <1>1 DEF BacklogInv

\* The workers' steps: a task taken is in hand until it has been executed.
LEMMA WorkerDrain ==
  ASSUME IInv, BacklogInv, NEW w \in Workers, WorkerStep(w)
  PROVE  BacklogInv'
<1> USE DEF IInv, TypeOK
<1>a. /\ w \in Threads /\ w \in Workers \cup Adders /\ Workers \subseteq Threads
      /\ Main \in Threads /\ w # Main
  BY ThreadPoolAssumption DEF Threads
<1>b. NoTask \notin Task
  BY ThreadPoolAssumption DEF Task
<1>1. CASE CheckExit(w) \/ ((Pop(w) \/ PopPark(w)) /\ UNCHANGED poolVars)
  <2>1. /\ UNCHANGED <<taken, executed, backlog, added, item>>
        /\ pc'[Main] = pc[Main]
        /\ \A v \in Workers : pc[v] \in {"popped", "notCreated", "exited"} => pc'[v] = pc[v]
    BY <1>1, <1>a DEF CheckExit, Pop, PopPark, poolVars
  <2> QED  BY <2>1, DrainFrame
<1>2. CASE RunTask(w)
  <2>1. /\ UNCHANGED <<taken, backlog, added>>
        /\ pc[w] = "popped" /\ pc'[Main] = pc[Main]
        /\ \A v \in Workers \ {w} : pc'[v] = pc[v] /\ item'[v] = item[v]
        /\ executed' = executed \cup ({item[w]} \ {NoTask})
    BY <1>2, <1>a DEF RunTask
  <2>2. TakenRun'
    <3> SUFFICES ASSUME NEW i \in 1..Len(taken)
                 PROVE  \/ taken[i] \in executed'
                        \/ \E v \in Workers : pc'[v] = "popped" /\ item'[v] = taken[i]
      BY <2>1 DEF TakenRun
    <3>1. taken[i] \in Task
      BY ElementOfSeq
    <3>2. taken[i] \in executed \/ \E v \in Workers : pc[v] = "popped" /\ item[v] = taken[i]
      BY DEF BacklogInv, TakenRun
    <3>3. CASE taken[i] \in executed
      BY <2>1, <3>3
    <3>4. ASSUME NEW v \in Workers, pc[v] = "popped", item[v] = taken[i]
          PROVE  \/ taken[i] \in executed'
                 \/ \E u \in Workers : pc'[u] = "popped" /\ item'[u] = taken[i]
      BY ONLY <2>1, <3>1, <3>4, <1>b
    <3> QED  BY <3>2, <3>3, <3>4
  <2> QED  BY <2>1, <2>2 DEF BacklogInv
<1>3. CASE PopTake(w) /\ UNCHANGED poolVars
  <2>0. pc[w] = "popTake" /\ UNCHANGED <<added, executed, backlog>>
    BY <1>3 DEF PopTake, poolVars
  <2>1. /\ pc'[w] = "popped" /\ pc'[Main] \in {pc[Main], "push"}
        /\ \A v \in Workers \ {w} : pc[v] \in {"popped", "notCreated", "exited"} => pc'[v] = pc[v]
    BY <1>3, <1>a DEF PopTake, NotifyOne
  <2>2. \A v \in Workers \ {w} : item'[v] = item[v]
    BY <1>3, <1>a DEF PopTake
  <2>3. CASE notExit
    <3>1. queue # <<>>
      BY <2>0, <2>3 DEF FrontNeverOnEmpty
    <3>2. taken' = Append(taken, Head(queue)) /\ item'[w] = Head(queue)
      BY <1>3, <2>3, <1>a DEF PopTake
    <3>3. /\ Len(taken') = Len(taken) + 1 /\ Len(taken) \in Nat
          /\ \A i \in 1..Len(taken) : taken'[i] = taken[i]
          /\ taken'[Len(taken) + 1] = Head(queue)
      <4>1. Head(queue) \in Task
        BY <3>1, HeadTailProperties
      <4> QED  BY <3>2, <4>1, AppendProperties, LenProperties
    <3>4. TakenRun'
      <4> SUFFICES ASSUME NEW i \in 1..Len(taken')
                   PROVE  \/ taken'[i] \in executed
                          \/ \E v \in Workers : pc'[v] = "popped" /\ item'[v] = taken'[i]
        BY <2>0 DEF TakenRun
      <4>1. CASE i = Len(taken) + 1
        BY <2>1, <3>2, <3>3, <4>1
      <4>2. CASE i \in 1..Len(taken)
        <5>1. taken[i] \in executed \/ \E v \in Workers : pc[v] = "popped" /\ item[v] = taken[i]
          BY <4>2 DEF BacklogInv, TakenRun
        <5> QED  BY ONLY <2>0, <2>1, <2>2, <3>3, <4>2, <5>1
      <4> QED  BY <3>3, <4>1, <4>2
    <3>5. backlog \in Nat
      OBVIOUS
    <3> QED  BY <2>0, <2>1, <3>3, <3>4, <3>5 DEF BacklogInv
  <2>4. CASE ~notExit
    <3>1. taken' = taken
      BY <1>3, <2>4 DEF PopTake
    <3>2. TakenRun
      BY DEF BacklogInv
    <3>3. TakenRun'
      BY ONLY <2>0, <2>1, <2>2, <3>1, <3>2 DEF TakenRun
    <3> QED  BY <2>0, <2>1, <3>1, <3>3 DEF BacklogInv
  <2> QED  BY <2>3, <2>4
<1> QED  BY <1>1, <1>2, <1>3 DEF WorkerStep, GetTask

\* The steps of the other threads.
LEMMA OtherDrain ==
  ASSUME IInv, BacklogInv,
         (\E a \in Adders : AdderStep(a)) \/ Start \/ Stop \/ StopStep \/ Spurious \/ UNCHANGED vars
  PROVE  BacklogInv'
<1> USE DEF IInv, TypeOK
<1>a. /\ Main \in Threads /\ Main \notin Workers \cup Adders /\ Workers \subseteq Threads
      /\ \A a \in Adders : a \in Threads /\ a \notin Workers
  BY ThreadPoolAssumption DEF Threads
<1>b. Len(added) \in Nat /\ Len(taken) \in Nat
  BY LenProperties
<1>1. ASSUME NEW a \in Adders, AdderStep(a) PROVE BacklogInv'
  <2>1. UNCHANGED <<taken, executed, backlog>>
    BY <1>1 DEF AdderStep, AddTask, PushTask, Push, poolVars
  <2>2. added' = added \/ Len(added') = Len(added) + 1
    <3>1. CASE AddTask(a)
      BY <3>1 DEF AddTask
    <3>2. CASE PushTask(a)
      <4>1. item[a] \in Task
        BY <3>2, <1>a DEF PushTask, Push, PushHasTask
      <4> QED  BY <3>2, <4>1, AppendProperties DEF PushTask, Push
    <3> QED  BY <1>1, <3>1, <3>2 DEF AdderStep
  <2>3. /\ pc'[Main] \in {pc[Main], "pop"}
        /\ \A w \in Workers : pc[w] \in {"popped", "notCreated", "exited"} => pc'[w] = pc[w]
    <3>1. PICK l \in {"push", "pushWait", "idle"} :
            pc' = [pc EXCEPT ![a] = l] \/ pc' \in NotifyOne([pc EXCEPT ![a] = l], "popWait", "pop")
      BY <1>1 DEF AdderStep, AddTask, PushTask, Push
    <3> DEFINE f == [pc EXCEPT ![a] = l]
    <3>2. f \in [Threads -> Label \cup {l}] /\ f[Main] = pc[Main] /\ \A w \in Workers : f[w] = pc[w]
      BY <1>a DEF Label
    <3>3. pc' = f \/ pc' \in NotifyOne(f, "popWait", "pop")
      BY <3>1
    <3> HIDE DEF f
    <3>4. \A t \in Threads : pc'[t] = f[t] \/ (f[t] = "popWait" /\ pc'[t] = "pop")
      BY ONLY <3>2, <3>3 DEF NotifyOne
    <3> QED  BY ONLY <1>a, <3>2, <3>4
  <2>4. \A w \in Workers : item'[w] = item[w]
    BY <1>1, <1>a DEF AdderStep, AddTask, PushTask, Push
  <2> QED  BY <2>1, <2>2, <2>3, <2>4, <1>b, DrainFrame
<1>2. CASE Start
  <2>1. /\ UNCHANGED <<taken, executed, backlog, added, item>>
        /\ pc[Main] = "constructed" /\ pc'[Main] = "started"
    BY <1>2, <1>a DEF Start, poolVars
  <2>2. \A w \in Workers : pc[w] = "notCreated"
    BY <2>1 DEF BacklogInv
  <2>3. TakenRun'
    <3>1. \A j \in 1..Len(taken) : taken[j] \in executed
      BY <2>2 DEF BacklogInv, TakenRun
    <3> QED  BY <2>1, <3>1 DEF TakenRun
  <2> QED  BY <2>1, <2>3 DEF BacklogInv
<1>3. CASE Stop
  <2>1. /\ UNCHANGED <<taken, executed, added, item>> /\ backlog' = Len(added)
        /\ pc'[Main] = "drain" /\ \A w \in Workers : pc'[w] = pc[w]
    BY <1>3, <1>a DEF Stop
  <2>2. TakenRun'
    BY <2>1 DEF BacklogInv, TakenRun
  <2> QED  BY <2>1, <2>2, <1>b DEF BacklogInv
<1>4. CASE DrainDone
  <2>1. /\ UNCHANGED <<taken, executed, added, item, backlog>> /\ queue = <<>>
        /\ pc'[Main] = "setIsExit" /\ \A w \in Workers : pc'[w] = pc[w]
    BY <1>4, <1>a DEF DrainDone, poolVars
  <2>2. Len(taken) = Len(added)
    BY <2>1, ConcatEmptySeq DEF FifoWithinBound
  <2>3. TakenRun'
    BY <2>1 DEF BacklogInv, TakenRun
  <2> QED  BY <2>1, <2>2, <2>3 DEF BacklogInv
<1>5. CASE SetIsExit \/ (ClearNotExit(Main) /\ UNCHANGED poolVars)
  <2>1. /\ UNCHANGED <<taken, executed, added, item, backlog>>
        /\ pc[Main] \in {"setIsExit", "clearNotExit"}
        /\ pc'[Main] \in {"clearNotExit", "notifyAll"} /\ \A w \in Workers : pc'[w] = pc[w]
    BY <1>5, <1>a DEF SetIsExit, ClearNotExit, poolVars
  <2>2. TakenRun'
    BY <2>1 DEF BacklogInv, TakenRun
  <2> QED  BY <2>1, <2>2 DEF BacklogInv
<1>6. CASE NotifyAllPops(Main) /\ UNCHANGED poolVars
  <2>1. /\ UNCHANGED <<taken, executed, added, item, backlog>>
        /\ pc[Main] = "notifyAll" /\ pc'[Main] = "join"
        /\ \A w \in Workers : pc[w] \in {"popped", "notCreated", "exited"} => pc'[w] = pc[w]
    BY <1>6, <1>a DEF NotifyAllPops, NotifyAll, poolVars
  <2>2. TakenRun'
    BY <2>1 DEF BacklogInv, TakenRun
  <2> QED  BY <2>1, <2>2 DEF BacklogInv
<1>7. CASE Join
  <2>1. /\ UNCHANGED <<taken, executed, added, item, backlog>>
        /\ pc[Main] = "join" /\ pc'[Main] = "stopped"
        /\ \A w \in Workers : pc[w] = "exited" /\ pc'[w] = pc[w]
    BY <1>7, <1>a DEF Join, poolVars
  <2>2. TakenRun'
    BY <2>1 DEF BacklogInv, TakenRun
  <2> QED  BY <2>1, <2>2 DEF BacklogInv
<1>8. CASE Spurious
  <2>1. PICK t \in Workers \cup Adders : SpuriousWakeUp(t) /\ UNCHANGED poolVars
    BY <1>8 DEF Spurious
  <2>2. /\ UNCHANGED <<taken, executed, added, item, backlog>> /\ pc'[Main] = pc[Main]
        /\ \A w \in Workers : pc[w] \in {"popped", "notCreated", "exited"} => pc'[w] = pc[w]
    BY <2>1, <1>a DEF SpuriousWakeUp, poolVars, Threads
  <2> QED  BY <2>2, DrainFrame
<1>9. CASE UNCHANGED vars
  BY <1>9 DEF vars, queueVars, poolVars, BacklogInv, TakenRun
<1> QED
  BY <1>1, <1>2, <1>3, <1>4, <1>5, <1>6, <1>7, <1>8, <1>9 DEF StopStep, WakeUpQueue

\* A task pushed before stop was called has been executed when stop returns.
THEOREM StopDrains == Safety => []DrainedWhenStopped
<1>1. Init => BacklogInv
  BY ThreadPoolAssumption DEF Init, BacklogInv, TakenRun, Threads
<1>2. IInv /\ BacklogInv /\ [Next]_vars => BacklogInv'
  BY WorkerDrain, OtherDrain DEF Next
<1>3. IInv /\ BacklogInv => DrainedWhenStopped
  <2> SUFFICES ASSUME IInv, BacklogInv, pc[Main] = "stopped", NEW i \in 1..backlog
               PROVE  added[i] \in executed
    BY DEF DrainedWhenStopped
  <2>1. taken \in Seq(Task) /\ queue \in Seq(Task) /\ backlog \in Nat /\ added = taken \o queue
    BY DEF IInv, TypeOK, FifoWithinBound
  <2>2. i \in 1..Len(taken)
    BY <2>1, LenProperties DEF BacklogInv
  <2>3. added[i] = taken[i]
    BY <2>1, <2>2, ConcatProperties
  <2> QED  BY <2>2, <2>3 DEF BacklogInv, TakenRun
<1> QED  BY <1>1, <1>2, <1>3, Inductive, PTL DEF Safety
=============================================================================
