--------------------- MODULE MultiThreadEventLoopProofs ---------------------
(***************************************************************************)
(* Proofs about MultiThreadEventLoop, for any number of workers, any queue *)
(* size and any number of connections, whenever they come: stop never      *)
(* destroys a loop that a worker runs, wherever the signal arrives; workers *)
(* lose their loops to early connections only; and the loops are drawn in  *)
(* turn.                                                                   *)
(***************************************************************************)
EXTENDS MultiThreadEventLoop, SequenceLemmas, FiniteSetTheorems

\* The labels of the workers, of stop, and of the main thread.
WorkerLabel == {"notCreated", "check", "pop", "popPark", "popWait", "popTake",
                "popped", "enterLoop", "loop", "exited"}
StopLabel == {"unloop", "drain", "setIsExit", "clearNotExit", "notifyAll", "join"}
MainLabel == StopLabel \cup {"constructed", "idle", "push", "pushWait", "ready",
                             "epoll", "dispatch", "returned"}

\* Each thread keeps to its own code.
Places == pc[Main] \in MainLabel /\ \A w \in Workers : pc[w] \in WorkerLabel

\* The histories and the queue: no more tasks than sub loops, none made up.
History == /\ added \in Seq(1..ThreadNum) /\ taken \in Seq(1..ThreadNum)
           /\ Len(added) = Len(taken) + Len(queue)
           /\ Len(added) <= ThreadNum

\* A worker between pop's test and its wait or dequeue holds the lock, and
\* finds a task if it goes on to dequeue.
PopInv == \A w \in Workers :
            /\ pc[w] \in {"popPark", "popTake"} => mutex = w
            /\ pc[w] = "popTake" /\ notExit => queue # <<>>

\* The main thread has a task of its own in hand inside push, in the handler
\* that has interrupted push too.
PushInv == pc[Main] \in {"push", "pushWait"} \/ resume = "push"
             => item[Main] \in 1..ThreadNum /\ Len(added) < ThreadNum

\* The handler knows where to return to, and has loops left to unloop.
StopInv == /\ pc[Main] \in StopLabel <=> resume # "none"
           /\ pc[Main] = "unloop" => unlooped < ThreadNum
           /\ running \/ pc[Main] = "constructed" => unlooped = 0
           /\ pc[Main] \in StopLabel => ~running
           /\ pc[Main] \in {"clearNotExit", "notifyAll", "join"} => isExit

\* After the join a worker can only be created, see _isExit and exit.
ClearedInv == cleared => /\ isExit
                         /\ \A w \in Workers : pc[w] \in {"notCreated", "check", "exited"}

\* The workers that have a task and have not drawn their loop yet.
InHand == {w \in Workers : pc[w] = "popped" /\ item[w] # NoTask}

\* A number is drawn at most once for each task taken and each connection.
Drawn == nextLoopIndex + Cardinality(InHand) <= Len(taken) + accepted

\* The connection that is being given to a loop has been accepted.
Dispatching == pc[Main] = "dispatch" => accepted > 0

IInv == /\ TypeOK
        /\ Places /\ History /\ PopInv /\ PushInv /\ StopInv
        /\ ClearedInv /\ Drawn /\ Dispatching

\* Once a connection has been accepted nobody is to draw a loop any more, unless
\* connections have drawn some of the first numbers.
AllDrawn == early = {} /\ accepted > 0 => InHand = {} /\ (Len(taken) = ThreadNum \/ cleared)

\* Each of the first numbers that has been drawn has given its loop a thread or
\* has gone to a connection.
LoopsTaken == \A l \in SubLoops : l < nextLoopIndex => runners[l] > 0 \/ l \in early

\* The workers' loops are numbers drawn, and each other's.
OwnLoops == /\ \A w \in Workers : RunsLoop(w) => at[w] \in SubLoops /\ at[w] < nextLoopIndex
            /\ OneThreadPerLoop
            /\ \A w \in Workers : pc[w] = "loop" => threadId[at[w]] = w

LInv == /\ AllDrawn /\ LoopsTaken
        /\ early = {} => OwnLoops /\ AssertionHolds

-----------------------------------------------------------------------------
\* There is at least one worker, hence a sub loop.
LEMMA Numbers == /\ ThreadNum \in Nat \ {0}
                 /\ MaxConns \in Nat
                 /\ NoTask \notin 1..ThreadNum
                 /\ NoThread \notin Workers /\ Main \notin Workers
BY MultiThreadEventLoopAssumption, FS_CardinalityType, FS_EmptySet DEF ThreadNum

\* notify_one changes at most the label of one waiter.
LEMMA NotifyOneEffect ==
  ASSUME NEW S, NEW f \in [Threads -> S], NEW from, NEW to \in S,
         NEW g \in NotifyOne(f, from, to)
  PROVE  /\ g \in [Threads -> S]
         /\ \A t \in Threads : g[t] = f[t] \/ (f[t] = from /\ g[t] = to)
BY DEF NotifyOne

\* Only finitely many workers have a task in hand.
LEMMA InHandFinite == IsFiniteSet(InHand) /\ Cardinality(InHand) \in Nat
BY MultiThreadEventLoopAssumption, FS_Subset, FS_CardinalityType DEF InHand

\* InHand looks only at the workers that hold what pop returned.
LEMMA InHandKept ==
  ASSUME \A w \in Workers : /\ pc'[w] = "popped" <=> pc[w] = "popped"
                            /\ pc[w] = "popped" => item'[w] = item[w]
  PROVE  InHand' = InHand
BY DEF InHand

\* IInv holds before start.
LEMMA InitInv == Init => IInv
<1> SUFFICES ASSUME Init PROVE IInv
  OBVIOUS
<1> USE Numbers
<1>1. TypeOK
  <2>1. <<>> \in Seq(1..ThreadNum) /\ <<>> \in Seq(Conn)
    BY EmptySeq
  <2>2. 0 \in Loops
    BY DEF Loops, SubLoops
  <2>4. runners \in [SubLoops -> Nat] /\ early \subseteq SubLoops
    BY DEF Init
  <2>5. /\ isLooping \in [Loops -> BOOLEAN] /\ threadId \in [Loops -> Threads \cup {NoThread}]
        /\ pendings \in [Loops -> Seq(Conn)] /\ conns \in [Loops -> SUBSET Conn]
        /\ at \in [Threads -> Loops]
        /\ item \in [Threads -> 1..ThreadNum \cup {NoTask}]
    BY <2>1, <2>2 DEF Init
  <2>6. /\ nextLoopIndex \in 0..(ThreadNum + MaxConns) /\ accepted \in 0..MaxConns
        /\ unlooped \in 0..ThreadNum
    BY DEF Init
  <2> QED  BY <2>1, <2>4, <2>5, <2>6 DEF Init, TypeOK
<1>2. pc[Main] = "constructed" /\ \A w \in Workers : pc[w] = "notCreated"
  BY DEF Init, Threads
<1>3. Places /\ PopInv /\ PushInv /\ StopInv /\ ClearedInv /\ Dispatching
  BY <1>2 DEF Init, Places, PopInv, PushInv, StopInv, ClearedInv, Dispatching,
              MainLabel, StopLabel, WorkerLabel
<1>4. History
  BY EmptySeq DEF Init, History
<1>5. Drawn
  <2>1. InHand = {}
    BY <1>2 DEF InHand
  <2> QED  BY <2>1, FS_EmptySet DEF Init, Drawn
<1> QED  BY <1>1, <1>3, <1>4, <1>5 DEF IInv

-----------------------------------------------------------------------------
\* A step of the main thread that leaves queue and workers alone.
LEMMA MainMoves ==
  ASSUME IInv, NEW l \in MainLabel, pc' = [pc EXCEPT ![Main] = l],
         \A w \in Workers : item'[w] = item[w],
         UNCHANGED <<queue, mutex, added, taken>>,
         notExit' => notExit
  PROVE  /\ pc'[Main] = l /\ \A w \in Workers : pc'[w] = pc[w]
         /\ pc' \in [Threads -> MainLabel \cup WorkerLabel]
         /\ Places' /\ PopInv' /\ History'
         /\ InHand' = InHand
<1> USE Numbers DEF IInv
<1>1. /\ pc'[Main] = l /\ \A w \in Workers : pc'[w] = pc[w]
      /\ pc' \in [Threads -> MainLabel \cup WorkerLabel]
  BY DEF TypeOK, Threads, MainLabel, StopLabel, WorkerLabel
<1>2. InHand' = InHand
  BY <1>1, InHandKept
<1>3. Places' /\ PopInv' /\ History'
  BY <1>1 DEF Places, PopInv, History
<1> QED  BY <1>1, <1>2, <1>3

\* The labels of TypeOK are those of the two kinds of threads.
LEMMA Labels ==
  MainLabel \cup WorkerLabel =
    {"notCreated", "check", "pop", "popPark", "popWait", "popTake",
     "popped", "enterLoop", "loop", "exited", "constructed", "idle",
     "push", "pushWait", "ready", "epoll", "dispatch", "returned",
     "unloop", "drain", "setIsExit", "clearNotExit", "notifyAll", "join"}
BY DEF MainLabel, StopLabel, WorkerLabel

\* The steps of start other than those that push a task or create a worker,
\* and the steps of the main loop.
LEMMA MainLoopInv ==
  ASSUME IInv, Start \/ AddThreadTask \/ Ready \/ EnterMainLoop \/ MainLoopStep \/ Accept
  PROVE  IInv'
<1> USE Numbers
<1>a. Main \in Threads /\ \A w \in Workers : w \in Threads /\ w # Main
  BY DEF Threads
<1>b. SignalAt \subseteq {"idle", "push", "ready", "epoll"}
  BY MultiThreadEventLoopAssumption
<1>1. CASE Start
  <2>1. /\ pc' = [pc EXCEPT ![Main] = "idle"]
        /\ pc[Main] = "constructed" /\ running' = TRUE
        /\ UNCHANGED <<queue, notExit, mutex, item, added, taken, isExit, nextLoopIndex, runners, early,
                       isLooping, threadId, pendings, conns, at>>
        /\ UNCHANGED <<unlooped, resume, cleared, accepted, aborted>>
    BY <1>1 DEF Start, Goto, loopVars, drawVars, stopVars, poolVars
  <2>2. /\ pc'[Main] = "idle" /\ \A w \in Workers : pc'[w] = pc[w]
        /\ pc' \in [Threads -> MainLabel \cup WorkerLabel]
        /\ Places' /\ PopInv' /\ History'
        /\ InHand' = InHand
    <3>1. "idle" \in MainLabel /\ \A w \in Workers : item'[w] = item[w]
      BY <2>1, <1>a DEF MainLabel, StopLabel, IInv, TypeOK
    <3> QED  BY <2>1, <3>1, MainMoves
  <2>3. TypeOK'
    BY <2>1, <2>2, Labels, <1>a DEF IInv, TypeOK
  <2>4. PushInv' /\ StopInv' /\ ClearedInv' /\ Drawn' /\ Dispatching'
    BY <2>1, <2>2, <1>a, <1>b DEF IInv, TypeOK, PushInv, StopInv, ClearedInv, Drawn, Dispatching,
       StopLabel
  <2> QED  BY <2>2, <2>3, <2>4 DEF IInv
<1>2. CASE AddThreadTask
  <2>1. /\ pc' = [pc EXCEPT ![Main] = "push"]
        /\ pc[Main] = "idle" /\ Len(added) < ThreadNum
        /\ item' = [item EXCEPT ![Main] = Len(added) + 1]
        /\ UNCHANGED <<queue, notExit, mutex, added, taken, isExit, nextLoopIndex, runners, early,
                       isLooping, threadId, pendings, conns, at>>
        /\ UNCHANGED <<running, unlooped, resume, cleared, accepted, aborted>>
    BY <1>2 DEF AddThreadTask, Goto, loopVars, drawVars, stopVars, poolVars
  <2>2. /\ pc'[Main] = "push" /\ \A w \in Workers : pc'[w] = pc[w]
        /\ pc' \in [Threads -> MainLabel \cup WorkerLabel]
        /\ Places' /\ PopInv' /\ History'
        /\ InHand' = InHand
    <3>1. "push" \in MainLabel /\ \A w \in Workers : item'[w] = item[w]
      BY <2>1, <1>a DEF MainLabel, StopLabel, IInv, TypeOK
    <3> QED  BY <2>1, <3>1, MainMoves
  <2>a. Len(added) + 1 \in 1..ThreadNum
    BY <2>1, LenProperties DEF IInv, History
  <2>3. TypeOK'
    BY <2>1, <2>2, <2>a, Labels, <1>a DEF IInv, TypeOK
  <2>4. PushInv' /\ StopInv' /\ ClearedInv' /\ Drawn' /\ Dispatching'
    BY <2>1, <2>2, <2>a, <1>a, <1>b DEF IInv, TypeOK, PushInv, StopInv, ClearedInv, Drawn, Dispatching,
       StopLabel
  <2> QED  BY <2>2, <2>3, <2>4 DEF IInv
<1>3. CASE Ready
  <2>1. /\ pc' = [pc EXCEPT ![Main] = "ready"]
        /\ pc[Main] = "idle"
        /\ UNCHANGED <<queue, notExit, mutex, item, added, taken, isExit, nextLoopIndex, runners, early,
                       isLooping, threadId, pendings, conns, at>>
        /\ UNCHANGED <<running, unlooped, resume, cleared, accepted, aborted>>
    BY <1>3 DEF Ready, Goto, loopVars, drawVars, stopVars, poolVars
  <2>2. /\ pc'[Main] = "ready" /\ \A w \in Workers : pc'[w] = pc[w]
        /\ pc' \in [Threads -> MainLabel \cup WorkerLabel]
        /\ Places' /\ PopInv' /\ History'
        /\ InHand' = InHand
    <3>1. "ready" \in MainLabel /\ \A w \in Workers : item'[w] = item[w]
      BY <2>1, <1>a DEF MainLabel, StopLabel, IInv, TypeOK
    <3> QED  BY <2>1, <3>1, MainMoves
  <2>3. TypeOK'
    BY <2>1, <2>2, Labels, <1>a DEF IInv, TypeOK
  <2>4. PushInv' /\ StopInv' /\ ClearedInv' /\ Drawn' /\ Dispatching'
    BY <2>1, <2>2, <1>a, <1>b DEF IInv, TypeOK, PushInv, StopInv, ClearedInv, Drawn, Dispatching,
       StopLabel
  <2> QED  BY <2>2, <2>3, <2>4 DEF IInv
<1>4. CASE EnterMainLoop
  <2>1. /\ pc' = [pc EXCEPT ![Main] = "epoll"]
        /\ pc[Main] = "ready"
        /\ threadId' = [threadId EXCEPT ![MainLoop] = Main]
        /\ isLooping' = [isLooping EXCEPT ![MainLoop] = TRUE]
        /\ UNCHANGED <<queue, notExit, mutex, item, added, taken, isExit, nextLoopIndex, runners, early,
                       pendings, conns, at>>
        /\ UNCHANGED <<running, unlooped, resume, cleared, accepted, aborted>>
    BY <1>4 DEF EnterMainLoop, Goto, loopVars, drawVars, stopVars, poolVars
  <2>2. /\ pc'[Main] = "epoll" /\ \A w \in Workers : pc'[w] = pc[w]
        /\ pc' \in [Threads -> MainLabel \cup WorkerLabel]
        /\ Places' /\ PopInv' /\ History'
        /\ InHand' = InHand
    <3>1. "epoll" \in MainLabel /\ \A w \in Workers : item'[w] = item[w]
      BY <2>1, <1>a DEF MainLabel, StopLabel, IInv, TypeOK
    <3> QED  BY <2>1, <3>1, MainMoves
  <2>3. TypeOK'
    BY <2>1, <2>2, Labels, <1>a DEF IInv, TypeOK
  <2>4. PushInv' /\ StopInv' /\ ClearedInv' /\ Drawn' /\ Dispatching'
    BY <2>1, <2>2, <1>a, <1>b DEF IInv, TypeOK, PushInv, StopInv, ClearedInv, Drawn, Dispatching,
       StopLabel
  <2> QED  BY <2>2, <2>3, <2>4 DEF IInv
<1>5. CASE ExitMainLoop
  <2>1. /\ pc' = [pc EXCEPT ![Main] = "returned"]
        /\ pc[Main] = "epoll"
        /\ UNCHANGED <<queue, notExit, mutex, item, added, taken, isExit, nextLoopIndex, runners, early,
                       isLooping, threadId, pendings, conns, at>>
        /\ UNCHANGED <<running, unlooped, resume, cleared, accepted, aborted>>
    BY <1>5 DEF ExitMainLoop, Goto, loopVars, drawVars, stopVars, poolVars
  <2>2. /\ pc'[Main] = "returned" /\ \A w \in Workers : pc'[w] = pc[w]
        /\ pc' \in [Threads -> MainLabel \cup WorkerLabel]
        /\ Places' /\ PopInv' /\ History'
        /\ InHand' = InHand
    <3>1. "returned" \in MainLabel /\ \A w \in Workers : item'[w] = item[w]
      BY <2>1, <1>a DEF MainLabel, StopLabel, IInv, TypeOK
    <3> QED  BY <2>1, <3>1, MainMoves
  <2>3. TypeOK'
    BY <2>1, <2>2, Labels, <1>a DEF IInv, TypeOK
  <2>4. PushInv' /\ StopInv' /\ ClearedInv' /\ Drawn' /\ Dispatching'
    BY <2>1, <2>2, <1>a, <1>b DEF IInv, TypeOK, PushInv, StopInv, ClearedInv, Drawn, Dispatching,
       StopLabel
  <2> QED  BY <2>2, <2>3, <2>4 DEF IInv
<1>6. CASE RunInLoop
  <2>1. /\ pc' = [pc EXCEPT ![Main] = "epoll"]
        /\ pc[Main] = "dispatch"
        /\ \/ /\ conns' = [conns EXCEPT ![at[Main]] = @ \cup {accepted}]
              /\ UNCHANGED pendings
           \/ /\ pendings' = [pendings EXCEPT ![at[Main]] = Append(@, accepted)]
              /\ UNCHANGED conns
        /\ UNCHANGED <<queue, notExit, mutex, item, added, taken, isExit, nextLoopIndex, runners, early,
                       isLooping, threadId, at>>
        /\ UNCHANGED <<running, unlooped, resume, cleared, accepted, aborted>>
    BY <1>6 DEF RunInLoop, Goto, loopVars, drawVars, stopVars, poolVars
  <2>2. /\ pc'[Main] = "epoll" /\ \A w \in Workers : pc'[w] = pc[w]
        /\ pc' \in [Threads -> MainLabel \cup WorkerLabel]
        /\ Places' /\ PopInv' /\ History'
        /\ InHand' = InHand
    <3>1. "epoll" \in MainLabel /\ \A w \in Workers : item'[w] = item[w]
      BY <2>1, <1>a DEF MainLabel, StopLabel, IInv, TypeOK
    <3> QED  BY <2>1, <3>1, MainMoves
  <2>a. accepted \in Conn /\ at[Main] \in Loops
    BY <2>1, <1>a DEF IInv, TypeOK, Dispatching, Conn
  <2>b. pendings' \in [Loops -> Seq(Conn)] /\ conns' \in [Loops -> SUBSET Conn]
    <3>1. Append(pendings[at[Main]], accepted) \in Seq(Conn)
      BY <2>a, AppendProperties DEF IInv, TypeOK
    <3>2. pendings \in [Loops -> Seq(Conn)] /\ conns \in [Loops -> SUBSET Conn]
      BY DEF IInv, TypeOK
    <3>3. [pendings EXCEPT ![at[Main]] = Append(@, accepted)] \in [Loops -> Seq(Conn)]
      BY <3>1, <3>2
    <3>4. [conns EXCEPT ![at[Main]] = @ \cup {accepted}] \in [Loops -> SUBSET Conn]
      BY <2>a, <3>2
    <3> QED  BY <2>1, <3>2, <3>3, <3>4
  <2>3. TypeOK'
    BY <2>1, <2>2, <2>b, Labels DEF IInv, TypeOK
  <2>4. PushInv' /\ StopInv' /\ ClearedInv' /\ Drawn' /\ Dispatching'
    BY <2>1, <2>2, <1>a, <1>b DEF IInv, TypeOK, PushInv, StopInv, ClearedInv, Drawn, Dispatching,
       StopLabel
  <2> QED  BY <2>2, <2>3, <2>4 DEF IInv
<1>7. CASE Accept
  <2>1. /\ pc' = [pc EXCEPT ![Main] = "dispatch"]
        /\ pc[Main] = "epoll"
        /\ accepted < MaxConns /\ accepted' = accepted + 1
        /\ \/ /\ at' = [at EXCEPT ![Main] = MainLoop]
              /\ UNCHANGED <<nextLoopIndex, early>>
           \/ /\ at' = [at EXCEPT ![Main] = nextLoopIndex % ThreadNum]
              /\ nextLoopIndex' = nextLoopIndex + 1
              /\ NoteEarly
        /\ UNCHANGED <<queue, notExit, mutex, item, added, taken, isExit, runners, isLooping,
                       threadId, pendings, conns>>
        /\ UNCHANGED <<running, unlooped, resume, cleared, aborted>>
    BY <1>7 DEF Accept, Connect, Goto, loopVars, drawVars, stopVars, poolVars
  <2>2. /\ pc'[Main] = "dispatch" /\ \A w \in Workers : pc'[w] = pc[w]
        /\ pc' \in [Threads -> MainLabel \cup WorkerLabel]
        /\ Places' /\ PopInv' /\ History'
        /\ InHand' = InHand
    <3>1. "dispatch" \in MainLabel /\ \A w \in Workers : item'[w] = item[w]
      BY <2>1, <1>a DEF MainLabel, StopLabel, IInv, TypeOK
    <3> QED  BY <2>1, <3>1, MainMoves
  <2>a. nextLoopIndex % ThreadNum \in Loops /\ MainLoop \in Loops
    BY DEF IInv, TypeOK, Loops, SubLoops
  <2>b. Drawn'
    BY <2>1, <2>2, InHandFinite, LenProperties DEF IInv, TypeOK, History, Drawn
  <2>c. nextLoopIndex' \in 0..(ThreadNum + MaxConns)
    <3>1. nextLoopIndex' \in Nat /\ Len(taken) \in Nat /\ Len(taken) <= ThreadNum
      BY <2>1, LenProperties DEF IInv, TypeOK, History
    <3> QED  BY <2>1, <2>2, <2>b, <3>1, InHandFinite DEF IInv, TypeOK, Drawn
  <2>3. TypeOK'
    <3>1. at' \in [Threads -> Loops]
      BY <2>1, <2>a, <1>a DEF IInv, TypeOK
    <3>2. accepted' \in 0..MaxConns
      BY <2>1 DEF IInv, TypeOK
    <3>3. early' \subseteq SubLoops
      <4>1. early \subseteq SubLoops /\ nextLoopIndex \in Nat
        BY DEF IInv, TypeOK
      <4>2. nextLoopIndex < ThreadNum => nextLoopIndex \in SubLoops
        BY <4>1 DEF SubLoops
      <4>3. early' = early \/ (nextLoopIndex < ThreadNum /\ early' = early \cup {nextLoopIndex})
        BY <2>1 DEF NoteEarly
      <4>4. SubLoops' = SubLoops
        BY DEF SubLoops
      <4> QED  BY <4>1, <4>2, <4>3, <4>4
    <3> QED  BY <2>1, <2>2, <2>c, <3>1, <3>2, <3>3, Labels DEF IInv, TypeOK
  <2>4. PushInv' /\ StopInv' /\ ClearedInv' /\ Drawn' /\ Dispatching'
    BY <2>1, <2>2, <2>b, <1>a DEF IInv, TypeOK, PushInv, StopInv, ClearedInv, Dispatching, StopLabel
  <2> QED  BY <2>2, <2>3, <2>4 DEF IInv
<1> QED  BY <1>1, <1>2, <1>3, <1>4, <1>5, <1>6, <1>7 DEF MainLoopStep

\* The steps of the signal handler, except for the end of wakeUp.
LEMMA StopInvariant ==
  ASSUME IInv, Signal \/ Unloop \/ DrainDone \/ SetIsExit
                 \/ (ClearNotExit(Main) /\ UNCHANGED <<isExit, loopVars, stopVars, accepted, aborted>>)
  PROVE  IInv'
<1> USE Numbers
<1>a. Main \in Threads /\ \A w \in Workers : w \in Threads /\ w # Main
  BY DEF Threads
<1>b. SignalAt \subseteq {"idle", "push", "ready", "epoll"}
  BY MultiThreadEventLoopAssumption
<1>1. CASE Signal
  <2>1. /\ pc' = [pc EXCEPT ![Main] = "unloop"]
        /\ running /\ pc[Main] \in SignalAt
        /\ resume' = pc[Main] /\ running' = FALSE
        /\ isLooping' = [isLooping EXCEPT ![MainLoop] = FALSE]
        /\ UNCHANGED <<queue, notExit, mutex, item, added, taken, nextLoopIndex, runners, early,
                       threadId, pendings, conns, at>>
        /\ UNCHANGED <<isExit, unlooped, cleared, accepted, aborted>>
    BY <1>1 DEF Signal, Goto, loopVars, drawVars, stopVars, poolVars
  <2>2. /\ pc'[Main] = "unloop" /\ \A w \in Workers : pc'[w] = pc[w]
        /\ pc' \in [Threads -> MainLabel \cup WorkerLabel]
        /\ Places' /\ PopInv' /\ History'
        /\ InHand' = InHand
    <3>1. "unloop" \in MainLabel /\ \A w \in Workers : item'[w] = item[w]
      BY <2>1, <1>a DEF MainLabel, StopLabel, IInv, TypeOK
    <3> QED  BY <2>1, <3>1, MainMoves
  <2>3. TypeOK'
    <3>1. resume' \in SignalAt
      BY <2>1
    <3> QED  BY <2>1, <2>2, <3>1, Labels, <1>a DEF IInv, TypeOK
  <2>4. PushInv' /\ StopInv' /\ ClearedInv' /\ Drawn' /\ Dispatching'
    BY <2>1, <2>2, <1>a, <1>b DEF IInv, TypeOK, PushInv, StopInv, ClearedInv, Drawn, Dispatching,
       StopLabel
  <2> QED  BY <2>2, <2>3, <2>4 DEF IInv
<1>2. CASE Unloop
  <2>1. PICK l \in {"unloop", "drain"} :
        /\ pc' = [pc EXCEPT ![Main] = l]
        /\ l = "unloop" <=> unlooped + 1 # ThreadNum
        /\ pc[Main] = "unloop"
        /\ isLooping' = [isLooping EXCEPT ![unlooped] = FALSE]
        /\ unlooped' = unlooped + 1
        /\ UNCHANGED <<queue, notExit, mutex, item, added, taken, nextLoopIndex, runners, early,
                       threadId, pendings, conns, at>>
        /\ UNCHANGED <<isExit, running, resume, cleared, accepted, aborted>>
    BY <1>2 DEF Unloop, Goto, drawVars
  <2>2. /\ pc'[Main] = l /\ \A w \in Workers : pc'[w] = pc[w]
        /\ pc' \in [Threads -> MainLabel \cup WorkerLabel]
        /\ Places' /\ PopInv' /\ History'
        /\ InHand' = InHand
    <3>1. l \in MainLabel /\ \A w \in Workers : item'[w] = item[w]
      BY <2>1 DEF MainLabel, StopLabel
    <3> QED  BY <2>1, <3>1, MainMoves
  <2>a. unlooped \in Nat /\ unlooped < ThreadNum
    BY <2>1 DEF IInv, TypeOK, StopInv
  <2>3. TypeOK'
    <3>1. unlooped' \in 0..ThreadNum
      BY <2>1, <2>a
    <3> QED  BY <2>1, <2>2, <3>1, Labels DEF IInv, TypeOK
  <2>b. ~running
    BY <2>1 DEF IInv, StopInv, StopLabel
  <2>4. PushInv' /\ StopInv' /\ ClearedInv' /\ Drawn' /\ Dispatching'
    BY <2>1, <2>2, <2>a, <2>b DEF IInv, PushInv, StopInv, ClearedInv, Drawn, Dispatching, StopLabel
  <2> QED  BY <2>2, <2>3, <2>4 DEF IInv
<1>3. CASE DrainDone
  <2>1. /\ pc' = [pc EXCEPT ![Main] = "setIsExit"]
        /\ pc[Main] = "drain"
        /\ UNCHANGED <<queue, mutex, item, added, taken, nextLoopIndex, runners, early, isLooping,
                       threadId, pendings, conns, at>>
        /\ UNCHANGED <<notExit, isExit>>
        /\ UNCHANGED <<running, unlooped, resume, cleared, accepted, aborted>>
    BY <1>3 DEF DrainDone, Goto, loopVars, drawVars, stopVars, poolVars
  <2>2. /\ pc'[Main] = "setIsExit" /\ \A w \in Workers : pc'[w] = pc[w]
        /\ pc' \in [Threads -> MainLabel \cup WorkerLabel]
        /\ Places' /\ PopInv' /\ History'
        /\ InHand' = InHand
    <3>1. "setIsExit" \in MainLabel /\ \A w \in Workers : item'[w] = item[w]
      BY <2>1, <1>a DEF MainLabel, StopLabel, IInv, TypeOK
    <3> QED  BY <2>1, <3>1, MainMoves
  <2>3. TypeOK'
    BY <2>1, <2>2, Labels, <1>a DEF IInv, TypeOK
  <2>4. PushInv' /\ StopInv' /\ ClearedInv' /\ Drawn' /\ Dispatching'
    BY <2>1, <2>2, <1>a, <1>b DEF IInv, TypeOK, PushInv, StopInv, ClearedInv, Drawn, Dispatching,
       StopLabel
  <2> QED  BY <2>2, <2>3, <2>4 DEF IInv
<1>4. CASE SetIsExit
  <2>1. /\ pc' = [pc EXCEPT ![Main] = "clearNotExit"]
        /\ pc[Main] = "setIsExit"
        /\ isExit' = TRUE
        /\ UNCHANGED <<queue, mutex, item, added, taken, nextLoopIndex, runners, early, isLooping,
                       threadId, pendings, conns, at>>
        /\ UNCHANGED notExit
        /\ UNCHANGED <<running, unlooped, resume, cleared, accepted, aborted>>
    BY <1>4 DEF SetIsExit, Goto, loopVars, drawVars, stopVars, poolVars
  <2>2. /\ pc'[Main] = "clearNotExit" /\ \A w \in Workers : pc'[w] = pc[w]
        /\ pc' \in [Threads -> MainLabel \cup WorkerLabel]
        /\ Places' /\ PopInv' /\ History'
        /\ InHand' = InHand
    <3>1. "clearNotExit" \in MainLabel /\ \A w \in Workers : item'[w] = item[w]
      BY <2>1, <1>a DEF MainLabel, StopLabel, IInv, TypeOK
    <3> QED  BY <2>1, <3>1, MainMoves
  <2>3. TypeOK'
    BY <2>1, <2>2, Labels, <1>a DEF IInv, TypeOK
  <2>4. PushInv' /\ StopInv' /\ ClearedInv' /\ Drawn' /\ Dispatching'
    BY <2>1, <2>2, <1>a, <1>b DEF IInv, TypeOK, PushInv, StopInv, ClearedInv, Drawn, Dispatching,
       StopLabel
  <2> QED  BY <2>2, <2>3, <2>4 DEF IInv
<1>5. CASE ClearNotExit(Main) /\ UNCHANGED <<isExit, loopVars, stopVars, accepted, aborted>>
  <2>1. /\ pc' = [pc EXCEPT ![Main] = "notifyAll"]
        /\ pc[Main] = "clearNotExit"
        /\ notExit' = FALSE
        /\ UNCHANGED <<queue, mutex, item, added, taken, nextLoopIndex, runners, early, isLooping,
                       threadId, pendings, conns, at>>
        /\ UNCHANGED isExit
        /\ UNCHANGED <<running, unlooped, resume, cleared, accepted, aborted>>
    BY <1>5 DEF ClearNotExit, Goto, loopVars, drawVars, stopVars, poolVars
  <2>2. /\ pc'[Main] = "notifyAll" /\ \A w \in Workers : pc'[w] = pc[w]
        /\ pc' \in [Threads -> MainLabel \cup WorkerLabel]
        /\ Places' /\ PopInv' /\ History'
        /\ InHand' = InHand
    <3>1. "notifyAll" \in MainLabel /\ \A w \in Workers : item'[w] = item[w]
      BY <2>1, <1>a DEF MainLabel, StopLabel, IInv, TypeOK
    <3> QED  BY <2>1, <3>1, MainMoves
  <2>3. TypeOK'
    BY <2>1, <2>2, Labels, <1>a DEF IInv, TypeOK
  <2>4. PushInv' /\ StopInv' /\ ClearedInv' /\ Drawn' /\ Dispatching'
    BY <2>1, <2>2, <1>a, <1>b DEF IInv, TypeOK, PushInv, StopInv, ClearedInv, Drawn, Dispatching,
       StopLabel
  <2> QED  BY <2>2, <2>3, <2>4 DEF IInv
<1> QED  BY <1>1, <1>2, <1>3, <1>4, <1>5

\* The join: the handler returns to where the signal has arrived.
LEMMA JoinInv == ASSUME IInv, Join PROVE IInv'
<1> USE Numbers
<1>a. SignalAt \subseteq {"idle", "push", "ready", "epoll"}
  BY MultiThreadEventLoopAssumption
<1>1. /\ pc' = [pc EXCEPT ![Main] = resume]
      /\ pc[Main] = "join"
      /\ \A w \in Workers : pc[w] \in {"notCreated", "exited"}
      /\ resume' = "none" /\ cleared' = TRUE
      /\ UNCHANGED <<queue, notExit, mutex, item, added, taken, nextLoopIndex, runners, early, isLooping,
                     threadId, pendings, conns, at>>
      /\ UNCHANGED <<isExit, running, unlooped, accepted, aborted>>
  BY DEF Join, Goto, loopVars, drawVars
<1>2. resume \in SignalAt /\ resume # "none"
  BY <1>1 DEF IInv, TypeOK, StopInv, StopLabel
<1>3. /\ pc'[Main] = resume /\ \A w \in Workers : pc'[w] = pc[w]
      /\ pc' \in [Threads -> MainLabel \cup WorkerLabel]
      /\ Places' /\ PopInv' /\ History'
      /\ InHand' = InHand
  <2>1. resume \in MainLabel /\ \A w \in Workers : item'[w] = item[w]
    BY <1>1, <1>2, <1>a DEF MainLabel
  <2> QED  BY <1>1, <2>1, MainMoves
<1>4. TypeOK'
  BY <1>1, <1>3, Labels DEF IInv, TypeOK
<1>5. isExit
  BY <1>1 DEF IInv, StopInv
<1>6. PushInv' /\ StopInv' /\ ClearedInv' /\ Drawn' /\ Dispatching'
  BY <1>1, <1>2, <1>3, <1>5, <1>a DEF IInv, PushInv, StopInv, ClearedInv, Drawn, Dispatching,
     StopLabel
<1> QED  BY <1>3, <1>4, <1>6 DEF IInv

-----------------------------------------------------------------------------
\* Where one worker has moved, the others and the main thread have not.
LEMMA WorkerMoves ==
  ASSUME IInv, NEW w \in Workers, NEW l \in WorkerLabel, pc' = [pc EXCEPT ![w] = l]
  PROVE  /\ pc'[Main] = pc[Main] /\ pc'[w] = l
         /\ \A v \in Workers \ {w} : pc'[v] = pc[v]
         /\ pc' \in [Threads -> MainLabel \cup WorkerLabel]
         /\ Places'
BY Numbers, Labels DEF IInv, TypeOK, Places, Threads

\* What stays of IInv when a worker moves and the rest does not: all but the
\* type, the lock and the count of the numbers drawn.
LEMMA WorkerFrame ==
  ASSUME IInv, pc'[Main] = pc[Main], item'[Main] = item[Main],
         UNCHANGED <<added, isExit, running, unlooped, resume, accepted>>
  PROVE  PushInv' /\ StopInv' /\ Dispatching'
BY DEF IInv, PushInv, StopInv, Dispatching

\* The steps of a worker outside pop.
LEMMA WorkerInv ==
  ASSUME IInv, NEW w \in Workers,
         CreateWorker(w) \/ CheckExit(w) \/ SkipNull(w) \/ EnterLoop(w) \/ ExitLoop(w)
  PROVE  IInv'
<1> USE Numbers
<1>a. /\ w \in Threads /\ Main \in Threads /\ w # Main
      /\ pc[w] \in WorkerLabel /\ NoTask \in 1..ThreadNum \cup {NoTask}
  BY DEF Threads, IInv, Places
<1>b. at[w] \in Loops
  BY <1>a DEF IInv, TypeOK
<1>1. PICK l \in {"check", "exited", "pop", "loop"} :
        /\ pc' = [pc EXCEPT ![w] = l]
        /\ pc[w] # "popped" \/ item[w] = NoTask
        /\ l = "check" \/ l = "exited" \/ ~cleared
        /\ item' = item \/ item' = [item EXCEPT ![w] = NoTask]
        /\ isLooping' \in [Loops -> BOOLEAN]
        /\ threadId' \in [Loops -> Threads \cup {NoThread}]
        /\ UNCHANGED <<queue, notExit, mutex, added, taken, isExit, running, unlooped, resume>>
        /\ UNCHANGED <<nextLoopIndex, runners, early, pendings, conns, at, accepted, aborted, cleared>>
  <2> USE DEF Goto, loopVars, drawVars, stopVars, poolVars
  <2>0. isLooping \in [Loops -> BOOLEAN] /\ threadId \in [Loops -> Threads \cup {NoThread}]
    BY DEF IInv, TypeOK
  <2>1. CASE CreateWorker(w)
    BY <2>0, <2>1 DEF CreateWorker
  <2>2. CASE CheckExit(w)
    BY <2>0, <2>2 DEF CheckExit, IInv, ClearedInv
  <2>3. CASE SkipNull(w)
    BY <2>0, <2>3 DEF SkipNull
  <2>4. CASE EnterLoop(w)
    <3>1. ~cleared
      BY <2>4 DEF EnterLoop, IInv, ClearedInv
    <3> QED  BY <2>0, <2>4, <3>1, <1>a, <1>b DEF EnterLoop
  <2>5. CASE ExitLoop(w)
    BY <2>0, <2>5 DEF ExitLoop
  <2> QED  BY <2>1, <2>2, <2>3, <2>4, <2>5
<1>2. /\ pc'[Main] = pc[Main] /\ pc'[w] = l
      /\ \A v \in Workers \ {w} : pc'[v] = pc[v]
      /\ pc' \in [Threads -> MainLabel \cup WorkerLabel]
      /\ Places'
  <2>1. l \in WorkerLabel
    BY DEF WorkerLabel
  <2> QED  BY <1>1, <2>1, WorkerMoves
<1>3. /\ item' \in [Threads -> 1..ThreadNum \cup {NoTask}]
      /\ \A t \in Threads \ {w} : item'[t] = item[t]
      /\ item'[w] \in {item[w], NoTask}
  BY <1>1, <1>a DEF IInv, TypeOK
<1>4. TypeOK'
  BY <1>1, <1>2, <1>3, Labels DEF IInv, TypeOK
<1>5. History' /\ PopInv' /\ ClearedInv'
  BY <1>1, <1>2 DEF IInv, History, PopInv, ClearedInv
<1>6. PushInv' /\ StopInv' /\ Dispatching'
  <2>1. item'[Main] = item[Main]
    BY <1>3, <1>a
  <2> QED  BY <1>1, <1>2, <2>1, WorkerFrame
<1>7. Drawn'
  <2>1. \A v \in Workers \ {w} : item'[v] = item[v]
    BY <1>3 DEF Threads
  <2>2. InHand' = InHand
    BY <1>1, <1>2, <2>1 DEF InHand
  <2> QED  BY <1>1, <2>2 DEF IInv, Drawn
<1> QED  BY <1>2, <1>4, <1>5, <1>6, <1>7 DEF IInv

\* A worker draws its loop: the number comes out of the task it has in hand.
LEMMA ThreadFuncInv == ASSUME IInv, NEW w \in Workers, ThreadFunc(w) PROVE IInv'
<1> USE Numbers
<1>a. w \in Threads /\ Main \in Threads /\ w # Main
  BY DEF Threads
<1>1. /\ pc[w] = "popped" /\ item[w] # NoTask
      /\ pc' = [pc EXCEPT ![w] = "enterLoop"]
      /\ at' = [at EXCEPT ![w] = nextLoopIndex % ThreadNum]
      /\ nextLoopIndex' = nextLoopIndex + 1
      /\ runners' = [runners EXCEPT ![nextLoopIndex % ThreadNum] = @ + 1]
      /\ UNCHANGED <<queue, notExit, mutex, item, added, taken, isExit, early, isLooping, threadId>>
      /\ UNCHANGED <<pendings, conns, running, unlooped, resume, cleared, accepted, aborted>>
  BY DEF ThreadFunc, Goto, stopVars
<1>2. /\ pc'[Main] = pc[Main] /\ pc'[w] = "enterLoop"
      /\ \A v \in Workers \ {w} : pc'[v] = pc[v]
      /\ pc' \in [Threads -> MainLabel \cup WorkerLabel]
      /\ Places'
  <2>1. "enterLoop" \in WorkerLabel
    BY DEF WorkerLabel
  <2> QED  BY <1>1, <2>1, WorkerMoves
<1>3. Drawn'
  <2>1. w \in InHand /\ InHand' = InHand \ {w}
    BY <1>1, <1>2 DEF InHand
  <2>2. Cardinality(InHand') = Cardinality(InHand) - 1
    BY <2>1, InHandFinite, FS_RemoveElement
  <2> QED  BY <1>1, <2>2, InHandFinite, LenProperties DEF IInv, TypeOK, History, Drawn
<1>4. TypeOK'
  <2>1. nextLoopIndex % ThreadNum \in Loops
    BY DEF IInv, TypeOK, Loops, SubLoops
  <2>2. at' \in [Threads -> Loops]
    BY <1>1, <2>1 DEF IInv, TypeOK
  <2>3. nextLoopIndex' \in 0..(ThreadNum + MaxConns)
    <3>1. Cardinality(InHand') \in Nat
      <4>1. InHand' \subseteq Workers
        BY DEF InHand
      <4> QED  BY <4>1, MultiThreadEventLoopAssumption, FS_Subset, FS_CardinalityType
    <3>2. /\ Len(taken) \in Nat /\ Len(taken) <= ThreadNum /\ nextLoopIndex' \in Nat
          /\ accepted \in 0..MaxConns
      BY <1>1, LenProperties DEF IInv, TypeOK, History
    <3> QED  BY <1>1, <1>3, <3>1, <3>2 DEF Drawn
  <2>4. runners' \in [SubLoops -> Nat]
    BY <1>1 DEF IInv, TypeOK, SubLoops
  <2> QED  BY <1>1, <1>2, <2>2, <2>3, <2>4, Labels DEF IInv, TypeOK
<1>5. History' /\ PopInv' /\ ClearedInv'
  BY <1>1, <1>2 DEF IInv, History, PopInv, ClearedInv
<1>6. PushInv' /\ StopInv' /\ Dispatching'
  BY <1>1, <1>2, WorkerFrame
<1> QED  BY <1>2, <1>3, <1>4, <1>5, <1>6 DEF IInv

\* A functor changes what is pending and the connections, and nothing else.
LEMMA RunFunctorInv == ASSUME IInv, NEW w \in Workers, RunFunctor(w) PROVE IInv'
<1> USE Numbers
<1>1. /\ pendings[at[w]] # <<>>
      /\ pendings' = pendings \/ pendings' = [pendings EXCEPT ![at[w]] = Tail(pendings[at[w]])]
      /\ aborted' \in BOOLEAN
      /\ conns' = conns \/ conns' = [conns EXCEPT ![at[w]] = @ \cup {Head(pendings[at[w]])}]
      /\ UNCHANGED <<queue, notExit, mutex, pc, item, added, taken, isExit, at>>
      /\ UNCHANGED <<nextLoopIndex, runners, early, isLooping, threadId, running, unlooped, resume, cleared, accepted>>
  BY DEF RunFunctor, poolVars, queueVars, stopVars, drawVars, IInv, TypeOK
<1>2. TypeOK'
  <2>1. at[w] \in Loops /\ pendings[at[w]] \in Seq(Conn)
    BY DEF IInv, TypeOK, Threads
  <2>2. Head(pendings[at[w]]) \in Conn /\ Tail(pendings[at[w]]) \in Seq(Conn)
    BY <1>1, <2>1, HeadTailProperties
  <2>3. pendings' \in [Loops -> Seq(Conn)]
    BY <1>1, <2>1, <2>2 DEF IInv, TypeOK
  <2>4. conns' \in [Loops -> SUBSET Conn]
    <3>1. conns \in [Loops -> SUBSET Conn]
      BY DEF IInv, TypeOK
    <3>2. [conns EXCEPT ![at[w]] = @ \cup {Head(pendings[at[w]])}] \in [Loops -> SUBSET Conn]
      BY <2>1, <2>2, <3>1
    <3> QED  BY <1>1, <3>1, <3>2
  <2> QED  BY <1>1, <2>3, <2>4 DEF IInv, TypeOK
<1>3. InHand' = InHand
  BY <1>1, InHandKept
<1>4. /\ Places' /\ History' /\ PopInv' /\ PushInv' /\ StopInv'
      /\ ClearedInv' /\ Drawn' /\ Dispatching'
  BY <1>1, <1>3 DEF IInv, Places, History, PopInv, PushInv, StopInv, ClearedInv, Drawn,
     Dispatching
<1> QED  BY <1>2, <1>4 DEF IInv

\* pop: a worker takes the lock only when nobody has it, and holds it until
\* it parks or leaves with what it has found.
LEMMA PopInvariant ==
  ASSUME IInv, NEW w \in Workers, Pop(w) \/ PopPark(w),
         UNCHANGED <<isExit, loopVars, stopVars, accepted, aborted>>
  PROVE  IInv'
<1> USE Numbers
<1>a. w \in Threads /\ Main \in Threads /\ w # Main
  BY DEF Threads
<1>1. PICK l \in {"popPark", "popTake", "popWait"} :
        /\ pc' = [pc EXCEPT ![w] = l]
        /\ pc[w] \in {"pop", "popPark"}
        /\ mutex' = IF l = "popWait" THEN NoThread ELSE w
        /\ l = "popWait" => pc[w] = "popPark"
        /\ l # "popWait" => mutex = NoThread
        /\ l = "popTake" => (queue # <<>> \/ ~notExit)
        /\ UNCHANGED <<queue, notExit, item, added, taken, isExit, nextLoopIndex, runners, early, isLooping,
                       threadId, pendings, conns, at>>
        /\ UNCHANGED <<running, unlooped, resume, cleared, accepted, aborted>>
  <2>1. CASE Pop(w)
    BY <2>1 DEF Pop, loopVars, drawVars, stopVars
  <2>2. CASE PopPark(w)
    BY <2>2 DEF PopPark, loopVars, drawVars, stopVars
  <2> QED  BY <2>1, <2>2
<1>2. /\ pc'[Main] = pc[Main] /\ pc'[w] = l
      /\ \A v \in Workers \ {w} : pc'[v] = pc[v]
      /\ pc' \in [Threads -> MainLabel \cup WorkerLabel]
      /\ Places'
  <2>1. l \in WorkerLabel
    BY DEF WorkerLabel
  <2> QED  BY <1>1, <2>1, WorkerMoves
<1>3. TypeOK'
  BY <1>1, <1>2, Labels DEF IInv, TypeOK
<1>4. ~cleared
  BY <1>1 DEF IInv, ClearedInv
<1>5. History' /\ PopInv' /\ ClearedInv'
  BY <1>1, <1>2, <1>4 DEF IInv, History, PopInv, ClearedInv
<1>6. PushInv' /\ StopInv' /\ Dispatching'
  BY <1>1, <1>2, WorkerFrame
<1>7. Drawn'
  <2>1. InHand' = InHand
    BY <1>1, <1>2 DEF InHand
  <2> QED  BY <1>1, <2>1 DEF IInv, Drawn
<1> QED  BY <1>2, <1>3, <1>5, <1>6, <1>7 DEF IInv

\* The thread that pop has served, and the main thread if it waits for room,
\* are the only ones that move.
LEMMA PopTakeMoves ==
  ASSUME IInv, NEW w \in Workers, PopTake(w)
  PROVE  /\ pc' \in [Threads -> MainLabel \cup WorkerLabel]
         /\ pc'[w] = "popped"
         /\ \A v \in Workers \ {w} : pc'[v] = pc[v]
         /\ pc'[Main] = pc[Main] \/ (pc[Main] = "pushWait" /\ pc'[Main] = "push")
<1> DEFINE f == [pc EXCEPT ![w] = "popped"]
           S == MainLabel \cup WorkerLabel
<1>a. w \in Threads /\ Main \in Threads /\ w # Main /\ \A v \in Workers : v \in Threads
  BY Numbers DEF Threads
<1>1. f \in [Threads -> S]
  BY <1>a, Labels DEF IInv, TypeOK
<1>2. f[w] = "popped" /\ \A t \in Threads \ {w} : f[t] = pc[t]
  BY <1>a DEF IInv, TypeOK
<1>3. "push" \in S
  BY DEF MainLabel
<1>4. pc' = f \/ pc' \in NotifyOne(f, "pushWait", "push")
  BY DEF PopTake
<1>5. \A v \in Workers : pc[v] # "pushWait"
  BY DEF IInv, Places, WorkerLabel
<1> HIDE DEF f, S
<1>6. /\ pc' \in [Threads -> S]
      /\ \A t \in Threads : pc'[t] = f[t] \/ (f[t] = "pushWait" /\ pc'[t] = "push")
  <2>1. CASE pc' = f
    BY <1>1, <2>1
  <2>2. CASE pc' \in NotifyOne(f, "pushWait", "push")
    BY <1>1, <1>3, <2>2 DEF NotifyOne
  <2> QED  BY <1>4, <2>1, <2>2
<1> QED  BY <1>2, <1>5, <1>6, <1>a DEF S

\* pop gives the worker a task if _notExit holds, and nothing if it does not;
\* a main thread that waits for room may be woken.
LEMMA PopTakeInv ==
  ASSUME IInv, NEW w \in Workers, PopTake(w),
         UNCHANGED <<isExit, loopVars, stopVars, accepted, aborted>>
  PROVE  IInv'
<1> USE Numbers
<1>a. w \in Threads /\ Main \in Threads /\ w # Main /\ \A v \in Workers : v \in Threads
  BY DEF Threads
<1>0. /\ pc[w] = "popTake" /\ mutex' = NoThread
      /\ UNCHANGED <<notExit, added, isExit, nextLoopIndex, runners, early, isLooping, threadId, pendings, conns, at>>
      /\ UNCHANGED <<running, unlooped, resume, cleared, accepted, aborted>>
  BY DEF PopTake, loopVars, drawVars, stopVars
<1>1. /\ \A v \in Workers \ {w} : pc[v] \notin {"popPark", "popTake"}
      /\ notExit => queue # <<>>
      /\ ~cleared
  BY <1>0 DEF IInv, PopInv, ClearedInv
<1>2. /\ pc' \in [Threads -> MainLabel \cup WorkerLabel]
      /\ pc'[w] = "popped"
      /\ \A v \in Workers \ {w} : pc'[v] = pc[v]
      /\ pc'[Main] = pc[Main] \/ (pc[Main] = "pushWait" /\ pc'[Main] = "push")
  BY PopTakeMoves
<1>3. Places'
  BY <1>2 DEF IInv, Places, MainLabel, WorkerLabel
<1>4. StopInv' /\ Dispatching' /\ ClearedInv' /\ PopInv'
  BY <1>0, <1>1, <1>2 DEF IInv, StopInv, StopLabel, Dispatching, ClearedInv, PopInv
<1>5. CASE notExit
  <2>1. /\ item' = [item EXCEPT ![w] = Head(queue)]
        /\ queue' = Tail(queue)
        /\ taken' = Append(taken, Head(queue))
    BY <1>5 DEF PopTake
  <2>2. /\ Head(queue) \in 1..ThreadNum /\ Tail(queue) \in Seq(1..ThreadNum)
        /\ Len(Tail(queue)) = Len(queue) - 1
    BY <1>1, <1>5, HeadTailProperties DEF IInv, TypeOK
  <2>3. taken' \in Seq(1..ThreadNum) /\ Len(taken') = Len(taken) + 1
    BY <2>1, <2>2, AppendProperties DEF IInv, History
  <2>4. TypeOK'
    BY <1>0, <1>2, <2>1, <2>2, Labels DEF IInv, TypeOK
  <2>5. History'
    <3>1. /\ Len(queue) \in Nat /\ Len(taken) \in Nat
          /\ Len(added) = Len(taken) + Len(queue)
          /\ added \in Seq(1..ThreadNum) /\ Len(added) <= ThreadNum
      BY LenProperties DEF IInv, TypeOK, History
    <3>2. Len(queue') = Len(queue) - 1
      BY <2>1, <2>2
    <3>3. Len(added') = Len(taken') + Len(queue')
      BY ONLY <1>0, <2>3, <3>1, <3>2
    <3> QED  BY <1>0, <2>3, <3>1, <3>3 DEF History
  <2>6. PushInv'
    BY <1>0, <1>2, <1>a, <2>1 DEF IInv, TypeOK, PushInv
  <2>7. Drawn'
    <3>1. item'[w] # NoTask /\ \A v \in Workers \ {w} : item'[v] = item[v]
      BY <1>a, <2>1, <2>2 DEF IInv, TypeOK
    <3>2. w \notin InHand /\ InHand' = InHand \cup {w}
      BY <1>0, <1>2, <3>1 DEF InHand
    <3>3. Cardinality(InHand') = Cardinality(InHand) + 1
      BY <3>2, InHandFinite, FS_AddElement
    <3> QED  BY <1>0, <2>3, <3>3, InHandFinite, LenProperties DEF IInv, TypeOK, History, Drawn
  <2> QED  BY <1>3, <1>4, <2>4, <2>5, <2>6, <2>7 DEF IInv
<1>6. CASE ~notExit
  <2>1. item' = [item EXCEPT ![w] = NoTask] /\ UNCHANGED <<queue, taken>>
    BY <1>6 DEF PopTake
  <2>2. TypeOK'
    BY <1>0, <1>2, <2>1, Labels DEF IInv, TypeOK
  <2>3. History' /\ PushInv'
    BY <1>0, <1>2, <1>a, <2>1 DEF IInv, TypeOK, History, PushInv
  <2>4. Drawn'
    <3>1. item'[w] = NoTask /\ \A v \in Workers \ {w} : item'[v] = item[v]
      BY <1>a, <2>1 DEF IInv, TypeOK
    <3>2. InHand' = InHand
      BY <1>0, <1>2, <3>1 DEF InHand
    <3> QED  BY <1>0, <2>1, <3>2 DEF IInv, Drawn
  <2> QED  BY <1>3, <1>4, <2>2, <2>3, <2>4 DEF IInv
<1> QED  BY <1>5, <1>6

\* Waking workers that are parked in pop, with nothing taken off the queue,
\* keeps what IInv says of the workers.
LEMMA WorkersWoken ==
  ASSUME IInv, pc'[Main] \in MainLabel,
         \A v \in Workers : pc'[v] = pc[v] \/ (pc[v] = "popWait" /\ pc'[v] = "pop"),
         queue # <<>> => queue' # <<>>,
         UNCHANGED <<notExit, mutex, item, taken, isExit, cleared, nextLoopIndex, runners, early, accepted>>
  PROVE  Places' /\ PopInv' /\ ClearedInv' /\ Drawn'
<1>1. Places' /\ PopInv'
  BY DEF IInv, Places, PopInv, WorkerLabel
<1>2. ClearedInv'
  BY DEF IInv, ClearedInv
<1>3. InHand' = InHand
  BY InHandKept
<1> QED  BY <1>1, <1>2, <1>3 DEF IInv, Drawn

\* start pushes one of its tasks, or waits for room.
LEMMA PushInvariant == ASSUME IInv, PushThreadTask PROVE IInv'
<1> USE Numbers
<1>a. Main \in Threads /\ \A v \in Workers : v \in Threads /\ v # Main
  BY DEF Threads
<1>0. /\ pc[Main] = "push"
      /\ UNCHANGED <<notExit, mutex, item, taken, isExit, nextLoopIndex, runners, early, isLooping, threadId>>
      /\ UNCHANGED <<pendings, conns, at, running, unlooped, resume, cleared, accepted, aborted>>
  BY DEF PushThreadTask, Push, loopVars, drawVars, stopVars
<1>1. CASE pc' = [pc EXCEPT ![Main] = "pushWait"] /\ UNCHANGED <<queue, added>>
  <2>1. /\ pc'[Main] = "pushWait" /\ \A v \in Workers : pc'[v] = pc[v]
        /\ pc' \in [Threads -> MainLabel \cup WorkerLabel]
        /\ Places' /\ PopInv' /\ History'
        /\ InHand' = InHand
    <3>1. "pushWait" \in MainLabel /\ \A v \in Workers : item'[v] = item[v]
      BY <1>0 DEF MainLabel
    <3> QED  BY <1>0, <1>1, <3>1, MainMoves
  <2>2. TypeOK'
    BY <1>0, <1>1, <2>1, Labels DEF IInv, TypeOK
  <2>3. PushInv' /\ StopInv' /\ ClearedInv' /\ Drawn' /\ Dispatching'
    BY <1>0, <1>1, <2>1 DEF IInv, PushInv, StopInv, ClearedInv, Drawn, Dispatching, StopLabel
  <2> QED  BY <2>1, <2>2, <2>3 DEF IInv
<1>2. CASE /\ queue' = Append(queue, item[Main])
           /\ added' = Append(added, item[Main])
           /\ pc' \in NotifyOne([pc EXCEPT ![Main] = "idle"], "popWait", "pop")
  <2>1. /\ pc' \in [Threads -> MainLabel \cup WorkerLabel]
        /\ pc'[Main] = "idle"
        /\ \A v \in Workers : pc'[v] = pc[v] \/ (pc[v] = "popWait" /\ pc'[v] = "pop")
    <3> DEFINE f == [pc EXCEPT ![Main] = "idle"]
               S == MainLabel \cup WorkerLabel
    <3>1. /\ f \in [Threads -> S] /\ f[Main] = "idle"
          /\ \A v \in Workers : f[v] = pc[v]
      BY <1>a, Labels DEF IInv, TypeOK
    <3>2. "pop" \in S /\ pc' \in NotifyOne(f, "popWait", "pop")
      BY <1>2 DEF WorkerLabel
    <3> HIDE DEF f, S
    <3>3. /\ pc' \in [Threads -> S]
          /\ \A t \in Threads : pc'[t] = f[t] \/ (f[t] = "popWait" /\ pc'[t] = "pop")
      BY ONLY <3>1, <3>2, NotifyOneEffect
    <3> QED  BY <1>a, <3>1, <3>3 DEF S
  <2>2. item[Main] \in 1..ThreadNum /\ Len(added) < ThreadNum /\ resume = "none"
    BY <1>0 DEF IInv, PushInv, StopInv, StopLabel
  <2>3. /\ queue' \in Seq(1..ThreadNum) /\ Len(queue') = Len(queue) + 1
        /\ added' \in Seq(1..ThreadNum) /\ Len(added') = Len(added) + 1
        /\ queue' # <<>>
    <3>1. queue \in Seq(1..ThreadNum) /\ added \in Seq(1..ThreadNum)
      BY DEF IInv, TypeOK, History
    <3> QED  BY ONLY <1>2, <2>2, <3>1, AppendProperties
  <2>4. TypeOK'
    BY <1>0, <2>1, <2>3, Labels DEF IInv, TypeOK
  <2>5. Places' /\ PopInv' /\ ClearedInv' /\ Drawn'
    <3>1. pc'[Main] \in MainLabel
      BY <2>1 DEF MainLabel
    <3> QED  BY <1>0, <2>1, <2>3, <3>1, WorkersWoken
  <2>6. History'
    <3>1. Len(queue) \in Nat /\ Len(taken) \in Nat /\ Len(added) \in Nat
      BY LenProperties DEF IInv, TypeOK, History
    <3> QED  BY <1>0, <2>2, <2>3, <3>1 DEF IInv, History
  <2>7. PushInv' /\ StopInv' /\ Dispatching'
    BY <1>0, <2>1, <2>2 DEF IInv, PushInv, StopInv, Dispatching, StopLabel
  <2> QED  BY <2>4, <2>5, <2>6, <2>7 DEF IInv
<1> QED  BY <1>1, <1>2 DEF PushThreadTask, Push

\* The end of wakeUp, and wakeups that nobody has caused.
LEMMA WakeInv ==
  ASSUME IInv,
         \/ NotifyAllPops(Main) /\ UNCHANGED <<isExit, loopVars, stopVars, accepted, aborted>>
         \/ Spurious
  PROVE  IInv'
<1> USE Numbers
<1>a. Main \in Threads /\ \A v \in Workers : v \in Threads /\ v # Main
  BY DEF Threads
<1>0. /\ UNCHANGED <<queue, notExit, mutex, item, added, taken, isExit, nextLoopIndex, runners, early>>
      /\ UNCHANGED <<isLooping, threadId, pendings, conns, at>>
      /\ UNCHANGED <<running, unlooped, resume, cleared, accepted, aborted>>
  BY DEF NotifyAllPops, Spurious, SpuriousWakeUp, loopVars, drawVars, stopVars
<1>1. /\ pc' \in [Threads -> MainLabel \cup WorkerLabel]
      /\ \A v \in Workers : pc'[v] = pc[v] \/ (pc[v] = "popWait" /\ pc'[v] = "pop")
      /\ \/ pc'[Main] = pc[Main]
         \/ pc[Main] = "pushWait" /\ pc'[Main] = "push"
         \/ pc[Main] = "notifyAll" /\ pc'[Main] = "join"
  <2>1. pc \in [Threads -> MainLabel \cup WorkerLabel]
    BY Labels DEF IInv, TypeOK
  <2>2. {"pop", "push", "join"} \subseteq MainLabel \cup WorkerLabel
    BY Labels
  <2>3. pc[Main] # "popWait" /\ \A v \in Workers : pc[v] # "pushWait"
    BY DEF IInv, Places, MainLabel, StopLabel, WorkerLabel
  <2>4. CASE NotifyAllPops(Main)
    <3>1. /\ pc[Main] = "notifyAll"
          /\ pc' = NotifyAll([pc EXCEPT ![Main] = "join"], "popWait", "pop")
      BY <2>4 DEF NotifyAllPops
    <3> QED  BY <2>1, <2>2, <3>1, <1>a DEF NotifyAll
  <2>5. CASE Spurious
    <3>1. PICK t \in Threads : SpuriousWakeUp(t)
      BY <2>5 DEF Spurious
    <3> QED  BY <2>1, <2>2, <2>3, <3>1, <1>a DEF SpuriousWakeUp
  <2> QED  BY <2>4, <2>5
<1>2. TypeOK'
  BY <1>0, <1>1, Labels DEF IInv, TypeOK
<1>3. Places' /\ PopInv' /\ ClearedInv' /\ Drawn'
  <2>1. pc'[Main] \in MainLabel
    BY <1>1 DEF IInv, Places, MainLabel, StopLabel
  <2> QED  BY <1>0, <1>1, <2>1, WorkersWoken
<1>4. History' /\ PushInv' /\ StopInv' /\ Dispatching'
  BY <1>0, <1>1 DEF IInv, History, PushInv, StopInv, Dispatching, StopLabel
<1> QED  BY <1>2, <1>3, <1>4 DEF IInv

\* IInv is an invariant of every behaviour.
LEMMA Inductive == Safety => []IInv
<1>1. ASSUME IInv, [Next]_vars PROVE IInv'
  <2>1. CASE StartStep \/ MainLoopStep \/ Accept
    BY <1>1, <2>1, MainLoopInv, PushInvariant, WorkerInv DEF StartStep
  <2>2. CASE \E w \in Workers : WorkerStep(w) \/ RunFunctor(w)
    BY <1>1, <2>2, WorkerInv, ThreadFuncInv, RunFunctorInv, PopInvariant, PopTakeInv
       DEF WorkerStep, GetTask
  <2>3. CASE Signal \/ StopStep \/ Spurious
    BY <1>1, <2>3, StopInvariant, JoinInv, WakeInv DEF StopStep, WakeUpQueue
  <2>4. CASE UNCHANGED vars
    <3>0. /\ UNCHANGED <<queue, notExit, mutex, pc, item, added, taken, isExit>>
          /\ UNCHANGED <<nextLoopIndex, runners, early, isLooping, threadId, pendings, conns, at>>
          /\ UNCHANGED <<running, resume, cleared, unlooped, accepted, aborted>>
      BY <2>4 DEF vars, poolVars, queueVars, loopVars, drawVars, stopVars
    <3>1. TypeOK'
      BY <1>1, <3>0 DEF IInv, TypeOK
    <3>2. Places' /\ History' /\ PopInv' /\ PushInv'
      BY <1>1, <3>0 DEF IInv, Places, History, PopInv, PushInv
    <3>3. InHand' = InHand
      BY <3>0 DEF InHand
    <3>4. StopInv' /\ ClearedInv' /\ Drawn' /\ Dispatching'
      BY <1>1, <3>0, <3>3 DEF IInv, StopInv, ClearedInv, Drawn, Dispatching
    <3> QED  BY <3>1, <3>2, <3>4 DEF IInv
  <2> QED  BY <1>1, <2>1, <2>2, <2>3, <2>4 DEF Next
<1> QED  BY <1>1, InitInv, PTL DEF Safety

\* The type invariant, for any workers, connections and queue size, and
\* wherever the signal arrives.
THEOREM TypeCorrect == Safety => []TypeOK
BY Inductive, PTL DEF IInv

\* stop destroys the sub loops only when no worker runs one.
THEOREM NoLoopClearedInUse == Safety => []ClearedLoopsAreLeft
<1>1. IInv => ClearedLoopsAreLeft
  BY DEF IInv, ClearedInv, ClearedLoopsAreLeft, RunsLoop
<1> QED  BY <1>1, Inductive, PTL

-----------------------------------------------------------------------------
(* Workers and the connections that come before them.                      *)

\* A step in which nobody draws and no worker enters a loop or gets a task.
LEMMA QuietStep ==
  ASSUME LInv,
         \A w \in Workers :
           \/ pc'[w] = pc[w] /\ item'[w] = item[w]
           \/ /\ pc'[w] \notin {"popped", "enterLoop", "loop"}
              /\ pc[w] = "popped" => item[w] = NoTask,
         \A w \in Workers : at'[w] = at[w],
         cleared => cleared',
         UNCHANGED <<accepted, taken, threadId, nextLoopIndex, runners, early, aborted>>
  PROVE  LInv'
<1>1. InHand' = InHand
  BY DEF InHand
<1>2. \A w \in Workers : /\ RunsLoop(w)' => RunsLoop(w)
                         /\ pc'[w] = "loop" => pc[w] = "loop"
  BY DEF RunsLoop
<1>3. AllDrawn' /\ LoopsTaken'
  BY <1>1 DEF LInv, AllDrawn, LoopsTaken, SubLoops
<1>4. early' = {} => OwnLoops' /\ AssertionHolds'
  BY <1>2 DEF LInv, OwnLoops, OneThreadPerLoop, SubLoops, AssertionHolds
<1> QED  BY <1>3, <1>4 DEF LInv

\* The steps of the main thread that are quiet.
LEMMA MainQuiet ==
  ASSUME IInv, LInv,
         \/ Start \/ AddThreadTask \/ PushThreadTask \/ Ready \/ MainLoopStep
         \/ Signal \/ StopStep \/ Spurious \/ UNCHANGED vars
  PROVE  LInv'
<1> USE Numbers
<1>a. Main \in Threads /\ \A w \in Workers : w \in Threads /\ w # Main
  BY DEF Threads
<1>b. pc \in [Threads -> MainLabel \cup WorkerLabel] /\ DOMAIN item = Threads
  BY Labels DEF IInv, TypeOK
<1>1. /\ UNCHANGED <<accepted, taken, at, threadId, nextLoopIndex, runners, early, aborted>>
      /\ cleared => cleared'
  BY DEF Start, AddThreadTask, PushThreadTask, Push, Ready, MainLoopStep, RunInLoop,
     ExitMainLoop, Signal, StopStep, Unloop, DrainDone, SetIsExit, WakeUpQueue, ClearNotExit,
     NotifyAllPops, Join, Spurious, SpuriousWakeUp, vars, poolVars, queueVars, loopVars, drawVars,
     stopVars
<1>2. \A w \in Workers : item'[w] = item[w]
  BY <1>a, <1>b DEF Start, AddThreadTask, PushThreadTask, Push, Ready, MainLoopStep, RunInLoop,
     ExitMainLoop, Signal, StopStep, Unloop, DrainDone, SetIsExit, WakeUpQueue, ClearNotExit,
     NotifyAllPops, Join, Spurious, SpuriousWakeUp, vars, poolVars, queueVars
<1>3. \A w \in Workers : pc'[w] = pc[w] \/ (pc[w] = "popWait" /\ pc'[w] = "pop")
  <2>1. CASE PushThreadTask
    <3> DEFINE f == [pc EXCEPT ![Main] = "idle"]
               S == MainLabel \cup WorkerLabel
    <3>1. f \in [Threads -> S] /\ \A w \in Workers : f[w] = pc[w]
      BY <1>a, <1>b, Labels
    <3>2. pc' = [pc EXCEPT ![Main] = "pushWait"] \/ pc' \in NotifyOne(f, "popWait", "pop")
      BY <2>1 DEF PushThreadTask, Push
    <3>3. "pop" \in S
      BY DEF WorkerLabel
    <3>4. CASE pc' = [pc EXCEPT ![Main] = "pushWait"]
      BY <3>4, <1>a, <1>b
    <3>5. CASE pc' \in NotifyOne(f, "popWait", "pop")
      <4> HIDE DEF f, S
      <4>1. \A t \in Threads : pc'[t] = f[t] \/ (f[t] = "popWait" /\ pc'[t] = "pop")
        BY ONLY <3>1, <3>3, <3>5, NotifyOneEffect
      <4> QED  BY <1>a, <3>1, <4>1
    <3> QED  BY <3>2, <3>4, <3>5
  <2>2. CASE NotifyAllPops(Main)
    BY <2>2, <1>a, <1>b DEF NotifyAllPops, NotifyAll
  <2>3. CASE Spurious
    <3>1. PICK t \in Threads : SpuriousWakeUp(t)
      BY <2>3 DEF Spurious
    <3>2. \A w \in Workers : pc[w] # "pushWait"
      BY DEF IInv, Places, WorkerLabel
    <3> QED  BY <3>1, <3>2, <1>a, <1>b DEF SpuriousWakeUp
  <2>4. CASE \/ Start \/ AddThreadTask \/ Ready \/ RunInLoop \/ ExitMainLoop \/ Signal \/ Unloop
             \/ DrainDone \/ SetIsExit \/ ClearNotExit(Main) \/ Join \/ UNCHANGED vars
    BY <2>4, <1>a, <1>b DEF Goto, Start, AddThreadTask, Ready, RunInLoop, ExitMainLoop, Signal,
       Unloop, DrainDone, SetIsExit, ClearNotExit, Join, vars, poolVars, queueVars
  <2> QED  BY <2>1, <2>2, <2>3, <2>4 DEF MainLoopStep, StopStep, WakeUpQueue
<1> QED  BY <1>1, <1>2, <1>3, QuietStep

\* The steps of the workers that are quiet.
LEMMA WorkerQuiet ==
  ASSUME IInv, LInv, NEW w \in Workers,
         \/ CreateWorker(w) \/ CheckExit(w) \/ SkipNull(w) \/ ExitLoop(w)
         \/ (Pop(w) \/ PopPark(w)) /\ UNCHANGED <<isExit, loopVars, stopVars, accepted, aborted>>
  PROVE  LInv'
<1>a. w \in Threads /\ \A v \in Workers : v \in Threads
  BY DEF Threads
<1>b. DOMAIN pc = Threads /\ DOMAIN item = Threads
  BY DEF IInv, TypeOK
<1>1. /\ UNCHANGED <<accepted, taken, at, threadId, nextLoopIndex, runners, early, aborted>>
      /\ UNCHANGED cleared
  BY DEF CreateWorker, CheckExit, SkipNull, ExitLoop, Pop, PopPark, loopVars, drawVars, stopVars
<1>2. \A v \in Workers \ {w} : pc'[v] = pc[v] /\ item'[v] = item[v]
  BY <1>a, <1>b DEF Goto, CreateWorker, CheckExit, SkipNull, ExitLoop, Pop, PopPark
<1>3. /\ pc'[w] \notin {"popped", "enterLoop", "loop"}
      /\ pc[w] = "popped" => item[w] = NoTask
  BY <1>a, <1>b DEF Goto, CreateWorker, CheckExit, SkipNull, ExitLoop, Pop, PopPark
<1> QED  BY <1>1, <1>2, <1>3, QuietStep

\* A task is taken only before the first connection, unless early ones came.
LEMMA PopTakeLoops ==
  ASSUME IInv, LInv, NEW w \in Workers, PopTake(w),
         UNCHANGED <<isExit, loopVars, stopVars, accepted, aborted>>
  PROVE  LInv'
<1> USE Numbers
<1>a. w \in Threads /\ \A v \in Workers : v \in Threads /\ v # Main
  BY DEF Threads
<1>0. /\ pc[w] = "popTake"
      /\ UNCHANGED <<accepted, at, threadId, nextLoopIndex, runners, early, aborted, cleared>>
  BY DEF PopTake, loopVars, drawVars, stopVars
<1>1. pc'[w] = "popped" /\ \A v \in Workers \ {w} : pc'[v] = pc[v]
  BY PopTakeMoves
<1>2. \A v \in Workers \ {w} : item'[v] = item[v]
  BY <1>a DEF PopTake, IInv, TypeOK
<1>3. LoopsTaken' /\ (early' = {} => OwnLoops' /\ AssertionHolds')
  BY <1>0, <1>1 DEF LInv, LoopsTaken, OwnLoops, OneThreadPerLoop, RunsLoop, SubLoops, AssertionHolds
<1>4. AllDrawn'
  <2>1. CASE notExit
    <3>1. queue # <<>> /\ ~cleared
      BY <1>0, <2>1 DEF IInv, PopInv, ClearedInv
    <3>2. Len(queue) \in Nat /\ Len(queue) # 0
      BY <3>1, EmptySeq, LenProperties DEF IInv, TypeOK
    <3>3. Len(taken) < ThreadNum
      BY <3>2, LenProperties DEF IInv, History
    <3>4. ~(early = {} /\ accepted > 0)
      BY <3>1, <3>3 DEF LInv, AllDrawn
    <3> QED  BY <1>0, <3>4 DEF AllDrawn
  <2>2. CASE ~notExit
    <3>1. item'[w] = NoTask /\ taken' = taken
      BY <2>2, <1>a DEF PopTake, IInv, TypeOK
    <3>2. InHand' = InHand
      BY <1>0, <1>1, <1>2, <3>1 DEF InHand
    <3> QED  BY <1>0, <3>1, <3>2 DEF LInv, AllDrawn
  <2> QED  BY <2>1, <2>2
<1> QED  BY <1>3, <1>4 DEF LInv

\* While no connection has drawn one of the first numbers, a worker draws one
\* that no other worker has: it is below ThreadNum, so the modulo leaves it as
\* it is.  In any case its loop gets a thread.
LEMMA ThreadFuncLoops ==
  ASSUME IInv, LInv, NEW w \in Workers, ThreadFunc(w)
  PROVE  LInv'
<1> USE Numbers
<1>a. w \in Threads /\ \A v \in Workers : v \in Threads
  BY DEF Threads
<1> DEFINE n == nextLoopIndex % ThreadNum
<1>1. /\ pc[w] = "popped" /\ item[w] # NoTask
      /\ pc'[w] = "enterLoop" /\ \A v \in Workers \ {w} : pc'[v] = pc[v]
      /\ at'[w] = n /\ \A v \in Workers \ {w} : at'[v] = at[v]
      /\ nextLoopIndex' = nextLoopIndex + 1
      /\ runners' = [runners EXCEPT ![n] = @ + 1]
      /\ UNCHANGED <<item, taken, accepted, threadId, aborted, early, cleared>>
  BY <1>a DEF ThreadFunc, Goto, IInv, TypeOK, stopVars
<1>2. w \in InHand
  BY <1>1 DEF InHand
<1>3. early = {} => accepted = 0
  BY <1>2 DEF LInv, AllDrawn, IInv, TypeOK
<1>b. nextLoopIndex \in Nat /\ runners \in [SubLoops -> Nat] /\ n \in SubLoops
  BY DEF IInv, TypeOK, SubLoops
<1>4. early = {} => nextLoopIndex < ThreadNum
  <2>1. Cardinality(InHand) # 0
    BY <1>2, InHandFinite, FS_EmptySet
  <2>2. Len(taken) \in Nat /\ Len(taken) <= ThreadNum /\ nextLoopIndex \in Nat
    BY LenProperties DEF IInv, TypeOK, History
  <2> QED  BY <1>3, <2>1, <2>2, InHandFinite DEF IInv, Drawn
<1>5. nextLoopIndex < ThreadNum => n = nextLoopIndex
  BY <1>b
<1> HIDE DEF n
<1>c. ThreadNum' = ThreadNum /\ SubLoops' = SubLoops /\ SubLoops \subseteq Nat
  BY DEF SubLoops
<1>6. LoopsTaken'
  <2> SUFFICES ASSUME NEW l \in SubLoops, l < nextLoopIndex'
               PROVE  runners'[l] > 0 \/ l \in early
    BY <1>1, <1>c DEF LoopsTaken
  <2>1. l < ThreadNum /\ l \in Nat
    BY DEF SubLoops
  <2>2. l < nextLoopIndex \/ (l = nextLoopIndex /\ l = n)
    BY <1>1, <1>5, <1>b, <2>1
  <2>3. CASE l = n
    BY <1>1, <1>b, <2>3
  <2>4. CASE l # n /\ l < nextLoopIndex
    BY <1>1, <1>b, <2>4 DEF LInv, LoopsTaken
  <2> QED  BY <2>2, <2>3, <2>4
<1>7. ASSUME early = {} PROVE OwnLoops' /\ AssertionHolds'
  <2>0. n = nextLoopIndex /\ OwnLoops /\ ~aborted
    BY <1>4, <1>5, <1>7 DEF LInv, AssertionHolds
  <2>1. \A a \in SubLoops : a < nextLoopIndex => a < nextLoopIndex + 1 /\ a # nextLoopIndex
    BY ONLY <1>b, <1>c
  <2>2. \A v \in Workers \ {w} : RunsLoop(v)' => RunsLoop(v) /\ at'[v] # at'[w]
                                               /\ at'[v] \in SubLoops /\ at'[v] < nextLoopIndex'
    <3> SUFFICES ASSUME NEW v \in Workers \ {w}, RunsLoop(v)'
                 PROVE  RunsLoop(v) /\ at[v] # n /\ at[v] \in SubLoops /\ at[v] < nextLoopIndex + 1
      BY <1>1
    <3>1. RunsLoop(v)
      BY <1>1 DEF RunsLoop
    <3>2. at[v] \in SubLoops /\ at[v] < nextLoopIndex
      BY <2>0, <3>1 DEF OwnLoops
    <3> QED  BY <2>0, <2>1, <3>1, <3>2
  <2>3. at'[w] \in SubLoops /\ at'[w] < nextLoopIndex'
    BY <1>1, <1>b, <2>0
  <2>4. OneThreadPerLoop'
    BY <1>1, <2>0, <2>2 DEF OwnLoops, OneThreadPerLoop
  <2>5. \A v \in Workers : pc'[v] = "loop" => threadId'[at'[v]] = v
    BY <1>1, <2>0 DEF OwnLoops
  <2> QED  BY <1>1, <1>c, <2>0, <2>2, <2>3, <2>4, <2>5 DEF OwnLoops, AssertionHolds
<1>8. AllDrawn'
  BY <1>1, <1>3 DEF AllDrawn
<1> QED  BY <1>1, <1>6, <1>7, <1>8 DEF LInv

\* loop() records its thread, and takes no other worker's loop from it.
LEMMA EnterLoops ==
  ASSUME IInv, LInv, EnterMainLoop \/ \E w \in Workers : EnterLoop(w)
  PROVE  LInv'
<1> USE Numbers
<1>a. Main \in Threads /\ \A v \in Workers : v \in Threads /\ v # Main
  BY DEF Threads
<1>b. MainLoop \notin SubLoops /\ SubLoops \subseteq Loops /\ MainLoop \in Loops
  BY DEF MainLoop, SubLoops, Loops
<1>1. PICK t \in Threads, l \in Loops :
        /\ threadId' = [threadId EXCEPT ![l] = t]
        /\ \A v \in Workers \ {t} : pc'[v] = pc[v]
        /\ t \in Workers => pc[t] = "enterLoop" /\ pc'[t] = "loop" /\ l = at[t]
        /\ t = Main => l = MainLoop
        /\ UNCHANGED <<item, taken, accepted, at, drawVars, cleared, aborted>>
  <2>1. CASE EnterMainLoop
    BY <2>1, <1>a, <1>b DEF EnterMainLoop, Goto, IInv, TypeOK, stopVars
  <2>2. ASSUME NEW w \in Workers, EnterLoop(w)
        PROVE  \E t \in Threads, l \in Loops :
                 /\ threadId' = [threadId EXCEPT ![l] = t]
                 /\ \A v \in Workers \ {t} : pc'[v] = pc[v]
                 /\ t \in Workers => pc[t] = "enterLoop" /\ pc'[t] = "loop" /\ l = at[t]
                 /\ t = Main => l = MainLoop
                 /\ UNCHANGED <<item, taken, accepted, at, drawVars, cleared, aborted>>
    <3>1. at[w] \in Loops /\ w \in Threads /\ w # Main
      BY <1>a DEF IInv, TypeOK
    <3> QED  BY <2>2, <3>1, <1>a DEF EnterLoop, Goto, IInv, TypeOK, stopVars
  <2> QED  BY <2>1, <2>2
<1>2. InHand' = InHand
  BY <1>1 DEF InHand
<1>3. \A v \in Workers : RunsLoop(v)' => RunsLoop(v)
  BY <1>1 DEF RunsLoop
<1>4. ASSUME early = {} PROVE \A v \in Workers : pc'[v] = "loop" => threadId'[at'[v]] = v
  <2> SUFFICES ASSUME NEW v \in Workers, pc'[v] = "loop" PROVE threadId'[at'[v]] = v
    OBVIOUS
  <2>0. OwnLoops
    BY <1>4 DEF LInv
  <2>1. at[v] \in Loops /\ threadId \in [Loops -> Threads \cup {NoThread}]
    BY <1>a DEF IInv, TypeOK
  <2>2. CASE v = t
    BY <1>1, <2>1, <2>2
  <2>3. CASE v # t
    <3>1. pc[v] = "loop" /\ at[v] \in SubLoops /\ threadId[at[v]] = v
      BY <1>1, <2>0, <2>3 DEF OwnLoops, RunsLoop
    <3>2. at[v] # l
      <4>1. CASE t = Main
        BY <1>1, <1>b, <3>1, <4>1
      <4>2. CASE t \in Workers
        BY <1>1, <2>0, <2>3, <3>1, <4>2 DEF OwnLoops, OneThreadPerLoop, RunsLoop
      <4> QED  BY <4>1, <4>2 DEF Threads
    <3> QED  BY <1>1, <2>1, <3>1, <3>2
  <2> QED  BY <2>2, <2>3
<1>5. early' = {} => OwnLoops' /\ AssertionHolds'
  BY <1>1, <1>3, <1>4 DEF LInv, OwnLoops, OneThreadPerLoop, SubLoops, drawVars, AssertionHolds
<1>6. AllDrawn' /\ LoopsTaken'
  BY <1>1, <1>2 DEF LInv, AllDrawn, LoopsTaken, SubLoops, drawVars
<1> QED  BY <1>5, <1>6 DEF LInv

\* Unless early connections came, a functor is run by the loop's own thread.
LEMMA RunFunctorLoops ==
  ASSUME IInv, LInv, NEW w \in Workers, RunFunctor(w)
  PROVE  LInv'
<1>1. /\ pc[w] = "loop" /\ (aborted' = aborted \/ threadId[at[w]] # w)
      /\ UNCHANGED <<pc, item, taken, accepted, at, threadId, drawVars, cleared>>
  BY DEF RunFunctor, poolVars, queueVars, stopVars
<1>2. early = {} => ~aborted'
  BY <1>1 DEF LInv, OwnLoops, AssertionHolds
<1>3. InHand' = InHand
  BY <1>1, InHandKept
<1> QED  BY <1>1, <1>2, <1>3 DEF LInv, AllDrawn, LoopsTaken, OwnLoops, OneThreadPerLoop, RunsLoop,
            SubLoops, AssertionHolds, drawVars

\* A connection that draws none of the first numbers finds every loop drawn, and
\* nobody about to draw one; one that does is noted in early.
LEMMA AcceptLoops ==
  ASSUME IInv, LInv, Accept
  PROVE  LInv'
<1> USE Numbers
<1>a. Main \in Threads /\ \A v \in Workers : v \in Threads /\ v # Main
  BY DEF Threads
<1>1. /\ \/ cleared /\ nextLoopIndex' = nextLoopIndex /\ early' = early
         \/ nextLoopIndex' = nextLoopIndex + 1 /\ NoteEarly
      /\ \A v \in Workers : pc'[v] = pc[v] /\ at'[v] = at[v]
      /\ UNCHANGED <<item, taken, threadId, aborted, runners, cleared>>
  BY <1>a DEF Accept, Goto, IInv, TypeOK, stopVars
<1>b. nextLoopIndex \in Nat /\ SubLoops' = SubLoops /\ SubLoops \subseteq Nat
  BY DEF IInv, TypeOK, SubLoops
<1>2. InHand' = InHand
  BY <1>1, InHandKept
<1>3. early \subseteq early'
  BY <1>1 DEF NoteEarly
<1>4. LoopsTaken'
  <2> SUFFICES ASSUME NEW l \in SubLoops, l < nextLoopIndex'
               PROVE  runners[l] > 0 \/ l \in early'
    BY <1>1, <1>b DEF LoopsTaken
  <2>1. CASE l < nextLoopIndex
    BY <1>3, <2>1 DEF LInv, LoopsTaken
  <2>2. CASE ~(l < nextLoopIndex)
    <3>1. l = nextLoopIndex /\ nextLoopIndex < ThreadNum /\ NoteEarly
      BY <1>1, <1>b, <2>2 DEF SubLoops
    <3> QED  BY <3>1 DEF NoteEarly
  <2> QED  BY <2>1, <2>2
<1>5. ASSUME early' = {} PROVE InHand = {} /\ (Len(taken) = ThreadNum \/ cleared)
  <2>0. early = {}
    BY <1>3, <1>5
  <2>1. CASE accepted > 0
    BY <2>0, <2>1 DEF LInv, AllDrawn
  <2>2. CASE cleared
    BY <2>2 DEF IInv, ClearedInv, InHand
  <2>3. CASE accepted = 0 /\ ~cleared
    <3>1. /\ Len(taken) \in Nat /\ Len(taken) <= ThreadNum
          /\ nextLoopIndex >= ThreadNum
      <4>1. ~(nextLoopIndex < ThreadNum)
        BY <1>1, <1>5, <2>3 DEF NoteEarly
      <4> QED  BY <1>b, <4>1, LenProperties DEF IInv, TypeOK, History
    <3>2. Cardinality(InHand) = 0 /\ Len(taken) = ThreadNum
      BY <1>b, <2>3, <3>1, InHandFinite DEF IInv, Drawn
    <3> QED  BY <3>2, InHandFinite, FS_EmptySet
  <2> QED  BY <2>1, <2>2, <2>3 DEF IInv, TypeOK
<1>6. AllDrawn'
  BY <1>1, <1>2, <1>5 DEF AllDrawn
<1>7. ASSUME early' = {} PROVE OwnLoops' /\ AssertionHolds'
  <2>0. OwnLoops /\ AssertionHolds
    BY <1>3, <1>7 DEF LInv
  <2>1. \A a \in SubLoops : a < nextLoopIndex => a < nextLoopIndex'
    <3>1. nextLoopIndex' = nextLoopIndex \/ nextLoopIndex' = nextLoopIndex + 1
      BY <1>1
    <3> QED  BY ONLY <1>b, <3>1
  <2> QED  BY <1>1, <1>b, <2>0, <2>1 DEF OwnLoops, OneThreadPerLoop, RunsLoop, AssertionHolds
<1> QED  BY <1>4, <1>6, <1>7 DEF LInv

\* LInv is an invariant, whenever clients connect.
LEMMA LoopsInductive == Safety => []LInv
<1>1. Init => LInv
  <2> SUFFICES ASSUME Init PROVE LInv
    OBVIOUS
  <2>1. \A w \in Workers : pc[w] = "notCreated"
    BY Numbers DEF Init, Threads
  <2>2. accepted = 0 /\ nextLoopIndex = 0 /\ ~aborted /\ \A l \in SubLoops : ~(l < nextLoopIndex)
    BY DEF Init, SubLoops
  <2> QED  BY <2>1, <2>2 DEF LInv, AllDrawn, LoopsTaken, OwnLoops, OneThreadPerLoop, RunsLoop,
              AssertionHolds
<1>2. ASSUME IInv, LInv, [Next]_vars PROVE LInv'
  <2>1. CASE StartStep
    BY <1>2, <2>1, MainQuiet, WorkerQuiet, EnterLoops DEF StartStep
  <2>2. CASE MainLoopStep \/ Signal \/ StopStep \/ Spurious \/ UNCHANGED vars
    BY <1>2, <2>2, MainQuiet
  <2>3. CASE Accept
    BY <1>2, <2>3, AcceptLoops
  <2>4. CASE \E w \in Workers : WorkerStep(w) \/ RunFunctor(w)
    BY <1>2, <2>4, WorkerQuiet, PopTakeLoops, ThreadFuncLoops, EnterLoops, RunFunctorLoops
       DEF WorkerStep, GetTask
  <2> QED  BY <1>2, <2>1, <2>2, <2>3, <2>4 DEF Next
<1> QED  BY <1>1, <1>2, Inductive, PTL DEF Safety

\* A loop is without a thread, two workers share one, and the assertion of
\* addConnection fails only if a connection has drawn one of the first numbers.
THEOREM WorkersLoseLoopsToConnectionsOnly == Safety => []LoopsLostToConnectionsOnly
<1>1. LInv => LoopsLostToConnectionsOnly
  BY DEF LInv, LoopsTaken, OwnLoops, LoopsLostToConnectionsOnly
<1> QED  BY <1>1, LoopsInductive, PTL

-----------------------------------------------------------------------------
(***************************************************************************)
(* The round robin.  Workers and connections draw from one counter, in any *)
(* order; every draw is a worker or a connection of the loop drawn.        *)
(***************************************************************************)
\* A loop has been chosen for the connection accepted last.
Handing == pc[Main] = "dispatch"

\* The connections of a sub loop, added or queued, are different ones, and
\* none of them is the one that is being given to a loop.
Fresh ==
  \A l \in SubLoops :
    /\ \A c \in conns[l] : c <= accepted /\ (Handing => c # accepted)
    /\ \A i \in 1..Len(pendings[l]) :
          /\ pendings[l][i] <= accepted /\ (Handing => pendings[l][i] # accepted)
          /\ pendings[l][i] \notin conns[l]
          /\ \A j \in 1..Len(pendings[l]) : i # j => pendings[l][i] # pendings[l][j]

\* r rounds are complete, and p sub loops have been drawn in the next one.
Deal(r, p) ==
  /\ \A l \in SubLoops : Given(l) + runners[l] = IF l < p THEN r + 1 ELSE r
  /\ nextLoopIndex = r * ThreadNum + p

DealInv == Fresh /\ \E r \in Nat, p \in SubLoops : Deal(r, p)

\* The queued and the added connections of a loop are numbers.
Held(l) == Len(pendings[l]) + Cardinality(conns[l])

LEMMA GivenNat ==
  ASSUME TypeOK
  PROVE  \A l \in SubLoops :
            /\ IsFiniteSet(conns[l]) /\ Cardinality(conns[l]) \in Nat
            /\ pendings[l] \in Seq(Conn) /\ Len(pendings[l]) \in Nat
            /\ Held(l) \in Nat /\ Given(l) \in Nat
            /\ Given(l) = Held(l) + (IF Handing /\ at[Main] = l THEN 1 ELSE 0)
<1> TAKE l \in SubLoops
<1>1. l \in Loops
  BY DEF Loops
<1>2. pendings[l] \in Seq(Conn) /\ conns[l] \subseteq Conn
  BY <1>1 DEF TypeOK
<1>3. IsFiniteSet(conns[l]) /\ Cardinality(conns[l]) \in Nat
  <2>1. IsFiniteSet(Conn)
    BY Numbers, FS_Interval DEF Conn
  <2> QED  BY <1>2, <2>1, FS_Subset, FS_CardinalityType
<1>4. Len(pendings[l]) \in Nat
  BY <1>2, LenProperties
<1> QED  BY <1>2, <1>3, <1>4 DEF Given, Held, Handing

\* ... in the next state.
LEMMA GivenNatNext ==
  (TypeOK => \A l \in SubLoops :
                Given(l) = Held(l) + (IF Handing /\ at[Main] = l THEN 1 ELSE 0))'
<1>1. TypeOK => \A l \in SubLoops :
                   Given(l) = Held(l) + (IF Handing /\ at[Main] = l THEN 1 ELSE 0)
  BY GivenNat
<1> QED  BY <1>1, PTL

\* What DealInv is about, if the step does not deal.
LEMMA NothingDealt ==
  ASSUME DealInv, UNCHANGED <<pendings, conns, accepted, nextLoopIndex, runners>>,
         at'[Main] = at[Main], Handing' <=> Handing
  PROVE  DealInv'
<1>1. PICK r \in Nat, p \in SubLoops : Deal(r, p)
  BY DEF DealInv
<1>2. ThreadNum' = ThreadNum /\ SubLoops' = SubLoops /\ \A l : Given(l)' = Given(l)
  BY DEF SubLoops, Given, Handing
<1>3. Deal(r, p)'
  BY <1>1, <1>2 DEF Deal
<1>4. Fresh'
  BY <1>2 DEF DealInv, Fresh
<1>5. \E r2 \in Nat, p2 \in SubLoops' : Deal(r2, p2)'
  BY <1>2, <1>3
<1> QED  BY <1>4, <1>5 DEF DealInv

\* The loop whose turn it is has been drawn: one more has, or the round is
\* complete.
LEMMA NextDealt ==
  ASSUME TypeOK, TypeOK', NEW r \in Nat, NEW p \in SubLoops, Deal(r, p),
         nextLoopIndex' = nextLoopIndex + 1,
         \A l \in SubLoops : Given(l)' + runners'[l]
                               = Given(l) + runners[l] + (IF l = p THEN 1 ELSE 0)
  PROVE  \E r2 \in Nat, p2 \in SubLoops' : Deal(r2, p2)'
<1> USE Numbers
<1>1. ThreadNum' = ThreadNum /\ SubLoops' = SubLoops /\ SubLoops = 0..(ThreadNum - 1)
  BY DEF SubLoops
<1> DEFINE round == r * ThreadNum
           load(l) == Given(l) + runners[l]
           next(l) == Given(l)' + runners'[l]
<1>2. nextLoopIndex = round + p /\ round \in Nat
  BY DEF Deal
<1>3. \A l \in SubLoops : next(l) = IF l < p \/ l = p THEN r + 1 ELSE r
  <2>1. \A l \in SubLoops : /\ load(l) = IF l < p THEN r + 1 ELSE r
                            /\ next(l) = load(l) + (IF l = p THEN 1 ELSE 0)
    BY DEF Deal
  <2> HIDE DEF load, next
  <2> QED  BY ONLY <1>1, <2>1, r \in Nat, p \in SubLoops, ThreadNum \in Nat \ {0}
<1> HIDE DEF next
<1>4. CASE p + 1 < ThreadNum
  <2>1. p + 1 \in SubLoops
    BY <1>1, <1>4
  <2>2. \A l \in SubLoops : next(l) = IF l < p + 1 THEN r + 1 ELSE r
    BY ONLY <1>1, <1>3, p \in SubLoops, ThreadNum \in Nat \ {0}
  <2>3. nextLoopIndex' = round + (p + 1)
    <3> HIDE DEF round
    <3> QED  BY <1>1, <1>2
  <2>4. Deal(r, p + 1)'
    BY <1>1, <2>2, <2>3 DEF Deal, next
  <2> QED  BY <1>1, <2>1, <2>4
<1>5. CASE p + 1 = ThreadNum
  <2>1. 0 \in SubLoops
    BY <1>1
  <2>2. \A l \in SubLoops : next(l) = IF l < 0 THEN (r + 1) + 1 ELSE r + 1
    BY ONLY <1>1, <1>3, <1>5, p \in SubLoops, ThreadNum \in Nat \ {0}
  <2>3. nextLoopIndex' = (r + 1) * ThreadNum + 0
    <3>1. (r + 1) * ThreadNum = round + ThreadNum
      OBVIOUS
    <3> HIDE DEF round
    <3>2. nextLoopIndex' = round + ThreadNum
      BY <1>1, <1>2, <1>5
    <3> QED  BY <1>2, <3>1, <3>2
  <2>4. Deal(r + 1, 0)'
    BY <1>1, <2>2, <2>3 DEF Deal, next
  <2>5. r + 1 \in Nat
    OBVIOUS
  <2> QED  BY <1>1, <2>1, <2>4, <2>5
<1> QED  BY <1>1, <1>4, <1>5

\* The loop drawn is the one whose turn it is.
LEMMA TurnDrawn ==
  ASSUME NEW r \in Nat, NEW p \in SubLoops, Deal(r, p)
  PROVE  nextLoopIndex % ThreadNum = p
<1>1. p \in 0..ThreadNum - 1 /\ ThreadNum \in Nat \ {0}
  BY Numbers DEF SubLoops
<1> QED  BY <1>1, Division DEF Deal

\* The steps that deal nothing.
LEMMA QuietDeal ==
  ASSUME IInv, DealInv,
         \/ StartStep \/ ExitMainLoop \/ Signal \/ StopStep \/ Spurious \/ UNCHANGED vars
         \/ \E w \in Workers : \/ CheckExit(w) \/ GetTask(w) \/ SkipNull(w) \/ EnterLoop(w)
                               \/ ExitLoop(w)
  PROVE  DealInv'
<1>a. Main \in Threads /\ \A w \in Workers : w \in Threads /\ w # Main
  BY Numbers DEF Threads
<1>b. DOMAIN pc = Threads /\ SignalAt \subseteq {"idle", "push", "ready", "epoll"}
  BY MultiThreadEventLoopAssumption DEF IInv, TypeOK
<1>1. UNCHANGED <<pendings, conns, accepted, drawVars, at>>
  BY DEF StartStep, Start, AddThreadTask, PushThreadTask, CreateWorker, Ready, EnterMainLoop,
     ExitMainLoop, Signal, StopStep, Unloop, DrainDone, SetIsExit, WakeUpQueue, Join, Spurious,
     CheckExit, GetTask, SkipNull, EnterLoop, ExitLoop, vars, loopVars
<1>2. Handing' <=> Handing
  <2>1. CASE StartStep \/ ExitMainLoop
    <3>1. CASE PushThreadTask
      <4>1. pc[Main] = "push"
        BY <3>1 DEF PushThreadTask, Push
      <4> DEFINE f == [pc EXCEPT ![Main] = "idle"]
                 S == MainLabel \cup WorkerLabel
      <4>2. f \in [Threads -> S] /\ f[Main] = "idle"
        BY <1>a, Labels DEF IInv, TypeOK
      <4>3. pc' = [pc EXCEPT ![Main] = "pushWait"] \/ pc' \in NotifyOne(f, "popWait", "pop")
        BY <3>1 DEF PushThreadTask, Push
      <4>4. "pop" \in S
        BY DEF WorkerLabel
      <4>5. ASSUME pc' \in NotifyOne(f, "popWait", "pop") PROVE pc'[Main] = "idle"
        <5> HIDE DEF f, S
        <5>1. f \in [Threads -> S] /\ DOMAIN f = Threads
          BY <4>2
        <5> QED  BY <1>a, <4>2, <4>5, <5>1 DEF NotifyOne
      <4> QED  BY <1>a, <1>b, <4>1, <4>3, <4>5 DEF Handing
    <3>2. CASE \E w \in Workers : CreateWorker(w)
      BY <3>2, <1>a, <1>b DEF CreateWorker, Goto, Handing
    <3>3. CASE Start \/ AddThreadTask \/ Ready \/ EnterMainLoop \/ ExitMainLoop
      BY <3>3, <1>a, <1>b DEF Start, AddThreadTask, Ready, EnterMainLoop, ExitMainLoop, Goto,
         Handing
    <3> QED  BY <2>1, <3>1, <3>2, <3>3 DEF StartStep
  <2>2. CASE Signal \/ StopStep
    <3>1. CASE Signal \/ Unloop \/ DrainDone \/ SetIsExit \/ ClearNotExit(Main)
      BY <3>1, <1>a, <1>b DEF Signal, Unloop, DrainDone, SetIsExit, ClearNotExit, Goto, Handing
    <3>2. CASE NotifyAllPops(Main)
      BY <3>2, <1>a, <1>b DEF NotifyAllPops, NotifyAll, Handing
    <3>3. CASE Join
      BY <3>3, <1>a, <1>b DEF Join, Goto, Handing, IInv, TypeOK
    <3> QED  BY <2>2, <3>1, <3>2, <3>3 DEF StopStep, WakeUpQueue
  <2>3. CASE Spurious
    BY <2>3, <1>a, <1>b DEF Spurious, SpuriousWakeUp, Handing
  <2>4. CASE UNCHANGED vars
    BY <2>4 DEF vars, poolVars, queueVars, Handing
  <2>5. ASSUME NEW w \in Workers,
               CheckExit(w) \/ GetTask(w) \/ SkipNull(w) \/ EnterLoop(w) \/ ExitLoop(w)
        PROVE  Handing' <=> Handing
    <3>1. CASE PopTake(w)
      BY <3>1, PopTakeMoves DEF Handing
    <3>2. CASE CheckExit(w) \/ Pop(w) \/ PopPark(w) \/ SkipNull(w) \/ EnterLoop(w) \/ ExitLoop(w)
      BY <3>2, <1>a, <1>b DEF CheckExit, Pop, PopPark, SkipNull, EnterLoop, ExitLoop, Goto, Handing
    <3> QED  BY <2>5, <3>1, <3>2 DEF GetTask
  <2> QED  BY <2>1, <2>2, <2>3, <2>4, <2>5
<1> QED  BY <1>1, <1>2, NothingDealt DEF drawVars

\* A worker draws the loop whose turn it is.
LEMMA ThreadFuncDeal ==
  ASSUME IInv, IInv', DealInv, NEW w \in Workers, ThreadFunc(w)
  PROVE  DealInv'
<1>a. w \in Threads /\ Main \in Threads /\ w # Main
  BY Numbers DEF Threads
<1>1. PICK r \in Nat, p \in SubLoops : Deal(r, p)
  BY DEF DealInv
<1>2. nextLoopIndex % ThreadNum = p
  BY <1>1, TurnDrawn
<1>3. /\ pc'[Main] = pc[Main] /\ at'[Main] = at[Main]
      /\ nextLoopIndex' = nextLoopIndex + 1
      /\ runners' = [runners EXCEPT ![p] = @ + 1]
      /\ UNCHANGED <<pendings, conns, accepted>>
  BY <1>a, <1>2 DEF ThreadFunc, Goto, IInv, TypeOK
<1>4. SubLoops' = SubLoops /\ (\A l : Given(l)' = Given(l)) /\ (Handing' <=> Handing)
  BY <1>3 DEF SubLoops, Given, Handing
<1>5. \A l \in SubLoops : Given(l)' + runners'[l]
                            = Given(l) + runners[l] + (IF l = p THEN 1 ELSE 0)
  <2> TAKE l \in SubLoops
  <2>1. /\ runners'[l] = runners[l] + (IF l = p THEN 1 ELSE 0) /\ runners[l] \in Nat
        /\ Given(l) \in Nat
    BY <1>3, GivenNat DEF IInv, TypeOK
  <2>2. Given(l)' = Given(l)
    BY <1>4
  <2> QED  BY <2>1, <2>2
<1>6. \E r2 \in Nat, p2 \in SubLoops' : Deal(r2, p2)'
  BY <1>1, <1>3, <1>5, NextDealt DEF IInv
<1>7. Fresh'
  BY <1>3, <1>4 DEF DealInv, Fresh
<1> QED  BY <1>6, <1>7 DEF DealInv

\* The next connection is for the loop whose turn it is, or, after stop, for
\* the main loop.
LEMMA AcceptDeal ==
  ASSUME IInv, IInv', DealInv, Accept
  PROVE  DealInv'
<1> USE Numbers
<1>a. Main \in Threads /\ MainLoop \notin SubLoops
  BY DEF Threads, MainLoop, SubLoops
<1>1. PICK r \in Nat, p \in SubLoops : Deal(r, p)
  BY DEF DealInv
<1>2. nextLoopIndex % ThreadNum = p
  BY <1>1, TurnDrawn
<1>3. /\ ~Handing /\ Handing'
      /\ accepted' = accepted + 1 /\ UNCHANGED <<pendings, conns, runners>>
      /\ \/ at'[Main] = MainLoop /\ nextLoopIndex' = nextLoopIndex
         \/ at'[Main] = p /\ nextLoopIndex' = nextLoopIndex + 1
  BY <1>a, <1>2 DEF Accept, Connect, Goto, Handing, IInv, TypeOK
<1>4. ThreadNum' = ThreadNum /\ SubLoops' = SubLoops /\ \A l : Held(l)' = Held(l)
  BY <1>3 DEF SubLoops, Held
<1>5. \A l \in SubLoops : /\ Given(l) = Held(l) /\ Held(l) \in Nat /\ runners[l] \in Nat
                          /\ Given(l)' = Held(l) + (IF at'[Main] = l THEN 1 ELSE 0)
                          /\ runners'[l] = runners[l]
  <2>1. TypeOK /\ TypeOK'
    BY DEF IInv
  <2>2. \A l \in SubLoops : Given(l)' = Held(l)' + (IF Handing' /\ at'[Main] = l THEN 1 ELSE 0)
    <3>1. \A l \in SubLoops' : Given(l)' = Held(l)' + (IF Handing' /\ at'[Main] = l THEN 1 ELSE 0)
      BY <2>1, GivenNatNext
    <3> QED  BY <1>4, <3>1
  <2>3. \A l \in SubLoops : Given(l) = Held(l) /\ Held(l) \in Nat /\ runners[l] \in Nat
    BY <1>3, <2>1, GivenNat DEF TypeOK
  <2> QED  BY <1>3, <1>4, <2>2, <2>3
<1>6. \E r2 \in Nat, p2 \in SubLoops' : Deal(r2, p2)'
  <2>1. CASE at'[Main] = MainLoop /\ nextLoopIndex' = nextLoopIndex
    <3>1. \A l \in SubLoops : Given(l)' = Given(l) /\ runners'[l] = runners[l]
      BY <1>a, <1>5, <2>1
    <3>2. Deal(r, p)'
      BY <1>1, <1>4, <2>1, <3>1 DEF Deal
    <3> QED  BY <1>4, <3>2
  <2>2. CASE at'[Main] = p /\ nextLoopIndex' = nextLoopIndex + 1
    <3>1. \A l \in SubLoops : Given(l)' + runners'[l]
                                = Given(l) + runners[l] + (IF l = p THEN 1 ELSE 0)
      BY <1>5, <2>2
    <3> QED  BY <1>1, <2>2, <3>1, NextDealt DEF IInv
  <2> QED  BY <1>3, <2>1, <2>2
<1>7. Fresh'
  <2>1. \A l \in SubLoops : /\ \A c \in conns[l] : c \in Nat /\ c <= accepted
                            /\ \A i \in 1..Len(pendings[l]) : /\ pendings[l][i] \in Nat
                                                              /\ pendings[l][i] <= accepted
    <3> TAKE l \in SubLoops
    <3>1. conns[l] \subseteq Conn /\ pendings[l] \in Seq(Conn)
      BY DEF IInv, TypeOK, Loops
    <3>2. \A i \in 1..Len(pendings[l]) : pendings[l][i] \in Conn
      BY ONLY <3>1, LenProperties
    <3>3. \A c \in Conn : c \in Nat
      BY DEF Conn
    <3>4. /\ \A c \in conns[l] : c <= accepted
          /\ \A i \in 1..Len(pendings[l]) : pendings[l][i] <= accepted
      BY DEF DealInv, Fresh
    <3> QED  BY ONLY <3>1, <3>2, <3>3, <3>4
  <2>2. \A l \in SubLoops : /\ \A c \in conns[l] : c <= accepted + 1 /\ c # accepted + 1
                            /\ \A i \in 1..Len(pendings[l]) :
                                  /\ pendings[l][i] <= accepted + 1
                                  /\ pendings[l][i] # accepted + 1
    <3>1. accepted \in Nat
      BY DEF IInv, TypeOK
    <3> QED  BY <2>1, <3>1
  <2> QED  BY <1>3, <1>4, <2>2 DEF DealInv, Fresh
<1> QED  BY <1>6, <1>7 DEF DealInv

\* The connections of a loop are counted by a number in the next state, too.
LEMMA HeldNatNext == (TypeOK => \A l \in SubLoops : Held(l) \in Nat)'
<1>1. TypeOK => \A l \in SubLoops : Held(l) \in Nat
  BY GivenNat
<1> QED  BY <1>1, PTL

\* The connection reaches the loop chosen, to which it counts already.
LEMMA RunInLoopDeal ==
  ASSUME IInv, IInv', DealInv, RunInLoop
  PROVE  DealInv'
<1> USE Numbers
<1>a. Main \in Threads /\ MainLoop \notin SubLoops /\ SubLoops \subseteq Loops
  BY DEF Threads, MainLoop, SubLoops, Loops
<1>0. PICK a \in Loops : a = at[Main]
  BY <1>a DEF IInv, TypeOK
<1>1. /\ Handing /\ ~Handing' /\ a \in Loops
      /\ UNCHANGED <<accepted, nextLoopIndex, at>>
      /\ \/ /\ conns' = [conns EXCEPT ![a] = @ \cup {accepted}]
            /\ UNCHANGED pendings
         \/ /\ pendings' = [pendings EXCEPT ![a] = Append(@, accepted)]
            /\ UNCHANGED conns
  BY <1>0, <1>a DEF RunInLoop, Goto, Handing, IInv, TypeOK, drawVars
<1>2. /\ accepted \in Conn /\ accepted > 0 /\ nextLoopIndex \in Nat
      /\ pendings \in [Loops -> Seq(Conn)] /\ conns \in [Loops -> SUBSET Conn]
  BY <1>1 DEF Handing, IInv, TypeOK, Dispatching, Conn
<1>3. PICK r \in Nat, p \in SubLoops : Deal(r, p)
  BY DEF DealInv
<1>4. ThreadNum' = ThreadNum /\ SubLoops' = SubLoops
  BY DEF SubLoops
<1>5. \A l \in SubLoops \ {a} : pendings'[l] = pendings[l] /\ conns'[l] = conns[l]
  BY <1>a, <1>1, <1>2
<1>6. ASSUME a \in SubLoops
      PROVE  /\ Held(a)' = Held(a) + 1
             /\ \/ conns'[a] = conns[a] \cup {accepted} /\ pendings'[a] = pendings[a]
                \/ conns'[a] = conns[a] /\ pendings'[a] = Append(pendings[a], accepted)
  <2>1. \/ conns'[a] = conns[a] \cup {accepted} /\ pendings'[a] = pendings[a]
        \/ conns'[a] = conns[a] /\ pendings'[a] = Append(pendings[a], accepted)
    BY <1>1, <1>2
  <2>2. pendings[a] \in Seq(Conn) /\ Len(pendings[a]) \in Nat
    BY <1>1, <1>2, LenProperties
  <2>3. IsFiniteSet(conns[a]) /\ Cardinality(conns[a]) \in Nat
    BY <1>6, GivenNat DEF IInv
  <2>4. CASE conns'[a] = conns[a] \cup {accepted} /\ pendings'[a] = pendings[a]
    <3>1. accepted \notin conns[a]
      BY <1>1, <1>6 DEF DealInv, Fresh
    <3>2. Cardinality(conns'[a]) = Cardinality(conns[a]) + 1
      BY <2>3, <2>4, <3>1, FS_AddElement
    <3> QED  BY <2>1, <2>2, <2>3, <2>4, <3>2 DEF Held
  <2>5. CASE conns'[a] = conns[a] /\ pendings'[a] = Append(pendings[a], accepted)
    <3>1. Len(pendings'[a]) = Len(pendings[a]) + 1
      BY <1>2, <2>2, <2>5, AppendProperties
    <3> QED  BY <2>1, <2>2, <2>3, <2>5, <3>1 DEF Held
  <2> QED  BY <2>1, <2>4, <2>5
<1>7. Fresh'
  <2> SUFFICES ASSUME NEW l \in SubLoops
               PROVE  /\ \A c \in conns'[l] : c <= accepted
                      /\ \A i \in 1..Len(pendings'[l]) :
                            /\ pendings'[l][i] <= accepted
                            /\ pendings'[l][i] \notin conns'[l]
                            /\ \A j \in 1..Len(pendings'[l]) :
                                  i # j => pendings'[l][i] # pendings'[l][j]
    BY <1>1, <1>4 DEF Fresh
  <2>1. /\ \A c \in conns[l] : c <= accepted /\ c # accepted
        /\ \A i \in 1..Len(pendings[l]) :
              /\ pendings[l][i] <= accepted /\ pendings[l][i] # accepted
              /\ pendings[l][i] \notin conns[l]
              /\ \A j \in 1..Len(pendings[l]) : i # j => pendings[l][i] # pendings[l][j]
    BY <1>1 DEF DealInv, Fresh
  <2>0. accepted <= accepted
    BY <1>2 DEF Conn
  <2>2. CASE l # a
    BY <1>5, <2>1, <2>2
  <2>3. CASE l = a /\ conns'[l] = conns[l] \cup {accepted} /\ pendings'[l] = pendings[l]
    BY <2>0, <2>1, <2>3
  <2>4. CASE l = a /\ conns'[l] = conns[l] /\ pendings'[l] = Append(pendings[l], accepted)
    <3>1. /\ Len(pendings'[l]) = Len(pendings[l]) + 1 /\ Len(pendings[l]) \in Nat
          /\ pendings'[l][Len(pendings[l]) + 1] = accepted
          /\ \A i \in 1..Len(pendings[l]) : pendings'[l][i] = pendings[l][i]
      BY <1>a, <1>2, <2>4, AppendProperties, LenProperties
    <3>2. \A i \in 1..Len(pendings'[l]) : i \in 1..Len(pendings[l]) \/ i = Len(pendings[l]) + 1
      BY <3>1
    <3> QED  BY <2>0, <2>1, <2>4, <3>1, <3>2
  <2> QED  BY <1>6, <2>2, <2>3, <2>4
<1>8. \A l \in SubLoops : Given(l)' = Given(l)
  <2> TAKE l \in SubLoops
  <2>1. /\ Given(l) = Held(l) + (IF a = l THEN 1 ELSE 0) /\ Held(l) \in Nat
        /\ Given(l)' = Held(l)'
    <3>1. Given(l) = Held(l) + (IF Handing /\ at[Main] = l THEN 1 ELSE 0) /\ Held(l) \in Nat
      BY GivenNat DEF IInv
    <3>2. TypeOK' /\ l \in SubLoops'
      BY <1>4 DEF IInv
    <3>3. Given(l)' = (Held(l) + (IF Handing /\ at[Main] = l THEN 1 ELSE 0))'
      BY <1>4, <3>2, GivenNatNext
    <3>4. Given(l)' = Held(l)' + 0
      BY <1>1, <3>3
    <3>5. Held(l)' \in Nat
      <4>1. l \in SubLoops' => Held(l)' \in Nat
        BY <3>2, HeldNatNext
      <4> QED  BY <3>2, <4>1
    <3> QED  BY <1>0, <1>1, <3>1, <3>4, <3>5
  <2>2. CASE l # a
    <3>1. Held(l)' = Held(l)
      BY <1>5, <2>2 DEF Held
    <3> QED  BY <2>1, <2>2, <3>1
  <2>3. CASE l = a
    BY <1>6, <2>1, <2>3
  <2> QED  BY <2>2, <2>3
<1>9. UNCHANGED runners
  BY DEF RunInLoop, drawVars
<1>10. Deal(r, p)'
  BY <1>1, <1>3, <1>4, <1>8, <1>9 DEF Deal
<1>11. \E r2 \in Nat, p2 \in SubLoops' : Deal(r2, p2)'
  BY <1>4, <1>10
<1> QED  BY <1>7, <1>11 DEF DealInv

\* The connection at the head of the queue is added, so that the loop has as
\* many, or the process aborts.
LEMMA RunFunctorDeal ==
  ASSUME IInv, DealInv, NEW w \in Workers, RunFunctor(w)
  PROVE  DealInv'
<1> SUFFICES ASSUME threadId[at[w]] = w PROVE DealInv'
  BY NothingDealt DEF RunFunctor, poolVars, queueVars, drawVars, Handing
<1> USE Numbers
<1>0. PICK a \in Loops : a = at[w]
  BY DEF IInv, TypeOK, Threads
<1> DEFINE head == Head(pendings[a])
<1>a. SubLoops \subseteq Loops
  BY DEF SubLoops, Loops
<1>1. /\ pendings[a] # <<>>
      /\ pendings' = [pendings EXCEPT ![a] = Tail(pendings[a])]
      /\ conns' = [conns EXCEPT ![a] = @ \cup {head}]
      /\ UNCHANGED <<pc, accepted, nextLoopIndex, runners, at>>
  BY <1>0 DEF RunFunctor, poolVars, queueVars, drawVars
<1>2. pendings \in [Loops -> Seq(Conn)] /\ conns \in [Loops -> SUBSET Conn]
  BY DEF IInv, TypeOK
<1>3. /\ pendings[a] \in Seq(Conn) /\ Len(pendings[a]) \in Nat \ {0}
      /\ head = pendings[a][1] /\ head \in Conn
      /\ Len(Tail(pendings[a])) = Len(pendings[a]) - 1
      /\ \A i \in 1..Len(Tail(pendings[a])) : Tail(pendings[a])[i] = pendings[a][i + 1]
  <2>1. pendings[a] \in Seq(Conn) /\ pendings[a] # <<>>
    BY <1>a, <1>1, <1>2
  <2> QED  BY <2>1, HeadTailProperties, LenProperties, EmptySeq
<1> HIDE DEF head
<1>4. /\ pendings'[a] = Tail(pendings[a]) /\ conns'[a] = conns[a] \cup {head}
      /\ \A l \in SubLoops \ {a} : pendings'[l] = pendings[l] /\ conns'[l] = conns[l]
  BY <1>a, <1>1, <1>2
<1>5. Handing' = Handing /\ ThreadNum' = ThreadNum /\ SubLoops' = SubLoops
  BY <1>1 DEF Handing, SubLoops
<1>6. \A l \in SubLoops : Given(l)' = Given(l)
  <2>1. \A l \in SubLoops \ {a} : Given(l)' = Given(l)
    BY <1>1, <1>4 DEF Given
  <2>2. ASSUME a \in SubLoops PROVE Given(a)' = Given(a)
    <3>1. head \notin conns[a]
      BY <1>3, <2>2 DEF DealInv, Fresh
    <3>2. IsFiniteSet(conns[a]) /\ Cardinality(conns[a]) \in Nat
      <4>1. IsFiniteSet(Conn)
        BY FS_Interval DEF Conn
      <4> QED  BY <1>a, <1>2, <4>1, FS_Subset, FS_CardinalityType
    <3>3. Cardinality(conns'[a]) = Cardinality(conns[a]) + 1
      BY <1>4, <3>1, <3>2, FS_AddElement
    <3>4. Held(a)' = Held(a)
      BY <1>3, <1>4, <3>2, <3>3 DEF Held
    <3> QED  BY <1>1, <3>4 DEF Given, Held
  <2> QED  BY <2>1, <2>2
<1>7. Fresh'
  <2> SUFFICES ASSUME NEW l \in SubLoops
               PROVE  /\ \A c \in conns'[l] : c <= accepted /\ (Handing => c # accepted)
                      /\ \A i \in 1..Len(pendings'[l]) :
                            /\ pendings'[l][i] <= accepted
                            /\ Handing => pendings'[l][i] # accepted
                            /\ pendings'[l][i] \notin conns'[l]
                            /\ \A j \in 1..Len(pendings'[l]) :
                                  i # j => pendings'[l][i] # pendings'[l][j]
    BY <1>1, <1>5 DEF Fresh
  <2>1. /\ \A c \in conns[l] : c <= accepted /\ (Handing => c # accepted)
        /\ \A i \in 1..Len(pendings[l]) :
              /\ pendings[l][i] <= accepted /\ (Handing => pendings[l][i] # accepted)
              /\ pendings[l][i] \notin conns[l]
              /\ \A j \in 1..Len(pendings[l]) : i # j => pendings[l][i] # pendings[l][j]
    BY DEF DealInv, Fresh
  <2>2. CASE l # a
    BY <1>4, <2>1, <2>2
  <2>3. CASE l = a
    <3> DEFINE n == Len(pendings[a])
    <3>a. n \in Nat \ {0}
      BY <1>3
    <3>b. /\ \A i \in 1..n - 1 : i + 1 \in 1..n /\ i + 1 # 1
          /\ \A i, j \in 1..n - 1 : i # j => i + 1 # j + 1
          /\ 1 \in 1..n
      BY ONLY <3>a
    <3>c. /\ Len(pendings'[l]) = n - 1 /\ head = pendings[l][1]
          /\ \A i \in 1..n - 1 : pendings'[l][i] = pendings[l][i + 1]
      BY <1>3, <1>4, <2>3
    <3>1. /\ n \in Nat \ {0} /\ Len(pendings'[l]) = n - 1
          /\ \A i \in 1..n - 1 : pendings'[l][i] = pendings[l][i + 1] /\ i + 1 \in 1..n
                                                                      /\ i + 1 # 1
          /\ \A i, j \in 1..n - 1 : i # j => i + 1 # j + 1
          /\ head = pendings[l][1] /\ 1 \in 1..n
      BY ONLY <3>a, <3>b, <3>c
    <3>2. conns'[l] = conns[l] \cup {head}
      BY <1>4, <2>3
    <3>3. n = Len(pendings[l])
      BY <2>3
    <3> HIDE DEF n
    <3>4. \A c \in conns'[l] : c <= accepted /\ (Handing => c # accepted)
      BY <2>1, <3>1, <3>2, <3>3
    <3> QED  BY <2>1, <3>1, <3>2, <3>3, <3>4
  <2> QED  BY <2>2, <2>3
<1>8. PICK r \in Nat, p \in SubLoops : Deal(r, p)
  BY DEF DealInv
<1>9. Deal(r, p)'
  BY <1>1, <1>5, <1>6, <1>8 DEF Deal
<1>10. \E r2 \in Nat, p2 \in SubLoops' : Deal(r2, p2)'
  BY <1>5, <1>9
<1> QED  BY <1>7, <1>10 DEF DealInv

\* ... so that DealInv is an invariant.
LEMMA DealInductive == Safety => []DealInv
<1>1. ASSUME Init PROVE DealInv
  <2>1. /\ ThreadNum \in Nat \ {0} /\ 0 \in SubLoops
        /\ \A l \in SubLoops : l \in Nat /\ pendings[l] = <<>> /\ conns[l] = {}
                                /\ runners[l] = 0
        /\ nextLoopIndex = 0 /\ ~Handing
    BY <1>1, Numbers DEF Init, Handing, SubLoops, Loops, Threads
  <2>2. \A l \in SubLoops : Given(l) + runners[l] = 0
    <3>1. Len(<<>>) = 0 /\ Cardinality({}) = 0
      BY FS_EmptySet
    <3>2. \A l \in SubLoops : Given(l) = Len(<<>>) + Cardinality({}) + 0
      BY <2>1 DEF Given, Handing
    <3>3. \A l \in SubLoops : Given(l) = 0 /\ runners[l] = 0
      BY <2>1, <3>1, <3>2
    <3> QED  BY ONLY <3>3
  <2>3. Deal(0, 0)
    BY <2>1, <2>2 DEF Deal
  <2>4. Fresh
    BY <2>1, EmptySeq DEF Fresh
  <2>5. \E r \in Nat, p \in SubLoops : Deal(r, p)
    BY <2>1, <2>3
  <2> QED  BY <2>4, <2>5 DEF DealInv
<1>2. ASSUME IInv, IInv', DealInv, [Next]_vars PROVE DealInv'
  <2>1. CASE StartStep \/ ExitMainLoop \/ Signal \/ StopStep \/ Spurious \/ UNCHANGED vars
    BY <1>2, <2>1, QuietDeal
  <2>2. CASE RunInLoop
    BY <1>2, <2>2, RunInLoopDeal
  <2>3. CASE Accept
    BY <1>2, <2>3, AcceptDeal
  <2>4. CASE \E w \in Workers : WorkerStep(w) \/ RunFunctor(w)
    BY <1>2, <2>4, QuietDeal, ThreadFuncDeal, RunFunctorDeal DEF WorkerStep
  <2> QED  BY <1>2, <2>1, <2>2, <2>3, <2>4 DEF Next, MainLoopStep
<1> QED  BY <1>1, <1>2, Inductive, PTL DEF Safety

\* Round robin, although workers and connections draw from the same counter in
\* any order and stop may come between any two connections: every loop has as
\* many workers and connections together as any other, up to one.
THEOREM ConnectionsAreShared == Safety => []RoundRobin
<1>1. ASSUME TypeOK, DealInv PROVE RoundRobin
  <2>1. PICK r \in Nat, p \in SubLoops : Deal(r, p)
    BY <1>1 DEF DealInv
  <2>2. \A l \in SubLoops : Given(l) + runners[l] = IF l < p THEN r + 1 ELSE r
    BY <2>1 DEF Deal
  <2> QED  BY <2>2 DEF RoundRobin
<1> QED  BY <1>1, DealInductive, TypeCorrect, PTL
=============================================================================
