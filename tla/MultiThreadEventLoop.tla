------------------------ MODULE MultiThreadEventLoop ------------------------
(***************************************************************************)
(* The life of the server, reactor/MultiThreadEventLoop.cc and main: start *)
(* puts one threadFunc per sub loop into the pool's TaskQueue, creates the *)
(* workers and accepts connections; each worker draws the number of the    *)
(* loop it is to run, each connection that of the loop it is given to,     *)
(* from one counter; stop runs in a signal handler on the main thread,     *)
(* which resumes afterwards.                                               *)
(*                                                                         *)
(* runInLoop is taken at its promise (module FunctorMailbox): the functors *)
(* handed to a loop are run one by one, in order, by the loop's thread.    *)
(* A sub loop looks at _isLooping at least every 3 seconds, when           *)
(* epoll_wait times out; a time-out that finds it set changes nothing.     *)
(***************************************************************************)
EXTENDS TaskQueue, FiniteSets

CONSTANTS Workers,     \* the threads of the pool, as many as sub loops
          Main,        \* the main thread
          MaxConns,    \* bound on the connections accepted
          SignalAt     \* the points of the main thread at which SIGINT or
                       \* SIGTERM may arrive

ASSUME MultiThreadEventLoopAssumption ==
  /\ IsFiniteSet(Workers) /\ Workers # {}
  /\ QueueSize \in Nat \ {0} /\ MaxConns \in Nat
  /\ Main \notin Workers
  /\ NoThread \notin Workers \cup {Main}
  /\ NoTask \notin Nat
  /\ SignalAt \subseteq {"idle", "push", "ready", "epoll"}

VARIABLES
  running,        \* _running
  isExit,         \* _threadPool._isExit
  nextLoopIndex,  \* _nextLoopIndex
  isLooping,      \* _isLooping of each loop
  threadId,       \* _threadId of each loop, NoThread before loop()
  pendings,       \* the functors handed to each loop: the connections to add
  conns,          \* _conns of each loop
  at,             \* the loop each worker runs or is about to run, and the
                  \* one the main thread has chosen for a connection
  runners,        \* history: how many workers have drawn each sub loop
  early,          \* history: the sub loops whose first number, the ones below
                  \* ThreadNum, was drawn for a connection
  accepted,       \* number of connections accepted
  unlooped,       \* number of sub loops stop has called unloop on
  resume,         \* where the signal has interrupted main, or "none"
  cleared,        \* _subLoops has been cleared
  aborted         \* assertInLoopThread has aborted the process

poolVars == <<queueVars, isExit>>
drawVars == <<nextLoopIndex, runners, early>>
loopVars == <<drawVars, isLooping, threadId, pendings, conns, at>>
stopVars == <<running, unlooped, resume, cleared>>
vars == <<poolVars, loopVars, stopVars, accepted, aborted>>

ThreadNum == Cardinality(Workers)
SubLoops == 0..(ThreadNum - 1)
MainLoop == ThreadNum                 \* _mainLoop, next to the sub loops
Loops == SubLoops \cup {MainLoop}
Threads == Workers \cup {Main}

Init == /\ queue = <<>> /\ notExit = TRUE /\ mutex = NoThread
        /\ added = <<>> /\ taken = <<>>
        /\ pc = [t \in Threads |-> IF t = Main THEN "constructed" ELSE "notCreated"]
        /\ item = [t \in Threads |-> NoTask]
        /\ isExit = FALSE
        /\ nextLoopIndex = 0
        /\ isLooping = [l \in Loops |-> FALSE]
        /\ threadId = [l \in Loops |-> NoThread]
        /\ pendings = [l \in Loops |-> <<>>]
        /\ conns = [l \in Loops |-> {}]
        /\ at = [t \in Threads |-> 0]
        /\ runners = [l \in SubLoops |-> 0]
        /\ early = {}
        /\ accepted = 0
        /\ running = FALSE /\ unlooped = 0 /\ resume = "none"
        /\ cleared = FALSE /\ aborted = FALSE

Goto(t, from, to) == pc[t] = from /\ pc' = [pc EXCEPT ![t] = to]

-----------------------------------------------------------------------------
(* The main thread: start, then the main loop.                             *)

\* start: _running = true.
Start ==
  /\ Goto(Main, "constructed", "idle")
  /\ running' = TRUE
  /\ UNCHANGED <<queue, notExit, mutex, item, added, taken, isExit, loopVars,
                 unlooped, resume, cleared, accepted, aborted>>

\* start: the next threadFunc is handed to addTask; Len(added) is i.
AddThreadTask ==
  /\ Goto(Main, "idle", "push")
  /\ Len(added) < ThreadNum
  /\ item' = [item EXCEPT ![Main] = Len(added) + 1]
  /\ UNCHANGED <<queue, notExit, mutex, added, taken, isExit, loopVars, stopVars,
                 accepted, aborted>>

PushThreadTask == Push(Main) /\ UNCHANGED <<isExit, loopVars, stopVars, accepted, aborted>>

\* ThreadPool::start: the next worker is created.
CreateWorker(w) ==
  /\ pc[Main] = "idle" /\ Len(added) = ThreadNum
  /\ Goto(w, "notCreated", "check")
  /\ UNCHANGED <<queue, notExit, mutex, item, added, taken, isExit, loopVars, stopVars,
                 accepted, aborted>>

\* start: every worker is created; set the callback and listen.
Ready ==
  /\ Len(added) = ThreadNum /\ \A w \in Workers : pc[w] # "notCreated"
  /\ Goto(Main, "idle", "ready")
  /\ UNCHANGED <<queue, notExit, mutex, item, added, taken, isExit, loopVars, stopVars,
                 accepted, aborted>>

\* _mainLoop.loop().
EnterMainLoop ==
  /\ Goto(Main, "ready", "epoll")
  /\ threadId' = [threadId EXCEPT ![MainLoop] = Main]
  /\ isLooping' = [isLooping EXCEPT ![MainLoop] = TRUE]
  /\ UNCHANGED <<queue, notExit, mutex, item, added, taken, isExit, drawVars, pendings,
                 conns, at, stopVars, accepted, aborted>>

\* A client connects.  The acceptor has been listening since Ready, whether or
\* not the workers have drawn their loops.
Connect ==
  /\ accepted < MaxConns
  /\ accepted' = accepted + 1

\* The number drawn for a connection is one of the first ThreadNum, those the
\* loops are meant to be handed to the workers by.
NoteEarly == early' = IF nextLoopIndex < ThreadNum THEN early \cup {nextLoopIndex} ELSE early

\* Mutant: getNextLoop leaves the counter alone.
AcceptWithoutAdvance ==
  /\ Connect
  /\ Goto(Main, "epoll", "dispatch")
  /\ at' = [at EXCEPT ![Main] = IF cleared THEN MainLoop ELSE nextLoopIndex % ThreadNum]
  /\ UNCHANGED <<queue, notExit, mutex, item, added, taken, isExit, drawVars, isLooping,
                 threadId, pendings, conns, stopVars, aborted>>

\* Mutant: getNextLoop does not reduce the counter modulo the loops.
AcceptWithoutModulo ==
  /\ Connect
  /\ Goto(Main, "epoll", "dispatch")
  /\ at' = [at EXCEPT ![Main] = IF cleared THEN MainLoop ELSE nextLoopIndex]
  /\ nextLoopIndex' = nextLoopIndex + 1
  /\ NoteEarly
  /\ UNCHANGED <<queue, notExit, mutex, item, added, taken, isExit, runners, isLooping,
                 threadId, pendings, conns, stopVars, aborted>>

\* handleNewConnection and getNextLoop: the connection is accepted and a loop
\* chosen for it, the main loop if there are no sub loops any more.
Accept ==
  /\ Connect
  /\ Goto(Main, "epoll", "dispatch")
  /\ \/ /\ cleared
        /\ at' = [at EXCEPT ![Main] = MainLoop]
        /\ UNCHANGED <<nextLoopIndex, early>>
     \/ /\ ~cleared
        /\ at' = [at EXCEPT ![Main] = nextLoopIndex % ThreadNum]
        /\ nextLoopIndex' = nextLoopIndex + 1
        /\ NoteEarly
  /\ UNCHANGED <<queue, notExit, mutex, item, added, taken, isExit, runners, isLooping,
                 threadId, pendings, conns, stopVars, aborted>>

\* onNewConnection: runInLoop of the chosen loop.  On the main loop's own
\* thread the functor runs at once, else it is queued.
RunInLoop ==
  /\ Goto(Main, "dispatch", "epoll")
  /\ \/ /\ threadId[at[Main]] = Main
        /\ conns' = [conns EXCEPT ![at[Main]] = @ \cup {accepted}]
        /\ UNCHANGED pendings
     \/ /\ threadId[at[Main]] # Main
        /\ pendings' = [pendings EXCEPT ![at[Main]] = Append(@, accepted)]
        /\ UNCHANGED conns
  /\ UNCHANGED <<queue, notExit, mutex, item, added, taken, isExit, drawVars, isLooping,
                 threadId, at, stopVars, accepted, aborted>>

\* The main loop sees that _isLooping is false; start and main return.
ExitMainLoop ==
  /\ ~isLooping[MainLoop]
  /\ Goto(Main, "epoll", "returned")
  /\ UNCHANGED <<queue, notExit, mutex, item, added, taken, isExit, loopVars, stopVars,
                 accepted, aborted>>

-----------------------------------------------------------------------------
(* The workers: ThreadPool::doTask, threadFunc and the sub loops.          *)

CheckExit(w) ==
  /\ Goto(w, "check", IF isExit THEN "exited" ELSE "pop")
  /\ UNCHANGED <<queue, notExit, mutex, item, added, taken, isExit, loopVars, stopVars,
                 accepted, aborted>>

GetTask(w) ==
  /\ Pop(w) \/ PopPark(w) \/ PopTake(w)
  /\ UNCHANGED <<isExit, loopVars, stopVars, accepted, aborted>>

\* pop returned nullptr: back to the test of _isExit.
SkipNull(w) ==
  /\ item[w] = NoTask
  /\ Goto(w, "popped", "check")
  /\ UNCHANGED <<queue, notExit, mutex, item, added, taken, isExit, loopVars, stopVars,
                 accepted, aborted>>

\* Mutant: the counter is read and not advanced before another worker reads it.
DrawWithoutAdvance(w) ==
  /\ item[w] # NoTask
  /\ Goto(w, "popped", "enterLoop")
  /\ at' = [at EXCEPT ![w] = 0]
  /\ runners' = [runners EXCEPT ![0] = @ + 1]
  /\ nextLoopIndex' = nextLoopIndex + 1
  /\ UNCHANGED <<queue, notExit, mutex, item, added, taken, isExit, early, isLooping,
                 threadId, pendings, conns, stopVars, accepted, aborted>>

\* threadFunc: draw the number of the loop to run.
ThreadFunc(w) ==
  LET l == nextLoopIndex % ThreadNum
  IN  /\ item[w] # NoTask
      /\ Goto(w, "popped", "enterLoop")
      /\ at' = [at EXCEPT ![w] = l]
      /\ runners' = [runners EXCEPT ![l] = @ + 1]
      /\ nextLoopIndex' = nextLoopIndex + 1
      /\ UNCHANGED <<queue, notExit, mutex, item, added, taken, isExit, early, isLooping,
                     threadId, pendings, conns, stopVars, accepted, aborted>>

\* Mutant: loop() does not record its thread.
EnterLoopWithoutThreadId(w) ==
  /\ Goto(w, "enterLoop", "loop")
  /\ isLooping' = [isLooping EXCEPT ![at[w]] = TRUE]
  /\ UNCHANGED <<queue, notExit, mutex, item, added, taken, isExit, drawVars, threadId,
                 pendings, conns, at, stopVars, accepted, aborted>>

\* loop(): record the thread and set _isLooping, whatever unloop has set.
EnterLoop(w) ==
  /\ Goto(w, "enterLoop", "loop")
  /\ threadId' = [threadId EXCEPT ![at[w]] = w]
  /\ isLooping' = [isLooping EXCEPT ![at[w]] = TRUE]
  /\ UNCHANGED <<queue, notExit, mutex, item, added, taken, isExit, drawVars, pendings,
                 conns, at, stopVars, accepted, aborted>>

\* waitEpollFd: run the next functor, whose addConnection aborts the process if
\* another thread has entered the loop since.  unloop may have been called since
\* the last test.  (What else two threads in one loop would do to each other,
\* on its event list and its table, is left out.)
RunFunctor(w) ==
  /\ pc[w] = "loop"
  /\ pendings[at[w]] # <<>>
  /\ \/ /\ threadId[at[w]] # w
        /\ aborted' = TRUE
        /\ UNCHANGED <<pendings, conns>>
     \/ /\ threadId[at[w]] = w
        /\ pendings' = [pendings EXCEPT ![at[w]] = Tail(@)]
        /\ conns' = [conns EXCEPT ![at[w]] = @ \cup {Head(pendings[at[w]])}]
        /\ UNCHANGED aborted
  /\ UNCHANGED <<poolVars, drawVars, isLooping, threadId, at, stopVars, accepted>>

\* while(_isLooping) ends; threadFunc returns to doTask.
ExitLoop(w) ==
  /\ ~isLooping[at[w]]
  /\ Goto(w, "loop", "check")
  /\ item' = [item EXCEPT ![w] = NoTask]
  /\ UNCHANGED <<queue, notExit, mutex, added, taken, isExit, loopVars, stopVars, accepted,
                 aborted>>

-----------------------------------------------------------------------------
(* The signal handler on the main thread: stop.                            *)

\* The signal arrives and stop finds _running set; if it is not, nothing
\* happens.
Signal ==
  /\ running
  /\ pc[Main] \in SignalAt
  /\ resume' = pc[Main]
  /\ pc' = [pc EXCEPT ![Main] = "unloop"]
  /\ running' = FALSE
  /\ isLooping' = [isLooping EXCEPT ![MainLoop] = FALSE]
  /\ UNCHANGED <<queue, notExit, mutex, item, added, taken, isExit, drawVars, threadId,
                 pendings, conns, at, unlooped, cleared, accepted, aborted>>

\* stop: unloop the next sub loop, the pool's stop after the last.
Unloop ==
  /\ Goto(Main, "unloop", IF unlooped + 1 = ThreadNum THEN "drain" ELSE "unloop")
  /\ isLooping' = [isLooping EXCEPT ![unlooped] = FALSE]
  /\ unlooped' = unlooped + 1
  /\ UNCHANGED <<queue, notExit, mutex, item, added, taken, isExit, drawVars, threadId,
                 pendings, conns, at, running, resume, cleared, accepted, aborted>>

\* ThreadPool::stop: the queue has been seen empty, then _isExit, then wakeUp.
DrainDone ==
  /\ queue = <<>>
  /\ Goto(Main, "drain", "setIsExit")
  /\ UNCHANGED <<queue, notExit, mutex, item, added, taken, isExit, loopVars, stopVars,
                 accepted, aborted>>

SetIsExit ==
  /\ Goto(Main, "setIsExit", "clearNotExit")
  /\ isExit' = TRUE
  /\ UNCHANGED <<queue, notExit, mutex, item, added, taken, loopVars, stopVars, accepted,
                 aborted>>

WakeUpQueue ==
  /\ ClearNotExit(Main) \/ NotifyAllPops(Main)
  /\ UNCHANGED <<isExit, loopVars, stopVars, accepted, aborted>>

\* Mutant: the workers are not joined.
JoinWithoutWaiting ==
  /\ Goto(Main, "join", resume)
  /\ resume' = "none"
  /\ cleared' = TRUE
  /\ UNCHANGED <<queue, notExit, mutex, item, added, taken, isExit, loopVars, running,
                 unlooped, accepted, aborted>>

\* The workers created so far are joined; _subLoops.clear(); the handler
\* returns to where the signal arrived.
Join ==
  /\ \A w \in Workers : pc[w] \in {"notCreated", "exited"}
  /\ Goto(Main, "join", resume)
  /\ resume' = "none"
  /\ cleared' = TRUE
  /\ UNCHANGED <<queue, notExit, mutex, item, added, taken, isExit, loopVars, running,
                 unlooped, accepted, aborted>>

-----------------------------------------------------------------------------
StartStep == \/ Start \/ AddThreadTask \/ PushThreadTask
             \/ (\E w \in Workers : CreateWorker(w))
             \/ Ready \/ EnterMainLoop
MainLoopStep == RunInLoop \/ ExitMainLoop
WorkerStep(w) == \/ CheckExit(w) \/ GetTask(w) \/ SkipNull(w)
                 \/ ThreadFunc(w) \/ EnterLoop(w) \/ ExitLoop(w)
StopStep == Unloop \/ DrainDone \/ SetIsExit \/ WakeUpQueue \/ Join
Spurious == /\ \E t \in Threads : SpuriousWakeUp(t)
            /\ UNCHANGED <<isExit, loopVars, stopVars, accepted, aborted>>

Next == /\ ~aborted
        /\ \/ StartStep \/ MainLoopStep \/ Accept
           \/ \E w \in Workers : WorkerStep(w) \/ RunFunctor(w)
           \/ Signal \/ StopStep
           \/ Spurious

Safety == Init /\ [][Next]_vars

\* Every thread is scheduled, and gets _mutex if it keeps asking for it.
\* Nobody has to connect or to send a signal.
Fairness == /\ WF_vars(~aborted /\ (StartStep \/ MainLoopStep \/ StopStep))
            /\ \A w \in Workers : /\ WF_vars(~aborted /\ WorkerStep(w))
                                  /\ SF_vars(~aborted /\ GetTask(w))
                                  /\ WF_vars(~aborted /\ RunFunctor(w))

Spec == Safety /\ Fairness

-----------------------------------------------------------------------------
Conn == 1..MaxConns

TypeOK ==
  /\ queue \in Seq(1..ThreadNum)
  /\ notExit \in BOOLEAN /\ isExit \in BOOLEAN /\ running \in BOOLEAN
  /\ cleared \in BOOLEAN /\ aborted \in BOOLEAN
  /\ mutex \in Workers \cup {NoThread}
  /\ pc \in [Threads -> {"notCreated", "check", "pop", "popPark", "popWait", "popTake",
                         "popped", "enterLoop", "loop", "exited", "constructed", "idle",
                         "push", "pushWait", "ready", "epoll", "dispatch", "returned",
                         "unloop", "drain", "setIsExit", "clearNotExit", "notifyAll", "join"}]
  /\ item \in [Threads -> 1..ThreadNum \cup {NoTask}]
  /\ nextLoopIndex \in 0..(ThreadNum + MaxConns)
  /\ isLooping \in [Loops -> BOOLEAN]
  /\ threadId \in [Loops -> Threads \cup {NoThread}]
  /\ pendings \in [Loops -> Seq(Conn)]
  /\ conns \in [Loops -> SUBSET Conn]
  /\ at \in [Threads -> Loops]
  /\ accepted \in 0..MaxConns
  /\ runners \in [SubLoops -> Nat]
  /\ early \subseteq SubLoops
  /\ unlooped \in 0..ThreadNum
  /\ resume \in SignalAt \cup {"none"}

RunsLoop(w) == pc[w] \in {"enterLoop", "loop"}

\* _subLoops.clear() destroys no loop that a worker runs or is about to run,
\* wherever the signal has interrupted the main thread
\* (MultiThreadEventLoop::stop and ThreadPool::stop).
ClearedLoopsAreLeft == cleared => \A w \in Workers : ~RunsLoop(w)

OneThreadPerLoop ==
  \A v, w \in Workers : v # w /\ RunsLoop(v) /\ RunsLoop(w) => at[v] # at[w]

\* "EventLoop::assertInLoopThread(): operations run on the right thread"
\* (RTSP_Server_Architecture.md:273).  Two workers that run one loop break it.
AssertionHolds == ~aborted

\* Workers lose their loops to connections only: once number l has been drawn,
\* loop l has a thread, unless the number went to a connection, and if none
\* of the first numbers did, no two workers ever run the same loop and the
\* assertion of addConnection holds (threadFunc and getNextLoop).
LoopsLostToConnectionsOnly ==
  /\ \A l \in SubLoops : l < nextLoopIndex => runners[l] > 0 \/ l \in early
  /\ early = {} => OneThreadPerLoop /\ AssertionHolds

\* The connections given to a loop: added, queued, or about to be handed over.
Given(l) == Len(pendings[l]) + Cardinality(conns[l])
              + (IF pc[Main] = "dispatch" /\ at[Main] = l THEN 1 ELSE 0)

\* Round robin: however the workers' draws and the connections' come between
\* each other, the loops are drawn equally often, up to one, and every draw is
\* a worker or a connection of the loop (getNextLoop and threadFunc).
RoundRobin ==
  \A l, m \in SubLoops : Given(l) + runners[l] <= Given(m) + runners[m] + 1

\* A loop that no worker runs and none is going to.
Threadless(l) ==
  /\ runners[l] = 0
  /\ Len(taken) = ThreadNum /\ \A w \in Workers : pc[w] = "popped" => item[w] = NoTask

\* A connection given to a loop is added there by its thread, unless the server
\* is told to stop or aborts; only in a loop that lost its worker to an early
\* connection does it wait for ever.
ConnectionIsAdded ==
  \A c \in Conn :
    accepted = c ~> \/ \E l \in Loops : c \in conns[l]
                    \/ ~running \/ aborted
                    \/ \E l \in early : Threadless(l) /\ \E i \in DOMAIN pendings[l] : pendings[l][i] = c

\* start gets to the main loop, unless the server is told to stop: the tasks
\* added before the pool has threads fit into its queue.
StartReachesMainLoop == pc[Main] = "idle" ~> (pc[Main] = "epoll" \/ ~running)
=============================================================================
