------------------------------ MODULE Eventor ------------------------------
(***************************************************************************)
(* The functor queue through which other threads reach an EventLoop:       *)
(* reactor/Eventor.cc (mutex-protected _pendings plus an eventfd) as       *)
(* EventLoop::runInLoop and EventLoop::waitEpollFd use it.                 *)
(*                                                                         *)
(* A caller pushes its functor and writes the eventfd while it holds       *)
(* _mutex.  The loop thread reads the eventfd (which resets its counter),  *)
(* takes _mutex, swaps _pendings out, releases _mutex and runs the         *)
(* swapped-out functors.  The eventfd read and the swap are two steps: a   *)
(* push between them is swept up by the swap, and leaves the eventfd       *)
(* readable with nothing to do.                                            *)
(***************************************************************************)
EXTENDS Integers, Sequences

CONSTANTS Callers,   \* threads, other than the loop's, that call runInLoop
          NoThread,  \* the owner of a free mutex
          MaxPosts   \* bound on the calls of one caller

ASSUME EventorAssumption == /\ NoThread \notin Callers
                            /\ MaxPosts \in Nat

VARIABLES
  pendings,  \* _pendings
  evtfd,     \* counter of the eventfd _evtfd; epoll reports it while > 0
  mutex,     \* owner of _mutex among the callers, or NoThread
  tmp,       \* local tmp of doPenddingFunctors: the batch being run
  callerPC,  \* where each caller is in addEventcb
  loopPC,    \* where the loop thread is
  calls,     \* number of functors each caller has handed over
  posted,    \* history: every functor pushed, in order
  executed   \* history: every queued functor run, in order

queueVars == <<pendings, evtfd, mutex>>
vars == <<pendings, evtfd, mutex, tmp, callerPC, loopPC, calls, posted, executed>>

\* The n-th functor a caller hands over.
Functor == Callers \X (1..MaxPosts)

Init == /\ pendings = <<>>
        /\ evtfd = 0
        /\ mutex = NoThread
        /\ tmp = <<>>
        /\ callerPC = [c \in Callers |-> "idle"]
        /\ loopPC = "notStarted"
        /\ calls = [c \in Callers |-> 0]
        /\ posted = <<>>
        /\ executed = <<>>

-----------------------------------------------------------------------------
(* The calling threads: EventLoop::runInLoop off the loop thread.          *)

\* Mutant: cb has been moved from before it is pushed, which queues an empty
\* functor, no call's.
AddEventcbMovedFrom(c) ==
  /\ callerPC[c] = "idle"
  /\ calls[c] < MaxPosts
  /\ mutex = NoThread
  /\ mutex' = c
  /\ calls' = [calls EXCEPT ![c] = @ + 1]
  /\ pendings' = Append(pendings, <<c, 0>>)
  /\ posted' = Append(posted, <<c, calls[c] + 1>>)
  /\ callerPC' = [callerPC EXCEPT ![c] = "wakeUp"]
  /\ UNCHANGED <<evtfd, tmp, loopPC, executed>>

\* Lock _mutex and push: the functor is queued, the loop not yet woken.
AddEventcb(c) ==
  /\ callerPC[c] = "idle"
  /\ calls[c] < MaxPosts
  /\ mutex = NoThread
  /\ mutex' = c
  /\ calls' = [calls EXCEPT ![c] = @ + 1]
  /\ pendings' = Append(pendings, <<c, calls[c] + 1>>)
  /\ posted' = Append(posted, <<c, calls[c] + 1>>)
  /\ callerPC' = [callerPC EXCEPT ![c] = "wakeUp"]
  /\ UNCHANGED <<evtfd, tmp, loopPC, executed>>

\* Mutant: the eventfd is written only when the loop is seen in epoll_wait.
WakeUpWhenPolling(c) ==
  /\ callerPC[c] = "wakeUp"
  /\ evtfd' = IF loopPC = "epoll" THEN evtfd + 1 ELSE evtfd
  /\ callerPC' = [callerPC EXCEPT ![c] = "unlock"]
  /\ UNCHANGED <<pendings, mutex, tmp, loopPC, calls, posted, executed>>

\* wakeUp(): write 1 to the eventfd, still under the lock.
WakeUp(c) ==
  /\ callerPC[c] = "wakeUp"
  /\ evtfd' = evtfd + 1
  /\ callerPC' = [callerPC EXCEPT ![c] = "unlock"]
  /\ UNCHANGED <<pendings, mutex, tmp, loopPC, calls, posted, executed>>

\* autoLock goes out of scope and addEventcb returns.
LeaveAddEventcb(c) ==
  /\ callerPC[c] = "unlock"
  /\ mutex' = NoThread
  /\ callerPC' = [callerPC EXCEPT ![c] = "idle"]
  /\ UNCHANGED <<pendings, evtfd, tmp, loopPC, calls, posted, executed>>

-----------------------------------------------------------------------------
(* The loop thread.                                                        *)

\* threadFunc enters loop(); functors may have been queued before that.
StartLoop ==
  /\ loopPC = "notStarted"
  /\ loopPC' = "epoll"
  /\ UNCHANGED <<queueVars, tmp, callerPC, calls, posted, executed>>

\* epoll_wait reports the eventfd and handleRead resets its counter.
HandleRead ==
  /\ loopPC = "epoll"
  /\ evtfd > 0
  /\ evtfd' = 0
  /\ loopPC' = "swap"
  /\ UNCHANGED <<pendings, mutex, tmp, callerPC, calls, posted, executed>>

\* Mutant: the batch is copied out without emptying _pendings.
CopyPendings ==
  /\ loopPC = "swap"
  /\ mutex = NoThread
  /\ tmp' = pendings
  /\ loopPC' = "run"
  /\ UNCHANGED <<pendings, evtfd, mutex, callerPC, calls, posted, executed>>

\* Mutant: the swap does not take the lock and loses a push that is under way.
SwapWithoutLock ==
  /\ loopPC = "swap"
  /\ tmp' = IF mutex = NoThread THEN pendings ELSE <<>>
  /\ pendings' = <<>>
  /\ loopPC' = "run"
  /\ UNCHANGED <<evtfd, mutex, callerPC, calls, posted, executed>>

\* doPenddingFunctors: lock, swap _pendings with the empty tmp, unlock.
SwapPendings ==
  /\ loopPC = "swap"
  /\ mutex = NoThread
  /\ tmp' = pendings
  /\ pendings' = <<>>
  /\ loopPC' = "run"
  /\ UNCHANGED <<evtfd, mutex, callerPC, calls, posted, executed>>

\* doPenddingFunctors: the next cb() of the batch, without the lock.
RunFunctor ==
  /\ loopPC = "run"
  /\ tmp # <<>>
  /\ executed' = Append(executed, Head(tmp))
  /\ tmp' = Tail(tmp)
  /\ UNCHANGED <<queueVars, callerPC, loopPC, calls, posted>>

\* The batch is done; back to epoll_wait.
FinishBatch ==
  /\ loopPC = "run"
  /\ tmp = <<>>
  /\ loopPC' = "epoll"
  /\ UNCHANGED <<queueVars, tmp, callerPC, calls, posted, executed>>

-----------------------------------------------------------------------------
CallerStep(c) == AddEventcb(c) \/ WakeUp(c) \/ LeaveAddEventcb(c)
LoopStep == StartLoop \/ HandleRead \/ SwapPendings \/ RunFunctor \/ FinishBatch

Next == LoopStep \/ \E c \in Callers : CallerStep(c)

Safety == Init /\ [][Next]_vars

(***************************************************************************)
(* The loop thread is never stopped in this module, and a caller that has  *)
(* taken the lock goes on to release it; nobody is obliged to make a call. *)
(* Taking the lock needs strong fairness: callers may hold it over and     *)
(* over while the loop waits for it.                                       *)
(***************************************************************************)
Fairness == /\ WF_vars(LoopStep)
            /\ SF_vars(SwapPendings)
            /\ \A c \in Callers : WF_vars(WakeUp(c) \/ LeaveAddEventcb(c))

Spec == Safety /\ Fairness

-----------------------------------------------------------------------------
TypeOK ==
  /\ pendings \in Seq(Functor)
  /\ evtfd \in Nat
  /\ mutex \in Callers \cup {NoThread}
  /\ tmp \in Seq(Functor)
  /\ callerPC \in [Callers -> {"idle", "wakeUp", "unlock"}]
  /\ loopPC \in {"notStarted", "epoll", "swap", "run"}
  /\ calls \in [Callers -> 0..MaxPosts]
  /\ posted \in Seq(Functor)
  /\ executed \in Seq(Functor)

\* No lost wakeup: whenever a functor waits in _pendings, either the eventfd
\* is readable, or the caller that pushed last is about to write it, or the
\* loop has consumed the eventfd but not yet swapped the queue out
\* (Eventor::addEventcb against Eventor::handleRead).
NoLostWakeup ==
  pendings # <<>> => \/ evtfd > 0
                     \/ \E c \in Callers : callerPC[c] = "wakeUp"
                     \/ loopPC = "swap"

\* Exactly once, in order: the functors handed over are those already run,
\* followed by the rest of the batch, followed by _pendings
\* (the swap in doPenddingFunctors loses, repeats and reorders nothing).
ExactlyOnceInOrder == posted = executed \o tmp \o pendings

\* Every functor handed to the loop is eventually run by it, however the
\* pushes interleave with the eventfd read and the swap.
EveryFunctorRuns ==
  \A f \in Functor :
     (\E i \in DOMAIN posted : posted[i] = f) ~> (\E i \in DOMAIN executed : executed[i] = f)

\* What has been handed over and what has been run are the mailbox's own state;
\* the queue, the batch, the mutex and the eventfd are how the code gets there.
Mailbox == INSTANCE FunctorMailbox WITH
  Functor <- Functor, posted <- posted, executed <- executed

\* The eventfd, the mutex and the double buffer implement the mailbox.
ImplementsMailbox == Mailbox!Spec
=============================================================================
