---------------------------- MODULE TimerManager ----------------------------
(***************************************************************************)
(* The timers of one EventLoop: reactor/TimerManager.cc.                   *)
(*                                                                         *)
(* _timers maps a TimerId to its expiry and its Timer; it is ordered by    *)
(* id.  One timerfd stands for all of them: resetTimerfd arms it for the   *)
(* timer begin() yields, the one of the lowest id.  handleRead takes the   *)
(* expired timers out of the map up to the first id that has not expired,  *)
(* runs their callbacks, puts the periodic ones back and re-arms.          *)
(*                                                                         *)
(* A tick is a millisecond, the unit the code uses.  Expiry times are kept *)
(* as the time left.  All calls are made on the loop's thread, only time   *)
(* passes at any moment; handleRead therefore is several steps, and lag is *)
(* the age of the value of now it read at its start.                       *)
(***************************************************************************)
EXTENDS Naturals

CONSTANTS Delays,     \* delays passed to addTimer and addPeriodicTimer
          Intervals,  \* intervals passed to addPeriodicTimer
          MaxTimers,  \* bound on the number of timers ever added
          MaxLag,     \* bound on the time one batch of callbacks takes
          MaxAge      \* ages are counted up to this value

ASSUME TimerManagerAssumption == /\ Delays \subseteq Nat
                                 /\ Intervals \subseteq Nat \ {0}
                                 /\ MaxTimers \in Nat
                                 /\ MaxLag \in Nat
                                 /\ MaxAge \in Nat

VARIABLES
  timers,    \* _timers: id -> time left, interval; and its schedule's history
  nextId,    \* _nextId
  armed,     \* time until the timerfd expires, 0 if it is disarmed
  ready,     \* the timerfd is readable
  expired,   \* the part of handleRead's vector expired not processed yet
  handling,  \* the loop is inside handleRead
  lag,       \* time passed since handleRead read now
  dropped,   \* history: ids a handler of the loop has called removeTimer for
  undone     \* history: ids their own callback has called removeTimer for

vars == <<timers, nextId, armed, ready, expired, handling, lag, dropped, undone>>

TimerId == 1..MaxTimers
Monus(a, b) == IF a > b THEN a - b ELSE 0
Smaller(a, b) == IF a < b THEN a ELSE b
Larger(a, b) == IF a > b THEN a ELSE b

\* _timers.begin()
First(map) == CHOOSE id \in DOMAIN map : \A other \in DOMAIN map : id <= other

Without(map, id) == [other \in DOMAIN map \ {id} |-> map[other]]

\* map.emplace: an id that is present stays as it is.
Emplace(map, id, timer) ==
  [other \in DOMAIN map \cup {id} |-> IF other \in DOMAIN map THEN map[other] ELSE timer]

\* A timer due in delay; wait and age are history: the time asked for and
\* the time passed since.
NewTimer(delay, interval) ==
  [left |-> delay, interval |-> interval, wait |-> delay, age |-> 0]

\* Mutant: ids are handed out from 0, which RtpPusher takes for no timer.
InitIdFromZero ==
        /\ timers = <<>>
        /\ nextId = 0
        /\ armed = 0
        /\ ready = FALSE
        /\ expired = <<>>
        /\ handling = FALSE
        /\ lag = 0
        /\ dropped = {} /\ undone = {}

Init == /\ timers = <<>>
        /\ nextId = 1
        /\ armed = 0
        /\ ready = FALSE
        /\ expired = <<>>
        /\ handling = FALSE
        /\ lag = 0
        /\ dropped = {} /\ undone = {}

-----------------------------------------------------------------------------
\* resetTimerfd for the map the current step leaves behind.  Setting the
\* timerfd clears an expiry that has not been read.
ResetTimerfd ==
  /\ ready' = FALSE
  /\ armed' = IF DOMAIN timers' = {} THEN 0
              ELSE LET left == timers'[First(timers')].left
                   IN  IF left > 0 THEN left ELSE 1

\* Mutant: the smallest free id is used again.
AddTimerReusingId(delay, interval) ==
  /\ ~handling
  /\ \E id \in TimerId \ DOMAIN timers :
        /\ \A other \in TimerId \ DOMAIN timers : id <= other
        /\ timers' = Emplace(timers, id, NewTimer(delay, interval))
  /\ ResetTimerfd
  /\ UNCHANGED <<nextId, expired, handling, lag, dropped, undone>>

\* addTimer (interval 0) and addPeriodicTimer, called by a handler.
AddTimer(delay, interval) ==
  /\ ~handling
  /\ nextId <= MaxTimers
  /\ timers' = Emplace(timers, nextId, NewTimer(delay, interval))
  /\ nextId' = nextId + 1
  /\ ResetTimerfd
  /\ UNCHANGED <<expired, handling, lag, dropped, undone>>

\* Mutant: the timerfd is left as it was.
RemoveWithoutReset(id) ==
  /\ ~handling
  /\ id \in DOMAIN timers
  /\ timers' = Without(timers, id)
  /\ dropped' = dropped \cup {id}
  /\ UNCHANGED <<nextId, armed, ready, expired, handling, lag, undone>>

\* removeTimer, called by a handler.
RemoveTimer(id) ==
  /\ ~handling
  /\ id \in DOMAIN timers
  /\ timers' = Without(timers, id)
  /\ dropped' = dropped \cup {id}
  /\ ResetTimerfd
  /\ UNCHANGED <<nextId, expired, handling, lag, undone>>

-----------------------------------------------------------------------------
\* The timers handleRead takes: it stops at the first id that is not due.
Due == {id \in DOMAIN timers : \A other \in DOMAIN timers :
                                  other <= id => timers[other].left = 0}

\* Mutant: the timer the scan stops at is taken as well.
TakeOneMore ==
  /\ ready
  /\ ~handling
  /\ ready' = FALSE
  /\ handling' = TRUE
  /\ lag' = 0
  /\ LET taken == Due \cup {id \in DOMAIN timers : id - 1 \in Due}
     IN  /\ expired' = [id \in taken |-> timers[id]]
         /\ timers' = [id \in DOMAIN timers \ taken |-> timers[id]]
  /\ UNCHANGED <<nextId, armed, dropped, undone>>

\* handleRead: clear the timerfd, read now, move the due timers to expired.
TakeExpired ==
  /\ ready
  /\ ~handling
  /\ ready' = FALSE
  /\ handling' = TRUE
  /\ lag' = 0
  /\ expired' = [id \in Due |-> timers[id]]
  /\ timers' = [id \in DOMAIN timers \ Due |-> timers[id]]
  /\ UNCHANGED <<nextId, armed, dropped, undone>>

\* The timer put back after its callback: due an interval after the now that
\* handleRead read, which is lag ago.
Rescheduled(timer) ==
  [left |-> Monus(timer.interval, lag), interval |-> timer.interval,
   wait |-> timer.interval, age |-> Smaller(lag, MaxAge)]

\* handleRead: the callback of the next expired timer, and the emplace of a
\* periodic timer after it.  The id is not in the map during its callback: a
\* removeTimer the callback makes for itself (RtpPusher's does, when it is not
\* _running) finds nothing, resets nothing, and the emplace undoes it.
RunCallback ==
  /\ handling
  /\ DOMAIN expired # {}
  /\ LET id == First(expired)
     IN  /\ timers' = IF expired[id].interval > 0
                      THEN Emplace(timers, id, Rescheduled(expired[id]))
                      ELSE timers
         /\ expired' = Without(expired, id)
         /\ undone' \in {undone, undone \cup {id}}
  /\ UNCHANGED <<nextId, armed, ready, handling, lag, dropped>>

\* Mutant: handleRead returns without re-arming.
FinishWithoutReset ==
  /\ handling
  /\ DOMAIN expired = {}
  /\ handling' = FALSE
  /\ lag' = 0
  /\ UNCHANGED <<timers, nextId, armed, ready, expired, dropped, undone>>

\* handleRead: resetTimerfd and return.
FinishHandleRead ==
  /\ handling
  /\ DOMAIN expired = {}
  /\ handling' = FALSE
  /\ lag' = 0
  /\ UNCHANGED <<timers, nextId, expired, dropped, undone>>
  /\ ResetTimerfd

\* A millisecond passes; the timerfd fires once when it gets to 0.
Tick ==
  /\ handling => lag < MaxLag
  /\ lag' = IF handling THEN lag + 1 ELSE 0
  /\ timers' = [id \in DOMAIN timers |->
                  [timers[id] EXCEPT !.left = Monus(@, 1), !.age = Smaller(@ + 1, MaxAge)]]
  /\ armed' = Monus(armed, 1)
  /\ ready' = (ready \/ armed = 1)
  /\ UNCHANGED <<nextId, expired, handling, dropped, undone>>

-----------------------------------------------------------------------------
HandleRead == TakeExpired \/ RunCallback \/ FinishHandleRead

Next == \/ \E delay \in Delays, interval \in Intervals \cup {0} : AddTimer(delay, interval)
        \/ \E id \in TimerId : RemoveTimer(id)
        \/ HandleRead
        \/ Tick

Safety == Init /\ [][Next]_vars

\* Time passes, and the loop polls the timerfd and goes through handleRead.
Fairness == WF_vars(Tick) /\ WF_vars(HandleRead)

Spec == Safety /\ Fairness

-----------------------------------------------------------------------------
Timer == [left : Nat, interval : Intervals \cup {0}, wait : Nat, age : 0..MaxAge]

TypeOK ==
  /\ DOMAIN timers \subseteq TimerId
  /\ \A id \in DOMAIN timers : timers[id] \in Timer
  /\ nextId \in 1..(MaxTimers + 1)
  /\ armed \in Nat
  /\ ready \in BOOLEAN
  /\ DOMAIN expired \subseteq TimerId
  /\ \A id \in DOMAIN expired : expired[id] \in Timer
  /\ handling \in BOOLEAN
  /\ lag \in 0..MaxLag
  /\ dropped \subseteq TimerId /\ undone \subseteq TimerId

\* No callback runs before its delay, or its interval since the last run,
\* has passed, in milliseconds (the scan of TimerManager::handleRead and the
\* expiry computed from a now that is lag old).
NeverEarly ==
  \A id \in DOMAIN expired : expired[id].age >= Smaller(expired[id].wait, MaxAge)

\* A timer is late only behind one of a lower id: outside handleRead the timerfd
\* has expired, or is set to expire with every timer or before it, in a
\* millisecond at the latest for one that is due, except for a timer whose id is
\* higher than that of one due later (every path of TimerManager that changes
\* the map ends with resetTimerfd, which looks at begin() only).
LateOnlyBehindLowerId ==
  ~handling => \A id \in DOMAIN timers :
    \/ ready
    \/ armed \in 1..Larger(timers[id].left, 1)
    \/ armed > 0 /\ \E lower \in DOMAIN timers :
                       lower < id /\ timers[lower].left > timers[id].left

\* "_timers ... key: expiration time" and "sets the timerfd to the next expiry"
\* (TimerManager.h:40-41): no timer is due before the timerfd is.
TimerfdSetForNextExpiry ==
  ~handling => \A id \in DOMAIN timers : ready \/ armed \in 1..Larger(timers[id].left, 1)

\* A timer removed by a handler of the loop is gone for good, also if
\* handleRead has had it in a batch before.
RemovedByHandlerIsGone ==
  dropped \cap (DOMAIN timers \cup DOMAIN expired) = {}

\* "removeTimer deletes the timer" (TimerManager.h:31), whoever calls it, a
\* handler or the timer's own callback.
RemovedIsGone == ~handling => (dropped \cup undone) \cap DOMAIN timers = {}

\* Every timer is eventually taken to run its callback, or removed, although
\* the scan stops at the first id that is not due.
EveryTimerIsTaken ==
  \A id \in TimerId : id \in DOMAIN timers ~> id \notin DOMAIN timers
=============================================================================
