------------------------- MODULE TimerManagerProofs -------------------------
(***************************************************************************)
(* Theorems about TimerManager, for any delays, intervals, number of       *)
(* timers and length of a batch of callbacks.                              *)
(*                                                                         *)
(* The argument for NeverEarly: what a timer in the map still has to wait  *)
(* and what it has waited make up the time asked for (Accounted), also for *)
(* one put back with the now handleRead read before its callbacks.  Due    *)
(* timers have nothing left to wait when they move to expired.             *)
(***************************************************************************)
EXTENDS TimerManager, SequenceLemmas

\* Every id in use has been handed out by _nextId.
IdsHandedOut ==
  \A id \in DOMAIN timers \cup DOMAIN expired \cup dropped : id < nextId

Accounted ==
  \A id \in DOMAIN timers :
     timers[id].age + timers[id].left >= Smaller(timers[id].wait, MaxAge)

\* Outside handleRead the timerfd agrees with the map: it is off if there is
\* no timer, else it has expired with the timer of the lowest id, or will do
\* so exactly with it, or in a millisecond if that one is due already.
TimerfdAgrees ==
  ~handling =>
    IF DOMAIN timers = {} THEN armed = 0 /\ ~ready
    ELSE LET left == timers[First(timers)].left
         IN  IF ready THEN left = 0 /\ armed = 0
             ELSE armed = Larger(left, 1)

ExpiredOnlyInHandleRead == ~handling => DOMAIN expired = {}

\* The inductive invariant of all theorems below; the last one needs
\* TimerfdAgrees as well.
Inv == /\ TypeOK
       /\ IdsHandedOut
       /\ Accounted
       /\ ExpiredOnlyInHandleRead
       /\ NeverEarly
       /\ RemovedByHandlerIsGone

-----------------------------------------------------------------------------
(***************************************************************************)
(* _timers.begin() and the maps made from a map.                           *)
(***************************************************************************)
LEMMA FirstIsLeast ==
  ASSUME NEW map, DOMAIN map \subseteq Nat, DOMAIN map # {}
  PROVE  /\ First(map) \in DOMAIN map
         /\ \A other \in DOMAIN map : First(map) <= other
  BY LeastExists DEF First

\* resetTimerfd leaves a timerfd that agrees with the map.
LEMMA ResetAgrees ==
  ASSUME ResetTimerfd, DOMAIN timers' \subseteq Nat,
         \A id \in DOMAIN timers' : timers'[id].left \in Nat
  PROVE  /\ armed' \in Nat
         /\ ready' = FALSE
         /\ TimerfdAgrees'
<1>1. CASE DOMAIN timers' = {}
  BY <1>1 DEF ResetTimerfd, TimerfdAgrees
<1>2. CASE DOMAIN timers' # {}
  <2>1. timers'[First(timers')].left \in Nat
    BY <1>2, FirstIsLeast
  <2> QED  BY <1>2, <2>1 DEF ResetTimerfd, TimerfdAgrees, Larger
<1> QED  BY <1>1, <1>2

-----------------------------------------------------------------------------
(***************************************************************************)
(* Inv is inductive.                                                       *)
(***************************************************************************)
LEMMA InitInv == Init => Inv
<1> SUFFICES ASSUME Init PROVE Inv
  OBVIOUS
<1>1. DOMAIN timers = {} /\ DOMAIN expired = {} /\ dropped = {} /\ undone = {}
  BY DEF Init
<1>2. nextId \in 1..(MaxTimers + 1) /\ lag \in 0..MaxLag /\ armed \in Nat
  BY TimerManagerAssumption DEF Init
<1>3. TypeOK
  BY <1>1, <1>2 DEF Init, TypeOK
<1> QED
  BY <1>1, <1>3 DEF Inv, IdsHandedOut, Accounted, ExpiredOnlyInHandleRead,
                    NeverEarly, RemovedByHandlerIsGone

\* A new timer is well formed and has its whole delay to wait.
LEMMA NewTimerFits ==
  ASSUME NEW delay \in Delays, NEW interval \in Intervals \cup {0}
  PROVE  LET t == NewTimer(delay, interval)
         IN  t \in Timer /\ t.age + t.left >= Smaller(t.wait, MaxAge)
<1>1. delay \in Nat /\ MaxAge \in Nat
  BY TimerManagerAssumption
<1> QED  BY <1>1 DEF NewTimer, Timer, Smaller

\* So is one that is put back lag after the now of handleRead.
LEMMA RescheduledFits ==
  ASSUME TypeOK, NEW timer \in Timer, timer.interval > 0
  PROVE  LET t == Rescheduled(timer)
         IN  t \in Timer /\ t.age + t.left >= Smaller(t.wait, MaxAge)
<1>1. timer.interval \in Nat /\ timer.interval \in Intervals
  <2>1. timer.interval \in Intervals \cup {0}
    BY DEF Timer
  <2>2. Intervals \cup {0} \subseteq Nat
    BY TimerManagerAssumption
  <2>3. timer.interval \in Nat
    BY <2>1, <2>2, Zenon
  <2> QED  BY <2>1, <2>3
<1>2. lag \in Nat /\ MaxAge \in Nat
  BY TimerManagerAssumption DEF TypeOK
<1>3. Smaller(lag, MaxAge) \in 0..MaxAge /\ Monus(timer.interval, lag) \in Nat
  BY <1>1, <1>2 DEF Smaller, Monus
<1>4. Smaller(lag, MaxAge) + Monus(timer.interval, lag) >= Smaller(timer.interval, MaxAge)
  BY <1>1, <1>2 DEF Smaller, Monus
<1> QED  BY <1>1, <1>3, <1>4 DEF Rescheduled, Timer

\* A millisecond moves a unit from what is left to the age, as long as both
\* are counted.
LEMMA OlderFits ==
  ASSUME NEW timer \in Timer, timer.age + timer.left >= Smaller(timer.wait, MaxAge)
  PROVE  LET t == [timer EXCEPT !.left = Monus(@, 1), !.age = Smaller(@ + 1, MaxAge)]
         IN  /\ t \in Timer
             /\ t.age + t.left >= Smaller(t.wait, MaxAge)
             /\ t.left = Monus(timer.left, 1)
<1>1. /\ timer.left \in Nat /\ timer.wait \in Nat
      /\ timer.age \in 0..MaxAge /\ MaxAge \in Nat
  BY TimerManagerAssumption DEF Timer
<1>2. Smaller(timer.age + 1, MaxAge) \in 0..MaxAge /\ Monus(timer.left, 1) \in Nat
  BY <1>1 DEF Smaller, Monus
<1>3. Smaller(timer.age + 1, MaxAge) + Monus(timer.left, 1) >= Smaller(timer.wait, MaxAge)
  BY <1>1 DEF Smaller, Monus
<1> QED  BY <1>2, <1>3 DEF Timer

LEMMA TimerIdIsNat == TimerId \subseteq Nat
BY TimerManagerAssumption DEF TimerId

\* The conjuncts of Inv that speak of one timer of a map.
Fits(map) == /\ DOMAIN map \subseteq TimerId
             /\ \A id \in DOMAIN map :
                   /\ map[id] \in Timer
                   /\ map[id].age + map[id].left >= Smaller(map[id].wait, MaxAge)

LEMMA FitsIsTyped ==
  ASSUME NEW map, Fits(map)
  PROVE  /\ DOMAIN map \subseteq Nat
         /\ \A id \in DOMAIN map : map[id].left \in Nat
BY TimerManagerAssumption DEF Fits, TimerId, Timer

\* addTimer and addPeriodicTimer keep Inv: the id is new to every map.
LEMMA AddTimerInv ==
  ASSUME Inv, NEW delay \in Delays, NEW interval \in Intervals \cup {0},
         AddTimer(delay, interval)
  PROVE  Inv'
<1> DEFINE timer == NewTimer(delay, interval)
<1>1. timer \in Timer /\ timer.age + timer.left >= Smaller(timer.wait, MaxAge)
  BY NewTimerFits
<1>2. nextId \in TimerId /\ nextId' = nextId + 1 /\ nextId \in Nat
  BY TimerManagerAssumption DEF AddTimer, Inv, TypeOK, TimerId
<1>3. /\ timers' = Emplace(timers, nextId, timer)
      /\ nextId \notin DOMAIN timers \cup DOMAIN expired \cup dropped
  BY <1>2 DEF AddTimer, Inv, IdsHandedOut
<1> HIDE DEF timer
<1>4. /\ DOMAIN timers' = DOMAIN timers \cup {nextId}
      /\ \A id \in DOMAIN timers : timers'[id] = timers[id]
      /\ timers'[nextId] = timer
  <2>1. nextId \notin DOMAIN timers
    BY <1>3
  <2> QED  BY <1>3, <2>1 DEF Emplace
<1>5. Fits(timers')
  BY <1>1, <1>2, <1>4 DEF Fits, Inv, TypeOK, Accounted
<1>6. ResetTimerfd /\ UNCHANGED <<expired, handling, lag, dropped, undone>>
  BY DEF AddTimer
<1>7. armed' \in Nat /\ ready' = FALSE
  BY <1>5, <1>6, FitsIsTyped, ResetAgrees
<1>8. nextId' \in 1..(MaxTimers + 1)
  BY <1>2, TimerManagerAssumption DEF TimerId
<1>9. TypeOK' /\ Accounted'
  BY <1>5, <1>6, <1>7, <1>8 DEF Fits, Inv, TypeOK, Accounted
<1>10. IdsHandedOut'
  <2>1. DOMAIN timers \cup DOMAIN expired \cup dropped \subseteq Nat
    BY TimerIdIsNat, Zenon DEF Inv, TypeOK
  <2>2. \A id \in DOMAIN timers \cup DOMAIN expired \cup dropped : id < nextId + 1
    BY <1>2, <2>1 DEF Inv, IdsHandedOut
  <2> QED  BY <1>2, <1>4, <1>6, <2>2 DEF IdsHandedOut
<1>11. ExpiredOnlyInHandleRead' /\ NeverEarly' /\ RemovedByHandlerIsGone'
  BY <1>3, <1>4, <1>6 DEF Inv, ExpiredOnlyInHandleRead, NeverEarly, RemovedByHandlerIsGone
<1> QED  BY <1>9, <1>10, <1>11 DEF Inv

\* removeTimer by a handler keeps Inv: no batch holds a copy of the timer.
LEMMA RemoveTimerInv ==
  ASSUME Inv, NEW id \in TimerId, RemoveTimer(id)
  PROVE  Inv'
<1>1. /\ timers' = Without(timers, id)
      /\ dropped' = dropped \cup {id}
      /\ id \in DOMAIN timers
      /\ DOMAIN expired = {}
      /\ ResetTimerfd
      /\ UNCHANGED <<nextId, expired, handling, lag, undone>>
  BY DEF RemoveTimer, Inv, ExpiredOnlyInHandleRead
<1>2. /\ DOMAIN timers' = DOMAIN timers \ {id}
      /\ \A other \in DOMAIN timers' : timers'[other] = timers[other]
  BY <1>1 DEF Without
<1>3. Fits(timers')
  BY <1>2 DEF Fits, Inv, TypeOK, Accounted
<1>4. armed' \in Nat /\ ready' = FALSE
  BY <1>1, <1>3, FitsIsTyped, ResetAgrees
<1>5. TypeOK' /\ Accounted'
  BY <1>1, <1>3, <1>4 DEF Fits, Inv, TypeOK, Accounted
<1>6. IdsHandedOut' /\ ExpiredOnlyInHandleRead' /\ NeverEarly' /\ RemovedByHandlerIsGone'
  BY <1>1, <1>2 DEF Inv, IdsHandedOut, ExpiredOnlyInHandleRead, NeverEarly, RemovedByHandlerIsGone
<1> QED  BY <1>5, <1>6 DEF Inv

\* The scan of handleRead keeps Inv: what it takes has nothing left to wait.
LEMMA TakeExpiredInv ==
  ASSUME Inv, TakeExpired
  PROVE  Inv'
<1>1. /\ expired' = [id \in Due |-> timers[id]]
      /\ timers' = [id \in DOMAIN timers \ Due |-> timers[id]]
      /\ handling' = TRUE /\ ready' = FALSE /\ lag' = 0
      /\ UNCHANGED <<nextId, armed, dropped, undone>>
  BY DEF TakeExpired
<1>2. Due \subseteq DOMAIN timers /\ DOMAIN timers \subseteq Nat
  BY TimerManagerAssumption DEF Due, Inv, TypeOK, TimerId
<1>3. \A id \in Due : timers[id].left = 0
  BY <1>2 DEF Due
<1>4. TypeOK' /\ Accounted'
  <2>1. lag' \in 0..MaxLag
    BY <1>1, TimerManagerAssumption
  <2> QED  BY <1>1, <1>2, <2>1 DEF Inv, TypeOK, Accounted
<1>5. IdsHandedOut' /\ ExpiredOnlyInHandleRead' /\ RemovedByHandlerIsGone'
  BY <1>1, <1>2 DEF Inv, IdsHandedOut, ExpiredOnlyInHandleRead, RemovedByHandlerIsGone
<1>6. NeverEarly'
  <2>1. \A id \in Due : timers[id].age \in Nat
    BY <1>2, TimerManagerAssumption DEF Inv, TypeOK, Timer
  <2>2. \A id \in Due : timers[id].age >= Smaller(timers[id].wait, MaxAge)
    BY <1>2, <1>3, <2>1 DEF Inv, Accounted
  <2> QED  BY <1>1, <2>2 DEF NeverEarly
<1> QED  BY <1>4, <1>5, <1>6 DEF Inv

\* A callback keeps Inv: the timer it ran for is gone, or back with its
\* interval to wait; it had not been removed.
LEMMA RunCallbackInv ==
  ASSUME Inv, RunCallback
  PROVE  Inv'
<1> DEFINE id == First(expired)
<1>1. id \in DOMAIN expired /\ DOMAIN expired \subseteq Nat
  <2>1. DOMAIN expired \subseteq Nat
    BY TimerManagerAssumption DEF Inv, TypeOK, TimerId
  <2> QED  BY <2>1, FirstIsLeast DEF RunCallback
<1>2. /\ expired' = Without(expired, id)
      /\ UNCHANGED <<nextId, armed, ready, handling, lag, dropped>>
      /\ handling
      /\ undone' = undone \/ undone' = undone \cup {id}
      /\ \/ /\ expired[id].interval > 0
            /\ timers' = Emplace(timers, id, Rescheduled(expired[id]))
         \/ timers' = timers
  BY DEF RunCallback
<1>3. id \in TimerId /\ id < nextId /\ id \notin dropped /\ expired[id] \in Timer
  BY <1>1 DEF Inv, TypeOK, IdsHandedOut, RemovedByHandlerIsGone
<1> HIDE DEF id
<1>4. /\ DOMAIN expired' = DOMAIN expired \ {id}
      /\ \A other \in DOMAIN expired' : expired'[other] = expired[other]
  BY <1>2 DEF Without
<1>5. Fits(timers)
  BY DEF Fits, Inv, TypeOK, Accounted
<1>6. Fits(timers') /\ DOMAIN timers' \subseteq DOMAIN timers \cup {id}
  <2>1. CASE timers' = timers
    BY <1>5, <2>1
  <2>2. CASE /\ expired[id].interval > 0
             /\ timers' = Emplace(timers, id, Rescheduled(expired[id]))
    <3> DEFINE timer == Rescheduled(expired[id])
    <3>1. timer \in Timer /\ timer.age + timer.left >= Smaller(timer.wait, MaxAge)
      BY <1>3, <2>2, RescheduledFits DEF Inv
    <3>2. timers' = Emplace(timers, id, timer)
      BY <2>2
    <3> HIDE DEF timer
    <3>3. /\ DOMAIN timers' = DOMAIN timers \cup {id}
          /\ \A other \in DOMAIN timers : timers'[other] = timers[other]
          /\ id \notin DOMAIN timers => timers'[id] = timer
      BY <3>2 DEF Emplace
    <3> QED  BY <1>3, <1>5, <3>1, <3>3 DEF Fits
  <2> QED  BY <1>2, <2>1, <2>2
<1>7. TypeOK' /\ Accounted'
  BY <1>2, <1>3, <1>4, <1>6 DEF Fits, Inv, TypeOK, Accounted
<1>8. IdsHandedOut' /\ RemovedByHandlerIsGone'
  BY <1>2, <1>3, <1>4, <1>6 DEF Inv, IdsHandedOut, RemovedByHandlerIsGone
<1>9. ExpiredOnlyInHandleRead' /\ NeverEarly'
  BY <1>2, <1>4 DEF Inv, ExpiredOnlyInHandleRead, NeverEarly
<1> QED  BY <1>7, <1>8, <1>9 DEF Inv

\* The end of handleRead keeps Inv.
LEMMA FinishHandleReadInv ==
  ASSUME Inv, FinishHandleRead
  PROVE  Inv'
<1>1. /\ DOMAIN expired = {} /\ lag' = 0 /\ handling' = FALSE
      /\ ResetTimerfd
      /\ UNCHANGED <<timers, nextId, expired, dropped, undone>>
  BY DEF FinishHandleRead
<1>2. Fits(timers')
  BY <1>1 DEF Fits, Inv, TypeOK, Accounted
<1>3. armed' \in Nat /\ ready' = FALSE
  BY <1>1, <1>2, FitsIsTyped, ResetAgrees
<1>4. TypeOK'
  <2>1. lag' \in 0..MaxLag
    BY <1>1, TimerManagerAssumption
  <2> QED  BY <1>1, <1>3, <2>1 DEF Inv, TypeOK
<1> QED
  BY <1>1, <1>4 DEF Inv, IdsHandedOut, Accounted, ExpiredOnlyInHandleRead,
                    NeverEarly, RemovedByHandlerIsGone

\* Time passing keeps Inv.
LEMMA TickInv ==
  ASSUME Inv, Tick
  PROVE  Inv'
<1> DEFINE Older(t) == [t EXCEPT !.left = Monus(@, 1), !.age = Smaller(@ + 1, MaxAge)]
<1>1. /\ timers' = [id \in DOMAIN timers |-> Older(timers[id])]
      /\ armed' = Monus(armed, 1) /\ ready' = (ready \/ armed = 1)
      /\ lag' = (IF handling THEN lag + 1 ELSE 0) /\ (handling => lag < MaxLag)
      /\ UNCHANGED <<nextId, expired, handling, dropped, undone>>
  BY DEF Tick
<1>2. \A id \in DOMAIN timers : LET t == Older(timers[id])
                                IN  t \in Timer /\ t.age + t.left >= Smaller(t.wait, MaxAge)
  BY OlderFits DEF Inv, TypeOK, Accounted
<1> HIDE DEF Older
<1>3. lag' \in 0..MaxLag /\ armed' \in Nat /\ ready' \in BOOLEAN
  <2>1. lag' \in 0..MaxLag
    <3>1. MaxLag \in Nat /\ lag \in 0..MaxLag
      BY TimerManagerAssumption DEF Inv, TypeOK
    <3> QED  BY <1>1, <3>1
  <2>2. armed' \in Nat /\ ready' \in BOOLEAN
    BY <1>1 DEF Monus, Inv, TypeOK
  <2> QED  BY <2>1, <2>2
<1>4. TypeOK' /\ Accounted'
  BY <1>1, <1>2, <1>3 DEF Inv, TypeOK, Accounted
<1> QED
  BY <1>1, <1>4 DEF Inv, IdsHandedOut, ExpiredOnlyInHandleRead, NeverEarly,
                    RemovedByHandlerIsGone

LEMMA NextInv == Inv /\ [Next]_vars => Inv'
<1> SUFFICES ASSUME Inv, [Next]_vars PROVE Inv'
  OBVIOUS
<1>1. CASE \E delay \in Delays, interval \in Intervals \cup {0} : AddTimer(delay, interval)
  BY <1>1, AddTimerInv
<1>2. CASE \E id \in TimerId : RemoveTimer(id)
  BY <1>2, RemoveTimerInv
<1>3. CASE HandleRead
  BY <1>3, TakeExpiredInv, RunCallbackInv, FinishHandleReadInv DEF HandleRead
<1>4. CASE Tick
  BY <1>4, TickInv
<1>5. CASE UNCHANGED vars
  BY <1>5 DEF vars, Inv, TypeOK, IdsHandedOut, Accounted, ExpiredOnlyInHandleRead,
              NeverEarly, RemovedByHandlerIsGone
<1> QED  BY <1>1, <1>2, <1>3, <1>4, <1>5 DEF Next

\* Inv holds in every reachable state.
LEMMA Invariance == Spec => []Inv
BY InitInv, NextInv, PTL DEF Spec, Safety

-----------------------------------------------------------------------------
\* The timer maps, the timerfd and the counters are well formed, for any
\* delays and number of timers.
THEOREM TypeCorrect == Spec => []TypeOK
<1>1. Inv => TypeOK
  BY DEF Inv
<1> QED  BY <1>1, Invariance, PTL

\* No callback runs before its time, however long the callbacks before it in
\* the batch of handleRead took.
THEOREM NoTimerEarly == Spec => []NeverEarly
<1>1. Inv => NeverEarly
  BY DEF Inv
<1> QED  BY <1>1, Invariance, PTL

\* What a handler of the loop removes with removeTimer never comes back: no
\* batch of handleRead holds a copy, and no id is handed out twice.
THEOREM RemovedStaysGone == Spec => []RemovedByHandlerIsGone
<1>1. Inv => RemovedByHandlerIsGone
  BY DEF Inv
<1> QED  BY <1>1, Invariance, PTL

\* Every step keeps the timerfd in step with the map: a change of the map
\* ends with resetTimerfd, and time passes alike for both.
LEMMA TimerfdStep ==
  ASSUME Inv, Inv', TimerfdAgrees, [Next]_vars
  PROVE  TimerfdAgrees'
<1>1. CASE ResetTimerfd
  <2>1. /\ DOMAIN timers' \subseteq Nat
        /\ \A id \in DOMAIN timers' : timers'[id].left \in Nat
    BY TimerIdIsNat DEF Inv, TypeOK, Timer
  <2> QED  BY <1>1, <2>1, ResetAgrees
<1>2. CASE TakeExpired \/ RunCallback
  BY <1>2 DEF TakeExpired, RunCallback, TimerfdAgrees
<1>3. CASE Tick
  <2>1. /\ handling' = handling
        /\ armed' = Monus(armed, 1)
        /\ ready' = (ready \/ armed = 1)
        /\ DOMAIN timers' = DOMAIN timers
        /\ armed \in Nat /\ ready \in BOOLEAN /\ handling \in BOOLEAN
    BY <1>3 DEF Tick, Inv, TypeOK
  <2>2. ASSUME DOMAIN timers # {}
        PROVE  /\ First(timers') = First(timers)
               /\ timers[First(timers)].left \in Nat
               /\ timers'[First(timers)].left = Monus(timers[First(timers)].left, 1)
    <3>1. DOMAIN timers \subseteq Nat
      BY TimerIdIsNat DEF Inv, TypeOK
    <3>2. First(timers) \in DOMAIN timers /\ \A id \in DOMAIN timers : First(timers) <= id
      BY <2>2, <3>1, FirstIsLeast
    <3>3. First(timers') \in DOMAIN timers /\ \A id \in DOMAIN timers : First(timers') <= id
      BY <2>1, <2>2, <3>1, FirstIsLeast
    <3>4. First(timers') = First(timers)
      BY <3>1, <3>2, <3>3
    <3>5. timers[First(timers)] \in Timer
      BY <3>2 DEF Inv, TypeOK
    <3>6. timers'[First(timers)].left = Monus(timers[First(timers)].left, 1)
      BY <1>3, <3>2, <3>5 DEF Tick, Timer
    <3> QED  BY <3>4, <3>5, <3>6 DEF Timer
  <2>3. CASE DOMAIN timers = {}
    BY <2>1, <2>3 DEF TimerfdAgrees, Monus
  <2>4. CASE DOMAIN timers # {}
    <3> DEFINE left == timers[First(timers)].left
    <3>1. left \in Nat /\ timers'[First(timers')].left = Monus(left, 1)
      BY <2>2, <2>4
    <3>2. ~handling => IF ready THEN left = 0 /\ armed = 0
                                ELSE armed = Larger(left, 1)
      BY <2>4 DEF TimerfdAgrees
    <3> HIDE DEF left
    <3>3. ~handling => IF ready' THEN Monus(left, 1) = 0 /\ armed' = 0
                                 ELSE armed' = Larger(Monus(left, 1), 1)
      <4>1. left \in Nat /\ armed \in Nat
        BY <2>1, <3>1
      <4>2. CASE ready
        <5>1. ready'
          BY <2>1, <4>2, Zenon
        <5>2. ~handling => armed' = 0 /\ Monus(left, 1) = 0
          BY <2>1, <3>2, <4>2 DEF Monus
        <5> QED  BY <5>1, <5>2
      <4>3. CASE ~ready /\ armed = Larger(left, 1)
        <5>1. CASE armed = 1
          <6>1. ready' /\ armed' = 0
            <7>1. ready'
              BY <2>1, <5>1, Zenon
            <7>2. armed' = 0
              BY <2>1, <5>1 DEF Monus
            <7> QED  BY <7>1, <7>2
          <6>2. Monus(left, 1) = 0
            BY <4>1, <4>3, <5>1 DEF Monus, Larger
          <6> QED  BY <6>1, <6>2
        <5>2. CASE armed # 1
          <6>1. ~ready'
            BY <2>1, <4>3, <5>2, Zenon
          <6>2. armed' = Larger(Monus(left, 1), 1)
            BY <2>1, <4>1, <4>3, <5>2 DEF Monus, Larger
          <6> QED  BY <6>1, <6>2
        <5> QED  BY <5>1, <5>2
      <4> QED  BY <3>2, <4>2, <4>3
    <3> QED  BY <2>1, <2>4, <3>1, <3>3 DEF TimerfdAgrees
  <2> QED  BY <2>3, <2>4
<1>4. CASE UNCHANGED vars
  BY <1>4 DEF vars, TimerfdAgrees
<1> QED
  BY <1>1, <1>2, <1>3, <1>4 DEF Next, HandleRead, AddTimer, RemoveTimer, FinishHandleRead

\* The timerfd never expires after a timer has become due, except for timers
\* that stand behind one of a lower id due later, whatever was added, removed or
\* put back: no other timer waits for more than the descriptor the loop polls.
THEOREM OnlyHigherIdsAreLate == Spec => []LateOnlyBehindLowerId
<1>1. Init => TimerfdAgrees
  BY DEF Init, TimerfdAgrees
<1>2. Inv /\ Inv' /\ TimerfdAgrees /\ [Next]_vars => TimerfdAgrees'
  BY TimerfdStep
<1>3. ASSUME Inv, TimerfdAgrees PROVE LateOnlyBehindLowerId
  <2> SUFFICES ASSUME ~handling, ~ready, NEW id \in DOMAIN timers
               PROVE  \/ armed \in 1..Larger(timers[id].left, 1)
                      \/ armed > 0 /\ \E lower \in DOMAIN timers :
                             lower < id /\ timers[lower].left > timers[id].left
    BY DEF LateOnlyBehindLowerId
  <2>1. DOMAIN timers \subseteq Nat /\ \A i \in DOMAIN timers : timers[i].left \in Nat
    BY <1>3, TimerIdIsNat DEF Inv, TypeOK, Timer
  <2>2. PICK first \in DOMAIN timers : first = First(timers) /\ first <= id
    BY <2>1, FirstIsLeast
  <2>3. armed = Larger(timers[first].left, 1)
    BY <1>3, <2>2 DEF TimerfdAgrees
  <2>4. timers[first].left \in Nat /\ timers[id].left \in Nat /\ first \in Nat /\ id \in Nat
    BY <2>1
  <2>5. CASE timers[first].left <= timers[id].left
    BY <2>3, <2>4, <2>5 DEF Larger
  <2>6. CASE timers[first].left > timers[id].left
    <3>1. first < id
      BY <2>2, <2>4, <2>6
    <3>2. armed > 0
      BY <2>3, <2>4 DEF Larger
    <3> QED  BY <2>6, <3>1, <3>2
  <2> QED  BY <2>4, <2>5, <2>6
<1> QED  BY <1>1, <1>2, <1>3, Invariance, PTL DEF Spec, Safety
=============================================================================
