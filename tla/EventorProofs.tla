--------------------------- MODULE EventorProofs ---------------------------
(***************************************************************************)
(* Proofs about the functor queue of Eventor, for any set of callers and   *)
(* any number of calls: no wakeup is lost, no functor is lost, repeated or *)
(* reordered, and every step is a step of FunctorMailbox or a stutter.     *)
(***************************************************************************)
EXTENDS Eventor, SequenceTheorems, TLAPS

\* The inductive invariant: the three properties, and that the batch is
\* empty whenever the loop is not running it (so that the swap discards
\* nothing).
IInv == /\ TypeOK
        /\ NoLostWakeup
        /\ ExactlyOnceInOrder
        /\ loopPC # "run" => tmp = <<>>

\* The type invariant holds initially and is kept by every step: no caller
\* makes more than MaxPosts calls, and only functors enter the queues.
LEMMA TypeInductive ==
  /\ Init => TypeOK
  /\ TypeOK /\ [Next]_vars => TypeOK'
<1>1. Init => TypeOK
  BY EventorAssumption, EmptySeq DEF Init, TypeOK
<1>2. TypeOK /\ [Next]_vars => TypeOK'
  <2> SUFFICES ASSUME TypeOK, [Next]_vars PROVE TypeOK'
    OBVIOUS
  <2> USE DEF TypeOK
  <2>1. ASSUME NEW c \in Callers, AddEventcb(c) PROVE TypeOK'
    <3>1. <<c, calls[c] + 1>> \in Functor
      BY <2>1, EventorAssumption DEF AddEventcb, Functor
    <3>2. /\ pendings' \in Seq(Functor)
          /\ posted' \in Seq(Functor)
      BY <2>1, <3>1, AppendProperties DEF AddEventcb
    <3>3. calls' \in [Callers -> 0..MaxPosts]
      BY <2>1, EventorAssumption DEF AddEventcb
    <3> QED  BY <2>1, <3>2, <3>3 DEF AddEventcb
  <2>2. ASSUME NEW c \in Callers, WakeUp(c) PROVE TypeOK'
    BY <2>2 DEF WakeUp
  <2>3. ASSUME NEW c \in Callers, LeaveAddEventcb(c) PROVE TypeOK'
    BY <2>3 DEF LeaveAddEventcb
  <2>4. CASE StartLoop
    BY <2>4 DEF StartLoop, queueVars
  <2>5. CASE HandleRead
    BY <2>5 DEF HandleRead
  <2>6. CASE SwapPendings
    BY <2>6, EmptySeq DEF SwapPendings
  <2>7. CASE RunFunctor
    <3>1. /\ Head(tmp) \in Functor
          /\ Tail(tmp) \in Seq(Functor)
      BY <2>7, HeadTailProperties DEF RunFunctor
    <3>2. executed' \in Seq(Functor)
      BY <2>7, <3>1, AppendProperties DEF RunFunctor
    <3> QED  BY <2>7, <3>1, <3>2 DEF RunFunctor, queueVars
  <2>8. CASE FinishBatch
    BY <2>8 DEF FinishBatch, queueVars
  <2>9. CASE UNCHANGED vars
    BY <2>9 DEF vars
  <2> QED
    BY <2>1, <2>2, <2>3, <2>4, <2>5, <2>6, <2>7, <2>8, <2>9
       DEF Next, LoopStep, CallerStep
<1> QED  BY <1>1, <1>2

\* The type invariant, for every set of callers.
THEOREM TypeCorrect == Safety => []TypeOK
BY TypeInductive, PTL DEF Safety

\* A step that keeps IInv's last two conjuncts: what the swap takes out of
\* _pendings is what the batch then holds.
LEMMA OrderInductive ==
  ASSUME TypeOK, ExactlyOnceInOrder, loopPC # "run" => tmp = <<>>, [Next]_vars
  PROVE  /\ ExactlyOnceInOrder'
         /\ (loopPC # "run" => tmp = <<>>)'
<1> USE DEF TypeOK, ExactlyOnceInOrder
<1>1. ASSUME NEW c \in Callers, AddEventcb(c)
      PROVE  ExactlyOnceInOrder' /\ (loopPC # "run" => tmp = <<>>)'
  <2> DEFINE f == <<c, calls[c] + 1>>
  <2>1. f \in Functor /\ <<f>> \in Seq(Functor)
    BY <1>1, EventorAssumption DEF AddEventcb, Functor
  <2>2. /\ posted' = posted \o <<f>>
        /\ pendings' = pendings \o <<f>>
    BY <1>1, <2>1, AppendIsConcat DEF AddEventcb
  <2>3. executed \o tmp \in Seq(Functor) /\ pendings \in Seq(Functor)
    BY ConcatProperties
  <2>4. (executed \o tmp \o pendings) \o <<f>> = (executed \o tmp) \o (pendings \o <<f>>)
    <3> HIDE DEF f
    <3> QED  BY ONLY <2>1, <2>3, ConcatAssociative, SMTT(60)
  <2> QED  BY <1>1, <2>2, <2>4 DEF AddEventcb
<1>2. ASSUME NEW c \in Callers, WakeUp(c) \/ LeaveAddEventcb(c)
      PROVE  ExactlyOnceInOrder' /\ (loopPC # "run" => tmp = <<>>)'
  BY <1>2 DEF WakeUp, LeaveAddEventcb
<1>3. ASSUME StartLoop \/ HandleRead \/ FinishBatch \/ UNCHANGED vars
      PROVE  ExactlyOnceInOrder' /\ (loopPC # "run" => tmp = <<>>)'
  BY <1>3 DEF StartLoop, HandleRead, FinishBatch, queueVars, vars
<1>4. CASE SwapPendings
  <2>1. executed \o <<>> \o pendings = executed \o pendings \o <<>>
    BY ConcatEmptySeq, ConcatProperties
  <2> QED  BY <1>4, <2>1 DEF SwapPendings
<1>5. CASE RunFunctor
  <2>1. /\ Head(tmp) \in Functor
        /\ Tail(tmp) \in Seq(Functor)
        /\ <<Head(tmp)>> \in Seq(Functor)
    BY <1>5, HeadTailProperties DEF RunFunctor
  <2>2. executed' = executed \o <<Head(tmp)>>
    BY <1>5, <2>1, AppendIsConcat DEF RunFunctor
  <2>3. tmp = <<Head(tmp)>> \o Tail(tmp)
    BY <1>5 DEF RunFunctor
  <2>4. executed' \o Tail(tmp) = executed \o tmp
    <3>1. executed \in Seq(Functor)
      OBVIOUS
    <3> QED  BY ONLY <2>1, <2>2, <2>3, <3>1, ConcatAssociative
  <2> QED  BY <1>5, <2>4 DEF RunFunctor, queueVars
<1> QED
  BY <1>1, <1>2, <1>3, <1>4, <1>5 DEF Next, LoopStep, CallerStep

\* A step keeps NoLostWakeup: the eventfd is only reset on the way to a swap.
LEMMA WakeupInductive ==
  ASSUME TypeOK, NoLostWakeup, [Next]_vars
  PROVE  NoLostWakeup'
<1> USE DEF TypeOK, NoLostWakeup
<1>1. ASSUME NEW c \in Callers, AddEventcb(c) PROVE NoLostWakeup'
  BY <1>1 DEF AddEventcb
<1>2. ASSUME NEW c \in Callers, WakeUp(c) PROVE NoLostWakeup'
  BY <1>2 DEF WakeUp
<1>3. ASSUME NEW c \in Callers, LeaveAddEventcb(c) PROVE NoLostWakeup'
  BY <1>3 DEF LeaveAddEventcb
<1>4. ASSUME LoopStep \/ UNCHANGED vars PROVE NoLostWakeup'
  BY <1>4 DEF LoopStep, StartLoop, HandleRead, SwapPendings, RunFunctor,
              FinishBatch, queueVars, vars
<1> QED  BY <1>1, <1>2, <1>3, <1>4 DEF Next, CallerStep

\* IInv is an invariant of every behaviour.
LEMMA Inductive == Safety => []IInv
<1>1. Init => IInv
  <2> SUFFICES ASSUME Init PROVE IInv
    OBVIOUS
  <2>1. ExactlyOnceInOrder
    BY DEF Init, ExactlyOnceInOrder
  <2> QED  BY <2>1, TypeInductive DEF Init, IInv, NoLostWakeup
<1>2. IInv /\ [Next]_vars => IInv'
  BY TypeInductive, OrderInductive, WakeupInductive DEF IInv
<1> QED  BY <1>1, <1>2, PTL DEF Safety

\* Whatever the number of callers, a functor in _pendings is never left
\* without a wakeup.
THEOREM WakeupNeverLost == Safety => []NoLostWakeup
BY Inductive, PTL DEF IInv

\* Whatever the number of callers, the double buffer of doPenddingFunctors
\* neither loses nor repeats nor reorders a functor.
THEOREM RunExactlyOnceInOrder == Safety => []ExactlyOnceInOrder
BY Inductive, PTL DEF IInv

\* Every behaviour of the queue is one of the abstract mailbox.
THEOREM RefinesMailbox == Safety => Mailbox!Safety
<1>1. Init => Mailbox!Init
  BY DEF Init, Mailbox!Init
<1>2. IInv /\ [Next]_vars => [Mailbox!Next]_(Mailbox!mailboxVars)
  <2> SUFFICES ASSUME IInv, [Next]_vars
               PROVE  [Mailbox!Next]_(Mailbox!mailboxVars)
    OBVIOUS
  <2> USE DEF Mailbox!Next, Mailbox!mailboxVars, IInv, TypeOK
  <2>1. ASSUME NEW c \in Callers, AddEventcb(c)
        PROVE  Mailbox!Post
    <3>1. <<c, calls[c] + 1>> \in Functor
      BY <2>1, EventorAssumption DEF AddEventcb, Functor
    <3> QED  BY <2>1, <3>1 DEF AddEventcb, Mailbox!Post
  <2>2. CASE RunFunctor
    <3>1. Len(executed) < Len(posted) /\ posted[Len(executed) + 1] = Head(tmp)
      <4>1. executed \o tmp \in Seq(Functor)
        BY ConcatProperties
      <4>2. /\ Len(executed) \in Nat
            /\ Len(tmp) \in Nat \ {0}
            /\ Len(pendings) \in Nat
        BY <2>2, LenProperties, EmptySeq DEF RunFunctor
      <4>3. Len(posted) = Len(executed) + Len(tmp) + Len(pendings)
        BY <4>1, ConcatProperties DEF ExactlyOnceInOrder
      <4>4. posted[Len(executed) + 1] = (executed \o tmp)[Len(executed) + 1]
        BY <4>1, <4>2, ConcatProperties DEF ExactlyOnceInOrder
      <4>5. (executed \o tmp)[Len(executed) + 1] = tmp[1]
        BY <4>2, ConcatProperties
      <4> QED  BY <4>2, <4>3, <4>4, <4>5
    <3> QED  BY <2>2, <3>1 DEF RunFunctor, Mailbox!Run, queueVars
  <2>3. ASSUME \/ StartLoop \/ HandleRead \/ SwapPendings \/ FinishBatch
               \/ UNCHANGED vars
               \/ \E c \in Callers : WakeUp(c) \/ LeaveAddEventcb(c)
        PROVE  UNCHANGED <<posted, executed>>
    BY <2>3 DEF StartLoop, HandleRead, SwapPendings, FinishBatch, WakeUp,
                LeaveAddEventcb, vars
  <2> QED  BY <2>1, <2>2, <2>3 DEF Next, LoopStep, CallerStep
<1> QED  BY <1>1, <1>2, Inductive, PTL DEF Safety, Mailbox!Safety
=============================================================================
