--------------------------- MODULE FunctorMailbox ---------------------------
(***************************************************************************)
(* What EventLoop::runInLoop promises to a thread that is not the loop's   *)
(* own: a functor handed over is run by the loop, in the order in which    *)
(* the functors were handed over, and each of them exactly once.           *)
(***************************************************************************)
EXTENDS Naturals, Sequences

CONSTANT Functor    \* the functors that can be handed over

VARIABLES posted,   \* the functors handed over so far, in order
          executed  \* the functors the loop has run so far, in order

mailboxVars == <<posted, executed>>

Init == /\ posted = <<>>
        /\ executed = <<>>

Post == /\ \E f \in Functor : posted' = Append(posted, f)
        /\ UNCHANGED executed

\* The loop runs the oldest functor it has not run yet.
Run == /\ Len(executed) < Len(posted)
       /\ executed' = Append(executed, posted[Len(executed) + 1])
       /\ UNCHANGED posted

Next == Post \/ Run

Safety == Init /\ [][Next]_mailboxVars

Spec == Safety /\ WF_mailboxVars(Run)
=============================================================================
