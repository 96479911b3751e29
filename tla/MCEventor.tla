----------------------------- MODULE MCEventor -----------------------------
(***************************************************************************)
(* TLC instance of Eventor: two threads that call runInLoop on one loop.   *)
(***************************************************************************)
EXTENDS EventorProofs
=============================================================================
