--------------------------- MODULE MCTimerManager ---------------------------
(***************************************************************************)
(* TLC instance of TimerManager.                                           *)
(***************************************************************************)
EXTENDS TimerManager
=============================================================================
