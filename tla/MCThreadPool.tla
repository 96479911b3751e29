---------------------------- MODULE MCThreadPool ----------------------------
(***************************************************************************)
(* TLC instance of ThreadPool: two workers, a queue of one slot, and two   *)
(* adders, so that workers and adders both get to wait.                    *)
(***************************************************************************)
EXTENDS ThreadPool
=============================================================================
