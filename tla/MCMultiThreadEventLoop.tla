----------------------- MODULE MCMultiThreadEventLoop -----------------------
(***************************************************************************)
(* TLC instance of MultiThreadEventLoop.                                   *)
(***************************************************************************)
EXTENDS MultiThreadEventLoop
=============================================================================
