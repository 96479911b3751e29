---------------------------- MODULE MCEventLoop ----------------------------
(***************************************************************************)
(* TLC instance of EventLoop.                                              *)
(***************************************************************************)
EXTENDS EventLoop

CONSTANTS c1, c2
=============================================================================
