--------------------------- MODULE MCRtspConnect ---------------------------
(***************************************************************************)
(* TLC instance of RtspConnect.  The connections are interchangeable.      *)
(***************************************************************************)
EXTENDS RtspConnect, TLC

ConnSymmetry == Permutations(Conns)
=============================================================================
