---------------------------- MODULE MCOldTcpSrv -----------------------------
(* Model checking of OldTcpSrv.                                            *)
EXTENDS OldTcpSrv

CONSTANTS c1, c2, c3

\* Two frames that are too far from each other.
FewFrames == {1, 3}
=============================================================================
