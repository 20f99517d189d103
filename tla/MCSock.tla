------------------------------- MODULE MCSock -------------------------------
(* Two descriptors above stdin: one for the program's socket and one that   *)
(* the rest of the process, or a second socket, takes or leaves.            *)
EXTENDS Phone
=============================================================================
