----------------------------- MODULE MCSpeakers -----------------------------
(* Model checking of Speakers.                                             *)
EXTENDS Speakers

\* What a report says does not matter to whether it is sent.
OneReport == {[seq |-> 7, qlen |-> 3, qsize |-> 10, qoptim |-> 5]}
=============================================================================
