------------------------------ MODULE MCTcpSrv ------------------------------
(* Model checking of TcpSrv; and the pace controller, evaluated on all     *)
(* histories of a few reports.                                             *)
EXTENDS TcpSrv, Pace

Seqs == INSTANCE SequencesExt

\* What a report says does not matter to who is the pilot: one is enough.
OneReport == {[seq |-> 7, qlen |-> 3, qsize |-> 10, qoptim |-> 5]}

\* Errors in tens of a percent; the controller after each history of four.
Errors == {-5, 0, 4, 8, 10}
After(errors) == Seqs!FoldLeft(Calculate, New, errors)

ASSUME PaceOnShortHistories ==
    \A errors \in [1 .. 4 -> Errors], last \in Errors :
        LET c == After(errors)  d == Calculate(c, last) IN
        /\ c.prev = 0 \/ c.prev \in Least .. Most
        /\ Distance(c.prev, d.prev) <= Jump
        /\ Sleep(1000, d) \in 1 .. 1000 * Full

\* Small errors are followed; after a first large one the answer stays 0.
ASSUME PaceStartsFromZero == After(<<4, 4>>).prev = 16 /\ After(<<10, 10, 10>>).prev = 0
=============================================================================
