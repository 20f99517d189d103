------------------------------ MODULE MCPlayer ------------------------------
(* Model checking of Player, and of the ring it plays from.                *)
EXTENDS Player

\* Lengths force_optim can be given: CLI_SYNC_PERCENT (the pilot), and one of
\* the lengths above 2 * SYNCHED_DELTA a follower may compute.
PilotAndFollowerLens == {15, CLI_SYNC_PERCENT}
=============================================================================
