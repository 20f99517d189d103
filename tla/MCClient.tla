------------------------------ MODULE MCClient ------------------------------
(* Model checking of Client.                                               *)
EXTENDS Client

H(sig, role, lag, short) ==
    [sig |-> sig, role |-> role, lag |-> lag, short |-> short]

Plain == H("other", "not_synced", 0, FALSE)

\* A plain frame, one cut short, a reset, the pilot's sync frame, and a
\* follower's ahead of its pilot.
AllHeaders ==
    {Plain, H("other", "not_synced", 0, TRUE), H("reset", "not_synced", 0, FALSE),
     H("sync", "pilot", 0, FALSE), H("sync", "synced", 1, FALSE)}

\* Sound and nothing else.
PlainHeaders == {Plain}

Lens == 1 .. Chunks + 2
=============================================================================
