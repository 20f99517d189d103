---------------------------- MODULE AudioStream ----------------------------
(***************************************************************************)
(* What a speaker promises its listener, with nothing of queues, threads   *)
(* or sockets: of the chunks of sound sent to it, each is heard at most    *)
(* once, none is made up, and a chunk that is neither is heard only when   *)
(* the connection was cut in the middle of it.  A chunk may be left out,   *)
(* and the abstract stream says nothing about order.                       *)
(***************************************************************************)
EXTENDS Naturals

VARIABLES
    sent,       \* how many chunks were sent to this speaker
    heard,      \* the numbers of the chunks it played whole
    plays,      \* how many times it played a whole chunk
    cuts,       \* how many times a connection was cut or refused
    damaged     \* how many chunks it played that are mixed from two

streamVars == <<sent, heard, plays, cuts, damaged>>

StreamInit == sent = 0 /\ heard = {} /\ plays = 0 /\ cuts = 0 /\ damaged = 0

Send ==
    /\ sent' = sent + 1
    /\ UNCHANGED <<heard, plays, cuts, damaged>>

Cut ==
    /\ cuts' = cuts + 1
    /\ UNCHANGED <<sent, heard, plays, damaged>>

Hear ==
    /\ \E f \in (1 .. sent) \ heard : heard' = heard \union {f}
    /\ plays' = plays + 1
    /\ UNCHANGED <<sent, cuts, damaged>>

HearDamaged ==
    /\ damaged < cuts
    /\ damaged' = damaged + 1
    /\ UNCHANGED <<sent, heard, plays, cuts>>

StreamNext == Send \/ Cut \/ Hear \/ HearDamaged

StreamSpec == StreamInit /\ [][StreamNext]_streamVars
=============================================================================
