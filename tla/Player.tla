------------------------------- MODULE Player -------------------------------
(***************************************************************************)
(* The player thread of a speaker: player::play and player::_fill_q of     *)
(* cli/player.cpp, on the play queue of module Circle, with a network      *)
(* thread that may make any of its queue calls at any time.                *)
(*                                                                         *)
(* The thread looks at the queue with calls that lock it one at a time, so *)
(* each look is a step of its own and what it saw may be stale when it     *)
(* acts on it.                                                             *)
(***************************************************************************)
EXTENDS Circle

CONSTANT Q_ALMOST_EMPTY     \* below this length the player looks for a refill

ASSUME AlmostEmptyAssumption == Q_ALMOST_EMPTY \in Nat

VARIABLES
    alive,      \* __alive, cleared by Ctrl-C
    ppc,        \* where the player thread is
    filling,    \* it waits for the queue to fill up
    fillingsz,  \* the length below which it will not play
    qoptim      \* the optimum _fill_q read, without the lock

playerLocals == <<ppc, filling, fillingsz, qoptim>>
playerVars == <<circleVars, alive, playerLocals>>

PlayerPcs == {"loop", "fill", "empty", "full", "take", "play", "report", "done"}

PlayerInit ==
    /\ CircleInit
    /\ alive = TRUE
    /\ ppc = "loop"
    /\ filling = TRUE
    /\ fillingsz = Q_ALMOST_EMPTY
    /\ qoptim = 0

-----------------------------------------------------------------------------
\* The head of the loop: give up, wait for the queue to fill, or play.
LeavePlay ==
    /\ ppc = "loop" /\ ~alive
    /\ ppc' = "done"
    /\ UNCHANGED <<circleVars, alive, filling, fillingsz, qoptim>>

MustFill == elems < fillingsz \/ filling

FaultyGoFill ==
    /\ ppc = "loop" /\ MustFill
    /\ ppc' = "fill"
    /\ UNCHANGED <<circleVars, alive, filling, fillingsz, qoptim>>

GoFill ==
    /\ ppc = "loop" /\ alive /\ MustFill
    /\ ppc' = "fill"
    /\ UNCHANGED <<circleVars, alive, filling, fillingsz, qoptim>>

GoTake ==
    /\ ppc = "loop" /\ alive /\ ~MustFill
    /\ ppc' = "take"
    /\ fillingsz' = Q_ALMOST_EMPTY
    /\ UNCHANGED <<circleVars, alive, filling, qoptim>>

FaultyReadOptim ==
    /\ ppc = "fill"
    /\ ppc' = "empty"
    /\ qoptim' = elems
    /\ UNCHANGED <<circleVars, alive, filling, fillingsz>>

\* _fill_q: three looks at the queue.  It returns the optimum, and that is
\* the length below which the loop will come back here.
ReadOptim ==
    /\ ppc = "fill"
    /\ ppc' = "empty"
    /\ qoptim' = optim
    /\ UNCHANGED <<circleVars, alive, filling, fillingsz>>

LookEmpty ==
    /\ ppc = "empty"
    /\ ppc' = "full"
    /\ filling' = (filling \/ elems = 0)
    /\ UNCHANGED <<circleVars, alive, fillingsz, qoptim>>

LookFull ==
    /\ ppc = "full"
    /\ ppc' = "loop"
    /\ filling' = (filling /\ elems <= qoptim)
    /\ fillingsz' = qoptim
    /\ UNCHANGED <<circleVars, alive, qoptim>>

\* q_consume, which may still have nothing: the queue is blocked, or was
\* emptied since its length was read.
TakeChunk ==
    /\ ppc = "take"
    /\ QConsume
    /\ ppc' = "play"
    /\ UNCHANGED <<alive, filling, fillingsz, qoptim>>

TakeNothing ==
    /\ ppc = "take"
    /\ ConsumeNothing
    /\ ppc' = "loop"
    /\ UNCHANGED <<alive, filling, fillingsz, qoptim>>

\* The chunk goes to the audio device and back to the ring.
PlayChunk ==
    /\ ppc = "play"
    /\ ReleasePk
    /\ ppc' = "report"
    /\ UNCHANGED <<alive, filling, fillingsz, qoptim>>

\* sclient::update_frame, for the frame just played.
Report ==
    /\ ppc = "report"
    /\ ppc' = "loop"
    /\ UNCHANGED <<circleVars, alive, filling, fillingsz, qoptim>>

PlayerLoop ==
    \/ LeavePlay \/ GoFill \/ GoTake
    \/ ReadOptim \/ LookEmpty \/ LookFull
    \/ TakeChunk \/ TakeNothing
    \/ PlayChunk \/ Report

-----------------------------------------------------------------------------
\* The network thread: any call of Circle, in any order.
AnyFeeder == FeederStep /\ UNCHANGED <<alive, playerLocals>>

\* Ctrl-C (ctrlc() of screenxy.cpp).
CtrlC ==
    /\ alive
    /\ alive' = FALSE
    /\ UNCHANGED <<circleVars, playerLocals>>

PlayerNext == PlayerLoop \/ AnyFeeder \/ CtrlC

PlayerSpec == PlayerInit /\ [][PlayerNext]_playerVars

\* The player thread always runs on; the network thread keeps taking chunks
\* for the frames that arrive and gives each of them back.
FeederFairness ==
    /\ WF_playerVars((QFeedup \/ Dummy) /\ UNCHANGED <<alive, playerLocals>>)
    /\ WF_playerVars(ReleaseChunk /\ UNCHANGED <<alive, playerLocals>>)

PlayerFairSpec ==
    /\ PlayerSpec
    /\ WF_playerVars(PlayerLoop)
    /\ FeederFairness

-----------------------------------------------------------------------------
(* Properties.                                                             *)

\* The type of the player thread's state and of the ring's.  A chunk is held
\* exactly while it is played: no way through the loop keeps one.
PlayerTypeOK ==
    /\ TypeOK
    /\ (pk # NoChunk) <=> (ppc = "play")
    /\ alive \in BOOLEAN
    /\ ppc \in PlayerPcs
    /\ filling \in BOOLEAN
    /\ fillingsz \in {Q_ALMOST_EMPTY} \union 0 .. Chunks
    /\ qoptim \in 0 .. Chunks

\* Music does not stop for ever: whatever the level, the block and the
\* refill rules of _fill_q and play() did before, if frames keep coming and
\* the level is moved no more, the player keeps playing chunks.
KeepsPlaying ==
    <>[][~LevelMoves]_playerVars =>
        [](~alive \/ <>(ppc = "play" \/ ~alive))

\* Ctrl-C ends play(), wherever the thread is and whatever the queue does.
PlayEnds == ~alive ~> ppc = "done"
=============================================================================
