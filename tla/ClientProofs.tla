---------------------------- MODULE ClientProofs ----------------------------
(***************************************************************************)
(* The safety of the play queue and of the speaker around it, for every    *)
(* size of the ring, every set of lengths force_optim may be given, every  *)
(* set of headers, and every number of frames and of cuts.                 *)
(*                                                                         *)
(* Four inductive invariants, each built on the one before:                *)
(*   RingInv      the indexes, the count and the locks of the queue;       *)
(*   SpeakerInv   types, and who holds what: the steps of the three        *)
(*                threads are steps of Player, and so of Circle;           *)
(*   ListenInv    what is in the chunks: every whole chunk is unheard and  *)
(*                unlike the others, and every mixed one was paid for by a *)
(*                cut.  It makes Client implement AudioStream;             *)
(*   CalmInv      the numbers in the queue rise from the get index to the  *)
(*                put index while nothing went wrong.  It gives the order  *)
(*                of what is heard and of the reports.                     *)
(***************************************************************************)
EXTENDS Client, FiniteSetTheorems, TLAPS

-----------------------------------------------------------------------------
(***************************************************************************)
(* The play queue.  The four invariants of Circle are inductive together:  *)
(* RingConsistent needs the ranges of TypeOK for the modular arithmetic,   *)
(* NoSharedChunk needs LocksAreHeld, because it is the flag that keeps a   *)
(* thread from the chunk of the other.                                     *)
(***************************************************************************)

\* The conjunction the induction is on.
RingInv == TypeOK /\ RingConsistent /\ LocksAreHeld /\ NoSharedChunk

\* Advancing an index by at most one round plus one slot stays in the ring
\* and takes off as many rounds as it went (srvq.h, _inc and the loop of
\* force_optim).
LEMMA Wraps ==
    ASSUME NEW i \in Slot, NEW k \in 0 .. Chunks + 1
    PROVE  /\ (i + k) % Chunks \in Slot
           /\ i + k - ((i + k) % Chunks) \in {0, Chunks, 2 * Chunks}
<1> USE ChunksAssumption DEF Slot
<1>1. CASE i + k < Chunks
  <2>1. (i + k) % Chunks = i + k
    BY <1>1
  <2> QED
    BY <1>1, <2>1
<1>2. CASE i + k >= Chunks /\ i + k < 2 * Chunks
  <2>1. (i + k) % Chunks = i + k - Chunks
    BY <1>2
  <2> QED
    BY <1>2, <2>1
<1>3. CASE i + k >= 2 * Chunks
  <2>1. i + k = 2 * Chunks
    BY <1>3
  <2>2. (i + k) % Chunks = 0
    BY <2>1
  <2> QED
    BY <2>1, <2>2
<1> QED
  BY <1>1, <1>2, <1>3

\* One step of _inc.
LEMMA IncWraps ==
    ASSUME NEW i \in Slot
    PROVE  Inc(i) \in Slot /\ i + 1 - Inc(i) \in {0, Chunks}
<1> USE ChunksAssumption DEF Slot
<1>1. CASE i + 1 < Chunks
  <2>1. Inc(i) = i + 1
    BY <1>1 DEF Inc
  <2> QED
    BY <1>1, <2>1
<1>2. CASE i + 1 = Chunks
  <2>1. Inc(i) = 0
    BY <1>2 DEF Inc
  <2> QED
    BY <1>2, <2>1
<1> QED
  BY <1>1, <1>2

\* Taking the k oldest of e elements off a consistent ring, as q_consume does
\* with one and force_optim with several, leaves a consistent ring.
LEMMA TakingOff ==
    ASSUME NEW g \in Slot, NEW p \in Slot,
           NEW e \in 0 .. Chunks + 1, NEW k \in 0 .. e,
           g + e \in {p, p + Chunks, p + 2 * Chunks}
    PROVE  /\ (g + k) % Chunks \in Slot
           /\ ((g + k) % Chunks) + (e - k) \in {p, p + Chunks, p + 2 * Chunks}
<1> USE ChunksAssumption
<1>1. k \in 0 .. Chunks + 1
  OBVIOUS
<1> DEFINE h == (g + k) % Chunks
<1>2. h \in Slot
  BY <1>1, Wraps
<1>3. g + k - h \in {0, Chunks, 2 * Chunks}
  BY <1>1, Wraps DEF Slot
<1> HIDE DEF h
<1>4. h + (e - k) \in {g + e, g + e - Chunks, g + e - 2 * Chunks}
  BY <1>2, <1>3 DEF Slot
<1>5. h + (e - k) >= 0
  BY <1>2 DEF Slot
<1>6. h + (e - k) \in {p, p + Chunks, p + 2 * Chunks}
  <2> USE DEF Slot
  <2>1. CASE g + e = p
    BY <1>2, <1>4, <1>5, <2>1
  <2>2. CASE g + e = p + Chunks
    BY <1>2, <1>4, <1>5, <2>2
  <2>3. CASE g + e = p + 2 * Chunks
    BY <1>2, <1>4, <1>5, <2>3
  <2> QED
    BY <2>1, <2>2, <2>3
<1> QED
  BY <1>2, <1>6 DEF h

\* force_optim never settles on a length the ring cannot hold.
LEMMA ClampedFits ==
    ASSUME NEW level \in OptimLens
    PROVE  Clamped(level) \in 0 .. Chunks
<1>1. level \in Nat
  BY OptimLensAssumption
<1>2. Chunks \div 20 \in 0 .. Chunks
  BY ChunksAssumption
<1> QED
  BY <1>1, <1>2, ChunksAssumption DEF Clamped

-----------------------------------------------------------------------------
\* reserve() leaves an empty, unlocked ring, half full being its optimum.
LEMMA RingInit == CircleInit => RingInv
<1> SUFFICES ASSUME CircleInit PROVE RingInv
  OBVIOUS
<1>1. 0 \in Slot /\ -1 \notin Slot /\ 0 \in 0 .. Chunks + 1
  BY ChunksAssumption DEF Slot
<1>2. (CLI_SYNC_PERCENT * Chunks) \div 100 \in 0 .. Chunks
  BY ChunksAssumption DEF CLI_SYNC_PERCENT
<1>3. TypeOK
  BY <1>1, <1>2 DEF CircleInit, TypeOK
<1>4. RingConsistent
  BY DEF CircleInit, RingConsistent
<1>5. LocksAreHeld /\ NoSharedChunk
  BY <1>1 DEF CircleInit, LocksAreHeld, NoSharedChunk, NoChunk
<1> QED
  BY <1>3, <1>4, <1>5 DEF RingInv

\* Every call either thread makes keeps the invariant.
LEMMA RingStep == RingInv /\ [CircleNext]_circleVars => RingInv'
<1> SUFFICES ASSUME RingInv, [CircleNext]_circleVars PROVE RingInv'
  OBVIOUS
<1> USE DEF RingInv
<1>0. -1 \notin Slot /\ -2 \notin Slot /\ Slot \subseteq Nat
  BY ChunksAssumption DEF Slot
<1>1. CASE QFeedup
  <2>1. Inc(puti) \in Slot /\ puti + 1 - Inc(puti) \in {0, Chunks}
    BY IncWraps DEF TypeOK
  <2>2. TypeOK'
    BY <1>1, <2>1, ChunksAssumption DEF QFeedup, HasRoom, TypeOK
  <2>3. RingConsistent'
    <3>1. geti' + elems' = geti + elems + 1 /\ puti' = Inc(puti)
      BY <1>1, ChunksAssumption DEF QFeedup, TypeOK, Slot
    <3>2. geti' + elems' < 2 * Chunks + 1
      BY <1>1, <3>1, ChunksAssumption DEF HasRoom, QFeedup, TypeOK, Slot
    <3> QED
      BY <2>1, <3>1, <3>2, ChunksAssumption
      DEF RingConsistent, TypeOK, Slot
  <2>4. LocksAreHeld' /\ NoSharedChunk'
    BY <1>0, <1>1
    DEF QFeedup, HasRoom, LocksAreHeld, NoSharedChunk, TypeOK, NoChunk, Scrap
  <2> QED
    BY <2>2, <2>3, <2>4
<1>2. CASE Dummy
  BY <1>0, <1>2
  DEF Dummy, TypeOK, RingConsistent, LocksAreHeld, NoSharedChunk,
      NoChunk, Scrap
<1>3. CASE ReleaseChunk
  BY <1>0, <1>3
  DEF ReleaseChunk, TypeOK, RingConsistent, LocksAreHeld, NoSharedChunk,
      NoChunk, Scrap
<1>4. CASE Reset
  BY <1>4, ChunksAssumption
  DEF Reset, TypeOK, RingConsistent, LocksAreHeld, NoSharedChunk, Slot
<1>5. ASSUME NEW level \in OptimLens, ForceOptim(level) PROVE RingInv'
  <2>1. Clamped(level) \in 0 .. Chunks
    BY ClampedFits
  <2>2. LocksAreHeld' /\ NoSharedChunk'
    BY <1>5 DEF ForceOptim, LocksAreHeld, NoSharedChunk
  <2>3. CASE elems' = elems /\ geti' = geti
    BY <1>5, <2>1, <2>2, <2>3
    DEF ForceOptim, TypeOK, RingConsistent
  <2>4. CASE /\ elems > Clamped(level)
             /\ geti' = (geti + (elems - Clamped(level))) % Chunks
             /\ elems' = Clamped(level)
             /\ UNCHANGED block_get
    <3> DEFINE k == elems - Clamped(level)
    <3>1. k \in 0 .. elems /\ elems - k = Clamped(level)
      BY <2>1, <2>4, ChunksAssumption DEF TypeOK
    <3> HIDE DEF k
    <3>2. /\ (geti + k) % Chunks \in Slot
          /\ ((geti + k) % Chunks) + (elems - k)
                  \in {puti, puti + Chunks, puti + 2 * Chunks}
      BY <3>1, TakingOff DEF TypeOK, RingConsistent
    <3>3. geti' = (geti + k) % Chunks /\ elems' = elems - k /\ puti' = puti
      BY <1>5, <2>4, <3>1 DEF k, ForceOptim
    <3>4. TypeOK'
      BY <1>5, <2>1, <2>4, <3>2, <3>3, ChunksAssumption
      DEF ForceOptim, TypeOK
    <3>5. RingConsistent'
      BY <3>2, <3>3 DEF RingConsistent
    <3> QED
      BY <2>2, <3>4, <3>5
  <2> QED
    BY <1>5, <2>3, <2>4 DEF ForceOptim
<1>6. CASE QConsume
  <2>1. Inc(geti) \in Slot /\ geti + 1 - Inc(geti) \in {0, Chunks}
    BY IncWraps DEF TypeOK
  <2>2. TypeOK'
    BY <1>6, <2>1, ChunksAssumption DEF QConsume, HasFrame, TypeOK
  <2>3. RingConsistent'
    <3>1. 1 \in 0 .. elems
      BY <1>6, ChunksAssumption DEF QConsume, HasFrame, TypeOK
    <3>2. Inc(geti) + (elems - 1) \in {puti, puti + Chunks, puti + 2 * Chunks}
      BY <3>1, TakingOff DEF Inc, TypeOK, RingConsistent
    <3> QED
      BY <1>6, <3>2 DEF QConsume, RingConsistent
  <2>4. LocksAreHeld' /\ NoSharedChunk'
    BY <1>0, <1>6
    DEF QConsume, HasFrame, LocksAreHeld, NoSharedChunk, TypeOK, NoChunk, Scrap
  <2> QED
    BY <2>2, <2>3, <2>4
<1>7. CASE ConsumeNothing
  BY <1>7
  DEF ConsumeNothing, TypeOK, RingConsistent, LocksAreHeld, NoSharedChunk
<1>8. CASE ReleasePk
  BY <1>0, <1>8
  DEF ReleasePk, TypeOK, RingConsistent, LocksAreHeld, NoSharedChunk,
      NoChunk, Scrap
<1>9. CASE UNCHANGED circleVars
  BY <1>9
  DEF circleVars, TypeOK, RingConsistent, LocksAreHeld, NoSharedChunk
<1> QED
  BY <1>1, <1>2, <1>3, <1>4, <1>5, <1>6, <1>7, <1>8, <1>9
  DEF CircleNext, FeederStep, PlayerStep

\* The invariant holds in every state either thread can bring the queue to.
THEOREM RingInvariant == CircleSpec => []RingInv
<1> QED
  BY RingInit, RingStep, PTL DEF CircleSpec

\* Type correctness of the queue; in particular the two indexes never leave
\* the chunks, and elems never passes the chunks by more than one.
THEOREM RingTypeCorrect == CircleSpec => []TypeOK
<1>1. RingInv => TypeOK
  BY DEF RingInv
<1> QED
  BY <1>1, RingInvariant, PTL

\* The counters of the queue agree for ever (srvq.h, _geti, _puti, _elems).
THEOREM RingStaysConsistent == CircleSpec => []RingConsistent
<1>1. RingInv => RingConsistent
  BY DEF RingInv
<1> QED
  BY <1>1, RingInvariant, PTL

\* No chunk stays locked without a thread that will release it.
THEOREM NoLockLeaks == CircleSpec => []LocksAreHeld
<1>1. RingInv => LocksAreHeld
  BY DEF RingInv
<1> QED
  BY <1>1, RingInvariant, PTL

\* The two threads never hold the same chunk: receiving a frame and playing
\* one, which happen outside the mutex, never touch the same memory.
THEOREM ThreadsNeverShareAChunk == CircleSpec => []NoSharedChunk
<1>1. RingInv => NoSharedChunk
  BY DEF RingInv
<1> QED
  BY <1>1, RingInvariant, PTL

-----------------------------------------------------------------------------
(***************************************************************************)
(* The player thread and the speaker.                                      *)
(***************************************************************************)

\* Every step of play() and _fill_q makes one call of Circle or none.
LEMMA PlayerStepIsCircleStep ==
    [PlayerNext]_playerVars => [CircleNext]_circleVars
<1> SUFFICES ASSUME [PlayerNext]_playerVars
             PROVE  [CircleNext]_circleVars
  OBVIOUS
<1>1. CASE PlayerLoop
  BY <1>1
  DEF PlayerLoop, LeavePlay, GoFill, GoTake, ReadOptim, LookEmpty, LookFull,
      TakeChunk, TakeNothing, PlayChunk, Report, CircleNext, PlayerStep
<1>2. CASE AnyFeeder
  BY <1>2 DEF AnyFeeder, CircleNext
<1>3. CASE CtrlC \/ UNCHANGED playerVars
  BY <1>3 DEF CtrlC, playerVars
<1> QED
  BY <1>1, <1>2, <1>3 DEF PlayerNext

\* The ring under the player thread is the ring of module Circle: what is
\* proved of CircleSpec holds while play() runs (cli/player.cpp:84-139).
THEOREM PlayerImplementsCircle == PlayerSpec => CircleSpec
<1>1. PlayerInit => CircleInit
  BY DEF PlayerInit
<1> QED
  BY <1>1, PlayerStepIsCircleStep, PTL DEF PlayerSpec, CircleSpec

\* The ring's invariant and the thread's.
PlayerInv == RingInv /\ PlayerTypeOK

\* It holds of the ring reserve() makes and of play() about to loop.
LEMMA PlayerInvInit == PlayerInit => PlayerInv
<1> SUFFICES ASSUME PlayerInit PROVE PlayerInv
  OBVIOUS
<1>1. RingInv
  BY RingInit DEF PlayerInit
<1>2. PlayerTypeOK
  BY <1>1, ChunksAssumption, AlmostEmptyAssumption
  DEF PlayerInit, CircleInit, PlayerTypeOK, RingInv, PlayerPcs, NoChunk
<1> QED
  BY <1>1, <1>2 DEF PlayerInv

\* Every step keeps the thread's type, and a chunk is held exactly while it
\* is played.
LEMMA PlayerInvStep == PlayerInv /\ [PlayerNext]_playerVars => PlayerInv'
<1> SUFFICES ASSUME PlayerInv, [PlayerNext]_playerVars PROVE PlayerInv'
  OBVIOUS
<1>1. RingInv'
  BY RingStep, PlayerStepIsCircleStep DEF PlayerInv
<1>2. TypeOK /\ TypeOK'
  BY <1>1 DEF PlayerInv, RingInv
<1>3. PlayerTypeOK'
  <2> USE <1>2 DEF PlayerInv, PlayerTypeOK, PlayerPcs
  <2>1. CASE LeavePlay \/ GoFill \/ GoTake \/ Report
    BY <2>1 DEF LeavePlay, GoFill, GoTake, Report, circleVars
  <2>2. CASE ReadOptim \/ LookEmpty \/ LookFull
    BY <2>2 DEF ReadOptim, LookEmpty, LookFull, circleVars, TypeOK
  <2>3. CASE TakeChunk
    <3>1. geti # NoChunk
      BY ChunksAssumption DEF TypeOK, Slot, NoChunk
    <3> QED
      BY <2>3, <3>1 DEF TakeChunk, QConsume
  <2>4. CASE TakeNothing
    BY <2>4 DEF TakeNothing, ConsumeNothing
  <2>5. CASE PlayChunk
    BY <2>5 DEF PlayChunk, ReleasePk
  <2>6. CASE AnyFeeder
    BY <2>6
    DEF AnyFeeder, FeederStep, QFeedup, Dummy, ReleaseChunk, Reset, ForceOptim,
        playerLocals
  <2>7. CASE CtrlC \/ UNCHANGED playerVars
    BY <2>7 DEF CtrlC, playerVars, circleVars, playerLocals
  <2> QED
    BY <2>1, <2>2, <2>3, <2>4, <2>5, <2>6, <2>7 DEF PlayerNext, PlayerLoop
<1> QED
  BY <1>1, <1>3 DEF PlayerInv

\* Type correctness of the player thread; in particular it holds a chunk
\* exactly while it plays it, whatever the network thread calls meanwhile.
THEOREM PlayerTypeCorrect == PlayerSpec => []PlayerTypeOK
<1>1. PlayerInv => PlayerTypeOK
  BY DEF PlayerInv
<1> QED
  BY <1>1, PlayerInvInit, PlayerInvStep, PTL DEF PlayerSpec

-----------------------------------------------------------------------------
\* Where the network thread holds a chunk.
Holding == {"hdr", "pay", "act", "force", "send", "release", "fail"}
\* It holds one exactly there.
NetHolds == npc \in Holding <=> chunk # NoChunk

\* It has a server left to try when it is about to.
LeftToTry == npc \in {"sleep", "dial"} => left >= 1

\* The level it has computed is one force_optim may be given.
RelevelsWithin == npc = "force" => optlen \in OptimLens

\* Numbers are those of frames received: none is made up.
Numbered ==
    /\ \A i \in Slot : /\ mem[i].seq <= next /\ mem[i].pay <= next
                       /\ mem[i].len => mem[i].seq >= 1
    /\ hdrseq <= next
    /\ heard \subseteq 1 .. next

\* The type of the chunks' contents.
MemType == [Slot -> [seq : 0 .. MaxFrames, len : BOOLEAN,
                     pay : Torn .. MaxFrames]]
USE DEF MemType

\* What holds in every state, whatever the frames carry.
SpeakerInv ==
    /\ PlayerInv /\ ClientTypeOK
    /\ NetHolds /\ LeftToTry /\ RelevelsWithin /\ Numbered

\* Every step of the speaker's threads is one of Player's, or none.
LEMMA ClientStepIsPlayerStep ==
    RelevelsWithin /\ [ClientNext]_clientVars => [PlayerNext]_playerVars
<1> SUFFICES ASSUME RelevelsWithin, [ClientNext]_clientVars
             PROVE  [PlayerNext]_playerVars
  OBVIOUS
<1> USE DEF others, playing
<1>1. CASE NetworkThread
  <2>1. CASE \/ TopOfMain \/ Dial \/ Connected \/ RefusedButConnected \/ DialFailed
             \/ LeaveGetData \/ RecvHeader \/ RecvPayload \/ HeaderCut \/ PayloadCut
             \/ IgnoreFrame \/ ComputeLevel \/ KeepLevel \/ SendReport
    BY <2>1
    DEF TopOfMain, Dial, Connected, RefusedButConnected, DialFailed,
        LeaveGetData, RecvHeader, RecvPayload, HeaderCut, PayloadCut,
        IgnoreFrame, ComputeLevel, KeepLevel, SendReport, playerVars
  <2>2. CASE TakeRoom \/ TakeScrap \/ ResetQueue \/ ReleaseFrame \/ FailFrame
    <3>1. (FeederStep \/ UNCHANGED circleVars) /\ UNCHANGED <<alive, playerLocals>>
      BY <2>2
      DEF TakeRoom, TakeScrap, ResetQueue, ReleaseFrame, FailFrame, FeederStep
    <3> QED
      BY <3>1 DEF PlayerNext, AnyFeeder, playerVars
  <2>3. CASE LevelPilot \/ LevelFollower
    <3>1. PilotLen \in OptimLens /\ (npc = "force" => optlen \in OptimLens)
      BY LensAssumption DEF RelevelsWithin
    <3> QED
      BY <2>3, <3>1
      DEF LevelPilot, LevelFollower, NetGoesTo, FeederStep, PlayerNext,
          AnyFeeder
  <2> QED
    BY <1>1, <2>1, <2>2, <2>3 DEF NetworkThread
<1>2. CASE PlayerThread
  BY <1>2
  DEF PlayerThread, PlayerMoves, PlayFrame, LeaveReport, PlayerNext, PlayerLoop
<1>3. CASE MainThread \/ Interrupt \/ ServerCloses
  BY <1>3
  DEF MainThread, CloseSocket, Join, Interrupt, ServerCloses, PlayerNext,
      playerVars
<1>4. CASE UNCHANGED clientVars
  BY <1>4 DEF clientVars
<1> QED
  BY <1>1, <1>2, <1>3, <1>4 DEF ClientNext

\* It holds before any thread has run.
LEMMA SpeakerInvInit == ClientInit => SpeakerInv
<1> SUFFICES ASSUME ClientInit PROVE SpeakerInv
  OBVIOUS
<1>1. PlayerInv
  BY PlayerInvInit DEF ClientInit
<1>2. ClientTypeOK
  <2>1. mem \in MemType
    BY ClientBounds DEF ClientInit, Torn
  <2>2. qos \in [waiting : BOOLEAN, seq : 0 .. MaxFrames] /\ 0 \in 0 .. MaxFrames
    BY ClientBounds DEF ClientInit
  <2>3. left \in 0 .. Servers
    BY ClientBounds DEF ClientInit
  <2>4. npc \in NetPcs /\ mpc \in {"play", "join", "exit"}
    BY DEF ClientInit, NetPcs
  <2>5. /\ open \in BOOLEAN /\ overfilled \in BOOLEAN
        /\ link \in {"none", "up", "gone"}
    BY DEF ClientInit
  <2>6. /\ next \in 0 .. MaxFrames /\ hdrseq \in 0 .. MaxFrames
        /\ reported \in 0 .. MaxFrames /\ cuts \in 0 .. MaxCuts
        /\ plays \in Nat /\ damaged \in Nat /\ optlen \in Int
    BY ClientBounds DEF ClientInit
  <2>7. heard \subseteq 1 .. MaxFrames /\ hdr \in Headers \union {NoHeader}
    BY DEF ClientInit
  <2> QED
    BY <2>1, <2>2, <2>3, <2>4, <2>5, <2>6, <2>7 DEF ClientTypeOK
<1>3. NetHolds /\ LeftToTry /\ RelevelsWithin
  BY DEF ClientInit, PlayerInit, CircleInit, NetHolds, LeftToTry,
         RelevelsWithin, Holding
<1>4. Numbered
  BY DEF ClientInit, Numbered
<1> QED
  BY <1>1, <1>2, <1>3, <1>4 DEF SpeakerInv

\* The steps that touch what is in the chunks or what the listener heard.
LEMMA QuietSteps ==
    [ClientNext]_clientVars =>
        \/ RecvHeader \/ RecvPayload \/ HeaderCut \/ PayloadCut \/ PlayFrame
        \/ UNCHANGED <<data, hdrseq, listened>>
<1> SUFFICES ASSUME [ClientNext]_clientVars,
                    ~(\/ RecvHeader \/ RecvPayload \/ HeaderCut
                      \/ PayloadCut \/ PlayFrame)
             PROVE  UNCHANGED <<data, hdrseq, listened>>
  OBVIOUS
<1> USE DEF data, others, playing, elsewhere
<1>1. CASE NetworkThread
  BY <1>1
  DEF NetworkThread, TopOfMain, Dial, Connected, RefusedButConnected,
      DialFailed, LeaveGetData, TakeRoom, TakeScrap, IgnoreFrame, ResetQueue,
      LevelPilot, ComputeLevel, LevelFollower, KeepLevel, SendReport,
      ReleaseFrame, FailFrame
<1>2. CASE PlayerThread \/ MainThread
  BY <1>2
  DEF PlayerThread, PlayerMoves, LeaveReport, MainThread, CloseSocket, Join
<1>3. CASE Interrupt \/ ServerCloses
  BY <1>3 DEF Interrupt, ServerCloses
<1>4. CASE UNCHANGED clientVars
  BY <1>4 DEF clientVars
<1> QED
  BY <1>1, <1>2, <1>3, <1>4 DEF ClientNext

\* The chunks keep their type, and numbers are given out by RecvHeader and
\* HeaderCut only, one above the last.
LEMMA NumberedStep ==
    SpeakerInv /\ [ClientNext]_clientVars => Numbered' /\ mem' \in MemType
<1> SUFFICES ASSUME SpeakerInv, [ClientNext]_clientVars
             PROVE  Numbered' /\ mem' \in MemType
  OBVIOUS
<1>0. /\ chunk \in Slot \union {NoChunk, Scrap}
      /\ ppc = "play" => pk \in Slot
      /\ next \in 0 .. MaxFrames /\ hdrseq \in 0 .. MaxFrames /\ MaxFrames \in Nat
      /\ mem \in MemType
  BY ClientBounds DEF SpeakerInv, PlayerInv, PlayerTypeOK, TypeOK, ClientTypeOK
<1>x. chunk # NoChunk => npc \in Holding
  BY DEF SpeakerInv, NetHolds
<1>y. npc \in Holding => chunk # NoChunk
  BY DEF SpeakerInv, NetHolds
<1>n. Numbered
  BY DEF SpeakerInv
<1> USE <1>0 DEF others, playing, elsewhere, NetGoesTo, listened, Torn
<1>1. CASE RecvHeader
  <2>1. /\ next' = next + 1 /\ next' \in 0 .. MaxFrames
        /\ UNCHANGED <<hdrseq, heard>>
    BY <1>1 DEF RecvHeader
  <2>2. CASE chunk = Scrap
    BY <1>1, <1>n, <2>1, <2>2 DEF RecvHeader, Numbered
  <2>3. CASE chunk # Scrap
    <3>1. chunk \in Slot
      BY <1>1, <1>y, <2>3 DEF RecvHeader, Holding
    <3>2. mem' = [mem EXCEPT ![chunk] = [@ EXCEPT !.seq = next + 1, !.len = TRUE]]
      BY <1>1, <2>3 DEF RecvHeader
    <3>3. /\ mem'[chunk].seq = next + 1 /\ mem'[chunk].pay = mem[chunk].pay
          /\ \A i \in Slot \ {chunk} : mem'[i] = mem[i]
          /\ mem' \in MemType
      BY <2>1, <3>1, <3>2
    <3> QED
      BY <1>n, <2>1, <3>1, <3>3 DEF Numbered
  <2> QED
    BY <2>2, <2>3
<1>2. CASE RecvPayload
   BY <1>2, <1>y, <1>n DEF RecvPayload, Numbered, Holding
<1>3. CASE HeaderCut
   BY <1>3, <1>y, <1>n DEF HeaderCut, Numbered, Holding
<1>4. CASE PayloadCut
   BY <1>4, <1>y, <1>n DEF PayloadCut, Numbered, Holding
<1>5. CASE PlayFrame
  <2>1. pk \in Slot
    BY <1>5 DEF PlayFrame, PlayChunk
  <2>2. /\ mem' = [mem EXCEPT ![pk].len = FALSE]
        /\ next' = next /\ hdrseq' = mem[pk].seq
    BY <1>5 DEF PlayFrame
  <2>3. \/ heard' = heard
        \/ /\ heard' = heard \union {mem[pk].pay}
           /\ mem[pk].len /\ mem[pk].pay = mem[pk].seq
    BY <1>5 DEF PlayFrame
  <2>4. /\ mem'[pk].seq = mem[pk].seq /\ mem'[pk].pay = mem[pk].pay /\ ~mem'[pk].len
        /\ \A i \in Slot \ {pk} : mem'[i] = mem[i]
        /\ mem' \in MemType
    BY <2>1, <2>2
  <2>5. mem[pk].seq <= next /\ (mem[pk].len => mem[pk].seq \in 1 .. next)
    BY <2>1, <1>n DEF Numbered
  <2>6. heard' \subseteq 1 .. next' /\ hdrseq' <= next'
    BY <2>2, <2>3, <2>5, <1>n DEF Numbered
  <2> QED
    BY <2>1, <2>2, <2>4, <2>6, <1>n DEF Numbered
<1>6. CASE UNCHANGED <<data, hdrseq, listened>>
   BY <1>6, <1>n DEF Numbered, data
<1> QED
   BY <1>1, <1>2, <1>3, <1>4, <1>5, <1>6, QuietSteps

\* Where the thread goes, and what it takes along.
LEMMA ControlStep ==
    SpeakerInv /\ [ClientNext]_clientVars =>
        (NetHolds /\ LeftToTry /\ RelevelsWithin)'
<1> SUFFICES ASSUME SpeakerInv, [ClientNext]_clientVars
             PROVE  (NetHolds /\ LeftToTry /\ RelevelsWithin)'
  OBVIOUS
<1>0. /\ npc \in NetPcs /\ left \in 0 .. Servers /\ Servers \in Nat \ {0}
      /\ NetHolds /\ LeftToTry /\ RelevelsWithin
  BY ClientBounds DEF SpeakerInv, ClientTypeOK
<1> USE <1>0 DEF others, playing, elsewhere, NetGoesTo, NetHolds, LeftToTry,
                 RelevelsWithin, Holding
<1>1. CASE \/ TopOfMain \/ Dial \/ Connected \/ RefusedButConnected
           \/ DialFailed \/ LeaveGetData
  BY <1>1
  DEF TopOfMain, Dial, Connected, RefusedButConnected, DialFailed,
      LeaveGetData, circleVars, locals
<1>2. CASE TakeRoom \/ TakeScrap
  <2>1. puti # NoChunk /\ Scrap # NoChunk
    BY ChunksAssumption
    DEF SpeakerInv, PlayerInv, PlayerTypeOK, TypeOK, Slot, NoChunk, Scrap
  <2> QED
    BY <1>2, <2>1 DEF TakeRoom, TakeScrap, QFeedup, Dummy, locals
<1>3. CASE RecvHeader \/ RecvPayload \/ HeaderCut \/ PayloadCut
  BY <1>3
  DEF RecvHeader, RecvPayload, HeaderCut, PayloadCut, AfterFailure, circleVars,
      locals
<1>4. CASE IgnoreFrame \/ KeepLevel \/ SendReport
  BY <1>4 DEF IgnoreFrame, KeepLevel, SendReport, circleVars, locals
<1>5. CASE ResetQueue \/ LevelPilot \/ LevelFollower
  BY <1>5 DEF ResetQueue, LevelPilot, LevelFollower, Reset, ForceOptim, locals
<1>6. CASE ComputeLevel
  <2>1. hdr \in Headers /\ elems \in 0 .. Chunks + 1
    BY <1>6
    DEF ComputeLevel, SpeakerInv, ClientTypeOK, NoHeader, PlayerInv,
        PlayerTypeOK, TypeOK
  <2>2. elems - hdr.lag > MinOptim
    BY <1>6 DEF ComputeLevel, MayRelevel
  <2>3. elems - hdr.lag \in OptimLens
    BY <2>1, <2>2, LensAssumption
  <2> QED
    BY <1>6, <2>3 DEF ComputeLevel, circleVars
<1>7. CASE ReleaseFrame \/ FailFrame
  BY <1>7 DEF ReleaseFrame, FailFrame, ReleaseChunk
<1>8. CASE PlayerThread
  BY <1>8
  DEF PlayerThread, PlayerMoves, PlayFrame, LeaveReport, LeavePlay, GoFill,
      GoTake, ReadOptim, LookEmpty, LookFull, TakeChunk, TakeNothing, QConsume,
      ConsumeNothing, PlayChunk, ReleasePk, Report, circleVars, locals
<1>9. CASE MainThread \/ Interrupt \/ ServerCloses
  BY <1>9
  DEF MainThread, CloseSocket, Join, Interrupt, CtrlC, ServerCloses,
      circleVars, locals
<1>10. CASE UNCHANGED clientVars
  BY <1>10 DEF clientVars, playerVars, circleVars, locals
<1> QED
  BY <1>1, <1>2, <1>3, <1>4, <1>5, <1>6, <1>7, <1>8, <1>9, <1>10
  DEF ClientNext, NetworkThread

\* Every step keeps the type.
LEMMA TypeStep == SpeakerInv /\ [ClientNext]_clientVars => ClientTypeOK'
<1> SUFFICES ASSUME SpeakerInv, [ClientNext]_clientVars
             PROVE  ClientTypeOK'
  OBVIOUS
<1>0. ClientTypeOK /\ MaxFrames \in Nat /\ MaxCuts \in Nat /\ Servers \in Nat \ {0}
  BY ClientBounds DEF SpeakerInv
<1> USE DEF others, playing, elsewhere, locals, conn, data, logs, listened
<1>1. mem' \in MemType /\ Numbered'
  BY NumberedStep
<1>2. /\ next' \in 0 .. MaxFrames /\ plays' \in Nat /\ damaged' \in Nat
      /\ hdrseq' \in 0 .. MaxFrames
  <2>1. CASE PlayFrame
    <3>1. mem[pk].seq \in 0 .. MaxFrames
      BY <1>0, <2>1
      DEF PlayFrame, PlayChunk, SpeakerInv, PlayerInv, PlayerTypeOK, TypeOK,
          ClientTypeOK
    <3> QED
      BY <1>0, <2>1, <3>1 DEF PlayFrame, ClientTypeOK
  <2>2. CASE RecvHeader \/ RecvPayload \/ HeaderCut \/ PayloadCut
    BY <1>0, <2>2
    DEF RecvHeader, RecvPayload, HeaderCut, PayloadCut, ClientTypeOK
  <2>3. CASE UNCHANGED <<data, hdrseq, listened>>
    BY <1>0, <2>3 DEF ClientTypeOK
  <2> QED
    BY <2>1, <2>2, <2>3, QuietSteps
<1>3. heard' \subseteq 1 .. MaxFrames
  BY <1>0, <1>1, <1>2 DEF Numbered
<1>4. npc' \in NetPcs /\ mpc' \in {"play", "join", "exit"}
  BY <1>0
  DEF ClientTypeOK, NetPcs, ClientNext, NetworkThread, NetGoesTo, TopOfMain,
      Dial, Connected, RefusedButConnected, DialFailed, LeaveGetData, TakeRoom,
      TakeScrap, RecvHeader, RecvPayload, HeaderCut, PayloadCut, AfterFailure,
      IgnoreFrame, ResetQueue, LevelPilot, ComputeLevel, LevelFollower,
      KeepLevel, SendReport, ReleaseFrame, FailFrame, PlayerThread,
      PlayerMoves, PlayFrame, LeaveReport, MainThread, CloseSocket, Join,
      Interrupt, ServerCloses, clientVars
<1>5. open' \in BOOLEAN /\ link' \in {"none", "up", "gone"}
  BY <1>0
  DEF ClientTypeOK, ClientNext, NetworkThread, NetGoesTo, TopOfMain, Dial,
      Connected, RefusedButConnected, DialFailed, LeaveGetData, TakeRoom,
      TakeScrap, RecvHeader, RecvPayload, LastReceive, HeaderCut, PayloadCut,
      IgnoreFrame, ResetQueue, LevelPilot, ComputeLevel, LevelFollower,
      KeepLevel, SendReport, ReleaseFrame, FailFrame, PlayerThread, PlayerMoves,
      PlayFrame, LeaveReport, MainThread, CloseSocket, Join, Interrupt,
      ServerCloses, clientVars
<1> DEFINE Locals ==
      /\ left \in 0 .. Servers /\ cuts \in 0 .. MaxCuts /\ overfilled \in BOOLEAN
      /\ hdr \in Headers \union {NoHeader} /\ optlen \in Int
      /\ qos \in [waiting : BOOLEAN, seq : 0 .. MaxFrames]
      /\ reported \in 0 .. MaxFrames
<1>6. Locals'
  <2>0. Locals /\ LeftToTry
    BY <1>0 DEF ClientTypeOK, SpeakerInv
  <2> USE DEF NetGoesTo
  <2>1. CASE TopOfMain \/ DialFailed
    BY <1>0, <2>0, <2>1 DEF TopOfMain, DialFailed, LeftToTry
  <2>2. CASE RefusedButConnected \/ ServerCloses
    BY <1>0, <2>0, <2>2 DEF RefusedButConnected, ServerCloses
  <2>3. CASE RecvHeader \/ ReleaseFrame \/ FailFrame \/ TakeRoom
    BY <2>0, <2>3 DEF RecvHeader, ReleaseFrame, FailFrame, TakeRoom
  <2>4. CASE ComputeLevel \/ LevelFollower
    <3>1. NoHeader.lag = 0 /\ elems \in Int
      BY ChunksAssumption
      DEF NoHeader, SpeakerInv, PlayerInv, PlayerTypeOK, TypeOK
    <3>2. hdr.lag \in Int
      BY <2>0, <3>1, HeadersAssumption DEF HeaderType
    <3>3. optlen' \in Int
      BY <2>4, <3>1, <3>2 DEF ComputeLevel, LevelFollower
    <3> QED
      BY <2>0, <2>4, <3>3 DEF ComputeLevel, LevelFollower
  <2>5. CASE SendReport \/ LeaveReport
    <3>1. hdrseq \in 0 .. MaxFrames
      BY <1>0 DEF ClientTypeOK
    <3>2. qos' \in [waiting : BOOLEAN, seq : 0 .. MaxFrames]
      <4>1. CASE SendReport
        BY <2>0, <4>1 DEF SendReport
      <4>2. CASE LeaveReport
        BY <3>1, <4>2 DEF LeaveReport
      <4> QED
        BY <2>5, <4>1, <4>2
    <3>3. reported' \in 0 .. MaxFrames
      BY <2>0, <2>5 DEF SendReport, LeaveReport
    <3> QED
      BY <2>0, <2>5, <3>2, <3>3 DEF SendReport, LeaveReport
  <2>6. CASE \/ Dial \/ Connected \/ LeaveGetData \/ TakeScrap \/ RecvPayload
             \/ HeaderCut \/ PayloadCut \/ IgnoreFrame \/ ResetQueue \/ LevelPilot
             \/ KeepLevel
    BY <2>0, <2>6
    DEF Dial, Connected, LeaveGetData, TakeScrap, RecvPayload, HeaderCut,
        PayloadCut, IgnoreFrame, ResetQueue, LevelPilot, KeepLevel
  <2>7. CASE PlayerMoves \/ PlayFrame \/ MainThread \/ Interrupt
    BY <2>0, <2>7
    DEF PlayerMoves, PlayFrame, MainThread, CloseSocket, Join, Interrupt
  <2>8. CASE UNCHANGED clientVars
    BY <2>0, <2>8 DEF clientVars
  <2> QED
    BY <2>1, <2>2, <2>3, <2>4, <2>5, <2>6, <2>7, <2>8
    DEF ClientNext, NetworkThread, PlayerThread
<1> QED
  BY <1>1, <1>2, <1>3, <1>4, <1>5, <1>6 DEF ClientTypeOK

\* The parts together: the ring's part is a step of Player's.
LEMMA SpeakerInvStep == SpeakerInv /\ [ClientNext]_clientVars => SpeakerInv'
<1>1. SpeakerInv /\ [ClientNext]_clientVars => PlayerInv'
  BY ClientStepIsPlayerStep, PlayerInvStep DEF SpeakerInv
<1> QED
  BY <1>1, TypeStep, ControlStep, NumberedStep DEF SpeakerInv

\* So SpeakerInv is an invariant.
LEMMA SpeakerInvariant == ClientSpec => []SpeakerInv
<1> QED
  BY SpeakerInvInit, SpeakerInvStep, PTL DEF ClientSpec

\* Type correctness of the speaker: every number in a header, a payload, a
\* report or a history is that of a frame sent, and left, optlen and the rest
\* stay in range, for any Chunks, Headers, Servers and bounds (cli/sclient.cpp,
\* _tmain to update_frame).
THEOREM ClientTypeCorrect == ClientSpec => []ClientTypeOK
<1>1. SpeakerInv => ClientTypeOK
  BY DEF SpeakerInv
<1> QED
  BY <1>1, SpeakerInvariant, PTL

\* The speaker's threads together do to play() and its queue only what Player
\* says a network thread may do: nothing _get_data, _check_stream or ~sclient
\* calls escapes the interface of Circle (cli/sclient.cpp:87-203).
THEOREM ClientImplementsPlayer == ClientSpec => PlayerSpec
<1>1. ClientInit => PlayerInit
  BY DEF ClientInit
<1>2. SpeakerInv /\ [ClientNext]_clientVars => [PlayerNext]_playerVars
  BY ClientStepIsPlayerStep DEF SpeakerInv
<1> QED
  BY <1>1, <1>2, SpeakerInvariant, PTL DEF ClientSpec, PlayerSpec

\* So every invariant of the ring holds in the whole speaker, whose network
\* thread breaks off, drops, re-levels and resets at its own points.
THEOREM ClientImplementsCircle == ClientSpec => CircleSpec
<1> QED
  BY ClientImplementsPlayer, PlayerImplementsCircle, PTL
-----------------------------------------------------------------------------

\* Where the network thread works on a connection.
Receiving == {"select", "hdr", "pay", "act", "force", "send", "release"}

\* The main thread goes on only when play() has returned.
MainFollows == mpc # "play" => ppc = "done"

\* The network thread receives only on a socket that is open, and a payload
\* only on a connection that was made, until the main thread closes it.
LinkOK ==
    mpc = "play" =>
        /\ npc \in {"hdr", "pay"} => open
        /\ npc = "pay" => link # "none"

\* The payload awaited is that of the newest frame, which is nowhere yet.
ReceivesNext ==
    npc = "pay" =>
        /\ chunk # Scrap => mem[chunk].seq = next /\ mem[chunk].len
        /\ next \notin heard
        /\ \A i \in Slot : mem[i].pay # next

\* A chunk that would be played, and with the sound its header names.
Whole(i) == mem[i].len /\ mem[i].pay = mem[i].seq

\* No frame that would be played was heard, and no two are the same.
Unheard ==
    \A i \in Slot : Whole(i) =>
        /\ mem[i].pay \notin heard
        /\ \A j \in Slot \ {i} : Whole(j) => mem[j].pay # mem[i].pay

\* The chunks that would be played with another frame's sound, leaving out
\* the one that is being filled.
Mixed ==
    {i \in Slot : /\ mem[i].len /\ mem[i].pay # mem[i].seq
                  /\ ~(npc = "pay" /\ chunk = i)}

\* A connection that is gone and not yet given up may still tear one chunk.
Credit == IF link = "gone" /\ npc # "fail" THEN 1 ELSE 0

\* Every damage done or to be done was paid for by a cut.
Paid == mpc = "play" => damaged + Cardinality(Mixed) + Credit <= cuts

\* What the promise to the listener rests on.
ListenInv ==
    SpeakerInv /\ MainFollows /\ LinkOK /\ ReceivesNext /\ Unheard /\ Paid

\* The main thread and the connection.
LEMMA LinkStep ==
    SpeakerInv /\ MainFollows /\ LinkOK /\ [ClientNext]_clientVars =>
        MainFollows' /\ LinkOK'
<1> SUFFICES ASSUME SpeakerInv, MainFollows, LinkOK, [ClientNext]_clientVars
             PROVE MainFollows' /\ LinkOK'
  OBVIOUS
<1> USE DEF others, playing, elsewhere, locals, conn, data, logs, listened,
            NetGoesTo, playerLocals, MainFollows, LinkOK
<1>1. CASE NetworkThread
  BY <1>1
  DEF NetworkThread, TopOfMain, Dial, Connected, RefusedButConnected,
      DialFailed, LeaveGetData, TakeRoom, Readable, TakeScrap, RecvHeader,
      RecvPayload, LastReceive, HeaderCut, PayloadCut, AfterFailure,
      IgnoreFrame, ResetQueue, LevelPilot, ComputeLevel, LevelFollower, KeepLevel, SendReport, ReleaseFrame,
      FailFrame
<1>2. CASE PlayerThread
  BY <1>2
  DEF PlayerThread, PlayerMoves, PlayFrame, LeaveReport, LeavePlay, GoFill,
      GoTake, ReadOptim, LookEmpty, LookFull, TakeChunk, TakeNothing,
      PlayChunk, Report
<1>3. CASE MainThread \/ Interrupt \/ ServerCloses
  BY <1>3 DEF MainThread, CloseSocket, Join, Interrupt, CtrlC, ServerCloses
<1>4. CASE UNCHANGED clientVars
  BY <1>4 DEF clientVars, playerVars
<1> QED
  BY <1>1, <1>2, <1>3, <1>4 DEF ClientNext

\* RecvHeader numbers the awaited payload; the player thread plays another
\* chunk meanwhile.
LEMMA ReceivesStep ==
   SpeakerInv /\ ReceivesNext /\ [ClientNext]_clientVars => ReceivesNext'
<1> SUFFICES ASSUME SpeakerInv, ReceivesNext, [ClientNext]_clientVars, npc' = "pay"
             PROVE /\ chunk' # Scrap => mem'[chunk'].seq = next' /\ mem'[chunk'].len
                   /\ next' \notin heard'
                   /\ \A i \in Slot : mem'[i].pay # next'
  BY DEF ReceivesNext
<1>0. /\ chunk \in Slot \union {NoChunk, Scrap}
      /\ npc \in Holding => chunk # NoChunk
      /\ next \in Nat /\ NoChunk # Scrap
      /\ mem \in MemType
      /\ \A i \in Slot : mem[i].pay <= next
      /\ heard \subseteq 1 .. next
  BY ClientBounds
  DEF SpeakerInv, PlayerInv, PlayerTypeOK, TypeOK, ClientTypeOK, NetHolds,
      Numbered, NoChunk, Scrap
<1>1. CASE RecvHeader
  <2>1. next' = next + 1 /\ heard' = heard /\ chunk' = chunk /\ chunk # NoChunk
    BY <1>0, <1>1
    DEF RecvHeader, others, playing, listened, circleVars, NetGoesTo, Holding
  <2>2. \A i \in Slot : mem'[i].pay = mem[i].pay
    BY <1>0, <1>1 DEF RecvHeader
  <2>3. chunk # Scrap => mem'[chunk].seq = next + 1 /\ mem'[chunk].len
    BY <1>0, <1>1, <2>1 DEF RecvHeader
  <2> QED
    BY <1>0, <2>1, <2>2, <2>3 DEF Torn
<1>2. CASE npc = "pay" /\ UNCHANGED <<mem, next, heard, chunk>>
  BY <1>2 DEF ReceivesNext
<1>3. CASE PlayFrame
  <2>1. npc = "pay" /\ UNCHANGED <<next, chunk>> /\ pk \in Slot /\ pk # chunk
    BY <1>3
    DEF PlayFrame, PlayChunk, ReleasePk, elsewhere, SpeakerInv, PlayerInv,
        PlayerTypeOK, TypeOK, RingInv, NoSharedChunk
  <2>2. /\ \A i \in Slot : mem'[i].pay = mem[i].pay
        /\ \A i \in Slot \ {pk} : mem'[i] = mem[i]
    BY <1>0, <1>3 DEF PlayFrame
  <2>3. heard' = heard \/ heard' = heard \union {mem[pk].pay}
    BY <1>3 DEF PlayFrame
  <2> QED
    BY <1>0, <2>1, <2>2, <2>3 DEF ReceivesNext, Holding
<1>4. CASE NetworkThread /\ ~RecvHeader
  BY <1>4
  DEF NetworkThread, TopOfMain, Dial, NetGoesTo, Connected,
      RefusedButConnected, DialFailed, LeaveGetData, TakeRoom, TakeScrap,
      RecvPayload, HeaderCut, PayloadCut, AfterFailure, IgnoreFrame,
      ResetQueue, LevelPilot, ComputeLevel, LevelFollower, KeepLevel,
      SendReport, ReleaseFrame, FailFrame
<1>5. CASE PlayerMoves \/ LeaveReport \/ MainThread \/ Interrupt \/ ServerCloses
  <2>1. npc = "pay" /\ UNCHANGED <<mem, next, heard, chunk>>
    BY <1>5
    DEF PlayerMoves, LeaveReport, LeavePlay, GoFill, GoTake, ReadOptim,
        LookEmpty, LookFull, TakeChunk, TakeNothing, QConsume, ConsumeNothing,
        Report, MainThread, CloseSocket, Join, Interrupt, CtrlC, ServerCloses,
        elsewhere, others, playing, data, listened, circleVars
  <2> QED
    BY <1>2, <2>1
<1>6. CASE UNCHANGED clientVars
  BY <1>2, <1>6 DEF clientVars, playerVars, circleVars, data, listened
<1> QED
  BY <1>1, <1>3, <1>4, <1>5, <1>6 DEF ClientNext, PlayerThread

\* What the steps below need of SpeakerInv.
LEMMA SpeakerFacts ==
    ASSUME SpeakerInv
    PROVE  /\ mem \in MemType
           /\ next \in Nat /\ hdrseq \in Nat /\ cuts \in Nat /\ damaged \in Nat
           /\ chunk \in Slot \union {NoChunk, Scrap}
           /\ npc \in Holding => chunk # NoChunk
           /\ ppc = "play" => pk \in Slot /\ pk # chunk
           /\ \A i \in Slot : /\ mem[i].seq <= next /\ mem[i].pay <= next
                              /\ mem[i].len => mem[i].seq >= 1
           /\ heard \subseteq 1 .. next
<1> QED
  BY ClientBounds
  DEF SpeakerInv, PlayerInv, PlayerTypeOK, RingInv, TypeOK, NoSharedChunk,
      ClientTypeOK, NetHolds, Numbered

\* A chunk becomes whole only when its payload, which nobody has, arrives;
\* playing it clears buf_len before it counts as heard (player.cpp:68-118).
LEMMA UnheardStep ==
    SpeakerInv /\ ReceivesNext /\ Unheard /\ [ClientNext]_clientVars => Unheard'
<1> SUFFICES ASSUME SpeakerInv, ReceivesNext, Unheard, [ClientNext]_clientVars
             PROVE  Unheard'
  OBVIOUS
<1> USE SpeakerFacts
<1>1. CASE RecvHeader
  <2>1. /\ chunk # NoChunk /\ heard' = heard /\ next \in Nat
        /\ \A i \in Slot : mem'[i].pay = mem[i].pay
        /\ \A i \in Slot \ {chunk} : mem'[i] = mem[i]
    BY <1>1 DEF RecvHeader, NetGoesTo, Holding, others, playing, listened
  <2>2. chunk \in Slot => mem'[chunk].seq = next + 1
    BY <1>1 DEF RecvHeader, Slot, Scrap
  <2>3. \A i \in Slot : Whole(i)' => Whole(i) /\ mem'[i] = mem[i]
    BY <2>1, <2>2 DEF Whole
  <2> QED
    BY <2>1, <2>3 DEF Unheard
<1>2. CASE RecvPayload
  <2>1. npc = "pay" /\ chunk # NoChunk /\ heard' = heard
    BY <1>2 DEF RecvPayload, Holding, others, playing, listened
  <2>2. CASE chunk = Scrap
    BY <1>2, <2>1, <2>2 DEF RecvPayload, Unheard, Whole
  <2>3. CASE chunk # Scrap
    <3>1. /\ mem'[chunk].pay = next
          /\ \A i \in Slot \ {chunk} : mem'[i] = mem[i] /\ mem[i].pay # next
          /\ next \notin heard
      BY <1>2, <2>1, <2>3 DEF RecvPayload, ReceivesNext
    <3> QED
      BY <2>1, <3>1 DEF Unheard, Whole
  <2> QED
    BY <2>2, <2>3
<1>3. CASE HeaderCut
  <2>1. heard' = heard
    BY <1>3 DEF HeaderCut, others, playing, listened
  <2>2. CASE mem' = mem
    BY <2>1, <2>2 DEF Unheard, Whole
  <2>3. CASE chunk # Scrap /\ mem' = [mem EXCEPT ![chunk].seq = next + 1]
    <3>1. /\ \A i \in Slot : mem'[i].pay = mem[i].pay
          /\ \A i \in Slot \ {chunk} : mem'[i] = mem[i]
          /\ chunk \in Slot => mem'[chunk].seq = next + 1
      BY <2>3
    <3>2. \A i \in Slot : Whole(i)' => Whole(i) /\ mem'[i] = mem[i]
      BY <3>1 DEF Whole
    <3> QED
      BY <2>1, <3>2 DEF Unheard
  <2> QED
    BY <1>3, <2>2, <2>3 DEF HeaderCut
<1>4. CASE PayloadCut
  <2>1. heard' = heard
    BY <1>4 DEF PayloadCut, others, playing, listened
  <2>2. CASE mem' = mem
    BY <2>1, <2>2 DEF Unheard, Whole
  <2>3. CASE mem' = [mem EXCEPT ![chunk].pay = Torn]
    <3>1. /\ \A i \in Slot \ {chunk} : mem'[i] = mem[i]
          /\ \A i \in Slot : mem'[i].seq = mem[i].seq /\ mem'[i].len = mem[i].len
          /\ chunk \in Slot => mem'[chunk].pay = Torn
      BY <2>3
    <3>2. \A i \in Slot : Whole(i)' => Whole(i) /\ mem'[i] = mem[i]
      BY <3>1 DEF Whole, Torn
    <3> QED
      BY <2>1, <3>2 DEF Unheard
  <2> QED
    BY <1>4, <2>2, <2>3 DEF PayloadCut
<1>5. CASE PlayFrame
  <2>1. pk \in Slot
    BY <1>5 DEF PlayFrame, PlayChunk
  <2>2. ~mem'[pk].len /\ \A i \in Slot \ {pk} : mem'[i] = mem[i]
    BY <1>5, <2>1 DEF PlayFrame
  <2>3. \/ heard' = heard
        \/ heard' = heard \union {mem[pk].pay} /\ Whole(pk)
    BY <1>5 DEF PlayFrame, Whole
  <2>4. \A i \in Slot : Whole(i)' => Whole(i) /\ mem'[i] = mem[i] /\ i # pk
    BY <2>2 DEF Whole
  <2> QED
    BY <2>1, <2>3, <2>4 DEF Unheard
<1>6. CASE UNCHANGED <<data, hdrseq, listened>>
  BY <1>6 DEF Unheard, Whole, data, listened
<1> QED
  BY <1>1, <1>2, <1>3, <1>4, <1>5, <1>6, QuietSteps

\* The mixed chunks can be counted.
LEMMA MixedIsFinite ==
    IsFiniteSet(Mixed) /\ Cardinality(Mixed) \in Nat
<1>1. IsFiniteSet(Slot) /\ Mixed \subseteq Slot
  BY FS_Interval, ChunksAssumption DEF Slot, Mixed
<1> QED
  BY <1>1, FS_Subset, FS_CardinalityType

\* How the count follows when one chunk comes or goes.
LEMMA MixedGrows ==
    ASSUME NEW x, Mixed' \subseteq Mixed \union {x}
    PROVE  /\ Cardinality(Mixed)' \in Nat
           /\ Cardinality(Mixed)' <= Cardinality(Mixed) + 1
           /\ Mixed' \subseteq Mixed =>
                  Cardinality(Mixed)' <= Cardinality(Mixed)
           /\ Mixed' \subseteq Mixed \ {x} /\ x \in Mixed =>
                  Cardinality(Mixed)' <= Cardinality(Mixed) - 1
<1>1. /\ IsFiniteSet(Mixed) /\ Cardinality(Mixed) \in Nat
  BY MixedIsFinite
<1> DEFINE M == Mixed  N == Mixed'
<1>3. N \subseteq M \union {x} /\ IsFiniteSet(M) /\ Cardinality(M) \in Nat
  BY <1>1
<1> HIDE DEF M, N
<1>2. /\ IsFiniteSet(M \union {x})
      /\ Cardinality(M \union {x}) <= Cardinality(M) + 1
      /\ IsFiniteSet(M \ {x})
      /\ x \in M => Cardinality(M \ {x}) = Cardinality(M) - 1
  <2>1. /\ IsFiniteSet(M \union {x})
        /\ Cardinality(M \union {x}) =
               IF x \in M THEN Cardinality(M) ELSE Cardinality(M) + 1
    BY <1>3, FS_AddElement
  <2>2. /\ IsFiniteSet(M \ {x})
        /\ Cardinality(M \ {x}) =
               IF x \in M THEN Cardinality(M) - 1 ELSE Cardinality(M)
    BY <1>3, FS_RemoveElement
  <2> QED
    BY <1>3, <2>1, <2>2
<1>4. IsFiniteSet(N) /\ Cardinality(N) \in Nat
  BY <1>2, <1>3, FS_Subset, FS_CardinalityType
<1>5. Cardinality(N) <= Cardinality(M) + 1
  <2>1. Cardinality(N) <= Cardinality(M \union {x})
    BY <1>2, <1>3, FS_Subset
  <2>2. Cardinality(M \union {x}) \in Nat
    BY <1>2, FS_CardinalityType
  <2> QED
    BY <1>2, <1>3, <1>4, <2>1, <2>2
<1>6. N \subseteq M => Cardinality(N) <= Cardinality(M)
  BY <1>3, FS_Subset
<1>7. N \subseteq M \ {x} /\ x \in M => Cardinality(N) <= Cardinality(M) - 1
  BY <1>2, FS_Subset
<1> QED
  BY <1>4, <1>5, <1>6, <1>7 DEF M, N

\* A cut pays for the credit it gives.
LEMMA CutPays ==
    ASSUME NEW a \in Int, NEW b \in Int, NEW m \in Int, NEW n \in Int,
           0 <= a, b <= 1, n >= m + 1
    PROVE  b - a <= n - m
  OBVIOUS

\* The same for the books: damage done, chunks mixed and credit against cuts.
LEMMA StillPaid ==
    ASSUME NEW d \in Int, NEW m \in Int, NEW a \in Int, NEW c \in Int,
           NEW dd \in Int, NEW mm \in Int, NEW aa \in Int, NEW cc \in Int,
           d + m + a <= c,
           \/ dd = d /\ mm = m /\ aa - a <= cc - c
           \/ dd = d /\ mm <= m /\ aa <= a /\ cc = c
           \/ dd = d /\ mm <= m + 1 /\ a = 1 /\ aa = 0 /\ cc = c
           \/ dd = d + 1 /\ mm <= m - 1 /\ aa = a /\ cc = c
    PROVE  dd + mm + aa <= cc
  OBVIOUS

\* What a step has to show to keep the books.
LEMMA PaidIf ==
    ASSUME SpeakerInv, [ClientNext]_clientVars, Paid,
           mpc' = "play" => mpc = "play",
           mpc' = "play" =>
               \/ /\ damaged' = damaged
                  /\ Cardinality(Mixed') = Cardinality(Mixed)
                  /\ Credit' - Credit <= cuts' - cuts
               \/ /\ damaged' = damaged
                  /\ Cardinality(Mixed') <= Cardinality(Mixed)
                  /\ Credit' <= Credit /\ cuts' = cuts
               \/ /\ damaged' = damaged
                  /\ Cardinality(Mixed') <= Cardinality(Mixed) + 1
                  /\ Credit = 1 /\ Credit' = 0 /\ cuts' = cuts
               \/ /\ damaged' = damaged + 1
                  /\ Cardinality(Mixed') <= Cardinality(Mixed) - 1
                  /\ Credit' = Credit /\ cuts' = cuts
    PROVE  Paid'
<1>1. /\ cuts \in Int /\ cuts' \in Int /\ damaged \in Int /\ damaged' \in Int
      /\ Credit \in Int /\ Credit' \in Int
  BY TypeStep, ClientBounds DEF SpeakerInv, ClientTypeOK, Credit
<1>2. Cardinality(Mixed) \in Int /\ Cardinality(Mixed') \in Int
  <2>1. Cardinality(Mixed) \in Int
    BY MixedIsFinite
  <2>2. IsFiniteSet(Slot) /\ Mixed' \subseteq Slot
    BY FS_Interval, ChunksAssumption DEF Slot, Mixed
  <2>3. Cardinality(Mixed') \in Int
    BY <2>2, FS_Subset, FS_CardinalityType
  <2> QED
    BY <2>1, <2>3
<1> HIDE DEF Credit
<1>3. ASSUME mpc' = "play"
      PROVE  damaged' + Cardinality(Mixed') + Credit' <= cuts'
  <2>1. damaged + Cardinality(Mixed) + Credit <= cuts
    BY <1>3 DEF Paid
  <2> DEFINE d == damaged    dd == damaged'
             m == Cardinality(Mixed)    mm == Cardinality(Mixed')
             a == Credit    aa == Credit'
             c == cuts    cc == cuts'
  <2>2. \/ dd = d /\ mm = m /\ aa - a <= cc - c
        \/ dd = d /\ mm <= m /\ aa <= a /\ cc = c
        \/ dd = d /\ mm <= m + 1 /\ a = 1 /\ aa = 0 /\ cc = c
        \/ dd = d + 1 /\ mm <= m - 1 /\ aa = a /\ cc = c
    BY <1>3
  <2>3. /\ d \in Int /\ m \in Int /\ a \in Int /\ c \in Int
        /\ dd \in Int /\ mm \in Int /\ aa \in Int /\ cc \in Int
        /\ d + m + a <= c
    BY <1>1, <1>2, <2>1
  <2> HIDE DEF d, m, a, c, dd, mm, aa, cc
  <2>4. dd + mm + aa <= cc
    BY <2>2, <2>3, StillPaid
  <2> QED
    BY <2>4 DEF dd, mm, aa, cc
<1> QED
  BY <1>3 DEF Paid

\* In a step that leaves the chunks alone, what is owed for broken connections
\* grows only with cuts.
LEMMA QuietIsPaid ==
    ASSUME SpeakerInv, Paid, [ClientNext]_clientVars,
           UNCHANGED <<data, hdrseq, listened>>,
           ~(RecvHeader \/ RecvPayload \/ HeaderCut \/ PayloadCut)
    PROVE  Paid'
<1> USE DEF others, playing, elsewhere, locals, conn, data, logs, listened,
            NetGoesTo
<1>1. /\ mpc' = "play" => mpc = "play"
      /\ (npc = "pay" \/ npc' = "pay") => UNCHANGED <<npc, chunk>>
  <2>1. CASE NetworkThread
    BY <2>1
    DEF NetworkThread, TopOfMain, Dial, Connected, RefusedButConnected,
        DialFailed, LeaveGetData, TakeRoom, TakeScrap, IgnoreFrame, ResetQueue,
        LevelPilot, ComputeLevel, LevelFollower, KeepLevel, SendReport,
        ReleaseFrame, FailFrame
  <2>2. CASE PlayerThread
    BY <2>2
    DEF PlayerThread, PlayerMoves, PlayFrame, LeaveReport, LeavePlay, GoFill,
        GoTake, ReadOptim, LookEmpty, LookFull, TakeChunk, TakeNothing,
        QConsume, ConsumeNothing, PlayChunk, ReleasePk, Report, circleVars
  <2>3. CASE MainThread \/ Interrupt \/ ServerCloses
    BY <2>3
    DEF MainThread, CloseSocket, Join, Interrupt, CtrlC, ServerCloses,
        circleVars
  <2>4. CASE UNCHANGED clientVars
    BY <2>4 DEF clientVars, playerVars, circleVars
  <2> QED
    BY <2>1, <2>2, <2>3, <2>4 DEF ClientNext
<1>2. mpc' = "play" => Credit' - Credit <= cuts' - cuts
  <2>0. cuts \in Int /\ cuts' \in Int /\ Credit \in Int /\ Credit' \in Int
    BY TypeStep, ClientBounds DEF SpeakerInv, ClientTypeOK, Credit
  <2>1. CASE RefusedButConnected \/ ServerCloses
    <3>1. 0 <= Credit /\ Credit' <= 1
      BY DEF Credit
    <3>2. cuts' >= cuts + 1
      BY <2>0, <2>1 DEF RefusedButConnected, ServerCloses
    <3> HIDE DEF Credit
    <3> QED
      BY <2>0, <3>1, <3>2, CutPays
  <2>2. CASE NetworkThread /\ ~RefusedButConnected
    BY <2>0, <2>2
    DEF NetworkThread, TopOfMain, Dial, Credit, Connected, DialFailed,
        LeaveGetData, TakeRoom, TakeScrap, IgnoreFrame, ResetQueue, LevelPilot,
        ComputeLevel, LevelFollower, KeepLevel, SendReport, ReleaseFrame,
        FailFrame
  <2>3. CASE PlayerThread \/ Join \/ Interrupt
    BY <2>0, <2>3
    DEF PlayerThread, PlayerMoves, PlayFrame, LeaveReport, Join, Interrupt,
        Credit
  <2>4. CASE CloseSocket
    BY <2>4 DEF CloseSocket
  <2>5. CASE UNCHANGED clientVars
    BY <2>0, <2>5 DEF clientVars, Credit
  <2> QED
    BY <2>1, <2>2, <2>3, <2>4, <2>5 DEF ClientNext, MainThread
<1>3. Mixed' = Mixed
  BY <1>1 DEF Mixed
<1>4. Cardinality(Mixed) \in Int /\ damaged \in Int /\ cuts \in Int /\ cuts' \in Int
      /\ Credit \in Int /\ Credit' \in Int
  BY TypeStep, MixedIsFinite, ClientBounds DEF SpeakerInv, ClientTypeOK, Credit
<1> HIDE DEF Credit
<1>5. damaged' = damaged /\ Cardinality(Mixed') = Cardinality(Mixed)
  BY <1>3
<1> QED
  BY <1>1, <1>2, <1>5, PaidIf

\* Receiving a frame mixes nothing; a cut spends its credit on the chunk it
\* tears; playing a torn chunk takes it off the list.
LEMMA PaidStep ==
    ASSUME SpeakerInv, MainFollows, LinkOK, ReceivesNext, Paid,
           [ClientNext]_clientVars
    PROVE  Paid'
<1> USE SpeakerFacts DEF NetGoesTo, others, playing, listened, locals, conn
<1>0. npc \in Holding => chunk # NoChunk /\ (chunk # Scrap => chunk \in Slot)
  BY DEF Slot, NoChunk
<1>1. CASE RecvHeader
  <2>1. /\ mpc' = mpc /\ damaged' = damaged /\ cuts' = cuts
        /\ npc = "hdr" /\ npc' = "pay" /\ chunk' = chunk
        /\ mpc' = "play" => link' = link
    BY <1>1 DEF RecvHeader, LastReceive, LinkOK, logs, circleVars
  <2>2. \A i \in Slot \ {chunk} : mem'[i] = mem[i]
    BY <1>1 DEF RecvHeader
  <2>3. Mixed' \subseteq Mixed
    BY <2>1, <2>2 DEF Mixed
  <2>4. mpc' = "play" => Credit' <= Credit
    BY <2>1 DEF Credit
  <2>5. Cardinality(Mixed') <= Cardinality(Mixed)
    BY <2>3, MixedGrows
  <2> HIDE DEF Credit
  <2> QED
    BY <2>1, <2>4, <2>5, PaidIf
<1>2. CASE RecvPayload
  <2>1. /\ mpc' = mpc /\ damaged' = damaged /\ cuts' = cuts
        /\ npc = "pay" /\ npc' # "pay" /\ chunk' = chunk
        /\ mpc' = "play" => link' = link /\ link = "up"
    BY <1>2 DEF RecvPayload, LastReceive, LinkOK, logs, circleVars
  <2>2. \A i \in Slot \ {chunk} : mem'[i] = mem[i]
    BY <1>2 DEF RecvPayload
  <2>3. chunk # Scrap => mem'[chunk].pay = next /\ mem'[chunk].seq = next
    BY <1>0, <1>2, <2>1 DEF RecvPayload, ReceivesNext, Holding
  <2>4. Mixed' \subseteq Mixed
    BY <2>1, <2>2, <2>3 DEF Mixed, Slot, Scrap
  <2>5. mpc' = "play" => Credit' <= Credit
    BY <2>1 DEF Credit
  <2>6. Cardinality(Mixed') <= Cardinality(Mixed)
    BY <2>4, MixedGrows
  <2> QED
    BY <2>1, <2>5, <2>6, PaidIf
<1>3. CASE HeaderCut
  <2>1. /\ mpc' = mpc /\ damaged' = damaged /\ cuts' = cuts /\ link' = link
        /\ npc = "hdr" /\ npc' \in {"release", "fail"} /\ chunk' = chunk
        /\ chunk # Scrap => npc' = "fail"
        /\ mpc' = "play" => link # "up"
    BY <1>3 DEF HeaderCut, AfterFailure, LinkOK, logs, circleVars
  <2>2. CASE mem' = mem
    <3>1. Mixed' = Mixed
      BY <2>1, <2>2 DEF Mixed
    <3>2. Credit' <= Credit /\ Credit \in Int
      BY <2>1 DEF Credit
    <3>3. Cardinality(Mixed') <= Cardinality(Mixed)
      BY <3>1, MixedGrows
    <3> QED
      BY <2>1, <3>2, <3>3, PaidIf
  <2>3. CASE /\ chunk # Scrap /\ link # "none"
             /\ mem' = [mem EXCEPT ![chunk].seq = next + 1]
    <3>1. \A i \in Slot \ {chunk} : mem'[i] = mem[i]
      BY <2>3
    <3>2. Mixed' \subseteq Mixed \union {chunk}
      BY <2>1, <3>1 DEF Mixed
    <3>3. mpc' = "play" => Credit = 1 /\ Credit' = 0
      BY <2>1, <2>3 DEF Credit, SpeakerInv, ClientTypeOK
    <3>4. Cardinality(Mixed') <= Cardinality(Mixed) + 1
      BY <3>2, MixedGrows
    <3> QED
      BY <2>1, <3>3, <3>4, PaidIf
  <2> QED
    BY <1>3, <2>2, <2>3 DEF HeaderCut
<1>4. CASE PayloadCut
  <2>1. /\ mpc' = mpc /\ damaged' = damaged /\ cuts' = cuts /\ link' = link
        /\ npc = "pay" /\ npc' \in {"release", "fail"} /\ chunk' = chunk
        /\ chunk # Scrap => npc' = "fail"
        /\ mpc = "play" => link = "gone"
    BY <1>4
    DEF PayloadCut, AfterFailure, logs, circleVars, LinkOK, SpeakerInv,
        ClientTypeOK
  <2>2. CASE chunk = Scrap
    <3>1. mem' = mem
      BY <1>4, <2>2 DEF PayloadCut
    <3>2. Mixed' = Mixed
      BY <2>1, <2>2, <3>1 DEF Mixed, Slot, Scrap
    <3>3. Credit' <= Credit /\ Credit \in Int
      BY <2>1 DEF Credit
    <3>4. Cardinality(Mixed') <= Cardinality(Mixed)
      BY <3>2, MixedGrows
    <3> QED
      BY <2>1, <3>3, <3>4, PaidIf
  <2>3. CASE chunk # Scrap
    <3>1. \A i \in Slot \ {chunk} : mem'[i] = mem[i]
      BY <1>4 DEF PayloadCut
    <3>2. Mixed' \subseteq Mixed \union {chunk}
      BY <2>1, <3>1 DEF Mixed
    <3>3. mpc' = "play" => Credit = 1 /\ Credit' = 0
      BY <2>1, <2>3 DEF Credit
    <3>4. Cardinality(Mixed') <= Cardinality(Mixed) + 1
      BY <3>2, MixedGrows
    <3> QED
      BY <2>1, <3>3, <3>4, PaidIf
  <2> QED
    BY <2>2, <2>3
<1>5. CASE PlayFrame
  <2>1. /\ UNCHANGED <<mpc, cuts, link, npc, chunk>>
        /\ pk \in Slot /\ pk # chunk
    BY <1>5 DEF PlayFrame, PlayChunk, ReleasePk, elsewhere
  <2>2. ~mem'[pk].len /\ \A i \in Slot \ {pk} : mem'[i] = mem[i]
    BY <1>5, <2>1 DEF PlayFrame
  <2>3. Mixed' \subseteq Mixed /\ pk \notin Mixed'
    BY <2>1, <2>2 DEF Mixed
  <2>4. Credit' = Credit /\ Credit \in Int
    BY <2>1 DEF Credit
  <2>5. CASE damaged' = damaged
    <3>1. Cardinality(Mixed') <= Cardinality(Mixed)
      BY <2>3, MixedGrows
    <3> QED
      BY <2>1, <2>4, <2>5, <3>1, PaidIf
  <2>6. CASE damaged' = damaged + 1 /\ mem[pk].len /\ mem[pk].pay # mem[pk].seq
    <3>1. pk \in Mixed /\ Mixed' \subseteq Mixed \ {pk}
      BY <2>1, <2>3, <2>6 DEF Mixed
    <3>2. Cardinality(Mixed') <= Cardinality(Mixed) - 1
      BY <3>1, MixedGrows
    <3> QED
      BY <2>1, <2>4, <2>6, <3>2, PaidIf
  <2> QED
    BY <1>5, <2>5, <2>6 DEF PlayFrame
<1>6. CASE UNCHANGED <<data, hdrseq, listened>>
  BY <1>1, <1>2, <1>3, <1>4, <1>6, QuietIsPaid
<1> QED
  BY <1>1, <1>2, <1>3, <1>4, <1>5, <1>6, QuietSteps

\* Nothing is in the chunks at first.
LEMMA ListenInvInit == ClientInit => ListenInv
<1> SUFFICES ASSUME ClientInit PROVE ListenInv
  OBVIOUS
<1>1. SpeakerInv
  BY SpeakerInvInit
<1>2. MainFollows /\ LinkOK /\ ReceivesNext
  BY DEF ClientInit, MainFollows, LinkOK, ReceivesNext
<1>3. \A i \in Slot : ~mem[i].len
  BY DEF ClientInit
<1>4. Unheard /\ Mixed = {}
  BY <1>3 DEF Unheard, Whole, Mixed
<1>5. Paid
  <2>1. Credit = 0 /\ Cardinality(Mixed) = 0 /\ damaged = 0 /\ cuts = 0
    BY <1>4, FS_EmptySet DEF ClientInit, Credit
  <2> QED
    BY <2>1 DEF Paid
<1> QED
  BY <1>1, <1>2, <1>4, <1>5 DEF ListenInv

\* Each part is kept by a lemma of its own.
LEMMA ListenInvStep == ListenInv /\ [ClientNext]_clientVars => ListenInv'
<1> QED
  BY SpeakerInvStep, LinkStep, ReceivesStep, UnheardStep, PaidStep
  DEF ListenInv

\* So ListenInv is an invariant.
LEMMA ListenInvariant == ClientSpec => []ListenInv
<1> QED
  BY ListenInvInit, ListenInvStep, PTL DEF ClientSpec

\* A torn chunk that is played was paid for by a cut.
LEMMA DamageIsPaid ==
    ASSUME ListenInv, mpc = "play", NEW i \in Mixed
    PROVE  damaged < cuts
<1>1. Cardinality(Mixed) \in Int /\ Cardinality(Mixed) >= 1
  <2>1. Cardinality(Mixed) # 0
    BY MixedIsFinite, FS_EmptySet
  <2>2. Cardinality(Mixed) \in Nat
    BY MixedIsFinite
  <2> QED
    BY <2>1, <2>2
<1>2. damaged + Cardinality(Mixed) + Credit <= cuts
  BY DEF ListenInv, Paid
<1>3. Credit \in Int /\ Credit >= 0 /\ damaged \in Int /\ cuts \in Int
  BY SpeakerFacts DEF Credit, ListenInv
<1> DEFINE m == Cardinality(Mixed)  c == Credit  d == damaged  k == cuts
<1>4. /\ m \in Int /\ c \in Int /\ d \in Int /\ k \in Int
      /\ m >= 1 /\ c >= 0 /\ d + m + c <= k
  BY <1>1, <1>2, <1>3
<1> HIDE DEF m, c, d, k
<1>5. \A mm, cc, dd, kk \in Int :
          mm >= 1 /\ cc >= 0 /\ dd + mm + cc <= kk => dd < kk
  OBVIOUS
<1>6. d < k
  BY <1>4, <1>5
<1> QED
  BY <1>6 DEF d, k

\* Receiving a header is Send, a broken connection Cut, playing a whole chunk
\* Hear and a mixed one HearDamaged; every other step changes nothing the
\* listener could tell.
LEMMA StepIsStreamStep ==
    ListenInv /\ [ClientNext]_clientVars =>
        [Listener!StreamNext]_(Listener!streamVars)
<1> SUFFICES ASSUME ListenInv, [ClientNext]_clientVars
             PROVE  [Listener!StreamNext]_(Listener!streamVars)
  OBVIOUS
<1>0. SpeakerInv
  BY DEF ListenInv
<1> USE DEF Listener!StreamNext, Listener!streamVars, listened, others, playing
<1>1. CASE RecvHeader
  BY <1>1 DEF RecvHeader, Listener!Send, logs
<1>2. CASE RecvPayload \/ PayloadCut
  BY <1>2 DEF RecvPayload, PayloadCut, logs
<1>3. CASE HeaderCut
  BY <1>3 DEF HeaderCut, Listener!Send, logs
<1>4. CASE PlayFrame
  <2>1. UNCHANGED <<next, cuts>> /\ pk \in Slot /\ pk # chunk /\ mpc = "play"
    BY <1>0, <1>4, SpeakerFacts
    DEF PlayFrame, PlayChunk, elsewhere, ListenInv, MainFollows
  <2>2. CASE Whole(pk)
    <3>1. mem[pk].pay \in (1 .. next) \ heard
      BY <1>0, <2>1, <2>2, SpeakerFacts DEF ListenInv, Unheard, Whole
    <3>2. /\ heard' = heard \union {mem[pk].pay}
          /\ plays' = plays + 1 /\ damaged' = damaged
      BY <1>4, <2>2 DEF PlayFrame, Whole
    <3> QED
      BY <2>1, <3>1, <3>2 DEF Listener!Hear
  <2>3. CASE mem[pk].len /\ ~Whole(pk)
    <3>1. pk \in Mixed
      BY <2>1, <2>3 DEF Mixed, Whole
    <3>2. damaged < cuts
      BY <2>1, <3>1, DamageIsPaid
    <3>3. UNCHANGED <<heard, plays>> /\ damaged' = damaged + 1
      BY <1>4, <2>3 DEF PlayFrame, Whole
    <3> QED
      BY <2>1, <3>2, <3>3 DEF Listener!HearDamaged
  <2>4. CASE ~mem[pk].len
    BY <1>4, <2>1, <2>4 DEF PlayFrame
  <2> QED
    BY <2>2, <2>3, <2>4
<1>5. CASE UNCHANGED <<data, hdrseq, listened>>
  <2>1. cuts' = cuts \/ cuts' = cuts + 1
    <3>1. CASE NetworkThread
      BY <3>1
      DEF NetworkThread, TopOfMain, Dial, Connected, RefusedButConnected,
          DialFailed, LeaveGetData, TakeRoom, TakeScrap, RecvHeader,
          RecvPayload, HeaderCut, PayloadCut, IgnoreFrame, ResetQueue,
          LevelPilot, ComputeLevel, LevelFollower, KeepLevel, SendReport,
          ReleaseFrame, FailFrame, logs
    <3>2. CASE PlayerThread \/ MainThread \/ Interrupt
      BY <3>2
      DEF PlayerThread, PlayerMoves, PlayFrame, LeaveReport, MainThread,
          CloseSocket, Join, Interrupt, elsewhere, logs
    <3>3. CASE ServerCloses
      BY <3>3 DEF ServerCloses
    <3>4. CASE UNCHANGED clientVars
      BY <3>4 DEF clientVars, logs
    <3> QED
      BY <3>1, <3>2, <3>3, <3>4 DEF ClientNext
  <2> QED
    BY <1>5, <2>1 DEF data, Listener!Cut
<1> QED
  BY <1>1, <1>2, <1>3, <1>4, <1>5, QuietSteps

\* The speaker implements AudioStream: whatever the three threads, the server
\* and the network do, no frame is heard twice, none is made up, and a mixed
\* chunk is heard only for a connection that broke (player.cpp:68-118,
\* sclient.cpp:87-203).
THEOREM SpeakerKeepsPromise == ClientSpec => KeepsPromise
<1>1. ClientInit => Listener!StreamInit
  BY DEF ClientInit, Listener!StreamInit
<1> QED
  BY <1>1, ListenInvariant, StepIsStreamStep, PTL
  DEF ClientSpec, KeepsPromise, Listener!StreamSpec

-----------------------------------------------------------------------------
\* What AudioStream promises, in numbers.
Books ==
    /\ heard \subseteq 1 .. next /\ plays = Cardinality(heard)
    /\ next \in Nat /\ cuts \in Nat /\ damaged \in Nat /\ damaged <= cuts

\* The stream's steps keep it.
LEMMA BooksStep ==
    Books /\ [Listener!StreamNext]_(Listener!streamVars) => Books'
<1> SUFFICES ASSUME Books, [Listener!StreamNext]_(Listener!streamVars)
             PROVE  Books'
  OBVIOUS
<1>1. CASE Listener!Send
  <2>1. 1 .. next \subseteq 1 .. next + 1
    BY DEF Books
  <2> QED
    BY <1>1, <2>1 DEF Listener!Send, Books
<1>2. CASE Listener!Cut
  BY <1>2 DEF Listener!Cut, Books
<1>3. CASE Listener!Hear
  <2>1. PICK f \in (1 .. next) \ heard : heard' = heard \union {f}
    BY <1>3 DEF Listener!Hear
  <2>2. IsFiniteSet(heard)
    <3>1. IsFiniteSet(1 .. next)
      BY FS_Interval DEF Books
    <3> QED
      BY <3>1, FS_Subset DEF Books
  <2>3. Cardinality(heard \union {f}) = Cardinality(heard) + 1
    BY <2>1, <2>2, FS_AddElement
  <2> QED
    BY <1>3, <2>1, <2>3 DEF Listener!Hear, Books
<1>4. CASE Listener!HearDamaged
  BY <1>4 DEF Listener!HearDamaged, Books
<1>5. CASE UNCHANGED Listener!streamVars
  BY <1>5 DEF Listener!streamVars, Books
<1> QED
  BY <1>1, <1>2, <1>3, <1>4, <1>5 DEF Listener!StreamNext

\* Counted out: the speaker has played exactly as many whole frames as there
\* are different ones it played, and no more mixed ones than connections broke
\* (buf_len = 0 after play, player.cpp:68-118).
THEOREM EachFrameOnce ==
    ClientSpec => [](plays = Cardinality(heard) /\ damaged <= cuts)
<1>1. Listener!StreamInit => Books
  BY FS_EmptySet DEF Listener!StreamInit, Books
<1>2. Books => plays = Cardinality(heard) /\ damaged <= cuts
  BY DEF Books
<1> QED
  BY <1>1, <1>2, BooksStep, SpeakerKeepsPromise, PTL
  DEF KeepsPromise, Listener!StreamSpec
-----------------------------------------------------------------------------
\* How far slot i is from the get index g, round the ring.
Dist(g, i) == IF i >= g THEN i - g ELSE i - g + Chunks

\* It tells the slots apart.
LEMMA DistFacts ==
    ASSUME NEW g \in Slot, NEW i \in Slot, NEW j \in Slot
    PROVE  /\ Dist(g, i) \in Slot
           /\ Dist(g, i) = Dist(g, j) => i = j
           /\ Dist(g, g) = 0
<1> QED
  BY ChunksAssumption DEF Dist, Slot

\* The put index is as far as the queue is long, when it is not full.
LEMMA DistOfTail ==
    ASSUME NEW g \in Slot, NEW p \in Slot, NEW e \in 0 .. Chunks - 1,
           g + e \in {p, p + Chunks, p + 2 * Chunks}
    PROVE  Dist(g, p) = e
<1> USE ChunksAssumption DEF Slot, Dist
<1>1. CASE g + e = p
  BY <1>1
<1>2. CASE g + e = p + Chunks
  BY <1>2
<1>3. g + e # p + 2 * Chunks
  OBVIOUS
<1> QED
  BY <1>1, <1>2, <1>3

\* Taking k off the head brings the others k nearer and sends those k behind.
LEMMA DistAfterTaking ==
    ASSUME NEW g \in Slot, NEW i \in Slot, NEW k \in 0 .. Chunks
    PROVE  Dist((g + k) % Chunks, i) =
               IF Dist(g, i) >= k THEN Dist(g, i) - k ELSE Dist(g, i) - k + Chunks
<1> USE ChunksAssumption
<1> DEFINE h == (g + k) % Chunks
<1>1. h \in Slot /\ g + k - h \in {0, Chunks, 2 * Chunks}
  BY Wraps
<1> HIDE DEF h
<1>2. CASE h = g + k
  BY <1>1, <1>2 DEF Slot, Dist
<1>3. CASE h = g + k - Chunks
  BY <1>1, <1>3 DEF Slot, Dist
<1>4. g + k - h # 2 * Chunks
  BY <1>1 DEF Slot
<1> QED
  BY <1>1, <1>2, <1>3, <1>4 DEF h, Slot
-----------------------------------------------------------------------------
\* Slot i is one of the elements counted.
InQueue(i) == Dist(geti, i) < elems

\* Only the chunk whose header is yet to come has no number of its own.
HasNumber(i) == i # chunk \/ npc # "hdr"

\* The ring has not gone round.
Fits == elems <= Chunks

\* What is in slot i was sent after all that will be played before it.
InTurn(i) ==
    /\ hdrseq < mem[i].seq
    /\ pk # NoChunk => mem[pk].seq < mem[i].seq
    /\ \A j \in Slot :
           Dist(geti, j) < Dist(geti, i) => mem[j].seq < mem[i].seq

QueueInTurn == \A i \in Slot : InQueue(i) /\ HasNumber(i) => InTurn(i)

\* So was what is being played, after what was played.
PlayedInTurn == pk # NoChunk => hdrseq < mem[pk].seq

\* The chunk being filled is the last of the queue.
FilledLast ==
    npc \in {"hdr", "pay"} /\ chunk # Scrap => Dist(geti, chunk) = elems - 1

\* The numbers rise from what was played to what was received last.
Rising == Fits /\ QueueInTurn /\ PlayedInTurn /\ FilledLast

\* A connection worked on is up, so no frame is broken off.
Reached == npc \in Receiving => open /\ link = "up"

\* Nothing heard or reported, or waiting to be, is newer than what was played.
ReportsInTurn ==
    /\ \A f \in heard : f <= hdrseq
    /\ reported <= hdrseq /\ qos.seq <= hdrseq
    /\ qos.waiting => reported <= qos.seq

\* What the order rests on while the queue was never overfull and nothing cut;
\* the queue's part, until the main thread closes the socket.
CalmInv ==
    /\ Calm /\ mpc = "play" => Reached /\ Rising
    /\ Calm => ReportsInTurn

\* What the steps below need of the ring's invariant.
LEMMA RingFacts ==
    ASSUME SpeakerInv
    PROVE  /\ geti \in Slot /\ puti \in Slot /\ elems \in 0 .. Chunks + 1
           /\ pk \in Slot \union {NoChunk}
           /\ geti + elems \in {puti, puti + Chunks, puti + 2 * Chunks}
           /\ chunk \in Slot => chunk \in locked
           /\ Chunks \in Nat \ {0} /\ optim \in 0 .. Chunks
           /\ NoChunk \notin Slot /\ Scrap \notin Slot
<1> QED
  BY ChunksAssumption
  DEF SpeakerInv, PlayerInv, RingInv, TypeOK, RingConsistent, LocksAreHeld,
      Slot, NoChunk, Scrap

\* A step that moves neither the indexes nor the numbers.
LEMMA RisingKept ==
    ASSUME SpeakerInv, Rising,
           UNCHANGED <<geti, elems, pk, hdrseq>>,
           \A i \in Slot : mem'[i].seq = mem[i].seq,
           \/ npc # "hdr" /\ npc' \notin {"hdr", "pay"}
           \/ npc \in {"hdr", "pay"} /\ npc' = npc /\ chunk' = chunk
    PROVE  Rising'
<1>1. \A i \in Slot : HasNumber(i)' => HasNumber(i)
  BY DEF HasNumber
<1>2. \A i \in Slot : InQueue(i)' => InQueue(i)
  BY DEF InQueue
<1>3. \A i \in Slot : InTurn(i) => InTurn(i)'
  BY RingFacts DEF InTurn
<1>4. QueueInTurn'
  BY <1>1, <1>2, <1>3 DEF Rising, QueueInTurn
<1>5. PlayedInTurn'
  BY RingFacts DEF Rising, PlayedInTurn
<1>6. FilledLast' /\ Fits'
  BY DEF Rising, FilledLast, Fits
<1> QED
  BY <1>4, <1>5, <1>6 DEF Rising

\* q_feedup adds a chunk at the tail; it has no number yet.
LEMMA RisingTakeRoom ==
    ASSUME SpeakerInv, Rising, TakeRoom, elems # Chunks
    PROVE  Rising'
<1>1. /\ npc = "select" /\ npc' = "hdr" /\ UNCHANGED <<geti, pk, mem, hdrseq>>
      /\ chunk' = puti /\ elems' = elems + 1
  BY DEF TakeRoom, QFeedup, NetGoesTo, others, playing, data
<1>2. elems \in 0 .. Chunks - 1
  BY RingFacts DEF Rising, Fits
<1>3. Dist(geti, puti) = elems
  BY <1>2, RingFacts, DistOfTail
<1>4. ASSUME NEW i \in Slot, InQueue(i)', i # puti
      PROVE  InQueue(i)
  <2>1. Dist(geti, i) \in Slot /\ Dist(geti, i) # elems
    BY <1>3, <1>4, DistFacts, RingFacts
  <2>2. Dist(geti, i) < elems + 1
    BY <1>1, <1>4 DEF InQueue
  <2> QED
    BY <1>2, <2>1, <2>2 DEF InQueue, Slot
<1>5. \A i \in Slot : InTurn(i) => InTurn(i)'
  BY <1>1 DEF InTurn
<1>6. QueueInTurn'
  BY <1>1, <1>4, <1>5 DEF QueueInTurn, HasNumber, Rising
<1>7. FilledLast' /\ Fits'
  <2>2. Dist(geti', chunk') = elems' - 1
    <3>1. Dist(geti', chunk') = elems
      BY <1>1, <1>3
    <3>2. elems' - 1 = elems
      BY <1>1, <1>2
    <3> QED
      BY <3>1, <3>2
  <2>3. elems' <= Chunks
    BY <1>1, <1>2, RingFacts
  <2> QED
    BY <2>2, <2>3 DEF FilledLast, Fits
<1> QED
  BY <1>1, <1>6, <1>7 DEF Rising, PlayedInTurn

\* The header gives it a number above all others.
LEMMA RisingRecvHeader ==
    ASSUME SpeakerInv, Rising, RecvHeader
    PROVE  Rising'
<1>1. /\ npc = "hdr" /\ npc' = "pay" /\ UNCHANGED <<geti, elems, pk, chunk, hdrseq>>
  BY DEF RecvHeader, circleVars, NetGoesTo, others, playing
<1>2. CASE chunk = Scrap
  <2>1. mem' = mem
    BY <1>2 DEF RecvHeader
  <2>2. \A i \in Slot : HasNumber(i)
    BY <1>2, RingFacts DEF HasNumber
  <2>3. \A i \in Slot : InTurn(i) => InTurn(i)'
    BY <1>1, <2>1 DEF InTurn
  <2>4. QueueInTurn'
    BY <1>1, <2>2, <2>3 DEF Rising, QueueInTurn, InQueue
  <2> QED
    BY <1>1, <1>2, <2>1, <2>4 DEF Rising, Fits, PlayedInTurn, FilledLast
<1>3. CASE chunk # Scrap
  <2>1. chunk \in Slot /\ pk # chunk
    BY <1>1, <1>3, SpeakerFacts, RingFacts
    DEF Holding, SpeakerInv, PlayerInv, RingInv, NoSharedChunk
  <2>2. mem' = [mem EXCEPT ![chunk] = [@ EXCEPT !.seq = next + 1, !.len = TRUE]]
    BY <1>3 DEF RecvHeader
  <2>3. /\ mem'[chunk].seq = next + 1
        /\ \A i \in Slot \ {chunk} : /\ mem'[i].seq = mem[i].seq
                                     /\ mem[i].seq <= next /\ mem[i].seq \in Int
    BY <2>1, <2>2, SpeakerFacts
  <2>4. Dist(geti, chunk) = elems - 1
    BY <1>1, <1>3 DEF Rising, FilledLast
  <2>5. InTurn(chunk)'
    <3>1. hdrseq \in Int /\ hdrseq <= next /\ next \in Int
      BY SpeakerFacts DEF SpeakerInv, Numbered
    <3>2. hdrseq' < mem'[chunk].seq
      BY <1>1, <2>3, <3>1
    <3>3. pk # NoChunk => mem'[pk].seq < mem'[chunk].seq
      BY <2>1, <2>3, <3>1, RingFacts
    <3>4. ASSUME NEW j \in Slot, Dist(geti, j) < Dist(geti, chunk)
          PROVE  mem'[j].seq < mem'[chunk].seq
      <4>1. j # chunk
        BY <2>1, <3>4, DistFacts, RingFacts DEF Slot
      <4> QED
        BY <2>3, <3>1, <4>1
    <3> QED
      BY <1>1, <3>2, <3>3, <3>4 DEF InTurn
  <2>6. ASSUME NEW i \in Slot \ {chunk}, InQueue(i)
        PROVE  InTurn(i)'
    <3>1. InTurn(i)
      BY <2>6 DEF Rising, QueueInTurn, HasNumber
    <3>2. Dist(geti, i) < Dist(geti, chunk)
      <4>1. /\ Dist(geti, i) # Dist(geti, chunk)
            /\ Dist(geti, i) \in Int /\ elems \in Int
        BY <2>1, DistFacts, RingFacts DEF Slot
      <4> QED
        BY <2>4, <2>6, <4>1 DEF InQueue
    <3>3. \A j \in Slot : Dist(geti, j) < Dist(geti, i) => j # chunk
      BY <2>1, <3>2, DistFacts, RingFacts DEF Slot
    <3> QED
      BY <1>1, <2>1, <2>3, <3>1, <3>3, RingFacts DEF InTurn
  <2>7. QueueInTurn'
    BY <1>1, <2>5, <2>6 DEF QueueInTurn, InQueue
  <2>8. PlayedInTurn'
    BY <1>1, <2>1, <2>3, RingFacts DEF Rising, PlayedInTurn
  <2> QED
    BY <1>1, <2>4, <2>7, <2>8 DEF Rising, Fits, FilledLast
<1> QED
  BY <1>2, <1>3

\* q_consume takes the head, which is the next in turn, and never the chunk
\* being filled, which is locked.
LEMMA RisingTakeChunk ==
    ASSUME SpeakerInv, Rising, QConsume, UNCHANGED <<npc, mem, hdrseq>>
    PROVE  Rising'
<1>1. /\ pk' = geti /\ elems' = elems - 1 /\ elems > 0 /\ chunk' = chunk
      /\ geti' = (geti + 1) % Chunks /\ geti # chunk /\ elems \in 1 .. Chunks
  BY RingFacts DEF QConsume, HasFrame, Inc, Rising, Fits
<1>2. /\ geti \in Slot /\ Chunks \in Nat \ {0}
      /\ \A i, j \in Slot : /\ Dist(geti, i) \in Slot
                            /\ Dist(geti, i) = Dist(geti, j) => i = j
      /\ Dist(geti, geti) = 0
  BY DistFacts, RingFacts
<1>3. \A i \in Slot : Dist(geti', i) =
          IF Dist(geti, i) >= 1 THEN Dist(geti, i) - 1
          ELSE Dist(geti, i) - 1 + Chunks
  <2>1. 1 \in 0 .. Chunks
    BY <1>2
  <2> QED
    BY <1>1, <1>2, <2>1, DistAfterTaking
<1>4. InTurn(geti)
  BY <1>1, <1>2 DEF Rising, QueueInTurn, InQueue, HasNumber
<1>5. ASSUME NEW i \in Slot, InQueue(i)', HasNumber(i)'
      PROVE  InTurn(i)'
  <2>1. Dist(geti, i) >= 1 /\ Dist(geti', i) = Dist(geti, i) - 1
    BY <1>1, <1>2, <1>3, <1>5 DEF InQueue, Slot
  <2>2. InQueue(i)
    BY <1>1, <1>2, <1>5, <2>1 DEF InQueue, Slot
  <2>3. InTurn(i)
    BY <1>1, <1>5, <2>2 DEF Rising, QueueInTurn, HasNumber
  <2>4. mem[geti].seq < mem[i].seq
    BY <1>2, <2>1, <2>3 DEF InTurn, Slot
  <2>5. ASSUME NEW j \in Slot, Dist(geti', j) < Dist(geti', i)
        PROVE  Dist(geti, j) < Dist(geti, i)
    BY <1>2, <1>3, <2>1, <2>5 DEF Slot
  <2> QED
    BY <1>1, <2>3, <2>4, <2>5 DEF InTurn
<1>6. FilledLast'
  <2>1. ASSUME npc' \in {"hdr", "pay"}, chunk' # Scrap
        PROVE  Dist(geti', chunk') = elems' - 1
    <3>1. chunk \in Slot /\ Dist(geti, chunk) = elems - 1
      BY <1>1, <2>1, SpeakerFacts DEF Holding, Rising, FilledLast
    <3>2. Dist(geti, chunk) # 0
      BY <1>1, <1>2, <3>1
    <3> QED
      BY <1>1, <1>2, <1>3, <3>1, <3>2 DEF Slot
  <2> QED
    BY <2>1 DEF FilledLast
<1>7. PlayedInTurn' /\ Fits'
  BY <1>1, <1>2, <1>4 DEF PlayedInTurn, InTurn, Fits
<1> QED
  BY <1>5, <1>6, <1>7 DEF Rising, QueueInTurn

\* force_optim drops the oldest; the rest keep their order.
LEMMA RisingForceOptim ==
    ASSUME SpeakerInv, Rising, NEW n \in OptimLens, ForceOptim(n),
           npc \notin {"hdr", "pay"}, npc' \notin {"hdr", "pay"},
           UNCHANGED <<mem, hdrseq>>
    PROVE  Rising'
<1>1. pk' = pk
  BY DEF ForceOptim
<1>2. CASE UNCHANGED <<geti, elems>>
  BY <1>1, <1>2, RisingKept
<1>3. CASE /\ elems > Clamped(n) /\ elems' = Clamped(n)
           /\ geti' = (geti + (elems - Clamped(n))) % Chunks
  <2>1. /\ geti \in Slot /\ Chunks \in Nat \ {0}
        /\ \A i \in Slot : Dist(geti, i) \in Slot
    BY DistFacts, RingFacts
  <2>2. Clamped(n) \in 0 .. Chunks
    BY ClampedFits, OptimLensAssumption
  <2> DEFINE k == elems - Clamped(n)
  <2>3. /\ k \in 1 .. elems /\ k \in 0 .. Chunks
        /\ elems' = elems - k /\ elems \in 0 .. Chunks
    BY <1>3, <2>2, RingFacts DEF Rising, Fits
  <2>4. geti' = (geti + k) % Chunks
    BY <1>3
  <2> HIDE DEF k
  <2>5. \A i \in Slot : Dist(geti', i) =
          IF Dist(geti, i) >= k THEN Dist(geti, i) - k
          ELSE Dist(geti, i) - k + Chunks
    BY <2>1, <2>3, <2>4, DistAfterTaking
  <2>6. ASSUME NEW i \in Slot, InQueue(i)'
        PROVE  InTurn(i)'
    <3>1. Dist(geti, i) >= k /\ Dist(geti', i) = Dist(geti, i) - k
      BY <2>1, <2>3, <2>5, <2>6 DEF InQueue, Slot
    <3>2. InQueue(i)
      BY <2>1, <2>3, <2>6, <3>1 DEF InQueue, Slot
    <3>3. InTurn(i)
      BY <3>2 DEF Rising, QueueInTurn, HasNumber
    <3>4. ASSUME NEW j \in Slot, Dist(geti', j) < Dist(geti', i)
          PROVE  Dist(geti, j) < Dist(geti, i)
      BY <2>1, <2>3, <2>5, <3>1, <3>4 DEF Slot
    <3> QED
      BY <1>1, <3>3, <3>4 DEF InTurn
  <2>7. PlayedInTurn' /\ Fits' /\ FilledLast'
    BY <1>1, <1>3, <2>2 DEF Rising, PlayedInTurn, Fits, FilledLast
  <2> QED
    BY <2>6, <2>7 DEF Rising, QueueInTurn
<1> QED
  BY <1>2, <1>3 DEF ForceOptim

\* reset() leaves nothing to be in order.
LEMMA RisingReset ==
    ASSUME SpeakerInv, Rising, Reset,
           npc' \notin {"hdr", "pay"},
           UNCHANGED <<mem, hdrseq>>
    PROVE  Rising'
<1>1. elems' = 0 /\ geti' = 0 /\ pk' = pk
  BY DEF Reset
<1>2. 0 \in Slot
  BY ChunksAssumption DEF Slot
<1>3. \A i \in Slot : ~InQueue(i)'
  BY <1>1, <1>2, DistFacts DEF InQueue, Slot
<1> QED
  BY <1>1, <1>3, ChunksAssumption
  DEF Rising, QueueInTurn, PlayedInTurn, Fits, FilledLast

\* What was being played becomes what was played.
LEMMA RisingPlayFrame ==
    ASSUME SpeakerInv, Rising, PlayFrame
    PROVE  Rising'
<1>1. /\ UNCHANGED <<geti, elems, npc, chunk>> /\ pk \in Slot /\ pk' = NoChunk
      /\ hdrseq' = mem[pk].seq
  BY SpeakerFacts DEF PlayFrame, PlayChunk, ReleasePk, elsewhere
<1>2. \A i \in Slot : mem'[i].seq = mem[i].seq
  BY <1>1, SpeakerFacts DEF PlayFrame
<1>3. \A i \in Slot : InTurn(i) => InTurn(i)'
  BY <1>1, <1>2, RingFacts DEF InTurn
<1> QED
  BY <1>1, <1>3
  DEF Rising, QueueInTurn, HasNumber, InQueue, PlayedInTurn, Fits, FilledLast

\* Nothing undoes what breaks the calm.
LEMMA CalmBefore ==
    ASSUME SpeakerInv, [ClientNext]_clientVars, Calm'
    PROVE  /\ Calm
           /\ ~(TakeRoom /\ elems = Chunks) /\ ~RefusedButConnected /\ ~ServerCloses
<1>0. cuts \in Nat
  BY SpeakerFacts
<1> USE <1>0 DEF Calm, others, playing, elsewhere, logs
<1>1. CASE TakeRoom \/ RefusedButConnected \/ ServerCloses
  <2>1. ~RefusedButConnected /\ ~ServerCloses
    <3>1. cuts + 1 # 0
      BY <1>0
    <3> QED
      BY <3>1 DEF RefusedButConnected, ServerCloses
  <2>2. ~overfilled /\ cuts = 0 /\ elems # Chunks
    BY <1>1, <2>1 DEF TakeRoom
  <2> QED
    BY <2>1, <2>2
<1>2. CASE /\ UNCHANGED <<cuts, overfilled>>
           /\ ~(TakeRoom \/ RefusedButConnected \/ ServerCloses)
  BY <1>2
<1>3. ASSUME ~(TakeRoom \/ RefusedButConnected \/ ServerCloses)
      PROVE  UNCHANGED <<cuts, overfilled>>
  <2>1. CASE NetworkThread
    BY <1>3, <2>1
    DEF NetworkThread, TopOfMain, Dial, Connected, DialFailed, LeaveGetData,
        TakeScrap, RecvHeader, RecvPayload, HeaderCut, PayloadCut, IgnoreFrame,
        ResetQueue, LevelPilot, ComputeLevel, LevelFollower, KeepLevel,
        SendReport, ReleaseFrame, FailFrame
  <2>2. CASE PlayerThread \/ MainThread \/ Interrupt
    BY <2>2
    DEF PlayerThread, PlayerMoves, PlayFrame, LeaveReport, MainThread,
        CloseSocket, Join, Interrupt
  <2>3. CASE UNCHANGED clientVars
    BY <2>3 DEF clientVars
  <2> QED
    BY <1>3, <2>1, <2>2, <2>3 DEF ClientNext
<1> QED
  BY <1>1, <1>2, <1>3

\* Without a cut the connection stays up while it is worked on.
LEMMA ReachedStep ==
    ASSUME SpeakerInv, [ClientNext]_clientVars, Reached,
           ~RefusedButConnected, ~ServerCloses, mpc' = "play"
    PROVE  Reached'
<1> USE DEF Reached, Receiving, NetGoesTo, conn, elsewhere
<1>1. CASE NetworkThread
  BY <1>1
  DEF NetworkThread, TopOfMain, Dial, Connected, DialFailed, LeaveGetData,
      TakeRoom, TakeScrap, RecvHeader, RecvPayload, LastReceive, HeaderCut,
      PayloadCut, IgnoreFrame, ResetQueue, LevelPilot, ComputeLevel,
      LevelFollower, KeepLevel, SendReport, ReleaseFrame, FailFrame
<1>2. CASE PlayerThread \/ MainThread \/ Interrupt
  BY <1>2
  DEF PlayerThread, PlayerMoves, PlayFrame, LeaveReport, MainThread,
      CloseSocket, Join, Interrupt
<1>3. CASE UNCHANGED clientVars
  BY <1>3 DEF clientVars
<1> QED
  BY <1>1, <1>2, <1>3 DEF ClientNext

\* Every step, one of the above.
LEMMA RisingStep ==
    ASSUME SpeakerInv, [ClientNext]_clientVars, Reached, Rising,
           ~(TakeRoom /\ elems = Chunks), mpc' = "play"
    PROVE  Rising'
<1> USE DEF others, playing, elsewhere, locals, conn, data, logs, listened,
            NetGoesTo
<1>1. CASE RecvHeader \/ TakeRoom \/ PlayFrame
  BY <1>1, RisingTakeRoom, RisingRecvHeader, RisingPlayFrame
<1>2. CASE RecvPayload
  <2>1. \A i \in Slot : mem'[i].seq = mem[i].seq
    BY <1>2, SpeakerFacts DEF RecvPayload
  <2>2. /\ UNCHANGED <<geti, elems, pk, hdrseq>> /\ npc # "hdr"
        /\ npc' \notin {"hdr", "pay"}
    BY <1>2 DEF RecvPayload, circleVars
  <2> QED
    BY <2>1, <2>2, RisingKept
<1>3. ~HeaderCut /\ ~PayloadCut
  BY DEF HeaderCut, PayloadCut, Reached, Receiving
<1>4. CASE LevelPilot \/ LevelFollower
  <2>1. /\ npc \notin {"hdr", "pay"} /\ npc' \notin {"hdr", "pay"}
        /\ UNCHANGED <<mem, hdrseq>>
    BY <1>4 DEF LevelPilot, LevelFollower
  <2>2. \E n \in OptimLens : ForceOptim(n)
    BY <1>4, LensAssumption
    DEF LevelPilot, LevelFollower, SpeakerInv, RelevelsWithin
  <2> QED
    BY <2>1, <2>2, RisingForceOptim
<1>5. CASE ResetQueue
  BY <1>5, RisingReset DEF ResetQueue
<1>6. CASE /\ NetworkThread /\ UNCHANGED <<geti, elems, pk, data>>
           /\ npc # "hdr" /\ npc' \notin {"hdr", "pay"}
  <2>1. hdrseq' = hdrseq
    BY <1>6
    DEF NetworkThread, TopOfMain, Dial, Connected, RefusedButConnected,
        DialFailed, LeaveGetData, TakeRoom, TakeScrap, RecvHeader, RecvPayload,
        HeaderCut, PayloadCut, IgnoreFrame, ResetQueue, LevelPilot,
        ComputeLevel, LevelFollower, KeepLevel, SendReport, ReleaseFrame,
        FailFrame
  <2> QED
    BY <1>6, <2>1, RisingKept
<1>7. CASE TakeScrap
  <2>1. /\ npc = "select" /\ npc' = "hdr" /\ chunk' = Scrap
        /\ UNCHANGED <<geti, elems, pk, mem, hdrseq>>
    BY <1>7 DEF TakeScrap, Dummy
  <2>2. \A i \in Slot : InTurn(i) => InTurn(i)'
    BY <2>1 DEF InTurn
  <2>3. \A i \in Slot : HasNumber(i) /\ (InQueue(i)' => InQueue(i))
    BY <2>1 DEF HasNumber, InQueue
  <2> QED
    BY <2>1, <2>2, <2>3 DEF Rising, QueueInTurn, PlayedInTurn, Fits, FilledLast
<1>8. CASE \/ TopOfMain \/ Dial \/ Connected \/ RefusedButConnected \/ DialFailed
           \/ LeaveGetData \/ IgnoreFrame \/ ComputeLevel \/ KeepLevel \/ SendReport
           \/ ReleaseFrame \/ FailFrame
  <2>1. /\ UNCHANGED <<geti, elems, pk, data>>
        /\ npc # "hdr" /\ npc' \notin {"hdr", "pay"}
    BY <1>8
    DEF TopOfMain, Dial, Connected, RefusedButConnected, DialFailed,
        LeaveGetData, IgnoreFrame, ComputeLevel, KeepLevel, SendReport,
        ReleaseFrame, FailFrame, ReleaseChunk, circleVars
  <2> QED
    BY <1>6, <1>8, <2>1 DEF NetworkThread
<1>9. CASE \/ PlayerMoves \/ LeaveReport \/ MainThread \/ Interrupt
           \/ ServerCloses \/ UNCHANGED clientVars
  <2>1. UNCHANGED <<npc, chunk, mem, hdrseq>>
    BY <1>9
    DEF PlayerMoves, LeavePlay, GoFill, GoTake, ReadOptim, LookEmpty, LookFull,
        TakeChunk, TakeNothing, QConsume, ConsumeNothing, LeaveReport, Report,
        MainThread, CloseSocket, Join, Interrupt, CtrlC, ServerCloses,
        clientVars, playerVars, circleVars
  <2>2. CASE TakeChunk
    BY <2>1, <2>2, RisingTakeChunk DEF TakeChunk
  <2>3. CASE UNCHANGED <<geti, elems, pk>>
    BY <2>1, <2>3, RisingKept
  <2>4. ~TakeChunk => UNCHANGED <<geti, elems, pk>>
    BY <1>9
    DEF PlayerMoves, LeavePlay, GoFill, GoTake, ReadOptim, LookEmpty, LookFull,
        TakeNothing, ConsumeNothing, LeaveReport, Report, MainThread,
        CloseSocket, Join, Interrupt, CtrlC, ServerCloses, clientVars,
        playerVars, circleVars
  <2> QED
    BY <2>2, <2>3, <2>4
<1> QED
  BY <1>1, <1>2, <1>3, <1>4, <1>5, <1>7, <1>8, <1>9
  DEF ClientNext, NetworkThread, PlayerThread

\* What is heard, left as a report or sent is in turn.
LEMMA ReportsStep ==
    ASSUME SpeakerInv, MainFollows, [ClientNext]_clientVars, ReportsInTurn,
           mpc = "play" => Rising
    PROVE  ReportsInTurn'
<1> USE DEF others, playing, elsewhere, locals, conn, data, logs, listened
<1>0. hdrseq \in Nat /\ heard \subseteq Nat /\ qos.seq \in Nat /\ reported \in Nat
  BY ClientBounds DEF SpeakerInv, ClientTypeOK
<1>1. CASE PlayFrame
  <2>1. /\ pk \in Slot /\ hdrseq < mem[pk].seq /\ hdrseq' = mem[pk].seq
        /\ mem[pk].seq \in Nat /\ UNCHANGED <<reported, qos>>
    BY <1>1, SpeakerFacts, RingFacts
    DEF PlayFrame, PlayChunk, MainFollows, Rising, PlayedInTurn
  <2>2. heard' = heard \/ heard' = heard \union {mem[pk].seq}
    BY <1>1 DEF PlayFrame
  <2>3. \A f \in heard : f <= hdrseq /\ f <= hdrseq'
    BY <1>0, <2>1 DEF ReportsInTurn
  <2>4. reported <= hdrseq' /\ qos.seq <= hdrseq'
    BY <1>0, <2>1 DEF ReportsInTurn
  <2> QED
    BY <2>1, <2>2, <2>3, <2>4 DEF ReportsInTurn
<1>2. CASE LeaveReport
  <2>1. qos'.seq = hdrseq /\ UNCHANGED <<reported, hdrseq, heard>>
    BY <1>2 DEF LeaveReport
  <2> QED
    BY <1>0, <2>1 DEF ReportsInTurn
<1>3. CASE SendReport
  <2>1. /\ UNCHANGED <<hdrseq, heard>> /\ qos' = [qos EXCEPT !.waiting = FALSE]
        /\ reported' = IF qos.waiting THEN qos.seq ELSE reported
    BY <1>3 DEF SendReport
  <2>2. qos'.seq = qos.seq /\ ~qos'.waiting
    BY <2>1 DEF SpeakerInv, ClientTypeOK
  <2> QED
    BY <2>1, <2>2 DEF ReportsInTurn
<1>4. CASE UNCHANGED <<hdrseq, heard, reported, qos>>
  BY <1>4 DEF ReportsInTurn
<1>5. ASSUME ~PlayFrame, ~LeaveReport, ~SendReport
      PROVE  UNCHANGED <<hdrseq, heard, reported, qos>>
  <2>1. CASE NetworkThread
    BY <1>5, <2>1
    DEF NetworkThread, TopOfMain, Dial, Connected, RefusedButConnected,
        DialFailed, LeaveGetData, TakeRoom, TakeScrap, RecvHeader, RecvPayload,
        HeaderCut, PayloadCut, IgnoreFrame, ResetQueue, LevelPilot,
        ComputeLevel, LevelFollower, KeepLevel, ReleaseFrame, FailFrame
  <2>2. CASE PlayerThread \/ MainThread \/ Interrupt \/ ServerCloses
    BY <1>5, <2>2
    DEF PlayerThread, PlayerMoves, MainThread, CloseSocket, Join, Interrupt,
        ServerCloses
  <2>3. CASE UNCHANGED clientVars
    BY <2>3 DEF clientVars
  <2> QED
    BY <2>1, <2>2, <2>3 DEF ClientNext
<1> QED
  BY <1>1, <1>2, <1>3, <1>4, <1>5

\* Every step keeps CalmInv.
LEMMA CalmInvStep ==
    SpeakerInv /\ MainFollows /\ CalmInv /\ [ClientNext]_clientVars => CalmInv'
<1> SUFFICES ASSUME SpeakerInv, MainFollows, CalmInv, [ClientNext]_clientVars, Calm'
             PROVE  (mpc' = "play" => Reached' /\ Rising') /\ ReportsInTurn'
  BY DEF CalmInv
<1>1. /\ Calm /\ ~(TakeRoom /\ elems = Chunks)
      /\ ~RefusedButConnected /\ ~ServerCloses
  BY CalmBefore
<1>2. mpc' = "play" => mpc = "play"
  BY DEF ClientNext, NetworkThread, TopOfMain, Dial, Connected,
         RefusedButConnected, DialFailed, LeaveGetData, TakeRoom, TakeScrap,
         RecvHeader, RecvPayload, HeaderCut, PayloadCut, IgnoreFrame,
         ResetQueue, LevelPilot, ComputeLevel, LevelFollower, KeepLevel,
         SendReport, ReleaseFrame, FailFrame, PlayerThread, PlayerMoves,
         PlayFrame, LeaveReport, MainThread, CloseSocket, Join, Interrupt,
         ServerCloses, clientVars, others, elsewhere
<1>3. ReportsInTurn /\ (mpc = "play" => Reached /\ Rising)
  BY <1>1 DEF CalmInv
<1> QED
  BY <1>1, <1>2, <1>3, ReachedStep, RisingStep, ReportsStep

\* The queue is empty at first.
LEMMA CalmInvInit == ClientInit => CalmInv
<1> SUFFICES ASSUME ClientInit PROVE CalmInv
  OBVIOUS
<1>1. geti = 0 /\ elems = 0 /\ pk = NoChunk /\ npc = "top" /\ 0 \in Slot
  BY ChunksAssumption DEF ClientInit, PlayerInit, CircleInit, Slot
<1>2. \A i \in Slot : ~InQueue(i)
  BY <1>1, DistFacts DEF InQueue, Slot
<1>3. Rising
  BY <1>1, <1>2, ChunksAssumption
  DEF Rising, Fits, QueueInTurn, PlayedInTurn, FilledLast
<1> QED
  BY <1>1, <1>3 DEF CalmInv, ClientInit, Reached, Receiving, ReportsInTurn

\* So CalmInv is an invariant.
LEMMA CalmInvariant == ClientSpec => [](SpeakerInv /\ MainFollows /\ CalmInv)
<1>1. ListenInv => SpeakerInv /\ MainFollows
  BY DEF ListenInv
<1> QED
  BY <1>1, ListenInvariant, CalmInvInit, CalmInvStep, PTL DEF ClientSpec

\* As long as the queue was never overfull and no connection broke, a frame is
\* heard after every frame heard before it was sent, whatever resets and level
\* changes leave out (srvq.h, player.cpp:68-118).
THEOREM CalmPlaysInOrder == ClientSpec => CalmIsInOrder
<1>1. ASSUME SpeakerInv, MainFollows, CalmInv, [ClientNext]_clientVars
      PROVE  [Calm => \A f \in heard' \ heard : InOrder(f)]_clientVars
  <2> SUFFICES ASSUME Calm, NEW f \in heard' \ heard, NEW g \in heard
               PROVE  g < f
    BY DEF InOrder
  <2>1. PlayFrame
    BY <1>1, QuietSteps
    DEF RecvHeader, RecvPayload, HeaderCut, PayloadCut, others, playing,
        listened
  <2>2. /\ pk \in Slot /\ f = mem[pk].seq
        /\ hdrseq < mem[pk].seq /\ mem[pk].seq \in Nat
    BY <1>1, <2>1, SpeakerFacts, RingFacts
    DEF PlayFrame, PlayChunk, MainFollows, CalmInv, Rising, PlayedInTurn
  <2>3. g <= hdrseq /\ g \in Nat /\ hdrseq \in Nat
    BY <1>1, SpeakerFacts, ClientBounds
    DEF CalmInv, ReportsInTurn, SpeakerInv, ClientTypeOK
  <2> QED
    BY <2>2, <2>3
<1> QED
  BY <1>1, CalmInvariant, PTL DEF ClientSpec, CalmIsInOrder

\* In the same calm the reports sent to the server never go back, although a
\* report waits while frames are played (sclient.cpp:150-156, 221-229).
THEOREM CalmReportsNeverGoBack == ClientSpec => CalmReportsAdvance
<1>1. ASSUME SpeakerInv, CalmInv, [ClientNext]_clientVars
      PROVE  [Calm => reported' >= reported]_clientVars
  <2> SUFFICES ASSUME Calm PROVE reported' >= reported
    OBVIOUS
  <2>1. reported \in Nat /\ qos.seq \in Nat /\ (qos.waiting => reported <= qos.seq)
    BY <1>1, ClientBounds DEF SpeakerInv, ClientTypeOK, CalmInv, ReportsInTurn
  <2>2. CASE SendReport
    BY <2>1, <2>2 DEF SendReport
  <2>3. CASE reported' = reported
    BY <2>1, <2>3
  <2>4. ~SendReport => reported' = reported
    BY <1>1
    DEF ClientNext, NetworkThread, TopOfMain, Dial, Connected,
        RefusedButConnected, DialFailed, LeaveGetData, TakeRoom, TakeScrap,
        RecvHeader, RecvPayload, HeaderCut, PayloadCut, IgnoreFrame,
        ResetQueue, LevelPilot, ComputeLevel, LevelFollower, KeepLevel,
        ReleaseFrame, FailFrame, PlayerThread, PlayerMoves, PlayFrame,
        LeaveReport, MainThread, CloseSocket, Join, Interrupt, ServerCloses,
        clientVars, elsewhere, logs
  <2> QED
    BY <2>2, <2>3, <2>4
<1> QED
  BY <1>1, CalmInvariant, PTL DEF ClientSpec, CalmReportsAdvance
=============================================================================
