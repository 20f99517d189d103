------------------------------- MODULE Circle -------------------------------
(***************************************************************************)
(* The play queue of a speaker: class Circle of common/srvq.h, a ring of   *)
(* Chunks preallocated chunks under one mutex, with the two threads that   *)
(* use it.  The network thread (sclient::_get_data) takes a chunk at the   *)
(* put index, fills it and releases it; the player thread (player::play)   *)
(* takes the chunk at the get index, plays it and releases it.             *)
(*                                                                         *)
(* Every method of Circle holds the mutex from its first line to its last, *)
(* so a method call is one atomic step; filling and playing a chunk happen *)
(* between calls, protected only by the chunk's _locked flag.              *)
(***************************************************************************)
EXTENDS Integers

CONSTANTS
    Chunks,     \* _maxqsz: how many chunks reserve() allocates
    OptimLens   \* the lengths force_optim() may be called with

ASSUME ChunksAssumption == Chunks \in Nat \ {0}
ASSUME OptimLensAssumption == OptimLens \subseteq Nat

CLI_SYNC_PERCENT == 50

Slot == 0 .. Chunks - 1
NoChunk == -1       \* a null Chunk pointer
Scrap == -2         \* the spare chunk frames are received into and dropped

VARIABLES
    geti,       \* next slot to play
    puti,       \* next slot to fill
    elems,      \* how many elements the queue claims to hold
    optim,      \* the length the queue should settle at
    block_get,  \* nothing may be played until elems reaches optim
    locked,     \* the slots whose _locked flag is set
    chunk,      \* the chunk the network thread holds
    pk          \* the chunk the player thread holds

circleVars == <<geti, puti, elems, optim, block_get, locked, chunk, pk>>

-----------------------------------------------------------------------------
\* _inc: the index after i.
Inc(i) == (i + 1) % Chunks

\* (Definitions that begin with Faulty are slips of the code that the
\* properties are to notice; no specification uses them.)
FaultyClamped(optlen) == optlen

\* The length force_optim() settles on: one that does not fit is cut to 95%.
Clamped(optlen) == IF optlen >= Chunks THEN Chunks - Chunks \div 20 ELSE optlen

\* reserve(), then set_optim_perc(CLI_SYNC_PERCENT), before any thread runs.
CircleInit ==
    /\ geti = 0 /\ puti = 0 /\ elems = 0
    /\ optim = (CLI_SYNC_PERCENT * Chunks) \div 100
    /\ block_get = FALSE
    /\ locked = {}
    /\ chunk = NoChunk /\ pk = NoChunk

-----------------------------------------------------------------------------
(* The calls of the network thread.                                        *)

FaultyUnlockedRoom == elems <= Chunks

\* q_feedup has a chunk to give: the length test is <=, not <.
HasRoom == elems <= Chunks /\ puti \notin locked

QFeedup ==
    /\ chunk = NoChunk
    /\ HasRoom
    /\ chunk' = puti
    /\ puti' = Inc(puti)
    /\ elems' = elems + 1
    /\ locked' = locked \union {puti}
    /\ block_get' = (block_get /\ elems + 1 < optim)
    /\ UNCHANGED <<geti, optim, pk>>

\* q_feedup returned null, so the frame goes to dummy()'s spare chunk.
Dummy ==
    /\ chunk = NoChunk
    /\ ~HasRoom
    /\ chunk' = Scrap
    /\ UNCHANGED <<geti, puti, elems, optim, block_get, locked, pk>>

FaultyReleaseChunk ==
    /\ chunk # NoChunk
    /\ chunk' = NoChunk
    /\ UNCHANGED <<geti, puti, elems, optim, block_get, locked, pk>>

\* release() of the network thread's chunk.
ReleaseChunk ==
    /\ chunk # NoChunk
    /\ chunk' = NoChunk
    /\ locked' = locked \ {chunk}
    /\ UNCHANGED <<geti, puti, elems, optim, block_get, pk>>

FaultyForceOptim(optlen) ==
    LET new == Clamped(optlen) IN
    /\ chunk # NoChunk
    /\ optim' = new
    /\ elems' = IF optim # new /\ elems > new THEN new ELSE elems
    /\ block_get' = (block_get \/ (optim # new /\ elems <= new))
    /\ UNCHANGED <<geti, puti, locked, chunk, pk>>

\* force_optim(optlen), while the frame that asked for it is still held:
\* a new, shorter optimum drops the oldest elements, a longer one stops the
\* player until the queue has filled up to it.
ForceOptim(optlen) ==
    LET new == Clamped(optlen) IN
    /\ chunk # NoChunk
    /\ optim' = new
    /\ \/ /\ optim = new
          /\ UNCHANGED <<geti, elems, block_get>>
       \/ /\ optim # new /\ elems > new
          /\ geti' = (geti + (elems - new)) % Chunks
          /\ elems' = new
          /\ UNCHANGED block_get
       \/ /\ optim # new /\ elems <= new
          /\ block_get' = TRUE
          /\ UNCHANGED <<geti, elems>>
    /\ UNCHANGED <<puti, locked, chunk, pk>>

FaultyReset ==
    /\ chunk # NoChunk
    /\ puti' = 0 /\ elems' = 0
    /\ UNCHANGED <<geti, optim, block_get, locked, chunk, pk>>

\* reset(), on a RESET_ALL frame, which is itself in a held chunk.
Reset ==
    /\ chunk # NoChunk
    /\ geti' = 0 /\ puti' = 0 /\ elems' = 0
    /\ UNCHANGED <<optim, block_get, locked, chunk, pk>>

-----------------------------------------------------------------------------
(* The calls of the player thread.                                         *)

\* q_consume has a chunk to give.
HasFrame == elems > 0 /\ ~block_get /\ geti \notin locked

QConsume ==
    /\ pk = NoChunk
    /\ HasFrame
    /\ pk' = geti
    /\ geti' = Inc(geti)
    /\ elems' = elems - 1
    /\ locked' = locked \union {geti}
    /\ UNCHANGED <<puti, optim, block_get, chunk>>

\* q_consume returned null; on the way it re-evaluates the block.
ConsumeNothing ==
    /\ pk = NoChunk
    /\ ~HasFrame
    /\ block_get' = (block_get /\ elems < optim)
    /\ UNCHANGED <<geti, puti, elems, optim, locked, chunk, pk>>

\* release() of the player thread's chunk.
ReleasePk ==
    /\ pk # NoChunk
    /\ pk' = NoChunk
    /\ locked' = locked \ {pk}
    /\ UNCHANGED <<geti, puti, elems, optim, block_get, chunk>>

-----------------------------------------------------------------------------
FeederStep ==
    \/ QFeedup
    \/ Dummy
    \/ ReleaseChunk
    \/ Reset
    \/ \E optlen \in OptimLens : ForceOptim(optlen)

PlayerStep ==
    \/ QConsume
    \/ ConsumeNothing
    \/ ReleasePk

CircleNext == FeederStep \/ PlayerStep

CircleSpec == CircleInit /\ [][CircleNext]_circleVars

-----------------------------------------------------------------------------
(* Properties.                                                             *)

\* The type of the ring's state.  elems may reach Chunks + 1, one more than
\* the chunks there are, because q_feedup tests with <=.
TypeOK ==
    /\ geti \in Slot /\ puti \in Slot
    /\ elems \in 0 .. Chunks + 1
    /\ optim \in 0 .. Chunks
    /\ block_get \in BOOLEAN
    /\ locked \subseteq Slot
    /\ chunk \in Slot \union {NoChunk, Scrap}
    /\ pk \in Slot \union {NoChunk}

\* The three counters never drift apart: the elements counted are the slots
\* from geti to puti, whatever q_feedup, q_consume, force_optim and reset
\* are called by either thread in whatever order (an overfull ring has gone
\* round once and one slot further).
RingConsistent ==
    geti + elems \in {puti, puti + Chunks, puti + 2 * Chunks}

\* The _locked flags are exactly the chunks in a thread's hands: no call
\* leaves a chunk locked that nobody will release, which would stop the
\* ring for good at that slot, and none unlocks a chunk still in use.
LocksAreHeld == locked = {chunk, pk} \intersect Slot

\* The network thread never writes the chunk the player is playing, even
\* when the ring is overfull, or reset() or force_optim() has just moved
\* the indexes over it.
NoSharedChunk == chunk = pk => chunk = NoChunk

\* force_optim moves the level, or reset() empties the ring (KeepsPlaying of
\* module Player).
LevelMoves ==
    \/ chunk # NoChunk /\ geti' = 0 /\ puti' = 0 /\ elems' = 0
    \/ optim' # optim
=============================================================================
