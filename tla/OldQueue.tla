------------------------------ MODULE OldQueue ------------------------------
(***************************************************************************)
(* The play queue of the old, multicast speaker: class Qbuff of            *)
(* OLD_UDP/.../common/clithread.h.  Its chunks are in a pool, in the       *)
(* queue, or in the hands of the one thread that took them out; a chunk    *)
(* that comes back to none of these is lost for good.  Every call holds    *)
(* the mutex, except for the first look of obtain() and of force_optim().  *)
(***************************************************************************)
EXTENDS Integers, FiniteSetsExt

CONSTANTS
    Chunks,     \* CHUNKS: how many chunks the constructor allocates
    Half        \* PER_CENT(OPTIM_QUEUE_LEN_H), and CLI_SYNC_PERCENT

ASSUME OldChunksAssumption == Chunks \in Nat \ {0}
ASSUME HalfAssumption == Half \in 0 .. Chunks

VARIABLES
    pool,       \* how many chunks are free
    queue,      \* how many chunks wait to be played
    optim,      \* the length the queue should settle at
    block_get,  \* nothing may be played until the queue has that length
    netHeld,    \* how many chunks the network thread holds: 0 or 1
    playHeld    \* how many chunks the player holds: 0 or 1

queueVars == <<pool, queue, optim, block_get, netHeld, playHeld>>

QueueInit ==
    /\ pool = Chunks /\ queue = 0
    /\ optim = Half
    /\ block_get = FALSE
    /\ netHeld = 0 /\ playHeld = 0

-----------------------------------------------------------------------------
FaultyHasFree == TRUE

\* obtain() tests the pool without the mutex; only this thread takes chunks
\* out, so what it saw cannot be gone.
HasFree == pool > 0

Obtain ==
    /\ netHeld = 0 /\ HasFree
    /\ netHeld' = 1
    /\ pool' = pool - 1
    /\ UNCHANGED <<queue, optim, block_get, playHeld>>

FaultyStillBlocked(len) == TRUE

\* Whether a queue that is blocked stays so at this length.
StillBlocked(len) == len < optim

QFeed ==
    /\ netHeld = 1
    /\ netHeld' = 0
    /\ queue' = queue + 1
    /\ block_get' = (block_get /\ StillBlocked(queue + 1))
    /\ UNCHANGED <<pool, optim, playHeld>>

\* release() of the network thread's chunk.
NetRelease ==
    /\ netHeld = 1
    /\ netHeld' = 0
    /\ pool' = pool + 1
    /\ UNCHANGED <<queue, optim, block_get, playHeld>>

\* n chunks go from the front of the queue to the pool.
Discard(n) ==
    /\ queue' = queue - n
    /\ pool' = pool + n

\* remove_back(els) removes one less than it is told.
Removable(els) == Max({0, Min({els - 1, queue})})

RemoveBack(els) ==
    /\ Discard(Removable(els))
    /\ UNCHANGED <<optim, block_get, netHeld, playHeld>>

\* force_optim(newoptim), once it has found _optim to be another value: drop
\* what is too much, or else wait until there is enough.  There is no limit.
ForceOptim(newoptim) ==
    /\ optim' = newoptim
    /\ \/ /\ queue > newoptim
          /\ Discard(queue - newoptim)
          /\ UNCHANGED block_get
       \/ /\ queue <= newoptim
          /\ block_get' = TRUE
          /\ UNCHANGED <<queue, pool>>
    /\ UNCHANGED <<netHeld, playHeld>>

-----------------------------------------------------------------------------
SetOptim(f) ==
    /\ optim' = f
    /\ UNCHANGED <<pool, queue, block_get, netHeld, playHeld>>

HasNext == queue > 0 /\ ~block_get

QConsume ==
    /\ playHeld = 0 /\ HasNext
    /\ playHeld' = 1
    /\ queue' = queue - 1
    /\ UNCHANGED <<pool, optim, block_get, netHeld>>

\* release() of the player's chunk.
PlayRelease ==
    /\ playHeld = 1
    /\ playHeld' = 0
    /\ pool' = pool + 1
    /\ UNCHANGED <<queue, optim, block_get, netHeld>>
=============================================================================
