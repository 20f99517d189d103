-------------------------- MODULE OldSpeakerProofs --------------------------
(***************************************************************************)
(* Where every chunk of the old speaker's pool is, for every number of     *)
(* chunks, of strays, of levels, and every drift between two speakers.     *)
(*                                                                         *)
(* The induction needs to know who holds a chunk where (Hands), that the   *)
(* level to be forced is one (Forced), and that of the two paths that drop *)
(* a chunk one counts it and the other leads out of the program            *)
(* (LostOnTheWayOut).                                                      *)
(***************************************************************************)
EXTENDS OldSpeaker, TLAPS

\* A thread holds a chunk exactly in the calls that work on one.
Hands ==
    /\ netHeld = IF npc \in {"dial", "greet", "take"} THEN 1 ELSE 0
    /\ playHeld = IF ppc = "play" THEN 1 ELSE 0

\* force_optim() is called with a level.
Forced == npc = "relevel" => sync # NoLevel

\* All that is used of the pool.
Present == pool + queue + netHeld + playHeld

\* A chunk is missing otherwise only after the network thread has seen Ctrl-C.
LostOnTheWayOut ==
    \/ Present = Chunks - strays
    \/ /\ Present = Chunks - strays - 1
       /\ ~alive /\ npc \in {"top", "done"}

\* The numbers are not negative; the type bounds them by the sum.
Counts == pool \in Nat /\ queue \in Nat /\ optim \in Nat /\ strays \in Nat

\* The rest of the type.
Places ==
    /\ optim \in {Half} \union Levels
    /\ block_get \in BOOLEAN
    /\ alive \in BOOLEAN
    /\ npc \in NetPcs /\ tcp \in TcpStates
    /\ sync \in SyncLevels
    /\ ppc \in PlayPcs /\ filling \in BOOLEAN
    /\ fillingsz \in {Q_ALMOST_EMPTY, Half} \union Levels
    /\ qoptim \in {Half} \union Levels
    /\ srv \in BOOLEAN

ChunkInv == Hands /\ Forced /\ LostOnTheWayOut /\ Counts /\ Places

-----------------------------------------------------------------------------
\* Levels are lengths.
LEMMA LevelsAreNumbers == Levels \subseteq Nat /\ Half \in Nat /\ NoLevel = 0
<1>1. Half \in Nat /\ MinLevel \in Nat /\ MaxDiff \in Nat
  BY HalfAssumption, OldChunksAssumption, OldLevelsAssumption
<1> QED
  BY <1>1 DEF Levels, NoLevel

\* The sum of four, by the parts of it that one thread moves.
LEMMA Sums ==
    /\ \A p, q, h, k \in Nat : p + q + h + k = (p + q + k) + h
    /\ \A p, q, h, k \in Nat : p + q + h + k = (p + h) + q + k
    /\ \A s, q, k \in Nat : (s - 1) + q + k = (s + q + k) - 1
  OBVIOUS

\* The fifth part, and the fourth, beside the sum of the others.
LEMMA MovedSum ==
    \A p, q, h, s, k \in Nat :
        /\ p + q + h + s \in Nat
        /\ p + q + h + k = ((p + q + h + s) + k) - s
  OBVIOUS

\* remove_back() removes no more than there is, whatever it is told.
LEMMA RemovableIsThere ==
    ASSUME NEW els \in Int, queue \in Nat
    PROVE  Removable(els) \in 0 .. queue
<1> DEFINE low == Min({els - 1, queue})
<1>1. low \in {els - 1, queue} /\ low <= queue
  <2>1. \E x \in {els - 1, queue} : \A y \in {els - 1, queue} : x <= y
    <3>1. els - 1 <= queue \/ queue <= els - 1
      OBVIOUS
    <3> QED
      BY <3>1
  <2> QED
    BY <2>1 DEF Min
<1>2. low \in Int
  BY <1>1
<1> HIDE DEF low
<1>3. /\ Max({0, low}) \in {0, low}
      /\ 0 <= Max({0, low})
  <2>1. \E x \in {0, low} : \A y \in {0, low} : x >= y
    <3>1. 0 >= low \/ low >= 0
      BY <1>2
    <3> QED
      BY <1>2, <3>1
  <2> QED
    BY <2>1, <1>2 DEF Max
<1>4. Removable(els) = Max({0, low})
  BY DEF Removable, low
<1> QED
  BY <1>1, <1>2, <1>3, <1>4

-----------------------------------------------------------------------------
LEMMA ChunkInit == OldInit => ChunkInv
<1> SUFFICES ASSUME OldInit PROVE ChunkInv
  OBVIOUS
<1>1. Hands /\ Forced /\ LostOnTheWayOut /\ Counts
  BY OldChunksAssumption, LevelsAreNumbers
  DEF OldInit, QueueInit, Hands, Forced, LostOnTheWayOut, Present, Counts
<1>2. block_get \in BOOLEAN /\ alive \in BOOLEAN /\ filling \in BOOLEAN
      /\ srv \in BOOLEAN
  BY Zenon DEF OldInit, QueueInit
<1>3. Places
  BY <1>2 DEF OldInit, QueueInit, Places, NetPcs, TcpStates, PlayPcs, SyncLevels
<1> QED
  BY <1>1, <1>3 DEF ChunkInv

\* What a step of the network thread leaves alone.
LEMMA NetLeaves ==
    ASSUME NetThread
    PROVE  UNCHANGED <<playHeld, playVars, alive, srv>>
           /\ (~FeedFrame => UNCHANGED strays)
BY DEF NetThread, Restful, LeaveTmain, TopOfTmain, JoinGroup, NoFirstFrame,
       FirstFrame, DialUp, DialFails, Greet, NoSyncMessage, StoreQos, Relevel,
       ReplyQos, NoFrame, TakeChunk, DrainFrame, FeedFrame, NoProbe, Probe,
       queueVars, Obtain, NetRelease, ForceOptim, Discard, RemoveBack, QFeed, LoseChunk

\* The steps that leave the queue alone.
LEMMA QuietNetKeeps ==
    ASSUME ChunkInv,
           \/ LeaveTmain \/ TopOfTmain \/ JoinGroup \/ NoSyncMessage
           \/ StoreQos \/ ReplyQos \/ NoFrame \/ NoProbe \/ Probe
    PROVE  ChunkInv'
<1> USE DEF ChunkInv
<1>1. UNCHANGED <<queueVars, strays, playVars, alive, srv>>
  BY DEF LeaveTmain, TopOfTmain, JoinGroup, NoSyncMessage, StoreQos, ReplyQos,
         NoFrame, NoProbe, Probe, Restful
<1>2. /\ npc \notin {"dial", "greet", "take"}
      /\ npc' \in NetPcs \ {"dial", "greet", "take"}
      /\ npc' = "relevel" => sync' # NoLevel
      /\ npc \in {"top", "done"} /\ ~alive => npc' \in {"top", "done"}
  BY DEF LeaveTmain, TopOfTmain, JoinGroup, NoSyncMessage, StoreQos, ReplyQos,
         NoFrame, NoProbe, Probe, NetPcs
<1>3. tcp' \in TcpStates /\ sync' \in SyncLevels
  BY DEF LeaveTmain, TopOfTmain, JoinGroup, NoSyncMessage, StoreQos, ReplyQos,
         NoFrame, NoProbe, Probe, AfterSend, AfterProbe, TcpStates, Places, SyncLevels
<1> QED
  BY <1>1, <1>2, <1>3
  DEF Hands, Forced, LostOnTheWayOut, Present, Counts, Places, queueVars,
      playVars

\* The first frame's chunk: obtained, held while the server is dialled, and
\* given back; or, after Ctrl-C, not.
LEMMA FirstFrameKeeps ==
    ASSUME ChunkInv, NoFirstFrame \/ FirstFrame \/ DialUp \/ DialFails \/ Greet
    PROVE  ChunkInv'
<1> USE DEF ChunkInv
<1>1. UNCHANGED <<playHeld, playVars, alive, srv>>
  BY NetLeaves DEF NetThread
<1>2. UNCHANGED <<queue, optim, block_get, sync, strays>>
  BY DEF NoFirstFrame, FirstFrame, DialUp, DialFails, Greet, Obtain,
         NetRelease, queueVars, Restful
<1>3. /\ npc' \in NetPcs \ {"relevel"} /\ tcp' \in TcpStates
  BY DEF NoFirstFrame, FirstFrame, DialUp, DialFails, Greet, AfterSend, NetPcs,
         TcpStates, Places
<1>4. npc \in {"top", "done"} \/ Present = Chunks - strays
  BY DEF LostOnTheWayOut
<1>5. /\ netHeld' = IF npc' \in {"dial", "greet", "take"} THEN 1 ELSE 0
      /\ pool' \in Nat
      /\ \/ pool' + netHeld' = pool + netHeld
         \/ /\ pool' + netHeld' = (pool + netHeld) - 1
            /\ ~alive /\ npc' = "top"
      /\ npc \notin {"top", "done"}
  BY DEF NoFirstFrame, FirstFrame, DialUp, DialFails, Greet, Obtain, HasFree,
         NetRelease, queueVars, Hands, Counts
<1>6. Hands' /\ Forced' /\ Counts'
  BY <1>1, <1>2, <1>3, <1>5 DEF Hands, Forced, Counts, playVars
<1>7. LostOnTheWayOut'
  <2>1. Present' = pool' + queue + netHeld' + playHeld
    BY <1>1, <1>2 DEF Present
  <2>2. netHeld \in Nat /\ netHeld' \in Nat /\ playHeld \in Nat
        /\ Chunks - strays \in Int
    BY <1>5, OldChunksAssumption DEF Hands, Counts
  <2>3. pool + queue + netHeld + playHeld = Chunks - strays
    BY <1>4, <1>5 DEF Present
  <2>4. pool' + queue + netHeld' + playHeld = (pool' + netHeld') + queue + playHeld
    BY <1>5, <2>2, Sums DEF Counts
  <2>5. pool + queue + netHeld + playHeld = (pool + netHeld) + queue + playHeld
    BY <2>2, Sums DEF Counts
  <2>6. CASE pool' + netHeld' = pool + netHeld
    <3>1. pool' + queue + netHeld' + playHeld = Chunks - strays
      BY <1>5, <2>2, <2>3, <2>4, <2>5, <2>6 DEF Counts
    <3> QED
      BY <1>2, <2>1, <3>1 DEF LostOnTheWayOut
  <2>7. CASE /\ pool' + netHeld' = (pool + netHeld) - 1
             /\ ~alive /\ npc' = "top"
    <3>1. pool + netHeld \in Nat
      BY <2>2 DEF Counts
    <3>2. ((pool + netHeld) - 1) + queue + playHeld = Chunks - strays - 1
      BY <2>2, <2>3, <2>5, <3>1, Sums DEF Counts
    <3>3. pool' + queue + netHeld' + playHeld = Chunks - strays - 1
      BY <2>4, <2>7, <3>2
    <3> QED
      BY <1>1, <1>2, <2>1, <2>7, <3>3 DEF LostOnTheWayOut
  <2> QED
    BY <1>5, <2>6, <2>7
<1>8. Places'
  BY <1>1, <1>2, <1>3 DEF Places, playVars
<1> QED
  BY <1>6, <1>7, <1>8

\* A frame: received into a free chunk and fed, or lost to a stray, or drained,
\* the queue cut to its optimum; and the level forced by a sync message.
LEMMA StreamKeeps ==
    ASSUME ChunkInv, TakeChunk \/ FeedFrame \/ DrainFrame \/ Relevel
    PROVE  ChunkInv'
<1> USE DEF ChunkInv
<1>1. UNCHANGED <<playHeld, playVars, alive, srv>>
  BY NetLeaves DEF NetThread
<1>2. /\ npc' \in NetPcs \ {"relevel"} /\ tcp' \in TcpStates
      /\ npc \notin {"top", "done"} /\ sync' \in SyncLevels
  BY DEF TakeChunk, FeedFrame, DrainFrame, Relevel, NetPcs, Places, SyncLevels
<1>3. block_get' \in BOOLEAN
  BY Zenon DEF TakeChunk, FeedFrame, DrainFrame, Relevel, Obtain, QFeed,
     NetRelease, LoseChunk, ForceOptim, RemoveBack, queueVars, Places
<1>4. optim' \in {Half} \union Levels
  BY DEF TakeChunk, FeedFrame, DrainFrame, Relevel, Obtain, QFeed,
     NetRelease, LoseChunk, ForceOptim, RemoveBack, queueVars, Places, Forced, SyncLevels
<1>5. optim' \in Nat
  BY <1>4, LevelsAreNumbers
<1>6. netHeld' = IF npc' \in {"dial", "greet", "take"} THEN 1 ELSE 0
  BY DEF TakeChunk, FeedFrame, DrainFrame, Relevel, Obtain, QFeed,
     NetRelease, LoseChunk, ForceOptim, RemoveBack, queueVars, Hands
<1>7. /\ pool' \in Nat /\ queue' \in Nat
      /\ strays' \in Nat
      /\ pool' + queue' + netHeld' + strays' = pool + queue + netHeld + strays
  <2>1. CASE TakeChunk
    BY <2>1 DEF TakeChunk, Restful, Obtain, HasFree, Counts, Hands
  <2>2. CASE FeedFrame
    BY <2>2 DEF FeedFrame, QFeed, NetRelease, LoseChunk, Counts, Hands
  <2>3. CASE DrainFrame
    <3>1. CASE UNCHANGED queueVars
      BY <2>3, <3>1 DEF DrainFrame, Restful, queueVars, Counts
    <3>2. CASE RemoveBack(queue - optim)
      <4>1. Removable(queue - optim) \in 0 .. queue
        BY RemovableIsThere DEF Counts
      <4>2. /\ queue' = queue - Removable(queue - optim)
            /\ pool' = pool + Removable(queue - optim)
            /\ netHeld' = netHeld /\ strays' = strays
        BY <2>3, <3>2 DEF DrainFrame, Restful, RemoveBack, Discard
      <4> QED
        BY <4>1, <4>2 DEF Counts, Hands
    <3> QED
      BY <2>3, <3>1, <3>2 DEF DrainFrame
  <2>4. CASE Relevel
    <3>1. sync \in Nat
      BY LevelsAreNumbers DEF Places, SyncLevels
    <3> QED
      BY <2>4, <3>1 DEF Relevel, Restful, ForceOptim, Discard, Counts, Hands
  <2> QED
    BY <2>1, <2>2, <2>3, <2>4
<1>8. LostOnTheWayOut'
  <2>1. Present' = pool' + queue' + netHeld' + playHeld
    BY <1>1 DEF Present
  <2>2. netHeld \in Nat /\ netHeld' \in Nat /\ playHeld \in Nat
    BY <1>6 DEF Hands
  <2>3. pool + queue + netHeld + playHeld = Chunks - strays
    BY <1>2 DEF LostOnTheWayOut, Present
  <2>4. Chunks \in Nat /\ pool \in Nat /\ queue \in Nat /\ strays \in Nat
    BY OldChunksAssumption DEF Counts
  <2>5. pool' + queue' + netHeld' + playHeld = Chunks - strays'
    <3> DEFINE sum == pool + queue + netHeld + strays
    <3>1. sum \in Nat /\ pool + queue + netHeld + playHeld = (sum + playHeld) - strays
      BY <2>2, <2>4, MovedSum
    <3>2. /\ strays' \in Nat
          /\ pool' + queue' + netHeld' + playHeld = (sum + playHeld) - strays'
      BY <1>7, <2>2, MovedSum
    <3> HIDE DEF sum
    <3> QED
      BY <2>2, <2>3, <2>4, <3>1, <3>2
  <2> QED
    BY <2>1, <2>5 DEF LostOnTheWayOut
<1>9. Hands' /\ Forced' /\ Counts'
  BY <1>1, <1>2, <1>5, <1>6, <1>7 DEF Hands, Forced, Counts, playVars
<1>10. Places'
  BY <1>1, <1>2, <1>3, <1>4 DEF Places, playVars
<1> QED
  BY <1>8, <1>9, <1>10

\* The player takes from the queue, plays, and gives back.
LEMMA PlayerKeeps ==
    ASSUME ChunkInv, Player
    PROVE  ChunkInv'
<1> USE DEF ChunkInv
<1>1. UNCHANGED <<netVars, netHeld, block_get, alive, srv>>
  BY DEF Player, LeaveClient, GoFill, GoTake, ReadOptim, LookEmpty, LookFull,
         TakeNext, PlayChunk, queueVars, SetOptim, QConsume, PlayRelease
<1>2. optim' \in {Half, optim}
  BY DEF Player, LeaveClient, GoFill, GoTake, ReadOptim, LookEmpty, LookFull,
         TakeNext, PlayChunk, queueVars, SetOptim, QConsume, PlayRelease
<1>3. filling' \in BOOLEAN
  BY Zenon DEF Player, LeaveClient, GoFill, GoTake, ReadOptim, LookEmpty,
     LookFull, TakeNext, PlayChunk, Places
<1>4. /\ ppc' \in PlayPcs /\ qoptim' \in {qoptim, optim}
      /\ fillingsz' \in {fillingsz, Q_ALMOST_EMPTY, qoptim}
  BY DEF Player, LeaveClient, GoFill, GoTake, ReadOptim, LookEmpty, LookFull,
         TakeNext, PlayChunk, PlayPcs
<1>5. playHeld' = IF ppc' = "play" THEN 1 ELSE 0
  BY DEF Player, LeaveClient, GoFill, GoTake, ReadOptim, LookEmpty, LookFull,
         TakeNext, PlayChunk, queueVars, SetOptim, QConsume, PlayRelease, Hands
<1>6. /\ pool' \in Nat /\ queue' \in Nat
      /\ pool' + queue' + playHeld' = pool + queue + playHeld
  BY DEF Player, LeaveClient, GoFill, GoTake, ReadOptim, LookEmpty, LookFull,
         TakeNext, PlayChunk, queueVars, SetOptim, QConsume, HasNext,
         PlayRelease, Hands, Counts
<1>7. Places'
  BY <1>1, <1>2, <1>3, <1>4 DEF Places, netVars
<1>8. Hands' /\ Forced' /\ Counts'
  BY <1>1, <1>2, <1>5, <1>6, LevelsAreNumbers
  DEF Hands, Forced, Counts, netVars
<1>9. LostOnTheWayOut'
  <2>1. Present' = pool' + queue' + netHeld + playHeld'
    BY <1>1 DEF Present
  <2>2. netHeld \in Nat /\ playHeld \in Nat /\ playHeld' \in Nat
    BY <1>5 DEF Hands
  <2>3. Present = pool + queue + netHeld + playHeld
    BY DEF Present
  <2>4. pool' + queue' + netHeld + playHeld' = (pool' + queue' + playHeld') + netHeld
    BY <1>6, <2>2, Sums
  <2>5. pool + queue + netHeld + playHeld = (pool + queue + playHeld) + netHeld
    BY <2>2, Sums DEF Counts
  <2>6. Present' = Present
    BY <1>6, <2>1, <2>3, <2>4, <2>5
  <2> QED
    BY <1>1, <2>6 DEF LostOnTheWayOut, netVars
<1> QED
  BY <1>7, <1>8, <1>9

\* Ctrl-C, and what the server does, move no chunk.
LEMMA EnvironmentKeeps ==
    ASSUME ChunkInv, Environment
    PROVE  ChunkInv'
<1> USE DEF ChunkInv
<1>1. UNCHANGED <<queueVars, npc, sync, strays, playVars>> /\ (~alive => ~alive')
  BY DEF Environment, CtrlC, ServerCloses, ServerStarts, netVars
<1>2. alive' \in BOOLEAN /\ srv' \in BOOLEAN
  BY Zenon DEF Environment, CtrlC, ServerCloses, ServerStarts, Places
<1>3. tcp' \in TcpStates
  BY DEF Environment, CtrlC, ServerCloses, ServerStarts, Places, TcpStates,
         netVars
<1> QED
  BY <1>1, <1>2, <1>3
  DEF Hands, Forced, LostOnTheWayOut, Present, Counts, Places, queueVars,
      playVars

LEMMA ChunkStep == ChunkInv /\ [OldNext]_oldVars => ChunkInv'
<1> SUFFICES ASSUME ChunkInv, [OldNext]_oldVars
             PROVE  ChunkInv'
  OBVIOUS
<1>1. CASE NetThread
  BY <1>1, QuietNetKeeps, FirstFrameKeeps, StreamKeeps DEF NetThread
<1>2. CASE Player
  BY <1>2, PlayerKeeps
<1>3. CASE Environment
  BY <1>3, EnvironmentKeeps
<1>4. CASE UNCHANGED oldVars
  BY <1>4 DEF ChunkInv, Hands, Forced, LostOnTheWayOut, Present, Counts,
              Places, oldVars, queueVars, netVars, playVars
<1> QED
  BY <1>1, <1>2, <1>3, <1>4 DEF OldNext

LEMMA ChunkAlways == OldSpec => []ChunkInv
  BY ChunkInit, ChunkStep, PTL DEF OldSpec

-----------------------------------------------------------------------------
\* All the state stays in its type; the pool and the queue are never longer
\* than the number of chunks, nor shorter than nothing.
THEOREM OldSpeakerTypeCorrect == OldSpec => []OldTypeOK
<1>1. ChunkInv => OldTypeOK
  <2> SUFFICES ASSUME ChunkInv PROVE OldTypeOK
    OBVIOUS
  <2>1. netHeld \in 0 .. 1 /\ playHeld \in 0 .. 1
    BY DEF ChunkInv, Hands
  <2>2. pool \in 0 .. Chunks /\ queue \in 0 .. Chunks
    BY <2>1, OldChunksAssumption
    DEF ChunkInv, LostOnTheWayOut, Present, Counts
  <2>3. strays \in 0 .. Chunks
    BY <2>1, <2>2, OldChunksAssumption
    DEF ChunkInv, LostOnTheWayOut, Present, Counts
  <2> QED
    BY <2>1, <2>2, <2>3 DEF ChunkInv, Places, OldTypeOK
<1> QED
  BY <1>1, ChunkAlways, PTL

\* The queue's 100 chunks stay in the pool, in the queue or in the hands of one
\* thread as long as the program runs, through any reconnections, short frames,
\* forced levels and full queues, but for one for each stray datagram.
THEOREM OnlyStraysLoseChunks == OldSpec => []ChunksConserved
<1>1. ChunkInv => ChunksConserved
  <2> SUFFICES ASSUME ChunkInv PROVE ChunksConserved
    OBVIOUS
  <2>1. /\ netHeld \in Nat /\ playHeld \in Nat /\ Chunks \in Nat
        /\ pool \in Nat /\ queue \in Nat /\ strays \in Nat
    BY OldChunksAssumption DEF ChunkInv, Hands, Counts
  <2> QED
    BY <2>1 DEF ChunkInv, LostOnTheWayOut, Present, ChunksConserved
<1> QED
  BY <1>1, ChunkAlways, PTL
=============================================================================
