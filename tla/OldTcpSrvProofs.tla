-------------------------- MODULE OldTcpSrvProofs ---------------------------
(***************************************************************************)
(* Who is the pilot of the old server, and whom it serves, for every set   *)
(* of connections, every set of frames and every number of attempts to     *)
(* listen.                                                                 *)
(*                                                                         *)
(* The vector keeps its clients in the order they came in, so numbering it *)
(* by position again is enough: the induction is on "who came first has    *)
(* the lower number" (Ordered), from which everything else follows.  The   *)
(* new server keeps a map instead and has no such invariant.               *)
(*                                                                         *)
(* That nobody is served (NobodyStays) is an invariant beside that one:    *)
(* select() makes the sync message due and the message closes.             *)
(***************************************************************************)
EXTENDS OldTcpSrv, FiniteSetTheorems, TLAPS

\* Where the server is says what it has left to do.
Phase ==
    /\ spc # "read" => rd = {}
    /\ spc = "listen" => tries < MaxTries

\* The numbers are the positions of a vector.
Positions == \A a \in clis : index[a] < Cardinality(clis)

\* Who came first has the lower number.
Ordered ==
    /\ older \subseteq clis \X clis
    /\ \A a, b \in clis : <<a, b>> \in older => index[a] < index[b]

\* No two clients have one number.
Distinct == \A a, b \in clis : index[a] = index[b] => a = b

OldPilotInv ==
    /\ OldSrvTypeOK /\ Phase
    /\ Positions /\ Ordered /\ Distinct /\ PilotFrameIsPilots
    /\ NobodyStays /\ ReadsOnlyTheGone

-----------------------------------------------------------------------------
(* The numbers _clean gives.                                               *)

LEMMA Sizes ==
    ASSUME NEW S \in SUBSET Conn
    PROVE  /\ IsFiniteSet(S) /\ Cardinality(S) \in Nat
           /\ Cardinality(S) = 0 <=> S = {}
<1>1. IsFiniteSet(S)
  BY ConnAssumption, FS_Subset
<1> QED
  BY <1>1, FS_CardinalityType, FS_EmptySet

\* Fewer clients have a lower number than there are clients.
LEMMA RankIsPosition ==
    ASSUME NEW S \in SUBSET Conn, NEW c \in S, index \in [Conn -> Nat]
    PROVE  Rank(S, c) \in Nat /\ Rank(S, c) < Cardinality(S)
<1> DEFINE before == {d \in S : index[d] < index[c]}
<1>1. before \in SUBSET S /\ before # S
  BY DEF before
<1>2. /\ Cardinality(before) \in Nat /\ Cardinality(S) \in Nat
      /\ Cardinality(before) <= Cardinality(S)
      /\ Cardinality(before) = Cardinality(S) => before = S
  BY <1>1, Sizes, FS_Subset
<1>3. Rank(S, c) = Cardinality(before)
  BY DEF Rank
<1> QED
  BY <1>1, <1>2, <1>3

\* The order of the old numbers is the order of the new ones.
LEMMA RankKeepsOrder ==
    ASSUME NEW S \in SUBSET Conn, NEW a \in S, NEW b \in S,
           index \in [Conn -> Nat], index[a] < index[b]
    PROVE  Rank(S, a) < Rank(S, b)
<1> DEFINE before(c) == {d \in S : index[d] < index[c]}
<1>1. /\ before(a) \subseteq before(b) /\ before(b) \subseteq S
      /\ a \in before(b) /\ a \notin before(a)
  BY DEF before
<1>2. before(a) \in SUBSET Conn /\ before(b) \in SUBSET Conn
  BY <1>1
<1>3. IsFiniteSet(before(b)) /\ Cardinality(before(b)) \in Nat
  BY <1>2, Sizes
<1>4. Cardinality(before(a)) \in Nat
  BY <1>2, Sizes
<1>5. /\ Cardinality(before(a)) <= Cardinality(before(b))
      /\ Cardinality(before(a)) = Cardinality(before(b))
            => before(a) = before(b)
  BY <1>1, <1>3, FS_Subset
<1>6. Rank(S, a) = Cardinality(before(a)) /\ Rank(S, b) = Cardinality(before(b))
  BY DEF Rank
<1> QED
  BY <1>1, <1>3, <1>4, <1>5, <1>6

-----------------------------------------------------------------------------
LEMMA OldPilotInit == OldSrvInit => OldPilotInv
<1> SUFFICES ASSUME OldSrvInit PROVE OldPilotInv
  OBVIOUS
<1>1. /\ sock \in [Conn -> BOOLEAN] /\ peer \in [Conn -> BOOLEAN]
  BY Zenon DEF OldSrvInit
<1>2. /\ index \in [Conn -> Nat] /\ inbox \in [Conn -> Messages \union {Silence}]
  BY DEF OldSrvInit
<1>3. dirty \in BOOLEAN /\ due \in BOOLEAN
  BY Zenon DEF OldSrvInit
<1>4. /\ spc \in {"listen", "peek", "pool", "read", "sync", "end"}
      /\ source \in Conn \union {None} /\ tries \in 0 .. MaxTries
  BY MaxTriesAssumption DEF OldSrvInit
<1>5. OldSrvTypeOK
  BY <1>1, <1>2, <1>3, <1>4 DEF OldSrvInit, OldSrvTypeOK
<1>6. Phase /\ Positions /\ Ordered /\ Distinct
  BY MaxTriesAssumption
  DEF OldSrvInit, Phase, Positions, Ordered, Distinct
<1>7. PilotFrameIsPilots /\ NobodyStays /\ ReadsOnlyTheGone
  BY DEF OldSrvInit, PilotFrameIsPilots, NobodyStays, ReadsOnlyTheGone
<1> QED
  BY <1>5, <1>6, <1>7 DEF OldPilotInv

\* listen() and the loop leave the clients alone.
LEMMA LoopKeeps ==
    ASSUME OldPilotInv,
           Listen \/ ListenFails \/ CreateFails \/ SendSound \/ LeaveLoop
               \/ ReadDone
    PROVE  OldPilotInv'
<1> USE DEF OldPilotInv
<1>1. UNCHANGED <<clis, index, sock, dirty, rd, pilot_frm, due, source, older,
                  backlog, peer, inbox>>
  BY DEF Listen, ListenFails, CreateFails, SendSound, LeaveLoop, ReadDone,
         tcpState, tcpHistory, wires
<1>2. /\ spc' \in {"listen", "peek", "pool", "read", "sync", "end"}
      /\ tries' \in 0 .. MaxTries /\ Phase'
  BY <1>1, MaxTriesAssumption
  DEF Listen, ListenFails, CreateFails, SendSound, LeaveLoop, ReadDone,
      tcpState, OldSrvTypeOK, Phase
<1>3. OldSrvTypeOK'
  BY <1>1, <1>2 DEF OldSrvTypeOK
<1>4. (Positions /\ Ordered /\ Distinct /\ PilotFrameIsPilots)'
  BY <1>1 DEF Positions, Ordered, Distinct, PilotFrameIsPilots
<1>5. spc \in {"read", "sync"} => spc' \in {"read", "sync"}
  BY DEF Listen, ListenFails, CreateFails, SendSound, LeaveLoop, ReadDone
<1>6. NobodyStays' /\ ReadsOnlyTheGone'
  BY <1>1, <1>5 DEF NobodyStays, Stays, ReadsOnlyTheGone
<1> QED
  BY <1>2, <1>3, <1>4, <1>6

LEMMA SelectOnlyKeeps ==
    ASSUME OldPilotInv, SelectOnly
    PROVE  OldPilotInv'
<1> USE DEF OldPilotInv
<1>1. /\ UNCHANGED <<tries, clis, index, sock, pilot_frm, due, source, older,
                     backlog, peer, inbox>>
      /\ spc = "pool" /\ spc' = "read" /\ rd' = Readable
  BY DEF SelectOnly, Select, tcpHistory, wires
<1>2. dirty' \in BOOLEAN
  BY Zenon DEF SelectOnly, Select, OldSrvTypeOK
<1>3. OldSrvTypeOK' /\ Phase'
  BY <1>1, <1>2 DEF OldSrvTypeOK, Phase, Readable
<1>4. (Positions /\ Ordered /\ Distinct /\ PilotFrameIsPilots)'
  BY <1>1 DEF Positions, Ordered, Distinct, PilotFrameIsPilots
<1>5. NobodyStays' /\ ReadsOnlyTheGone'
  BY <1>1 DEF NobodyStays, Stays, ReadsOnlyTheGone, Readable
<1> QED
  BY <1>3, <1>4, <1>5

\* A new client goes behind all others.
LEMMA SelectAcceptKeeps ==
    ASSUME OldPilotInv, NEW c \in Conn, SelectAccept(c)
    PROVE  OldPilotInv'
<1> USE DEF OldPilotInv
<1>1. /\ clis \subseteq Conn /\ c \in backlog /\ c \notin clis
      /\ clis' = clis \union {c}
  BY DEF SelectAccept, OldSrvTypeOK
<1>2. /\ IsFiniteSet(clis) /\ Cardinality(clis) \in Nat
      /\ Cardinality(clis') = Cardinality(clis) + 1
  BY <1>1, Sizes, FS_AddElement
<1>3. \A a \in Conn :
         index'[a] = IF a = c THEN Cardinality(clis) ELSE index[a]
  BY DEF SelectAccept, Accepted, OldSrvTypeOK
<1>4. index \in [Conn -> Nat] /\ index' \in [Conn -> Nat]
  BY <1>2 DEF SelectAccept, Accepted, OldSrvTypeOK
<1>5. /\ UNCHANGED <<tries, peer, inbox>>
      /\ spc = "pool" /\ spc' = "read" /\ rd' = Readable
      /\ backlog' = backlog \ {c} /\ pilot_frm' = 0 /\ source' = None
      /\ due' = TRUE /\ older' = older \union (clis \X {c})
  BY DEF SelectAccept, Select
<1>6. dirty' \in BOOLEAN /\ sock' \in [Conn -> BOOLEAN]
  <2>1. dirty' \in BOOLEAN
    BY Zenon DEF SelectAccept, Select, OldSrvTypeOK
  <2>2. sock' \in [Conn -> BOOLEAN]
    BY DEF SelectAccept, OldSrvTypeOK
  <2> QED
    BY <2>1, <2>2
<1>7. OldSrvTypeOK' /\ Phase'
  BY <1>1, <1>4, <1>5, <1>6 DEF OldSrvTypeOK, Phase, Readable
<1>8. Positions'
  BY <1>1, <1>2, <1>3, <1>4 DEF Positions
<1>9. Ordered'
  <2> SUFFICES ASSUME NEW a \in clis', NEW b \in clis', <<a, b>> \in older'
               PROVE  index'[a] < index'[b]
    <3>1. older' \subseteq clis' \X clis'
      BY <1>1, <1>5 DEF Ordered
    <3> QED
      BY <3>1 DEF Ordered
  <2>1. CASE b = c
    <3>1. a \in clis
      BY <1>1, <1>5, <2>1 DEF Ordered
    <3> QED
      BY <1>1, <1>3, <2>1, <3>1 DEF Positions
  <2> QED
    BY <1>1, <1>3, <1>5, <2>1 DEF Ordered
<1>10. Distinct'
  BY <1>1, <1>2, <1>3, <1>4 DEF Distinct, Positions
<1>11. PilotFrameIsPilots' /\ NobodyStays' /\ ReadsOnlyTheGone'
  BY <1>5
  DEF PilotFrameIsPilots, NobodyStays, Stays, ReadsOnlyTheGone, Readable
<1> QED
  BY <1>7, <1>8, <1>9, <1>10, <1>11

\* A report counts as the pilot's only while its sender is number 0.
LEMMA ReadOneKeeps ==
    ASSUME OldPilotInv, NEW c \in Conn, ReadOne(c)
    PROVE  OldPilotInv'
<1> USE DEF OldPilotInv
<1>1. /\ UNCHANGED <<spc, tries, clis, index, due, older, backlog, peer>>
      /\ c \in rd /\ rd' \subseteq rd /\ c \in clis /\ spc = "read"
      /\ inbox' = [inbox EXCEPT ![c] = Silence]
  BY DEF ReadOne, FirstOf, OldSrvTypeOK
<1>2. inbox' \in [Conn -> Messages \union {Silence}]
  BY <1>1 DEF OldSrvTypeOK
<1>3. /\ sock' \in [Conn -> BOOLEAN] /\ dirty' \in BOOLEAN
      /\ pilot_frm' \in Frames \union {0} /\ source' \in Conn \union {None}
      /\ PilotFrameIsPilots' /\ \A a \in Conn : sock'[a] => sock[a]
  <2>1. CASE inbox[c] \in Frames /\ KeepTrack(c, inbox[c])
    <3>1. UNCHANGED <<sock, dirty>>
      BY <2>1 DEF KeepTrack
    <3>2. CASE index[c] = 0
      <4>1. pilot_frm' = inbox[c] /\ source' = c
        BY <2>1, <3>2 DEF KeepTrack, Tracked
      <4> QED
        BY <1>1, <2>1, <3>1, <3>2, <4>1 DEF OldSrvTypeOK, PilotFrameIsPilots
    <3>3. CASE index[c] # 0
      <4>1. pilot_frm' \in {0, pilot_frm} /\ source' = source
        BY <2>1, <3>3 DEF KeepTrack, Tracked
      <4> QED
        BY <1>1, <3>1, <4>1 DEF OldSrvTypeOK, PilotFrameIsPilots
    <3> QED
      BY <3>2, <3>3
  <2>2. CASE /\ sock' = [sock EXCEPT ![c] = FALSE] /\ dirty' = TRUE
             /\ UNCHANGED <<pilot_frm, source>>
    <3>1. sock' \in [Conn -> BOOLEAN] /\ dirty' \in BOOLEAN
      BY <2>2 DEF OldSrvTypeOK
    <3> QED
      BY <1>1, <2>2, <3>1 DEF OldSrvTypeOK, PilotFrameIsPilots
  <2> QED
    BY <2>1, <2>2 DEF ReadOne
<1>4. OldSrvTypeOK' /\ Phase'
  BY <1>1, <1>2, <1>3 DEF OldSrvTypeOK, Phase
<1>5. (Positions /\ Ordered /\ Distinct)'
  BY <1>1 DEF Positions, Ordered, Distinct
<1>6. NobodyStays' /\ ReadsOnlyTheGone'
  BY <1>1, <1>3 DEF NobodyStays, Stays, ReadsOnlyTheGone, OldSrvTypeOK
<1> QED
  BY <1>3, <1>4, <1>5, <1>6

\* After the sync message nobody stays: who does not fail is closed.
LEMMA SyncCloses ==
    ASSUME OldPilotInv, NEW failed \in SUBSET clis, Sync(failed)
    PROVE  /\ sock' \in [Conn -> BOOLEAN] /\ due' \in BOOLEAN
           /\ \A c \in clis : ~(sock'[c] /\ peer[c])
<1> USE DEF OldPilotInv
<1>1. CASE due
  <2> DEFINE open == [c \in Conn |-> sock[c] /\ c \in failed]
  <2>1. \A c \in Conn : (sock[c] /\ c \in failed) \in BOOLEAN
    OBVIOUS
  <2>2. open \in [Conn -> BOOLEAN]
    BY <2>1, Zenon
  <2>3. /\ sock' = open /\ due' = FALSE
        /\ failed \subseteq {c \in clis : sock[c] => ~peer[c]}
    BY <1>1 DEF Sync
  <2>4. sock' \in [Conn -> BOOLEAN] /\ due' \in BOOLEAN
    BY <2>2, <2>3, Zenon
  <2>5. \A c \in clis : ~(sock'[c] /\ peer[c])
    BY <2>3, Zenon DEF OldSrvTypeOK
  <2> QED
    BY <2>4, <2>5
<1>2. CASE ~due
  BY <1>2 DEF Sync, OldSrvTypeOK, NobodyStays, Stays
<1> QED
  BY <1>1, <1>2

\* Numbered again, the clients keep their order, and the pilot its number.
LEMMA SyncAndCleanKeeps ==
    ASSUME OldPilotInv, NEW failed \in SUBSET clis, SyncAndClean(failed)
    PROVE  OldPilotInv'
<1> USE DEF OldPilotInv
<1>1. /\ UNCHANGED <<tries, rd, backlog, peer, inbox>>
      /\ spc = "sync" /\ spc' = "peek" /\ rd = {} /\ Sync(failed)
  BY DEF SyncAndClean, Phase
<1>2. CASE ~dirty /\ UNCHANGED <<clis, index, older, dirty, pilot_frm, source>>
  <2>1. OldSrvTypeOK' /\ Phase'
    BY <1>1, <1>2, SyncCloses DEF OldSrvTypeOK, Phase
  <2>2. NobodyStays' /\ ReadsOnlyTheGone'
    BY <1>1, <1>2, SyncCloses DEF NobodyStays, Stays, ReadsOnlyTheGone
  <2>3. (Positions /\ Ordered /\ Distinct /\ PilotFrameIsPilots)'
    BY <1>2 DEF Positions, Ordered, Distinct, PilotFrameIsPilots
  <2> QED
    BY <2>1, <2>2, <2>3
<1>3. CASE \E live \in SUBSET clis : Clean(live)
  <2>1. PICK live \in SUBSET clis : Clean(live)
    BY <1>3
  <2>2. /\ live \in SUBSET Conn /\ clis' = live /\ index \in [Conn -> Nat]
        /\ older' = {p \in older : p[1] \in live /\ p[2] \in live}
        /\ dirty' = FALSE /\ pilot_frm' = 0 /\ source' = None
    BY <2>1 DEF Clean, OldSrvTypeOK
  <2>3. \A c \in Conn : index'[c] = IF c \in live THEN Rank(live, c) ELSE 0
    BY <2>1 DEF Clean
  <2>4. index' \in [Conn -> Nat]
    BY <2>1, <2>2, RankIsPosition DEF Clean
  <2>5. OldSrvTypeOK' /\ Phase'
    BY <1>1, <2>2, <2>4, SyncCloses DEF OldSrvTypeOK, Phase
  <2>6. Positions'
    BY <2>2, <2>3, RankIsPosition DEF Positions
  <2>7. Ordered'
    BY <2>2, <2>3, RankKeepsOrder DEF Ordered
  <2>8. Distinct'
    <3> SUFFICES ASSUME NEW a \in live, NEW b \in live, a # b
                 PROVE  Rank(live, a) # Rank(live, b)
      BY <2>2, <2>3 DEF Distinct
    <3>1. index[a] < index[b] \/ index[b] < index[a]
      BY <2>2 DEF Distinct
    <3>2. Rank(live, a) \in Nat /\ Rank(live, b) \in Nat
      BY <2>2, RankIsPosition
    <3>3. Rank(live, a) < Rank(live, b) \/ Rank(live, b) < Rank(live, a)
      BY <2>2, <3>1, RankKeepsOrder
    <3> QED
      BY <3>2, <3>3
  <2>9. NobodyStays' /\ ReadsOnlyTheGone'
    BY <1>1, <2>2, SyncCloses DEF NobodyStays, Stays, ReadsOnlyTheGone
  <2>10. PilotFrameIsPilots'
    BY <2>2 DEF PilotFrameIsPilots
  <2> QED
    BY <2>5, <2>6, <2>7, <2>8, <2>9, <2>10
<1> QED
  BY <1>2, <1>3 DEF SyncAndClean

\* What passes outside the server changes only what is on its way.
LEMMA OutsideKeeps ==
    ASSUME OldPilotInv, TimePasses \/ OldClients
    PROVE  OldPilotInv'
<1> USE DEF OldPilotInv
<1>1. UNCHANGED <<spc, tries, clis, index, sock, dirty, rd, pilot_frm, source,
                  older>>
  BY DEF TimePasses, OldClients, ClientConnects, ClientCloses, ClientSpeaks,
         tcpState, tcpHistory
<1>2. CASE TimePasses
  BY <1>1, <1>2
  DEF TimePasses, OldSrvTypeOK, Phase, Positions, Ordered, Distinct,
      PilotFrameIsPilots, NobodyStays, Stays, ReadsOnlyTheGone, wires
<1>3. CASE OldClients
  <2>1. PICK c \in Conn : ClientConnects(c) \/ ClientCloses(c)
                              \/ ClientSpeaks(c)
    BY <1>3 DEF OldClients
  <2>2. due' = due
    BY <2>1 DEF ClientConnects, ClientCloses, ClientSpeaks, tcpState
  <2>3. backlog' \subseteq Conn \ clis /\ peer' \in [Conn -> BOOLEAN]
    BY <2>1 DEF ClientConnects, ClientCloses, ClientSpeaks, OldSrvTypeOK
  <2>4. inbox' \in [Conn -> Messages \union {Silence}]
    BY <2>1 DEF ClientConnects, ClientCloses, ClientSpeaks, OldSrvTypeOK,
                Messages
  <2>5. \A a \in clis : peer'[a] => peer[a]
    BY <2>1 DEF ClientConnects, ClientCloses, ClientSpeaks, OldSrvTypeOK
  <2>6. NobodyStays' /\ ReadsOnlyTheGone'
    BY <1>1, <2>2, <2>5
    DEF NobodyStays, Stays, ReadsOnlyTheGone, OldSrvTypeOK
  <2>7. OldSrvTypeOK' /\ Phase'
    BY <1>1, <2>2, <2>3, <2>4 DEF OldSrvTypeOK, Phase
  <2>8. (Positions /\ Ordered /\ Distinct /\ PilotFrameIsPilots)'
    BY <1>1 DEF Positions, Ordered, Distinct, PilotFrameIsPilots
  <2> QED
    BY <2>6, <2>7, <2>8
<1> QED
  BY <1>2, <1>3

\* Every step of the program or of its surroundings keeps the invariant.
LEMMA OldPilotStep == OldPilotInv /\ [OldSrvNext]_oldSrvVars => OldPilotInv'
<1> SUFFICES ASSUME OldPilotInv, [OldSrvNext]_oldSrvVars
             PROVE  OldPilotInv'
  OBVIOUS
<1>1. CASE OldServer
  <2>1. CASE Listen \/ ListenFails \/ CreateFails \/ SendSound \/ LeaveLoop
                 \/ ReadDone
    BY <2>1, LoopKeeps
  <2>2. CASE SelectOnly
    BY <2>2, SelectOnlyKeeps
  <2>3. CASE \E c \in Conn : SelectAccept(c)
    BY <2>3, SelectAcceptKeeps
  <2>4. CASE \E c \in Conn : ReadOne(c)
    BY <2>4, ReadOneKeeps
  <2>5. CASE \E failed \in SUBSET clis : SyncAndClean(failed)
    BY <2>5, SyncAndCleanKeeps
  <2> QED
    BY <1>1, <2>1, <2>2, <2>3, <2>4, <2>5 DEF OldServer
<1>2. CASE TimePasses \/ OldClients
  BY <1>2, OutsideKeeps
<1>3. CASE UNCHANGED oldSrvVars
  BY <1>3 DEF oldSrvVars, tcpState, tcpHistory, wires, OldPilotInv,
              OldSrvTypeOK, Phase, Positions, Ordered, Distinct,
              PilotFrameIsPilots, NobodyStays, Stays, ReadsOnlyTheGone
<1> QED
  BY <1>1, <1>2, <1>3 DEF OldSrvNext

LEMMA OldPilotAlways == OldSrvSpec => []OldPilotInv
  BY OldPilotInit, OldPilotStep, PTL DEF OldSrvSpec

-----------------------------------------------------------------------------
\* Whatever connects, closes, sends or fails, all the server keeps has its
\* type; no client that select() found readable has been removed meanwhile.
THEOREM OldServerTypeCorrect == OldSrvSpec => []OldSrvTypeOK
<1>1. OldPilotInv => OldSrvTypeOK
  BY DEF OldPilotInv
<1> QED
  BY <1>1, OldPilotAlways, PTL

\* Of all that are in the vector number 0 is the first that came, though most
\* of them are closed already: it is given only in an empty vector, and _clean,
\* which numbers them again while it walks over them, keeps the order.
THEOREM FirstInVectorIsPilot == OldSrvSpec => []OldFirstConnectedIsPilot
<1>1. OldPilotInv => OldFirstConnectedIsPilot
  BY DEF OldPilotInv, OldSrvTypeOK, Ordered, OldFirstConnectedIsPilot
<1> QED
  BY <1>1, OldPilotAlways, PTL

\* The frame the followers are compared with is never that of a client that
\* has been removed, or has another number by now.
THEOREM PilotFrameIsCurrent == OldSrvSpec => []PilotFrameIsPilots
<1>1. OldPilotInv => PilotFrameIsPilots
  BY DEF OldPilotInv
<1> QED
  BY <1>1, OldPilotAlways, PTL

\* A connection the server and its client both have open is one that this call
\* of pool() has accepted and is about to close: it serves nobody, for any
\* number of clients and any order of events.
THEOREM NobodyIsServed == OldSrvSpec => []NobodyStays
<1>1. OldPilotInv => NobodyStays
  BY DEF OldPilotInv
<1> QED
  BY <1>1, OldPilotAlways, PTL

\* And no report is read of a client that is still there.
THEOREM NoLivingReport == OldSrvSpec => []ReadsOnlyTheGone
<1>1. OldPilotInv => ReadsOnlyTheGone
  BY DEF OldPilotInv
<1> QED
  BY <1>1, OldPilotAlways, PTL
=============================================================================
