---------------------------- MODULE ServerProofs ----------------------------
(***************************************************************************)
(* The server, alone and among its speakers, for every set of clients,     *)
(* every set of reports and every length of the listen queue.              *)
(*                                                                         *)
(* Who is the pilot: the induction is on the type invariant and the three  *)
(* pilot invariants of TcpSrv together: a report is kept as the pilot's    *)
(* only while its sender is still number 0, and there is one number 0      *)
(* because accept gives it only to the first of an empty map and _clean    *)
(* only to the lowest address.                                             *)
(*                                                                         *)
(* Every behaviour of Speakers is one of TcpSrv, so what is proved of the  *)
(* server holds among speakers that answer as the client's code does; and, *)
(* for any number of them, none ever answers.                              *)
(***************************************************************************)
EXTENDS Speakers, FiniteSetTheorems, WellFoundedInduction, TLAPS

PilotInv ==
    /\ SrvTypeOK
    /\ AtMostOnePilot
    /\ PilotDataIsPilots
    /\ PilotUnlessReplaced

\* A set of addresses that is not empty has a lowest one: the client _clean
\* gives the number 0.
LEMMA LowestAddress ==
    ASSUME NEW S \in SUBSET Addr, S # {}
    PROVE  \E m \in S : \A b \in S : ~(b < m)
<1>1. S \subseteq Nat
  BY AddrAssumption
<1>2. PICK m \in S : \A b \in S : ~(<<b, m>> \in OpToRel(<, Nat))
  BY <1>1, NatLessThanWellFounded, WFMin
<1>3. \A b \in S : b < m => <<b, m>> \in OpToRel(<, Nat)
  BY <1>1 DEF OpToRel
<1> QED
  BY <1>2, <1>3

\* _clean's numbers: 0 is the lowest address's, and nobody else's.
LEMMA RankZero ==
    ASSUME NEW S \in SUBSET Addr, NEW a \in S
    PROVE  /\ Rank(S, a) \in Nat
           /\ Rank(S, a) = 0 <=> \A b \in S : ~(b < a)
<1> DEFINE below == {b \in S : b < a}
<1>1. IsFiniteSet(below)
  BY AddrAssumption, FS_Subset
<1>2. Cardinality(below) \in Nat /\ (Cardinality(below) = 0 <=> below = {})
  BY <1>1, FS_CardinalityType, FS_EmptySet
<1>3. Rank(S, a) = Cardinality(below)
  BY DEF Rank
<1> QED
  BY <1>2, <1>3

\* The length of the map is a number, 0 only for the empty map.
LEMMA MapLength ==
    ASSUME NEW S \in SUBSET Addr
    PROVE  Cardinality(S) \in Nat /\ (Cardinality(S) = 0 <=> S = {})
<1>1. IsFiniteSet(S)
  BY AddrAssumption, FS_Subset
<1> QED
  BY <1>1, FS_CardinalityType, FS_EmptySet

-----------------------------------------------------------------------------
LEMMA PilotInit == SrvInit => PilotInv
<1> SUFFICES ASSUME SrvInit
             PROVE  PilotInv
  OBVIOUS
<1>1. SrvTypeOK
  <2>1. /\ index \in [Addr -> Nat] /\ inbox \in [Addr -> Reports \union {NoReport}]
        /\ pilot \in [seq : Nat, qlen : Nat, qsize : Nat, qoptim : Nat]
    BY DEF SrvInit, NoReport
  <2>2. /\ sock \in [Addr -> BOOLEAN] /\ is_pilot \in [Addr -> BOOLEAN]
        /\ peer \in [Addr -> BOOLEAN]
    BY Zenon DEF SrvInit
  <2> QED
    BY <2>1, <2>2 DEF SrvInit, SrvTypeOK
<1>2. AtMostOnePilot /\ PilotUnlessReplaced
  BY DEF SrvInit, AtMostOnePilot, PilotUnlessReplaced, Pilots, PilotsIn
<1>3. PilotDataIsPilots
  BY DEF SrvInit, PilotDataIsPilots, NoReport
<1> QED
  BY <1>1, <1>2, <1>3 DEF PilotInv

\* A report is made of numbers.
LEMMA ReportNumbers ==
    Reports \union {NoReport}
        \subseteq [seq : Nat, qlen : Nat, qsize : Nat, qoptim : Nat]
BY ReportsAssumption DEF ReportType, NoReport

\* What a pool() does to the sockets, the clients' ends and the rest, with or
\* without _clean.
LEMMA PoolTypes ==
    ASSUME SrvTypeOK, NEW new \in SUBSET backlog, Pool(new)
    PROVE  /\ spc' = "peek" /\ backlog' \subseteq Addr
           /\ peer' \in [Addr -> BOOLEAN] /\ newclient' \in BOOLEAN
           /\ sock' \in [Addr -> BOOLEAN] /\ is_pilot' \in [Addr -> BOOLEAN]
           /\ inbox' \in [Addr -> Reports \union {NoReport}]
           /\ older' \subseteq Addr \X Addr
<1>1. clis \subseteq Addr /\ new \subseteq Addr
  BY DEF SrvTypeOK
<1>2. /\ spc' = "peek" /\ backlog' \subseteq Addr
      /\ peer' \in [Addr -> BOOLEAN] /\ newclient' \in BOOLEAN
  BY <1>1 DEF Pool, SrvTypeOK
<1>3. sock' \in [Addr -> BOOLEAN]
  <2> DEFINE open == [a \in Addr |-> a \in OpenAfter(new)]
  <2>1. \A a \in Addr : (a \in OpenAfter(new)) \in BOOLEAN
    OBVIOUS
  <2>2. sock' = open
    BY DEF Pool
  <2> QED
    BY <2>1, <2>2, Zenon
<1>4. is_pilot' \in [Addr -> BOOLEAN]
  BY DEF Pool, SrvTypeOK
<1>5. inbox' \in [Addr -> Reports \union {NoReport}]
  BY DEF Pool, SrvTypeOK
<1>6. older' \subseteq Addr \X Addr
  BY <1>1 DEF Pool, SrvTypeOK
<1> QED
  BY <1>2, <1>3, <1>4, <1>5, <1>6

\* A pool() without _clean: accept and rec.
LEMMA NoCleanKeeps ==
    ASSUME PilotInv, NEW new \in SUBSET backlog,
           new = {} \/ \E a \in backlog : new = {a},
           Pool(new), NoClean(new)
    PROVE  PilotInv'
<1> USE DEF PilotInv
<1>1. clis \subseteq Addr /\ new \subseteq Addr
  BY DEF SrvTypeOK
<1>2. Cardinality(clis) \in Nat /\ (Cardinality(clis) = 0 <=> clis = {})
  BY <1>1, MapLength
<1>3. clis' = clis \union new
  BY DEF NoClean
<1>4. \A a \in Addr :
         index'[a] = IF a \in new THEN Cardinality(clis) ELSE index[a]
  BY DEF NoClean, AcceptedIndex
<1>5. HeardFrom(new) \subseteq clis \ new
  BY DEF HeardFrom
<1>6. /\ PilotsIn(HeardFrom(new)) # {}
      /\ source' \in PilotsIn(HeardFrom(new)) /\ pilot' = inbox[source']
      \/ /\ new = {} /\ source' = source /\ pilot' = pilot
      \/ /\ source' = Nobody /\ pilot' = NoReport
  <2>1. PilotReport(new)
    BY DEF NoClean
  <2> QED
    BY <2>1 DEF PilotReport
<1>7. SrvTypeOK'
  <2>1. index' \in [Addr -> Nat]
    BY <1>2 DEF NoClean, AcceptedIndex, SrvTypeOK
  <2>2. /\ pilot' \in [seq : Nat, qlen : Nat, qsize : Nat, qoptim : Nat]
        /\ source' \in Addr \union {Nobody}
    BY <1>1, <1>5, <1>6, ReportNumbers DEF SrvTypeOK, PilotsIn, Nobody
  <2>3. replaced' \in BOOLEAN
    BY DEF NoClean, SrvTypeOK
  <2> QED
    BY <1>1, <1>3, <2>1, <2>2, <2>3, PoolTypes DEF SrvTypeOK
<1>8. AtMostOnePilot'
  <2> SUFFICES ASSUME NEW a \in clis', NEW b \in clis',
                      index'[a] = 0, index'[b] = 0
               PROVE  a = b
    BY DEF AtMostOnePilot, Pilots, PilotsIn
  <2>1. CASE clis = {}
    BY <1>3, <2>1
  <2>2. CASE clis # {}
    <3>1. a \notin new /\ b \notin new
      BY <1>1, <1>2, <1>4, <2>2
    <3> QED
      BY <1>1, <1>3, <1>4, <3>1 DEF AtMostOnePilot, Pilots, PilotsIn
  <2> QED
    BY <2>1, <2>2
<1>9. PilotDataIsPilots'
  <2>1. CASE source' \in PilotsIn(HeardFrom(new))
    <3>1. source' \in clis \ new /\ index[source'] = 0
      BY <1>5, <2>1 DEF PilotsIn
    <3>2. source' \in clis' /\ index'[source'] = 0
      BY <1>1, <1>3, <1>4, <3>1
    <3> QED
      BY <3>2 DEF PilotDataIsPilots, Pilots, PilotsIn
  <2>2. CASE new = {} /\ source' = source /\ pilot' = pilot
    <3>1. index' = index
      BY <2>2 DEF NoClean, AcceptedIndex, SrvTypeOK
    <3> QED
      BY <1>3, <2>2, <3>1 DEF PilotDataIsPilots, Pilots, PilotsIn
  <2>3. CASE pilot' = NoReport
    BY <2>3 DEF PilotDataIsPilots, NoReport
  <2> QED
    BY <1>6, <2>1, <2>2, <2>3
<1>10. PilotUnlessReplaced'
  <2> SUFFICES ASSUME clis' # {}, ~replaced'
               PROVE  \E a \in clis' : index'[a] = 0
    BY DEF PilotUnlessReplaced, Pilots, PilotsIn
  <2>1. ~replaced /\ new \intersect clis = {}
    BY DEF NoClean
  <2>2. CASE clis = {}
    BY <1>1, <1>2, <1>3, <1>4, <2>2
  <2>3. CASE clis # {}
    <3>1. PICK a \in clis : index[a] = 0
      BY <2>1, <2>3 DEF PilotUnlessReplaced, Pilots, PilotsIn
    <3> QED
      BY <1>1, <1>3, <1>4, <2>1, <3>1
  <2> QED
    BY <2>2, <2>3
<1> QED
  BY <1>7, <1>8, <1>9, <1>10

\* A pool() with _clean.
LEMMA CleanKeeps ==
    ASSUME PilotInv, NEW new \in SUBSET backlog,
           Pool(new), Clean(OpenAfter(new))
    PROVE  PilotInv'
<1> USE DEF PilotInv
<1> DEFINE live == OpenAfter(new)
<1>1. live \subseteq Addr
  BY DEF SrvTypeOK, OpenAfter
<1>2. /\ clis' = live /\ pilot' = NoReport
      /\ source' = Nobody /\ replaced' = FALSE
  BY DEF Clean
<1>3. \A a \in live : index'[a] = Rank(live, a)
  BY <1>1 DEF Clean
<1> HIDE DEF live
<1>4. \A a \in live : index'[a] = 0 <=> \A b \in live : ~(b < a)
  BY <1>1, <1>3, RankZero
<1>5. SrvTypeOK'
  <2>1. index' \in [Addr -> Nat]
    <3>1. \A a \in Addr :
             (IF a \in live THEN Rank(live, a) ELSE index[a]) \in Nat
      BY <1>1, RankZero DEF SrvTypeOK
    <3> QED
      BY <3>1 DEF Clean, live
  <2>2. pilot' \in [seq : Nat, qlen : Nat, qsize : Nat, qoptim : Nat]
    BY <1>2 DEF NoReport
  <2> QED
    BY <1>1, <1>2, <2>1, <2>2, PoolTypes DEF SrvTypeOK
<1>6. AtMostOnePilot'
  <2> SUFFICES ASSUME NEW a \in live, NEW b \in live,
                      index'[a] = 0, index'[b] = 0
               PROVE  a = b
    BY <1>2 DEF AtMostOnePilot, Pilots, PilotsIn
  <2>1. ~(a < b) /\ ~(b < a)
    BY <1>4
  <2> QED
    BY <1>1, <2>1, AddrAssumption
<1>7. PilotDataIsPilots'
  BY <1>2 DEF PilotDataIsPilots, NoReport
<1>8. PilotUnlessReplaced'
  <2> SUFFICES ASSUME live # {}
               PROVE  \E a \in live : index'[a] = 0
    BY <1>2 DEF PilotUnlessReplaced, Pilots, PilotsIn
  <2>1. PICK m \in live : \A b \in live : ~(b < m)
    BY <1>1, LowestAddress
  <2> QED
    BY <1>4, <2>1
<1> QED
  BY <1>5, <1>6, <1>7, <1>8

\* What the pilot invariants speak of changes in pool() only; qsend() may
\* forget pilot's seq, which they do not mention.
LEMMA PilotFrame ==
    ASSUME PilotInv, SrvTypeOK',
           clis' = clis, index' = index, source' = source,
           replaced' = replaced, pilot'.qsize = pilot.qsize
    PROVE  PilotInv'
BY DEF PilotInv, AtMostOnePilot, PilotDataIsPilots, PilotUnlessReplaced,
       Pilots, PilotsIn

LEMMA PilotStep == PilotInv /\ [SrvNext]_srvVars => PilotInv'
<1> SUFFICES ASSUME PilotInv, [SrvNext]_srvVars
             PROVE  PilotInv'
  OBVIOUS
<1>0. SrvTypeOK
  BY DEF PilotInv
<1>1. CASE ReadPipe \/ PipeFails
  <2>1. SrvTypeOK'
    BY <1>0, <1>1 DEF ReadPipe, PipeFails, srvState, history, netState, SrvTypeOK
  <2> QED
    BY <1>1, <2>1, PilotFrame DEF ReadPipe, PipeFails, srvState, history
<1>2. CASE \E failed \in SUBSET clis : QSend(failed)
  <2>1. PICK failed \in SUBSET clis : QSend(failed)
    BY <1>2
  <2>2. pilot' \in [seq : Nat, qlen : Nat, qsize : Nat, qoptim : Nat]
        /\ pilot'.qsize = pilot.qsize
    BY <1>0, <2>1 DEF QSend, SrvTypeOK
  <2>3. sock' \in [Addr -> BOOLEAN]
    <3>1. \A a \in Addr : (sock[a] /\ a \notin failed) \in BOOLEAN
      BY <1>0 DEF SrvTypeOK
    <3>2. sock' = [a \in Addr |-> sock[a] /\ a \notin failed]
      BY <2>1 DEF QSend
    <3> QED
      BY <3>1, <3>2, Zenon
  <2>4. SrvTypeOK'
    BY <1>0, <2>1, <2>2, <2>3 DEF QSend, history, netState, SrvTypeOK
  <2> QED
    BY <2>1, <2>2, <2>4, PilotFrame DEF QSend, history
<1>3. CASE AcceptOne \/ AcceptNone
  <2>1. PICK new \in SUBSET backlog :
           /\ new = {} \/ \E a \in backlog : new = {a}
           /\ Pool(new)
    BY <1>3 DEF AcceptOne, AcceptNone
  <2>2. Clean(OpenAfter(new)) \/ NoClean(new)
    BY <2>1 DEF Pool
  <2> QED
    BY <2>1, <2>2, CleanKeeps, NoCleanKeeps
<1>4. CASE ClientStep
  <2>1. PICK a \in Addr :
           ClientConnects(a) \/ ClientCloses(a) \/ ClientReports(a)
    BY <1>4 DEF ClientStep
  <2>2. SrvTypeOK'
    BY <1>0, <2>1 DEF ClientConnects, ClientCloses, ClientReports, srvState,
                      history, SrvTypeOK
  <2> QED
    BY <2>1, <2>2, PilotFrame
       DEF ClientConnects, ClientCloses, ClientReports, srvState, history
<1>5. CASE UNCHANGED srvVars
  <2>1. SrvTypeOK'
    BY <1>0, <1>5 DEF srvVars, srvState, history, netState, SrvTypeOK
  <2> QED
    BY <1>5, <2>1, PilotFrame DEF srvVars, srvState, history
<1> QED
  BY <1>1, <1>2, <1>3, <1>4, <1>5 DEF SrvNext, ServerStep

-----------------------------------------------------------------------------
\* The inductive invariant holds in every state of the server.
THEOREM PilotInvariant == SrvSpec => []PilotInv
<1> QED
  BY PilotInit, PilotStep, PTL DEF SrvSpec

\* The server's state stays in its type, whatever the clients do.
THEOREM ServerTypeCorrect == SrvSpec => []SrvTypeOK
<1>1. PilotInv => SrvTypeOK
  BY DEF PilotInv
<1> QED
  BY <1>1, PilotInvariant, PTL

\* accept() and _clean() never make two clients number 0 (tcpsrv.cpp:154,215).
THEOREM NeverTwoPilots == SrvSpec => []AtMostOnePilot
<1>1. PilotInv => AtMostOnePilot
  BY DEF PilotInv
<1> QED
  BY <1>1, PilotInvariant, PTL

\* The pilot data that paces the server is the present pilot's, never of one
\* that was replaced, removed or renumbered (tcpsrv.cpp:168-173,218-223,264).
THEOREM PilotDataIsCurrent == SrvSpec => []PilotDataIsPilots
<1>1. PilotInv => PilotDataIsPilots
  BY DEF PilotInv
<1> QED
  BY <1>1, PilotInvariant, PTL

\* The only way to have clients and no pilot is a second connection from an
\* address that is still in the map (tcpsrv.cpp:160-166).
THEOREM PilotLostOnlyByReplacement == SrvSpec => []PilotUnlessReplaced
<1>1. PilotInv => PilotUnlessReplaced
  BY DEF PilotInv
<1> QED
  BY <1>1, PilotInvariant, PTL

-----------------------------------------------------------------------------
(* The server and its speakers.                                            *)

SilentInv == SpeakersTypeOK /\ NeverPiloted

-----------------------------------------------------------------------------
\* What the speakers and the wire do is, to the server, a step of one of its
\* clients or nothing.
LEMMA SpeakersStepIsSrvStep == [SpeakersNext]_speakersVars => [SrvNext]_srvVars
<1> SUFFICES ASSUME [SpeakersNext]_speakersVars
             PROVE  [SrvNext]_srvVars
  OBVIOUS
<1>1. CASE ServerTurn
  BY <1>1 DEF ServerTurn, Send, Turn, SrvNext, ServerStep
<1>2. CASE TimePasses
  BY <1>2 DEF TimePasses
<1>3. CASE \E a \in Addr : Speaker(a)
  <2>1. PICK a \in Addr : Speaker(a)
    BY <1>3
  <2>2. ClientStep \/ UNCHANGED srvVars
    BY <2>1 DEF Speaker, Plays, Receives, Connects, Closes, ClientStep
  <2> QED
    BY <2>2 DEF SrvNext
<1>4. CASE UNCHANGED speakersVars
  BY <1>4 DEF speakersVars
<1> QED
  BY <1>1, <1>2, <1>3, <1>4 DEF SpeakersNext

\* Speakers implements TcpSrv.
THEOREM SpeakersImplementTcpSrv == SpeakersSpec => SrvSpec
<1>1. SpeakersInit => SrvInit
  BY DEF SpeakersInit
<1> QED
  BY <1>1, SpeakersStepIsSrvStep, PTL DEF SpeakersSpec, SrvSpec

-----------------------------------------------------------------------------
LEMMA SilentInit == SpeakersInit => SilentInv
<1> SUFFICES ASSUME SpeakersInit
             PROVE  SilentInv
  OBVIOUS
<1>1. SrvTypeOK
  BY PilotInit DEF SpeakersInit, PilotInv
<1>2. \A a \in Addr : wire[a] = <<>>
  BY DEF SpeakersInit
<1>3. wire \in [Addr -> Seq(FrameType)]
  BY DEF SpeakersInit
<1>4. waiting \in [Addr -> BOOLEAN]
  BY Zenon DEF SpeakersInit
<1>5. SpeakersTypeOK
  BY <1>1, <1>2, <1>3, <1>4, WindowAssumption DEF SpeakersInit, SpeakersTypeOK
<1>6. Unpiloted
  BY DEF SpeakersInit, SrvInit, Unpiloted
<1>7. NeverPiloted
  BY <1>2, <1>6 DEF NeverPiloted
<1> QED
  BY <1>5, <1>7 DEF SilentInv

\* Appending a frame without a pilot_seq, and taking one off, keep the frames
\* of a stream without.
LEMMA SilentAppend ==
    ASSUME NEW s \in Seq(FrameType), NEW f \in FrameType, f.pilot_seq = 0,
           Len(s) < Window,
           \A i \in 1 .. Window : i <= Len(s) => s[i].pilot_seq = 0
    PROVE  /\ Append(s, f) \in Seq(FrameType)
           /\ Len(Append(s, f)) <= Window
           /\ \A i \in 1 .. Window :
                i <= Len(Append(s, f)) => Append(s, f)[i].pilot_seq = 0
BY WindowAssumption

LEMMA SilentTail ==
    ASSUME NEW s \in Seq(FrameType), s # <<>>, Len(s) <= Window,
           \A i \in 1 .. Window : i <= Len(s) => s[i].pilot_seq = 0
    PROVE  /\ Tail(s) \in Seq(FrameType)
           /\ Len(Tail(s)) <= Window
           /\ \A i \in 1 .. Window :
                i <= Len(Tail(s)) => Tail(s)[i].pilot_seq = 0
           /\ Head(s).pilot_seq = 0
BY WindowAssumption

\* A server that has heard no report, and hears none, stays unpiloted.
LEMMA ServerStaysUnpiloted ==
    ASSUME SrvTypeOK, Unpiloted, ServerStep
    PROVE  Unpiloted'
<1>1. CASE ReadPipe \/ PipeFails
  BY <1>1 DEF ReadPipe, PipeFails, srvState, netState, Unpiloted
<1>2. CASE \E failed \in SUBSET clis : QSend(failed)
  BY <1>2 DEF QSend, netState, Unpiloted, NoReport
<1>3. CASE AcceptOne \/ AcceptNone
  <2>1. PICK new \in SUBSET backlog : Pool(new)
    BY <1>3 DEF AcceptOne, AcceptNone
  <2>2. clis \subseteq Addr
    BY DEF SrvTypeOK
  <2>3. HeardFrom(new) = {}
    BY <2>2 DEF HeardFrom, ReadableFrom, Gone, Unpiloted
  <2>4. \A a \in Addr : inbox'[a] = NoReport /\ ~is_pilot'[a]
    BY <2>1, <2>3 DEF Pool, Unpiloted
  <2>5. pilot' = NoReport
    <3>1. CASE Clean(OpenAfter(new))
      BY <3>1 DEF Clean
    <3>2. CASE NoClean(new)
      BY <2>3, <3>2 DEF NoClean, PilotReport, PilotsIn, Unpiloted
    <3> QED
      BY <2>1, <3>1, <3>2 DEF Pool
  <2> QED
    BY <2>4, <2>5 DEF Unpiloted
<1> QED
  BY <1>1, <1>2, <1>3 DEF ServerStep

\* What is on the wires after a step, if nothing but them need be looked at.
SilentWires ==
    /\ wire \in [Addr -> Seq(FrameType)]
    /\ \A a \in Addr : Len(wire[a]) <= Window
    /\ \A a \in Addr, i \in 1 .. Window :
        i <= Len(wire[a]) => wire[a][i].pilot_seq = 0

LEMMA SilentParts ==
    SilentInv <=> /\ SrvTypeOK /\ Unpiloted /\ SilentWires
                  /\ due \in BOOLEAN /\ waiting \in [Addr -> BOOLEAN]
BY DEF SilentInv, SpeakersTypeOK, NeverPiloted, SilentWires

LEMMA SilentPartsNext ==
    ASSUME SrvTypeOK', Unpiloted', SilentWires', due' \in BOOLEAN,
           waiting' \in [Addr -> BOOLEAN]
    PROVE  SilentInv'
BY DEF SilentInv, SpeakersTypeOK, NeverPiloted, SilentWires

LEMMA SilentServerTurn ==
    ASSUME SilentInv, SrvTypeOK', ServerTurn
    PROVE  SilentInv'
<1>1. /\ SrvTypeOK /\ Unpiloted /\ SilentWires
      /\ due \in BOOLEAN /\ waiting \in [Addr -> BOOLEAN]
  BY SilentParts
<1>2. Unpiloted'
  <2>1. ServerStep
    BY DEF ServerTurn, Send, Turn, ServerStep
  <2> QED
    BY <1>1, <2>1, ServerStaysUnpiloted
<1>3. SilentWires' /\ due' \in BOOLEAN /\ waiting' = waiting
  <2>1. CASE Turn
    <3>1. wire' = [a \in Addr |->
                     IF a \in backlog \ backlog' THEN <<>> ELSE wire[a]]
      BY <2>1 DEF Turn
    <3>2. wire' \in [Addr -> Seq(FrameType)]
      BY <1>1, <3>1 DEF SilentWires
    <3>3. \A a \in Addr : wire'[a] = wire[a] \/ wire'[a] = <<>>
      BY <3>1
    <3> QED
      BY <1>1, <2>1, <3>2, <3>3, WindowAssumption DEF Turn, SilentWires
  <2>2. CASE \E failed \in SUBSET clis : Send(failed)
    <3>1. PICK failed \in SUBSET clis : Send(failed)
      BY <2>2
    <3>2. \A a \in Addr : Frame(a) \in FrameType /\ Frame(a).pilot_seq = 0
      <4>1. pilot.seq = 0
        BY <1>1 DEF Unpiloted, NoReport
      <4>2. \A a \in Addr : is_pilot[a] \in BOOLEAN
        BY <1>1 DEF SrvTypeOK
      <4>3. SyncNow \in BOOLEAN
        BY <1>1 DEF SyncNow, SrvTypeOK
      <4> QED
        BY <4>1, <4>2, <4>3 DEF Frame, FrameType
    <3>3. \A a \in Addr :
             /\ wire'[a] \in Seq(FrameType)
             /\ Len(wire'[a]) <= Window
             /\ \A i \in 1 .. Window :
                  i <= Len(wire'[a]) => wire'[a][i].pilot_seq = 0
      <4> TAKE a \in Addr
      <4>1. CASE a \in ReadersOf(failed)
        <5>1. Len(wire[a]) < Window /\ wire'[a] = Append(wire[a], Frame(a))
          BY <3>1, <4>1 DEF Send
        <5> QED
          BY <1>1, <3>2, <5>1, SilentAppend DEF SilentWires
      <4>2. CASE a \notin ReadersOf(failed)
        <5>1. wire'[a] = wire[a]
          BY <3>1, <4>2 DEF Send
        <5> QED
          BY <1>1, <5>1 DEF SilentWires
      <4> QED
        BY <4>1, <4>2
    <3>4. wire' \in [Addr -> Seq(FrameType)]
      BY <3>1, <3>3 DEF Send
    <3>5. due' \in BOOLEAN /\ waiting' = waiting
      BY <3>1 DEF Send
    <3> QED
      BY <3>3, <3>4, <3>5 DEF SilentWires
  <2> QED
    BY <2>1, <2>2 DEF ServerTurn
<1> QED
  BY <1>1, <1>2, <1>3, SilentPartsNext

LEMMA SilentSpeaker ==
    ASSUME SilentInv, SrvTypeOK', NEW a \in Addr, Speaker(a)
    PROVE  SilentInv'
<1>1. /\ SrvTypeOK /\ Unpiloted /\ SilentWires
      /\ due \in BOOLEAN /\ waiting \in [Addr -> BOOLEAN]
  BY SilentParts
<1>2. CASE Plays(a)
  <2>1. UNCHANGED <<srvVars, due, wire>>
    BY <1>2 DEF Plays
  <2>2. waiting' \in [Addr -> BOOLEAN]
    BY <1>1, <1>2 DEF Plays
  <2>3. Unpiloted' /\ SilentWires'
    BY <1>1, <2>1 DEF srvVars, srvState, netState, Unpiloted, SilentWires
  <2> QED
    BY <1>1, <2>1, <2>2, <2>3, SilentPartsNext
<1>3. CASE Connects(a)
  <2>1. Unpiloted' /\ SilentWires' /\ due' = due /\ waiting' = waiting
    BY <1>1, <1>3 DEF Connects, ClientConnects, srvState, Unpiloted, SilentWires
  <2> QED
    BY <1>1, <2>1, SilentPartsNext
<1>4. CASE Closes(a)
  <2>1. Unpiloted' /\ due' = due /\ waiting' = waiting
    BY <1>1, <1>4 DEF Closes, ClientCloses, srvState, Unpiloted
  <2>2. wire' = [wire EXCEPT ![a] = <<>>]
    BY <1>4 DEF Closes
  <2>3. SilentWires'
    BY <1>1, <2>2, WindowAssumption DEF SilentWires
  <2> QED
    BY <1>1, <2>1, <2>3, SilentPartsNext
<1>5. CASE Receives(a)
  <2>1. /\ Tail(wire[a]) \in Seq(FrameType)
        /\ Len(Tail(wire[a])) <= Window
        /\ \A i \in 1 .. Window :
             i <= Len(Tail(wire[a])) => Tail(wire[a])[i].pilot_seq = 0
        /\ Head(wire[a]).pilot_seq = 0
    BY <1>1, <1>5, SilentTail DEF Receives, SilentWires
  <2>2. UNCHANGED <<srvVars, due, waiting>>
    BY <1>5, <2>1 DEF Receives, Answers
  <2>3. wire' = [wire EXCEPT ![a] = Tail(wire[a])]
    BY <1>5 DEF Receives
  <2>4. SilentWires'
    BY <1>1, <2>1, <2>3 DEF SilentWires
  <2>5. Unpiloted'
    BY <1>1, <2>2 DEF Unpiloted, srvVars, srvState, netState
  <2> QED
    BY <1>1, <2>2, <2>4, <2>5, SilentPartsNext
<1> QED
  BY <1>2, <1>3, <1>4, <1>5 DEF Speaker

LEMMA SilentStep ==
    SilentInv /\ SrvTypeOK' /\ [SpeakersNext]_speakersVars => SilentInv'
<1> SUFFICES ASSUME SilentInv, SrvTypeOK', [SpeakersNext]_speakersVars
             PROVE  SilentInv'
  OBVIOUS
<1>1. CASE ServerTurn
  BY <1>1, SilentServerTurn
<1>2. CASE TimePasses \/ UNCHANGED speakersVars
  <2>1. /\ SrvTypeOK /\ Unpiloted /\ SilentWires
        /\ due \in BOOLEAN /\ waiting \in [Addr -> BOOLEAN]
    BY SilentParts
  <2>2. UNCHANGED <<srvVars, wire, waiting>> /\ due' \in BOOLEAN
    BY <1>2, <2>1 DEF TimePasses, speakersVars
  <2>3. Unpiloted' /\ SilentWires'
    BY <2>1, <2>2 DEF srvVars, srvState, netState, Unpiloted, SilentWires
  <2> QED
    BY <2>1, <2>2, <2>3, SilentPartsNext
<1>3. CASE \E a \in Addr : Speaker(a)
  BY <1>3, SilentSpeaker
<1> QED
  BY <1>1, <1>2, <1>3 DEF SpeakersNext

-----------------------------------------------------------------------------
\* The handshake of sclient.cpp:110 and tcpsrv.cpp:74,266 never starts: for
\* any number of speakers no report is ever sent, and every frame names 0 as
\* the pilot's.
THEOREM HandshakeNeverStarts == SpeakersSpec => []NeverPiloted
<1>1. SpeakersSpec => []SrvTypeOK
  BY SpeakersImplementTcpSrv, ServerTypeCorrect, PTL
<1>2. SpeakersSpec => []SilentInv
  BY <1>1, SilentInit, SilentStep, PTL DEF SpeakersSpec
<1>3. SilentInv => NeverPiloted
  BY DEF SilentInv
<1> QED
  BY <1>2, <1>3, PTL

\* The types of the wires and of the server, and no wire overflows.
THEOREM SpeakersTypeCorrect == SpeakersSpec => []SpeakersTypeOK
<1>1. SpeakersSpec => []SrvTypeOK
  BY SpeakersImplementTcpSrv, ServerTypeCorrect, PTL
<1>2. SpeakersSpec => []SilentInv
  BY <1>1, SilentInit, SilentStep, PTL DEF SpeakersSpec
<1>3. SilentInv => SpeakersTypeOK
  BY DEF SilentInv
<1> QED
  BY <1>2, <1>3, PTL
=============================================================================
