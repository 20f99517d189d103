------------------------------- MODULE TcpSrv -------------------------------
(***************************************************************************)
(* The server: the loop of srv/main.cpp, TcpSrv::qsend, TcpSrv::pool,      *)
(* TcpSrv::_clean and Clictx::rec of srv/tcpsrv.cpp.                       *)
(*                                                                         *)
(* One thread reads a chunk of sound from the pipe, sends it to every      *)
(* client, then accepts one connection, reads the reports that have come,  *)
(* removes the clients that are gone, and starts again.  Clients connect,  *)
(* report and close between any two of its steps.  A client is known by    *)
(* its IP address, the key of _clis; addresses are numbers because the map *)
(* is ordered by them.                                                     *)
(***************************************************************************)
EXTENDS Integers, FiniteSets

CONSTANTS
    Addr,       \* the clients' addresses
    Reports,    \* the reports a client may send: see ReportType
    Backlog     \* how many connections the kernel holds: the 8 of listen(8)

ASSUME AddrAssumption == Addr \subseteq Nat /\ IsFiniteSet(Addr)
ASSUME BacklogAssumption == Backlog \in Nat

\* cur_seq, cli_qlen, cli_qsize and cli_qoptim of a client's BufHdr.
ReportType == [seq : Nat \ {0}, qlen : Nat, qsize : Nat \ {0}, qoptim : Nat]

ASSUME ReportsAssumption == \A r \in Reports : r \in ReportType

Nobody == -1
NoReport == [seq |-> 0, qlen |-> 0, qsize |-> 0, qoptim |-> 0]

VARIABLES
    spc,        \* where the server is: "peek", "send", "pool" or "end"
    clis,       \* _clis: the addresses it keeps a Clictx for
    index,      \* _index of each of them; the pilot is the one with 0
    sock,       \* its socket is open at the server's end
    is_pilot,   \* _req.is_pilot: what its frames will tell it
    pilot,      \* _pilotseq, _pilot_qlen, _pilot_qsz, _pilot_qoptim
    newclient,  \* _newclient
    source,     \* history: whose report pilot is
    older,      \* history: the pairs of clients whose first was there first
    replaced,   \* history: a Clictx was replaced since the last _clean
    backlog,    \* connections the kernel holds, not accepted yet
    peer,       \* the client's end of the connection is open
    inbox       \* a report on its way to the server

srvState == <<clis, index, sock, is_pilot, pilot, newclient>>
history == <<source, older, replaced>>
netState == <<backlog, peer, inbox>>
srvVars == <<spc, srvState, history, netState>>

SrvInit ==
    /\ spc = "peek"
    /\ clis = {}
    /\ index = [a \in Addr |-> 0]
    /\ sock = [a \in Addr |-> FALSE]
    /\ is_pilot = [a \in Addr |-> FALSE]
    /\ pilot = NoReport
    /\ newclient = FALSE
    /\ source = Nobody /\ older = {} /\ replaced = FALSE
    /\ backlog = {}
    /\ peer = [a \in Addr |-> FALSE]
    /\ inbox = [a \in Addr |-> NoReport]

-----------------------------------------------------------------------------
(* The loop of main().                                                     *)

\* A chunk was read from the pipe.  While there is none the loop peeks
\* again and does nothing else, so nobody is accepted or removed.
ReadPipe ==
    /\ spc = "peek"
    /\ spc' = "send"
    /\ UNCHANGED <<srvState, history, netState>>

\* peek() has answered -1, which is select()'s or read()'s failure, and the
\* loop is left.
PipeFails ==
    /\ spc = "peek"
    /\ spc' = "end"
    /\ UNCHANGED <<srvState, history, netState>>

\* (Definitions that begin with Faulty are slips of the code that the
\* properties are to notice; no specification uses them.)
FaultyQSend(failed) ==
    /\ spc = "send"
    /\ spc' = "pool"
    /\ {a \in clis : ~sock[a]} \subseteq failed
    /\ failed \subseteq {a \in clis : sock[a] => ~peer[a]}
    /\ sock' = [a \in Addr |-> sock[a] /\ a \notin failed]
    /\ UNCHANGED <<clis, index, is_pilot, pilot, newclient, history, netState>>

\* qsend.  It fails for a socket that is closed, and fails or not for one
\* whose other end is gone; a client it fails for loses its socket.  After
\* a connection it forgets _pilotseq, not the other pilot data.
QSend(failed) ==
    /\ spc = "send"
    /\ spc' = "pool"
    /\ {a \in clis : ~sock[a]} \subseteq failed
    /\ failed \subseteq {a \in clis : sock[a] => ~peer[a]}
    /\ sock' = [a \in Addr |-> sock[a] /\ a \notin failed]
    /\ pilot' = IF newclient THEN [pilot EXCEPT !.seq = 0] ELSE pilot
    /\ newclient' = FALSE
    /\ UNCHANGED <<clis, index, is_pilot, history, netState>>

-----------------------------------------------------------------------------
(* pool(): select, accept one, rec from each that is readable, _clean.     *)

\* What select() finds to read on a client's socket: a report or the end.
ReadableFrom(a) == a \in clis /\ sock[a] /\ (inbox[a] # NoReport \/ ~peer[a])
Gone(a) == ReadableFrom(a) /\ inbox[a] = NoReport

\* rec(), for the clients other than new, the address accepted in this call:
\* the reports that are read.
HeardFrom(new) == {a \in clis \ new : ReadableFrom(a) /\ ~Gone(a)}

FaultyOpenAfter(new) == new \union {a \in clis : sock[a]}

\* The clients with a socket when all that is done.
OpenAfter(new) == new \union {a \in clis : sock[a] /\ ~Gone(a)}

FaultyIndexZero(new) == [a \in Addr |-> IF a \in new THEN 0 ELSE index[a]]

\* A new Clictx gets the length the map had before as its _index.  One that
\* was there for its address is destroyed and replaced by it.
AcceptedIndex(new) ==
    [a \in Addr |-> IF a \in new THEN Cardinality(clis) ELSE index[a]]

\* An accepted connection voids the pilot data; then the report of the
\* client with _index 0 replaces it.
PilotsIn(set) == {a \in set : index[a] = 0}
PilotReport(new) ==
    /\ source' = IF PilotsIn(HeardFrom(new)) # {}
                   THEN CHOOSE a \in PilotsIn(HeardFrom(new)) : TRUE
                   ELSE IF new = {} THEN source ELSE Nobody
    /\ pilot' = IF PilotsIn(HeardFrom(new)) # {} THEN inbox[source']
                ELSE IF new = {} THEN pilot ELSE NoReport

\* _clean, called if pool() found a socket closed when it began: who has no
\* socket is removed, the others are numbered from 0 in the order of their
\* addresses, and the pilot data is void.
MustClean == \E a \in clis : ~sock[a]
FaultyRank(live, a) == Cardinality({b \in live : b <= a})
Rank(live, a) == Cardinality({b \in live : b < a})
FaultyClean(live) ==
    /\ clis' = live
    /\ index' = [a \in Addr |-> IF a \in live THEN Rank(live, a) ELSE index[a]]
    /\ UNCHANGED <<pilot, source>>
    /\ replaced' = FALSE
Clean(live) ==
    /\ clis' = live
    /\ index' = [a \in Addr |-> IF a \in live THEN Rank(live, a) ELSE index[a]]
    /\ pilot' = NoReport
    /\ source' = Nobody
    /\ replaced' = FALSE

NoClean(new) ==
    /\ clis' = clis \union new
    /\ index' = AcceptedIndex(new)
    /\ PilotReport(new)
    /\ replaced' = (replaced \/ new \intersect clis # {})

Pool(new) ==
    /\ spc = "pool"
    /\ spc' = "peek"
    /\ backlog' = backlog \ new
    /\ peer' = [a \in Addr |-> peer[a] \/ a \in new]
    /\ inbox' = [a \in Addr |->
                    IF a \in new \union HeardFrom(new) THEN NoReport
                    ELSE inbox[a]]
    /\ sock' = [a \in Addr |-> a \in OpenAfter(new)]
    /\ is_pilot' = [a \in Addr |->
                       IF a \in HeardFrom(new) THEN index[a] = 0
                       ELSE is_pilot[a] /\ a \notin new]
    /\ newclient' = (newclient \/ new # {})
    /\ older' = {p \in older : p[1] \notin new /\ p[2] \notin new}
                    \union ((clis \ new) \X new)
    /\ IF MustClean THEN Clean(OpenAfter(new)) ELSE NoClean(new)

\* accept() takes a connection exactly when one waits.
AcceptOne == \E a \in backlog : Pool({a})
AcceptNone == backlog = {} /\ Pool({})

ServerStep ==
    \/ ReadPipe
    \/ PipeFails
    \/ \E failed \in SUBSET clis : QSend(failed)
    \/ AcceptOne
    \/ AcceptNone

-----------------------------------------------------------------------------
(* The clients.                                                            *)

\* A client connects; one at this address may be connected already, another
\* speaker of the same machine, or the same one after it lost the network.
ClientConnects(a) ==
    /\ a \notin backlog /\ Cardinality(backlog) < Backlog
    /\ backlog' = backlog \union {a}
    /\ UNCHANGED <<spc, srvState, history, peer, inbox>>

ClientCloses(a) ==
    /\ a \in clis /\ peer[a]
    /\ peer' = [peer EXCEPT ![a] = FALSE]
    /\ UNCHANGED <<spc, srvState, history, backlog, inbox>>

ClientReports(a) ==
    /\ a \in clis /\ sock[a] /\ peer[a] /\ inbox[a] = NoReport
    /\ \E r \in Reports : inbox' = [inbox EXCEPT ![a] = r]
    /\ UNCHANGED <<spc, srvState, history, backlog, peer>>

ClientStep ==
    \E a \in Addr : ClientConnects(a) \/ ClientCloses(a) \/ ClientReports(a)

SrvNext == ServerStep \/ ClientStep

SrvSpec == SrvInit /\ [][SrvNext]_srvVars

\* The sockets block: sendall, in qsend, waits as long as a client that is
\* there does not read what it was sent.
MayBlock == spc = "send" /\ \E a \in clis : sock[a] /\ peer[a]

\* Music keeps coming, and the server runs on wherever it cannot be blocked.
\* Nothing is assumed of the clients, not even that they read.
SrvFairSpec ==
    /\ SrvSpec
    /\ WF_srvVars(ReadPipe)
    /\ WF_srvVars(ServerStep /\ ~MayBlock)

-----------------------------------------------------------------------------
(* Properties.                                                             *)

SrvTypeOK ==
    /\ spc \in {"peek", "send", "pool", "end"}
    /\ clis \subseteq Addr
    /\ index \in [Addr -> Nat]
    /\ sock \in [Addr -> BOOLEAN] /\ is_pilot \in [Addr -> BOOLEAN]
    /\ pilot \in [seq : Nat, qlen : Nat, qsize : Nat, qoptim : Nat]
    /\ newclient \in BOOLEAN
    /\ source \in Addr \union {Nobody}
    /\ older \subseteq Addr \X Addr /\ replaced \in BOOLEAN
    /\ backlog \subseteq Addr /\ peer \in [Addr -> BOOLEAN]
    /\ inbox \in [Addr -> Reports \union {NoReport}]

Pilots == PilotsIn(clis)

\* Two clients are never both number 0, the one whose reports steer the
\* server's pace, although _index is given at accept, and given again by
\* _clean, and two clients may well share another number.
AtMostOnePilot == \A a, b \in Pilots : a = b

\* The pilot data the server sends out and paces itself by is the report of
\* the client that is the pilot now, never of one that was: it is voided
\* whenever a connection is replaced, removed or renumbered.
PilotDataIsPilots == pilot.qsize # 0 => source \in Pilots

\* While anybody is connected somebody is the pilot, unless a client came
\* back to an address still in _clis, and nobody was removed since.
PilotUnlessReplaced == clis # {} => replaced \/ Pilots # {}

\* A client that is gone is forgotten, however its going, the others'
\* connections and reports, and the sends in between are ordered, unless the
\* server waits for ever to send to a client that is not gone.
GoneIsRemoved ==
    <>[]MayBlock \/ \A a \in Addr :
        (a \in clis /\ ~peer[a]) ~> (a \notin clis \/ peer[a] \/ spc = "end")

\* README.md: "The first connected client has the pilot role.  When this
\* disconnects the second connected takes the pilot role."
FirstConnectedIsPilot ==
    \A a \in Pilots, b \in clis : sock[b] => <<b, a>> \notin older
=============================================================================
