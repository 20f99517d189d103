----------------------------- MODULE OldTcpSrv ------------------------------
(***************************************************************************)
(* The old, multicast server: the loop of RunCtx::server                   *)
(* (serversrc/main.cpp) and its TCP side, TcpSrv and Clictx of             *)
(* common/tcpsrv.cpp.                                                      *)
(*                                                                         *)
(* Sound goes out by multicast; the connections carry only sync messages   *)
(* from the server and reports from the clients.  One thread reads a chunk *)
(* of sound, sends it to the group and then calls pool(), which accepts    *)
(* one connection, reads what has come, every QOS_TOUTMIN sends a sync     *)
(* message to everybody and removes the clients whose socket is closed;    *)
(* whoever the message could be sent to is closed by that.                 *)
(* Browsers come to the same port.  A client is known by its connection.   *)
(***************************************************************************)
EXTENDS Integers, FiniteSets

CONSTANTS
    Conn,       \* connections
    Frames,     \* the numbers of the frames clients report to have played
    Apart,      \* CHUNKS: how far from the pilot's a report's frame may be
    MaxTries    \* the 10 attempts of listen()

ASSUME ConnAssumption == IsFiniteSet(Conn)
ASSUME FramesAssumption == Frames \subseteq Nat /\ Apart \in Nat
ASSUME MaxTriesAssumption == MaxTries \in Nat \ {0}

\* What else than a report, its frame, may be in a client's side of the stream.
Silence == -1
Foreign == -2       \* a browser's request, or less than a header
Messages == Frames \union {Foreign}

None == "none"

VARIABLES
    spc,        \* where the server is
    tries,      \* ntry of listen()
    clis,       \* the connections _clis has a Clictx for
    index,      \* their _index, the order of the vector: see Accepted
    sock,       \* the server's end is open
    dirty,      \* _dirty
    rd,         \* what select() found readable and is not read yet
    pilot_frm,  \* _pilot_frm
    due,        \* QOS_TOUTMIN has passed since _curt
    source,     \* history: whose report pilot_frm is
    older,      \* history: the pairs of clients whose first was there first
    backlog,    \* connections the kernel holds, not accepted yet
    peer,       \* the client's end is open
    inbox       \* the first message on its way to the server

tcpState == <<clis, index, sock, dirty, rd, pilot_frm, due>>
tcpHistory == <<source, older>>
wires == <<backlog, peer, inbox>>
oldSrvVars == <<spc, tries, tcpState, tcpHistory, wires>>

OldSrvInit ==
    /\ spc = "listen" /\ tries = 0
    /\ clis = {} /\ index = [c \in Conn |-> 0]
    /\ sock = [c \in Conn |-> FALSE]
    /\ dirty = FALSE /\ rd = {}
    /\ pilot_frm = 0 /\ due = TRUE
    /\ source = None /\ older = {}
    /\ backlog = {}
    /\ peer = [c \in Conn |-> FALSE]
    /\ inbox = [c \in Conn |-> Silence]

-----------------------------------------------------------------------------
(* listen() and the loop of RunCtx::server.                                *)

Listen ==
    /\ spc = "listen"
    /\ spc' = "peek" /\ tries' = 0
    /\ UNCHANGED <<tcpState, tcpHistory, wires>>

\* The socket is closed, and opened again a second later.
ListenFails ==
    /\ spc = "listen"
    /\ tries' = tries + 1
    /\ spc' = IF tries' < MaxTries THEN "listen" ELSE "end"
    /\ UNCHANGED <<tcpState, tcpHistory, wires>>

CreateFails ==
    /\ spc = "listen"
    /\ spc' = "end"
    /\ UNCHANGED <<tries, tcpState, tcpHistory, wires>>

\* A chunk comes out of the pipe and goes to the group.  While there is none
\* the loop only peeks again.
SendSound ==
    /\ spc = "peek"
    /\ spc' = "pool"
    /\ UNCHANGED <<tries, tcpState, tcpHistory, wires>>

\* Ctrl-C, or an error of select(), which throws.
LeaveLoop ==
    /\ spc \in {"peek", "pool"}
    /\ spc' = "end"
    /\ UNCHANGED <<tries, tcpState, tcpHistory, wires>>

-----------------------------------------------------------------------------
(* pool().                                                                 *)

Readable == {c \in clis : sock[c] /\ (inbox[c] # Silence \/ ~peer[c])}

FaultyAccepted(c) == [index EXCEPT ![c] = 0]

\* A new Clictx goes to the end of the vector and gets its length as _index.
Accepted(c) == [index EXCEPT ![c] = Cardinality(clis)]

\* What select() sees is fixed here, and who has no socket makes it dirty.
Select ==
    /\ spc = "pool"
    /\ spc' = "read"
    /\ rd' = Readable
    /\ dirty' = (dirty \/ \E c \in clis : ~sock[c])

SelectOnly ==
    /\ Select
    /\ backlog = {}
    /\ UNCHANGED <<tries, clis, index, sock, pilot_frm, due>>
    /\ UNCHANGED <<tcpHistory, wires>>

FaultySelectAccept(c) ==
    /\ Select
    /\ c \in backlog
    /\ backlog' = backlog \ {c}
    /\ clis' = clis \union {c}
    /\ index' = Accepted(c)
    /\ sock' = [sock EXCEPT ![c] = TRUE]
    /\ pilot_frm' = 0 /\ source' = None
    /\ older' = older \union (clis \X {c})
    /\ UNCHANGED <<tries, due, peer, inbox>>

\* A new client voids the pilot's frame and makes a sync message due.
SelectAccept(c) ==
    /\ Select
    /\ c \in backlog
    /\ backlog' = backlog \ {c}
    /\ clis' = clis \union {c}
    /\ index' = Accepted(c)
    /\ sock' = [sock EXCEPT ![c] = TRUE]
    /\ pilot_frm' = 0 /\ source' = None
    /\ due' = TRUE
    /\ older' = older \union (clis \X {c})
    /\ UNCHANGED <<tries, peer, inbox>>

\* keeptrack() of client c and frame f.
Distance(f, g) == IF f < g THEN g - f ELSE f - g

Tracked(c, f) ==
    IF index[c] = 0 THEN f
    ELSE IF Distance(pilot_frm, f) > Apart THEN 0
    ELSE pilot_frm

KeepTrack(c, f) ==
    /\ pilot_frm' = Tracked(c, f)
    /\ source' = IF index[c] = 0 THEN c ELSE source
    /\ UNCHANGED <<sock, dirty>>

\* The vector's order is the order of _index.
FirstOf(set, c) == c \in set /\ \A d \in set : index[c] <= index[d]

FaultyReadOne(c) ==
    /\ spc = "read" /\ FirstOf(rd, c)
    /\ rd' = rd \ {c}
    /\ inbox' = [inbox EXCEPT ![c] = Silence]
    /\ \/ inbox[c] \in Frames /\ KeepTrack(c, inbox[c])
       \/ inbox[c] \in {Foreign, Silence}
          /\ UNCHANGED <<sock, dirty, pilot_frm, source>>
    /\ UNCHANGED <<spc, tries, clis, index, due, older, backlog, peer>>

\* treceive(): the first message counts, and what came behind it is thrown
\* away with it.  The end, a request and a short read close the socket.
ReadOne(c) ==
    /\ spc = "read" /\ FirstOf(rd, c)
    /\ rd' = rd \ {c}
    /\ inbox' = [inbox EXCEPT ![c] = Silence]
    /\ \/ inbox[c] \in Frames /\ KeepTrack(c, inbox[c])
       \/ /\ inbox[c] \in {Foreign, Silence}
          /\ sock' = [sock EXCEPT ![c] = FALSE]
          /\ dirty' = TRUE
          /\ UNCHANGED <<pilot_frm, source>>
    /\ UNCHANGED <<spc, tries, clis, index, due, older, backlog, peer>>

ReadDone ==
    /\ spc = "read" /\ rd = {}
    /\ spc' = "sync"
    /\ UNCHANGED <<tries, tcpState, tcpHistory, wires>>

\* The sync message goes to all.  A send fails on a closed socket, and may on
\* one whose other end is gone.  send(h) is sendall(), which returns 0 when all
\* was sent, and the whole length when nothing was; the code compares that with
\* the length, and destroys the socket if it is another number.  So everybody
\* who was sent to is closed, though not "dirty", and who could not be stays.
Sync(failed) ==
    IF due
    THEN /\ {c \in clis : ~sock[c]} \subseteq failed
         /\ failed \subseteq {c \in clis : sock[c] => ~peer[c]}
         /\ sock' = [c \in Conn |-> sock[c] /\ c \in failed]
         /\ due' = FALSE
    ELSE failed = {} /\ UNCHANGED <<sock, due>>

\* _clean(): the vector without those that have no socket, numbered again.
Rank(live, c) == Cardinality({d \in live : index[d] < index[c]})

FaultyClean(live) ==
    /\ clis' = live
    /\ index' = [c \in Conn |-> IF c \in live THEN Rank(live, c) ELSE 0]
    /\ older' = {p \in older : p[1] \in live /\ p[2] \in live}
    /\ dirty' = FALSE
    /\ UNCHANGED <<pilot_frm, source>>

Clean(live) ==
    /\ clis' = live
    /\ index' = [c \in Conn |-> IF c \in live THEN Rank(live, c) ELSE 0]
    /\ older' = {p \in older : p[1] \in live /\ p[2] \in live}
    /\ dirty' = FALSE
    /\ pilot_frm' = 0 /\ source' = None

SyncAndClean(failed) ==
    /\ spc = "sync"
    /\ spc' = "peek"
    /\ Sync(failed)
    /\ \/ dirty /\ Clean({c \in clis : sock'[c]})
       \/ ~dirty /\ UNCHANGED <<clis, index, older, dirty, pilot_frm, source>>
    /\ UNCHANGED <<tries, rd, backlog, peer, inbox>>

OldServer ==
    \/ Listen \/ ListenFails \/ CreateFails \/ SendSound \/ LeaveLoop
    \/ SelectOnly \/ \E c \in Conn : SelectAccept(c) \/ ReadOne(c)
    \/ ReadDone
    \/ \E failed \in SUBSET clis : SyncAndClean(failed)

-----------------------------------------------------------------------------
(* Time, and the clients.                                                  *)

TimePasses ==
    /\ ~due
    /\ due' = TRUE
    /\ UNCHANGED <<spc, tries, clis, index, sock, dirty, rd, pilot_frm>>
    /\ UNCHANGED <<tcpHistory, wires>>

ClientConnects(c) ==
    /\ spc \notin {"listen", "end"}
    /\ c \notin clis \union backlog /\ ~peer[c]
    /\ backlog' = backlog \union {c}
    /\ peer' = [peer EXCEPT ![c] = TRUE]
    /\ inbox' = [inbox EXCEPT ![c] = Silence]
    /\ UNCHANGED <<spc, tries, tcpState, tcpHistory>>

ClientCloses(c) ==
    /\ peer[c]
    /\ peer' = [peer EXCEPT ![c] = FALSE]
    /\ UNCHANGED <<spc, tries, tcpState, tcpHistory, backlog, inbox>>

\* A report, the first or one that answers a sync message, or a browser's
\* request.  (An EMPTY_DATA, behind which a report would be thrown away, does
\* nothing else.)
ClientSpeaks(c) ==
    /\ peer[c] /\ inbox[c] = Silence
    /\ \E message \in Messages : inbox' = [inbox EXCEPT ![c] = message]
    /\ UNCHANGED <<spc, tries, tcpState, tcpHistory, backlog, peer>>

OldClients ==
    \E c \in Conn : ClientConnects(c) \/ ClientCloses(c) \/ ClientSpeaks(c)

OldSrvNext == OldServer \/ TimePasses \/ OldClients

OldSrvSpec == OldSrvInit /\ [][OldSrvNext]_oldSrvVars

\* Sound keeps coming and the server keeps running.  None of its sends waits
\* for a client: each gets one message, unless the send fails.
OldSrvFairSpec == OldSrvSpec /\ WF_oldSrvVars(OldServer /\ spc' # "end")

-----------------------------------------------------------------------------
(* Properties.                                                             *)

\* The type of the old server's state.
OldSrvTypeOK ==
    /\ spc \in {"listen", "peek", "pool", "read", "sync", "end"}
    /\ tries \in 0 .. MaxTries
    /\ clis \subseteq Conn /\ index \in [Conn -> Nat]
    /\ sock \in [Conn -> BOOLEAN]
    /\ dirty \in BOOLEAN /\ rd \subseteq clis
    /\ pilot_frm \in Frames \union {0} /\ due \in BOOLEAN
    /\ source \in Conn \union {None} /\ older \subseteq Conn \X Conn
    /\ backlog \subseteq Conn \ clis /\ peer \in [Conn -> BOOLEAN]
    /\ inbox \in [Conn -> Messages \union {Silence}]

\* Of the clients in the vector number 0 is the one that has been there longest,
\* through any order of connections, ends and failed sends (what README.md
\* promises of the new server, and what that one does not do).
OldFirstConnectedIsPilot ==
    \A a, b \in clis : index[a] = 0 => <<b, a>> \notin older

\* The pilot's frame, by which the followers shift their queues, is never
\* that of a client that has been removed or is not the pilot any more.
PilotFrameIsPilots == pilot_frm # 0 => source \in clis /\ index[source] = 0

Stays(c) == sock[c] /\ peer[c]

\* No client is served for longer than the call of pool() that accepts it: it
\* makes a sync message due, and that message closes it.
NobodyStays == \A c \in clis : Stays(c) => spc \in {"read", "sync"} /\ due

\* So what is read, and what the server believes of its pilot, is only ever the
\* last word of a client that is gone already.
ReadsOnlyTheGone == \A c \in rd : ~peer[c]

\* Whoever is accepted is also removed from the vector, whether the server
\* closed the connection, which makes nothing dirty, or the client is gone and
\* could not be sent to.
EachIsRemoved ==
    \A c \in Conn : c \in clis ~> (c \notin clis \/ spc = "end")
=============================================================================
