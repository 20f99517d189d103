---------------------------- MODULE SockPrograms ----------------------------
(***************************************************************************)
(* How the programs use the socket classes: the network thread of          *)
(* the speaker (cli/sclient.cpp) with the main thread that destroys its    *)
(* socket; the server (srv/tcpsrv.cpp) with its listener and one accepted  *)
(* connection; the old speaker (OLD_UDP/.../common/clithread.cpp) with its *)
(* connection and its multicast group; any caller of a TCP or of a UDP     *)
(* object.  The rest of the process opens and closes descriptors of its    *)
(* own meanwhile: sound device, pipe, discovery.  The program "phone" has  *)
(* the speaker's network thread; what starts and ends it is in Phone.      *)
(***************************************************************************)
EXTENDS SockCalls

CONSTANT FrameLen       \* bound: a frame is sent in so many pieces

ASSUME FrameLenAssumption == FrameLen \in Nat \ {0}

VARIABLES
    program,    \* which program this process runs
    alive,      \* __alive
    part        \* how much of a frame the accepted connection has been sent

progVars == <<sockVars, program, alive, part>>

Programs == {"speaker", "phone", "server", "old", "tcp", "udp"}

ProgInit ==
    /\ SockInit
    /\ program \in Programs
    /\ th = [t \in Thread |->
                Thread0(IF t = "main"
                        THEN (IF program = "speaker" THEN "play" ELSE "done")
                        ELSE CASE program = "server" -> "create"
                               [] program = "phone" -> "done"
                               [] OTHER -> "top")]
    /\ alive = TRUE
    /\ part = 0

Net(label) == Step("net", label) /\ UNCHANGED <<program, alive, part>>
Runs(p) == program = p
HasSclient == program \in {"speaker", "phone"}
GoOn(label) == OnlyGoto("net", label)
Destroy(o, ret) == OnlyDestroy("net", o, ret)
Leave == Net("top") /\ ~alive

-----------------------------------------------------------------------------
(* The speaker.                                                            *)

SpeakerTop ==
    /\ Net("top") /\ HasSclient /\ alive
    /\ IF HasPeer("cli") \/ sk["cli"].connected \/ sk["cli"].connecting
       THEN Destroy("cli", "top")
       ELSE GoOn("dial")

SpeakerLeaves == Leave /\ HasSclient /\ GoOn("done")

S4Result ==
    /\ Net("dialed") /\ HasSclient
    /\ IF IsOpen("cli") THEN GoOn("use") ELSE Destroy("cli", "failed")

\* The next address, or none: then the thread goes on as if connected.
NextAddress ==
    /\ Net("failed")
    /\ GoOn("dial") \/ GoOn("use")

FaultyUseSocket ==
    /\ Net("use")
    /\ Goto("net", "data") /\ UNCHANGED <<file, sk>>

\* set_mtu, set_blocking(1).
UseSocket ==
    /\ Net("use")
    /\ SetBlocking("cli", TRUE)
    /\ Goto("net", "data")

\* _get_data receives as long as there is something to receive.  Main's drain
\* lets a receive that begins meanwhile fail for want of data.
GetDataEnds ==
    /\ Net("data") /\ HasSclient
    /\ \/ sk["cli"].fd <= 0 /\ Destroy("cli", "top")
       \/ /\ IsOpen("cli")
          /\ ~Is("cli", {"up"}) \/ Closing("main", "cli")
          /\ Destroy("cli", "lost")

ConnectionLost == Net("lost") /\ Destroy("cli", "top")

\* ~sclient, in the main thread.
CloseAtExit ==
    /\ At("main", "play") /\ Runs("speaker") /\ ~alive
    /\ CallDestroy("main", "cli", "await")
    /\ UNCHANGED <<file, sk, program, alive, part>> /\ NoHistory

Join ==
    /\ At("main", "await") /\ At("net", "done")
    /\ Goto("main", "done")
    /\ UNCHANGED <<file, sk, program, alive, part>> /\ NoHistory

SpeakerProcess ==
    \/ SpeakerTop \/ SpeakerLeaves \/ S4Result \/ NextAddress \/ UseSocket
    \/ GetDataEnds \/ ConnectionLost \/ CloseAtExit \/ Join

-----------------------------------------------------------------------------
(* The server.                                                             *)

\* tcp_srv_sock::create: a socket that is not above 0 is taken for none, and
\* one that cannot be bound is destroyed.
CreateListener ==
    /\ Net("create") /\ alive
    /\ OpenSocket("srv", "fresh")
    /\ \/ Goto("net", IF sk'["srv"].fd > 0 THEN "listen" ELSE "end")
       \/ sk'["srv"].fd > 0 /\ CallDestroy("net", "srv", "end")

NoListener == Net("create") /\ ~alive /\ GoOn("end")

\* listen(), or destroy and another try, or no more after ten.
Listen ==
    /\ Net("listen")
    /\ \/ /\ file' = [file EXCEPT ![sk["srv"].fd].is = "listen"]
          /\ Goto("net", "serve")
          /\ UNCHANGED sk
       \/ \E ret \in {"create", "end"} : Destroy("srv", ret)

\* accept() into a new Clictx, which is deleted if its socket is not above 0.
Accept ==
    /\ Net("serve") /\ sk["acc"].fd = -1 /\ ~TableFull
    /\ file' = [file EXCEPT ![Lowest] = New("up", "acc")]
    /\ \/ /\ Lowest > 0
          /\ sk' = [sk EXCEPT !["acc"].fd = Lowest, !["acc"].blocks = FALSE]
          /\ Goto("net", "accepted")
       \/ /\ Lowest = 0
          /\ UNCHANGED <<sk, th>>

Accepted ==
    /\ At("net", "accepted")
    /\ SetBlocking("acc", TRUE)
    /\ part' = 0
    /\ Goto("net", "serve") /\ NoHistory
    /\ UNCHANGED <<program, alive>>

\* qsend: sendall of one frame.
BeginSend == Net("serve") /\ IsOpen("acc") /\ GoOn("send")

FaultySendSome ==
    /\ At("net", "send") /\ Is("acc", {"up", "gone"})
    /\ part' = part + 1
    /\ GotoIf("net", part' >= FrameLen, "serve", "send")
    /\ UNCHANGED <<file, sk, program, alive>> /\ NoHistory

SendSome ==
    /\ At("net", "send") /\ Is("acc", {"up", "gone"})
    /\ part' = (part + 1) % FrameLen
    /\ GotoIf("net", part' = 0, "serve", "send")
    /\ UNCHANGED <<file, sk, program, alive>> /\ NoHistory

FaultySendFails ==
    /\ Net("send")
    /\ Is("acc", {"gone"}) \/ ~file[sk["acc"].fd].blocks
    /\ GoOn("serve")

\* An error ends sendall in mid-frame, and a buffer that stays full if the
\* socket does not block; the client is then destroyed.
SendFails ==
    /\ Net("send")
    /\ Is("acc", {"gone"}) \/ ~file[sk["acc"].fd].blocks
    /\ Destroy("acc", "serve")

\* rec() receives nothing more.
ClientGone == Net("serve") /\ Is("acc", {"gone"}) /\ Destroy("acc", "serve")

ServerLeaves == Net("serve") /\ ~alive /\ Destroy("srv", "end")
ServerEnds == Net("end") /\ Destroy("acc", "done")

ServerProcess ==
    \/ CreateListener \/ NoListener \/ Listen \/ Accept \/ Accepted
    \/ BeginSend \/ SendSome \/ SendFails \/ ClientGone
    \/ ServerLeaves \/ ServerEnds

-----------------------------------------------------------------------------
(* The old speaker.                                                        *)

KnowPeer == sk' = [sk EXCEPT !["cli"].connected = @ \/ HasPeer("cli")]

OldTop ==
    /\ Net("top") /\ Runs("old") /\ alive
    /\ KnowPeer
    /\ GotoIf("net", sk'["cli"].connected, "data", "drop")
    /\ UNCHANGED file

OldLeaves == Leave /\ Runs("old") /\ Destroy("grp", "bye")
OldEnds == Net("bye") /\ Destroy("cli", "done")

\* drop(), and destroy() of the group.
DropGroup ==
    /\ Net("drop")
    /\ sk' = [sk EXCEPT !["grp"].member = FALSE]
    /\ CallDestroy("net", "grp", "join")
    /\ UNCHANGED file

\* A frame comes or does not.  receive() asserts that its socket is above 0.
Hear ==
    /\ Net("joined") /\ Runs("old")
    /\ \/ GoOn("top")
       \/ alive /\ GoOn(IF IsOpen("grp") THEN "raw" ELSE "fault")

Check ==
    /\ Net("check") /\ Runs("old")
    /\ KnowPeer
    /\ IF sk'["cli"].connected /\ alive THEN Goto("net", "use")
       ELSE CallDestroy("net", "cli", "top")
    /\ UNCHANGED file

\* Sync messages and frames.  A reply whose send fails destroys the socket, and
\* so does a probe whose send succeeds: its 0 is taken for a failure.
OldData ==
    /\ Net("data") /\ Runs("old")
    /\ \/ GoOn("top")
       \/ Is("cli", {"up", "gone"}) /\ Destroy("cli", "top")

OldProcess ==
    \/ OldTop \/ OldLeaves \/ OldEnds \/ DropGroup \/ Hear \/ Check \/ OldData

-----------------------------------------------------------------------------
(* Any program.                                                            *)

AnyProgram ==
    /\ \/ Runs("tcp") /\ TcpCalls("net")
       \/ Runs("udp") /\ UdpCalls("net")
    /\ UNCHANGED <<program, alive, part>>

\* The methods that take more than a step, whoever has called them.
InMethod ==
    /\ S4Steps("net") \/ RawSteps("net") \/ JoinSteps("net")
    /\ UNCHANGED <<program, alive, part>>

-----------------------------------------------------------------------------
(* The environment.                                                        *)

Outside == UNCHANGED <<sk, th, overlap, foreign, program, part>>

CtrlC == program \in {"speaker", "server", "old"} /\ alive /\ alive' = FALSE /\ UNCHANGED file /\ Outside

\* (Bound: not in the phone, whose network thread is the speaker's.)
OthersOpen ==
    /\ ~TableFull /\ ~Runs("phone")
    /\ file' = [file EXCEPT ![Lowest] = New("other", "others")]
    /\ UNCHANGED alive /\ Outside

OthersClose(n) ==
    /\ file[n].is = "other"
    /\ file' = [file EXCEPT ![n] = Free]
    /\ UNCHANGED alive /\ Outside

KernelDials(n) ==
    /\ file[n].is = "dialing"
    /\ \E result \in {"up", "refused"} : file' = [file EXCEPT ![n].is = result]
    /\ UNCHANGED alive /\ Outside

PeerCloses(n) ==
    /\ file[n].is = "up"
    /\ file' = [file EXCEPT ![n].is = "gone"]
    /\ UNCHANGED alive /\ Outside

Environment ==
    \/ CtrlC \/ OthersOpen
    \/ \E n \in Fd : OthersClose(n) \/ KernelDials(n) \/ PeerCloses(n)

InDestroy(t) == Destroying(t) /\ UNCHANGED <<program, alive, part>>

ThreadMoves ==
    \/ SpeakerProcess \/ ServerProcess \/ OldProcess \/ AnyProgram
    \/ InMethod
    \/ \E t \in Thread : InDestroy(t)

ProgNext == ThreadMoves \/ Environment

\* A receive that was waiting when main destroyed the socket is not woken by
\* close(), and the network thread may never come back from it.
MayWait == At("net", "data") /\ At("main", "await")

\* Both threads run on, and the kernel gives up a dial that is not answered.
ProgFairness ==
    /\ WF_progVars(SpeakerProcess /\ ~MayWait)
    /\ WF_progVars(OldProcess) /\ WF_progVars(InMethod)
    /\ \A t \in Thread : WF_progVars(InDestroy(t))
    /\ \A n \in Fd : WF_progVars(KernelDials(n))

-----------------------------------------------------------------------------
(* Properties.                                                             *)

Labels == {"top", "sin", "dial", "socket", "connect", "wait", "unblock", "dialed",
           "failed", "use", "data", "lost", "create", "listen", "serve",
           "accepted", "send", "end", "bye", "drop", "join", "member", "joined",
           "raw", "rawstart", "await", "rawwait", "rawend", "check", "play",
           "begin", "init", "quit", "silent",
           "destroy", "close", "store", "done", "fault"}

\* The type of the sockets' state.
SockTypeOK ==
    /\ file \in [Fd -> Files]
    /\ sk \in [Obj -> Sk]
    /\ th \in [Thread -> [at : Labels, on : Obj, back : Labels,
                          tries : 0 .. CloseTries, kept : BOOLEAN]]
    /\ overlap \in BOOLEAN /\ foreign \in BOOLEAN
    /\ program \in Programs /\ alive \in BOOLEAN
    /\ part \in 0 .. FrameLen - 1

\* A descriptor that an object has opened is the object's until it closes it,
\* through every failure of every call; only number 0, which is "not open" to
\* the classes, may be forgotten.  All else takes two destroy() at once.
NothingLost ==
    \A n \in Fd \ {0} :
        file[n].by \in Obj => overlap \/ sk[file[n].by].fd = n

\* And an object closes nothing that is not its own, unless two destroy() of
\* it were at their close() at once.
ClosesOnlyItsOwn == foreign => overlap

\* What a thread receives from or sends to blocks, whatever the modes of the
\* connects and drains before: sendall and receiveall rely on it.
BlocksInUse ==
    \A o \in {"cli", "acc"} :
        (IsOpen(o) /\ At("net", IF o = "cli" THEN "data" ELSE "send")
            /\ ~Closing("main", o) /\ ~overlap)
        => file[sk[o].fd].blocks

\* _connected is never left over from an earlier connection, or from an
\* earlier socket of a group.
ConnectedIsReal ==
    /\ sk["cli"].connected => HasPeer("cli")
    /\ sk["grp"].connected => IsOpen("grp")

\* Between two frames a connection that is still used holds whole frames only.
NoTornFrame == At("net", "serve") /\ IsOpen("acc") => part = 0

\* Each connect and each destroy comes to its end, also if the other thread
\* takes the socket away in its middle.
CallsEnd ==
    \A t \in Thread :
        th[t].at \in {"destroy", "close", "store", "connect", "wait", "unblock"}
        ~> th[t].at \notin {"destroy", "close", "store", "connect", "wait", "unblock"}
=============================================================================
