------------------------------ MODULE Speakers ------------------------------
(***************************************************************************)
(* The server of module TcpSrv and its speakers, joined by what they send  *)
(* each other: the header of each frame, from TcpSrv::qsend to             *)
(* sclient::_check_stream, and the report a speaker answers it with, from  *)
(* there to Clictx::rec.  Of a speaker only that answer is modelled; its   *)
(* queue and its threads are in module Client.                             *)
(***************************************************************************)
EXTENDS TcpSrv, Sequences

CONSTANT Window     \* frames the network and the socket buffers hold

ASSUME WindowAssumption == Window \in Nat \ {0}

VARIABLES
    due,        \* QOS_TO has passed since _last_qos
    wire,       \* the frames on their way to each client
    waiting     \* _qos.frm_sig of each client: it has a report to send

speakersVars == <<srvVars, due, wire, waiting>>

SpeakersInit ==
    /\ SrvInit
    /\ due = TRUE
    /\ wire = [a \in Addr |-> <<>>]
    /\ waiting = [a \in Addr |-> FALSE]

-----------------------------------------------------------------------------
\* The frame a client gets in a round of qsend: a sync frame when one is
\* due, but not in the round after a connection.
SyncNow == due /\ ~newclient
Frame(a) ==
    [sync |-> SyncNow,
     pilot_seq |-> IF newclient THEN 0 ELSE pilot.seq,
     is_pilot |-> is_pilot[a]]

\* qsend and the sockets' blocking sendall: while a client does not read,
\* nobody gets the frame.
ReadersOf(failed) == {a \in clis \ failed : sock[a] /\ peer[a]}

Send(failed) ==
    /\ \A a \in ReadersOf(failed) : Len(wire[a]) < Window
    /\ QSend(failed)
    /\ due' = (due /\ ~SyncNow)
    /\ wire' = [a \in Addr |->
                   IF a \in ReadersOf(failed) THEN Append(wire[a], Frame(a))
                   ELSE wire[a]]
    /\ UNCHANGED waiting

\* The other steps of the server's loop; a new connection has a new stream.
Turn ==
    /\ ReadPipe \/ PipeFails \/ AcceptOne \/ AcceptNone
    /\ wire' = [a \in Addr |-> IF a \in backlog \ backlog' THEN <<>> ELSE wire[a]]
    /\ UNCHANGED <<due, waiting>>

ServerTurn == (\E failed \in SUBSET clis : Send(failed)) \/ Turn

TimePasses ==
    /\ ~due
    /\ due' = TRUE
    /\ UNCHANGED <<srvVars, wire, waiting>>

-----------------------------------------------------------------------------
\* A client plays a frame, and has a report to send (update_frame).
Plays(a) ==
    /\ a \in clis /\ peer[a]
    /\ waiting' = [waiting EXCEPT ![a] = TRUE]
    /\ UNCHANGED <<srvVars, due, wire>>

FaultyAnswers(a, frame) == frame.sync /\ waiting[a]

\* It answers a sync frame, but only one that names the pilot's frame.
Answers(a, frame) == frame.sync /\ frame.pilot_seq # 0 /\ waiting[a]

Receives(a) ==
    /\ a \in clis /\ peer[a] /\ wire[a] # <<>>
    /\ wire' = [wire EXCEPT ![a] = Tail(@)]
    /\ IF Answers(a, Head(wire[a]))
         THEN /\ ClientReports(a)
              /\ waiting' = [waiting EXCEPT ![a] = FALSE]
              /\ UNCHANGED due
         ELSE UNCHANGED <<srvVars, due, waiting>>

Connects(a) == ClientConnects(a) /\ UNCHANGED <<due, wire, waiting>>

Closes(a) ==
    /\ ClientCloses(a)
    /\ wire' = [wire EXCEPT ![a] = <<>>]
    /\ UNCHANGED <<due, waiting>>

Speaker(a) == Plays(a) \/ Receives(a) \/ Connects(a) \/ Closes(a)

SpeakersNext == ServerTurn \/ TimePasses \/ \E a \in Addr : Speaker(a)

SpeakersSpec == SpeakersInit /\ [][SpeakersNext]_speakersVars

\* The music goes on, time passes, connected speakers read and play what
\* they get; they connect and close as they like.
SpeakersFairSpec ==
    /\ SpeakersSpec
    /\ WF_speakersVars(ReadPipe /\ Turn)
    /\ WF_speakersVars(ServerTurn)
    /\ WF_speakersVars(TimePasses)
    /\ \A a \in Addr :
        WF_speakersVars(Plays(a)) /\ WF_speakersVars(Receives(a))

-----------------------------------------------------------------------------
(* Properties.                                                             *)

FrameType == [sync : BOOLEAN, pilot_seq : Nat, is_pilot : BOOLEAN]

SpeakersTypeOK ==
    /\ SrvTypeOK
    /\ due \in BOOLEAN
    /\ wire \in [Addr -> Seq(FrameType)]
    /\ \A a \in Addr : Len(wire[a]) <= Window
    /\ waiting \in [Addr -> BOOLEAN]

\* The two sides wait for each other: a client answers no frame whose
\* pilot_seq is 0, and the server's pilot_seq stays 0 until the pilot has
\* answered.  So whoever connects, closes and returns, no report is ever
\* sent and the server never learns where its pilot is.
Unpiloted ==
    /\ pilot = NoReport
    /\ \A a \in Addr : inbox[a] = NoReport /\ ~is_pilot[a]
NeverPiloted ==
    /\ Unpiloted
    /\ \A a \in Addr, i \in 1 .. Window :
        i <= Len(wire[a]) => wire[a][i].pilot_seq = 0

\* Once nobody connects any more, a client that stays gets sync frames again
\* and again: the round a connection takes from them is only put off.
Stays(a) == a \in clis /\ sock[a] /\ peer[a] /\ spc # "end"
SyncKeepsComing ==
    \A a \in Addr :
        <>[](backlog = {} /\ Stays(a))
            => []<>(wire[a] # <<>> /\ Head(wire[a]).sync)

\* README.md: "Each client updates once in few seconds the ALSA buffer that
\* was laste streamed to the server."
EachClientReports ==
    \A a \in Addr : Stays(a) ~> (inbox[a] # NoReport \/ ~Stays(a))
=============================================================================
