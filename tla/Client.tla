------------------------------- MODULE Client -------------------------------
(***************************************************************************)
(* A speaker: the network thread sclient::_tmain / _get_data /             *)
(* _check_stream of cli/sclient.cpp, the player thread of module Player,   *)
(* the main thread that ends them (cli/main.cpp, ~sclient), and what is in *)
(* the chunks they pass each other through the queue of module Circle.     *)
(*                                                                         *)
(* The server is the environment: it sends any frame it could send, and    *)
(* closes the connection when it likes.  Frames are numbered in the order  *)
(* they are sent (cur_seq); a chunk of the queue is the number in its      *)
(* header, whether its buf_len is set, and the number of the frame whose   *)
(* sound its payload is.                                                   *)
(***************************************************************************)
EXTENDS Player, FiniteSets

CONSTANTS
    Headers,    \* what a frame may ask for: see HeaderType
    PilotLen,   \* CLI_SYNC_PERCENT as force_optim is given it: a length
    MinOptim,   \* SYNCHED_DELTA << 1: a follower's level must be above it
    Servers,    \* how many servers discovery found
    MaxFrames,  \* bound: frames the server sends
    MaxCuts     \* bound: connections cut or refused

\* sig: RESET_ALL, SYNC_DATA with a pilot_seq, or anything else; role: the
\* pilot, or a follower whose pilot is near 50% (synced) or not; lag:
\* _frmdiff; short: buf_len is less than the payload that was sent.
HeaderType ==
    [sig : {"reset", "sync", "other"}, lag : Int, short : BOOLEAN,
     role : {"pilot", "synced", "not_synced"}]

ASSUME HeadersAssumption == \A h \in Headers : h \in HeaderType
ASSUME ClientBounds ==
    /\ PilotLen \in Nat /\ MinOptim \in Nat /\ Servers \in Nat \ {0}
    /\ MaxFrames \in Nat /\ MaxCuts \in Nat

\* Every length the frames can make force_optim settle on is one of Circle's.
ASSUME LensAssumption ==
    {PilotLen} \union
    {n \in {e - h.lag : e \in 0 .. Chunks + 1, h \in Headers} : n > MinOptim}
        \subseteq OptimLens

NoHeader ==
    [sig |-> "other", lag |-> 0, short |-> FALSE, role |-> "not_synced"]

Torn == -1      \* a payload of which only a part is new

VARIABLES
    npc,        \* where the network thread is
    mpc,        \* where the main thread is
    open,       \* the socket is open at this end
    link,       \* to the server: "none" yet, "up", or "gone"
    left,       \* servers _tmain has still to try in this round
    mem,        \* the chunks: header number, buf_len set, payload number
    hdr,        \* the header _check_stream is acting on
    optlen,     \* the level it computed from a length() read before
    hdrseq,     \* player::play's copy of cur_seq
    qos,        \* _qos: a report is waiting, and the number it is about
    next,       \* frames received in part or whole
    cuts,       \* connections cut or refused
    heard,      \* history: frames played whole
    plays,      \* history: how many times one was
    damaged,    \* history: how many others were played
    overfilled, \* history: q_feedup gave out a chunk of a full queue
    reported    \* history: the number in the last report sent

conn == <<open, link>>
listened == <<heard, plays, damaged>>
playing == <<alive, playerLocals, hdrseq, listened>>
others == <<playing, mpc>>              \* what the network thread leaves alone
locals == <<left, hdr, optlen>>         \* its own, between two of its steps
data == <<mem, next>>
logs == <<qos, cuts, overfilled, reported>>
clientVars == <<playerVars, npc, locals, mpc, conn, data, hdrseq, logs,
                listened>>

NetPcs == {"top", "sleep", "dial", "select", "hdr", "pay", "act", "force",
           "send", "release", "fail", "done"}

ClientInit ==
    /\ PlayerInit
    /\ npc = "top" /\ mpc = "play" /\ left = Servers
    /\ open = FALSE /\ link = "none"
    /\ mem = [i \in Slot |-> [seq |-> 0, len |-> FALSE, pay |-> 0]]
    /\ hdr = NoHeader /\ optlen = 0
    /\ hdrseq = 0
    /\ qos = [waiting |-> FALSE, seq |-> 0]
    /\ next = 0 /\ cuts = 0
    /\ heard = {} /\ plays = 0 /\ damaged = 0
    /\ overfilled = FALSE /\ reported = 0

-----------------------------------------------------------------------------
(* The network thread: connecting.                                         *)

NetGoesTo(pc) == npc = pc[1] /\ npc' = pc[2]

FaultyTopOfMain ==
    /\ npc = "top"
    /\ npc' = IF alive THEN "sleep" ELSE "done"
    /\ UNCHANGED <<circleVars, others, locals, conn, data, logs>>

\* while(__alive) of _tmain, the only place where the thread looks at it.
TopOfMain ==
    /\ npc = "top"
    /\ npc' = IF alive THEN "sleep" ELSE "done"
    /\ left' = Servers
    /\ UNCHANGED <<circleVars, others, hdr, optlen, conn, data, logs>>

\* sleep(1), then s4connect makes a socket and starts to connect it.
Dial ==
    /\ NetGoesTo(<<"sleep", "dial">>)
    /\ open' = TRUE
    /\ UNCHANGED <<circleVars, others, locals, link, data, logs>>

Connected ==
    /\ NetGoesTo(<<"dial", "select">>)
    /\ open
    /\ link' = "up"
    /\ UNCHANGED <<circleVars, others, locals, open, data, logs>>

\* A refused connection makes the socket writable too, and s4connect takes
\* that for success.
RefusedButConnected ==
    /\ NetGoesTo(<<"dial", "select">>)
    /\ open /\ cuts < MaxCuts
    /\ cuts' = cuts + 1
    /\ UNCHANGED <<circleVars, others, locals, conn, data, qos, overfilled,
                   reported>>

\* connect() failed at once, or its socket was closed: destroy() and on to
\* the next server, or, after the last, past the empty _get_data.
DialFailed ==
    /\ npc = "dial"
    /\ open' = FALSE
    /\ left' = left - 1
    /\ npc' = IF left > 1 THEN "sleep" ELSE "top"
    /\ UNCHANGED <<circleVars, others, hdr, optlen, link, data, logs>>

-----------------------------------------------------------------------------
(* The network thread: one turn of _get_data.                              *)

\* while(socket() > 0), false when ~sclient has closed it.
LeaveGetData ==
    /\ NetGoesTo(<<"select", "top">>)
    /\ ~open
    /\ UNCHANGED <<circleVars, others, locals, conn, data, logs>>

\* select() says there is something to read: a frame, or the end of stream.
Readable == open /\ (link = "up" => next < MaxFrames)

TakeRoom ==
    /\ NetGoesTo(<<"select", "hdr">>)
    /\ Readable
    /\ QFeedup
    /\ overfilled' = (overfilled \/ elems = Chunks)
    /\ UNCHANGED <<others, locals, conn, data, qos, cuts, reported>>

TakeScrap ==
    /\ NetGoesTo(<<"select", "hdr">>)
    /\ Readable
    /\ Dummy
    /\ UNCHANGED <<others, locals, conn, data, logs>>

\* A receive that main's close() found waiting keeps the connection, and
\* only the next one fails.
LastReceive == link' = IF open THEN link ELSE "gone"

\* _check_stream: the header, then the payload, straight into the chunk.
RecvHeader ==
    /\ NetGoesTo(<<"hdr", "pay">>)
    /\ link = "up" /\ next < MaxFrames
    /\ LastReceive
    /\ hdr' \in Headers
    /\ next' = next + 1
    /\ mem' = IF chunk = Scrap THEN mem
              ELSE [mem EXCEPT ![chunk].seq = next + 1, ![chunk].len = TRUE]
    /\ UNCHANGED <<circleVars, others, left, optlen, open, logs>>

RecvPayload ==
    /\ npc = "pay"
    /\ link = "up"
    /\ LastReceive
    /\ mem' = IF chunk = Scrap THEN mem ELSE [mem EXCEPT ![chunk].pay = next]
    /\ npc' = CASE ~hdr.short -> "act"
                [] hdr.short /\ chunk # Scrap -> "fail"
                [] hdr.short /\ chunk = Scrap -> "release"
    /\ UNCHANGED <<circleVars, others, locals, open, logs, next>>

\* What the result of _check_stream does: it ends the connection, except
\* for a frame that was to be dropped, where it is not looked at.
AfterFailure == IF chunk = Scrap THEN "release" ELSE "fail"

\* The connection ended before the header, or inside it, after cur_seq.
HeaderCut ==
    /\ npc = "hdr" /\ npc' = AfterFailure
    /\ ~(open /\ link = "up")
    /\ \/ UNCHANGED <<mem, next>>
       \/ /\ chunk # Scrap /\ link # "none" /\ next < MaxFrames
          /\ next' = next + 1
          /\ mem' = [mem EXCEPT ![chunk].seq = next + 1]
    /\ UNCHANGED <<circleVars, others, locals, conn, logs>>

\* It ended before the payload, or inside it.
PayloadCut ==
    /\ npc = "pay" /\ npc' = AfterFailure
    /\ ~(open /\ link = "up")
    /\ \/ UNCHANGED mem
       \/ /\ chunk # Scrap
          /\ mem' = [mem EXCEPT ![chunk].pay = Torn]
    /\ UNCHANGED <<circleVars, others, locals, conn, logs, next>>

-----------------------------------------------------------------------------
(* The network thread: what the header asks for.                           *)

IgnoreFrame ==
    /\ NetGoesTo(<<"act", "release">>)
    /\ hdr.sig = "other"
    /\ UNCHANGED <<circleVars, others, locals, conn, data, logs>>

ResetQueue ==
    /\ NetGoesTo(<<"act", "release">>)
    /\ hdr.sig = "reset"
    /\ Reset
    /\ UNCHANGED <<others, locals, conn, data, logs>>

LevelPilot ==
    /\ NetGoesTo(<<"act", "send">>)
    /\ hdr.sig = "sync" /\ hdr.role = "pilot"
    /\ ForceOptim(PilotLen)
    /\ UNCHANGED <<others, locals, conn, data, logs>>

\* A follower whose pilot is in sync re-levels its queue by its lag, not
\* more than once in MAX_REQUE_INTERVAL seconds; length() is read first,
\* and used in the next step.
MayRelevel == hdr.role = "synced" /\ hdr.lag # 0 /\ elems - hdr.lag > MinOptim

ComputeLevel ==
    /\ NetGoesTo(<<"act", "force">>)
    /\ hdr.sig = "sync" /\ MayRelevel
    /\ optlen' = elems - hdr.lag
    /\ UNCHANGED <<circleVars, others, left, hdr, conn, data, logs>>

LevelFollower ==
    /\ NetGoesTo(<<"force", "send">>)
    /\ ForceOptim(optlen)
    /\ optlen' = 0
    /\ UNCHANGED <<others, left, hdr, conn, data, logs>>

\* Nothing to do, or it is too soon to do it again.
KeepLevel ==
    /\ NetGoesTo(<<"act", "send">>)
    /\ hdr.sig = "sync" /\ hdr.role # "pilot"
    /\ UNCHANGED <<circleVars, others, locals, conn, data, logs>>

\* Answer the sync frame with the report that waits, if one does.
SendReport ==
    /\ NetGoesTo(<<"send", "release">>)
    /\ reported' = IF qos.waiting THEN qos.seq ELSE reported
    /\ qos' = [qos EXCEPT !.waiting = FALSE]
    /\ UNCHANGED <<circleVars, others, locals, conn, data, cuts, overfilled>>

ReleaseFrame ==
    /\ NetGoesTo(<<"release", "select">>)
    /\ ReleaseChunk
    /\ hdr' = NoHeader
    /\ UNCHANGED <<others, left, optlen, conn, data, logs>>

FaultyFailFrame ==
    /\ NetGoesTo(<<"fail", "top">>)
    /\ chunk' = NoChunk /\ locked' = locked \ {chunk}
    /\ elems' = elems - 1
    /\ open' = FALSE /\ link' = "none"
    /\ hdr' = NoHeader
    /\ UNCHANGED <<geti, puti, optim, block_get, pk, others, left, optlen, data,
                   logs>>

\* release(), destroy(), break, and _tmain's own destroy().  The element
\* q_feedup counted stays counted.
FailFrame ==
    /\ NetGoesTo(<<"fail", "top">>)
    /\ ReleaseChunk
    /\ open' = FALSE /\ link' = "none"
    /\ hdr' = NoHeader
    /\ UNCHANGED <<others, left, optlen, data, logs>>

NetworkThread ==
    \/ TopOfMain \/ Dial \/ Connected \/ RefusedButConnected \/ DialFailed
    \/ LeaveGetData \/ TakeRoom \/ TakeScrap
    \/ RecvHeader \/ RecvPayload \/ HeaderCut \/ PayloadCut
    \/ IgnoreFrame \/ ResetQueue \/ LevelPilot
    \/ ComputeLevel \/ LevelFollower \/ KeepLevel
    \/ SendReport \/ ReleaseFrame \/ FailFrame

-----------------------------------------------------------------------------
(* The player thread, with the chunks' contents.                           *)

elsewhere == <<npc, locals, mpc, conn, next, cuts, overfilled, reported>>

\* The steps of the loop that touch no chunk's contents and send no report.
PlayerMoves ==
    /\ \/ LeavePlay \/ GoFill \/ GoTake \/ ReadOptim \/ LookEmpty \/ LookFull
       \/ TakeChunk \/ TakeNothing
    /\ UNCHANGED <<elsewhere, mem, hdrseq, qos, listened>>

FaultyPlayFrame ==
    LET m == mem[pk]
        whole == m.len /\ m.pay = m.seq
    IN
    /\ PlayChunk
    /\ hdrseq' = m.seq
    /\ heard' = IF whole THEN heard \union {m.pay} ELSE heard
    /\ plays' = IF whole THEN plays + 1 ELSE plays
    /\ damaged' = IF m.len /\ ~whole THEN damaged + 1 ELSE damaged
    /\ UNCHANGED <<elsewhere, mem, qos>>

\* The header is copied, the payload played unless buf_len is 0, buf_len
\* cleared, and the chunk released.
PlayFrame ==
    LET m == mem[pk]
        whole == m.len /\ m.pay = m.seq
    IN
    /\ PlayChunk
    /\ hdrseq' = m.seq
    /\ mem' = [mem EXCEPT ![pk].len = FALSE]
    /\ heard' = IF whole THEN heard \union {m.pay} ELSE heard
    /\ plays' = IF whole THEN plays + 1 ELSE plays
    /\ damaged' = IF m.len /\ ~whole THEN damaged + 1 ELSE damaged
    /\ UNCHANGED <<elsewhere, qos>>

FaultyLeaveReport ==
    /\ Report
    /\ qos' = [waiting |-> TRUE, seq |-> mem[geti].seq]
    /\ UNCHANGED <<elsewhere, mem, hdrseq, listened>>

\* update_frame.
LeaveReport ==
    /\ Report
    /\ qos' = [waiting |-> TRUE, seq |-> hdrseq]
    /\ UNCHANGED <<elsewhere, mem, hdrseq, listened>>

PlayerThread == PlayerMoves \/ PlayFrame \/ LeaveReport

-----------------------------------------------------------------------------
(* The main thread after play(): ~sclient closes the socket, if there is   *)
(* one, and waits for the network thread.  shutdown(fd, 0x3) is refused    *)
(* with EINVAL, as 0 .. 2 are what there is, and close() does not wake     *)
(* another thread's recv(): one that waits already may go on waiting.      *)

FaultyCloseSocket ==
    /\ mpc = "play" /\ ppc = "done"
    /\ mpc' = "join"
    /\ UNCHANGED <<circleVars, playing, npc, locals, conn, data, logs>>

CloseSocket ==
    /\ mpc = "play" /\ ppc = "done"
    /\ mpc' = "join"
    /\ open' = FALSE
    /\ \/ link' = IF link = "up" THEN "gone" ELSE link
       \/ npc \in {"hdr", "pay"} /\ UNCHANGED link
    /\ UNCHANGED <<circleVars, playing, npc, locals, data, logs>>

Join ==
    /\ mpc = "join" /\ npc = "done"
    /\ mpc' = "exit"
    /\ UNCHANGED <<circleVars, playing, locals, npc, conn, data, logs>>

MainThread == CloseSocket \/ Join

\* The user.
Interrupt ==
    /\ CtrlC
    /\ UNCHANGED <<elsewhere, mem, hdrseq, qos, listened>>

\* The server closes the connection, or the network loses it.
ServerCloses ==
    /\ link = "up" /\ cuts < MaxCuts
    /\ link' = "gone"
    /\ cuts' = cuts + 1
    /\ UNCHANGED <<circleVars, others, locals, npc, open, data, qos,
                   overfilled, reported>>

ClientNext ==
    \/ NetworkThread \/ PlayerThread \/ MainThread
    \/ Interrupt \/ ServerCloses

ClientSpec == ClientInit /\ [][ClientNext]_clientVars

\* A receive waits as long as the connection lasts and nothing comes.
MayWait == npc \in {"hdr", "pay"} /\ link = "up"

\* Each thread runs on when it can.  Nothing is assumed of the user, of the
\* server, or of which way a connection attempt goes.
ClientFairSpec ==
    /\ ClientSpec
    /\ WF_clientVars(NetworkThread /\ ~MayWait)
    /\ WF_clientVars(PlayerThread)
    /\ WF_clientVars(MainThread)

-----------------------------------------------------------------------------
(* Properties.                                                             *)

ClientTypeOK ==
    /\ npc \in NetPcs /\ mpc \in {"play", "join", "exit"}
    /\ open \in BOOLEAN /\ link \in {"none", "up", "gone"}
    /\ left \in 0 .. Servers
    /\ mem \in [Slot -> [seq : 0 .. MaxFrames, len : BOOLEAN,
                         pay : Torn .. MaxFrames]]
    /\ hdr \in Headers \union {NoHeader}
    /\ optlen \in Int /\ hdrseq \in 0 .. MaxFrames
    /\ qos \in [waiting : BOOLEAN, seq : 0 .. MaxFrames]
    /\ next \in 0 .. MaxFrames /\ cuts \in 0 .. MaxCuts
    /\ heard \subseteq 1 .. MaxFrames /\ plays \in Nat /\ damaged \in Nat
    /\ overfilled \in BOOLEAN /\ reported \in 0 .. MaxFrames

\* The speaker keeps the promise of AudioStream: whatever the threads, the
\* level changes, the resets, an overfull queue and broken connections do to
\* the ring, no frame is heard twice, and a broken connection lets through
\* at most one damaged chunk.  buf_len being cleared after play is what the
\* promise hangs on.
Listener == INSTANCE AudioStream WITH sent <- next
KeepsPromise == Listener!StreamSpec

\* As long as the queue was never overfull and no connection broke, frames
\* are heard in the order they were sent, though resets and level changes
\* may leave some out.
Calm == ~overfilled /\ cuts = 0
InOrder(new) == \A f \in heard : f < new
CalmIsInOrder ==
    [][Calm => \A f \in heard' \ heard : InOrder(f)]_clientVars

\* In the same calm, the reports sent to the server never go back in time,
\* although a report waits for a sync frame while frames are being played.
CalmReportsAdvance == [][Calm => reported' >= reported]_clientVars

\* The comments "circular buffer" (srvq.h) and "get and drop frame"
\* (sclient.cpp) say that frames come out as they went in, and that one for
\* which there is no room is dropped.
PlaysInOrder == [][\A f \in heard' \ heard : InOrder(f)]_clientVars

\* play() "loops until alive", and Ctrl-C ends it: then the program exits.
ExitsOnCtrlC == ~alive ~> mpc = "exit"

\* It does exit if the connection is up when main comes to close it, wherever
\* the network thread is in a frame, unless that thread is held in a receive
\* which main's close() does not end, of a server that sends no more.
Held == ~open /\ MayWait
ExitsIfConnected ==
    <>[]Held \/ ((ppc = "done" /\ mpc = "play" /\ open /\ link = "up"
                    /\ npc # "dial") ~> mpc = "exit")
=============================================================================
