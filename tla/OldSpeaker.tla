----------------------------- MODULE OldSpeaker -----------------------------
(***************************************************************************)
(* The old speaker: CliThread (common/clithread.cpp), which joins the      *)
(* multicast group, learns the server's address from the first frame,      *)
(* connects to it and then feeds the queue from the group and answers the  *)
(* sync messages of the TCP connection; and the player loop                *)
(* RunCtx::client (clientsrc/main.cpp).  The server, the other speaker     *)
(* that is the pilot, and the network are the environment.                 *)
(***************************************************************************)
EXTENDS OldQueue

CONSTANTS
    Q_ALMOST_EMPTY,     \* below this length the player looks for a refill
    MinLevel,           \* SYNCHED_DELTA<<1: no level this short is taken over
    MaxDiff,            \* bound: how far this speaker and the pilot drift apart
    MaxStrays           \* bound: datagrams to the group that are no sound

ASSUME OldLevelsAssumption ==
    /\ Q_ALMOST_EMPTY \in Nat /\ MinLevel \in Nat
    /\ MaxDiff \in Nat /\ MaxStrays \in Nat

VARIABLES
    alive,      \* __alive
    npc,        \* where the network thread is
    tcp,        \* the connection, as the kernel has it
    sync,       \* the level the last sync message asks for
    strays,     \* history: chunks lost to datagrams that are no sound
    ppc,        \* where the player is
    filling, fillingsz, qoptim,     \* the player's locals
    srv         \* the server runs and sends its stream

netVars == <<npc, tcp, sync, strays>>
playVars == <<ppc, filling, fillingsz, qoptim>>
oldVars == <<queueVars, netVars, playVars, alive, srv>>

NetPcs == {"top", "join", "first", "dial", "greet", "tcp", "relevel",
           "reply", "udp", "take", "probe", "done"}
PlayPcs == {"loop", "fill", "empty", "full", "take", "play", "done"}

\* none: no descriptor; fin: the server has closed; reset: and refused data.
TcpStates == {"none", "up", "fin", "reset"}

NoLevel == 0        \* none, or a sync message that leaves the level alone
Levels == {l \in {Half - diff : diff \in -MaxDiff .. MaxDiff} : l > MinLevel}

OldInit ==
    /\ QueueInit
    /\ alive = TRUE
    /\ npc = "top" /\ tcp = "none" /\ sync = NoLevel
    /\ strays = 0
    /\ ppc = "loop" /\ filling = TRUE
    /\ fillingsz = Q_ALMOST_EMPTY /\ qoptim = Half
    /\ srv = TRUE

-----------------------------------------------------------------------------
(* The network thread.                                                     *)

Restful == UNCHANGED <<strays, playVars, alive, srv>>

FaultyLeaveTmain ==
    /\ npc = "top" /\ ~alive /\ tcp = "none"
    /\ npc' = "done"
    /\ UNCHANGED <<queueVars, tcp, sync>> /\ Restful

LeaveTmain ==
    /\ npc = "top" /\ ~alive
    /\ npc' = "done"
    /\ UNCHANGED <<queueVars, tcp, sync>> /\ Restful

\* _reconnect: is_really_connected() is remembered until destroy(), whatever
\* the server has done since.
TopOfTmain ==
    /\ npc = "top" /\ alive
    /\ npc' = IF tcp = "none" THEN "join" ELSE "tcp"
    /\ UNCHANGED <<queueVars, tcp, sync>> /\ Restful

\* drop(), destroy(), join(): a new socket, bound and made a member.
JoinGroup ==
    /\ npc = "join"
    /\ npc' \in {"first", "top"}      \* joined, or not
    /\ UNCHANGED <<queueVars, tcp, sync>> /\ Restful

\* is_set() saw no frame, or the pool is empty, or Ctrl-C has come.
NoFirstFrame ==
    /\ npc = "first"
    /\ npc' = "top"
    /\ UNCHANGED <<tcp, sync>> /\ Restful
    /\ \/ UNCHANGED queueVars
       \/ /\ ~alive /\ HasFree      \* the chunk obtained is not given back
          /\ pool' = pool - 1
          /\ UNCHANGED <<queue, optim, block_get, netHeld, playHeld>>

\* A frame is received into a chunk, for the server's address in it.
FirstFrame ==
    /\ npc = "first" /\ alive /\ srv
    /\ Obtain
    /\ npc' = "dial"
    /\ UNCHANGED <<tcp, sync>> /\ Restful

\* raw_connect, a pause, and is_really_connected.
DialUp ==
    /\ npc = "dial" /\ alive /\ srv
    /\ tcp' = "up"
    /\ npc' = "greet"
    /\ UNCHANGED <<queueVars, sync>> /\ Restful

FaultyDialFails ==
    /\ npc = "dial"
    /\ npc' = "top"
    /\ netHeld' = 0
    /\ UNCHANGED <<pool, queue, optim, block_get, playHeld>>
    /\ UNCHANGED <<tcp, sync>> /\ Restful

DialFails ==
    /\ npc = "dial"
    /\ NetRelease
    /\ npc' = "top"
    /\ UNCHANGED <<tcp, sync>> /\ Restful

\* The connection after send(buffer, length): the first one after the server
\* closed still succeeds, the next one fails and the socket is destroyed.
AfterSend == CASE tcp = "fin" -> "reset" [] tcp = "reset" -> "none" [] OTHER -> tcp

\* The first report, and the end of _connecting.
Greet ==
    /\ npc = "greet"
    /\ tcp' = AfterSend
    /\ NetRelease
    /\ npc' = IF alive THEN "tcp" ELSE "top"
    /\ UNCHANGED sync /\ Restful

\* Nothing on the connection, or its end, or no connection any more:
\* receiveall returns no header and nothing is done about it.
NoSyncMessage ==
    /\ npc = "tcp"
    /\ npc' = "udp"
    /\ UNCHANGED <<queueVars, tcp, sync>> /\ Restful

\* What a sync message makes of the level: nothing while there is no pilot or
\* its queue is not settled; the middle for the pilot itself; for the others
\* the middle less what the pilot is ahead (_frmdiff), if that is not too short.
SyncLevels == {NoLevel, Half} \union Levels

\* receiveall, and _store_qos up to the unlocked test of force_optim.  (A
\* message that sets the volume, or has no signature, has no answer either.)
\* What came before the end of the connection can be read after it.
StoreQos ==
    /\ npc = "tcp" /\ tcp # "none"
    /\ sync' \in SyncLevels
    /\ npc' = IF sync' \in {NoLevel, optim} THEN "reply" ELSE "relevel"
    /\ UNCHANGED <<queueVars, tcp>> /\ Restful

Relevel ==
    /\ npc = "relevel"
    /\ ForceOptim(sync)
    /\ npc' = "reply" /\ sync' = NoLevel
    /\ UNCHANGED <<tcp>> /\ Restful

\* _reply_qos: every sync message is answered with a report.
ReplyQos ==
    /\ npc = "reply"
    /\ tcp' = AfterSend /\ sync' = NoLevel
    /\ npc' = "udp"
    /\ UNCHANGED queueVars /\ Restful

NoFrame ==
    /\ npc = "udp"
    /\ npc' = "probe"
    /\ UNCHANGED <<queueVars, tcp, sync>> /\ Restful

TakeChunk ==
    /\ npc = "udp" /\ srv
    /\ Obtain
    /\ npc' = "take"
    /\ UNCHANGED <<tcp, sync>> /\ Restful

\* No chunk is free: the frame is drained, and the queue cut to its optimum
\* (percent() is the length, CHUNKS being 100).
DrainFrame ==
    /\ npc = "udp" /\ srv /\ ~HasFree
    /\ IF queue > optim THEN RemoveBack(queue - optim) ELSE UNCHANGED queueVars
    /\ npc' = "probe"
    /\ UNCHANGED <<tcp, sync>> /\ Restful

\* A datagram as long as a frame, but without ALIVE_DATA: its chunk is
\* neither fed nor released, and nothing has it any more.
LoseChunk ==
    /\ strays < MaxStrays
    /\ netHeld' = 0
    /\ strays' = strays + 1
    /\ UNCHANGED <<pool, queue, optim, block_get, playHeld>>

\* A whole frame, or a short one, or one that is no sound.
FeedFrame ==
    /\ npc = "take"
    /\ \/ QFeed /\ UNCHANGED strays
       \/ NetRelease /\ UNCHANGED strays
       \/ LoseChunk
    /\ npc' = "probe"
    /\ UNCHANGED <<tcp, sync, playVars, alive, srv>>

NoProbe ==
    /\ npc = "probe"
    /\ npc' = "top"
    /\ UNCHANGED <<queueVars, tcp, sync>> /\ Restful

\* send(_hdr) is another method than the one of AfterSend: sendall(), which
\* returns what it could not send, 0 if all was sent.  The result is compared
\* with the length of the message all the same.  So whoever could be sent to
\* is destroyed, and a connection that refuses data is kept.
AfterProbe == IF tcp \in {"up", "fin"} THEN "none" ELSE tcp

\* Every five seconds an EMPTY_DATA message, to see whether the server is there.
Probe ==
    /\ npc = "probe"
    /\ tcp' = AfterProbe
    /\ npc' = "top"
    /\ UNCHANGED <<queueVars, sync>> /\ Restful

NetThread ==
    \/ LeaveTmain \/ TopOfTmain \/ JoinGroup \/ NoFirstFrame \/ FirstFrame
    \/ DialUp \/ DialFails \/ Greet \/ NoSyncMessage \/ StoreQos
    \/ Relevel \/ ReplyQos \/ NoFrame \/ TakeChunk \/ DrainFrame \/ FeedFrame
    \/ NoProbe \/ Probe

-----------------------------------------------------------------------------
(* The player, RunCtx::client and _fill_q.                                 *)

MustFill == queue < fillingsz \/ filling

LeaveClient ==
    /\ ppc = "loop" /\ ~alive
    /\ ppc' = "done"
    /\ UNCHANGED <<queueVars, netVars, filling, fillingsz, qoptim>>
    /\ UNCHANGED <<alive, srv>>

\* Each time it fills it also sets the optimum back to the middle.
GoFill ==
    /\ ppc = "loop" /\ alive /\ MustFill
    /\ SetOptim(Half)
    /\ ppc' = "fill"
    /\ UNCHANGED <<netVars, filling, fillingsz, qoptim, alive, srv>>

GoTake ==
    /\ ppc = "loop" /\ alive /\ ~MustFill
    /\ ppc' = "take"
    /\ fillingsz' = Q_ALMOST_EMPTY
    /\ UNCHANGED <<queueVars, netVars, filling, qoptim, alive, srv>>

\* _fill_q reads the optimum, the length and the length again.
ReadOptim ==
    /\ ppc = "fill"
    /\ ppc' = "empty"
    /\ qoptim' = optim
    /\ UNCHANGED <<queueVars, netVars, filling, fillingsz, alive, srv>>

LookEmpty ==
    /\ ppc = "empty"
    /\ ppc' = "full"
    /\ filling' = (filling \/ queue = 0)
    /\ UNCHANGED <<queueVars, netVars, fillingsz, qoptim, alive, srv>>

LookFull ==
    /\ ppc = "full"
    /\ ppc' = "loop"
    /\ filling' = (filling /\ queue <= qoptim)
    /\ fillingsz' = qoptim
    /\ UNCHANGED <<queueVars, netVars, qoptim, alive, srv>>

TakeNext ==
    /\ ppc = "take"
    /\ \/ QConsume /\ ppc' = "play"
       \/ ~HasNext /\ ppc' = "loop" /\ UNCHANGED queueVars
    /\ UNCHANGED <<netVars, filling, fillingsz, qoptim, alive, srv>>

\* The chunk is played, its number noted, and it goes back to the pool.
PlayChunk ==
    /\ ppc = "play"
    /\ PlayRelease
    /\ ppc' = "loop"
    /\ UNCHANGED <<netVars, filling, fillingsz, qoptim, alive, srv>>

Player ==
    \/ LeaveClient \/ GoFill \/ GoTake \/ ReadOptim \/ LookEmpty \/ LookFull
    \/ TakeNext \/ PlayChunk

-----------------------------------------------------------------------------
(* The environment.                                                        *)

CtrlC ==
    /\ alive
    /\ alive' = FALSE
    /\ UNCHANGED <<queueVars, netVars, playVars, srv>>

\* The server closes this connection, or stops and loses them all.  If it had
\* not read what this side has sent it resets the connection at once.
ServerCloses ==
    /\ srv
    /\ srv' \in BOOLEAN
    /\ tcp' \in IF tcp = "up" THEN {"fin", "reset"} ELSE {tcp}
    /\ UNCHANGED <<queueVars, npc, sync, strays, playVars, alive>>

ServerStarts ==
    /\ ~srv
    /\ srv' = TRUE
    /\ UNCHANGED <<queueVars, netVars, playVars, alive>>

Environment == CtrlC \/ ServerCloses \/ ServerStarts

OldNext == NetThread \/ Player \/ Environment

OldSpec == OldInit /\ [][OldNext]_oldVars

\* Both threads run on, and the network works well enough: a join, a first
\* frame, a connection and the stream's frames succeed if they are tried
\* again and again; five seconds pass again and again; a server that stopped
\* is started again.
OldFairSpec ==
    /\ OldSpec
    /\ WF_oldVars(NetThread) /\ WF_oldVars(Player)
    /\ SF_oldVars(JoinGroup /\ npc' = "first")
    /\ SF_oldVars(FirstFrame)
    /\ SF_oldVars(DialUp)
    /\ SF_oldVars(TakeChunk \/ DrainFrame)
    /\ SF_oldVars(FeedFrame /\ QFeed)
    /\ SF_oldVars(Probe)
    /\ <>[]srv

-----------------------------------------------------------------------------
(* Properties.                                                             *)

\* The type of the old speaker's state.
OldTypeOK ==
    /\ pool \in 0 .. Chunks /\ queue \in 0 .. Chunks
    /\ optim \in {Half} \union Levels
    /\ block_get \in BOOLEAN
    /\ netHeld \in 0 .. 1 /\ playHeld \in 0 .. 1
    /\ alive \in BOOLEAN
    /\ npc \in NetPcs /\ tcp \in TcpStates
    /\ sync \in SyncLevels /\ strays \in 0 .. Chunks
    /\ ppc \in PlayPcs /\ filling \in BOOLEAN
    /\ fillingsz \in {Q_ALMOST_EMPTY, Half} \union Levels
    /\ qoptim \in {Half} \union Levels
    /\ srv \in BOOLEAN

\* Whichever way _connecting, the receiver, the re-levelling and the player end
\* their work on a chunk, it is in the pool or in the queue again; only a
\* datagram that is no sound takes one out of use, each exactly one.  (One more
\* may be lost on the way out.)
ChunksConserved ==
    LET accounted == pool + queue + netHeld + playHeld + strays IN
    IF alive THEN accounted = Chunks ELSE accounted \in {Chunks - 1, Chunks}

\* The level has always left a chunk to feed, whatever is lost to strays.
RoomLeft ==
    \E lost \in 0 .. MaxStrays : []((strays <= lost) /\ (optim < Chunks - lost))

\* Music goes on after any disturbance: once the level is forced no more, a
\* speaker with a stream plays again and again, also with fewer chunks.
OldKeepsPlaying ==
    RoomLeft /\ <>[](npc # "relevel") => []<>(ppc = "play" \/ ~alive)

\* A speaker connects again, whether the server or its own probe has ended the
\* connection, unless it is left with one that refuses data: there the probe
\* fails, and keeps it.  It needs a free chunk to connect, which a full queue
\* that waits to be filled never gives back.
Reconnects ==
    RoomLeft => []<>(tcp = "up" \/ ~alive) \/ <>[](tcp = "reset")

\* Ctrl-C ends both threads, wherever they are.
OldExits == ~alive ~> (npc = "done" /\ ppc = "done")
=============================================================================
