# The multi-room speaker in TLA+

A server reads raw sound from a fifo and sends it in chunks of 4096 bytes over
TCP to every speaker of the house; each speaker finds the server by broadcast,
keeps a few seconds of sound in a queue and plays it. An earlier version, kept
under `src/OLD_UDP`, sends the sound by multicast. These modules model the
programs, the sockets and the network they run on, and put them together;
TLC checks them on small instances, and TLAPS proves every safety property
that holds in these runs for every instance. The reference is the C++ under `src/`. `PROJECT.json`
("map") gives the lines each definition stands for.

## 1. Inventory

| Part | Source | State | Operations | Interacts with |
|---|---|---|---|---|
| Play queue `Circle` | `src/common/srvq.h` | ring of chunks, get and put index, element count, optimum, `_block_get`, a `_locked` flag per chunk; one mutex | `q_feedup`, `q_consume`, `release`, `force_optim`, `reset`, `dummy`, `length`, `optim` | both threads of a speaker |
| Network thread | `src/cli/sclient.cpp` | socket, `_ips`, the report that waits (`_qos`), `_reque_time` | `_tmain` (connect, retry), `_get_data` (select, take a chunk), `_check_stream` (receive, re-level, report) | queue, server, main thread |
| Player thread (main's) | `src/cli/player.cpp` | `filling`, `fillingsz` | `play`, `_fill_q`, `_play` | queue, `update_frame` |
| Life of a speaker | `src/cli/main.cpp`, `~sclient` | `__alive` | discover, start, play, close and join | Ctrl-C (`screenxy.cpp`) |
| Android player | `src/cli/android` | `__alive`, `_server`, `_ifs`, a thread; no lock | `timer_slot` (search, start, restart), `_tmain` | network thread, discovery |
| Server loop | `src/srv/main.cpp` | frame counter, sleep time | peek the pipe, `qsend`, `pool`, PID, sleep | `TcpSrv` |
| `TcpSrv`, `Clictx` | `src/srv/tcpsrv.cpp` | map from IP to client, `_index`, last report, pilot data, `_newclient`, `_dirty` | `qsend`, `pool` (accept, `rec`, `_clean`) | clients over TCP |
| Sockets | `src/common/sock.cpp`, `sock.h`, and their older form | `_thesock`, `_blocking`, `_connecting`, `_connected`, membership | create, connect (three ways), modes, `sendall`, `destroy`, join and drop | all programs, the kernel |
| Discovery | `src/cli/udpdisc.cpp`, `src/srv/udpdisc.cpp` | sockets, the addresses heard, the log's time | broadcast, answer, collect, look for new interfaces | both `main`s, a datagram network |
| Pace controllers | `src/srv/pidaim.cpp`, `src/cli/pider.cpp`, the old `pidaim.cpp` | integral, last error, last output | `calculate`, `reset` | server loops |
| Pipe | `src/srv/pipein.cpp` | fifo | `peek` | server loop |
| Old speaker | `OLD_UDP/.../clithread.{h,cpp}`, `clientsrc/main.cpp` | pool and queue of chunks, connection, group | join, dial, answer sync messages, feed, play | old server |
| Old server | `OLD_UDP/.../tcpsrv.cpp`, `serversrc/main.cpp` | vector of clients, pilot's frame | listen, `pool` (accept, read, sync, `_clean`) | old speakers, browsers |
| Audio, screen | `aop.cpp`, `screenxy.cpp`, ... | output only | | |

What is hard, and what makes each part correct:

* **Queue.** Each call is atomic, but chunks are filled and played between
  calls, `force_optim` and `reset` move the indexes under both threads' feet, and
  the full-queue test is `<=`. Correct: the count and the indexes agree, a chunk is
  never written while it is played, no lock flag is left behind.
* **Player.** Three independent rules make it wait, decided on reads that are
  stale when used. Correct: it always comes to play again, and ends on Ctrl-C.
* **Network thread.** An element is counted before its frame has arrived; a
  connection may end anywhere; main closes the socket from outside. Correct: no
  sound is heard twice, damage is bounded by the broken connections, the program
  ends.
* **Server.** Addresses are reused by reconnecting clients, the pilot is a number
  that two procedures assign, its report outlives it. Correct: at most one pilot,
  the pilot data is the pilot's, who is gone is forgotten.
* **Server and speakers.** Each waits for data of the other before it sends its
  own. Correct: reports come, sync frames keep coming.
* **Sockets.** A descriptor is a plain int that two threads may close, every call
  can fail half-way, the mode is changed and put back, number 0 counts as none.
  Correct: no descriptor is lost, none of another's is closed, a send or receive
  blocks, a connection believed in is there, calls end.
* **Android player.** Three threads share plain flags. Correct: it plays again
  after any end, and `_ifs` is not changed while it is walked.
* **Discovery.** Datagrams are lost, doubled and late, sockets fail for good,
  addresses change. Correct: what was heard is kept, no socket is left, the server
  is found in the end.
* **Old speaker.** Chunks pass through many exits of one thread; the end of a
  connection is only noticed by sending, and one of its two ways of sending reports success
  as failure. Correct: no chunk is lost, music and connection come back. (A datagram that
  is no sound does lose one.)
* **Old server.** Clients are numbered by place in a vector that is compacted while
  reports are read. Correct: the longest connected is the pilot, the frame followers
  compare with is the pilot's, who is told so stays. (Nobody stays: section 4.)

`PROJECT.json` ("hazards") lists each hazard at its line with the properties on it.

## 2. The modules

```
Circle ---- Player ---- Client --(implements)--> AudioStream, Circle
                           |
                      ClientProofs

TcpSrv ---- Speakers --(implements)--> TcpSrv
                |
           ServerProofs

Sock ---- SockCalls ---- SockPrograms ---- Phone ---- SockProofs ---- SockUseProofs

Discovery, Addresses ---- UdpPeer ---- UdpProofs
OldQueue ---- OldSpeaker ---- OldSpeakerProofs
OldTcpSrv ---- OldTcpSrvProofs
Pace ---- PaceProofs
```

A line to the right or down is EXTENDS. `MCPlayer`, `MCClient`, `MCTcpSrv`,
`MCSpeakers`, `MCSock`, `MCDiscovery`, `MCOldSpeaker` and `MCOldTcpSrv` give the
constants values for TLC.

* **Circle**: the queue and the order in which the two threads may call it. `chunk`
  and `pk` are the local variables of `_get_data` and `play`; a chunk is its slot. A
  method is one action because it holds `_m` throughout. `HasRoom` and `HasFrame` are
  the conditions of `q_feedup` and `q_consume`, so each method's two outcomes are
  two actions. `force_optim` tests `_optim` before it locks, but only the network
  thread writes `_optim`, so it is one step too.
* **Player**: the loop of `play()`, one step for each call that locks the queue
  (`ppc`), with any call of the network thread in between.
* **Client**: `npc` is where the network thread is; `mem` is what the chunks hold: the
  number in the header, whether `buf_len` is set, and which frame the payload is of.
  Numbers are the model's `cur_seq`. `link` is the connection, `open` this end's
  descriptor: the kernel keeps a connection in which a receive waits after main has closed the
  descriptor (`LastReceive` ends it, if anything comes). `mpc` is the main thread after `play()`. The server is the environment.
  `hdr.role` joins the header's `is_pilot` and `pilot_q_perc`; `hdr.lag` is `_frmdiff`;
  the `MAX_REQUE_INTERVAL` timer is the choice between `ComputeLevel` and `KeepLevel`.
  A frame whose `pilot_seq` is 0 is one with `sig` "other".
* **AudioStream**: what a listener is promised, with nothing of the implementation:
  each chunk is heard at most once, none is invented, and a damaged one needs a
  broken connection of its own. It says nothing of order: see `CalmIsInOrder`.
* **TcpSrv**: `spc` is the line of main's loop. `pool` is one action, because only the
  clients run beside the server and nothing in it waits: what they do in the middle
  of it they could have done before or after. `source`, `older` and `replaced` are
  history variables: no action reads them except to keep them. `_dirty` is not there: it
  is set and cleared within one `pool()`. `_pilotping`, `_pilot_opt_skew` and the pings
  are left out; they are set and cleared with the rest of the pilot data.
* **Speakers**: TcpSrv with the frames on the wire and the answers of
  `_check_stream` in the place of free clients. `due` is the `QOS_TO` timer.
* **Sock**: one process's descriptor table (`file`) and the fields of its socket
  objects (`sk`). Each method of `common/sock.cpp` is cut where another thread may come
  between two looks at `_thesock`; a method that is called returns to the label it was
  given. An open, refused, dialling, lost, foreign or standard descriptor is told
  apart, because the classes do not do so. **SockCalls** is the interface: what any
  caller may do with a TCP client, a group and a point-to-point object.
  **SockPrograms** puts the programs over it: `program` chooses, once, which of them
  this process runs, so that one table and one set of invariants serves them all. `sendall` and
  `receiveall` are cut into pieces (`part`). `DestroyTcp` leaves the connection alone: the
  `shutdown()` before the `close()` is given an argument that it refuses.
* **Phone**: the Android player over the same network thread. `ui` is where the Qt
  timer's `timer_slot` is; `th["main"]` is `Dialog::_tmain`. `late` and `crossed` are
  history variables, see section 4.
* **Discovery**: a Udper for each interface of the speaker, one for each address of the
  server's machine, and `net`, the datagrams on their way. `turn` is the place in
  `join()`'s three loops. `calm` is the moment from which nothing fails or changes any
  more; the properties before it are safety, those after it liveness. `log` is what
  `stat("/var/log/syslog")` can tell, by whose modification time the beacon notices that addresses change.
* **OldQueue**, **OldSpeaker**: the pool and the queue are counts, since which chunk it
  is does not matter to whether one is lost; `netHeld`, `playHeld` are the local variables that
  hold one. `tcp` says whether the server has closed ("fin") and has refused data
  since ("reset"): the program learns of it only by failing sends. There are two `send`s:
  `AfterSend` is `send(buffer, length)`, which destroys a connection that refuses data, and
  `AfterProbe` is `send(_hdr)`, whose answer is taken the wrong way round. `strays` counts the
  chunks that datagrams without `ALIVE_DATA` have taken out of use (`LoseChunk`).
* **OldTcpSrv**: `pool()` is cut at `select()` and at each client read after it, because
  there the order of reads decides whose frame is the pilot's. A vector is
  its set of elements and their `_index`, the place in it. `Sync` closes whoever it could send
  to, as `tcpsrv.cpp:165` does.
* **Pace**: the controllers as functions on a record, in integers: dt is constant and
  part of the gains.
* **Addresses**: the comparisons of `SADDR_46`; an address and a mask are sets of bits.
  **UdpPeer**: whom a UDP object talks to, that is `_remote_sin`, which its methods for sending,
  receiving, connecting and binding share, beside the peer the kernel has. It is too large for
  TLC as it stands (32-bit addresses), and is proved only.

Operators that begin with `Faulty` are slips in the code a property should notice
(a dropped test, a forgotten release). No specification uses them.

## 3. What the runs check

| Run | Bounds | Shows |
|---|---|---|
| `player` | 20 chunks, levels 15 and 50, refill below 5 | `RingConsistent`, `LocksAreHeld`, `NoSharedChunk` for every order of calls; `KeepsPlaying`, `PlayEnds`. 20 is the first size of which the 95% clamp of `force_optim` cuts anything; 50 is the pilot's level and is clamped, 15 is a follower's |
| `speaker` | 2 chunks, 3 frames, 1 broken or refused connection, 1 server | `KeepsPromise` (refinement of AudioStream), `CircleSpec` (refinement of Circle), `CalmIsInOrder`, `CalmReportsAdvance`, `ExitsIfConnected` |
| `server` | 2 addresses, 1 report, 2 waiting connections | `AtMostOnePilot`, `PilotDataIsPilots`, `PilotUnlessReplaced`, `GoneIsRemoved`. Before it starts TLC evaluates `PaceOnShortHistories` and `PaceStartsFromZero`, the pace controller on all histories of five reports with five different errors |
| `house` | 2 speakers, 1 frame on each wire | `NeverPiloted`, `SyncKeepsComing` |
| `sock` | descriptors 0 to 2, 2 tries to close, frames in 2 pieces | `NothingLost`, `ClosesOnlyItsOwn`, `BlocksInUse`, `ConnectedIsReal`, `NoTornFrame`, `CallsEnd` for the speaker, the server, the old speaker, any TCP and any UDP caller; `AddressesStay`, `PlaysAgain` for the phone |
| `discovery` | 1 address of the server, up to 2 interfaces, 2 rounds of 2 polls | `HeardIsKept`, `NoSocketLeft`, `Found`, `SearchEnds` |
| `old_speaker` | 3 chunks, middle 1, refill below 1, drift up to 1, 1 stray datagram | `ChunksConserved`, `OldKeepsPlaying`, `Reconnects`, `OldExits` |
| `old_server` | 3 connections, frames 1 and 3 with 1 as the largest distance, 2 tries to listen | `OldFirstConnectedIsPilot`, `PilotFrameIsPilots`, `NobodyStays`, `EachIsRemoved` |
| `speaker_order` | 2 chunks, 4 plain frames | `PlaysInOrder` is violated |
| `speaker_exit` | 2 chunks, 2 servers | `ExitsOnCtrlC` is violated |
| `server_first` | 3 addresses | `FirstConnectedIsPilot` is violated |
| `house_reports` | 2 speakers | `EachClientReports` is violated |

Why the bounds are enough. A ring of 2 with 3 frames is overfull, laps, and is reset
and re-levelled while both threads hold chunks; the ring's own arithmetic is checked
at 20 and proved for every size. One broken connection can be lost before the header,
in it, in the payload, or refused, and there are frames after it. Two clients are
enough for a renumbering and for a replaced connection; the server's invariants are
proved for any number, and the old server's too. Descriptors 0 to 2 are stdin or its
place, one for the program and one that the rest of the process, or a second object of
the program, takes between two steps; the table is full at times, so every `socket()`
fails at times. With three chunks the old queue is empty, at its middle, above it and full
while each thread holds one; drift 1 makes levels that leave one of three free and, once a stray datagram has taken a
chunk away, none of two: the standstill that `RoomLeft` excludes. Three connections to the old server are one in the vector, one that is accepted
and one that waits. Two
interfaces and two rounds are the fewest with a failed and a working Udper side by side and a
second call on the same sockets; `HeardIsKept` and `NoSocketLeft` are proved for any number.
`MaxFrames`, `MaxCuts`, `Window`, `Backlog` (8 in the code), `MaxFd`, `CloseTries` (32),
`FrameLen`, `NIfaces`, `Rounds` (4), `Polls` (64), `MaxDiff`, `MaxStrays` and `MaxTries` (10) are
the only bounds on counters. In Phone: nothing else in the process opens descriptors, stdin is
taken, and no thread is started after a slip (section 4).

Deadlock is checked in `player`. Programs that have ended, and a
server whose pipe has failed, really stop, so the other runs do not look for it.

Fairness. Every thread is a loop without a lock it keeps, so each runs on whenever it
can (weak fairness of the thread as a whole, not of its branches). Where it waits for the other
end of a connection it need not: a receive lasts as long as nothing comes, a send as long as
its receiver does not read, and no program can do anything about either. So the fairness of
these threads excludes exactly those states (`MayWait`, `MayBlock`), and the properties say "or it
waits for ever". That is all that `speaker` assumes. Beyond it:

* `player`: the network thread releases what it takes and frames keep arriving,
  because the properties are about music that is being sent; `KeepsPlaying` speaks of
  behaviours in which the level is moved finitely often, which
  `MAX_REQUE_INTERVAL` (30 s against 23 ms of sound per chunk) stands for.
* `server`: sound comes, without which `main`'s loop neither accepts nor cleans. A send to a
  client that is there may last for ever: `GoneIsRemoved` then promises nothing.
* `old_server`: sound comes, and the server is not stopped. No send waits, since no client
  is sent more than one small message, and nothing is assumed of time.
* `house`: time passes and connected speakers read and play.
* `sock`: the kernel gives up a dial that is not answered. A search of the phone, and
  the set-up of its sound, succeed if repeated often enough (strong fairness), which is
  what `timer_slot` relies on when it repeats them every second.
* `discovery`: what is not lost arrives; once it is `calm` it arrives before the poll
  that waits for it is over (`InTime`: the beacon answers in milliseconds, a `join()` lasts seconds).
* `old_speaker`: a join, a first frame, a connection and the frames of the stream succeed
  if they are tried again and again, and five seconds have passed again and again when the probe
  is looked at (strong fairness of each); a server that stopped is started again.

Nothing is ever assumed of users, of who connects or closes, or of which way one
connection attempt goes.

## 4. What the code does

Where it disagrees with its documents (the runs that expect a violation):

* **Reports never start** (`house_reports`, and `HandshakeNeverStarts` for any number of
  speakers). `sclient.cpp:110` answers only frames with a `pilot_seq` other than 0;
  `tcpsrv.cpp:74` sends 0 until `rec` has read a report. README.md:87 promises a report
  every few seconds. With them go the pilot's data, the PID and all re-levelling. The
  properties of `TcpSrv` about pilot data and those of `Client` about levels are
  therefore about code that is there but does not run until this is repaired.
* **A full queue plays out of order** (`speaker_order`): `srvq.h:203` tests `<=`, so the
  frame after the last that fits overwrites the oldest one and is played first, where
  `sclient.cpp:206` means to drop it.
* **Ctrl-C may not end a speaker** (`speaker_exit`): if it comes during `sleep(1)` in
  `_tmain`, `~sclient` finds no socket to close and waits for a thread that then connects
  and stays in `_get_data`. `ExitsIfConnected` is what does hold.
* **The pilot's role goes by IP address** (`server_first`): `_clean` renumbers in the
  order of the map. README.md:83-84 says by order of connection. Moreover
  a client that reconnects before its old connection is seen to be gone is numbered by the
  size of a map that still holds it (`tcpsrv.cpp:154-166`), so the role may be nobody's;
  `PilotUnlessReplaced` says that this is the only way. The old server's vector keeps
  the order (`OldFirstConnectedIsPilot`), though of clients it has closed.

What the other models say of the code, where a property has a premise or says itself what is wrong:

* **Success taken for failure** (`old_speaker`, `old_server`). `send(const T&)` of the old
  sockets is `sendall`, which "returns 0 for success" (the comment at `sock.cpp:425`); its
  callers compare it with the length of the message. So the probe of the old speaker destroys its
  connection whenever it works, and keeps one that refuses data (`clithread.cpp:130`): the
  second half of `Reconnects`. And the old server closes each client with
  the sync message that its `accept` made due (`tcpsrv.cpp:100, 165`): nobody is served for
  longer than one call of `pool()` (`NobodyStays`), no report of a client that is there is read
  (`ReadsOnlyTheGone`, which is only proved), and the vector numbers connections that are closed already.
  A report can only be the last word of a client that had gone before it was written to.
* **Two `destroy()` of one socket** (`sock`). `~sclient` and the network thread both destroy
  the socket, and the descriptor is a plain int. While both are at their `close()` the
  same number is closed twice, and the second time it may be somebody else's.
  `NothingLost` and `ClosesOnlyItsOwn` say that this takes exactly that overlap.
  A `select` on the -1 that the other thread has stored is undefined; S4Wait has both what
  builds do, to die and to wait for its 2000 s. Descriptor 0 is open for some methods and none
  for others: a process started without stdin forgets it once.
* **A receive that main cannot end** (`speaker`, `sock`). `destroy()` calls `shutdown(fd, 0x3)` (`sock.cpp:618`,
  `:628`); the argument is none of 0, 1 and 2, so it fails with EINVAL, and `close()` does not
  wake another thread's `recv`. A network thread that waits for the rest of a frame goes on
  waiting until the server sends or closes, and `~sclient`'s join with it.
  `ExitsIfConnected` (its first disjunct, `Held`) and `PlaysAgain` (`MayWait`) except exactly this;
  without the exception TLC shows the wait.
* **A client that does not read** (`server`). `sendall` (`tcpsrv.cpp:92`) waits for it, and so do accepting,
  cleaning and everybody else. `GoneIsRemoved` excepts a server that waits so for ever. A client that has gone
  ends the wait with an error.
* **Two slips of the phone** (`sock`). `timer_slot` sets `__alive` after it has started the thread; if
  that thread has ended by then, it is taken for running for ever (`late`). `_tmain`
  clears `_server` at its end, so that a restart decided before it leaves a running
  thread with `_server` false, and the next tick searches, and clears `_ifs`, which the
  network thread walks (`crossed`). `AddressesStay` and `PlaysAgain` hold unless one of
  them has happened; without the premise TLC shows each.
  If `init_ao` fails, `~AoCls` stops a player that was never made: "fault" is one outcome.
* **Levels of the old speaker** (`old_speaker`). `force_optim` blocks the queue until it holds more than the level.
  A level of all the chunks leaves none to be fed, and nothing excludes it: the
  properties have `RoomLeft` as premise, and without it TLC shows the standstill.
* **Datagrams that are no sound** (`old_speaker`). One that is as long as a frame, but not `ALIVE_DATA`, is
  neither fed nor released (`clithread.cpp:97-106`): its chunk is lost. `ChunksConserved` says that
  nothing else loses one; a hundred of them stop the speaker, so `RoomLeft` counts them too.
* **The server is found only with a log** (`discovery`). The beacon looks for interfaces when the time of
  `/var/log/syslog` has changed; on a machine without that file it never has an
  address. That is the premise of `Found`. A socket that could not be opened
  is not tried again before its Udper is deleted; that, and a whole `join()` that hears
  nothing, is repaired by the next one. `ifs` is only ever added to while the
  speaker runs: a server that has moved is searched for only by a speaker that is started anew.
* **The pace controller** (`Pace`). An output more than 20 from the last one is replaced by the last
  one, and the first last one is 0, below the controller's own minimum of 1. So a first wish above 20 is
  ignored until a smaller one comes, and the server can sleep less than nominal but never more
  (`AnswersMoveSlowly`, `NeverSlowerThanNominal`).
* **The address of a UDP object** (`UdpPeer`). `GoesWhereAsked` and `PeerIsRemote` hold until one
  of three things: `::connect()` fails and nobody looks; `receive()` is called for no
  address and clears the mask with the address, after which `==` takes every host with the same
  port for the peer (`ClearedMaskEqualsAll`); a connected group sends or receives. None of
  the programs connects a UDP object today.
* **Comparing addresses** (`Addresses`). `!=` is not the opposite of `==` when one port is 0
  (`DifferIsNotEqual`), and `<` orders hosts only if they have ports
  (`HostsAreOrdered`, `AnyPortBreaksOrder`).

## 5. What is proved

TLAPS checks these for every value of the constants.

* **ClientProofs, the queue**. The invariant is `RingInv`, the conjunction of `TypeOK`,
  `RingConsistent`, `LocksAreHeld` and `NoSharedChunk`. It is needed as a whole: the
  indexes wrap by at most two rounds only if the count is at most `Chunks + 1`
  (`TypeOK`), that bound needs the consistent indexes when `force_optim` drops elements,
  and that no chunk is shared follows from the flags being exactly the chunks held.
  Lemmas `Wraps` and `TakingOff` carry the modular arithmetic. Assumed: a positive
  number of chunks, levels that are natural numbers.
* **ClientProofs, the speaker**. Three invariants, each on top of the one before. `SpeakerInv`: who
  of the three threads holds what. With it every step of `Client` is a step of `Player`, and so
  of `Circle`, or none (`ClientImplementsPlayer`, `ClientImplementsCircle`): all that is proved
  of the queue holds in the speaker. `ListenInv`: what is in the memory. A chunk that is whole and
  waits was never heard and is unlike every other (`Unheard`), a mixed one was paid for by a broken
  connection (`Paid`), and the next frame on the wire is new (`ReceivesNext`). It gives the safety part
  of the refinement, `KeepsPromise`: every step maps to a step of `AudioStream` or a stutter, so
  no frame is played twice and none that was not sent. `CalmInv`: as long as the queue was never
  overfull and nothing was cut, the frame numbers rise from the get index to the put index
  (`Rising`), through resets and new levels; from it, the order of what is heard and of the reports.
  Assumed: what Client states of its constants.
* **SockProofs**. `NothingLost` and `ClosesOnlyItsOwn` are about a table of descriptors that two
  threads of five programs use with no lock, and they are far from inductive. `socket()` and `create()`
  write over `_thesock` without a look at what is there: that nothing is lost is due to every
  caller, who destroyed first or saw that nothing was open. So the invariant `SockInv` says where each
  thread of each program can be and where its `destroy()` returns to (`ControlOK`), what is open at the
  labels before an opening (`OpenWhen`, for the phone's threads `PhoneTurns`), and,
  as long as two `destroy()` of one object have not overlapped, who owns what (`Tidy`):
  each number is of the object that names it, from the `socket()` to the `close()`; between the `close()`
  and the store of -1 it is not; one thread at a time closes an object; no `close()` is
  refused. The proof goes in two halves. Each action of the programs has one of five effects on
  the ownership: `Quiet`, `Opens`, `Fails`, the end of a peer-to-peer socket, or `AcceptZero`, the
  connection that `accept()` returned as 0 and the classes take for none. And each effect, and each
  step of a `destroy()`, keeps `Tidy`. Assumed: positive `MaxFd`, `CloseTries` and `FrameLen`;
  nothing of how the phone's user interface or the environment behave.
* **SockUseProofs**, on top of `SockInv`. `Real`: only the callers of the blocking connect set
  `_connected`, on a socket that has a peer, and a `close()` begins after it was cleared. `Serves`, for
  the server: the client that is sent to is blocking, and after a failed `sendall` it is destroyed
  before the next frame begins; `NoTornFrame` needs both `part` and the label `destroy()`
  returns to. `OldUses` and `ReceivesBlocking` for the old speaker and the new one, whose
  connects make the socket non-blocking and back; for the latter the ownership is needed, because
  another object could otherwise set the mode of its descriptor. `AwayInv`, for the phone: a network thread that
  was told to stop is out of the loop over the addresses for good (`StandsStill`).
* **ServerProofs, the server**. The invariant is `PilotInv`: types and the three pilot invariants. Lemma
  `RankZero` says that `_clean` gives 0 to the lowest address and nobody else, and
  `LowestAddress` that there is one; `MapLength` that accept gives 0 only in an empty map.
  Assumed: a finite set of addresses that are numbers, reports made of numbers.
* **ServerProofs, the speakers**. Every step of `Speakers` is a step of `TcpSrv` or none
  (`SpeakersImplementTcpSrv`), so the server's theorems hold among real speakers; and
  `NeverPiloted` with the types is inductive: no frame on any wire names a pilot's frame,
  hence no answer, hence no report to name one from.
* **OldTcpSrvProofs**. The invariant is `OldPilotInv`. `_index` is the place in the
  vector, which is more than a property of the pilot: `Positions` bounds the numbers,
  `Distinct` separates them and `Ordered` says that they follow the order of
  connection, and only all three survive the renumbering in `_clean` (the rank of a client among
  those that stay). `Phase` keeps who is read in the vector until it is read.
  `FirstInVectorIsPilot` and `PilotFrameIsCurrent` come from these. `NobodyIsServed` needs that
  `Select` makes a sync message due with each client it accepts, and that the message leaves
  nobody open whom it could be sent to (`SyncCloses`); from it follows `NoLivingReport`, since what
  is read was in the vector before.
  Assumed: a finite set of connections, frames that are numbers.
* **OldSpeakerProofs**. `ChunksConserved` is not inductive: that `release` gives a chunk back
  needs to know that its thread holds one exactly in the calls that work on one
  (`Hands`; the sum counts the strays as well), that `force_optim` is called with a level (`Forced`), and that the one path
  that drops a chunk leads out of the program and is taken once (`LostOnTheWayOut`). `ChunkInv` joins
  them with the types, in which the sum is what bounds the pool and the queue. Assumed: positive `Chunks`, `Half` within it, natural levels.
* **UdpProofs, discovery**. `HeardIsKept` speaks of the moment the Udpers are deleted. The induction
  needs it of every moment (`Consumed`): what any of them has heard is known, except of
  the one that is being polled. `NoSocketLeft` needs `UdpersOK`
  and `BeaconsOK` (a socket is open exactly in two of its four states) and `Deleted`.
  Assumed: a finite set of addresses, positive numbers of interfaces, rounds and polls.
* **PaceProofs**. For all gains and any history of reports and silences: an answer is 0
  or in its range, moves by at most the jump, and never returns to 0 but by `reset()`.
* **UdpProofs, addresses**. The comparisons, on sets of bits of 32-bit numbers: symmetry, irreflexivity,
  transitivity among hosts with ports, and the failures of section 4. For `UdpPeer` the invariant
  `UdpInv` adds to the two properties that the mask is full until a slip (`FullMask`), because only
  then `==` of two hosts means one host (`EqualHosts`).

The inductive invariants of the client and of the sockets were also given to TLC, on the instances of
`speaker` and `sock`, and hold there.
The proof found one flaw of a model that TLC could not: `ProgInit` chose the first label
by a CASE whose guards overlapped, of which TLC takes the first and the logic any. It is an
IF now.

Only model-checked: liveness (`KeepsPlaying`, `PlayEnds`, `ExitsIfConnected`,
`GoneIsRemoved`, `SyncKeepsComing`, `CallsEnd`, `PlaysAgain`, `Found`, `SearchEnds`, `OldKeepsPlaying`,
`Reconnects`, `OldExits`, `EachIsRemoved`): TLAPS does not prove properties under
fairness. The types of `TcpSrv`, `Speakers` and `OldTcpSrv`, and `UdpPeer`, are only proved.

## 6. What is not modelled

* Sound, volume, formatting, the display and the audio devices; calls of libao, ALSA,
  PulseAudio and tinyalsa are without state of their own.
* Of the sockets: names and the DNS, socket options, what is received; `attach()`, `detach()`, copies and `socket()` as an lvalue,
  which give one descriptor to two objects. `setsockopt` is assumed to succeed where its
  result is ignored.
* Of discovery: the server's own `discover()`, which has no caller; foreign datagrams at
  the server's port; `select()` on descriptors that are -1, taken for "nothing came".
* Of the old server: the web page and the volume a browser can set, its pace
  (`serversrc/main.cpp:76` hands the gains I and D in the other's place; before the first
  report the sound goes out unpaced). A request counts as a message that ends the connection. Of `_clean`, which
  goes on with an iterator it has erased and prints through it, the model has what a vector
  does: the next element. Of `mcast.create(MC_ADDR, MC_PORT)`, whose second parameter
  is a protocol, only success and failure are told apart.
* Of the Android player: what is shown, and the end of the dialog. The old Android
  player's loop is that of `clientsrc/main.cpp` in a dialog, and is not modelled again.
* Undefined behaviour elsewhere: `tcpsrv.cpp:184` asks `FD_ISSET` about descriptor -1, and
  `tcpsrv.cpp:207` prints a client it has just deleted. Neither's outcome reaches the
  state that is modelled: such a client is removed in the same call either way.
* `main`'s outer loop in Client: a speaker is started once; a second one starts from the same
  initial state only if `__alive` still holds, and `play()` returns only when it does
  not. The search before it is in Discovery. In `SpeakerTop` the branch that destroys a socket left open is
  the code's, but no behaviour takes it: `_get_data` ends without one.
* Hazards without a property are in `PROJECT.json`, each with its reason: an idle pipe, and the pace controller, which is a function. Two more have no
  effect the models could show: `is_pilot` may be set of two clients until both have reported, which they
  never do; and `_frmdiff` makes a follower's lag include its own queue, while Client lets the lag
  be anything.

## 7. What the plan has left

Done: every module and proof of sections 2 and 5. Worth doing next:

1. **An abstract socket**: what the classes promise a program with one thread (open, connected,
   closed, each descriptor given back once) as a specification of a page, and `SockSpec` shown to
   implement it while no two `destroy()` overlap; `SockInv` holds what the mapping needs.
2. **What the premises are worth**: that `overlap` can only follow Ctrl-C in the sclient, and `late` and
   `crossed` only the two slips of the phone, as action properties with proofs.
3. **Repairs as alternatives**: a strict `q_feedup`, a handshake that starts and a store of
   `__alive` before the thread starts, as constants of the modules, to see which of the violated or
   premised properties they restore.
