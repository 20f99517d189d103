------------------------------ MODULE Discovery ------------------------------
(***************************************************************************)
(* How a speaker finds the server: Udper of cli/udpdisc.cpp with the loop  *)
(* of cli/main.cpp, Udper of srv/udpdisc.cpp, and the network between.     *)
(* The speaker has one Udper for each of its interfaces, which broadcasts  *)
(* on one socket and hears answers on another; all hear on one port, and   *)
(* the kernel gives an answer to any of them.  The server has one Udper    *)
(* for each of its addresses; all listen on one port, a broadcast comes to *)
(* every one of them, and each answers with the address it stands for.     *)
(* Datagrams are lost, doubled and late; sockets cannot always be opened.  *)
(***************************************************************************)
EXTENDS Integers, FiniteSets

CONSTANTS
    Address,        \* the addresses the server's machine can have
    NIfaces,        \* bound: the speaker has 1 .. NIfaces interfaces
    Rounds,         \* rounds of join(): 4
    Polls,          \* polls of one discover(): 64
    Every           \* polls between two broadcasts: 4

ASSUME AddressAssumption == IsFiniteSet(Address) /\ "ask" \notin Address /\ "noise" \notin Address
ASSUME NIfacesAssumption == NIfaces \in Nat \ {0}
ASSUME PaceAssumption ==
    Rounds \in Nat \ {0} /\ Polls \in Nat \ {0} /\ Every \in Nat \ {0}

VARIABLES
    calive, salive,     \* __alive of the speaker and of the server
    cpc,                \* where the speaker is
    udps,               \* the speaker's Udpers of this join()
    turn,               \* [round, u, k]: round, Udper and poll it is at
    ifs,                \* the addresses it knows
    spc,                \* where the beacon is
    beacons,            \* the state of the socket of each of its Udpers
    asked,              \* whether a question waits in those sockets
    todo,               \* the Udpers still to be served in this pass
    log,                \* the time of /var/log/syslog
    up,                 \* the addresses of the machine
    calm,               \* all faults and changes are over
    net,                \* datagrams on their way
    open                \* the sockets that are open in the two kernels

cliVars == <<calive, cpc, udps, turn, ifs>>
srvVars == <<salive, spc, beacons, asked, todo>>
hostVars == <<up, calm>>
discVars == <<cliVars, srvVars, log, hostVars, net, open>>

\* A socket that is 0, one that is -1, one that is open and could not be bound,
\* and one that is in use.
SockState == {"none", "failed", "useless", "ready"}
IsOpenSock(s) == s \in {"useless", "ready"}

NewUdper == [send |-> "none", hear |-> "none", inbox |-> {}, remips |-> {}]
Udpers == DOMAIN udps

DiscInit ==
    /\ calive = TRUE /\ cpc = "top" /\ ifs = {}
    /\ udps = << >> /\ turn = [round |-> 0, u |-> 1, k |-> 0]
    /\ salive = TRUE /\ spc = "loop" /\ todo = {}
    /\ beacons = [a \in {} |-> "none"] /\ asked = [a \in {} |-> FALSE]
    /\ log \in {"absent", "written"}
    /\ up \in SUBSET Address /\ calm = FALSE
    /\ net = {} /\ open = {}

-----------------------------------------------------------------------------
(* The speaker.                                                            *)

Cli(label) == cpc = label /\ UNCHANGED <<srvVars, log, hostVars, calive>>

\* get_local_ifaces(), or four names if there are none.
Interfaces == {1 .. n : n \in 1 .. NIfaces}

\* main: it searches only as long as it knows no address at all; else it
\* plays, until Ctrl-C.
Search ==
    /\ Cli("top") /\ calive /\ ifs = {}
    /\ \E ifaces \in Interfaces : udps' = [u \in ifaces |-> NewUdper]
    /\ turn' = [round |-> 0, u |-> 1, k |-> 0]
    /\ cpc' = "open"
    /\ UNCHANGED <<ifs, net, open>>

Leave ==
    /\ Cli("top") /\ ~calive
    /\ cpc' = "end"
    /\ UNCHANGED <<udps, turn, ifs, net, open>>

FaultyAdvance ==
    /\ cpc' = IF turn.round < Rounds THEN "open" ELSE "delete"
    /\ turn' = [turn EXCEPT !.u = (@ % Cardinality(Udpers)) + 1, !.k = 0]

\* To the next Udper, the next round, or out of join().
Advance ==
    LET last == turn.u = Cardinality(Udpers)
        over == last /\ turn.round + 1 = Rounds
    IN  /\ cpc' = IF over THEN "delete" ELSE "open"
        /\ turn' = [round |-> IF last THEN (turn.round + 1) % Rounds ELSE turn.round,
                    u |-> IF last THEN 1 ELSE turn.u + 1, k |-> 0]

\* _create(): an open socket, or -1.
Created == IF calm THEN {"useless"} ELSE {"useless", "failed"}

\* _broad(): a new socket can always be set to broadcast.
Broad(s) == IF s = "useless" THEN "ready" ELSE s

\* _bind_to_addr(): another program may hold the port.
Bound(s) ==
    IF s = "useless" THEN IF calm THEN {"ready"} ELSE {"ready", "useless"}
    ELSE {s}

\* A socket that is not 0 stays, whatever became of it.
Senders(s) == IF s = "none" THEN {Broad(new) : new \in Created} ELSE {s}
Hearers(s) == IF s = "none" THEN UNION {Bound(new) : new \in Created} ELSE {s}
Refused(old, new) == old = "none" /\ new # "ready"

CliSocks(us) ==
    {<<"cli", u, "send">> : u \in {v \in Udpers : IsOpenSock(us[v].send)}}
    \union {<<"cli", u, "hear">> : u \in {v \in Udpers : IsOpenSock(us[v].hear)}}

Opened(s, h) ==
    /\ udps' = [udps EXCEPT ![turn.u].send = s, ![turn.u].hear = h]
    /\ open' = open \union (CliSocks(udps') \ CliSocks(udps))

\* discover(): both sockets are there, or are opened now; if one is refused
\* the answer is -1 and what the Udper has heard is not consumed.
OpenSockets ==
    LET old == udps[turn.u] IN
    /\ Cli("open")
    /\ \E s \in Senders(old.send) :
          IF Refused(old.send, s) THEN Opened(s, old.hear) /\ Advance
          ELSE \E h \in Hearers(old.hear) :
                  /\ Opened(s, h)
                  /\ \/ Refused(old.hear, h) /\ Advance
                     \/ ~Refused(old.hear, h) /\ cpc' = "poll" /\ UNCHANGED turn
    /\ UNCHANGED <<ifs, net>>

\* What a datagram tells: the address after the colon, if there is one.
Heard(m) == {m} \intersect Address

\* Others may use the port for something else.
Noise(u) == IF udps[u].hear = "ready" /\ ~calm THEN {"noise"} ELSE {}

\* Once it is calm a poll lasts longer than the datagrams that are on their
\* way, and the beacon, need.
InTime == calm => net = {} /\ \A a \in DOMAIN asked : ~asked[a]

FaultyConsume(heard) == IF Cardinality(heard) > 1 THEN heard ELSE {}

\* q_consume, when discover() has returned a size above 0.
Consume(heard) == heard

EndDiscover(heard) == ifs' = ifs \union Consume(heard) /\ Advance

\* One poll: a broadcast now and then, and at most one answer.
Poll ==
    LET u == turn.u IN
    /\ Cli("poll") /\ InTime
    /\ net' = IF turn.k % Every = 0 /\ udps[u].send = "ready"
              THEN net \union {"ask"} ELSE net
    /\ \/ udps[u].inbox = {} /\ udps' = udps
       \/ \E m \in udps[u].inbox \union Noise(u) :
             udps' = [udps EXCEPT ![u].inbox = @ \ {m},
                                  ![u].remips = @ \union Heard(m)]
    /\ \/ /\ turn.k + 1 < Polls
          /\ turn' = [turn EXCEPT !.k = @ + 1]
          /\ UNCHANGED <<cpc, ifs>>
       \/ /\ turn.k + 1 = Polls
          /\ EndDiscover(udps'[u].remips)
    /\ UNCHANGED open

\* A signal interrupts select().
Interrupted ==
    /\ Cli("poll") /\ ~calive
    /\ EndDiscover(udps[turn.u].remips)
    /\ UNCHANGED <<udps, net, open>>

FaultyCliDestroy == {f \in open : f[1] # "cli" \/ f[3] = "hear"}

\* What _destroy() of them all leaves open.
CliDestroy == open \ CliSocks(udps)

\* All Udpers are deleted, and what waits in their sockets is gone.
Delete ==
    /\ Cli("delete")
    /\ udps' = << >>
    /\ open' = CliDestroy
    /\ cpc' = "top"
    /\ UNCHANGED <<turn, ifs, net>>

Speaker ==
    \/ Search \/ Leave \/ OpenSockets
    \/ Poll \/ Interrupted \/ Delete

-----------------------------------------------------------------------------
(* The beacon.                                                             *)

Srv(label) ==
    spc = label /\ UNCHANGED <<cliVars, hostVars, salive>>

SrvSocks(bs) == {<<"srv", a, "listen">> : a \in {b \in DOMAIN bs : IsOpenSock(bs[b])}}

\* What _destroy() of them all leaves open.
SrvDestroy == open \ SrvSocks(beacons)

\* Whether stat() shows another time than before: if there is no log, never;
\* before it is calm the log is written, and looked at, now and then; then
\* once more.
Differs ==
    CASE log = "absent" -> {FALSE}
      [] log = "written" -> BOOLEAN
      [] log = "last" -> {TRUE}
      [] log = "seen" -> {FALSE}

FaultyLooksAgain(differs) == differs /\ DOMAIN beacons = {}

\* re_interface(), which is called in one pass out of 65536.
LooksAgain(differs) == differs

\* All Udpers are deleted, with what waits, and made anew.
ReInterface ==
    /\ beacons' = [a \in up |-> "none"]
    /\ asked' = [a \in up |-> FALSE]
    /\ open' = SrvDestroy
    /\ log' = IF log = "last" THEN "seen" ELSE log

Pass ==
    /\ Srv("loop") /\ salive /\ todo = {}
    /\ \E differs \in Differs :
          IF LooksAgain(differs) THEN ReInterface
          ELSE UNCHANGED <<beacons, asked, open, log>>
    /\ todo' = DOMAIN beacons'
    /\ UNCHANGED <<spc, net>>

\* _create(), and _bind_to_addr() to the one port for all.
Listeners == IF calm THEN {"ready"} ELSE {"ready", "failed", "useless"}

\* listen_and_respond() opens the socket of a new Udper.  If that fails it is
\* not 0, and never looked after again.
Bind(a) ==
    /\ beacons[a] = "none"
    /\ \E s \in Listeners :
          /\ beacons' = [beacons EXCEPT ![a] = s]
          /\ todo' = IF s = "ready" THEN todo ELSE todo \ {a}
    /\ open' = open \union (SrvSocks(beacons') \ SrvSocks(beacons))
    /\ UNCHANGED <<asked, net>>

\* _is_signaled().
Signaled(a) == asked[a]

\* One datagram is read; a question is answered, if there is a way out.
Respond(a) ==
    /\ beacons[a] # "none"
    /\ asked' = [asked EXCEPT ![a] = FALSE]
    /\ net' = IF Signaled(a) /\ up # {} THEN net \union {a} ELSE net
    /\ todo' = todo \ {a}
    /\ UNCHANGED <<beacons, open>>

Served(a) == Srv("loop") /\ a \in todo /\ UNCHANGED <<spc, log>>

BeaconEnds ==
    /\ Srv("loop") /\ ~salive /\ todo = {}
    /\ beacons' = [a \in {} |-> "none"] /\ asked' = [a \in {} |-> FALSE]
    /\ open' = SrvDestroy
    /\ spc' = "end"
    /\ UNCHANGED <<todo, log, net>>

Beacon ==
    \/ Pass \/ BeaconEnds
    \/ \E a \in Address : Served(a) /\ (Bind(a) \/ Respond(a))

-----------------------------------------------------------------------------
(* The network and the rest of the two machines.                           *)

NetOnly == UNCHANGED <<calive, cpc, turn, ifs, salive, spc, beacons, todo,
                       log, hostVars, open>>

\* A datagram that has arrived may arrive again.
Arrives(m) ==
    /\ m \in net
    /\ \/ net' = net \ {m}
       \/ ~calm /\ net' = net

AskArrives ==
    /\ Arrives("ask")
    /\ asked' = [a \in DOMAIN asked |->
                    asked[a] \/ (beacons[a] = "ready" /\ up # {})]
    /\ UNCHANGED udps /\ NetOnly

Hearing == {u \in Udpers : udps[u].hear = "ready"}

Comes(m) == \E u \in Hearing : udps' = [udps EXCEPT ![u].inbox = @ \union {m}]

AnswerArrives(a) ==
    /\ Arrives(a)
    /\ \/ Comes(a)
       \/ Hearing = {} /\ udps' = udps
    /\ UNCHANGED asked /\ NetOnly

Arrival == AskArrives \/ \E a \in Address : AnswerArrives(a)

Lost ==
    /\ ~calm /\ \E m \in net : net' = net \ {m}
    /\ UNCHANGED <<udps, asked>> /\ NetOnly

\* The machine of the server gets and loses addresses.
AddressesChange ==
    /\ ~calm
    /\ up' \in SUBSET Address \ {up}
    /\ UNCHANGED calm
    /\ UNCHANGED <<cliVars, srvVars, log, net, open>>

\* No fault and no change any more; the last change has been logged.
CalmsDown ==
    /\ ~calm /\ calm' = TRUE
    /\ log' = IF log = "written" THEN "last" ELSE log
    /\ UNCHANGED <<cliVars, srvVars, up, net, open>>

\* One of the two programs is stopped.
CtrlC ==
    /\ calive /\ salive
    /\ \/ calive' = FALSE /\ UNCHANGED salive
       \/ salive' = FALSE /\ UNCHANGED calive
    /\ UNCHANGED <<cpc, udps, turn, ifs, spc, beacons, asked, todo,
                   log, hostVars, net, open>>

Around ==
    \/ Arrival \/ Lost
    \/ AddressesChange \/ CalmsDown \/ CtrlC

DiscNext == Speaker \/ Beacon \/ Around

DiscSpec == DiscInit /\ [][DiscNext]_discVars

\* Both programs run on, and what is not lost arrives.
DiscFairSpec ==
    /\ DiscSpec
    /\ WF_discVars(Speaker) /\ WF_discVars(Beacon) /\ WF_discVars(Arrival)

-----------------------------------------------------------------------------
(* Properties.                                                             *)

\* The type of the state.
DiscTypeOK ==
    /\ calive \in BOOLEAN /\ salive \in BOOLEAN
    /\ log \in {"absent", "written", "last", "seen"} /\ calm \in BOOLEAN
    /\ cpc \in {"top", "open", "poll", "delete", "end"}
    /\ spc \in {"loop", "end"}
    /\ \E n \in 0 .. NIfaces :
          udps \in [1 .. n -> [send : SockState, hear : SockState,
                               inbox : SUBSET Address,
                               remips : SUBSET Address]]
    /\ turn \in [round : 0 .. Rounds - 1, u : 1 .. NIfaces, k : 0 .. Polls - 1]
    /\ ifs \subseteq Address
    /\ \E bs \in SUBSET Address :
          /\ beacons \in [bs -> SockState]
          /\ asked \in [bs -> BOOLEAN]
          /\ todo \subseteq bs
    /\ up \subseteq Address
    /\ net \subseteq Address \union {"ask"}

\* What any Udper has heard in any round is known when they are deleted, also
\* if its other calls of discover() fail.
HeardIsKept == cpc = "delete" => \A u \in Udpers : udps[u].remips \subseteq ifs

\* Through all failures and all new Udpers the sockets that are open are
\* those the living Udpers hold: none is left by a join() or by the beacon.
NoSocketLeft == open = CliSocks(udps) \union SrvSocks(beacons)

\* Once faults and changes are over the speaker finds the server, if there is
\* a log that tells the beacon of the last change.
Found ==
    (calm /\ log # "absent" /\ up # {}) ~> (ifs # {} \/ ~calive \/ ~salive)

\* After Ctrl-C the speaker comes out of join(), from any of its calls, and
\* ends.
SearchEnds == ~calive ~> cpc = "end"
=============================================================================
