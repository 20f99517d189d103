----------------------------- MODULE UdpProofs ------------------------------
(***************************************************************************)
(* Discovery, and the UDP sockets and addresses under it.                  *)
(*                                                                         *)
(* Discovery keeps what it hears and closes what it opens, for every set   *)
(* of addresses, every number of interfaces, rounds and polls, and every   *)
(* failure of a socket call.  HeardIsKept speaks of the moment the Udpers  *)
(* are deleted; the induction needs to say it of all moments: what any of  *)
(* them has heard is known, except of the one that is being polled         *)
(* (Consumed).                                                             *)
(*                                                                         *)
(* Then what the comparisons of SADDR_46 are and are not, on all           *)
(* addresses, and where a datagram goes that is sent to one.               *)
(***************************************************************************)
EXTENDS Discovery, UdpPeer, TLAPS

\* The speaker's Udpers and the beacon's are functions to what they should be.
UdpersOK ==
    udps \in [Udpers -> [send : SockState, hear : SockState,
                         inbox : SUBSET Address, remips : SUBSET Address]]

BeaconsOK == beacons \in [DOMAIN beacons -> SockState]

\* Datagrams are questions and answers.
NetOK == net \subseteq Address \union {"ask"}

\* What a Udper has heard is known, but for the one in its polls.
Consumed ==
    \A u \in Udpers :
        (cpc # "poll" \/ u # turn.u) => udps[u].remips \subseteq ifs

\* join() deletes its Udpers before it returns.
Deleted == cpc \in {"top", "end"} => Udpers = {}

DiscInv ==
    UdpersOK /\ BeaconsOK /\ NetOK /\ Consumed /\ Deleted /\ NoSocketLeft

-----------------------------------------------------------------------------
LEMMA DiscInvInit == DiscInit => DiscInv
<1> SUFFICES ASSUME DiscInit PROVE DiscInv
  OBVIOUS
<1>1. DOMAIN udps = {} /\ DOMAIN beacons = {} /\ net = {} /\ open = {}
  BY DEF DiscInit
<1>2. UdpersOK /\ BeaconsOK
  BY <1>1 DEF DiscInit, UdpersOK, BeaconsOK, Udpers
<1>3. NetOK /\ Consumed /\ Deleted
  BY <1>1 DEF NetOK, Consumed, Deleted, Udpers
<1>4. NoSocketLeft
  BY <1>1 DEF NoSocketLeft, CliSocks, SrvSocks, Udpers
<1> QED
  BY <1>2, <1>3, <1>4 DEF DiscInv

\* Which sockets are the speaker's depends on the states of the sockets only.
LEMMA SameCliSocks ==
    ASSUME DOMAIN udps' = DOMAIN udps,
           \A u \in Udpers : /\ udps'[u].send = udps[u].send
                             /\ udps'[u].hear = udps[u].hear
    PROVE  CliSocks(udps)' = CliSocks(udps)
BY DEF CliSocks, Udpers

\* Nobody's socket is both the speaker's and the beacon's.
LEMMA TwoKernels ==
    ASSUME NEW us, NEW bs
    PROVE  CliSocks(us) \intersect SrvSocks(bs) = {}
BY DEF CliSocks, SrvSocks

\* What the speaker's steps leave alone.
LEMMA CliLeaves ==
    ASSUME NEW label, Cli(label)
    PROVE  beacons' = beacons
BY DEF Cli, srvVars

LEMMA SearchKeeps ==
    ASSUME DiscInv, Search
    PROVE  DiscInv'
<1> USE DEF DiscInv
<1>1. PICK n \in 1 .. NIfaces : udps' = [u \in 1 .. n |-> NewUdper]
  BY DEF Search, Interfaces
<1>2. /\ DOMAIN udps' = 1 .. n
      /\ \A u \in 1 .. n : udps'[u] = NewUdper
  BY <1>1
<1>3. beacons' = beacons /\ net' = net /\ open' = open /\ cpc' = "open"
  BY CliLeaves DEF Search
<1>4. UdpersOK'
  <2>1. NewUdper \in [send : SockState, hear : SockState,
                      inbox : SUBSET Address, remips : SUBSET Address]
    BY DEF NewUdper, SockState
  <2> QED
    BY <1>1, <1>2, <2>1 DEF UdpersOK, Udpers
<1>5. BeaconsOK' /\ NetOK'
  BY <1>3 DEF BeaconsOK, NetOK
<1>6. Consumed' /\ Deleted'
  BY <1>2, <1>3 DEF Consumed, Deleted, Udpers, NewUdper
<1>7. NoSocketLeft'
  <2>1. CliSocks(udps)' = {}
    BY <1>2 DEF CliSocks, Udpers, NewUdper, IsOpenSock
  <2>2. CliSocks(udps) = {}
    BY DEF Search, Cli, Deleted, CliSocks
  <2> QED
    BY <1>3, <2>1, <2>2 DEF NoSocketLeft, SrvSocks
<1> QED
  BY <1>4, <1>5, <1>6, <1>7

\* discover() opens what is not there yet, and forgets nothing that is.
LEMMA OpenSocketsKeeps ==
    ASSUME DiscInv, OpenSockets
    PROVE  DiscInv'
<1> USE DEF DiscInv
<1> DEFINE old == udps[turn.u]
<1>1. PICK s \in Senders(old.send), h \in Hearers(old.hear) \union {old.hear} :
         Opened(s, h) /\ (Advance \/ cpc' = "poll")
  BY DEF OpenSockets
<1>2. beacons' = beacons /\ net' = net /\ ifs' = ifs /\ cpc = "open"
  BY CliLeaves DEF OpenSockets, Cli
<1>3. cpc' \in {"open", "delete", "poll"}
  BY <1>1 DEF Advance
<1>4. CASE turn.u \in Udpers
  <2>1. old.send \in SockState /\ old.hear \in SockState
    BY <1>4 DEF UdpersOK
  <2>2. /\ s \in SockState /\ h \in SockState
        /\ old.send # "none" => s = old.send
        /\ old.hear # "none" => h = old.hear
    BY <1>1, <2>1 DEF Senders, Hearers, Broad, Bound, Created, SockState
  <2>3. udps' = [udps EXCEPT ![turn.u].send = s, ![turn.u].hear = h]
    BY <1>1 DEF Opened
  <2>4. /\ Udpers' = Udpers /\ UdpersOK'
        /\ \A u \in Udpers :
              /\ udps'[u].remips = udps[u].remips
              /\ udps'[u].send = IF u = turn.u THEN s ELSE udps[u].send
              /\ udps'[u].hear = IF u = turn.u THEN h ELSE udps[u].hear
    BY <1>4, <2>2, <2>3 DEF UdpersOK, Udpers
  <2>5. CliSocks(udps) \subseteq CliSocks(udps)'
    BY <1>4, <2>2, <2>4 DEF CliSocks, IsOpenSock
  <2>6. open' = open \union (CliSocks(udps)' \ CliSocks(udps))
    <3>1. CliSocks(udps') = CliSocks(udps)'
      BY <2>4 DEF CliSocks
    <3> QED
      BY <1>1, <3>1 DEF Opened
  <2>7. NoSocketLeft'
    BY <1>2, <2>5, <2>6 DEF NoSocketLeft, SrvSocks
  <2>8. Consumed' /\ Deleted'
    BY <1>2, <1>3, <2>4 DEF Consumed, Deleted
  <2> QED
    BY <1>2, <2>4, <2>7, <2>8 DEF BeaconsOK, NetOK
<1>5. CASE turn.u \notin Udpers
  <2>1. udps' = udps
    BY <1>1, <1>5 DEF Opened, UdpersOK, Udpers
  <2>2. open' = open
    <3>1. CliSocks(udps') = CliSocks(udps)
      BY <2>1
    <3> QED
      BY <1>1, <3>1 DEF Opened
  <2>3. NoSocketLeft'
    BY <1>2, <2>1, <2>2 DEF NoSocketLeft, SrvSocks, CliSocks, Udpers
  <2>4. UdpersOK' /\ BeaconsOK' /\ NetOK' /\ Consumed' /\ Deleted'
    BY <1>2, <1>3, <2>1
    DEF UdpersOK, BeaconsOK, NetOK, Consumed, Deleted, Udpers
  <2> QED
    BY <2>3, <2>4
<1> QED
  BY <1>4, <1>5

\* What discover() has heard is consumed on each way out of its polls.
LEMMA PollKeeps ==
    ASSUME DiscInv, Poll \/ Interrupted
    PROVE  DiscInv'
<1> USE DEF DiscInv
<1>1. beacons' = beacons /\ open' = open /\ cpc = "poll"
  BY CliLeaves DEF Poll, Interrupted, Cli
<1>2. NetOK'
  BY DEF Poll, Interrupted, NetOK
<1>3. /\ UdpersOK' /\ Udpers' = Udpers
      /\ \A u \in Udpers : /\ udps'[u].send = udps[u].send
                           /\ udps'[u].hear = udps[u].hear
                           /\ u # turn.u => udps'[u].remips = udps[u].remips
  <2>1. CASE udps' = udps
    BY <2>1 DEF UdpersOK, Udpers
  <2>2. CASE \E m : udps' = [udps EXCEPT ![turn.u].inbox = @ \ {m},
                                        ![turn.u].remips = @ \union Heard(m)]
    <3>1. PICK m : udps' = [udps EXCEPT ![turn.u].inbox = @ \ {m},
                                        ![turn.u].remips = @ \union Heard(m)]
      BY <2>2
    <3>2. Heard(m) \subseteq Address
      BY DEF Heard
    <3>3. DOMAIN udps' = DOMAIN udps
      BY <3>1
    <3>4. \A u \in Udpers : udps'[u] =
             IF u = turn.u
             THEN [udps[u] EXCEPT !.inbox = @ \ {m},
                                  !.remips = @ \union Heard(m)]
             ELSE udps[u]
      BY <3>1 DEF UdpersOK, Udpers
    <3>5. \A u \in Udpers :
             udps'[u] \in [send : SockState, hear : SockState,
                           inbox : SUBSET Address, remips : SUBSET Address]
      <4> SUFFICES ASSUME NEW u \in Udpers
                   PROVE  udps'[u] \in [send : SockState, hear : SockState,
                                        inbox : SUBSET Address,
                                        remips : SUBSET Address]
        OBVIOUS
      <4>1. udps[u] \in [send : SockState, hear : SockState,
                         inbox : SUBSET Address, remips : SUBSET Address]
        BY DEF UdpersOK
      <4>2. CASE u # turn.u
        BY <3>4, <4>1, <4>2
      <4>3. CASE u = turn.u
        <5>1. /\ udps[u].inbox \ {m} \in SUBSET Address
              /\ udps[u].remips \union Heard(m) \in SUBSET Address
          BY <3>2, <4>1
        <5>2. udps'[u] = [udps[u] EXCEPT !.inbox = udps[u].inbox \ {m},
                                         !.remips = udps[u].remips \union Heard(m)]
          BY <3>4, <4>3
        <5> QED
          BY <4>1, <5>1, <5>2
      <4> QED
        BY <4>2, <4>3
    <3>6. udps' = [u \in DOMAIN udps |-> udps'[u]]
      BY <3>1 DEF UdpersOK, Udpers
    <3>7. UdpersOK'
      BY <3>3, <3>5, <3>6 DEF UdpersOK, Udpers
    <3> QED
      BY <3>3, <3>4, <3>7 DEF UdpersOK, Udpers
  <2> QED
    BY <2>1, <2>2 DEF Poll, Interrupted
<1>4. Consumed' /\ Deleted'
  <2>1. CASE cpc' = "poll" /\ turn'.u = turn.u /\ ifs' = ifs
    <3>1. Deleted'
      BY <2>1 DEF Deleted
    <3>2. \A u \in Udpers' : u # turn'.u => udps'[u].remips \subseteq ifs'
      BY <1>1, <1>3, <2>1 DEF Consumed
    <3> QED
      BY <2>1, <3>1, <3>2 DEF Consumed
  <2>2. CASE EndDiscover(udps'[turn.u].remips)
    <3>1. ifs' = ifs \union udps'[turn.u].remips /\ cpc' \in {"open", "delete"}
      BY <2>2 DEF EndDiscover, Consume, Advance
    <3>2. ASSUME NEW u \in Udpers
          PROVE  udps'[u].remips \subseteq ifs'
      BY <1>1, <1>3, <3>1 DEF Consumed
    <3> QED
      BY <1>3, <3>1, <3>2 DEF Consumed, Deleted
  <2>3. ASSUME Poll
        PROVE  \/ cpc' = "poll" /\ turn'.u = turn.u /\ ifs' = ifs
               \/ EndDiscover(udps'[turn.u].remips)
    <3>1. turn' = [turn EXCEPT !.k = @ + 1] => turn'.u = turn.u
      OBVIOUS
    <3> QED
      BY <1>1, <2>3, <3>1 DEF Poll
  <2>4. ASSUME Interrupted
        PROVE  EndDiscover(udps'[turn.u].remips)
    BY <2>4 DEF Interrupted
  <2> QED
    BY <2>1, <2>2, <2>3, <2>4
<1>5. NoSocketLeft'
  BY <1>1, <1>3, SameCliSocks DEF NoSocketLeft, SrvSocks, Udpers
<1> QED
  BY <1>1, <1>2, <1>3, <1>4, <1>5 DEF BeaconsOK

LEMMA DeleteKeeps ==
    ASSUME DiscInv, Delete \/ Leave
    PROVE  DiscInv'
<1> USE DEF DiscInv
<1>1. beacons' = beacons /\ net' = net
  BY CliLeaves DEF Delete, Leave
<1>2. CASE Leave
  BY <1>1, <1>2
  DEF Leave, Cli, UdpersOK, BeaconsOK, NetOK, Consumed, Deleted, NoSocketLeft,
      Udpers, CliSocks, SrvSocks
<1>3. CASE Delete
  <2>1. DOMAIN udps' = {} /\ udps' = << >> /\ open' = open \ CliSocks(udps)
    BY <1>3 DEF Delete, CliDestroy
  <2>2. open' = SrvSocks(beacons)
    BY <2>1, TwoKernels DEF NoSocketLeft
  <2>3. CliSocks(udps)' = {}
    BY <2>1 DEF CliSocks, Udpers
  <2>4. NoSocketLeft'
    BY <1>1, <2>2, <2>3 DEF NoSocketLeft, SrvSocks
  <2>5. UdpersOK' /\ Consumed' /\ Deleted'
    BY <2>1 DEF UdpersOK, Consumed, Deleted, Udpers
  <2> QED
    BY <1>1, <2>4, <2>5 DEF BeaconsOK, NetOK
<1> QED
  BY <1>2, <1>3

\* What the beacon's steps leave alone.
LEMMA SrvLeaves ==
    ASSUME NEW label, Srv(label)
    PROVE  udps' = udps /\ cpc' = cpc /\ turn' = turn /\ ifs' = ifs
BY DEF Srv, cliVars

LEMMA BeaconKeeps ==
    ASSUME DiscInv, Beacon
    PROVE  DiscInv'
<1> USE DEF DiscInv
<1>1. udps' = udps /\ cpc' = cpc /\ turn' = turn /\ ifs' = ifs
  BY SrvLeaves DEF Beacon, Pass, BeaconEnds, Served
<1>2. UdpersOK' /\ Consumed' /\ Deleted' /\ CliSocks(udps)' = CliSocks(udps)
  BY <1>1 DEF UdpersOK, Consumed, Deleted, Udpers, CliSocks
<1>3. NetOK'
  BY DEF Beacon, Pass, BeaconEnds, Served, Bind, Respond, NetOK
<1>4. CASE /\ \E S : beacons' = [a \in S |-> "none"]
           /\ open' = SrvDestroy
  <2>1. PICK S : beacons' = [a \in S |-> "none"]
    BY <1>4
  <2>2. BeaconsOK' /\ SrvSocks(beacons)' = {}
    BY <2>1 DEF BeaconsOK, SrvSocks, IsOpenSock, SockState
  <2>3. open' = CliSocks(udps)
    BY <1>4, TwoKernels DEF SrvDestroy, NoSocketLeft
  <2> QED
    BY <1>2, <1>3, <2>2, <2>3 DEF NoSocketLeft
<1>5. CASE UNCHANGED <<beacons, open>>
  BY <1>2, <1>3, <1>5 DEF BeaconsOK, NoSocketLeft, SrvSocks
<1>6. CASE \E a \in Address : Bind(a)
  <2>1. PICK a \in Address, s \in Listeners :
           /\ beacons[a] = "none" /\ beacons' = [beacons EXCEPT ![a] = s]
           /\ open' = open \union (SrvSocks(beacons') \ SrvSocks(beacons))
    BY <1>6 DEF Bind
  <2>2. s \in SockState
    BY DEF Listeners, SockState
  <2>3. /\ DOMAIN beacons' = DOMAIN beacons /\ BeaconsOK'
        /\ \A b \in DOMAIN beacons : b # a => beacons'[b] = beacons[b]
    BY <2>1, <2>2 DEF BeaconsOK
  <2>4. SrvSocks(beacons) \subseteq SrvSocks(beacons)'
    BY <2>1, <2>3 DEF SrvSocks, IsOpenSock
  <2>5. SrvSocks(beacons') = SrvSocks(beacons)'
    BY DEF SrvSocks
  <2> QED
    BY <1>2, <1>3, <2>1, <2>3, <2>4, <2>5 DEF NoSocketLeft
<1> QED
  BY <1>4, <1>5, <1>6
  DEF Beacon, Pass, ReInterface, BeaconEnds, Served, Respond

\* Datagrams move, addresses and programs come and go: no socket is touched.
LEMMA AroundKeeps ==
    ASSUME DiscInv, Around
    PROVE  DiscInv'
<1> USE DEF DiscInv
<1>1. /\ UNCHANGED <<cpc, turn, ifs, beacons, open>>
      /\ udps' = udps \/ \E a \in Address : Comes(a)
  BY DEF Around, Arrival, AskArrives, AnswerArrives, Lost, AddressesChange,
         CalmsDown, CtrlC, NetOnly, cliVars, srvVars
<1>2. NetOK'
  BY DEF Around, Arrival, AskArrives, AnswerArrives, Arrives, Lost,
         AddressesChange, CalmsDown, CtrlC, NetOK
<1>3. /\ UdpersOK' /\ Udpers' = Udpers
      /\ \A u \in Udpers : /\ udps'[u].send = udps[u].send
                           /\ udps'[u].hear = udps[u].hear
                           /\ udps'[u].remips = udps[u].remips
  <2>1. CASE udps' = udps
    BY <2>1 DEF UdpersOK, Udpers
  <2>2. CASE \E a \in Address : Comes(a)
    <3>1. PICK a \in Address, u \in Hearing :
             udps' = [udps EXCEPT ![u].inbox = @ \union {a}]
      BY <2>2 DEF Comes
    <3> QED
      BY <3>1 DEF Hearing, UdpersOK, Udpers
  <2> QED
    BY <1>1, <2>1, <2>2
<1>4. Consumed' /\ Deleted' /\ BeaconsOK'
  BY <1>1, <1>3 DEF Consumed, Deleted, BeaconsOK
<1>5. NoSocketLeft'
  BY <1>1, <1>3, SameCliSocks DEF NoSocketLeft, SrvSocks, Udpers
<1> QED
  BY <1>2, <1>3, <1>4, <1>5

LEMMA DiscStep == DiscInv /\ [DiscNext]_discVars => DiscInv'
<1> SUFFICES ASSUME DiscInv, [DiscNext]_discVars
             PROVE  DiscInv'
  OBVIOUS
<1>1. CASE Speaker
  BY <1>1, SearchKeeps, OpenSocketsKeeps, PollKeeps, DeleteKeeps DEF Speaker
<1>2. CASE Beacon
  BY <1>2, BeaconKeeps
<1>3. CASE Around
  BY <1>3, AroundKeeps
<1>4. CASE UNCHANGED discVars
  BY <1>4 DEF DiscInv, UdpersOK, BeaconsOK, NetOK, Consumed, Deleted,
              NoSocketLeft, CliSocks, SrvSocks, Udpers, discVars, cliVars,
              srvVars
<1> QED
  BY <1>1, <1>2, <1>3, <1>4 DEF DiscNext

LEMMA DiscAlways == DiscSpec => []DiscInv
  BY DiscInvInit, DiscStep, PTL DEF DiscSpec

-----------------------------------------------------------------------------
\* When a join() deletes its Udpers the speaker knows whatever any of them has
\* heard, in whichever round, and whichever calls failed afterwards.
THEOREM NothingHeardIsForgotten == DiscSpec => []HeardIsKept
<1>1. DiscInv => HeardIsKept
  BY DEF DiscInv, Consumed, HeardIsKept
<1> QED
  BY <1>1, DiscAlways, PTL

\* Neither program leaves a socket behind, for any number of interfaces and
\* of rebuilt beacons, though a socket that could not be used is kept open.
THEOREM NoSocketIsLeft == DiscSpec => []NoSocketLeft
<1>1. DiscInv => NoSocketLeft
  BY DEF DiscInv
<1> QED
  BY <1>1, DiscAlways, PTL

-----------------------------------------------------------------------------
(* Addresses and the peer of a UDP object.                                 *)

\* What an address is made of.
LEMMA AddrFields ==
    ASSUME NEW a \in Addr
    PROVE  a.port \in Int /\ a.ip \subseteq Bit
  <1>1. a.port \in Port /\ a.ip \in SUBSET Bit
    BY DEF Addr
  <1>2. QED
    BY <1>1 DEF Port

\* What == and != answer does not depend on the side an address is on, and
\* isequal() with the port is stronger than ==.
THEOREM EqualIsSymmetric ==
    ASSUME NEW a \in Addr, NEW b \in Addr
    PROVE  /\ Equal(a, a) /\ Equal(a, b) = Equal(b, a)
           /\ Differ(a, b) = Differ(b, a)
           /\ IsEqual(a, b, TRUE) => Equal(a, b)
  BY DEF Equal, Differ, IsEqual, SameRange, Masked, SomePortIsAny

\* != is the opposite of == only if both ports are given or neither is: it
\* drops the port when both are 0, == when one is.
THEOREM DifferIsNotEqual ==
    ASSUME NEW a \in Addr, NEW b \in Addr, SameRange(a, b)
    PROVE  (Differ(a, b) /\ Equal(a, b))
           <=> (a.port # b.port /\ SomePortIsAny(a, b))
  BY DEF Equal, Differ

\* No address is both below and above another, or below itself; > is < from
\* the other side.
THEOREM LessIsStrict ==
    ASSUME NEW a \in Addr, NEW b \in Addr
    PROVE  /\ ~ Less(a, a)
           /\ ~ (Less(a, b) /\ Less(b, a))
           /\ Less(a, b) = Greater(b, a)
  <1>1. \A X, Y : X = Y => ~ Below(X, Y)
    BY DEF Below
  <1>2. ASSUME NEW X \in SUBSET Bit, NEW Y \in SUBSET Bit, Below(X, Y), Below(Y, X)
        PROVE  FALSE
    <2>1. PICK k \in Y \ X : \A j \in Bit : j > k => (j \in X <=> j \in Y)
      BY <1>2 DEF Below
    <2>2. PICK l \in X \ Y : \A j \in Bit : j > l => (j \in Y <=> j \in X)
      BY <1>2 DEF Below
    <2>3. k \in Bit /\ l \in Bit /\ k # l
      OBVIOUS
    <2>4. CASE k > l
      BY <2>1, <2>2, <2>3, <2>4
    <2>5. CASE l > k
      BY <2>1, <2>2, <2>3, <2>5
    <2>6. QED
      BY <2>3, <2>4, <2>5 DEF Bit
  <1>3. /\ a.port \in Int /\ b.port \in Int
        /\ a.ip \subseteq Bit /\ b.ip \subseteq Bit
    BY AddrFields
  <1>4. Masked(a, b) \in SUBSET Bit /\ Masked(b, a) \in SUBSET Bit
    BY <1>3 DEF Masked
  <1>5. ~ (Below(Masked(a, b), Masked(b, a)) /\ Below(Masked(b, a), Masked(a, b)))
    BY <1>2, <1>4
  <1>6. ~ Less(a, a)
    BY <1>1, <1>3 DEF Less
  <1>7. ~ (Less(a, b) /\ Less(b, a))
    <2>1. SameRange(a, b) => /\ ~ Below(Masked(a, b), Masked(b, a))
                             /\ ~ Below(Masked(b, a), Masked(a, b))
      BY <1>1 DEF SameRange
    <2>2. SameRange(b, a) => SameRange(a, b)
      BY DEF SameRange
    <2>3. QED
      BY <1>3, <1>5, <2>1, <2>2 DEF Less
  <1>8. Less(a, b) = Greater(b, a)
    BY <1>3 DEF Less, Greater, SameRange, SomePortIsAny
  <1>9. QED
    BY <1>6, <1>7, <1>8

\* The order among hosts with a port is transitive, as a set of them needs.
THEOREM HostsAreOrdered ==
    ASSUME NEW a \in Addr, NEW b \in Addr, NEW c \in Addr,
           a.mask = Bit, b.mask = Bit, c.mask = Bit,
           a.port # 0, b.port # 0, c.port # 0,
           Less(a, b), Less(b, c)
    PROVE  Less(a, c)
  <1>1. /\ a.ip \subseteq Bit /\ b.ip \subseteq Bit /\ c.ip \subseteq Bit
        /\ a.port \in Int /\ b.port \in Int /\ c.port \in Int
    BY AddrFields
  <1>2. /\ Masked(a, b) = a.ip /\ Masked(a, c) = a.ip /\ Masked(b, a) = b.ip
        /\ Masked(b, c) = b.ip /\ Masked(c, a) = c.ip /\ Masked(c, b) = c.ip
    BY <1>1 DEF Masked
  <1>3. CASE Below(a.ip, b.ip) /\ Below(b.ip, c.ip)
    <2>1. PICK k \in b.ip \ a.ip :
              \A j \in Bit : j > k => (j \in a.ip <=> j \in b.ip)
      BY <1>3 DEF Below
    <2>2. PICK l \in c.ip \ b.ip :
              \A j \in Bit : j > l => (j \in b.ip <=> j \in c.ip)
      BY <1>3 DEF Below
    <2>3. k \in Bit /\ l \in Bit /\ k # l
      BY <1>1
    <2>4. CASE k > l
      <3>1. k \in c.ip \ a.ip
        BY <2>1, <2>2, <2>3, <2>4
      <3>2. \A j \in Bit : j > k => (j \in a.ip <=> j \in c.ip)
        BY <2>1, <2>2, <2>3, <2>4 DEF Bit
      <3>3. QED
        BY <1>2, <3>1, <3>2 DEF Less, Below
    <2>5. CASE l > k
      <3>1. l \in c.ip \ a.ip
        BY <2>1, <2>2, <2>3, <2>5
      <3>2. \A j \in Bit : j > l => (j \in a.ip <=> j \in c.ip)
        BY <2>1, <2>2, <2>3, <2>5 DEF Bit
      <3>3. QED
        BY <1>2, <3>1, <3>2 DEF Less, Below
    <2>6. QED
      BY <2>3, <2>4, <2>5 DEF Bit
  <1>4. CASE Below(a.ip, b.ip) /\ b.ip = c.ip
    BY <1>2, <1>4 DEF Less
  <1>5. CASE a.ip = b.ip /\ Below(b.ip, c.ip)
    BY <1>2, <1>5 DEF Less
  <1>6. CASE a.ip = b.ip /\ b.ip = c.ip /\ a.port < b.port /\ b.port < c.port
    BY <1>1, <1>2, <1>6 DEF Less, SameRange, SomePortIsAny
  <1>7. QED
    BY <1>2, <1>3, <1>4, <1>5, <1>6 DEF Less, SameRange

\* Addresses without a port are no members for such a set: one is neither
\* below nor above two that differ, and == holds of it and either of them.
THEOREM AnyPortBreaksOrder ==
    ASSUME NEW ip \in SUBSET Bit
    PROVE  LET any == Host(ip, 0)  a == Host(ip, 1)  b == Host(ip, 2) IN
           /\ Less(a, b) /\ ~ Equal(a, b)
           /\ \A x \in {a, b} :
                 Equal(any, x) /\ ~ Less(any, x) /\ ~ Less(x, any)
  BY DEF Host, Less, Equal, SameRange, Masked, SomePortIsAny, Below

-----------------------------------------------------------------------------

\* Once receive() has cleared the mask of an object's address every host with
\* the port in it equals it: send() takes each for the peer.
THEOREM ClearedMaskEqualsAll ==
    ASSUME NEW a \in Addr, NEW b \in Addr, b.mask = {}, a.port = b.port
    PROVE  Equal(a, b)
  BY DEF Equal, SameRange, Masked

UdpTypeOK ==
    /\ connected \in BOOLEAN /\ slip \in BOOLEAN
    /\ remote \in [ip : SUBSET Bit, mask : SUBSET Bit, port : Port]
    /\ peer \subseteq Hosts

\* While nothing has slipped the mask looks at every bit.
FullMask == ~slip => remote.mask = Bit

UdpInv == UdpTypeOK /\ FullMask /\ PeerIsRemote /\ GoesWhereAsked

LEMMA HostFields ==
    ASSUME NEW a \in Hosts
    PROVE  /\ a.ip \in SUBSET Bit /\ a.port \in Port /\ a.mask = Bit
           /\ a = Host(a.ip, a.port)
  BY DEF Hosts, Host

\* Two hosts that are equal have one IP.
LEMMA EqualHosts ==
    ASSUME NEW a \in Hosts, UdpTypeOK, remote.mask = Bit, Equal(a, remote)
    PROVE  a.ip = remote.ip
  <1>1. a.ip \subseteq Bit /\ a.mask = Bit /\ remote.ip \subseteq Bit
    BY HostFields DEF UdpTypeOK
  <1>2. Masked(a, remote) = a.ip /\ Masked(remote, a) = remote.ip
    BY <1>1 DEF Masked
  <1> QED
    BY <1>2 DEF Equal, SameRange

\* What Onto writes.
LEMMA OntoFields ==
    ASSUME NEW a \in Hosts, UdpTypeOK
    PROVE  /\ Onto(a) \in [ip : SUBSET Bit, mask : SUBSET Bit, port : Port]
           /\ Onto(a).mask = remote.mask
           /\ Host(Onto(a).ip, Onto(a).port) = a
  BY HostFields DEF Onto, UdpTypeOK

LEMMA UdpInvInit == UdpInit => UdpInv
  <1>1. Host({}, 0) = [ip |-> {}, mask |-> Bit, port |-> 0]
    BY DEF Host
  <1>2. 0 \in Port
    BY DEF Port
  <1>3. Host({}, 0) \in [ip : SUBSET Bit, mask : SUBSET Bit, port : Port]
    BY <1>1, <1>2
  <1>4. UdpInit => UdpTypeOK /\ FullMask
    <2> SUFFICES ASSUME UdpInit PROVE UdpTypeOK /\ FullMask
      OBVIOUS
    <2>1. connected = FALSE /\ slip = FALSE /\ peer = {} /\ remote = Host({}, 0)
      BY DEF UdpInit
    <2>2. remote.mask = Bit
      BY <1>1, <2>1
    <2> QED
      BY <1>3, <2>1, <2>2 DEF UdpTypeOK, FullMask
  <1>5. UdpInit => PeerIsRemote /\ GoesWhereAsked
    BY DEF UdpInit, PeerIsRemote, GoesWhereAsked
  <1> QED
    BY <1>4, <1>5 DEF UdpInv

LEMMA UdpInvStep == UdpInv /\ [UdpNext]_udpVars => UdpInv'
  <1> SUFFICES ASSUME UdpInv, [UdpNext]_udpVars PROVE UdpInv'
    OBVIOUS
  <1> USE DEF UdpInv
  <1>1. CASE Destroy
    BY <1>1 DEF Destroy, Unsent, UdpTypeOK, FullMask, PeerIsRemote, GoesWhereAsked
  <1>2. CASE SendAll
    <2>1. UdpTypeOK' /\ FullMask' /\ PeerIsRemote'
      BY <1>2 DEF SendAll, UdpTypeOK, FullMask, PeerIsRemote, Believed
    <2>2. ~slip => sent'.asked = Believed /\ sent'.went = Believed
      BY <1>2 DEF SendAll, PeerIsRemote
    <2>3. GoesWhereAsked'
      BY <1>2, <2>2 DEF SendAll, GoesWhereAsked, Believed
    <2> QED
      BY <2>1, <2>3
  <1>3. ASSUME NEW a \in Hosts,
               BindGroup(a) \/ SetRsin(a) \/ Connect(a) \/ Send(a) \/ GroupSend(a)
               \/ ReceiveBound(a) \/ GroupReceive(a)
        PROVE  UdpInv'
    <2>1. remote' = remote \/ remote' = Onto(a)
      BY <1>3 DEF BindGroup, SetRsin, Connect, Send, GroupSend, ReceiveBound,
                  GroupReceive
    <2>2. sent' = sent
      BY <1>3 DEF BindGroup, SetRsin, Connect, Send, GroupSend, ReceiveBound,
                  GroupReceive, Unsent
    <2>3. slip' \in BOOLEAN /\ (~slip' => ~slip)
      BY <1>3 DEF BindGroup, SetRsin, Connect, Send, GroupSend, ReceiveBound,
                  GroupReceive, UdpTypeOK
    <2>4. connected' \in BOOLEAN /\ peer' \subseteq Hosts
      BY <1>3 DEF BindGroup, SetRsin, Connect, Send, GroupSend, ReceiveBound,
                  GroupReceive, UdpTypeOK
    <2>6. UdpTypeOK' /\ FullMask'
      BY <2>1, <2>3, <2>4, OntoFields DEF UdpTypeOK, FullMask
    <2>7. GoesWhereAsked'
      BY <2>2, <2>3 DEF GoesWhereAsked
    <2>5. PeerIsRemote'
      <3> SUFFICES ASSUME connected', ~slip' PROVE PeerIsRemote'
        BY DEF PeerIsRemote
      <3>1. CASE Connect(a)
        BY <3>1, OntoFields DEF Connect, PeerIsRemote, Believed
      <3>2. CASE Send(a)
        BY <3>2 DEF Send, PeerIsRemote, Believed
      <3>3. CASE ReceiveBound(a)
        <4>1. peer = {Host(remote.ip, remote.port)} /\ peer' = peer
          BY <3>3 DEF ReceiveBound, PeerIsRemote, Believed
        <4>2. a \in peer
          BY <3>3, <4>1 DEF ReceiveBound, MaySend
        <4>3. remote' = Onto(a)
          BY <3>3 DEF ReceiveBound
        <4> QED
          BY <4>1, <4>2, <4>3, OntoFields DEF PeerIsRemote, Believed
      <3> QED
        BY <1>3, <3>1, <3>2, <3>3
           DEF BindGroup, SetRsin, GroupSend, GroupReceive
    <2> QED
      BY <2>5, <2>6, <2>7
  <1>4. ASSUME NEW a \in Hosts, SendTo(a)
        PROVE  UdpInv'
    <2>1. UdpTypeOK' /\ FullMask' /\ PeerIsRemote'
      BY <1>4 DEF SendTo, UdpTypeOK, FullMask, PeerIsRemote, Believed
    <2>2. ASSUME ~slip, NEW p \in Way(a) PROVE p.ip = a.ip
      <3>1. CASE connected /\ Equal(a, remote)
        <4>1. a.ip = remote.ip
          BY <2>2, <3>1, EqualHosts DEF FullMask
        <4>2. p = Host(remote.ip, remote.port)
          BY <2>2, <3>1 DEF Way, PeerIsRemote, Believed
        <4> QED
          BY <4>1, <4>2 DEF Host
      <3>2. CASE ~ (connected /\ Equal(a, remote))
        BY <2>2, <3>2 DEF Way
      <3> QED
        BY <3>1, <3>2
    <2> QED
      BY <1>4, <2>1, <2>2 DEF SendTo, GoesWhereAsked
  <1>5. ASSUME NEW a \in Hosts, Receive(a)
        PROVE  UdpInv'
    <2>1. remote' \in [ip : SUBSET Bit, mask : SUBSET Bit, port : Port]
      BY <1>5, HostFields, OntoFields DEF Receive
    <2>2. ~slip' => remote'.mask = Bit
      BY <1>5, OntoFields DEF Receive, FullMask
    <2>3. connected' = connected /\ peer' = peer /\ sent' = sent
      BY <1>5 DEF Receive, Unsent
    <2>6. ~connected /\ (slip' = slip \/ slip' = TRUE)
      BY <1>5 DEF Receive
    <2>7. slip' \in BOOLEAN /\ (~slip' => ~slip)
      <3>1. slip \in BOOLEAN
        BY DEF UdpTypeOK
      <3>2. CASE slip' = slip
        BY <3>1, <3>2
      <3>3. CASE slip' = TRUE
        BY <3>3
      <3> QED
        BY <2>6, <3>2, <3>3
    <2>4. UdpTypeOK' /\ FullMask'
      BY <2>1, <2>2, <2>3, <2>7 DEF UdpTypeOK, FullMask
    <2>5. PeerIsRemote' /\ GoesWhereAsked'
      BY <2>3, <2>6, <2>7 DEF PeerIsRemote, GoesWhereAsked
    <2> QED
      BY <2>4, <2>5
  <1>6. CASE UNCHANGED udpVars
    BY <1>6 DEF udpVars, UdpTypeOK, FullMask, PeerIsRemote, Believed, GoesWhereAsked
  <1> QED
    BY <1>1, <1>2, <1>3, <1>4, <1>5, <1>6 DEF UdpNext

\* Whatever order of calls: unless one of the three slips has happened, a
\* datagram goes to the host it is for, and to no other.
THEOREM DatagramsGoWhereAsked == UdpSpec => []GoesWhereAsked
  <1>1. UdpInv => GoesWhereAsked
    BY DEF UdpInv
  <1> QED
    BY <1>1, UdpInvInit, UdpInvStep, PTL DEF UdpSpec

\* And a connected object's idea of its peer is the kernel's.
THEOREM PeerIsBelieved == UdpSpec => []PeerIsRemote
  <1>1. UdpInv => PeerIsRemote
    BY DEF UdpInv
  <1> QED
    BY <1>1, UdpInvInit, UdpInvStep, PTL DEF UdpSpec
=============================================================================
