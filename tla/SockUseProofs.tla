---------------------------- MODULE SockUseProofs ----------------------------
(*****************************************************************************)
(* Theorems about what the programs do with their sockets, on top of the     *)
(* ownership proved in SockProofs: _connected, the blocking mode, whole      *)
(* frames, and the list of addresses on the phone.                           *)
(*****************************************************************************)
EXTENDS SockProofs

-----------------------------------------------------------------------------

(*****************************************************************************)
(* _connected                                                                *)
(*****************************************************************************)

\* What ConnectedIsReal needs: only the programs that use the blocking connect
\* set _connected, a close() begins after it was cleared, and a peer, once there,
\* is only ever gone.
Real ==
    /\ sk["cli"].connected => program \in {"tcp", "old"} /\ HasPeer("cli")
    /\ sk["grp"].connected => IsOpen("grp")
    /\ Closing("net", "cli") => ~sk["cli"].connected

Peers == {"up", "gone"}
SamePeers == \A n \in Fd : file[n].is \in Peers => file'[n].is \in Peers
SameConnected(o) == /\ sk'[o].fd = sk[o].fd
                    /\ sk'[o].connected => sk[o].connected

\* A step that takes no peer away, sets no _connected and begins no close() keeps
\* Real.
LEMMA SameReal ==
  ASSUME SockTypeOK, Real, program' = program, SamePeers, SameConnected("cli"),
         SameConnected("grp"),
         Closing("net", "cli")' => Closing("net", "cli") \/ ~sk'["cli"].connected
  PROVE  Real'
<1>1. sk'["cli"].connected => program' \in {"tcp", "old"} /\ HasPeer("cli")'
  BY DEF Real, SameConnected, SamePeers, Peers, HasPeer, IsOpen, Is
<1>2. sk'["grp"].connected => IsOpen("grp")'
  BY DEF Real, SameConnected, IsOpen
<1>3. Closing("net", "cli")' => ~sk'["cli"].connected
  BY DEF Real, SameConnected
<1> QED
  BY <1>1, <1>2, <1>3 DEF Real

\* fcntl changes no file's state.
LEMMA FcntlPeers ==
  ASSUME NEW f \in [Fd -> Files], NEW n, NEW b \in BOOLEAN
  PROVE  \A m \in Fd : Fcntl(f, n, b)[m].is = f[m].is
BY FcntlModes

\* Setting a mode changes no peer and no _connected.
LEMMA SetBlockingReal ==
  ASSUME SockTypeOK, NEW o \in Obj, NEW b \in BOOLEAN, SetBlocking(o, b)
  PROVE  SamePeers /\ \A p \in Obj : SameConnected(p)
<1>1. SamePeers
  BY FcntlPeers DEF SockTypeOK, SamePeers, SetBlocking
<1>2. \A p \in Obj : SameConnected(p)
  BY DEF SockTypeOK, SetBlocking, SameConnected, Sk
<1> QED BY <1>1, <1>2

\* Starting a connect changes none either: the connect begins on a socket that
\* has no peer.
LEMMA StartConnectReal ==
  ASSUME SockTypeOK, NEW wait, NEW end, NEW fail,
         StartConnect("net", wait, end, fail)
  PROVE  SamePeers /\ \A p \in Obj : SameConnected(p)
<1>1. CASE UNCHANGED <<file, sk>>
  BY <1>1 DEF SamePeers, SameConnected
<1>2. CASE /\ Is("cli", {"fresh", "refused"})
           /\ \E result \in {"dialing", "up"} :
                /\ file' = [file EXCEPT ![sk["cli"].fd].is = result]
                /\ sk' = [sk EXCEPT !["cli"].connecting = (result = "dialing")]
  <2>1. PICK result : /\ file' = [file EXCEPT ![sk["cli"].fd].is = result]
                      /\ sk' = [sk EXCEPT !["cli"].connecting = (result = "dialing")]
    BY <1>2
  <2> DEFINE r == (result = "dialing")
  <2>2. sk' = [sk EXCEPT !["cli"].connecting = r]
    BY <2>1
  <2> HIDE DEF r
  <2>3. \A p \in Obj : SameConnected(p)
    BY <2>2 DEF SockTypeOK, Sk, SameConnected
  <2>4. SamePeers
    BY <1>2, <2>1 DEF SockTypeOK, SamePeers, Peers, Is, Files
  <2> QED BY <2>3, <2>4
<1> QED
  BY <1>1, <1>2 DEF StartConnect

\* Opening a socket for o changes nothing of the others, and no peer: the number
\* was free.
LEMMA OpenReal ==
  ASSUME SockTypeOK, NEW o \in Obj,
         OpenToConnect(o) \/ \E k \in {"fresh", "dgram"} : OpenSocket(o, k)
  PROVE  /\ SamePeers
         /\ \A p \in Obj \ {o} : SameConnected(p)
         /\ sk'[o].connected = sk[o].connected
<1>1. ~TableFull => Lowest \in Fd /\ file[Lowest].is = "free"
  BY LowestFree
<1>2. CASE OpenToConnect(o)
  <2> DEFINE n == IF TableFull THEN -1 ELSE Lowest
             b == IF TableFull THEN sk[o].blocks ELSE FALSE
  <2>1. sk' = [sk EXCEPT ![o].fd = n, ![o].blocks = b]
    BY <1>2 DEF OpenToConnect
  <2>2. TableFull => SamePeers
    BY <1>2 DEF OpenToConnect, SamePeers
  <2>3. ~TableFull => SamePeers
    <3> DEFINE m == Lowest  f == [file EXCEPT ![m] = New("fresh", o)]
    <3>1. ~TableFull => file' = Fcntl(f, m, FALSE)
      BY <1>2 DEF OpenToConnect
    <3>2. ~TableFull => m \in Fd /\ file[m].is = "free"
      BY <1>1
    <3> HIDE DEF m
    <3>3. f \in [Fd -> Files]
      BY DEF SockTypeOK, Files, New
    <3>4. \A x \in Fd \ {m} : f[x] = file[x]
      BY DEF SockTypeOK
    <3> HIDE DEF f
    <3>5. \A x \in Fd : Fcntl(f, m, FALSE)[x].is = f[x].is
      BY <3>3, FcntlPeers
    <3>6. ASSUME ~TableFull, NEW x \in Fd, file[x].is \in Peers
          PROVE  file'[x].is \in Peers
      <4>1. x # m
        BY <3>2, <3>6 DEF Peers
      <4>2. file'[x].is = f[x].is
        BY <3>1, <3>5, <3>6
      <4> QED
        BY <4>1, <4>2, <3>4, <3>6
    <3> QED
      BY <3>6 DEF SamePeers
  <2> HIDE DEF n, b
  <2>4. /\ (\A p \in Obj \ {o} : SameConnected(p))
        /\ sk'[o].connected = sk[o].connected
    BY <2>1 DEF SockTypeOK, Sk, SameConnected
  <2> QED BY <2>2, <2>3, <2>4
<1>3. ASSUME NEW k \in {"fresh", "dgram"}, OpenSocket(o, k)
      PROVE /\ SamePeers
            /\ \A p \in Obj \ {o} : SameConnected(p)
            /\ sk'[o].connected = sk[o].connected
  <2>1. PICK n : sk' = [sk EXCEPT ![o].fd = n]
    BY <1>3 DEF OpenSocket
  <2>2. /\ (\A p \in Obj \ {o} : SameConnected(p))
        /\ sk'[o].connected = sk[o].connected
    BY <2>1 DEF SockTypeOK, Sk, SameConnected
  <2>3. TableFull => SamePeers
    BY <1>3 DEF OpenSocket, SamePeers
  <2>4. ~TableFull => SamePeers
    <3> DEFINE m == Lowest
    <3>1. ~TableFull
            => /\ m \in Fd /\ file[m].is = "free"
               /\ file' = [file EXCEPT ![m] = New(k, o)]
      BY <1>1, <1>3 DEF OpenSocket
    <3> HIDE DEF m
    <3> QED
      BY <3>1 DEF SamePeers, Peers, SockTypeOK
  <2> QED BY <2>2, <2>3, <2>4
<1> QED BY <1>2, <1>3

\* So when o was not open, hence not connected, its opening keeps Real.
LEMMA OpenedReal ==
  ASSUME SockTypeOK, Real, program' = program, SamePeers,
         NEW o \in {"cli", "grp", "srv", "p2p"}, ~IsOpen(o),
         \A p \in Obj \ {o} : SameConnected(p),
         sk'[o].connected = sk[o].connected,
         ~Closing("net", "cli")'
  PROVE  Real'
<1>0. {"cli", "grp"} \subseteq Obj
  BY DEF Obj, TcpObj
<1>1. CASE o = "cli"
  <2>1. ~sk["cli"].connected
    BY <1>1 DEF Real, HasPeer
  <2> QED
    BY <1>0, <1>1, <2>1 DEF Real, SameConnected, IsOpen
<1>2. CASE o = "grp"
  <2>1. ~sk["grp"].connected
    BY <1>2 DEF Real
  <2>2. SameConnected("cli")
    BY <1>0, <1>2
  <2>3. sk'["cli"].connected => program' \in {"tcp", "old"} /\ HasPeer("cli")'
    BY <2>2 DEF Real, SameConnected, SamePeers, Peers, HasPeer, IsOpen, Is
  <2> QED
    BY <1>2, <2>1, <2>3 DEF Real
<1>3. CASE o \notin {"cli", "grp"}
  BY <1>0, <1>3, SameReal
<1> QED BY <1>1, <1>2, <1>3

\* Outside a destroy() the network thread does not come to a close().
LEMMA NetCalm ==
  ASSUME SockInv, NetStep
  PROVE  ~Closing("net", "cli")'
BY NetShutters DEF SockInv, NobodyShuts, Shutting, Closing

\* _connecting says nothing of _connected.
LEMMA ConnectingReal ==
  ASSUME SockTypeOK, NEW r, sk' = [sk EXCEPT !["cli"].connecting = r]
  PROVE  \A p \in Obj : SameConnected(p)
BY DEF SockTypeOK, Sk, SameConnected

\* The steps inside the methods keep Real: that of a raw connect that succeeded
\* sets _connected of a socket that is up.
LEMMA MethodReal ==
  ASSUME SockInv, Real, InMethod
  PROVE  Real'
<1>0. /\ SockTypeOK /\ {"cli", "grp"} \subseteq Obj /\ program' = program
      /\ ~Closing("net", "cli")' /\ th["net"].kept \in BOOLEAN
  BY NetCalm DEF SockInv, Obj, TcpObj, InMethod, NetStep, SockTypeOK, Thread
<1>s. SamePeers /\ SameConnected("cli") /\ SameConnected("grp") => Real'
  BY <1>0, SameReal
<1>u. UNCHANGED <<file, sk>> => Real'
  BY <1>s DEF SamePeers, SameConnected
<1>c. (\E r : sk' = [sk EXCEPT !["cli"].connecting = r]) /\ file' = file => Real'
  BY <1>0, <1>s, ConnectingReal DEF SamePeers
<1>1. CASE \/ S4Connect("net") \/ S4Wait("net") \/ RawWait("net")
           \/ BecomeMember("net")
  <2>1. CASE sk' = [sk EXCEPT !["grp"].member = TRUE] /\ file' = file
    BY <1>s, <1>0, <2>1 DEF SamePeers, SameConnected, SockTypeOK, Sk
  <2> QED
    BY <1>u, <1>c, <1>1, <2>1
      DEF S4Connect, OnlyGoto, OnlyDestroy, S4Wait, RawWait, BecomeMember
<1>2. CASE S4Start("net") \/ RawStart("net")
  BY <1>s, <1>0, <1>2, StartConnectReal DEF S4Start, RawStart
<1>3. CASE S4End("net") \/ RawEnd("net")
  BY <1>s, <1>0, <1>3, SetBlockingReal DEF S4End, RawEnd, EndConnect
<1>4. CASE S4Socket("net") \/ (RawSocket("net") /\ sk["cli"].fd = -1)
  <2>1. ~IsOpen("cli")
    BY <1>4 DEF SockInv, OpenWhen, S4Socket, Step, IsOpen
  <2>2. OpenToConnect("cli")
    BY <1>4 DEF S4Socket, RawSocket
  <2> QED
    BY <1>0, <2>1, <2>2, OpenReal, OpenedReal
<1>5. CASE RawSocket("net") /\ sk["cli"].fd # -1
  BY <1>s, <1>0, <1>5, SetBlockingReal DEF RawSocket
<1>6. CASE JoinGroup("net")
  <2>1. ~IsOpen("grp") /\ OpenSocket("grp", "dgram")
    BY <1>6 DEF SockInv, OpenWhen, JoinGroup, Step
  <2> QED
    BY <1>0, <2>1, OpenReal, OpenedReal
<1> QED
  BY <1>1, <1>2, <1>3, <1>4, <1>5, <1>6
    DEF InMethod, S4Steps, RawSteps, JoinSteps

\* The programs' own steps keep it.
LEMMA ProgramReal ==
  ASSUME SockInv, Real,
         ServerProcess \/ OldProcess \/ (SpeakerProcess /\ ~(CloseAtExit \/ Join))
  PROVE  Real'
<1>0. /\ SockTypeOK /\ {"cli", "grp", "acc", "srv"} \subseteq Obj
      /\ program' = program
      /\ ~Closing("net", "cli")'
  BY NetCalm, NetMoves DEF SockInv, Obj, TcpObj, NetStep
<1>s. SamePeers /\ SameConnected("cli") /\ SameConnected("grp") => Real'
  BY <1>0, SameReal
<1>u. UNCHANGED <<file, sk>> => Real'
  BY <1>s DEF SamePeers, SameConnected
<1> USE DEF GoOn, Destroy, OnlyGoto, OnlyDestroy
<1>1. CASE SpeakerProcess /\ ~(CloseAtExit \/ Join)
  <2>1. CASE UseSocket
    BY <1>s, <1>0, <2>1, SetBlockingReal DEF UseSocket
  <2>2. CASE UNCHANGED <<file, sk>>
    BY <1>u, <2>2
  <2> QED
    BY <1>1, <2>1, <2>2
      DEF SpeakerProcess, SpeakerTop, SpeakerLeaves, S4Result, NextAddress,
          GetDataEnds, ConnectionLost
<1>2. CASE OldProcess
  <2>1. CASE UNCHANGED <<file, sk>>
    BY <1>u, <2>1
  <2>2. CASE OldTop \/ Check
    <3> DEFINE c == sk["cli"].connected \/ HasPeer("cli")
    <3>1. /\ sk' = [sk EXCEPT !["cli"].connected = c] /\ file' = file
          /\ program = "old"
      BY <2>2 DEF OldTop, Check, KnowPeer, Runs
    <3>2. c <=> HasPeer("cli")
      BY DEF Real
    <3> HIDE DEF c
    <3>3. /\ \A o \in Obj : sk'[o].fd = sk[o].fd
          /\ sk'["cli"].connected = c
          /\ sk'["grp"].connected = sk["grp"].connected
      BY <1>0, <3>1 DEF SockTypeOK, Sk
    <3>4. HasPeer("cli")' = HasPeer("cli") /\ IsOpen("grp")' = IsOpen("grp")
      BY <1>0, <3>1, <3>3 DEF HasPeer, IsOpen, Is
    <3> QED
      BY <1>0, <3>1, <3>2, <3>3, <3>4 DEF Real
  <2>3. CASE DropGroup
    BY <1>s, <1>0, <2>3 DEF DropGroup, SamePeers, SameConnected, SockTypeOK, Sk
  <2> QED
    BY <1>2, <2>1, <2>2, <2>3 DEF OldProcess, OldLeaves, OldEnds, Hear, OldData
<1>3. CASE ServerProcess
  <2>1. CASE UNCHANGED <<file, sk>>
    BY <1>u, <2>1
  <2>2. CASE Accepted
    BY <1>s, <1>0, <2>2, SetBlockingReal DEF Accepted
  <2>3. CASE CreateListener
    <3>1. ~IsOpen("srv") /\ OpenSocket("srv", "fresh")
      BY <2>3 DEF SockInv, OpenWhen, CreateListener, Net, Step
    <3> QED
      BY <1>0, <3>1, OpenReal, OpenedReal
  <2>4. CASE Listen \/ Accept
    <3>1. program = "server"
      <4>1. th["net"].at \in {"listen", "serve"}
        BY <2>4 DEF Listen, Accept, Net, Step, At
      <4>2. th["net"].at \in NetPcs[program] /\ program \in Programs
        BY <1>0, <4>1
          DEF SockInv, ControlOK, NetControl, In, ClosePcs, SockTypeOK
      <4> QED
        BY <4>1, <4>2 DEF NetPcs, Programs
    <3>2. \A o \in {"cli", "grp"} : sk'[o] = sk[o]
      BY <1>0, <2>4 DEF Listen, Accept, SockTypeOK
    <3>3. ~sk["cli"].connected
      BY <3>1 DEF Real
    <3> QED
      BY <3>2, <3>3 DEF Real, IsOpen
  <2> QED
    BY <1>3, <2>1, <2>2, <2>3, <2>4
      DEF ServerProcess, NoListener, BeginSend, SendSome, SendFails,
          ClientGone, ServerLeaves, ServerEnds
<1> QED
  BY <1>1, <1>2, <1>3

\* The calls of the tcp program keep it, whatever their order.
LEMMA TcpCallReal ==
  ASSUME SockInv, Real, TcpCalls("net"), program = "tcp", UNCHANGED program,
         ~Closing("net", "cli")'
  PROVE  Real'
<1>0. SockTypeOK /\ {"cli", "grp"} \subseteq Obj /\ program' = program
  BY DEF SockInv, Obj, TcpObj
<1>s. SamePeers /\ SameConnected("cli") /\ SameConnected("grp") => Real'
  BY <1>0, SameReal
<1>u. UNCHANGED <<file, sk>> => Real'
  BY <1>s DEF SamePeers, SameConnected
<1>c. (\E r : sk' = [sk EXCEPT !["cli"].connecting = r]) /\ file' = file => Real'
  BY <1>0, <1>s, ConnectingReal DEF SamePeers
<1> USE DEF OnlyGoto, OnlyDestroy
<1>1. CASE Create("net")
  BY <1>0, <1>1, OpenReal, OpenedReal DEF Create
<1>2. CASE RawConnectSin("net")
  BY <1>0, <1>2, OpenReal, OpenedReal DEF RawConnectSin
<1>3. CASE SetMode("net")
  BY <1>s, <1>0, <1>3, SetBlockingReal DEF SetMode
<1>4. CASE SinStart("net")
  BY <1>s, <1>0, <1>4, StartConnectReal DEF SinStart
<1>5. CASE TryConnect("net")
  <2> DEFINE table == Fcntl(file, sk["cli"].fd, sk["cli"].blocks)
  <2>1. table \in [Fd -> Files] /\ \A m \in Fd : table[m].is = file[m].is
    BY <1>0, FcntlModes DEF SockTypeOK, Sk
  <2>2. \A p \in Obj : SameConnected(p)
    <3>1. CASE sk' = sk
      BY <3>1 DEF SameConnected
    <3>2. CASE \E r : sk' = [sk EXCEPT !["cli"].connecting = r]
      BY <1>0, <3>2, ConnectingReal
    <3> QED
      BY <1>5, <3>1, <3>2 DEF TryConnect
  <2>3. \/ file' = file \/ file' = table
        \/ /\ Is("cli", {"fresh", "refused"})
           /\ \E r \in {"up", "refused", "dialing"} :
                  file' = [table EXCEPT ![sk["cli"].fd].is = r]
    BY <1>5 DEF TryConnect
  <2> HIDE DEF table
  <2>4. SamePeers
    BY <2>1, <2>3 DEF Is, SamePeers, Peers, Files
  <2> QED
    BY <1>0, <1>s, <2>2, <2>4
<1>6. CASE Cancel("net") \/ Connect("net")
  BY <1>u, <1>c, <1>6 DEF Cancel, Connect
<1>7. CASE IsReallyConnected("net") \/ SetConnected("net")
  <2>1. /\ HasPeer("cli") /\ file' = file
        /\ sk'["grp"] = sk["grp"] /\ sk'["cli"].fd = sk["cli"].fd
    BY <1>0, <1>7 DEF IsReallyConnected, SetConnected, Flags, SockTypeOK, Sk
  <2> QED
    BY <1>0, <2>1 DEF Real, HasPeer, Is, IsOpen
<1> QED
  BY <1>u, <1>1, <1>2, <1>3, <1>4, <1>5, <1>6, <1>7
    DEF TcpCalls, RawConnect, I4Connect, DestroyCall, Returned

\* And those of the udp program.
LEMMA UdpCallReal ==
  ASSUME SockInv, Real, UdpCalls("net"), program = "udp", UNCHANGED program,
         ~Closing("net", "cli")'
  PROVE  Real'
<1>0. /\ SockTypeOK /\ {"cli", "grp", "p2p"} \subseteq Obj /\ program' = program
      /\ ~sk["cli"].connected
  BY DEF SockInv, Obj, TcpObj, Real
<1>s. SamePeers /\ SameConnected("cli") /\ SameConnected("grp") => Real'
  BY <1>0, SameReal
<1>u. UNCHANGED <<file, sk>> => Real'
  BY <1>s DEF SamePeers, SameConnected
<1>g. /\ \A o \in Obj \ {"grp"} : sk'[o] = sk[o]
      /\ sk'["grp"].connected => sk'["grp"].fd > 0
      => Real'
  BY <1>0 DEF Real, IsOpen
<1>k. sk["grp"].connected => sk["grp"].fd > 0
  BY DEF Real, IsOpen
<1> USE DEF OnlyGoto, OnlyDestroy
<1>1. CASE CreateUdp("net")
  BY <1>0, <1>1, OpenReal, OpenedReal DEF CreateUdp
<1>2. CASE CreateP2p("net")
  <2>1. ~IsOpen("p2p") /\ OpenSocket("p2p", "dgram")
    BY <1>2 DEF CreateP2p, IsOpen
  <2> QED
    BY <1>0, <2>1, OpenReal, OpenedReal
<1>3. CASE ConnectUdp("net")
  BY <1>0, <1>g, <1>3 DEF ConnectUdp, Flags, IsOpen, SockTypeOK, Sk
<1>4. CASE SetRsin("net")
  BY <1>0, <1>g, <1>4 DEF SetRsin, Flags, SockTypeOK, Sk
<1>5. CASE GCreate("net")
  <2>1. sk["grp"].fd = -1
    BY <1>5 DEF GCreate
  <2>2. ~sk["grp"].connected
    BY <2>1, <1>k
  <2> QED
    BY <1>0, <1>g, <2>2, <1>5 DEF GCreate, SockTypeOK, Sk
<1>6. CASE Drop("net")
  BY <1>0, <1>g, <1>k, <1>6 DEF Drop, SockTypeOK, Sk
<1>7. CASE EndP2p("net")
  BY <1>0, <1>7 DEF EndP2p, Real, SockTypeOK, Sk, IsOpen
<1> QED
  BY <1>u, <1>1, <1>2, <1>3, <1>4, <1>5, <1>6, <1>7
    DEF UdpCalls, DestroyCall, Returned, JoinCall

\* Only the sclient's program has a second thread that destroys.
LEMMA NetClosesAlone ==
  ASSUME SockInv, ~HasSclient
  PROVE  Tidy /\ ~In("main", ClosePcs)
BY DEF SockInv, OverlapsIn, ControlOK, MainControl

\* A destroy() keeps Real: it clears _connected before the close().
LEMMA DestroyReal ==
  ASSUME SockInv, Real, NEW t \in Thread, Destroying(t), UNCHANGED program
  PROVE  Real'
<1>0. /\ SockTypeOK /\ ControlOK /\ {"cli", "grp"} \subseteq Obj
      /\ program' = program
      /\ Thread = {"net", "main"} /\ program \in Programs /\ th[t].on \in Obj
      /\ th \in [Thread -> Posts] /\ th[t].kept \in BOOLEAN
  BY DEF SockInv, SockTypeOK, Obj, TcpObj, Thread, Posts
<1>1. th[t].back \notin ClosePcs
  BY <1>0, DestroyMoves
    DEF ControlOK, NetControl, MainControl, NetPcs, Programs, ClosePcs
<1>2. /\ (t = "main" => th'["net"] = th["net"])
      /\ (t = "main" => th[t].on = "cli" /\ HasSclient)
  BY <1>0, DestroyMoves DEF ControlOK, MainControl
<1>e. EndDestroy(t) => (Closing("net", "cli")' => Closing("net", "cli"))
  BY <1>0, <1>1, <1>2 DEF EndDestroy, Closing, ClosePcs, Thread0
<1>3. CASE NotOpen(t)
  BY <1>0, <1>e, <1>3, SameReal DEF NotOpen, SamePeers, SameConnected
<1>4. CASE DestroyTcp(t)
  <2> DEFINE o == th[t].on  f == Fcntl(file, sk[o].fd, sk[o].blocks)
  <2>1. /\ sk' = [sk EXCEPT ![o].connected = FALSE, ![o].connecting = FALSE]
        /\ file' = f /\ o \in Obj
    BY <1>0, <1>4 DEF DestroyTcp
  <2>2. \A m \in Fd : f[m].is = file[m].is
    <3>1. file \in [Fd -> Files] /\ sk[o].blocks \in BOOLEAN
      BY <1>0 DEF SockTypeOK, Sk
    <3> QED
      BY <3>1, FcntlModes
  <2> HIDE DEF f
  <2>3. SamePeers
    BY <2>1, <2>2 DEF SamePeers
  <2>4. /\ \A p \in Obj : SameConnected(p)
        /\ ~sk'[o].connected
    BY <1>0, <2>1 DEF SockTypeOK, Sk, SameConnected
  <2>5. Closing("net", "cli")' => Closing("net", "cli") \/ ~sk'["cli"].connected
    BY <1>0, <1>2, <1>4, <2>4 DEF DestroyTcp, BeginClose, Closing, Posts
  <2> QED
    BY <1>0, <2>3, <2>4, <2>5, SameReal
<1>5. CASE DestroyGroup(t)
  <2>1. ~Closing("net", "cli")' \/ Closing("net", "cli")
    BY <1>0, <1>2, <1>5 DEF DestroyGroup, BeginClose, Closing, Posts
  <2> QED
    BY <1>0, <1>5, <2>1, SameReal DEF DestroyGroup, SamePeers, SameConnected
<1>6. CASE Close(t)
  <2>1. sk' = sk /\ Closing("net", "cli")' = Closing("net", "cli")
    BY <1>0, <1>2, <1>6 DEF Close, Closing, Goto, At, Posts
  <2>2. CASE ~sk["cli"].connected
    BY <2>1, <2>2 DEF Real, IsOpen
  <2>3. CASE sk["cli"].connected
    <3>1. ~HasSclient /\ HasPeer("cli") /\ t = "net"
      BY <1>0, <1>2, <2>3 DEF Real, HasSclient
    <3>2. th[t].on = "grp"
      <4>1. th[t].on # "cli"
        BY <1>6, <2>3, <3>1 DEF Real, Closing, Close, At
      <4> QED
        BY <1>0, <2>3, <3>1, <4>1
          DEF Real, ControlOK, NetControl, NetObjs, Programs
    <3>3. Mine("cli") /\ (IsOpen("grp") => Mine("grp")) /\ IsOpen("cli")
      BY <1>0, <1>6, <3>1, <3>2, NetClosesAlone
        DEF Tidy, HasPeer, Idling, Close, At, In, ClosePcs
    <3>4. sk["grp"].fd # sk["cli"].fd
      BY <3>3 DEF Mine, IsOpen
    <3>5. file'[sk["cli"].fd] = file[sk["cli"].fd]
      BY <1>0, <1>6, <3>1, <3>2, <3>4 DEF Close, SockTypeOK, HasPeer, Is
    <3> QED
      BY <1>0, <2>1, <3>1, <3>5 DEF Real, HasPeer, Is, IsOpen
  <2> QED BY <2>2, <2>3
<1>7. CASE Store(t)
  <2>1. th[t].on = "cli" => ~sk["cli"].connected
    BY <1>0, <1>2, <1>7 DEF Real, Store, Closing, At, HasSclient
  <2>2. /\ \A p \in Obj :
               p # th[t].on
                 => /\ sk'[p].fd = sk[p].fd
                    /\ (p # "grp" => sk'[p].connected = sk[p].connected)
        /\ th[t].on # "grp" => sk'["grp"].connected = sk["grp"].connected
        /\ th[t].on = "grp" => ~sk'["grp"].connected
        /\ th[t].on = "cli" => ~sk'["cli"].connected
        /\ file' = file /\ EndDestroy(t)
    BY <1>0, <1>7, <2>1 DEF Store, Stored, SockTypeOK, Sk
  <2> QED
    BY <1>0, <1>e, <2>2 DEF Real, HasPeer, Is, IsOpen
<1> QED
  BY <1>3, <1>4, <1>5, <1>6, <1>7 DEF Destroying

\* Every step keeps Real.
LEMMA RealStep ==
  ASSUME SockInv, Real, [PhoneNext]_phoneVars
  PROVE  Real'
<1>0. /\ SockTypeOK /\ program' = program /\ {"cli", "grp"} \subseteq Obj
      /\ (Runs("phone") => program \notin {"tcp", "old"})
  BY ProgramStays DEF SockInv, Obj, TcpObj, Runs
<1>s. ASSUME UNCHANGED <<sk, file>>,
             th'["net"] = th["net"] \/ ~Closing("net", "cli")'
      PROVE  Real'
  BY <1>0, <1>s, SameReal DEF SamePeers, SameConnected, Closing
<1>1. CASE NetStep
  <2>1. ~Closing("net", "cli")'
    BY <1>1, NetCalm
  <2> QED
    BY <1>0, <1>1, <2>1, MethodReal, ProgramReal, TcpCallReal, UdpCallReal
      DEF NetStep, AnyProgram, Runs
<1>2. ASSUME NEW t \in Thread, InDestroy(t) PROVE Real'
  BY <1>0, <1>2, DestroyReal DEF InDestroy
<1>3. CASE MainStep
  <2>1. th'["net"] = th["net"] \/ ~Closing("net", "cli")'
    BY <1>3, MainMoves DEF Closing, Thread0
  <2>2. CASE sk' = sk
    BY <1>s, <1>3, <2>1, <2>2, MainMoves
  <2>3. CASE sk' = [sk EXCEPT !["cli"] = NewSk]
    BY <1>0, <2>3 DEF Real, IsOpen, NewSk, SockTypeOK
  <2> QED
    BY <1>3, <2>2, <2>3, MainMoves
<1>4. CASE Environment \/ SelectFails
  <2>1. UNCHANGED <<sk, th>>
    BY <1>4
      DEF Environment, CtrlC, OthersOpen, OthersClose, KernelDials, PeerCloses,
          Outside, SelectFails, Step, NoHistory
  <2>2. SamePeers
    <3>1. CASE OthersOpen
      <4> DEFINE m == Lowest
      <4>1. /\ m \in Fd /\ file[m].is = "free"
            /\ file' = [file EXCEPT ![m] = New("other", "others")]
        BY <3>1, LowestFree DEF OthersOpen
      <4> HIDE DEF m
      <4> QED
        BY <1>0, <4>1 DEF SockTypeOK, SamePeers, Peers
    <3>2. ASSUME NEW n \in Fd, OthersClose(n) \/ KernelDials(n) \/ PeerCloses(n)
          PROVE  SamePeers
      BY <1>0, <3>2
        DEF OthersClose, KernelDials, PeerCloses, SockTypeOK, SamePeers, Peers,
            Files
    <3>3. CASE file' = file
      BY <3>3 DEF SamePeers
    <3> QED
      BY <1>4, <3>1, <3>2, <3>3 DEF Environment, CtrlC, SelectFails
  <2> QED
    BY <1>0, <2>1, <2>2, SameReal DEF SameConnected, Closing
<1>5. CASE UNCHANGED phoneVars
  BY <1>5, <1>s DEF phoneVars, progVars, sockVars
<1> QED
  BY <1>1, <1>2, <1>3, <1>4, <1>5
    DEF PhoneNext, ProgNext, ThreadMoves, NetStep, MainStep

\* _connected is real: a tcp object that says it is connected has a descriptor
\* with a peer, and a group that says so is open, in every program and every
\* order of calls.
THEOREM SockConnectedIsReal == PhoneSpec => []ConnectedIsReal
<1>1. PhoneInit => SockInv /\ Real
  <2>1. PhoneInit => \A o \in {"cli", "grp"} : ~sk[o].connected
    BY DEF PhoneInit, ProgInit, SockInit, Obj, TcpObj
  <2> QED
    BY <2>1, InitSock DEF Real
<1>2. SockInv /\ Real /\ [PhoneNext]_phoneVars => SockInv' /\ Real'
  BY SockStep, RealStep
<1>3. Real => ConnectedIsReal
  BY DEF Real, ConnectedIsReal
<1> QED
  BY <1>1, <1>2, <1>3, PTL DEF PhoneSpec

-----------------------------------------------------------------------------

(*****************************************************************************)
(* The addresses of the phone                                                *)
(*****************************************************************************)

\* The phone.  While its sclient is told to stop, the network thread is at no
\* label where it walks the addresses the search fills, and does not come back to
\* one; what the main thread's place says of server and alive.
StandsStill ==
    /\ ~In("net", Walking)
    /\ In("net", ClosePcs) => th["net"].back \notin Walking
ShellTypeOK ==
    /\ ui \in {"tick", "search", "join", "start", "alive"}
    /\ {server, started, late, crossed} \subseteq BOOLEAN
Away ==
    /\ ~Runs("phone") => ui = "tick"
    /\ ui = "search" => ~server
    /\ Runs("phone") /\ In("main", {"begin", "init", "play"}) /\ ~crossed
         => server
    /\ Runs("phone") /\ In("main", {"quit", "await"} \union ClosePcs) /\ ~late
         => ~alive
    /\ Runs("phone") /\ ~alive /\ ~late /\ ~crossed => StandsStill
AwayInv == ShellTypeOK /\ Away

\* When alive is cleared a network thread that is not walking the addresses does
\* not start to.
LEMMA NetWalks ==
  ASSUME SockInv, NetStep, Runs("phone"), ~alive, ~In("net", Walking)
  PROVE  StandsStill'
<1>0. /\ SockTypeOK /\ program = "phone" /\ th \in [Thread -> Posts]
      /\ "net" \in Thread
      /\ th["net"].at \in NetPcs[program] \union ClosePcs
  BY DEF SockInv, ControlOK, NetControl, In, SockTypeOK, Posts, Thread, Runs
<1>1. CASE SpeakerProcess /\ ~(CloseAtExit \/ Join)
  <2> USE <1>0
        DEF Net, Step, At, GoOn, Destroy, OnlyGoto, OnlyDestroy, Goto,
            CallDestroy, Walking, In, Posts, ClosePcs, StandsStill
  <2>1. ~(SpeakerTop \/ S4Result \/ NextAddress)
    BY DEF SpeakerTop, S4Result, NextAddress
  <2>2. CASE SpeakerLeaves
    BY <2>2 DEF SpeakerLeaves, Leave
  <2>3. CASE UseSocket
    BY <2>3 DEF UseSocket
  <2>4. CASE GetDataEnds
    BY <2>4 DEF GetDataEnds
  <2>5. CASE ConnectionLost
    BY <2>5 DEF ConnectionLost
  <2> QED
    BY <1>1, <2>1, <2>2, <2>3, <2>4, <2>5 DEF SpeakerProcess
<1>2. CASE ServerProcess \/ OldProcess \/ AnyProgram
  BY <1>0, <1>2, NetSteps
    DEF ServerProcess, CreateListener, Listen, Accept, Accepted, NoListener,
        BeginSend, SendSome, SendFails, ClientGone, ServerLeaves, ServerEnds,
        OldProcess, OldTop, Check, DropGroup, OldLeaves, OldEnds, Hear,
        OldData, AnyProgram, Net, Step, At, Runs, NetPcs, Programs, ClosePcs,
        StandsStill
<1>3. CASE InMethod
  BY <1>0, <1>3
    DEF InMethod, S4Steps, S4Connect, S4Socket, S4Start, S4Wait, S4End,
        RawSteps, RawSocket, RawStart, RawWait, RawEnd, JoinSteps, JoinGroup,
        BecomeMember, Step, At, In, Walking, NetPcs, Programs, ClosePcs,
        StandsStill
<1> QED
  BY <1>1, <1>2, <1>3 DEF NetStep

\* The timer's slots and the player's thread keep AwayInv.
LEMMA AwayMain ==
  ASSUME SockInv, AwayInv, TimerSlot \/ PlayerThread \/ SelectFails
  PROVE  AwayInv'
<1>0. /\ SockTypeOK /\ PhoneTurns /\ th \in [Thread -> Posts]
      /\ {"net", "main"} \subseteq Thread
      /\ program = "phone" /\ program' = program /\ alive \in BOOLEAN
  BY ProgramStays
    DEF SockInv, SockTypeOK, Posts, Thread, TimerSlot, Search, Restart,
        JoinThread, StartThread, SetAlive, SearchEnds, Ui, PlayerThread,
        Construct, Silent, LeavePlay, Quit, InitAo, Main, SelectFails
<1> USE <1>0
      DEF AwayInv, ShellTypeOK, Away, Runs, In, At, Goto, Posts, ClosePcs,
          Walking, StandsStill
<1>1. CASE Search
  BY <1>1 DEF Search, Ui
<1>2. ASSUME NEW found \in BOOLEAN, SearchEnds(found) PROVE AwayInv'
  BY <1>2 DEF SearchEnds, Ui
<1>3. CASE Restart
  BY <1>3 DEF Restart, Ui
<1>4. CASE JoinThread
  BY <1>4 DEF JoinThread, Ui
<1>5. CASE StartThread
  BY <1>5 DEF StartThread, Ui
<1>6. CASE SetAlive
  BY <1>6 DEF SetAlive, Ui
<1>7. CASE Construct
  BY <1>7 DEF Construct, Main
<1>8. ASSUME NEW works \in BOOLEAN, InitAo(works) PROVE AwayInv'
  BY <1>8 DEF InitAo, Main, Thread0
<1>9. CASE Silent
  BY <1>9 DEF Silent, Main, PhoneTurns
<1>10. CASE LeavePlay
  BY <1>10 DEF LeavePlay, Main
<1>11. CASE Quit
  BY <1>11 DEF Quit, Main, CallDestroy
<1>12. CASE SelectFails
  BY <1>12 DEF SelectFails, Step, shellVars
<1> QED
  BY <1>1, <1>2, <1>3, <1>4, <1>5, <1>6, <1>7, <1>8, <1>9, <1>10, <1>11, <1>12
    DEF TimerSlot, PlayerThread

\* Every step keeps it.
LEMMA AwayStep ==
  ASSUME SockInv, AwayInv, [PhoneNext]_phoneVars
  PROVE  AwayInv'
<1>0. /\ SockTypeOK /\ ControlOK /\ program' = program /\ th \in [Thread -> Posts]
      /\ Thread = {"net", "main"}
  BY ProgramStays DEF SockInv, SockTypeOK, Posts, Thread
<1>1. CASE TimerSlot \/ PlayerThread \/ SelectFails
  BY <1>1, AwayMain
<1>2. ASSUME UNCHANGED shellVars,
             Runs("phone") => alive' = alive,
             Runs("phone")
               => \/ th'["main"] = th["main"]
                  \/ /\ In("main", ClosePcs)
                     /\ In("main", ClosePcs \union {"await"})',
             Runs("phone") /\ ~alive /\ StandsStill => StandsStill'
      PROVE  AwayInv'
  <2>1. CASE Runs("phone")
    BY <1>0, <1>2, <2>1
      DEF AwayInv, ShellTypeOK, Away, shellVars, Runs, In, ClosePcs
  <2>2. CASE ~Runs("phone")
    BY <1>0, <1>2, <2>2 DEF AwayInv, ShellTypeOK, Away, shellVars, Runs
  <2> QED BY <2>1, <2>2
<1>3. ASSUME UNCHANGED shellVars, NetStep PROVE AwayInv'
  <2>1. th'["main"] = th["main"]
    BY <1>0, <1>3, NetMoves
  <2>2. Runs("phone") => alive' = alive
    BY <1>0, <1>3
      DEF NetStep, InMethod, AnyProgram, SpeakerProcess, SpeakerTop,
          SpeakerLeaves, S4Result, NextAddress, GetDataEnds, ConnectionLost,
          UseSocket, Leave, CloseAtExit, Join, ServerProcess, CreateListener,
          Listen, Accept, Accepted, NoListener, BeginSend, SendSome, SendFails,
          ClientGone, ServerLeaves, ServerEnds, OldProcess, OldTop, Check,
          DropGroup, OldLeaves, OldEnds, Hear, OldData, Net
  <2> QED
    BY <1>2, <1>3, <2>1, <2>2, NetWalks DEF StandsStill
<1>4. ASSUME UNCHANGED shellVars, NEW t \in Thread, InDestroy(t) PROVE AwayInv'
  <2>1. /\ alive' = alive /\ In(t, ClosePcs)
        /\ \A u \in Thread \ {t} : th'[u] = th[u]
        /\ \/ th'[t].at \in {"close", "store"} /\ th'[t].back = th[t].back
           \/ th'[t].at = th[t].back
    BY <1>0, <1>4, DestroyMoves DEF InDestroy, Thread0
  <2>2. t = "main" => th["main"].back = "await"
    BY <1>0, <2>1 DEF ControlOK, MainControl
  <2>3. t = "net" => th["net"].back \notin ClosePcs
    BY <1>0, <2>1
      DEF ControlOK, NetControl, NetPcs, Programs, ClosePcs, SockTypeOK
  <2>4. Runs("phone")
          => \/ th'["main"] = th["main"]
             \/ In("main", ClosePcs) /\ In("main", ClosePcs \union {"await"})'
    BY <1>0, <2>1, <2>2 DEF In, ClosePcs
  <2>5. StandsStill => StandsStill'
    BY <1>0, <2>1, <2>3 DEF In, ClosePcs, Walking, StandsStill
  <2> QED
    BY <1>2, <1>4, <2>1, <2>4, <2>5
<1>5. ASSUME UNCHANGED shellVars, Environment PROVE AwayInv'
  BY <1>2, <1>5
    DEF Environment, CtrlC, OthersOpen, OthersClose, KernelDials, PeerCloses,
        Outside, Runs, In, StandsStill
<1>6. ASSUME UNCHANGED shellVars, CloseAtExit \/ Join PROVE AwayInv'
  <2>1. CASE Runs("phone")
    BY <1>0, <1>6, <2>1
      DEF CloseAtExit, Join, Runs, At, Goto, Posts, AwayInv, ShellTypeOK, Away,
          shellVars, In, ClosePcs, StandsStill
  <2>2. CASE ~Runs("phone")
    BY <1>0, <1>2, <1>6, <2>2
  <2> QED BY <2>1, <2>2
<1>7. CASE UNCHANGED phoneVars
  BY <1>2, <1>7 DEF phoneVars, progVars, sockVars, In, StandsStill
<1> QED
  BY <1>0, <1>1, <1>3, <1>4, <1>5, <1>6, <1>7
    DEF PhoneNext, ProgNext, ThreadMoves, NetStep

\* The addresses stay: while the phone's search rewrites the list of addresses,
\* its network thread is not in the loop that walks it, unless the main thread was
\* late to leave play or a thread crossed the flags.
THEOREM PhoneAddressesStay == PhoneSpec => []AddressesStay
<1>1. PhoneInit => SockInv /\ AwayInv
  <2> SUFFICES ASSUME PhoneInit PROVE AwayInv
    BY InitSock
  <2>1. /\ ui = "tick" /\ server = FALSE /\ started = FALSE /\ late = FALSE
        /\ crossed = FALSE
        /\ alive = TRUE
    BY DEF PhoneInit, ProgInit
  <2>2. Runs("phone") => th["main"].at = "done"
    BY DEF PhoneInit, ProgInit, Thread0, Thread, Runs
  <2> QED
    BY <2>1, <2>2 DEF AwayInv, ShellTypeOK, Away, In, ClosePcs
<1>2. SockInv /\ AwayInv /\ [PhoneNext]_phoneVars => SockInv' /\ AwayInv'
  BY SockStep, AwayStep
<1>3. SockInv /\ AwayInv => AddressesStay
  <2> SUFFICES ASSUME SockInv, AwayInv, ~late, ~crossed, ui = "search"
               PROVE  ~InAddresses
    BY DEF AddressesStay
  <2>1. /\ Runs("phone") /\ ~In("main", {"begin", "init", "play"})
        /\ program = "phone"
    BY DEF AwayInv, Away, Runs
  <2>2. CASE In("main", {"done", "silent", "fault"})
    <3>1. At("net", "done")
      BY <2>1, <2>2 DEF SockInv, PhoneTurns, In
    <3> QED
      BY <3>1 DEF InAddresses, At, Walking, Closing
  <2>3. CASE In("main", {"quit", "await"} \union ClosePcs)
    <3>1. ~alive
      BY <2>1, <2>3 DEF AwayInv, Away
    <3> QED
      BY <2>1, <3>1
        DEF AwayInv, Away, InAddresses, At, In, ClosePcs, Closing, StandsStill
  <2> QED
    BY <2>1, <2>2, <2>3
      DEF SockInv, ControlOK, MainControl, MainPcs, Programs, In, SockTypeOK
<1> QED
  BY <1>1, <1>2, <1>3, PTL DEF PhoneSpec

-----------------------------------------------------------------------------

(*****************************************************************************)
(* Modes and frames: what the programs share                                 *)
(*****************************************************************************)

\* An open object that nobody is closing names a descriptor of its own, so one
\* that nobody else frees or changes.
LEMMA IdleIsMine ==
  ASSUME SockInv, ~overlap, NEW o \in Obj, IsOpen(o), Idling(o)
  PROVE  Mine(o) /\ sk[o].fd \in Fd /\ file[sk[o].fd].is \notin {"free", "other"}
<1>1. /\ Mine(o) /\ sk[o].fd \in Fd \union {-1} /\ sk[o].fd > 0 /\ o # "none"
      /\ o # "others"
  BY DEF SockInv, Tidy, IsOpen, SockTypeOK, Sk, Obj, TcpObj
<1>2. sk[o].fd \in Fd
  BY <1>1
<1> QED
  BY <1>1, <1>2 DEF SockInv, KindsFit, Mine

\* The environment sets no mode.
LEMMA OthersKeep ==
  ASSUME SockInv, Environment \/ SelectFails, NEW n \in Fd,
         file[n].is \notin {"free", "other"}
  PROVE  file'[n].blocks = file[n].blocks
<1>0. file \in [Fd -> Files]
  BY DEF SockInv, SockTypeOK
<1>1. CASE OthersOpen
  <2> DEFINE m == Lowest
  <2>1. /\ m \in Fd /\ file[m].is = "free"
        /\ file' = [file EXCEPT ![m] = New("other", "others")]
    BY <1>1, LowestFree DEF OthersOpen
  <2> HIDE DEF m
  <2> QED
    BY <1>0, <2>1
<1>2. ASSUME NEW m \in Fd, OthersClose(m) \/ KernelDials(m) \/ PeerCloses(m)
      PROVE  file'[n].blocks = file[n].blocks
  BY <1>0, <1>2 DEF OthersClose, KernelDials, PeerCloses, Files
<1> QED
  BY <1>1, <1>2 DEF Environment, CtrlC, SelectFails

\* What fcntl set is the mode of the file.
LEMMA UnblockedSets ==
  ASSUME SockTypeOK, NEW o \in Obj, NEW b \in BOOLEAN, SetBlocking(o, b),
         sk[o].fd \in Fd, IsOpen(o), file[sk[o].fd].is # "free"
  PROVE  file'[sk[o].fd].blocks = b
BY DEF SockTypeOK, SetBlocking, Fcntl, IsOpen, Files

\* The steps that the network thread of each program can take.
LEMMA NetRuns ==
  ASSUME SockTypeOK, ControlOK, NetStep
  PROVE  /\ program = "server" => ServerProcess
         /\ program = "old"
              => OldProcess \/ UseSocket \/ RawSteps("net") \/ JoinSteps("net")
         /\ HasSclient
              => (SpeakerProcess /\ ~(CloseAtExit \/ Join)) \/ S4Steps("net")
<1>0. th["net"].at \in NetPcs[program] \union ClosePcs /\ program \in Programs
  BY DEF ControlOK, NetControl, In, SockTypeOK
<1> USE DEF Net, Step, At, ClosePcs, NetPcs, Programs, HasSclient
<1>1. CASE SpeakerProcess /\ ~(CloseAtExit \/ Join)
  BY <1>0, <1>1
    DEF SpeakerProcess, SpeakerTop, SpeakerLeaves, S4Result, NextAddress,
        GetDataEnds, ConnectionLost, UseSocket, Leave
<1>2. CASE ServerProcess
  BY <1>0, <1>2
    DEF ServerProcess, CreateListener, Listen, Accept, Accepted, NoListener,
        BeginSend, SendSome, SendFails, ClientGone, ServerLeaves, ServerEnds
<1>3. CASE OldProcess
  BY <1>0, <1>3
    DEF OldProcess, OldTop, Check, DropGroup, OldLeaves, OldEnds, Hear,
        OldData, Runs, Leave
<1>4. CASE InMethod
  BY <1>0, <1>4
    DEF InMethod, S4Steps, S4Connect, S4Socket, S4Start, S4Wait, S4End,
        RawSteps, RawSocket, RawStart, RawWait, RawEnd, JoinSteps, JoinGroup,
        BecomeMember
<1>5. CASE AnyProgram
  BY <1>5 DEF AnyProgram, Runs
<1> QED
  BY <1>1, <1>2, <1>3, <1>4, <1>5 DEF NetStep

-----------------------------------------------------------------------------

(*****************************************************************************)
(* The sound server                                                          *)
(*****************************************************************************)

\* The server: a client that is being served or sent to is blocking, between two
\* frames none is under way, and after a send that failed the client is destroyed
\* before anything is sent again.
Serves ==
    /\ In("net", {"serve", "send"}) /\ IsOpen("acc") => file[sk["acc"].fd].blocks
    /\ At("net", "serve") /\ IsOpen("acc") => part = 0
    /\ \/ In("net", {"create", "listen"})
       \/ In("net", ClosePcs) /\ th["net"].back = "create"
       => ~IsOpen("acc")
    /\ In("net", ClosePcs) => /\ th["net"].back # "send"
                              /\ th["net"].back = "serve" => th["net"].on = "acc"
ServesInv == Runs("server") => Serves

\* The server's network thread keeps it.
LEMMA ServerMoves ==
  ASSUME SockInv, Serves, ServerProcess, Runs("server")
  PROVE  Serves'
<1>0. /\ SockTypeOK /\ {"acc", "srv"} \subseteq Obj /\ th \in [Thread -> Posts]
      /\ "net" \in Thread
      /\ file \in [Fd -> Files] /\ sk \in [Obj -> Sk]
  BY DEF SockInv, SockTypeOK, Obj, TcpObj, Posts, Thread
<1> USE DEF Net, Step, At, In, GoOn, Destroy, OnlyGoto, OnlyDestroy, Goto,
          GotoIf, CallDestroy, Posts, ClosePcs
<1>1. CASE CreateListener
  <2>1. sk'["acc"] = sk["acc"]
    BY <1>0, <1>1 DEF CreateListener, OpenSocket
  <2> QED
    BY <1>0, <1>1, <2>1 DEF Serves, CreateListener, IsOpen
<1>2. CASE NoListener
  BY <1>0, <1>2 DEF Serves, NoListener, IsOpen
<1>3. CASE Listen
  BY <1>0, <1>3 DEF Serves, Listen, IsOpen
<1>4. CASE Accept
  BY <1>0, <1>4 DEF Serves, Accept, IsOpen
<1>5. CASE Accepted
  <2>1. /\ th'["net"].at = "serve" /\ part' = 0 /\ SetBlocking("acc", TRUE)
        /\ sk'["acc"].fd = sk["acc"].fd
    BY <1>0, <1>5 DEF Accepted, SetBlocking, Sk
  <2>2. CASE IsOpen("acc")
    <3>1. ~overlap /\ Idling("acc")
      BY <1>0, <1>5, NetClosesAlone
        DEF Runs, HasSclient, SockInv, OverlapsIn, Idling, Accepted, Thread
    <3>2. file'[sk["acc"].fd].blocks = TRUE
      BY <1>0, <2>1, <2>2, <3>1, IdleIsMine, UnblockedSets
    <3> QED
      BY <2>1, <3>2 DEF Serves
  <2>3. CASE ~IsOpen("acc")
    BY <2>1, <2>3 DEF Serves, IsOpen
  <2> QED BY <2>2, <2>3
<1>6. CASE BeginSend
  BY <1>0, <1>6 DEF Serves, BeginSend, IsOpen
<1>7. CASE SendSome
  BY <1>0, <1>7 DEF Serves, SendSome, IsOpen
<1>8. CASE SendFails
  BY <1>0, <1>8 DEF Serves, SendFails, IsOpen
<1>9. CASE ClientGone
  BY <1>0, <1>9 DEF Serves, ClientGone, IsOpen
<1>10. CASE ServerLeaves
  BY <1>0, <1>10 DEF Serves, ServerLeaves, IsOpen
<1>11. CASE ServerEnds
  BY <1>0, <1>11 DEF Serves, ServerEnds, IsOpen
<1> QED
  BY <1>1, <1>2, <1>3, <1>4, <1>5, <1>6, <1>7, <1>8, <1>9, <1>10, <1>11
    DEF ServerProcess

\* The server's destroy() keeps it.
LEMMA ServesDestroy ==
  ASSUME SockInv, Serves, Runs("server"), NEW t \in Thread, Destroying(t),
         UNCHANGED part
  PROVE  Serves'
<1>0. /\ SockTypeOK /\ ControlOK /\ OpenWhen /\ program = "server"
      /\ Thread = {"net", "main"}
      /\ "acc" \in Obj
  BY DEF SockInv, Runs, Thread, Obj, TcpObj
<1>1. t = "net"
  BY <1>0, DestroyMoves, NetClosesAlone DEF HasSclient
<1> DEFINE o == th["net"].on  back == th["net"].back
<1>2. In("net", ClosePcs) /\ back \notin ClosePcs /\ BackFits(o, back)
  BY <1>0, <1>1, DestroyMoves
    DEF ControlOK, NetControl, NetPcs, Programs, ClosePcs, OpenWhen
<1>3. o # "acc" => sk'["acc"].fd = sk["acc"].fd
  BY <1>0, <1>1, DestroyMoves
<1>4. CASE /\ th'["net"].at \in {"close", "store"} /\ th'["net"].on = o
           /\ th'["net"].back = back /\ sk'[o].fd = sk[o].fd
  BY <1>0, <1>2, <1>3, <1>4 DEF Serves, In, At, ClosePcs, IsOpen
<1>5. CASE /\ th'["net"] = [Thread0(back) EXCEPT !.kept = th["net"].kept]
           /\ ~(sk'[o].fd > 0)
  <2>1. th'["net"].at = back
    BY <1>5 DEF Thread0
  <2>2. back = "create" => sk'["acc"].fd = sk["acc"].fd /\ ~IsOpen("acc")
    BY <1>2, <1>3 DEF Serves, BackFits, IsOpen
  <2>3. back = "serve" => ~(sk'["acc"].fd > 0)
    BY <1>2, <1>5 DEF Serves
  <2>4. back \notin {"send", "listen"}
    BY <1>2 DEF BackFits, Serves
  <2> QED
    BY <1>2, <2>1, <2>2, <2>3, <2>4 DEF Serves, In, At, IsOpen
<1> QED
  BY <1>0, <1>1, <1>4, <1>5, DestroyMoves

\* Every step keeps it.
LEMMA ServesStep ==
  ASSUME SockInv, ServesInv, [PhoneNext]_phoneVars
  PROVE  ServesInv'
<1>0. program' = program
  BY ProgramStays
<1> SUFFICES ASSUME Serves, Runs("server") PROVE Serves'
  BY <1>0 DEF ServesInv, Runs
<1>1. /\ SockTypeOK /\ ControlOK /\ program = "server" /\ Thread = {"net", "main"}
      /\ "acc" \in Obj
      /\ ~In("main", ClosePcs) /\ ~overlap
  BY NetClosesAlone
    DEF SockInv, Runs, Thread, Obj, TcpObj, HasSclient, OverlapsIn
<1>2. ASSUME th' = th, part' = part, sk' = sk,
             \A n \in Fd :
                 file[n].is \notin {"free", "other"}
                   => file'[n].blocks = file[n].blocks
      PROVE  Serves'
  <2>1. In("net", {"serve", "send"}) => Idling("acc")
    BY <1>1 DEF Idling, At, In, ClosePcs
  <2>2. In("net", {"serve", "send"}) /\ IsOpen("acc")
          => file'[sk["acc"].fd].blocks = file[sk["acc"].fd].blocks
    BY <1>1, <1>2, <2>1, IdleIsMine
  <2> QED
    BY <1>2, <2>2 DEF Serves, In, At, IsOpen
<1>3. CASE NetStep
  <2>1. ServerProcess
    BY <1>1, <1>3, NetRuns
  <2> QED
    BY <2>1, ServerMoves
<1>4. ASSUME NEW t \in Thread, InDestroy(t) PROVE Serves'
  BY <1>4, ServesDestroy DEF InDestroy
<1>5. CASE MainStep
  BY <1>1, <1>5
    DEF MainStep, CloseAtExit, Join, TimerSlot, Search, SearchEnds, Restart,
        JoinThread, StartThread, SetAlive, Ui, PlayerThread, Construct, Silent,
        LeavePlay, Quit, InitAo, Main, Runs, ControlOK, MainControl, MainPcs,
        Programs, At, In, ClosePcs
<1>6. CASE Environment \/ SelectFails
  <2>1. UNCHANGED <<sk, th, part>>
    BY <1>6
      DEF Environment, CtrlC, OthersOpen, OthersClose, KernelDials, PeerCloses,
          Outside, SelectFails, Step, NoHistory
  <2> QED
    BY <1>2, <1>6, <2>1, OthersKeep
<1>7. CASE UNCHANGED phoneVars
  BY <1>2, <1>7 DEF phoneVars, progVars, sockVars
<1> QED
  BY <1>3, <1>4, <1>5, <1>6, <1>7
    DEF PhoneNext, ProgNext, ThreadMoves, NetStep, MainStep

-----------------------------------------------------------------------------

(*****************************************************************************)
(* The old speaker                                                           *)
(*****************************************************************************)

\* The old program: its tcp socket is closed while it looks for the group, and
\* is connected and blocking where it is used.
OldUses ==
    /\ \/ In("net", {"drop", "join", "member", "joined", "raw"})
       \/ In("net", ClosePcs) /\ th["net"].on = "grp" /\ th["net"].back # "bye"
       => ~IsOpen("cli")
    /\ In("net", {"use", "data"}) => sk["cli"].connected
    /\ At("net", "top") /\ IsOpen("cli") => sk["cli"].connected
    /\ In("net", {"top", "data"}) /\ IsOpen("cli") => file[sk["cli"].fd].blocks
    /\ In("net", ClosePcs) => th["net"].back \in {"top", "join", "bye", "done"}
OldUsesInv == Runs("old") => OldUses

\* The old program's network thread keeps it.
LEMMA OldMoves ==
  ASSUME SockInv, OldUses, Runs("old"), NetStep
  PROVE  OldUses'
<1>0. /\ SockTypeOK /\ {"cli", "grp"} \subseteq Obj /\ th \in [Thread -> Posts]
      /\ "net" \in Thread
      /\ file \in [Fd -> Files] /\ sk \in [Obj -> Sk] /\ program = "old"
      /\ Thread = {"net", "main"}
      /\ ControlOK
  BY DEF SockInv, SockTypeOK, Obj, TcpObj, Posts, Thread, Runs
<1> USE DEF Net, Step, At, In, GoOn, Destroy, OnlyGoto, OnlyDestroy, Goto,
          GotoIf, CallDestroy, Posts, ClosePcs
<1>k. ASSUME KnowPeer
      PROVE  /\ sk'["cli"].fd = sk["cli"].fd
             /\ sk["cli"].connected => sk'["cli"].connected
  BY <1>0, <1>k DEF KnowPeer, Sk
<1>1. CASE OldTop
  BY <1>0, <1>1, <1>k DEF OldUses, OldTop, IsOpen
<1>2. CASE OldLeaves
  BY <1>0, <1>2 DEF OldUses, OldLeaves, Leave, IsOpen
<1>3. CASE OldEnds
  BY <1>0, <1>3 DEF OldUses, OldEnds, IsOpen
<1>4. CASE DropGroup
  BY <1>0, <1>4 DEF OldUses, DropGroup, IsOpen, Sk
<1>5. CASE Hear
  BY <1>0, <1>5 DEF OldUses, Hear, IsOpen
<1>6. CASE Check
  BY <1>0, <1>6 DEF OldUses, Check, IsOpen
<1>7. CASE OldData
  BY <1>0, <1>7 DEF OldUses, OldData, IsOpen
<1>8. CASE UseSocket
  <2>1. /\ th'["net"].at = "data" /\ SetBlocking("cli", TRUE)
        /\ sk'["cli"].fd = sk["cli"].fd /\ sk'["cli"].connected
    BY <1>0, <1>8 DEF OldUses, UseSocket, SetBlocking, Sk
  <2>2. CASE IsOpen("cli")
    <3>1. ~overlap /\ Idling("cli")
      BY <1>0, <1>8, NetClosesAlone
        DEF HasSclient, SockInv, OverlapsIn, Idling, UseSocket
    <3>2. file'[sk["cli"].fd].blocks = TRUE
      BY <1>0, <2>1, <2>2, <3>1, IdleIsMine, UnblockedSets
    <3> QED
      BY <2>1, <3>2 DEF OldUses
  <2>3. CASE ~IsOpen("cli")
    BY <2>1, <2>3 DEF OldUses, IsOpen
  <2> QED BY <2>2, <2>3
<1>9. CASE RawSteps("net")
  <2>1. th'["net"].at \in {"check", "rawstart", "rawwait", "rawend"}
    <3>1. CASE RawSocket("net")
      BY <1>0, <3>1 DEF RawSocket
    <3>2. CASE RawStart("net")
      BY <1>0, <3>2 DEF RawStart, StartConnect
    <3>3. CASE RawWait("net")
      BY <1>0, <3>3 DEF RawWait
    <3>4. CASE RawEnd("net")
      BY <1>0, <3>4 DEF RawEnd, EndConnect, Thread0
    <3> QED
      BY <1>9, <3>1, <3>2, <3>3, <3>4 DEF RawSteps
  <2> QED
    BY <2>1 DEF OldUses
<1>10. CASE JoinSteps("net")
  <2>1. sk'["cli"] = sk["cli"]
    BY <1>0, <1>10 DEF JoinSteps, JoinGroup, BecomeMember, OpenSocket
  <2> QED
    BY <1>0, <1>10, <2>1
      DEF OldUses, JoinSteps, JoinGroup, BecomeMember, IsOpen
<1> QED
  BY <1>0, <1>1, <1>2, <1>3, <1>4, <1>5, <1>6, <1>7, <1>8, <1>9, <1>10, NetRuns
    DEF OldProcess

\* The old program's destroy() keeps it.
LEMMA OldDestroy ==
  ASSUME SockInv, OldUses, Runs("old"), NEW t \in Thread, Destroying(t)
  PROVE  OldUses'
<1>0. /\ SockTypeOK /\ ControlOK /\ OpenWhen /\ program = "old"
      /\ Thread = {"net", "main"}
      /\ "cli" \in Obj
  BY DEF SockInv, Runs, Thread, Obj, TcpObj
<1>1. t = "net"
  BY <1>0, DestroyMoves, NetClosesAlone DEF HasSclient
<1> DEFINE o == th["net"].on  back == th["net"].back
<1>2. /\ In("net", ClosePcs) /\ BackFits(o, back)
      /\ back \in {"top", "join", "bye", "done"} /\ o \in {"cli", "grp"}
  BY <1>0, <1>1, DestroyMoves
    DEF ControlOK, NetControl, NetObjs, Programs, OpenWhen, OldUses
<1>3. o # "cli" => sk'["cli"].fd = sk["cli"].fd
  BY <1>0, <1>1, DestroyMoves
<1>4. CASE /\ th'["net"].at \in {"close", "store"} /\ th'["net"].on = o
           /\ th'["net"].back = back /\ sk'[o].fd = sk[o].fd
  BY <1>0, <1>2, <1>3, <1>4 DEF OldUses, In, At, ClosePcs, IsOpen
<1>5. CASE /\ th'["net"] = [Thread0(back) EXCEPT !.kept = th["net"].kept]
           /\ ~(sk'[o].fd > 0)
  <2>1. th'["net"].at = back
    BY <1>5 DEF Thread0
  <2>2. back \in {"top", "join"} => ~(sk'["cli"].fd > 0)
    BY <1>2, <1>3, <1>5 DEF OldUses, IsOpen
  <2> QED
    BY <1>2, <2>1, <2>2 DEF OldUses, In, At, IsOpen, ClosePcs
<1> QED
  BY <1>0, <1>1, <1>4, <1>5, DestroyMoves

\* Every step keeps it.
LEMMA OldUsesStep ==
  ASSUME SockInv, OldUsesInv, [PhoneNext]_phoneVars
  PROVE  OldUsesInv'
<1>0. program' = program
  BY ProgramStays
<1> SUFFICES ASSUME OldUses, Runs("old") PROVE OldUses'
  BY <1>0 DEF OldUsesInv, Runs
<1>1. /\ SockTypeOK /\ ControlOK /\ program = "old" /\ Thread = {"net", "main"}
      /\ "cli" \in Obj
      /\ ~In("main", ClosePcs) /\ ~overlap
  BY NetClosesAlone
    DEF SockInv, Runs, Thread, Obj, TcpObj, HasSclient, OverlapsIn
<1>2. ASSUME th' = th, sk' = sk,
             \A n \in Fd :
                 file[n].is \notin {"free", "other"}
                   => file'[n].blocks = file[n].blocks
      PROVE  OldUses'
  <2>1. In("net", {"top", "data"}) => Idling("cli")
    BY <1>1 DEF Idling, At, In, ClosePcs
  <2>2. In("net", {"top", "data"}) /\ IsOpen("cli")
          => file'[sk["cli"].fd].blocks = file[sk["cli"].fd].blocks
    BY <1>1, <1>2, <2>1, IdleIsMine
  <2> QED
    BY <1>2, <2>2 DEF OldUses, In, At, IsOpen
<1>3. CASE NetStep
  BY <1>3, OldMoves
<1>4. ASSUME NEW t \in Thread, InDestroy(t) PROVE OldUses'
  BY <1>4, OldDestroy DEF InDestroy
<1>5. CASE MainStep
  BY <1>1, <1>5
    DEF MainStep, CloseAtExit, Join, TimerSlot, Search, SearchEnds, Restart,
        JoinThread, StartThread, SetAlive, Ui, PlayerThread, Construct, Silent,
        LeavePlay, Quit, InitAo, Main, Runs, ControlOK, MainControl, MainPcs,
        Programs, At, In, ClosePcs
<1>6. CASE Environment \/ SelectFails
  <2>1. UNCHANGED <<sk, th>>
    BY <1>6
      DEF Environment, CtrlC, OthersOpen, OthersClose, KernelDials, PeerCloses,
          Outside, SelectFails, Step, NoHistory
  <2> QED
    BY <1>2, <1>6, <2>1, OthersKeep
<1>7. CASE UNCHANGED phoneVars
  BY <1>2, <1>7 DEF phoneVars, progVars, sockVars
<1> QED
  BY <1>3, <1>4, <1>5, <1>6, <1>7
    DEF PhoneNext, ProgNext, ThreadMoves, NetStep, MainStep

-----------------------------------------------------------------------------

(*****************************************************************************)
(* The sclient                                                               *)
(*****************************************************************************)

\* The sclient: it receives from a socket whose mode was set back after the
\* connect, unless the main thread is closing it.
ReceivesBlocking ==
    /\ At("net", "data") /\ IsOpen("cli") /\ ~Closing("main", "cli") /\ ~overlap
       => file[sk["cli"].fd].blocks
    /\ In("net", ClosePcs) => th["net"].back # "data"
ReceivesInv == HasSclient => ReceivesBlocking

\* Every step keeps it.
LEMMA ReceivesStep ==
  ASSUME SockInv, ReceivesInv, [PhoneNext]_phoneVars
  PROVE  ReceivesInv'
<1>0. program' = program
  BY ProgramStays
<1> SUFFICES ASSUME ReceivesBlocking, HasSclient PROVE ReceivesBlocking'
  BY <1>0 DEF ReceivesInv, HasSclient
<1>1. /\ SockTypeOK /\ ControlOK /\ Thread = {"net", "main"} /\ "cli" \in Obj
      /\ th \in [Thread -> Posts] /\ sk \in [Obj -> Sk] /\ overlap \in BOOLEAN
  BY DEF SockInv, Thread, Obj, TcpObj, SockTypeOK, Posts
<1>a. At("net", "data") /\ IsOpen("cli") /\ ~Closing("main", "cli") /\ ~overlap
        => /\ Mine("cli") /\ sk["cli"].fd \in Fd
           /\ file[sk["cli"].fd].is \notin {"free", "other"}
  <2> SUFFICES ASSUME At("net", "data"), IsOpen("cli"), ~Closing("main", "cli"),
                      ~overlap
               PROVE  /\ Mine("cli") /\ sk["cli"].fd \in Fd
                      /\ file[sk["cli"].fd].is \notin {"free", "other"}
    OBVIOUS
  <2>1. Idling("cli")
    BY <1>1 DEF Idling, At, Closing
  <2> QED BY <1>1, <2>1, IdleIsMine
<1>2. ASSUME th'["net"] = th["net"],
             Closing("main", "cli")' = Closing("main", "cli"),
             overlap' = overlap,
             sk'["cli"].fd = sk["cli"].fd,
             \A n \in Fd :
                 file[n].is \notin {"free", "other"}
                   => file'[n].blocks = file[n].blocks
      PROVE  ReceivesBlocking'
  <2>1. At("net", "data") /\ IsOpen("cli") /\ ~Closing("main", "cli") /\ ~overlap
          => file'[sk["cli"].fd].blocks = file[sk["cli"].fd].blocks
    BY <1>2, <1>a
  <2> QED
    BY <1>2, <2>1 DEF ReceivesBlocking, In, At, IsOpen
<1>3. CASE NetStep
  <2>1. CASE UseSocket
    <3>1. /\ th'["net"].at = "data" /\ SetBlocking("cli", TRUE)
          /\ sk'["cli"].fd = sk["cli"].fd /\ th'["main"] = th["main"]
          /\ overlap' = overlap
      BY <1>1, <2>1 DEF UseSocket, SetBlocking, Sk, Goto, Net, Step, NoHistory
    <3>2. IsOpen("cli") /\ ~Closing("main", "cli") /\ ~overlap
            => file'[sk["cli"].fd].blocks = TRUE
      <4> SUFFICES ASSUME IsOpen("cli"), ~Closing("main", "cli"), ~overlap
                   PROVE file'[sk["cli"].fd].blocks = TRUE
        OBVIOUS
      <4>1. Idling("cli")
        BY <1>1, <2>1 DEF Idling, At, Closing, UseSocket, Net, Step
      <4> QED
        BY <1>1, <3>1, <4>1, IdleIsMine, UnblockedSets
    <3> QED
      BY <3>1, <3>2 DEF ReceivesBlocking, In, At, IsOpen, Closing, ClosePcs
  <2>2. CASE ~UseSocket
    <3>1. \/ /\ th'["net"].at # "data"
             /\ (In("net", ClosePcs)' => th'["net"].back # "data")
          \/ UNCHANGED <<sk, file, th, overlap>>
      <4> USE <1>1
            DEF Net, Step, At, In, GoOn, Destroy, OnlyGoto, OnlyDestroy, Goto,
                GotoIf, CallDestroy, Posts, ClosePcs
      <4>1. CASE S4Steps("net")
        BY <4>1
          DEF S4Steps, S4Connect, S4Socket, S4Start, S4Wait, S4End,
              StartConnect, EndConnect, Thread0
      <4>2. CASE SpeakerProcess /\ ~(CloseAtExit \/ Join)
        BY <2>2, <4>2
          DEF SpeakerProcess, SpeakerTop, SpeakerLeaves, S4Result, NextAddress,
              GetDataEnds, ConnectionLost, Leave
      <4> QED
        BY <1>3, <4>1, <4>2, NetRuns
    <3> QED
      BY <3>1, <1>2 DEF ReceivesBlocking, At, Closing
  <2> QED BY <2>1, <2>2
<1>4. ASSUME InDestroy("net") PROVE ReceivesBlocking'
  <2>1. /\ In("net", ClosePcs) /\ th["net"].back # "data"
        /\ \/ /\ th'["net"].at \in {"close", "store"}
              /\ th'["net"].back = th["net"].back
           \/ th'["net"].at = th["net"].back
    BY <1>1, <1>4, DestroyMoves DEF InDestroy, Thread0, ReceivesBlocking
  <2>2. th["net"].back \notin ClosePcs
    BY <1>1, <2>1
      DEF ControlOK, NetControl, NetPcs, Programs, ClosePcs, SockTypeOK
  <2> QED
    BY <2>1, <2>2 DEF ReceivesBlocking, In, At, ClosePcs
<1>5. ASSUME InDestroy("main") PROVE ReceivesBlocking'
  <2>1. /\ In("main", ClosePcs) /\ th'["net"] = th["net"] /\ th["main"].on = "cli"
        /\ \/ /\ th'["main"].at \in {"close", "store"}
              /\ th'["main"].on = th["main"].on
           \/ ~(sk'["cli"].fd > 0)
    BY <1>1, <1>5, DestroyMoves DEF InDestroy, ControlOK, MainControl
  <2> QED
    BY <2>1 DEF ReceivesBlocking, In, At, ClosePcs, Closing, IsOpen
<1>6. CASE MainStep
  <2>1. /\ overlap' = overlap /\ file' = file
        /\ Closing("main", "cli")' = Closing("main", "cli")
    BY <1>1, <1>6, MainMoves DEF ShuttersStay, NobodyShuts, Shutting, Closing
  <2>2. CASE th'["net"] = th["net"] /\ sk' = sk
    BY <1>2, <2>1, <2>2
  <2>3. CASE th'["net"] = th["net"] /\ sk' # sk
    <3>1. sk'["cli"].fd = -1
      BY <1>1, <1>6, <2>3, MainMoves DEF NewSk
    <3> QED
      BY <2>3, <3>1 DEF ReceivesBlocking, In, At, IsOpen
  <2>4. CASE th'["net"] = Thread0("top")
    BY <2>4 DEF ReceivesBlocking, Thread0, In, At, ClosePcs
  <2> QED
    BY <1>6, <2>2, <2>3, <2>4, MainMoves
<1>7. CASE Environment \/ SelectFails
  <2>1. UNCHANGED <<sk, th, overlap>>
    BY <1>7
      DEF Environment, CtrlC, OthersOpen, OthersClose, KernelDials, PeerCloses,
          Outside, SelectFails, Step, NoHistory
  <2> QED
    BY <1>2, <1>7, <2>1, OthersKeep DEF Closing
<1>8. CASE UNCHANGED phoneVars
  BY <1>2, <1>8 DEF phoneVars, progVars, sockVars, Closing
<1> QED
  BY <1>1, <1>3, <1>4, <1>5, <1>6, <1>7, <1>8
    DEF PhoneNext, ProgNext, ThreadMoves, NetStep, MainStep

-----------------------------------------------------------------------------

(*****************************************************************************)
(* The theorems on the use of the sockets                                    *)
(*****************************************************************************)

\* The invariant of the programs' use of the sockets.
UseInv == SockInv /\ ServesInv /\ OldUsesInv /\ ReceivesInv

\* It is inductive.
LEMMA UseInvariant == PhoneSpec => []UseInv
<1>1. PhoneInit => UseInv
  <2> SUFFICES ASSUME PhoneInit PROVE ServesInv /\ OldUsesInv /\ ReceivesInv
    BY InitSock DEF UseInv
  <2>1. /\ \A o \in Obj : ~IsOpen(o)
        /\ th["net"].at \in {"top", "create", "done"}
    BY DEF PhoneInit, ProgInit, SockInit, Thread0, Thread, IsOpen
  <2>2. ~IsOpen("cli") /\ ~IsOpen("acc")
    BY <2>1 DEF Obj, TcpObj
  <2> QED
    BY <2>1, <2>2
      DEF ServesInv, Serves, OldUsesInv, OldUses, ReceivesInv,
          ReceivesBlocking, At, In, ClosePcs
<1>2. UseInv /\ [PhoneNext]_phoneVars => UseInv'
  BY SockStep, ServesStep, OldUsesStep, ReceivesStep DEF UseInv
<1> QED
  BY <1>1, <1>2, PTL DEF PhoneSpec

\* No torn frame: when the server is about to send a frame to a client it still
\* serves, all pieces of the last one were sent, for every number of pieces.
THEOREM SockNoTornFrame == PhoneSpec => []NoTornFrame
<1>1. UseInv => NoTornFrame
  <2> SUFFICES ASSUME UseInv, At("net", "serve") PROVE Runs("server")
    BY DEF UseInv, ServesInv, Serves, NoTornFrame
  <2> QED
    BY DEF UseInv, SockInv, ControlOK, NetControl, NetPcs, Programs, At, In,
          ClosePcs, Runs, SockTypeOK
<1> QED
  BY <1>1, UseInvariant, PTL

\* Blocking where used: the socket a thread receives from or sends to is in
\* blocking mode, which sendall and receiveall rely on, whatever the modes its
\* connect or drain went through before.
THEOREM SockBlocksInUse == PhoneSpec => []BlocksInUse
<1>1. UseInv => BlocksInUse
  <2> SUFFICES ASSUME UseInv PROVE BlocksInUse
    OBVIOUS
  <2>1. SockTypeOK /\ NetControl /\ program \in Programs
    BY DEF UseInv, SockInv, ControlOK, SockTypeOK
  <2>2. IsOpen("acc") /\ At("net", "send") => file[sk["acc"].fd].blocks
    <3>1. At("net", "send") => Runs("server")
      BY <2>1 DEF NetControl, NetPcs, Programs, At, In, ClosePcs, Runs
    <3> QED
      BY <3>1 DEF UseInv, ServesInv, Serves, At, In
  <2>3. IsOpen("cli") /\ At("net", "data") /\ ~Closing("main", "cli") /\ ~overlap
          => file[sk["cli"].fd].blocks
    <3>1. At("net", "data") => Runs("old") \/ HasSclient
      BY <2>1
        DEF NetControl, NetPcs, Programs, At, In, ClosePcs, Runs, HasSclient
    <3> QED
      BY <3>1
        DEF UseInv, OldUsesInv, OldUses, ReceivesInv, ReceivesBlocking, At, In
  <2> QED
    BY <2>2, <2>3 DEF BlocksInUse
<1> QED
  BY <1>1, UseInvariant, PTL
==============================================================================
