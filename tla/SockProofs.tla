------------------------------ MODULE SockProofs -----------------------------
(*****************************************************************************)
(* Theorems about the sockets of the five programs (Sock, SockCalls,         *)
(* SockPrograms and Phone): types, control, and who owns which descriptor.   *)
(*                                                                           *)
(* The properties NothingLost and ClosesOnlyItsOwn are not inductive: that a *)
(* descriptor is not forgotten depends on what every caller of an opening    *)
(* method has closed before, and that a close() closes the object's own on   *)
(* every thread's place in every destroy().  The invariant says both: where  *)
(* the threads of each program can be (ControlOK), what is open there        *)
(* (OpenWhen, PhoneTurns), and, as long as no two destroy() of one object    *)
(* overlap, an exact ownership of the table (Tidy).  The step is proved in   *)
(* two halves: each action of the programs is shown to have one of a few     *)
(* effects on the ownership (Quiet, Opens, Fails, EndP2p, AcceptZero), and   *)
(* each effect, as well as each step of a destroy(), to keep it.             *)
(*****************************************************************************)
EXTENDS Phone, NaturalsInduction, WellFoundedInduction, TLAPS

-----------------------------------------------------------------------------

(*****************************************************************************)
(* The descriptor table and the types of the sockets                         *)
(*****************************************************************************)

\* A free descriptor is found by its least number, as the kernel's socket() and
\* accept() do: Lowest, defined by CHOOSE, is a free number when the table is not
\* full.
LEMMA LowestFree ==
    ~TableFull => Lowest \in Fd /\ file[Lowest].is = "free"
<1> DEFINE S == {n \in Fd : file[n].is = "free"}
<1> SUFFICES ASSUME ~TableFull PROVE Lowest \in S
  OBVIOUS
<1>1. S # {} /\ S \subseteq Nat
  BY DEF TableFull, Fd
<1>4. Lowest = CHOOSE x \in S : \A y \in S : x <= y
  BY DEF Lowest, Min
<1> HIDE DEF S
<1>2. PICK m \in S : \A b \in S : ~(<<b, m>> \in OpToRel(<, Nat))
  BY <1>1, NatLessThanWellFounded, WFMin
<1>3. \A b \in S : b < m => <<b, m>> \in OpToRel(<, Nat)
  BY <1>1 DEF OpToRel
<1>5. \A b \in S : ~(b < m)
  BY <1>2, <1>3
<1>6. \A b \in S : m <= b
  BY <1>1, <1>5
<1> QED
  BY <1>4, <1>6

\* The parts of SockTypeOK: the descriptor table and the objects, and where the
\* threads stand.
Posts ==
    [at : Labels, on : Obj, back : Labels, tries : 0 .. CloseTries,
     kept : BOOLEAN]
FileKinds == {"free", "stdin", "other", "fresh", "listen", "dgram",
                "dialing", "up", "refused", "gone"}
SocketsOK == file \in [Fd -> Files] /\ sk \in [Obj -> Sk]
ThreadsOK == th \in [Thread -> Posts]

\* A thread that returns to label l stands at a place of the model.
LEMMA Thread0Type ==
  ASSUME NEW l \in Labels PROVE Thread0(l) \in Posts
<1> "done" \in Labels /\ "cli" \in Obj /\ 0 \in 0..CloseTries
  BY CloseTriesAssumption DEF Labels, Obj, TcpObj
<1> QED
BY DEF Posts, Thread0

\* The ways the methods move a thread (a return, a branch, a destroy() entered,
\* left, or come to its close()) keep the threads at places of the model.
LEMMA ThreadSteps ==
  ASSUME ThreadsOK, NEW t \in Thread, NEW l \in Labels
  PROVE  /\ Goto(t, l) => ThreadsOK'
         /\ \A k \in BOOLEAN :
                th' = [th EXCEPT ![t].at = l, ![t].kept = k] => ThreadsOK'
         /\ \A o \in Obj : CallDestroy(t, o, l) => ThreadsOK'
         /\ EndDestroy(t) => ThreadsOK'
         /\ BeginClose(t) => ThreadsOK'
         /\ th' = [th EXCEPT ![t] = Thread0(l)] => ThreadsOK'
<1> USE DEF ThreadsOK, Posts
<1>0. "destroy" \in Labels /\ "close" \in Labels BY DEF Labels
<1>1. Goto(t, l) => ThreadsOK'
  BY DEF Goto
<1>2. ASSUME NEW k \in BOOLEAN, th' = [th EXCEPT ![t].at = l, ![t].kept = k]
      PROVE  ThreadsOK'
  BY <1>2
<1>3. ASSUME NEW o \in Obj, CallDestroy(t, o, l) PROVE ThreadsOK'
  BY <1>0, <1>3 DEF CallDestroy
<1>4. EndDestroy(t) => ThreadsOK'
  BY Thread0Type DEF EndDestroy
<1>5. ASSUME BeginClose(t) PROVE ThreadsOK'
  <2>1. CloseTries \in 0 .. CloseTries
    BY CloseTriesAssumption
  <2> QED
    BY <1>0, <1>5, <2>1 DEF BeginClose
<1>6. th' = [th EXCEPT ![t] = Thread0(l)] => ThreadsOK'
  BY Thread0Type
<1> QED
  BY <1>1, <1>2, <1>3, <1>4, <1>5, <1>6

\* A descriptor table stays one through a new file, a file that changes its
\* state, a mode set by fcntl and a close.
LEMMA FileSteps ==
  ASSUME NEW f \in [Fd -> Files], NEW n
  PROVE  /\ \A b \in BOOLEAN : Fcntl(f, n, b) \in [Fd -> Files]
         /\ \A k \in FileKinds : [f EXCEPT ![n].is = k] \in [Fd -> Files]
         /\ \A k \in FileKinds, o \in Obj \cup {"others"} :
                [f EXCEPT ![n] = New(k, o)] \in [Fd -> Files]
         /\ [f EXCEPT ![n] = Free] \in [Fd -> Files]
<1>1. \A b \in BOOLEAN : Fcntl(f, n, b) \in [Fd -> Files]
  BY DEF Files, Fcntl
<1>2. \A k \in FileKinds : [f EXCEPT ![n].is = k] \in [Fd -> Files]
  BY DEF Files, FileKinds
<1>3. \A k \in FileKinds, o \in Obj \cup {"others"} :
          [f EXCEPT ![n] = New(k, o)] \in [Fd -> Files]
  BY DEF Files, New, FileKinds
<1>4. [f EXCEPT ![n] = Free] \in [Fd -> Files]
  BY DEF Files, Free
<1> QED
  BY <1>1, <1>2, <1>3, <1>4

\* The objects stay objects through each assignment the methods of sock.cpp make.
LEMMA SkSteps ==
  ASSUME NEW s \in [Obj -> Sk], NEW o
  PROVE  /\ \A n \in Fd \cup {-1} : [s EXCEPT ![o].fd = n] \in [Obj -> Sk]
         /\ \A b \in BOOLEAN : [s EXCEPT ![o].blocks = b] \in [Obj -> Sk]
         /\ \A b \in BOOLEAN : [s EXCEPT ![o].connected = b] \in [Obj -> Sk]
         /\ \A b \in BOOLEAN : [s EXCEPT ![o].connecting = b] \in [Obj -> Sk]
         /\ \A b \in BOOLEAN : [s EXCEPT ![o].member = b] \in [Obj -> Sk]
         /\ \A n \in Fd \cup {-1}, b \in BOOLEAN :
                [s EXCEPT ![o].fd = n, ![o].blocks = b] \in [Obj -> Sk]
         /\ \A b, c \in BOOLEAN :
                [s EXCEPT ![o].connected = b, ![o].connecting = c] \in [Obj -> Sk]
<1> USE DEF Sk
<1>1. \A n \in Fd \cup {-1} : [s EXCEPT ![o].fd = n] \in [Obj -> Sk]
  OBVIOUS
<1>2. \A b \in BOOLEAN : [s EXCEPT ![o].blocks = b] \in [Obj -> Sk]
  OBVIOUS
<1>3. \A b \in BOOLEAN : [s EXCEPT ![o].connected = b] \in [Obj -> Sk]
  OBVIOUS
<1>4. \A b \in BOOLEAN : [s EXCEPT ![o].connecting = b] \in [Obj -> Sk]
  OBVIOUS
<1>5. \A b \in BOOLEAN : [s EXCEPT ![o].member = b] \in [Obj -> Sk]
  OBVIOUS
<1>6. \A n \in Fd \cup {-1}, b \in BOOLEAN :
          [s EXCEPT ![o].fd = n, ![o].blocks = b] \in [Obj -> Sk]
  OBVIOUS
<1>7. \A b, c \in BOOLEAN :
          [s EXCEPT ![o].connected = b, ![o].connecting = c] \in [Obj -> Sk]
  OBVIOUS
<1> QED
  BY <1>1, <1>2, <1>3, <1>4, <1>5, <1>6, <1>7

\* The operators that change the table and an object together: the opening of a
\* socket, with and without a mode, and fcntl's blocking mode.
LEMMA SocketSteps ==
  ASSUME SocketsOK, NEW o \in Obj, NEW b \in BOOLEAN
  PROVE  /\ SetBlocking(o, b) => SocketsOK'
         /\ \A k \in {"fresh", "dgram"} : OpenSocket(o, k) => SocketsOK'
         /\ OpenToConnect(o) => SocketsOK'
         /\ \A c \in BOOLEAN : sk' = Flags(o, b, c) => sk' \in [Obj -> Sk]
<1> USE DEF SocketsOK
<1>1. ASSUME SetBlocking(o, b) PROVE SocketsOK'
  BY <1>1, FileSteps, SkSteps DEF SetBlocking
<1>2. ASSUME NEW k \in {"fresh", "dgram"}, OpenSocket(o, k) PROVE SocketsOK'
  <2>1. CASE TableFull
    <3>1. file' = file /\ sk' = [sk EXCEPT ![o].fd = -1]
      BY <1>2, <2>1 DEF OpenSocket
    <3> QED
      BY <3>1 DEF Sk
  <2>2. CASE ~TableFull
    <3>1. k \in FileKinds /\ Lowest \in Fd \cup {-1} /\ o \in Obj \cup {"others"}
      BY <2>2, LowestFree DEF FileKinds
    <3>2. /\ file' = [file EXCEPT ![Lowest] = New(k, o)]
          /\ sk' = [sk EXCEPT ![o].fd = Lowest]
      BY <1>2, <2>2 DEF OpenSocket
    <3> HIDE DEF SocketsOK
    <3>3. file' \in [Fd -> Files]
      BY <3>1, <3>2, FileSteps DEF SocketsOK
    <3>4. sk' \in [Obj -> Sk]
      BY <3>1, <3>2, SkSteps DEF SocketsOK
    <3> QED
      BY <3>3, <3>4 DEF SocketsOK
  <2> QED BY <2>1, <2>2
<1>3. ASSUME OpenToConnect(o) PROVE SocketsOK'
  <2>1. CASE TableFull
    <3>1. sk[o].blocks \in BOOLEAN BY DEF Sk
    <3> QED
      BY <1>3, <2>1, <3>1, SkSteps DEF OpenToConnect
  <2>2. CASE ~TableFull
    BY <1>3, <2>2, FileSteps, SkSteps, LowestFree DEF OpenToConnect, FileKinds
  <2> QED BY <2>1, <2>2
<1>4. ASSUME NEW c \in BOOLEAN, sk' = Flags(o, b, c) PROVE sk' \in [Obj -> Sk]
  BY <1>4 DEF Flags, Sk
<1> QED
  BY <1>1, <1>2, <1>3, <1>4

\* What each assignment to an object's flags and number gives: the form in which
\* the lemmas on whole actions cite SkSteps.
LEMMA FieldTypes ==
  ASSUME SocketsOK, NEW o, NEW b \in BOOLEAN, NEW c \in BOOLEAN
  PROVE  /\ sk' = sk => sk' \in [Obj -> Sk]
         /\ sk' = [sk EXCEPT ![o].connecting = b] => sk' \in [Obj -> Sk]
         /\ sk' = [sk EXCEPT ![o].connected = b] => sk' \in [Obj -> Sk]
         /\ sk' = [sk EXCEPT ![o].member = b] => sk' \in [Obj -> Sk]
         /\ sk' = [sk EXCEPT ![o].connected = b, ![o].connecting = c]
              => sk' \in [Obj -> Sk]
         /\ \A n \in Fd \cup {-1} :
                sk' = [sk EXCEPT ![o].fd = n] => sk' \in [Obj -> Sk]
         /\ \A n \in Fd \cup {-1} :
                sk' = [sk EXCEPT ![o].fd = n, ![o].connected = b]
                  => sk' \in [Obj -> Sk]
         /\ \A n \in Fd \cup {-1} :
                sk' = [sk EXCEPT ![o].member = b, ![o].fd = n]
                  => sk' \in [Obj -> Sk]
<1>s. sk \in [Obj -> Sk]
  BY DEF SocketsOK
<1>0. sk' = sk => sk' \in [Obj -> Sk]
  BY <1>s
<1>1. ASSUME sk' = [sk EXCEPT ![o].connecting = b] PROVE sk' \in [Obj -> Sk]
  <2>1. [sk EXCEPT ![o].connecting = b] \in [Obj -> Sk]
    BY <1>s, SkSteps, Zenon
  <2> QED
    BY <1>1, <2>1, Zenon
<1>2. ASSUME sk' = [sk EXCEPT ![o].connected = b] PROVE sk' \in [Obj -> Sk]
  <2>1. [sk EXCEPT ![o].connected = b] \in [Obj -> Sk]
    BY <1>s, SkSteps, Zenon
  <2> QED
    BY <1>2, <2>1, Zenon
<1>3. ASSUME sk' = [sk EXCEPT ![o].member = b] PROVE sk' \in [Obj -> Sk]
  <2>1. [sk EXCEPT ![o].member = b] \in [Obj -> Sk]
    BY <1>s, SkSteps, Zenon
  <2> QED
    BY <1>3, <2>1, Zenon
<1> USE DEF SocketsOK, Sk
<1>4. ASSUME sk' = [sk EXCEPT ![o].connected = b, ![o].connecting = c]
      PROVE  sk' \in [Obj -> Sk]
  BY <1>4
<1>5. ASSUME NEW n \in Fd \cup {-1}, sk' = [sk EXCEPT ![o].fd = n]
      PROVE  sk' \in [Obj -> Sk]
  BY <1>5
<1>6. ASSUME NEW n \in Fd \cup {-1},
             sk' = [sk EXCEPT ![o].fd = n, ![o].connected = b]
      PROVE  sk' \in [Obj -> Sk]
  BY <1>6
<1>7. ASSUME NEW n \in Fd \cup {-1},
             sk' = [sk EXCEPT ![o].member = b, ![o].fd = n]
      PROVE  sk' \in [Obj -> Sk]
  BY <1>7
<1> QED
  BY <1>0, <1>1, <1>2, <1>3, <1>4, <1>5, <1>6, <1>7

\* A connect that is started leaves the descriptor dialling or up, and
\* _connecting accordingly.
LEMMA DialTypes ==
  ASSUME SocketsOK,
         \E r \in {"dialing", "up"} :
             /\ file' = [file EXCEPT ![sk["cli"].fd].is = r]
             /\ sk' = [sk EXCEPT !["cli"].connecting = (r = "dialing")]
  PROVE  SocketsOK'
<3>1. PICK r \in {"dialing", "up"} :
          /\ file' = [file EXCEPT ![sk["cli"].fd].is = r]
          /\ sk' = [sk EXCEPT !["cli"].connecting = (r = "dialing")]
  OBVIOUS
<3>2. file' \in [Fd -> Files]
  BY <3>1, FileSteps DEF SocketsOK, FileKinds
<3> DEFINE dialing == (r = "dialing")
<3>3. dialing \in BOOLEAN /\ sk' = [sk EXCEPT !["cli"].connecting = dialing]
  BY <3>1
<3> HIDE DEF dialing
<3>4. sk' \in [Obj -> Sk]
  BY <3>3, FieldTypes
<3> QED
  BY <3>2, <3>4 DEF SocketsOK

\* The sockets stay typed through the steps inside a method: connecting a
\* client, connecting raw and joining a group.
LEMMA SocketsMethods ==
  ASSUME SockTypeOK, InMethod
  PROVE  SocketsOK'
<1>0. SocketsOK /\ th["net"] \in Posts /\ \A o \in Obj : sk[o].blocks \in BOOLEAN
  BY DEF SockTypeOK, SocketsOK, Posts, Thread, Sk
<1>x. th["net"].kept \in BOOLEAN BY <1>0 DEF Posts
<1>o. /\ "cli" \in Obj /\ "grp" \in Obj /\ "dgram" \in FileKinds
      /\ "dialing" \in FileKinds /\ "up" \in FileKinds
  BY DEF Obj, TcpObj, FileKinds
<1>1. CASE S4Socket("net") \/ RawSocket("net")
  BY <1>0, <1>o, <1>1, SocketSteps DEF S4Socket, RawSocket
<1>2. CASE S4Start("net") \/ RawStart("net")
  <2>1. CASE UNCHANGED <<file, sk>>
    BY <1>0, <2>1 DEF SocketsOK
  <2>2. CASE \E r \in {"dialing", "up"} :
                 /\ file' = [file EXCEPT ![sk["cli"].fd].is = r]
                 /\ sk' = [sk EXCEPT !["cli"].connecting = (r = "dialing")]
    BY <1>0, <2>2, DialTypes
  <2> QED
    BY <1>2, <2>1, <2>2 DEF S4Start, RawStart, StartConnect
<1>3. CASE S4Wait("net") \/ RawWait("net")
  <2> DEFINE answer == ~Writable("cli")
  <2>1. answer \in BOOLEAN
    OBVIOUS
  <2>2. UNCHANGED file /\ \/ sk' = sk
                          \/ sk' = [sk EXCEPT !["cli"].connecting = FALSE]
                          \/ sk' = [sk EXCEPT !["cli"].connecting = answer]
    BY <1>3 DEF S4Wait, RawWait
  <2> HIDE DEF answer
  <2> QED
    BY <1>0, <2>1, <2>2, FieldTypes DEF SocketsOK
<1>4. CASE S4End("net") \/ RawEnd("net")
  BY <1>0, <1>x, <1>o, <1>4, SocketSteps DEF S4End, RawEnd, EndConnect
<1>5. CASE JoinGroup("net")
  BY <1>0, <1>o, <1>5, SocketSteps DEF JoinGroup
<1>6. CASE BecomeMember("net") \/ S4Connect("net")
  BY <1>0, <1>6
    DEF BecomeMember, SocketsOK, S4Connect, OnlyGoto, OnlyDestroy, Sk
<1> QED
  BY <1>1, <1>2, <1>3, <1>4, <1>5, <1>6
    DEF InMethod, S4Steps, RawSteps, JoinSteps

\* The sockets stay typed through the steps of the five programs.
LEMMA SocketsPrograms ==
  ASSUME SockTypeOK, SpeakerProcess \/ ServerProcess \/ OldProcess
  PROVE  SocketsOK'
<1>0. /\ SocketsOK
      /\ \A o \in Obj : sk[o].blocks \in BOOLEAN /\ sk[o].connected \in BOOLEAN
  BY DEF SockTypeOK, SocketsOK, Sk
<1>o. /\ "cli" \in Obj /\ "grp" \in Obj /\ "acc" \in Obj /\ "srv" \in Obj
      /\ {"up", "listen", "fresh"} \subseteq FileKinds
  BY DEF Obj, TcpObj, FileKinds
<1> USE DEF GoOn, Destroy, OnlyGoto, OnlyDestroy
<1>1. CASE SpeakerProcess
  <2>1. CASE UseSocket
    BY <1>0, <1>o, <2>1, SocketSteps DEF UseSocket
  <2>2. CASE UNCHANGED <<file, sk>>
    BY <1>0, <2>2 DEF SocketsOK
  <2> QED
    BY <1>1, <2>1, <2>2
      DEF SpeakerProcess, SpeakerTop, SpeakerLeaves, S4Result, NextAddress,
          GetDataEnds, ConnectionLost, CloseAtExit, Join
<1>2. CASE ServerProcess
  <2>1. CASE CreateListener
    BY <1>0, <1>o, <2>1, SocketSteps DEF CreateListener
  <2>2. CASE Listen
    <3>1. CASE file' = [file EXCEPT ![sk["srv"].fd].is = "listen"] /\ UNCHANGED sk
      BY <1>0, <1>o, <3>1, FileSteps DEF SocketsOK
    <3>2. CASE UNCHANGED <<file, sk>>
      BY <1>0, <3>2 DEF SocketsOK
    <3> QED
      BY <2>2, <3>1, <3>2 DEF Listen
  <2>3. CASE Accept
    <3>1. /\ file' = [file EXCEPT ![Lowest] = New("up", "acc")]
          /\ \/ sk' = [sk EXCEPT !["acc"].fd = Lowest, !["acc"].blocks = FALSE]
             \/ sk' = sk
          /\ Lowest \in Fd
      BY <2>3, LowestFree DEF Accept
    <3>2. file' \in [Fd -> Files]
      BY <1>0, <1>o, <3>1, FileSteps DEF SocketsOK
    <3>3. sk' \in [Obj -> Sk]
      BY <1>0, <3>1 DEF SocketsOK, Sk
    <3> QED
      BY <3>2, <3>3 DEF SocketsOK
  <2>4. CASE Accepted
    BY <1>0, <1>o, <2>4, SocketSteps DEF Accepted
  <2>5. CASE UNCHANGED <<file, sk>>
    BY <1>0, <2>5 DEF SocketsOK
  <2> QED
    BY <1>2, <2>1, <2>2, <2>3, <2>4, <2>5
      DEF ServerProcess, NoListener, BeginSend, SendSome, SendFails,
          ClientGone, ServerLeaves, ServerEnds
<1>3. CASE OldProcess
  <2>1. CASE OldTop \/ Check
    BY <1>0, <1>o, <2>1, <1>0
      DEF OldTop, Check, KnowPeer, HasPeer, SocketsOK, Sk
  <2>2. CASE DropGroup
    BY <1>0, <1>o, <2>2, SkSteps DEF DropGroup, SocketsOK
  <2>3. CASE UNCHANGED <<file, sk>>
    BY <1>0, <2>3 DEF SocketsOK
  <2> QED
    BY <1>3, <2>1, <2>2, <2>3 DEF OldProcess, OldLeaves, OldEnds, Hear, OldData
<1> QED
  BY <1>1, <1>2, <1>3

\* The sockets stay typed through the calls a tcp or udp program makes in any
\* order.
LEMMA SocketsCalls ==
  ASSUME SockTypeOK, TcpCalls("net") \/ UdpCalls("net")
  PROVE  SocketsOK'
<1>0. /\ SocketsOK
      /\ \A o \in Obj : sk[o].blocks \in BOOLEAN /\ sk[o].connected \in BOOLEAN
  BY DEF SockTypeOK, SocketsOK, Sk
<1>o. /\ {"cli", "grp", "p2p"} \subseteq Obj
      /\ {"up", "refused", "dialing"} \subseteq FileKinds
  BY DEF Obj, TcpObj, FileKinds
<1> USE DEF OnlyGoto, OnlyDestroy, Flags
<1>1. CASE \/ Create("net") \/ CreateUdp("net") \/ CreateP2p("net")
           \/ RawConnectSin("net")
  BY <1>0, <1>o, <1>1, SocketSteps
    DEF Create, CreateUdp, CreateP2p, RawConnectSin
<1>2. CASE SetMode("net")
  BY <1>0, <1>o, <1>2, SocketSteps DEF SetMode
<1>3. CASE TryConnect("net")
  <2> DEFINE table == Fcntl(file, sk["cli"].fd, sk["cli"].blocks)
  <2>1. table \in [Fd -> Files]
    BY <1>0, <1>o, FileSteps DEF SocketsOK
  <2>2. PICK r \in {"up", "refused", "dialing"} :
          /\ \/ file' = file \/ file' = table
             \/ file' = [table EXCEPT ![sk["cli"].fd].is = r]
          /\ \/ sk' = sk
             \/ sk' = [sk EXCEPT !["cli"].connecting = FALSE]
             \/ sk' = [sk EXCEPT !["cli"].connecting = (r = "dialing")]
    BY <1>3 DEF TryConnect
  <2> DEFINE answer == (r = "dialing")
  <2>3. answer \in BOOLEAN
    OBVIOUS
  <2> HIDE DEF table, answer
  <2>4. file' \in [Fd -> Files]
    <3>1. r \in FileKinds
      BY DEF FileKinds
    <3>2. [table EXCEPT ![sk["cli"].fd].is = r] \in [Fd -> Files]
      BY <2>1, <3>1, FileSteps
    <3> QED
      BY <1>0, <2>1, <2>2, <3>2 DEF SocketsOK
  <2>5. \/ sk' = sk
        \/ sk' = [sk EXCEPT !["cli"].connecting = FALSE]
        \/ sk' = [sk EXCEPT !["cli"].connecting = answer]
    BY <2>2 DEF answer
  <2>6. sk' \in [Obj -> Sk]
    BY <1>0, <2>3, <2>5, FieldTypes
  <2> QED
    BY <2>4, <2>6 DEF SocketsOK
<1>4. CASE SinStart("net")
  <2>1. CASE UNCHANGED <<file, sk>>
    BY <1>0, <2>1 DEF SocketsOK
  <2>2. CASE \E r \in {"dialing", "up"} :
                 /\ file' = [file EXCEPT ![sk["cli"].fd].is = r]
                 /\ sk' = [sk EXCEPT !["cli"].connecting = (r = "dialing")]
    BY <1>0, <1>o, <2>2, DialTypes
  <2> QED
    BY <1>4, <2>1, <2>2 DEF SinStart, StartConnect
<1>5. CASE Connect("net")
  <2>1. PICK found \in BOOLEAN : /\ sk' = [sk EXCEPT !["cli"].connecting = found]
                                 /\ UNCHANGED file
    BY <1>5 DEF Connect
  <2>2. sk' \in [Obj -> Sk]
    BY <1>0, <2>1, FieldTypes
  <2> QED
    BY <1>0, <2>1, <2>2 DEF SocketsOK
<1>6. CASE \/ Cancel("net") \/ IsReallyConnected("net") \/ SetConnected("net")
           \/ ConnectUdp("net") \/ SetRsin("net") \/ Drop("net")
  <2>1. /\ UNCHANGED file
        /\ \/ sk' = sk
           \/ \E o \in Obj : \/ sk' = [sk EXCEPT ![o].connecting = FALSE]
                             \/ sk' = [sk EXCEPT ![o].connected = TRUE]
                             \/ sk' = [sk EXCEPT ![o].member = FALSE]
                             \/ sk' = [sk EXCEPT ![o].connected = TRUE,
                                       ![o].connecting = FALSE]
                             \/ sk' = [sk EXCEPT ![o].connected = FALSE,
                                       ![o].connecting = FALSE]
    BY <1>6, <1>o
      DEF Cancel, IsReallyConnected, SetConnected, ConnectUdp, SetRsin, Drop
  <2> QED
    BY <1>0, <2>1, FieldTypes DEF SocketsOK
<1>7. CASE GCreate("net")
  <2>1. CASE TableFull
    BY <1>0, <1>7, <2>1 DEF GCreate, SocketsOK, Sk
  <2>2. CASE ~TableFull
    <3>1. /\ file' = [file EXCEPT ![Lowest] = New("dgram", "grp")]
          /\ sk' = [sk EXCEPT !["grp"].member = FALSE, !["grp"].fd = Lowest]
          /\ Lowest \in Fd
      BY <1>7, <2>2, LowestFree DEF GCreate
    <3>2. file' \in [Fd -> Files]
      BY <1>0, <1>o, <3>1, FileSteps DEF SocketsOK, FileKinds
    <3>3. sk' \in [Obj -> Sk]
      BY <1>0, <3>1, FieldTypes
    <3> QED
      BY <3>2, <3>3 DEF SocketsOK
  <2> QED BY <2>1, <2>2
<1>8. CASE EndP2p("net")
  <2>1. /\ file' = [file EXCEPT ![sk["p2p"].fd] = Free]
        /\ sk' = [sk EXCEPT !["p2p"].fd = -1]
    BY <1>8 DEF EndP2p
  <2>2. file' \in [Fd -> Files]
    BY <1>0, <2>1, FileSteps DEF SocketsOK
  <2>3. sk' \in [Obj -> Sk]
    BY <1>0, <2>1, FieldTypes
  <2> QED
    BY <2>2, <2>3 DEF SocketsOK
<1>9. CASE UNCHANGED <<file, sk>>
  BY <1>0, <1>9 DEF SocketsOK
<1> QED
  BY <1>1, <1>2, <1>3, <1>4, <1>5, <1>6, <1>7, <1>8, <1>9
    DEF TcpCalls, UdpCalls, RawConnect, I4Connect, DestroyCall, Returned,
        JoinCall

\* The sockets stay typed through a destroy(), its retries included.
LEMMA SocketsDestroy ==
  ASSUME SockTypeOK, NEW t \in Thread, Destroying(t)
  PROVE  SocketsOK'
<1>0. /\ SocketsOK
      /\ \A o \in Obj : sk[o].blocks \in BOOLEAN /\ sk[o].connected \in BOOLEAN
  BY DEF SockTypeOK, SocketsOK, Sk
<1>1. th[t].on \in Obj
  BY DEF SockTypeOK
<1>2. CASE DestroyTcp(t)
  <2>1. file' \in [Fd -> Files]
    BY <1>0, <1>1, <1>2, FileSteps DEF DestroyTcp, SocketsOK
  <2>2. sk' \in [Obj -> Sk]
    BY <1>0, <1>2, FieldTypes DEF DestroyTcp
  <2> QED
    BY <2>1, <2>2 DEF SocketsOK
<1>3. CASE Close(t)
  BY <1>0, <1>3, FileSteps DEF Close, SocketsOK
<1>4. CASE Store(t)
  <2> DEFINE o == th[t].on
  <2> DEFINE flag == (sk[o].connected /\ o # "grp")
  <2>1. flag \in BOOLEAN
    OBVIOUS
  <2>2. UNCHANGED file /\ sk' = [sk EXCEPT ![o].fd = -1, ![o].connected = flag]
    BY <1>4 DEF Store, Stored
  <2> HIDE DEF flag
  <2> QED
    BY <1>0, <2>1, <2>2, FieldTypes DEF SocketsOK
<1>5. CASE UNCHANGED <<file, sk>>
  BY <1>0, <1>5 DEF SocketsOK
<1> QED
  BY <1>2, <1>3, <1>4, <1>5 DEF Destroying, NotOpen, DestroyGroup

\* The sockets stay typed through what the main thread, the user interface, the
\* kernel, the peers and the rest of the process do.
LEMMA SocketsElse ==
  ASSUME SockTypeOK, Environment \/ TimerSlot \/ PlayerThread \/ SelectFails
  PROVE  SocketsOK'
<1>0. SocketsOK
  BY DEF SockTypeOK, SocketsOK
<1>o. {"up", "refused", "gone", "other"} \subseteq FileKinds
  BY DEF FileKinds
<1>1. CASE OthersOpen
  BY <1>0, <1>o, <1>1, FileSteps DEF OthersOpen, Outside, SocketsOK
<1>2. ASSUME NEW n \in Fd, OthersClose(n) \/ KernelDials(n) \/ PeerCloses(n)
      PROVE  SocketsOK'
  BY <1>0, <1>o, <1>2, FileSteps
    DEF OthersClose, KernelDials, PeerCloses, Outside, SocketsOK
<1>3. CASE Construct
  BY <1>0, <1>3 DEF Construct, Main, SocketsOK, Sk
<1>4. CASE UNCHANGED <<file, sk>>
  BY <1>0, <1>4 DEF SocketsOK
<1> QED
  BY <1>1, <1>2, <1>3, <1>4
    DEF Environment, CtrlC, Outside, TimerSlot, PlayerThread, SelectFails,
        Search, SearchEnds, Restart, JoinThread, StartThread, SetAlive, Ui,
        Main, InitAo, Silent, LeavePlay, Quit

-----------------------------------------------------------------------------

(*****************************************************************************)
(* Control: where the threads of each program are                            *)
(*****************************************************************************)

\* Control: which labels each thread of a program can stand at, and what it can
\* be destroying.  Every proof about the programs starts from here: it is what
\* tells the steps of one program from those of another, and that the main thread
\* destroys only the sclient's socket, only to wait for the network thread.
ClosePcs == {"destroy", "close", "store"}
NetPcs == [p \in Programs |->
    CASE p \in {"speaker", "phone"} ->
            {"top", "dial", "socket", "connect", "wait", "unblock", "dialed",
             "failed", "use", "data", "lost", "done", "fault"}
      [] p = "server" ->
            {"create", "listen", "serve", "accepted", "send", "end", "done"}
      [] p = "old" ->
            {"top", "data", "drop", "join", "member", "joined", "raw",
             "rawstart", "rawwait", "rawend", "check", "use", "bye", "done",
             "fault"}
      [] p = "tcp" ->
            {"top", "sin", "rawend", "raw", "rawstart", "rawwait", "check",
             "dial", "socket", "connect", "wait", "unblock", "dialed", "fault"}
      [] p = "udp" -> {"top", "join", "member", "joined", "fault"}]
MainPcs == [p \in Programs |->
    CASE p = "speaker" -> {"play", "await", "done"}
      [] p = "phone" -> {"done", "begin", "init", "silent", "play", "quit",
                         "await", "fault"}
      [] OTHER -> {"done"}]
NetObjs == [p \in Programs |->
    CASE p \in {"speaker", "phone", "tcp"} -> {"cli"}
      [] p = "server" -> {"srv", "acc", "cli"}
      [] p \in {"old", "udp"} -> {"cli", "grp"}]
In(t, pcs) == th[t].at \in pcs
Destroys(t, o) == In(t, ClosePcs) /\ th[t].on = o

NetControl ==
    /\ In("net", NetPcs[program] \union ClosePcs)
    /\ In("net", ClosePcs) => th["net"].back \in NetPcs[program]
    /\ th["net"].on \in NetObjs[program]
MainControl ==
    /\ In("main", MainPcs[program] \union ClosePcs)
    /\ In("main", ClosePcs) => HasSclient /\ th["main"].back = "await"
    /\ th["main"].on = "cli"
StillTries == \A t \in Thread : At(t, "close") => th[t].tries >= 1
ControlOK == NetControl /\ MainControl /\ StillTries

\* The threads stay at places of the model when the network thread moves.
LEMMA ThreadsMove ==
  ASSUME SockTypeOK,
         \/ InMethod \/ SpeakerProcess \/ ServerProcess \/ OldProcess
         \/ TcpCalls("net") \/ UdpCalls("net")
  PROVE  ThreadsOK'
<1> DEFINE M(t) == \E l \in Labels : \/ Goto(t, l)
                                     \/ \E k \in BOOLEAN :
                                            th' = [th EXCEPT ![t].at = l,
                                                   ![t].kept = k]
                                     \/ \E o \in Obj : CallDestroy(t, o, l)
                                     \/ th' = [th EXCEPT ![t] = Thread0(l)]
<1>0. ThreadsOK /\ sk["cli"].blocks \in BOOLEAN
  BY DEF SockTypeOK, ThreadsOK, Posts, Sk, Obj, TcpObj
<1>1. ASSUME NEW t \in Thread, M(t) PROVE ThreadsOK'
  BY <1>0, <1>1, ThreadSteps
<1>2. th' = th => ThreadsOK'
  BY <1>0 DEF ThreadsOK
<1>o. /\ {"cli", "grp", "acc", "srv"} \subseteq Obj
      /\ {"net", "main"} \subseteq Thread
  BY DEF Obj, TcpObj, Thread
<1> USE DEF GoOn, Destroy, OnlyGoto, OnlyDestroy, GotoIf, EndConnect,
          StartConnect, Labels
<1>3. ASSUME InMethod, ~UNCHANGED th PROVE M("net")
  <2>1. CASE S4Steps("net")
    BY <1>0, <1>o, <1>3, <2>1
      DEF S4Steps, S4Connect, S4Socket, S4Start, S4Wait, S4End
  <2>2. CASE RawSteps("net")
    BY <1>0, <1>o, <1>3, <2>2
      DEF RawSteps, RawSocket, RawStart, RawWait, RawEnd
  <2>3. CASE JoinSteps("net")
    BY <1>0, <1>o, <1>3, <2>3 DEF JoinSteps, JoinGroup, BecomeMember
  <2> QED
    BY <1>3, <2>1, <2>2, <2>3 DEF InMethod
<1>4. ASSUME SpeakerProcess, ~UNCHANGED th PROVE M("net") \/ M("main")
  BY <1>0, <1>o, <1>4
    DEF SpeakerProcess, SpeakerTop, SpeakerLeaves, S4Result, NextAddress,
        GetDataEnds, ConnectionLost, CloseAtExit, Join, UseSocket
<1>5. ASSUME ServerProcess, ~UNCHANGED th PROVE M("net")
  <2>1. CASE CreateListener \/ Listen \/ NoListener
    BY <1>0, <1>o, <1>5, <2>1 DEF CreateListener, Listen, NoListener
  <2>2. CASE Accept \/ Accepted
    BY <1>0, <1>o, <1>5, <2>2 DEF Accept, Accepted
  <2>3. CASE BeginSend \/ SendSome \/ SendFails
    BY <1>0, <1>o, <1>5, <2>3 DEF BeginSend, SendSome, SendFails
  <2>4. CASE ClientGone \/ ServerLeaves \/ ServerEnds
    BY <1>0, <1>o, <1>5, <2>4 DEF ClientGone, ServerLeaves, ServerEnds
  <2> QED
    BY <1>5, <2>1, <2>2, <2>3, <2>4 DEF ServerProcess
<1>6. ASSUME OldProcess, ~UNCHANGED th PROVE M("net")
  BY <1>0, <1>o, <1>6
    DEF OldProcess, OldTop, Check, DropGroup, OldLeaves, OldEnds, Hear, OldData
<1>7. ASSUME TcpCalls("net"), ~UNCHANGED th PROVE M("net")
  BY <1>0, <1>o, <1>7
    DEF TcpCalls, Create, SetMode, TryConnect, RawConnectSin, SinStart,
        RawConnect, I4Connect, Connect, Cancel, IsReallyConnected,
        SetConnected, DestroyCall, Returned, Return
<1>8. ASSUME UdpCalls("net"), ~UNCHANGED th PROVE M("net")
  BY <1>0, <1>o, <1>8
    DEF UdpCalls, CreateUdp, ConnectUdp, SetRsin, GCreate, JoinCall, Drop,
        CreateP2p, EndP2p, DestroyCall, Returned, Return
<1> QED
  BY <1>1, <1>2, <1>3, <1>4, <1>5, <1>6, <1>7, <1>8, <1>o

\* And through a destroy(), by either thread: a close() that failed is retried
\* only while tries are left.
LEMMA ThreadsDestroy ==
  ASSUME SockTypeOK, StillTries, NEW t \in Thread, Destroying(t)
  PROVE  ThreadsOK'
<1>0. ThreadsOK /\ "done" \in Labels
  BY DEF SockTypeOK, ThreadsOK, Posts, Labels
<1>1. CASE NotOpen(t) \/ DestroyTcp(t) \/ DestroyGroup(t) \/ Store(t)
  BY <1>0, <1>1, ThreadSteps DEF NotOpen, DestroyTcp, DestroyGroup, Store
<1>2. CASE Close(t)
  <2>1. CASE \E l \in Labels : Goto(t, l)
    BY <1>0, <2>1, ThreadSteps
  <2>2. CASE th' = [th EXCEPT ![t].tries = TriesLeft(t),
                              ![t].at = IF TriesLeft(t) > 0 THEN "close" ELSE "store"]
    <3>1. th[t].tries \in 1 .. CloseTries
      BY <1>0, <1>2 DEF ThreadsOK, Posts, StillTries, Close
    <3>2. TriesLeft(t) \in 0 .. CloseTries
      <4>1. \A n \in 1 .. CloseTries : n - 1 \in 0 .. CloseTries
        BY CloseTriesAssumption
      <4> QED
        BY <3>1, <4>1 DEF TriesLeft
    <3> DEFINE left == TriesLeft(t)
               next == IF TriesLeft(t) > 0 THEN "close" ELSE "store"
    <3>a. next \in Labels
      BY DEF Labels
    <3>3. /\ left \in 0 .. CloseTries
          /\ th' = [th EXCEPT ![t].tries = left, ![t].at = next]
      BY <2>2, <3>2
    <3> HIDE DEF left, next
    <3> QED
      BY <1>0, <3>a, <3>3 DEF ThreadsOK, Posts
  <2> QED
    BY <1>2, <2>1, <2>2 DEF Close, Labels
<1> QED
  BY <1>1, <1>2 DEF Destroying

\* How a step of the network thread that is outside every destroy() moves it: to
\* a label, keeping or setting kept or starting afresh, or into a destroy().
NetTo(labels) ==
    \/ \E l \in labels :
           /\ \/ th' = [th EXCEPT !["net"].at = l]
              \/ (\E k : th' = [th EXCEPT !["net"].at = l, !["net"].kept = k])
              \/ th' = [th EXCEPT !["net"] = Thread0(l)]
    \/ \E l \in labels, o \in NetObjs[program] : CallDestroy("net", o, l)

\* Such a move, to a label of the thread's own program, keeps the control.
LEMMA NetToControl ==
  ASSUME SockTypeOK, ControlOK, UNCHANGED program, NetTo(NetPcs[program])
  PROVE  ControlOK'
<1> USE DEF ControlOK, NetControl, MainControl, StillTries, At, In, ClosePcs,
          HasSclient
<1>0. /\ th \in [Thread -> Posts] /\ program' = program
      /\ "net" \in Thread /\ "main" \in Thread
  BY DEF SockTypeOK, Posts, Thread
<1>1. program \in Programs
  BY DEF SockTypeOK
<1>2. "cli" \in NetObjs[program] /\ "close" \notin NetPcs[program]
  BY <1>1 DEF NetObjs, NetPcs, Programs
<1>3. CASE \E l \in NetPcs[program] :
               \/ th' = [th EXCEPT !["net"].at = l]
               \/ \E k : th' = [th EXCEPT !["net"].at = l, !["net"].kept = k]
  <2>1. PICK l \in NetPcs[program] :
            /\ th'["main"] = th["main"] /\ th'["net"].on = th["net"].on
            /\ th'["net"].at = l
    BY <1>0, <1>3 DEF Posts, Thread
  <2>2. l \notin ClosePcs
    BY <2>1, <1>1 DEF NetPcs, Programs
  <2> QED
    BY <1>0, <1>2, <2>1, <2>2 DEF Thread
<1>4. CASE \E l \in NetPcs[program] : th' = [th EXCEPT !["net"] = Thread0(l)]
  <2>1. PICK l \in NetPcs[program] :
            /\ th'["main"] = th["main"] /\ th'["net"].on = "cli"
            /\ th'["net"].at = l
    BY <1>0, <1>4 DEF Posts, Thread, Thread0
  <2>2. l \notin ClosePcs
    BY <2>1, <1>1 DEF NetPcs, Programs
  <2> QED
    BY <1>0, <1>2, <2>1, <2>2 DEF Thread
<1>5. CASE \E l \in NetPcs[program], o \in NetObjs[program] :
               CallDestroy("net", o, l)
  <2>1. PICK l \in NetPcs[program], o \in NetObjs[program] :
           /\ th'["main"] = th["main"] /\ th'["net"].on = o
           /\ th'["net"].at = "destroy" /\ th'["net"].back = l
    BY <1>0, <1>5 DEF Posts, Thread, CallDestroy
  <2> QED
    BY <1>0, <1>2, <2>1 DEF Thread
<1> QED
  BY <1>3, <1>4, <1>5 DEF NetTo

\* The steps of the network thread outside a destroy(): in a method, or in the
\* code of its program.
NetStep ==
  \/ InMethod \/ ServerProcess \/ OldProcess \/ AnyProgram
  \/ SpeakerProcess /\ ~(CloseAtExit \/ Join)

\* Each of them is such a move, to a label of the program that runs: no program
\* can be carried into the code of another.
LEMMA NetSteps ==
  ASSUME SockTypeOK, ControlOK, NetStep, ~UNCHANGED th
  PROVE  NetTo(NetPcs[program]) /\ UNCHANGED program
<1>0. th["net"].at \in NetPcs[program] \union ClosePcs /\ program \in Programs
  BY DEF ControlOK, NetControl, In, SockTypeOK
<1> USE DEF NetTo, Net, Step, At, GoOn, Destroy, OnlyGoto, OnlyDestroy, GotoIf,
          Goto, EndConnect, StartConnect, HasSclient, Programs, ClosePcs
<1>4. CASE SpeakerProcess /\ ~(CloseAtExit \/ Join)
  BY <1>0, <1>4
    DEF SpeakerProcess, SpeakerTop, SpeakerLeaves, S4Result, NextAddress,
        GetDataEnds, ConnectionLost, UseSocket, Leave, NetPcs, NetObjs
<1>5. CASE ServerProcess
  BY <1>0, <1>5
    DEF ServerProcess, CreateListener, Listen, Accept, Accepted, NoListener,
        BeginSend, SendSome, SendFails, ClientGone, ServerLeaves, ServerEnds,
        NetPcs, NetObjs
<1>6. CASE OldProcess
  <2>0. program = "old" \/ Net("bye") \/ Net("drop")
    BY <1>6
      DEF Runs, OldProcess, OldTop, Check, DropGroup, OldLeaves, OldEnds, Hear,
          OldData
  <2>p. program = "old"
    BY <1>0, <2>0 DEF NetPcs
  <2> NetPcs[program] = {"top", "data", "drop", "join", "member", "joined", "raw",
             "rawstart", "rawwait", "rawend", "check", "use", "bye", "done",
             "fault"} /\ NetObjs[program] = {"cli", "grp"}
    BY <2>p DEF NetPcs, NetObjs
  <2>1. CASE OldTop \/ OldLeaves \/ OldEnds
    BY <1>0, <2>1 DEF OldTop, OldLeaves, OldEnds, Leave
  <2>2. CASE Check \/ DropGroup
    BY <1>0, <2>2 DEF Check, DropGroup
  <2>3. CASE Hear \/ OldData
    BY <1>0, <2>3 DEF Hear, OldData
  <2> QED
    BY <1>6, <2>1, <2>2, <2>3 DEF OldProcess
<1>7. CASE InMethod
  <2>0. UNCHANGED program
    BY <1>7 DEF InMethod
  <2>1. CASE S4Steps("net")
    BY <1>0, <2>0, <2>1
      DEF S4Steps, S4Connect, S4Socket, S4Start, S4Wait, S4End, NetPcs, NetObjs
  <2>2. CASE RawSteps("net")
    <3>1. th["net"].at \in {"raw", "rawstart", "rawwait", "rawend"}
      BY <2>2 DEF RawSteps, RawSocket, RawStart, RawWait, RawEnd
    <3>2. program \in {"old", "tcp"}
      BY <1>0, <3>1 DEF NetPcs
    <3>3. {"check", "rawstart", "rawwait", "rawend"} \subseteq NetPcs[program]
      BY <3>2 DEF NetPcs
    <3> QED
      BY <1>0, <2>0, <2>2, <3>3
        DEF RawSteps, RawSocket, RawStart, RawWait, RawEnd
  <2>3. CASE JoinSteps("net")
    <3>1. th["net"].at \in {"join", "member"}
      BY <2>3 DEF JoinSteps, JoinGroup, BecomeMember
    <3>2. program \in {"old", "udp"}
      BY <1>0, <3>1 DEF NetPcs
    <3>3. /\ {"top", "member", "fault", "joined"} \subseteq NetPcs[program]
          /\ "grp" \in NetObjs[program]
      BY <3>2 DEF NetPcs, NetObjs
    <3> QED
      BY <1>0, <2>0, <2>3, <3>3 DEF JoinSteps, JoinGroup, BecomeMember
  <2> QED
    BY <1>7, <2>1, <2>2, <2>3 DEF InMethod
<1>8. CASE AnyProgram
  <2>0. UNCHANGED program
    BY <1>8 DEF AnyProgram
  <2>1. CASE program = "tcp" /\ TcpCalls("net")
    <3>1. /\ {"top", "sin", "rawend", "raw", "dial",
              "unblock"} \subseteq NetPcs[program]
          /\ "cli" \in NetObjs[program]
      BY <2>1 DEF NetPcs, NetObjs
    <3> QED
      BY <1>0, <2>0, <2>1, <3>1
        DEF TcpCalls, Create, SetMode, TryConnect, RawConnectSin, SinStart,
            RawConnect, I4Connect, Connect, Cancel, IsReallyConnected,
            SetConnected, DestroyCall, Returned, Return, Idle
  <2>2. CASE program = "udp" /\ UdpCalls("net")
    <3>1. /\ {"top", "join", "fault"} \subseteq NetPcs[program]
          /\ "grp" \in NetObjs[program]
      BY <2>2 DEF NetPcs, NetObjs
    <3> QED
      BY <1>0, <2>0, <2>2, <3>1
        DEF UdpCalls, CreateUdp, ConnectUdp, SetRsin, GCreate, JoinCall, Drop,
            CreateP2p, EndP2p, DestroyCall, Returned, Return, Idle
  <2> QED
    BY <1>8, <2>1, <2>2 DEF AnyProgram, Runs
<1> QED
  BY <1>4, <1>5, <1>6, <1>7, <1>8 DEF NetStep

\* A destroy() keeps the control: it returns where its caller said.
LEMMA ControlDestroying ==
  ASSUME SockTypeOK, ControlOK, NEW t \in Thread, Destroying(t), UNCHANGED program
  PROVE  ControlOK'
<1>0. /\ th \in [Thread -> Posts] /\ program \in Programs
      /\ "net" \in Thread /\ "main" \in Thread
  BY DEF SockTypeOK, Posts, Thread
<1>1. /\ "cli" \in NetObjs[program] /\ NetPcs[program] \cap ClosePcs = {}
      /\ "await" \notin ClosePcs
  BY <1>0 DEF NetObjs, NetPcs, Programs, ClosePcs
<1>2. th[t].at \in ClosePcs
  BY DEF Destroying, NotOpen, DestroyTcp, DestroyGroup, Close, Store, At,
        ClosePcs
<1>3. \A u \in Thread : u # t => th'[u] = th[u]
  BY <1>0
    DEF Destroying, NotOpen, DestroyTcp, DestroyGroup, Close, Store,
        BeginClose, EndDestroy, Goto
<1>4. CASE NotOpen(t) \/ Store(t)
  <2>1. th'[t].at = th[t].back /\ th'[t].on = "cli"
    BY <1>0, <1>4 DEF NotOpen, Store, EndDestroy, Thread0, Posts
  <2>2. "await" \in MainPcs[program] \/ ~HasSclient
    BY <1>0 DEF MainPcs, HasSclient
  <2> QED
    BY <1>0, <1>1, <1>2, <1>3, <2>1, <2>2
      DEF ControlOK, NetControl, MainControl, StillTries, In, At, HasSclient,
          Thread, ClosePcs
<1>5. CASE DestroyTcp(t) \/ DestroyGroup(t) \/ Close(t)
  <2>1. /\ th'[t].at \in {"close", "store"} /\ th'[t].on = th[t].on
        /\ th'[t].back = th[t].back
    <3>1. CASE DestroyTcp(t) \/ DestroyGroup(t)
      BY <1>0, <3>1 DEF DestroyTcp, DestroyGroup, BeginClose, Posts
    <3>2. CASE Close(t) /\ Goto(t, "store")
      BY <1>0, <3>2 DEF Goto, Posts
    <3>3. CASE Close(t) /\ ~Goto(t, "store")
      <4>1. PICK l \in {"close", "store"} :
                th' = [th EXCEPT ![t].tries = TriesLeft(t), ![t].at = l]
        BY <3>3 DEF Close
      <4> QED
        BY <1>0, <4>1 DEF Posts
    <3> QED BY <1>5, <3>1, <3>2, <3>3
  <2>2. th'[t].at = "close" => th'[t].tries >= 1
    <3>1. CASE DestroyTcp(t) \/ DestroyGroup(t)
      <4>1. th'[t].tries = CloseTries
        BY <1>0, <3>1 DEF DestroyTcp, DestroyGroup, BeginClose, Posts
      <4> QED
        BY <4>1, CloseTriesAssumption
    <3>2. CASE Close(t)
      <4>1. th[t].tries - 1 > 0 => th[t].tries - 1 >= 1
        BY <1>0, CloseTriesAssumption DEF Posts
      <4> QED
        BY <1>0, <3>2, <4>1 DEF Close, Goto, TriesLeft, Posts
    <3> QED BY <1>5, <3>1, <3>2
  <2> QED
    BY <1>0, <1>1, <1>2, <1>3, <2>1, <2>2
      DEF ControlOK, NetControl, MainControl, StillTries, In, At, HasSclient,
          Thread, ClosePcs
<1> QED
  BY <1>4, <1>5 DEF Destroying

\* The main thread's steps keep the control: the ones that close at exit and
\* join, and the user interface and player thread of the phone.
LEMMA ControlMain ==
  ASSUME SockTypeOK, ControlOK, CloseAtExit \/ Join \/ TimerSlot \/ PlayerThread
  PROVE  ControlOK'
<1>0. /\ th \in [Thread -> Posts] /\ program \in Programs
      /\ "net" \in Thread /\ "main" \in Thread
  BY DEF SockTypeOK, Posts, Thread
<1> USE DEF ControlOK, NetControl, MainControl, StillTries, In, At, HasSclient,
          Thread, ClosePcs, Ui, Main, CallDestroy, Goto, Thread0
<1>1. CASE CloseAtExit \/ Join
  <2>1. th'["net"] = th["net"] /\ program' = program /\ th'["main"].on = "cli"
    BY <1>0, <1>1 DEF CloseAtExit, Join, Posts
  <2>2. \/ /\ program = "speaker" /\ th'["main"].at = "destroy"
           /\ th'["main"].back = "await"
        \/ th'["main"].at = "done"
    BY <1>0, <1>1 DEF CloseAtExit, Join, Runs, Posts
  <2>3. "done" \in MainPcs[program]
    BY <1>0 DEF MainPcs
  <2> QED
    BY <1>0, <2>1, <2>2, <2>3
<1>2. CASE TimerSlot \/ PlayerThread
  <2>0. program = "phone" /\ program' = program
    BY <1>2
      DEF TimerSlot, PlayerThread, Search, SearchEnds, Restart, JoinThread,
          StartThread, SetAlive, Construct, InitAo, Silent, LeavePlay, Quit
  <2>1. \/ th'["net"] = th["net"]
        \/ th'["net"].at = "top" /\ th'["net"].on = "cli"
    BY <1>0, <1>2
      DEF TimerSlot, PlayerThread, Search, SearchEnds, Restart, JoinThread,
          StartThread, SetAlive, Construct, InitAo, Silent, LeavePlay, Quit,
          Posts
  <2>2. /\ th'["main"].on = "cli"
        /\ \/ th'["main"] = th["main"]
           \/ th'["main"].at = "destroy" /\ th'["main"].back = "await"
           \/ th'["main"].at \in {"begin", "init", "play", "silent", "done",
                                  "fault", "quit"}
    BY <1>0, <1>2
      DEF TimerSlot, PlayerThread, Search, SearchEnds, Restart, JoinThread,
          StartThread, SetAlive, Construct, InitAo, Silent, LeavePlay, Quit,
          Posts
  <2>3. /\ {"begin", "init", "play", "silent", "done", "fault",
            "quit"} \subseteq MainPcs[program]
        /\ "cli" \in NetObjs[program] /\ "top" \in NetPcs[program]
    BY <2>0 DEF MainPcs, NetObjs, NetPcs, Programs
  <2> QED
    BY <1>0, <2>0, <2>1, <2>2, <2>3
<1> QED
  BY <1>1, <1>2

\* Every step keeps the control.
LEMMA ControlStep ==
  ASSUME SockTypeOK, ControlOK, [PhoneNext]_phoneVars
  PROVE  ControlOK'
<1>1. CASE UNCHANGED <<th, program>>
  BY <1>1
    DEF ControlOK, NetControl, MainControl, StillTries, In, At, HasSclient
<1>2. ASSUME NEW t \in Thread, InDestroy(t) PROVE ControlOK'
  BY <1>2, ControlDestroying DEF InDestroy
<1>3. CASE CloseAtExit \/ Join \/ TimerSlot \/ PlayerThread
  BY <1>3, ControlMain
<1>4. CASE NetStep /\ ~UNCHANGED th
  BY <1>4, NetSteps, NetToControl
<1>5. (\/ InMethod \/ SpeakerProcess \/ ServerProcess \/ OldProcess
         \/ AnyProgram) => UNCHANGED program
  BY DEF InMethod, AnyProgram, SpeakerProcess, SpeakerTop, SpeakerLeaves,
        S4Result, NextAddress, GetDataEnds, ConnectionLost, CloseAtExit, Join,
        UseSocket, Leave, Net, ServerProcess, CreateListener, Listen, Accept,
        Accepted, NoListener, BeginSend, SendSome, SendFails, ClientGone,
        ServerLeaves, ServerEnds, OldProcess, OldTop, Check, DropGroup,
        OldLeaves, OldEnds, Hear, OldData
<1> QED
  BY <1>1, <1>2, <1>3, <1>4, <1>5
    DEF NetStep, PhoneNext, ProgNext, ThreadMoves, Environment, CtrlC,
        OthersOpen, OthersClose, KernelDials, PeerCloses, Outside, SelectFails,
        phoneVars, progVars, sockVars

-----------------------------------------------------------------------------

(*****************************************************************************)
(* Type correctness                                                          *)
(*****************************************************************************)

\* Every step keeps the types; that a close() is entered with a try left is
\* needed for the type of the count that is left.
LEMMA TypeStep ==
  ASSUME SockTypeOK, ControlOK, [PhoneNext]_phoneVars
  PROVE  SockTypeOK'
<1>s. /\ SocketsOK /\ ThreadsOK /\ overlap \in BOOLEAN /\ foreign \in BOOLEAN
      /\ program \in Programs /\ alive \in BOOLEAN /\ part \in 0 .. FrameLen - 1
  BY DEF SockTypeOK, SocketsOK, ThreadsOK, Posts
<1>t. StillTries BY DEF ControlOK
<1>1. SocketsOK'
  <2>1. CASE UNCHANGED <<file, sk>>
    BY <1>s, <2>1 DEF SocketsOK
  <2> QED
  BY <1>s, <2>1, SocketsMethods, SocketsPrograms, SocketsCalls, SocketsDestroy,
     SocketsElse
    DEF PhoneNext, ProgNext, ThreadMoves, InDestroy, AnyProgram, phoneVars,
        progVars, sockVars
<1>2. ThreadsOK'
  <2>1. CASE UNCHANGED th
    BY <1>s, <2>1 DEF ThreadsOK
  <2>2. CASE TimerSlot \/ PlayerThread
    <3>1. /\ {"begin", "init", "top", "silent", "done", "fault", "quit", "await",
              "play"} \subseteq Labels
          /\ {"net", "main"} \subseteq Thread /\ "cli" \in Obj
      BY DEF Labels, Thread, Obj, TcpObj
    <3>2. CASE \E w \in BOOLEAN : InitAo(w)
      <4>1. Thread0("top") \in Posts
        BY <3>1, Thread0Type
      <4> QED
        BY <1>s, <3>1, <3>2, <4>1 DEF InitAo, ThreadsOK, Posts
    <3> QED
      BY <1>s, <2>1, <2>2, <3>1, <3>2, ThreadSteps
        DEF TimerSlot, PlayerThread, Search, SearchEnds, Restart, JoinThread,
            StartThread, SetAlive, Construct, Silent, LeavePlay, Quit, Ui, Main
  <2> QED
  BY <1>s, <1>t, <2>1, <2>2, ThreadsMove, ThreadsDestroy
    DEF PhoneNext, ProgNext, ThreadMoves, InDestroy, AnyProgram, phoneVars,
        progVars, sockVars, Environment, CtrlC, OthersOpen, OthersClose,
        KernelDials, PeerCloses, Outside, SelectFails
<1>m. (InMethod \/ AnyProgram) => UNCHANGED <<program, alive, part>>
  BY DEF InMethod, AnyProgram
<1>d. \A t \in Thread : InDestroy(t) => UNCHANGED <<program, alive, part>>
  BY DEF InDestroy
<1>sp. SpeakerProcess => UNCHANGED <<overlap, foreign, program, alive, part>>
  BY DEF SpeakerProcess, SpeakerTop, SpeakerLeaves, S4Result, NextAddress,
        GetDataEnds, ConnectionLost, CloseAtExit, Join, UseSocket, Leave, Net,
        Step, NoHistory
<1>se. ServerProcess
         => /\ UNCHANGED <<overlap, foreign, program, alive>>
            /\ (part' = part \/ part' = 0 \/ part' = (part + 1) % FrameLen)
  BY DEF Net, Step, NoHistory, ServerProcess, CreateListener, Listen, Accept,
        Accepted, NoListener, BeginSend, SendSome, SendFails, ClientGone,
        ServerLeaves, ServerEnds
<1>o. OldProcess => UNCHANGED <<overlap, foreign, program, alive, part>>
  BY DEF Net, Step, NoHistory, OldProcess, OldTop, Check, DropGroup, OldLeaves,
        Leave, OldEnds, Hear, OldData
<1>e. Environment
        => UNCHANGED <<overlap, foreign, program, part>> /\ alive' \in BOOLEAN
  BY <1>s
    DEF Environment, CtrlC, OthersOpen, OthersClose, KernelDials, PeerCloses,
        Outside
<1>p. TimerSlot \/ PlayerThread \/ SelectFails
        => UNCHANGED <<overlap, foreign, program, part>> /\ alive' \in BOOLEAN
  BY <1>s
    DEF TimerSlot, PlayerThread, Search, SearchEnds, Restart, JoinThread,
        StartThread, SetAlive, Step, NoHistory, Construct, Silent, LeavePlay,
        Quit, Ui, Main, InitAo, SelectFails
<1>h1. InMethod => UNCHANGED <<overlap, foreign>>
  BY DEF InMethod, S4Steps, S4Connect, S4Socket, S4Start, S4Wait, S4End,
        RawSteps, RawSocket, RawStart, RawWait, RawEnd, JoinSteps, JoinGroup,
        BecomeMember, Step, NoHistory
<1>h2. AnyProgram => UNCHANGED overlap /\ foreign' \in BOOLEAN
  BY <1>s
    DEF AnyProgram, Step, NoHistory, Idle, UdpCalls, CreateUdp, ConnectUdp,
        SetRsin, GCreate, JoinCall, Drop, CreateP2p, EndP2p, DestroyCall,
        Returned, TcpCalls, Create, SetMode, TryConnect, RawConnectSin,
        SinStart, RawConnect, I4Connect, Connect, Cancel, IsReallyConnected,
        SetConnected
<1>h3. \A t \in Thread :
           InDestroy(t) => overlap' \in BOOLEAN /\ foreign' \in BOOLEAN
  BY <1>s
    DEF InDestroy, Destroying, NotOpen, DestroyTcp, DestroyGroup, Close, Store,
        BeginClose, NoHistory
<1>x. UNCHANGED phoneVars => UNCHANGED <<overlap, foreign, program, alive, part>>
  BY DEF phoneVars, progVars, sockVars
<1>3. overlap' \in BOOLEAN /\ foreign' \in BOOLEAN
  BY <1>s, <1>sp, <1>se, <1>o, <1>e, <1>p, <1>h1, <1>h2, <1>h3, <1>x
    DEF PhoneNext, ProgNext, ThreadMoves
<1>4. program' \in Programs
  BY <1>s, <1>m, <1>d, <1>sp, <1>se, <1>o, <1>e, <1>p, <1>x
    DEF PhoneNext, ProgNext, ThreadMoves
<1>5. alive' \in BOOLEAN
  BY <1>s, <1>m, <1>d, <1>sp, <1>se, <1>o, <1>e, <1>p, <1>x
    DEF PhoneNext, ProgNext, ThreadMoves
<1>6. part' \in 0 .. FrameLen - 1
  <2>1. part' = part \/ part' = 0 \/ part' = (part + 1) % FrameLen
    BY <1>s, <1>m, <1>d, <1>sp, <1>se, <1>o, <1>e, <1>p, <1>x
      DEF PhoneNext, ProgNext, ThreadMoves
  <2>2. \A n \in 0 .. FrameLen - 1 :
            (n + 1) % FrameLen \in 0 .. FrameLen - 1 /\ 0 \in 0 .. FrameLen - 1
    BY FrameLenAssumption
  <2> QED
    BY <1>s, <2>1, <2>2
<1> QED
  BY <1>1, <1>2, <1>3, <1>4, <1>5, <1>6
    DEF SockTypeOK, SocketsOK, ThreadsOK, Posts

\* All five programs start typed, each at labels of its own.
LEMMA InitTypeControl == PhoneInit => SockTypeOK /\ ControlOK
<1> SUFFICES ASSUME PhoneInit PROVE SockTypeOK /\ ControlOK
  OBVIOUS
<1>1. SocketsOK
  <2>1. Free \in Files /\ New("stdin", "others") \in Files
    BY DEF Free, New, Files
  <2>2. file \in [Fd -> Files]
    BY <2>1 DEF PhoneInit, ProgInit, SockInit
  <2>3. sk \in [Obj -> Sk]
    BY DEF PhoneInit, ProgInit, SockInit, Sk
  <2> QED
    BY <2>2, <2>3 DEF SocketsOK
<1>2. PICK lab \in [Thread -> Labels] : th = [t \in Thread |-> Thread0(lab[t])]
  <2> DEFINE f == [t \in Thread |->
                        IF t = "main"
                        THEN (IF program = "speaker" THEN "play" ELSE "done")
                        ELSE CASE program = "server" -> "create"
                               [] program = "phone" -> "done"
                               [] OTHER -> "top"]
  <2>1. f \in [Thread -> Labels]
    BY DEF Labels
  <2>2. th = [t \in Thread |-> Thread0(f[t])]
    BY DEF PhoneInit, ProgInit
  <2> QED
    BY <2>1, <2>2
<1>3. ThreadsOK
  BY <1>2, Thread0Type DEF ThreadsOK
<1>4. SockTypeOK
  <2>1. 0 \in 0 .. FrameLen - 1
    BY FrameLenAssumption
  <2>2. /\ overlap \in BOOLEAN /\ foreign \in BOOLEAN /\ program \in Programs
        /\ alive \in BOOLEAN /\ part = 0
    BY DEF PhoneInit, ProgInit, SockInit
  <2> QED
    BY <1>1, <1>3, <2>1, <2>2 DEF SocketsOK, ThreadsOK, Posts, SockTypeOK
<1>5. /\ th["net"] = Thread0(IF program = "server" THEN "create"
                            ELSE IF program = "phone" THEN "done" ELSE "top")
      /\ th["main"] = Thread0(IF program = "speaker" THEN "play" ELSE "done")
      /\ Thread = {"net", "main"} /\ program \in Programs
  <2>0. Thread = {"net", "main"} /\ program \in Programs
    BY DEF Thread, PhoneInit, ProgInit
  <2> QED BY <2>0 DEF PhoneInit, ProgInit
<1>6. ControlOK
  BY <1>5
    DEF ControlOK, NetControl, MainControl, StillTries, In, At, HasSclient,
        ClosePcs, NetPcs, MainPcs, NetObjs, Programs, Thread0
<1> QED
  BY <1>4, <1>6

\* Type correctness: for every number of descriptors, of retries and of pieces a
\* frame is sent in, the tables, the flags and the threads keep their types,
\* through every call of sock.cpp and every step of the five programs.
THEOREM SockTypeCorrect == PhoneSpec => []SockTypeOK
<1>1. SockTypeOK /\ ControlOK /\ [PhoneNext]_phoneVars
        => (SockTypeOK /\ ControlOK)'
  BY TypeStep, ControlStep
<1> QED
  BY <1>1, InitTypeControl, PTL DEF PhoneSpec

-----------------------------------------------------------------------------

(*****************************************************************************)
(* Ownership of the descriptors                                              *)
(*****************************************************************************)

\* Ownership.  Mine: the descriptor an object's _sockfd names is one the object
\* opened.  KindsFit: the table's two fields agree on what is nobody's.  BackFits,
\* OpenWhen, PhoneTurns: what the caller of a destroy() and of an opening method
\* has seen to, for the classes open a new socket over an old number without
\* asking.  The phone's main thread starts the network thread only when the last
\* one has ended.
Mine(o) == file[sk[o].fd].by = o
KindsFit ==
    \A n \in Fd : /\ file[n].is = "free" <=> file[n].by = "none"
                  /\ file[n].is \in {"stdin", "other"} <=> file[n].by = "others"
BackFits(o, back) ==
    /\ back = "join" => o = "grp"
    /\ back = "create" => o = "srv"
    /\ back # "listen"
OpenWhen ==
    /\ At("net", "socket") => ~IsOpen("cli")
    /\ HasSclient /\ In("net", {"top", "done", "failed"}) => ~IsOpen("cli")
    /\ At("net", "join") => ~IsOpen("grp")
    /\ At("net", "create") => ~IsOpen("srv")
    /\ At("net", "listen") => IsOpen("srv")
    /\ In("net", ClosePcs) => BackFits(th["net"].on, th["net"].back)
PhoneTurns ==
    /\ Runs("phone") /\ In("main", {"done", "begin", "init", "silent", "fault"})
         => At("net", "done")
    /\ Runs("phone") /\ (ui = "start" \/ ~started) => At("main", "done")
    /\ In("main", {"begin", "init"}) => ~IsOpen("cli")

\* Tidy holds as long as no two destroy() overlapped: every descriptor of an
\* object is the one its _sockfd names, an object that is open owns what it names
\* unless its close() is done and -1 not stored yet, an object is closed by one
\* thread, whose close() had all its tries before it (none was refused), and
\* nobody has closed what is another's.  Number 0, "not open" to the
\* classes, is the exception.
Idling(o) == \A t \in Thread : ~(At(t, "store") /\ th[t].on = o)
Shutting == {"close", "store"}
Tidy ==
    /\ \A n \in Fd \ {0} : file[n].by \in Obj => sk[file[n].by].fd = n
    /\ \A o \in Obj : IsOpen(o) /\ Idling(o) => Mine(o)
    /\ \A t \in Thread : At(t, "store") /\ IsOpen(th[t].on) => ~Mine(th[t].on)
    /\ \A t \in Thread :
           In(t, Shutting) /\ th[t].on \in TcpObj => IsOpen(th[t].on)
    /\ \A t, u \in Thread : Closing(t, th[u].on) /\ Closing(u, th[u].on) => t = u
    /\ \A t \in Thread : At(t, "close") => th[t].tries = CloseTries
    /\ sk["p2p"].fd = 0 => file[0].by = "p2p"
    /\ ~foreign
OverlapsIn == overlap => HasSclient
SockInv ==
    /\ SockTypeOK /\ ControlOK /\ OverlapsIn /\ KindsFit /\ OpenWhen /\ PhoneTurns
    /\ (~overlap => Tidy)

\* What a step outside close() does to the ownership, of which there are few
\* kinds.  Quiet: it moves no descriptor between owners.  Opens: object o gets the
\* free number n.  Fails: o's socket could not be opened and it is left at -1.
NobodyShuts(t) == th[t].at \notin Shutting /\ th'[t].at \notin Shutting
ShuttersStay == \A t \in Thread : th'[t] = th[t] \/ NobodyShuts(t)
SameKind(n) ==
    \/ file'[n].is = file[n].is
    \/ {file[n].is, file'[n].is} \cap {"free", "stdin", "other"} = {}
Quiet == /\ \A o \in Obj : sk'[o].fd = sk[o].fd
         /\ \A n \in Fd : file'[n].by = file[n].by /\ SameKind(n)
         /\ ShuttersStay
         /\ UNCHANGED <<overlap, foreign>>
Opens(o, n) ==
   /\ n \in Fd /\ file[n].is = "free" /\ ~IsOpen(o) /\ NobodyShuts("net")
   /\ \A p \in Obj : sk'[p].fd = IF p = o THEN n ELSE sk[p].fd
   /\ \A m \in Fd \ {n} : file'[m] = file[m]
   /\ file'[n].by = o /\ file'[n].is \notin {"free", "stdin", "other"}
   /\ ShuttersStay
   /\ UNCHANGED <<overlap, foreign>>
Fails(o) ==
   /\ ~IsOpen(o) /\ NobodyShuts("net")
   /\ \A p \in Obj : sk'[p].fd = IF p = o THEN -1 ELSE sk[p].fd
   /\ file' = file
   /\ ShuttersStay
   /\ UNCHANGED <<overlap, foreign>>

-----------------------------------------------------------------------------

(*****************************************************************************)
(* The kinds of steps keep the ownership                                     *)
(*****************************************************************************)

\* fcntl changes no owner and no state of a file.
LEMMA FcntlModes ==
  ASSUME NEW f \in [Fd -> Files], NEW n, NEW b \in BOOLEAN
  PROVE  /\ Fcntl(f, n, b) \in [Fd -> Files]
         /\ \A m \in Fd :
                Fcntl(f, n, b)[m].is = f[m].is /\ Fcntl(f, n, b)[m].by = f[m].by
<1>1. Fcntl(f, n, b) \in [Fd -> Files]
  BY FileSteps
<1>2. \A m \in Fd :
          Fcntl(f, n, b)[m].is = f[m].is /\ Fcntl(f, n, b)[m].by = f[m].by
  BY DEF Fcntl, Files
<1> QED
  BY <1>1, <1>2

\* A quiet step keeps the ownership.
LEMMA QuietTidy ==
  ASSUME SockTypeOK, SockTypeOK', KindsFit, Quiet
  PROVE  (Tidy => Tidy') /\ KindsFit'
<1>0. 0 \in Fd
  BY MaxFdAssumption DEF Fd
<1>1. KindsFit'
  BY DEF KindsFit, Quiet, SameKind
<1> SUFFICES ASSUME Tidy PROVE Tidy'
  BY <1>1
<1>2. \A o \in Obj :
          IsOpen(o)' = IsOpen(o) /\ (sk[o].fd \in Fd => Mine(o)' = Mine(o))
  BY DEF Quiet, IsOpen, Mine
<1>3. \A t \in Thread : th'[t] = th[t] \/ NobodyShuts(t)
  BY DEF Quiet, ShuttersStay
<1>4. \A o \in Obj : IsOpen(o) => sk[o].fd \in Fd
  BY MaxFdAssumption DEF IsOpen, SockTypeOK, Sk, Fd
<1>t. \A t \in Thread : th[t].on \in Obj /\ th'[t].on \in Obj
  BY DEF SockTypeOK
<1>5. (\A n \in Fd \ {0} : file[n].by \in Obj => sk[file[n].by].fd = n)'
  BY DEF Quiet, Tidy
<1>6. (\A o \in Obj : IsOpen(o) /\ Idling(o) => Mine(o))'
  BY <1>2, <1>3, <1>4 DEF Tidy, Idling, NobodyShuts, Shutting, At
<1>7. (\A t \in Thread : At(t, "store") /\ IsOpen(th[t].on) => ~Mine(th[t].on))'
  BY <1>2, <1>3, <1>4, <1>t DEF Tidy, NobodyShuts, Shutting, At
<1>8. (\A t \in Thread :
           In(t, Shutting) /\ th[t].on \in TcpObj => IsOpen(th[t].on))'
  BY <1>2, <1>3, <1>t DEF Tidy, NobodyShuts, Shutting, In
<1>9. (\A t, u \in Thread :
           Closing(t, th[u].on) /\ Closing(u, th[u].on) => t = u)'
  BY <1>3, <1>t DEF Tidy, NobodyShuts, Shutting, Closing
<1>10. (\A t \in Thread : At(t, "close") => th[t].tries = CloseTries)'
  BY <1>3 DEF Tidy, NobodyShuts, Shutting, At
<1>11. (sk["p2p"].fd = 0 => file[0].by = "p2p")' /\ ~foreign'
  BY <1>0 DEF Tidy, Quiet, Obj
<1> QED
  BY <1>5, <1>6, <1>7, <1>8, <1>9, <1>10, <1>11 DEF Tidy

\* So does an opening, since o was not open: nothing is forgotten.  And n, which
\* was free, was nobody's.
LEMMA OpensTidy ==
  ASSUME SockTypeOK, SockTypeOK', MainControl, KindsFit, NEW o \in Obj, NEW n,
         Opens(o, n)
  PROVE  (Tidy => Tidy') /\ KindsFit'
<1>0. 0 \in Fd
  BY MaxFdAssumption DEF Fd
<1>1. KindsFit'
  BY DEF KindsFit, Opens, Obj, TcpObj
<1> SUFFICES ASSUME Tidy PROVE Tidy'
  BY <1>1
<1>2. \A p \in Obj \ {o} : IsOpen(p)' = IsOpen(p) /\ sk'[p].fd = sk[p].fd
  BY DEF Opens, IsOpen
<1>3. \A t \in Thread : th'[t] = th[t] \/ NobodyShuts(t)
  BY DEF Opens, ShuttersStay
<1>4. \A p \in Obj : IsOpen(p) => sk[p].fd \in Fd /\ sk[p].fd # 0
  BY MaxFdAssumption DEF IsOpen, SockTypeOK, Sk, Fd
<1>t. \A t \in Thread : th[t].on \in Obj /\ th'[t].on \in Obj
  BY DEF SockTypeOK
<1>n. /\ file[n].by = "none" /\ n \in Fd /\ ~IsOpen(o) /\ sk'[o].fd = n
      /\ file'[n].by = o /\ o # "none"
  BY DEF Opens, KindsFit, Obj, TcpObj
<1>m. \A m \in Fd \ {n} : file'[m] = file[m]
  BY DEF Opens
<1>a. \A t \in Thread :
          In(t, Shutting) => th[t].on # o /\ t = "main" /\ th[t].on = "cli"
  BY <1>n DEF Tidy, Opens, NobodyShuts, In, MainControl, Thread, TcpObj
<1>b. \A t \in Thread : In(t, Shutting)' => th'[t] = th[t] /\ In(t, Shutting)
  BY <1>3 DEF NobodyShuts, In, Shutting
<1>5. (\A m \in Fd \ {0} : file[m].by \in Obj => sk[file[m].by].fd = m)'
  <2> SUFFICES ASSUME NEW m \in Fd \ {0}, file'[m].by \in Obj
               PROVE  sk'[file'[m].by].fd = m
    OBVIOUS
  <2>1. CASE m = n
    BY <2>1, <1>n
  <2>2. CASE m # n
    <3>1. file'[m] = file[m] /\ sk[file[m].by].fd = m
      BY <2>2, <1>m DEF Tidy
    <3>2. m > 0
      BY DEF Fd
    <3>3. file[m].by # o
      BY <3>1, <3>2, <1>n DEF IsOpen
    <3> QED
      BY <3>1, <3>3, <1>2
  <2> QED BY <2>1, <2>2
<1>6. (\A p \in Obj : IsOpen(p) /\ Idling(p) => Mine(p))'
  <2> SUFFICES ASSUME NEW p \in Obj, IsOpen(p)', Idling(p)' PROVE Mine(p)'
    OBVIOUS
  <2>1. CASE p = o
    BY <2>1, <1>n DEF Mine
  <2>2. CASE p # o
    <3>1. IsOpen(p) /\ sk'[p].fd = sk[p].fd
      BY <2>2, <1>2
    <3>2. Idling(p)
      BY <1>3 DEF Idling, At, NobodyShuts, Shutting
    <3>3. Mine(p) /\ sk[p].fd \in Fd
      BY <3>1, <3>2, <1>4 DEF Tidy
    <3>4. sk[p].fd # n
      BY <3>3, <1>n, <2>2 DEF Mine, Obj, TcpObj
    <3> QED
      BY <3>1, <3>3, <3>4, <1>m DEF Mine
  <2> QED BY <2>1, <2>2
<1>7. (\A t \in Thread : At(t, "store") /\ IsOpen(th[t].on) => ~Mine(th[t].on))'
  <2> SUFFICES ASSUME NEW t \in Thread, At(t, "store")', IsOpen(th[t].on)'
               PROVE  ~Mine(th[t].on)'
    OBVIOUS
  <2>1. th'[t] = th[t] /\ th[t].on # o /\ At(t, "store")
    BY <1>a, <1>b DEF At, In, Shutting
  <2>2. /\ IsOpen(th[t].on) /\ sk'[th[t].on].fd = sk[th[t].on].fd
        /\ ~Mine(th[t].on) /\ sk[th[t].on].fd \in Fd
    BY <2>1, <1>2, <1>t, <1>4 DEF Tidy
  <2> QED
    BY <2>1, <2>2, <1>n, <1>m DEF Mine
<1>8. (\A t \in Thread :
           In(t, Shutting) /\ th[t].on \in TcpObj => IsOpen(th[t].on))'
  BY <1>2, <1>a, <1>b, <1>t DEF Tidy
<1>9. (\A t, u \in Thread :
           Closing(t, th[u].on) /\ Closing(u, th[u].on) => t = u)'
  BY <1>a, <1>b, <1>t DEF Closing, In, Shutting
<1>10. (\A t \in Thread : At(t, "close") => th[t].tries = CloseTries)'
  BY <1>3 DEF Tidy, NobodyShuts, Shutting, At
<1>11. (sk["p2p"].fd = 0 => file[0].by = "p2p")' /\ ~foreign'
  <2>1. ~foreign'
    BY DEF Tidy, Opens
  <2>2. CASE o = "p2p"
    BY <2>1, <2>2, <1>n
  <2>3. CASE o # "p2p"
    BY <2>1, <2>3, <1>0, <1>n, <1>m, <1>2 DEF Tidy, Obj
  <2> QED BY <2>2, <2>3
<1> QED
  BY <1>5, <1>6, <1>7, <1>8, <1>9, <1>10, <1>11 DEF Tidy

\* So does an opening that failed.
LEMMA FailsTidy ==
  ASSUME SockTypeOK, SockTypeOK', MainControl, KindsFit, NEW o \in Obj, Fails(o)
  PROVE  (Tidy => Tidy') /\ KindsFit'
<1>1. KindsFit'
  BY DEF KindsFit, Fails
<1> SUFFICES ASSUME Tidy PROVE Tidy'
  BY <1>1
<1>2. \A p \in Obj \ {o} :
          IsOpen(p)' = IsOpen(p) /\ sk'[p].fd = sk[p].fd /\ Mine(p)' = Mine(p)
  BY DEF Fails, IsOpen, Mine
<1>3. \A t \in Thread : th'[t] = th[t] \/ NobodyShuts(t)
  BY DEF Fails, ShuttersStay
<1>t. \A t \in Thread : th[t].on \in Obj /\ th'[t].on \in Obj
  BY DEF SockTypeOK
<1>n. ~IsOpen(o) /\ sk'[o].fd = -1 /\ ~IsOpen(o)'
  BY DEF Fails, IsOpen
<1>a. \A t \in Thread :
          In(t, Shutting) => th[t].on # o /\ t = "main" /\ th[t].on = "cli"
  BY <1>n DEF Tidy, Fails, NobodyShuts, In, MainControl, Thread, TcpObj
<1>b. \A t \in Thread : In(t, Shutting)' => th'[t] = th[t] /\ In(t, Shutting)
  BY <1>3 DEF NobodyShuts, In, Shutting
<1>5. (\A m \in Fd \ {0} : file[m].by \in Obj => sk[file[m].by].fd = m)'
  <2> SUFFICES ASSUME NEW m \in Fd \ {0}, file'[m].by \in Obj
               PROVE  sk'[file'[m].by].fd = m
    OBVIOUS
  <2>1. file'[m] = file[m] /\ sk[file[m].by].fd = m
    BY DEF Tidy, Fails
  <2>2. m > 0
    BY DEF Fd
  <2>3. file[m].by # o
    BY <2>1, <2>2, <1>n DEF IsOpen
  <2> QED
    BY <2>1, <2>3, <1>2
<1>6. (\A p \in Obj : IsOpen(p) /\ Idling(p) => Mine(p))'
  BY <1>n, <1>2, <1>3 DEF Tidy, Idling, At, NobodyShuts, Shutting
<1>7. (\A t \in Thread : At(t, "store") /\ IsOpen(th[t].on) => ~Mine(th[t].on))'
  BY <1>n, <1>t, <1>2, <1>a, <1>b DEF Tidy, At, In, Shutting
<1>8. (\A t \in Thread :
           In(t, Shutting) /\ th[t].on \in TcpObj => IsOpen(th[t].on))'
  BY <1>2, <1>a, <1>b, <1>t DEF Tidy
<1>9. (\A t, u \in Thread :
           Closing(t, th[u].on) /\ Closing(u, th[u].on) => t = u)'
  BY <1>a, <1>b, <1>t DEF Closing, In, Shutting
<1>10. (\A t \in Thread : At(t, "close") => th[t].tries = CloseTries)'
  BY <1>3 DEF Tidy, NobodyShuts, Shutting, At
<1>11. (sk["p2p"].fd = 0 => file[0].by = "p2p")' /\ ~foreign'
  <2>1. CASE o = "p2p"
    BY <2>1, <1>n DEF Tidy, Fails
  <2>2. CASE o # "p2p"
    BY <2>2, <1>2 DEF Tidy, Fails, Obj
  <2> QED BY <2>1, <2>2
<1> QED
  BY <1>5, <1>6, <1>7, <1>8, <1>9, <1>10, <1>11 DEF Tidy

\* A number that somebody else of the process takes or gives back, or the
\* listener's 0, owns nothing of an object: the ownership stays.
LEMMA OthersTidy ==
  ASSUME SockTypeOK, SockTypeOK', KindsFit, NEW n \in Fd,
         \A m \in Fd \ {n} : file'[m] = file[m],
         file[n].by \in {"none", "others"},
         \/ file'[n] = Free
         \/ file'[n] = New("other", "others")
         \/ n = 0 /\ file'[n] = New("up", "acc"),
         \A o \in Obj : sk'[o].fd = sk[o].fd,
         UNCHANGED <<th, overlap, foreign>>
  PROVE  (Tidy => Tidy') /\ KindsFit'
<1>1. KindsFit'
  BY DEF KindsFit, Free, New
<1> SUFFICES ASSUME Tidy PROVE Tidy'
  BY <1>1
<1>0. 0 \in Fd
  BY MaxFdAssumption DEF Fd
<1>t. \A t \in Thread : th[t].on \in Obj /\ th'[t].on \in Obj
  BY DEF SockTypeOK
<1>2. \A p \in Obj : IsOpen(p)' = IsOpen(p)
  BY DEF IsOpen
<1>4. \A p \in Obj : IsOpen(p) => sk[p].fd \in Fd /\ sk[p].fd # 0
  BY MaxFdAssumption DEF IsOpen, SockTypeOK, Sk, Fd
<1>b. file[n].by \notin Obj /\ (n # 0 => file'[n].by \notin Obj)
  BY DEF Obj, TcpObj, Free, New
<1>m. \A p \in Obj : IsOpen(p) => Mine(p)' = Mine(p)
  BY <1>b, <1>4 DEF Mine
<1>5. (\A m \in Fd \ {0} : file[m].by \in Obj => sk[file[m].by].fd = m)'
  BY <1>b DEF Tidy
<1>6. (\A p \in Obj : IsOpen(p) /\ Idling(p) => Mine(p))'
  BY <1>2, <1>m DEF Tidy, Idling, At
<1>7. (\A t \in Thread : At(t, "store") /\ IsOpen(th[t].on) => ~Mine(th[t].on))'
  BY <1>2, <1>m, <1>t DEF Tidy, At
<1>8. (\A t \in Thread :
           In(t, Shutting) /\ th[t].on \in TcpObj => IsOpen(th[t].on))'
  BY <1>2, <1>t DEF Tidy, In
<1>9. (\A t, u \in Thread :
           Closing(t, th[u].on) /\ Closing(u, th[u].on) => t = u)'
  BY DEF Tidy, Closing
<1>10. (\A t \in Thread : At(t, "close") => th[t].tries = CloseTries)'
  BY DEF Tidy, At
<1>11. (sk["p2p"].fd = 0 => file[0].by = "p2p")' /\ ~foreign'
  <2>1. "p2p" \in Obj
    BY DEF Obj
  <2> QED
  BY <1>0, <2>1, <1>b DEF Tidy
<1> QED
  BY <1>5, <1>6, <1>7, <1>8, <1>9, <1>10, <1>11 DEF Tidy

\* The end of a peer-to-peer socket closes and forgets in one step.
LEMMA EndP2pTidy ==
  ASSUME SockTypeOK, SockTypeOK', ControlOK, KindsFit, EndP2p("net")
  PROVE  (Tidy => Tidy') /\ KindsFit'
<1>0. 0 \in Fd /\ "p2p" \in Obj /\ sk["p2p"].fd \in Fd
  BY MaxFdAssumption DEF Fd, Obj, EndP2p, SockTypeOK, Sk
<1>f. /\ file' = [file EXCEPT ![sk["p2p"].fd] = Free]
      /\ sk' = [sk EXCEPT !["p2p"].fd = -1]
      /\ UNCHANGED <<th, overlap>>
      /\ foreign' = (foreign \/ file[sk["p2p"].fd].by # "p2p")
  BY DEF EndP2p
<1>1. KindsFit'
  BY <1>0, <1>f DEF KindsFit, Free, SockTypeOK
<1> SUFFICES ASSUME Tidy PROVE Tidy'
  BY <1>1
<1>t. \A t \in Thread : th[t].on \in Obj \ {"p2p"}
  BY DEF SockTypeOK, ControlOK, NetControl, MainControl, Thread, NetObjs,
        Programs
<1>2. /\ ~IsOpen("p2p")'
      /\ \A p \in Obj \ {"p2p"} : sk'[p].fd = sk[p].fd /\ IsOpen(p)' = IsOpen(p)
  BY <1>0, <1>f DEF IsOpen, SockTypeOK
<1>4. \A p \in Obj : IsOpen(p) => sk[p].fd \in Fd /\ sk[p].fd # 0
  BY MaxFdAssumption DEF IsOpen, SockTypeOK, Sk, Fd
<1>i. Idling("p2p")
  BY <1>t DEF Idling
<1>b. file[sk["p2p"].fd].by = "p2p"
  <2>1. CASE sk["p2p"].fd = 0
    BY <2>1 DEF Tidy
  <2>2. CASE sk["p2p"].fd # 0
    <3>1. IsOpen("p2p")
      BY <2>2, <1>0 DEF IsOpen, Fd
    <3> QED
      BY <3>1, <1>0, <1>i DEF Tidy, Mine
  <2> QED BY <2>1, <2>2
<1>m. \A p \in Obj \ {"p2p"} : IsOpen(p) => Mine(p)' = Mine(p)
  <2> SUFFICES ASSUME NEW p \in Obj \ {"p2p"}, IsOpen(p) PROVE Mine(p)' = Mine(p)
    OBVIOUS
  <2>1. sk[p].fd \in Fd /\ sk'[p].fd = sk[p].fd
    BY <1>2, <1>4
  <2>2. CASE sk[p].fd = sk["p2p"].fd
    BY <2>1, <2>2, <1>b, <1>f DEF Mine, Free, SockTypeOK, Obj, TcpObj
  <2>3. CASE sk[p].fd # sk["p2p"].fd
    BY <2>1, <2>3, <1>f DEF Mine, SockTypeOK
  <2> QED BY <2>2, <2>3
<1>5. (\A m \in Fd \ {0} : file[m].by \in Obj => sk[file[m].by].fd = m)'
  <2> SUFFICES ASSUME NEW m \in Fd \ {0}, file'[m].by \in Obj
               PROVE  sk'[file'[m].by].fd = m
    OBVIOUS
  <2>1. m # sk["p2p"].fd
    BY <1>f, <1>0 DEF Free, Obj, TcpObj, SockTypeOK
  <2>2. file'[m] = file[m] /\ sk[file[m].by].fd = m
    BY <2>1, <1>f DEF SockTypeOK, Tidy
  <2> QED
    BY <2>1, <2>2, <1>2
<1>6. (\A p \in Obj : IsOpen(p) /\ Idling(p) => Mine(p))'
  <2> SUFFICES ASSUME NEW p \in Obj, IsOpen(p)', Idling(p)' PROVE Mine(p)'
    OBVIOUS
  <2>1. p # "p2p" /\ IsOpen(p) /\ Idling(p)
    BY <1>2, <1>f DEF Idling, At
  <2> QED
    BY <2>1, <1>m DEF Tidy
<1>7. (\A t \in Thread : At(t, "store") /\ IsOpen(th[t].on) => ~Mine(th[t].on))'
  BY <1>2, <1>m, <1>t, <1>f DEF Tidy, At
<1>8. (\A t \in Thread :
           In(t, Shutting) /\ th[t].on \in TcpObj => IsOpen(th[t].on))'
  BY <1>2, <1>t, <1>f DEF Tidy, In
<1>9. (\A t, u \in Thread :
           Closing(t, th[u].on) /\ Closing(u, th[u].on) => t = u)'
  BY <1>f DEF Tidy, Closing
<1>10. (\A t \in Thread : At(t, "close") => th[t].tries = CloseTries)'
  BY <1>f DEF Tidy, At
<1>11. (sk["p2p"].fd = 0 => file[0].by = "p2p")' /\ ~foreign'
  BY <1>f, <1>b, <1>0 DEF Tidy, SockTypeOK, Sk
<1> QED
  BY <1>5, <1>6, <1>7, <1>8, <1>9, <1>10, <1>11 DEF Tidy

-----------------------------------------------------------------------------

(*****************************************************************************)
(* The destroy() of an object                                                *)
(*****************************************************************************)

\* A destroy() that reaches its close() while no other thread is at that object's
\* close() or store keeps the ownership; otherwise it sets overlap.
LEMMA BeginCloseTidy ==
  ASSUME SockTypeOK, SockTypeOK', KindsFit, NEW t \in Thread, At(t, "destroy"),
         BeginClose(t),
         \A o \in Obj : sk'[o].fd = sk[o].fd,
         \A n \in Fd : file'[n].by = file[n].by /\ SameKind(n),
         th[t].on \in TcpObj => IsOpen(th[t].on),
         ~overlap => Tidy
  PROVE  (~overlap' => Tidy') /\ KindsFit'
<1>1. KindsFit'
  BY DEF KindsFit, SameKind
<1> SUFFICES ASSUME ~overlap' PROVE Tidy'
  BY <1>1
<1>h. /\ ~overlap /\ Tidy /\ (\A u \in Thread \ {t} : ~Closing(u, th[t].on))
      /\ foreign' = foreign
  BY DEF BeginClose
<1>t. /\ \A u \in Thread : th'[u].on = th[u].on /\ th[u].on \in Obj
      /\ \A u \in Thread \ {t} : th'[u] = th[u]
      /\ th'[t].at = "close" /\ th'[t].tries = CloseTries
  BY DEF BeginClose, SockTypeOK
<1>2. \A p \in Obj :
          IsOpen(p)' = IsOpen(p) /\ (sk[p].fd \in Fd => Mine(p)' = Mine(p))
  BY DEF IsOpen, Mine
<1>4. \A p \in Obj : IsOpen(p) => sk[p].fd \in Fd /\ sk[p].fd # 0
  BY MaxFdAssumption DEF IsOpen, SockTypeOK, Sk, Fd
<1>5. (\A m \in Fd \ {0} : file[m].by \in Obj => sk[file[m].by].fd = m)'
  BY <1>h DEF Tidy
<1>6. (\A p \in Obj : IsOpen(p) /\ Idling(p) => Mine(p))'
  BY <1>h, <1>2, <1>4, <1>t DEF Tidy, Idling, At
<1>7. (\A u \in Thread : At(u, "store") /\ IsOpen(th[u].on) => ~Mine(th[u].on))'
  BY <1>h, <1>2, <1>4, <1>t DEF Tidy, At
<1>8. (\A u \in Thread :
           In(u, Shutting) /\ th[u].on \in TcpObj => IsOpen(th[u].on))'
  BY <1>h, <1>2, <1>t DEF Tidy, In
<1>9. (\A u, v \in Thread :
           Closing(u, th[v].on) /\ Closing(v, th[v].on) => u = v)'
  BY <1>h, <1>t DEF Tidy, Closing
<1>10. (\A u \in Thread : At(u, "close") => th[u].tries = CloseTries)'
  BY <1>h, <1>t DEF Tidy, At
<1>11. (sk["p2p"].fd = 0 => file[0].by = "p2p")' /\ ~foreign'
  <2>1. "p2p" \in Obj /\ 0 \in Fd
    BY MaxFdAssumption DEF Obj, Fd
  <2> QED
    BY <1>h, <2>1 DEF Tidy
<1> QED
  BY <1>5, <1>6, <1>7, <1>8, <1>9, <1>10, <1>11 DEF Tidy

\* The close() of an object that is Tidy closes the object's own descriptor: the
\* count of tries is full, the number is the object's, and no close() fails.
LEMMA CloseTidy ==
  ASSUME SockTypeOK, SockTypeOK', KindsFit, NEW t \in Thread, Close(t),
         ~overlap => Tidy
  PROVE  (~overlap' => Tidy') /\ KindsFit'
<1>o. th[t].on \in Obj
  BY DEF SockTypeOK
<1> PICK o \in Obj : o = th[t].on
  BY <1>o
<1> DEFINE n == sk[o].fd
<1>f. /\ sk' = sk /\ overlap' = overlap
      /\ \/ file' = file
         \/ n \in Fd /\ file' = [file EXCEPT ![n] = Free]
  <2>1. ~Bad(n) => n \in Fd
    BY DEF Bad
  <2> QED
  BY <2>1 DEF Close
<1>1. KindsFit'
  BY <1>f DEF KindsFit, Free, SockTypeOK
<1> SUFFICES ASSUME ~overlap' PROVE Tidy'
  BY <1>1
<1>h. Tidy /\ o \in Obj /\ At(t, "close") /\ ~foreign /\ th[t].tries = CloseTries
  BY <1>f DEF SockTypeOK, Close, Tidy
<1>n. n \in Fd \cup {-1} /\ (n \in Fd => n = 0 \/ n > 0)
  BY <1>h DEF SockTypeOK, Sk, Fd
<1>i. Idling(o)
  BY <1>h DEF Tidy, Idling, At, Closing
<1>m. n > 0 => n \in Fd /\ file[n].by = o /\ ~Bad(n)
  <2> SUFFICES ASSUME n > 0 PROVE n \in Fd /\ file[n].by = o /\ ~Bad(n)
    OBVIOUS
  <2>1. n \in Fd
    BY <1>n
  <2>2. file[n].by = o
    BY <1>h, <1>i DEF Tidy, IsOpen, Mine
  <2> QED
    BY <2>1, <2>2, <1>h DEF KindsFit, Bad, Obj, TcpObj
<1>c. Goto(t, "store") /\
      \/ ~(n > 0) /\ UNCHANGED <<file, foreign>>
      \/ /\ n > 0 /\ n \in Fd /\ file' = [file EXCEPT ![n] = Free]
         /\ foreign' = FALSE
  <2>1. CASE n > 0
    <3>1. ~(n <= 0)
      BY <2>1, <1>m DEF Fd
    <3> QED
    BY <2>1, <3>1, <1>m, <1>h DEF Close
  <2>2. CASE ~(n > 0)
    <3>1. n <= 0
      BY <2>2, <1>n
    <3> QED
    BY <2>2, <3>1, <1>h DEF Close
  <2> QED BY <2>1, <2>2
<1>t. /\ \A u \in Thread :
             /\ th'[u].on = th[u].on /\ th[u].on \in Obj
             /\ th'[u].tries = th[u].tries
      /\ \A u \in Thread \ {t} : th'[u] = th[u]
      /\ th'[t].at = "store"
  BY <1>c DEF Goto, SockTypeOK
<1>2. \A p \in Obj : IsOpen(p)' = IsOpen(p) /\ sk'[p].fd = sk[p].fd
  BY <1>f DEF IsOpen
<1>4. \A p \in Obj : IsOpen(p) => sk[p].fd \in Fd /\ sk[p].fd # 0
  BY MaxFdAssumption DEF IsOpen, SockTypeOK, Sk, Fd
<1>x. IsOpen(o) => ~Mine(o)'
  BY <1>c, <1>f, <1>h DEF IsOpen, Mine, Free, Obj, TcpObj, SockTypeOK
<1>y. \A p \in Obj \ {o} :
          IsOpen(p) => (Mine(p) => Mine(p)') /\ (Mine(p)' => Mine(p))
  <2> SUFFICES ASSUME NEW p \in Obj \ {o}, IsOpen(p)
               PROVE  (Mine(p) => Mine(p)') /\ (Mine(p)' => Mine(p))
    OBVIOUS
  <2>1. CASE file' = file
    BY <2>1, <1>f DEF Mine
  <2>2. CASE n > 0 /\ n \in Fd /\ file' = [file EXCEPT ![n] = Free]
    BY <2>2, <1>2, <1>4, <1>m, <1>h DEF Mine, Free, SockTypeOK, Obj, TcpObj
  <2> QED BY <2>1, <2>2, <1>c
<1>5. (\A m \in Fd \ {0} : file[m].by \in Obj => sk[file[m].by].fd = m)'
  <2> SUFFICES ASSUME NEW m \in Fd \ {0}, file'[m].by \in Obj
               PROVE  sk'[file'[m].by].fd = m
    OBVIOUS
  <2>1. file'[m] = file[m]
    BY <1>c DEF Free, SockTypeOK, Obj, TcpObj
  <2> QED
    BY <2>1, <1>h, <1>f DEF Tidy
<1>6. (\A p \in Obj : IsOpen(p) /\ Idling(p) => Mine(p))'
  <2> SUFFICES ASSUME NEW p \in Obj, IsOpen(p)', Idling(p)' PROVE Mine(p)'
    OBVIOUS
  <2>1. p # o /\ IsOpen(p)
    BY <1>t, <1>2 DEF Idling, At
  <2>2. Idling(p)
    BY <2>1, <1>t, <1>h DEF Idling, At
  <2> QED
    BY <2>1, <2>2, <1>h, <1>y DEF Tidy
<1>7. (\A u \in Thread : At(u, "store") /\ IsOpen(th[u].on) => ~Mine(th[u].on))'
  <2> SUFFICES ASSUME NEW u \in Thread, At(u, "store")', IsOpen(th[u].on)'
               PROVE  ~Mine(th[u].on)'
    OBVIOUS
  <2>0. th'[u].on = th[u].on /\ th[u].on \in Obj /\ IsOpen(th[u].on)
    BY <1>t, <1>2
  <2>1. CASE th[u].on = o
    BY <2>0, <2>1, <1>x
  <2>2. CASE th[u].on # o
    <3>1. u # t /\ At(u, "store")
      BY <2>2, <1>t DEF At
    <3> QED
      BY <2>0, <2>2, <3>1, <1>y, <1>h DEF Tidy
  <2> QED BY <2>1, <2>2
<1>8. (\A u \in Thread :
           In(u, Shutting) /\ th[u].on \in TcpObj => IsOpen(th[u].on))'
  BY <1>h, <1>2, <1>t DEF Tidy, In, At, Shutting
<1>9. (\A u, v \in Thread :
           Closing(u, th[v].on) /\ Closing(v, th[v].on) => u = v)'
  BY <1>h, <1>t DEF Tidy, Closing, At
<1>10. (\A u \in Thread : At(u, "close") => th[u].tries = CloseTries)'
  BY <1>h, <1>t DEF Tidy, At
<1>11. (sk["p2p"].fd = 0 => file[0].by = "p2p")' /\ ~foreign'
  <2>1. 0 \in Fd
    BY MaxFdAssumption DEF Fd
  <2> QED
    BY <1>h, <1>c, <1>f, <2>1 DEF Tidy, SockTypeOK
<1> QED
  BY <1>5, <1>6, <1>7, <1>8, <1>9, <1>10, <1>11 DEF Tidy

\* The store of -1 after the close() ends the interval in which the number is
\* not the object's.
LEMMA StoreTidy ==
  ASSUME SockTypeOK, SockTypeOK', ControlOK, KindsFit, NEW t \in Thread, Store(t),
         ~overlap => Tidy
  PROVE  (~overlap' => Tidy') /\ KindsFit'
<1>z. th[t].on \in Obj
  BY DEF SockTypeOK
<1> PICK o \in Obj : o = th[t].on
  BY <1>z
<1>0. /\ o \in Obj /\ At(t, "store") /\ file' = file /\ overlap' = overlap
      /\ foreign' = foreign
  BY DEF SockTypeOK, Store, NoHistory
<1>1. KindsFit'
  BY <1>0 DEF KindsFit
<1> SUFFICES ASSUME ~overlap' PROVE Tidy'
  BY <1>1
<1>h. Tidy
  BY <1>0
<1>2. /\ ~IsOpen(o)' /\ sk'[o].fd = -1
      /\ \A p \in Obj \ {o} :
             sk'[p].fd = sk[p].fd /\ IsOpen(p)' = IsOpen(p) /\ Mine(p)' = Mine(p)
  BY <1>0 DEF Store, Stored, IsOpen, Mine, SockTypeOK
<1>t. /\ \A u \in Thread \ {t} : th'[u] = th[u] /\ th[u].on \in Obj
      /\ th'[t].at \notin Shutting
  <2>1. th'[t].at = th[t].back
    BY DEF Store, EndDestroy, Thread0, SockTypeOK
  <2>2. th[t].back \notin Shutting
    BY <1>0
      DEF ControlOK, NetControl, MainControl, Thread, In, At, ClosePcs,
          Shutting, NetPcs, Programs, SockTypeOK
  <2>3. \A u \in Thread \ {t} : th'[u] = th[u] /\ th[u].on \in Obj
    BY DEF Store, EndDestroy, SockTypeOK
  <2> QED
    BY <2>1, <2>2, <2>3
<1>o. \A u \in Thread \ {t} : In(u, Shutting) => th[u].on # o
  BY <1>0, <1>h DEF Tidy, In, Closing, Shutting, At
<1>5. (\A m \in Fd \ {0} : file[m].by \in Obj => sk[file[m].by].fd = m)'
  <2> SUFFICES ASSUME NEW m \in Fd \ {0}, file[m].by \in Obj
               PROVE  sk'[file[m].by].fd = m
    BY <1>0
  <2>1. sk[file[m].by].fd = m /\ m > 0
    BY <1>h DEF Tidy, Fd
  <2>2. file[m].by # o
    BY <2>1, <1>0, <1>h DEF Tidy, IsOpen, Mine
  <2> QED
    BY <2>1, <2>2, <1>2
<1>6. (\A p \in Obj : IsOpen(p) /\ Idling(p) => Mine(p))'
  <2> SUFFICES ASSUME NEW p \in Obj, IsOpen(p)', Idling(p)' PROVE Mine(p)'
    OBVIOUS
  <2>1. p # o /\ IsOpen(p)
    BY <1>2
  <2>2. Idling(p)
    BY <2>1, <1>t DEF Idling, At
  <2> QED
    BY <2>1, <2>2, <1>h, <1>2 DEF Tidy
<1>7. (\A u \in Thread : At(u, "store") /\ IsOpen(th[u].on) => ~Mine(th[u].on))'
  BY <1>h, <1>t, <1>o, <1>2 DEF Tidy, At, In, Shutting
<1>8. (\A u \in Thread :
           In(u, Shutting) /\ th[u].on \in TcpObj => IsOpen(th[u].on))'
  BY <1>h, <1>t, <1>o, <1>2 DEF Tidy, In
<1>9. (\A u, v \in Thread :
           Closing(u, th[v].on) /\ Closing(v, th[v].on) => u = v)'
  BY <1>h, <1>t DEF Tidy, Closing, Shutting
<1>10. (\A u \in Thread : At(u, "close") => th[u].tries = CloseTries)'
  BY <1>h, <1>t DEF Tidy, At, Shutting
<1>11. (sk["p2p"].fd = 0 => file[0].by = "p2p")' /\ ~foreign'
  BY <1>h, <1>0, <1>2 DEF Tidy, Obj
<1> QED
  BY <1>5, <1>6, <1>7, <1>8, <1>9, <1>10, <1>11 DEF Tidy

\* A destroy() keeps the ownership, by whichever thread.
LEMMA DestroyingTidy ==
  ASSUME SockInv, SockTypeOK', NEW t \in Thread, Destroying(t)
  PROVE  (~overlap' => Tidy') /\ KindsFit'
<1>0. /\ SockTypeOK /\ ControlOK /\ KindsFit /\ (~overlap => Tidy)
      /\ th[t].on \in Obj
  BY DEF SockInv, SockTypeOK
<1>1. CASE NotOpen(t)
  <2>1. Quiet
    <3>1. th[t].back \notin Shutting
      BY <1>0, <1>1
        DEF ControlOK, NetControl, MainControl, Thread, In, At, ClosePcs,
            Shutting, NetPcs, Programs, SockTypeOK, NotOpen
    <3>2. th'[t].at = th[t].back /\ \A u \in Thread \ {t} : th'[u] = th[u]
      BY <1>0, <1>1 DEF NotOpen, EndDestroy, Thread0, SockTypeOK
    <3>3. th[t].at = "destroy" /\ UNCHANGED <<file, sk, overlap, foreign>>
      BY <1>1 DEF NotOpen, At, NoHistory
    <3> QED
      BY <3>1, <3>2, <3>3
        DEF Quiet, ShuttersStay, NobodyShuts, Shutting, SameKind
  <2> QED
    BY <2>1, <1>0, QuietTidy DEF Quiet
<1>2. CASE DestroyTcp(t)
  <2>1. \A o \in Obj : sk'[o].fd = sk[o].fd
    <3>1. sk' = [sk EXCEPT ![th[t].on].connected = FALSE,
                           ![th[t].on].connecting = FALSE]
      BY <1>2 DEF DestroyTcp
    <3>2. sk \in [Obj -> Sk]
      BY <1>0 DEF SockTypeOK
    <3> QED
      BY <3>1, <3>2 DEF Sk
  <2>2. \A n \in Fd : file'[n].by = file[n].by /\ SameKind(n)
    <3> DEFINE o == th[t].on  table == Fcntl(file, sk[o].fd, sk[o].blocks)
    <3>1. \A m \in Fd : table[m].is = file[m].is /\ table[m].by = file[m].by
      BY <1>0, FcntlModes DEF SockTypeOK, Sk
    <3>2. file' = table
      BY <1>2 DEF DestroyTcp
    <3> HIDE DEF table
    <3> QED
      BY <3>1, <3>2 DEF SameKind
  <2> QED
    BY <1>0, <1>2, <2>1, <2>2, BeginCloseTidy DEF DestroyTcp
<1>3. CASE DestroyGroup(t)
  BY <1>0, <1>3, BeginCloseTidy DEF DestroyGroup, SameKind, Obj, TcpObj
<1>4. CASE Close(t)
  BY <1>0, <1>4, CloseTidy
<1>5. CASE Store(t)
  BY <1>0, <1>5, StoreTidy
<1> QED
  BY <1>1, <1>2, <1>3, <1>4, <1>5 DEF Destroying

\* Outside a destroy() the network thread is at no close() or store, before and
\* after its step, and the main thread stays where it is.
LEMMA NetShutters ==
  ASSUME SockTypeOK, ControlOK, NetStep
  PROVE  ShuttersStay /\ NobodyShuts("net")
<1>1. th["net"].at \notin Shutting
  <2> USE DEF Net, Step, At, Shutting
  <2>1. CASE SpeakerProcess /\ ~(CloseAtExit \/ Join)
    BY <2>1
      DEF SpeakerProcess, SpeakerTop, SpeakerLeaves, S4Result, NextAddress,
          GetDataEnds, ConnectionLost, UseSocket, Leave
  <2>2. CASE ServerProcess
    BY <2>2
      DEF ServerProcess, CreateListener, Listen, Accept, Accepted, NoListener,
          BeginSend, SendSome, SendFails, ClientGone, ServerLeaves, ServerEnds
  <2>3. CASE OldProcess
    BY <2>3
      DEF OldProcess, OldTop, Check, DropGroup, OldLeaves, OldEnds, Hear,
          OldData, Leave
  <2>4. CASE InMethod
    BY <2>4
      DEF InMethod, S4Steps, S4Connect, S4Socket, S4Start, S4Wait, S4End,
          RawSteps, RawSocket, RawStart, RawWait, RawEnd, JoinSteps, JoinGroup,
          BecomeMember
  <2>5. CASE AnyProgram
    BY <2>5
      DEF AnyProgram, UdpCalls, CreateUdp, ConnectUdp, SetRsin, GCreate,
          JoinCall, Drop, CreateP2p, EndP2p, Idle, DestroyCall, Returned,
          TcpCalls, Create, SetMode, TryConnect, RawConnectSin, SinStart,
          RawConnect, I4Connect, Connect, Cancel, IsReallyConnected,
          SetConnected
  <2> QED
    BY <2>1, <2>2, <2>3, <2>4, <2>5 DEF NetStep
<1>2. CASE th' = th
  BY <1>1, <1>2 DEF ShuttersStay, NobodyShuts
<1>3. CASE th' # th
  <2>1. NetTo(NetPcs[program])
    BY <1>3, NetSteps
  <2>2. /\ th'["main"] = th["main"]
        /\ th'["net"].at \in NetPcs[program] \union {"destroy"}
    <3>1. CASE \E l \in NetPcs[program], o \in NetObjs[program] :
                   CallDestroy("net", o, l)
      BY <3>1 DEF CallDestroy, SockTypeOK, Thread
    <3>2. CASE \E l \in NetPcs[program] :
                   \/ th' = [th EXCEPT !["net"].at = l]
                   \/ \E k : th' = [th EXCEPT !["net"].at = l, !["net"].kept = k]
      BY <3>2 DEF SockTypeOK, Thread
    <3>3. CASE \E l \in NetPcs[program] : th' = [th EXCEPT !["net"] = Thread0(l)]
      BY <3>3 DEF Thread0, SockTypeOK, Thread
    <3> QED
      BY <2>1, <3>1, <3>2, <3>3 DEF NetTo
  <2>3. th'["net"].at \notin Shutting
    BY <2>2 DEF NetPcs, Programs, SockTypeOK, Shutting
  <2> QED
    BY <1>1, <2>2, <2>3 DEF ShuttersStay, NobodyShuts, Thread
<1> QED
  BY <1>2, <1>3

-----------------------------------------------------------------------------

(*****************************************************************************)
(* The effects of the network thread                                         *)
(*****************************************************************************)

\* The half of Quiet that is about the sockets.
SockQuiet == /\ \A o \in Obj : sk'[o].fd = sk[o].fd
             /\ \A n \in Fd : file'[n].by = file[n].by /\ SameKind(n)

\* Setting the mode by fcntl is quiet.
LEMMA SetBlockingQuiet ==
  ASSUME SockTypeOK, NEW o \in Obj, NEW b \in BOOLEAN, SetBlocking(o, b)
  PROVE  SockQuiet
<1>1. \A p \in Obj : sk'[p].fd = sk[p].fd
  BY DEF SetBlocking, SockTypeOK, Sk
<1>2. \A n \in Fd : file'[n].by = file[n].by /\ SameKind(n)
  BY FcntlModes DEF SetBlocking, SockTypeOK, SameKind
<1> QED
  BY <1>1, <1>2 DEF SockQuiet

\* Starting a connect is quiet.
LEMMA StartConnectQuiet ==
  ASSUME SockTypeOK, NEW wait, NEW end, NEW fail,
         StartConnect("net", wait, end, fail)
  PROVE  SockQuiet
<1>1. CASE UNCHANGED <<file, sk>>
  BY <1>1 DEF SockQuiet, SameKind
<1>2. CASE ~UNCHANGED <<file, sk>>
  <2>1. PICK r \in {"dialing", "up"} :
            /\ file' = [file EXCEPT ![sk["cli"].fd].is = r]
            /\ sk' = [sk EXCEPT !["cli"].connecting = (r = "dialing")]
    BY <1>2 DEF StartConnect
  <2>2. Is("cli", {"fresh", "refused"})
    BY <1>2 DEF StartConnect
  <2>3. \A p \in Obj : sk'[p].fd = sk[p].fd
    BY <2>1 DEF SockTypeOK, Sk
  <2>4. \A n \in Fd : file'[n].by = file[n].by /\ SameKind(n)
    BY <2>1, <2>2 DEF SockTypeOK, Files, Is, SameKind
  <2> QED
    BY <2>3, <2>4 DEF SockQuiet
<1> QED BY <1>1, <1>2

\* socket(), when the object is not open, opens a number or fails, whether the
\* table has room or not.
LEMMA OpenSocketKinds ==
  ASSUME SockTypeOK, NEW o \in Obj, ~IsOpen(o), NEW k \in {"fresh", "dgram"},
         OpenSocket(o, k),
         NobodyShuts("net"), ShuttersStay, UNCHANGED <<overlap, foreign>>
  PROVE  Fails(o) \/ \E n \in Fd : Opens(o, n)
<1>1. CASE TableFull
  <2>1. file' = file /\ sk' = [sk EXCEPT ![o].fd = -1]
    BY <1>1 DEF OpenSocket
  <2> QED
    BY <2>1 DEF Fails, SockTypeOK, Sk
<1>2. CASE ~TableFull
  <2>1. Lowest \in Fd /\ file[Lowest].is = "free"
    BY <1>2, LowestFree
  <2> DEFINE n == Lowest
  <2>2. file' = [file EXCEPT ![n] = New(k, o)] /\ sk' = [sk EXCEPT ![o].fd = n]
    BY <1>2 DEF OpenSocket
  <2> HIDE DEF n
  <2>3. Opens(o, n)
    BY <2>1, <2>2 DEF Opens, SockTypeOK, New, n
  <2> QED
    BY <2>1, <2>3 DEF n
<1> QED BY <1>1, <1>2

\* The same for the socket opened to be connected, which is made non-blocking
\* in the same step and kept open when that fails.
LEMMA OpenToConnectKinds ==
  ASSUME SockTypeOK, NEW o \in Obj, ~IsOpen(o), OpenToConnect(o),
         NobodyShuts("net"), ShuttersStay, UNCHANGED <<overlap, foreign>>
  PROVE  Fails(o) \/ \E n \in Fd : Opens(o, n)
<1>1. CASE TableFull
  BY <1>1 DEF OpenToConnect, Fails, SockTypeOK
<1>2. CASE ~TableFull
  <2>1. Lowest \in Fd /\ file[Lowest].is = "free"
    BY <1>2, LowestFree
  <2> DEFINE n == Lowest
  <2>2. /\ file' = Fcntl([file EXCEPT ![n] = New("fresh", o)], n, FALSE)
        /\ sk' = [sk EXCEPT ![o].fd = n, ![o].blocks = FALSE]
    BY <1>2 DEF OpenToConnect
  <2> HIDE DEF n
  <2>3. /\ file' \in [Fd -> Files]
        /\ \A m \in Fd :
               /\ (m # n => file'[m] = file[m])
               /\ (m = n => file'[m].by = o /\ file'[m].is = "fresh")
    <3> DEFINE f == [file EXCEPT ![n] = New("fresh", o)]
    <3>1. /\ f \in [Fd -> Files]
          /\ \A m \in Fd :
                 /\ (m # n => f[m] = file[m])
                 /\ (m = n => f[m].by = o /\ f[m].is = "fresh")
      BY DEF SockTypeOK, New, Files
    <3> HIDE DEF f
    <3>2. file' = Fcntl(f, n, FALSE)
      BY <2>2 DEF f
    <3>3. \A m \in Fd : m # n => file'[m] = f[m]
      BY <3>1, <3>2 DEF Fcntl
    <3> DEFINE b == FALSE
    <3>4. b \in BOOLEAN /\ file' = Fcntl(f, n, b)
      BY <3>2
    <3> HIDE DEF b
    <3>5. /\ file' \in [Fd -> Files]
          /\ \A m \in Fd : file'[m].is = f[m].is /\ file'[m].by = f[m].by
      BY <3>1, <3>4, FcntlModes
    <3> QED
      BY <3>1, <3>3, <3>5
  <2>4. Opens(o, n)
    BY <2>1, <2>2, <2>3 DEF Opens, SockTypeOK, Sk, n
  <2> QED
    BY <2>1, <2>4 DEF n
<1> QED BY <1>1, <1>2

\* Every step of the network thread outside the destroy() of tcp objects has one
\* of five effects: Quiet, Fails, Opens, the end of a peer-to-peer socket, or an
\* accept() that returned 0, which the listener takes for no client and forgets.
AcceptZero == /\ 0 \in Fd /\ file[0].is = "free"
              /\ file' = [file EXCEPT ![0] = New("up", "acc")]
              /\ UNCHANGED <<sk, th, overlap, foreign>>
Effect == \/ Quiet
          \/ \E o \in Obj : Fails(o) \/ \E n \in Fd : Opens(o, n)
          \/ EndP2p("net")
          \/ AcceptZero

\* Of the steps inside the methods.
LEMMA MethodEffect ==
  ASSUME SockInv, InMethod
  PROVE  Effect
<1>0. SockTypeOK /\ {"cli", "grp"} \subseteq Obj /\ UNCHANGED <<overlap, foreign>>
  BY DEF SockInv, Obj, TcpObj, InMethod, S4Steps, S4Connect, S4Socket, S4Start,
        S4Wait, S4End, RawSteps, RawSocket, RawStart, RawWait, RawEnd,
        JoinSteps, JoinGroup, BecomeMember, Step, NoHistory
<1>1. ShuttersStay /\ NobodyShuts("net")
  BY NetShutters DEF SockInv, NetStep
<1>q. SockQuiet => Effect
  BY <1>0, <1>1 DEF SockQuiet, Quiet, Effect
<1>k. th["net"].kept \in BOOLEAN
  BY <1>0 DEF SockTypeOK, Thread
<1>2. CASE \/ S4Connect("net") \/ S4Wait("net") \/ RawWait("net")
           \/ BecomeMember("net")
  BY <1>q, <1>0, <1>2
    DEF S4Connect, OnlyGoto, OnlyDestroy, S4Wait, RawWait, BecomeMember,
        SockQuiet, SameKind, SockTypeOK, Sk
<1>3. CASE S4Start("net") \/ RawStart("net")
  BY <1>q, <1>0, <1>3, StartConnectQuiet DEF S4Start, RawStart
<1>4. CASE S4End("net") \/ RawEnd("net")
  BY <1>q, <1>0, <1>4, <1>k, SetBlockingQuiet DEF S4End, RawEnd, EndConnect
<1>5. CASE S4Socket("net")
  <2>1. ~IsOpen("cli")
    BY <1>5 DEF SockInv, OpenWhen, S4Socket, Step
  <2> QED
    BY <1>0, <1>1, <1>5, <2>1, OpenToConnectKinds DEF S4Socket, Effect
<1>6. CASE RawSocket("net")
  <2>1. CASE sk["cli"].fd = -1
    <3>1. ~IsOpen("cli")
      BY <2>1 DEF IsOpen
    <3> QED
      BY <1>0, <1>1, <1>6, <2>1, <3>1, OpenToConnectKinds DEF RawSocket, Effect
  <2>2. CASE sk["cli"].fd # -1
    BY <1>q, <1>0, <1>6, <2>2, SetBlockingQuiet DEF RawSocket
  <2> QED BY <2>1, <2>2
<1>7. CASE JoinGroup("net")
  <2>1. ~IsOpen("grp")
    BY <1>7 DEF SockInv, OpenWhen, JoinGroup, Step
  <2> QED
    BY <1>0, <1>1, <1>7, <2>1, OpenSocketKinds DEF JoinGroup, Effect
<1> QED
  BY <1>2, <1>3, <1>4, <1>5, <1>6, <1>7
    DEF InMethod, S4Steps, RawSteps, JoinSteps

\* Of the programs' own steps.
LEMMA ProgramEffect ==
  ASSUME SockInv,
         ServerProcess \/ OldProcess \/ (SpeakerProcess /\ ~(CloseAtExit \/ Join))
  PROVE  Effect
<1>0. /\ SockTypeOK /\ {"cli", "grp", "acc", "srv"} \subseteq Obj
      /\ UNCHANGED <<overlap, foreign>>
  BY DEF SockInv, Obj, TcpObj, Net, Step, NoHistory, SpeakerProcess,
        SpeakerTop, SpeakerLeaves, S4Result, NextAddress, GetDataEnds,
        ConnectionLost, UseSocket, Leave, ServerProcess, CreateListener,
        Listen, Accept, Accepted, NoListener, BeginSend, SendSome, SendFails,
        ClientGone, ServerLeaves, ServerEnds, OldProcess, OldTop, Check,
        DropGroup, OldLeaves, OldEnds, Hear, OldData
<1>1. ShuttersStay /\ NobodyShuts("net")
  BY NetShutters DEF SockInv, NetStep
<1>q. SockQuiet => Effect
  BY <1>0, <1>1 DEF SockQuiet, Quiet, Effect
<1>u. UNCHANGED <<file, sk>> => Effect
  BY <1>q DEF SockQuiet, SameKind
<1> USE DEF GoOn, Destroy, OnlyGoto, OnlyDestroy
<1>2. CASE SpeakerProcess /\ ~(CloseAtExit \/ Join)
  <2>1. CASE UseSocket
    BY <1>q, <1>0, <2>1, SetBlockingQuiet DEF UseSocket
  <2>2. CASE UNCHANGED <<file, sk>>
    BY <1>u, <2>2
  <2> QED
    BY <1>2, <2>1, <2>2
      DEF SpeakerProcess, SpeakerTop, SpeakerLeaves, S4Result, NextAddress,
          GetDataEnds, ConnectionLost
<1>3. CASE OldProcess
  <2>1. CASE UNCHANGED <<file, sk>>
    BY <1>u, <2>1
  <2>2. CASE OldTop \/ Check
    BY <1>q, <1>0, <2>2
      DEF OldTop, Check, KnowPeer, SockQuiet, SameKind, SockTypeOK, Sk
  <2>3. CASE DropGroup
    BY <1>q, <1>0, <2>3 DEF DropGroup, SockQuiet, SameKind, SockTypeOK, Sk
  <2> QED
    BY <1>3, <2>1, <2>2, <2>3 DEF OldProcess, OldLeaves, OldEnds, Hear, OldData
<1>4. CASE ServerProcess
  <2>1. CASE UNCHANGED <<file, sk>>
    BY <1>u, <2>1
  <2>2. CASE Accepted
    BY <1>q, <1>0, <2>2, SetBlockingQuiet DEF Accepted
  <2>3. CASE CreateListener
    <3>1. ~IsOpen("srv")
      BY <2>3 DEF SockInv, OpenWhen, CreateListener, Net, Step
    <3> QED
      BY <1>0, <1>1, <2>3, <3>1, OpenSocketKinds DEF CreateListener, Effect
  <2>4. CASE Listen
    <3>1. At("net", "listen") /\ program = "server" /\ ~HasSclient
      <4>1. At("net", "listen")
        BY <2>4 DEF Listen, Net, Step
      <4>2. "listen" \in NetPcs[program] /\ program \in Programs
        BY <1>0, <4>1
          DEF SockInv, ControlOK, NetControl, In, At, ClosePcs, SockTypeOK
      <4>3. program = "server"
        BY <4>2 DEF NetPcs, Programs
      <4> QED BY <4>1, <4>3 DEF HasSclient
    <3>2. IsOpen("srv") /\ Tidy /\ Idling("srv")
      BY <3>1
        DEF SockInv, OpenWhen, OverlapsIn, Idling, At, ControlOK, MainControl,
            In, ClosePcs, Thread
    <3>3. Mine("srv") /\ sk["srv"].fd \in Fd
      BY <1>0, <3>2 DEF Tidy, IsOpen, SockTypeOK, Sk
    <3>4. file[sk["srv"].fd].is \notin {"free", "stdin", "other"}
      BY <3>3 DEF SockInv, KindsFit, Mine
    <3>5. CASE file' = [file EXCEPT ![sk["srv"].fd].is = "listen"] /\ UNCHANGED sk
      BY <1>q, <1>0, <3>3, <3>4, <3>5
        DEF SockQuiet, SameKind, SockTypeOK, Files
    <3> QED BY <1>u, <2>4, <3>5 DEF Listen
  <2>5. CASE Accept
    <3>1. /\ Lowest \in Fd /\ file[Lowest].is = "free"
          /\ file' = [file EXCEPT ![Lowest] = New("up", "acc")]
      BY <2>5, LowestFree DEF Accept
    <3>2. CASE /\ Lowest > 0
               /\ sk' = [sk EXCEPT !["acc"].fd = Lowest, !["acc"].blocks = FALSE]
      <4>1. ~IsOpen("acc")
        BY <2>5 DEF Accept, IsOpen
      <4> DEFINE n == Lowest
      <4>2. /\ n \in Fd /\ file[n].is = "free"
            /\ file' = [file EXCEPT ![n] = New("up", "acc")]
            /\ sk' = [sk EXCEPT !["acc"].fd = n, !["acc"].blocks = FALSE]
        BY <3>1, <3>2
      <4> HIDE DEF n
      <4>3. Opens("acc", n)
        BY <1>0, <1>1, <4>1, <4>2 DEF Opens, SockTypeOK, Sk, New
      <4> QED
        BY <1>0, <4>2, <4>3 DEF Effect
    <3>3. CASE Lowest = 0 /\ UNCHANGED <<sk, th>>
      BY <1>0, <3>1, <3>3 DEF AcceptZero, Effect
    <3> QED
      BY <2>5, <3>2, <3>3 DEF Accept
  <2> QED
    BY <1>4, <2>1, <2>2, <2>3, <2>4, <2>5
      DEF ServerProcess, NoListener, BeginSend, SendSome, SendFails,
          ClientGone, ServerLeaves, ServerEnds
<1> QED
  BY <1>2, <1>3, <1>4

\* Of the calls that a tcp or udp program makes in any order.
LEMMA CallEffect ==
  ASSUME SockInv, AnyProgram
  PROVE  Effect
<1>0. SockTypeOK /\ {"cli", "grp", "p2p"} \subseteq Obj
  BY DEF SockInv, Obj, TcpObj
<1>h. EndP2p("net") \/ UNCHANGED <<overlap, foreign>>
  BY DEF Step, NoHistory, AnyProgram, UdpCalls, CreateUdp, ConnectUdp, SetRsin,
        GCreate, JoinCall, Drop, CreateP2p, Idle, DestroyCall, Returned,
        TcpCalls, Create, SetMode, TryConnect, RawConnectSin, SinStart,
        RawConnect, I4Connect, Connect, Cancel, IsReallyConnected, SetConnected
<1> SUFFICES ASSUME ~EndP2p("net") PROVE Effect
  BY DEF Effect
<1>1. ShuttersStay /\ NobodyShuts("net")
  BY NetShutters DEF SockInv, NetStep
<1>q. SockQuiet => Effect
  BY <1>h, <1>1 DEF SockQuiet, Quiet, Effect
<1>u. UNCHANGED <<file, sk>> => Effect
  BY <1>q DEF SockQuiet, SameKind
<1> USE DEF OnlyGoto, OnlyDestroy, Idle
<1>2. CASE Create("net") \/ CreateUdp("net") \/ CreateP2p("net")
  <2>1. CASE Create("net")
    BY <1>0, <1>1, <1>h, <2>1, OpenSocketKinds DEF Create, Effect
  <2>2. CASE CreateUdp("net")
    BY <1>0, <1>1, <1>h, <2>2, OpenSocketKinds DEF CreateUdp, Effect
  <2>3. CASE CreateP2p("net")
    <3>1. ~IsOpen("p2p")
      BY <2>3 DEF CreateP2p, IsOpen
    <3> QED
      BY <1>0, <1>1, <1>h, <2>3, <3>1, OpenSocketKinds DEF CreateP2p, Effect
  <2> QED BY <1>2, <2>1, <2>2, <2>3
<1>3. CASE RawConnectSin("net")
  BY <1>0, <1>1, <1>h, <1>3, OpenToConnectKinds DEF RawConnectSin, Effect
<1>4. CASE SetMode("net")
  BY <1>q, <1>0, <1>4, SetBlockingQuiet DEF SetMode
<1>5. CASE TryConnect("net")
  <2> DEFINE table == Fcntl(file, sk["cli"].fd, sk["cli"].blocks)
  <2>1. /\ table \in [Fd -> Files]
        /\ \A m \in Fd : table[m].is = file[m].is /\ table[m].by = file[m].by
    BY <1>0, FcntlModes DEF SockTypeOK, Sk
  <2>2. \A p \in Obj : sk'[p].fd = sk[p].fd
    <3>1. PICK r : \/ sk' = sk
             \/ sk' = [sk EXCEPT !["cli"].connecting = FALSE]
             \/ sk' = [sk EXCEPT !["cli"].connecting = r]
      BY <1>5 DEF TryConnect
    <3> QED
      BY <1>0, <3>1 DEF SockTypeOK, Sk
  <2>3. \/ file' = file \/ file' = table
        \/ /\ Is("cli", {"fresh", "refused"})
           /\ \E r \in {"up", "refused", "dialing"} :
                  file' = [table EXCEPT ![sk["cli"].fd].is = r]
    BY <1>5 DEF TryConnect
  <2> HIDE DEF table
  <2>4. \A n \in Fd : file'[n].by = file[n].by /\ SameKind(n)
    BY <2>1, <2>3 DEF Is, SameKind, Files
  <2> QED
    BY <1>q, <2>2, <2>4 DEF SockQuiet
<1>6. CASE SinStart("net")
  BY <1>q, <1>0, <1>6, StartConnectQuiet DEF SinStart
<1>7. CASE \/ Cancel("net") \/ IsReallyConnected("net") \/ SetConnected("net")
           \/ ConnectUdp("net") \/ SetRsin("net") \/ Drop("net") \/ Connect("net")
  <2>1. UNCHANGED file /\ \A p \in Obj : sk'[p].fd = sk[p].fd
    BY <1>0, <1>7
      DEF Cancel, IsReallyConnected, SetConnected, ConnectUdp, SetRsin, Drop,
          Flags, Connect, SockTypeOK, Sk
  <2> QED
    BY <1>q, <2>1 DEF SockQuiet, SameKind
<1>8. CASE GCreate("net")
  <2>0. ~IsOpen("grp")
    BY <1>8 DEF GCreate, IsOpen
  <2>1. CASE TableFull
    BY <1>q, <1>0, <1>8, <2>1 DEF GCreate, SockQuiet, SameKind, SockTypeOK, Sk
  <2>2. CASE ~TableFull
    <3> DEFINE n == Lowest
    <3>1. /\ n \in Fd /\ file[n].is = "free"
          /\ file' = [file EXCEPT ![n] = New("dgram", "grp")]
          /\ sk' = [sk EXCEPT !["grp"].member = FALSE, !["grp"].fd = n]
      BY <1>8, <2>2, LowestFree DEF GCreate
    <3> HIDE DEF n
    <3>2. Opens("grp", n)
      BY <1>0, <1>1, <1>h, <2>0, <3>1 DEF Opens, SockTypeOK, Sk, New
    <3> QED
      BY <1>0, <3>1, <3>2 DEF Effect
  <2> QED BY <2>1, <2>2
<1>9. CASE UNCHANGED <<file, sk>>
  BY <1>9, <1>u
<1> QED
  BY <1>2, <1>3, <1>4, <1>5, <1>6, <1>7, <1>8, <1>9
    DEF AnyProgram, TcpCalls, UdpCalls, RawConnect, I4Connect, DestroyCall,
        Returned, JoinCall

-----------------------------------------------------------------------------

(*****************************************************************************)
(* What is open where                                                        *)
(*****************************************************************************)

\* Where OpenWhen asks nothing of the network thread.
NetAway ==
    LET n == th'["net"] IN
    /\ n.at \notin {"socket", "join", "create", "listen"}
    /\ HasSclient => n.at \notin {"top", "done", "failed"}
    /\ n.at \in ClosePcs => BackFits(n.on, n.back)
Closed(o) == ~IsOpen(o) /\ ~IsOpen(o)'

\* A move to labels that OpenWhen does not name.
LEMMA NetToAway ==
  ASSUME SockTypeOK, NEW L,
         L \cap ({"socket", "join", "create", "listen"} \cup ClosePcs) = {},
         ~HasSclient, NetTo(L)
  PROVE  NetAway
<1>0. th \in [Thread -> Posts] /\ "net" \in Thread
  BY DEF SockTypeOK, Posts, Thread
<1>1. CASE \E l \in L, o \in NetObjs[program] : CallDestroy("net", o, l)
  <2>1. PICK l \in L : th'["net"].at = "destroy" /\ th'["net"].back = l
    BY <1>0, <1>1 DEF CallDestroy, Posts
  <2> QED
    BY <2>1 DEF NetAway, BackFits
<1>2. CASE \E l \in L : th'["net"].at = l
  BY <1>2 DEF NetAway, ClosePcs
<1>3. CASE \E l \in L : \/ th' = [th EXCEPT !["net"].at = l]
                        \/ \E k :
                               th' = [th EXCEPT !["net"].at = l,
                                      !["net"].kept = k]
                        \/ th' = [th EXCEPT !["net"] = Thread0(l)]
  BY <1>0, <1>2, <1>3 DEF Thread0, Posts
<1> QED
  BY <1>1, <1>3 DEF NetTo

\* Every step of the network thread leads to such a label, or to one of the
\* labels before an opening with the object not open: each caller of an opening
\* method has destroyed first, or saw that nothing was open.
LEMMA NetAwayStep ==
  ASSUME SockInv, NetStep
  PROVE  \/ NetAway
         \/ th'["net"].at = "socket" /\ ~HasSclient /\ ~IsOpen("cli")'
         \/ th'["net"].at \in {"socket", "done"} /\ HasSclient /\ ~IsOpen("cli")'
         \/ th'["net"].at = "join" /\ ~HasSclient /\ ~IsOpen("grp")'
         \/ th'["net"].at = "listen" /\ ~HasSclient /\ IsOpen("srv")'
<1>0. /\ SockTypeOK /\ program \in Programs /\ th \in [Thread -> Posts]
      /\ "net" \in Thread
      /\ th["net"].at \in NetPcs[program] \union ClosePcs
  BY DEF SockInv, ControlOK, NetControl, In, SockTypeOK, Posts, Thread
<1> USE DEF Net, Step, At, GoOn, Destroy, OnlyGoto, OnlyDestroy, GotoIf, Goto,
          CallDestroy, HasSclient, ClosePcs, NetAway, BackFits, Posts
<1>1. CASE SpeakerProcess /\ ~(CloseAtExit \/ Join)
  <2>1. CASE SpeakerLeaves
    <3>1. ~IsOpen("cli") /\ program \in {"speaker", "phone"}
      BY <2>1 DEF SockInv, OpenWhen, In, SpeakerLeaves, Leave
    <3> QED
      BY <1>0, <2>1, <3>1 DEF SpeakerLeaves, Leave, IsOpen
  <2>2. CASE ~SpeakerLeaves
    <3>1. CASE SpeakerTop
      BY <1>0, <3>1 DEF SpeakerTop
    <3>2. CASE S4Result
      BY <1>0, <3>2 DEF S4Result
    <3>3. CASE NextAddress
      BY <1>0, <3>3 DEF NextAddress
    <3>4. CASE UseSocket
      BY <1>0, <3>4 DEF UseSocket
    <3>5. CASE GetDataEnds
      BY <1>0, <3>5 DEF GetDataEnds
    <3>6. CASE ConnectionLost
      BY <1>0, <3>6 DEF ConnectionLost
    <3> QED
      BY <1>1, <2>2, <3>1, <3>2, <3>3, <3>4, <3>5, <3>6 DEF SpeakerProcess
  <2> QED BY <2>1, <2>2
<1>2. CASE ServerProcess
  <2>1. CASE CreateListener
    <3>1. program = "server"
      BY <1>0, <2>1 DEF CreateListener, NetPcs, Programs
    <3> QED
      BY <1>0, <2>1, <3>1 DEF CreateListener, IsOpen
  <2>2. CASE ~CreateListener
    <3>1. th["net"].at \in {"create", "listen", "serve", "accepted", "send",
                            "end"}
      BY <1>2, <2>2
        DEF ServerProcess, Listen, Accept, Accepted, NoListener, BeginSend,
            SendSome, SendFails, ClientGone, ServerLeaves, ServerEnds
    <3>2. program = "server"
      BY <1>0, <3>1 DEF NetPcs, Programs
    <3> QED
      <4>1. CASE NoListener
        BY <1>0, <3>2, <4>1 DEF NoListener
      <4>2. CASE Listen
        BY <1>0, <3>2, <4>2 DEF Listen
      <4>3. CASE Accept
        BY <1>0, <3>2, <4>3 DEF Accept
      <4>4. CASE Accepted
        BY <1>0, <3>2, <4>4 DEF Accepted
      <4>5. CASE BeginSend
        BY <1>0, <3>2, <4>5 DEF BeginSend
      <4>6. CASE SendSome
        BY <1>0, <3>2, <4>6 DEF SendSome
      <4>7. CASE SendFails
        BY <1>0, <3>2, <4>7 DEF SendFails
      <4>8. CASE ClientGone
        BY <1>0, <3>2, <4>8 DEF ClientGone
      <4>9. CASE ServerLeaves
        BY <1>0, <3>2, <4>9 DEF ServerLeaves
      <4>10. CASE ServerEnds
        BY <1>0, <3>2, <4>10 DEF ServerEnds
      <4> QED
        BY <1>2, <2>2, <4>1, <4>2, <4>3, <4>4, <4>5, <4>6, <4>7, <4>8, <4>9,
           <4>10 DEF ServerProcess
  <2> QED BY <2>1, <2>2
<1>3. CASE OldProcess
  <2>1. program = "old"
    <3>1. program = "old" \/ Net("bye") \/ Net("drop")
      BY <1>3
        DEF Runs, OldProcess, OldTop, Check, DropGroup, OldLeaves, OldEnds,
            Hear, OldData
    <3> QED BY <1>0, <3>1 DEF NetPcs, Programs
  <2> QED
    BY <1>0, <1>3, <2>1
      DEF OldProcess, OldTop, Check, DropGroup, OldLeaves, OldEnds, Hear,
          OldData, Leave
<1>4. CASE InMethod
  <2>1. CASE S4Connect("net")
    BY <1>0, <2>1 DEF S4Connect, IsOpen
  <2>2. CASE S4Steps("net") /\ ~S4Connect("net")
    BY <1>0, <2>2
      DEF S4Steps, S4Socket, S4Start, StartConnect, S4Wait, S4End, EndConnect,
          Thread0
  <2>3. CASE RawSteps("net")
    <3> DEFINE L == {"check", "rawstart", "rawwait", "rawend"}
    <3>1. th["net"].at \in {"raw", "rawstart", "rawwait", "rawend"}
      BY <2>3 DEF RawSteps, RawSocket, RawStart, RawWait, RawEnd
    <3>2. program \in {"old", "tcp"}
      BY <1>0, <3>1 DEF NetPcs, Programs
    <3>3. NetTo(L)
      BY <1>0, <2>3
        DEF NetTo, RawSteps, RawSocket, RawStart, RawWait, RawEnd, EndConnect,
            StartConnect
    <3>4. NetAway
      <4> HIDE DEF NetAway
      <4> QED
        BY <1>0, <3>2, <3>3, NetToAway
    <3> QED BY <3>4
  <2>4. CASE JoinSteps("net")
    <3>1. th["net"].at \in {"join", "member"}
      BY <2>4 DEF JoinSteps, JoinGroup, BecomeMember
    <3>2. program \in {"old", "udp"}
      BY <1>0, <3>1 DEF NetPcs, Programs
    <3> QED
      BY <1>0, <2>4, <3>2 DEF JoinSteps, JoinGroup, BecomeMember
  <2> QED
    BY <1>4, <2>1, <2>2, <2>3, <2>4 DEF InMethod, S4Steps
<1>5. CASE AnyProgram
  <2>1. CASE program = "tcp" /\ TcpCalls("net")
    <3> DEFINE L == {"top", "sin", "rawend", "raw", "dial", "unblock"}
    <3>1. "cli" \in NetObjs[program]
      BY <2>1 DEF NetObjs, Programs
    <3>3. NetTo(L)
      <4> HIDE DEF CallDestroy
      <4> QED
      BY <1>0, <2>1, <3>1
        DEF NetTo, TcpCalls, Create, SetMode, TryConnect, RawConnectSin,
            SinStart, RawConnect, I4Connect, Connect, Cancel,
            IsReallyConnected, SetConnected, DestroyCall, Returned, Return,
            Idle, StartConnect
    <3>4. NetAway
      <4> HIDE DEF NetAway
      <4> QED
        BY <1>0, <2>1, <3>3, NetToAway
    <3> QED BY <3>4
  <2>2. CASE program = "udp" /\ UdpCalls("net")
    <3>1. CASE JoinCall("net")
      BY <1>0, <2>2, <3>1 DEF JoinCall, IsOpen, Idle
    <3>2. CASE ~JoinCall("net")
      <4> DEFINE L == {"top", "fault"}
      <4>1. "grp" \in NetObjs[program]
        BY <2>2 DEF NetObjs, Programs
      <4>2. CASE EndP2p("net")
        BY <1>0, <2>2, <4>2 DEF EndP2p
      <4>3. CASE ~EndP2p("net")
        <5>1. NetTo(L)
          <6> HIDE DEF CallDestroy
          <6> QED
          BY <1>0, <2>2, <3>2, <4>1, <4>3
            DEF NetTo, UdpCalls, CreateUdp, ConnectUdp, SetRsin, GCreate, Drop,
                CreateP2p, DestroyCall, Returned, Return, Idle
        <5>2. NetAway
          <6> HIDE DEF NetAway
          <6> QED
            BY <1>0, <2>2, <5>1, NetToAway
        <5> QED BY <5>2
      <4> QED BY <4>2, <4>3
    <3> QED BY <3>1, <3>2
  <2> QED
    BY <1>5, <2>1, <2>2 DEF AnyProgram, Runs
<1> QED
  BY <1>1, <1>2, <1>3, <1>4, <1>5 DEF NetStep

\* No step changes the program.
LEMMA ProgramStays ==
  ASSUME [PhoneNext]_phoneVars
  PROVE  program' = program
BY DEF InMethod, AnyProgram, InDestroy, SpeakerProcess, SpeakerTop,
      SpeakerLeaves, S4Result, NextAddress, GetDataEnds, ConnectionLost,
      CloseAtExit, Join, UseSocket, Leave, Net, ServerProcess, CreateListener,
      Listen, Accept, Accepted, NoListener, BeginSend, SendSome, SendFails,
      ClientGone, ServerLeaves, ServerEnds, OldProcess, OldTop, Check,
      DropGroup, OldLeaves, OldEnds, Hear, OldData, Environment, CtrlC,
      OthersOpen, OthersClose, KernelDials, PeerCloses, Outside, TimerSlot,
      PlayerThread, Search, SearchEnds, Restart, JoinThread, StartThread,
      SetAlive, Construct, Silent, LeavePlay, Quit, Ui, Main, InitAo,
      SelectFails, PhoneNext, ProgNext, ThreadMoves, phoneVars, progVars

-----------------------------------------------------------------------------

(*****************************************************************************)
(* The other threads and the environment                                     *)
(*****************************************************************************)

\* The steps of the main thread outside a destroy(), the phone's user interface
\* included.
MainStep == CloseAtExit \/ Join \/ TimerSlot \/ PlayerThread

\* The object of a new sclient.
NewSk == [fd |-> -1, blocks |-> FALSE, member |-> FALSE,
          connected |-> FALSE, connecting |-> FALSE]

\* They open and close nothing: the most they do is to construct the phone's
\* sclient anew, when the last one's socket is closed and its thread has ended,
\* and to start the thread.
LEMMA MainMoves ==
  ASSUME SockInv, MainStep
  PROVE  /\ overlap' = overlap /\ foreign' = foreign /\ ShuttersStay
         /\ file' = file
         /\ \/ sk' = sk
            \/ /\ sk' = [sk EXCEPT !["cli"] = NewSk]
               /\ ~IsOpen("cli") /\ At("net", "done") /\ NobodyShuts("net")
         /\ \/ th'["net"] = th["net"]
            \/ th'["net"] = Thread0("top") /\ At("net", "done") /\ Runs("phone")
<1>0. /\ SockTypeOK /\ program \in Programs /\ th \in [Thread -> Posts]
      /\ "net" \in Thread /\ "main" \in Thread /\ Thread = {"net", "main"}
  BY DEF SockInv, SockTypeOK, Posts, Thread
<1> USE DEF Ui, Main, At, NoHistory, Goto, CallDestroy, Step, Runs
<1>1. CASE CloseAtExit \/ Join
  BY <1>0, <1>1
    DEF CloseAtExit, Join, Posts, ShuttersStay, NobodyShuts, Shutting
<1>2. CASE TimerSlot
  BY <1>0, <1>2
    DEF TimerSlot, Search, SearchEnds, Restart, JoinThread, StartThread,
        SetAlive, Posts, ShuttersStay, NobodyShuts, Shutting, SockInv,
        PhoneTurns
<1>3. CASE PlayerThread
  <2>1. CASE Construct
    <3>1. ~IsOpen("cli") /\ th["net"].at = "done"
      BY <2>1 DEF Construct, SockInv, PhoneTurns, In
    <3> QED
      BY <1>0, <2>1, <3>1
        DEF Construct, NewSk, ShuttersStay, NobodyShuts, Shutting, Posts
  <2>2. CASE \E works \in BOOLEAN : InitAo(works)
    <3>1. th["net"].at = "done"
      BY <2>2 DEF InitAo, SockInv, PhoneTurns, In
    <3> QED
      BY <1>0, <2>2, <3>1
        DEF InitAo, ShuttersStay, NobodyShuts, Shutting, Posts, Thread0
  <2>3. CASE Silent \/ LeavePlay \/ Quit
    BY <1>0, <2>3
      DEF Silent, LeavePlay, Quit, ShuttersStay, NobodyShuts, Shutting, Posts
  <2> QED
    BY <1>3, <2>1, <2>2, <2>3 DEF PlayerThread
<1> QED
  BY <1>1, <1>2, <1>3 DEF MainStep

\* So they keep the ownership.
LEMMA MainTidy ==
  ASSUME SockInv, SockTypeOK', MainStep
  PROVE  (Tidy => Tidy') /\ KindsFit'
<1>0. SockTypeOK /\ MainControl /\ KindsFit /\ "cli" \in Obj
  BY DEF SockInv, ControlOK, Obj, TcpObj
<1>1. CASE sk' = sk
  <2>1. Quiet
    BY <1>1, MainMoves DEF Quiet, SameKind
  <2> QED
    BY <1>0, <2>1, QuietTidy
<1>2. CASE sk' # sk
  <2>1. Fails("cli")
    BY <1>0, <1>2, MainMoves DEF Fails, NewSk, SockTypeOK
  <2> QED
    BY <1>0, <2>1, FailsTidy
<1> QED BY <1>1, <1>2

\* The environment keeps it: the kernel, the peers and the rest of the process
\* touch no descriptor of an object but its state.
LEMMA OthersStep ==
  ASSUME SockInv, SockTypeOK', Environment \/ SelectFails
  PROVE  (Tidy => Tidy') /\ KindsFit' /\ UNCHANGED <<sk, th, overlap, foreign>>
<1>0. SockTypeOK /\ KindsFit
  BY DEF SockInv
<1>1. UNCHANGED <<sk, th, overlap, foreign>>
  BY DEF Environment, CtrlC, OthersOpen, OthersClose, KernelDials, PeerCloses,
        Outside, SelectFails, Step, NoHistory
<1>q. ASSUME \A n \in Fd : file'[n].by = file[n].by /\ SameKind(n) PROVE Quiet
  BY <1>1, <1>q DEF Quiet, ShuttersStay
<1>2. CASE file' = file
  BY <1>0, <1>1, <1>2, <1>q, QuietTidy DEF SameKind
<1>3. CASE OthersOpen
  <2> DEFINE n == Lowest
  <2>1. /\ n \in Fd /\ file[n].is = "free"
        /\ file' = [file EXCEPT ![n] = New("other", "others")]
    BY <1>3, LowestFree DEF OthersOpen
  <2> HIDE DEF n
  <2>2. file[n].by \in {"none", "others"}
    BY <1>0, <2>1 DEF KindsFit
  <2>3. /\ (\A m \in Fd \ {n} : file'[m] = file[m])
        /\ file'[n] = New("other", "others")
    BY <1>0, <2>1 DEF SockTypeOK
  <2> QED
    BY <1>0, <1>1, <2>1, <2>2, <2>3, OthersTidy
<1>4. ASSUME NEW n \in Fd, OthersClose(n) PROVE (Tidy => Tidy') /\ KindsFit'
  <2>2. file[n].by \in {"none", "others"}
    BY <1>0, <1>4 DEF KindsFit, OthersClose
  <2>3. (\A m \in Fd \ {n} : file'[m] = file[m]) /\ file'[n] = Free
    BY <1>0, <1>4 DEF SockTypeOK, OthersClose
  <2> QED
    BY <1>0, <1>1, <2>2, <2>3, OthersTidy
<1>5. ASSUME NEW n \in Fd, KernelDials(n) \/ PeerCloses(n)
      PROVE  (Tidy => Tidy') /\ KindsFit'
  <2>1. \A m \in Fd : file'[m].by = file[m].by /\ SameKind(m)
    BY <1>0, <1>5 DEF KernelDials, PeerCloses, SameKind, SockTypeOK, Files
  <2> QED
    BY <1>0, <2>1, <1>q, QuietTidy
<1> QED
  BY <1>1, <1>2, <1>3, <1>4, <1>5 DEF Environment, CtrlC, SelectFails

\* Each of the five effects keeps it.
LEMMA EffectTidy ==
  ASSUME SockInv, SockTypeOK', Effect
  PROVE  (~overlap' => Tidy') /\ KindsFit'
<1>0. SockTypeOK /\ MainControl /\ ControlOK /\ KindsFit /\ (~overlap => Tidy)
  BY DEF SockInv, ControlOK
<1>h. overlap' = overlap
  BY DEF Effect, Quiet, Opens, Fails, EndP2p, AcceptZero
<1>1. CASE Quiet
  BY <1>0, <1>1, <1>h, QuietTidy
<1>2. CASE \E o \in Obj : Fails(o)
  BY <1>0, <1>2, <1>h, FailsTidy
<1>3. CASE \E o \in Obj, n \in Fd : Opens(o, n)
  BY <1>0, <1>3, <1>h, OpensTidy
<1>4. CASE EndP2p("net")
  BY <1>0, <1>4, <1>h, EndP2pTidy
<1>5. CASE AcceptZero
  <2>1. 0 \in Fd /\ file[0].by \in {"none", "others"}
    BY <1>0, <1>5 DEF KindsFit, AcceptZero
  <2>2. /\ (\A m \in Fd \ {0} : file'[m] = file[m]) /\ file'[0] = New("up", "acc")
        /\ UNCHANGED <<sk, th, overlap, foreign>>
    BY <1>0, <1>5, <2>1 DEF SockTypeOK, AcceptZero
  <2> QED
    BY <1>0, <1>h, <2>1, <2>2, OthersTidy
<1> QED
  BY <1>1, <1>2, <1>3, <1>4, <1>5 DEF Effect

\* So every step keeps Tidy unless it is, or was before, in an overlap.
LEMMA TidyStep ==
  ASSUME SockInv, SockTypeOK', [PhoneNext]_phoneVars
  PROVE  (~overlap' => Tidy') /\ KindsFit'
<1>1. CASE NetStep
  BY <1>1, MethodEffect, ProgramEffect, CallEffect, EffectTidy DEF NetStep
<1>2. CASE MainStep
  BY <1>2, MainTidy, MainMoves DEF SockInv
<1>3. CASE Environment \/ SelectFails
  BY <1>3, OthersStep DEF SockInv
<1>4. ASSUME NEW t \in Thread, InDestroy(t)
      PROVE  (~overlap' => Tidy') /\ KindsFit'
  BY <1>4, DestroyingTidy DEF InDestroy
<1>5. CASE UNCHANGED phoneVars
  <2>1. Quiet
    BY <1>5 DEF Quiet, ShuttersStay, SameKind, phoneVars, progVars, sockVars
  <2> QED
    BY <1>5, <2>1, QuietTidy DEF SockInv, phoneVars, progVars, sockVars
<1> QED
  BY <1>1, <1>2, <1>3, <1>4, <1>5
    DEF PhoneNext, ProgNext, ThreadMoves, NetStep, MainStep

-----------------------------------------------------------------------------

(*****************************************************************************)
(* The rest of the invariant                                                 *)
(*****************************************************************************)

\* A step of the network thread outside a destroy() leaves the main thread, the
\* program and overlap alone.
LEMMA NetMoves ==
  ASSUME SockTypeOK, ControlOK, NetStep
  PROVE  /\ ~In("net", {"done", "fault"}) /\ th'["main"] = th["main"]
         /\ UNCHANGED <<program, overlap>>
<1>0. th \in [Thread -> Posts] /\ {"net", "main"} \subseteq Thread
  BY DEF SockTypeOK, Posts, Thread
<1>1. UNCHANGED program
  BY NetSteps
    DEF NetStep, InMethod, ServerProcess, OldProcess, AnyProgram,
        SpeakerProcess, Net, SpeakerTop, SpeakerLeaves, S4Result, NextAddress,
        GetDataEnds, ConnectionLost, UseSocket, Leave, CreateListener, Listen,
        Accept, Accepted, NoListener, BeginSend, SendSome, SendFails,
        ClientGone, ServerLeaves, ServerEnds, OldTop, Check, DropGroup,
        OldLeaves, OldEnds, Hear, OldData, CloseAtExit, Join
<1>2. th'["main"] = th["main"]
  <2>1. CASE UNCHANGED th
    BY <2>1
  <2>2. CASE NetTo(NetPcs[program])
    BY <1>0, <2>2 DEF NetTo, CallDestroy
  <2> QED
    BY <2>1, <2>2, NetSteps
<1> USE DEF Net, Step, At, In, NoHistory
<1>3. CASE InMethod
  BY <1>1, <1>2, <1>3
    DEF InMethod, S4Steps, S4Connect, S4Socket, S4Start, S4Wait, S4End,
        RawSteps, RawSocket, RawStart, RawWait, RawEnd, JoinSteps, JoinGroup,
        BecomeMember
<1>4. CASE ServerProcess
  BY <1>1, <1>2, <1>4
    DEF ServerProcess, CreateListener, Listen, Accept, Accepted, NoListener,
        BeginSend, SendSome, SendFails, ClientGone, ServerLeaves, ServerEnds
<1>5. CASE OldProcess
  BY <1>1, <1>2, <1>5
    DEF OldProcess, OldTop, Check, DropGroup, OldLeaves, OldEnds, Hear,
        OldData, Leave
<1>6. CASE AnyProgram
  BY <1>1, <1>2, <1>6
    DEF AnyProgram, UdpCalls, CreateUdp, ConnectUdp, SetRsin, GCreate,
        JoinCall, Drop, CreateP2p, Idle, EndP2p, DestroyCall, Returned,
        TcpCalls, Create, SetMode, TryConnect, RawConnectSin, SinStart,
        RawConnect, I4Connect, Connect, Cancel, IsReallyConnected, SetConnected
<1>7. CASE SpeakerProcess /\ ~(CloseAtExit \/ Join)
  BY <1>1, <1>2, <1>7
    DEF SpeakerProcess, SpeakerTop, SpeakerLeaves, S4Result, NextAddress,
        GetDataEnds, ConnectionLost, UseSocket, Leave
<1> QED
  BY <1>3, <1>4, <1>5, <1>6, <1>7 DEF NetStep

\* A step of a destroy() moves one thread: to the next place of the destroy(),
\* or back to the caller with the socket not open.
LEMMA DestroyMoves ==
  ASSUME SockTypeOK, ControlOK, NEW t \in Thread, Destroying(t)
  PROVE  /\ In(t, ClosePcs)
         /\ \A u \in Thread \ {t} : th'[u] = th[u]
         /\ \A o \in Obj \ {th[t].on} : sk'[o].fd = sk[o].fd
         /\ \/ /\ th'[t].at \in {"close", "store"}
               /\ th'[t].on = th[t].on /\ th'[t].back = th[t].back
               /\ sk'[th[t].on].fd = sk[th[t].on].fd
            \/ /\ th'[t] = [Thread0(th[t].back) EXCEPT !.kept = th[t].kept]
               /\ ~(sk'[th[t].on].fd > 0)
<1>0. /\ th \in [Thread -> Posts] /\ sk \in [Obj -> Sk] /\ th[t].on \in Obj
      /\ th[t].kept \in BOOLEAN
  BY DEF SockTypeOK, Posts
<1> USE DEF At, In, ClosePcs
<1>1. CASE NotOpen(t)
  BY <1>0, <1>1 DEF NotOpen, EndDestroy, IsOpen
<1>2. CASE DestroyTcp(t)
  BY <1>0, <1>2 DEF DestroyTcp, BeginClose, Posts, Sk
<1>3. CASE DestroyGroup(t)
  BY <1>0, <1>3 DEF DestroyGroup, BeginClose, Posts
<1>4. CASE Close(t)
  BY <1>0, <1>4 DEF Close, Goto, Posts
<1>5. CASE Store(t)
  BY <1>0, <1>5 DEF Store, Stored, EndDestroy, Sk, IsOpen
<1> QED
  BY <1>1, <1>2, <1>3, <1>4, <1>5 DEF Destroying

\* Every step keeps OpenWhen: by NetAwayStep for the network thread, and no
\* other thread opens anything.
LEMMA OpenWhenStep ==
  ASSUME SockInv, SockTypeOK', ControlOK', [PhoneNext]_phoneVars
  PROVE  OpenWhen'
<1>0. /\ SockTypeOK /\ ControlOK /\ OpenWhen /\ program \in Programs
      /\ program' = program /\ {"net", "main"} = Thread
      /\ {"cli", "grp", "srv"} \subseteq Obj
  BY ProgramStays DEF SockInv, SockTypeOK, Thread, Obj, TcpObj
<1>s. ASSUME th'["net"] = th["net"],
             \A o \in {"cli", "grp", "srv"} : IsOpen(o)' => IsOpen(o),
             IsOpen("srv")' = IsOpen("srv")
      PROVE  OpenWhen'
  BY <1>0, <1>s DEF OpenWhen, At, In, BackFits, HasSclient
<1>1. CASE NetStep
  BY <1>0, <1>1, NetAwayStep
    DEF OpenWhen, NetAway, At, In, HasSclient, BackFits, ClosePcs
<1>2. ASSUME InDestroy("net") PROVE OpenWhen'
  <2> DEFINE o == th["net"].on  back == th["net"].back
  <2>1. /\ Destroying("net") /\ BackFits(o, back) /\ back \in NetPcs[program]
        /\ o \in NetObjs[program]
    BY <1>0, <1>2, DestroyMoves DEF InDestroy, OpenWhen, ControlOK, NetControl
  <2>2. CASE /\ th'["net"].at \in {"close", "store"} /\ th'["net"].on = o
             /\ th'["net"].back = back
    BY <2>1, <2>2 DEF OpenWhen, At, In, BackFits
  <2>3. CASE /\ th'["net"] = [Thread0(back) EXCEPT !.kept = th["net"].kept]
             /\ ~(sk'[o].fd > 0)
    <3>1. th'["net"].at = back /\ back \notin ClosePcs
      BY <1>0, <2>1, <2>3 DEF Thread0, NetPcs, ClosePcs, Programs
    <3>2. back = "socket" \/ HasSclient => o = "cli"
      BY <1>0, <2>1 DEF NetPcs, NetObjs, Programs, HasSclient
    <3> QED
      BY <1>0, <2>1, <2>3, <3>1, <3>2
        DEF OpenWhen, At, In, BackFits, HasSclient, IsOpen
  <2> QED
    BY <1>0, <2>1, <2>2, <2>3, DestroyMoves
<1>3. ASSUME InDestroy("main") PROVE OpenWhen'
  <2>1. Destroying("main") /\ th["main"].on = "cli"
    BY <1>0, <1>3 DEF InDestroy, ControlOK, MainControl
  <2>2. /\ th'["net"] = th["net"] /\ sk'["grp"].fd = sk["grp"].fd
        /\ sk'["srv"].fd = sk["srv"].fd
        /\ IsOpen("cli")' => IsOpen("cli")
    BY <1>0, <2>1, DestroyMoves DEF IsOpen, Obj, TcpObj, Thread
  <2> QED
    BY <2>2, <1>s DEF IsOpen
<1>4. CASE MainStep
  <2>1. /\ \A o \in {"cli", "grp", "srv"} : IsOpen(o)' => IsOpen(o)
        /\ IsOpen("srv")' = IsOpen("srv")
    <3>1. CASE sk' = sk
      BY <3>1 DEF IsOpen
    <3>2. CASE sk' = [sk EXCEPT !["cli"] = NewSk]
      BY <1>0, <3>2 DEF IsOpen, NewSk, SockTypeOK
    <3> QED BY <1>4, <3>1, <3>2, MainMoves
  <2>2. CASE th'["net"] = th["net"]
    BY <2>1, <2>2, <1>s
  <2>3. CASE th'["net"] = Thread0("top") /\ At("net", "done") /\ Runs("phone")
    <3>1. ~IsOpen("cli")
      BY <1>0, <2>3 DEF OpenWhen, Runs, HasSclient, In, At
    <3> QED
      BY <1>0, <2>1, <2>3, <3>1 DEF OpenWhen, Thread0, At, In, ClosePcs
  <2> QED
    BY <1>4, <2>2, <2>3, MainMoves
<1>5. CASE UNCHANGED <<sk, th>>
  BY <1>5, <1>s DEF IsOpen
<1> QED
  BY <1>0, <1>1, <1>2, <1>3, <1>4, <1>5, OthersStep
    DEF PhoneNext, ProgNext, ThreadMoves, NetStep, MainStep, phoneVars,
        progVars, sockVars

\* Two destroy() overlap only where a main thread destroys too: in the sclient.
LEMMA OverlapsInStep ==
  ASSUME SockInv, [PhoneNext]_phoneVars
  PROVE  OverlapsIn'
<1>0. /\ SockTypeOK /\ ControlOK /\ OverlapsIn /\ program' = program
      /\ Thread = {"net", "main"}
  BY ProgramStays DEF SockInv, Thread
<1>s. overlap' = overlap => OverlapsIn'
  BY <1>0 DEF OverlapsIn, HasSclient
<1>1. CASE NetStep
  BY <1>0, <1>1, <1>s, NetMoves
<1>2. ASSUME NEW t \in Thread, InDestroy(t) PROVE OverlapsIn'
  <2>1. CASE overlap' = overlap
    BY <2>1, <1>s
  <2>2. CASE At(t, "destroy") /\ BeginClose(t)
    <3>1. CASE \E u \in Thread \ {t} : Closing(u, th[t].on)
      <4>1. In("main", ClosePcs)
        BY <1>0, <2>2, <3>1 DEF Closing, At, In, ClosePcs
      <4> QED
        BY <1>0, <4>1 DEF ControlOK, MainControl, OverlapsIn, HasSclient
    <3>2. CASE ~ \E u \in Thread \ {t} : Closing(u, th[t].on)
      <4>1. overlap' = (overlap \/ FALSE) /\ overlap \in BOOLEAN
        BY <1>0, <2>2, <3>2 DEF BeginClose, SockTypeOK
      <4> QED
        BY <4>1, <1>s
    <3> QED
      BY <3>1, <3>2
  <2> QED
    BY <1>2, <2>1, <2>2
      DEF InDestroy, Destroying, NotOpen, DestroyTcp, DestroyGroup, Close,
          Store, NoHistory
<1>3. CASE MainStep
  BY <1>3, <1>s, MainMoves
<1>4. CASE UNCHANGED overlap
  BY <1>4, <1>s
<1> QED
  BY <1>1, <1>2, <1>3, <1>4
    DEF PhoneNext, ProgNext, ThreadMoves, NetStep, MainStep, phoneVars,
        progVars, sockVars, SelectFails, Step, NoHistory, Environment, CtrlC,
        OthersOpen, OthersClose, KernelDials, PeerCloses, Outside

\* The phone's threads take turns: PhoneTurns is kept.
LEMMA PhoneTurnsStep ==
  ASSUME SockInv, [PhoneNext]_phoneVars
  PROVE  PhoneTurns'
<1>0. /\ SockTypeOK /\ ControlOK /\ OpenWhen /\ PhoneTurns
      /\ program \in Programs /\ program' = program /\ Thread = {"net", "main"}
      /\ th \in [Thread -> Posts] /\ sk \in [Obj -> Sk] /\ "cli" \in Obj
  BY ProgramStays DEF SockInv, Thread, SockTypeOK, Posts, Obj, TcpObj
<1>m. In("main", {"begin", "init"}) => Runs("phone")
  BY <1>0 DEF ControlOK, MainControl, MainPcs, In, Programs, Runs, ClosePcs
<1> USE DEF At, In
<1>s. ASSUME UNCHANGED <<sk, th, ui, started>>
      PROVE  PhoneTurns'
  BY <1>0, <1>s DEF PhoneTurns, Runs, IsOpen
<1>1. ASSUME UNCHANGED <<ui, started>>, NetStep PROVE PhoneTurns'
  <2>1. th["net"].at # "done" /\ th'["main"] = th["main"]
    BY <1>0, <1>1, NetMoves
  <2> QED
    BY <1>0, <1>m, <1>1, <2>1 DEF PhoneTurns, Runs, IsOpen
<1>2. ASSUME UNCHANGED <<ui, started>>, InDestroy("net") PROVE PhoneTurns'
  <2>1. th["net"].at # "done" /\ th'["main"] = th["main"]
    BY <1>0, <1>2, DestroyMoves DEF InDestroy, ClosePcs
  <2> QED
    BY <1>0, <1>m, <1>2, <2>1 DEF PhoneTurns, Runs, IsOpen
<1>3. ASSUME UNCHANGED <<ui, started>>, InDestroy("main") PROVE PhoneTurns'
  <2>1. /\ th["main"].at \in ClosePcs /\ th["main"].back = "await"
    BY <1>0, <1>3, DestroyMoves DEF InDestroy, ControlOK, MainControl
  <2>2. th'["main"].at \in {"close", "store", "await"}
    BY <1>0, <1>3, <2>1, DestroyMoves DEF InDestroy, Thread0
  <2> QED
    BY <1>0, <1>3, <2>1, <2>2 DEF PhoneTurns, Runs, ClosePcs
<1>4. ASSUME UNCHANGED <<ui, started>>, CloseAtExit \/ Join PROVE PhoneTurns'
  BY <1>0, <1>4
    DEF CloseAtExit, Join, CallDestroy, Goto, PhoneTurns, Runs, IsOpen, Posts
<1>5. CASE PlayerThread
  BY <1>0, <1>5
    DEF PlayerThread, Construct, InitAo, Silent, LeavePlay, Quit, Main,
        CallDestroy, Goto, PhoneTurns, Runs, IsOpen, Posts
<1>6. CASE TimerSlot
  <2>1. CASE StartThread
    <3>1. th["main"].at = "done" /\ th["net"].at = "done" /\ ~IsOpen("cli")
      BY <1>0, <2>1 DEF StartThread, Ui, PhoneTurns, OpenWhen, HasSclient, Runs
    <3> QED
      BY <1>0, <2>1, <3>1
        DEF StartThread, Ui, Goto, PhoneTurns, Runs, IsOpen, Posts
  <2>2. CASE \/ Search \/ Restart \/ JoinThread \/ SetAlive
             \/ \E found \in BOOLEAN : SearchEnds(found)
    BY <1>0, <2>2
      DEF Search, Restart, JoinThread, SetAlive, SearchEnds, Ui, PhoneTurns,
          Runs, IsOpen
  <2> QED BY <1>6, <2>1, <2>2 DEF TimerSlot
<1>7. CASE ProgNext /\ UNCHANGED shellVars
  <2>1. UNCHANGED <<ui, started>>
    BY <1>7 DEF shellVars
  <2>2. CASE Environment
    BY <2>1, <2>2, <1>s
      DEF Environment, CtrlC, OthersOpen, OthersClose, KernelDials, PeerCloses,
          Outside
  <2> QED
    BY <1>0, <1>7, <2>1, <2>2, <1>1, <1>2, <1>3, <1>4
      DEF ProgNext, ThreadMoves, NetStep
<1> QED
  BY <1>5, <1>6, <1>7, <1>s
    DEF PhoneNext, SelectFails, shellVars, phoneVars, progVars, sockVars

-----------------------------------------------------------------------------

(*****************************************************************************)
(* The theorems                                                              *)
(*****************************************************************************)

\* SockInv holds at the start.
LEMMA InitSock == PhoneInit => SockInv
<1> SUFFICES ASSUME PhoneInit PROVE SockInv
  OBVIOUS
<1>1. SockTypeOK /\ ControlOK
  BY InitTypeControl
<1>2. /\ overlap = FALSE /\ foreign = FALSE
      /\ \A o \in Obj : sk[o].fd = -1
      /\ th["net"].at \in {"top", "create", "done"}
      /\ th["main"].at \in {"play", "done"}
      /\ program = "phone" => th["main"].at = "done" /\ th["net"].at = "done"
      /\ program \in Programs
  BY DEF PhoneInit, ProgInit, SockInit, Thread0, Thread, Programs, Runs
<1>3. file \in [Fd -> {Free, New("stdin", "others")}]
  BY DEF PhoneInit, ProgInit, SockInit
<1>4. KindsFit
  BY <1>3 DEF KindsFit, Free, New
<1>5. \A n \in Fd : file[n].by \notin Obj
  BY <1>3 DEF Free, New, Obj, TcpObj
<1>6. \A o \in Obj : ~IsOpen(o)
  BY <1>2 DEF IsOpen
<1>7. {"cli", "grp", "srv", "p2p"} \subseteq Obj /\ Thread = {"net", "main"}
  BY DEF Obj, TcpObj, Thread
<1>8. OpenWhen
  BY <1>2, <1>6, <1>7 DEF OpenWhen, At, In, ClosePcs
<1>9. PhoneTurns
  BY <1>2, <1>6, <1>7 DEF PhoneTurns, At, In, Runs
<1>10. Tidy
  BY <1>2, <1>5, <1>6, <1>7 DEF Tidy, At, In, Shutting, Closing
<1> QED
  BY <1>1, <1>2, <1>4, <1>8, <1>9, <1>10 DEF SockInv, OverlapsIn

\* And it is kept by every step.
LEMMA SockStep ==
  ASSUME SockInv, [PhoneNext]_phoneVars
  PROVE  SockInv'
<1>1. SockTypeOK' /\ ControlOK'
  BY TypeStep, ControlStep DEF SockInv
<1> QED
  BY <1>1, OverlapsInStep, TidyStep, OpenWhenStep, PhoneTurnsStep DEF SockInv

\* The inductive invariant of the sockets: types, control and, while no two
\* destroy() of one object overlap, exact ownership of every descriptor.
THEOREM SockInvariant == PhoneSpec => []SockInv
<1>1. PhoneInit => SockInv
  BY InitSock
<1>2. SockInv /\ [PhoneNext]_phoneVars => SockInv'
  BY SockStep
<1> QED
  BY <1>1, <1>2, PTL DEF PhoneSpec

\* No descriptor is lost, through every failure of every call of sock.cpp, but
\* number 0 and what an overlap of the sclient's two destroy() leaves behind.
THEOREM SockLosesNothing == PhoneSpec => []NothingLost
<1>1. SockInv => NothingLost
  BY DEF SockInv, Tidy, NothingLost
<1> QED
  BY <1>1, SockInvariant, PTL

\* No object closes a descriptor that is not its own but after such an overlap:
\* the hazard of the unsynchronised sclient::_sock.destroy().
THEOREM SockClosesItsOwn == PhoneSpec => []ClosesOnlyItsOwn
<1>1. SockInv => ClosesOnlyItsOwn
  BY DEF SockInv, Tidy, ClosesOnlyItsOwn
<1> QED
  BY <1>1, SockInvariant, PTL
==============================================================================
