-------------------------------- MODULE Sock --------------------------------
(***************************************************************************)
(* The socket classes of common/sock.cpp over the descriptor table of one  *)
(* process.  An object is a plain int, _thesock, that names a descriptor,  *)
(* and flags that say what the object believes of it; the kernel gives out *)
(* the lowest free number and knows nothing of objects.  Each method is    *)
(* cut where another thread may come between its looks at _thesock.        *)
(*                                                                         *)
(* A thread is at a step of a method or of its program; a method that is   *)
(* called goes back to the label it was given.                             *)
(***************************************************************************)
EXTENDS Integers, FiniteSetsExt

CONSTANTS
    MaxFd,          \* bound: the descriptors are 0 .. MaxFd
    CloseTries      \* how often sock::destroy tries to close: 32

ASSUME MaxFdAssumption == MaxFd \in Nat \ {0}
ASSUME CloseTriesAssumption == CloseTries \in Nat \ {0}

Fd == 0 .. MaxFd
TcpObj == {"cli", "srv", "acc"}     \* tcp_cli_sock, tcp_srv_sock, an accepted one
Obj == TcpObj \union {"grp", "p2p"} \* udp_group_sock, udp_p2p
Thread == {"net", "main"}

VARIABLES
    file,       \* the table: what each descriptor is, its mode, who opened it
    sk,         \* the fields of each object
    th,         \* where each thread is, and what it is doing there
    overlap,    \* history: two destroy() of one object were closing at once
    foreign     \* history: an object closed what it had not opened

sockVars == <<file, sk, th, overlap, foreign>>

Files == [is : {"free", "stdin", "other", "fresh", "listen", "dgram",
                "dialing", "up", "refused", "gone"},
          blocks : BOOLEAN, by : Obj \union {"others", "none"}]
Free == [is |-> "free", blocks |-> TRUE, by |-> "none"]
New(kind, o) == [is |-> kind, blocks |-> TRUE, by |-> o]

Sk == [fd : Fd \union {-1}, blocks : BOOLEAN, connected : BOOLEAN,
       connecting : BOOLEAN, member : BOOLEAN]

SockInit ==
    /\ file \in {[n \in Fd |-> IF n = 0 THEN stdin ELSE Free] :
                    stdin \in {Free, New("stdin", "others")}}
    /\ sk = [o \in Obj |-> [fd |-> -1, blocks |-> FALSE, connected |-> FALSE,
                            connecting |-> FALSE, member |-> FALSE]]
    /\ overlap = FALSE /\ foreign = FALSE

IsOpen(o) == sk[o].fd > 0
Bad(n) == IF n \in Fd THEN file[n].is = "free" ELSE TRUE      \* EBADF
Is(o, kinds) == sk[o].fd \in Fd /\ file[sk[o].fd].is \in kinds

TableFull == \A n \in Fd : file[n].is # "free"
Lowest == Min({n \in Fd : file[n].is = "free"})

\* A thread that is in no method.
Thread0(label) == [at |-> label, on |-> "cli", back |-> "done", tries |-> 0,
                   kept |-> FALSE]

At(t, label) == th[t].at = label
Goto(t, label) == th' = [th EXCEPT ![t].at = label]
GotoIf(t, test, yes, no) == Goto(t, IF test THEN yes ELSE no)
NoHistory == UNCHANGED <<overlap, foreign>>

-----------------------------------------------------------------------------
(* Modes.                                                                  *)

\* The table after fcntl() on n, which is not called for descriptor 0.
Fcntl(table, n, blocks) ==
    IF n > 0 /\ table[n].is # "free" THEN [table EXCEPT ![n].blocks = blocks]
    ELSE table

\* set_blocking(): the object remembers the mode, open or not.
SetBlocking(o, blocks) ==
    /\ sk' = [sk EXCEPT ![o].blocks = blocks]
    /\ file' = Fcntl(file, sk[o].fd, blocks)

-----------------------------------------------------------------------------
(* destroy().                                                              *)

CallDestroy(t, o, ret) ==
    th' = [th EXCEPT ![t].at = "destroy", ![t].on = o, ![t].back = ret]

EndDestroy(t) ==
    th' = [th EXCEPT ![t] = [Thread0(@.back) EXCEPT !.kept = th[t].kept]]

Closing(t, o) == th[t].on = o /\ th[t].at \in {"close", "store"}

BeginClose(t) ==
    /\ th' = [th EXCEPT ![t].at = "close", ![t].tries = CloseTries]
    /\ overlap' = (overlap \/ \E u \in Thread \ {t} : Closing(u, th[t].on))
    /\ UNCHANGED foreign

NotOpen(t) ==
    /\ At(t, "destroy") /\ th[t].on \in TcpObj
    /\ ~IsOpen(th[t].on)
    /\ EndDestroy(t)
    /\ UNCHANGED <<file, sk>> /\ NoHistory

FaultyDestroyTcp(t) ==
    LET o == th[t].on  n == sk[o].fd IN
    /\ At(t, "destroy") /\ o \in TcpObj
    /\ IsOpen(o)
    /\ file' = Fcntl(file, n, sk[o].blocks)
    /\ BeginClose(t)
    /\ UNCHANGED sk

\* The TCP classes: nothing at all if not open; else the flags are cleared,
\* and what has come is drained without blocking.  The shutdown(fd, 0x3) does
\* nothing: how is 0, 1 or 2, and 3 is EINVAL.
DestroyTcp(t) ==
    LET o == th[t].on  n == sk[o].fd IN
    /\ At(t, "destroy") /\ o \in TcpObj
    /\ IsOpen(o)
    /\ sk' = [sk EXCEPT ![o].connected = FALSE, ![o].connecting = FALSE]
    /\ file' = Fcntl(file, n, sk[o].blocks)
    /\ BeginClose(t)

\* The group leaves its group, but does not forget that it was a member.
DestroyGroup(t) ==
    /\ At(t, "destroy") /\ th[t].on = "grp"
    /\ BeginClose(t)
    /\ UNCHANGED <<file, sk>>

FaultyOneTry(t) == th[t].tries

\* sock::destroy looks at _thesock before the loop and in each close().
TriesLeft(t) == th[t].tries - 1

Close(t) ==
    LET o == th[t].on
        n == sk[o].fd
        first == th[t].tries = CloseTries
    IN
    /\ At(t, "close")
    /\ \/ /\ n <= 0 /\ first
          /\ Goto(t, "store")
          /\ UNCHANGED <<file, foreign>>
       \/ /\ ~(n <= 0 /\ first) /\ ~Bad(n)
          /\ file' = [file EXCEPT ![n] = Free]
          /\ foreign' = (foreign \/ file[n].by # o)
          /\ Goto(t, "store")
       \/ /\ ~(n <= 0 /\ first) /\ Bad(n)
          /\ th' = [th EXCEPT ![t].tries = TriesLeft(t),
                              ![t].at = IF TriesLeft(t) > 0 THEN "close"
                                        ELSE "store"]
          /\ UNCHANGED <<file, foreign>>
    /\ UNCHANGED <<sk, overlap>>

FaultyStored(o) == sk
\* The destroy() of UDP ends with its flag.
Stored(o) == [sk EXCEPT ![o].fd = -1,
                        ![o].connected = @ /\ o # "grp"]

Store(t) ==
    /\ At(t, "store")
    /\ sk' = Stored(th[t].on)
    /\ EndDestroy(t)
    /\ UNCHANGED file /\ NoHistory

Destroying(t) ==
    NotOpen(t) \/ DestroyTcp(t) \/ DestroyGroup(t) \/ Close(t) \/ Store(t)

-----------------------------------------------------------------------------
(* Opening.                                                                *)

\* socket(), and what it returns in _thesock, whatever was there before.
OpenSocket(o, kind) ==
    \/ /\ ~TableFull
       /\ file' = [file EXCEPT ![Lowest] = New(kind, o)]
       /\ sk' = [sk EXCEPT ![o].fd = Lowest]
    \/ /\ TableFull
       /\ file' = file
       /\ sk' = [sk EXCEPT ![o].fd = -1]

\* The same, and at once set_blocking() of s4connect or not, and the
\* bio_unblock of a connect: the caller's mode is kept aside.
OpenToConnect(o) ==
    LET n == IF TableFull THEN -1 ELSE Lowest IN
    /\ file' = IF TableFull THEN file
               ELSE Fcntl([file EXCEPT ![n] = New("fresh", o)], n, FALSE)
    /\ sk' = [sk EXCEPT ![o].fd = n,
                        ![o].blocks = IF TableFull THEN @ ELSE FALSE]

\* is_really_connected(), when the answer is not yet known.
HasPeer(o) == IsOpen(o) /\ Is(o, {"up", "gone"})

\* connect() without waiting: under way, or done, or it fails at once.  A
\* socket that was refused may be tried again.
StartConnect(t, wait, end, fail) ==
    \/ /\ Is("cli", {"fresh", "refused"})
       /\ \E result \in {"dialing", "up"} :
             /\ result = "up" \/ file[sk["cli"].fd].blocks = FALSE
             /\ file' = [file EXCEPT ![sk["cli"].fd].is = result]
             /\ sk' = [sk EXCEPT !["cli"].connecting = (result = "dialing")]
             /\ GotoIf(t, result = "dialing", wait, end)
    \/ fail /\ UNCHANGED <<file, sk>>

\* Writable, and so taken for connected: also what was refused.
Writable(o) == Is(o, {"up", "refused", "gone"})

\* ~bio_unblock: the caller's mode again.
EndConnect(t, ret) ==
    /\ SetBlocking("cli", th[t].kept)
    /\ th' = [th EXCEPT ![t] = Thread0(ret)]

\* The steps below leave the history alone, but for the destroys they call.
Step(t, label) == At(t, label) /\ NoHistory
OnlyGoto(t, label) == Goto(t, label) /\ UNCHANGED <<file, sk>>
OnlyDestroy(t, o, ret) == CallDestroy(t, o, ret) /\ UNCHANGED <<file, sk>>

FaultyS4Connect(t) == Step(t, "dial") /\ OnlyGoto(t, "socket")

\* s4connect and i4connect: what is left of an earlier connection goes first.
S4Connect(t) ==
    /\ Step(t, "dial")
    /\ IF sk["cli"].fd # -1 THEN OnlyDestroy(t, "cli", "socket")
       ELSE OnlyGoto(t, "socket")

S4Socket(t) ==
    /\ Step(t, "socket")
    /\ OpenToConnect("cli")
    /\ th' = [th EXCEPT ![t].at = IF TableFull THEN "dialed" ELSE "connect",
                        ![t].kept = ~TableFull /\ sk["cli"].blocks]

S4Start(t) ==
    /\ Step(t, "connect")
    /\ StartConnect(t, "wait", "unblock", CallDestroy(t, "cli", "unblock"))

\* The select loop.  If the other thread has destroyed the socket FD_SET
\* writes out of its set: the program dies, or the loop goes on until the
\* 2000 s of DefCBCall are over.
S4Wait(t) ==
    /\ Step(t, "wait")
    /\ Writable("cli") \/ Is("cli", {"stdin", "other"}) \/ sk["cli"].fd = -1
    /\ \/ /\ sk' = [sk EXCEPT !["cli"].connecting = FALSE]
          /\ Goto(t, "unblock")
       \/ /\ sk["cli"].fd = -1
          /\ Goto(t, "fault")
          /\ UNCHANGED sk
    /\ UNCHANGED file

S4End(t) ==
    /\ Step(t, "unblock")
    /\ EndConnect(t, "dialed")

S4Steps(t) == S4Connect(t) \/ S4Socket(t) \/ S4Start(t) \/ S4Wait(t) \/ S4End(t)

\* raw_connect opens a socket only if the object has none, 0 not being none.
RawSocket(t) ==
    LET none == sk["cli"].fd = -1 IN
    /\ Step(t, "raw")
    /\ IF none THEN OpenToConnect("cli") ELSE SetBlocking("cli", FALSE)
    /\ IF none /\ TableFull THEN Goto(t, "check")
       ELSE th' = [th EXCEPT ![t].at = "rawstart", ![t].kept = sk["cli"].blocks]

RawStart(t) ==
    /\ Step(t, "rawstart")
    /\ StartConnect(t, "rawwait", "rawend", Goto(t, "rawend"))

\* Two seconds, no longer.
RawWait(t) ==
    /\ Step(t, "rawwait")
    /\ sk' = [sk EXCEPT !["cli"].connecting = ~Writable("cli")]
    /\ Goto(t, "rawend")
    /\ UNCHANGED file

RawEnd(t) ==
    /\ Step(t, "rawend")
    /\ EndConnect(t, "check")

RawSteps(t) == RawSocket(t) \/ RawStart(t) \/ RawWait(t) \/ RawEnd(t)

\* join(): a socket that was not created counts as joined, and is_set() then
\* sets a bit before the set; one that cannot be bound is destroyed.
JoinGroup(t) ==
    /\ Step(t, "join")
    /\ OpenSocket("grp", "dgram")
    /\ \/ Goto(t, IF TableFull THEN "top" ELSE "member")
       \/ TableFull /\ Goto(t, "fault")
       \/ ~TableFull /\ CallDestroy(t, "grp", "top")

\* IP_ADD_MEMBERSHIP, whose failure is an assertion's.
BecomeMember(t) ==
    /\ Step(t, "member")
    /\ \/ sk' = [sk EXCEPT !["grp"].member = TRUE] /\ Goto(t, "joined")
       \/ Goto(t, "fault") /\ UNCHANGED sk
    /\ UNCHANGED file

JoinSteps(t) == JoinGroup(t) \/ BecomeMember(t)
=============================================================================
