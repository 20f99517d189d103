----------------------------- MODULE SockCalls -----------------------------
(***************************************************************************)
(* The interface of the socket classes (common/sock.h): what a program may *)
(* call on a tcp_cli_sock, a udp_group_sock and a udp_p2p, in any order    *)
(* the assertions let it.  A call of one thread, cut only where it waits.  *)
(*                                                                         *)
(* Left out because they give a descriptor to two objects, or to none:     *)
(* attach(), detach(), socket() as an lvalue and copies.  join() and       *)
(* gcreate() forget an open socket, and destroy() of a udp_p2p does not    *)
(* forget a closed one: a caller calls them only on a closed group, and    *)
(* leaves destroy() to ~udp_p2p.                                           *)
(***************************************************************************)
EXTENDS Sock

Idle(t) == Step(t, "top")
Flags(o, connected, connecting) ==
    [sk EXCEPT ![o].connected = connected, ![o].connecting = connecting]
Return(t) == Goto(t, "top")

-----------------------------------------------------------------------------
(* tcp_cli_sock.                                                           *)

\* create(): an object that holds number 0 counts as closed.
Create(t) ==
    /\ Idle(t) /\ ~IsOpen("cli")
    /\ OpenSocket("cli", "fresh")
    /\ Return(t)

SetMode(t) ==
    /\ Idle(t)
    /\ \E blocks \in BOOLEAN : SetBlocking("cli", blocks)
    /\ Return(t)

\* try_connect(): in the mode the object remembers, and never waited for.
TryConnect(t) ==
    LET n == sk["cli"].fd
        table == Fcntl(file, n, sk["cli"].blocks)
    IN
    /\ Idle(t) /\ IsOpen("cli")
    /\ \/ UNCHANGED <<file, sk>>        \* the name has no address
       \/ /\ Is("cli", {"fresh", "refused"})
          /\ \E result \in {"up", "refused", "dialing"} :
                /\ sk["cli"].blocks => result # "dialing"
                /\ file' = [table EXCEPT ![n].is = result]
                /\ sk' = [sk EXCEPT !["cli"].connecting = (result = "dialing")]
       \/ /\ file' = table
          /\ sk' = [sk EXCEPT !["cli"].connecting = FALSE]
    /\ Return(t)

\* raw_connect_sin(): to where raw_sethost() said; not waited for.
RawConnectSin(t) ==
    /\ Idle(t) /\ ~IsOpen("cli")
    /\ OpenToConnect("cli")
    /\ IF TableFull THEN Return(t)
       ELSE th' = [th EXCEPT ![t].at = "sin", ![t].kept = sk["cli"].blocks]

SinStart(t) ==
    /\ Step(t, "sin")
    /\ StartConnect(t, "rawend", "rawend", Goto(t, "rawend"))

RawConnect(t) == Idle(t) /\ OnlyGoto(t, "raw")

I4Connect(t) == Idle(t) /\ OnlyGoto(t, "dial")

\* connect() by name: says so before it knows an address.
Connect(t) ==
    /\ Idle(t)
    /\ \E found \in BOOLEAN :
          /\ sk' = [sk EXCEPT !["cli"].connecting = found]
          /\ GotoIf(t, found, "dial", "top")
    /\ UNCHANGED file

\* The callback ends the wait before its first look, and what is under way is
\* destroyed, or after it, and the socket is returned as if connected.  With
\* (void*)-1 for the callback's data nothing is waited for.
Cancel(t) ==
    /\ Step(t, "wait")
    /\ \/ OnlyDestroy(t, "cli", "unblock")
       \/ /\ sk' = [sk EXCEPT !["cli"].connecting = FALSE]
          /\ Goto(t, "unblock") /\ UNCHANGED file
       \/ OnlyGoto(t, "unblock")

IsReallyConnected(t) ==
    /\ Idle(t) /\ HasPeer("cli")
    /\ sk' = [sk EXCEPT !["cli"].connected = TRUE]
    /\ Return(t) /\ UNCHANGED file

\* A caller says so of a connection that it found writable.
SetConnected(t) ==
    /\ Idle(t) /\ HasPeer("cli")
    /\ sk' = Flags("cli", TRUE, FALSE)
    /\ Return(t) /\ UNCHANGED file

-----------------------------------------------------------------------------
(* udp_sock and udp_group_sock.                                            *)

CreateUdp(t) ==
    /\ Idle(t) /\ ~IsOpen("grp")
    /\ OpenSocket("grp", "dgram")
    /\ Return(t)

\* connect(): a datagram socket is always writable; or the callback ends it.
ConnectUdp(t) ==
    /\ Idle(t) /\ IsOpen("grp")
    /\ \/ sk' = Flags("grp", TRUE, FALSE) /\ Return(t)
       \/ sk' = Flags("grp", FALSE, FALSE) /\ CallDestroy(t, "grp", "top")
    /\ UNCHANGED file

\* set_rsin().
SetRsin(t) ==
    /\ Idle(t)
    /\ sk' = Flags("grp", FALSE, FALSE)
    /\ Return(t) /\ UNCHANGED file

\* gcreate(): what an option refuses stays open, what cannot be bound is an
\* assertion's, what has no time to live is destroyed.
GCreate(t) ==
    /\ Idle(t) /\ sk["grp"].fd = -1
    /\ \/ /\ TableFull /\ Return(t)
          /\ sk' = [sk EXCEPT !["grp"].member = FALSE]
          /\ UNCHANGED file
       \/ /\ ~TableFull
          /\ file' = [file EXCEPT ![Lowest] = New("dgram", "grp")]
          /\ sk' = [sk EXCEPT !["grp"].member = FALSE, !["grp"].fd = Lowest]
          /\ Return(t) \/ Goto(t, "fault") \/ CallDestroy(t, "grp", "top")

JoinCall(t) == Idle(t) /\ sk["grp"].fd = -1 /\ OnlyGoto(t, "join")

Drop(t) ==
    /\ Idle(t) /\ sk["grp"].member
    /\ sk' = [sk EXCEPT !["grp"].member = FALSE]
    /\ Return(t) /\ UNCHANGED file

-----------------------------------------------------------------------------
(* udp_p2p.                                                                *)

\* create() on a new object: what cannot be bound stays open.
CreateP2p(t) ==
    /\ Idle(t) /\ sk["p2p"].fd = -1
    /\ OpenSocket("p2p", "dgram")
    /\ Return(t)

\* ~udp_p2p closes once, whatever close() says; the next object is new.
EndP2p(t) ==
    LET n == sk["p2p"].fd IN
    /\ At(t, "top") /\ n # -1
    /\ file' = [file EXCEPT ![n] = Free]
    /\ foreign' = (foreign \/ file[n].by # "p2p")
    /\ sk' = [sk EXCEPT !["p2p"].fd = -1]
    /\ UNCHANGED <<th, overlap>>

-----------------------------------------------------------------------------

DestroyCall(t, o) == Idle(t) /\ OnlyDestroy(t, o, "top")

Returned(t) ==
    /\ NoHistory
    /\ th[t].at \in {"dialed", "check", "joined"}
    /\ OnlyGoto(t, "top")

TcpCalls(t) ==
    \/ Create(t) \/ SetMode(t) \/ TryConnect(t) \/ RawConnectSin(t)
    \/ SinStart(t) \/ RawConnect(t) \/ I4Connect(t) \/ Connect(t) \/ Cancel(t)
    \/ IsReallyConnected(t) \/ SetConnected(t)
    \/ DestroyCall(t, "cli") \/ Returned(t)

UdpCalls(t) ==
    \/ CreateUdp(t) \/ ConnectUdp(t) \/ SetRsin(t)
    \/ GCreate(t) \/ JoinCall(t) \/ Drop(t)
    \/ CreateP2p(t) \/ EndP2p(t)
    \/ DestroyCall(t, "grp") \/ Returned(t)
=============================================================================
