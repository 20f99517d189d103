------------------------------ MODULE UdpPeer ------------------------------
(***************************************************************************)
(* Whom a udp_sock or a udp_group_sock (common/sock.cpp) talks to: the     *)
(* address _remote_sin that its methods share, and the peer that the       *)
(* kernel has for its descriptor.  Any order of calls; a caller names      *)
(* hosts.  Left out: remote() and SetRsin(), which copy over the address;  *)
(* receive() with an address of the caller's, which changes no field.      *)
(***************************************************************************)
EXTENDS Addresses

VARIABLES
    group,      \* it is a udp_group_sock
    connected, bind, remote,    \* _connected, _bind, _remote_sin
    peer,       \* the kernel's peer of the descriptor, or none
    sent,       \* history: whom the last datagram was for, and where it went
    slip        \* history: something has parted the two, see GoesWhereAsked

udpVars == <<group, connected, bind, remote, peer, sent, slip>>

Hosts == {Host(ip, port) : ip \in SUBSET Bit, port \in Port}

\* IP and port are written over; the mask stays.
Onto(a) == [remote EXCEPT !.ip = a.ip, !.port = a.port]

\* A connected descriptor receives from its peer alone.
MaySend == IF peer = {} THEN Hosts ELSE peer

UdpInit ==
    /\ group \in BOOLEAN
    /\ connected = FALSE /\ bind = FALSE
    /\ remote = Host({}, 0)
    /\ peer = {}
    /\ sent = [asked |-> {}, went |-> {}]
    /\ slip = FALSE

Unsent == UNCHANGED <<group, sent>>

-----------------------------------------------------------------------------

\* join() and gcreate(): a new descriptor, bound to an address.
BindGroup(a) ==
    /\ group /\ ~connected
    /\ remote' = Onto(a) /\ peer' = {}
    /\ UNCHANGED <<connected, bind, slip>> /\ Unsent

SetRsin(a) ==
    /\ connected' = FALSE /\ bind' = TRUE
    /\ remote' = Onto(a)
    /\ UNCHANGED <<peer, slip>> /\ Unsent

\* What ::connect() answers is not looked at, and the descriptor is writable
\* either way: it has the new peer, or the one from before.
Connect(a) ==
    /\ remote' = Onto(a)
    /\ \/ connected' = TRUE /\ peer' = {a} /\ slip' = slip
       \/ connected' = TRUE /\ peer' = peer /\ slip' = TRUE
       \/ connected' = FALSE /\ peer' = {} /\ slip' = slip  \* destroy()
    /\ UNCHANGED bind /\ Unsent

Destroy ==
    /\ connected' = FALSE /\ peer' = {}
    /\ UNCHANGED <<bind, remote, slip>> /\ Unsent

\* send() to a port and an IP, which only an object that is neither connected
\* nor bound looks at; and it goes where the address then says.
Send(a) ==
    /\ ~group
    /\ remote' = IF connected \/ bind THEN remote ELSE Onto(a)
    /\ UNCHANGED <<connected, bind, peer, slip>> /\ Unsent

GroupSend(a) ==
    /\ group
    /\ remote' = Onto(a)
    /\ slip' = (slip \/ connected)
    /\ UNCHANGED <<connected, bind, peer>> /\ Unsent

\* Where send() to an address goes: by ::send() if that is the peer's.
Way(a) == IF connected /\ Equal(a, remote) THEN peer ELSE {a}

SendTo(a) ==
    /\ sent' = [asked |-> {a}, went |-> Way(a)]
    /\ UNCHANGED <<group, connected, bind, remote, peer, slip>>

\* sendall() goes to the object's address, connected or not.
Believed == {Host(remote.ip, remote.port)}

SendAll ==
    /\ sent' = [asked |-> IF connected THEN peer ELSE Believed, went |-> Believed]
    /\ UNCHANGED <<group, connected, bind, remote, peer, slip>>

\* receive() of a bound object: from now on it sends to whoever was heard.
ReceiveBound(s) ==
    /\ bind /\ s \in MaySend
    /\ remote' = Onto(s)
    /\ UNCHANGED <<connected, bind, peer, slip>> /\ Unsent

\* receive() for an address, of which the sender takes the place, if one is
\* heard; or for none, as select_receive() calls it, and then the mask is
\* cleared with the rest.
Receive(a) ==
    /\ ~group /\ ~connected
    /\ \/ remote' = Onto(a) /\ slip' = slip
       \/ remote' = [ip |-> a.ip, mask |-> {}, port |-> a.port] /\ slip' = TRUE
    /\ UNCHANGED <<connected, bind, peer>> /\ Unsent

\* The same of a group: the sender's, or the group's with the sender's port.
GroupReceive(a) ==
    /\ group
    /\ remote' = Onto(a)
    /\ slip' = (slip \/ connected)
    /\ UNCHANGED <<connected, bind, peer>> /\ Unsent

UdpNext ==
    \/ Destroy \/ SendAll
    \/ \E a \in Hosts :
          \/ BindGroup(a) \/ SetRsin(a) \/ Connect(a) \/ Send(a) \/ GroupSend(a)
          \/ SendTo(a) \/ ReceiveBound(a) \/ Receive(a) \/ GroupReceive(a)

UdpSpec == UdpInit /\ [][UdpNext]_udpVars

-----------------------------------------------------------------------------
(* Properties.                                                             *)

\* A datagram for a host does not go to another one, whatever was connected,
\* bound and received before, unless one of three things has happened: a
\* ::connect() failed unseen; receive() was called for no address, which
\* leaves a mask that equals any host; a connected group sent or received.
GoesWhereAsked ==
    ~slip => \A p \in sent.went, q \in sent.asked : p.ip = q.ip

\* What a connected object believes of its peer is so, until then.
PeerIsRemote == connected /\ ~slip => peer = Believed
=============================================================================
