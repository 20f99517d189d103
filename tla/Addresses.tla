----------------------------- MODULE Addresses -----------------------------
(***************************************************************************)
(* How addresses are compared (SADDR_46 of common/sock.h): udp_sock::send  *)
(* looks with == whether it is to send to the peer it is connected to, and *)
(* < is there for sets and maps of addresses.  An address is an IP and a   *)
(* mask, as the sets of their bits, and a port; port 0 stands for any.     *)
(***************************************************************************)
EXTENDS Integers

Bit == 0 .. 31
Port == {n \in Nat : n < 2^16}
Addr == [ip : SUBSET Bit, mask : SUBSET Bit, port : Port]

\* The bits of a number whose bytes are swapped.
Htonl(bits) == {8 * (3 - (b \div 8)) + (b % 8) : b \in bits}

\* One host, and the range that from_string() makes of "ip/n": n counts the
\* bits that are not looked at, from the right of the address as it is written.
Host(ip, port) == [ip |-> ip, mask |-> Bit, port |-> port]
FromString(ip, n, port) == [ip |-> ip, mask |-> Htonl(n .. 31), port |-> port]

Masked(a, b) == a.ip \cap a.mask \cap b.mask
SameRange(a, b) == Masked(a, b) = Masked(b, a)
SomePortIsAny(a, b) == a.port = 0 \/ b.port = 0

IsEqual(a, b, porttoo) == SameRange(a, b) /\ (porttoo => a.port = b.port)
Equal(a, b) == SameRange(a, b) /\ (SomePortIsAny(a, b) \/ a.port = b.port)
Differ(a, b) == ~ SameRange(a, b) \/ a.port # b.port

\* The numbers with these bits.
Below(A, B) == \E k \in B \ A : \A j \in Bit : j > k => (j \in A <=> j \in B)

Less(a, b) ==
    \/ Below(Masked(a, b), Masked(b, a))
    \/ SameRange(a, b) /\ ~SomePortIsAny(a, b) /\ a.port < b.port
Greater(a, b) ==
    \/ Below(Masked(b, a), Masked(a, b))
    \/ SameRange(a, b) /\ ~SomePortIsAny(a, b) /\ a.port > b.port
=============================================================================
