----------------------------- MODULE MCDiscovery -----------------------------
(* One address that the server's machine gets and loses, up to two          *)
(* interfaces of the speaker's, and two rounds of two polls.                *)
EXTENDS Discovery
=============================================================================
