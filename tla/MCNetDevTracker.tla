--------------------------- MODULE MCNetDevTracker ---------------------------
(***************************************************************************)
(* Instances of NetDevTracker for TLC: an IPv4 address with a broadcast or *)
(* peer address, and an IPv6 address.                                      *)
(***************************************************************************)
EXTENDS NetDevTracker

CONSTANTS d4, ip4, ip6, remote4

IsIPv6 == {ip6}

MCRemote == [ip \in LocalIPs |-> IF ip = ip4 THEN {remote4} ELSE {}]
=============================================================================
