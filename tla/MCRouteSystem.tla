---------------------------- MODULE MCRouteSystem ----------------------------
(***************************************************************************)
(* Instances of RouteSystem for TLC: one destination, an interface with    *)
(* one or two addresses, all of the same family.  The addresses of the     *)
(* interface are alike: no definition names one.                           *)
(***************************************************************************)
EXTENDS RouteSystem, TLC

CONSTANTS d1, ip1, ip2

OnlyIPv4 == {}

OnlyIPv6 == {d1, ip1}

MCRemote == [ip \in LocalIPs |-> {}]

AddressesAlike == Permutations({ip1, ip2})
=============================================================================
