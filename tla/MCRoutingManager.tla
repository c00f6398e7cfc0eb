-------------------------- MODULE MCRoutingManager --------------------------
(***************************************************************************)
(* Instances of RoutingManager for TLC: one IPv4 and one IPv6 destination, *)
(* an interface that goes up and down and loses its address of one family. *)
(***************************************************************************)
EXTENDS RoutingManager

CONSTANTS d4, d6, ip4, ip6

IsIPv6 == {d6, ip6}

Up(ips) == [EmptyConfig EXCEPT !.isUp = TRUE, !.localIPs = ips]

Down == [EmptyConfig EXCEPT !.localIPs = {ip4, ip6}]

DownUp  == {Down, Up({ip4, ip6})}
MCConfigs == {Down, Up({ip4}), Up({ip4, ip6})}
=============================================================================
