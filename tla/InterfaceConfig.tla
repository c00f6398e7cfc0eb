--------------------------- MODULE InterfaceConfig ---------------------------
(***************************************************************************)
(* The value class InterfaceConfig: what is known of the tracked network   *)
(* interface.  Every operation returns a new value; the program stores the *)
(* current one in an ImmutableStorage and reads it back with Get().        *)
(*                                                                         *)
(* An address is an element of any set; the addresses of V6 are the IPv6   *)
(* ones, all others are IPv4.  Addresses reported by the kernel always     *)
(* have one of the two lengths IPAddress accepts, so isValid is TRUE.      *)
(***************************************************************************)
CONSTANT V6        \* the addresses whose isV6 is TRUE

isV6(ip) == ip \in V6

\* All the configurations whose addresses are drawn from ips.
Config(ips) ==
  [isUp : BOOLEAN, isPtP : BOOLEAN, localIPs : SUBSET ips, remoteIPs : SUBSET ips]

\* The default constructor: an interface nothing is known of.
EmptyConfig ==
  [isUp |-> FALSE, isPtP |-> FALSE, localIPs |-> {}, remoteIPs |-> {}]

AddLocalIP(cfg, ip)  == [cfg EXCEPT !.localIPs  = @ \cup {ip}]
DelLocalIP(cfg, ip)  == [cfg EXCEPT !.localIPs  = @ \ {ip}]
AddRemoteIP(cfg, ip) == [cfg EXCEPT !.remoteIPs = @ \cup {ip}]
DelRemoteIP(cfg, ip) == [cfg EXCEPT !.remoteIPs = @ \ {ip}]
SetState(cfg, up)    == [cfg EXCEPT !.isUp  = up]
SetType(cfg, ptp)    == [cfg EXCEPT !.isPtP = ptp]

isIPV4Avail(cfg) == cfg.isUp /\ \E ip \in cfg.localIPs : ~isV6(ip)
isIPV6Avail(cfg) == cfg.isUp /\ \E ip \in cfg.localIPs : isV6(ip)

\* The test every caller makes before it pushes a route to dest: is the
\* family of dest available on the interface?
FamilyAvail(cfg, dest) ==
  \/ ~isV6(dest) /\ isIPV4Avail(cfg)
  \/ isV6(dest) /\ isIPV6Avail(cfg)
=============================================================================
