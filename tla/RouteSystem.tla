----------------------------- MODULE RouteSystem -----------------------------
(***************************************************************************)
(* The routing manager, the tracker and the kernel's routing table.        *)
(*                                                                         *)
(* The manager's requests change the table; the kernel announces changes   *)
(* of the program's unicast routes on the tracker's socket; the tracker    *)
(* passes them to the manager, whose handlers run in the tracker's thread. *)
(* The announcements are the manager's only view of the table: it never    *)
(* reads the kernel's answers to its requests, nor the table itself.       *)
(*                                                                         *)
(* The table is external.  An IPv4 route through an interface that goes    *)
(* down disappears without an announcement, and so it does when the        *)
(* interface loses its last IPv4 address.  The removal of an IPv6 route is *)
(* announced, after that of the link.  A blackhole route is announced as   *)
(* well, but the tracker's filter drops it, so that is left out.  Any      *)
(* request may come to nothing: send() fails, or the kernel refuses it (no *)
(* gateway, interface down).  If the route is there already the kernel may *)
(* or may not announce it again.  Somebody else may add or remove the      *)
(* unicast route.                                                          *)
(***************************************************************************)
EXTENDS Integers, Sequences, FiniteSets, Bags, InterfaceConfig

CONSTANTS
  Dests, LocalIPs, RemoteIPs, Remote, IsPtP,
  TTLs, ExtraTTL, MgInterval, MgPercent, AddRetryCount, FloatBits,
  MayFail,                                 \* the types of requests that may fail
  Leftovers,                               \* what previous runs may have left behind
  QueueMax, MaxIdx, MaxTime, MaxMarks,     \* BOUNDS of the two components
  MaxChanges,                              \* BOUND: changes of the interface
  MaxAdmin                                 \* BOUND: changes by somebody else, none
                                           \* of them after a restart

Kinds == {"unicast", "blackhole"}

ASSUME BoundsAssumption ==
  /\ Leftovers \subseteq SUBSET Kinds /\ MaxChanges \in Nat /\ MaxAdmin \in Nat
  /\ MayFail \subseteq {"addBlackhole", "addUnicast", "delUnicast", "delBlackhole"}

VARIABLES
  curTime, started, shutdownPending, worker, prev, remCnt, caller, ifCfg,
  routes, netlink,
  tracker, seen, cfg, out, shutdownRequested, reported, iface, queue, overrun,
  fib,        \* external: the routes to each destination
  inherited,  \* history: the routes a previous run left to each of them
  lost,       \* history: requests that failed, their effect still missing
  missed,     \* history: IPv4 destinations whose route is gone, and the tracker
              \* may not come to know of it (see Watch)
  changes,    \* external: changes left to the interface
  admin,      \* external: changes left to somebody else
  origin,     \* history: who asked for the lease on a destination, since it began
  confirmed   \* history: whether the active route was confirmed, and when

Configs == Config(LocalIPs \cup RemoteIPs)

Mgr == INSTANCE RoutingManager WITH LocalIPs <- LocalIPs \cup RemoteIPs
Trk == INSTANCE NetDevTracker WITH published <- ifCfg

ASSUME ComponentsAssumption ==
  /\ Mgr!ParametersAssumption!: /\ Mgr!FloatAssumption!: /\ Mgr!InputsAssumption!:
  /\ Trk!TrackerAssumption!:

mgrOwn  == <<curTime, started, shutdownPending, worker, prev, remCnt, caller,
             routes, netlink>>
trkOwn  == <<tracker, seen, cfg, out, shutdownRequested, reported>>
kernel  == <<iface, queue, overrun>>
history == <<origin, confirmed, inherited>>
vars == <<mgrOwn, ifCfg, trkOwn, kernel, fib, lost, missed,
                 changes, admin, history>>

-----------------------------------------------------------------------------
(***************************************************************************)
(* History: how routes' came about: who asked for the leases on S; C was   *)
(* confirmed.  A confirmation is late if the manager by then took the      *)
(* family of the route to be unavailable.                                  *)
(***************************************************************************)
Record(who, S, C) ==
  /\ origin' = [d \in Dests |->
       IF d \notin Mgr!Managed(routes') THEN {}
       ELSE IF d \in S THEN origin[d] \cup {who} ELSE origin[d]]
  /\ confirmed' = [d \in Dests |->
       IF ~Mgr!Has(routes'.activeRoutes, d) THEN "no"
       ELSE IF d \in C THEN (IF FamilyAvail(ifCfg, d) THEN "yes" ELSE "late")
       ELSE confirmed[d]]
  /\ UNCHANGED inherited

Nobody == Record("nobody", {}, {})

(***************************************************************************)
(* History: an IPv4 route is gone with the interface's last address, and   *)
(* while the tracker takes its snapshot an address comes that no           *)
(* notification before told of.  The snapshot shows it, so the tracker,    *)
(* which reads those notifications after the snapshot, never sees the      *)
(* interface without an address.                                           *)
(***************************************************************************)
OverlapsSnapshot ==
  /\ tracker \in {"links", "addrs"}
  /\ \E ip \in iface'.addrs \ iface.addrs :
       /\ ~isV6(ip)
       /\ \A i \in DOMAIN queue : queue[i].type \in {"newaddr", "deladdr"} => queue[i].ip # ip

\* History: what request q asks for holds in a table.
Effective(q, table) ==
  \/ q.type = "addUnicast"   /\ "unicast" \in table[q.dest]
  \/ q.type = "addBlackhole" /\ "blackhole" \in table[q.dest]
  \/ q.type = "delUnicast"   /\ "unicast" \notin table[q.dest]
  \/ q.type = "delBlackhole" /\ "blackhole" \notin table[q.dest]

\* History: the requests of S have failed, and the table has become fib'.
Watch(S) ==
  /\ lost' = {q \in lost \cup S : ~Effective(q, fib')}
  /\ missed' = {d \in Dests : /\ "unicast" \notin fib'[d]
                              /\ d \in missed \/ (~isV6(d) /\ OverlapsSnapshot)}

(***************************************************************************)
(* The kernel takes a request, or does not.                                *)
(***************************************************************************)
Announce(type, d) == Trk!Notify(<<Trk!Route(type, iface.idx, TRUE, d)>>)

TakeRequest ==
  LET q == Head(netlink)
      silently == UNCHANGED <<queue, overrun>>
  IN  /\ Mgr!NetlinkSend
      /\ \/ /\ q.type = "addBlackhole"
            /\ fib' = [fib EXCEPT ![q.dest] = @ \cup {"blackhole"}]
            /\ silently
         \/ /\ q.type = "addUnicast" /\ iface.idx # 0 /\ iface.up
            /\ fib' = [fib EXCEPT ![q.dest] = @ \cup {"unicast"}]
            /\ Announce("newroute", q.dest) \/ ("unicast" \in fib[q.dest] /\ silently)
         \/ /\ q.type = "delUnicast"
            /\ fib' = [fib EXCEPT ![q.dest] = @ \ {"unicast"}]
            /\ IF "unicast" \in fib[q.dest] THEN Announce("delroute", q.dest) ELSE silently
         \/ /\ q.type = "delBlackhole"
            /\ fib' = [fib EXCEPT ![q.dest] = @ \ {"blackhole"}]
            /\ silently
      /\ UNCHANGED <<trkOwn, iface, changes, admin, history>>
      /\ Watch({})

\* The request comes to nothing, and the manager goes on as if it had not.
LoseRequest ==
  /\ Mgr!NetlinkSend
  /\ Head(netlink).type \in MayFail
  /\ UNCHANGED <<trkOwn, kernel, fib, changes, admin, history>>
  /\ Watch({Head(netlink)})

\* The IPv6 routes that go, and are announced, when the interface goes down.
GoneWithLink == {d \in Dests : isV6(d) /\ "unicast" \in fib[d]}

\* Does the last IPv4 address go?
LosesIPv4 == /\ \E ip \in iface.addrs : ~isV6(ip)
             /\ \A ip \in iface'.addrs : isV6(ip)

InterfaceStep ==
  /\ changes > 0
  /\ changes' = changes - 1
  /\ \/ Trk!LinkUp \/ Trk!LinkDown(GoneWithLink)
     \/ \E ip \in LocalIPs : Trk!AddrAdd(ip) \/ Trk!AddrDel(ip)
     \/ Trk!LinkDelete \/ Trk!LinkCreate
  /\ fib' = [d \in Dests |-> IF ~iface'.up \/ (~isV6(d) /\ LosesIPv4)
                             THEN fib[d] \ {"unicast"} ELSE fib[d]]
  /\ UNCHANGED <<mgrOwn, admin, history>>
  /\ Watch({})

\* Somebody else adds or removes a unicast route like the program's.
AdminStep ==
  /\ admin > 0
  /\ admin' = admin - 1
  /\ Trk!Subscribed
  /\ \E d \in Dests :
       \/ /\ iface.idx # 0 /\ iface.up /\ "unicast" \notin fib[d]
          /\ fib' = [fib EXCEPT ![d] = @ \cup {"unicast"}]
          /\ Announce("newroute", d)
       \/ /\ "unicast" \in fib[d]
          /\ fib' = [fib EXCEPT ![d] = @ \ {"unicast"}]
          /\ Announce("delroute", d)
  /\ UNCHANGED <<mgrOwn, ifCfg, trkOwn, iface, changes, history>>
  /\ Watch({})

-----------------------------------------------------------------------------
(***************************************************************************)
(* The manager.  Main requests its shutdown after that of the senders.     *)
(***************************************************************************)
MgrStep ==
  /\ \/ Mgr!Startup \/ Mgr!StartupFails
     \/ shutdownRequested /\ Mgr!OnShutdown
     \/ Mgr!WorkerLoopHead \/ Mgr!WorkerTick \/ Mgr!ManageRoutes \/ Mgr!StaleReturn
     \/ \E m \in DOMAIN routes.pendingExpires : Mgr!EvaluateMark(m)
     \/ Mgr!ReadyForMessage("dns") \/ Mgr!Return("dns") \/ Mgr!AnswerBeyondBounds
     \/ Trk!Ended /\ Mgr!Shutdown
  /\ Nobody
  /\ UNCHANGED <<trkOwn, kernel, fib, lost, missed, changes, admin>>

\* A DNS answer is handled.
DnsAnswer(d) ==
  /\ \E ttl \in TTLs : Mgr!InsertRoute(d, ttl)
  /\ Record("dns", {d}, {})
  /\ UNCHANGED <<trkOwn, kernel, fib, lost, missed, changes, admin>>

(***************************************************************************)
(* The tracker, and the manager's handlers in its thread.                  *)
(***************************************************************************)
TrackerStep ==
  /\ \/ worker # "none" /\ Trk!OpenSocket
     \/ Trk!DumpLinks \/ Trk!DumpAddrs \/ Trk!LoopHead \/ Trk!Receive
     \/ Trk!SelectTimeout \/ Trk!Stop \/ Trk!CloseFails \/ Trk!ReceiveFails
     \/ worker # "none" /\ Trk!StartFails
     \/ worker # "none" /\ Trk!OnShutdown
  /\ UNCHANGED <<mgrOwn, fib, lost, missed, changes, admin, history>>

\* The broker asks the manager and, if it says no, drops the message.
Offer ==
  /\ tracker = "deliver"
  /\ Mgr!ReadyForMessage("tracker")
  /\ UNCHANGED <<trkOwn, kernel, fib, lost, missed, changes, admin, history>>

Drop ==
  /\ shutdownPending
  /\ caller["tracker"] = "idle"
  /\ Trk!Drop
  /\ UNCHANGED <<mgrOwn, fib, lost, missed, changes, admin, history>>

Handle ==
  /\ Trk!Handle
  /\ \/ /\ out.type = "netdev"
        /\ Mgr!ProcessNetDevUpdate(out.config)
        /\ Nobody
     \/ /\ out.type = "added"
        /\ Mgr!ConfirmRouteAdd(out.dest)
        /\ Record("kernel", {out.dest} \ Mgr!Managed(routes), {out.dest})
     \/ /\ out.type = "removed"
        /\ Mgr!ConfirmRouteDel(out.dest)
        /\ Nobody
  /\ UNCHANGED <<fib, lost, missed, changes, admin>>

HandlerReturns ==
  /\ Mgr!Return("tracker")
  /\ Trk!HandlerReturns
  /\ UNCHANGED <<fib, lost, missed, changes, admin, history>>

-----------------------------------------------------------------------------
Init ==
  /\ Mgr!Init
  /\ Trk!Init
  /\ inherited \in Leftovers
  /\ fib = [d \in Dests |-> IF iface.up THEN inherited ELSE inherited \ {"unicast"}]
  /\ lost = {}
  /\ missed = {}
  /\ changes = MaxChanges
  /\ admin = IF inherited = {} THEN MaxAdmin ELSE 0
  /\ origin = [d \in Dests |-> {}]
  /\ confirmed = [d \in Dests |-> "no"]

Finished == worker = "joined" /\ Trk!Ended /\ UNCHANGED vars

\* BOUND: an announcement that fits neither the clock nor the containers of the
\* manager is not handled, though the lock is free.
BeyondBounds == caller["tracker"] = "ready" /\ Mgr!LockFree /\ UNCHANGED vars

Next ==
  \/ MgrStep \/ TrackerStep \/ TakeRequest \/ LoseRequest \/ InterfaceStep \/ AdminStep
  \/ Offer \/ Drop \/ Handle \/ HandlerReturns
  \/ \E d \in Dests : DnsAnswer(d)
  \/ Finished \/ BeyondBounds

Spec == Init /\ [][Next]_vars

(***************************************************************************)
(* Fairness: only that of the manager's worker, the lock and the kernel.   *)
(* The tracker's thread may be stuck.                                      *)
(***************************************************************************)
FairSpec == Spec /\ Mgr!Fairness
-----------------------------------------------------------------------------
\* Every request and every announcement has been dealt with.
Settled ==
  /\ started /\ ~shutdownPending
  /\ netlink = <<>>
  /\ Trk!Quiescent

\* A request of this type for d has failed, and its effect is still missing.
Failed(type, d) == [type |-> type, dest |-> d] \in lost

\* The kill switch: a destination a DNS answer asked for has its blackhole
\* route as long as it is managed, also while its unicast route is lost,
\* retried or given up on, unless the lease began with an announcement.  Only
\* a failed request leaves it without one, until another one succeeds.
KillSwitchInPlace ==
  \A d \in Dests :
    started /\ netlink = <<>> /\ origin[d] = {"dns"} =>
      "blackhole" \in fib[d] \/ Failed("addBlackhole", d)

\* A route the program left in the table, or somebody added, is one it knows
\* of and will remove, or its request to remove it has failed: no request
\* overtakes another, and no announcement is mistaken for that of a later
\* change.
NoLeftovers ==
  Settled /\ inherited = {} =>
    \A d \in Dests :
      /\ "unicast" \in fib[d] => d \in Mgr!Managed(routes) \/ Failed("delUnicast", d)
      /\ "blackhole" \in fib[d] => d \in Mgr!Managed(routes) \/ Failed("delBlackhole", d)

\* A route believed active because it was confirmed is in the table, after any
\* race of confirmations, removals and link changes; unless the interface was
\* removed, which the tracker may miss, or the route is an IPv4 one, which
\* disappears silently, and its confirmation was late, or it went with the last
\* address during a snapshot that shows a new one (see Watch).
ActiveIsInstalled ==
  Settled /\ Trk!NeverDeleted =>
    \A d \in Dests \ missed :
      confirmed[d] = "yes" \/ (isV6(d) /\ confirmed[d] = "late") => "unicast" \in fib[d]

\* Nobody else changes the table; from some moment on nobody asks for an
\* address, and the interface stays as it is.
RestComes ==
  /\ MaxAdmin = 0
  /\ <>[][~InterfaceStep /\ \A d \in Dests : ~DnsAnswer(d)]_vars

\* When rest comes the routes to an address leave the table in the end, though
\* the kernel refuses to add them and announcements are late, lost or never
\* read: unless a request to remove them fails, which the manager does not
\* repeat; the program shuts down; or it is told that the family is not
\* available, when it keeps the blackhole route of what is pending.
RoutesAreCleared ==
  RestComes =>
    \A d \in Dests :
      (inherited = {} /\ fib[d] # {})
        ~> (\/ fib[d] = {} \/ Failed("delUnicast", d) \/ Failed("delBlackhole", d)
            \/ shutdownPending \/ ~FamilyAvail(ifCfg, d))

\* Not so: activeRoutes holds "confirmed active routes", and the loss of the
\* family is to invalidate them all.  A route confirmed late is active under a
\* family already lost: nothing invalidates it when its interface goes down,
\* and nothing pushes it again when it comes back.
LateConfirmationIsInstalled ==
  Settled /\ Trk!NeverDeleted =>
    \A d \in Dests : confirmed[d] # "no" => "unicast" \in fib[d]

\* Not so: comment in InsertRoute, "push blackhole route regardless of network
\* state".  If the lease began with an announcement the answer finds the route
\* active, and no blackhole route is ever pushed.
AnswerPushesBlackhole ==
  \A d \in Dests :
    started /\ netlink = <<>> /\ "dns" \in origin[d] => "blackhole" \in fib[d]
=============================================================================
