-------------------------- MODULE ActiveRouteProofs --------------------------
(***************************************************************************)
(* Theorem about RouteSystem: a route believed active because it was       *)
(* confirmed is in the kernel's table, for every set of destinations and   *)
(* of addresses, every size of the socket's buffer and any number of       *)
(* changes.                                                                *)
(*                                                                         *)
(* A confirmation may be stale the moment it is read.  What saves the      *)
(* manager is that its loss is always behind it: between an announcement   *)
(* on its way, or a route believed active, and a table without the route   *)
(* there is a notification, not yet handled, that ends it.                 *)
(***************************************************************************)
EXTENDS RouteSystemProofs, WellFoundedInduction

-----------------------------------------------------------------------------
(***************************************************************************)
(* What the manager believes.                                              *)
(***************************************************************************)
\* Confirmed, and sure to be told of the loss: see ActiveIsInstalled.
Trusted(d) == confirmed[d] = "yes" \/ (isV6(d) /\ confirmed[d] = "late")

\* Nothing is confirmed before the first report; what was confirmed in time is
\* active only while its family is taken to be available.
ConfirmedInv ==
  /\ tracker \in {"start", "links", "addrs"} => \A d \in Dests : confirmed[d] = "no"
  /\ \A d \in Dests : confirmed[d] = "yes" => FamilyAvail(ifCfg, d)

\* What is recorded of a step of the manager.
LEMMA RecordIs ==
  ASSUME NEW who, NEW S, NEW C, Record(who, S, C), NEW d \in Dests
  PROVE  /\ ~MP!Has(routes'.activeRoutes, d) => confirmed'[d] = "no"
         /\ d \notin C => confirmed'[d] \in {"no", confirmed[d]}
         /\ d \in C => confirmed'[d] \in {"no", IF FamilyAvail(ifCfg, d) THEN "yes" ELSE "late"}
<1>1. confirmed' = [e \in Dests |->
        IF ~MP!Has(routes'.activeRoutes, e) THEN "no"
        ELSE IF e \in C THEN (IF FamilyAvail(ifCfg, e) THEN "yes" ELSE "late")
        ELSE confirmed[e]]
  BY SameManager DEF Record
<1> QED
  BY <1>1

\* A confirmation is recorded when the announcement is handled, and never after.
LEMMA ConfirmedStep ==
  ASSUME Joint, [Next]_vars, NEW d \in Dests
  PROVE  \/ confirmed'[d] \in {"no", confirmed[d]}
         \/ /\ Handle /\ Offered(d) /\ UNCHANGED ifCfg
            /\ confirmed'[d] = IF FamilyAvail(ifCfg, d) THEN "yes" ELSE "late"
<1>1. CASE MgrStep \/ \E e \in Dests : DnsAnswer(e)
  BY <1>1, RecordIs DEF MgrStep, DnsAnswer, Nobody
<1>2. CASE Handle
  <2>1. tracker = "deliver" /\ out \in TP!OutMessages
    BY <1>2 DEF Handle, Trk!Handle, Joint, TP!Shape, TP!TypeOK
  <2>2. CASE out.type = "added" /\ out.dest = d
    <3>1. out = [type |-> "added", dest |-> d]
      BY <2>1, <2>2 DEF TP!OutMessages, TP!NoMessage
    <3>2. Record("kernel", {d} \ Mgr!Managed(routes), {d}) /\ UNCHANGED ifCfg
      BY <1>2, <2>2 DEF Handle, Mgr!ConfirmRouteAdd
    <3> QED
      BY <1>2, <2>1, <3>1, <3>2, RecordIs DEF Offered
  <2>3. CASE out.type # "added" \/ out.dest # d
    <3>1. \/ Nobody
          \/ d \notin {out.dest} /\ Record("kernel", {out.dest} \ Mgr!Managed(routes), {out.dest})
      BY <1>2, <2>3 DEF Handle
    <3> QED
      BY <3>1, RecordIs DEF Nobody
  <2> QED
    BY <2>2, <2>3
<1>3. CASE TrackerStep \/ InterfaceStep
  BY <1>3, TrackerKeeps, InterfaceKeeps DEF history
<1>4. CASE TakeRequest \/ LoseRequest \/ AdminStep \/ Offer \/ Drop \/ HandlerReturns
  BY <1>4 DEF TakeRequest, LoseRequest, AdminStep, Offer, Drop, HandlerReturns, history
<1>5. CASE Finished \/ BeyondBounds \/ UNCHANGED vars
  BY <1>5 DEF Finished, BeyondBounds, vars, history
<1> QED
  BY <1>1, <1>2, <1>3, <1>4, <1>5 DEF Next

\* A loss that is handled ends it.
LEMMA LossHandled ==
  ASSUME Joint, Handle, NEW d \in Dests
  PROVE  /\ out = [type |-> "removed", dest |-> d] => confirmed'[d] = "no"
         /\ (out.type = "netdev" /\ confirmed'[d] # "no" /\ FamilyAvail(ifCfg, d)) =>
              FamilyAvail(ifCfg', d)
         /\ out.type = "netdev" => ifCfg' = cfg
         /\ out.type # "netdev" => ifCfg' = ifCfg
<1>1. tracker = "deliver" /\ MP!IInv
  BY DEF Handle, Trk!Handle, Joint
<1>2. CASE out = [type |-> "removed", dest |-> d]
  <2>1. MP!ConfirmRouteDel(d) /\ Nobody
    BY <1>2, SameManager DEF Handle
  <2>2. ~MP!Has(routes'.activeRoutes, d)
    BY <1>1, <2>1, MP!ActiveAfterConfirmDel, ManagerAssumptions
  <2>3. UNCHANGED ifCfg
    BY <2>1 DEF MP!ConfirmRouteDel
  <2> QED
    BY <1>2, <2>1, <2>2, <2>3, RecordIs DEF Nobody
<1>3. CASE out.type = "netdev"
  <2>1. MP!ProcessNetDevUpdate(out.config) /\ Nobody /\ out.config \in Configs
    BY <1>1, <1>3, SameManager, OutIsKnown DEF Handle, Joint
  <2>2. ifCfg' = out.config /\ out.config = cfg
    BY <1>1, <1>3, <2>1 DEF MP!ProcessNetDevUpdate, Joint, TP!Shape
  <2>3. ASSUME confirmed'[d] # "no", FamilyAvail(ifCfg, d)
        PROVE  FamilyAvail(ifCfg', d)
    <3>1. MP!Has(routes'.activeRoutes, d)
      BY <2>1, <2>3, RecordIs DEF Nobody
    <3>2. MP!FamilyAvail(ifCfg, d)
      BY <2>3, SameManager
    <3>3. MP!FamilyAvail(out.config, d)
      BY <1>1, <2>1, <3>1, <3>2, MP!ActiveAfterUpdate, ManagerAssumptions
    <3> QED
      BY <2>2, <3>3, SameManager
  <2> QED
    BY <1>3, <2>2, <2>3
<1>4. CASE out.type # "netdev"
  BY <1>2, <1>4 DEF Handle, Mgr!ConfirmRouteAdd, Mgr!ConfirmRouteDel
<1> QED
  BY <1>2, <1>3, <1>4

LEMMA ConfirmedInit == Init => ConfirmedInv
BY DEF Init, ConfirmedInv

LEMMA ConfirmedInvStep ==
  ASSUME Joint, ConfirmedInv, [Next]_vars
  PROVE  ConfirmedInv'
<1>1. tracker' \in {"start", "links", "addrs"} => tracker \in {"start", "links", "addrs"}
  BY TrackerRefines
     DEF TP!Next, TP!KernelStep, TP!LinkUp, TP!LinkDown, TP!AddrAdd,
         TP!AddrDel, TP!LinkDelete, TP!LinkCreate, TP!RouteChange, TP!trackerVars,
         TP!TrackerStep, TP!Run, TP!Deliver, TP!OpenSocket, TP!DumpLinks, TP!DumpAddrs,
         TP!LoopHead, TP!SelectTimeout, TP!Receive, TP!Send, TP!Stop, TP!ReceiveFails,
         TP!CloseFails, TP!StartFails, TP!HandleError, TP!Handle, TP!HandlerReturns, TP!Drop,
         TP!OnShutdown, TP!Finished, TP!vars
<1>2. ASSUME NEW d \in Dests
      PROVE  /\ tracker' \in {"start", "links", "addrs"} => confirmed'[d] = "no"
             /\ confirmed'[d] = "yes" => FamilyAvail(ifCfg', d)
  <2>1. CASE Handle
    <3>1. tracker' = "handled"
      BY <2>1 DEF Handle, Trk!Handle
    <3>2. ASSUME confirmed'[d] = "yes"
          PROVE  FamilyAvail(ifCfg, d)
      BY <2>1, <3>2, ConfirmedStep DEF ConfirmedInv
    <3>3. ASSUME confirmed'[d] = "yes"
          PROVE  FamilyAvail(ifCfg', d)
      BY <2>1, <3>2, <3>3, LossHandled
    <3> QED
      BY <3>1, <3>3
  <2>2. CASE ~Handle
    <3>1. confirmed'[d] \in {"no", confirmed[d]}
      BY <2>2, ConfirmedStep
    <3>2. UNCHANGED ifCfg
      BY <2>2, TrackerKeeps, InterfaceKeeps, ManagerKeeps
         DEF Next, DnsAnswer, TakeRequest, LoseRequest, AdminStep, Offer, Drop, HandlerReturns, Joint,
             Finished, BeyondBounds, vars, Mgr!InsertRoute, Mgr!NetlinkSend,
             Mgr!ReadyForMessage, Mgr!Return, Trk!Drop, Trk!HandlerReturns
    <3> QED
      BY <1>1, <3>1, <3>2 DEF ConfirmedInv
  <2> QED
    BY <2>1, <2>2
<1> QED
  BY <1>2 DEF ConfirmedInv

-----------------------------------------------------------------------------
(***************************************************************************)
(* The loss that is on its way.                                            *)
(***************************************************************************)
Snapshot == tracker \in {"links", "addrs"}

\* Once it has read message i, the tracker takes the interface to be without
\* the address ip, or its snapshot will show so.
AddrGone(i, ip) ==
  \/ \E j \in DOMAIN queue :
       /\ j <= i /\ TP!AboutAddr(queue[j], ip) /\ queue[j].type = "deladdr"
       /\ \A k \in DOMAIN queue : j < k /\ k <= i => ~TP!AboutAddr(queue[k], ip)
  \/ /\ \A k \in DOMAIN queue : k <= i => ~TP!AboutAddr(queue[k], ip)
     /\ IF Snapshot THEN /\ ip \notin iface.addrs
                         /\ \A k \in DOMAIN queue : ~TP!AboutAddr(queue[k], ip)
                    ELSE ip \notin cfg.localIPs

NoIPv4Left(i) == \A ip \in LocalIPs : isV6(ip) \/ AddrGone(i, ip)

\* Message i ends the route to d: it says that the route is gone or, of an IPv4
\* route, that the link or the last address is.
Ends(i, d) ==
  \/ queue[i] = TP!Route("delroute", iface.idx, TRUE, d)
  \/ ~isV6(d) /\ queue[i] = TP!Link("newlink", iface.idx, FALSE)
  \/ /\ ~isV6(d) /\ queue[i].type = "deladdr" /\ queue[i].idx = iface.idx
     /\ NoIPv4Left(i)

\* And no announcement follows it.
LossAhead(d) ==
  \E i \in DOMAIN queue :
    /\ Ends(i, d)
    /\ \A j \in DOMAIN queue : queue[j] = TP!Route("newroute", iface.idx, TRUE, d) => j < i

\* The tracker has read it and is about to tell the manager.
LossOffered(d) ==
  /\ ~Announced(d)
  /\ tracker = "deliver"
  /\ \/ out = [type |-> "removed", dest |-> d]
     \/ out.type = "netdev" /\ ~isV6(d) /\ ~isIPV4Avail(cfg)

\* Is the route to d believed to be in the table, or about to be?
Believed(d) == Announced(d) \/ Offered(d) \/ Trusted(d)

LossInv ==
  Attentive /\ TP!NeverDeleted =>
    \A d \in Dests :
      "unicast" \notin fib[d] /\ d \notin missed /\ Believed(d) => LossAhead(d) \/ LossOffered(d)

\* All that is known of the system.
Full == Joint /\ TP!IInv /\ ConfirmedInv /\ LossInv

\* The greatest of some positions in a queue.
LEMMA LastOf ==
  ASSUME NEW n \in Nat, NEW P \in SUBSET (1 .. n), P # {}
  PROVE  \E i \in P : \A j \in P : j <= i
<1> DEFINE T == {n - i : i \in P}
<1>1. T \subseteq Nat /\ T # {}
  OBVIOUS
<1>2. PICK x \in T : \A y \in T : ~ (<<y, x>> \in OpToRel(<, Nat))
  <2> HIDE DEF T
  <2> QED
    BY <1>1, NatLessThanWellFounded, WFMin
<1>3. \A y \in T : ~ (y < x)
  <2> SUFFICES ASSUME NEW y \in T, y < x PROVE FALSE
    OBVIOUS
  <2> HIDE DEF T
  <2>1. <<y, x>> \in OpToRel(<, Nat)
    BY <1>1 DEF OpToRel
  <2> QED
    BY <2>1, <1>2
<1>4. PICK i \in P : x = n - i
  OBVIOUS
<1>5. \A j \in P : j <= i
  <2> TAKE j \in P
  <2>1. ~ (n - j < n - i)
    BY <1>3, <1>4
  <2> QED
    BY <2>1
<1> QED
  BY <1>5

\* While the interface is the first, everything queued is about it.
LEMMA AllFresh ==
  ASSUME TP!Shape, TP!NeverDeleted
  PROVE  /\ \A i \in DOMAIN queue : queue[i].idx = iface.idx
         /\ iface.idx = 0 => queue = <<>>
<1>1. /\ iface.idx \in Nat /\ iface.idx = iface.last /\ iface.last <= 1
      /\ queue \in Seq(TP!Message) /\ \A i \in DOMAIN queue : queue[i].idx <= iface.last
  BY TP!InterfaceFields, TrackerAssumptions DEF TP!NeverDeleted, TP!Shape
<1>2. \A i \in DOMAIN queue : queue[i].idx \in Nat /\ queue[i].idx >= 1
  BY <1>1, TP!MessageFields, TrackerAssumptions DEF TP!Indices
<1>3. \A i \in DOMAIN queue : queue[i].idx = iface.idx
  BY <1>1, <1>2
<1>4. ASSUME iface.idx = 0, queue # <<>> PROVE FALSE
  <2>1. 1 \in DOMAIN queue
    BY <1>1, <1>4
  <2> QED
    BY <1>1, <1>2, <1>4, <2>1
<1> QED
  BY <1>3, <1>4

\* A loss on its way is not undone by what is queued after it, other than an
\* announcement.
LEMMA LossStays ==
  ASSUME TP!Shape, queue' \in Seq(TP!Message), Len(queue) <= Len(queue'),
         \A i \in DOMAIN queue : queue'[i] = queue[i],
         iface'.idx = iface.idx, UNCHANGED <<tracker, cfg>>, NEW d,
         \A i \in DOMAIN queue' \ DOMAIN queue :
           queue'[i] # TP!Route("newroute", iface.idx, TRUE, d),
         \/ isV6(d)
         \/ \A ip \in LocalIPs :
              \/ isV6(ip) \/ ~Snapshot \/ ip \in iface.addrs
              \/ \E k \in DOMAIN queue : TP!AboutAddr(queue[k], ip)
              \/ /\ ip \notin iface'.addrs
                 /\ \A k \in DOMAIN queue' \ DOMAIN queue : ~TP!AboutAddr(queue'[k], ip),
         LossAhead(d)
  PROVE  LossAhead(d)'
<1>1. /\ queue \in Seq(TP!Message) /\ DOMAIN queue = 1 .. Len(queue) /\ Len(queue) \in Nat
      /\ DOMAIN queue' = 1 .. Len(queue') /\ Len(queue') \in Nat
  BY DEF TP!Shape
<1>2. PICK i \in DOMAIN queue :
        /\ Ends(i, d)
        /\ \A j \in DOMAIN queue : queue[j] = TP!Route("newroute", iface.idx, TRUE, d) => j < i
  BY DEF LossAhead
<1>3. i \in DOMAIN queue' /\ \A k \in DOMAIN queue : k \in DOMAIN queue'
  BY <1>1, <1>2
<1>5. ASSUME NEW ip \in LocalIPs, ~isV6(ip), ~isV6(d), AddrGone(i, ip)
      PROVE  AddrGone(i, ip)'
  <2>1. \A k \in DOMAIN queue' : k <= i => k \in DOMAIN queue
    BY <1>1, <1>2
  <2>2. CASE \E j \in DOMAIN queue :
               /\ j <= i /\ TP!AboutAddr(queue[j], ip) /\ queue[j].type = "deladdr"
               /\ \A k \in DOMAIN queue : j < k /\ k <= i => ~TP!AboutAddr(queue[k], ip)
    BY <1>1, <1>3, <2>1, <2>2 DEF AddrGone, TP!AboutAddr
  <2>3. CASE /\ \A k \in DOMAIN queue : k <= i => ~TP!AboutAddr(queue[k], ip)
             /\ ~Snapshot /\ ip \notin cfg.localIPs
    BY <1>1, <1>3, <2>1, <2>3 DEF AddrGone, TP!AboutAddr, Snapshot
  <2>4. CASE /\ \A k \in DOMAIN queue : ~TP!AboutAddr(queue[k], ip)
             /\ Snapshot /\ ip \notin iface.addrs
    <3>1. /\ ip \notin iface'.addrs
          /\ \A k \in DOMAIN queue' \ DOMAIN queue : ~TP!AboutAddr(queue'[k], ip)
      BY <1>5, <2>4
    <3>2. \A k \in DOMAIN queue' : ~TP!AboutAddr(queue'[k], ip)
      BY <2>4, <3>1 DEF TP!AboutAddr
    <3> QED
      BY <2>4, <3>1, <3>2 DEF AddrGone, TP!AboutAddr, Snapshot
  <2> QED
    BY <1>5, <2>2, <2>3, <2>4 DEF AddrGone
<1>6. Ends(i, d)'
  <2>1. queue'[i] = queue[i]
    BY <1>2
  <2>2. CASE queue[i] = TP!Route("delroute", iface.idx, TRUE, d)
    BY <2>1, <2>2 DEF Ends, TP!Route
  <2>3. CASE ~isV6(d) /\ queue[i] = TP!Link("newlink", iface.idx, FALSE)
    BY <2>1, <2>3 DEF Ends, TP!Link
  <2>4. CASE ~isV6(d) /\ queue[i].type = "deladdr" /\ queue[i].idx = iface.idx /\ NoIPv4Left(i)
    BY <1>5, <2>1, <2>4 DEF Ends, NoIPv4Left
  <2> QED
    BY <1>2, <2>2, <2>3, <2>4 DEF Ends
<1>7. \A j \in DOMAIN queue' : queue'[j] = TP!Route("newroute", iface.idx, TRUE, d) => j < i
  BY <1>2
<1> QED
  BY <1>3, <1>6, <1>7 DEF LossAhead, TP!Route

\* One that is queued now is ahead.
LEMMA LossQueued ==
  ASSUME TP!Shape, queue' \in Seq(TP!Message), Len(queue) <= Len(queue'),
         iface'.idx = iface.idx, NEW d, NEW n \in DOMAIN queue' \ DOMAIN queue, Ends(n, d)',
         \A i \in DOMAIN queue' \ DOMAIN queue :
           queue'[i] # TP!Route("newroute", iface.idx, TRUE, d)
  PROVE  LossAhead(d)'
<1>1. /\ queue \in Seq(TP!Message) /\ DOMAIN queue = 1 .. Len(queue) /\ Len(queue) \in Nat
      /\ DOMAIN queue' = 1 .. Len(queue') /\ Len(queue') \in Nat
  BY DEF TP!Shape
<1>2. \A j \in DOMAIN queue : j < n
  BY <1>1
<1> QED
  BY <1>2 DEF LossAhead, TP!Route

\* The last address of the interface is removed: whatever was queued before, the
\* tracker will know.
LEMMA AddrsGone ==
  ASSUME TP!Shape', TP!Agrees', TP!Listening', TP!NeverDeleted',
         NEW n \in DOMAIN queue', \A i \in DOMAIN queue' : i <= n,
         \A ip \in LocalIPs : isV6(ip) \/ ip \notin iface'.addrs
  PROVE  NoIPv4Left(n)'
<1> SUFFICES ASSUME NEW ip \in LocalIPs, ip \notin iface'.addrs
             PROVE  AddrGone(n, ip)'
  BY DEF NoIPv4Left
<1>1. queue' \in Seq(TP!Message) /\ DOMAIN queue' = 1 .. Len(queue') /\ Len(queue') \in Nat
  BY DEF TP!Shape
<1>2. TP!AddrAgrees(ip)'
  BY DEF TP!Agrees
<1>3. CASE TP!AddrMessages(ip)' = {}
  BY <1>2, <1>3 DEF AddrGone, TP!AddrAgrees, TP!AddrMessages, Snapshot
<1>4. CASE TP!AddrMessages(ip)' # {}
  <2> DEFINE P == TP!AddrMessages(ip)'
  <2>1. P \in SUBSET (1 .. Len(queue'))
    BY <1>1 DEF TP!AddrMessages
  <2> HIDE DEF P
  <2>2. PICK j \in P : \A k \in P : k <= j
    BY <1>1, <1>4, <2>1, LastOf DEF P
  <2>3. TP!IsLast(j, TP!AddrMessages(ip)')
    BY <2>2 DEF TP!IsLast, P
  <2>4. j \in DOMAIN queue' /\ TP!AboutAddr(queue[j], ip)'
    BY <2>2 DEF P, TP!AddrMessages
  <2>5. queue'[j].type = "deladdr"
    BY <1>2, <2>3, <2>4 DEF TP!AddrAgrees, TP!IsLast
  <2>6. \A k \in DOMAIN queue' : j < k => ~TP!AboutAddr(queue[k], ip)'
    BY <1>1, <2>1, <2>2 DEF P, TP!AddrMessages
  <2> QED
    BY <2>4, <2>5, <2>6 DEF AddrGone
<1> QED
  BY <1>3, <1>4

-----------------------------------------------------------------------------
(***************************************************************************)
(* Steps after which the loss is still to come.                            *)
(***************************************************************************)
\* Nothing that matters to the tracker changes, and no new route is believed in.
LEMMA LossQuiet ==
  ASSUME LossInv, Attentive, TP!NeverDeleted, NEW d \in Dests,
         "unicast" \notin fib[d], d \notin missed, Believed(d)',
         UNCHANGED <<queue, iface, cfg>>, Snapshot' = Snapshot,
         UNCHANGED <<tracker, out>> \/ (tracker # "deliver" /\ tracker' # "deliver"),
         confirmed'[d] \in {"no", confirmed[d]}
  PROVE  LossAhead(d)' \/ LossOffered(d)'
<1>1. Announced(d)' <=> Announced(d)
  BY DEF Announced, TP!Route
<1>2. Offered(d)' => Offered(d)
  BY DEF Offered
<1>3. Trusted(d)' => Trusted(d)
  BY DEF Trusted
<1>4. LossAhead(d) \/ LossOffered(d)
  BY <1>1, <1>2, <1>3 DEF Believed, LossInv
<1>5. CASE LossAhead(d)
  BY <1>5 DEF LossAhead, Ends, NoIPv4Left, AddrGone, TP!AboutAddr, TP!Route, TP!Link
<1>6. CASE LossOffered(d)
  BY <1>1, <1>6 DEF LossOffered
<1> QED
  BY <1>4, <1>5, <1>6

\* Notifications are queued, and none of them announces the route.
LEMMA LossKept ==
  ASSUME TP!Shape, LossInv, Attentive, TP!NeverDeleted, NEW d \in Dests,
         "unicast" \notin fib[d], d \notin missed, Believed(d)',
         queue' \in Seq(TP!Message), Len(queue) <= Len(queue'),
         \A i \in DOMAIN queue : queue'[i] = queue[i],
         iface'.idx = iface.idx, UNCHANGED <<tracker, cfg, out, confirmed>>,
         \A i \in DOMAIN queue' \ DOMAIN queue :
           queue'[i] # TP!Route("newroute", iface.idx, TRUE, d),
         \/ isV6(d)
         \/ \A ip \in LocalIPs :
              \/ isV6(ip) \/ ~Snapshot \/ ip \in iface.addrs
              \/ \E k \in DOMAIN queue : TP!AboutAddr(queue[k], ip)
              \/ /\ ip \notin iface'.addrs
                 /\ \A k \in DOMAIN queue' \ DOMAIN queue : ~TP!AboutAddr(queue'[k], ip)
  PROVE  LossAhead(d)' \/ LossOffered(d)'
<1>1. Announced(d)' => Announced(d)
  BY DEF Announced, TP!Route
<1>2. Offered(d)' <=> Offered(d)
  BY DEF Offered
<1>3. Trusted(d)' <=> Trusted(d)
  BY DEF Trusted
<1>4. LossAhead(d) \/ LossOffered(d)
  BY <1>1, <1>2, <1>3 DEF Believed, LossInv
<1>5. CASE LossAhead(d)
  BY <1>5, LossStays
<1>6. CASE LossOffered(d)
  BY <1>1, <1>6 DEF LossOffered
<1> QED
  BY <1>4, <1>5, <1>6

\* What is queued by a step of the kernel, if nothing is lost.
LEMMA QueueExtends ==
  ASSUME TP!Shape, NEW ms \in Seq(TP!Message), TP!Notify(ms), TP!Subscribed, ~overrun'
  PROVE  /\ queue' \in Seq(TP!Message) /\ Len(queue) <= Len(queue')
         /\ \A i \in DOMAIN queue : queue'[i] = queue[i]
         /\ \A i \in DOMAIN ms : /\ Len(queue) + i \in DOMAIN queue' \ DOMAIN queue
                                 /\ queue'[Len(queue) + i] = ms[i]
         /\ \A i \in DOMAIN queue' \ DOMAIN queue :
              i - Len(queue) \in DOMAIN ms /\ queue'[i] = ms[i - Len(queue)]
<1>1. queue' = queue \o ms
  BY TP!NotifyAppends, TrackerAssumptions
<1>2. queue \in Seq(TP!Message)
  BY DEF TP!Shape
<1>3. /\ queue' \in Seq(TP!Message) /\ Len(queue') = Len(queue) + Len(ms)
      /\ Len(queue) \in Nat /\ Len(ms) \in Nat
      /\ DOMAIN queue = 1 .. Len(queue) /\ DOMAIN ms = 1 .. Len(ms)
      /\ DOMAIN queue' = 1 .. Len(queue')
      /\ \A i \in 1 .. Len(queue') :
           queue'[i] = IF i <= Len(queue) THEN queue[i] ELSE ms[i - Len(queue)]
  BY <1>1, <1>2
<1> QED
  BY <1>3

\* A route is announced or its removal is.
LEMMA LossAfterAnnounce ==
  ASSUME TP!Shape, LossInv, Attentive, Attentive', TP!NeverDeleted, NEW d \in Dests,
         Believed(d)', NEW type \in {"newroute", "delroute"}, NEW e \in Dests,
         Announce(type, e), iface.idx # 0, UNCHANGED <<iface, tracker, cfg, out, confirmed>>,
         type = "newroute" => e # d,
         \/ type = "delroute" /\ e = d
         \/ "unicast" \notin fib[d] /\ d \notin missed
  PROVE  LossAhead(d)' \/ LossOffered(d)'
<1> DEFINE m == TP!Route(type, iface.idx, TRUE, e)
           ms == <<m>>
<1>1. TP!Subscribed /\ ~overrun'
  BY DEF Attentive, TP!Listening
<1>2. TP!Notify(ms) /\ m \in TP!Message
  BY SameTracker, RouteIsMessage DEF Announce
<1>3. m # TP!Route("newroute", iface.idx, TRUE, d) /\ m.type = type
  BY DEF TP!Route
<1> HIDE DEF m
<1>4. ms \in Seq(TP!Message) /\ DOMAIN ms = {1} /\ ms[1] = m
  BY <1>2
<1> HIDE DEF ms
<1>5. /\ queue' \in Seq(TP!Message) /\ Len(queue) <= Len(queue')
      /\ \A i \in DOMAIN queue : queue'[i] = queue[i]
      /\ Len(queue) + 1 \in DOMAIN queue' \ DOMAIN queue /\ queue'[Len(queue) + 1] = m
      /\ \A i \in DOMAIN queue' \ DOMAIN queue : queue'[i] = m
  BY <1>1, <1>2, <1>4, QueueExtends
<1>6. \A i \in DOMAIN queue' \ DOMAIN queue :
        queue'[i] # TP!Route("newroute", iface.idx, TRUE, d)
  BY <1>3, <1>5
<1>7. CASE type = "delroute" /\ e = d
  <2>1. PICK n \in DOMAIN queue' \ DOMAIN queue : queue'[n] = m
    BY <1>5
  <2>2. queue'[n] = TP!Route("delroute", iface.idx, TRUE, d)
    BY <1>7, <2>1 DEF m
  <2>3. iface'.idx = iface.idx
    OBVIOUS
  <2>4. Ends(n, d)'
    BY <2>2, <2>3 DEF Ends, TP!Route
  <2> QED
    BY <1>5, <1>6, <2>3, <2>4, LossQueued
<1>8. CASE "unicast" \notin fib[d] /\ d \notin missed
  <2>1. \A ip : ~TP!AboutAddr(m, ip)
    BY <1>3 DEF TP!AboutAddr
  <2> QED
    BY <1>5, <1>6, <1>8, <2>1, LossKept
<1> QED
  BY <1>7, <1>8

\* What a step has to be shown for: the invariant holds before it, and is asked
\* of d after it.
Asked(d) ==
  /\ Joint /\ TP!IInv /\ ConfirmedInv /\ LossInv /\ Attentive /\ TP!NeverDeleted
  /\ d \in Dests /\ Joint' /\ TP!IInv' /\ Attentive' /\ TP!NeverDeleted'
  /\ "unicast" \notin fib'[d] /\ d \notin missed' /\ Believed(d)'

LEMMA LossTaken ==
  ASSUME NEW d, Asked(d), TakeRequest
  PROVE  LossAhead(d)' \/ LossOffered(d)'
<1> DEFINE q == Head(netlink)
<1>1. /\ TP!Shape /\ LossInv /\ Attentive /\ Attentive' /\ TP!NeverDeleted /\ d \in Dests
      /\ Believed(d)' /\ "unicast" \notin fib'[d] /\ Wiring /\ MP!IInv
      /\ fib \in [Dests -> SUBSET Kinds]
  BY DEF Asked, Joint, Wiring
<1>2. q.dest \in Dests
  BY <1>1, RequestIsKnown DEF TakeRequest, Mgr!NetlinkSend
<1>3. UNCHANGED <<tracker, cfg, out, iface, confirmed>> /\ UNCHANGED iface
  BY DEF TakeRequest, trkOwn, history
<1>4. d \notin missed
  BY DEF TakeRequest, Watch, Asked
<1>5. CASE UNCHANGED queue /\ "unicast" \notin fib[d]
  <2>1. Snapshot' = Snapshot
    BY <1>3 DEF Snapshot
  <2> QED
    BY <1>1, <1>3, <1>4, <1>5, <2>1, LossQuiet
<1>6. CASE /\ q.type = "addUnicast" /\ iface.idx # 0 /\ Announce("newroute", q.dest)
           /\ fib' = [fib EXCEPT ![q.dest] = @ \cup {"unicast"}]
  <2>1. q.dest # d /\ "unicast" \notin fib[d]
    BY <1>1, <1>2, <1>6
  <2> HIDE DEF q
  <2> QED
    BY <1>1, <1>2, <1>3, <1>4, <1>6, <2>1, LossAfterAnnounce
<1>7. CASE /\ q.type = "delUnicast" /\ "unicast" \in fib[q.dest] /\ Announce("delroute", q.dest)
           /\ fib' = [fib EXCEPT ![q.dest] = @ \ {"unicast"}]
  <2>1. q.dest = d \/ "unicast" \notin fib[d]
    BY <1>1, <1>2, <1>7
  <2>2. iface.idx # 0
    BY <1>1, <1>2, <1>7, LinkIsUp
  <2> HIDE DEF q
  <2> QED
    BY <1>1, <1>2, <1>3, <1>4, <1>7, <2>1, <2>2, LossAfterAnnounce
<1>8. \/ UNCHANGED queue /\ "unicast" \notin fib[d]
      \/ /\ q.type = "addUnicast" /\ iface.idx # 0 /\ Announce("newroute", q.dest)
         /\ fib' = [fib EXCEPT ![q.dest] = @ \cup {"unicast"}]
      \/ /\ q.type = "delUnicast" /\ "unicast" \in fib[q.dest] /\ Announce("delroute", q.dest)
         /\ fib' = [fib EXCEPT ![q.dest] = @ \ {"unicast"}]
  BY <1>1, <1>2 DEF TakeRequest
<1> QED
  BY <1>5, <1>6, <1>7, <1>8

LEMMA LossByAdmin ==
  ASSUME NEW d, Asked(d), AdminStep
  PROVE  LossAhead(d)' \/ LossOffered(d)'
<1>1. /\ TP!Shape /\ LossInv /\ Attentive /\ Attentive' /\ TP!NeverDeleted /\ d \in Dests
      /\ Believed(d)' /\ "unicast" \notin fib'[d] /\ Wiring
      /\ fib \in [Dests -> SUBSET Kinds]
  BY DEF Asked, Joint, Wiring
<1>2. UNCHANGED <<tracker, cfg, out, iface, confirmed>> /\ d \notin missed
  BY DEF AdminStep, trkOwn, history, Watch, Asked
<1>3. PICK e \in Dests :
        \/ /\ iface.idx # 0 /\ Announce("newroute", e)
           /\ fib' = [fib EXCEPT ![e] = @ \cup {"unicast"}]
        \/ /\ "unicast" \in fib[e] /\ Announce("delroute", e)
           /\ fib' = [fib EXCEPT ![e] = @ \ {"unicast"}]
  BY DEF AdminStep
<1>4. CASE /\ iface.idx # 0 /\ Announce("newroute", e)
           /\ fib' = [fib EXCEPT ![e] = @ \cup {"unicast"}]
  <2>1. e # d /\ "unicast" \notin fib[d]
    BY <1>1, <1>4
  <2> QED
    BY <1>1, <1>2, <1>4, <2>1, LossAfterAnnounce
<1>5. CASE /\ "unicast" \in fib[e] /\ Announce("delroute", e)
           /\ fib' = [fib EXCEPT ![e] = @ \ {"unicast"}]
  <2>1. e = d \/ "unicast" \notin fib[d]
    BY <1>1, <1>5
  <2>2. iface.idx # 0
    BY <1>1, <1>5, LinkIsUp
  <2> QED
    BY <1>1, <1>2, <1>5, <2>1, <2>2, LossAfterAnnounce
<1> QED
  BY <1>3, <1>4, <1>5

\* The steps that have no part in this.
LEMMA LossElsewhere ==
  ASSUME NEW d, Asked(d), [Next]_vars, ~Handle, ~TakeRequest, ~AdminStep, ~InterfaceStep,
         ~(TrackerStep /\ Trk!Receive), ~(TrackerStep /\ Trk!DumpAddrs)
  PROVE  LossAhead(d)' \/ LossOffered(d)'
<1>1. /\ LossInv /\ Attentive /\ TP!NeverDeleted /\ d \in Dests /\ Believed(d)'
      /\ "unicast" \notin fib'[d] /\ d \notin missed' /\ Joint
      /\ tracker \notin {"start", "stopped", "failed"}
      /\ tracker' \notin {"start", "stopped", "failed"} /\ ~shutdownPending
  BY DEF Asked, Attentive, TP!Listening, TP!Subscribed
<1>2. confirmed'[d] \in {"no", confirmed[d]}
  BY <1>1, ConfirmedStep
<1>3. CASE TrackerStep
  <2>1. /\ UNCHANGED <<fib, missed, queue, iface, cfg>>
        /\ \/ UNCHANGED <<tracker, out>>
           \/ tracker = "links" /\ tracker' = "addrs"
           \/ tracker = "head" /\ tracker' = "select"
           \/ tracker = "select" /\ tracker' = "head"
    BY <1>1, <1>3 DEF TrackerStep, Trk!OpenSocket, Trk!DumpLinks, Trk!LoopHead, Trk!SelectTimeout,
       Trk!Stop, Trk!CloseFails, Trk!ReceiveFails, Trk!StartFails, Trk!HandleError,
       Trk!OnShutdown, Trk!kernelVars
  <2>2. Snapshot' = Snapshot
    BY <2>1 DEF Snapshot
  <2>3. UNCHANGED <<tracker, out>> \/ (tracker # "deliver" /\ tracker' # "deliver")
    BY <2>1
  <2> QED
    BY <1>1, <1>2, <2>1, <2>2, <2>3, LossQuiet
<1>4. CASE HandlerReturns
  <2>1. /\ UNCHANGED <<fib, missed, queue, iface, cfg>>
        /\ tracker = "handled" /\ tracker' = "head"
    BY <1>4 DEF HandlerReturns, Trk!HandlerReturns, Trk!kernelVars
  <2>2. Snapshot' = Snapshot
    BY <2>1 DEF Snapshot
  <2> QED
    BY <1>1, <1>2, <2>1, <2>2, LossQuiet
<1>5. CASE LoseRequest
  <2>1. UNCHANGED <<fib, queue, iface, cfg, tracker, out>> /\ d \notin missed
    BY <1>1, <1>5 DEF LoseRequest, Watch, trkOwn, kernel
  <2>2. Snapshot' = Snapshot
    BY <2>1 DEF Snapshot
  <2> QED
    BY <1>1, <1>2, <2>1, <2>2, LossQuiet
<1>7. CASE \/ MgrStep \/ Offer \/ Finished \/ BeyondBounds \/ UNCHANGED vars
           \/ \E e \in Dests : DnsAnswer(e)
  <2>1. UNCHANGED <<fib, missed, queue, iface, cfg, tracker, out>>
    BY <1>1, <1>7, ManagerKeeps
       DEF Joint, Offer, Finished, BeyondBounds, vars, DnsAnswer, MgrStep, trkOwn, kernel
  <2>2. Snapshot' = Snapshot
    BY <2>1 DEF Snapshot
  <2> QED
    BY <1>1, <1>2, <2>1, <2>2, LossQuiet
<1>6. CASE Drop
  BY <1>1, <1>6 DEF Drop
<1> QED
  BY <1>3, <1>4, <1>5, <1>6, <1>7 DEF Next

\* A notification of the link or of an address is queued.
LEMMA LossAfterPost ==
  ASSUME NEW d, Asked(d), "unicast" \notin fib[d], d \notin missed, UNCHANGED confirmed,
         NEW m, TP!Posts(m), m.type \in {"newlink", "newaddr", "deladdr"}, iface'.idx = iface.idx,
         \/ isV6(d)
         \/ \A ip \in LocalIPs :
              \/ isV6(ip) \/ ~Snapshot \/ ip \in iface.addrs
              \/ \E k \in DOMAIN queue : TP!AboutAddr(queue[k], ip)
              \/ ip \notin iface'.addrs /\ ~TP!AboutAddr(m, ip)
  PROVE  LossAhead(d)' \/ LossOffered(d)'
<1>1. /\ TP!Shape /\ LossInv /\ Attentive /\ TP!NeverDeleted /\ d \in Dests /\ Believed(d)'
      /\ TP!Subscribed /\ ~overrun'
  BY DEF Asked, Joint, Attentive, TP!Listening
<1>2. m \in TP!Message /\ TP!Notify(<<m>>) /\ UNCHANGED <<tracker, cfg, out>>
  BY DEF TP!Posts, TP!trackerVars
<1>3. /\ queue' \in Seq(TP!Message) /\ Len(queue') = Len(queue) + 1
      /\ queue'[Len(queue) + 1] = m
      /\ \A i \in DOMAIN queue : queue'[i] = queue[i]
      /\ queue \in Seq(TP!Message)
  BY <1>1, <1>2, TP!NotifyOne, TrackerAssumptions DEF TP!Shape
<1>4. /\ Len(queue) <= Len(queue')
      /\ \A i \in DOMAIN queue' \ DOMAIN queue : queue'[i] = m
  BY <1>3
<1>5. m # TP!Route("newroute", iface.idx, TRUE, d)
  BY DEF TP!Route
<1> QED
  BY <1>1, <1>2, <1>3, <1>4, <1>5, LossKept

\* The interface changes.
LEMMA LossByInterface ==
  ASSUME NEW d, Asked(d), InterfaceStep
  PROVE  LossAhead(d)' \/ LossOffered(d)'
<1>1. /\ TP!Shape /\ LossInv /\ Attentive /\ TP!NeverDeleted /\ d \in Dests /\ Believed(d)'
      /\ "unicast" \notin fib'[d] /\ Wiring /\ TP!NeverDeleted'
      /\ TP!Subscribed /\ ~overrun' /\ TP!Subscribed'
  BY DEF Asked, Joint, Attentive, TP!Listening
<1>2. UNCHANGED <<tracker, cfg, out, confirmed>>
  BY InterfaceKeeps DEF InterfaceStep, history, trkOwn
<1>3. d \notin missed /\ (isV6(d) \/ ~OverlapsSnapshot)
  BY <1>1 DEF InterfaceStep, Watch, Asked
<1>4. /\ "unicast" \in fib[d] => iface.up
      /\ "unicast" \in fib[d] => ~iface'.up \/ (~isV6(d) /\ LosesIPv4)
  BY <1>1 DEF InterfaceStep, Wiring
<1>5. CASE Trk!LinkUp
  <2>1. TP!LinkUp
    BY <1>5, SameTracker
  <2> DEFINE m == TP!Link("newlink", iface.idx, TRUE)
  <2>2. /\ TP!Posts(m) /\ m.type = "newlink"
        /\ iface'.up = TRUE /\ iface'.addrs = iface.addrs /\ iface'.idx = iface.idx
    BY <1>1, <2>1, TP!LinkUpPosts, TrackerAssumptions DEF TP!Link
  <2>3. "unicast" \notin fib[d]
    BY <1>4, <2>2 DEF LosesIPv4
  <2>4. \A ip : ~TP!AboutAddr(m, ip)
    BY <2>2 DEF TP!AboutAddr
  <2> HIDE DEF m
  <2> QED
    BY <1>2, <1>3, <2>2, <2>3, <2>4, LossAfterPost
<1>6. ASSUME NEW a \in LocalIPs, Trk!AddrAdd(a) \/ Trk!AddrDel(a)
      PROVE  LossAhead(d)' \/ LossOffered(d)'
  <2>1. /\ iface.idx # 0 /\ iface'.up = iface.up
        /\ iface'.idx = iface.idx /\ iface'.last = iface.last
        /\ \/ iface'.addrs = iface.addrs \cup {a} /\ TP!Posts(TP!Addr("newaddr", iface.idx, a))
           \/ iface'.addrs = iface.addrs \ {a} /\ TP!Posts(TP!Addr("deladdr", iface.idx, a))
    BY <1>1, <1>6, SameTracker, TP!AddrChangePosts, TrackerAssumptions
  <2>2. CASE iface'.addrs = iface.addrs \cup {a} /\ TP!Posts(TP!Addr("newaddr", iface.idx, a))
    <3> DEFINE m == TP!Addr("newaddr", iface.idx, a)
    <3>1. m.type = "newaddr" /\ m.ip = a
      BY DEF TP!Addr
    <3>2. "unicast" \notin fib[d]
      BY <1>4, <2>1, <2>2 DEF LosesIPv4
    <3>3. ASSUME ~isV6(d), NEW ip \in LocalIPs, ~isV6(ip), Snapshot, ip \notin iface.addrs
          PROVE  \/ \E k \in DOMAIN queue : TP!AboutAddr(queue[k], ip)
                 \/ ip \notin iface'.addrs /\ ~TP!AboutAddr(m, ip)
      <4>1. CASE ip = a
        <5>1. PICK k \in DOMAIN queue : queue[k].type \in {"newaddr", "deladdr"} /\ queue[k].ip = ip
          BY <1>3, <2>2, <3>3, <4>1 DEF OverlapsSnapshot, Snapshot
        <5>2. queue[k].idx = iface.idx
          BY <1>1, AllFresh
        <5> QED
          BY <5>1, <5>2 DEF TP!AboutAddr
      <4>2. CASE ip # a
        BY <2>2, <3>1, <3>3, <4>2 DEF TP!AboutAddr
      <4> QED
        BY <4>1, <4>2
    <3> HIDE DEF m
    <3> QED
      BY <1>2, <1>3, <2>1, <2>2, <3>1, <3>2, <3>3, LossAfterPost DEF m
  <2>3. CASE iface'.addrs = iface.addrs \ {a} /\ TP!Posts(TP!Addr("deladdr", iface.idx, a))
    <3> DEFINE m == TP!Addr("deladdr", iface.idx, a)
    <3>1. m.type = "deladdr" /\ m.idx = iface.idx /\ m.ip = a
      BY DEF TP!Addr
    <3>2. TP!Posts(m) /\ m \in TP!Message /\ TP!Notify(<<m>>)
      BY <2>3 DEF TP!Posts
    <3> HIDE DEF m
    <3>3. CASE "unicast" \notin fib[d]
      <4>1. \A ip \in LocalIPs : ip \in iface.addrs \/ (ip \notin iface'.addrs /\ ~TP!AboutAddr(m, ip))
                                 \/ ip = a
        BY <2>3, <3>1 DEF TP!AboutAddr
      <4>2. a \in iface.addrs
        <5>1. iface \in TP!Interface
          BY <1>1 DEF TP!Shape, TP!TypeOK
        <5> QED
          BY <1>6, <2>3, <5>1 DEF Trk!AddrAdd, Trk!AddrDel, TP!Interface
      <4> QED
        BY <1>2, <1>3, <2>1, <2>3, <3>1, <3>2, <3>3, <4>1, <4>2, LossAfterPost
    <3>4. CASE "unicast" \in fib[d]
      <4>1. ~isV6(d) /\ \A ip \in LocalIPs : isV6(ip) \/ ip \notin iface'.addrs
        BY <1>4, <2>1, <3>4 DEF LosesIPv4
      <4>2. /\ queue' \in Seq(TP!Message) /\ Len(queue') = Len(queue) + 1
            /\ queue'[Len(queue) + 1] = m /\ queue \in Seq(TP!Message)
        BY <1>1, <3>2, TP!NotifyOne, TrackerAssumptions DEF TP!Shape
      <4>3. /\ Len(queue) <= Len(queue')
            /\ \A i \in DOMAIN queue' \ DOMAIN queue : queue'[i] = m
            /\ Len(queue) + 1 \in DOMAIN queue' \ DOMAIN queue
            /\ \A i \in DOMAIN queue' : i <= Len(queue) + 1
        BY <4>2
      <4>4. PICK n \in DOMAIN queue' \ DOMAIN queue :
              queue'[n] = m /\ \A i \in DOMAIN queue' : i <= n
        BY <4>3
      <4>5. TP!Shape' /\ TP!Agrees' /\ TP!Listening'
        BY DEF Asked, Attentive, TP!IInv
      <4>6. NoIPv4Left(n)'
        BY <1>1, <4>1, <4>4, <4>5, AddrsGone
      <4>7. queue'[n].type = "deladdr" /\ queue'[n].idx = iface'.idx
        BY <2>1, <3>1, <4>4
      <4>8. Ends(n, d)'
        BY <4>1, <4>6, <4>7 DEF Ends
      <4>9. m # TP!Route("newroute", iface.idx, TRUE, d)
        BY <3>1 DEF TP!Route
      <4> QED
        BY <1>1, <2>1, <4>2, <4>3, <4>4, <4>8, <4>9, LossQueued
    <3> QED
      BY <3>3, <3>4
  <2> QED
    BY <2>1, <2>2, <2>3
<1>7. CASE Trk!LinkDown(GoneWithLink)
  <2>1. TP!LinkDown(GoneWithLink) /\ GoneWithLink \in SUBSET Dests
    BY <1>7, SameTracker DEF GoneWithLink
  <2>2. /\ iface'.idx = iface.idx
        /\ \E ms \in Seq(TP!Message) :
             /\ TP!Notify(ms)
             /\ 1 \in DOMAIN ms /\ ms[1] = TP!Link("newlink", iface.idx, FALSE)
             /\ \A i \in DOMAIN ms : i = 1 \/ ms[i].type \in {"delroute", "deladdr"}
             /\ \A x \in GoneWithLink :
                  \E i \in DOMAIN ms : ms[i] = TP!Route("delroute", iface.idx, TRUE, x)
    BY <1>1, <2>1, TP!LinkDownPosts, TrackerAssumptions
  <2>3. PICK ms \in Seq(TP!Message) :
          /\ TP!Notify(ms)
          /\ 1 \in DOMAIN ms /\ ms[1] = TP!Link("newlink", iface.idx, FALSE)
          /\ \A i \in DOMAIN ms : i = 1 \/ ms[i].type \in {"delroute", "deladdr"}
          /\ \A x \in GoneWithLink :
               \E i \in DOMAIN ms : ms[i] = TP!Route("delroute", iface.idx, TRUE, x)
    BY <2>2
  <2>4. /\ queue' \in Seq(TP!Message) /\ Len(queue) <= Len(queue')
        /\ \A i \in DOMAIN queue : queue'[i] = queue[i]
        /\ \A i \in DOMAIN ms : /\ Len(queue) + i \in DOMAIN queue' \ DOMAIN queue
                                /\ queue'[Len(queue) + i] = ms[i]
        /\ \A i \in DOMAIN queue' \ DOMAIN queue :
             i - Len(queue) \in DOMAIN ms /\ queue'[i] = ms[i - Len(queue)]
    BY <1>1, <2>3, QueueExtends
  <2>5. \A i \in DOMAIN ms : ms[i] # TP!Route("newroute", iface.idx, TRUE, d)
    BY <2>3 DEF TP!Route, TP!Link
  <2>6. \A i \in DOMAIN queue' \ DOMAIN queue :
          queue'[i] # TP!Route("newroute", iface.idx, TRUE, d)
    BY <2>4, <2>5
  <2>7. CASE ~isV6(d)
    <3>1. PICK n \in DOMAIN queue' \ DOMAIN queue :
            queue'[n] = TP!Link("newlink", iface.idx, FALSE)
      BY <2>3, <2>4
    <3>2. Ends(n, d)'
      BY <2>2, <2>7, <3>1 DEF Ends, TP!Link
    <3> QED
      BY <1>1, <2>2, <2>4, <2>6, <3>2, LossQueued
  <2>8. CASE isV6(d) /\ "unicast" \in fib[d]
    <3>1. d \in GoneWithLink
      BY <1>1, <2>8 DEF GoneWithLink
    <3>2. PICK i \in DOMAIN ms : ms[i] = TP!Route("delroute", iface.idx, TRUE, d)
      BY <2>3, <3>1
    <3>3. PICK n \in DOMAIN queue' \ DOMAIN queue :
            queue'[n] = TP!Route("delroute", iface.idx, TRUE, d)
      BY <2>4, <3>2
    <3>4. Ends(n, d)'
      BY <2>2, <3>3 DEF Ends, TP!Route
    <3> QED
      BY <1>1, <2>2, <2>4, <2>6, <3>4, LossQueued
  <2>9. CASE isV6(d) /\ "unicast" \notin fib[d]
    BY <1>1, <1>2, <1>3, <2>2, <2>4, <2>6, <2>9, LossKept
  <2> QED
    BY <2>7, <2>8, <2>9
<1>8. CASE Trk!LinkDelete
  <2>1. TP!LinkDelete
    BY <1>8, SameTracker
  <2>2. iface'.idx = 0 /\ iface'.last = iface.last /\ iface.last # 0
    BY <1>1, <2>1, TP!LinkDeletePosts, TrackerAssumptions
  <2> QED
    BY <1>1, <2>2 DEF TP!NeverDeleted
<1>9. CASE Trk!LinkCreate
  <2>1. TP!LinkCreate
    BY <1>9, SameTracker
  <2> DEFINE m == TP!Link("newlink", iface.last + 1, FALSE)
  <2>2. TP!Posts(m) /\ iface.idx = 0
    BY <1>1, <2>1, TP!LinkCreatePosts, TrackerAssumptions
  <2>3. m # TP!Route("newroute", iface'.idx, TRUE, d)
    BY DEF TP!Link, TP!Route
  <2> HIDE DEF m
  <2>4. queue = <<>> /\ "unicast" \notin fib[d]
    BY <1>1, <2>2, AllFresh, LinkIsUp
  <2>5. \A i \in DOMAIN queue' : i \in DOMAIN queue \/ queue'[i] = m
    BY <1>1, <2>2, TP!NotifyOne, TrackerAssumptions DEF TP!Posts
  <2>6. ~Announced(d)'
    <3>1. DOMAIN queue = {}
      BY <2>4
    <3> QED
      BY <2>3, <2>5, <3>1 DEF Announced, TP!Route
  <2>7. Believed(d)
    BY <1>1, <1>2, <2>6 DEF Believed, Offered, Trusted
  <2>8. ~LossAhead(d)
    BY <2>4 DEF LossAhead
  <2>9. LossOffered(d)
    BY <1>1, <1>3, <2>4, <2>7, <2>8 DEF LossInv
  <2> QED
    BY <1>2, <2>6, <2>9 DEF LossOffered
<1> QED
  BY <1>5, <1>6, <1>7, <1>8, <1>9 DEF InterfaceStep

\* A notification is read: what the tracker knows of an address after it.
LEMMA KnownAfterReceive ==
  ASSUME TP!Shape, TP!Receive, NEW ip
  PROVE  /\ TP!AboutAddr(Head(queue), ip) /\ Head(queue).type = "deladdr" => ip \notin cfg'.localIPs
         /\ ~TP!AboutAddr(Head(queue), ip) /\ ip \notin cfg.localIPs => ip \notin cfg'.localIPs
<1> DEFINE m == Head(queue)
<1>1. m \in TP!Message /\ cfg \in TP!KnownConfig
  BY TP!TakeShortens, TrackerAssumptions DEF TP!Receive, TP!Shape, TP!TypeOK
<1>2. /\ m.type \in {"newlink", "dellink"} /\ m.idx = iface.idx => cfg' = TP!LinkConfig(cfg, m)
      /\ m.type \in {"newaddr", "deladdr"} /\ m.idx = iface.idx => cfg' = TP!AddrConfig(cfg, m)
      /\ m.type \notin {"newlink", "dellink", "newaddr", "deladdr"} \/ m.idx # iface.idx => cfg' = cfg
  BY TP!ReceiveChanges, TrackerAssumptions
<1> HIDE DEF m
<1>3. CASE m.type \in {"newlink", "dellink"} /\ m.idx = iface.idx
  <2>1. cfg'.localIPs = cfg.localIPs
    BY <1>1, <1>2, <1>3, TP!LinkConfigIs, TrackerAssumptions
  <2> QED
    BY <1>3, <2>1 DEF TP!AboutAddr, m
<1>4. CASE m.type \in {"newaddr", "deladdr"} /\ m.idx = iface.idx
  <2>1. cfg'.localIPs = IF m.type = "newaddr" THEN cfg.localIPs \cup {m.ip} ELSE cfg.localIPs \ {m.ip}
    BY <1>1, <1>2, <1>4, TP!AddrConfigIs, TrackerAssumptions
  <2> QED
    BY <1>4, <2>1 DEF TP!AboutAddr, m
<1>5. CASE m.type \notin {"newlink", "dellink", "newaddr", "deladdr"} \/ m.idx # iface.idx
  BY <1>2, <1>5 DEF TP!AboutAddr, m
<1> QED
  BY <1>3, <1>4, <1>5

\* The queue without its head.
LEMMA QueueShifts ==
  ASSUME TP!Shape, TP!Receive
  PROVE  /\ Len(queue) \in Nat \ {0} /\ DOMAIN queue = 1 .. Len(queue)
         /\ DOMAIN queue' = 1 .. (Len(queue) - 1)
         /\ queue[1] = Head(queue)
         /\ \A i \in DOMAIN queue' : queue'[i] = queue[i + 1]
         /\ \A i \in DOMAIN queue : i > 1 => i - 1 \in DOMAIN queue' /\ queue'[i - 1] = queue[i]
<1>1. queue \in Seq(TP!Message) /\ queue # <<>> /\ TP!Take
  BY DEF TP!Receive, TP!Shape
<1>2. /\ queue[1] = Head(queue) /\ 1 \in DOMAIN queue
      /\ queue' \in Seq(TP!Message) /\ Len(queue') = Len(queue) - 1 /\ Len(queue) \in Nat
      /\ \A i \in DOMAIN queue' : i + 1 \in DOMAIN queue /\ queue'[i] = queue[i + 1]
  BY <1>1, TP!TakeShortens, TrackerAssumptions
<1>3. DOMAIN queue = 1 .. Len(queue) /\ DOMAIN queue' = 1 .. Len(queue')
  BY <1>1, <1>2
<1> QED
  BY <1>2, <1>3

\* The loss comes nearer.
LEMMA LossNearer ==
  ASSUME TP!Shape, TP!Receive, NEW d, NEW i \in DOMAIN queue, i > 1, Ends(i, d),
         \A j \in DOMAIN queue : queue[j] = TP!Route("newroute", iface.idx, TRUE, d) => j < i
  PROVE  LossAhead(d)'
<1>1. /\ tracker = "select" /\ ~Snapshot /\ ~Snapshot' /\ UNCHANGED iface /\ iface'.idx = iface.idx
  BY TP!ReceiveChanges, TrackerAssumptions DEF TP!Receive, Snapshot
<1>2. /\ Len(queue) \in Nat \ {0} /\ DOMAIN queue = 1 .. Len(queue)
      /\ DOMAIN queue' = 1 .. (Len(queue) - 1)
      /\ queue[1] = Head(queue)
      /\ \A k \in DOMAIN queue' : queue'[k] = queue[k + 1]
  BY QueueShifts
<1> DEFINE n == i - 1
<1>3. n \in DOMAIN queue' /\ queue'[n] = queue[i]
  BY QueueShifts
<1>4. ASSUME NEW ip \in LocalIPs, AddrGone(i, ip)
      PROVE  AddrGone(n, ip)'
  <2>1. CASE \E j \in DOMAIN queue :
               /\ j <= i /\ TP!AboutAddr(queue[j], ip) /\ queue[j].type = "deladdr"
               /\ \A k \in DOMAIN queue : j < k /\ k <= i => ~TP!AboutAddr(queue[k], ip)
    <3>1. PICK j \in DOMAIN queue :
            /\ j <= i /\ TP!AboutAddr(queue[j], ip) /\ queue[j].type = "deladdr"
            /\ \A k \in DOMAIN queue : j < k /\ k <= i => ~TP!AboutAddr(queue[k], ip)
      BY <2>1
    <3>2. CASE j = 1
      <4>1. ip \notin cfg'.localIPs
        BY <1>2, <3>1, <3>2, KnownAfterReceive
      <4>2. \A k \in DOMAIN queue' : k <= n => ~TP!AboutAddr(queue[k + 1], ip)
        BY <1>2, <3>1, <3>2
      <4> QED
        BY <1>1, <1>2, <4>1, <4>2 DEF AddrGone, TP!AboutAddr
    <3>3. CASE j > 1
      <4>1. j - 1 \in DOMAIN queue' /\ j - 1 <= n /\ queue'[j - 1] = queue[j]
        BY <1>2, <3>1, <3>3
      <4>2. \A k \in DOMAIN queue' : j - 1 < k /\ k <= n => ~TP!AboutAddr(queue[k + 1], ip)
        BY <1>2, <3>1, <3>3
      <4> DEFINE h == j - 1
      <4>3. /\ h \in DOMAIN queue' /\ h <= n /\ queue'[h] = queue[j]
            /\ \A k \in DOMAIN queue' : h < k /\ k <= n => ~TP!AboutAddr(queue[k + 1], ip)
        BY <4>1, <4>2
      <4> HIDE DEF h, n
      <4> QED
        BY <1>1, <1>2, <3>1, <4>3 DEF AddrGone, TP!AboutAddr
    <3> QED
      BY <1>2, <3>2, <3>3
  <2>2. CASE /\ \A k \in DOMAIN queue : k <= i => ~TP!AboutAddr(queue[k], ip)
             /\ ip \notin cfg.localIPs
    <3>1. ip \notin cfg'.localIPs
      BY <1>2, <2>2, KnownAfterReceive
    <3>2. \A k \in DOMAIN queue' : k <= n => ~TP!AboutAddr(queue[k + 1], ip)
      BY <1>2, <2>2
    <3> QED
      BY <1>1, <1>2, <3>1, <3>2 DEF AddrGone, TP!AboutAddr
  <2> QED
    BY <1>1, <1>4, <2>1, <2>2 DEF AddrGone
<1>5. Ends(n, d)'
  <2>1. CASE queue[i] = TP!Route("delroute", iface.idx, TRUE, d)
    BY <1>1, <1>3, <2>1 DEF Ends, TP!Route
  <2>2. CASE ~isV6(d) /\ queue[i] = TP!Link("newlink", iface.idx, FALSE)
    BY <1>1, <1>3, <2>2 DEF Ends, TP!Link
  <2>3. CASE ~isV6(d) /\ queue[i].type = "deladdr" /\ queue[i].idx = iface.idx /\ NoIPv4Left(i)
    BY <1>1, <1>3, <1>4, <2>3 DEF Ends, NoIPv4Left
  <2> QED
    BY <2>1, <2>2, <2>3 DEF Ends
<1>6. \A j \in DOMAIN queue' :
        queue[j + 1] = TP!Route("newroute", iface.idx, TRUE, d) => j < n
  <2> SUFFICES ASSUME NEW j \in DOMAIN queue',
                      queue[j + 1] = TP!Route("newroute", iface.idx, TRUE, d)
               PROVE  j < n
    OBVIOUS
  <2>1. j + 1 \in DOMAIN queue
    BY <1>2
  <2>2. j + 1 < i
    BY <2>1
  <2> QED
    BY <1>2, <2>2
<1> HIDE DEF n
<1> QED
  BY <1>1, <1>2, <1>3, <1>5, <1>6 DEF LossAhead, TP!Route

\* Or it has come, and the manager is to be told.
LEMMA LossComes ==
  ASSUME TP!Shape, TP!Receive, iface.idx # 0, NEW d, 1 \in DOMAIN queue, Ends(1, d), ~Announced(d)'
  PROVE  LossOffered(d)'
<1> DEFINE m == Head(queue)
<1>1. /\ m \in TP!Message /\ cfg \in TP!KnownConfig /\ cfg' \in TP!KnownConfig /\ queue[1] = m
      /\ TP!NameMatches(m.idx) <=> m.idx = iface.idx
      /\ tracker = "select" /\ ~Snapshot
  BY QueueShifts, TP!ReceiveChanges, TP!TakeShortens, TrackerAssumptions
     DEF TP!Receive, TP!Shape, TP!TypeOK, TP!NameMatches, Snapshot
<1> HIDE DEF m
<1>2. CASE m = TP!Route("delroute", iface.idx, TRUE, d)
  <2>1. m.type = "delroute" /\ m.idx = iface.idx /\ m.ours = TRUE /\ m.dest = d
    BY <1>2 DEF TP!Route
  <2>2. TP!Send([type |-> IF m.type = "newroute" THEN "added" ELSE "removed", dest |-> m.dest])
    BY <1>1, <2>1 DEF TP!Receive, m
  <2>3. tracker' = "deliver" /\ out' = [type |-> "removed", dest |-> d]
    BY <2>1, <2>2 DEF TP!Send
  <2> QED
    BY <2>3 DEF LossOffered
<1>3. ASSUME ~isV6(d), ~isIPV4Avail(cfg'), m.idx = iface.idx,
             m.type \in {"newlink", "dellink", "newaddr", "deladdr"}
      PROVE  LossOffered(d)'
  <2>1. TP!Send([type |-> "netdev", config |-> cfg'])
    BY <1>1, <1>3 DEF TP!Receive, m
  <2>2. tracker' = "deliver" /\ out'.type = "netdev"
    BY <2>1 DEF TP!Send
  <2> QED
    BY <1>3, <2>2 DEF LossOffered, isIPV4Avail
<1>4. CASE ~isV6(d) /\ m = TP!Link("newlink", iface.idx, FALSE)
  <2>1. m.type = "newlink" /\ m.idx = iface.idx /\ m.up = FALSE
    BY <1>4 DEF TP!Link
  <2>2. cfg' = TP!LinkConfig(cfg, m)
    BY <2>1, TP!ReceiveChanges, TrackerAssumptions DEF m
  <2>3. cfg'.isUp = FALSE
    BY <1>1, <2>1, <2>2, TP!LinkConfigIs, TrackerAssumptions
  <2> QED
    BY <1>3, <1>4, <2>1, <2>3 DEF isIPV4Avail
<1>5. CASE ~isV6(d) /\ m.type = "deladdr" /\ m.idx = iface.idx /\ NoIPv4Left(1)
  <2>1. ASSUME NEW ip \in LocalIPs, ~isV6(ip)
        PROVE  ip \notin cfg'.localIPs
    <3>1. AddrGone(1, ip)
      BY <1>5, <2>1 DEF NoIPv4Left
    <3>2. DOMAIN queue \subseteq Nat \ {0}
      BY QueueShifts
    <3>3. \/ TP!AboutAddr(m, ip) /\ m.type = "deladdr"
          \/ ~TP!AboutAddr(m, ip) /\ ip \notin cfg.localIPs
      BY <1>1, <3>1, <3>2 DEF AddrGone
    <3> QED
      BY <3>3, KnownAfterReceive DEF m
  <2>2. cfg'.localIPs \subseteq LocalIPs
    BY <1>1, TP!ConfigFields, TrackerAssumptions
  <2>3. ~isIPV4Avail(cfg')
    BY <2>1, <2>2 DEF isIPV4Avail
  <2> QED
    BY <1>3, <1>5, <2>3
<1> QED
  BY <1>1, <1>2, <1>4, <1>5 DEF Ends

LEMMA LossByReceive ==
  ASSUME NEW d, Asked(d), TrackerStep, Trk!Receive
  PROVE  LossAhead(d)' \/ LossOffered(d)'
<1>1. /\ TP!Shape /\ LossInv /\ Attentive /\ TP!NeverDeleted /\ d \in Dests /\ Believed(d)'
      /\ "unicast" \notin fib'[d] /\ d \notin missed' /\ TP!Receive
  BY SameTracker DEF Asked, Joint
<1>2. UNCHANGED <<fib, missed, iface, confirmed>> /\ tracker = "select"
  BY <1>1 DEF TrackerStep, history, TP!Receive
<1>3. /\ DOMAIN queue = 1 .. Len(queue) /\ Len(queue) \in Nat \ {0}
      /\ queue[1] = Head(queue) /\ queue[1] \in TP!Message
      /\ DOMAIN queue' = 1 .. (Len(queue) - 1)
      /\ \A i \in DOMAIN queue' : queue'[i] = queue[i + 1]
  BY <1>1, QueueShifts, TP!TakeShortens, TrackerAssumptions DEF TP!Receive
<1>4. iface.idx # 0
  BY <1>1, AllFresh DEF TP!Receive
<1>5. Announced(d)' => \E i \in DOMAIN queue : i > 1 /\ queue[i] = TP!Route("newroute", iface.idx, TRUE, d)
  <2> SUFFICES ASSUME Announced(d)'
               PROVE  \E i \in DOMAIN queue : i > 1 /\ queue[i] = TP!Route("newroute", iface.idx, TRUE, d)
    OBVIOUS
  <2>1. PICK i \in DOMAIN queue' : queue'[i] = TP!Route("newroute", iface.idx, TRUE, d)
    BY <1>2 DEF Announced, TP!Route
  <2>2. i + 1 \in DOMAIN queue /\ i + 1 > 1
    BY <1>3
  <2>3. queue[i + 1] = queue'[i]
    BY <1>3
  <2> QED
    BY <2>1, <2>2, <2>3
<1>6. Offered(d)' => queue[1] = TP!Route("newroute", iface.idx, TRUE, d)
  <2> SUFFICES ASSUME tracker' = "deliver", out' = [type |-> "added", dest |-> d]
               PROVE  queue[1] = TP!Route("newroute", iface.idx, TRUE, d)
    BY DEF Offered
  <2> DEFINE m == queue[1]
  <2>1. m \in TP!Message
    BY <1>3
  <2>2. /\ TP!NameMatches(m.idx) /\ m.type = "newroute" /\ m.ours /\ m.dest = d
    BY <1>1, <1>3 DEF TP!Receive, TP!Send
  <2> HIDE DEF m
  <2>3. m = [type |-> "newroute", idx |-> iface.idx, ours |-> m.ours, dest |-> d] /\ m.ours = TRUE
    BY <2>1, <2>2 DEF TP!Message, TP!LinkMessage, TP!AddrMessage, TP!RouteMessage, TP!NameMatches
  <2> QED
    BY <2>3 DEF TP!Route, m
<1>7. Believed(d)
  <2>1. 1 \in DOMAIN queue
    BY <1>3
  <2>2. (\E i \in DOMAIN queue : queue[i] = TP!Route("newroute", iface.idx, TRUE, d)) => Announced(d)
    BY DEF Announced
  <2>3. Announced(d)' \/ Offered(d)' => Announced(d)
    <3> HIDE DEF Announced, Offered
    <3> QED
      BY <1>5, <1>6, <2>1, <2>2
  <2>4. Trusted(d)' => Trusted(d)
    BY <1>2 DEF Trusted
  <2> QED
    BY <1>1, <2>3, <2>4 DEF Believed
<1>8. LossAhead(d)
  BY <1>1, <1>2, <1>7 DEF LossInv, LossOffered
<1>9. PICK i \in DOMAIN queue :
        /\ Ends(i, d)
        /\ \A j \in DOMAIN queue : queue[j] = TP!Route("newroute", iface.idx, TRUE, d) => j < i
  BY <1>8 DEF LossAhead
<1>10. CASE i = 1
  <2>1. \A j \in DOMAIN queue : j > 1 => queue[j] # TP!Route("newroute", iface.idx, TRUE, d)
    <3>1. \A j \in DOMAIN queue : j > 1 => ~(j < i)
      BY <1>3, <1>10
    <3> QED
      BY <1>9, <3>1
  <2>2. ~Announced(d)'
    BY <1>5, <2>1
  <2> QED
    BY <1>1, <1>4, <1>9, <1>10, <2>2, LossComes
<1>11. CASE i > 1
  BY <1>1, <1>9, <1>11, LossNearer
<1> QED
  BY <1>3, <1>10, <1>11

\* The snapshot ends: what it shows is what the interface has.
LEMMA LossBySnapshot ==
  ASSUME NEW d, Asked(d), TrackerStep, Trk!DumpAddrs
  PROVE  LossAhead(d)' \/ LossOffered(d)'
<1>1. /\ TP!Shape /\ LossInv /\ Attentive /\ TP!NeverDeleted /\ d \in Dests /\ Believed(d)'
      /\ "unicast" \notin fib'[d] /\ d \notin missed' /\ TP!DumpAddrs /\ ConfirmedInv
  BY SameTracker DEF Asked, Joint
<1>2. UNCHANGED <<fib, missed, iface, queue, confirmed>> /\ tracker = "addrs" /\ Snapshot
  BY <1>1 DEF TrackerStep, history, TP!DumpAddrs, TP!kernelVars, Snapshot
<1>3. \/ tracker' = "links" /\ cfg' = cfg /\ Snapshot'
      \/ tracker' = "deliver" /\ cfg'.localIPs = iface.addrs /\ ~Snapshot'
  <2>1. \/ tracker' = "links" /\ cfg' = cfg
        \/ tracker' = "deliver" /\ cfg' = TP!InitialConfig(iface.addrs, seen.up)
    BY <1>1, TP!ShapeDumpAddrs, TrackerAssumptions
  <2>2. iface.addrs \in SUBSET LocalIPs /\ seen.up \in BOOLEAN
    BY <1>1, TP!InterfaceFields, TrackerAssumptions DEF TP!Shape, TP!TypeOK
  <2>3. TP!InitialConfig(iface.addrs, seen.up).localIPs = iface.addrs
    BY <2>2, TP!InitialConfigIs, TrackerAssumptions
  <2> QED
    BY <2>1, <2>3 DEF Snapshot
<1>4. ~Offered(d)'
  <2>1. tracker' = "links" \/ out'.type = "netdev"
    BY <1>1 DEF TP!DumpAddrs
  <2> QED
    BY <2>1 DEF Offered
<1>5. Believed(d) /\ ~LossOffered(d)
  <2>1. ~Trusted(d)'
    BY <1>1, <1>2 DEF Trusted, ConfirmedInv
  <2>2. Announced(d)' => Announced(d)
    BY <1>2 DEF Announced, TP!Route
  <2> QED
    BY <1>1, <1>2, <1>4, <2>1, <2>2 DEF Believed, LossOffered
<1>6. PICK i \in DOMAIN queue :
        /\ Ends(i, d)
        /\ \A j \in DOMAIN queue : queue[j] = TP!Route("newroute", iface.idx, TRUE, d) => j < i
  BY <1>1, <1>2, <1>5 DEF LossInv, LossAhead
<1>7. ASSUME NEW ip \in LocalIPs, AddrGone(i, ip)
      PROVE  AddrGone(i, ip)'
  <2>1. CASE \E j \in DOMAIN queue :
               /\ j <= i /\ TP!AboutAddr(queue[j], ip) /\ queue[j].type = "deladdr"
               /\ \A k \in DOMAIN queue : j < k /\ k <= i => ~TP!AboutAddr(queue[k], ip)
    BY <1>2, <2>1 DEF AddrGone, TP!AboutAddr
  <2>2. CASE /\ \A k \in DOMAIN queue : k <= i => ~TP!AboutAddr(queue[k], ip)
             /\ ip \notin iface.addrs
             /\ \A k \in DOMAIN queue : ~TP!AboutAddr(queue[k], ip)
    BY <1>2, <1>3, <2>2 DEF AddrGone, TP!AboutAddr
  <2> QED
    BY <1>2, <1>7, <2>1, <2>2 DEF AddrGone
<1>8. Ends(i, d)'
  BY <1>2, <1>6, <1>7 DEF Ends, NoIPv4Left, TP!Route, TP!Link
<1> QED
  BY <1>2, <1>6, <1>8 DEF LossAhead, TP!Route

\* The manager is told.
LEMMA LossByHandle ==
  ASSUME NEW d, Asked(d), [Next]_vars, Handle
  PROVE  LossAhead(d)' \/ LossOffered(d)'
<1>1. /\ TP!Shape /\ LossInv /\ Attentive /\ TP!NeverDeleted /\ d \in Dests /\ Believed(d)' /\ Joint
      /\ "unicast" \notin fib'[d] /\ d \notin missed' /\ ConfirmedInv
  BY DEF Asked, Joint
<1>2. /\ UNCHANGED <<fib, missed, iface, queue, cfg>>
      /\ tracker = "deliver" /\ tracker' = "handled" /\ ~Snapshot /\ ~Snapshot'
  BY DEF Handle, Trk!Handle, Trk!kernelVars, Snapshot
<1>3. confirmed'[d] \in {"no", confirmed[d]} \/ Offered(d)
  BY <1>1, ConfirmedStep
<1>4. Believed(d)
  <2>1. Announced(d)' => Announced(d)
    BY <1>2 DEF Announced, TP!Route
  <2>2. ~Offered(d)'
    BY <1>2 DEF Offered
  <2>3. Trusted(d)' => Trusted(d) \/ Offered(d)
    BY <1>3 DEF Trusted
  <2> QED
    BY <1>1, <2>1, <2>2, <2>3 DEF Believed
<1>5. CASE LossAhead(d)
  BY <1>2, <1>5 DEF LossAhead, Ends, NoIPv4Left, AddrGone, TP!AboutAddr, TP!Route, TP!Link
<1>6. CASE LossOffered(d)
  <2>1. ~Announced(d)' /\ ~Offered(d)'
    BY <1>2, <1>6 DEF LossOffered, Announced, Offered, TP!Route
  <2>2. Trusted(d)'
    BY <1>1, <2>1 DEF Believed
  <2>3. confirmed'[d] # "no"
    BY <2>2 DEF Trusted
  <2>4. out.type = "netdev" /\ ~isV6(d) /\ ~isIPV4Avail(cfg)
    BY <1>1, <1>6, <2>3, LossHandled DEF LossOffered
  <2>5. confirmed'[d] = "yes" /\ confirmed[d] = "yes"
    <3>1. confirmed'[d] = "yes"
      BY <2>2, <2>4 DEF Trusted
    <3>2. ~Offered(d)
      BY <2>4 DEF Offered
    <3> QED
      BY <1>3, <3>1, <3>2
  <2>6. FamilyAvail(ifCfg, d)
    BY <1>1, <2>5 DEF ConfirmedInv
  <2>7. FamilyAvail(ifCfg', d) /\ ifCfg' = cfg
    BY <1>1, <2>3, <2>4, <2>6, LossHandled
  <2> QED
    BY <2>4, <2>7 DEF FamilyAvail
<1> QED
  BY <1>1, <1>2, <1>4, <1>5, <1>6 DEF LossInv

-----------------------------------------------------------------------------
(***************************************************************************)
(* The theorem.                                                            *)
(***************************************************************************)
\* An interface that is the first still was so before.
LEMMA FirstIsOld ==
  ASSUME Joint, [Next]_vars, TP!NeverDeleted'
  PROVE  TP!NeverDeleted
<1>1. TP!Shape
  BY DEF Joint
<1>2. iface.idx \in {0, iface.last} /\ iface.last \in Nat /\ iface'.idx = iface'.last /\ iface'.last <= 1
  BY <1>1, TP!InterfaceFields, TrackerAssumptions DEF TP!Shape, TP!NeverDeleted
<1>3. CASE InterfaceStep
  <2>1. CASE Trk!LinkUp
    BY <1>1, <1>2, <2>1, SameTracker, TP!LinkUpPosts, TrackerAssumptions DEF TP!NeverDeleted
  <2>2. CASE Trk!LinkDown(GoneWithLink)
    <3>1. TP!LinkDown(GoneWithLink) /\ GoneWithLink \in SUBSET Dests
      BY <2>2, SameTracker DEF GoneWithLink
    <3>2. iface'.idx = iface.idx /\ iface'.last = iface.last
      BY <1>1, <3>1, TP!LinkDownPosts, TrackerAssumptions
    <3> QED
      BY <1>2, <3>2 DEF TP!NeverDeleted
  <2>3. ASSUME NEW a \in LocalIPs, Trk!AddrAdd(a) \/ Trk!AddrDel(a)
        PROVE  TP!NeverDeleted
    <3>1. iface'.idx = iface.idx /\ iface'.last = iface.last
      BY <1>1, <2>3, SameTracker, TP!AddrChangePosts, TrackerAssumptions
    <3> QED
      BY <1>2, <3>1 DEF TP!NeverDeleted
  <2>4. CASE Trk!LinkDelete
    <3>1. iface'.idx = 0 /\ iface'.last = iface.last /\ iface.last # 0
      BY <1>1, <2>4, SameTracker, TP!LinkDeletePosts, TrackerAssumptions
    <3> QED
      BY <1>2, <3>1
  <2>5. CASE Trk!LinkCreate
    <3>1. iface.idx = 0 /\ iface'.last = iface.last + 1
      BY <1>1, <2>5, SameTracker, TP!LinkCreatePosts, TrackerAssumptions
    <3> QED
      BY <1>2, <3>1 DEF TP!NeverDeleted
  <2> QED
    BY <1>3, <2>1, <2>2, <2>3, <2>4, <2>5 DEF InterfaceStep
<1>4. CASE ~InterfaceStep
  <2>1. TrackerStep => UNCHANGED iface
    BY DEF TrackerStep, Trk!OpenSocket, Trk!DumpLinks, Trk!DumpAddrs, Trk!LoopHead,
       Trk!Receive, Trk!SelectTimeout, Trk!Stop, Trk!CloseFails, Trk!ReceiveFails,
       Trk!StartFails, Trk!HandleError, Trk!OnShutdown, Trk!kernelVars
  <2>2. UNCHANGED iface
    BY <1>4, <2>1 DEF Next, MgrStep, TakeRequest, LoseRequest, AdminStep, Offer, Drop, Handle,
       HandlerReturns, DnsAnswer, Finished, BeyondBounds, vars, kernel, Trk!Drop, Trk!Handle,
       Trk!HandlerReturns, Trk!kernelVars
  <2> QED
    BY <2>2 DEF TP!NeverDeleted
<1> QED
  BY <1>3, <1>4

\* The tracker begins to listen: nothing is queued, nothing is confirmed.
LEMMA LossAtStart ==
  ASSUME Joint, ConfirmedInv, [Next]_vars, tracker = "start", Attentive', NEW d \in Dests
  PROVE  ~Believed(d)'
<1>1. TP!Shape /\ queue = <<>>
  BY DEF Joint, TP!Shape
<1>2. tracker' \notin {"start", "stopped", "failed"}
  BY DEF Attentive, TP!Listening, TP!Subscribed
<1>3. tracker' = "links" /\ UNCHANGED queue
  BY <1>2, TrackerRefines
     DEF TP!Next, TP!KernelStep, TP!LinkUp, TP!LinkDown, TP!AddrAdd, TP!AddrDel,
         TP!LinkDelete, TP!LinkCreate, TP!RouteChange, TP!trackerVars, TP!kernelVars,
         TP!TrackerStep, TP!Run, TP!Deliver, TP!OpenSocket, TP!DumpLinks, TP!DumpAddrs,
         TP!LoopHead, TP!SelectTimeout, TP!Receive, TP!Send, TP!Stop, TP!ReceiveFails,
         TP!CloseFails, TP!StartFails, TP!HandleError, TP!Handle, TP!HandlerReturns, TP!Drop,
         TP!OnShutdown, TP!Finished, TP!vars
<1>4. ~Announced(d)' /\ ~Offered(d)'
  <2>1. DOMAIN queue = {}
    BY <1>1
  <2> QED
    BY <1>3, <2>1 DEF Announced, Offered, TP!Route
<1>5. confirmed[d] = "no" /\ ~Offered(d)
  BY DEF ConfirmedInv, Offered
<1>6. confirmed'[d] = "no"
  BY <1>5, ConfirmedStep
<1> QED
  BY <1>4, <1>6 DEF Believed, Trusted

\* The loss stays ahead, whatever is done.
LEMMA LossInvStep ==
  ASSUME Full, [Next]_vars
  PROVE  LossInv'
<1> SUFFICES ASSUME Attentive', TP!NeverDeleted', NEW d \in Dests,
                    "unicast" \notin fib'[d], d \notin missed', Believed(d)'
             PROVE  LossAhead(d)' \/ LossOffered(d)'
  BY DEF LossInv
<1>1. /\ Joint /\ TP!IInv /\ ConfirmedInv /\ LossInv /\ Joint' /\ TP!NeverDeleted
      /\ [TP!Next]_(TP!vars)
  BY JointStep, FirstIsOld, TrackerRefines DEF Full
<1>2. TP!IInv'
  BY <1>1, TP!StepInv, TrackerAssumptions
<1>3. Attentive
  BY <1>1, AttentionIsOld, LossAtStart DEF Attentive
<1>4. Asked(d)
  BY <1>1, <1>2, <1>3 DEF Asked
<1>5. CASE Handle
  BY <1>4, <1>5, LossByHandle
<1>6. CASE TakeRequest
  BY <1>4, <1>6, LossTaken
<1>7. CASE AdminStep
  BY <1>4, <1>7, LossByAdmin
<1>8. CASE InterfaceStep
  BY <1>4, <1>8, LossByInterface
<1>9. CASE TrackerStep /\ Trk!Receive
  BY <1>4, <1>9, LossByReceive
<1>10. CASE TrackerStep /\ Trk!DumpAddrs
  BY <1>4, <1>10, LossBySnapshot
<1> QED
  BY <1>4, <1>5, <1>6, <1>7, <1>8, <1>9, <1>10, LossElsewhere

LEMMA FullInit == Init => Full
<1> SUFFICES ASSUME Init PROVE Full
  OBVIOUS
<1>1. Joint /\ ConfirmedInv
  BY JointInit, ConfirmedInit
<1>2. TP!IInv
  BY SameTracker, TP!InitInv, TrackerAssumptions DEF Init
<1>3. ~Attentive
  BY DEF Init, Trk!Init, Attentive, TP!Listening, TP!Subscribed
<1> QED
  BY <1>1, <1>2, <1>3 DEF Full, LossInv

LEMMA FullStep == Full /\ [Next]_vars => Full'
<1> SUFFICES ASSUME Full, [Next]_vars PROVE Full'
  OBVIOUS
<1>1. Joint' /\ [TP!Next]_(TP!vars)
  BY JointStep, TrackerRefines DEF Full
<1>2. TP!IInv'
  BY <1>1, TP!StepInv, TrackerAssumptions DEF Full
<1>3. ConfirmedInv' /\ LossInv'
  BY ConfirmedInvStep, LossInvStep DEF Full
<1> QED
  BY <1>1, <1>2, <1>3 DEF Full

\* A route believed active because it was confirmed is in the table once all that
\* was announced is handled: however confirmations, removals and link changes
\* raced, the notification of a loss never came before the last announcement of
\* the route it ends.
THEOREM ActiveRoutesAreInstalled == Spec => []ActiveIsInstalled
<1>1. Full => ActiveIsInstalled
  <2> SUFFICES ASSUME Full, Settled, Trk!NeverDeleted, NEW d \in Dests \ missed, Trusted(d),
                      "unicast" \notin fib[d]
               PROVE  FALSE
    BY DEF ActiveIsInstalled, Trusted
  <2>1. queue = <<>> /\ tracker = "select" /\ ~overrun /\ ~shutdownPending /\ TP!NeverDeleted
    BY SameTracker DEF Settled, Trk!Quiescent
  <2>2. Attentive /\ DOMAIN queue = {}
    BY <2>1 DEF Attentive, TP!Listening, TP!Subscribed
  <2>3. ~LossAhead(d) /\ ~LossOffered(d)
    BY <2>1, <2>2 DEF LossAhead, LossOffered
  <2> QED
    BY <2>1, <2>2, <2>3 DEF Full, LossInv, Believed
<1> QED
  BY <1>1, FullInit, FullStep, PTL DEF Spec
=============================================================================
