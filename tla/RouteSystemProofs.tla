-------------------------- MODULE RouteSystemProofs --------------------------
(***************************************************************************)
(* Theorems about RouteSystem, for every set of destinations and of        *)
(* addresses, every size of the socket's buffer and any number of changes. *)
(*                                                                         *)
(* Inside the system the manager and the tracker behave as they do alone,  *)
(* so that what is proved of each holds in the system; the two invariants  *)
(* about the kernel's table follow from what is on its way between them.   *)
(***************************************************************************)
EXTENDS RouteSystem, FiniteSetTheorems, SequenceTheorems, TLAPS

MP == INSTANCE RoutingManagerProofs WITH LocalIPs <- LocalIPs \cup RemoteIPs
TP == INSTANCE NetDevTrackerProofs WITH published <- ifCfg

-----------------------------------------------------------------------------
(***************************************************************************)
(* The components of the system are those the theorems are about.          *)
(***************************************************************************)
LEMMA ManagerAssumptions ==
  MP!ParametersAssumption!: /\ MP!FloatAssumption!: /\ MP!InputsAssumption!:
<1>1. MP!ParametersAssumption!: /\ MP!FloatAssumption!:
  BY ComponentsAssumption
<1>2. MP!InputsAssumption!:
  BY ComponentsAssumption DEF Mgr!IsFiniteSet, MP!IsFiniteSet, Mgr!Config, MP!Config
<1> QED
  BY <1>1, <1>2

LEMMA TrackerAssumptions == TP!TrackerAssumption!:
BY ComponentsAssumption DEF Trk!IsFiniteSet, TP!IsFiniteSet

\* The manager's actions and operators are those of its theorems.
LEMMA SameManager ==
  /\ Mgr!Init <=> MP!Init
  /\ Mgr!Next <=> MP!Next
  /\ Mgr!vars = MP!vars
  /\ Mgr!Startup <=> MP!Startup
  /\ Mgr!StartupFails <=> MP!StartupFails
  /\ Mgr!OnShutdown <=> MP!OnShutdown
  /\ Mgr!Shutdown <=> MP!Shutdown
  /\ Mgr!WorkerLoopHead <=> MP!WorkerLoopHead
  /\ Mgr!WorkerTick <=> MP!WorkerTick
  /\ Mgr!ManageRoutes <=> MP!ManageRoutes
  /\ Mgr!StaleReturn <=> MP!StaleReturn
  /\ Mgr!AnswerBeyondBounds <=> MP!AnswerBeyondBounds
  /\ Mgr!NetlinkSend <=> MP!NetlinkSend
  /\ Mgr!LockFree <=> MP!LockFree
  /\ \A m : Mgr!EvaluateMark(m) <=> MP!EvaluateMark(m)
  /\ \A t : (Mgr!ReadyForMessage(t) <=> MP!ReadyForMessage(t)) /\ (Mgr!Return(t) <=> MP!Return(t))
  /\ \A d, ttl : Mgr!InsertRoute(d, ttl) <=> MP!InsertRoute(d, ttl)
  /\ \A d : Mgr!ConfirmRouteAdd(d) <=> MP!ConfirmRouteAdd(d)
  /\ \A d : Mgr!ConfirmRouteDel(d) <=> MP!ConfirmRouteDel(d)
  /\ Mgr!ProcessNetDevUpdate(out.config) <=> MP!ProcessNetDevUpdate(out.config)
  /\ \A r : Mgr!Managed(r) = MP!Managed(r)
  /\ \A map, d : Mgr!Has(map, d) <=> MP!Has(map, d)
  /\ \A c, d : FamilyAvail(c, d) <=> MP!FamilyAvail(c, d)
<1>1. /\ Mgr!Init <=> MP!Init
      /\ Mgr!vars = MP!vars
  BY DEF
     Mgr!vars, MP!vars, Mgr!Callers, MP!Callers, Mgr!Absent, MP!Absent,
     Mgr!NoRoutes, MP!NoRoutes, Mgr!Init, MP!Init, Mgr!EmptyConfig, MP!EmptyConfig,
     Mgr!EmptyBag, MP!EmptyBag, Mgr!SetToBag, MP!SetToBag
<1>2. /\ \A r : Mgr!Managed(r) = MP!Managed(r)
      /\ \A map, d : Mgr!Has(map, d) <=> MP!Has(map, d)
      /\ \A c, d : FamilyAvail(c, d) <=> MP!FamilyAvail(c, d)
  BY DEF
     Mgr!Absent, MP!Absent, Mgr!Has, MP!Has, Mgr!Managed, MP!Managed, Mgr!isV6, MP!isV6,
     Mgr!isIPV4Avail, MP!isIPV4Avail, Mgr!isIPV6Avail, MP!isIPV6Avail,
     Mgr!FamilyAvail, MP!FamilyAvail, isV6, isIPV4Avail, isIPV6Avail, FamilyAvail
<1>3. /\ Mgr!Startup <=> MP!Startup
      /\ Mgr!StartupFails <=> MP!StartupFails
      /\ Mgr!OnShutdown <=> MP!OnShutdown
      /\ Mgr!Shutdown <=> MP!Shutdown
      /\ Mgr!WorkerLoopHead <=> MP!WorkerLoopHead
      /\ Mgr!WorkerTick <=> MP!WorkerTick
      /\ Mgr!StaleReturn <=> MP!StaleReturn
      /\ Mgr!AnswerBeyondBounds <=> MP!AnswerBeyondBounds
      /\ Mgr!NetlinkSend <=> MP!NetlinkSend
      /\ Mgr!LockFree <=> MP!LockFree
      /\ Mgr!Ended <=> MP!Ended
  BY DEF
     Mgr!vars, MP!vars, Mgr!Callers, MP!Callers, Mgr!Absent, MP!Absent, Mgr!Has, MP!Has,
     Mgr!Size, MP!Size, Mgr!LoopGoesOn, MP!LoopGoesOn, Mgr!Front, MP!Front,
     Mgr!LockFree, MP!LockFree, Mgr!Load, MP!Load, Mgr!Horizon, MP!Horizon,
     Mgr!Startup, MP!Startup, Mgr!StartupFails, MP!StartupFails,
     Mgr!OnShutdown, MP!OnShutdown, Mgr!Shutdown, MP!Shutdown,
     Mgr!WorkerLoopHead, MP!WorkerLoopHead, Mgr!WorkerTick, MP!WorkerTick,
     Mgr!StaleReturn, MP!StaleReturn, Mgr!AnswerBeyondBounds, MP!AnswerBeyondBounds,
     Mgr!NetlinkSend, MP!NetlinkSend, Mgr!Ended, MP!Ended, Mgr!Cardinality, MP!Cardinality
<1>4. \A m : Mgr!EvaluateMark(m) <=> MP!EvaluateMark(m)
  BY SMTT(30) DEF
     Mgr!Absent, MP!Absent, Mgr!Has, MP!Has, Mgr!Erase, MP!Erase,
     Mgr!LoopGoesOn, MP!LoopGoesOn, Mgr!Expires, MP!Expires, Mgr!Front, MP!Front,
     Mgr!EvaluateMark, MP!EvaluateMark, Mgr!SetToBag, MP!SetToBag, Mgr!(-), MP!(-)
<1>5. \A r, c : Mgr!ProcessPendingInserts(r, c) <=> MP!ProcessPendingInserts(r, c)
  BY SMTT(30) DEF
     Mgr!Absent, MP!Absent, Mgr!Has, MP!Has, Mgr!Erase, MP!Erase,
     Mgr!FinalizeRouteInsert, MP!FinalizeRouteInsert, Mgr!GivenUp, MP!GivenUp,
     Mgr!Retried, MP!Retried, Mgr!CountTry, MP!CountTry,
     Mgr!RetryRequests, MP!RetryRequests, Mgr!MayPush, MP!MayPush,
     Mgr!ProcessPendingInserts, MP!ProcessPendingInserts, Mgr!isV6, MP!isV6,
     Mgr!isIPV4Avail, MP!isIPV4Avail, Mgr!isIPV6Avail, MP!isIPV6Avail,
     Mgr!FamilyAvail, MP!FamilyAvail, Mgr!EmptyBag, MP!EmptyBag, Mgr!SetToBag, MP!SetToBag,
     Mgr!(+), MP!(+), Mgr!Cardinality, MP!Cardinality
<1>6. Mgr!ManageRoutes <=> MP!ManageRoutes
  BY <1>5 DEF
     Mgr!Callers, MP!Callers, Mgr!Size, MP!Size, Mgr!Digits, MP!Digits, Mgr!Scale, MP!Scale,
     Mgr!Spacing, MP!Spacing, Mgr!Round, MP!Round, Mgr!Nearest, MP!Nearest,
     Mgr!StaleBudget, MP!StaleBudget,
     Mgr!LockFree, MP!LockFree, Mgr!ManageRoutes, MP!ManageRoutes,
     Mgr!Cardinality, MP!Cardinality
<1>7. /\ \A t : (Mgr!ReadyForMessage(t) <=> MP!ReadyForMessage(t)) /\ (Mgr!Return(t) <=> MP!Return(t))
      /\ \A d, ttl : Mgr!InsertRoute(d, ttl) <=> MP!InsertRoute(d, ttl)
  BY DEF
     Mgr!Callers, MP!Callers, Mgr!Absent, MP!Absent, Mgr!Has, MP!Has, Mgr!Size, MP!Size,
     Mgr!Erase, MP!Erase, Mgr!LockFree, MP!LockFree, Mgr!Load, MP!Load, Mgr!Room, MP!Room,
     Mgr!Horizon, MP!Horizon, Mgr!ReadyForMessage, MP!ReadyForMessage, Mgr!Enter, MP!Enter,
     Mgr!Return, MP!Return, Mgr!ExtendActive, MP!ExtendActive, Mgr!PushRoute, MP!PushRoute,
     Mgr!InsertRoute, MP!InsertRoute, Mgr!isV6, MP!isV6, Mgr!isIPV4Avail, MP!isIPV4Avail,
     Mgr!isIPV6Avail, MP!isIPV6Avail, Mgr!FamilyAvail, MP!FamilyAvail,
     Mgr!EmptyBag, MP!EmptyBag, Mgr!SetToBag, MP!SetToBag, Mgr!(+), MP!(+),
     Mgr!Cardinality, MP!Cardinality
<1>8. /\ \A d : Mgr!ConfirmRouteAdd(d) <=> MP!ConfirmRouteAdd(d)
      /\ \A d : Mgr!ConfirmRouteDel(d) <=> MP!ConfirmRouteDel(d)
  BY DEF
     Mgr!Callers, MP!Callers, Mgr!Absent, MP!Absent, Mgr!Has, MP!Has, Mgr!Size, MP!Size,
     Mgr!Managed, MP!Managed, Mgr!Erase, MP!Erase,
     Mgr!FinalizeRouteInsert, MP!FinalizeRouteInsert,
     Mgr!FinalizeRouteDelete, MP!FinalizeRouteDelete, Mgr!LockFree, MP!LockFree,
     Mgr!Load, MP!Load, Mgr!Room, MP!Room, Mgr!Horizon, MP!Horizon, Mgr!Enter, MP!Enter,
     Mgr!ConfirmRouteAdd, MP!ConfirmRouteAdd, Mgr!ConfirmRouteDel, MP!ConfirmRouteDel,
     Mgr!EmptyBag, MP!EmptyBag, Mgr!SetToBag, MP!SetToBag, Mgr!(+), MP!(+),
     Mgr!Cardinality, MP!Cardinality
<1>9. \A r, a, b : Mgr!InvalidateActiveRoutes(r, a, b) = MP!InvalidateActiveRoutes(r, a, b)
  BY DEF
     Mgr!Absent, MP!Absent, Mgr!Has, MP!Has, Mgr!Erase, MP!Erase,
     Mgr!FinalizeRouteDelete, MP!FinalizeRouteDelete,
     Mgr!InvalidateActiveRoutes, MP!InvalidateActiveRoutes, Mgr!isV6, MP!isV6
<1>10. \A c : Mgr!ProcessNetDevUpdate(c) <=> MP!ProcessNetDevUpdate(c)
  BY <1>5, <1>9 DEF
     Mgr!Callers, MP!Callers, Mgr!Absent, MP!Absent, Mgr!Has, MP!Has, Mgr!Size, MP!Size,
     Mgr!LockFree, MP!LockFree, Mgr!Load, MP!Load, Mgr!Room, MP!Room, Mgr!Enter, MP!Enter,
     Mgr!ProcessNetDevUpdate, MP!ProcessNetDevUpdate, Mgr!isV6, MP!isV6,
     Mgr!isIPV4Avail, MP!isIPV4Avail, Mgr!isIPV6Avail, MP!isIPV6Avail,
     Mgr!Cardinality, MP!Cardinality
<1>11. Mgr!Callers = MP!Callers
  BY DEF Mgr!Callers, MP!Callers
<1>12. Mgr!Next <=> MP!Next
  BY <1>3, <1>4, <1>5, <1>6, <1>7, <1>8, <1>9, <1>10, <1>11
     DEF Mgr!Next, MP!Next, Mgr!ManagerStep, MP!ManagerStep, Mgr!MessageStep, MP!MessageStep,
         Mgr!Config, MP!Config
<1> QED
  BY <1>1, <1>2, <1>3, <1>4, <1>5, <1>6, <1>7, <1>8, <1>9, <1>10, <1>11, <1>12

\* And so are the tracker's.
LEMMA SameTracker ==
  /\ Trk!Init <=> TP!Init
  /\ Trk!Next <=> TP!Next
  /\ Trk!vars = TP!vars
  /\ Trk!LinkUp <=> TP!LinkUp
  /\ Trk!LinkDelete <=> TP!LinkDelete
  /\ Trk!LinkCreate <=> TP!LinkCreate
  /\ Trk!OpenSocket <=> TP!OpenSocket
  /\ Trk!DumpLinks <=> TP!DumpLinks
  /\ Trk!DumpAddrs <=> TP!DumpAddrs
  /\ Trk!LoopHead <=> TP!LoopHead
  /\ Trk!Receive <=> TP!Receive
  /\ Trk!SelectTimeout <=> TP!SelectTimeout
  /\ Trk!Stop <=> TP!Stop
  /\ Trk!CloseFails <=> TP!CloseFails
  /\ Trk!ReceiveFails <=> TP!ReceiveFails
  /\ Trk!StartFails <=> TP!StartFails
  /\ Trk!OnShutdown <=> TP!OnShutdown
  /\ Trk!Drop <=> TP!Drop
  /\ Trk!Handle <=> TP!Handle
  /\ Trk!HandlerReturns <=> TP!HandlerReturns
  /\ \A S : Trk!LinkDown(S) <=> TP!LinkDown(S)
  /\ \A ip : (Trk!AddrAdd(ip) <=> TP!AddrAdd(ip)) /\ (Trk!AddrDel(ip) <=> TP!AddrDel(ip))
  /\ \A ms : Trk!Notify(ms) <=> TP!Notify(ms)
  /\ \A type, idx, ours, d : Trk!Route(type, idx, ours, d) = TP!Route(type, idx, ours, d)
  /\ Trk!Subscribed <=> TP!Subscribed
  /\ Trk!Ended <=> TP!Ended
  /\ Trk!Quiescent <=> TP!Quiescent
  /\ Trk!NeverDeleted <=> TP!NeverDeleted
  /\ Trk!trackerVars = TP!trackerVars
  /\ \A ip : isV6(ip) <=> TP!isV6(ip)
BY DEF
     Trk!kernelVars, TP!kernelVars, Trk!trackerVars, TP!trackerVars, Trk!vars, TP!vars,
     Trk!Interface, TP!Interface, Trk!Ext!SetToSeqs, TP!Ext!SetToSeqs,
     Trk!Ext!Cardinality, TP!Ext!Cardinality, Trk!IsFiniteSet, TP!IsFiniteSet,
     Trk!Cardinality, TP!Cardinality, Trk!Link, TP!Link, Trk!Addr, TP!Addr,
     Trk!Route, TP!Route, Trk!NoMessage, TP!NoMessage, Trk!NothingSeen, TP!NothingSeen,
     Trk!KnownConfig, TP!KnownConfig, Trk!OutMessages, TP!OutMessages, Trk!Ended, TP!Ended,
     Trk!Subscribed, TP!Subscribed, Trk!Notify, TP!Notify, Trk!NameMatches, TP!NameMatches,
     Trk!LinkUp, TP!LinkUp, Trk!V6Addrs, TP!V6Addrs, Trk!LinkDown, TP!LinkDown,
     Trk!AddrAdd, TP!AddrAdd, Trk!AddrDel, TP!AddrDel, Trk!LinkDelete, TP!LinkDelete,
     Trk!LinkCreate, TP!LinkCreate, Trk!RouteChange, TP!RouteChange,
     Trk!HandleError, TP!HandleError, Trk!OpenSocket, TP!OpenSocket,
     Trk!StartFails, TP!StartFails, Trk!DumpLinks, TP!DumpLinks,
     Trk!InitialConfig, TP!InitialConfig, Trk!DumpAddrs, TP!DumpAddrs, Trk!Handle, TP!Handle,
     Trk!HandlerReturns, TP!HandlerReturns, Trk!Drop, TP!Drop, Trk!Deliver, TP!Deliver,
     Trk!LoopHead, TP!LoopHead, Trk!Stop, TP!Stop, Trk!CloseFails, TP!CloseFails,
     Trk!SelectTimeout, TP!SelectTimeout, Trk!ReceiveFails, TP!ReceiveFails,
     Trk!LinkConfig, TP!LinkConfig, Trk!AddrConfig, TP!AddrConfig, Trk!Send, TP!Send,
     Trk!Take, TP!Take, Trk!Receive, TP!Receive, Trk!OnShutdown, TP!OnShutdown,
     Trk!Init, TP!Init, Trk!KernelStep, TP!KernelStep, Trk!Run, TP!Run,
     Trk!TrackerStep, TP!TrackerStep, Trk!Finished, TP!Finished, Trk!Next, TP!Next,
     Trk!isV6, TP!isV6, Trk!Config, TP!Config, Trk!EmptyConfig, TP!EmptyConfig,
     Trk!AddLocalIP, TP!AddLocalIP, Trk!DelLocalIP, TP!DelLocalIP, Trk!SetState, TP!SetState,
     Trk!SetType, TP!SetType, Trk!Quiescent, TP!Quiescent, Trk!NeverDeleted, TP!NeverDeleted, isV6

-----------------------------------------------------------------------------
(***************************************************************************)
(* What ties the two together: a handler of the tracker's messages runs    *)
(* while the tracker delivers; before its first delivery the manager knows *)
(* of no interface; the kernel keeps unicast routes while the link is up.  *)
(***************************************************************************)
Wiring ==
  /\ worker = "none" => /\ caller = [t \in MP!Callers |-> "idle"]
                        /\ MP!Managed(routes) = {}
                        /\ tracker = "start"
  /\ caller["tracker"] = "ready" => tracker = "deliver"
  /\ tracker \in {"start", "links", "addrs"} => ifCfg = EmptyConfig
  /\ fib \in [Dests -> SUBSET Kinds]
  /\ \A d \in Dests : "unicast" \in fib[d] => iface.up

\* The part of the invariants that is about how the components fit.
Joint == MP!IInv /\ TP!Shape /\ Wiring

\* What the theorems about the components are cited for.
LEMMA OutIsKnown ==
  ASSUME TP!Shape, tracker = "deliver"
  PROVE  /\ out.type = "netdev" => out.config \in Configs
         /\ out.type \in {"added", "removed"} => out.dest \in Dests
BY DEF TP!Shape, TP!TypeOK, TP!OutMessages, TP!NoMessage, TP!KnownConfig, TP!Config, Configs, Config

LEMMA RequestIsKnown ==
  ASSUME MP!IInv, netlink # <<>>
  PROVE  /\ Head(netlink) \in MP!Request /\ Head(netlink).dest \in Dests
         /\ 1 \in DOMAIN netlink /\ netlink[1] = Head(netlink)
         /\ Head(netlink).type = "addUnicast" =>
              FamilyAvail(ifCfg, Head(netlink).dest) /\ Head(netlink).dest \in MP!Managed(routes)
<1>1. netlink \in Seq(MP!Request)
  BY DEF MP!IInv, MP!TypeOK
<1>2. 1 \in DOMAIN netlink /\ netlink[1] = Head(netlink) /\ Head(netlink) \in MP!Request
  BY <1>1
<1>3. MP!RequestMatches(netlink[1], routes, ifCfg)
  BY <1>2 DEF MP!IInv, MP!RequestsMatchState
<1> QED
  BY <1>2, <1>3, SameManager DEF MP!RequestMatches, MP!Request, MP!Managed

LEMMA LinkIsUp ==
  ASSUME TP!Shape, Wiring, NEW d \in Dests, "unicast" \in fib[d]
  PROVE  iface.up /\ iface.idx # 0
BY DEF TP!Shape, Wiring

-----------------------------------------------------------------------------
(***************************************************************************)
(* Each step of the system is one of the manager, or leaves it alone.      *)
(***************************************************************************)
LEMMA ManagerRefines ==
  ASSUME Joint, [Next]_vars
  PROVE  [MP!Next]_(MP!vars)
<1>1. CASE UNCHANGED MP!vars
  BY <1>1
<1>2. CASE MgrStep
  BY <1>2, SameManager DEF MgrStep, MP!Next, MP!ManagerStep, MP!MessageStep, MP!Callers
<1>3. ASSUME NEW d \in Dests, DnsAnswer(d) PROVE [MP!Next]_(MP!vars)
  BY <1>3, SameManager DEF DnsAnswer, MP!Next, MP!MessageStep
<1>4. CASE TakeRequest \/ LoseRequest
  BY <1>4, SameManager DEF TakeRequest, LoseRequest, MP!Next
<1>5. CASE Offer \/ HandlerReturns
  BY <1>5, SameManager DEF Offer, HandlerReturns, MP!Next, MP!MessageStep, MP!Callers
<1>6. CASE Handle
  <2>1. tracker = "deliver"
    BY <1>6 DEF Handle, Trk!Handle
  <2>2. \/ out.type = "netdev" /\ MP!ProcessNetDevUpdate(out.config)
        \/ out.type = "added" /\ MP!ConfirmRouteAdd(out.dest)
        \/ out.type = "removed" /\ MP!ConfirmRouteDel(out.dest)
    BY <1>6, SameManager DEF Handle
  <2> QED
    BY <2>1, <2>2, OutIsKnown DEF Joint, MP!Next, MP!MessageStep
<1>7. CASE TrackerStep \/ InterfaceStep \/ AdminStep \/ Drop
  BY <1>1, <1>7
     DEF TrackerStep, InterfaceStep, AdminStep, Drop, mgrOwn, trkOwn, MP!vars,
         Trk!OpenSocket, Trk!DumpLinks, Trk!DumpAddrs, Trk!LoopHead, Trk!Receive,
         Trk!SelectTimeout, Trk!Stop, Trk!CloseFails, Trk!ReceiveFails, Trk!StartFails,
         Trk!HandleError, Trk!OnShutdown, Trk!Drop, Trk!LinkUp, Trk!LinkDown, Trk!AddrAdd,
         Trk!AddrDel, Trk!LinkDelete, Trk!LinkCreate, Trk!trackerVars
<1>8. CASE Finished \/ BeyondBounds \/ UNCHANGED vars
  BY <1>1, <1>8 DEF Finished, BeyondBounds, vars, mgrOwn, MP!vars
<1> QED
  BY <1>2, <1>3, <1>4, <1>5, <1>6, <1>7, <1>8 DEF Next

(***************************************************************************)
(* And each is one of the tracker, or leaves it alone: what the kernel and *)
(* others do to routes is what the tracker alone expects.                  *)
(***************************************************************************)
LEMMA AnnounceIsChange ==
  ASSUME NEW type \in {"newroute", "delroute"}, NEW d \in Dests, Announce(type, d),
         iface.idx # 0, UNCHANGED <<ifCfg, trkOwn, iface>>
  PROVE  TP!Next
<1>1. TP!RouteChange(type, TRUE, d)
  BY SameTracker DEF Announce, TP!RouteChange, trkOwn, TP!trackerVars
<1> QED
  BY <1>1 DEF TP!Next, TP!KernelStep

LEMMA TrackerRefines ==
  ASSUME Joint, [Next]_vars
  PROVE  [TP!Next]_(TP!vars)
<1>1. CASE UNCHANGED <<ifCfg, trkOwn, kernel>>
  BY <1>1 DEF trkOwn, kernel, TP!vars
<1>2. CASE MgrStep
  BY <1>1, <1>2 DEF MgrStep, Mgr!Startup, Mgr!StartupFails, Mgr!OnShutdown, Mgr!WorkerLoopHead,
     Mgr!WorkerTick, Mgr!ManageRoutes, Mgr!StaleReturn, Mgr!EvaluateMark, Mgr!ReadyForMessage,
     Mgr!Return, Mgr!AnswerBeyondBounds, Mgr!Shutdown
<1>3. ASSUME NEW d \in Dests, DnsAnswer(d) PROVE [TP!Next]_(TP!vars)
  BY <1>1, <1>3 DEF DnsAnswer, Mgr!InsertRoute
<1>4. CASE TakeRequest
  <2>1. netlink # <<>> /\ UNCHANGED <<ifCfg, trkOwn, iface>>
    BY <1>4 DEF TakeRequest, Mgr!NetlinkSend
  <2>2. Head(netlink).dest \in Dests
    BY <2>1, RequestIsKnown DEF Joint
  <2>3. CASE UNCHANGED <<queue, overrun>>
    BY <1>1, <2>1, <2>3 DEF kernel
  <2>4. CASE iface.idx # 0 /\ Announce("newroute", Head(netlink).dest)
    BY <2>1, <2>2, <2>4, AnnounceIsChange
  <2>5. CASE "unicast" \in fib[Head(netlink).dest] /\ Announce("delroute", Head(netlink).dest)
    <3>1. iface.idx # 0
      BY <2>2, <2>5, LinkIsUp DEF Joint
    <3> QED
      BY <2>1, <2>2, <2>5, <3>1, AnnounceIsChange
  <2> QED
    BY <1>4, <2>3, <2>4, <2>5 DEF TakeRequest
<1>5. CASE AdminStep
  <2>1. PICK d \in Dests :
          \/ iface.idx # 0 /\ Announce("newroute", d)
          \/ "unicast" \in fib[d] /\ Announce("delroute", d)
    BY <1>5 DEF AdminStep
  <2>2. UNCHANGED <<ifCfg, trkOwn, iface>> /\ iface.idx # 0
    BY <1>5, <2>1, LinkIsUp DEF AdminStep, Joint
  <2> QED
    BY <2>1, <2>2, AnnounceIsChange
<1>6. CASE InterfaceStep
  <2>1. GoneWithLink \in SUBSET {d \in Dests : TP!isV6(d)}
    BY SameTracker DEF GoneWithLink
  <2> QED
    BY <1>6, <2>1, SameTracker DEF InterfaceStep, TP!Next, TP!KernelStep
<1>7. CASE TrackerStep
  BY <1>7, SameTracker DEF TrackerStep, TP!Next, TP!TrackerStep, TP!Run
<1>8. CASE Drop \/ Handle \/ HandlerReturns
  BY <1>8, SameTracker DEF Drop, Handle, HandlerReturns, TP!Next, TP!TrackerStep, TP!Deliver
<1>9. CASE LoseRequest \/ Offer \/ Finished \/ BeyondBounds \/ UNCHANGED vars
  BY <1>1, <1>9
     DEF LoseRequest, Offer, Finished, BeyondBounds, vars, Mgr!NetlinkSend, Mgr!ReadyForMessage
<1> QED
  BY <1>2, <1>3, <1>4, <1>5, <1>6, <1>7, <1>8, <1>9 DEF Next

-----------------------------------------------------------------------------
(***************************************************************************)
(* The wiring.                                                             *)
(***************************************************************************)
LEMMA TrackerKeeps ==
  ASSUME TrackerStep
  PROVE  /\ UNCHANGED <<mgrOwn, ifCfg, fib, history, iface>>
         /\ tracker' # "start"  \/ tracker = "start"
         /\ tracker = "deliver" => tracker' = "deliver"
         /\ tracker' \in {"start", "links", "addrs"} => tracker \in {"start", "links", "addrs"}
         /\ worker = "none" /\ tracker = "start" => tracker' = "start"
BY DEF TrackerStep, Trk!OpenSocket, Trk!DumpLinks, Trk!DumpAddrs, Trk!LoopHead, Trk!Receive,
       Trk!Send, Trk!SelectTimeout, Trk!Stop, Trk!CloseFails, Trk!ReceiveFails,
       Trk!StartFails, Trk!HandleError, Trk!OnShutdown, Trk!kernelVars

LEMMA InterfaceKeeps ==
  ASSUME InterfaceStep
  PROVE  UNCHANGED <<mgrOwn, ifCfg, trkOwn, history>>
BY DEF InterfaceStep, trkOwn, Trk!LinkUp, Trk!LinkDown, Trk!AddrAdd, Trk!AddrDel, Trk!LinkDelete,
       Trk!LinkCreate, Trk!trackerVars

\* The steps of the manager outside the handlers manage nothing new.
LEMMA ManagerKeeps ==
  ASSUME MP!IInv, MgrStep
  PROVE  /\ UNCHANGED <<ifCfg, trkOwn, kernel, fib, inherited>>
         /\ MP!Managed(routes') \subseteq MP!Managed(routes)
<1>1. UNCHANGED <<trkOwn, kernel, fib, inherited>>
  BY DEF MgrStep, Nobody, Record
<1>2. CASE MP!ManageRoutes
  BY <1>1, <1>2, MP!ManagedKept, ManagerAssumptions DEF MP!ManageRoutes
<1>3. ASSUME NEW m \in DOMAIN routes.pendingExpires, MP!EvaluateMark(m)
      PROVE  UNCHANGED ifCfg /\ MP!Managed(routes') \subseteq MP!Managed(routes)
  BY <1>3, MP!ManagedAfterMark, ManagerAssumptions DEF MP!EvaluateMark
<1>4. CASE \/ MP!Startup \/ MP!StartupFails \/ MP!OnShutdown \/ MP!WorkerLoopHead
           \/ MP!WorkerTick \/ MP!StaleReturn \/ MP!ReadyForMessage("dns")
           \/ MP!Return("dns") \/ MP!AnswerBeyondBounds \/ MP!Shutdown
  BY <1>1, <1>4 DEF MP!Startup, MP!StartupFails, MP!OnShutdown, MP!WorkerLoopHead,
     MP!WorkerTick, MP!StaleReturn, MP!ReadyForMessage, MP!Return, MP!AnswerBeyondBounds,
     MP!Shutdown
<1> QED
  BY <1>1, <1>2, <1>3, <1>4, SameManager DEF MgrStep

\* Which handlers are called, and by whom.
LEMMA WhoIsCalled ==
  ASSUME MP!IInv, Wiring, [Next]_vars
  PROVE  /\ worker' = "none" => /\ worker = "none"
                                /\ caller' = caller /\ routes' = routes
         /\ caller'["tracker"] = "ready" => \/ caller["tracker"] = "ready"
                                            \/ tracker = "deliver" /\ tracker' = "deliver"
<1>1. caller \in [MP!Callers -> {"idle", "ready", "inside"}]
  BY DEF MP!IInv, MP!TypeOK
<1>2. worker = "none" => \A t \in MP!Callers : caller[t] = "idle"
  BY DEF Wiring
<1>3. CASE MgrStep
  <2>1. worker' # "none" \/ (worker = "none" /\ caller' = caller /\ routes' = routes)
    BY <1>2, <1>3 DEF MgrStep, Mgr!Startup, Mgr!StartupFails, Mgr!OnShutdown,
       Mgr!WorkerLoopHead, Mgr!WorkerTick, Mgr!ManageRoutes, Mgr!StaleReturn, Mgr!EvaluateMark,
       Mgr!ReadyForMessage, Mgr!Return, Mgr!AnswerBeyondBounds, Mgr!Shutdown, MP!Callers
  <2>2. caller'["tracker"] = caller["tracker"]
    BY <1>1, <1>3 DEF MgrStep, Mgr!Startup, Mgr!StartupFails, Mgr!OnShutdown,
       Mgr!WorkerLoopHead, Mgr!WorkerTick, Mgr!ManageRoutes, Mgr!StaleReturn, Mgr!EvaluateMark,
       Mgr!ReadyForMessage, Mgr!Return, Mgr!AnswerBeyondBounds, Mgr!Shutdown, MP!Callers
  <2> QED
    BY <2>1, <2>2
<1>4. ASSUME NEW d \in Dests, DnsAnswer(d)
      PROVE  worker' # "none" /\ caller'["tracker"] = caller["tracker"]
  BY <1>1, <1>2, <1>4 DEF DnsAnswer, Mgr!InsertRoute, Mgr!Enter, MP!Callers
<1>5. CASE Handle
  BY <1>1, <1>2, <1>5 DEF Handle, Mgr!ProcessNetDevUpdate, Mgr!ConfirmRouteAdd,
     Mgr!ConfirmRouteDel, Mgr!Enter, MP!Callers
<1>6. CASE HandlerReturns \/ Offer
  BY <1>1, <1>2, <1>6
     DEF HandlerReturns, Offer, trkOwn, Mgr!Return, Mgr!ReadyForMessage, MP!Callers
<1>7. CASE TrackerStep \/ InterfaceStep \/ AdminStep \/ Drop
  BY <1>7, TrackerKeeps, InterfaceKeeps DEF AdminStep, Drop, mgrOwn
<1>8. CASE TakeRequest \/ LoseRequest
  BY <1>8 DEF TakeRequest, LoseRequest, Mgr!NetlinkSend
<1>9. CASE Finished \/ BeyondBounds \/ UNCHANGED vars
  BY <1>9 DEF Finished, BeyondBounds, vars, mgrOwn
<1> QED
  BY <1>3, <1>4, <1>5, <1>6, <1>7, <1>8, <1>9 DEF Next

\* The table, and the link its unicast routes need.
LEMMA TableStep ==
  ASSUME TP!Shape, MP!IInv, Wiring, [Next]_vars
  PROVE  /\ fib' \in [Dests -> SUBSET Kinds]
         /\ \A d \in Dests : "unicast" \in fib'[d] => iface'.up
<1>1. fib \in [Dests -> SUBSET Kinds] /\ \A d \in Dests : "unicast" \in fib[d] => iface.up
  BY DEF Wiring
<1>2. CASE UNCHANGED <<fib, iface>>
  BY <1>1, <1>2
<1>3. CASE TakeRequest
  <2> DEFINE q == Head(netlink)
  <2>1. q.dest \in Dests
    BY <1>3, RequestIsKnown DEF TakeRequest, Mgr!NetlinkSend
  <2>2. UNCHANGED iface
    BY <1>3 DEF TakeRequest
  <2>3. \/ fib' = [fib EXCEPT ![q.dest] = @ \cup {"blackhole"}]
        \/ iface.up /\ fib' = [fib EXCEPT ![q.dest] = @ \cup {"unicast"}]
        \/ UNCHANGED fib
        \/ fib' = [fib EXCEPT ![q.dest] = @ \ {"unicast"}]
        \/ fib' = [fib EXCEPT ![q.dest] = @ \ {"blackhole"}]
    BY <1>3 DEF TakeRequest
  <2> HIDE DEF q
  <2> QED
    BY <1>1, <2>1, <2>2, <2>3 DEF Kinds
<1>4. CASE AdminStep
  <2>1. PICK d \in Dests : \/ iface.up /\ fib' = [fib EXCEPT ![d] = @ \cup {"unicast"}]
                           \/ fib' = [fib EXCEPT ![d] = @ \ {"unicast"}]
    BY <1>4 DEF AdminStep
  <2>2. UNCHANGED iface
    BY <1>4 DEF AdminStep
  <2> QED
    BY <1>1, <2>1, <2>2 DEF Kinds
<1>5. CASE InterfaceStep
  <2>1. fib' = [d \in Dests |-> IF ~iface'.up \/ (~isV6(d) /\ LosesIPv4)
                                THEN fib[d] \ {"unicast"} ELSE fib[d]]
    BY <1>5 DEF InterfaceStep
  <2> QED
    BY <1>1, <2>1
<1>6. CASE MgrStep \/ TrackerStep
  BY <1>2, <1>6, ManagerKeeps, TrackerKeeps DEF kernel
<1>7. CASE \/ LoseRequest \/ Offer \/ Drop \/ Handle \/ HandlerReturns
           \/ \E d \in Dests : DnsAnswer(d)
  BY <1>2, <1>7 DEF LoseRequest, Offer, Drop, Handle, HandlerReturns, DnsAnswer, kernel,
     Trk!Drop, Trk!Handle, Trk!HandlerReturns, Trk!kernelVars
<1>8. CASE Finished \/ BeyondBounds \/ UNCHANGED vars
  BY <1>2, <1>8 DEF Finished, BeyondBounds, vars, kernel
<1> QED
  BY <1>3, <1>4, <1>5, <1>6, <1>7, <1>8 DEF Next

LEMMA WiringStep ==
  ASSUME Joint, [Next]_vars
  PROVE  Wiring'
<1>1. MP!IInv /\ TP!Shape /\ Wiring
  BY DEF Joint
<1>2. /\ worker' = "none" => /\ worker = "none" /\ caller' = [t \in MP!Callers |-> "idle"]
                             /\ MP!Managed(routes') = {}
      /\ caller'["tracker"] = "ready" => \/ tracker = "deliver" /\ caller["tracker"] = "ready"
                                         \/ tracker' = "deliver"
  BY <1>1, WhoIsCalled DEF Wiring
<1>3. /\ worker' = "none" => tracker' = "start"
      /\ caller'["tracker"] = "ready" => tracker' = "deliver"
      /\ tracker' \in {"start", "links", "addrs"} => ifCfg' = EmptyConfig
  <2>1. CASE UNCHANGED <<tracker, ifCfg>>
    BY <1>1, <1>2, <2>1 DEF Wiring
  <2>2. CASE MgrStep \/ InterfaceStep
    BY <1>1, <2>1, <2>2, ManagerKeeps, InterfaceKeeps DEF trkOwn
  <2>3. CASE TakeRequest \/ LoseRequest \/ AdminStep \/ Offer \/ \E d \in Dests : DnsAnswer(d)
    BY <2>1, <2>3 DEF TakeRequest, LoseRequest, AdminStep, Offer, DnsAnswer, trkOwn, Mgr!NetlinkSend,
       Mgr!ReadyForMessage, Mgr!InsertRoute
  <2>4. CASE TrackerStep
    BY <1>1, <1>2, <2>4, TrackerKeeps DEF Wiring
  <2>5. CASE Handle
    <3>1. tracker = "deliver" /\ tracker' = "handled" /\ caller'["tracker"] = "inside"
      BY <1>1, <2>5 DEF Handle, Trk!Handle, Mgr!ProcessNetDevUpdate, Mgr!ConfirmRouteAdd,
         Mgr!ConfirmRouteDel, Mgr!Enter, MP!IInv, MP!TypeOK, MP!Callers
    <3> QED
      BY <1>1, <1>2, <3>1 DEF Wiring
  <2>6. CASE HandlerReturns
    <3>1. tracker = "handled" /\ tracker' = "head" /\ caller'["tracker"] = "idle"
      BY <1>1, <2>6 DEF HandlerReturns, Trk!HandlerReturns, Mgr!Return, MP!IInv, MP!TypeOK, MP!Callers
    <3> QED
      BY <1>1, <1>2, <3>1 DEF Wiring
  <2>7. CASE Drop
    <3>1. tracker = "deliver" /\ tracker' = "head" /\ caller'["tracker"] = "idle"
      BY <2>7 DEF Drop, Trk!Drop, mgrOwn
    <3> QED
      BY <1>1, <1>2, <3>1 DEF Wiring
  <2>8. CASE Finished \/ BeyondBounds \/ UNCHANGED vars
    BY <2>1, <2>8 DEF Finished, BeyondBounds, vars, trkOwn
  <2> QED
    BY <2>2, <2>3, <2>4, <2>5, <2>6, <2>7, <2>8 DEF Next
<1> QED
  BY <1>1, <1>2, <1>3, TableStep DEF Wiring

LEMMA JointInit == Init => Joint
<1> SUFFICES ASSUME Init PROVE Joint
  OBVIOUS
<1>1. MP!Init /\ TP!Init
  BY SameManager, SameTracker DEF Init
<1>2. MP!IInv
  BY <1>1, MP!InitInv, ManagerAssumptions
<1>3. TP!Shape
  BY <1>1, TP!InitInv, TrackerAssumptions DEF TP!IInv
<1>4. inherited \in SUBSET Kinds
  BY BoundsAssumption DEF Init
<1>5. Wiring
  <2>1. MP!Managed(routes) = {}
    BY <1>1 DEF MP!Init, MP!NoRoutes, MP!Managed, MP!Has, MP!Absent
  <2>2. /\ fib = [d \in Dests |-> IF iface.up THEN inherited ELSE inherited \ {"unicast"}]
        /\ iface.up \in BOOLEAN
    BY <1>1, <1>3 DEF Init, TP!Shape, TP!TypeOK, TP!Interface
  <2>3. fib \in [Dests -> SUBSET Kinds] /\ \A d \in Dests : "unicast" \in fib[d] => iface.up
    BY <1>4, <2>2
  <2>4. caller = [t \in MP!Callers |-> "idle"] /\ tracker = "start" /\ ifCfg = EmptyConfig
    BY <1>1 DEF MP!Init, TP!Init, MP!EmptyConfig, EmptyConfig
  <2> QED
    BY <2>1, <2>3, <2>4 DEF Wiring, MP!Callers
<1> QED
  BY <1>2, <1>3, <1>5 DEF Joint

LEMMA JointStep == Joint /\ [Next]_vars => Joint'
<1> SUFFICES ASSUME Joint, [Next]_vars PROVE Joint'
  OBVIOUS
<1>1. MP!IInv'
  BY ManagerRefines, MP!StepInv, ManagerAssumptions DEF Joint
<1>2. TP!Shape'
  BY TrackerRefines, TP!ShapeStep, TrackerAssumptions DEF Joint
<1> QED
  BY <1>1, <1>2, WiringStep DEF Joint

THEOREM JointInvariant == Spec => []Joint
<1> QED
  BY JointInit, JointStep, PTL DEF Spec

\* The manager, with its requests taken and its messages sent by the others,
\* behaves as it does alone: what is proved of it alone holds in the system.
THEOREM ManagerInSystem == Spec => Mgr!Spec
<1>1. Init => Mgr!Init
  BY DEF Init
<1>2. Joint /\ [Next]_vars => [Mgr!Next]_(Mgr!vars)
  BY ManagerRefines, SameManager DEF Mgr!vars, MP!vars
<1> QED
  BY <1>1, <1>2, JointInvariant, PTL DEF Spec, Mgr!Spec

\* And so does the tracker, though the interface, the routes and the socket it
\* reads from are now changed by what the manager asks for.
THEOREM TrackerInSystem == Spec => Trk!Spec
<1>1. Init => Trk!Init
  BY DEF Init
<1>2. Joint /\ [Next]_vars => [Trk!Next]_(Trk!vars)
  BY TrackerRefines, SameTracker DEF Trk!vars, TP!vars
<1> QED
  BY <1>1, <1>2, JointInvariant, PTL DEF Spec, Trk!Spec

-----------------------------------------------------------------------------
(***************************************************************************)
(* Requests on their way to the kernel, and what becomes of them.          *)
(***************************************************************************)
Requested(type, d) == \E i \in DOMAIN netlink : netlink[i] = [type |-> type, dest |-> d]

\* Whoever sends holds the lock and found the socket empty: no request is
\* forgotten, overtaken or sent twice.
LEMMA SocketStep ==
  ASSUME Joint, [Next]_vars
  PROVE  netlink' = netlink \/ netlink = <<>> \/ TakeRequest \/ LoseRequest
<1>1. MP!IInv
  BY DEF Joint
<1>2. CASE MP!LockFree
  BY <1>1, <1>2, MP!FreeSocket, ManagerAssumptions
<1>3. CASE ~MP!LockFree
  <2>1. ~Mgr!LockFree
    BY <1>3, SameManager
  <2>2. MgrStep => netlink' = netlink \/ netlink = <<>>
    BY <2>1 DEF MgrStep, Mgr!Startup, Mgr!StartupFails, Mgr!OnShutdown,
       Mgr!WorkerLoopHead, Mgr!WorkerTick, Mgr!ManageRoutes, Mgr!StaleReturn, Mgr!EvaluateMark,
       Mgr!ReadyForMessage, Mgr!Return, Mgr!AnswerBeyondBounds, Mgr!Shutdown
  <2>3. ~Handle /\ \A d \in Dests : ~DnsAnswer(d)
    BY <2>1 DEF Handle, DnsAnswer, Mgr!InsertRoute, Mgr!ProcessNetDevUpdate,
       Mgr!ConfirmRouteAdd, Mgr!ConfirmRouteDel, Mgr!Enter
  <2>4. (Offer \/ HandlerReturns) => netlink' = netlink
    BY DEF Offer, HandlerReturns, Mgr!ReadyForMessage, Mgr!Return
  <2>5. (TrackerStep \/ InterfaceStep \/ AdminStep \/ Drop \/ Finished \/ BeyondBounds
           \/ UNCHANGED vars) => netlink' = netlink
    BY TrackerKeeps, InterfaceKeeps DEF AdminStep, Drop, Finished, BeyondBounds, vars, mgrOwn
  <2> QED
    BY <2>2, <2>3, <2>4, <2>5 DEF Next
<1> QED
  BY <1>2, <1>3

\* A request stays on the socket until the kernel takes it, or it is lost.
LEMMA RequestKept ==
  ASSUME Joint, [Next]_vars, NEW type, NEW d, Requested(type, d)
  PROVE  \/ Requested(type, d)'
         \/ TakeRequest /\ Head(netlink) = [type |-> type, dest |-> d]
         \/ LoseRequest /\ Head(netlink) = [type |-> type, dest |-> d]
<1>1. PICK i \in DOMAIN netlink : netlink[i] = [type |-> type, dest |-> d]
  BY DEF Requested
<1>2. netlink \in Seq(MP!Request) /\ netlink # <<>>
  BY <1>1 DEF Joint, MP!IInv, MP!TypeOK
<1>3. CASE netlink' = netlink
  BY <1>1, <1>3 DEF Requested
<1>4. CASE TakeRequest \/ LoseRequest
  <2>1. netlink' = Tail(netlink)
    BY <1>4 DEF TakeRequest, LoseRequest, Mgr!NetlinkSend
  <2>2. CASE i = 1
    BY <1>1, <1>2, <1>4, <2>2
  <2>3. CASE i # 1
    <3>1. i - 1 \in DOMAIN Tail(netlink) /\ Tail(netlink)[i - 1] = netlink[i]
      BY <1>1, <1>2, <2>3
    <3> QED
      BY <1>1, <2>1, <3>1 DEF Requested
  <2> QED
    BY <2>2, <2>3
<1> QED
  BY <1>2, <1>3, <1>4, SocketStep

\* A failure is remembered until what was asked for has come about.
LEMMA FailureKept ==
  ASSUME [Next]_vars, NEW q \in lost
  PROVE  q \in lost' \/ Effective(q, fib')
<1>1. CASE \E S : Watch(S)
  BY <1>1 DEF Watch
<1>2. CASE UNCHANGED lost
  BY <1>2
<1> QED
  BY <1>1, <1>2 DEF Next, MgrStep, TrackerStep, TakeRequest, LoseRequest, InterfaceStep, AdminStep,
     Offer, Drop, Handle, HandlerReturns, DnsAnswer, Finished, BeyondBounds, vars

LEMMA FailureSeen ==
  ASSUME LoseRequest
  PROVE  Head(netlink) \in lost' \/ Effective(Head(netlink), fib')
BY DEF LoseRequest, Watch

\* A request on its way, or known to have failed, stays so until it has its effect.
LEMMA RequestOrFailureKept ==
  ASSUME Joint, [Next]_vars, NEW type, NEW d, Requested(type, d) \/ Failed(type, d)
  PROVE  \/ Requested(type, d)' \/ Failed(type, d)'
         \/ TakeRequest /\ Head(netlink) = [type |-> type, dest |-> d]
         \/ Effective([type |-> type, dest |-> d], fib')
BY RequestKept, FailureKept, FailureSeen DEF Failed

\* What may happen to a route in the table.
LEMMA BlackholeChanges ==
  ASSUME Joint, [Next]_vars, NEW d \in Dests
  PROVE  /\ "blackhole" \in fib[d] /\ "blackhole" \notin fib'[d] =>
              TakeRequest /\ Head(netlink) = [type |-> "delBlackhole", dest |-> d]
         /\ "blackhole" \in fib'[d] /\ "blackhole" \notin fib[d] =>
              TakeRequest /\ Head(netlink) = [type |-> "addBlackhole", dest |-> d]
         /\ TakeRequest /\ Head(netlink) = [type |-> "delBlackhole", dest |-> d] =>
              "blackhole" \notin fib'[d]
         /\ TakeRequest /\ Head(netlink) = [type |-> "addBlackhole", dest |-> d] =>
              "blackhole" \in fib'[d]
<1>0. fib \in [Dests -> SUBSET Kinds] /\ MP!IInv
  BY DEF Joint, Wiring
<1>1. CASE TakeRequest
  <2> DEFINE q == Head(netlink)
  <2>1. q \in MP!Request
    BY <1>0, <1>1, RequestIsKnown DEF TakeRequest, Mgr!NetlinkSend
  <2>2. q.dest \in Dests /\ q = [type |-> q.type, dest |-> q.dest]
    BY <2>1 DEF MP!Request
  <2>3. \/ q.type = "addBlackhole" /\ fib' = [fib EXCEPT ![q.dest] = @ \cup {"blackhole"}]
        \/ q.type = "addUnicast" /\ fib' = [fib EXCEPT ![q.dest] = @ \cup {"unicast"}]
        \/ q.type = "addUnicast" /\ UNCHANGED fib
        \/ q.type = "delUnicast" /\ fib' = [fib EXCEPT ![q.dest] = @ \ {"unicast"}]
        \/ q.type = "delBlackhole" /\ fib' = [fib EXCEPT ![q.dest] = @ \ {"blackhole"}]
    BY <1>1 DEF TakeRequest
  <2> HIDE DEF q
  <2>4. \A type \in {"delBlackhole", "addBlackhole"} :
          q = [type |-> type, dest |-> d] <=> q.type = type /\ q.dest = d
    BY <2>2
  <2>5. /\ "blackhole" \in fib[d] /\ "blackhole" \notin fib'[d] => q.type = "delBlackhole" /\ q.dest = d
        /\ "blackhole" \in fib'[d] /\ "blackhole" \notin fib[d] => q.type = "addBlackhole" /\ q.dest = d
        /\ q.type = "delBlackhole" /\ q.dest = d => "blackhole" \notin fib'[d]
        /\ q.type = "addBlackhole" /\ q.dest = d => "blackhole" \in fib'[d]
    BY <1>0, <2>2, <2>3
  <2> QED
    BY <1>1, <2>4, <2>5 DEF q
<1>2. CASE ~TakeRequest
  <2>1. "blackhole" \in fib'[d] <=> "blackhole" \in fib[d]
    <3>1. CASE InterfaceStep
      BY <1>0, <3>1 DEF InterfaceStep
    <3>2. CASE AdminStep
      BY <1>0, <3>2 DEF AdminStep
    <3>3. CASE UNCHANGED fib
      BY <3>3
    <3>4. MgrStep \/ TrackerStep => UNCHANGED fib
      BY <1>0, ManagerKeeps, TrackerKeeps
    <3>5. (\/ LoseRequest \/ Offer \/ Drop \/ Handle \/ HandlerReturns \/ Finished
           \/ BeyondBounds \/ UNCHANGED vars \/ \E e \in Dests : DnsAnswer(e)) => UNCHANGED fib
      BY DEF LoseRequest, Offer, Drop, Handle, HandlerReturns, Finished, BeyondBounds, vars, DnsAnswer
    <3> QED
      BY <1>2, <3>1, <3>2, <3>3, <3>4, <3>5 DEF Next
  <2> QED
    BY <1>2, <2>1
<1> QED
  BY <1>1, <1>2

\* How the managed destinations change.
LEMMA ManagedChanges ==
  ASSUME Joint, [Next]_vars
  PROVE  \/ MP!Managed(routes') = MP!Managed(routes) /\ (UNCHANGED origin \/ Nobody)
         \/ \E d \in Dests :
              /\ MP!Managed(routes') = MP!Managed(routes) \ {d} /\ Nobody
              /\ netlink' = <<[type |-> "delUnicast", dest |-> d],
                              [type |-> "delBlackhole", dest |-> d]>>
         \/ \E d \in Dests :
              /\ DnsAnswer(d) /\ MP!Managed(routes') = MP!Managed(routes) \cup {d}
         \/ /\ Handle /\ out.type = "added" /\ out.dest \in Dests
            /\ MP!Managed(routes') = MP!Managed(routes) \cup {out.dest}
            /\ Record("kernel", {out.dest} \ MP!Managed(routes), {out.dest})
<1>1. MP!IInv /\ TP!Shape
  BY DEF Joint
<1>2. CASE MgrStep
  <2>1. Nobody
    BY <1>2 DEF MgrStep
  <2>2. CASE MP!ManageRoutes
    BY <1>1, <2>1, <2>2, MP!ManagedKept, ManagerAssumptions
  <2>3. ASSUME NEW m \in DOMAIN routes.pendingExpires, MP!EvaluateMark(m)
        PROVE  \/ MP!Managed(routes') = MP!Managed(routes)
               \/ \E d \in Dests :
                    /\ MP!Managed(routes') = MP!Managed(routes) \ {d}
                    /\ netlink' = <<[type |-> "delUnicast", dest |-> d],
                                    [type |-> "delBlackhole", dest |-> d]>>
    <3>1. m.dest \in Dests
      BY <1>1, <2>3, MP!EvaluateMarkInv, ManagerAssumptions
    <3>2. MP!Managed(routes') = IF MP!Expires(m) THEN MP!Managed(routes) \ {m.dest}
                                                 ELSE MP!Managed(routes)
      BY <1>1, <2>3, MP!ManagedAfterMark, ManagerAssumptions
    <3> QED
      BY <2>3, <3>1, <3>2 DEF MP!EvaluateMark
  <2>4. CASE UNCHANGED routes
    BY <2>1, <2>4
  <2>5. \/ MP!ManageRoutes \/ \E m \in DOMAIN routes.pendingExpires : MP!EvaluateMark(m)
        \/ UNCHANGED routes
    BY <1>2, SameManager DEF MgrStep, Mgr!Startup, Mgr!StartupFails, Mgr!OnShutdown,
       Mgr!WorkerLoopHead, Mgr!WorkerTick, Mgr!StaleReturn, Mgr!ReadyForMessage, Mgr!Return,
       Mgr!AnswerBeyondBounds, Mgr!Shutdown
  <2> QED
    BY <2>1, <2>2, <2>3, <2>4, <2>5
<1>3. ASSUME NEW d \in Dests, DnsAnswer(d)
      PROVE  MP!Managed(routes') = MP!Managed(routes) \cup {d}
  BY <1>1, <1>3, SameManager, MP!ManagedAfterAnswer, ManagerAssumptions DEF DnsAnswer
<1>4. CASE Handle
  <2>1. tracker = "deliver"
    BY <1>4 DEF Handle, Trk!Handle
  <2>2. CASE out.type = "netdev" /\ MP!ProcessNetDevUpdate(out.config) /\ Nobody
    BY <1>1, <2>1, <2>2, OutIsKnown, MP!ManagedKept, ManagerAssumptions
  <2>3. CASE out.type = "removed" /\ MP!ConfirmRouteDel(out.dest) /\ Nobody
    BY <1>1, <2>1, <2>3, OutIsKnown, MP!ManagedKept, ManagerAssumptions
  <2>4. CASE /\ out.type = "added" /\ MP!ConfirmRouteAdd(out.dest)
             /\ Record("kernel", {out.dest} \ Mgr!Managed(routes), {out.dest})
    BY <1>1, <1>4, <2>1, <2>4, OutIsKnown, MP!ManagedAfterConfirm, ManagerAssumptions, SameManager
  <2> QED
    BY <1>4, <2>2, <2>3, <2>4, SameManager DEF Handle
<1>5. CASE TakeRequest \/ LoseRequest
  BY <1>5 DEF TakeRequest, LoseRequest, Mgr!NetlinkSend, history
<1>6. CASE Offer \/ HandlerReturns
  BY <1>6 DEF Offer, HandlerReturns, Mgr!ReadyForMessage, Mgr!Return, history
<1>7. CASE \/ TrackerStep \/ InterfaceStep \/ AdminStep \/ Drop \/ Finished \/ BeyondBounds
           \/ UNCHANGED vars
  BY <1>7, TrackerKeeps, InterfaceKeeps
     DEF AdminStep, Drop, Finished, BeyondBounds, vars, mgrOwn, history
<1> QED
  BY <1>2, <1>3, <1>4, <1>5, <1>6, <1>7 DEF Next

-----------------------------------------------------------------------------
(***************************************************************************)
(* The kill switch.  A lease has a history while it lasts; one that began  *)
(* with an answer has its blackhole route in the table or on its way, or   *)
(* the request for it failed; and the only request that could remove it    *)
(* belongs to no lease.                                                    *)
(***************************************************************************)
BlackholeSent(d) ==
  started /\ origin[d] = {"dns"} =>
    "blackhole" \in fib[d] \/ Requested("addBlackhole", d) \/ Failed("addBlackhole", d)

KillSwitchInv ==
  \A d \in Dests : /\ origin[d] # {} <=> d \in MP!Managed(routes)
                   /\ BlackholeSent(d)

LEMMA OriginStep ==
  ASSUME Joint, KillSwitchInv, [Next]_vars, NEW d \in Dests
  PROVE  /\ origin'[d] # {} <=> d \in MP!Managed(routes')
         /\ origin'[d] = {"dns"} => \/ origin[d] = {"dns"}
                                    \/ d \notin MP!Managed(routes) /\ DnsAnswer(d)
<1>1. origin[d] # {} <=> d \in MP!Managed(routes)
  BY DEF KillSwitchInv
<1>2. Nobody => origin'[d] = IF d \notin MP!Managed(routes') THEN {} ELSE origin[d]
  BY SameManager DEF Nobody, Record
<1>3. CASE MP!Managed(routes') = MP!Managed(routes) /\ (UNCHANGED origin \/ Nobody)
  BY <1>1, <1>2, <1>3
<1>4. CASE Nobody /\ \E e \in Dests : MP!Managed(routes') = MP!Managed(routes) \ {e}
  BY <1>1, <1>2, <1>4
<1>5. ASSUME NEW e \in Dests, DnsAnswer(e), MP!Managed(routes') = MP!Managed(routes) \cup {e}
      PROVE  /\ origin'[d] # {} <=> d \in MP!Managed(routes')
             /\ origin'[d] = {"dns"} => \/ origin[d] = {"dns"}
                                        \/ d \notin MP!Managed(routes) /\ DnsAnswer(d)
  <2>1. origin'[d] = IF d \notin MP!Managed(routes') THEN {}
                     ELSE IF d \in {e} THEN origin[d] \cup {"dns"} ELSE origin[d]
    BY <1>5, SameManager DEF DnsAnswer, Record
  <2>2. CASE d = e
    <3>1. origin'[d] = origin[d] \cup {"dns"} /\ d \in MP!Managed(routes')
      BY <1>5, <2>1, <2>2
    <3>2. origin'[d] = {"dns"} => origin[d] = {} \/ origin[d] = {"dns"}
      BY <3>1
    <3> QED
      BY <1>1, <1>5, <2>2, <3>1, <3>2
  <2>3. CASE d # e
    BY <1>1, <1>5, <2>1, <2>3
  <2> QED
    BY <2>2, <2>3
<1>6. ASSUME /\ Handle /\ out.type = "added" /\ out.dest \in Dests
             /\ MP!Managed(routes') = MP!Managed(routes) \cup {out.dest}
             /\ Record("kernel", {out.dest} \ MP!Managed(routes), {out.dest})
      PROVE  /\ origin'[d] # {} <=> d \in MP!Managed(routes')
             /\ origin'[d] = {"dns"} => origin[d] = {"dns"}
  <2>1. origin'[d] = IF d \notin MP!Managed(routes') THEN {}
                     ELSE IF d \in {out.dest} \ MP!Managed(routes) THEN origin[d] \cup {"kernel"}
                     ELSE origin[d]
    BY <1>6, SameManager DEF Record
  <2>2. CASE d \in {out.dest} \ MP!Managed(routes)
    BY <1>6, <2>1, <2>2
  <2>3. CASE d \notin {out.dest} \ MP!Managed(routes)
    BY <1>1, <1>6, <2>1, <2>3
  <2> QED
    BY <2>2, <2>3
<1> QED
  BY <1>3, <1>4, <1>5, <1>6, ManagedChanges

LEMMA BlackholeStep ==
  ASSUME Joint, KillSwitchInv, [Next]_vars, NEW d \in Dests
  PROVE  BlackholeSent(d)'
<1> SUFFICES ASSUME started', origin'[d] = {"dns"}
             PROVE  \/ "blackhole" \in fib'[d] \/ Requested("addBlackhole", d)'
                    \/ Failed("addBlackhole", d)'
  BY DEF BlackholeSent
<1>0. MP!IInv /\ Wiring /\ (origin[d] # {} <=> d \in MP!Managed(routes)) /\ BlackholeSent(d)
  BY DEF Joint, KillSwitchInv
<1>1. CASE origin[d] = {"dns"}
  <2>1. d \in MP!Managed(routes)
    BY <1>0, <1>1
  <2>2. started
    <3>1. worker # "none"
      BY <1>0, <2>1 DEF Wiring
    <3>2. ~MP!Startup
      BY <3>1 DEF MP!Startup
    <3> QED
      BY <3>2, ManagerRefines DEF MP!Next, MP!ManagerStep, MP!MessageStep, MP!StartupFails,
         MP!OnShutdown, MP!Shutdown, MP!WorkerLoopHead, MP!WorkerTick, MP!ManageRoutes,
         MP!StaleReturn, MP!EvaluateMark, MP!ReadyForMessage, MP!Return, MP!InsertRoute,
         MP!ConfirmRouteAdd, MP!ConfirmRouteDel, MP!ProcessNetDevUpdate, MP!AnswerBeyondBounds,
         MP!NetlinkSend, MP!Ended, MP!vars
  <2>3. CASE "blackhole" \in fib[d]
    <3>1. ~(TakeRequest /\ Head(netlink) = [type |-> "delBlackhole", dest |-> d])
      <4> SUFFICES ASSUME TakeRequest, Head(netlink) = [type |-> "delBlackhole", dest |-> d]
                   PROVE  FALSE
        OBVIOUS
      <4>1. 1 \in DOMAIN netlink /\ netlink[1] = [type |-> "delBlackhole", dest |-> d]
        BY <1>0, RequestIsKnown DEF TakeRequest, Mgr!NetlinkSend
      <4>2. MP!RequestMatches(netlink[1], routes, ifCfg)
        BY <1>0, <4>1 DEF MP!IInv, MP!RequestsMatchState
      <4> QED
        BY <2>1, <4>1, <4>2 DEF MP!RequestMatches
    <3> QED
      BY <2>3, <3>1, BlackholeChanges
  <2>4. CASE Requested("addBlackhole", d) \/ Failed("addBlackhole", d)
    BY <2>4, RequestOrFailureKept, BlackholeChanges DEF Effective
  <2> QED
    BY <1>0, <1>1, <2>2, <2>3, <2>4 DEF BlackholeSent
<1>2. CASE d \notin MP!Managed(routes) /\ DnsAnswer(d)
  <2>1. PICK ttl \in TTLs : MP!InsertRoute(d, ttl)
    BY <1>2, SameManager DEF DnsAnswer
  <2>2. MP!PushRoute(d, curTime + ttl + ExtraTTL) /\ started
    BY <1>2, <2>1 DEF MP!InsertRoute, MP!ExtendActive, MP!Managed
  <2> DEFINE b == [type |-> "addBlackhole", dest |-> d]
             u == [type |-> "addUnicast", dest |-> d]
  <2>3. netlink' = <<b, u>> \/ netlink' = <<b>>
    BY <2>2 DEF MP!PushRoute
  <2>4. 1 \in DOMAIN netlink' /\ netlink'[1] = b
    BY <2>3
  <2> QED
    BY <2>4 DEF Requested
<1> QED
  BY <1>1, <1>2, OriginStep

\* The kill switch is in place, for every number of destinations and in every
\* interleaving of answers, announcements, retries and losses: only a request
\* for the blackhole route that failed leaves a lease without it.
THEOREM KillSwitchHolds == Spec => []KillSwitchInPlace
<1>1. Init => KillSwitchInv
  <2> SUFFICES ASSUME Init PROVE KillSwitchInv
    OBVIOUS
  <2>1. Wiring /\ MP!Init
    BY JointInit, SameManager DEF Joint, Init
  <2> QED
    BY <2>1 DEF Init, KillSwitchInv, BlackholeSent, Wiring, MP!Init
<1>2. Joint /\ KillSwitchInv /\ [Next]_vars => KillSwitchInv'
  BY OriginStep, BlackholeStep DEF KillSwitchInv
<1>3. KillSwitchInv => KillSwitchInPlace
  BY DEF KillSwitchInv, BlackholeSent, KillSwitchInPlace, Requested
<1> QED
  BY <1>1, <1>2, <1>3, JointInvariant, PTL DEF Spec

-----------------------------------------------------------------------------
(***************************************************************************)
(* No leftovers.  A route to a destination that is not managed is about to *)
(* be removed, by a request on its way to the kernel, or about to be made  *)
(* known, by an announcement on its way to the manager; or the request to  *)
(* remove it failed.                                                       *)
(***************************************************************************)
Announced(d) == \E i \in DOMAIN queue : queue[i] = TP!Route("newroute", iface.idx, TRUE, d)

Offered(d) == tracker = "deliver" /\ out = [type |-> "added", dest |-> d]

\* The manager will handle what the tracker reads.
Attentive == TP!Listening /\ ~shutdownPending

NoLeftoversInv ==
  inherited = {} =>
    \A d \in Dests :
      /\ "unicast" \in fib[d] => tracker # "start"
      /\ d \notin MP!Managed(routes) =>
           /\ "blackhole" \in fib[d] =>
                Requested("delBlackhole", d) \/ Failed("delBlackhole", d)
           /\ "unicast" \in fib[d] /\ Attentive =>
                Requested("delUnicast", d) \/ Failed("delUnicast", d) \/ Offered(d) \/ Announced(d)

LEMMA InheritedStays ==
  ASSUME [Next]_vars
  PROVE  inherited' = inherited
BY TrackerKeeps, InterfaceKeeps
   DEF Next, MgrStep, DnsAnswer, TakeRequest, LoseRequest, AdminStep, Offer, Drop, Handle,
       HandlerReturns, Finished, BeyondBounds, vars, history, Nobody, Record

\* Who loses its lease is removed, both its routes.
LEMMA RemovalRequested ==
  ASSUME Joint, [Next]_vars, NEW d \in Dests,
         d \in MP!Managed(routes), d \notin MP!Managed(routes')
  PROVE  Requested("delUnicast", d)' /\ Requested("delBlackhole", d)'
<1>1. netlink' = <<[type |-> "delUnicast", dest |-> d], [type |-> "delBlackhole", dest |-> d]>>
  BY ManagedChanges
<1>2. /\ 1 \in DOMAIN netlink' /\ netlink'[1] = [type |-> "delUnicast", dest |-> d]
      /\ 2 \in DOMAIN netlink' /\ netlink'[2] = [type |-> "delBlackhole", dest |-> d]
  BY <1>1
<1> QED
  BY <1>2 DEF Requested

\* A request to add is for a managed destination.
LEMMA AddedIsManaged ==
  ASSUME Joint, TakeRequest, NEW d,
         \/ Head(netlink) = [type |-> "addBlackhole", dest |-> d]
         \/ Head(netlink) = [type |-> "addUnicast", dest |-> d]
  PROVE  d \in MP!Managed(routes)
<1>1. /\ 1 \in DOMAIN netlink /\ netlink[1] = Head(netlink) /\ Head(netlink) \in MP!Request
      /\ MP!IInv
  BY RequestIsKnown DEF TakeRequest, Mgr!NetlinkSend, Joint
<1>2. MP!RequestMatches(netlink[1], routes, ifCfg)
  BY <1>1 DEF MP!IInv, MP!RequestsMatchState
<1> QED
  BY <1>1, <1>2 DEF MP!RequestMatches, MP!Request, MP!Managed

LEMMA BlackholeLeaves ==
  ASSUME Joint, NoLeftoversInv, [Next]_vars, inherited = {}, NEW d \in Dests,
         d \notin MP!Managed(routes'), "blackhole" \in fib'[d]
  PROVE  Requested("delBlackhole", d)' \/ Failed("delBlackhole", d)'
<1>1. CASE d \in MP!Managed(routes)
  BY <1>1, RemovalRequested
<1>2. CASE d \notin MP!Managed(routes)
  <2>1. "blackhole" \in fib[d]
    BY <1>2, BlackholeChanges, AddedIsManaged
  <2>2. Requested("delBlackhole", d) \/ Failed("delBlackhole", d)
    BY <1>2, <2>1 DEF NoLeftoversInv
  <2> QED
    BY <2>2, RequestOrFailureKept, BlackholeChanges DEF Effective
<1> QED
  BY <1>1, <1>2

\* How a unicast route comes into the table.
LEMMA UnicastChanges ==
  ASSUME Joint, [Next]_vars, NEW d \in Dests
  PROVE  /\ "unicast" \in fib'[d] /\ "unicast" \notin fib[d] =>
              \/ /\ TakeRequest /\ Head(netlink) = [type |-> "addUnicast", dest |-> d]
                 /\ tracker' # "start"
              \/ /\ AdminStep /\ TP!Notify(<<TP!Route("newroute", iface.idx, TRUE, d)>>)
                 /\ iface.idx # 0 /\ tracker' # "start"
         /\ TakeRequest /\ Head(netlink) = [type |-> "delUnicast", dest |-> d] =>
              "unicast" \notin fib'[d]
<1>0. fib \in [Dests -> SUBSET Kinds] /\ MP!IInv /\ Wiring
  BY DEF Joint, Wiring
<1>1. CASE TakeRequest
  <2> DEFINE q == Head(netlink)
  <2>1. /\ q \in MP!Request
        /\ q.type = "addUnicast" => FamilyAvail(ifCfg, q.dest)
    BY <1>0, <1>1, RequestIsKnown DEF TakeRequest, Mgr!NetlinkSend
  <2>2. q.dest \in Dests /\ q = [type |-> q.type, dest |-> q.dest]
    BY <2>1 DEF MP!Request
  <2>3. q.type = "addUnicast" => tracker # "start"
    BY <1>0, <2>1 DEF Wiring, EmptyConfig, FamilyAvail, isIPV4Avail, isIPV6Avail
  <2>4. tracker' = tracker
    BY <1>1 DEF TakeRequest, trkOwn
  <2>5. \/ q.type = "addBlackhole" /\ fib' = [fib EXCEPT ![q.dest] = @ \cup {"blackhole"}]
        \/ q.type = "addUnicast" /\ fib' = [fib EXCEPT ![q.dest] = @ \cup {"unicast"}]
        \/ q.type = "addUnicast" /\ UNCHANGED fib
        \/ q.type = "delUnicast" /\ fib' = [fib EXCEPT ![q.dest] = @ \ {"unicast"}]
        \/ q.type = "delBlackhole" /\ fib' = [fib EXCEPT ![q.dest] = @ \ {"blackhole"}]
    BY <1>1 DEF TakeRequest
  <2> HIDE DEF q
  <2>6. \A type \in {"delUnicast", "addUnicast"} :
          q = [type |-> type, dest |-> d] <=> q.type = type /\ q.dest = d
    BY <2>2
  <2>7. /\ "unicast" \in fib'[d] /\ "unicast" \notin fib[d] => q.type = "addUnicast" /\ q.dest = d
        /\ q.type = "delUnicast" /\ q.dest = d => "unicast" \notin fib'[d]
    BY <1>0, <2>2, <2>5
  <2> QED
    BY <1>1, <2>3, <2>4, <2>6, <2>7 DEF q
<1>2. CASE ~TakeRequest /\ AdminStep
  <2>1. PICK e \in Dests :
          \/ /\ iface.idx # 0 /\ fib' = [fib EXCEPT ![e] = @ \cup {"unicast"}]
             /\ Announce("newroute", e)
          \/ fib' = [fib EXCEPT ![e] = @ \ {"unicast"}]
    BY <1>2 DEF AdminStep
  <2>2. tracker' # "start"
    BY <1>2 DEF AdminStep, Trk!Subscribed, trkOwn
  <2> QED
    BY <1>0, <1>2, <2>1, <2>2, SameTracker DEF Announce
<1>3. CASE ~TakeRequest /\ ~AdminStep
  <2>1. "unicast" \in fib'[d] => "unicast" \in fib[d]
    <3>1. CASE InterfaceStep
      BY <1>0, <3>1 DEF InterfaceStep
    <3>2. MgrStep \/ TrackerStep => UNCHANGED fib
      BY <1>0, ManagerKeeps, TrackerKeeps
    <3>3. (\/ LoseRequest \/ Offer \/ Drop \/ Handle \/ HandlerReturns \/ Finished
           \/ BeyondBounds \/ UNCHANGED vars \/ \E e \in Dests : DnsAnswer(e)) => UNCHANGED fib
      BY DEF LoseRequest, Offer, Drop, Handle, HandlerReturns, Finished, BeyondBounds, vars, DnsAnswer
    <3> QED
      BY <1>3, <3>1, <3>2, <3>3 DEF Next
  <2> QED
    BY <1>3, <2>1
<1> QED
  BY <1>1, <1>2, <1>3

\* An announcement stays in the queue while others are added to it.
LEMMA AnnouncementStays ==
  ASSUME TP!Shape, NEW m \in TP!Message, TP!Notify(<<m>>), TP!Subscribed, ~overrun',
         iface'.idx = iface.idx, NEW d
  PROVE  /\ Announced(d) => Announced(d)'
         /\ m = TP!Route("newroute", iface.idx, TRUE, d) => Announced(d)'
<1>1. /\ Len(queue') = Len(queue) + 1 /\ queue'[Len(queue) + 1] = m
      /\ \A i \in DOMAIN queue : queue'[i] = queue[i]
      /\ queue' \in Seq(TP!Message) /\ queue \in Seq(TP!Message)
  BY TP!NotifyOne, TrackerAssumptions DEF TP!Shape
<1>2. /\ \A i \in DOMAIN queue : i \in DOMAIN queue'
      /\ Len(queue) + 1 \in DOMAIN queue'
  BY <1>1
<1> QED
  BY <1>1, <1>2 DEF Announced, TP!Route

LEMMA RouteIsMessage ==
  ASSUME TP!Shape, iface.idx # 0, NEW type \in {"newroute", "delroute"}, NEW d \in Dests
  PROVE  TP!Route(type, iface.idx, TRUE, d) \in TP!Message
<1>1. iface.idx \in TP!Indices
  BY TP!InterfaceFields, TrackerAssumptions
<1> QED
  BY <1>1, TP!MessageIsMade, TrackerAssumptions

\* The tracker reads the announcement, and offers it to the manager.
LEMMA AnnouncementRead ==
  ASSUME TP!Shape, TP!Receive, NEW d, Announced(d), iface.idx # 0
  PROVE  Announced(d)' \/ Offered(d)'
<1>1. PICK i \in DOMAIN queue : queue[i] = TP!Route("newroute", iface.idx, TRUE, d)
  BY DEF Announced
<1>2. queue # <<>> /\ TP!Take /\ UNCHANGED iface /\ queue \in Seq(TP!Message)
  BY DEF TP!Receive, TP!Shape
<1>0. /\ queue[1] = Head(queue) /\ DOMAIN queue = 1 .. Len(queue) /\ Len(queue) \in Nat
      /\ DOMAIN queue' = 1 .. Len(queue') /\ Len(queue') = Len(queue) - 1
      /\ \A j \in DOMAIN queue' : queue'[j] = queue[j + 1]
  <2>1. queue \in Seq(TP!Message) /\ queue # <<>> /\ TP!Take
    BY <1>2
  <2> QED
    BY <2>1, TP!TakeShortens, TrackerAssumptions
<1>3. CASE i = 1
  <2>1. Head(queue) = TP!Route("newroute", iface.idx, TRUE, d)
    <3>1. Head(queue) = queue[1]
      BY <1>0
    <3> QED
      BY <1>1, <1>3, <3>1
  <2>2. /\ Head(queue).type = "newroute" /\ Head(queue).idx = iface.idx
        /\ Head(queue).ours = TRUE /\ Head(queue).dest = d
    BY <2>1 DEF TP!Route
  <2>3. TP!NameMatches(Head(queue).idx)
    BY <2>2 DEF TP!NameMatches
  <2>4. TP!Send([type |-> "added", dest |-> d])
    BY <2>2, <2>3 DEF TP!Receive
  <2> QED
    BY <2>4 DEF TP!Send, Offered
<1>4. CASE i # 1
  <2>1. i - 1 \in DOMAIN queue' /\ queue'[i - 1] = queue[i]
    <3>1. i \in Int /\ 1 <= i - 1 /\ i - 1 <= Len(queue')
      BY <1>0, <1>4
    <3> QED
      BY <1>0, <3>1
  <2> QED
    BY <1>1, <1>2, <2>1 DEF Announced, TP!Route
<1> QED
  BY <1>3, <1>4

LEMMA AttentionIsOld ==
  ASSUME Joint, [Next]_vars, Attentive'
  PROVE  /\ ~shutdownPending
         /\ tracker' # "start" /\ ~overrun' /\ ~shutdownPending'
         /\ TP!Listening \/ tracker = "start"
<1>1. ~shutdownPending
  <2>1. ~shutdownPending'
    BY DEF Attentive
  <2> QED
    BY <2>1, ManagerRefines DEF MP!Next, MP!ManagerStep, MP!MessageStep, MP!Startup,
       MP!StartupFails, MP!OnShutdown, MP!Shutdown, MP!WorkerLoopHead, MP!WorkerTick,
       MP!ManageRoutes, MP!StaleReturn, MP!EvaluateMark, MP!ReadyForMessage, MP!Return,
       MP!InsertRoute, MP!ConfirmRouteAdd, MP!ConfirmRouteDel, MP!ProcessNetDevUpdate,
       MP!AnswerBeyondBounds, MP!NetlinkSend, MP!Ended, MP!vars
<1>2. tracker' \notin {"start", "stopped", "failed"} /\ ~overrun' /\ ~shutdownPending'
  BY DEF Attentive, TP!Listening, TP!Subscribed
<1>3. tracker \notin {"stopped", "failed"} /\ (~overrun \/ tracker = "start")
  <2>1. [TP!Next]_(TP!vars) /\ TP!Shape /\ TP!Shape'
    BY TrackerRefines, JointStep DEF Joint
  <2>2. CASE TP!KernelStep
    <3>1. UNCHANGED TP!trackerVars /\ (overrun => overrun')
      BY <2>2 DEF TP!KernelStep, TP!LinkUp, TP!LinkDown, TP!AddrAdd, TP!AddrDel,
         TP!LinkDelete, TP!LinkCreate, TP!RouteChange, TP!Notify
    <3> QED
      BY <1>2, <3>1 DEF TP!trackerVars
  <2>3. CASE TP!TrackerStep \/ TP!OnShutdown \/ TP!Finished \/ UNCHANGED TP!vars
    BY <1>2, <2>3 DEF TP!TrackerStep, TP!Run, TP!Deliver, TP!OpenSocket, TP!DumpLinks,
       TP!DumpAddrs, TP!LoopHead, TP!SelectTimeout, TP!Receive, TP!Send, TP!Stop,
       TP!ReceiveFails, TP!CloseFails, TP!StartFails, TP!HandleError, TP!Handle,
       TP!HandlerReturns, TP!Drop, TP!OnShutdown, TP!Finished, TP!vars, TP!kernelVars
  <2> QED
    BY <2>1, <2>2, <2>3 DEF TP!Next
<1> QED
  BY <1>1, <1>2, <1>3 DEF TP!Listening, TP!Subscribed

LEMMA AnnouncedStep ==
  ASSUME Joint, [Next]_vars, Attentive', TP!Listening, NEW d \in Dests, Announced(d),
         "unicast" \in fib[d], "unicast" \in fib'[d]
  PROVE  Announced(d)' \/ Offered(d)'
<1>1. /\ TP!Shape /\ MP!IInv /\ iface.up /\ iface.idx # 0
      /\ TP!Subscribed /\ ~overrun' /\ iface'.up
  <2>1. TP!Shape /\ MP!IInv /\ Wiring /\ Wiring'
    BY JointStep DEF Joint
  <2> QED
    BY <2>1, LinkIsUp DEF Wiring, TP!Listening, Attentive
<1>2. CASE UNCHANGED <<queue, iface>>
  BY <1>2 DEF Announced, TP!Route
<1>3. ASSUME NEW type \in {"newroute", "delroute"}, NEW e \in Dests, Announce(type, e),
             UNCHANGED iface
      PROVE  Announced(d)'
  <2>1. TP!Notify(<<TP!Route(type, iface.idx, TRUE, e)>>)
    BY <1>3, SameTracker DEF Announce
  <2> QED
    BY <1>1, <1>3, <2>1, RouteIsMessage, AnnouncementStays
<1>4. CASE TakeRequest
  <2>1. Head(netlink).dest \in Dests
    BY <1>1, <1>4, RequestIsKnown DEF TakeRequest, Mgr!NetlinkSend
  <2> QED
    BY <1>2, <1>3, <1>4, <2>1 DEF TakeRequest
<1>5. CASE AdminStep
  BY <1>3, <1>5 DEF AdminStep
<1>6. CASE InterfaceStep
  <2>1. CASE Trk!LinkDown(GoneWithLink) \/ Trk!LinkDelete \/ Trk!LinkCreate
    <3>1. TP!LinkDown(GoneWithLink) \/ TP!LinkDelete \/ TP!LinkCreate
      BY <2>1, SameTracker
    <3>2. GoneWithLink \in SUBSET Dests
      BY DEF GoneWithLink
    <3>3. ~iface'.up
      BY <1>1, <3>1, <3>2, TP!LinkDownPosts, TP!LinkDeletePosts, TP!LinkCreatePosts, TrackerAssumptions
    <3> QED
      BY <1>1, <3>3
  <2>2. CASE Trk!LinkUp
    <3>1. TP!LinkUp
      BY <2>2, SameTracker
    <3> DEFINE m == TP!Link("newlink", iface.idx, TRUE)
    <3>2. TP!Posts(m) /\ iface'.idx = iface.idx
      BY <1>1, <3>1, TP!LinkUpPosts, TrackerAssumptions
    <3> QED
      BY <1>1, <3>2, AnnouncementStays DEF TP!Posts
  <2>3. ASSUME NEW ip \in LocalIPs, Trk!AddrAdd(ip) \/ Trk!AddrDel(ip) PROVE Announced(d)'
    <3>1. TP!AddrAdd(ip) \/ TP!AddrDel(ip)
      BY <2>3, SameTracker
    <3>2. /\ iface'.idx = iface.idx
          /\ TP!Posts(TP!Addr("newaddr", iface.idx, ip)) \/ TP!Posts(TP!Addr("deladdr", iface.idx, ip))
      BY <1>1, <3>1, TP!AddrChangePosts, TrackerAssumptions
    <3> QED
      BY <1>1, <3>2, AnnouncementStays DEF TP!Posts
  <2> QED
    BY <1>6, <2>1, <2>2, <2>3 DEF InterfaceStep
<1>7. CASE TrackerStep
  <2>1. CASE Trk!Receive
    BY <1>1, <2>1, SameTracker, AnnouncementRead
  <2>2. CASE ~Trk!Receive
    BY <1>2, <1>7, <2>2 DEF TrackerStep, Trk!OpenSocket, Trk!DumpLinks, Trk!DumpAddrs,
       Trk!LoopHead, Trk!SelectTimeout, Trk!Stop, Trk!CloseFails, Trk!ReceiveFails,
       Trk!StartFails, Trk!HandleError, Trk!OnShutdown, Trk!kernelVars
  <2> QED
    BY <2>1, <2>2
<1>8. CASE MgrStep
  BY <1>1, <1>2, <1>8, ManagerKeeps DEF kernel
<1>9. CASE \/ LoseRequest \/ Offer \/ Drop \/ Handle \/ HandlerReturns \/ Finished
           \/ BeyondBounds \/ UNCHANGED vars \/ \E e \in Dests : DnsAnswer(e)
  BY <1>2, <1>9 DEF LoseRequest, Offer, Drop, Handle, HandlerReturns, Finished, BeyondBounds, vars, DnsAnswer,
     kernel, Trk!Drop, Trk!Handle, Trk!HandlerReturns, Trk!kernelVars
<1> QED
  BY <1>4, <1>5, <1>6, <1>7, <1>8, <1>9 DEF Next

\* A message offered is handled, unless the manager shuts down.
LEMMA OfferedStep ==
  ASSUME Joint, [Next]_vars, NEW d, Offered(d), ~shutdownPending
  PROVE  Offered(d)' \/ d \in MP!Managed(routes')
<1>1. tracker = "deliver" /\ out = [type |-> "added", dest |-> d] /\ MP!IInv /\ TP!Shape
  BY DEF Offered, Joint
<1>2. CASE UNCHANGED <<tracker, out>>
  BY <1>1, <1>2 DEF Offered
<1>3. CASE Handle
  <2>1. MP!ConfirmRouteAdd(d) /\ d \in Dests
    BY <1>1, <1>3, OutIsKnown, SameManager DEF Handle
  <2> QED
    BY <1>1, <2>1, MP!ManagedAfterConfirm, ManagerAssumptions
<1>4. CASE TrackerStep
  BY <1>1, <1>2, <1>4 DEF TrackerStep, Trk!OpenSocket, Trk!DumpLinks, Trk!DumpAddrs,
     Trk!LoopHead, Trk!Receive, Trk!SelectTimeout, Trk!Stop, Trk!CloseFails, Trk!ReceiveFails,
     Trk!StartFails, Trk!OnShutdown
<1>5. CASE MgrStep \/ InterfaceStep
  BY <1>1, <1>2, <1>5, ManagerKeeps, InterfaceKeeps DEF trkOwn
<1>6. CASE HandlerReturns \/ Drop
  BY <1>1, <1>6 DEF HandlerReturns, Trk!HandlerReturns, Drop
<1>7. CASE \/ TakeRequest \/ LoseRequest \/ AdminStep \/ Offer \/ Finished \/ BeyondBounds
           \/ UNCHANGED vars \/ \E e \in Dests : DnsAnswer(e)
  BY <1>2, <1>7 DEF TakeRequest, LoseRequest, AdminStep, Offer, Finished, BeyondBounds, vars, DnsAnswer, trkOwn
<1> QED
  BY <1>3, <1>4, <1>5, <1>6, <1>7 DEF Next

LEMMA UnicastLeaves ==
  ASSUME Joint, NoLeftoversInv, [Next]_vars, inherited = {}, NEW d \in Dests,
         d \notin MP!Managed(routes'), "unicast" \in fib'[d], Attentive'
  PROVE  \/ Requested("delUnicast", d)' \/ Failed("delUnicast", d)'
         \/ Offered(d)' \/ Announced(d)'
<1>1. TP!Shape /\ MP!IInv /\ Wiring
  BY DEF Joint
<1>2. CASE d \in MP!Managed(routes)
  BY <1>2, RemovalRequested
<1>3. CASE d \notin MP!Managed(routes) /\ "unicast" \in fib[d]
  <2>1. tracker # "start"
    BY <1>3 DEF NoLeftoversInv
  <2>2. Attentive /\ TP!Listening
    BY <2>1, AttentionIsOld DEF Attentive
  <2>3. Requested("delUnicast", d) \/ Failed("delUnicast", d) \/ Offered(d) \/ Announced(d)
    BY <1>3, <2>2 DEF NoLeftoversInv
  <2>4. CASE Requested("delUnicast", d) \/ Failed("delUnicast", d)
    <3>1. ~Effective([type |-> "delUnicast", dest |-> d], fib')
      BY DEF Effective
    <3> QED
      BY <2>4, <3>1, RequestOrFailureKept, UnicastChanges
  <2>5. CASE Offered(d)
    BY <2>2, <2>5, OfferedStep DEF Attentive
  <2>6. CASE Announced(d)
    BY <1>3, <2>2, <2>6, AnnouncedStep
  <2> QED
    BY <2>3, <2>4, <2>5, <2>6
<1>4. CASE d \notin MP!Managed(routes) /\ "unicast" \notin fib[d]
  <2> DEFINE m == TP!Route("newroute", iface.idx, TRUE, d)
  <2>1. AdminStep /\ TP!Notify(<<m>>) /\ iface.idx # 0
    BY <1>4, UnicastChanges, AddedIsManaged
  <2>2. m \in TP!Message
    BY <1>1, <2>1, RouteIsMessage
  <2>3. UNCHANGED iface /\ TP!Subscribed /\ ~overrun'
    BY <2>1, SameTracker, AttentionIsOld DEF AdminStep
  <2> HIDE DEF m
  <2>4. Announced(d)'
    BY <1>1, <2>1, <2>2, <2>3, AnnouncementStays DEF m
  <2> QED
    BY <2>4
<1> QED
  BY <1>2, <1>3, <1>4

\* Started from an empty table, the program leaves nothing behind that it does
\* not know of, whatever is added and removed by whom, in any order: unless its
\* request to remove it failed.
THEOREM NothingIsLeft == Spec => []NoLeftovers
<1>1. Init => NoLeftoversInv
  BY DEF Init, NoLeftoversInv
<1>2. Joint /\ NoLeftoversInv /\ [Next]_vars => NoLeftoversInv'
  <2> SUFFICES ASSUME Joint, NoLeftoversInv, [Next]_vars, inherited' = {}, NEW d \in Dests
               PROVE  /\ "unicast" \in fib'[d] => tracker' # "start"
                      /\ d \notin MP!Managed(routes') =>
                           /\ "blackhole" \in fib'[d] =>
                                Requested("delBlackhole", d)' \/ Failed("delBlackhole", d)'
                           /\ "unicast" \in fib'[d] /\ Attentive' =>
                                \/ Requested("delUnicast", d)' \/ Failed("delUnicast", d)'
                                \/ Offered(d)' \/ Announced(d)'
    BY DEF NoLeftoversInv
  <2>1. inherited = {}
    BY InheritedStays
  <2>2. "unicast" \in fib'[d] => tracker' # "start"
    <3>1. tracker' = "start" => tracker = "start"
      BY TrackerRefines, TrackerAssumptions DEF TP!Next, TP!KernelStep, TP!LinkUp, TP!LinkDown, TP!AddrAdd,
         TP!AddrDel, TP!LinkDelete, TP!LinkCreate, TP!RouteChange, TP!trackerVars,
         TP!TrackerStep, TP!Run, TP!Deliver, TP!OpenSocket, TP!DumpLinks, TP!DumpAddrs,
         TP!LoopHead, TP!SelectTimeout, TP!Receive, TP!Send, TP!Stop, TP!ReceiveFails,
         TP!CloseFails, TP!StartFails, TP!HandleError, TP!Handle, TP!HandlerReturns, TP!Drop,
         TP!OnShutdown, TP!Finished, TP!vars
    <3>2. "unicast" \in fib[d] => tracker # "start"
      BY <2>1 DEF NoLeftoversInv
    <3> QED
      BY <3>1, <3>2, UnicastChanges
  <2> QED
    BY <2>1, <2>2, BlackholeLeaves, UnicastLeaves
<1>3. Joint /\ NoLeftoversInv => NoLeftovers
  <2> SUFFICES ASSUME Joint, NoLeftoversInv, Settled, inherited = {}, NEW d \in Dests,
                      d \notin MP!Managed(routes)
               PROVE  /\ "unicast" \in fib[d] => Failed("delUnicast", d)
                      /\ "blackhole" \in fib[d] => Failed("delBlackhole", d)
    BY SameManager DEF NoLeftovers
  <2>1. netlink = <<>> /\ queue = <<>> /\ tracker = "select" /\ ~overrun /\ ~shutdownPending
    BY DEF Settled, Trk!Quiescent
  <2>2. Attentive /\ ~Offered(d) /\ ~Announced(d) /\ \A type : ~Requested(type, d)
    BY <2>1 DEF Attentive, TP!Listening, TP!Subscribed, Offered, Announced, Requested
  <2> QED
    BY <2>2 DEF NoLeftoversInv
<1> QED
  BY <1>1, <1>2, <1>3, JointInvariant, PTL DEF Spec
=============================================================================
