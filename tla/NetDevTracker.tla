---------------------------- MODULE NetDevTracker ----------------------------
(***************************************************************************)
(* NetDevTracker: the thread that follows the network interface and the    *)
(* program's own routes through notifications of the kernel.               *)
(*                                                                         *)
(* It subscribes (socket, bind), takes a snapshot (getifaddrs), publishes  *)
(* it, and from then on reads notifications one at a time, updates its     *)
(* InterfaceConfig and sends it, or a route notification, to the routing   *)
(* manager.  A notification names its interface by index; the tracker      *)
(* looks the name up when it READS the notification, which may be long     *)
(* after the kernel wrote it, and skips it if that is not the tracked name. *)
(*                                                                         *)
(* The kernel is external: the interface, the queue of the socket and its  *)
(* overrun.  getifaddrs is too: it dumps the links, then the addresses,    *)
(* and starts again when an address belongs to a link it has not seen.     *)
(* The kernel answers no request of this socket with NLMSG_ERROR, since    *)
(* the tracker sends none.  IPv6 addresses are taken to have no peer.      *)
(***************************************************************************)
EXTENDS Integers, Sequences, FiniteSets, InterfaceConfig

Ext == INSTANCE SequencesExt

CONSTANTS
  Dests,       \* destinations of routes
  LocalIPs,    \* addresses the interface may have
  RemoteIPs,   \* broadcast and peer addresses
  Remote,      \* the broadcast or peer address of each local one, if any
  IsPtP,       \* the interface is a point-to-point one
  QueueMax,    \* notifications the socket's buffer holds
  MaxIdx       \* BOUND: interface indices, one per creation

ASSUME TrackerAssumption ==
  /\ IsFiniteSet(LocalIPs) /\ IsFiniteSet(Dests)
  /\ Remote \in [LocalIPs -> SUBSET RemoteIPs]
  /\ IsPtP \in BOOLEAN
  /\ QueueMax \in Nat \ {0}
  /\ MaxIdx \in Nat \ {0}

VARIABLES
  tracker,            \* control state of the tracker's thread
  seen,               \* the link as getifaddrs dumped it
  cfg,                \* cfgStorage: the configuration known to the tracker
  out,                \* the message being sent to the manager
  published,          \* the configuration last handled by the manager
  shutdownRequested,
  reported,           \* a ShutdownMessage was sent
  iface,              \* external: the interface
  queue,              \* external: the socket's receive buffer
  overrun             \* external: a notification did not fit

kernelVars == <<iface, queue, overrun>>
trackerVars == <<tracker, seen, cfg, out, published, shutdownRequested, reported>>
vars == <<tracker, seen, cfg, out, published, shutdownRequested, reported,
          iface, queue, overrun>>

\* The interface: its index (0: there is none), the last index given, its
\* flags and addresses.
Interface == [idx : 0 .. MaxIdx, last : 0 .. MaxIdx, up : BOOLEAN, addrs : SUBSET LocalIPs]

Link(type, idx, up)     == [type |-> type, idx |-> idx, up |-> up]
Addr(type, idx, ip)     == [type |-> type, idx |-> idx, ip |-> ip]
Route(type, idx, ours, dest) ==
  [type |-> type, idx |-> idx, ours |-> ours, dest |-> dest]

NoMessage == [type |-> "none"]

NothingSeen == [idx |-> 0, up |-> FALSE]

\* A local address is never taken for a remote one, nor a remote for a local.
KnownConfig == {c \in Config(LocalIPs \cup RemoteIPs) :
                  c.localIPs \subseteq LocalIPs /\ c.remoteIPs \subseteq RemoteIPs}

OutMessages ==
  {NoMessage}
  \cup [type : {"netdev"}, config : KnownConfig]
  \cup [type : {"added", "removed"}, dest : Dests]

Ended == tracker \in {"stopped", "failed"}

-----------------------------------------------------------------------------
(***************************************************************************)
(* The kernel.                                                             *)
(***************************************************************************)
\* Mutant: the socket is bound after the snapshot.
SubscribedLate == tracker \in {"head", "select"}

\* The socket is bound.  What is queued after the thread ended is never read.
Subscribed == tracker \notin {"start", "stopped", "failed"}

\* The kernel queues the notifications ms; when they do not fit it drops them
\* and leaves an error on the socket.
Notify(ms) ==
  IF ~Subscribed THEN UNCHANGED <<queue, overrun>>
  ELSE IF Len(queue) + Len(ms) <= QueueMax /\ ~overrun
       THEN queue' = queue \o ms /\ UNCHANGED overrun
       ELSE overrun' = TRUE /\ UNCHANGED queue

\* if_indextoname gives the tracked name.
NameMatches(idx) == idx # 0 /\ iface.idx = idx

LinkUp ==
  /\ iface.idx # 0
  /\ ~iface.up
  /\ iface' = [iface EXCEPT !.up = TRUE]
  /\ Notify(<<Link("newlink", iface.idx, TRUE)>>)
  /\ UNCHANGED trackerVars

V6Addrs == {ip \in iface.addrs : isV6(ip)}

\* The interface goes down: its IPv6 routes gone are announced after that and,
\* unless the system is told to keep them (keep_addr_on_down), so are its IPv6
\* addresses.
LinkDown(gone) ==
  /\ iface.up
  /\ \E lost \in {{}, V6Addrs} : \E ds \in Ext!SetToSeqs(gone), ips \in Ext!SetToSeqs(lost) :
       /\ iface' = [iface EXCEPT !.up = FALSE, !.addrs = @ \ lost]
       /\ Notify(<<Link("newlink", iface.idx, FALSE)>>
                 \o [i \in DOMAIN ds |-> Route("delroute", iface.idx, TRUE, ds[i])]
                 \o [i \in DOMAIN ips |-> Addr("deladdr", iface.idx, ips[i])])
  /\ UNCHANGED trackerVars

AddrAdd(ip) ==
  /\ iface.idx # 0
  /\ ip \notin iface.addrs
  /\ iface' = [iface EXCEPT !.addrs = @ \cup {ip}]
  /\ Notify(<<Addr("newaddr", iface.idx, ip)>>)
  /\ UNCHANGED trackerVars

AddrDel(ip) ==
  /\ ip \in iface.addrs
  /\ iface' = [iface EXCEPT !.addrs = @ \ {ip}]
  /\ Notify(<<Addr("deladdr", iface.idx, ip)>>)
  /\ UNCHANGED trackerVars

\* The kernel brings an interface down (LinkDown) before it removes it; then
\* it unlists the name and only after that sends RTM_DELADDR and RTM_DELLINK.
LinkDelete ==
  /\ iface.idx # 0
  /\ ~iface.up
  /\ iface' = [iface EXCEPT !.idx = 0, !.addrs = {}]
  /\ \E order \in Ext!SetToSeqs(iface.addrs) :
       Notify(Append([i \in DOMAIN order |-> Addr("deladdr", iface.idx, order[i])],
                     Link("dellink", iface.idx, FALSE)))
  /\ UNCHANGED trackerVars

LinkCreate ==
  /\ iface.idx = 0
  /\ iface.last < MaxIdx
  /\ iface' = [iface EXCEPT !.idx = iface.last + 1, !.last = @ + 1]
  /\ Notify(<<Link("newlink", iface.last + 1, FALSE)>>)
  /\ UNCHANGED trackerVars

\* A route through the interface is added or removed.  ours: its table, scope,
\* protocol, type and metric are those of the program's unicast routes.
RouteChange(type, ours, dest) ==
  /\ iface.idx # 0
  /\ Notify(<<Route(type, iface.idx, ours, dest)>>)
  /\ UNCHANGED <<trackerVars, iface>>

-----------------------------------------------------------------------------
(***************************************************************************)
(* The tracker's thread.                                                   *)
(***************************************************************************)
\* HandleError: the thread tells the ShutdownHandler and ends.
HandleError ==
  /\ tracker' = "failed"
  /\ reported' = TRUE
  /\ UNCHANGED <<seen, cfg, out, published, shutdownRequested, kernelVars>>

OpenSocket ==
  /\ tracker = "start"
  /\ tracker' = "links"
  /\ UNCHANGED <<seen, cfg, out, published, shutdownRequested, reported, kernelVars>>

\* socket, bind or getifaddrs fails.
StartFails == tracker \in {"start", "links", "addrs"} /\ HandleError

DumpLinks ==
  /\ tracker = "links"
  /\ tracker' = "addrs"
  /\ seen' = [idx |-> iface.idx, up |-> iface.up]
  /\ UNCHANGED <<cfg, out, published, shutdownRequested, reported, kernelVars>>

\* The entries of getifaddrs that carry an address, read one after the other:
\* flags and type are only looked at where there is one.
InitialConfig(addrs, up) ==
  [isUp      |-> addrs # {} /\ up,
   isPtP     |-> addrs # {} /\ IsPtP,
   localIPs  |-> addrs,
   remoteIPs |-> UNION {Remote[ip] : ip \in {a \in addrs : ~isV6(a)}}]

DumpAddrs ==
  /\ tracker = "addrs"
  /\ seen' = NothingSeen
  /\ IF iface.addrs # {} /\ iface.idx # seen.idx
     THEN tracker' = "links" /\ UNCHANGED <<cfg, out>>
     ELSE /\ cfg' = InitialConfig(iface.addrs, seen.up)
          /\ out' = [type |-> "netdev", config |-> cfg']
          /\ tracker' = "deliver"
  /\ UNCHANGED <<published, shutdownRequested, reported, kernelVars>>

\* The manager's handler runs, in this thread.
Handle ==
  /\ tracker = "deliver"
  /\ tracker' = "handled"
  /\ published' = IF out.type = "netdev" THEN out.config ELSE published
  /\ out' = NoMessage
  /\ UNCHANGED <<seen, cfg, shutdownRequested, reported, kernelVars>>

HandlerReturns ==
  /\ tracker = "handled"
  /\ tracker' = "head"
  /\ UNCHANGED <<seen, cfg, out, published, shutdownRequested, reported, kernelVars>>

\* A manager that shuts down is not ready for the message.  Main asks it to
\* after it has asked the tracker.
Drop ==
  /\ tracker = "deliver"
  /\ shutdownRequested
  /\ tracker' = "head"
  /\ out' = NoMessage
  /\ UNCHANGED <<seen, cfg, published, shutdownRequested, reported, kernelVars>>

\* SendMessage, up to its return.
Deliver == Handle \/ HandlerReturns \/ Drop

LoopHead ==
  /\ tracker = "head"
  /\ ~shutdownRequested
  /\ tracker' = "select"
  /\ UNCHANGED <<seen, cfg, out, published, shutdownRequested, reported, kernelVars>>

\* The loop is left, on request or because select or recvmsg was interrupted
\* by a signal, and the socket is closed.
Stop ==
  /\ (tracker = "head" /\ shutdownRequested) \/ tracker = "select"
  /\ tracker' = "stopped"
  /\ UNCHANGED <<seen, cfg, out, published, shutdownRequested, reported, kernelVars>>

CloseFails ==
  /\ (tracker = "head" /\ shutdownRequested) \/ tracker = "select"
  /\ HandleError

\* Mutant: the flag is not looked at after a timeout.
SelectTimeoutBlind ==
  /\ tracker = "select"
  /\ queue = <<>> /\ ~overrun
  /\ UNCHANGED vars

SelectTimeout ==
  /\ tracker = "select"
  /\ queue = <<>> /\ ~overrun
  /\ tracker' = "head"
  /\ UNCHANGED <<seen, cfg, out, published, shutdownRequested, reported, kernelVars>>

\* recvmsg reports that notifications were lost, or another error.
ReceiveFails == tracker = "select" /\ HandleError

\* Mutants: the flags are not looked at; the type is not updated.
LinkConfigCreatedIsUp(c, m) ==
  SetType(SetState(c, m.type = "newlink"), IsPtP)

LinkConfigKeepsType(c, m) == SetState(c, m.type = "newlink" /\ m.up)

LinkConfig(c, m) ==
  IF m.type = "dellink" THEN SetState(c, FALSE)
                        ELSE SetType(SetState(c, m.up), IsPtP)

\* Mutant: the broadcast address is added to the local ones.
AddrConfigMixed(c, m) ==
  IF m.type = "newaddr" THEN [c EXCEPT !.localIPs = @ \cup {m.ip} \cup Remote[m.ip]]
                        ELSE DelLocalIP(c, m.ip)

\* IFA_LOCAL and IFA_BROADCAST of an IPv4 address, IFA_ADDRESS of an IPv6 one.
\* A peer is not looked at: unlike InitialConfig.
AddrConfig(c, m) ==
  LET remote == IF isV6(m.ip) \/ IsPtP THEN {} ELSE Remote[m.ip]
  IN  IF m.type = "newaddr"
      THEN [AddLocalIP(c, m.ip) EXCEPT !.remoteIPs = @ \cup remote]
      ELSE [DelLocalIP(c, m.ip) EXCEPT !.remoteIPs = @ \ remote]

Send(message) == out' = message /\ tracker' = "deliver"

\* Mutant: the notification is looked at and left in the buffer.
TakePeek == queue' = queue

Take == queue' = Tail(queue)

\* A notification is read: what it says is sent on, or it is skipped.
Receive ==
  /\ tracker = "select"
  /\ queue # <<>> /\ ~overrun
  /\ Take
  /\ LET m == Head(queue)
     IN  \/ /\ NameMatches(m.idx)
            /\ m.type \in {"newlink", "dellink"}
            /\ cfg' = LinkConfig(cfg, m)
            /\ Send([type |-> "netdev", config |-> cfg'])
         \/ /\ NameMatches(m.idx)
            /\ m.type \in {"newaddr", "deladdr"}
            /\ cfg' = AddrConfig(cfg, m)
            /\ Send([type |-> "netdev", config |-> cfg'])
         \/ /\ NameMatches(m.idx)
            /\ m.type \in {"newroute", "delroute"} /\ m.ours
            /\ Send([type |-> IF m.type = "newroute" THEN "added" ELSE "removed",
                     dest |-> m.dest])
            /\ UNCHANGED cfg
         \/ /\ ~NameMatches(m.idx) \/ (m.type \in {"newroute", "delroute"} /\ ~m.ours)
            /\ tracker' = "head"
            /\ UNCHANGED <<cfg, out>>
  /\ UNCHANGED <<seen, published, shutdownRequested, reported, iface, overrun>>

\* Called by Main.
OnShutdown ==
  /\ ~shutdownRequested
  /\ shutdownRequested' = TRUE
  /\ UNCHANGED <<tracker, seen, cfg, out, published, reported, kernelVars>>

-----------------------------------------------------------------------------
Init ==
  /\ tracker = "start"
  /\ seen = NothingSeen
  /\ cfg = EmptyConfig
  /\ out = NoMessage
  /\ published = EmptyConfig
  /\ shutdownRequested = FALSE
  /\ reported = FALSE
  /\ iface \in {i \in Interface : /\ i.idx = i.last /\ i.idx <= 1
                                  /\ i.idx = 0 => ~i.up /\ i.addrs = {}}
  /\ queue = <<>>
  /\ overrun = FALSE

KernelStep ==
  \/ LinkUp \/ \E gone \in SUBSET {d \in Dests : isV6(d)} : LinkDown(gone)
  \/ \E ip \in LocalIPs : AddrAdd(ip) \/ AddrDel(ip)
  \/ LinkDelete \/ LinkCreate
  \/ \E type \in {"newroute", "delroute"}, ours \in BOOLEAN, d \in Dests :
       RouteChange(type, ours, d)

\* What the thread does of itself.
Run == \/ OpenSocket \/ DumpLinks \/ DumpAddrs \/ LoopHead \/ SelectTimeout \/ Receive
       \/ tracker = "head" /\ Stop
       \/ overrun /\ ReceiveFails

TrackerStep == Run \/ Deliver \/ StartFails \/ Stop \/ CloseFails \/ ReceiveFails

Finished == Ended /\ UNCHANGED vars

Next == KernelStep \/ TrackerStep \/ OnShutdown \/ Finished

Spec == Init /\ [][Next]_vars

(***************************************************************************)
(* Fairness: the thread runs, select returns within its timeout, and the   *)
(* manager's handlers return.                                              *)
(***************************************************************************)
FairSpec == Spec /\ WF_vars(Run) /\ WF_vars(Deliver)
-----------------------------------------------------------------------------
TypeOK ==
  /\ tracker \in {"start", "links", "addrs", "deliver", "handled", "head", "select",
                  "stopped", "failed"}
  /\ seen \in [idx : 0 .. MaxIdx, up : BOOLEAN]
  /\ cfg \in KnownConfig
  /\ out \in OutMessages
  /\ published \in KnownConfig
  /\ shutdownRequested \in BOOLEAN
  /\ reported \in BOOLEAN
  /\ iface \in Interface
  /\ Len(queue) <= QueueMax
  /\ overrun \in BOOLEAN

\* The tracker waits, with nothing left to read.
Quiescent == tracker = "select" /\ queue = <<>> /\ ~overrun

\* The interface, if it exists, is the one that existed first.
NeverDeleted == iface.idx = iface.last /\ iface.last <= 1

\* A tracker that has read everything knows every address the interface has,
\* whatever changed between bind, the two dumps and the notifications; and it
\* knows no other address as long as the interface was never removed.
AddressesKnown ==
  Quiescent => /\ iface.addrs \subseteq published.localIPs
               /\ NeverDeleted => published.localIPs = iface.addrs

\* A tracker that has read everything has published an interface as up only
\* if it is, as long as the interface was never removed.
UpIsReal ==
  Quiescent /\ NeverDeleted /\ published.isUp => iface.idx # 0 /\ iface.up

\* An interface known to be up is known with its type, which decides whether
\* the manager's routes get a gateway, even if the snapshot did not see it.
TypeKnownWhenUp == cfg.isUp => cfg.isPtP = IsPtP

\* The kernel has no more to say from some moment on.
KernelRests == <>[][Len(queue') <= Len(queue)]_vars

\* The tracker then reads what is left, and publishes what it knows, again
\* and again.
NotificationsAreRead ==
  KernelRests => []<>(Ended \/ (queue = <<>> /\ published = cfg))

\* A request to shut down ends the thread, whatever the kernel does.
ShutdownEnds == shutdownRequested ~> Ended

\* Not so: comment of the code on RTM_DELLINK, "link disappeared, set state
\* to false".  The name of a link that disappeared cannot be looked up.
LinkLossIsSeen == Quiescent /\ iface.idx = 0 => ~published.isUp

\* Not so: an interface that is up and has an address is published as up.
\* The snapshot takes an interface without addresses to be down, and the
\* notification of its first address does not say otherwise.
UpInterfaceIsPublished ==
  Quiescent /\ iface.up /\ iface.addrs # {} => published.isUp
=============================================================================
