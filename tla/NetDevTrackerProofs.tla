------------------------- MODULE NetDevTrackerProofs -------------------------
(***************************************************************************)
(* Theorems about NetDevTracker, for every set of addresses and of routes, *)
(* every size of the socket's buffer and any number of interfaces of the   *)
(* name: what the tracker publishes once it has read everything is true of *)
(* the interface.                                                          *)
(***************************************************************************)
EXTENDS NetDevTracker, FiniteSetTheorems, SequenceTheorems, TLAPS

Indices == 1 .. MaxIdx

LinkMessage  == [type : {"newlink", "dellink"}, idx : Indices, up : BOOLEAN]
AddrMessage  == [type : {"newaddr", "deladdr"}, idx : Indices, ip : LocalIPs]
RouteMessage == [type : {"newroute", "delroute"}, idx : Indices, ours : BOOLEAN, dest : Dests]

Message == LinkMessage \cup AddrMessage \cup RouteMessage

\* What is queued about the interface as it is now: its link, and an address.
AboutLink(m) == m.type \in {"newlink", "dellink"} /\ m.idx = iface.idx

AboutAddr(m, ip) == m.type \in {"newaddr", "deladdr"} /\ m.idx = iface.idx /\ m.ip = ip

LinkMessages == {i \in DOMAIN queue : AboutLink(queue[i])}

AddrMessages(ip) == {i \in DOMAIN queue : AboutAddr(queue[i], ip)}

IsLast(i, I) == i \in I /\ \A j \in I : j <= i

\* The queue, the interface and the control state of the tracker.
Shape ==
  /\ TypeOK
  /\ queue \in Seq(Message)
  /\ \A i \in DOMAIN queue : queue[i].idx <= iface.last
  /\ iface.idx \in {0, iface.last}
  /\ iface.idx = 0 => ~iface.up /\ iface.addrs = {}
  /\ tracker = "start" => queue = <<>> /\ cfg = EmptyConfig
  /\ tracker \in {"handled", "select"} => published = cfg
  /\ tracker = "head" => published = cfg \/ shutdownRequested
  /\ tracker = "deliver" => IF out.type = "netdev" THEN out.config = cfg ELSE published = cfg

Listening == Subscribed /\ ~overrun

\* The last notification about the link agrees with it, and where there is none
\* the tracker does.
LinkAgrees ==
  /\ \A i \in LinkMessages : queue[i].type = "newlink"
  /\ \A i \in DOMAIN queue : IsLast(i, LinkMessages) => queue[i].up = iface.up
  /\ LinkMessages = {} /\ NeverDeleted =>
       /\ tracker = "addrs" /\ seen.up => iface.up
       /\ tracker \notin {"links", "addrs"} /\ cfg.isUp => iface.up

\* And so it is for each address.
AddrAgrees(ip) ==
  /\ \A i \in DOMAIN queue : IsLast(i, AddrMessages(ip)) =>
       /\ ip \in iface.addrs => queue[i].type = "newaddr"
       /\ NeverDeleted /\ ip \notin iface.addrs => queue[i].type = "deladdr"
  /\ AddrMessages(ip) = {} /\ tracker \notin {"links", "addrs"} =>
       /\ ip \in iface.addrs => ip \in cfg.localIPs
       /\ NeverDeleted /\ ip \in cfg.localIPs => ip \in iface.addrs

Agrees == Listening => LinkAgrees /\ \A ip \in LocalIPs : AddrAgrees(ip)

IInv == Shape /\ TypeKnownWhenUp /\ Agrees

-----------------------------------------------------------------------------
(***************************************************************************)
(* Notifications.                                                          *)
(***************************************************************************)
\* What a notification holds.
LEMMA MessageFields ==
  ASSUME NEW m \in Message
  PROVE  /\ m.idx \in Indices
         /\ m.type \in {"newlink", "dellink", "newaddr", "deladdr", "newroute", "delroute"}
         /\ m.type \in {"newlink", "dellink"} => m.up \in BOOLEAN
         /\ m.type \in {"newaddr", "deladdr"} => m.ip \in LocalIPs
         /\ m.type \in {"newroute", "delroute"} => m.dest \in Dests
BY DEF Message, LinkMessage, AddrMessage, RouteMessage

\* What the kernel queues is a notification.
LEMMA MessageIsMade ==
  ASSUME NEW idx \in Indices
  PROVE  /\ \A type \in {"newlink", "dellink"}, up \in BOOLEAN : Link(type, idx, up) \in Message
         /\ \A type \in {"newaddr", "deladdr"}, ip \in LocalIPs : Addr(type, idx, ip) \in Message
         /\ \A type \in {"newroute", "delroute"}, ours \in BOOLEAN, d \in Dests :
              Route(type, idx, ours, d) \in Message
BY DEF Message, LinkMessage, AddrMessage, RouteMessage, Link, Addr, Route

\* What is queued stays in its place; without an overrun what is new follows it.
LEMMA NotifyAppends ==
  ASSUME Shape, NEW ms \in Seq(Message), Notify(ms)
  PROVE  /\ queue' \in Seq(Message) /\ Len(queue') <= QueueMax
         /\ overrun' \in BOOLEAN
         /\ \/ queue' = queue
            \/ queue' = queue \o ms /\ Subscribed
         /\ Subscribed /\ ~overrun' => ~overrun /\ queue' = queue \o ms
         /\ tracker = "start" => UNCHANGED <<queue, overrun>>
<1>1. queue \o ms \in Seq(Message) /\ Len(queue \o ms) = Len(queue) + Len(ms)
  BY DEF Shape
<1> QED
  BY <1>1 DEF Shape, TypeOK, Notify, Subscribed

LEMMA NotifyOne ==
  ASSUME Shape, NEW m \in Message, Notify(<<m>>)
  PROVE  /\ queue' \in Seq(Message) /\ Len(queue') <= QueueMax
         /\ overrun' \in BOOLEAN
         /\ \A i \in DOMAIN queue' : (i \in DOMAIN queue /\ queue'[i] = queue[i]) \/ queue'[i] = m
         /\ Subscribed /\ ~overrun' =>
              /\ ~overrun
              /\ Len(queue') = Len(queue) + 1
              /\ queue'[Len(queue) + 1] = m
              /\ \A i \in DOMAIN queue : queue'[i] = queue[i]
         /\ tracker = "start" => UNCHANGED <<queue, overrun>>
<1>1. <<m>> \in Seq(Message)
  OBVIOUS
<1>2. queue \in Seq(Message)
  BY DEF Shape
<1>3. /\ Len(queue \o <<m>>) = Len(queue) + 1
      /\ (queue \o <<m>>)[Len(queue) + 1] = m
      /\ \A i \in DOMAIN queue : (queue \o <<m>>)[i] = queue[i]
      /\ DOMAIN (queue \o <<m>>) = 1 .. Len(queue) + 1
  BY <1>2
<1> DEFINE q == queue \o <<m>>
<1>4. /\ queue' \in Seq(Message) /\ Len(queue') <= QueueMax /\ overrun' \in BOOLEAN
      /\ queue' = queue \/ queue' = q
      /\ Subscribed /\ ~overrun' => ~overrun /\ queue' = q
      /\ tracker = "start" => UNCHANGED <<queue, overrun>>
  BY <1>1, NotifyAppends
<1>5. /\ Len(q) = Len(queue) + 1 /\ q[Len(queue) + 1] = m
      /\ \A i \in DOMAIN queue : q[i] = queue[i]
      /\ \A i \in DOMAIN q : i \in DOMAIN queue \/ i = Len(queue) + 1
  BY <1>2, <1>3
<1> HIDE DEF q
<1> QED
  BY <1>4, <1>5

-----------------------------------------------------------------------------
(***************************************************************************)
(* Shape.                                                                  *)
(***************************************************************************)
\* A configuration is its four fields.
LEMMA ConfigFields ==
  ASSUME NEW c \in KnownConfig
  PROVE  /\ c = [isUp |-> c.isUp, isPtP |-> c.isPtP, localIPs |-> c.localIPs,
                 remoteIPs |-> c.remoteIPs]
         /\ c.isUp \in BOOLEAN /\ c.isPtP \in BOOLEAN
         /\ c.localIPs \in SUBSET LocalIPs /\ c.remoteIPs \in SUBSET RemoteIPs
BY DEF KnownConfig, Config

LEMMA ConfigIsMade ==
  ASSUME NEW up \in BOOLEAN, NEW ptp \in BOOLEAN,
         NEW l \in SUBSET LocalIPs, NEW r \in SUBSET RemoteIPs
  PROVE  [isUp |-> up, isPtP |-> ptp, localIPs |-> l, remoteIPs |-> r] \in KnownConfig
BY DEF KnownConfig, Config

LEMMA FieldsAre ==
  ASSUME NEW up \in BOOLEAN, NEW ptp \in BOOLEAN,
         NEW l \in SUBSET LocalIPs, NEW r \in SUBSET RemoteIPs, NEW c,
         c = [isUp |-> up, isPtP |-> ptp, localIPs |-> l, remoteIPs |-> r]
  PROVE  c \in KnownConfig /\ c.isUp = up /\ c.isPtP = ptp /\ c.localIPs = l /\ c.remoteIPs = r
BY ConfigIsMade

\* What the operations of InterfaceConfig make of a configuration.
LEMMA OperationsAre ==
  ASSUME NEW c \in KnownConfig
  PROVE  /\ \A up \in BOOLEAN :
              SetState(c, up) = [isUp |-> up, isPtP |-> c.isPtP, localIPs |-> c.localIPs,
                                 remoteIPs |-> c.remoteIPs]
         /\ SetType(c, IsPtP) = [isUp |-> c.isUp, isPtP |-> IsPtP, localIPs |-> c.localIPs,
                                 remoteIPs |-> c.remoteIPs]
         /\ \A S \in SUBSET RemoteIPs :
              [c EXCEPT !.remoteIPs = S] =
                [isUp |-> c.isUp, isPtP |-> c.isPtP, localIPs |-> c.localIPs, remoteIPs |-> S]
         /\ \A S \in SUBSET LocalIPs :
              [c EXCEPT !.localIPs = S] =
                [isUp |-> c.isUp, isPtP |-> c.isPtP, localIPs |-> S, remoteIPs |-> c.remoteIPs]
<1>1. c \in [isUp : BOOLEAN, isPtP : BOOLEAN, localIPs : SUBSET LocalIPs, remoteIPs : SUBSET RemoteIPs]
  BY ConfigFields
<1> QED
  BY <1>1 DEF SetState, SetType

\* What a notification of the link makes of a configuration.
LEMMA LinkConfigIs ==
  ASSUME NEW c \in KnownConfig, NEW m \in Message, m.type \in {"newlink", "dellink"}
  PROVE  /\ LinkConfig(c, m) \in KnownConfig
         /\ LinkConfig(c, m).isUp = (m.type = "newlink" /\ m.up)
         /\ LinkConfig(c, m).isUp => LinkConfig(c, m).isPtP = IsPtP
         /\ LinkConfig(c, m).localIPs = c.localIPs
<1> DEFINE up == m.type = "newlink" /\ m.up
<1>1. up \in BOOLEAN /\ IsPtP \in BOOLEAN
  BY MessageFields, TrackerAssumption
<1> DEFINE s == [isUp |-> up, isPtP |-> c.isPtP, localIPs |-> c.localIPs, remoteIPs |-> c.remoteIPs]
<1>2. s \in KnownConfig /\ SetState(c, up) = s
  BY <1>1, ConfigFields, ConfigIsMade, OperationsAre
<1>0. s.isUp = up /\ s.localIPs = c.localIPs /\ s.remoteIPs = c.remoteIPs
  OBVIOUS
<1> HIDE DEF s
<1>3. CASE m.type = "dellink"
  <2>1. LinkConfig(c, m) = s
    BY <1>2, <1>3 DEF LinkConfig
  <2>2. up = FALSE
    BY <1>3
  <2> QED
    BY <1>0, <1>2, <2>1, <2>2
<1>4. CASE m.type = "newlink"
  <2>1. LinkConfig(c, m) = SetType(s, IsPtP)
    BY <1>2, <1>4, MessageFields DEF LinkConfig
  <2>2. LinkConfig(c, m) = [isUp |-> up, isPtP |-> IsPtP, localIPs |-> c.localIPs,
                            remoteIPs |-> c.remoteIPs]
    BY <1>0, <1>2, <2>1, OperationsAre
  <2> HIDE DEF up
  <2>3. /\ LinkConfig(c, m) \in KnownConfig
        /\ LinkConfig(c, m).isUp = up /\ LinkConfig(c, m).isPtP = IsPtP
        /\ LinkConfig(c, m).localIPs = c.localIPs
    BY <1>1, <2>2, ConfigFields, FieldsAre
  <2> QED
    BY <2>3 DEF up
<1> QED
  BY <1>3, <1>4

\* And one of an address.
LEMMA AddrConfigIs ==
  ASSUME NEW c \in KnownConfig, NEW m \in Message, m.type \in {"newaddr", "deladdr"}
  PROVE  /\ AddrConfig(c, m) \in KnownConfig
         /\ AddrConfig(c, m).isUp = c.isUp /\ AddrConfig(c, m).isPtP = c.isPtP
         /\ AddrConfig(c, m).localIPs = IF m.type = "newaddr" THEN c.localIPs \cup {m.ip}
                                                              ELSE c.localIPs \ {m.ip}
<1> DEFINE remote == IF isV6(m.ip) \/ IsPtP THEN {} ELSE Remote[m.ip]
           local  == IF m.type = "newaddr" THEN c.localIPs \cup {m.ip} ELSE c.localIPs \ {m.ip}
           others == IF m.type = "newaddr" THEN c.remoteIPs \cup remote ELSE c.remoteIPs \ remote
           d == IF m.type = "newaddr" THEN AddLocalIP(c, m.ip) ELSE DelLocalIP(c, m.ip)
<1>1. remote \in SUBSET RemoteIPs /\ m.ip \in LocalIPs
  BY MessageFields, TrackerAssumption
<1>2. AddrConfig(c, m) = [d EXCEPT !.remoteIPs = IF m.type = "newaddr" THEN @ \cup remote
                                                                       ELSE @ \ remote]
  BY DEF AddrConfig
<1> HIDE DEF remote
<1>3. local \in SUBSET LocalIPs /\ others \in SUBSET RemoteIPs
  BY <1>1, ConfigFields
<1>4. /\ d \in KnownConfig
      /\ d = [isUp |-> c.isUp, isPtP |-> c.isPtP, localIPs |-> local, remoteIPs |-> c.remoteIPs]
  <2>1. d = [c EXCEPT !.localIPs = local]
    BY DEF AddLocalIP, DelLocalIP
  <2> HIDE DEF d, local
  <2> QED
    BY <1>3, <2>1, ConfigFields, ConfigIsMade, OperationsAre
<1>5. /\ d.isUp = c.isUp /\ d.isPtP = c.isPtP
      /\ d.localIPs = local /\ d.remoteIPs = c.remoteIPs
  BY <1>4
<1>6. AddrConfig(c, m) = [d EXCEPT !.remoteIPs = others]
  BY <1>2, <1>5
<1> HIDE DEF d, local, others
<1>7. AddrConfig(c, m) =
        [isUp |-> c.isUp, isPtP |-> c.isPtP, localIPs |-> local, remoteIPs |-> others]
  BY <1>3, <1>4, <1>5, <1>6, OperationsAre
<1>8. /\ AddrConfig(c, m) \in KnownConfig
      /\ AddrConfig(c, m).isUp = c.isUp /\ AddrConfig(c, m).isPtP = c.isPtP
      /\ AddrConfig(c, m).localIPs = local
  BY <1>3, <1>7, ConfigFields, FieldsAre
<1> QED
  BY <1>8 DEF local

\* The snapshot.
LEMMA InitialConfigIs ==
  ASSUME NEW addrs \in SUBSET LocalIPs, NEW up \in BOOLEAN
  PROVE  /\ InitialConfig(addrs, up) \in KnownConfig
         /\ InitialConfig(addrs, up).isUp = (addrs # {} /\ up)
         /\ InitialConfig(addrs, up).isUp => InitialConfig(addrs, up).isPtP = IsPtP
         /\ InitialConfig(addrs, up).localIPs = addrs
<1>1. UNION {Remote[ip] : ip \in {a \in addrs : ~isV6(a)}} \in SUBSET RemoteIPs
  BY TrackerAssumption
<1>2. (addrs # {} /\ up) \in BOOLEAN /\ (addrs # {} /\ IsPtP) \in BOOLEAN
  BY TrackerAssumption
<1>3. InitialConfig(addrs, up) \in KnownConfig
  BY <1>1, <1>2, ConfigIsMade DEF InitialConfig
<1> QED
  BY <1>3, TrackerAssumption DEF InitialConfig

-----------------------------------------------------------------------------
(***************************************************************************)
(* What each step of the kernel does to the queue.                         *)
(***************************************************************************)
\* A message about the interface as it is after the step.
Posts(m) ==
  /\ m \in Message /\ m.idx = iface'.last /\ iface'.idx = iface'.last
  /\ Notify(<<m>>)
  /\ iface' \in Interface
  /\ iface'.last >= iface.last
  /\ UNCHANGED trackerVars

LEMMA InterfaceFields ==
  ASSUME Shape
  PROVE  /\ iface.idx \in 0 .. MaxIdx /\ iface.last \in 0 .. MaxIdx
         /\ iface.up \in BOOLEAN /\ iface.addrs \in SUBSET LocalIPs
         /\ iface = [idx |-> iface.idx, last |-> iface.last, up |-> iface.up, addrs |-> iface.addrs]
         /\ iface.idx # 0 => iface.idx \in Indices /\ iface.idx = iface.last
         /\ MaxIdx \in Nat
BY TrackerAssumption DEF Shape, TypeOK, Interface, Indices

LEMMA LinkUpPosts ==
  ASSUME Shape, LinkUp
  PROVE  /\ Posts(Link("newlink", iface.idx, TRUE)) /\ iface.idx # 0
         /\ iface'.up = TRUE /\ iface'.addrs = iface.addrs
         /\ iface'.idx = iface.idx /\ iface'.last = iface.last
<1>1. iface' = [idx |-> iface.idx, last |-> iface.last, up |-> TRUE, addrs |-> iface.addrs]
  BY InterfaceFields DEF LinkUp, Shape, TypeOK, Interface
<1>2. iface' \in Interface
  BY <1>1, InterfaceFields DEF Interface
<1> DEFINE m == Link("newlink", iface.idx, TRUE)
<1>3. iface.idx # 0 /\ iface.idx \in Indices /\ iface.idx = iface.last
  BY InterfaceFields DEF LinkUp
<1>4. m \in Message /\ m.idx = iface.idx
  BY <1>3, MessageIsMade DEF Link
<1>5. Notify(<<m>>) /\ UNCHANGED trackerVars
  BY DEF LinkUp
<1> HIDE DEF m
<1>6. /\ iface'.up = TRUE /\ iface'.addrs = iface.addrs
      /\ iface'.idx = iface.idx /\ iface'.last = iface.last /\ iface'.last >= iface.last
  BY <1>1, InterfaceFields
<1>7. Posts(m)
  BY <1>2, <1>3, <1>4, <1>5, <1>6 DEF Posts
<1> QED
  BY <1>3, <1>6, <1>7 DEF m

\* The elements of a finite set in some order: all of them.
LEMMA OrderIsOnto ==
  ASSUME NEW S, IsFiniteSet(S), NEW f \in Ext!SetToSeqs(S)
  PROVE  /\ \E n \in Nat : f \in [1 .. n -> S]
         /\ \A x \in S : \E i \in DOMAIN f : f[i] = x
<1> DEFINE n == Cardinality(S)
<1>1. n \in Nat
  BY FS_CardinalityType
<1>2. f \in [1 .. n -> S] /\ \A i, j \in 1 .. n : i # j => f[i] # f[j]
  BY DEF Ext!SetToSeqs, Ext!Cardinality, Cardinality
<1> HIDE DEF n
<1>3. IsFiniteSet(1 .. n) /\ Cardinality(1 .. n) = n /\ DOMAIN f = 1 .. n
  BY <1>1, <1>2, FS_Interval
<1>4. \A x \in S : \E i \in 1 .. n : f[i] = x
  <2> SUFFICES ASSUME NEW x \in S, \A i \in 1 .. n : f[i] # x
               PROVE  FALSE
    OBVIOUS
  <2> DEFINE R == S \ {x}
             D == 1 .. n
  <2>1. IsFiniteSet(R) /\ Cardinality(R) = n - 1
    BY FS_RemoveElement DEF n
  <2>2. f \in [D -> R] /\ IsFiniteSet(D) /\ Cardinality(D) = n
    BY <1>2, <1>3
  <2> HIDE DEF R, D
  <2>3. \E i, j \in D : i # j /\ f[i] = f[j]
    BY <1>1, <2>1, <2>2, FS_PigeonHole
  <2> QED
    BY <1>2, <2>3 DEF D
<1> QED
  BY <1>1, <1>2, <1>3, <1>4

\* The notifications of a link that goes down: first that, then the routes and
\* the addresses that go.
LEMMA LinkDownPosts ==
  ASSUME Shape, NEW gone \in SUBSET Dests, LinkDown(gone)
  PROVE  /\ iface.idx # 0 /\ iface.up
         /\ iface' \in Interface
         /\ iface'.idx = iface.idx /\ iface'.last = iface.last /\ iface'.up = FALSE
         /\ UNCHANGED trackerVars
         /\ \E ms \in Seq(Message) :
              /\ Notify(ms)
              /\ 1 \in DOMAIN ms /\ ms[1] = Link("newlink", iface.idx, FALSE)
              /\ \A i \in DOMAIN ms : /\ ms[i].idx = iface.idx
                                      /\ i = 1 \/ ms[i].type \in {"delroute", "deladdr"}
                                      /\ ms[i].type = "deladdr" => ms[i].ip \notin iface'.addrs
                                      /\ ms[i].type = "deladdr" => isV6(ms[i].ip)
              /\ iface'.addrs \subseteq iface.addrs
              /\ \A ip \in iface.addrs \ iface'.addrs :
                   \E i \in DOMAIN ms : ms[i].type = "deladdr" /\ ms[i].ip = ip
              /\ \A x \in gone :
                   \E i \in DOMAIN ms : ms[i] = Route("delroute", iface.idx, TRUE, x)
<1>1. PICK lost \in {{}, V6Addrs} : \E ds \in Ext!SetToSeqs(gone), ips \in Ext!SetToSeqs(lost) :
         /\ iface' = [iface EXCEPT !.up = FALSE, !.addrs = @ \ lost]
         /\ Notify(<<Link("newlink", iface.idx, FALSE)>>
                   \o [i \in DOMAIN ds |-> Route("delroute", iface.idx, TRUE, ds[i])]
                   \o [i \in DOMAIN ips |-> Addr("deladdr", iface.idx, ips[i])])
  BY DEF LinkDown
<1>2. PICK ds \in Ext!SetToSeqs(gone), ips \in Ext!SetToSeqs(lost) :
         /\ iface' = [iface EXCEPT !.up = FALSE, !.addrs = @ \ lost]
         /\ Notify(<<Link("newlink", iface.idx, FALSE)>>
                   \o [i \in DOMAIN ds |-> Route("delroute", iface.idx, TRUE, ds[i])]
                   \o [i \in DOMAIN ips |-> Addr("deladdr", iface.idx, ips[i])])
  BY <1>1
<1> DEFINE a == Link("newlink", iface.idx, FALSE)
           r == [i \in DOMAIN ds |-> Route("delroute", iface.idx, TRUE, ds[i])]
           d == [i \in DOMAIN ips |-> Addr("deladdr", iface.idx, ips[i])]
<1>3. /\ iface.up /\ iface.idx # 0 /\ iface.idx \in Indices
      /\ lost \in SUBSET iface.addrs /\ (\A ip \in lost : isV6(ip)) /\ UNCHANGED trackerVars
  BY InterfaceFields DEF LinkDown, Shape, V6Addrs
<1>4. /\ iface' = [idx |-> iface.idx, last |-> iface.last, up |-> FALSE, addrs |-> iface.addrs \ lost]
      /\ iface' \in Interface
  <2>1. iface' = [idx |-> iface.idx, last |-> iface.last, up |-> FALSE, addrs |-> iface.addrs \ lost]
    BY <1>2, InterfaceFields DEF Shape, TypeOK, Interface
  <2> QED
    BY <2>1, InterfaceFields DEF Interface
<1>5. IsFiniteSet(gone) /\ IsFiniteSet(lost) /\ gone \subseteq Dests /\ lost \subseteq LocalIPs
  BY <1>3, InterfaceFields, TrackerAssumption, FS_Subset
<1>6. /\ \E n \in Nat : ds \in [1 .. n -> gone]
      /\ \E n \in Nat : ips \in [1 .. n -> lost]
      /\ \A x \in lost : \E i \in DOMAIN ips : ips[i] = x
      /\ \A x \in gone : \E i \in DOMAIN ds : ds[i] = x
  BY <1>5, OrderIsOnto
<1>7. /\ a \in Message /\ a.idx = iface.idx /\ a.type = "newlink"
      /\ r \in Seq(Message) /\ d \in Seq(Message)
      /\ \A i \in DOMAIN r : r[i].idx = iface.idx /\ r[i].type = "delroute"
      /\ DOMAIN d = DOMAIN ips /\ DOMAIN r = DOMAIN ds
      /\ \A i \in DOMAIN r : r[i] = Route("delroute", iface.idx, TRUE, ds[i])
      /\ \A i \in DOMAIN d : d[i].idx = iface.idx /\ d[i].type = "deladdr" /\ d[i].ip = ips[i]
  <2>1. \A x \in gone : Route("delroute", iface.idx, TRUE, x) \in Message
    BY <1>3, <1>5, MessageIsMade
  <2>2. \A x \in lost : Addr("deladdr", iface.idx, x) \in Message
    BY <1>3, <1>5, MessageIsMade
  <2>3. a \in Message
    BY <1>3, MessageIsMade
  <2>4. r \in Seq(Message)
    <3>1. PICK n \in Nat : ds \in [1 .. n -> gone]
      BY <1>6
    <3>2. DOMAIN ds = 1 .. n /\ \A i \in 1 .. n : ds[i] \in gone
      BY <3>1
    <3>3. r \in [1 .. n -> Message]
      <4>1. r = [i \in 1 .. n |-> Route("delroute", iface.idx, TRUE, ds[i])]
        BY <3>2
      <4>2. \A i \in 1 .. n : Route("delroute", iface.idx, TRUE, ds[i]) \in Message
        BY <2>1, <3>2
      <4> QED
        BY <4>1, <4>2
    <3> HIDE DEF r
    <3> QED
      BY <3>1, <3>3
  <2>5. d \in Seq(Message)
    <3>1. PICK n \in Nat : ips \in [1 .. n -> lost]
      BY <1>6
    <3>2. DOMAIN ips = 1 .. n /\ \A i \in 1 .. n : ips[i] \in lost
      BY <3>1
    <3>3. d \in [1 .. n -> Message]
      <4>1. d = [i \in 1 .. n |-> Addr("deladdr", iface.idx, ips[i])]
        BY <3>2
      <4>2. \A i \in 1 .. n : Addr("deladdr", iface.idx, ips[i]) \in Message
        BY <2>2, <3>2
      <4> QED
        BY <4>1, <4>2
    <3> HIDE DEF d
    <3> QED
      BY <3>1, <3>3
  <2> QED
    BY <2>3, <2>4, <2>5 DEF Link, Route, Addr
<1>8. Notify(<<a>> \o r \o d)
  BY <1>2
<1> HIDE DEF a, r, d
<1> DEFINE b  == <<a>> \o r
           ms == b \o d
<1>9. /\ b \in Seq(Message) /\ Len(b) = 1 + Len(r) /\ Len(r) \in Nat
      /\ b[1] = a /\ \A i \in DOMAIN b : i = 1 \/ (i - 1 \in DOMAIN r /\ b[i] = r[i - 1])
      /\ \A i \in DOMAIN r : i + 1 \in DOMAIN b /\ b[i + 1] = r[i]
  BY <1>7
<1> HIDE DEF b
<1>10. /\ ms \in Seq(Message) /\ 1 \in DOMAIN ms /\ ms[1] = a
       /\ \A i \in DOMAIN ms : \/ i \in DOMAIN b /\ ms[i] = b[i]
                               \/ i # 1 /\ i - Len(b) \in DOMAIN d /\ ms[i] = d[i - Len(b)]
       /\ \A i \in DOMAIN b : i \in DOMAIN ms /\ ms[i] = b[i]
       /\ \A i \in DOMAIN d : i + Len(b) \in DOMAIN ms /\ ms[i + Len(b)] = d[i]
  BY <1>7, <1>9
<1> HIDE DEF ms
<1>11. Notify(ms)
  BY <1>8 DEF b, ms
<1>12. \A i \in DOMAIN ms : /\ ms[i].idx = iface.idx
                            /\ i = 1 \/ ms[i].type \in {"delroute", "deladdr"}
                            /\ ms[i].type = "deladdr" => ms[i].ip \in lost
  <2> SUFFICES ASSUME NEW i \in DOMAIN ms
               PROVE  /\ ms[i].idx = iface.idx
                      /\ i = 1 \/ ms[i].type \in {"delroute", "deladdr"}
                      /\ ms[i].type = "deladdr" => ms[i].ip \in lost
    OBVIOUS
  <2>1. CASE i \in DOMAIN b /\ ms[i] = b[i]
    <3>1. CASE i = 1
      BY <1>7, <1>9, <2>1, <3>1
    <3>2. CASE i - 1 \in DOMAIN r /\ b[i] = r[i - 1]
      BY <1>7, <2>1, <3>2
    <3> QED
      BY <1>9, <2>1, <3>1, <3>2
  <2>2. CASE i - Len(b) \in DOMAIN d /\ ms[i] = d[i - Len(b)]
    <3> DEFINE j == i - Len(b)
    <3>1. j \in DOMAIN d /\ ms[i] = d[j] /\ d[j].type = "deladdr" /\ d[j].ip = ips[j] /\ j \in DOMAIN ips
      BY <1>7, <2>2
    <3>2. ips[j] \in lost
      BY <1>6, <3>1
    <3>3. ms[i].idx = iface.idx /\ ms[i].type = "deladdr" /\ ms[i].ip \in lost
      BY <1>7, <3>1, <3>2
    <3> QED
      BY <3>3
  <2> QED
    BY <1>10, <2>1, <2>2
<1>13. \A ip \in iface.addrs \ iface'.addrs :
         \E i \in DOMAIN ms : ms[i].type = "deladdr" /\ ms[i].ip = ip
  <2> SUFFICES ASSUME NEW ip \in lost
               PROVE  \E i \in DOMAIN ms : ms[i].type = "deladdr" /\ ms[i].ip = ip
    BY <1>4
  <2>1. PICK i \in DOMAIN d : d[i].type = "deladdr" /\ d[i].ip = ip
    BY <1>6, <1>7
  <2> QED
    BY <1>10, <2>1
<1>14. iface'.addrs = iface.addrs \ lost
  BY <1>4
<1>15. \A x \in gone : \E i \in DOMAIN ms : ms[i] = Route("delroute", iface.idx, TRUE, x)
  <2> SUFFICES ASSUME NEW x \in gone
               PROVE  \E i \in DOMAIN ms : ms[i] = Route("delroute", iface.idx, TRUE, x)
    OBVIOUS
  <2>1. PICK i \in DOMAIN ds : ds[i] = x
    BY <1>6
  <2>2. i \in DOMAIN r
    BY <1>7
  <2>3. r[i] = Route("delroute", iface.idx, TRUE, ds[i])
    BY <1>7, <2>2
  <2>4. i + 1 \in DOMAIN ms /\ ms[i + 1] = r[i]
    BY <1>9, <1>10, <2>2
  <2> QED
    BY <2>1, <2>3, <2>4
<1>16. \A i \in DOMAIN ms : ms[i].type = "deladdr" => isV6(ms[i].ip)
  BY <1>3, <1>12
<1> QED
  BY <1>3, <1>4, <1>10, <1>11, <1>12, <1>13, <1>14, <1>15, <1>16 DEF a

LEMMA AddrChangePosts ==
  ASSUME Shape, NEW ip \in LocalIPs, AddrAdd(ip) \/ AddrDel(ip)
  PROVE  /\ iface.idx # 0 /\ iface'.up = iface.up
         /\ iface'.idx = iface.idx /\ iface'.last = iface.last
         /\ \/ iface'.addrs = iface.addrs \cup {ip} /\ Posts(Addr("newaddr", iface.idx, ip))
            \/ iface'.addrs = iface.addrs \ {ip} /\ Posts(Addr("deladdr", iface.idx, ip))
<1>1. iface.idx # 0
  BY DEF AddrAdd, AddrDel, Shape
<1>2. CASE AddrAdd(ip)
  <2>1. iface' = [idx |-> iface.idx, last |-> iface.last, up |-> iface.up,
                  addrs |-> iface.addrs \cup {ip}]
    BY <1>2, InterfaceFields DEF AddrAdd, Shape, TypeOK, Interface
  <2>2. iface' \in Interface
    BY <2>1, InterfaceFields DEF Interface
  <2> QED
    BY <1>1, <1>2, <2>1, <2>2, InterfaceFields, MessageIsMade DEF AddrAdd, Posts, Addr
<1>3. CASE AddrDel(ip)
  <2>1. iface' = [idx |-> iface.idx, last |-> iface.last, up |-> iface.up,
                  addrs |-> iface.addrs \ {ip}]
    BY <1>3, InterfaceFields DEF AddrDel, Shape, TypeOK, Interface
  <2>2. iface' \in Interface
    BY <2>1, InterfaceFields DEF Interface
  <2> QED
    BY <1>1, <1>3, <2>1, <2>2, InterfaceFields, MessageIsMade DEF AddrDel, Posts, Addr
<1> QED
  BY <1>2, <1>3

LEMMA LinkCreatePosts ==
  ASSUME Shape, LinkCreate
  PROVE  /\ Posts(Link("newlink", iface.last + 1, FALSE)) /\ iface.idx = 0
         /\ iface'.up = FALSE /\ iface'.addrs = {}
         /\ iface'.idx = iface.last + 1 /\ iface'.last = iface.last + 1
<1>1. iface' = [idx |-> iface.last + 1, last |-> iface.last + 1, up |-> FALSE, addrs |-> {}]
  BY InterfaceFields DEF LinkCreate, Shape, TypeOK, Interface
<1>2. iface.last + 1 \in 0 .. MaxIdx /\ iface.last + 1 \in Indices /\ iface.idx = 0
  BY InterfaceFields DEF LinkCreate, Indices
<1>3. iface' \in Interface
  BY <1>1, <1>2 DEF Interface
<1>4. /\ iface'.up = FALSE /\ iface'.addrs = {}
      /\ iface'.idx = iface.last + 1 /\ iface'.last = iface.last + 1 /\ iface'.last >= iface.last
  BY <1>1, InterfaceFields
<1> DEFINE m == Link("newlink", iface.last + 1, FALSE)
<1>5. m \in Message /\ m.idx = iface.last + 1
  BY <1>2, MessageIsMade DEF Link
<1>6. Notify(<<m>>) /\ UNCHANGED trackerVars
  BY DEF LinkCreate
<1> HIDE DEF m
<1>7. Posts(m)
  BY <1>3, <1>4, <1>5, <1>6 DEF Posts
<1> QED
  BY <1>2, <1>4, <1>7 DEF m

LEMMA RouteChangePosts ==
  ASSUME Shape, NEW type \in {"newroute", "delroute"}, NEW ours \in BOOLEAN, NEW d \in Dests,
         RouteChange(type, ours, d)
  PROVE  /\ Posts(Route(type, iface.idx, ours, d)) /\ iface.idx # 0
         /\ UNCHANGED iface
BY InterfaceFields, MessageIsMade DEF RouteChange, Posts, Route, Shape, TypeOK

\* The notifications of a removal are all about an interface that is gone.
LEMMA LinkDeletePosts ==
  ASSUME Shape, LinkDelete
  PROVE  /\ queue' \in Seq(Message) /\ Len(queue') <= QueueMax /\ overrun' \in BOOLEAN
         /\ \A i \in DOMAIN queue' : queue'[i].idx <= iface.last
         /\ tracker = "start" => queue' = queue
         /\ iface' \in Interface
         /\ iface'.idx = 0 /\ iface'.last = iface.last /\ iface'.addrs = {} /\ ~iface'.up
         /\ iface.last # 0
         /\ UNCHANGED trackerVars
<1>1. iface' = [idx |-> 0, last |-> iface.last, up |-> FALSE, addrs |-> {}]
  BY InterfaceFields DEF LinkDelete, Shape, TypeOK, Interface
<1>2. iface' \in Interface
  BY <1>1, InterfaceFields DEF Interface
<1>3. iface.idx \in Indices /\ iface.idx = iface.last
  BY InterfaceFields DEF LinkDelete
<1>4. PICK order \in Ext!SetToSeqs(iface.addrs) :
        Notify(Append([i \in DOMAIN order |-> Addr("deladdr", iface.idx, order[i])],
                      Link("dellink", iface.idx, FALSE)))
  BY DEF LinkDelete
<1> DEFINE n == Cardinality(iface.addrs)
           ms == [i \in DOMAIN order |-> Addr("deladdr", iface.idx, order[i])]
           all == Append(ms, Link("dellink", iface.idx, FALSE))
<1>5. n \in Nat
  BY InterfaceFields, TrackerAssumption, FS_Subset, FS_CardinalityType
<1>6. order \in [1 .. n -> iface.addrs]
  BY <1>4 DEF Ext!SetToSeqs, Ext!Cardinality, Cardinality
<1>7. ms \in Seq(Message) /\ \A i \in DOMAIN ms : ms[i].idx = iface.idx
  <2>1. \A i \in 1 .. n : Addr("deladdr", iface.idx, order[i]) \in Message
    BY <1>3, <1>6, InterfaceFields, MessageIsMade
  <2>2. DOMAIN order = 1 .. n
    BY <1>6
  <2> QED
    BY <1>5, <2>1, <2>2 DEF Addr
<1> HIDE DEF ms
<1>8. Link("dellink", iface.idx, FALSE) \in Message /\ Link("dellink", iface.idx, FALSE).idx = iface.idx
  BY <1>3, MessageIsMade DEF Link
<1>9. all \in Seq(Message) /\ \A i \in DOMAIN all : all[i].idx = iface.idx
  <2> DEFINE m == Link("dellink", iface.idx, FALSE)
  <2> HIDE DEF m
  <2>1. m \in Message /\ m.idx = iface.idx
    BY <1>8 DEF m
  <2>2. Append(ms, m) \in Seq(Message) /\ DOMAIN Append(ms, m) = 1 .. Len(ms) + 1
    BY <1>7, <2>1
  <2>3. \A i \in DOMAIN Append(ms, m) :
          Append(ms, m)[i] = IF i <= Len(ms) THEN ms[i] ELSE m
    BY <1>7, <2>1, <2>2
  <2>4. \A i \in DOMAIN Append(ms, m) : i <= Len(ms) => i \in DOMAIN ms
    BY <1>7, <2>2
  <2> QED
    BY <1>7, <2>1, <2>2, <2>3, <2>4 DEF m
<1>10. Notify(all)
  BY <1>4 DEF ms
<1> HIDE DEF all
<1>11. queue \in Seq(Message) /\ \A i \in DOMAIN queue : queue[i].idx <= iface.last
  BY DEF Shape
<1>12. \A i \in DOMAIN (queue \o all) : (queue \o all)[i].idx <= iface.last
  BY <1>3, <1>9, <1>11, InterfaceFields
<1>13. /\ queue' \in Seq(Message) /\ Len(queue') <= QueueMax /\ overrun' \in BOOLEAN
       /\ queue' = queue \/ queue' = queue \o all
       /\ tracker = "start" => queue' = queue
  BY <1>9, <1>10, NotifyAppends
<1>14. \A i \in DOMAIN queue' : queue'[i].idx <= iface.last
  BY <1>11, <1>12, <1>13
<1> QED
  BY <1>1, <1>2, <1>3, <1>13, <1>14 DEF LinkDelete, Indices

-----------------------------------------------------------------------------
(***************************************************************************)
(* Shape is inductive.                                                     *)
(***************************************************************************)
\* A step of the kernel: all the tracker's variables stay, and nothing newer than
\* the interface is queued.
LEMMA ShapeAfterKernel ==
  ASSUME Shape, UNCHANGED trackerVars,
         queue' \in Seq(Message), Len(queue') <= QueueMax, overrun' \in BOOLEAN,
         \A i \in DOMAIN queue' : queue'[i].idx <= iface'.last,
         tracker = "start" => queue' = queue,
         iface' \in Interface, iface'.idx \in {0, iface'.last},
         iface'.idx = 0 => ~iface'.up /\ iface'.addrs = {}
  PROVE  Shape'
BY DEF Shape, TypeOK, trackerVars

LEMMA ShapeAfterPost ==
  ASSUME Shape, NEW m, Posts(m), iface'.idx # 0
  PROVE  Shape'
<1>1. m \in Message /\ Notify(<<m>>)
  BY DEF Posts
<1>2. /\ queue' \in Seq(Message) /\ Len(queue') <= QueueMax /\ overrun' \in BOOLEAN
      /\ \A i \in DOMAIN queue' : (i \in DOMAIN queue /\ queue'[i] = queue[i]) \/ queue'[i] = m
      /\ tracker = "start" => queue' = queue
  BY <1>1, NotifyOne
<1>3. iface.last \in Nat /\ iface'.last \in Nat /\ iface'.last >= iface.last
  BY InterfaceFields DEF Posts, Interface
<1>4. \A i \in DOMAIN queue : queue[i].idx <= iface.last /\ queue[i].idx \in Nat
  BY MessageFields DEF Shape, Indices
<1>5. m.idx = iface'.last
  BY DEF Posts
<1>6. \A i \in DOMAIN queue' : queue'[i].idx <= iface'.last
  BY <1>2, <1>3, <1>4, <1>5
<1> QED
  BY <1>2, <1>6, ShapeAfterKernel DEF Posts

LEMMA ShapeAfterDown ==
  ASSUME Shape, NEW gone \in SUBSET Dests, LinkDown(gone)
  PROVE  Shape'
<1>1. PICK ms \in Seq(Message) : Notify(ms) /\ \A i \in DOMAIN ms : ms[i].idx = iface.idx
  BY LinkDownPosts
<1>2. /\ queue' \in Seq(Message) /\ Len(queue') <= QueueMax /\ overrun' \in BOOLEAN
      /\ queue' = queue \/ queue' = queue \o ms
      /\ tracker = "start" => queue' = queue
  BY <1>1, NotifyAppends
<1>3. queue \in Seq(Message) /\ \A i \in DOMAIN queue : queue[i].idx <= iface.last
  BY DEF Shape
<1>4. /\ iface' \in Interface /\ iface'.idx = iface.idx /\ iface'.last = iface.last
      /\ iface.idx # 0 /\ UNCHANGED trackerVars
  BY LinkDownPosts
<1>5. iface.idx \in Nat /\ iface.last = iface.idx
  BY <1>4, InterfaceFields
<1>6. \A i \in DOMAIN (queue \o ms) : (queue \o ms)[i].idx <= iface.last
  BY <1>1, <1>3, <1>5
<1>7. \A i \in DOMAIN queue' : queue'[i].idx <= iface'.last
  BY <1>2, <1>3, <1>4, <1>6
<1> QED
  BY <1>2, <1>4, <1>5, <1>7, ShapeAfterKernel

LEMMA ShapeKernelStep ==
  ASSUME Shape, KernelStep
  PROVE  Shape'
<1>1. CASE LinkUp
  BY <1>1, LinkUpPosts, ShapeAfterPost
<1>6. ASSUME NEW gone \in SUBSET {d \in Dests : isV6(d)}, LinkDown(gone) PROVE Shape'
  BY <1>6, ShapeAfterDown
<1>2. ASSUME NEW ip \in LocalIPs, AddrAdd(ip) \/ AddrDel(ip) PROVE Shape'
  BY <1>2, AddrChangePosts, ShapeAfterPost
<1>3. CASE LinkDelete
  BY <1>3, LinkDeletePosts, ShapeAfterKernel
<1>4. CASE LinkCreate
  <2>1. iface'.idx # 0
    BY <1>4, LinkCreatePosts, InterfaceFields
  <2> QED
    BY <1>4, <2>1, LinkCreatePosts, ShapeAfterPost
<1>5. ASSUME NEW type \in {"newroute", "delroute"}, NEW ours \in BOOLEAN, NEW d \in Dests,
             RouteChange(type, ours, d)
      PROVE  Shape'
  BY <1>5, RouteChangePosts, ShapeAfterPost
<1> QED
  BY <1>1, <1>2, <1>3, <1>4, <1>5, <1>6 DEF KernelStep

LEMMA TakeShortens ==
  ASSUME Shape, queue # <<>>, Take
  PROVE  /\ Head(queue) \in Message /\ queue[1] = Head(queue) /\ 1 \in DOMAIN queue
         /\ queue' \in Seq(Message) /\ Len(queue') <= QueueMax
         /\ Len(queue') = Len(queue) - 1 /\ Len(queue) \in Nat
         /\ \A i \in DOMAIN queue' : i + 1 \in DOMAIN queue /\ queue'[i] = queue[i + 1]
BY TrackerAssumption DEF Shape, TypeOK, Take

\* The configuration after a notification, and what is sent on.
LEMMA ReceiveChanges ==
  ASSUME Shape, Receive
  PROVE  /\ cfg' \in KnownConfig
         /\ tracker' \in {"head", "deliver"}
         /\ tracker' = "head" => cfg' = cfg /\ out' = out
         /\ tracker' = "deliver" => \/ out' = [type |-> "netdev", config |-> cfg']
                                    \/ /\ out' \in [type : {"added", "removed"}, dest : Dests]
                                       /\ cfg' = cfg
         /\ out' \in OutMessages
         /\ LET m == Head(queue)
            IN  /\ m.type \in {"newlink", "dellink"} /\ m.idx = iface.idx => cfg' = LinkConfig(cfg, m)
                /\ m.type \in {"newaddr", "deladdr"} /\ m.idx = iface.idx => cfg' = AddrConfig(cfg, m)
                /\ m.type \notin {"newlink", "dellink", "newaddr", "deladdr"} \/ m.idx # iface.idx
                     => cfg' = cfg
<1> DEFINE m == Head(queue)
<1>1. m \in Message /\ m.idx # 0
  BY TakeShortens, MessageFields DEF Receive, Indices
<1>2. cfg \in KnownConfig /\ out \in OutMessages
  BY DEF Shape, TypeOK
<1>3. NameMatches(m.idx) <=> m.idx = iface.idx
  BY <1>1 DEF NameMatches
<1>4. CASE m.idx = iface.idx /\ m.type \in {"newlink", "dellink"}
  <2>1. cfg' = LinkConfig(cfg, m) /\ Send([type |-> "netdev", config |-> cfg'])
    BY <1>3, <1>4 DEF Receive
  <2>2. cfg' \in KnownConfig
    BY <1>1, <1>2, <1>4, <2>1, LinkConfigIs
  <2> QED
    BY <1>4, <2>1, <2>2 DEF Send, OutMessages
<1>5. CASE m.idx = iface.idx /\ m.type \in {"newaddr", "deladdr"}
  <2>1. cfg' = AddrConfig(cfg, m) /\ Send([type |-> "netdev", config |-> cfg'])
    BY <1>3, <1>5 DEF Receive
  <2>2. cfg' \in KnownConfig
    BY <1>1, <1>2, <1>5, <2>1, AddrConfigIs
  <2> QED
    BY <1>5, <2>1, <2>2 DEF Send, OutMessages
<1>6. CASE m.idx = iface.idx /\ m.type \in {"newroute", "delroute"} /\ m.ours
  <2>1. cfg' = cfg /\ Send([type |-> IF m.type = "newroute" THEN "added" ELSE "removed",
                            dest |-> m.dest])
    BY <1>3, <1>6 DEF Receive
  <2>2. m.dest \in Dests
    BY <1>1, <1>6, MessageFields
  <2>3. out' \in [type : {"added", "removed"}, dest : Dests]
    BY <2>1, <2>2 DEF Send
  <2> QED
    BY <1>2, <1>6, <2>1, <2>3 DEF Send, OutMessages
<1>7. CASE m.idx # iface.idx \/ (m.type \in {"newroute", "delroute"} /\ ~m.ours)
  <2>1. tracker' = "head" /\ cfg' = cfg /\ out' = out
    BY <1>3, <1>7 DEF Receive
  <2> QED
    BY <1>2, <1>7, <2>1
<1> QED
  BY <1>1, <1>4, <1>5, <1>6, <1>7, MessageFields

LEMMA ShapeReceive ==
  ASSUME Shape, Receive
  PROVE  Shape'
<1>1. /\ queue # <<>> /\ Take /\ tracker = "select"
      /\ UNCHANGED <<seen, published, shutdownRequested, reported, iface, overrun>>
  BY DEF Receive
<1>2. /\ queue' \in Seq(Message) /\ Len(queue') <= QueueMax
      /\ \A i \in DOMAIN queue' : queue'[i].idx <= iface'.last
  BY <1>1, TakeShortens DEF Shape
<1>3. /\ cfg' \in KnownConfig /\ out' \in OutMessages /\ tracker' \in {"head", "deliver"}
      /\ tracker' = "head" => cfg' = cfg
      /\ tracker' = "deliver" => IF out'.type = "netdev" THEN out'.config = cfg' ELSE cfg' = cfg
  BY ReceiveChanges
<1> QED
  BY <1>1, <1>2, <1>3 DEF Shape, TypeOK

LEMMA ShapeDumpAddrs ==
  ASSUME Shape, DumpAddrs
  PROVE  /\ Shape'
         /\ \/ tracker' = "links" /\ cfg' = cfg
            \/ tracker' = "deliver" /\ cfg' = InitialConfig(iface.addrs, seen.up)
<1>1. /\ tracker = "addrs" /\ seen' = NothingSeen
      /\ UNCHANGED <<published, shutdownRequested, reported, iface, queue, overrun>>
  BY DEF DumpAddrs, kernelVars
<1>2. seen' \in [idx : 0 .. MaxIdx, up : BOOLEAN]
  BY <1>1, TrackerAssumption DEF NothingSeen
<1>3. CASE iface.addrs # {} /\ iface.idx # seen.idx
  BY <1>1, <1>2, <1>3 DEF DumpAddrs, Shape, TypeOK
<1>4. CASE ~(iface.addrs # {} /\ iface.idx # seen.idx)
  <2>1. /\ cfg' = InitialConfig(iface.addrs, seen.up) /\ tracker' = "deliver"
        /\ out' = [type |-> "netdev", config |-> cfg']
    BY <1>4 DEF DumpAddrs
  <2>2. seen.up \in BOOLEAN /\ iface.addrs \in SUBSET LocalIPs
    BY InterfaceFields DEF Shape, TypeOK
  <2>3. cfg' \in KnownConfig
    BY <2>1, <2>2, InitialConfigIs
  <2>4. out' \in OutMessages
    BY <2>1, <2>3 DEF OutMessages
  <2> QED
    BY <1>1, <1>2, <2>1, <2>3, <2>4 DEF Shape, TypeOK
<1> QED
  BY <1>3, <1>4

LEMMA ShapeDeliver ==
  ASSUME Shape, Deliver
  PROVE  Shape'
<1>1. Handle => published' = cfg
  BY DEF Shape, Handle
<1>2. NoMessage \in OutMessages
  BY DEF OutMessages
<1>3. CASE Handle
  BY <1>1, <1>2, <1>3 DEF Shape, TypeOK, Handle, kernelVars
<1>4. CASE HandlerReturns
  BY <1>4 DEF Shape, TypeOK, HandlerReturns, kernelVars
<1>5. CASE Drop
  BY <1>2, <1>5 DEF Shape, TypeOK, Drop, kernelVars
<1> QED
  BY <1>3, <1>4, <1>5 DEF Deliver

LEMMA ShapeStep == Shape /\ [Next]_vars => Shape'
<1> SUFFICES ASSUME Shape, [Next]_vars PROVE Shape'
  OBVIOUS
<1>1. CASE UNCHANGED vars \/ Finished
  BY <1>1 DEF Finished, vars, Shape, TypeOK
<1>2. CASE OpenSocket \/ LoopHead \/ SelectTimeout
  BY <1>2 DEF OpenSocket, LoopHead, SelectTimeout, kernelVars, Shape, TypeOK
<1>3. CASE Stop \/ CloseFails \/ ReceiveFails \/ StartFails
  BY <1>3 DEF Stop, CloseFails, ReceiveFails, StartFails, HandleError, kernelVars, Shape, TypeOK
<1>4. CASE OnShutdown
  BY <1>4 DEF OnShutdown, kernelVars, Shape, TypeOK
<1>5. CASE DumpLinks
  <2>1. seen' \in [idx : 0 .. MaxIdx, up : BOOLEAN]
    BY <1>5, InterfaceFields DEF DumpLinks
  <2> QED
    BY <1>5, <2>1 DEF DumpLinks, kernelVars, Shape, TypeOK
<1> QED
  BY <1>1, <1>2, <1>3, <1>4, <1>5, ShapeKernelStep, ShapeReceive, ShapeDumpAddrs, ShapeDeliver
     DEF Next, TrackerStep, Run

-----------------------------------------------------------------------------
(***************************************************************************)
(* The type of the interface.                                              *)
(***************************************************************************)
LEMMA TypeKnownStep ==
  ASSUME Shape, TypeKnownWhenUp, [Next]_vars
  PROVE  TypeKnownWhenUp'
<1>1. CASE cfg' = cfg
  BY <1>1 DEF TypeKnownWhenUp
<1>2. CASE DumpAddrs
  <2>1. seen.up \in BOOLEAN /\ iface.addrs \in SUBSET LocalIPs
    BY InterfaceFields DEF Shape, TypeOK
  <2> QED
    BY <1>1, <1>2, <2>1, ShapeDumpAddrs, InitialConfigIs DEF TypeKnownWhenUp
<1>3. CASE Receive
  <2> DEFINE m == Head(queue)
  <2>1. m \in Message /\ cfg \in KnownConfig
    BY <1>3, TakeShortens DEF Receive, Shape, TypeOK
  <2>2. CASE m.type \in {"newlink", "dellink"} /\ m.idx = iface.idx
    BY <1>3, <2>1, <2>2, ReceiveChanges, LinkConfigIs DEF TypeKnownWhenUp
  <2>3. CASE m.type \in {"newaddr", "deladdr"} /\ m.idx = iface.idx
    BY <1>3, <2>1, <2>3, ReceiveChanges, AddrConfigIs DEF TypeKnownWhenUp
  <2> QED
    BY <1>1, <1>3, <2>2, <2>3, ReceiveChanges
<1>4. DumpAddrs \/ Receive \/ cfg' = cfg
  BY DEF Next, KernelStep, TrackerStep, Run, LinkUp, LinkDown, AddrAdd, AddrDel, LinkDelete, LinkCreate,
         RouteChange, OpenSocket, DumpLinks, LoopHead, SelectTimeout, Stop, StartFails, CloseFails,
         ReceiveFails, HandleError, Deliver, Handle, HandlerReturns, Drop, OnShutdown, Finished,
         trackerVars, vars
<1> QED
  BY <1>1, <1>2, <1>3, <1>4

-----------------------------------------------------------------------------
(***************************************************************************)
(* The queue agrees with the interface.                                    *)
(***************************************************************************)
\* A notification is queued about the interface that was there before.
LEMMA PostedIs ==
  ASSUME Shape, NEW m, Posts(m), Listening'
  PROVE  /\ Listening
         /\ DOMAIN queue = 1 .. Len(queue) /\ DOMAIN queue' = 1 .. Len(queue) + 1
         /\ Len(queue) \in Nat
         /\ queue'[Len(queue) + 1] = m
         /\ \A i \in DOMAIN queue : queue'[i] = queue[i]
         /\ tracker' = tracker /\ seen' = seen /\ cfg' = cfg
<1>1. Subscribed /\ m \in Message /\ Notify(<<m>>) /\ UNCHANGED trackerVars
  BY DEF Listening, Subscribed, Posts, trackerVars
<1>2. /\ queue' \in Seq(Message) /\ ~overrun
      /\ Len(queue') = Len(queue) + 1 /\ queue'[Len(queue) + 1] = m
      /\ \A i \in DOMAIN queue : queue'[i] = queue[i]
  BY <1>1, NotifyOne DEF Listening
<1>3. queue \in Seq(Message)
  BY DEF Shape
<1> QED
  BY <1>1, <1>2, <1>3 DEF Listening, trackerVars

LEMMA LinkAgreesAfterPost ==
  ASSUME Shape, Agrees, NEW m, Posts(m), Listening',
         iface'.idx = iface.idx, iface'.last = iface.last,
         \/ m.type = "newlink" /\ m.up = iface'.up
         \/ m.type \notin {"newlink", "dellink"} /\ iface'.up = iface.up
  PROVE  LinkAgrees'
<1> DEFINE n == Len(queue) + 1
<1>1. LinkAgrees
  BY PostedIs DEF Agrees
<1>2. NeverDeleted' = NeverDeleted /\ m.idx = iface'.idx
  BY DEF NeverDeleted, Posts
<1>3. LinkMessages' = IF m.type = "newlink" THEN LinkMessages \cup {n} ELSE LinkMessages
  BY <1>2, PostedIs DEF LinkMessages, AboutLink
<1>4. \A i \in LinkMessages : i \in Nat /\ i < n /\ queue'[i] = queue[i] /\ i \in DOMAIN queue
  BY PostedIs DEF LinkMessages
<1>5. queue'[n] = m /\ n \in Nat
  BY PostedIs
<1> HIDE DEF n
<1>6. CASE m.type = "newlink"
  <2>1. LinkMessages' = LinkMessages \cup {n} /\ m.up = iface'.up
    BY <1>3, <1>6
  <2>2. \A i \in LinkMessages' : queue'[i].type = "newlink"
    BY <1>1, <1>4, <1>5, <1>6, <2>1 DEF LinkAgrees
  <2>3. \A i : IsLast(i, LinkMessages') => i = n
    BY <1>4, <1>5, <2>1 DEF IsLast
  <2> QED
    BY <1>5, <2>1, <2>2, <2>3 DEF LinkAgrees
<1>7. CASE m.type # "newlink"
  <2>1. LinkMessages' = LinkMessages /\ iface'.up = iface.up
    BY <1>3, <1>7
  <2>2. \A i : IsLast(i, LinkMessages) => i \in DOMAIN queue /\ queue'[i] = queue[i]
    BY <1>4 DEF IsLast
  <2>3. \A i \in LinkMessages' : queue'[i].type = "newlink"
    BY <1>1, <1>4, <2>1 DEF LinkAgrees
  <2>4. \A i : IsLast(i, LinkMessages') => queue'[i].up = iface'.up
    BY <1>1, <2>1, <2>2 DEF LinkAgrees
  <2> QED
    BY <1>1, <1>2, <2>1, <2>3, <2>4, PostedIs DEF LinkAgrees
<1> QED
  BY <1>6, <1>7

LEMMA AddrAgreesAfterPost ==
  ASSUME Shape, Agrees, NEW m, Posts(m), Listening', NEW ip \in LocalIPs,
         iface'.idx = iface.idx, iface'.last = iface.last,
         \/ m.type = "newaddr" /\ m.ip = ip /\ ip \in iface'.addrs
         \/ m.type = "deladdr" /\ m.ip = ip /\ ip \notin iface'.addrs
         \/ /\ m.type \in {"newaddr", "deladdr"} => m.ip # ip
            /\ ip \in iface'.addrs <=> ip \in iface.addrs
  PROVE  AddrAgrees(ip)'
<1> DEFINE n == Len(queue) + 1
           about == m.type \in {"newaddr", "deladdr"} /\ m.ip = ip
<1>1. AddrAgrees(ip)
  BY PostedIs DEF Agrees
<1>2. NeverDeleted' = NeverDeleted /\ m.idx = iface'.idx
  BY DEF NeverDeleted, Posts
<1>3. AddrMessages(ip)' = IF about THEN AddrMessages(ip) \cup {n} ELSE AddrMessages(ip)
  BY <1>2, PostedIs DEF AddrMessages, AboutAddr
<1>4. \A i \in AddrMessages(ip) : i \in Nat /\ i < n /\ queue'[i] = queue[i] /\ i \in DOMAIN queue
  BY PostedIs DEF AddrMessages
<1>5. queue'[n] = m /\ n \in Nat
  BY PostedIs
<1> HIDE DEF n
<1>6. CASE about
  <2>1. AddrMessages(ip)' = AddrMessages(ip) \cup {n}
    BY <1>3, <1>6
  <2>2. \A i : IsLast(i, AddrMessages(ip)') => i = n
    BY <1>4, <1>5, <2>1 DEF IsLast
  <2>3. /\ ip \in iface'.addrs => m.type = "newaddr"
        /\ ip \notin iface'.addrs => m.type = "deladdr"
    BY <1>6
  <2> QED
    BY <1>5, <2>1, <2>2, <2>3 DEF AddrAgrees
<1>7. CASE ~about
  <2>1. AddrMessages(ip)' = AddrMessages(ip) /\ (ip \in iface'.addrs <=> ip \in iface.addrs)
    BY <1>3, <1>7
  <2>2. \A i : IsLast(i, AddrMessages(ip)) => i \in DOMAIN queue /\ queue'[i] = queue[i]
    BY <1>4 DEF IsLast
  <2>3. \A i : IsLast(i, AddrMessages(ip)') =>
          /\ ip \in iface'.addrs => queue'[i].type = "newaddr"
          /\ NeverDeleted' /\ ip \notin iface'.addrs => queue'[i].type = "deladdr"
    BY <1>1, <1>2, <2>1, <2>2 DEF AddrAgrees
  <2> QED
    BY <1>1, <1>2, <2>1, <2>3, PostedIs DEF AddrAgrees
<1> QED
  BY <1>6, <1>7

\* Nothing that is queued is about an interface that is just created.
LEMMA AgreesAfterCreate ==
  ASSUME Shape, Agrees, LinkCreate, Listening'
  PROVE  LinkAgrees' /\ \A ip \in LocalIPs : AddrAgrees(ip)'
<1> DEFINE m == Link("newlink", iface.last + 1, FALSE)
           n == Len(queue) + 1
<1>1. /\ Posts(m) /\ iface.idx = 0 /\ iface'.up = FALSE /\ iface'.addrs = {}
      /\ iface'.idx = iface.last + 1 /\ iface'.last = iface.last + 1
  BY LinkCreatePosts
<1>2. m.type = "newlink" /\ m.idx = iface'.idx /\ m.up = iface'.up
  BY <1>1 DEF Link
<1> HIDE DEF m
<1>3. \A i \in DOMAIN queue : queue[i].idx \in Nat /\ queue[i].idx >= 1 /\ queue[i].idx <= iface.last
  BY MessageFields DEF Shape, Indices
<1>4. iface.last \in Nat
  BY InterfaceFields
<1>5. \A i \in DOMAIN queue : queue'[i].idx # iface'.idx
  BY <1>1, <1>3, <1>4, PostedIs
<1>6. LinkMessages' = {n} /\ queue'[n] = m
  BY <1>1, <1>2, <1>5, PostedIs DEF LinkMessages, AboutLink
<1>7. \A ip \in LocalIPs : AddrMessages(ip)' = {}
  BY <1>1, <1>2, <1>5, PostedIs DEF AddrMessages, AboutAddr
<1>8. NeverDeleted' => NeverDeleted /\ DOMAIN queue = {}
  <2>1. NeverDeleted' => iface.last = 0
    BY <1>1, <1>4 DEF NeverDeleted
  <2>2. iface.last = 0 => NeverDeleted /\ \A i \in DOMAIN queue : FALSE
    BY <1>1, <1>3 DEF NeverDeleted
  <2>3. (\A i \in DOMAIN queue : FALSE) => DOMAIN queue = {}
    OBVIOUS
  <2> QED
    BY <2>1, <2>2, <2>3
<1>9. LinkAgrees'
  BY <1>2, <1>6 DEF LinkAgrees, IsLast
<1>10. ASSUME NEW ip \in LocalIPs PROVE AddrAgrees(ip)'
  <2>1. AddrAgrees(ip) /\ cfg' = cfg /\ tracker' = tracker
    BY <1>1, PostedIs DEF Agrees
  <2>2. ip \notin iface.addrs
    BY <1>1 DEF Shape
  <2>3. NeverDeleted' => AddrMessages(ip) = {}
    BY <1>8 DEF AddrMessages
  <2>4. NeverDeleted' /\ tracker' \notin {"links", "addrs"} => ip \notin cfg'.localIPs
    BY <1>8, <2>1, <2>2, <2>3 DEF AddrAgrees
  <2> QED
    BY <1>1, <1>7, <2>4 DEF AddrAgrees, IsLast
<1> QED
  BY <1>9, <1>10

\* And nothing about one that is removed.
LEMMA AgreesAfterDelete ==
  ASSUME Shape, LinkDelete
  PROVE  LinkAgrees' /\ \A ip \in LocalIPs : AddrAgrees(ip)'
<1>1. /\ queue' \in Seq(Message) /\ iface'.idx = 0 /\ iface'.addrs = {}
      /\ iface'.idx # iface'.last
  BY LinkDeletePosts
<1>2. \A i \in DOMAIN queue' : queue'[i].idx # iface'.idx
  BY <1>1, MessageFields DEF Indices
<1>3. LinkMessages' = {} /\ \A ip \in LocalIPs : AddrMessages(ip)' = {}
  BY <1>2 DEF LinkMessages, AboutLink, AddrMessages, AboutAddr
<1>4. ~NeverDeleted'
  BY <1>1 DEF NeverDeleted
<1> QED
  BY <1>1, <1>3, <1>4 DEF LinkAgrees, AddrAgrees, IsLast

\* A link that goes down takes addresses with it, and says so.
LEMMA AgreesAfterDown ==
  ASSUME Shape, Agrees, NEW gone \in SUBSET Dests, LinkDown(gone), Listening'
  PROVE  LinkAgrees' /\ \A ip \in LocalIPs : AddrAgrees(ip)'
<1> DEFINE n == Len(queue)
<1>1. PICK ms \in Seq(Message) :
        /\ Notify(ms)
        /\ 1 \in DOMAIN ms /\ ms[1] = Link("newlink", iface.idx, FALSE)
        /\ \A i \in DOMAIN ms : /\ ms[i].idx = iface.idx
                                /\ i = 1 \/ ms[i].type \in {"delroute", "deladdr"}
                                /\ ms[i].type = "deladdr" => ms[i].ip \notin iface'.addrs
        /\ iface'.addrs \subseteq iface.addrs
        /\ \A ip \in iface.addrs \ iface'.addrs :
             \E i \in DOMAIN ms : ms[i].type = "deladdr" /\ ms[i].ip = ip
  BY LinkDownPosts
<1>2. /\ iface'.idx = iface.idx /\ iface'.last = iface.last /\ iface'.up = FALSE
      /\ UNCHANGED <<tracker, seen, cfg>> /\ UNCHANGED trackerVars
  BY LinkDownPosts DEF trackerVars
<1>3. Listening /\ queue' = queue \o ms
  BY <1>1, <1>2, NotifyAppends DEF Listening, Subscribed
<1>4. /\ LinkAgrees /\ \A ip \in LocalIPs : AddrAgrees(ip)
      /\ NeverDeleted' = NeverDeleted
  BY <1>2, <1>3 DEF Agrees, NeverDeleted
<1>5. queue \in Seq(Message) /\ n \in Nat
  BY DEF Shape
<1>6. /\ \A i \in DOMAIN queue : i \in DOMAIN queue' /\ queue'[i] = queue[i] /\ i <= n /\ i \in Nat
      /\ \A i \in DOMAIN ms : n + i \in DOMAIN queue' /\ queue'[n + i] = ms[i] /\ i \in Nat
      /\ \A i \in DOMAIN queue' :
           /\ i \in Nat
           /\ i \in DOMAIN queue \/ (i - n \in DOMAIN ms /\ i > n /\ queue'[i] = ms[i - n])
  BY <1>1, <1>3, <1>5
<1>7. ms[1].type = "newlink" /\ ms[1].up = FALSE
  BY <1>1 DEF Link
<1> HIDE DEF n
<1>8. LinkAgrees'
  <2>1. LinkMessages' = LinkMessages \cup {n + 1}
    <3>1. n + 1 \in LinkMessages'
      BY <1>1, <1>2, <1>6, <1>7 DEF LinkMessages, AboutLink
    <3>2. \A i \in LinkMessages : i \in LinkMessages'
      BY <1>2, <1>6 DEF LinkMessages, AboutLink
    <3>3. ASSUME NEW i \in LinkMessages' PROVE i \in LinkMessages \/ i = n + 1
      <4>1. i \in DOMAIN queue' /\ queue'[i].type \in {"newlink", "dellink"} /\ queue'[i].idx = iface.idx
        BY <1>2, <3>3 DEF LinkMessages, AboutLink
      <4>2. CASE i \in DOMAIN queue
        BY <1>6, <4>1, <4>2 DEF LinkMessages, AboutLink
      <4>3. CASE i \notin DOMAIN queue
        <5>1. i \in Nat /\ i - n \in DOMAIN ms /\ queue'[i] = ms[i - n]
          BY <1>6, <4>1, <4>3
        <5>2. i - n = 1
          BY <1>1, <4>1, <5>1
        <5> QED
          BY <1>5, <5>1, <5>2
      <4> QED
        BY <4>2, <4>3
    <3> QED
      BY <3>1, <3>2, <3>3
  <2>2. \A i \in LinkMessages : i \in DOMAIN queue
    BY DEF LinkMessages
  <2>3. queue'[n + 1] = ms[1]
    BY <1>1, <1>6
  <2>4. \A i : IsLast(i, LinkMessages') => i = n + 1
    BY <1>5, <1>6, <2>1, <2>2 DEF IsLast
  <2>5. \A i \in LinkMessages' : queue'[i].type = "newlink"
    BY <1>4, <1>6, <1>7, <2>1, <2>2, <2>3 DEF LinkAgrees
  <2> QED
    BY <1>2, <1>7, <2>1, <2>3, <2>4, <2>5 DEF LinkAgrees
<1>9. ASSUME NEW ip \in LocalIPs PROVE AddrAgrees(ip)'
  <2>1. \A i \in DOMAIN queue : i \in AddrMessages(ip)' <=> i \in AddrMessages(ip)
    BY <1>2, <1>6 DEF AddrMessages, AboutAddr
  <2>2. \A i \in AddrMessages(ip)' : i \in DOMAIN queue' /\ i \in Nat
    BY <1>6 DEF AddrMessages
  <2>3. ASSUME NEW i \in AddrMessages(ip)', i \notin DOMAIN queue
        PROVE  queue'[i].type = "deladdr" /\ ip \notin iface'.addrs
    <3>1. i - n \in DOMAIN ms /\ queue'[i] = ms[i - n]
      BY <1>6, <2>2, <2>3
    <3>2. queue'[i].type \in {"newaddr", "deladdr"} /\ queue'[i].ip = ip
      BY <2>3 DEF AddrMessages, AboutAddr
    <3> QED
      BY <1>1, <1>7, <3>1, <3>2
  <2>4. CASE \E i \in AddrMessages(ip)' : i \notin DOMAIN queue
    <3>1. ASSUME NEW i \in DOMAIN queue', IsLast(i, AddrMessages(ip)')
          PROVE  i \notin DOMAIN queue /\ i \in AddrMessages(ip)'
      <4>1. PICK j \in AddrMessages(ip)' : j \notin DOMAIN queue
        BY <2>4
      <4>2. j > n /\ j \in Nat /\ j <= i /\ i \in Nat
        BY <1>6, <2>2, <3>1, <4>1 DEF IsLast
      <4> QED
        BY <1>5, <1>6, <3>1, <4>2 DEF IsLast
    <3>2. AddrMessages(ip)' # {}
      BY <2>4
    <3> QED
      BY <2>3, <3>1, <3>2 DEF AddrAgrees
  <2>5. CASE \A i \in AddrMessages(ip)' : i \in DOMAIN queue
    <3>1. AddrMessages(ip)' = AddrMessages(ip)
      BY <2>1, <2>5 DEF AddrMessages
    <3>2. ip \in iface'.addrs <=> ip \in iface.addrs
      <4> SUFFICES ASSUME ip \in iface.addrs, ip \notin iface'.addrs PROVE FALSE
        BY <1>1
      <4>1. PICK i \in DOMAIN ms : ms[i].type = "deladdr" /\ ms[i].ip = ip
        BY <1>1
      <4>2. n + i \in AddrMessages(ip)' /\ n + i \notin DOMAIN queue
        BY <1>1, <1>2, <1>5, <1>6, <4>1 DEF AddrMessages, AboutAddr
      <4> QED
        BY <2>5, <4>2
    <3>3. \A i : IsLast(i, AddrMessages(ip)) => i \in DOMAIN queue /\ queue'[i] = queue[i]
      BY <1>6, <2>5, <3>1 DEF IsLast
    <3>4. AddrAgrees(ip)
      BY <1>4
    <3>5. \A i : IsLast(i, AddrMessages(ip)') =>
            /\ ip \in iface'.addrs => queue'[i].type = "newaddr"
            /\ NeverDeleted' /\ ip \notin iface'.addrs => queue'[i].type = "deladdr"
      BY <1>4, <3>1, <3>2, <3>3, <3>4 DEF AddrAgrees
    <3> QED
      BY <1>2, <1>4, <3>1, <3>2, <3>4, <3>5 DEF AddrAgrees
  <2> QED
    BY <2>4, <2>5
<1> QED
  BY <1>8, <1>9

LEMMA AgreesKernelStep ==
  ASSUME Shape, Agrees, KernelStep
  PROVE  Agrees'
<1> SUFFICES ASSUME Listening' PROVE LinkAgrees' /\ \A ip \in LocalIPs : AddrAgrees(ip)'
  BY DEF Agrees
<1>1. CASE LinkUp
  <2> DEFINE m == Link("newlink", iface.idx, TRUE)
  <2>1. m.type = "newlink" /\ m.up = TRUE
    BY DEF Link
  <2> HIDE DEF m
  <2>2. /\ Posts(m) /\ iface'.up = TRUE /\ iface'.addrs = iface.addrs
        /\ iface'.idx = iface.idx /\ iface'.last = iface.last
    BY <1>1, LinkUpPosts DEF m
  <2> QED
    BY <2>1, <2>2, LinkAgreesAfterPost, AddrAgreesAfterPost
<1>2. ASSUME NEW ip \in LocalIPs, AddrAdd(ip) \/ AddrDel(ip)
      PROVE  LinkAgrees' /\ \A a \in LocalIPs : AddrAgrees(a)'
  <2>1. /\ iface'.up = iface.up /\ iface'.idx = iface.idx /\ iface'.last = iface.last
        /\ \/ iface'.addrs = iface.addrs \cup {ip} /\ Posts(Addr("newaddr", iface.idx, ip))
           \/ iface'.addrs = iface.addrs \ {ip} /\ Posts(Addr("deladdr", iface.idx, ip))
    BY <1>2, AddrChangePosts
  <2>2. PICK type \in {"newaddr", "deladdr"} :
          /\ Posts(Addr(type, iface.idx, ip))
          /\ type = "newaddr" => iface'.addrs = iface.addrs \cup {ip}
          /\ type = "deladdr" => iface'.addrs = iface.addrs \ {ip}
    BY <2>1
  <2> DEFINE m == Addr(type, iface.idx, ip)
  <2>3. m.type = type /\ m.ip = ip
    BY DEF Addr
  <2>4. Posts(m)
    BY <2>2
  <2> HIDE DEF m
  <2>5. LinkAgrees'
    BY <2>1, <2>3, <2>4, LinkAgreesAfterPost
  <2>6. ASSUME NEW a \in LocalIPs PROVE AddrAgrees(a)'
    BY <2>1, <2>2, <2>3, <2>4, AddrAgreesAfterPost
  <2> QED
    BY <2>5, <2>6
<1>3. ASSUME NEW type \in {"newroute", "delroute"}, NEW ours \in BOOLEAN, NEW d \in Dests,
             RouteChange(type, ours, d)
      PROVE  LinkAgrees' /\ \A ip \in LocalIPs : AddrAgrees(ip)'
  <2> DEFINE m == Route(type, iface.idx, ours, d)
  <2>1. m.type \notin {"newlink", "dellink", "newaddr", "deladdr"}
    BY DEF Route
  <2>2. Posts(m) /\ UNCHANGED iface
    BY <1>3, RouteChangePosts
  <2> HIDE DEF m
  <2> QED
    BY <2>1, <2>2, LinkAgreesAfterPost, AddrAgreesAfterPost
<1> QED
  BY <1>1, <1>2, <1>3, AgreesAfterDown, AgreesAfterCreate, AgreesAfterDelete DEF KernelStep

\* A notification is read.
LEMMA AgreesReceive ==
  ASSUME Shape, Agrees, Receive
  PROVE  Agrees'
<1> SUFFICES ASSUME Listening' PROVE LinkAgrees' /\ \A ip \in LocalIPs : AddrAgrees(ip)'
  BY DEF Agrees
<1> DEFINE m == Head(queue)
<1>1. /\ tracker = "select" /\ queue # <<>> /\ Take /\ UNCHANGED <<iface, overrun>>
      /\ tracker' \notin {"links", "addrs"} /\ ~overrun
  BY ReceiveChanges DEF Receive
<1>2. /\ LinkAgrees /\ \A ip \in LocalIPs : AddrAgrees(ip)
      /\ NeverDeleted' = NeverDeleted
  BY <1>1 DEF Agrees, Listening, Subscribed, NeverDeleted
<1>3. /\ m \in Message /\ queue[1] = m /\ 1 \in DOMAIN queue
      /\ DOMAIN queue = 1 .. Len(queue) /\ DOMAIN queue' = 1 .. Len(queue) - 1 /\ Len(queue) \in Nat
      /\ \A i \in DOMAIN queue' : i + 1 \in DOMAIN queue /\ queue'[i] = queue[i + 1]
  BY <1>1, TakeShortens DEF Shape
<1>4. cfg \in KnownConfig /\ cfg' \in KnownConfig
  BY ReceiveChanges DEF Shape, TypeOK
<1>5. \A i \in DOMAIN queue : i = 1 \/ i - 1 \in DOMAIN queue'
  BY <1>3
<1> HIDE DEF m
<1>6. LinkAgrees'
  <2>1. \A i \in DOMAIN queue' : i \in LinkMessages' <=> i + 1 \in LinkMessages
    BY <1>1, <1>3 DEF LinkMessages, AboutLink
  <2>2. \A i \in LinkMessages' : i \in DOMAIN queue' /\ i \in Nat /\ queue'[i] = queue[i + 1]
    BY <1>3 DEF LinkMessages
  <2>3. \A i \in LinkMessages' : queue'[i].type = "newlink"
    BY <1>2, <2>1, <2>2 DEF LinkAgrees
  <2>4. \A j \in LinkMessages : j \in Nat /\ (j = 1 \/ j - 1 \in LinkMessages')
    BY <1>3, <1>5, <2>1 DEF LinkMessages
  <2>5. ASSUME NEW i \in DOMAIN queue', IsLast(i, LinkMessages')
        PROVE  queue'[i].up = iface'.up
    <3>1. i \in LinkMessages' /\ i + 1 \in LinkMessages /\ i + 1 \in DOMAIN queue /\ i \in Nat /\ i >= 1
      BY <1>3, <2>1, <2>2, <2>5 DEF IsLast
    <3>2. \A j \in LinkMessages : j <= i + 1
      BY <2>4, <2>5, <3>1 DEF IsLast
    <3>3. queue[i + 1].up = iface.up
      BY <1>2, <3>1, <3>2 DEF LinkAgrees, IsLast
    <3> QED
      BY <1>1, <2>2, <3>1, <3>3
  <2>6. ASSUME LinkMessages' = {}, NeverDeleted', cfg'.isUp
        PROVE  iface'.up
    <3>1. \A j \in LinkMessages : j = 1
      BY <2>4, <2>6
    <3>2. CASE 1 \in LinkMessages
      <4>1. m.type = "newlink" /\ m.idx = iface.idx
        BY <1>2, <1>3, <3>2 DEF LinkAgrees, LinkMessages, AboutLink
      <4>2. m.up = iface.up
        BY <1>2, <1>3, <3>1, <3>2 DEF LinkAgrees, IsLast
      <4>3. cfg' = LinkConfig(cfg, m)
        BY <4>1, ReceiveChanges DEF m
      <4> QED
        BY <1>1, <1>3, <1>4, <2>6, <4>1, <4>2, <4>3, LinkConfigIs
    <3>3. CASE 1 \notin LinkMessages
      <4>1. LinkMessages = {}
        BY <3>1, <3>3
      <4>2. ~(m.type \in {"newlink", "dellink"} /\ m.idx = iface.idx)
        BY <1>3, <3>3 DEF LinkMessages, AboutLink
      <4>3. cfg' = cfg \/ (m.type \in {"newaddr", "deladdr"} /\ cfg' = AddrConfig(cfg, m))
        BY <4>2, ReceiveChanges DEF m
      <4>4. cfg'.isUp = cfg.isUp
        BY <1>3, <1>4, <4>3, AddrConfigIs
      <4> QED
        BY <1>1, <1>2, <2>6, <4>1, <4>4 DEF LinkAgrees
    <3> QED
      BY <3>2, <3>3
  <2> QED
    BY <1>1, <2>3, <2>5, <2>6 DEF LinkAgrees
<1>7. ASSUME NEW ip \in LocalIPs PROVE AddrAgrees(ip)'
  <2>1. \A i \in DOMAIN queue' : i \in AddrMessages(ip)' <=> i + 1 \in AddrMessages(ip)
    BY <1>1, <1>3 DEF AddrMessages, AboutAddr
  <2>2. \A i \in AddrMessages(ip)' : i \in DOMAIN queue' /\ i \in Nat /\ queue'[i] = queue[i + 1]
    BY <1>3 DEF AddrMessages
  <2>3. AddrAgrees(ip)
    BY <1>2
  <2>4. \A j \in AddrMessages(ip) : j \in Nat /\ (j = 1 \/ j - 1 \in AddrMessages(ip)')
    BY <1>3, <1>5, <2>1 DEF AddrMessages
  <2>5. ASSUME NEW i \in DOMAIN queue', IsLast(i, AddrMessages(ip)')
        PROVE  /\ ip \in iface'.addrs => queue'[i].type = "newaddr"
               /\ NeverDeleted' /\ ip \notin iface'.addrs => queue'[i].type = "deladdr"
    <3>1. i + 1 \in AddrMessages(ip) /\ i + 1 \in DOMAIN queue /\ i \in Nat /\ i >= 1
      BY <1>3, <2>1, <2>2, <2>5 DEF IsLast
    <3>2. \A j \in AddrMessages(ip) : j <= i + 1
      BY <2>4, <2>5, <3>1 DEF IsLast
    <3>3. IsLast(i + 1, AddrMessages(ip))
      BY <3>1, <3>2 DEF IsLast
    <3> QED
      BY <1>1, <1>2, <1>3, <2>3, <3>1, <3>3 DEF AddrAgrees
  <2>6. ASSUME AddrMessages(ip)' = {}
        PROVE  /\ ip \in iface'.addrs => ip \in cfg'.localIPs
               /\ NeverDeleted' /\ ip \in cfg'.localIPs => ip \in iface'.addrs
    <3>1. \A j \in AddrMessages(ip) : j = 1
      BY <2>4, <2>6
    <3>2. CASE 1 \in AddrMessages(ip)
      <4>1. m.type \in {"newaddr", "deladdr"} /\ m.idx = iface.idx /\ m.ip = ip
        BY <1>3, <3>2 DEF AddrMessages, AboutAddr
      <4>2. IsLast(1, AddrMessages(ip))
        BY <3>1, <3>2 DEF IsLast
      <4>3. /\ ip \in iface.addrs => m.type = "newaddr"
            /\ NeverDeleted /\ ip \notin iface.addrs => m.type = "deladdr"
        BY <1>3, <2>3, <4>2 DEF AddrAgrees
      <4>4. cfg' = AddrConfig(cfg, m)
        BY <4>1, ReceiveChanges DEF m
      <4>5. cfg'.localIPs = IF m.type = "newaddr" THEN cfg.localIPs \cup {ip}
                                                  ELSE cfg.localIPs \ {ip}
        BY <1>3, <1>4, <4>1, <4>4, AddrConfigIs
      <4> QED
        BY <1>1, <1>2, <4>1, <4>3, <4>5
    <3>3. CASE 1 \notin AddrMessages(ip)
      <4>1. AddrMessages(ip) = {}
        BY <3>1, <3>3
      <4>2. ~(m.type \in {"newaddr", "deladdr"} /\ m.idx = iface.idx /\ m.ip = ip)
        BY <1>3, <3>3 DEF AddrMessages, AboutAddr
      <4>3. \/ cfg' = cfg
            \/ m.type \in {"newlink", "dellink"} /\ cfg' = LinkConfig(cfg, m)
            \/ m.type \in {"newaddr", "deladdr"} /\ m.ip # ip /\ cfg' = AddrConfig(cfg, m)
        BY <4>2, ReceiveChanges DEF m
      <4>4. ip \in cfg'.localIPs <=> ip \in cfg.localIPs
        <5>1. CASE cfg' = cfg
          BY <5>1
        <5>2. CASE m.type \in {"newlink", "dellink"} /\ cfg' = LinkConfig(cfg, m)
          <6>1. cfg'.localIPs = cfg.localIPs
            BY <1>3, <1>4, <5>2, LinkConfigIs
          <6> QED
            BY <6>1
        <5>3. CASE m.type \in {"newaddr", "deladdr"} /\ m.ip # ip /\ cfg' = AddrConfig(cfg, m)
          <6>1. cfg'.localIPs = IF m.type = "newaddr" THEN cfg.localIPs \cup {m.ip}
                                                      ELSE cfg.localIPs \ {m.ip}
            BY <1>3, <1>4, <5>3, AddrConfigIs
          <6> QED
            BY <5>3, <6>1
        <5> QED
          BY <4>3, <5>1, <5>2, <5>3
      <4> QED
        BY <1>1, <1>2, <2>3, <4>1, <4>4 DEF AddrAgrees
    <3> QED
      BY <3>2, <3>3
  <2> QED
    BY <2>5, <2>6 DEF AddrAgrees
<1> QED
  BY <1>6, <1>7

\* The other steps of the tracker leave the queue and the interface alone.
LEMMA AgreesElsewhere ==
  ASSUME Shape, Agrees, Listening', UNCHANGED <<iface, queue, overrun>>,
         \/ tracker = "start" /\ tracker' = "links"
         \/ tracker = "links" /\ tracker' = "addrs" /\ seen'.up = iface.up
         \/ tracker = "addrs" /\ tracker' = "links"
         \/ tracker = "addrs" /\ tracker' = "deliver" /\ cfg' = InitialConfig(iface.addrs, seen.up)
         \/ UNCHANGED <<tracker, seen, cfg>>
         \/ {tracker, tracker'} \subseteq {"deliver", "handled", "head", "select"} /\ cfg' = cfg
  PROVE  LinkAgrees' /\ \A ip \in LocalIPs : AddrAgrees(ip)'
<1>1. /\ LinkMessages' = LinkMessages /\ NeverDeleted' = NeverDeleted
      /\ \A ip \in LocalIPs : AddrMessages(ip)' = AddrMessages(ip)
  BY DEF LinkMessages, AboutLink, AddrMessages, AboutAddr, NeverDeleted
<1>2. CASE tracker = "start"
  <2>1. (queue = <<>> /\ tracker' = "links") \/ UNCHANGED tracker
    BY <1>2 DEF Shape
  <2>2. tracker' # "start"
    BY DEF Listening, Subscribed
  <2>3. LinkMessages' = {} /\ \A ip \in LocalIPs : AddrMessages(ip)' = {}
    BY <1>1, <1>2, <2>1, <2>2 DEF LinkMessages, AddrMessages
  <2> QED
    BY <1>2, <2>1, <2>2, <2>3 DEF LinkAgrees, AddrAgrees, IsLast
<1>3. CASE tracker # "start"
  <2>1. LinkAgrees /\ \A ip \in LocalIPs : AddrAgrees(ip)
    BY <1>3 DEF Agrees, Listening, Subscribed
  <2>2. seen.up \in BOOLEAN /\ iface.addrs \in SUBSET LocalIPs
    BY InterfaceFields DEF Shape, TypeOK
  <2>3. cfg' = InitialConfig(iface.addrs, seen.up) =>
          /\ cfg'.isUp => seen.up
          /\ cfg'.localIPs = iface.addrs
    BY <2>2, InitialConfigIs
  <2>4. LinkAgrees'
    BY <1>1, <1>3, <2>1, <2>3 DEF LinkAgrees
  <2>5. ASSUME NEW ip \in LocalIPs PROVE AddrAgrees(ip)'
    BY <1>1, <1>3, <2>1, <2>3 DEF AddrAgrees
  <2> QED
    BY <2>4, <2>5
<1> QED
  BY <1>2, <1>3

LEMMA AgreesStep ==
  ASSUME Shape, Agrees, [Next]_vars
  PROVE  Agrees'
<1>1. CASE KernelStep \/ Receive
  BY <1>1, AgreesKernelStep, AgreesReceive
<1>2. CASE Stop \/ CloseFails \/ ReceiveFails \/ StartFails
  BY <1>2 DEF Stop, CloseFails, ReceiveFails, StartFails, HandleError, Agrees, Listening, Subscribed
<1>3. CASE DumpAddrs
  BY <1>3, ShapeDumpAddrs, AgreesElsewhere DEF DumpAddrs, kernelVars, Agrees
<1>4. CASE OpenSocket \/ DumpLinks
  BY <1>4, AgreesElsewhere DEF OpenSocket, DumpLinks, kernelVars, Agrees
<1>5. CASE Deliver \/ LoopHead \/ SelectTimeout
  BY <1>5, AgreesElsewhere
     DEF Deliver, Handle, HandlerReturns, Drop, LoopHead, SelectTimeout, kernelVars, Agrees
<1>6. CASE OnShutdown \/ Finished \/ UNCHANGED vars
  BY <1>6, AgreesElsewhere DEF OnShutdown, Finished, kernelVars, vars, Agrees
<1> QED
  BY <1>1, <1>2, <1>3, <1>4, <1>5, <1>6 DEF Next, TrackerStep, Run

-----------------------------------------------------------------------------
(***************************************************************************)
(* The theorems.                                                           *)
(***************************************************************************)
\* The constructor, and whatever the interface is like then.
LEMMA InitInv == Init => IInv
<1> SUFFICES ASSUME Init PROVE IInv
  OBVIOUS
<1>1. cfg \in KnownConfig /\ published \in KnownConfig /\ out \in OutMessages
  BY ConfigIsMade DEF Init, EmptyConfig, OutMessages
<1>2. queue = <<>> /\ queue \in Seq(Message) /\ Len(queue) <= QueueMax
  BY TrackerAssumption DEF Init
<1>3. iface \in Interface /\ iface.idx = iface.last
      /\ (iface.idx = 0 => ~iface.up /\ iface.addrs = {})
  BY DEF Init
<1>4. seen \in [idx : 0 .. MaxIdx, up : BOOLEAN]
  BY TrackerAssumption DEF Init, NothingSeen
<1>5. TypeOK
  BY <1>1, <1>2, <1>3, <1>4 DEF Init, TypeOK
<1>6. Shape
  BY <1>2, <1>3, <1>5 DEF Init, Shape, Interface
<1>7. ~cfg.isUp /\ ~Listening
  BY DEF Init, EmptyConfig, Listening, Subscribed
<1> QED
  BY <1>6, <1>7 DEF IInv, TypeKnownWhenUp, Agrees

LEMMA StepInv == IInv /\ [Next]_vars => IInv'
BY ShapeStep, TypeKnownStep, AgreesStep DEF IInv

\* The tracker, the socket's queue and the interface agree in every state.
THEOREM Invariant == Spec => []IInv
<1> QED
  BY InitInv, StepInv, PTL DEF Spec

\* The tracker's variables have their types: no notification, of whatever type and
\* read at whatever time, makes a configuration of anything but its addresses.
THEOREM TrackerTypes == Spec => []TypeOK
<1>1. IInv => TypeOK
  BY DEF IInv, Shape
<1> QED
  BY <1>1, Invariant, PTL

\* An interface known to be up is known with its type.
THEOREM TypeIsKnown == Spec => []TypeKnownWhenUp
<1>1. IInv => TypeKnownWhenUp
  BY DEF IInv
<1> QED
  BY <1>1, Invariant, PTL

\* A tracker that has read everything has not published a link as up that is down,
\* whatever changed between bind, the two dumps and the notifications.
THEOREM UpIsTrue == Spec => []UpIsReal
<1>1. IInv => UpIsReal
  <2> SUFFICES ASSUME Shape, Agrees, Quiescent, NeverDeleted, published.isUp
               PROVE  iface.idx # 0 /\ iface.up
    BY DEF IInv, UpIsReal
  <2>1. LinkAgrees /\ LinkMessages = {} /\ cfg.isUp /\ tracker = "select"
    BY DEF Quiescent, Agrees, Listening, Subscribed, LinkMessages, Shape
  <2>2. iface.up
    BY <2>1 DEF LinkAgrees
  <2> QED
    BY <2>2 DEF Shape
<1> QED
  BY <1>1, Invariant, PTL

\* It has published all the addresses, and if the interface was never removed no
\* other.
THEOREM AddressesAreTrue == Spec => []AddressesKnown
<1>1. IInv => AddressesKnown
  <2> SUFFICES ASSUME Shape, Agrees, Quiescent
               PROVE  /\ iface.addrs \subseteq published.localIPs
                      /\ NeverDeleted => published.localIPs = iface.addrs
    BY DEF IInv, AddressesKnown
  <2>1. tracker = "select" /\ published = cfg /\ \A ip \in LocalIPs : AddrAgrees(ip)
    BY DEF Quiescent, Agrees, Listening, Subscribed, Shape
  <2>2. \A ip \in LocalIPs : AddrMessages(ip) = {}
    BY DEF Quiescent, AddrMessages
  <2>3. cfg.localIPs \in SUBSET LocalIPs /\ iface.addrs \in SUBSET LocalIPs
    BY InterfaceFields, ConfigFields DEF Shape, TypeOK
  <2>4. \A ip \in LocalIPs : /\ ip \in iface.addrs => ip \in published.localIPs
                             /\ NeverDeleted /\ ip \in published.localIPs => ip \in iface.addrs
    BY <2>1, <2>2 DEF AddrAgrees
  <2> QED
    BY <2>1, <2>3, <2>4
<1> QED
  BY <1>1, Invariant, PTL
=============================================================================
