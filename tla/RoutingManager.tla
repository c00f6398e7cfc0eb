--------------------------- MODULE RoutingManager ---------------------------
(***************************************************************************)
(* RoutingManager: the component that turns DNS answers into kernel routes *)
(* and removes them when they expire.                                      *)
(*                                                                         *)
(* Threads.  Messages are handled in the thread that sends them: the DNS   *)
(* receiver calls InsertRoute, the tracker calls the other handlers.       *)
(* ManageRoutes runs in the manager's own worker thread.  Every handler    *)
(* and ManageRoutes hold opLock from their first line to their last, and   *)
(* send netlink requests while they hold it.  Taking the lock and changing *)
(* the containers is one action; the requests it sends are then taken by   *)
(* the kernel one at a time (NetlinkSend), and the lock is released after  *)
(* the last one (Return, StaleReturn).  The loop of _ProcessStaleRoutes is *)
(* unrolled, one action per iteration.                                     *)
(*                                                                         *)
(* Main starts the manager before the senders and joins the senders before *)
(* it shuts the manager down; it ignores what Startup returns.             *)
(***************************************************************************)
EXTENDS Integers, Sequences, FiniteSets, Bags, InterfaceConfig

CONSTANTS
  Dests,          \* destination addresses
  LocalIPs,       \* addresses the interface may have
  Configs,        \* the interface configurations that may be reported
  TTLs,           \* ttl values of DNS answers
  ExtraTTL,       \* -ttl: added to every expiration time
  MgInterval,     \* -mi: seconds between two runs of ManageRoutes
  MgPercent,      \* -mp: percent of expire marks evaluated per run
  AddRetryCount,  \* -mr: route-add max tries count
  FloatBits,      \* significant bits of a float: 24
  MaxTime,        \* BOUND: the clock and the expiration times stop here
  MaxMarks        \* BOUND: expire marks and pending routes held at once

\* Main validates these parameters before it builds the manager.
ASSUME ParametersAssumption ==
  /\ ExtraTTL \in Nat \ {0}
  /\ MgInterval \in Nat \ {0}
  /\ MgPercent \in 1 .. 100
  /\ AddRetryCount \in Nat \ {0}

\* 100 and the percentage are exact as floats.
ASSUME FloatAssumption == FloatBits \in Nat /\ 100 < 2^FloatBits

ASSUME InputsAssumption ==
  /\ IsFiniteSet(Dests)
  /\ Configs \subseteq Config(LocalIPs)
  /\ TTLs \subseteq Nat
  /\ MaxTime \in Nat
  /\ MaxMarks \in Nat

VARIABLES
  curTime,          \* the clock, as last read by the worker
  started,          \* the netlink socket is open and bound
  shutdownPending,
  worker,           \* control state of the worker thread
  prev,             \* when ManageRoutes was last run
  remCnt,           \* iterations left in _ProcessStaleRoutes
  caller,           \* control state of the threads that send messages
  ifCfg,            \* the interface configuration last reported
  routes,           \* the four containers below
  netlink           \* requests sent and not yet taken by the kernel

vars == <<curTime, started, shutdownPending, worker, prev, remCnt, caller,
          ifCfg, routes, netlink>>

Callers == {"dns", "tracker"}

(***************************************************************************)
(* The containers.  A map from addresses to numbers is a function that is  *)
(* Absent where the map has no entry; the multimap of expire marks, kept   *)
(* in the order of their times, is a bag of marks.                         *)
(***************************************************************************)
Absent == -1

Has(map, d) == map[d] # Absent

AddressMap == [Dests -> Nat \cup {Absent}]

Mark == [at : Nat, dest : Dests]

NoRoutes ==
  [pendingInserts |-> [d \in Dests |-> Absent],   \* new and failed routes
   pendingRetries |-> [d \in Dests |-> Absent],   \* their tries
   activeRoutes   |-> [d \in Dests |-> Absent],   \* confirmed routes
   pendingExpires |-> EmptyBag]

\* The number of marks in a bag: each copy counts.
Size(bag) == Cardinality(UNION {{m} \X (1 .. bag[m]) : m \in DOMAIN bag})

Request == [type : {"addBlackhole", "addUnicast", "delUnicast", "delBlackhole"},
            dest : Dests]

-----------------------------------------------------------------------------
(***************************************************************************)
(* The internal operations, as functions of the containers.                *)
(***************************************************************************)
Managed(r) == {d \in Dests : Has(r.pendingInserts, d) \/ Has(r.activeRoutes, d)}

\* The map without its entries for S.
Erase(map, S) == [d \in Dests |-> IF d \in S THEN Absent ELSE map[d]]

\* Mutant: an announcement of an unknown route is ignored.
FinalizeRouteInsertKnown(r, S, now) ==
  LET P == {d \in S : Has(r.pendingInserts, d)}
  IN  [pendingInserts |-> Erase(r.pendingInserts, P),
       pendingRetries |-> Erase(r.pendingRetries, P),
       activeRoutes   |-> [d \in Dests |-> IF d \in P THEN r.pendingInserts[d]
                                                      ELSE r.activeRoutes[d]],
       pendingExpires |-> r.pendingExpires
                            (+) SetToBag({[at |-> r.pendingInserts[d], dest |-> d] : d \in P})]

\* Mutant: the expiration time is read though no pending entry was found.
FinalizeRouteInsertUnfound(r, S, now) ==
  LET T == {d \in S : Has(r.pendingInserts, d) \/ ~Has(r.activeRoutes, d)}
  IN  [pendingInserts |-> Erase(r.pendingInserts, T),
       pendingRetries |-> Erase(r.pendingRetries, T),
       activeRoutes   |-> [d \in Dests |-> IF d \in T THEN r.pendingInserts[d]
                                                      ELSE r.activeRoutes[d]],
       pendingExpires |-> r.pendingExpires
                            (+) SetToBag({[at |-> r.pendingInserts[d], dest |-> d] : d \in T})]

\* _FinalizeRouteInsert of every address of S: pending ones become active
\* with the expiration time they asked for, unknown ones with the minimum
\* lease from time now, active ones are left alone.
FinalizeRouteInsert(r, S, now) ==
  LET T == {d \in S : Has(r.pendingInserts, d) \/ ~Has(r.activeRoutes, d)}
      expiration(d) == IF Has(r.pendingInserts, d) THEN r.pendingInserts[d]
                                                   ELSE now + ExtraTTL
      P == {d \in T : Has(r.pendingInserts, d)}
  IN  [pendingInserts |-> Erase(r.pendingInserts, P),
       pendingRetries |-> Erase(r.pendingRetries, P),
       activeRoutes   |-> [d \in Dests |-> IF d \in T THEN expiration(d)
                                                      ELSE r.activeRoutes[d]],
       pendingExpires |-> r.pendingExpires
                            (+) SetToBag({[at |-> expiration(d), dest |-> d] : d \in T})]

\* Mutant: the active entry is not erased.
FinalizeRouteDeleteKeepsActive(r, S) ==
  LET T == {d \in S : Has(r.activeRoutes, d)}
  IN  [r EXCEPT !.pendingInserts = [d \in Dests |-> IF d \in T THEN r.activeRoutes[d]
                                                              ELSE @[d]]]

\* _FinalizeRouteDelete of every address of S: active ones become pending
\* again.  insert() keeps a pending entry that is already there.
FinalizeRouteDelete(r, S) ==
  LET T == {d \in S : Has(r.activeRoutes, d)}
  IN  [r EXCEPT
         !.pendingInserts = [d \in Dests |-> IF d \in T /\ ~Has(@, d)
                                             THEN r.activeRoutes[d] ELSE @[d]],
         !.pendingRetries = Erase(@, T),
         !.activeRoutes   = Erase(@, T)]

\* Mutant: the families are mistaken for each other.
InvalidateActiveRoutesSwapped(r, ipv4, ipv6) ==
  FinalizeRouteDelete(r, {d \in Dests : (ipv4 /\ isV6(d)) \/ (ipv6 /\ ~isV6(d))})

\* _InvalidateActiveRoutes: the families given are gone.
InvalidateActiveRoutes(r, ipv4, ipv6) ==
  FinalizeRouteDelete(r, {d \in Dests : (ipv6 /\ isV6(d)) \/ (ipv4 /\ ~isV6(d))})

\* Mutant: off by one.
GivenUpLate(r, cfg) ==
  {d \in Dests : /\ Has(r.pendingRetries, d)
                 /\ r.pendingRetries[d] > AddRetryCount
                 /\ FamilyAvail(cfg, d)}

\* The addresses _ProcessPendingInserts stops trying for: it considers their
\* routes installed.
GivenUp(r, cfg) ==
  {d \in Dests : /\ Has(r.pendingRetries, d)
                 /\ r.pendingRetries[d] >= AddRetryCount
                 /\ FamilyAvail(cfg, d)}

\* Mutant: the family is not looked at.
RetriedAll(r, cfg) == {d \in Dests : Has(r.pendingInserts, d)}

Retried(r, cfg) == {d \in Dests : Has(r.pendingInserts, d) /\ FamilyAvail(cfg, d)}

\* Mutant: every retry is the second.
CountTryForgets(r, S) ==
  [r EXCEPT !.pendingRetries = [d \in Dests |-> IF d \in S THEN 2 ELSE @[d]]]

\* The first retry is the second try: InsertRoute made the first.
CountTry(r, S) ==
  [r EXCEPT !.pendingRetries =
     [d \in Dests |-> IF d \notin S THEN @[d] ELSE IF Has(@, d) THEN @[d] + 1 ELSE 2]]

\* The requests _ProcessPendingInserts sends for the addresses of S, in each
\* order an unordered_map may be traversed in.
RetryRequests(S) ==
  {[i \in 1 .. 2 * Cardinality(S) |->
      [type |-> IF i % 2 = 1 THEN "addBlackhole" ELSE "addUnicast",
       dest |-> order[(i + 1) \div 2]]] :
   order \in {f \in [1 .. Cardinality(S) -> S] :
                \A i, j \in 1 .. Cardinality(S) : i # j => f[i] # f[j]}}

\* Mutant: the socket is taken to be open.
MayPushUnstarted(cfg) == cfg.isUp

\* _ProcessPendingInserts does nothing before Startup, after Shutdown, or
\* while the interface is down.
MayPush(cfg) == started /\ cfg.isUp

\* _ProcessPendingInserts on the containers r under configuration cfg.
ProcessPendingInserts(r, cfg) ==
  LET installed == FinalizeRouteInsert(r, GivenUp(r, cfg), curTime)
      retried   == Retried(installed, cfg)
  IN  IF MayPush(cfg)
      THEN /\ routes' = CountTry(installed, retried)
           /\ netlink' \in RetryRequests(retried)
      ELSE /\ routes' = r
           /\ netlink' = <<>>

\* Mutants: the quotient is rounded up to more than there is; it may be zero.
StaleBudgetTooLarge(n) == {(n * MgPercent) \div 100 + 1}

StaleBudgetZero(n) == {(n * MgPercent) \div 100}

(***************************************************************************)
(* Single precision, in fixed point: Scale stands for 1.  A float has      *)
(* FloatBits significant bits, so those around q are the multiples of a    *)
(* power of 2, their spacing.  0.01, the least value met, is at least      *)
(* Digits \div 2, so no smaller spacing than 1 is needed.                  *)
(* BOUND: no spacing is larger than Digits squared.                        *)
(***************************************************************************)
Digits == 2^FloatBits

Scale == 64 * Digits

Spacing(q) ==
  {u \in {2^k : k \in 0 .. 2 * FloatBits} : q < u * Digits /\ (u = 1 \/ u * Digits <= 2 * q)}

\* x / d rounded to the nearest integer, a tie to the even one.
Round(x, d) ==
  LET below == x \div d
      twice == (x % d) * 2
  IN  IF twice > d \/ (twice = d /\ below % 2 = 1) THEN below + 1 ELSE below

\* x / d rounded to the nearest float: one value, as there is one spacing.
Nearest(x, d) == {u * Round(x, d * u) : u \in Spacing(x \div d)}

\* The iterations _ProcessStaleRoutes allows itself for n marks: n / 100 *
\* MgPercent, where each operation rounds, truncated and at least 1.
StaleBudget(n) ==
  LET count     == Nearest(n * Scale, 1)
      hundredth == UNION {Nearest(c, 100) : c \in count}
      product   == UNION {Nearest(h * MgPercent, 1) : h \in hundredth}
      atLeastOne(k) == IF k < 1 THEN 1 ELSE k
  IN  IF n = 0 THEN {0} ELSE {atLeastOne(p \div Scale) : p \in product}

LoopGoesOn == remCnt > 0

\* Mutant: the mark is not compared with the expiration time.
AnyMarkExpires(m) == Has(routes.activeRoutes, m.dest)

\* Does mark m end the route to its address?  Not if the route is not active
\* or was extended past the mark.
Expires(m) == Has(routes.activeRoutes, m.dest) /\ routes.activeRoutes[m.dest] <= m.at

\* The marks at the front of the multimap: those of the least time.
Front(bag) == {m \in DOMAIN bag : \A n \in DOMAIN bag : m.at <= n.at}

-----------------------------------------------------------------------------
LockFree == worker # "stale" /\ \A t \in Callers : caller[t] # "inside"

\* BOUND: the marks and the pending routes fit.  Handlers of messages keep it
\* so; the worker, which only turns pending routes into marks, is never kept
\* from doing so.
Load(r) == Size(r.pendingExpires) + Cardinality({d \in Dests : Has(r.pendingInserts, d)})

Room(r) == Load(r) <= MaxMarks

\* BOUND: an expiration time counted from now stays within MaxTime.
Horizon(ttl) == curTime + ttl + ExtraTTL <= MaxTime

Init ==
  /\ curTime = 0
  /\ started = FALSE
  /\ shutdownPending = FALSE
  /\ worker = "none"
  /\ prev = 0
  /\ remCnt = 0
  /\ caller = [t \in Callers |-> "idle"]
  /\ ifCfg = EmptyConfig
  /\ routes = NoRoutes
  /\ netlink = <<>>

(***************************************************************************)
(* Startup and shutdown, called by Main.                                   *)
(***************************************************************************)
Startup ==
  /\ worker = "none"
  /\ started' = TRUE
  /\ worker' = "head"
  /\ prev' = curTime
  /\ UNCHANGED <<curTime, shutdownPending, remCnt, caller, ifCfg, routes, netlink>>

\* socket() or bind() fails: no worker thread is created.
StartupFails ==
  /\ worker = "none"
  /\ worker' = "failed"
  /\ UNCHANGED <<curTime, started, shutdownPending, prev, remCnt, caller,
                 ifCfg, routes, netlink>>

\* WorkerBase calls it only if there is a worker thread.
OnShutdown ==
  /\ worker \notin {"none", "failed", "joined"}
  /\ ~shutdownPending
  /\ shutdownPending' = TRUE
  /\ UNCHANGED <<curTime, started, worker, prev, remCnt, caller, ifCfg,
                 routes, netlink>>

\* The senders are joined, the worker thread is joined, the socket is closed.
Shutdown ==
  /\ worker \in {"done", "failed"}
  /\ \A t \in Callers : caller[t] = "idle"
  /\ LockFree
  /\ started' = FALSE
  /\ worker' = "joined"
  /\ UNCHANGED <<curTime, shutdownPending, prev, remCnt, caller, ifCfg,
                 routes, netlink>>

(***************************************************************************)
(* The worker thread.                                                      *)
(***************************************************************************)
\* Mutant: the flag is not looked at.
WorkerLoopHeadBlind ==
  /\ worker = "head"
  /\ worker' = "sleep"
  /\ UNCHANGED <<curTime, started, shutdownPending, prev, remCnt, caller,
                 ifCfg, routes, netlink>>

WorkerLoopHead ==
  /\ worker = "head"
  /\ worker' = IF shutdownPending THEN "done" ELSE "sleep"
  /\ UNCHANGED <<curTime, started, shutdownPending, prev, remCnt, caller,
                 ifCfg, routes, netlink>>

\* The worker wakes up, a second or more later, and reads the clock.  When
\* the clock has reached its bound the interval is taken to have passed.
WorkerTick ==
  /\ worker = "sleep"
  /\ \/ curTime' \in (curTime + 1) .. MaxTime
     \/ curTime = MaxTime /\ curTime' = MaxTime
  /\ IF curTime' - prev >= MgInterval \/ curTime = MaxTime
     THEN worker' = "manage" /\ prev' = curTime'
     ELSE worker' = "head" /\ UNCHANGED prev
  /\ UNCHANGED <<started, shutdownPending, remCnt, caller, ifCfg, routes, netlink>>

\* ManageRoutes up to the loop of _ProcessStaleRoutes.
ManageRoutes ==
  /\ worker = "manage"
  /\ LockFree
  /\ ProcessPendingInserts(routes, ifCfg)
  /\ remCnt' \in StaleBudget(Size(routes'.pendingExpires))
  /\ worker' = "stale"
  /\ UNCHANGED <<curTime, started, shutdownPending, prev, caller, ifCfg>>

\* An iteration of the loop, on the front mark m: the mark is removed, and so
\* is its route if it is the mark that ends it.
EvaluateMark(m) ==
  /\ worker = "stale"
  /\ netlink = <<>>
  /\ LoopGoesOn
  /\ m \in Front(routes.pendingExpires)
  /\ m.at <= curTime
  /\ netlink' = IF Expires(m) THEN <<[type |-> "delUnicast", dest |-> m.dest],
                                     [type |-> "delBlackhole", dest |-> m.dest]>>
                              ELSE <<>>
  /\ routes' = [routes EXCEPT
       !.activeRoutes   = IF Expires(m) THEN Erase(@, {m.dest}) ELSE @,
       !.pendingExpires = @ (-) SetToBag({m})]
  /\ remCnt' = remCnt - 1
  /\ UNCHANGED <<curTime, started, shutdownPending, worker, prev, caller, ifCfg>>

\* The loop ends and ManageRoutes returns: no iterations are left, or the
\* front mark is in the future.
StaleReturn ==
  /\ worker = "stale"
  /\ netlink = <<>>
  /\ ~LoopGoesOn \/ \E m \in Front(routes.pendingExpires) : curTime < m.at
  /\ worker' = "head"
  /\ remCnt' = 0
  /\ UNCHANGED <<curTime, started, shutdownPending, prev, caller, ifCfg,
                 routes, netlink>>

(***************************************************************************)
(* Messages.  The broker asks ReadyForMessage, without the lock, and calls *)
(* OnMessage if the answer was yes; the answer may be stale by then.       *)
(***************************************************************************)
ReadyForMessage(t) ==
  /\ worker \notin {"none", "joined"}
  /\ caller[t] = "idle"
  /\ ~shutdownPending
  /\ caller' = [caller EXCEPT ![t] = "ready"]
  /\ UNCHANGED <<curTime, started, shutdownPending, worker, prev, remCnt,
                 ifCfg, routes, netlink>>

Enter(t) ==
  /\ caller[t] = "ready"
  /\ LockFree
  /\ caller' = [caller EXCEPT ![t] = "inside"]

\* The handler returns and releases the lock.
Return(t) ==
  /\ caller[t] = "inside"
  /\ netlink = <<>>
  /\ caller' = [caller EXCEPT ![t] = "idle"]
  /\ UNCHANGED <<curTime, started, shutdownPending, worker, prev, remCnt,
                 ifCfg, routes, netlink>>

\* Mutant: the mark of the new expiration time is not inserted.
ExtendActiveUnmarked(dest, expirationTime) ==
  /\ Has(routes.activeRoutes, dest)
  /\ routes' = IF routes.activeRoutes[dest] < expirationTime
               THEN [routes EXCEPT !.activeRoutes[dest] = expirationTime]
               ELSE routes
  /\ netlink' = <<>>

\* A DNS answer for an active route: its expiration time may be extended.
ExtendActive(dest, expirationTime) ==
  /\ Has(routes.activeRoutes, dest)
  /\ routes' =
       IF routes.activeRoutes[dest] < expirationTime
       THEN [routes EXCEPT
               !.activeRoutes[dest] = expirationTime,
               !.pendingExpires = @ (+) SetToBag({[at |-> expirationTime, dest |-> dest]})]
       ELSE routes
  /\ netlink' = <<>>

\* Mutant: the blackhole is only pushed together with the route.
PushRouteAvailableOnly(dest, expirationTime) ==
  /\ ~Has(routes.activeRoutes, dest)
  /\ netlink' = IF started /\ FamilyAvail(ifCfg, dest)
                THEN <<[type |-> "addBlackhole", dest |-> dest],
                       [type |-> "addUnicast", dest |-> dest]>>
                ELSE <<>>
  /\ routes' = IF routes.pendingInserts[dest] < expirationTime
               THEN [routes EXCEPT
                       !.pendingInserts = [@ EXCEPT ![dest] = expirationTime],
                       !.pendingRetries = Erase(@, {dest})]
               ELSE routes

\* A DNS answer for any other address.
PushRoute(dest, expirationTime) ==
  LET blackhole == [type |-> "addBlackhole", dest |-> dest]
      unicast   == [type |-> "addUnicast", dest |-> dest]
  IN  /\ ~Has(routes.activeRoutes, dest)
      /\ netlink' = IF ~started THEN <<>>
                    ELSE IF FamilyAvail(ifCfg, dest) THEN <<blackhole, unicast>>
                                                     ELSE <<blackhole>>
      /\ routes' = IF routes.pendingInserts[dest] < expirationTime
                   THEN [routes EXCEPT
                           !.pendingInserts = [@ EXCEPT ![dest] = expirationTime],
                           !.pendingRetries = Erase(@, {dest})]
                   ELSE routes

InsertRoute(dest, ttl) ==
  /\ Enter("dns")
  /\ Horizon(ttl)
  /\ \/ ExtendActive(dest, curTime + ttl + ExtraTTL)
     \/ PushRoute(dest, curTime + ttl + ExtraTTL)
  /\ Room(routes')
  /\ UNCHANGED <<curTime, started, shutdownPending, worker, prev, remCnt, ifCfg>>

ConfirmRouteAdd(dest) ==
  /\ Enter("tracker")
  /\ dest \in Managed(routes) \/ Horizon(0)
  /\ routes' = FinalizeRouteInsert(routes, {dest}, curTime)
  /\ Room(routes')
  /\ UNCHANGED <<curTime, started, shutdownPending, worker, prev, remCnt,
                 ifCfg, netlink>>

ConfirmRouteDel(dest) ==
  /\ Enter("tracker")
  /\ routes' = FinalizeRouteDelete(routes, {dest})
  /\ Room(routes')
  /\ UNCHANGED <<curTime, started, shutdownPending, worker, prev, remCnt,
                 ifCfg, netlink>>

ProcessNetDevUpdate(newConfig) ==
  /\ Enter("tracker")
  /\ ifCfg' = newConfig
  /\ ProcessPendingInserts(
       InvalidateActiveRoutes(routes, isIPV4Avail(ifCfg) /\ ~isIPV4Avail(newConfig),
                                      isIPV6Avail(ifCfg) /\ ~isIPV6Avail(newConfig)),
       newConfig)
  /\ Room(routes')
  /\ UNCHANGED <<curTime, started, shutdownPending, worker, prev, remCnt>>

\* BOUND: a DNS answer that fits neither the clock nor the containers any more
\* is not delivered.
AnswerBeyondBounds ==
  /\ caller["dns"] = "ready"
  /\ \/ \A ttl \in TTLs : ~Horizon(ttl)
     \/ Load(routes) >= MaxMarks
  /\ caller' = [caller EXCEPT !["dns"] = "idle"]
  /\ UNCHANGED <<curTime, started, shutdownPending, worker, prev, remCnt,
                 ifCfg, routes, netlink>>

\* send() returns: the kernel has taken the request or refused it, or send()
\* has failed.  The manager cannot tell: a failure is logged, no answer is read,
\* and the containers are as they were.
NetlinkSend ==
  /\ netlink # <<>>
  /\ netlink' = Tail(netlink)
  /\ UNCHANGED <<curTime, started, shutdownPending, worker, prev, remCnt,
                 caller, ifCfg, routes>>

\* Main has joined everything: the program ends.
Ended == worker = "joined" /\ UNCHANGED vars

-----------------------------------------------------------------------------
ManagerStep ==
  \/ Startup \/ StartupFails \/ OnShutdown \/ Shutdown
  \/ WorkerLoopHead \/ WorkerTick \/ ManageRoutes \/ StaleReturn
  \/ \E m \in DOMAIN routes.pendingExpires : EvaluateMark(m)

MessageStep ==
  \/ \E t \in Callers : ReadyForMessage(t) \/ Return(t)
  \/ \E d \in Dests, ttl \in TTLs : InsertRoute(d, ttl)
  \/ \E d \in Dests : ConfirmRouteAdd(d) \/ ConfirmRouteDel(d)
  \/ \E cfg \in Configs : ProcessNetDevUpdate(cfg)
  \/ AnswerBeyondBounds

Next == ManagerStep \/ MessageStep \/ NetlinkSend \/ Ended

Spec == Init /\ [][Next]_vars

(***************************************************************************)
(* Fairness.  A runnable thread runs: the worker's steps, a send and the   *)
(* return of a handler are never put off forever.  For the lock more is    *)
(* asked: a worker that waits for opLock while it is released again and    *)
(* again gets it in the end.  Nothing obliges anyone to send messages, to  *)
(* start the manager or to shut it down.                                   *)
(***************************************************************************)
Fairness ==
  /\ WF_vars(WorkerLoopHead) /\ WF_vars(WorkerTick) /\ WF_vars(StaleReturn)
  /\ WF_vars(\E m \in DOMAIN routes.pendingExpires : EvaluateMark(m))
  /\ WF_vars(NetlinkSend)
  /\ \A t \in Callers : WF_vars(Return(t))
  /\ SF_vars(ManageRoutes)

FairSpec == Spec /\ Fairness
-----------------------------------------------------------------------------
(***************************************************************************)
(* Properties.                                                             *)
(***************************************************************************)
\* The containers are three maps and a finite bag of marks.
RoutesOK(r) ==
  /\ r = [pendingInserts |-> r.pendingInserts, pendingRetries |-> r.pendingRetries,
          activeRoutes |-> r.activeRoutes, pendingExpires |-> r.pendingExpires]
  /\ r.pendingInserts \in AddressMap
  /\ r.pendingRetries \in AddressMap
  /\ r.activeRoutes \in AddressMap
  /\ IsABag(r.pendingExpires)
  /\ DOMAIN r.pendingExpires \subseteq Mark
  /\ IsFiniteSet(DOMAIN r.pendingExpires)

\* The type of every variable.
TypeOK ==
  /\ curTime \in Nat
  /\ started \in BOOLEAN
  /\ shutdownPending \in BOOLEAN
  /\ worker \in {"none", "failed", "head", "sleep", "manage", "stale", "done", "joined"}
  /\ prev \in Nat
  /\ remCnt \in Nat
  /\ caller \in [Callers -> {"idle", "ready", "inside"}]
  /\ ifCfg \in Config(LocalIPs)
  /\ RoutesOK(routes)
  /\ netlink \in Seq(Request)

\* An address is pending or active, never both, and tries are counted for
\* pending addresses only: each container is written by several handlers, in
\* any order, and an entry left behind in one would be acted on later.
OnePlaceOnly(r) ==
  \A d \in Dests :
    /\ ~(Has(r.pendingInserts, d) /\ Has(r.activeRoutes, d))
    /\ Has(r.pendingRetries, d) => Has(r.pendingInserts, d)

PendingXorActive == OnePlaceOnly(routes)

\* An active route always has a mark at its expiration time, whichever
\* handlers moved it: without one _ProcessStaleRoutes never removes it.
Marked(r) ==
  \A d \in Dests :
    Has(r.activeRoutes, d) =>
      [at |-> r.activeRoutes[d], dest |-> d] \in DOMAIN r.pendingExpires

ActiveRouteHasItsMark == Marked(routes)

\* The tries counted for a route never exceed the maximum, except that the
\* first retry is always made: _ProcessPendingInserts counts it as number 2.
TriesBounded(r) ==
  \A d \in Dests :
    Has(r.pendingRetries, d) =>
      /\ r.pendingRetries[d] >= 2
      /\ r.pendingRetries[d] <= IF AddRetryCount < 2 THEN 2 ELSE AddRetryCount

RetryBudget == TriesBounded(routes)

\* The loop of _ProcessStaleRoutes never dereferences begin() of an empty
\* multimap: its budget is computed once, from the size before the loop, and
\* no rounding makes it larger.  (With very many marks one does: the theorem
\* says up to how many it holds.)
LoopNeverRunsDry ==
  worker = "stale" => remCnt <= Size(routes.pendingExpires)

\* Requests are only ever written to an open socket: not after Startup has
\* failed, though Main goes on, and not after Shutdown.
SocketOpenWhileSending == netlink # <<>> => started

\* What is on its way to the kernel agrees with the containers: routes are
\* added for pending addresses and removed for addresses no longer managed,
\* and a unicast route is added only while its family is available.
RequestMatches(q, r, cfg) ==
  /\ q.type \in {"addBlackhole", "addUnicast"} => Has(r.pendingInserts, q.dest)
  /\ q.type \in {"delUnicast", "delBlackhole"} => q.dest \notin Managed(r)
  /\ q.type = "addUnicast" => FamilyAvail(cfg, q.dest)

RequestsMatchState ==
  \A i \in DOMAIN netlink : RequestMatches(netlink[i], routes, ifCfg)

(***************************************************************************)
(* The leases the manager grants: the expiration time of an address, kept  *)
(* in whichever container holds it.                                        *)
(***************************************************************************)
Expiration(r, d) == IF Has(r.activeRoutes, d) THEN r.activeRoutes[d]
                                              ELSE r.pendingInserts[d]

Lease == INSTANCE RouteLease WITH now <- curTime, lease <- [d \in Dests |-> Expiration(routes, d)]

\* Every behaviour of the manager is one of RouteLease: a request is never
\* forgotten or shortened by retries, confirmations, removals, interface
\* changes or shutdown, and is dropped only after its expiration time.
LeaseSpec == Lease!Spec

\* No active route becomes pending again from some moment on.
LossesStop ==
  <>[][\A d \in Dests : Has(routes.activeRoutes, d) =>
         ~Has(routes.pendingInserts, d)' ]_vars

\* An active route is not kept past its expiration time for ever, unless the
\* program shuts down.  Each loss and re-add of an expired route inserts a
\* mark before the others, so losses must stop for the rest to get a turn.
ExpiredRouteIsDropped ==
  LossesStop =>
    \A d \in Dests :
      (started /\ Has(routes.activeRoutes, d) /\ routes.activeRoutes[d] <= curTime)
        ~> (shutdownPending \/ ~Has(routes.activeRoutes, d)
              \/ routes.activeRoutes[d] > curTime)

\* From some moment on no answer extends a route that is still pending.
AnswersStop ==
  <>[][\A d \in Dests : Has(routes.pendingInserts, d) /\ Has(routes.pendingInserts, d)' =>
         UNCHANGED routes.pendingInserts[d]]_vars

\* A pending route whose family stays available is confirmed or given up, or
\* the program shuts down: even if the kernel never confirms anything.  Each
\* answer that extends it erases its count of tries, so an address asked for
\* again before the tries are used up may stay pending for ever.
PendingRouteIsSettled ==
  AnswersStop =>
    \A d \in Dests :
      (started /\ Has(routes.pendingInserts, d))
        ~> (shutdownPending \/ ~FamilyAvail(ifCfg, d) \/ ~Has(routes.pendingInserts, d))

\* The worker sees a request to shut down, though it competes for the lock and
\* is inside the loop over the marks.  Main waits for that before it exits.
ShutdownEnds == shutdownPending ~> worker \in {"done", "joined"}
=============================================================================
