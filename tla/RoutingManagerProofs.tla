------------------------ MODULE RoutingManagerProofs ------------------------
(***************************************************************************)
(* Theorems about RoutingManager, for every value of its constants.        *)
(*                                                                         *)
(* The invariant is about the containers (Good) and about who may hold     *)
(* requests on the socket (Control).  Each internal operation preserves    *)
(* Good, whatever the state it is called in; the handlers compose them.    *)
(***************************************************************************)
EXTENDS RoutingManager, TLAPS, FiniteSetTheorems, SequenceTheorems

\* What every operation on the containers relies on and preserves.
Good(r) == RoutesOK(r) /\ OnePlaceOnly(r) /\ Marked(r)

-----------------------------------------------------------------------------
(***************************************************************************)
(* Finite sets and bags.                                                   *)
(***************************************************************************)
\* The values a function takes on a finite set are finitely many.
LEMMA FiniteImage ==
  ASSUME NEW S, IsFiniteSet(S), NEW f, f = [x \in S |-> f[x]]
  PROVE  IsFiniteSet({f[x] : x \in S})
<1>1. f \in Surjection(S, {f[x] : x \in S})
  BY DEF Surjection
<1> QED
  BY <1>1, FS_Surjection

\* The addresses are finitely many, and so is every set of them.
LEMMA FiniteDests ==
  ASSUME NEW S \in SUBSET Dests
  PROVE  IsFiniteSet(S) /\ Cardinality(S) \in Nat
<1>1. IsFiniteSet(S)
  BY InputsAssumption, FS_Subset
<1> QED
  BY <1>1, FS_CardinalityType

\* Adding one mark for each address of a finite set to a finite bag of marks
\* gives a finite bag of marks.
LEMMA AddMarks ==
  ASSUME NEW bag, IsABag(bag), DOMAIN bag \subseteq Mark, IsFiniteSet(DOMAIN bag),
         NEW S \in SUBSET Mark, IsFiniteSet(S)
  PROVE  LET new == bag (+) SetToBag(S)
         IN  /\ IsABag(new)
             /\ DOMAIN new = DOMAIN bag \cup S
             /\ DOMAIN new \subseteq Mark
             /\ IsFiniteSet(DOMAIN new)
<1> DEFINE new == bag (+) SetToBag(S)
<1>1. DOMAIN new = DOMAIN bag \cup S
  BY DEF (+), SetToBag
<1>2. \A m \in DOMAIN new : new[m] \in {n \in Nat : n > 0}
  BY DEF (+), SetToBag, IsABag
<1>3. IsABag(new)
  <2>1. new = [m \in DOMAIN new |-> new[m]]
    BY DEF (+)
  <2> QED
    BY <1>2, <2>1 DEF IsABag
<1>4. IsFiniteSet(DOMAIN new)
  BY <1>1, FS_Union
<1> QED
  BY <1>1, <1>3, <1>4

\* Removing a mark from a finite bag of marks leaves one, without new marks,
\* and without loss of another mark.
LEMMA RemoveMark ==
  ASSUME NEW bag, IsABag(bag), DOMAIN bag \subseteq Mark, IsFiniteSet(DOMAIN bag),
         NEW m
  PROVE  LET new == bag (-) SetToBag({m})
         IN  /\ IsABag(new)
             /\ DOMAIN new \subseteq DOMAIN bag
             /\ DOMAIN bag \subseteq DOMAIN new \cup {m}
             /\ IsFiniteSet(DOMAIN new)
<1> DEFINE less == [e \in DOMAIN bag |-> IF e \in {m} THEN bag[e] - 1 ELSE bag[e]]
           new  == bag (-) SetToBag({m})
<1>1. new = [e \in {d \in DOMAIN less : less[d] > 0} |-> less[e]]
  BY DEF (-), SetToBag
<1>2. \A e \in DOMAIN bag : /\ bag[e] \in Nat /\ bag[e] > 0
                            /\ less[e] = IF e = m THEN bag[e] - 1 ELSE bag[e]
  BY DEF IsABag
<1>3. DOMAIN less = DOMAIN bag
  OBVIOUS
<1> HIDE DEF less, new
<1>4. DOMAIN new = {d \in DOMAIN bag : less[d] > 0}
  BY <1>1, <1>3
<1>5. \A e \in DOMAIN new : new[e] \in {n \in Nat : n > 0}
  BY <1>1, <1>2, <1>3
<1>6. IsABag(new)
  BY <1>1, <1>3, <1>4, <1>5 DEF IsABag
<1>7. DOMAIN bag \subseteq DOMAIN new \cup {m}
  BY <1>2, <1>4
<1>8. IsFiniteSet(DOMAIN new)
  BY <1>4, FS_Subset
<1> QED
  BY <1>4, <1>6, <1>7, <1>8 DEF new

-----------------------------------------------------------------------------
(***************************************************************************)
(* The operations on the containers.                                       *)
(***************************************************************************)
\* A finite bag has finitely many copies of its marks.
LEMMA FiniteCopies ==
  ASSUME NEW bag, IsABag(bag), IsFiniteSet(DOMAIN bag)
  PROVE  IsFiniteSet(UNION {{m} \X (1 .. bag[m]) : m \in DOMAIN bag})
<1> DEFINE copies == [m \in DOMAIN bag |-> {m} \X (1 .. bag[m])]
<1>1. IsFiniteSet({copies[m] : m \in DOMAIN bag})
  <2>1. copies = [m \in DOMAIN bag |-> copies[m]]
    OBVIOUS
  <2> HIDE DEF copies
  <2> QED
    BY <2>1, FiniteImage
<1>2. ASSUME NEW m \in DOMAIN bag
      PROVE  IsFiniteSet({m} \X (1 .. bag[m]))
  <2>1. bag[m] \in Int
    BY DEF IsABag
  <2>2. IsFiniteSet({m})
    BY FS_Singleton
  <2>3. IsFiniteSet(1 .. bag[m])
    BY <2>1, FS_Interval
  <2> QED
    BY <2>2, <2>3, FS_Product
<1>3. {copies[m] : m \in DOMAIN bag} = {{m} \X (1 .. bag[m]) : m \in DOMAIN bag}
  OBVIOUS
<1> QED
  BY <1>1, <1>2, <1>3, FS_UNION

\* A multimap's size is a natural number.
LEMMA SizeType ==
  ASSUME NEW r, RoutesOK(r)
  PROVE  Size(r.pendingExpires) \in Nat
BY FiniteCopies, FS_CardinalityType DEF RoutesOK, Size

\* _FinalizeRouteInsert keeps the containers consistent and never changes
\* the expiration time of an address that has one; an address without gets
\* the minimum lease.
LEMMA FinalizeRouteInsertGood ==
  ASSUME NEW r, Good(r), NEW S \in SUBSET Dests, NEW now \in Nat,
         NEW new, new = FinalizeRouteInsert(r, S, now)
  PROVE  /\ Good(new)
         /\ \A d \in Dests : Expiration(new, d) =
              IF d \in S /\ d \notin Managed(r) THEN now + ExtraTTL ELSE Expiration(r, d)
         /\ TriesBounded(r) => TriesBounded(new)
         /\ new.pendingRetries = Erase(r.pendingRetries, {d \in S : Has(r.pendingInserts, d)})
<1> DEFINE T == {d \in S : Has(r.pendingInserts, d) \/ ~Has(r.activeRoutes, d)}
           e == [d \in Dests |-> IF Has(r.pendingInserts, d) THEN r.pendingInserts[d]
                                                             ELSE now + ExtraTTL]
           P == {d \in T : Has(r.pendingInserts, d)}
           marks == {[at |-> e[d], dest |-> d] : d \in T}
<1>1. /\ r.pendingInserts \in AddressMap /\ r.pendingRetries \in AddressMap
      /\ r.activeRoutes \in AddressMap
  BY DEF Good, RoutesOK
<1>2. e \in [Dests -> Nat]
  BY <1>1, ParametersAssumption DEF AddressMap, Has, Absent
<1>3. /\ new = [pendingInserts |-> new.pendingInserts, pendingRetries |-> new.pendingRetries,
                activeRoutes |-> new.activeRoutes, pendingExpires |-> new.pendingExpires]
      /\ new.pendingInserts = Erase(r.pendingInserts, P)
      /\ new.pendingRetries = Erase(r.pendingRetries, P)
      /\ new.activeRoutes = [d \in Dests |-> IF d \in T THEN e[d] ELSE r.activeRoutes[d]]
  BY DEF FinalizeRouteInsert
<1>4. new.pendingExpires = r.pendingExpires (+) SetToBag(marks)
  <2>1. marks = {[at |-> IF Has(r.pendingInserts, d) THEN r.pendingInserts[d]
                                                     ELSE now + ExtraTTL,
                  dest |-> d] : d \in T}
    OBVIOUS
  <2> HIDE DEF marks
  <2> QED
    BY <2>1 DEF FinalizeRouteInsert
<1>5. marks \in SUBSET Mark /\ IsFiniteSet(marks)
  <2> DEFINE f == [d \in T |-> [at |-> e[d], dest |-> d]]
  <2>1. \A d \in T : [at |-> e[d], dest |-> d] \in Mark
    <3> HIDE DEF e
    <3> QED
      BY <1>2 DEF Mark
  <2>2. IsFiniteSet(T)
    BY FiniteDests
  <2>3. {f[d] : d \in T} = marks
    OBVIOUS
  <2>4. f = [d \in T |-> f[d]]
    OBVIOUS
  <2> HIDE DEF f, T
  <2>5. IsFiniteSet({f[d] : d \in T})
    BY <2>2, <2>4, FiniteImage
  <2> QED
    BY <2>1, <2>3, <2>5
<1> HIDE DEF e, marks
<1>6. /\ IsABag(new.pendingExpires)
      /\ DOMAIN new.pendingExpires = DOMAIN r.pendingExpires \cup marks
      /\ DOMAIN new.pendingExpires \subseteq Mark
      /\ IsFiniteSet(DOMAIN new.pendingExpires)
  BY <1>4, <1>5, AddMarks DEF Good, RoutesOK
<1>7. /\ new.pendingInserts \in AddressMap /\ new.pendingRetries \in AddressMap
      /\ new.activeRoutes \in AddressMap
  BY <1>1, <1>2, <1>3 DEF AddressMap, Erase, Absent
<1>8. RoutesOK(new)
  BY <1>3, <1>6, <1>7 DEF RoutesOK
<1>9. OnePlaceOnly(new)
  BY <1>1, <1>2, <1>3 DEF Good, OnePlaceOnly, Erase, Has, AddressMap, Absent
<1>10. Marked(new)
  BY <1>2, <1>3, <1>6 DEF Good, Marked, Has, marks
<1>11. \A d \in Dests : Expiration(new, d) =
          IF d \in S /\ d \notin Managed(r) THEN now + ExtraTTL ELSE Expiration(r, d)
  BY <1>1, <1>2, <1>3
     DEF Good, OnePlaceOnly, Erase, Has, AddressMap, Expiration, Managed, e, Absent
<1>12. TriesBounded(r) => TriesBounded(new)
  BY <1>3 DEF TriesBounded, Has, Erase
<1>13. new.pendingRetries = Erase(r.pendingRetries, {d \in S : Has(r.pendingInserts, d)})
  <2>1. P = {d \in S : Has(r.pendingInserts, d)}
    OBVIOUS
  <2> QED
    BY <1>3, <2>1
<1> QED
  BY <1>8, <1>9, <1>10, <1>11, <1>12, <1>13 DEF Good

\* _FinalizeRouteDelete keeps the containers consistent and no expiration
\* time changes.
LEMMA FinalizeRouteDeleteGood ==
  ASSUME NEW r, Good(r), NEW S \in SUBSET Dests,
         NEW new, new = FinalizeRouteDelete(r, S)
  PROVE  /\ Good(new)
         /\ \A d \in Dests : Expiration(new, d) = Expiration(r, d)
         /\ TriesBounded(r) => TriesBounded(new)
<1> DEFINE T == {d \in S : Has(r.activeRoutes, d)}
<1>1. /\ r.pendingInserts \in AddressMap /\ r.pendingRetries \in AddressMap
      /\ r.activeRoutes \in AddressMap
      /\ r = [pendingInserts |-> r.pendingInserts, pendingRetries |-> r.pendingRetries,
              activeRoutes |-> r.activeRoutes, pendingExpires |-> r.pendingExpires]
  BY DEF Good, RoutesOK
<1>2. /\ new = [pendingInserts |-> new.pendingInserts, pendingRetries |-> new.pendingRetries,
                activeRoutes |-> new.activeRoutes, pendingExpires |-> new.pendingExpires]
      /\ new.pendingInserts = [d \in Dests |-> IF d \in T /\ ~Has(r.pendingInserts, d)
                                               THEN r.activeRoutes[d]
                                               ELSE r.pendingInserts[d]]
      /\ new.pendingRetries = Erase(r.pendingRetries, T)
      /\ new.activeRoutes = Erase(r.activeRoutes, T)
      /\ new.pendingExpires = r.pendingExpires
  BY <1>1 DEF FinalizeRouteDelete
<1>3. RoutesOK(new)
  BY <1>1, <1>2 DEF Good, RoutesOK, AddressMap, Erase, Has, Absent
<1>4. OnePlaceOnly(new)
  BY <1>1, <1>2 DEF Good, OnePlaceOnly, AddressMap, Erase, Has, Absent
<1>5. Marked(new)
  BY <1>2 DEF Good, Marked, Erase, Has
<1>6. \A d \in Dests : Expiration(new, d) = Expiration(r, d)
  BY <1>1, <1>2 DEF Good, OnePlaceOnly, Expiration, AddressMap, Erase, Has, Absent
<1>7. TriesBounded(r) => TriesBounded(new)
  BY <1>2 DEF TriesBounded, Has, Erase
<1> QED
  BY <1>3, <1>4, <1>5, <1>6, <1>7 DEF Good

\* Counting a try of pending addresses leaves the rest as it is.
LEMMA CountTryGood ==
  ASSUME NEW r, Good(r), NEW S \in SUBSET {d \in Dests : Has(r.pendingInserts, d)},
         NEW new, new = CountTry(r, S)
  PROVE  /\ Good(new)
         /\ \A d \in Dests : Expiration(new, d) = Expiration(r, d)
         /\ new.pendingInserts = r.pendingInserts
         /\ (/\ TriesBounded(r)
             /\ \A d \in S : Has(r.pendingRetries, d) => r.pendingRetries[d] < AddRetryCount)
            => TriesBounded(new)
<1>1. /\ r.pendingInserts \in AddressMap /\ r.pendingRetries \in AddressMap
      /\ r.activeRoutes \in AddressMap
      /\ r = [pendingInserts |-> r.pendingInserts, pendingRetries |-> r.pendingRetries,
              activeRoutes |-> r.activeRoutes, pendingExpires |-> r.pendingExpires]
  BY DEF Good, RoutesOK
<1>2. /\ new = [pendingInserts |-> r.pendingInserts, pendingRetries |-> new.pendingRetries,
                activeRoutes |-> r.activeRoutes, pendingExpires |-> r.pendingExpires]
      /\ new.pendingRetries =
           [d \in Dests |-> IF d \notin S THEN r.pendingRetries[d]
                            ELSE IF Has(r.pendingRetries, d) THEN r.pendingRetries[d] + 1 ELSE 2]
  BY <1>1 DEF CountTry
<1>3. new.pendingRetries \in AddressMap
  BY <1>1, <1>2 DEF AddressMap, Has, Absent
<1>4. RoutesOK(new)
  BY <1>1, <1>2, <1>3 DEF Good, RoutesOK
<1>5. OnePlaceOnly(new)
  BY <1>1, <1>2 DEF Good, OnePlaceOnly, AddressMap, Has, Absent
<1>6. Marked(new)
  BY <1>2 DEF Good, Marked
<1>7. ASSUME TriesBounded(r),
             \A d \in S : Has(r.pendingRetries, d) => r.pendingRetries[d] < AddRetryCount
      PROVE  TriesBounded(new)
  BY <1>1, <1>2, <1>7, ParametersAssumption DEF TriesBounded, Has, AddressMap, Absent
<1>8. new.pendingInserts = r.pendingInserts
      /\ \A d \in Dests : Expiration(new, d) = Expiration(r, d)
  BY <1>2 DEF Expiration
<1> QED
  BY <1>4, <1>5, <1>6, <1>7, <1>8 DEF Good

\* The requests of _ProcessPendingInserts are add requests for the addresses
\* it retries.
LEMMA RetryRequestsType ==
  ASSUME NEW S \in SUBSET Dests, NEW q \in RetryRequests(S)
  PROVE  /\ q \in Seq(Request)
         /\ \A i \in DOMAIN q : q[i].type \in {"addBlackhole", "addUnicast"} /\ q[i].dest \in S
<1> DEFINE n == Cardinality(S)
<1>1. n \in Nat
  BY FiniteDests
<1> HIDE DEF n
<1>2. PICK order \in [1 .. n -> S] :
        q = [i \in 1 .. 2 * n |->
               [type |-> IF i % 2 = 1 THEN "addBlackhole" ELSE "addUnicast",
                dest |-> order[(i + 1) \div 2]]]
  BY DEF RetryRequests, n
<1>3. \A i \in 1 .. 2 * n : (i + 1) \div 2 \in 1 .. n
  BY <1>1
<1>4. \A i \in 1 .. 2 * n : /\ q[i] \in Request
                            /\ q[i].type \in {"addBlackhole", "addUnicast"}
                            /\ q[i].dest \in S
  BY <1>2, <1>3 DEF Request
<1>5. q \in [1 .. 2 * n -> Request]
  BY <1>2, <1>4
<1>6. 2 * n \in Nat
  BY <1>1
<1>7. q \in Seq(Request)
  BY <1>5, <1>6
<1> QED
  BY <1>4, <1>5, <1>7

\* _ProcessPendingInserts keeps the containers consistent, changes no
\* expiration time, respects the bound on tries, and sends only on an open
\* socket, only what the containers it leaves behind ask for.
LEMMA ProcessPendingInsertsGood ==
  ASSUME NEW r, Good(r), NEW cfg, curTime \in Nat, ProcessPendingInserts(r, cfg)
  PROVE  /\ Good(routes')
         /\ \A d \in Dests : Expiration(routes', d) = Expiration(r, d)
         /\ TriesBounded(r) => TriesBounded(routes')
         /\ netlink' \in Seq(Request)
         /\ netlink' # <<>> => started
         /\ \A i \in DOMAIN netlink' : RequestMatches(netlink'[i], routes', cfg)
<1>1. CASE ~MayPush(cfg)
  <2>1. routes' = r /\ netlink' = <<>>
    BY <1>1 DEF ProcessPendingInserts
  <2> QED
    BY <2>1
<1>2. CASE MayPush(cfg)
  <2> DEFINE given     == GivenUp(r, cfg)
             installed == FinalizeRouteInsert(r, given, curTime)
             retried   == Retried(installed, cfg)
  <2>1. routes' = CountTry(installed, retried) /\ netlink' \in RetryRequests(retried)
    BY <1>2 DEF ProcessPendingInserts
  <2>2. given \in SUBSET Dests /\ given \subseteq Managed(r)
    BY DEF GivenUp, Managed, Good, OnePlaceOnly
  <2>3. given = {d \in Dests : /\ Has(r.pendingRetries, d)
                               /\ r.pendingRetries[d] >= AddRetryCount
                               /\ FamilyAvail(cfg, d)}
    BY DEF GivenUp
  <2>4. retried = {d \in Dests : Has(installed.pendingInserts, d) /\ FamilyAvail(cfg, d)}
    BY DEF Retried
  <2> HIDE DEF given, installed, retried
  <2>5. /\ Good(installed)
        /\ \A d \in Dests : Expiration(installed, d) = Expiration(r, d)
        /\ TriesBounded(r) => TriesBounded(installed)
        /\ installed.pendingRetries =
             Erase(r.pendingRetries, {d \in given : Has(r.pendingInserts, d)})
    <3>1. installed = FinalizeRouteInsert(r, given, curTime)
      BY DEF installed
    <3>2. Good(installed) /\ (TriesBounded(r) => TriesBounded(installed))
      BY <2>2, <3>1, FinalizeRouteInsertGood
    <3>3. \A d \in Dests : Expiration(installed, d) = Expiration(r, d)
      BY <2>2, <3>1, FinalizeRouteInsertGood
    <3>4. installed.pendingRetries =
            Erase(r.pendingRetries, {d \in given : Has(r.pendingInserts, d)})
      BY <2>2, <3>1, FinalizeRouteInsertGood
    <3> QED
      BY <3>2, <3>3, <3>4
  <2>6. ASSUME NEW d \in retried, Has(installed.pendingRetries, d)
        PROVE  installed.pendingRetries[d] < AddRetryCount
    <3>1. /\ r.pendingRetries[d] \in Nat
          /\ Has(r.pendingRetries, d) /\ Has(r.pendingInserts, d)
          /\ installed.pendingRetries[d] = r.pendingRetries[d]
      BY <2>4, <2>5, <2>6
         DEF Good, RoutesOK, OnePlaceOnly, AddressMap, Erase, Has, Absent
    <3>2. d \notin given
      BY <2>4, <2>5, <2>6, <3>1 DEF Erase, Has
    <3> QED
      BY <2>3, <2>4, <3>1, <3>2, ParametersAssumption
  <2>7. /\ Good(routes')
        /\ \A d \in Dests : Expiration(routes', d) = Expiration(installed, d)
        /\ routes'.pendingInserts = installed.pendingInserts
        /\ TriesBounded(installed) => TriesBounded(routes')
    BY <2>1, <2>4, <2>5, <2>6, CountTryGood
  <2>8. /\ netlink' \in Seq(Request)
        /\ \A i \in DOMAIN netlink' : /\ netlink'[i].type \in {"addBlackhole", "addUnicast"}
                                      /\ netlink'[i].dest \in retried
    BY <2>1, <2>4, RetryRequestsType
  <2>9. \A i \in DOMAIN netlink' : RequestMatches(netlink'[i], routes', cfg)
    BY <2>4, <2>7, <2>8 DEF RequestMatches
  <2> QED
    BY <1>2, <2>5, <2>7, <2>8, <2>9 DEF MayPush
<1> QED
  BY <1>1, <1>2

-----------------------------------------------------------------------------
(***************************************************************************)
(* The inductive invariant.  Requests are on the socket only while a       *)
(* thread holds the lock, and the socket is open from Startup to Shutdown: *)
(* no handler can change the containers before the requests it would       *)
(* contradict are taken.                                                   *)
(***************************************************************************)
Control ==
  /\ started <=> worker \in {"head", "sleep", "manage", "stale", "done"}
  /\ netlink # <<>> => started /\ ~LockFree

IInv ==
  /\ TypeOK
  /\ PendingXorActive
  /\ ActiveRouteHasItsMark
  /\ RetryBudget
  /\ RequestsMatchState
  /\ Control

\* The part of the invariant that is about the containers alone.
Consistent(r) == Good(r) /\ TriesBounded(r)

LEMMA ConsistentRoutes == IInv => Consistent(routes) /\ curTime \in Nat
BY DEF IInv, TypeOK, PendingXorActive, ActiveRouteHasItsMark, RetryBudget, Consistent, Good

\* The constructor establishes the invariant.
LEMMA InitInv == Init => IInv
<1> SUFFICES ASSUME Init PROVE IInv
  OBVIOUS
<1>1. routes = NoRoutes /\ netlink = <<>> /\ worker = "none" /\ started = FALSE
  BY DEF Init
<1>2. RoutesOK(routes)
  <2>1. NoRoutes.pendingExpires = EmptyBag
    BY DEF NoRoutes
  <2>2. DOMAIN EmptyBag = {} /\ IsABag(EmptyBag)
    BY DEF EmptyBag, SetToBag, IsABag
  <2> HIDE DEF EmptyBag
  <2>3. IsFiniteSet(DOMAIN EmptyBag)
    BY <2>2, FS_EmptySet
  <2> QED
    BY <1>1, <2>1, <2>2, <2>3 DEF RoutesOK, NoRoutes, AddressMap, Absent
<1>3. OnePlaceOnly(routes) /\ Marked(routes) /\ TriesBounded(routes)
  BY <1>1 DEF OnePlaceOnly, Marked, TriesBounded, NoRoutes, Has, Absent
<1>4. TypeOK
  <2>1. ifCfg \in Config(LocalIPs)
    BY DEF Init, Config, EmptyConfig
  <2>2. netlink \in Seq(Request)
    BY <1>1
  <2>3. /\ curTime \in Nat /\ prev \in Nat /\ remCnt \in Nat
        /\ started \in BOOLEAN /\ shutdownPending \in BOOLEAN
        /\ caller \in [Callers -> {"idle", "ready", "inside"}]
    BY DEF Init
  <2> QED
    BY <1>1, <1>2, <2>1, <2>2, <2>3 DEF TypeOK
<1>5. RequestsMatchState
  BY <1>1 DEF RequestsMatchState
<1>6. Control
  BY <1>1 DEF Control
<1> QED
  BY <1>3, <1>4, <1>5, <1>6
     DEF IInv, PendingXorActive, ActiveRouteHasItsMark, RetryBudget

\* A step that leaves containers, socket and configuration alone preserves
\* the invariant if it keeps the types and the control part.
LEMMA OtherStep ==
  ASSUME IInv, UNCHANGED <<routes, netlink, ifCfg>>, TypeOK', Control'
  PROVE  IInv'
<1>1. PendingXorActive' /\ ActiveRouteHasItsMark' /\ RetryBudget'
  BY DEF IInv, PendingXorActive, ActiveRouteHasItsMark, RetryBudget
<1>2. RequestsMatchState'
  BY DEF IInv, RequestsMatchState
<1> QED
  BY <1>1, <1>2 DEF IInv

\* Startup and shutdown preserve the invariant.
LEMMA LifecycleInv ==
  ASSUME IInv, Startup \/ StartupFails \/ OnShutdown \/ Shutdown
  PROVE  IInv'
<1>1. TypeOK /\ Control
  BY DEF IInv
<1>2. UNCHANGED <<routes, netlink, ifCfg>>
  BY DEF Startup, StartupFails, OnShutdown, Shutdown
<1>3. TypeOK'
  BY <1>1 DEF TypeOK, Startup, StartupFails, OnShutdown, Shutdown
<1>4. Control'
  <2>1. CASE Startup
    BY <1>1, <2>1 DEF Control, Startup, LockFree, TypeOK
  <2>2. CASE StartupFails
    BY <1>1, <2>2 DEF Control, StartupFails, LockFree, TypeOK
  <2>3. CASE OnShutdown
    BY <1>1, <2>3 DEF Control, OnShutdown, LockFree, TypeOK
  <2>4. CASE Shutdown
    BY <1>1, <2>4 DEF Control, Shutdown, LockFree, TypeOK
  <2> QED
    BY <2>1, <2>2, <2>3, <2>4
<1> QED
  BY <1>2, <1>3, <1>4, OtherStep

\* The worker's steps outside ManageRoutes preserve the invariant, and so do
\* the steps of the senders outside the handlers.
LEMMA OutsideInv ==
  ASSUME IInv,
         \/ WorkerLoopHead \/ WorkerTick \/ StaleReturn \/ AnswerBeyondBounds
         \/ \E t \in Callers : ReadyForMessage(t) \/ Return(t)
  PROVE  IInv'
<1>1. TypeOK /\ Control
  BY DEF IInv
<1>2. UNCHANGED <<routes, netlink, ifCfg>>
  BY DEF WorkerLoopHead, WorkerTick, StaleReturn, AnswerBeyondBounds, ReadyForMessage, Return
<1>3. TypeOK' /\ Control'
  <2>1. CASE WorkerLoopHead
    BY <1>1, <2>1 DEF Control, WorkerLoopHead, LockFree, TypeOK
  <2>2. CASE WorkerTick
    <3>1. curTime' \in Nat
      BY <1>1, <2>2, InputsAssumption DEF TypeOK, WorkerTick
    <3> QED
      BY <1>1, <2>2, <3>1 DEF Control, WorkerTick, LockFree, TypeOK
  <2>3. CASE StaleReturn
    BY <1>1, <2>3 DEF Control, StaleReturn, LockFree, TypeOK
  <2>4. CASE AnswerBeyondBounds
    BY <1>1, <2>4 DEF Control, AnswerBeyondBounds, LockFree, TypeOK
  <2>5. ASSUME NEW t \in Callers, ReadyForMessage(t) PROVE TypeOK' /\ Control'
    BY <1>1, <2>5 DEF Control, ReadyForMessage, LockFree, TypeOK
  <2>6. ASSUME NEW t \in Callers, Return(t) PROVE TypeOK' /\ Control'
    BY <1>1, <2>6 DEF Control, Return, LockFree, TypeOK
  <2> QED
    BY <2>1, <2>2, <2>3, <2>4, <2>5, <2>6
<1> QED
  BY <1>2, <1>3, OtherStep

\* The steps that change the containers preserve the invariant if they leave
\* consistent containers and matching requests behind.
LEMMA LockedStep ==
  ASSUME IInv, Consistent(routes'), TypeOK', Control', RequestsMatchState'
  PROVE  IInv'
BY DEF IInv, Consistent, Good, PendingXorActive, ActiveRouteHasItsMark, RetryBudget

\* While the lock is free nothing is on the socket.
LEMMA FreeSocket == IInv /\ LockFree => netlink = <<>>
BY DEF IInv, Control

\* Powers of 2 are positive: 2^k counts the subsets of 1 .. k.
LEMMA Power == ASSUME NEW k \in Nat PROVE 2^k \in Nat \ {0}
<1>1. IsFiniteSet(1 .. k) /\ Cardinality(1 .. k) = k
  BY FS_Interval
<1>2. IsFiniteSet(SUBSET (1 .. k)) /\ Cardinality(SUBSET (1 .. k)) = 2^k
  BY <1>1, FS_SUBSET
<1>3. 2^k \in Nat
  BY <1>2, FS_CardinalityType
<1>4. 2^k # 0
  BY <1>2, FS_EmptySet
<1>. QED  BY <1>3, <1>4

\* The error of a rounding to an integer is at most a half.
LEMMA RoundBound ==
  ASSUME NEW x \in Nat, NEW e \in Nat \ {0}
  PROVE  /\ Round(x, e) \in Nat
         /\ 2 * (e * Round(x, e)) <= 2 * x + e
         /\ 2 * x <= 2 * (e * Round(x, e)) + e
<1> DEFINE b == x \div e
           r == x % e
<1>1. b \in Nat /\ r \in Nat /\ x = e * b + r /\ r < e
  OBVIOUS
<1>. HIDE DEF b, r
<1>2. CASE Round(x, e) = b /\ r * 2 <= e
  BY <1>1, <1>2
<1>3. CASE Round(x, e) = b + 1 /\ r * 2 >= e
  <2>1. e * (b + 1) = e * b + e
    BY <1>1
  <2>. QED  BY <1>1, <1>3, <2>1
<1>4. (Round(x, e) = b /\ r * 2 <= e) \/ (Round(x, e) = b + 1 /\ r * 2 >= e)
  BY <1>1 DEF Round, b, r
<1>. QED  BY <1>2, <1>3, <1>4

\* A rounding to a float gives a natural number.
LEMMA NearestType ==
  ASSUME NEW x \in Nat, NEW d \in Nat \ {0}, NEW y \in Nearest(x, d)
  PROVE  y \in Nat
<1>1. PICK u \in Spacing(x \div d) : y = u * Round(x, d * u)
  BY DEF Nearest
<1>2. u \in Nat \ {0}
  <2>1. PICK k \in 0 .. 2 * FloatBits : u = 2^k
    BY <1>1 DEF Spacing
  <2>2. k \in Nat
    BY <2>1, FloatAssumption
  <2> QED
    BY <2>1, <2>2, Power
<1>3. d * u \in Nat \ {0}
  BY <1>2
<1>4. Round(x, d * u) \in Nat
  BY <1>3, RoundBound
<1> QED
  BY <1>1, <1>2, <1>4

\* The budget is a product of two roundings, and one of those a quotient.
LEMMA BudgetRoundings ==
  ASSUME NEW n \in Nat \ {0}, NEW k \in StaleBudget(n)
  PROVE  /\ Scale \in Nat \ {0}
         /\ \E c \in Nat, h \in Nat, p \in Nat :
              /\ c \in Nearest(n * Scale, 1)
              /\ h \in Nearest(c, 100)
              /\ p \in Nearest(h * MgPercent, 1)
              /\ k = IF p \div Scale < 1 THEN 1 ELSE p \div Scale
<1>1. Scale \in Nat \ {0} /\ n * Scale \in Nat
  BY Power, FloatAssumption DEF Digits, Scale
<1>2. PICK c \in Nearest(n * Scale, 1) :
        \E h \in Nearest(c, 100) : \E p \in Nearest(h * MgPercent, 1) :
          k = IF p \div Scale < 1 THEN 1 ELSE p \div Scale
  BY DEF StaleBudget
<1>3. PICK h \in Nearest(c, 100) : \E p \in Nearest(h * MgPercent, 1) :
        k = IF p \div Scale < 1 THEN 1 ELSE p \div Scale
  BY <1>2
<1>4. PICK p \in Nearest(h * MgPercent, 1) : k = IF p \div Scale < 1 THEN 1 ELSE p \div Scale
  BY <1>3
<1>5. c \in Nat
  BY <1>1, NearestType
<1>6. h \in Nat /\ h * MgPercent \in Nat
  BY <1>5, NearestType, ParametersAssumption
<1>7. p \in Nat
  BY <1>6, NearestType
<1> QED
  BY <1>1, <1>4, <1>5, <1>6, <1>7

LEMMA StaleBudgetType ==
  ASSUME NEW n \in Nat, NEW k \in StaleBudget(n)
  PROVE  k \in Nat
<1>1. CASE n = 0
  BY <1>1 DEF StaleBudget
<1>2. CASE n # 0
  <2>1. PICK p \in Nat : k = IF p \div Scale < 1 THEN 1 ELSE p \div Scale
    BY <1>2, BudgetRoundings
  <2>2. Scale \in Nat \ {0}
    BY <1>2, BudgetRoundings
  <2> QED
    BY <2>1, <2>2
<1> QED
  BY <1>1, <1>2

\* ManageRoutes preserves the invariant and no expiration time changes.
LEMMA ManageRoutesInv ==
  ASSUME IInv, ManageRoutes
  PROVE  IInv' /\ \A d \in Dests : Expiration(routes', d) = Expiration(routes, d)
<1>1. Consistent(routes) /\ curTime \in Nat
  BY ConsistentRoutes
<1>2. ProcessPendingInserts(routes, ifCfg)
  BY DEF ManageRoutes
<1>3. /\ Good(routes')
      /\ \A d \in Dests : Expiration(routes', d) = Expiration(routes, d)
      /\ TriesBounded(routes) => TriesBounded(routes')
      /\ netlink' \in Seq(Request)
      /\ netlink' # <<>> => started
      /\ \A i \in DOMAIN netlink' : RequestMatches(netlink'[i], routes', ifCfg)
  BY <1>1, <1>2, ProcessPendingInsertsGood DEF Consistent
<1>4. remCnt' \in Nat
  <2>1. Size(routes'.pendingExpires) \in Nat
    BY <1>3, SizeType DEF Good
  <2>2. remCnt' \in StaleBudget(Size(routes'.pendingExpires))
    BY DEF ManageRoutes
  <2> QED
    BY <2>1, <2>2, StaleBudgetType
<1>5. TypeOK'
  BY <1>3, <1>4 DEF IInv, TypeOK, ManageRoutes, Good
<1>6. Control'
  BY <1>3 DEF IInv, Control, ManageRoutes, LockFree
<1>7. RequestsMatchState'
  BY <1>3 DEF RequestsMatchState, ManageRoutes
<1> QED
  BY <1>1, <1>3, <1>5, <1>6, <1>7, LockedStep DEF Consistent

\* An iteration of _ProcessStaleRoutes preserves the invariant; it ends at
\* most one lease, and that one has expired.
LEMMA EvaluateMarkInv ==
  ASSUME IInv, NEW m \in DOMAIN routes.pendingExpires, EvaluateMark(m)
  PROVE  /\ IInv'
         /\ m.dest \in Dests
         /\ \A d \in Dests :
              Expiration(routes', d) = IF d = m.dest /\ Expires(m) THEN Absent
                                                                   ELSE Expiration(routes, d)
         /\ Expires(m) => /\ Expiration(routes, m.dest) # Absent
                          /\ Expiration(routes, m.dest) <= curTime
<1> DEFINE new == [routes EXCEPT
                     !.activeRoutes   = IF Expires(m) THEN Erase(@, {m.dest}) ELSE @,
                     !.pendingExpires = @ (-) SetToBag({m})]
<1>1. Consistent(routes) /\ curTime \in Nat
  BY ConsistentRoutes
<1>2. /\ routes.pendingInserts \in AddressMap /\ routes.pendingRetries \in AddressMap
      /\ routes.activeRoutes \in AddressMap
      /\ routes = [pendingInserts |-> routes.pendingInserts,
                   pendingRetries |-> routes.pendingRetries,
                   activeRoutes |-> routes.activeRoutes,
                   pendingExpires |-> routes.pendingExpires]
      /\ m \in Mark
  BY <1>1 DEF Consistent, Good, RoutesOK
<1>3. /\ routes' = [pendingInserts |-> routes.pendingInserts,
                    pendingRetries |-> routes.pendingRetries,
                    activeRoutes |-> IF Expires(m) THEN Erase(routes.activeRoutes, {m.dest})
                                                   ELSE routes.activeRoutes,
                    pendingExpires |-> routes.pendingExpires (-) SetToBag({m})]
      /\ worker = "stale" /\ worker' = worker /\ started' = started /\ caller' = caller
      /\ m.at <= curTime
  BY <1>2 DEF EvaluateMark
<1>4. /\ IsABag(routes'.pendingExpires)
      /\ DOMAIN routes'.pendingExpires \subseteq DOMAIN routes.pendingExpires
      /\ DOMAIN routes.pendingExpires \subseteq DOMAIN routes'.pendingExpires \cup {m}
      /\ IsFiniteSet(DOMAIN routes'.pendingExpires)
  BY <1>1, <1>3, RemoveMark DEF Consistent, Good, RoutesOK
<1>5. RoutesOK(routes')
  <2>1. DOMAIN routes'.pendingExpires \subseteq Mark
    BY <1>1, <1>4 DEF Consistent, Good, RoutesOK
  <2>2. routes'.activeRoutes \in AddressMap
    BY <1>2, <1>3 DEF AddressMap, Erase, Absent
  <2> QED
    BY <1>2, <1>3, <1>4, <2>1, <2>2 DEF RoutesOK
<1>6. OnePlaceOnly(routes') /\ TriesBounded(routes')
  BY <1>1, <1>3 DEF Consistent, Good, OnePlaceOnly, TriesBounded, Erase, Has
<1>7. Marked(routes')
  <2> SUFFICES ASSUME NEW d \in Dests, Has(routes'.activeRoutes, d)
               PROVE  [at |-> routes'.activeRoutes[d], dest |-> d]
                        \in DOMAIN routes'.pendingExpires
    BY DEF Marked
  <2>1. Has(routes.activeRoutes, d) /\ routes'.activeRoutes[d] = routes.activeRoutes[d]
    BY <1>3 DEF Has, Erase
  <2>2. [at |-> routes.activeRoutes[d], dest |-> d] \in DOMAIN routes.pendingExpires
    BY <1>1, <2>1 DEF Consistent, Good, Marked
  <2>3. [at |-> routes.activeRoutes[d], dest |-> d] # m
    <3>1. CASE Expires(m)
      BY <1>3, <3>1 DEF Has, Erase
    <3>2. CASE ~Expires(m)
      BY <1>2, <2>1, <3>2 DEF Expires, Mark, AddressMap, Absent, Has
    <3> QED
      BY <3>1, <3>2
  <2> QED
    BY <1>4, <2>1, <2>2, <2>3
<1>8. m.dest \in Dests
  BY <1>2 DEF Mark
<1>9. /\ netlink' \in Seq(Request)
      /\ \A i \in DOMAIN netlink' : /\ netlink'[i].type \in {"delUnicast", "delBlackhole"}
                                    /\ netlink'[i].dest = m.dest /\ Expires(m)
  <2>1. CASE ~Expires(m)
    BY <2>1 DEF EvaluateMark
  <2>2. CASE Expires(m)
    BY <1>8, <2>2 DEF EvaluateMark, Request
  <2> QED
    BY <2>1, <2>2
<1>10. TypeOK'
  BY <1>5, <1>9 DEF IInv, TypeOK, EvaluateMark, LoopGoesOn
<1>11. Control'
  BY <1>3 DEF IInv, Control, LockFree
<1>12. RequestsMatchState'
  BY <1>1, <1>3, <1>8, <1>9
     DEF RequestsMatchState, RequestMatches, Managed, Expires, Consistent, Good,
         OnePlaceOnly, Erase, Has
<1>13. IInv'
  BY <1>5, <1>6, <1>7, <1>10, <1>11, <1>12, LockedStep DEF Consistent, Good
<1>14. \A d \in Dests :
         Expiration(routes', d) = IF d = m.dest /\ Expires(m) THEN Absent
                                                              ELSE Expiration(routes, d)
  BY <1>1, <1>3 DEF Expiration, Expires, Erase, Has, Consistent, Good, OnePlaceOnly
<1>15. ASSUME Expires(m)
       PROVE  Expiration(routes, m.dest) # Absent /\ Expiration(routes, m.dest) <= curTime
  BY <1>1, <1>2, <1>3, <1>8, <1>15 DEF Expiration, Expires, Has, Mark, AddressMap, Absent
<1> QED
  BY <1>8, <1>13, <1>14, <1>15

\* A handler holds the lock when its step is done.
LEMMA HandlerControl ==
  ASSUME IInv, NEW t \in Callers, Enter(t), netlink' # <<>> => started,
         UNCHANGED <<started, worker>>
  PROVE  /\ Control'
         /\ caller' \in [Callers -> {"idle", "ready", "inside"}]
         /\ netlink = <<>>
<1>1. caller' \in [Callers -> {"idle", "ready", "inside"}]
  BY DEF IInv, TypeOK, Enter
<1>2. caller'[t] = "inside"
  BY DEF IInv, TypeOK, Enter
<1>3. netlink = <<>>
  BY FreeSocket DEF Enter
<1> QED
  BY <1>1, <1>2, <1>3 DEF IInv, Control, LockFree

\* InsertRoute, on whichever path, preserves the invariant and moves the
\* expiration time to the later of the old one and the new one.
LEMMA InsertRouteInv ==
  ASSUME IInv, NEW dest \in Dests, NEW ttl \in TTLs, InsertRoute(dest, ttl)
  PROVE  /\ IInv'
         /\ \A d \in Dests :
              Expiration(routes', d) =
                IF d = dest /\ Expiration(routes, d) < curTime + ttl + ExtraTTL
                THEN curTime + ttl + ExtraTTL ELSE Expiration(routes, d)
<1> DEFINE new == curTime + ttl + ExtraTTL
<1>1. Consistent(routes) /\ curTime \in Nat
  BY ConsistentRoutes
<1>2. /\ routes.pendingInserts \in AddressMap /\ routes.pendingRetries \in AddressMap
      /\ routes.activeRoutes \in AddressMap
      /\ routes = [pendingInserts |-> routes.pendingInserts,
                   pendingRetries |-> routes.pendingRetries,
                   activeRoutes |-> routes.activeRoutes,
                   pendingExpires |-> routes.pendingExpires]
  BY <1>1 DEF Consistent, Good, RoutesOK
<1>3. new \in Nat
  BY <1>1, ParametersAssumption, InputsAssumption
<1>4. /\ Enter("dns")
      /\ UNCHANGED <<curTime, started, shutdownPending, worker, prev, remCnt, ifCfg>>
      /\ ExtendActive(dest, new) \/ PushRoute(dest, new)
  BY DEF InsertRoute
<1> HIDE DEF new
<1>5. CASE ExtendActive(dest, new)
  <2>1. netlink' = <<>> /\ Has(routes.activeRoutes, dest)
    BY <1>5 DEF ExtendActive
  <2>2. Control' /\ caller' \in [Callers -> {"idle", "ready", "inside"}]
    BY <1>4, <2>1, HandlerControl DEF Callers
  <2>3. CASE routes.activeRoutes[dest] < new
    <3> DEFINE mark == [at |-> new, dest |-> dest]
    <3>1. routes' = [pendingInserts |-> routes.pendingInserts,
                     pendingRetries |-> routes.pendingRetries,
                     activeRoutes |-> [routes.activeRoutes EXCEPT ![dest] = new],
                     pendingExpires |-> routes.pendingExpires (+) SetToBag({mark})]
      BY <1>2, <1>5, <2>3 DEF ExtendActive
    <3>2. {mark} \in SUBSET Mark /\ IsFiniteSet({mark})
      <4>1. mark \in Mark
        BY <1>3 DEF Mark
      <4> HIDE DEF mark
      <4>2. IsFiniteSet({mark})
        BY FS_Singleton
      <4> QED
        BY <4>1, <4>2
    <3> HIDE DEF mark
    <3>3. /\ IsABag(routes'.pendingExpires)
          /\ DOMAIN routes'.pendingExpires = DOMAIN routes.pendingExpires \cup {mark}
          /\ DOMAIN routes'.pendingExpires \subseteq Mark
          /\ IsFiniteSet(DOMAIN routes'.pendingExpires)
      BY <1>1, <3>1, <3>2, AddMarks DEF Consistent, Good, RoutesOK
    <3>4. RoutesOK(routes')
      BY <1>2, <1>3, <3>1, <3>3 DEF RoutesOK, AddressMap
    <3>5. OnePlaceOnly(routes') /\ TriesBounded(routes') /\ Marked(routes')
      BY <1>1, <1>2, <1>3, <2>1, <3>1, <3>3
         DEF Consistent, Good, OnePlaceOnly, TriesBounded, Marked, Has, AddressMap, mark
    <3>6. TypeOK' /\ RequestsMatchState'
      BY <1>4, <2>1, <2>2, <3>4 DEF IInv, TypeOK, RequestsMatchState
    <3>7. IInv'
      BY <2>2, <3>4, <3>5, <3>6, LockedStep DEF Consistent, Good
    <3>8. \A d \in Dests :
            Expiration(routes', d) = IF d = dest /\ Expiration(routes, d) < new
                                     THEN new ELSE Expiration(routes, d)
      BY <1>2, <1>3, <2>1, <2>3, <3>1 DEF Expiration, Has, AddressMap, Absent
    <3> QED
      BY <3>7, <3>8 DEF new
  <2>4. CASE ~(routes.activeRoutes[dest] < new)
    <3>1. routes' = routes
      BY <1>5, <2>4 DEF ExtendActive
    <3>2. TypeOK' /\ RequestsMatchState'
      BY <1>4, <2>1, <2>2, <3>1 DEF IInv, TypeOK, RequestsMatchState
    <3>3. IInv'
      BY <1>1, <2>2, <3>1, <3>2, LockedStep
    <3> QED
      BY <2>1, <2>4, <3>1, <3>3 DEF Expiration, new
  <2> QED
    BY <2>3, <2>4
<1>6. CASE PushRoute(dest, new)
  <2>1. /\ ~Has(routes.activeRoutes, dest)
        /\ routes' = IF routes.pendingInserts[dest] < new
                     THEN [pendingInserts |-> [routes.pendingInserts EXCEPT ![dest] = new],
                           pendingRetries |-> Erase(routes.pendingRetries, {dest}),
                           activeRoutes |-> routes.activeRoutes,
                           pendingExpires |-> routes.pendingExpires]
                     ELSE routes
    <3>1. routes.pendingInserts[dest] < new =>
            routes' = [routes EXCEPT !.pendingInserts = [@ EXCEPT ![dest] = new],
                                     !.pendingRetries = Erase(@, {dest})]
      BY <1>6 DEF PushRoute
    <3>2. ~(routes.pendingInserts[dest] < new) => routes' = routes
      BY <1>6 DEF PushRoute
    <3>3. ~Has(routes.activeRoutes, dest)
      BY <1>6 DEF PushRoute
    <3> QED
      BY <1>2, <3>1, <3>2, <3>3
  <2>2. /\ netlink' \in Seq(Request)
        /\ netlink' # <<>> => started
        /\ \A i \in DOMAIN netlink' :
             /\ netlink'[i].type \in {"addBlackhole", "addUnicast"}
             /\ netlink'[i].dest = dest
             /\ netlink'[i].type = "addUnicast" => FamilyAvail(ifCfg, dest)
    <3> DEFINE a == [type |-> "addBlackhole", dest |-> dest]
               b == [type |-> "addUnicast", dest |-> dest]
    <3>1. netlink' = IF ~started THEN <<>>
                     ELSE IF FamilyAvail(ifCfg, dest) THEN <<a, b>> ELSE <<a>>
      BY <1>6 DEF PushRoute
    <3>2. /\ a \in Request /\ b \in Request
          /\ a.type = "addBlackhole" /\ a.dest = dest
          /\ b.type = "addUnicast" /\ b.dest = dest
      BY DEF Request
    <3> HIDE DEF a, b
    <3>3. CASE ~started
      BY <3>1, <3>3
    <3>4. CASE started /\ FamilyAvail(ifCfg, dest)
      <4>1. netlink' = <<a, b>>
        BY <3>1, <3>4
      <4> QED
        BY <3>2, <3>4, <4>1
    <3>5. CASE started /\ ~FamilyAvail(ifCfg, dest)
      <4>1. netlink' = <<a>>
        BY <3>1, <3>5
      <4> QED
        BY <3>2, <3>5, <4>1
    <3> QED
      BY <3>3, <3>4, <3>5
  <2>3. Control' /\ caller' \in [Callers -> {"idle", "ready", "inside"}]
    BY <1>4, <2>2, HandlerControl DEF Callers
  <2>4. RoutesOK(routes')
    BY <1>1, <1>2, <1>3, <2>1 DEF Consistent, Good, RoutesOK, AddressMap, Absent, Erase
  <2>5. OnePlaceOnly(routes') /\ TriesBounded(routes') /\ Marked(routes')
    BY <1>1, <1>2, <1>3, <2>1
       DEF Consistent, Good, OnePlaceOnly, TriesBounded, Marked, Has, AddressMap, Absent,
           Erase
  <2>6. Has(routes'.pendingInserts, dest)
    BY <1>2, <1>3, <2>1 DEF Has, AddressMap, Absent
  <2>7. TypeOK'
    BY <1>4, <2>2, <2>3, <2>4 DEF IInv, TypeOK
  <2>8. RequestsMatchState'
    BY <1>4, <2>2, <2>6 DEF RequestsMatchState, RequestMatches
  <2>9. IInv'
    BY <2>3, <2>4, <2>5, <2>7, <2>8, LockedStep DEF Consistent, Good
  <2>10. \A d \in Dests :
           Expiration(routes', d) = IF d = dest /\ Expiration(routes, d) < new
                                    THEN new ELSE Expiration(routes, d)
    BY <1>2, <1>3, <2>1 DEF Expiration, Has, AddressMap, Absent
  <2> QED
    BY <2>9, <2>10 DEF new
<1> QED
  BY <1>4, <1>5, <1>6

\* A confirmation preserves the invariant; it changes an expiration time only
\* by adopting an address that had none.
LEMMA ConfirmRouteAddInv ==
  ASSUME IInv, NEW dest \in Dests, ConfirmRouteAdd(dest)
  PROVE  /\ IInv'
         /\ \A d \in Dests :
              Expiration(routes', d) =
                IF d = dest /\ dest \notin Managed(routes) THEN curTime + ExtraTTL
                                                           ELSE Expiration(routes, d)
<1>1. Consistent(routes) /\ curTime \in Nat
  BY ConsistentRoutes
<1>2. /\ Enter("tracker") /\ routes' = FinalizeRouteInsert(routes, {dest}, curTime)
      /\ UNCHANGED <<curTime, started, shutdownPending, worker, prev, remCnt, ifCfg, netlink>>
  BY DEF ConfirmRouteAdd
<1>3. netlink' = <<>>
  BY <1>2, FreeSocket DEF Enter
<1>4. Control' /\ caller' \in [Callers -> {"idle", "ready", "inside"}]
  BY <1>2, <1>3, HandlerControl DEF Callers
<1>5. Good(routes') /\ (TriesBounded(routes) => TriesBounded(routes'))
  BY <1>1, <1>2, FinalizeRouteInsertGood DEF Consistent
<1>6. \A d \in Dests : Expiration(routes', d) =
        IF d \in {dest} /\ d \notin Managed(routes) THEN curTime + ExtraTTL
                                                    ELSE Expiration(routes, d)
  <2>1. {dest} \in SUBSET Dests /\ Good(routes)
    BY <1>1 DEF Consistent
  <2> SUFFICES ASSUME NEW d \in Dests
               PROVE  Expiration(routes', d) =
                        IF d \in {dest} /\ d \notin Managed(routes) THEN curTime + ExtraTTL
                                                                    ELSE Expiration(routes, d)
    OBVIOUS
  <2> QED
    BY <1>1, <1>2, <2>1, FinalizeRouteInsertGood
<1>7. TypeOK' /\ RequestsMatchState'
  BY <1>2, <1>3, <1>4, <1>5 DEF IInv, TypeOK, RequestsMatchState, Good
<1>8. IInv'
  BY <1>1, <1>4, <1>5, <1>7, LockedStep DEF Consistent
<1> QED
  BY <1>6, <1>8

\* The report of a removed route preserves the invariant and no expiration
\* time changes.
LEMMA ConfirmRouteDelInv ==
  ASSUME IInv, NEW dest \in Dests, ConfirmRouteDel(dest)
  PROVE  IInv' /\ \A d \in Dests : Expiration(routes', d) = Expiration(routes, d)
<1>1. Consistent(routes)
  BY ConsistentRoutes
<1>2. /\ Enter("tracker") /\ routes' = FinalizeRouteDelete(routes, {dest})
      /\ UNCHANGED <<curTime, started, shutdownPending, worker, prev, remCnt, ifCfg, netlink>>
  BY DEF ConfirmRouteDel
<1>3. netlink' = <<>>
  BY <1>2, FreeSocket DEF Enter
<1>4. Control' /\ caller' \in [Callers -> {"idle", "ready", "inside"}]
  BY <1>2, <1>3, HandlerControl DEF Callers
<1>5. /\ Good(routes') /\ (TriesBounded(routes) => TriesBounded(routes'))
      /\ \A d \in Dests : Expiration(routes', d) = Expiration(routes, d)
  BY <1>1, <1>2, FinalizeRouteDeleteGood DEF Consistent
<1>6. TypeOK' /\ RequestsMatchState'
  BY <1>2, <1>3, <1>4, <1>5 DEF IInv, TypeOK, RequestsMatchState, Good
<1>7. IInv'
  BY <1>1, <1>4, <1>5, <1>6, LockedStep DEF Consistent
<1> QED
  BY <1>5, <1>7

\* A report about the interface preserves the invariant and no expiration
\* time changes, whatever routes are invalidated and pushed again.
LEMMA ProcessNetDevUpdateInv ==
  ASSUME IInv, NEW newConfig \in Configs, ProcessNetDevUpdate(newConfig)
  PROVE  IInv' /\ \A d \in Dests : Expiration(routes', d) = Expiration(routes, d)
<1> DEFINE v4 == isIPV4Avail(ifCfg) /\ ~isIPV4Avail(newConfig)
           v6 == isIPV6Avail(ifCfg) /\ ~isIPV6Avail(newConfig)
           kept == InvalidateActiveRoutes(routes, v4, v6)
           lost == {d \in Dests : (v6 /\ isV6(d)) \/ (v4 /\ ~isV6(d))}
<1>1. Consistent(routes) /\ curTime \in Nat
  BY ConsistentRoutes
<1>2. /\ Enter("tracker") /\ ProcessPendingInserts(kept, newConfig) /\ ifCfg' = newConfig
      /\ UNCHANGED <<curTime, started, shutdownPending, worker, prev, remCnt>>
  BY DEF ProcessNetDevUpdate
<1>3. lost \in SUBSET Dests /\ kept = FinalizeRouteDelete(routes, lost)
  BY DEF InvalidateActiveRoutes
<1> HIDE DEF kept, lost
<1>4. /\ Good(kept) /\ (TriesBounded(routes) => TriesBounded(kept))
      /\ \A d \in Dests : Expiration(kept, d) = Expiration(routes, d)
  BY <1>1, <1>3, FinalizeRouteDeleteGood DEF Consistent
<1>5. /\ Good(routes')
      /\ \A d \in Dests : Expiration(routes', d) = Expiration(kept, d)
      /\ TriesBounded(kept) => TriesBounded(routes')
      /\ netlink' \in Seq(Request)
      /\ netlink' # <<>> => started
      /\ \A i \in DOMAIN netlink' : RequestMatches(netlink'[i], routes', newConfig)
  BY <1>1, <1>2, <1>4, ProcessPendingInsertsGood
<1>6. Control' /\ caller' \in [Callers -> {"idle", "ready", "inside"}]
  BY <1>2, <1>5, HandlerControl DEF Callers
<1>7. TypeOK'
  BY <1>2, <1>5, <1>6, InputsAssumption DEF IInv, TypeOK, Good
<1>8. RequestsMatchState'
  BY <1>2, <1>5 DEF RequestsMatchState
<1>9. IInv'
  BY <1>1, <1>4, <1>5, <1>6, <1>7, <1>8, LockedStep DEF Consistent
<1> QED
  BY <1>4, <1>5, <1>9

\* The kernel taking a request preserves the invariant.
LEMMA NetlinkSendInv ==
  ASSUME IInv, NetlinkSend
  PROVE  IInv'
<1>1. TypeOK /\ Control /\ RequestsMatchState /\ Consistent(routes)
  BY ConsistentRoutes DEF IInv
<1>2. /\ netlink \in Seq(Request) /\ netlink # <<>> /\ netlink' = Tail(netlink)
      /\ UNCHANGED <<curTime, started, shutdownPending, worker, prev, remCnt,
                     caller, ifCfg, routes>>
  BY <1>1 DEF NetlinkSend, TypeOK
<1>3. /\ netlink' \in Seq(Request)
      /\ \A i \in DOMAIN netlink' : i + 1 \in DOMAIN netlink /\ netlink'[i] = netlink[i + 1]
  BY <1>2, HeadTailProperties
<1>4. TypeOK' /\ Control'
  BY <1>1, <1>2, <1>3 DEF TypeOK, Control, LockFree
<1>5. RequestsMatchState'
  BY <1>1, <1>2, <1>3 DEF RequestsMatchState
<1> QED
  BY <1>1, <1>2, <1>4, <1>5, LockedStep

-----------------------------------------------------------------------------
(***************************************************************************)
(* The theorems.                                                           *)
(***************************************************************************)
\* Every step preserves the invariant.
LEMMA StepInv == IInv /\ [Next]_vars => IInv'
<1> SUFFICES ASSUME IInv, [Next]_vars PROVE IInv'
  OBVIOUS
<1>1. CASE Startup \/ StartupFails \/ OnShutdown \/ Shutdown
  BY <1>1, LifecycleInv
<1>2. CASE \/ WorkerLoopHead \/ WorkerTick \/ StaleReturn \/ AnswerBeyondBounds
           \/ \E t \in Callers : ReadyForMessage(t) \/ Return(t)
  BY <1>2, OutsideInv
<1>3. CASE ManageRoutes
  BY <1>3, ManageRoutesInv
<1>4. CASE \E m \in DOMAIN routes.pendingExpires : EvaluateMark(m)
  BY <1>4, EvaluateMarkInv
<1>5. CASE \E d \in Dests, ttl \in TTLs : InsertRoute(d, ttl)
  BY <1>5, InsertRouteInv
<1>6. CASE \E d \in Dests : ConfirmRouteAdd(d) \/ ConfirmRouteDel(d)
  BY <1>6, ConfirmRouteAddInv, ConfirmRouteDelInv
<1>7. CASE \E cfg \in Configs : ProcessNetDevUpdate(cfg)
  BY <1>7, ProcessNetDevUpdateInv
<1>8. CASE NetlinkSend
  BY <1>8, NetlinkSendInv
<1>9. CASE UNCHANGED vars
  <2>1. UNCHANGED <<routes, netlink, ifCfg>> /\ TypeOK' /\ Control'
    BY <1>9 DEF vars, IInv, TypeOK, Control, LockFree
  <2> QED
    BY <2>1, OtherStep
<1>10. CASE Ended
  BY <1>9, <1>10 DEF Ended
<1> QED
  BY <1>1, <1>2, <1>3, <1>4, <1>5, <1>6, <1>7, <1>8, <1>9, <1>10
     DEF Next, ManagerStep, MessageStep

THEOREM Invariant == Spec => []IInv
<1> QED
  BY InitInv, StepInv, PTL DEF Spec

\* The types hold, for every set of destinations, every schedule and any
\* number of marks.
THEOREM TypeCorrect == Spec => []TypeOK
<1>1. IInv => TypeOK
  BY DEF IInv
<1> QED
  BY <1>1, Invariant, PTL

\* The containers never contradict each other: an address is in one place,
\* tries are counted for pending ones only, and every active route will be
\* looked at by _ProcessStaleRoutes when it expires.
THEOREM ContainersAgree == Spec => [](PendingXorActive /\ ActiveRouteHasItsMark)
<1>1. IInv => PendingXorActive /\ ActiveRouteHasItsMark
  BY DEF IInv
<1> QED
  BY <1>1, Invariant, PTL

\* The tries of a route stay within the configured maximum.
THEOREM TriesStayBounded == Spec => []RetryBudget
<1>1. IInv => RetryBudget
  BY DEF IInv
<1> QED
  BY <1>1, Invariant, PTL

\* No request is written to a closed socket, and every request agrees with
\* the containers and the configuration at the moment the kernel takes it.
THEOREM RequestsAreCurrent == Spec => [](SocketOpenWhileSending /\ RequestsMatchState)
<1>1. IInv => SocketOpenWhileSending /\ RequestsMatchState
  BY DEF IInv, Control, SocketOpenWhileSending
<1> QED
  BY <1>1, Invariant, PTL

-----------------------------------------------------------------------------
(***************************************************************************)
(* The loop of _ProcessStaleRoutes.                                        *)
(***************************************************************************)
\* Removing a mark that is there removes one copy.
LEMMA SizeOfRemoval ==
  ASSUME NEW r, RoutesOK(r), NEW m \in DOMAIN r.pendingExpires,
         NEW bag, bag = r.pendingExpires (-) SetToBag({m})
  PROVE  Size(bag) = Size(r.pendingExpires) - 1
<1> DEFINE old    == r.pendingExpires
           Copies(b) == UNION {{e} \X (1 .. b[e]) : e \in DOMAIN b}
<1>1. IsABag(old) /\ IsFiniteSet(DOMAIN old)
  BY DEF RoutesOK
<1>2. m \in DOMAIN old /\ \A e \in DOMAIN old : old[e] \in Nat /\ old[e] > 0
  BY <1>1 DEF IsABag
<1>3. /\ DOMAIN bag = {e \in DOMAIN old : e # m \/ old[m] > 1}
      /\ \A e \in DOMAIN bag : bag[e] = IF e = m THEN old[m] - 1 ELSE old[e]
  BY <1>2 DEF (-), SetToBag
<1> HIDE DEF old
<1>4. Copies(bag) = Copies(old) \ {<<m, old[m]>>}
  <2>1. \A x : x \in Copies(old) <=>
               \E e \in DOMAIN old : \E i \in 1 .. old[e] : x = <<e, i>>
    OBVIOUS
  <2>2. \A x : x \in Copies(bag) <=>
               \E e \in DOMAIN bag : \E i \in 1 .. bag[e] : x = <<e, i>>
    OBVIOUS
  <2> HIDE DEF Copies
  <2>3. ASSUME NEW x \in Copies(bag)
        PROVE  x \in Copies(old) /\ x # <<m, old[m]>>
    <3>1. PICK e \in DOMAIN bag : \E i \in 1 .. bag[e] : x = <<e, i>>
      BY <2>2, <2>3
    <3>2. PICK i \in 1 .. bag[e] : x = <<e, i>>
      BY <3>1
    <3>3. e \in DOMAIN old /\ i \in 1 .. old[e] /\ (e = m => i # old[m])
      BY <1>2, <1>3, <3>2
    <3> QED
      BY <2>1, <3>2, <3>3
  <2>4. ASSUME NEW x \in Copies(old), x # <<m, old[m]>>
        PROVE  x \in Copies(bag)
    <3>1. PICK e \in DOMAIN old : \E i \in 1 .. old[e] : x = <<e, i>>
      BY <2>1, <2>4
    <3>2. PICK i \in 1 .. old[e] : x = <<e, i>>
      BY <3>1
    <3>3. e \in DOMAIN bag /\ i \in 1 .. bag[e]
      <4>1. CASE e # m
        BY <1>2, <1>3, <3>2, <4>1
      <4>2. CASE e = m
        <5>1. i \in Nat /\ old[m] \in Nat /\ i >= 1 /\ i <= old[m] /\ i # old[m]
          BY <1>2, <2>4, <3>2, <4>2
        <5>2. e \in DOMAIN bag /\ bag[e] = old[m] - 1
          BY <1>2, <1>3, <4>2, <5>1
        <5> QED
          BY <5>1, <5>2
      <4> QED
        BY <4>1, <4>2
    <3> QED
      BY <2>2, <3>2, <3>3
  <2> QED
    BY <2>3, <2>4
<1>5. <<m, old[m]>> \in Copies(old)
  BY <1>2 DEF old
<1>6. IsFiniteSet(Copies(old))
  BY <1>1, FiniteCopies
<1>7. Size(bag) = Cardinality(Copies(bag)) /\ Size(old) = Cardinality(Copies(old))
  BY DEF Size
<1> HIDE DEF Copies
<1> QED
  BY <1>4, <1>5, <1>6, <1>7, FS_RemoveElement DEF old

(***************************************************************************)
(* The budget: three roundings, each off by less than one part in Digits,  *)
(* are too few to reach n + 1 while n is small against Digits.             *)
(***************************************************************************)
\* A rounding to a float, of a number that is not too small to have all its bits.
LEMMA NearestBound ==
  ASSUME NEW x \in Nat, NEW d \in Nat \ {0}, d * Digits <= 2 * x,
         NEW y \in Nearest(x, d)
  PROVE  /\ y \in Nat
         /\ (d * y) * Digits <= x * Digits + x
         /\ x * Digits <= (d * y) * Digits + x
<1> DEFINE q == x \div d
<1>1. q \in Nat /\ d * q <= x
  OBVIOUS
<1>2. PICK u \in Spacing(q) : y = u * Round(x, d * u)
  BY DEF Nearest
<1>3. Digits \in Nat \ {0}
  BY Power, FloatAssumption DEF Digits
<1>4. u \in Nat \ {0} /\ (u = 1 \/ u * Digits <= 2 * q)
  <2>1. PICK k \in 0 .. 2 * FloatBits : u = 2^k
    BY <1>2 DEF Spacing
  <2>2. k \in Nat
    BY <2>1, FloatAssumption
  <2>. QED  BY <1>2, <2>1, <2>2, Power DEF Spacing
<1>5. d * u \in Nat \ {0}
  BY <1>4
<1>6. /\ Round(x, d * u) \in Nat
      /\ 2 * ((d * u) * Round(x, d * u)) <= 2 * x + d * u
      /\ 2 * x <= 2 * ((d * u) * Round(x, d * u)) + d * u
  BY <1>5, RoundBound
<1>. HIDE DEF q
<1>7. /\ y \in Nat
      /\ 2 * (d * y) <= 2 * x + d * u
      /\ 2 * x <= 2 * (d * y) + d * u
  <2>1. (d * u) * Round(x, d * u) = d * y
    BY <1>2, <1>4, <1>6
  <2>. QED  BY <1>2, <1>4, <1>6, <2>1
<1>8. (d * u) * Digits <= 2 * x
  <2>1. CASE u = 1
    BY <2>1, <1>3
  <2>2. CASE u * Digits <= 2 * q
    <3>1. d * (u * Digits) <= d * (2 * q)
      BY <1>1, <1>3, <1>4, <2>2
    <3>. QED  BY <1>1, <1>3, <1>4, <3>1
  <2>. QED  BY <1>4, <2>1, <2>2
<1>9. d * y \in Nat
  BY <1>7
<1>10. /\ 2 * (d * y) * Digits <= (2 * x + d * u) * Digits
       /\ (2 * x) * Digits <= (2 * (d * y) + d * u) * Digits
  BY <1>3, <1>5, <1>7, <1>9
<1>11. /\ 2 * (d * y) * Digits = 2 * ((d * y) * Digits)
       /\ (2 * x + d * u) * Digits = 2 * (x * Digits) + (d * u) * Digits
       /\ (2 * x) * Digits = 2 * (x * Digits)
       /\ (2 * (d * y) + d * u) * Digits = 2 * ((d * y) * Digits) + (d * u) * Digits
  BY <1>3, <1>5, <1>9
<1>. QED
  BY <1>3, <1>5, <1>7, <1>8, <1>9, <1>10, <1>11

\* What the three make of n, with the percentage M.
LEMMA ThreeRoundings ==
  ASSUME NEW D \in Nat, D > 100, NEW n \in Nat \ {0}, 4 * n <= D, NEW M \in 1 .. 100,
         NEW c \in Nat, NEW h \in Nat, NEW p \in Nat,
         c * D <= (n * (64 * D)) * D + n * (64 * D),
         (100 * h) * D <= c * D + c,
         p * D <= (h * M) * D + h * M
  PROVE  p < (n + 1) * (64 * D)
<1> DEFINE A == n * D
<1>1. A \in Nat /\ c <= 64 * A + 64 * n
  <2>1. (n * (64 * D)) * D + n * (64 * D) = (64 * A + 64 * n) * D
    OBVIOUS
  <2>2. A \in Nat
    OBVIOUS
  <2>3. 64 * A + 64 * n \in Nat
    BY <2>2
  <2>. HIDE DEF A
  <2>. QED  BY <2>1, <2>2, <2>3
<1>2. 100 * h <= 64 * A + 128 * n + 16
  <2>1. c * D + c <= (64 * A + 64 * n) * D + (64 * A + 64 * n)
    BY <1>1
  <2>2. (64 * A + 64 * n) * D + (64 * A + 64 * n) = (64 * A + 128 * n) * D + 64 * n
    BY <1>1
  <2>3. (64 * A + 128 * n) * D + 16 * D = (64 * A + 128 * n + 16) * D
    BY <1>1
  <2>4. (100 * h) * D <= (64 * A + 128 * n + 16) * D
    <3>1. A \in Nat
      BY <1>1
    <3>2. (100 * h) * D \in Nat /\ c * D \in Nat /\ (64 * A + 128 * n) * D \in Nat
      BY <3>1
    <3>. HIDE DEF A
    <3>. QED  BY <2>1, <2>2, <2>3, <3>1, <3>2
  <2>5. 100 * h \in Nat /\ 64 * A + 128 * n + 16 \in Nat
    BY <1>1
  <2>. HIDE DEF A
  <2>. QED  BY <2>4, <2>5
<1>3. p <= 64 * A + 192 * n + 49
  <2>1. h * M \in Nat /\ h * M <= 64 * A + 128 * n + 16
    <3>1. h * M \in Nat /\ h * M <= 100 * h
      OBVIOUS
    <3>2. A \in Nat
      BY <1>1
    <3>. HIDE DEF A
    <3>. QED  BY <3>1, <3>2, <1>2
  <2> DEFINE B == 64 * A + 128 * n + 16
  <2>2. B \in Nat /\ h * M <= B
    BY <1>1, <2>1
  <2>3. p * D <= B * D + B
    <3>. HIDE DEF B
    <3>1. (h * M) * D <= B * D
      BY <2>1, <2>2
    <3>. QED  BY <2>1, <2>2, <3>1
  <2>4. B * D + B <= (64 * A + 192 * n + 49) * D
    <3>1. A \in Nat
      BY <1>1
    <3>2. B = 64 * (n * D) + (128 * n + 16)
      OBVIOUS
    <3>3. 128 * n + 16 <= 33 * D
      OBVIOUS
    <3>4. B * D + 64 * (n * D) + 33 * D = (64 * A + 192 * n + 49) * D
      <4>1. 64 * (n * D) = (64 * n) * D
        OBVIOUS
      <4>2. (64 * A + 192 * n + 49) * D = (64 * A + 128 * n + 16) * D + (64 * n) * D + 33 * D
        BY <3>1
      <4>. QED  BY <3>1, <4>1, <4>2
    <3>5. B * D \in Nat /\ n * D \in Nat
      BY <2>2
    <3>. HIDE DEF A, B
    <3>. QED  BY <3>1, <3>2, <3>3, <3>4, <3>5
  <2>5. p * D <= (64 * A + 192 * n + 49) * D
    <3>1. p * D \in Nat /\ B * D + B \in Nat /\ (64 * A + 192 * n + 49) * D \in Nat
      BY <1>1
    <3>. HIDE DEF A, B
    <3>. QED  BY <2>3, <2>4, <3>1
  <2>6. 64 * A + 192 * n + 49 \in Nat
    BY <1>1
  <2>. HIDE DEF A
  <2>. QED  BY <2>5, <2>6
<1>. QED
  <2>1. (n + 1) * (64 * D) = 64 * A + 64 * D
    OBVIOUS
  <2>2. A \in Nat
    OBVIOUS
  <2>. HIDE DEF A
  <2>. QED  BY <1>3, <2>1, <2>2

\* Up to a quarter of Digits the budget never exceeds the number of marks.
LEMMA StaleBudgetBound ==
  ASSUME NEW n \in Nat, 4 * n <= Digits, NEW k \in StaleBudget(n)
  PROVE  k \in Nat /\ k <= n
<1>1. CASE n = 0
  BY <1>1 DEF StaleBudget
<1>2. CASE n # 0
  <2>1. PICK c \in Nat, h \in Nat, p \in Nat :
          /\ c \in Nearest(n * Scale, 1)
          /\ h \in Nearest(c, 100)
          /\ p \in Nearest(h * MgPercent, 1)
          /\ k = IF p \div Scale < 1 THEN 1 ELSE p \div Scale
    BY <1>2, BudgetRoundings
  <2> DEFINE D == Digits
  <2>2. D \in Nat /\ D > 100 /\ Scale = 64 * D /\ Scale \in Nat \ {0}
    BY Power, FloatAssumption DEF Digits, Scale
  <2>10. MgPercent \in 1 .. 100
    BY ParametersAssumption
  <2>. HIDE DEF D
  <2>3. /\ c \in Nat
        /\ c * D <= (n * (64 * D)) * D + n * (64 * D)
        /\ (n * (64 * D)) * D <= c * D + n * (64 * D)
    <3>1. n * Scale \in Nat /\ 1 * D <= 2 * (n * Scale)
      BY <1>2, <2>2
    <3>. QED  BY <2>1, <2>2, <3>1, NearestBound DEF D
  <2>4. c >= 64 * D - 64
    <3> DEFINE X == 64 * D - 64
    <3>1. (n * (64 * D)) * D - n * (64 * D) = n * (X * D)
      BY <2>2
    <3>2. X \in Nat /\ X * D \in Nat
      BY <2>2 DEF D
    <3>3. X * D <= n * (X * D)
      <4>. HIDE DEF X
      <4>. QED  BY <1>2, <3>2
    <3>4. X * D <= c * D
      <4>1. (n * (64 * D)) * D \in Nat /\ n * (64 * D) \in Nat /\ c * D \in Nat /\ n * (X * D) \in Nat
        BY <2>2, <2>3, <3>2
      <4>. HIDE DEF X
      <4>. QED  BY <2>3, <3>1, <3>2, <3>3, <4>1
    <3>. HIDE DEF X
    <3>5. c >= X
      BY <2>2, <2>3, <3>2, <3>4 DEF D
    <3>. QED  BY <3>5 DEF X
  <2>5. /\ h \in Nat
        /\ (100 * h) * D <= c * D + c
        /\ c * D <= (100 * h) * D + c
    <3>1. 100 * D <= 2 * c
      BY <2>2, <2>3, <2>4 DEF D
    <3>. QED  BY <2>1, <2>2, <2>3, <3>1, NearestBound DEF D
  <2>6. 2 * h >= D
    <3>1. c * D - c = c * (D - 1) /\ c * D \in Nat /\ (100 * h) * D \in Nat
      BY <2>2, <2>3, <2>5
    <3>2. (64 * D - 64) * (D - 1) <= c * (D - 1)
      BY <2>2, <2>3, <2>4 DEF D
    <3>3. (64 * D - 64) * (D - 1) = 64 * (D * D) - 128 * D + 64
      BY <2>2
    <3>4. SUFFICES ASSUME 2 * h < D PROVE FALSE
      BY <2>2, <2>5
    <3>5. (100 * h) * D <= 50 * (D * D)
      <4>1. 100 * h <= 50 * D
        BY <3>4, <2>5, <2>2
      <4>2. (50 * D) * D = 50 * (D * D)
        BY <2>2
      <4>. QED  BY <4>1, <4>2, <2>2, <2>5
    <3>6. D * D >= 101 * D
      BY <2>2 DEF D
    <3>7. D * D \in Nat
      BY <2>2
    <3>. QED  BY <2>2, <2>3, <2>5, <3>1, <3>2, <3>3, <3>5, <3>6, <3>7 DEF D
  <2>7. /\ p \in Nat
        /\ p * D <= (h * MgPercent) * D + h * MgPercent
    <3>1. h * MgPercent \in Nat /\ 1 * D <= 2 * (h * MgPercent)
      <4>1. h * MgPercent >= h /\ h * MgPercent \in Nat
        BY <2>5, <2>10
      <4>. QED  BY <2>2, <2>6, <4>1
    <3>. QED  BY <2>1, <2>2, <3>1, NearestBound DEF D
  <2>8. p < (n + 1) * Scale
    BY <1>2, <2>2, <2>3, <2>5, <2>7, <2>10, ThreeRoundings DEF D
  <2>9. p \div Scale \in Nat /\ p \div Scale <= n
    BY <2>2, <2>7, <2>8
  <2>. QED  BY <1>2, <2>1, <2>9
<1>. QED  BY <1>1, <1>2

(***************************************************************************)
(* The marks and the pending routes are never more than MaxMarks: only the *)
(* handlers of messages add to them, and the worker makes one mark of one  *)
(* pending route.                                                          *)
(***************************************************************************)
Pending(r) == {d \in Dests : Has(r.pendingInserts, d)}

\* Adding a mark for each address of S adds at most as many.
LEMMA SizeOfAddition ==
  ASSUME NEW bag, IsABag(bag), IsFiniteSet(DOMAIN bag),
         NEW S \in SUBSET Dests, NEW mark, mark = [d \in S |-> mark[d]],
         NEW new, new = bag (+) SetToBag({mark[d] : d \in S})
  PROVE  Size(new) <= Size(bag) + Cardinality(S)
<1> DEFINE Copies(b) == UNION {{e} \X (1 .. b[e]) : e \in DOMAIN b}
           last == [d \in S |-> <<mark[d], new[mark[d]]>>]
           Last == {last[d] : d \in S}
<1>1. /\ DOMAIN new = DOMAIN bag \cup {mark[d] : d \in S}
      /\ \A e \in DOMAIN new :
           new[e] = (IF e \in DOMAIN bag THEN bag[e] ELSE 0)
                      + (IF e \in {mark[d] : d \in S} THEN 1 ELSE 0)
  BY DEF (+), SetToBag
<1>2. \A e \in DOMAIN bag : bag[e] \in Nat /\ bag[e] > 0
  BY DEF IsABag
<1>3. Copies(new) \subseteq Copies(bag) \cup Last
  <2>1. ASSUME NEW b, NEW x \in Copies(b)
        PROVE  \E e \in DOMAIN b : \E i \in 1 .. b[e] : x = <<e, i>>
    <3>1. PICK e \in DOMAIN b : x \in {e} \X (1 .. b[e])
      BY <2>1
    <3> QED
      BY <3>1
  <2> HIDE DEF Last
  <2> SUFFICES ASSUME NEW e \in DOMAIN new, NEW i \in 1 .. new[e]
               PROVE  <<e, i>> \in Copies(bag) \cup Last
    BY <2>1
  <2>2. new[e] \in Nat
    BY <1>1, <1>2
  <2>3. CASE e \in DOMAIN bag /\ i <= bag[e]
    <3>1. i \in 1 .. bag[e]
      BY <1>2, <2>2, <2>3
    <3> QED
      BY <2>3, <3>1
  <2>4. CASE ~(e \in DOMAIN bag /\ i <= bag[e])
    <3>1. e \in {mark[d] : d \in S} /\ i = new[e]
      BY <1>1, <1>2, <2>2, <2>4
    <3> QED
      BY <3>1 DEF Last
  <2> QED
    BY <2>3, <2>4
<1>4. IsFiniteSet(S) /\ Cardinality(S) \in Nat
  BY FiniteDests
<1>5. IsFiniteSet(Last) /\ Cardinality(Last) <= Cardinality(S) /\ Cardinality(Last) \in Nat
  <2>1. last \in Surjection(S, Last)
    BY DEF Surjection
  <2> HIDE DEF last, Last
  <2> QED
    BY <1>4, <2>1, FS_Surjection, FS_CardinalityType
<1>6. IsFiniteSet(Copies(bag)) /\ Cardinality(Copies(bag)) \in Nat
  BY FiniteCopies, FS_CardinalityType
<1>7. Size(new) = Cardinality(Copies(new)) /\ Size(bag) = Cardinality(Copies(bag))
  BY DEF Size
<1> HIDE DEF Copies, Last
<1>8. /\ IsFiniteSet(Copies(bag) \cup Last)
      /\ Cardinality(Copies(bag) \cup Last) <= Cardinality(Copies(bag)) + Cardinality(Last)
  <2>1. Cardinality(Copies(bag) \cap Last) \in Nat
    BY <1>6, FS_Intersection, FS_CardinalityType
  <2> QED
    BY <1>5, <1>6, <2>1, FS_Union
<1>9. Cardinality(Copies(new)) <= Cardinality(Copies(bag) \cup Last) /\ Cardinality(Copies(new)) \in Nat
  BY <1>3, <1>8, FS_Subset, FS_CardinalityType
<1>10. Cardinality(Copies(bag) \cup Last) \in Nat
  BY <1>8, FS_CardinalityType
<1> QED
  BY <1>4, <1>5, <1>6, <1>7, <1>8, <1>9, <1>10

\* The worker's way to push pending routes adds nothing to the load.
LEMMA LoadKept ==
  ASSUME NEW r, Good(r), NEW cfg, ProcessPendingInserts(r, cfg), RoutesOK(routes')
  PROVE  Load(routes') <= Load(r)
<1> DEFINE S == GivenUp(r, cfg)
           installed == FinalizeRouteInsert(r, S, curTime)
<1>1. CASE ~MayPush(cfg)
  <2>1. routes' = r
    BY <1>1 DEF ProcessPendingInserts
  <2>2. Size(r.pendingExpires) \in Nat /\ Cardinality(Pending(r)) \in Nat
    BY SizeType, FiniteDests DEF Good, Pending
  <2> QED
    BY <2>1, <2>2 DEF Load, Pending
<1>2. CASE MayPush(cfg)
  <2>1. S \in SUBSET Dests /\ S \subseteq Pending(r)
    BY DEF Good, OnePlaceOnly, GivenUp, Pending
  <2>2. routes' = CountTry(installed, Retried(installed, cfg))
    BY <1>2 DEF ProcessPendingInserts
  <2>3. /\ routes'.pendingInserts = installed.pendingInserts
        /\ routes'.pendingExpires = installed.pendingExpires
    BY <2>2 DEF CountTry, FinalizeRouteInsert
  <2> DEFINE mark == [d \in S |-> [at |-> r.pendingInserts[d], dest |-> d]]
  <2>4. /\ installed.pendingInserts = Erase(r.pendingInserts, S)
        /\ installed.pendingExpires = r.pendingExpires (+) SetToBag({mark[d] : d \in S})
    <3>1. {d \in S : Has(r.pendingInserts, d) \/ ~Has(r.activeRoutes, d)} = S
      BY <2>1 DEF Pending
    <3>2. {d \in S : Has(r.pendingInserts, d)} = S
      BY <2>1 DEF Pending
    <3>3. \A d \in S : Has(r.pendingInserts, d)
      BY <3>2
    <3> HIDE DEF S
    <3> QED
      BY <3>1, <3>2, <3>3 DEF FinalizeRouteInsert
  <2>5. Pending(routes') = Pending(r) \ S
    BY <2>1, <2>3, <2>4 DEF Pending, Erase, Has
  <2>6. /\ IsFiniteSet(Pending(r)) /\ Cardinality(Pending(r)) \in Nat
        /\ IsFiniteSet(S) /\ Cardinality(S) \in Nat
    BY <2>1, FiniteDests DEF Pending
  <2>7. Cardinality(Pending(routes')) = Cardinality(Pending(r)) - Cardinality(S)
    <3>1. Pending(r) \cap S = S
      BY <2>1
    <3> QED
      BY <2>5, <2>6, <3>1, FS_Difference
  <2>8. Size(routes'.pendingExpires) <= Size(r.pendingExpires) + Cardinality(S)
    <3>1. IsABag(r.pendingExpires) /\ IsFiniteSet(DOMAIN r.pendingExpires)
      BY DEF Good, RoutesOK
    <3>2. mark = [d \in S |-> mark[d]]
      OBVIOUS
    <3> HIDE DEF S, mark
    <3> QED
      BY <2>1, <2>3, <2>4, <3>1, <3>2, SizeOfAddition
  <2>9. Size(routes'.pendingExpires) \in Nat /\ Size(r.pendingExpires) \in Nat
    BY SizeType DEF Good
  <2> QED
    BY <2>6, <2>7, <2>8, <2>9 DEF Load, Pending
<1> QED
  BY <1>1, <1>2

LEMMA LoadStep == IInv /\ Room(routes) /\ [Next]_vars => Room(routes')
<1> SUFFICES ASSUME IInv, Room(routes), [Next]_vars PROVE Load(routes') <= MaxMarks
  BY DEF Room
<1>1. RoutesOK(routes')
  BY StepInv DEF IInv, TypeOK
<1>2. /\ Size(routes.pendingExpires) \in Nat /\ Size(routes'.pendingExpires) \in Nat
      /\ Cardinality(Pending(routes)) \in Nat /\ Cardinality(Pending(routes')) \in Nat
      /\ Load(routes) = Size(routes.pendingExpires) + Cardinality(Pending(routes))
      /\ Load(routes') = Size(routes'.pendingExpires) + Cardinality(Pending(routes'))
  BY <1>1, SizeType, FiniteDests DEF IInv, TypeOK, Pending, Load
<1>3. MaxMarks \in Nat
  BY InputsAssumption
<1>4. CASE ManageRoutes
  <2>1. Good(routes)
    BY ConsistentRoutes DEF Consistent
  <2>2. Load(routes') <= Load(routes)
    BY <1>1, <1>4, <2>1, LoadKept DEF ManageRoutes
  <2> QED
    BY <1>2, <1>3, <2>2 DEF Room
<1>5. ASSUME NEW m \in DOMAIN routes.pendingExpires, EvaluateMark(m)
      PROVE  Load(routes') <= MaxMarks
  <2>1. RoutesOK(routes)
    BY DEF IInv, TypeOK
  <2>2. /\ routes'.pendingExpires = routes.pendingExpires (-) SetToBag({m})
        /\ routes'.pendingInserts = routes.pendingInserts
    BY <1>5, <2>1 DEF EvaluateMark, RoutesOK
  <2>3. Size(routes'.pendingExpires) = Size(routes.pendingExpires) - 1
    BY <2>1, <2>2, SizeOfRemoval
  <2>4. Pending(routes') = Pending(routes)
    BY <2>2 DEF Pending
  <2> QED
    BY <1>2, <1>3, <2>3, <2>4 DEF Room
<1>6. CASE \/ \E d \in Dests, ttl \in TTLs : InsertRoute(d, ttl)
           \/ \E d \in Dests : ConfirmRouteAdd(d) \/ ConfirmRouteDel(d)
           \/ \E cfg \in Configs : ProcessNetDevUpdate(cfg)
  BY <1>6 DEF InsertRoute, ConfirmRouteAdd, ConfirmRouteDel, ProcessNetDevUpdate, Room
<1>7. CASE routes' = routes
  BY <1>7 DEF Room
<1>8. CASE \/ Startup \/ StartupFails \/ OnShutdown \/ Shutdown \/ WorkerLoopHead
           \/ WorkerTick \/ StaleReturn
  BY <1>7, <1>8 DEF Startup, StartupFails, OnShutdown, Shutdown, WorkerLoopHead,
                    WorkerTick, StaleReturn
<1>9. CASE \/ \E t \in Callers : ReadyForMessage(t) \/ Return(t)
           \/ AnswerBeyondBounds \/ NetlinkSend \/ Ended \/ UNCHANGED vars
  BY <1>7, <1>9 DEF ReadyForMessage, Return, AnswerBeyondBounds, NetlinkSend, Ended, vars
<1> QED
  BY <1>4, <1>5, <1>6, <1>8, <1>9 DEF Next, ManagerStep, MessageStep

LEMMA LoopStep ==
  ASSUME 4 * MaxMarks <= Digits
  PROVE  IInv /\ Room(routes)' /\ LoopNeverRunsDry /\ [Next]_vars => LoopNeverRunsDry'
<1> SUFFICES ASSUME IInv, Room(routes'), LoopNeverRunsDry, [Next]_vars, worker' = "stale"
             PROVE  remCnt' <= Size(routes'.pendingExpires)
  BY DEF LoopNeverRunsDry
<1>1. CASE ManageRoutes
  <2>1. RoutesOK(routes')
    BY <1>1, ManageRoutesInv DEF IInv, TypeOK
  <2>2. Size(routes'.pendingExpires) \in Nat
    BY <2>1, SizeType
  <2>3. 4 * Size(routes'.pendingExpires) <= Digits
    <3>1. Cardinality(Pending(routes')) \in Nat
      BY FiniteDests DEF Pending
    <3>2. Size(routes'.pendingExpires) <= MaxMarks
      BY <2>2, <3>1, InputsAssumption DEF Room, Load, Pending
    <3>3. Digits \in Nat
      BY Power, FloatAssumption DEF Digits
    <3> QED
      BY <2>2, <3>2, <3>3, InputsAssumption
  <2> QED
    BY <1>1, <2>2, <2>3, StaleBudgetBound DEF ManageRoutes
<1>2. ASSUME NEW m \in DOMAIN routes.pendingExpires, EvaluateMark(m)
      PROVE  remCnt' <= Size(routes'.pendingExpires)
  <2>1. /\ RoutesOK(routes) /\ remCnt \in Nat /\ remCnt' = remCnt - 1
        /\ remCnt <= Size(routes.pendingExpires)
    BY <1>2 DEF IInv, TypeOK, EvaluateMark, LoopNeverRunsDry
  <2>2. routes'.pendingExpires = routes.pendingExpires (-) SetToBag({m})
    BY <1>2, <2>1 DEF EvaluateMark, RoutesOK
  <2>3. Size(routes'.pendingExpires) = Size(routes.pendingExpires) - 1
    BY <2>1, <2>2, SizeOfRemoval
  <2>4. Size(routes.pendingExpires) \in Nat
    BY <2>1, SizeType
  <2> QED
    BY <2>1, <2>3, <2>4
<1>3. CASE worker = "stale" /\ UNCHANGED <<remCnt, routes>>
  BY <1>3 DEF LoopNeverRunsDry
<1>4. CASE \/ \E d \in Dests, ttl \in TTLs : InsertRoute(d, ttl)
           \/ \E d \in Dests : ConfirmRouteAdd(d) \/ ConfirmRouteDel(d)
           \/ \E cfg \in Configs : ProcessNetDevUpdate(cfg)
  BY <1>4 DEF InsertRoute, ConfirmRouteAdd, ConfirmRouteDel, ProcessNetDevUpdate, Enter, LockFree
<1>5. CASE \/ Startup \/ StartupFails \/ OnShutdown \/ Shutdown \/ WorkerLoopHead
           \/ WorkerTick \/ StaleReturn
  BY <1>3, <1>5 DEF Startup, StartupFails, OnShutdown, Shutdown, WorkerLoopHead,
                    WorkerTick, StaleReturn
<1>6. CASE \/ \E t \in Callers : ReadyForMessage(t) \/ Return(t)
           \/ AnswerBeyondBounds \/ NetlinkSend \/ Ended \/ UNCHANGED vars
  BY <1>3, <1>6 DEF ReadyForMessage, Return, AnswerBeyondBounds, NetlinkSend, Ended, vars
<1> QED
  BY <1>1, <1>2, <1>4, <1>5, <1>6 DEF Next, ManagerStep, MessageStep

\* The loop of _ProcessStaleRoutes finds a mark in every iteration its budget
\* allows, for any percentage, while at most a quarter of Digits marks and
\* pending routes are held: 2^22 of them with the float of the program.
THEOREM LoopFindsMarks == ASSUME 4 * MaxMarks <= Digits PROVE Spec => []LoopNeverRunsDry
<1>1. Init => LoopNeverRunsDry /\ Room(routes)
  <2> SUFFICES ASSUME Init PROVE LoopNeverRunsDry /\ Room(routes)
    OBVIOUS
  <2>1. Pending(routes) = {}
    BY DEF Init, NoRoutes, Pending, Has
  <2>2. UNION {{m} \X (1 .. routes.pendingExpires[m]) : m \in DOMAIN routes.pendingExpires} = {}
    <3>1. DOMAIN routes.pendingExpires = {}
      BY DEF Init, NoRoutes, EmptyBag, SetToBag
    <3> QED
      BY <3>1
  <2>3. Size(routes.pendingExpires) = 0
    BY <2>2, FS_EmptySet DEF Size
  <2>4. Cardinality(Pending(routes)) = 0
    BY <2>1, FS_EmptySet
  <2>5. Load(routes) = 0
    BY <2>3, <2>4 DEF Load, Pending
  <2> QED
    BY <2>5, InputsAssumption DEF Init, LoopNeverRunsDry, Room
<1>2. IInv /\ Room(routes) /\ [Next]_vars => Room(routes)'
  BY LoadStep
<1>3. IInv /\ Room(routes)' /\ LoopNeverRunsDry /\ [Next]_vars => LoopNeverRunsDry'
  BY LoopStep
<1> QED
  BY <1>1, <1>2, <1>3, Invariant, PTL DEF Spec

-----------------------------------------------------------------------------
(***************************************************************************)
(* The manager implements RouteLease.                                      *)
(***************************************************************************)
\* The lease of the abstract specification after a step is given by the
\* expiration times after it.
LEMMA InitLease == Init => Lease!Init
<1> SUFFICES ASSUME Init PROVE Lease!Init
  OBVIOUS
<1>1. \A d \in Dests : Expiration(routes, d) = Absent
  BY DEF Init, NoRoutes, Expiration, Has
<1> QED
  BY <1>1 DEF Init, Lease!Init, Lease!NoLease, Absent

LEMMA SameLease ==
  ASSUME \A d \in Dests : Expiration(routes', d) = Expiration(routes, d), curTime' = curTime
  PROVE  UNCHANGED Lease!vars
BY DEF Lease!vars

LEMMA LeaseStep == IInv /\ [Next]_vars => [Lease!Next]_(Lease!vars)
<1> SUFFICES ASSUME IInv, [Next]_vars PROVE [Lease!Next]_(Lease!vars)
  OBVIOUS
<1>1. CASE UNCHANGED <<routes, curTime>>
  BY <1>1, SameLease
<1>2. CASE WorkerTick
  <2>1. curTime \in Nat /\ curTime' \in Nat /\ curTime' >= curTime /\ routes' = routes
    BY <1>2, InputsAssumption DEF WorkerTick, IInv, TypeOK
  <2>2. Lease!Advance
    BY <2>1 DEF Lease!Advance
  <2> QED
    BY <2>2 DEF Lease!Next
<1>3. CASE ManageRoutes
  BY <1>3, ManageRoutesInv, SameLease DEF ManageRoutes
<1>4. ASSUME NEW m \in DOMAIN routes.pendingExpires, EvaluateMark(m)
      PROVE  [Lease!Next]_(Lease!vars)
  <2>1. /\ m.dest \in Dests
        /\ \A d \in Dests :
             Expiration(routes', d) = IF d = m.dest /\ Expires(m) THEN Absent
                                                                  ELSE Expiration(routes, d)
        /\ Expires(m) => /\ Expiration(routes, m.dest) # Absent
                         /\ Expiration(routes, m.dest) <= curTime
        /\ curTime' = curTime
    BY <1>4, EvaluateMarkInv DEF EvaluateMark
  <2>2. CASE ~Expires(m)
    BY <2>1, <2>2, SameLease
  <2>3. CASE Expires(m)
    <3>1. Lease!Expire(m.dest)
      BY <2>1, <2>3 DEF Lease!Expire, Lease!NoLease, Absent
    <3> QED
      BY <2>1, <3>1 DEF Lease!Next
  <2> QED
    BY <2>2, <2>3
<1>5. ASSUME NEW d \in Dests, NEW ttl \in TTLs, InsertRoute(d, ttl)
      PROVE  [Lease!Next]_(Lease!vars)
  <2>1. /\ \A e \in Dests :
             Expiration(routes', e) =
               IF e = d /\ Expiration(routes, e) < curTime + ttl + ExtraTTL
               THEN curTime + ttl + ExtraTTL ELSE Expiration(routes, e)
        /\ curTime' = curTime
    BY <1>5, InsertRouteInv DEF InsertRoute
  <2>2. Lease!Request(d, ttl)
    BY <2>1 DEF Lease!Request
  <2> QED
    BY <2>2 DEF Lease!Next
<1>6. ASSUME NEW d \in Dests, ConfirmRouteAdd(d)
      PROVE  [Lease!Next]_(Lease!vars)
  <2>1. /\ \A e \in Dests :
             Expiration(routes', e) = IF e = d /\ d \notin Managed(routes)
                                      THEN curTime + ExtraTTL ELSE Expiration(routes, e)
        /\ curTime' = curTime
    BY <1>6, ConfirmRouteAddInv DEF ConfirmRouteAdd
  <2>2. CASE d \in Managed(routes)
    BY <2>1, <2>2, SameLease
  <2>3. CASE d \notin Managed(routes)
    <3>1. Expiration(routes, d) = Absent
      BY <2>3 DEF Managed, Expiration, Has
    <3>2. Lease!Adopt(d)
      BY <2>1, <2>3, <3>1 DEF Lease!Adopt, Lease!NoLease, Absent
    <3> QED
      BY <3>2 DEF Lease!Next
  <2> QED
    BY <2>2, <2>3
<1>7. ASSUME NEW d \in Dests, ConfirmRouteDel(d)
      PROVE  [Lease!Next]_(Lease!vars)
  BY <1>7, ConfirmRouteDelInv, SameLease DEF ConfirmRouteDel
<1>8. ASSUME NEW cfg \in Configs, ProcessNetDevUpdate(cfg)
      PROVE  [Lease!Next]_(Lease!vars)
  BY <1>8, ProcessNetDevUpdateInv, SameLease DEF ProcessNetDevUpdate
<1>9. CASE \/ Startup \/ StartupFails \/ OnShutdown \/ Shutdown \/ WorkerLoopHead
           \/ StaleReturn
  BY <1>1, <1>9 DEF Startup, StartupFails, OnShutdown, Shutdown, WorkerLoopHead, StaleReturn
<1>10. CASE \/ \E t \in Callers : ReadyForMessage(t) \/ Return(t)
            \/ AnswerBeyondBounds \/ NetlinkSend \/ Ended \/ UNCHANGED vars
  BY <1>1, <1>10 DEF ReadyForMessage, Return, AnswerBeyondBounds, NetlinkSend, Ended, vars
<1> QED
  BY <1>2, <1>3, <1>4, <1>5, <1>6, <1>7, <1>8, <1>9, <1>10
     DEF Next, ManagerStep, MessageStep

\* The manager implements RouteLease: no request is forgotten, shortened or
\* ended early, whatever the interface, the kernel and Main do.
THEOREM ImplementsLease == Spec => LeaseSpec
<1> QED
  BY InitLease, LeaseStep, Invariant, PTL DEF Spec, LeaseSpec, Lease!Spec
-----------------------------------------------------------------------------
(***************************************************************************)
(* The addresses the manager manages: only an answer or an announcement    *)
(* adds one, and only a mark at the end of its lease takes one away.       *)
(***************************************************************************)
LEMMA ManagedIsLeased ==
  ASSUME NEW r, NEW d \in Dests
  PROVE  d \in Managed(r) <=> Expiration(r, d) # Absent
BY DEF Managed, Expiration, Has

LEMMA ManagedKept ==
  ASSUME IInv,
         \/ ManageRoutes
         \/ \E d \in Dests : ConfirmRouteDel(d)
         \/ \E c \in Configs : ProcessNetDevUpdate(c)
  PROVE  Managed(routes') = Managed(routes)
<1>1. \A d \in Dests : Expiration(routes', d) = Expiration(routes, d)
  BY ManageRoutesInv, ConfirmRouteDelInv, ProcessNetDevUpdateInv
<1>2. \A d \in Dests : d \in Managed(routes') <=> d \in Managed(routes)
  BY <1>1, ManagedIsLeased
<1> QED
  BY <1>2 DEF Managed

LEMMA ManagedAfterMark ==
  ASSUME IInv, NEW m \in DOMAIN routes.pendingExpires, EvaluateMark(m)
  PROVE  Managed(routes') = IF Expires(m) THEN Managed(routes) \ {m.dest} ELSE Managed(routes)
<1>1. \A d \in Dests :
        d \in Managed(routes') <=> d \in Managed(routes) /\ ~(d = m.dest /\ Expires(m))
  BY EvaluateMarkInv, ManagedIsLeased
<1> QED
  BY <1>1 DEF Managed

LEMMA ManagedAfterAnswer ==
  ASSUME IInv, NEW dest \in Dests, NEW ttl \in TTLs, InsertRoute(dest, ttl)
  PROVE  Managed(routes') = Managed(routes) \cup {dest}
<1> DEFINE new == curTime + ttl + ExtraTTL
<1>1. new \in Nat
  BY ParametersAssumption, InputsAssumption DEF IInv, TypeOK
<1>2. \A d \in Dests : Expiration(routes', d) =
        IF d = dest /\ Expiration(routes, d) < new THEN new ELSE Expiration(routes, d)
  BY InsertRouteInv
<1>3. \A d \in Dests : d \in Managed(routes') <=> d \in Managed(routes) \/ d = dest
  BY <1>1, <1>2, ManagedIsLeased DEF Absent
<1> QED
  BY <1>3 DEF Managed

LEMMA ManagedAfterConfirm ==
  ASSUME IInv, NEW dest \in Dests, ConfirmRouteAdd(dest)
  PROVE  Managed(routes') = Managed(routes) \cup {dest}
<1>1. curTime + ExtraTTL \in Nat
  BY ParametersAssumption DEF IInv, TypeOK
<1>2. \A d \in Dests : d \in Managed(routes') <=> d \in Managed(routes) \/ d = dest
  BY <1>1, ConfirmRouteAddInv, ManagedIsLeased DEF Absent
<1> QED
  BY <1>2 DEF Managed

(***************************************************************************)
(* What becomes of an active route: the removal of one makes it pending,   *)
(* and so does the loss of its family; a family that is not available      *)
(* makes none active.                                                      *)
(***************************************************************************)
LEMMA ActiveAfterDelete ==
  ASSUME NEW r, Good(r), NEW S \in SUBSET Dests, NEW d \in Dests
  PROVE  /\ d \in S => ~Has(FinalizeRouteDelete(r, S).activeRoutes, d)
         /\ Has(FinalizeRouteDelete(r, S).activeRoutes, d) => Has(r.activeRoutes, d)
<1> DEFINE T == {e \in S : Has(r.activeRoutes, e)}
           new == FinalizeRouteDelete(r, S)
<1>1. r \in [pendingInserts : AddressMap, pendingRetries : AddressMap, activeRoutes : AddressMap,
            pendingExpires : {r.pendingExpires}]
  BY DEF Good, RoutesOK
<1>2. new.activeRoutes = Erase(r.activeRoutes, T)
  BY <1>1 DEF FinalizeRouteDelete
<1> HIDE DEF new
<1> QED
  BY <1>2 DEF Erase, Has, new

LEMMA ActiveAfterConfirmDel ==
  ASSUME IInv, NEW dest \in Dests, ConfirmRouteDel(dest)
  PROVE  ~Has(routes'.activeRoutes, dest)
<1>1. Good(routes) /\ routes' = FinalizeRouteDelete(routes, {dest})
  BY ConsistentRoutes DEF Consistent, ConfirmRouteDel
<1> QED
  BY <1>1, ActiveAfterDelete

LEMMA ActiveAfterUpdate ==
  ASSUME IInv, NEW newConfig \in Configs, ProcessNetDevUpdate(newConfig), NEW d \in Dests,
         Has(routes'.activeRoutes, d), FamilyAvail(ifCfg, d)
  PROVE  FamilyAvail(newConfig, d)
<1> DEFINE v4 == isIPV4Avail(ifCfg) /\ ~isIPV4Avail(newConfig)
           v6 == isIPV6Avail(ifCfg) /\ ~isIPV6Avail(newConfig)
           kept == InvalidateActiveRoutes(routes, v4, v6)
           lost == {e \in Dests : (v6 /\ isV6(e)) \/ (v4 /\ ~isV6(e))}
<1>1. Good(routes) /\ ProcessPendingInserts(kept, newConfig)
  BY ConsistentRoutes DEF Consistent, ProcessNetDevUpdate
<1>2. lost \in SUBSET Dests /\ kept = FinalizeRouteDelete(routes, lost)
  BY DEF InvalidateActiveRoutes
<1>3. d \notin lost \/ ~Has(kept.activeRoutes, d)
  <2> HIDE DEF kept, lost
  <2> QED
    BY <1>1, <1>2, ActiveAfterDelete
<1>4. d \notin lost => FamilyAvail(newConfig, d)
  BY DEF FamilyAvail
<1> HIDE DEF kept, lost
<1>5. CASE ~MayPush(newConfig)
  <2>1. routes' = kept
    BY <1>1, <1>5 DEF ProcessPendingInserts
  <2> QED
    BY <1>3, <1>4, <2>1
<1>6. CASE MayPush(newConfig)
  <2> DEFINE given     == GivenUp(kept, newConfig)
             installed == FinalizeRouteInsert(kept, given, curTime)
             retried   == Retried(installed, newConfig)
  <2>1. routes' = CountTry(installed, retried)
    BY <1>1, <1>6 DEF ProcessPendingInserts
  <2>2. \A e \in given : FamilyAvail(newConfig, e)
    BY DEF GivenUp
  <2> HIDE DEF given
  <2>3. /\ \E e \in {installed.pendingExpires} :
             installed = [pendingInserts |-> installed.pendingInserts,
                          pendingRetries |-> installed.pendingRetries,
                          activeRoutes |-> installed.activeRoutes, pendingExpires |-> e]
        /\ Has(installed.activeRoutes, d) => d \in given \/ Has(kept.activeRoutes, d)
    BY DEF FinalizeRouteInsert, Has
  <2> HIDE DEF installed, retried
  <2>4. routes'.activeRoutes = installed.activeRoutes
    BY <2>1, <2>3 DEF CountTry
  <2> QED
    BY <1>3, <1>4, <2>2, <2>3, <2>4
<1> QED
  BY <1>5, <1>6
=============================================================================
