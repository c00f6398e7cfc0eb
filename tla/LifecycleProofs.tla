--------------------------- MODULE LifecycleProofs ---------------------------
(***************************************************************************)
(* Theorems about Lifecycle, for all command lines and error codes: the    *)
(* parameters accepted, the order in which the workers are stopped, and    *)
(* the first failure's code.                                               *)
(***************************************************************************)
EXTENDS Lifecycle, WellFoundedInduction, TLAPS

Status == {"none", "running", "sleep", "claim", "store", "kill", "ended", "joined"}

\* What Main has still to do once the first workers of a loop are dealt with.
StartSenders == <<"dnsReceiver", "tracker", "stateSaver">>
StartTracker == <<"tracker", "stateSaver">>
StopOthers   == <<"tracker", "routingMgr", "stateSaver">>
StopManager  == <<"routingMgr", "stateSaver">>
OnlySaver    == <<"stateSaver">>

LeftToStart == {StartOrder, StartSenders, StartTracker, OnlySaver, <<>>}
LeftToStop  == {StopOrder, StopOthers, StopManager, OnlySaver, <<>>}

\* Main starts the workers once, and joins them in the order of StopOrder.
Progress ==
  /\ worker \in [Workers -> Status]
  /\ main \in {"args", "setup"} => left = StartOrder
  /\ main \in {"args", "setup", "start"} =>
       /\ left \in LeftToStart
       /\ worker["dnsReceiver"] = "none" <=> left \in {StartOrder, StartSenders}
       /\ worker["tracker"] = "none" <=> left \in {StartOrder, StartSenders, StartTracker}
  /\ main = "rejected" => \A w \in Workers : worker[w] = "none"
  /\ main \in {"args", "setup"} => \A w \in Workers : worker[w] = "none"
  /\ main \in {"request", "join"} => left \in LeftToStop
  /\ main \notin {"args", "setup", "start", "rejected"} => \A w \in Senders : worker[w] # "none"
  /\ main \notin {"join", "destroy", "exit"} => \A w \in Workers : worker[w] # "joined"
  /\ main = "join" =>
       /\ worker["dnsReceiver"] = "joined" <=> left # StopOrder
       /\ worker["tracker"] = "joined" <=> left \in {StopManager, OnlySaver, <<>>}
       /\ worker["routingMgr"] = "joined" => left \in {OnlySaver, <<>>}
       /\ left \in {OnlySaver, <<>>} => worker["routingMgr"] \in {"none", "joined"}
       /\ left = <<>> => worker["stateSaver"] \in {"none", "joined"}
  /\ main \in {"destroy", "exit"} =>
       /\ \A w \in Senders : worker[w] = "joined"
       /\ \A w \in Workers : worker[w] \in {"none", "joined"}

LEMMA Names == /\ Workers = {"dnsReceiver", "tracker", "routingMgr", "stateSaver"}
               /\ Senders = {"dnsReceiver", "tracker"}
               /\ Manager = "routingMgr" /\ Saver = "stateSaver"
BY DEF Workers, Senders, Manager, Saver

\* The loops go from one of these lists to the next.
LEMMA StartLists ==
  /\ Head(StartOrder) = "routingMgr" /\ Tail(StartOrder) = StartSenders
  /\ Head(StartSenders) = "dnsReceiver" /\ Tail(StartSenders) = StartTracker
  /\ Head(StartTracker) = "tracker" /\ Tail(StartTracker) = OnlySaver
  /\ Head(OnlySaver) = "stateSaver" /\ Tail(OnlySaver) = <<>>
BY DEF StartOrder, StartSenders, StartTracker, OnlySaver

LEMMA StopLists ==
  /\ Head(StopOrder) = "dnsReceiver" /\ Tail(StopOrder) = StopOthers
  /\ Head(StopOthers) = "tracker" /\ Tail(StopOthers) = StopManager
  /\ Head(StopManager) = "routingMgr" /\ Tail(StopManager) = OnlySaver
  /\ Head(OnlySaver) = "stateSaver" /\ Tail(OnlySaver) = <<>>
BY DEF StopOrder, StopOthers, StopManager, OnlySaver

\* They have different lengths.
LEMMA DifferentStartLists ==
  /\ StartOrder # StartSenders /\ StartOrder # StartTracker /\ StartOrder # OnlySaver
  /\ StartSenders # StartTracker /\ StartSenders # OnlySaver /\ StartTracker # OnlySaver
  /\ <<>> \notin {StartOrder, StartSenders, StartTracker, OnlySaver}
<1>1. /\ Len(StartOrder) = 4 /\ Len(StartSenders) = 3 /\ Len(StartTracker) = 2
      /\ Len(OnlySaver) = 1 /\ Len(<<>>) = 0
  BY DEF StartOrder, StartSenders, StartTracker, OnlySaver
<1>2. 4 \notin {3, 2, 1, 0} /\ 3 \notin {2, 1, 0} /\ 2 \notin {1, 0} /\ 1 # 0
  OBVIOUS
<1> QED
  BY <1>1, <1>2, Zenon

LEMMA DifferentStopLists ==
  /\ StopOrder # StopOthers /\ StopOrder # StopManager /\ StopOrder # OnlySaver
  /\ StopOthers # StopManager /\ StopOthers # OnlySaver /\ StopManager # OnlySaver
  /\ <<>> \notin {StopOrder, StopOthers, StopManager, OnlySaver}
<1>1. /\ Len(StopOrder) = 4 /\ Len(StopOthers) = 3 /\ Len(StopManager) = 2
      /\ Len(OnlySaver) = 1 /\ Len(<<>>) = 0
  BY DEF StopOrder, StopOthers, StopManager, OnlySaver
<1>2. 4 \notin {3, 2, 1, 0} /\ 3 \notin {2, 1, 0} /\ 2 \notin {1, 0} /\ 1 # 0
  OBVIOUS
<1> QED
  BY <1>1, <1>2, Zenon

LEMMA ProgressInit == Init => Progress
<1> SUFFICES ASSUME Init PROVE Progress
  OBVIOUS
<1>1. worker \in [Workers -> Status] /\ \A w \in Workers : worker[w] = "none"
  BY DEF Init, Status
<1>2. main = "args" /\ left = StartOrder
  BY DEF Init
<1> QED
  BY <1>1, <1>2, Names, DifferentStartLists DEF Progress, LeftToStart

LEMMA ProgressStep == Progress /\ [Next]_vars => Progress'
<1> SUFFICES ASSUME Progress, [Next]_vars PROVE Progress'
  OBVIOUS
<1> USE Names DEF Progress, Status
<1>1. CASE Startup
  BY <1>1, StartLists, DifferentStartLists DEF Startup, LeftToStart
<1>2. CASE WaitTimeout \/ WaitFails \/ IsShutdownRequested \/ GetEC
  BY <1>2 DEF WaitTimeout, WaitFails, IsShutdownRequested, GetEC, Leave, LeftToStop
<1>3. ASSUME NEW s \in Signals, TakeSignal(s) \/ SignalArrives(s) PROVE Progress'
  BY <1>3 DEF TakeSignal, SignalArrives, Leave, LeftToStop
<1>4. CASE RequestShutdown
  BY <1>4, StopLists, DifferentStopLists DEF RequestShutdown, LeftToStop
<1>5. CASE Shutdown
  <2>1. main = "join" /\ left \in LeftToStop
    BY <1>5 DEF Shutdown
  <2>2. CASE left = <<>>
    BY <1>5, <2>2, DifferentStopLists DEF Shutdown
  <2>3. CASE left = StopOrder
    BY <1>5, <2>3, StopLists, DifferentStopLists DEF Shutdown, LeftToStop
  <2>4. CASE left = StopOthers
    BY <1>5, <2>4, StopLists, DifferentStopLists DEF Shutdown, LeftToStop
  <2>5. CASE left = StopManager
    BY <1>5, <2>5, StopLists, DifferentStopLists DEF Shutdown, LeftToStop
  <2>6. CASE left = OnlySaver
    BY <1>5, <2>6, StopLists, DifferentStopLists DEF Shutdown, LeftToStop
  <2> QED
    BY <2>1, <2>2, <2>3, <2>4, <2>5, <2>6 DEF LeftToStop
<1>6. ASSUME NEW w \in Workers, WorkerRuns(w) \/ WorkerFails(w) \/ WorkerInterrupted(w)
      PROVE  Progress'
  BY <1>6 DEF WorkerRuns, WorkerStops, ClaimShutdown, StoreEC, KillSelf, WorkerFails, WorkerInterrupted
<1>7. CASE Finished \/ UNCHANGED vars
  BY <1>7 DEF Finished, vars
<1>8. CASE ParseArgs \/ BuildComponents
  BY <1>8, DifferentStartLists DEF ParseArgs, BuildComponents, LeftToStart
<1>9. CASE DestroyLogger
  BY <1>9 DEF DestroyLogger
<1>10. CASE SaverLoop
  BY <1>10 DEF SaverLoop
<1> QED
  BY <1>1, <1>2, <1>3, <1>4, <1>5, <1>6, <1>7, <1>8, <1>9, <1>10 DEF Next, MainStep

\* The manager's socket is closed only when no other thread can reach its
\* handlers any more: Main joins the senders first.
THEOREM ManagerLast == Spec => []ManagerIsStoppedLast
<1>1. Progress => ManagerIsStoppedLast
  BY Names, DifferentStopLists DEF Progress, ManagerIsStoppedLast, LeftToStop
<1> QED
  BY <1>1, ProgressInit, ProgressStep, PTL DEF Spec

\* Main destroys a worker's logger only when the worker's thread, if it has one,
\* is joined.
THEOREM ThreadsAreJoined == Spec => []LoggersOutliveThreads
<1>1. Progress => LoggersOutliveThreads
  BY DEF Progress, LoggersOutliveThreads
<1> QED
  BY <1>1, ProgressInit, ProgressStep, PTL DEF Spec

-----------------------------------------------------------------------------
\* The handler is claimed by one worker at most, which alone stores its code.
Claims ==
  /\ worker \in [Workers -> Status]
  /\ ~shutdownRequested => ec = 0 /\ \A w \in Workers : worker[w] # "store"
  /\ \A w \in Workers : worker[w] = "store" => ec = 0
  /\ \A v, w \in Workers : worker[v] = "store" /\ worker[w] = "store" => v = w

LEMMA ClaimsInit == Init => Claims
BY Names DEF Init, Claims, Status

LEMMA ClaimsStep ==
  ASSUME Claims, [Next]_vars
  PROVE  Claims' /\ (ec # 0 => ec' = ec)
<1> USE DEF Claims, Status
<1>1. CASE UNCHANGED <<shutdownRequested, ec>> /\ Startup
  BY <1>1, Names DEF Startup
<1>2. CASE Shutdown
  BY <1>2 DEF Shutdown, handler
<1>3. CASE UNCHANGED <<worker, shutdownRequested, ec>>
  BY <1>3
<1>4. ASSUME NEW w \in Workers, WorkerStops(w) \/ WorkerFails(w) \/ WorkerInterrupted(w) \/ KillSelf(w)
      PROVE  Claims' /\ (ec # 0 => ec' = ec)
  BY <1>4 DEF WorkerStops, WorkerFails, WorkerInterrupted, KillSelf, handler
<1>5. ASSUME NEW w \in Workers, ClaimShutdown(w)
      PROVE  Claims' /\ (ec # 0 => ec' = ec)
  BY <1>5 DEF ClaimShutdown, Claimed
<1>6. ASSUME NEW w \in Workers, StoreEC(w)
      PROVE  Claims' /\ (ec # 0 => ec' = ec)
  BY <1>6 DEF StoreEC
<1>7. Startup \/ Shutdown \/ SaverLoop \/ UNCHANGED <<worker, shutdownRequested, ec>>
      \/ \E w \in Workers : \/ WorkerStops(w) \/ WorkerFails(w) \/ WorkerInterrupted(w)
                            \/ KillSelf(w) \/ ClaimShutdown(w) \/ StoreEC(w)
  BY DEF Next, MainStep, WorkerRuns, WaitTimeout, WaitFails, IsShutdownRequested, GetEC, Leave,
         RequestShutdown, TakeSignal, SignalArrives, ParseArgs, BuildComponents, DestroyLogger,
         Finished, vars, handler
<1>8. Startup => UNCHANGED <<shutdownRequested, ec>>
  BY DEF Startup, handler
<1>9. CASE SaverLoop
  BY <1>9, Names DEF SaverLoop, handler
<1> QED
  BY <1>1, <1>2, <1>3, <1>4, <1>5, <1>6, <1>7, <1>8, <1>9

\* The error code Main reads, once it is stored, is that of the worker that
\* claimed the shutdown, whatever fails afterwards.
THEOREM FirstError == Spec => FirstErrorStays
<1>1. Claims /\ [Next]_vars => [ec # 0 => ec' = ec]_ec
  BY ClaimsStep
<1>2. Claims /\ [Next]_vars => Claims'
  BY ClaimsStep
<1> QED
  BY <1>1, <1>2, ClaimsInit, PTL DEF Spec, FirstErrorStays
-----------------------------------------------------------------------------
\* As long as no worker has failed there is no request to shut down, made or under way.
Requested ==
  failed = {} =>
    /\ \A w \in Workers : worker[w] \notin {"claim", "store", "kill"}
    /\ ~shutdownRequested /\ main # "reason" /\ log \notin {"worker failed", "gracefully"}

LEMMA RequestedStep == Progress /\ Requested /\ [Next]_vars => Requested'
<1> SUFFICES ASSUME Progress, Requested, [Next]_vars, failed' = {} PROVE Requested'
  BY DEF Requested
<1>1. worker \in [Workers -> Status]
  BY DEF Progress
<1>2. failed = {} /\ \A w \in Workers : ~WorkerFails(w)
  BY DEF Next, MainStep, WorkerRuns, ParseArgs, BuildComponents, Startup, WaitTimeout, WaitFails,
         IsShutdownRequested, GetEC, Leave, RequestShutdown, Shutdown, DestroyLogger, TakeSignal,
         SignalArrives, SaverLoop, WorkerStops, WorkerInterrupted, WorkerFails, ClaimShutdown,
         StoreEC, KillSelf, Finished, vars
<1>3. /\ \A w \in Workers : worker[w] \notin {"claim", "store", "kill"}
      /\ ~shutdownRequested /\ main # "reason" /\ log \notin {"worker failed", "gracefully"}
  BY <1>2 DEF Requested
<1>4. CASE UNCHANGED <<worker, main, log, shutdownRequested>>
  BY <1>3, <1>4 DEF Requested
<1>5. CASE ParseArgs \/ BuildComponents \/ RequestShutdown \/ DestroyLogger \/ WaitTimeout
           \/ WaitFails \/ IsShutdownRequested
  BY <1>3, <1>5 DEF ParseArgs, BuildComponents, RequestShutdown, DestroyLogger, WaitTimeout,
                    WaitFails, IsShutdownRequested, SeesRequest, Leave, handler, Requested
<1>6. CASE Startup
  BY <1>1, <1>3, <1>6 DEF Startup, handler, Requested
<1>7. CASE Shutdown
  BY <1>1, <1>3, <1>7 DEF Shutdown, handler, Requested
<1>8. ASSUME NEW s \in Signals, TakeSignal(s) PROVE Requested'
  BY <1>3, <1>8 DEF TakeSignal, Leave, handler, Requested
<1>9. ASSUME NEW w \in Workers, WorkerStops(w) \/ WorkerInterrupted(w) PROVE Requested'
  BY <1>1, <1>3, <1>9 DEF WorkerStops, WorkerInterrupted, handler, Requested
<1>10. CASE SaverLoop
  BY <1>1, <1>3, <1>10 DEF SaverLoop, handler, Requested
<1>11. \A w \in Workers : ~ClaimShutdown(w) /\ ~StoreEC(w) /\ ~KillSelf(w)
  BY <1>3 DEF ClaimShutdown, StoreEC, KillSelf
<1>12. ~GetEC
  BY <1>3 DEF GetEC
<1>13. ASSUME NEW s \in Signals, SignalArrives(s) PROVE Requested'
  BY <1>4, <1>13 DEF SignalArrives, handler
<1>14. CASE Finished \/ UNCHANGED vars
  BY <1>4, <1>14 DEF Finished, vars
<1> QED
  BY <1>2, <1>5, <1>6, <1>7, <1>8, <1>9, <1>10, <1>11, <1>12, <1>13, <1>14
     DEF Next, MainStep, WorkerRuns

\* Main never takes a wake-up, for whatever reason, for a request that no worker
\* made.
THEOREM NothingElseEndsIt == Spec => []OnlyFailuresEndIt
<1>1. Init => Requested
  BY DEF Init, Requested
<1>2. Requested => OnlyFailuresEndIt
  BY DEF Requested, OnlyFailuresEndIt
<1> QED
  BY <1>1, <1>2, ProgressInit, ProgressStep, RequestedStep, PTL DEF Spec

-----------------------------------------------------------------------------
\* An option that is given has a last value, which is one of the arguments.
LEMMA LastValue ==
  ASSUME NEW a \in Seq(Argument), NEW name, Given(a, name)
  PROVE  Arg(a, name) \in Argument
<1> DEFINE P == Places(a, name)
           T == {Len(a) - i : i \in P}
<1>1. P \subseteq 1 .. Len(a) /\ P # {}
  BY DEF Places, Given
<1>2. T \subseteq Nat /\ T # {}
  BY <1>1
<1>3. PICK x \in T : \A y \in T : ~ (<<y, x>> \in OpToRel(<, Nat))
  <2> HIDE DEF T
  <2> QED
    BY <1>2, NatLessThanWellFounded, WFMin
<1>4. \A y \in T : ~ (y < x)
  <2> SUFFICES ASSUME NEW y \in T, y < x PROVE FALSE
    OBVIOUS
  <2> HIDE DEF T
  <2>1. <<y, x>> \in OpToRel(<, Nat)
    BY <1>2 DEF OpToRel
  <2> QED
    BY <2>1, <1>3
<1>5. PICK i \in P : x = Len(a) - i
  OBVIOUS
<1>6. \A j \in P : j <= i
  <2> TAKE j \in P
  <2>1. ~ (Len(a) - j < Len(a) - i)
    BY <1>4, <1>5
  <2> QED
    BY <2>1, <1>1
<1>7. (CHOOSE k \in P : \A j \in P : j <= k) \in P
  BY <1>6
<1> QED
  BY <1>7, <1>1 DEF Arg

LEMMA AcceptedNumbers ==
  ASSUME NEW a \in Seq(Argument), Accepts(a), NEW n \in DOMAIN Option
  PROVE  Number(a, n) \in 1 .. MaxInt
<1>1. Number(a, n) \in Int /\ Number(a, n) <= MaxInt
  <2>1. CASE Given(a, Option[n])
    <3>1. Arg(a, Option[n]) \in Argument
      BY <2>1, LastValue
    <3>2. Arg(a, Option[n]).int \in -MaxInt .. MaxInt
      BY <3>1 DEF Argument
    <3> QED
      BY <2>1, <3>2, MaxIntAssumption DEF Number
  <2>2. CASE ~Given(a, Option[n])
    BY <2>2, MaxIntAssumption DEF Number, Defaults, Option
  <2> QED
    BY <2>1, <2>2
<1>2. Number(a, n) >= 1
  BY DEF Accepts, NumbersValid
<1> QED
  BY <1>1, <1>2, MaxIntAssumption

LEMMA Percentage == ASSUME NEW x \in 1 .. MaxInt, x <= 100 PROVE x \in 1 .. 100
BY MaxIntAssumption

\* What is kept of the arguments once they are parsed.
Parsed ==
  /\ argv \in Seq(Argument)
  /\ \/ options = <<>>
     \/ \E a \in Seq(Argument) : Accepts(a) /\ options = <<Parameters(a)>>

LEMMA ParsedInit == Init => Parsed
BY LifecycleAssumption DEF Init, Parsed

LEMMA ParsedStep == Parsed /\ [Next]_vars => Parsed'
<1> SUFFICES ASSUME Parsed, [Next]_vars PROVE Parsed'
  OBVIOUS
<1>1. CASE ParseArgs
  BY <1>1 DEF ParseArgs, Parsed
<1>2. CASE BuildComponents
  BY <1>2 DEF BuildComponents, Parsed
<1>3. CASE UNCHANGED config
  BY <1>3 DEF config, Parsed
<1>4. ParseArgs \/ BuildComponents \/ UNCHANGED config
  BY DEF Next, MainStep, Startup, DestroyLogger, WaitTimeout, WaitFails, IsShutdownRequested, GetEC,
         RequestShutdown, Shutdown, TakeSignal, SignalArrives, SaverLoop, WorkerRuns, WorkerStops,
         ClaimShutdown, StoreEC, KillSelf, WorkerFails, WorkerInterrupted, Finished, vars, config
<1> QED
  BY <1>1, <1>2, <1>3, <1>4

LEMMA AcceptedParameters ==
  ASSUME NEW a \in Seq(Argument), Accepts(a)
  PROVE  Safe(Parameters(a))
<1> DEFINE num == [n \in DOMAIN Option |-> Number(a, n)]
           ks == BlackholeMetric(a)
<1>1. Parameters(a).number = num /\ Parameters(a).ksMetric = ks
  BY DEF Parameters
<1>2. DOMAIN Option = {"rp", "ttl", "mi", "mp", "mr", "fi"}
  BY DEF Option
<1>3. \A n \in DOMAIN Option : num[n] = Number(a, n) /\ num[n] \in 1 .. MaxInt
  BY AcceptedNumbers
<1>4. num["mp"] \in 1 .. 100
  <2>1. Number(a, "mp") <= 100
    BY DEF Accepts, NumbersValid
  <2>2. Number(a, "mp") \in 1 .. MaxInt
    BY <1>2, AcceptedNumbers
  <2>3. Number(a, "mp") \in 1 .. 100
    BY <2>1, <2>2, Percentage
  <2> QED
    BY <1>2, <1>3, <2>3
<1>5. CASE Given(a, "-bp")
  <2>1. ks > Number(a, "rp")
    BY <1>5 DEF Accepts, BlackholeMetricValid
  <2>2. Arg(a, "-bp") \in Argument
    BY <1>5, LastValue
  <2>3. Arg(a, "-bp").int \in Int
    BY <2>2, MaxIntAssumption DEF Argument
  <2>4. ks \in Int
    BY <1>5, <2>3 DEF BlackholeMetric
  <2> HIDE DEF num, ks
  <2> QED
    BY <1>1, <1>2, <1>3, <1>4, <2>1, <2>4, MaxIntAssumption DEF Safe
<1>6. CASE ~Given(a, "-bp")
  <2>1. ks = Succ(num["rp"])
    BY <1>2, <1>3, <1>6 DEF BlackholeMetric
  <2> HIDE DEF num, ks
  <2> QED
    BY <1>1, <1>2, <1>3, <1>4, <2>1, MaxIntAssumption DEF Succ, Safe
<1> QED
  BY <1>5, <1>6

\* Whatever the command line, the components are built from parameters they can
\* rely on, and the kill switch gives way to the route it protects.
THEOREM AcceptedIsSafe == Spec => []ParametersAreSafe
<1>1. Parsed => ParametersAreSafe
  <2>1. CASE options = <<>>
    BY <2>1 DEF ParametersAreSafe
  <2>2. ASSUME NEW a \in Seq(Argument), Accepts(a), options = <<Parameters(a)>>
        PROVE  ParametersAreSafe
    BY <2>2, AcceptedParameters DEF ParametersAreSafe
  <2> QED
    BY <2>1, <2>2 DEF Parsed
<1> QED
  BY <1>1, ParsedInit, ParsedStep, PTL DEF Spec

-----------------------------------------------------------------------------
\* The types, with what they depend on: the arguments are parsed just before the
\* components are built, and only a sender has a code to store.
Types ==
  /\ TypeOK
  /\ main = "setup" => \E a \in Seq(Argument) : options = <<Parameters(a)>>
  /\ \A w \in Workers : worker[w] = "store" => w \in Senders
  /\ \A w \in Workers : worker[w] = "claim" => w \in Senders

LEMMA Lists ==
  /\ StartOrder \in Seq(Workers) /\ StopOrder \in Seq(Workers) /\ LoggerOrder \in Seq(Workers)
  /\ \A s \in Seq(Workers) : s # <<>> => Tail(s) \in Seq(Workers)
BY Names DEF StartOrder, StopOrder, LoggerOrder

LEMMA TypesInit == Init => Types
<1> SUFFICES ASSUME Init PROVE Types
  OBVIOUS
<1>1. Len(options) = 0 /\ main = "args" /\ left \in Seq(Workers)
  BY Lists DEF Init
<1>2. \A w \in Workers : worker[w] = "none"
  BY DEF Init
<1>3. /\ argv \in CommandLines \cup {<<>>} /\ useSaver \in BOOLEAN
      /\ asked \in [Workers -> BOOLEAN] /\ failed \subseteq Senders
      /\ shutdownRequested \in BOOLEAN /\ ec \in Nat /\ signals \subseteq Signals
      /\ log = "nothing"
  BY DEF Init
<1>4. worker \in [Workers -> {"none"}]
  BY DEF Init
<1> QED
  BY <1>1, <1>2, <1>3, <1>4 DEF Types, TypeOK

LEMMA TypesStep == Types /\ Parsed /\ [Next]_vars => Types'
<1> SUFFICES ASSUME Types, Parsed, [Next]_vars PROVE Types'
  OBVIOUS
<1>1. CASE ParseArgs
  <2>1. argv \in Seq(Argument)
    BY DEF Parsed
  <2>2. main' = "setup" => options' = <<Parameters(argv)>>
    BY <1>1 DEF ParseArgs
  <2>3. Len(options') <= 1
    <3>1. \A p : Len(<<p>>) = 1
      OBVIOUS
    <3>2. CASE main' = "setup"
      BY <2>2, <3>1, <3>2
    <3>3. CASE main' # "setup"
      BY <1>1, <3>3 DEF ParseArgs, Types, TypeOK
    <3> QED
      BY <3>2, <3>3
  <2>4. TypeOK'
    BY <1>1, <2>3 DEF ParseArgs, Types, TypeOK, config, handler
  <2> QED
    BY <1>1, <2>1, <2>2, <2>4 DEF ParseArgs, Types
<1>2. CASE BuildComponents
  <2>1. PICK a \in Seq(Argument) : options = <<Parameters(a)>>
    BY <1>2 DEF BuildComponents, Types
  <2>2. options[1].saveFile \in BOOLEAN
    BY <2>1 DEF Parameters, Given
  <2>3. useSaver' \in BOOLEAN /\ Len(options') = 0
    BY <1>2, <2>2 DEF BuildComponents
  <2>4. /\ main' \in {"start", "rejected"} /\ argv' = argv /\ UNCHANGED <<left, log>>
        /\ UNCHANGED <<worker, asked, failed>> /\ UNCHANGED <<shutdownRequested, ec, signals>>
    BY <1>2 DEF BuildComponents, handler
  <2>5. TypeOK'
    <3>1. (argv \in CommandLines \cup {<<>>})'
      BY <2>4 DEF Types, TypeOK
    <3>2. (Len(options) <= 1)' /\ useSaver' \in BOOLEAN
      BY <2>3
    <3>3. /\ (left \in Seq(Workers))'
          /\ (log \in {"nothing", "signal", "error", "worker failed", "gracefully"})'
          /\ (asked \in [Workers -> BOOLEAN])' /\ (failed \subseteq Senders)'
          /\ (shutdownRequested \in BOOLEAN /\ ec \in Nat /\ signals \subseteq Signals)'
      BY <2>4 DEF Types, TypeOK
    <3> QED
      BY <2>4, <3>1, <3>2, <3>3 DEF Types, TypeOK
  <2> QED
    BY <1>2, <2>5 DEF BuildComponents, Types
<1>3. CASE Startup
  BY <1>3, Lists, Names DEF Startup, Types, TypeOK, config, handler
<1>4. CASE DestroyLogger \/ WaitTimeout \/ WaitFails \/ IsShutdownRequested \/ GetEC
  BY <1>4, Lists DEF DestroyLogger, WaitTimeout, WaitFails, IsShutdownRequested, GetEC, Leave, Types, TypeOK, config, handler
<1>5. CASE RequestShutdown
  BY <1>5, Lists DEF RequestShutdown, Types, TypeOK, config, handler
<1>6. CASE Shutdown
  BY <1>6, Lists DEF Shutdown, Types, TypeOK, config, handler
<1>7. ASSUME NEW s \in Signals, TakeSignal(s) PROVE Types'
  BY <1>7, Lists DEF TakeSignal, Leave, Types, TypeOK, config, handler
<1>8. ASSUME NEW s \in Signals, SignalArrives(s) PROVE Types'
  BY <1>8 DEF SignalArrives, Types, TypeOK, config, handler
<1>9. CASE SaverLoop
  BY <1>9, Names DEF SaverLoop, Types, TypeOK, config, handler
<1>10. ASSUME NEW w \in Workers, WorkerStops(w) \/ WorkerFails(w) \/ WorkerInterrupted(w)
                                 \/ ClaimShutdown(w)
       PROVE  Types'
  BY <1>10 DEF WorkerStops, WorkerFails, WorkerInterrupted, ClaimShutdown, Types, TypeOK, config, handler
<1>11. ASSUME NEW w \in Workers, StoreEC(w) PROVE Types'
  BY <1>11, LifecycleAssumption DEF StoreEC, Code, Types, TypeOK, config, handler
<1>12. ASSUME NEW w \in Workers, KillSelf(w) PROVE Types'
  BY <1>12 DEF KillSelf, Signals, Types, TypeOK, config, handler
<1>13. CASE Finished \/ UNCHANGED vars
  BY <1>13 DEF Finished, vars, Types, TypeOK, config, handler
<1> QED
  BY <1>1, <1>2, <1>3, <1>4, <1>5, <1>6, <1>7, <1>8, <1>9, <1>10, <1>11, <1>12, <1>13
     DEF Next, MainStep, WorkerRuns

\* Every variable keeps its type: in particular the saver is started or not
\* according to parameters that were really parsed, and the code stored is one
\* of a worker that has one.
THEOREM LifecycleTypes == Spec => []TypeOK
<1>1. Types => TypeOK
  BY DEF Types
<1> QED
  BY <1>1, TypesInit, TypesStep, ParsedInit, ParsedStep, PTL DEF Spec
=============================================================================
