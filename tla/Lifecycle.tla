------------------------------ MODULE Lifecycle ------------------------------
(***************************************************************************)
(* Main, WorkerBase and ShutdownHandler: how the program is configured and *)
(* its worker threads are started, and how it ends.                        *)
(*                                                                         *)
(* A sender that fails sends a ShutdownMessage, which ShutdownHandler      *)
(* handles in the sender's thread: it claims the shutdown, stores the      *)
(* error code and sends SIGUSR2 to the process.  Main waits for signals,   *)
(* all blocked elsewhere, and looks at the handler when it wakes up.  It   *)
(* then asks every worker to stop, joins them one after the other, and     *)
(* destroys their loggers.                                                 *)
(***************************************************************************)
EXTENDS Integers, Sequences, CommandLine

CONSTANTS
  CommandLines,   \* the arguments the program may be given
  ErrorCode       \* the code each sender sends when it fails

\* The workers.  The receiver and the tracker send messages; the saver, which
\* does nothing yet, is only started with -fr.
Senders == {"dnsReceiver", "tracker"}
Manager == "routingMgr"
Saver == "stateSaver"
Workers == Senders \cup {Manager, Saver}

ASSUME LifecycleAssumption ==
  /\ CommandLines \subseteq Seq(Argument)
  /\ ErrorCode \in [Senders -> Nat \ {0}]

VARIABLES
  argv,               \* the arguments, until they are parsed
  options,            \* the parameters, until the components are built
  useSaver,           \* !saveFile.empty()
  main,               \* control state of the main thread
  left,               \* workers it still has to deal with in the loop it is in
  log,                \* what it says the reason of the shutdown is
  worker,             \* control state of the workers' threads
  asked,              \* their shutdown flags
  failed,             \* history: the workers that called HandleError
  shutdownRequested, ec,  \* ShutdownHandler
  signals             \* external: pending signals

config == <<argv, options, useSaver>>
handler == <<shutdownRequested, ec>>
vars == <<argv, options, useSaver, main, left, log, worker, asked, failed, shutdownRequested, ec, signals>>

StartOrder == <<"routingMgr", "dnsReceiver", "tracker", "stateSaver">>

\* Mutants: the manager is stopped first; the saver is forgotten.
StopOrderManagerFirst == StartOrder

StopOrderOfSenders == <<"dnsReceiver", "tracker", "routingMgr">>

StopOrder == <<"dnsReceiver", "tracker", "routingMgr", "stateSaver">>

LoggerOrder == <<"stateSaver", "tracker", "dnsReceiver", "routingMgr">>

\* Arguments that are not accepted end the program at once.
ParseArgs ==
  /\ main = "args"
  /\ argv' = <<>>
  /\ IF Accepts(argv)
     THEN main' = "setup" /\ options' = <<Parameters(argv)>>
     ELSE main' = "rejected" /\ UNCHANGED options
  /\ UNCHANGED <<useSaver, left, log, worker, asked, failed, handler, signals>>

\* The components are built from the parameters, then signals are blocked.
BuildComponents ==
  /\ main = "setup"
  /\ useSaver' = options[1].saveFile
  /\ options' = <<>>
  /\ main' \in {"start", "rejected"}
  /\ UNCHANGED <<argv, left, log, worker, asked, failed, handler, signals>>

\* Startup of the next worker: a manager that cannot open its socket has no
\* thread, and Main does not look at what Startup returns.
Startup ==
  /\ main = "start"
  /\ IF left = <<>>
     THEN main' = "wait" /\ left' = <<>> /\ UNCHANGED worker
     ELSE /\ main' = "start" /\ left' = Tail(left)
          /\ \/ /\ Head(left) = Saver => useSaver
                /\ worker' = [worker EXCEPT ![Head(left)] = "running"]
             \/ /\ Head(left) = Manager \/ (Head(left) = Saver /\ ~useSaver)
                /\ UNCHANGED worker
  /\ UNCHANGED <<config, log, asked, failed, handler, signals>>

Leave(reason) == main' = "request" /\ left' = StopOrder /\ log' = reason

EndsProgram(s) == s # "USR2"

\* sigtimedwait returns a signal.
TakeSignal(s) ==
  /\ main = "wait"
  /\ s \in signals
  /\ signals' = signals \ {s}
  /\ IF EndsProgram(s) THEN Leave("signal") ELSE main' = "check" /\ UNCHANGED <<left, log>>
  /\ UNCHANGED <<config, worker, asked, failed, handler>>

WaitTimeout ==
  /\ main = "wait"
  /\ signals = {}
  /\ main' = "check"
  /\ UNCHANGED <<config, left, log, worker, asked, failed, handler, signals>>

WaitFails ==
  /\ main = "wait"
  /\ Leave("error")
  /\ UNCHANGED <<config, worker, asked, failed, handler, signals>>

\* Mutants: only the code of the receiver is known; every wake-up is a request.
SeesRequestOfOne == shutdownRequested /\ ec = 1

SeesRequestAlways == TRUE

SeesRequest == shutdownRequested

IsShutdownRequested ==
  /\ main = "check"
  /\ main' = IF SeesRequest THEN "reason" ELSE "wait"
  /\ UNCHANGED <<config, left, log, worker, asked, failed, handler, signals>>

GetEC ==
  /\ main = "reason"
  /\ Leave(IF ec # 0 THEN "worker failed" ELSE "gracefully")
  /\ UNCHANGED <<config, worker, asked, failed, handler, signals>>

\* RequestShutdown of the next worker does nothing if it has no thread.
RequestShutdown ==
  /\ main = "request"
  /\ IF left = <<>>
     THEN main' = "join" /\ left' = StopOrder /\ UNCHANGED asked
     ELSE /\ main' = "request" /\ left' = Tail(left)
          /\ asked' = IF worker[Head(left)] = "none" THEN asked
                      ELSE [asked EXCEPT ![Head(left)] = TRUE]
  /\ UNCHANGED <<config, log, worker, failed, handler, signals>>

\* Shutdown of the next worker: it is asked once more and joined.
Shutdown ==
  /\ main = "join"
  /\ IF left = <<>>
     THEN main' = "destroy" /\ left' = LoggerOrder /\ UNCHANGED worker
     ELSE /\ main' = "join" /\ left' = Tail(left)
          /\ worker[Head(left)] \in {"none", "ended"}
          /\ worker' = IF worker[Head(left)] = "none" THEN worker
                       ELSE [worker EXCEPT ![Head(left)] = "joined"]
  /\ UNCHANGED <<config, log, asked, failed, handler, signals>>

\* The loggers are destroyed, Main's own last.
DestroyLogger ==
  /\ main = "destroy"
  /\ IF left = <<>> THEN main' = "exit" /\ UNCHANGED left
                    ELSE main' = "destroy" /\ left' = Tail(left)
  /\ UNCHANGED <<config, log, worker, asked, failed, handler, signals>>

-----------------------------------------------------------------------------
(***************************************************************************)
(* The workers.                                                            *)
(***************************************************************************)
\* The worker's loop sees its flag.
WorkerStops(w) ==
  /\ w # Saver
  /\ worker[w] = "running"
  /\ asked[w]
  /\ worker' = [worker EXCEPT ![w] = "ended"]
  /\ UNCHANGED <<config, main, left, log, asked, failed, handler, signals>>

\* The saver looks at its flag, sleeps, and finds nothing to save.
SaverLoop ==
  /\ worker[Saver] \in {"running", "sleep"}
  /\ worker' = [worker EXCEPT ![Saver] =
       IF @ = "sleep" THEN "running" ELSE IF asked[Saver] THEN "ended" ELSE "sleep"]
  /\ UNCHANGED <<config, main, left, log, asked, failed, handler, signals>>

\* The tracker's loop is interrupted by a signal and ends, unnoticed; the
\* receiver's starts over.
WorkerInterrupted(w) ==
  /\ w = "tracker"
  /\ worker[w] = "running"
  /\ worker' = [worker EXCEPT ![w] = "ended"]
  /\ UNCHANGED <<config, main, left, log, asked, failed, handler, signals>>

WorkerFails(w) ==
  /\ w \in Senders
  /\ worker[w] = "running"
  /\ worker' = [worker EXCEPT ![w] = "claim"]
  /\ failed' = failed \cup {w}
  /\ UNCHANGED <<config, main, left, log, asked, handler, signals>>

\* Mutant: the flag is set, whoever set it before.
ClaimedNever == FALSE

Claimed == shutdownRequested

\* Mutant: the code is negated, as the kernel does.
CodeNegated(w) == -ErrorCode[w]

Code(w) == ErrorCode[w]

\* OnMessage of ShutdownHandler: exchange, store and kill, in three steps.
ClaimShutdown(w) ==
  /\ worker[w] = "claim"
  /\ shutdownRequested' = TRUE
  /\ worker' = [worker EXCEPT ![w] = IF Claimed THEN "ended" ELSE "store"]
  /\ UNCHANGED <<config, main, left, log, asked, failed, ec, signals>>

StoreEC(w) ==
  /\ worker[w] = "store"
  /\ ec' = Code(w)
  /\ worker' = [worker EXCEPT ![w] = "kill"]
  /\ UNCHANGED <<config, main, left, log, asked, failed, shutdownRequested, signals>>

KillSelf(w) ==
  /\ worker[w] = "kill"
  /\ signals' = signals \cup {"USR2"}
  /\ worker' = [worker EXCEPT ![w] = "ended"]
  /\ UNCHANGED <<config, main, left, log, asked, failed, handler>>

\* Somebody sends the process a signal.  TERM stands for HUP and USR1 too; one
\* that comes before signals are blocked kills the process.
SignalArrives(s) ==
  /\ main \notin {"args", "setup", "rejected", "exit"}
  /\ signals' = signals \cup {s}
  /\ UNCHANGED <<config, main, left, log, worker, asked, failed, handler>>

-----------------------------------------------------------------------------
Init ==
  /\ argv \in CommandLines
  /\ options = <<>>
  /\ useSaver = FALSE
  /\ main = "args"
  /\ left = StartOrder
  /\ log = "nothing"
  /\ worker = [w \in Workers |-> "none"]
  /\ asked = [w \in Workers |-> FALSE]
  /\ failed = {}
  /\ shutdownRequested = FALSE
  /\ ec = 0
  /\ signals = {}

Signals == {"USR2", "TERM"}

MainStep ==
  \/ ParseArgs \/ BuildComponents \/ Startup \/ DestroyLogger \/ WaitTimeout \/ IsShutdownRequested \/ GetEC \/ RequestShutdown \/ Shutdown
  \/ \E s \in Signals : TakeSignal(s)

WorkerRuns(w) == WorkerStops(w) \/ ClaimShutdown(w) \/ StoreEC(w) \/ KillSelf(w)

Finished == main \in {"rejected", "exit"} /\ UNCHANGED vars

Next ==
  \/ MainStep \/ WaitFails \/ SaverLoop
  \/ \E w \in Workers : WorkerRuns(w) \/ WorkerFails(w) \/ WorkerInterrupted(w)
  \/ \E s \in Signals : SignalArrives(s)
  \/ Finished

Spec == Init /\ [][Next]_vars

\* Fairness: every thread runs, and nobody sends SIGUSR2, which may be taken
\* first, so fast that a pending TERM never gets its turn.
FairSpec ==
  /\ Spec
  /\ WF_vars(MainStep)
  /\ SF_vars(TakeSignal("TERM"))
  /\ WF_vars(SaverLoop)
  /\ \A w \in Workers : WF_vars(WorkerRuns(w))
-----------------------------------------------------------------------------
TypeOK ==
  /\ argv \in CommandLines \cup {<<>>}
  /\ Len(options) <= 1
  /\ useSaver \in BOOLEAN
  /\ main \in {"args", "rejected", "setup", "start", "wait", "check", "reason", "request",
               "join", "destroy", "exit"}
  /\ left \in Seq(Workers)
  /\ log \in {"nothing", "signal", "error", "worker failed", "gracefully"}
  /\ worker \in [Workers -> {"none", "running", "sleep", "claim", "store", "kill", "ended", "joined"}]
  /\ asked \in [Workers -> BOOLEAN]
  /\ failed \subseteq Senders
  /\ shutdownRequested \in BOOLEAN
  /\ ec \in Nat
  /\ signals \subseteq Signals

\* The manager closes its socket, in Shutdown, only when no other thread can
\* call its handlers any more.
ManagerIsStoppedLast ==
  worker[Manager] = "joined" => \A w \in Senders : worker[w] = "joined"

\* RoutingManager's assumption on its parameters, and a blackhole route that gives
\* way to the route it protects: the kernel reads both priorities as unsigned.
Safe(o) ==
  LET prio(m) == IF m < 0 THEN m + 2 * (MaxInt + 1) ELSE m
  IN  /\ \A n \in {"ttl", "mi", "mr", "fi"} : o.number[n] \in 1 .. MaxInt
      /\ o.number["mp"] \in 1 .. 100
      /\ prio(o.ksMetric) > prio(o.number["rp"])

\* What the components are built from is what they rely on, whatever options are
\* left out or given twice, also if one more than the greatest int wraps around.
ParametersAreSafe == \A i \in DOMAIN options : Safe(options[i])

\* A worker's logger, and after Main's end the worker itself, is there as long
\* as its thread may use it.
LoggersOutliveThreads ==
  \A w \in Workers :
    \/ worker[w] \in {"none", "joined"}
    \/ main \notin {"destroy", "exit"}
    \/ main = "destroy" /\ \E i \in DOMAIN left : left[i] = w

\* The error code is that of the worker that claimed the shutdown: failures
\* that follow do not change it under Main's eyes.
FirstErrorStays == [][ec # 0 => ec' = ec]_ec

\* When a worker has failed the program ends, also if the signal it sends is
\* merged with another or taken before the handler is looked at; and so it does
\* after a signal, whichever workers are left.
ProgramEnds ==
  /\ failed # {} ~> main = "exit"
  /\ "TERM" \in signals ~> main = "exit"

\* Main leaves its loop for the handler's sake only after a worker has failed:
\* not because of a timeout, nor of a SIGUSR2 that somebody else sent.
OnlyFailuresEndIt == log \in {"worker failed", "gracefully"} => failed # {}
=============================================================================
