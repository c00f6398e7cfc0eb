------------------------------- MODULE Delivery -------------------------------
(***************************************************************************)
(* The locks a message meets on its way: threads that send messages        *)
(* through the broker, handle them under the lock of the receiver and log  *)
(* whatever they do, each line under the lock of all loggers.              *)
(*                                                                         *)
(* A subscriber in Locked takes its own lock in OnMessage, as              *)
(* RoutingManager does, and sends no message while it holds it: the lock   *)
(* is not recursive.  Threads log outside of calls and in handlers, never  *)
(* in SendMessage; and while a line is written nothing else is done.       *)
(***************************************************************************)
EXTENDS MessageBroker

CONSTANTS
  Locked,     \* the subscribers that handle messages under a lock
  MaxLines    \* BOUND: lines written

ASSUME DeliveryAssumption == Locked \subseteq Subscribers /\ Nobody \notin Threads

VARIABLES
  opLock,     \* the threads that hold the locks of the subscribers
  extLock, line, output, endl, buffer, shown

Log == INSTANCE LogWriter

broker == <<callers, stack>>
logs   == <<extLock, line, output, endl, buffer, shown>>
deliveryVars == <<callers, stack, opLock, extLock, line, output, endl, buffer, shown>>

-----------------------------------------------------------------------------
\* The subscriber whose handler t is in, for its lock.
InLocked(t) == stack[t] # <<>> /\ Top(t).calling \in Locked

WaitsForLock(t) == InLocked(t) /\ opLock[Top(t).calling] # t

\* t is not held up by a lock, nor in the middle of a line.
Runs(t) == extLock # t /\ ~WaitsForLock(t)

LocksAfter(t) ==
  IF InLocked(t) THEN [opLock EXCEPT ![Top(t).calling] = Nobody] ELSE opLock

Send(t, s) ==
  /\ Runs(t) /\ ~InLocked(t)
  /\ SendMessage(t, s)
  /\ UNCHANGED <<opLock, logs>>

CallNext(t, x) ==
  /\ CallSubscriber(t, x)
  /\ UNCHANGED <<opLock, logs>>

\* The first line of the handlers of a subscriber with a lock.
TakeLock(t) ==
  /\ WaitsForLock(t)
  /\ opLock[Top(t).calling] = Nobody
  /\ opLock' = [opLock EXCEPT ![Top(t).calling] = t]
  /\ UNCHANGED <<broker, logs>>

FinishHandler(t) ==
  /\ Runs(t)
  /\ HandlerReturns(t)
  /\ opLock' = LocksAfter(t)
  /\ UNCHANGED logs

FinishCall(t) ==
  /\ Return(t)
  /\ UNCHANGED <<opLock, logs>>

StartLine(t, stream) ==
  /\ Runs(t) /\ CodeRuns(t)
  /\ Log!Construct(t, stream)
  /\ UNCHANGED <<broker, opLock>>

WriteLine(t) ==
  /\ Log!Writes(t)
  /\ UNCHANGED <<broker, opLock>>

FillBuffer ==
  /\ Log!BufferFull
  /\ UNCHANGED <<broker, opLock>>

-----------------------------------------------------------------------------
DeliveryInit ==
  /\ Init
  /\ opLock = [x \in Locked |-> Nobody]
  /\ Log!Init

ThreadStep(t) ==
  \/ \E s \in Senders : Send(t, s)
  \/ \E x \in Subscribers : CallNext(t, x)
  \/ TakeLock(t) \/ FinishHandler(t) \/ FinishCall(t)
  \/ \E stream \in Log!Streams : StartLine(t, stream)
  \/ WriteLine(t)

DeliveryNext == (\E t \in Threads : ThreadStep(t)) \/ FillBuffer

DeliverySpec == DeliveryInit /\ [][DeliveryNext]_deliveryVars

\* Fairness: as in MessageBroker; a thread that waits for a lock gets it in the
\* end, and a statement that logs ends.
FairDeliverySpec ==
  /\ DeliverySpec
  /\ \A t \in Threads :
       /\ \A n \in 1 .. Cardinality(Senders) : SF_deliveryVars(Depth(t) = n /\ FinishHandler(t))
       /\ WF_deliveryVars(FinishCall(t) \/ \E x \in Subscribers : CallNext(t, x))
       /\ SF_deliveryVars(TakeLock(t))
  /\ WF_deliveryVars(\E t \in Threads : WriteLine(t) /\ endl')
  /\ SF_deliveryVars(\E t \in Threads : WriteLine(t) /\ extLock' # t)
-----------------------------------------------------------------------------
\* A line of the log is the work of one statement.
LinesAreWhole == Log!LinesAreWhole
=============================================================================
