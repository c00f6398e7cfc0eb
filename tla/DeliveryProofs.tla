---------------------------- MODULE DeliveryProofs ----------------------------
(***************************************************************************)
(* Theorems about Delivery, for every set of threads, senders and          *)
(* subscribers and any number of lines: the locks do not change what the   *)
(* broker promises, and the lines of the log are whole.                    *)
(***************************************************************************)
EXTENDS Delivery, MessageBrokerProofs

(***************************************************************************)
(* Only the last LogWriter has text that no newline follows, if it lives:  *)
(* in the places of its stream, and in the buffer if that is std::cout.    *)
(***************************************************************************)
Empty(f) == f = [p \in Log!Places |-> {}]

LogInv ==
  /\ shown = [p \in Log!Places |-> shown[p]]
  /\ output \in Log!Streams
  /\ endl \in BOOLEAN
  /\ extLock = Nobody => Empty(shown)
  /\ extLock = Nobody => buffer = {}
  /\ endl => Empty(shown)
  /\ endl => buffer = {}
  /\ output = "cerr" => buffer = {} /\ shown["cout"] = {}
  /\ output = "cout" => shown["cerr"] = {}
  /\ buffer \subseteq {line}
  /\ \A p \in Log!Places : shown[p] \subseteq {line}

\* The constructor of LogWriter finds nothing unfinished.
LEMMA ConstructKeepsInv ==
  ASSUME LogInv, NEW t \in Threads, NEW stream \in Log!Streams, Log!Construct(t, stream)
  PROVE  LogInv'
<1>1. Empty(shown) /\ buffer = {} /\ extLock' # Nobody /\ endl' = FALSE
  BY DeliveryAssumption DEF LogInv, Log!Construct, Log!LockIsFree
<1>2. CASE stream = "cout"
  BY <1>1, <1>2 DEF LogInv, Empty, Log!Construct, Log!Text, Log!Places, Log!Streams
<1>3. CASE stream = "cerr"
  BY <1>1, <1>3 DEF LogInv, Empty, Log!Construct, Log!Text, Log!Show, Log!Places, Log!Streams
<1> QED
  BY <1>2, <1>3 DEF Log!Streams

\* So does every piece of text, std::endl, and the destructor.
LEMMA WritesKeepInv ==
  ASSUME LogInv, NEW t \in Threads, Log!Writes(t)
  PROVE  LogInv'
<1>1. CASE Log!Write(t)
  <2>1. extLock' # Nobody /\ endl' = FALSE /\ line' = line /\ output' = output
    BY <1>1, DeliveryAssumption DEF Log!Write
  <2>2. CASE output = "cout"
    BY <1>1, <2>1, <2>2 DEF LogInv, Empty, Log!Write, Log!Text, Log!Places, Log!Streams
  <2>3. CASE output = "cerr"
    BY <1>1, <2>1, <2>3 DEF LogInv, Empty, Log!Write, Log!Text, Log!Show, Log!Places, Log!Streams
  <2> QED
    BY <2>2, <2>3 DEF LogInv, Log!Streams
<1>2. CASE Log!WriteEndl(t)
  <2>1. extLock' # Nobody /\ endl' = TRUE /\ line' = line /\ output' = output
    BY <1>2, DeliveryAssumption DEF Log!WriteEndl
  <2>2. Empty(shown)' /\ buffer' = {}
    BY <1>2 DEF LogInv, Empty, Log!WriteEndl, Log!PutEndl, Log!Newline, Log!Places, Log!Streams
  <2> QED
    BY <2>1, <2>2 DEF LogInv, Empty, Log!Places, Log!Streams
<1>3. CASE Log!StatementComplete /\ Log!Destroy(t)
  <2>1. Empty(shown)' /\ buffer' = {}
    <3>1. CASE endl
      BY <1>3, <3>1 DEF LogInv, Empty, Log!Destroy, Log!FinishLine, Log!FlushCout, Log!Show,
                        Log!Places, Log!Streams
    <3>2. CASE ~endl
      BY <1>3, <3>2 DEF LogInv, Empty, Log!StatementComplete, Log!Destroy, Log!FinishLine, Log!PutEndl, Log!Newline,
                        Log!Places, Log!Streams
    <3> QED
      BY <3>1, <3>2
  <2>2. output' = "cout" /\ endl' = FALSE
    BY <1>3 DEF Log!Destroy
  <2> QED
    BY <2>1, <2>2 DEF LogInv, Empty, Log!Places, Log!Streams
<1> QED
  BY <1>1, <1>2, <1>3 DEF Log!Writes

\* Text that is written out because the buffer is full is of the same line.
LEMMA BufferFullKeepsInv ==
  ASSUME LogInv, Log!BufferFull
  PROVE  LogInv'
<1>1. output = "cout" /\ endl = FALSE /\ extLock # Nobody
  BY DEF LogInv, Log!BufferFull, Log!Streams
<1> QED
  BY <1>1 DEF LogInv, Empty, Log!BufferFull, Log!FlushCout, Log!Show, Log!Places, Log!Streams

\* The composition is one of the two: every step is one of the broker's or leaves
\* it alone, and so for the log.
LEMMA DeliveryStep ==
  ASSUME [DeliveryNext]_deliveryVars
  PROVE  [Next]_vars /\ [Log!Next]_logs
<1>1. CASE UNCHANGED deliveryVars
  BY <1>1 DEF deliveryVars, vars, logs
<1>2. CASE FillBuffer
  BY <1>2 DEF FillBuffer, Log!Next, broker, vars
<1>3. ASSUME NEW t \in Threads, ThreadStep(t)
      PROVE  [Next]_vars /\ [Log!Next]_logs
  <2>1. CASE \E s \in Senders : Send(t, s)
    BY <2>1, SMT DEF Send, Next, logs
  <2>2. CASE \E x \in Subscribers : CallNext(t, x)
    BY <2>2, SMT DEF CallNext, Next, logs
  <2>3. CASE TakeLock(t)
    BY <2>3, SMT DEF TakeLock, broker, vars, logs
  <2>4. CASE FinishHandler(t)
    BY <2>4, SMT DEF FinishHandler, Next, logs
  <2>5. CASE FinishCall(t)
    BY <2>5, SMT DEF FinishCall, Next, logs
  <2>6. CASE \E stream \in Log!Streams : StartLine(t, stream)
    BY <2>6 DEF StartLine, Log!Next, broker, vars
  <2>7. CASE WriteLine(t)
    BY <2>7 DEF WriteLine, Log!Next, broker, vars
  <2> QED
    BY <1>3, <2>1, <2>2, <2>3, <2>4, <2>5, <2>6, <2>7 DEF ThreadStep
<1> QED
  BY <1>1, <1>2, <1>3 DEF DeliveryNext

\* The broker inside the program's locks is the broker: its theorems hold.
THEOREM BrokerIsUnchanged == DeliverySpec => Spec
<1>1. DeliveryInit => Init
  BY DEF DeliveryInit
<1>2. [DeliveryNext]_deliveryVars => [Next]_vars
  BY DeliveryStep
<1> QED
  BY <1>1, <1>2, PTL DEF DeliverySpec, Spec

\* The guard against recursion knows the calls under way in a thread, and refuses
\* nobody else, also while threads wait for locks in their handlers.
THEOREM GuardHoldsUnderLocks == DeliverySpec => [](CallersAreOnTheStack /\ OutermostIsServed)
BY BrokerIsUnchanged, GuardKnowsCalls, OnlyRecursionIsRefused, PTL

\* The log is written line by line: no text of another statement in between,
\* on either stream or on a terminal that shows both, and no line goes on in
\* that of another.
THEOREM LogIsWhole == DeliverySpec => []LinesAreWhole
<1>1. DeliveryInit => LogInv
  BY DEF DeliveryInit, Log!Init, LogInv, Empty, Log!Places, Log!Streams
<1>2. LogInv /\ [DeliveryNext]_deliveryVars => LogInv'
  <2> SUFFICES ASSUME LogInv, [DeliveryNext]_deliveryVars PROVE LogInv'
    OBVIOUS
  <2>1. [Log!Next]_logs
    BY DeliveryStep
  <2>2. CASE UNCHANGED logs
    BY <2>2 DEF logs, LogInv, Empty
  <2>3. CASE Log!Next
    BY <2>3, ConstructKeepsInv, WritesKeepInv, BufferFullKeepsInv DEF Log!Next
  <2> QED
    BY <2>1, <2>2, <2>3
<1>3. LogInv => LinesAreWhole
  BY DEF LogInv, LinesAreWhole, Log!LinesAreWhole
<1> QED
  BY <1>1, <1>2, <1>3, PTL DEF DeliverySpec
=============================================================================
