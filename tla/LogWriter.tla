------------------------------ MODULE LogWriter ------------------------------
(***************************************************************************)
(* LogWriter, StdioLogger and StdioLoggerFactory: one statement that logs  *)
(* is one LogWriter, which holds the only lock of all loggers from its     *)
(* constructor to its destructor, and is one line of the log.              *)
(*                                                                         *)
(* Informations and warnings go to std::cout, errors to std::cerr, which   *)
(* is not buffered.  What a line says is left out: only which LogWriter a  *)
(* piece of text is from.  External: the buffer of std::cout, which may be *)
(* written out at any time, and what is seen: in a file for each stream,   *)
(* or on a terminal that shows both.                                       *)
(***************************************************************************)
EXTENDS Naturals

CONSTANTS
  Threads,
  Nobody,       \* no thread
  MaxLines      \* BOUND: LogWriters constructed

Streams == {"cout", "cerr"}

VARIABLES
  extLock,      \* the thread whose LogWriter lives
  line,         \* LogWriters constructed so far: the last is the one that lives
  output, endl, \* its stream, and whether it was given std::endl last, if it lives
  buffer,       \* external: the LogWriters with text in the buffer of std::cout
  shown         \* external: those with text after the last newline, by place

vars == <<extLock, line, output, endl, buffer, shown>>

Places == Streams \cup {"terminal"}

\* The places where a stream is seen get S after what they show, or a newline.
Show(stream, S) ==
  [p \in Places |-> IF p \in {stream, "terminal"} THEN shown[p] \cup S ELSE shown[p]]

Newline(stream) ==
  [p \in Places |-> IF p \in {stream, "terminal"} THEN {} ELSE shown[p]]

-----------------------------------------------------------------------------
\* A piece of text of LogWriter n goes to a stream.
Text(stream, n) ==
  IF stream = "cout"
  THEN buffer' = buffer \cup {n} /\ UNCHANGED shown
  ELSE shown' = Show(stream, {n}) /\ UNCHANGED buffer

FlushCout ==
  /\ shown' = Show("cout", buffer)
  /\ buffer' = {}

\* std::endl: a newline, after what is in the buffer.
PutEndl(stream) ==
  /\ shown' = Newline(stream)
  /\ buffer' = IF stream = "cout" THEN {} ELSE buffer

\* Mutant: the lock is not taken.
LockIsFreeNot == TRUE

LockIsFree == extLock = Nobody

\* Info, Warning and Error: the lock is taken and the header is written.
Construct(t, stream) ==
  /\ LockIsFree
  /\ line < MaxLines
  /\ extLock' = t
  /\ line' = line + 1
  /\ output' = stream
  /\ endl' = FALSE
  /\ Text(stream, line + 1)

Write(t) ==
  /\ extLock = t
  /\ endl' = FALSE
  /\ Text(output, line)
  /\ UNCHANGED <<extLock, line, output>>

WriteEndl(t) ==
  /\ extLock = t
  /\ endl' = TRUE
  /\ PutEndl(output)
  /\ UNCHANGED <<extLock, line, output>>

\* Mutant: a newline is only written by std::endl.
FinishLineNot == FlushCout

\* The newline goes to std::cout, whatever the stream of the line.
FinishLine == IF endl THEN FlushCout ELSE PutEndl("cout")

\* The end of the statement.
Destroy(t) ==
  /\ extLock = t
  /\ FinishLine
  /\ extLock' = Nobody
  /\ output' = "cout" /\ endl' = FALSE
  /\ UNCHANGED <<line>>

\* The buffer is full.
BufferFull ==
  /\ buffer # {}
  /\ FlushCout
  /\ UNCHANGED <<extLock, line, output, endl>>

-----------------------------------------------------------------------------
Init ==
  /\ extLock = Nobody
  /\ line = 0
  /\ output = "cout"
  /\ endl = FALSE
  /\ buffer = {}
  /\ shown = [p \in Places |-> {}]

\* External: the statements of the program.  LogWriter takes any; those that
\* write to std::cerr, each Error() of the components, all end with std::endl.
StatementComplete == output = "cerr" => endl

\* What a thread does once it has the lock.
Writes(t) == Write(t) \/ WriteEndl(t) \/ (StatementComplete /\ Destroy(t))

Next ==
  \/ \E t \in Threads : Writes(t) \/ \E stream \in Streams : Construct(t, stream)
  \/ BufferFull

Spec == Init /\ [][Next]_vars
-----------------------------------------------------------------------------
TypeOK ==
  /\ extLock \in Threads \cup {Nobody}
  /\ line \in Nat
  /\ output \in Streams
  /\ endl \in BOOLEAN
  /\ buffer \subseteq 1 .. line
  /\ shown \in [Places -> SUBSET (1 .. line)]

\* Each line of the output is the work of one statement, whichever threads log
\* at the same time, whatever is left in the buffer, and whether the statement
\* ends with std::endl or leaves the newline to the destructor, as those that
\* write to std::cout may.
LinesAreWhole == \A p \in Places : \A m, n \in shown[p] : m = n
=============================================================================
