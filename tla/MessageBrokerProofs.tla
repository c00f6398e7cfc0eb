------------------------- MODULE MessageBrokerProofs -------------------------
(***************************************************************************)
(* Theorems about MessageBroker, for every set of threads, senders and     *)
(* subscribers: the guard against recursion knows exactly the calls that   *)
(* are under way in its thread.                                            *)
(***************************************************************************)
EXTENDS MessageBroker, TLAPS, FiniteSetTheorems, SequenceTheorems

Call == [sender : Senders, pending : SUBSET Subscribers, calling : Subscribers \cup {Nobody}]

\* The calls under way in a thread have different senders, those in callers.
Guarded(callersOf, calls) ==
  /\ calls \in Seq(Call)
  /\ callersOf = {calls[i].sender : i \in 1 .. Len(calls)}
  /\ \A i, j \in 1 .. Len(calls) : calls[i].sender = calls[j].sender => i = j

IInv ==
  /\ callers = [t \in Threads |-> callers[t]]
  /\ stack = [t \in Threads |-> stack[t]]
  /\ \A t \in Threads : Guarded(callers[t], stack[t])

\* Different senders: as many as there are calls.
LEMMA AsManyAsCalls ==
  ASSUME NEW S, NEW calls, Guarded(S, calls)
  PROVE  IsFiniteSet(S) /\ Cardinality(S) = Len(calls)
<1> DEFINE n == Len(calls)
           f == [i \in 1 .. n |-> calls[i].sender]
<1>1. n \in Nat
  BY DEF Guarded
<1>2. f \in Bijection(1 .. n, S)
  <2>1. f \in [1 .. n -> S] /\ \A s \in S : \E i \in 1 .. n : f[i] = s
    BY DEF Guarded
  <2>2. \A i, j \in 1 .. n : f[i] = f[j] => i = j
    BY DEF Guarded
  <2> HIDE DEF f
  <2> QED
    BY <2>1, <2>2 DEF Bijection, Injection, Surjection, IsInjective
<1>3. IsFiniteSet(1 .. n) /\ Cardinality(1 .. n) = n
  BY <1>1, FS_Interval
<1>4. ExistsBijection(1 .. n, S)
  BY <1>2 DEF ExistsBijection
<1> QED
  BY <1>3, <1>4, FS_Bijection

\* A call that is entered has a sender that had none under way.
LEMMA Pushed ==
  ASSUME NEW S, NEW calls, Guarded(S, calls), NEW call \in Call, call.sender \notin S
  PROVE  Guarded(S \cup {call.sender}, Append(calls, call))
<1> DEFINE new == Append(calls, call)
<1>1. /\ new \in Seq(Call)
      /\ Len(new) = Len(calls) + 1
      /\ \A i \in 1 .. Len(calls) : new[i] = calls[i]
      /\ new[Len(new)] = call
      /\ Len(calls) \in Nat
  BY DEF Guarded
<1> HIDE DEF new
<1>2. 1 .. Len(new) = (1 .. Len(calls)) \cup {Len(new)}
  BY <1>1
<1>3. {new[i].sender : i \in 1 .. Len(new)} = S \cup {call.sender}
  BY <1>1, <1>2 DEF Guarded
<1>4. \A i \in 1 .. Len(calls) : calls[i].sender # call.sender
  BY DEF Guarded
<1>5. \A i, j \in 1 .. Len(new) : new[i].sender = new[j].sender => i = j
  BY <1>1, <1>2, <1>4 DEF Guarded
<1> QED
  BY <1>1, <1>3, <1>5 DEF Guarded, new

\* The innermost call, and the others.
LEMMA Innermost ==
  ASSUME NEW calls \in Seq(Call), calls # <<>>
  PROVE  LET outer == SubSeq(calls, 1, Len(calls) - 1)
         IN  /\ Len(calls) \in Nat \ {0}
             /\ calls[Len(calls)] \in Call
             /\ outer \in Seq(Call)
             /\ Len(outer) = Len(calls) - 1
             /\ \A i \in 1 .. Len(calls) - 1 : outer[i] = calls[i]
<1>1. Len(calls) \in Nat \ {0}
  BY EmptySeq, LenProperties
<1> DEFINE n     == Len(calls)
           outer == SubSeq(calls, 1, n - 1)
<1>2. \A i \in 1 .. n : calls[i] \in Call
  BY ElementOfSeq
<1>3. n \in 1 .. n /\ 1 .. n - 1 \subseteq 1 .. n
  BY <1>1
<1>4. /\ outer \in Seq(Call)
      /\ Len(outer) = IF 1 <= n - 1 THEN n - 1 - 1 + 1 ELSE 0
      /\ \A i \in 1 .. n - 1 - 1 + 1 : outer[i] = calls[1 + i - 1]
  <2> HIDE DEF n
  <2>1. 1 \in Int /\ n - 1 \in Int /\ \A i \in 1 .. n - 1 : calls[i] \in Call
    BY <1>1, <1>2, <1>3 DEF n
  <2> QED
    BY <2>1, SubSeqProperties
<1>5. Len(outer) = n - 1 /\ \A i \in 1 .. n - 1 : outer[i] = calls[i]
  <2>1. n \in Nat \ {0}
    BY <1>1
  <2> HIDE DEF n, outer
  <2>2. n - 1 - 1 + 1 = n - 1 /\ \A i \in 1 .. n - 1 : 1 + i - 1 = i
    BY <2>1
  <2> QED
    BY <1>4, <2>1, <2>2
<1> QED
  BY <1>1, <1>2, <1>3, <1>4, <1>5

\* The innermost call goes on, under the same sender.
LEMMA Replaced ==
  ASSUME NEW S, NEW calls, Guarded(S, calls), calls # <<>>,
         NEW call \in Call, call.sender = calls[Len(calls)].sender
  PROVE  Guarded(S, Append(SubSeq(calls, 1, Len(calls) - 1), call))
<1> DEFINE outer == SubSeq(calls, 1, Len(calls) - 1)
           new   == Append(outer, call)
<1>1. /\ Len(calls) \in Nat \ {0}
      /\ outer \in Seq(Call)
      /\ Len(outer) = Len(calls) - 1
      /\ \A i \in 1 .. Len(calls) - 1 : outer[i] = calls[i]
  BY Innermost DEF Guarded
<1> HIDE DEF outer
<1>2. /\ new \in Seq(Call)
      /\ Len(new) = Len(calls)
      /\ \A i \in 1 .. Len(calls) : new[i] = IF i = Len(calls) THEN call ELSE calls[i]
  BY <1>1
<1> HIDE DEF new
<1>3. \A i \in 1 .. Len(calls) : new[i].sender = calls[i].sender
  BY <1>1, <1>2
<1> QED
  BY <1>2, <1>3 DEF Guarded, new, outer

\* The innermost call returns.
LEMMA Popped ==
  ASSUME NEW S, NEW calls, Guarded(S, calls), calls # <<>>
  PROVE  Guarded(S \ {calls[Len(calls)].sender}, SubSeq(calls, 1, Len(calls) - 1))
<1> DEFINE outer == SubSeq(calls, 1, Len(calls) - 1)
           n     == Len(calls)
<1>1. /\ n \in Nat \ {0}
      /\ outer \in Seq(Call)
      /\ Len(outer) = n - 1
      /\ \A i \in 1 .. n - 1 : outer[i] = calls[i]
  BY Innermost DEF Guarded
<1> HIDE DEF outer
<1>2. 1 .. n = (1 .. n - 1) \cup {n} /\ n \notin 1 .. n - 1
  BY <1>1
<1>3. \A i \in 1 .. n - 1 : calls[i].sender # calls[n].sender
  BY <1>1, <1>2 DEF Guarded
<1>4. S \ {calls[n].sender} = {calls[i].sender : i \in 1 .. n - 1}
  BY <1>2, <1>3 DEF Guarded
<1>5. {outer[i].sender : i \in 1 .. n - 1} = {calls[i].sender : i \in 1 .. n - 1}
  BY <1>1
<1>6. \A i, j \in 1 .. n - 1 : outer[i].sender = outer[j].sender => i = j
  BY <1>1, <1>2 DEF Guarded
<1> QED
  BY <1>1, <1>4, <1>5, <1>6 DEF Guarded, outer

LEMMA InitInv == Init => IInv
<1> SUFFICES ASSUME Init, NEW t \in Threads PROVE Guarded({}, <<>>)
  BY DEF Init, IInv
<1> QED
  BY DEF Guarded

LEMMA StepInv == IInv /\ [Next]_vars => IInv'
<1> SUFFICES ASSUME IInv, [Next]_vars PROVE IInv'
  OBVIOUS
<1>1. CASE UNCHANGED vars
  BY <1>1 DEF vars, IInv
<1>2. ASSUME NEW t \in Threads, NEW s \in Senders, SendMessage(t, s)
      PROVE  IInv'
  <2>1. CASE Refused(t, s)
    BY <1>2, <1>1, <2>1 DEF SendMessage
  <2>2. CASE ~Refused(t, s)
    <3> DEFINE call == [sender |-> s, pending |-> Subscribers, calling |-> Nobody]
    <3>1. call \in Call /\ call.sender = s
      BY DEF Call
    <3>2. Guarded(callers[t] \cup {s}, Append(stack[t], call))
      BY <2>2, <3>1, Pushed DEF Refused, IInv
    <3> QED
      BY <1>2, <2>2, <3>2 DEF SendMessage, IInv
  <2> QED
    BY <2>1, <2>2
<1>3. ASSUME NEW t \in Threads, stack[t] # <<>>, NEW call \in Call,
             call.sender = Top(t).sender, stack' = SetTop(t, call), UNCHANGED callers
      PROVE  IInv'
  <2>1. Guarded(callers[t], Append(SubSeq(stack[t], 1, Len(stack[t]) - 1), call))
    BY <1>3, Replaced DEF IInv, Top
  <2> QED
    BY <1>3, <2>1 DEF IInv, SetTop
<1>4. ASSUME NEW t \in Threads, stack[t] # <<>>
      PROVE  Top(t) \in Call
  BY <1>4, Innermost DEF IInv, Guarded, Top
<1>5. ASSUME NEW t \in Threads, NEW x \in Subscribers, CallSubscriber(t, x)
      PROVE  IInv'
  <2>1. PICK ready \in BOOLEAN :
          stack' = SetTop(t, [Top(t) EXCEPT !.pending = StillToCall(t, x),
                                            !.calling = IF ready THEN x ELSE Nobody])
    BY <1>5 DEF CallSubscriber
  <2> DEFINE call == [Top(t) EXCEPT !.pending = StillToCall(t, x),
                                    !.calling = IF ready THEN x ELSE Nobody]
  <2>2. Top(t) \in Call
    BY <1>4, <1>5 DEF CallSubscriber
  <2>3. call \in Call /\ call.sender = Top(t).sender
    BY <2>2 DEF Call, StillToCall
  <2> QED
    BY <1>3, <1>5, <2>1, <2>3 DEF CallSubscriber
<1>6. ASSUME NEW t \in Threads, HandlerReturns(t)
      PROVE  IInv'
  <2> DEFINE call == [Top(t) EXCEPT !.calling = Nobody]
  <2>1. Top(t) \in Call
    BY <1>4, <1>6 DEF HandlerReturns
  <2>2. call \in Call /\ call.sender = Top(t).sender
    BY <2>1 DEF Call
  <2> QED
    BY <1>3, <1>6, <2>2 DEF HandlerReturns
<1>7. ASSUME NEW t \in Threads, Return(t)
      PROVE  IInv'
  <2>1. Guarded(callers[t] \ {Top(t).sender}, SubSeq(stack[t], 1, Len(stack[t]) - 1))
    BY <1>7, Popped DEF IInv, Return, Top
  <2> QED
    BY <1>7, <2>1 DEF IInv, Return, Remaining
<1> QED
  BY <1>1, <1>2, <1>5, <1>6, <1>7 DEF Next

\* The senders of a thread in callers are those of the calls on its stack, one
\* call each: calls nest no deeper than there are senders, and no entry
\* outlives the outermost call, on whose stack the set lives.
THEOREM GuardKnowsCalls == Spec => []CallersAreOnTheStack
<1>1. IInv => CallersAreOnTheStack
  <2> SUFFICES ASSUME IInv, NEW t \in Threads
               PROVE  /\ callers[t] = {stack[t][i].sender : i \in 1 .. Depth(t)}
                      /\ Depth(t) = Cardinality(callers[t])
    BY DEF CallersAreOnTheStack
  <2> QED
    BY AsManyAsCalls DEF IInv, Guarded, Depth
<1> QED
  BY <1>1, InitInv, StepInv, PTL DEF Spec

\* A thread that is not in a call is never refused, whatever others send.
THEOREM OnlyRecursionIsRefused == Spec => []OutermostIsServed
<1>1. IInv => OutermostIsServed
  BY DEF IInv, Guarded, OutermostIsServed, Refused
<1> QED
  BY <1>1, InitInv, StepInv, PTL DEF Spec
=============================================================================
