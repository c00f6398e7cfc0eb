---------------------------- MODULE MessageBroker ----------------------------
(***************************************************************************)
(* MessageBroker: SendMessage calls every subscriber in the thread that    *)
(* sends.  A subscriber may send in turn, so calls nest; callers holds, by *)
(* thread, the senders whose calls are under way, to stop infinite         *)
(* recursion.  The set of a thread lives on the stack of its outermost     *)
(* call.                                                                   *)
(*                                                                         *)
(* No subscriber of this program sends while it handles a message; what    *)
(* handlers do is external, and any of them may send anything.             *)
(***************************************************************************)
EXTENDS Integers, Sequences, FiniteSets

CONSTANTS Threads, Senders, Subscribers

VARIABLES
  callers,    \* the senders by thread; {} stands for no entry
  stack       \* the calls under way, by thread, the outermost first

vars == <<callers, stack>>

\* A call under way is a record of its sender, the subscribers that are pending,
\* and the one that is handling the message.
Nobody == "nobody"

Top(t) == stack[t][Len(stack[t])]

SetTop(t, call) == [stack EXCEPT ![t] = Append(SubSeq(@, 1, Len(@) - 1), call)]

Depth(t) == Len(stack[t])

\* May t call SendMessage?  Its outermost code may, and so may a handler.
CodeRuns(t) == stack[t] # <<>> => Top(t).calling # Nobody

\* Mutant: the senders of all threads are looked at.
RefusedByOthers(t, s) == \E u \in Threads : s \in callers[u]

\* A sender whose call is under way in this thread is not served again.
Refused(t, s) == s \in callers[t]

\* The first critical section: the call is entered, or refused.
SendMessage(t, s) ==
  /\ CodeRuns(t)
  /\ IF Refused(t, s)
     THEN UNCHANGED vars
     ELSE /\ callers' = [callers EXCEPT ![t] = @ \cup {s}]
          /\ stack' = [stack EXCEPT ![t] =
               Append(@, [sender |-> s, pending |-> Subscribers, calling |-> Nobody])]

\* Mutant: the loop does not move on.
StillToCallAll(t, x) == Top(t).pending

StillToCall(t, x) == Top(t).pending \ {x}

\* The next subscriber, in the order of their addresses, is called if it is
\* ready for the message.
CallSubscriber(t, x) ==
  /\ stack[t] # <<>>
  /\ Top(t).calling = Nobody
  /\ x \in Top(t).pending
  /\ \E ready \in BOOLEAN :
       stack' = SetTop(t, [Top(t) EXCEPT !.pending = StillToCall(t, x),
                                         !.calling = IF ready THEN x ELSE Nobody])
  /\ UNCHANGED callers

HandlerReturns(t) ==
  /\ stack[t] # <<>>
  /\ Top(t).calling # Nobody
  /\ stack' = SetTop(t, [Top(t) EXCEPT !.calling = Nobody])
  /\ UNCHANGED callers

\* Mutant: only the outermost call cleans up.
RemainingOuter(t) == IF Depth(t) = 1 THEN {} ELSE callers[t]

Remaining(t) == callers[t] \ {Top(t).sender}

\* The last critical section: the sender is erased, and the entry of the
\* thread with the last one.
Return(t) ==
  /\ stack[t] # <<>>
  /\ Top(t).calling = Nobody
  /\ Top(t).pending = {}
  /\ callers' = [callers EXCEPT ![t] = Remaining(t)]
  /\ stack' = [stack EXCEPT ![t] = SubSeq(@, 1, Len(@) - 1)]

Init ==
  /\ callers = [t \in Threads |-> {}]
  /\ stack = [t \in Threads |-> <<>>]

Next ==
  \E t \in Threads :
    \/ \E s \in Senders : SendMessage(t, s)
    \/ \E x \in Subscribers : CallSubscriber(t, x)
    \/ HandlerReturns(t) \/ Return(t)

Spec == Init /\ [][Next]_vars

\* Fairness: the threads run, and a handler, at whatever depth, returns after
\* finitely many calls of its own.
FairSpec ==
  /\ Spec
  /\ \A t \in Threads :
       /\ \A n \in 1 .. Cardinality(Senders) : SF_vars(Depth(t) = n /\ HandlerReturns(t))
       /\ WF_vars(Return(t))
       /\ WF_vars(\E x \in Subscribers : CallSubscriber(t, x))
-----------------------------------------------------------------------------
\* Every sender has at most one call under way in a thread, so calls nest no
\* deeper than there are senders; and callers holds these senders, no more: an
\* entry that outlives the outermost call would point into a dead stack frame.
CallersAreOnTheStack ==
  \A t \in Threads :
    /\ callers[t] = {stack[t][i].sender : i \in 1 .. Depth(t)}
    /\ Depth(t) = Cardinality(callers[t])

\* A message is refused only to end a recursion: never that of a thread that
\* is not in a call, whatever the other threads are sending.
OutermostIsServed ==
  \A t \in Threads, s \in Senders : stack[t] = <<>> => ~Refused(t, s)

\* The recursion ends: every call returns, whatever the handlers send.
CallsReturn == \A t \in Threads : stack[t] # <<>> ~> stack[t] = <<>>
=============================================================================
