----------------------------- MODULE RouteLease -----------------------------
(***************************************************************************)
(* What the routing manager promises, without saying how.                  *)
(*                                                                         *)
(* A DNS answer for a destination buys a lease: until the deadline         *)
(* now + ttl + ExtraTTL the destination stays managed (its route is        *)
(* installed, or waits to be installed).  A later answer can only extend   *)
(* the lease, nothing shortens it, and it ends only once its deadline has  *)
(* passed.  A route nobody asked for may be adopted with the minimum lease *)
(* now + ExtraTTL.                                                         *)
(***************************************************************************)
EXTENDS Integers

CONSTANTS
  Dests,       \* the destinations
  TTLs,        \* the ttl values of DNS answers
  ExtraTTL     \* the interval added to every ttl (-ttl)

VARIABLES
  now,         \* the current second
  lease        \* lease[d] is the deadline of d, or NoLease

vars == <<now, lease>>

NoLease == -1

Init ==
  /\ now = 0
  /\ lease = [d \in Dests |-> NoLease]

Advance ==
  /\ now' \in Nat
  /\ now' >= now
  /\ UNCHANGED lease

\* A DNS answer: the deadline moves to the later of the old and the new one.
Request(d, ttl) ==
  LET deadline == now + ttl + ExtraTTL IN
  /\ lease' = [lease EXCEPT ![d] = IF @ < deadline THEN deadline ELSE @]
  /\ UNCHANGED now

\* A route the manager has no lease for is found installed.
Adopt(d) ==
  /\ lease[d] = NoLease
  /\ lease' = [lease EXCEPT ![d] = now + ExtraTTL]
  /\ UNCHANGED now

\* A lease ends, at its deadline or later.
Expire(d) ==
  /\ lease[d] # NoLease
  /\ lease[d] <= now
  /\ lease' = [lease EXCEPT ![d] = NoLease]
  /\ UNCHANGED now

Next ==
  \/ Advance
  \/ \E d \in Dests : Adopt(d) \/ Expire(d)
  \/ \E d \in Dests, ttl \in TTLs : Request(d, ttl)

Spec == Init /\ [][Next]_vars
=============================================================================
