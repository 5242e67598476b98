------------------------------- MODULE Slots -------------------------------
(***************************************************************************)
(* What the concurrency limits promise: for every key a set of requests    *)
(* that hold one of its slots, never more than its limit, as long as no    *)
(* request outlasts the key.  Taking a slot is atomic, and nothing of      *)
(* counters is left.                                                       *)
(***************************************************************************)
EXTENDS Naturals, FiniteSets

CONSTANTS Requests, Keys, Limit

VARIABLES holders,   \* [Keys -> SUBSET Requests]
          outlasted  \* keys that expired in use

Init ==
  /\ holders = [k \in Keys |-> {}]
  /\ outlasted = {}

Acquire(r, k) ==
  /\ r \notin holders[k]
  /\ k \in outlasted \/ Cardinality(holders[k]) < Limit[k]
  /\ holders' = [holders EXCEPT ![k] = @ \cup {r}]
  /\ UNCHANGED outlasted

Release(r, k) ==
  /\ r \in holders[k]
  /\ holders' = [holders EXCEPT ![k] = @ \ {r}]
  /\ UNCHANGED outlasted

\* A request ends without giving anything back: it holds no slot any more.
Crash(r) ==
  /\ holders' = [k \in Keys |-> holders[k] \ {r}]
  /\ UNCHANGED outlasted

Outlast(k) ==
  /\ outlasted' = outlasted \cup {k}
  /\ UNCHANGED holders

Next ==
  \/ \E r \in Requests, k \in Keys : Acquire(r, k) \/ Release(r, k)
  \/ \E r \in Requests : Crash(r)
  \/ \E k \in Keys : Outlast(k)

Spec == Init /\ [][Next]_<<holders, outlasted>>
=============================================================================
