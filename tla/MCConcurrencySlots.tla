------------------------- MODULE MCConcurrencySlots -------------------------
(***************************************************************************)
(* Three requests of one user, who has two slots while the system has one: *)
(* each key has more requests than slots.                                  *)
(***************************************************************************)
EXTENDS ConcurrencySlots

CONSTANTS r1, r2, r3, u1

MCRequests == {r1, r2, r3}
MCUsers == {u1}
MCUserOf == [r \in MCRequests |-> u1]
MCLimits == [k \in Keys |-> IF k = Global THEN 1 ELSE 2]

\* One worker may die.
MCMortal == {r1}
=============================================================================
