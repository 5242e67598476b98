---------------------------- MODULE MCRateLimits ----------------------------
(***************************************************************************)
(* Three requests of one client.  A window is two steps of time, so that   *)
(* it can be entered, prolonged and left between any two commands.         *)
(***************************************************************************)
EXTENDS RateLimits, TLC

CONSTANTS r1, r2, r3

MCRequests == {r1, r2, r3}
Interchangeable == Permutations(MCRequests)

MCMax == [c \in Counters |-> IF c = "pr" THEN 2 ELSE 1]
MCWindow == [c \in Counters |-> 2]
=============================================================================
