-------------------------- MODULE MCCandidateUsage --------------------------
(***************************************************************************)
(* The requests of one month for three candidates and a limit of two: one  *)
(* is let in, the others are refused and asked for again.                  *)
(***************************************************************************)
EXTENDS CandidateUsage, TLC

CONSTANTS r1, r2, r3, r4, r5, c1, c2, c3

MCRequests == {r1, r2, r3, r4, r5}
MCCandidates == {c1, c2, c3}
Interchangeable == Permutations(MCRequests) \cup Permutations(MCCandidates)
=============================================================================
