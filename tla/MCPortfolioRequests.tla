------------------------ MODULE MCPortfolioRequests ------------------------
(***************************************************************************)
(* Instances of PortfolioRequests.  Two analyses of one key race for its   *)
(* entry, or the second copies from the first; a third request is for      *)
(* their candidate or for another one.  Limit 2 lets one new candidate in  *)
(* and refuses the next; the third request makes the quota one that could  *)
(* be overrun.                                                             *)
(***************************************************************************)
EXTENDS PortfolioRequests

CONSTANTS a1, a2, r3, c1, c2

MCAnalyses == {a1, a2}
MCRequests == {a1, a2, r3}
MCCandidates == {c1, c2}
=============================================================================
