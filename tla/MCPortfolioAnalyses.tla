------------------------ MODULE MCPortfolioAnalyses ------------------------
(***************************************************************************)
(* Two analyses of one key by any users, while no call fails: the race for *)
(* the entry is all that can go wrong.                                     *)
(***************************************************************************)
EXTENDS PortfolioAnalyses

CONSTANTS a1, a2

MCAnalyses == {a1, a2}
=============================================================================
