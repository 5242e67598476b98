---------------------------- MODULE MCPRAnalyses ----------------------------
(***************************************************************************)
(* Three analyses of two users: one fills the cache, one copies from it    *)
(* and one races for the entry or is reset.                                *)
(***************************************************************************)
EXTENDS PRAnalyses

CONSTANTS a1, a2, a3, u1, u2

MCAnalyses == {a1, a2, a3}
MCOwner == [a \in MCAnalyses |-> IF a = a1 THEN u1 ELSE u2]
=============================================================================
