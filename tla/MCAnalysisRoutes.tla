-------------------------- MODULE MCAnalysisRoutes --------------------------
(***************************************************************************)
(* A paying user with one deep dive a month sends two requests in the same *)
(* second and a batch; another, on the free plan, sends a third request.   *)
(***************************************************************************)
EXTENDS AnalysisRoutes, TLC

CONSTANTS r1, r2, r3, b1, t1, t2, g1, h1, u1, u2

MCRequests == {r1, r2, r3}
MCBatches == {b1}
MCTaskIds == {t1, t2, g1, h1}
MCUsers == {u1, u2}
MCOwnerOf == (t1 :> u1) @@ (t2 :> u2) @@ (g1 :> u1) @@ (h1 :> u1)
MCIdOf == (r1 :> t1) @@ (r2 :> t1) @@ (r3 :> t2)
MCPaid == {u1}
MCRegisteredId == b1 :> g1
MCRecordId == b1 :> h1
=============================================================================
