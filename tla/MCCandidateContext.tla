------------------------- MODULE MCCandidateContext -------------------------
(***************************************************************************)
(* One manager and one candidate: two coroutines that send one request of  *)
(* any kind after another, with contexts that differ in the role, two      *)
(* rounds of the retry loop and as many resets as exhaust it once more.    *)
(***************************************************************************)
EXTENDS CandidateContext

CONSTANTS r1, r2, junior, senior, startup

MCRequests == {r1, r2}
MCRoles == {junior, senior}
MCOrgs == {startup}
=============================================================================
