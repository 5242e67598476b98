-------------------------- MODULE AnalysisRequests --------------------------
(***************************************************************************)
(* POST /analyze (api/routes/analysis.py) in one API process: the order in *)
(* which a request checks the monthly quota of repository deep dives,      *)
(* enters itself in the cancellation registry, works, counts its deep dive *)
(* and leaves the registry, with POST /cancel between any two of these.    *)
(* Composes Cancellation; AnalysisRoutes runs it beside BatchRequests.     *)
(*                                                                         *)
(* Left out: the context lock (CandidateContext) but for its refusal, the  *)
(* text of an analysis, the free plan's rate limits, and the slots, which  *)
(* hold nobody back with the client the dependency makes                   *)
(* (ConcurrencySlots, run slots_unconnected).                              *)
(***************************************************************************)
EXTENDS Cancellation, Integers, FiniteSets

CONSTANTS Requests,
          IdOf,          \* single_{user}_{second}: shared by requests of one second
          Paid,          \* users on a plan with candidates and deep dives
          DiveLimit      \* REPO_DEEP_DIVE_LIMITS of the plan

ASSUME RequestsFinite == IsFiniteSet(Requests)
ASSUME IdOfType == IdOf \in [Requests -> TaskIds]
ASSUME PaidType == Paid \subseteq Users
ASSUME DiveLimitType == DiveLimit \in Nat

VARIABLES place,     \* where the handler of a request is
          dives,     \* RepositoryDeepDive rows of the month, by request
          cancelled, \* requests whose task was cancelled
          peak       \* history: the most requests of a paying user past the check at once

requestVars == <<running, userTasks, place, dives, cancelled, peak>>

Places == {"new", "quota", "work", "track", "finish", "over"}

UserOf(r) == OwnerOf[IdOf[r]]

Init ==
  /\ InitCancellation
  /\ place = [r \in Requests |-> "new"]
  /\ dives = {}
  /\ cancelled = {}
  /\ peak = [u \in Paid |-> 0]

\* Past the quota check, and still to be counted.
Past(u) == {r \in Requests : UserOf(r) = u /\ place[r] \in {"work", "track"}}

DivesOf(u) == {r \in dives : UserOf(r) = u}

To(r, p) == place' = [place EXCEPT ![r] = p]

\* An except clause entered before the registration: it names a service that is
\* not bound yet, so an UnboundLocalError leaves the handler and the answer is 500.
RaiseUnbound(r) ==
  /\ To(r, "over")
  /\ UNCHANGED <<running, userTasks, dives, cancelled, peak>>

\* The history follows the requests past the check.
Peaks == peak' = [u \in Paid |->
                    IF Cardinality(Past(u)') > peak[u] THEN Cardinality(Past(u)') ELSE peak[u]]

\* register_task, in the step that passed the last check.
Register(r) ==
  /\ RegisterTask(IdOf[r], UserOf(r))
  /\ To(r, "work")
  /\ Peaks
  /\ UNCHANGED <<dives, cancelled>>

\* async with rate_limits, the URL and, on a paid plan, the context: refused, or on
\* to the quota.
Validate(r) ==
  /\ place[r] = "new"
  /\ \/ RaiseUnbound(r)
     \/ UserOf(r) \notin Paid /\ Register(r)
     \/ /\ UserOf(r) \in Paid
        /\ To(r, "quota")
        /\ UNCHANGED <<running, userTasks, dives, cancelled, peak>>

\* Mutant of CheckQuota: the limit itself still passes.
CheckQuotaInclusive(r) ==
  /\ place[r] = "quota"
  /\ \/ Cardinality(DivesOf(UserOf(r))) <= DiveLimit /\ Register(r)
     \/ RaiseUnbound(r)

\* check_repo_deep_dive_limit counts the rows there are when it is answered: over the
\* limit the request is refused, and so it is when the query fails.
CheckQuota(r) ==
  /\ place[r] = "quota"
  /\ \/ Cardinality(DivesOf(UserOf(r))) < DiveLimit /\ Register(r)
     \/ RaiseUnbound(r)

\* Mutant of LookUp: the task is completed before the cache is asked.
LookUpCompletes(r) ==
  /\ place[r] = "work"
  /\ CompleteTask(IdOf[r])
  /\ UNCHANGED <<place, dives, cancelled, peak>>

\* The result cache: a hit is returned as it is, and its task left registered.
LookUp(r) ==
  /\ place[r] = "work"
  /\ To(r, "over")
  /\ UNCHANGED <<running, userTasks, dives, cancelled, peak>>

\* A miss, and the analysis succeeds; what _store_analysis_result stored on a paid
\* plan will be counted.
Work(r) ==
  /\ place[r] = "work"
  /\ \/ UserOf(r) \in Paid /\ To(r, "track")
     \/ To(r, "finish")
  /\ UNCHANGED <<running, userTasks, dives, cancelled, peak>>

\* An except clause after the registration: the task is completed as FAILED.
Fail(r) ==
  /\ place[r] = "work"
  /\ CompleteTask(IdOf[r])
  /\ To(r, "over")
  /\ UNCHANGED <<dives, cancelled, peak>>

\* track_repo_deep_dive; its errors are logged and forgotten.
Track(r) ==
  /\ place[r] = "track"
  /\ To(r, "finish")
  /\ \/ dives' = dives \cup {r}
     \/ UNCHANGED dives
  /\ UNCHANGED <<running, userTasks, cancelled, peak>>

\* Mutant of Finish: answered only when the registry still knows the task.
FinishRunning(r) ==
  /\ place[r] = "finish"
  /\ IdOf[r] \in DOMAIN running
  /\ CompleteTask(IdOf[r])
  /\ To(r, "over")
  /\ UNCHANGED <<dives, cancelled, peak>>

\* complete_task and the answer.
Finish(r) ==
  /\ place[r] = "finish"
  /\ CompleteTask(IdOf[r])
  /\ To(r, "over")
  /\ UNCHANGED <<dives, cancelled, peak>>

Registered == {"work", "track", "finish"}

\* POST /cancel/{task_id} and POST /batch/cancel/{batch_id}, either with any id: the
\* registry forgets the task.
Cancel(t, u) ==
  /\ CancelTask(t, u)
  /\ cancelled' = cancelled \cup {r \in Requests : IdOf[r] = t /\ place[r] \in Registered}
  /\ UNCHANGED <<place, dives, peak>>

PassCancelDeadline(t) ==
  /\ PassDeadline(t)
  /\ UNCHANGED <<place, dives, cancelled, peak>>

\* A month ends: get_repo_deep_dive_usage counts from zero.
NewMonth ==
  /\ dives' = {}
  /\ peak' = [u \in Paid |-> Cardinality(Past(u))]
  /\ UNCHANGED <<running, userTasks, place, cancelled>>

RequestStep(r) ==
  \/ Validate(r) \/ CheckQuota(r) \/ LookUp(r) \/ Work(r) \/ Fail(r)
  \/ Track(r) \/ Finish(r)

Next ==
  \/ \E r \in Requests : RequestStep(r)
  \/ \E t \in TaskIds, u \in Users : Cancel(t, u)
  \/ \E t \in TaskIds : PassCancelDeadline(t)
  \/ NewMonth

-----------------------------------------------------------------------------
\* Types.
TypeOK ==
  /\ RunningTypeOK
  /\ place \in [Requests -> Places]
  /\ dives \subseteq Requests
  /\ cancelled \subseteq Requests
  /\ peak \in [Paid -> Nat]

\* The quota is read long before the deep dive is counted, and nothing is held in
\* between.  One request after the other keeps the month's limit; requests that pass
\* the check together exceed it, those to come included, by fewer than they are.
OverrunIsBounded ==
  \A u \in Paid :
    LET used == Cardinality(DivesOf(u)) + Cardinality(Past(u))
    IN used <= DiveLimit \/ used < DiveLimit + peak[u]

\* A request at work can be found, and cancelled in time, under its id until it
\* is cancelled or ends; with the id to itself no other request takes it away.
WorkIsRegistered ==
  \A r \in Requests :
    /\ place[r] \in Registered
    /\ r \notin cancelled
    /\ \A q \in Requests \ {r} : IdOf[q] # IdOf[r]
    => IdOf[r] \in DOMAIN running

\* Every request is answered, whichever except clause it leaves by.
Answered == \A r \in Requests : <>(place[r] = "over")
=============================================================================
