------------------------- MODULE PortfolioRequests -------------------------
(***************************************************************************)
(* Portfolio analyses together with the quota their requests go through:   *)
(* POST /portfolio/analyze from check_user_eligibility to the end of the   *)
(* background task (api/routes/portfolio_analysis.py), for one user and    *)
(* one cache key.  The task of an analysis asks get_or_create_assessment   *)
(* for the row of its candidate once more at the end.                      *)
(*                                                                         *)
(* The requests that are no analyses are for other keys; what they cache   *)
(* does not matter here.  To the cache the analyses of other users would    *)
(* be no different from the user's own (PortfolioAnalyses).                *)
(***************************************************************************)
EXTENDS PortfolioAnalyses, CandidateUsage

CONSTANT KeyCandidate  \* the candidate of the key

ASSUME KeyCandidateType == KeyCandidate \in Candidates
ASSUME AnalysesAreRequested == Analyses \subseteq Requests

requestsVars == <<portfolioVars, usageVars>>

InitRequests ==
  /\ Init
  /\ InitUsage
  /\ \A a \in Analyses : req[a].candidate = KeyCandidate

-----------------------------------------------------------------------------
\* A request let in by check_user_eligibility starts its task.
StartTask(a) ==
  /\ req[a].pc = "running"
  /\ Analyze(a)
  /\ UNCHANGED usageVars

\* What the task does before it has results, and the cache entry it may win.
WorkOn(a) == (Begin(a) \/ LookUp(a) \/ Complete(a)) /\ UNCHANGED usageVars

TaskPublish(a) ==
  /\ Publish(a)
  /\ \/ task'[a] = "track" /\ EndAnalysis(a, "track")
     \/ task'[a] = "raised" /\ Break(a)

TaskCopy(a) == Copy(a) /\ EndAnalysis(a, "done")

TaskFail(a) == Fail(a) /\ Break(a)

\* The look for the assessment row, at the end of an analysis.  With several rows
\* it raises.
TaskTrackFind(a) ==
  /\ task[a] = "track"
  /\ TrackFind(a)
  /\ \/ req'[a].pc = "trackInsert" /\ UNCHANGED portfolioVars
     \/ req'[a].pc = "done" /\ Track(a)
     \/ /\ req'[a].pc = "failed"
        /\ To(a, "raised")
        /\ UNCHANGED <<row, status, full, loaded>>

TaskTrackInsert(a) == Track(a) /\ TrackInsert(a)

TaskRaise(a) == Raise(a) /\ Break(a)

TaskHandleError(a) == HandleError(a) /\ UNCHANGED usageVars

TaskStop(a) ==
  /\ Stop(a)
  /\ IF task[a] = "raised" THEN UNCHANGED usageVars ELSE Break(a)

RequestTaskStep(a) ==
  \/ WorkOn(a) \/ TaskPublish(a) \/ TaskCopy(a) \/ TaskFail(a)
  \/ TaskTrackFind(a) \/ TaskTrackInsert(a) \/ TaskRaise(a) \/ TaskHandleError(a)

\* check_user_eligibility of the user's requests for the key, and whatever is between
\* it and the row of the analysis: a context in force, no GitHub token, an error.
CheckUser(a) ==
  /\ task[a] = "none"
  /\ Arrive(a) \/ Find(a) \/ Insert(a) \/ CountRows(a) \/ Break(a)
  /\ UNCHANGED portfolioVars

-----------------------------------------------------------------------------
\* Entries of the cache last until the end of the month they were made in.
MonthTurns ==
  /\ NextPeriod
  /\ IF row.valid THEN Expire ELSE UNCHANGED row
  /\ UNCHANGED <<task, status, full, loaded>>

ResetContext == ClearCache /\ UNCHANGED <<task, status, full, loaded, usageVars>>

NextRequests ==
  \/ \E a \in Analyses : CheckUser(a) \/ StartTask(a) \/ RequestTaskStep(a) \/ TaskStop(a)
  \/ \E r \in Requests \ Analyses : UsageStep(r) /\ UNCHANGED portfolioVars
  \/ MonthTurns
  \/ ResetContext

SpecRequests == InitRequests /\ [][NextRequests]_requestsVars

\* As FairSpec: a task runs on after every await.
FairSpecRequests ==
  SpecRequests /\ \A a \in Analyses : WF_requestsVars(RequestTaskStep(a))
=============================================================================
