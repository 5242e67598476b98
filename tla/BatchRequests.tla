--------------------------- MODULE BatchRequests ---------------------------
(***************************************************************************)
(* POST /batch (api/routes/analysis.py) in one API process, with the       *)
(* history rows of AsyncBatchHistoryService and POST /batch/cancel.        *)
(* Composes Cancellation: a batch is registered under a fresh id, and on   *)
(* the plans with a history goes on under the id of its history row.       *)
(* AnalysisRoutes runs it beside AnalysisRequests, with the cancellations. *)
(*                                                                         *)
(* The repositories of a batch are left out: they are gathered with their  *)
(* exceptions as results, under one time-out.  So are the checks that      *)
(* refuse a batch before it is registered.                                 *)
(***************************************************************************)
EXTENDS Cancellation

CONSTANTS Batches,
          RegisteredId,  \* the uuid4 given to register_task
          RecordId       \* the uuid4 of create_batch_record

ASSUME BatchIdsType == /\ RegisteredId \in [Batches -> TaskIds]
                       /\ RecordId \in [Batches -> TaskIds]

\* uuid4 values do not repeat, and a batch is one user's.
ASSUME BatchIdsDiffer ==
  /\ \A a, b \in Batches : RegisteredId[a] # RecordId[b]
  /\ \A a, b \in Batches : a # b => /\ RegisteredId[a] # RegisteredId[b]
                                    /\ RecordId[a] # RecordId[b]
  /\ \A b \in Batches : OwnerOf[RegisteredId[b]] = OwnerOf[RecordId[b]]

VARIABLES batchPlace,  \* where the handler of a batch is
          batchId,     \* its local variable batch_id
          history,     \* status of its BatchAnalysis row
          answer       \* what the client was answered

BatchPlaces == {"new", "create", "start", "mode", "gather", "timedOut", "results", "raised", "over"}
Histories == {"none", "pending", "processing", "completed", "failed"}
Answers == {"none", "done", "timeout", "refused", "error"}

InitBatches ==
  /\ InitCancellation
  /\ batchPlace = [b \in Batches |-> "new"]
  /\ batchId = RegisteredId
  /\ history = [b \in Batches |-> "none"]
  /\ answer = [b \in Batches |-> "none"]

BatchTo(b, p) == batchPlace' = [batchPlace EXCEPT ![b] = p]
SetHistory(b, s) == history' = [history EXCEPT ![b] = s]
HasHistory(b) == history[b] # "none"

\* complete_task(batch_id) and the answer.
End(b, a) ==
  /\ CompleteTask(batchId[b])
  /\ BatchTo(b, "over")
  /\ answer' = [answer EXCEPT ![b] = a]
  /\ UNCHANGED batchId

\* The checks are passed: registered; Enterprise and Scale+ have a history.
Begin(b) ==
  /\ batchPlace[b] = "new"
  /\ RegisterTask(RegisteredId[b], OwnerOf[RegisteredId[b]])
  /\ BatchTo(b, "create") \/ BatchTo(b, "mode")
  /\ UNCHANGED <<batchId, history, answer>>

\* Mutant of CreateRecord: the user's id is returned for the batch's.
CreateRecordUserId(b) ==
  /\ batchPlace[b] = "create"
  /\ SetHistory(b, "pending")
  /\ batchId' = [batchId EXCEPT ![b] = OwnerOf[RecordId[b]]]
  /\ BatchTo(b, "start")
  /\ UNCHANGED <<running, userTasks, answer>>

\* create_batch_record: the row, PENDING, and from now on its id.
CreateRecord(b) ==
  /\ batchPlace[b] = "create"
  /\ SetHistory(b, "pending")
  /\ batchId' = [batchId EXCEPT ![b] = RecordId[b]]
  /\ BatchTo(b, "start")
  /\ UNCHANGED <<running, userTasks, answer>>

\* start_batch_processing.
StartProcessing(b) ==
  /\ batchPlace[b] = "start"
  /\ SetHistory(b, "processing")
  /\ BatchTo(b, "mode")
  /\ UNCHANGED <<running, userTasks, batchId, answer>>

\* The concurrency mode: gathered, or refused as not in the plan, by an
\* HTTPException whose handler completes the task and leaves the history.
CheckMode(b) ==
  /\ batchPlace[b] = "mode"
  /\ UNCHANGED history
  /\ \/ BatchTo(b, "gather") /\ UNCHANGED <<running, userTasks, batchId, answer>>
     \/ End(b, "refused")

\* wait_for(gather(...)).
Gather(b) ==
  /\ batchPlace[b] = "gather"
  /\ BatchTo(b, "results") \/ BatchTo(b, "timedOut")
  /\ UNCHANGED <<running, userTasks, batchId, history, answer>>

\* Mutant of TimedOut: what timed out is gathered again.
TimedOutRetries(b) ==
  /\ batchPlace[b] = "timedOut"
  /\ BatchTo(b, "gather")
  /\ UNCHANGED <<running, userTasks, batchId, history, answer>>

\* Mutant of TimedOut: answered without complete_task.
TimedOutStays(b) ==
  /\ batchPlace[b] = "timedOut"
  /\ \/ HasHistory(b) /\ SetHistory(b, "failed")
     \/ ~HasHistory(b) /\ UNCHANGED history
  /\ BatchTo(b, "over")
  /\ answer' = [answer EXCEPT ![b] = "timeout"]
  /\ UNCHANGED <<running, userTasks, batchId>>

\* TimeoutError: fail_batch when there is a history, complete_task, 408.  The
\* HTTPException handler completes the task a second time, to no effect.
TimedOut(b) ==
  /\ batchPlace[b] = "timedOut"
  /\ \/ HasHistory(b) /\ SetHistory(b, "failed")
     \/ ~HasHistory(b) /\ UNCHANGED history
  /\ End(b, "timeout")

\* Mutant of Results: complete_batch is committed first and the storing of the
\* results may raise after it.
ResultsCommitFirst(b) ==
  /\ batchPlace[b] = "results"
  /\ \/ HasHistory(b) /\ SetHistory(b, "completed")
     \/ ~HasHistory(b) /\ UNCHANGED history
  /\ \/ End(b, "done")
     \/ BatchTo(b, "raised") /\ UNCHANGED <<running, userTasks, batchId, answer>>

\* The results stored, complete_batch when there is a history, complete_task.
Results(b) ==
  /\ batchPlace[b] = "results"
  /\ \/ HasHistory(b) /\ SetHistory(b, "completed")
     \/ ~HasHistory(b) /\ UNCHANGED history
  /\ End(b, "done")

\* Whatever awaits a commit can raise.
Raise(b) ==
  /\ batchPlace[b] \in {"create", "start", "timedOut", "results"}
  /\ BatchTo(b, "raised")
  /\ UNCHANGED <<running, userTasks, batchId, history, answer>>

\* The last except clause: fail_batch, whose own error is logged, complete_task.
HandleError(b) ==
  /\ batchPlace[b] = "raised"
  /\ \/ HasHistory(b) /\ SetHistory(b, "failed")
     \/ UNCHANGED history
  /\ End(b, "error")

BatchStep(b) ==
  \/ CreateRecord(b) \/ StartProcessing(b) \/ CheckMode(b) \/ Gather(b)
  \/ TimedOut(b) \/ Results(b) \/ Raise(b) \/ HandleError(b)

NextBatches == \E b \in Batches : Begin(b) \/ BatchStep(b)

-----------------------------------------------------------------------------
\* Types.
BatchesTypeOK ==
  /\ RunningTypeOK
  /\ batchPlace \in [Batches -> BatchPlaces]
  /\ batchId \in [Batches -> TaskIds]
  /\ history \in [Batches -> Histories]
  /\ answer \in [Batches -> Answers]

\* The handler goes on under another id than the one it registered; still, whichever
\* way a batch ends, the id it ends under is not in the registry: POST /batch/cancel
\* with the id its client was given cancels nothing that is over.
OverIsForgotten == \A b \in Batches : batchPlace[b] = "over" => batchId[b] \notin DOMAIN running

\* What the history says of an ended batch is what its client was told: completed
\* for a result, failed for a time-out, and never one for the other.  (A refusal or
\* an error can leave the row open: the HTTPException handler does not look at it.)
HistoryMatchesAnswer ==
  \A b \in Batches :
    /\ answer[b] = "done" => history[b] \in {"none", "completed"}
    /\ answer[b] = "timeout" => history[b] \in {"none", "failed"}
    /\ history[b] = "completed" => answer[b] = "done"
    /\ history[b] = "failed" => answer[b] \in {"timeout", "error"}

\* A batch that was registered is answered.
BatchesAnswered == \A b \in Batches : batchPlace[b] \in {"create", "mode"} ~> answer[b] # "none"
=============================================================================
