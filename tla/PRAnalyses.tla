----------------------------- MODULE PRAnalyses -----------------------------
(***************************************************************************)
(* The life of the PR analyses of one cache key: the request of            *)
(* POST /pr/analyze, which answers a hit of the cache at once with a copy, *)
(* the background task of a miss, and the rows of PRAnalysisRecord by      *)
(* which an owner finds an analysis (api/routes/pr_analysis.py).           *)
(*                                                                         *)
(* Every commit is a step.  A request or a task lives in the memory of its *)
(* worker.  Left out: the checks ahead of the cache (CandidateUsage,       *)
(* CandidateContext, the hourly limit), progress percentages, reports.     *)
(***************************************************************************)
EXTENDS ResultCache

CONSTANT Owner  \* the user who asks for an analysis

VARIABLE records  \* the statuses of the PRAnalysisRecord rows of an analysis

prVars == <<row, task, status, full, loaded, records>>

PRTaskPlaces == {"none", "copy", "copyRecord", "copyTrack", "store", "storeRecord", "queued",
                 "analyse", "publish", "record", "track", "raised", "over", "stopped"}
RecordStatuses == {"pending", "completed"}

InitPR ==
  /\ row = NoRow
  /\ task = [a \in Analyses |-> "none"]
  /\ status = [a \in Analyses |-> "none"]
  /\ full = [a \in Analyses |-> NoResult]
  /\ loaded = [a \in Analyses |-> NoResult]
  /\ records = [a \in Analyses |-> {}]

AddRecord(a, s) == records' = [records EXCEPT ![a] = @ \cup {s}]

-----------------------------------------------------------------------------
\* The request: the cache is asked.
Ask(a) ==
  /\ task[a] = "none"
  /\ \/ CachedAnalysis = NoResult /\ To(a, "store") /\ UNCHANGED loaded
     \/ /\ CachedAnalysis # NoResult
        /\ loaded' = [loaded EXCEPT ![a] = full[CachedAnalysis]]
        /\ To(a, "copy")
  /\ UNCHANGED <<row, status, full, records>>

\* Mutant of StoreCopy: the cache entry is stored in place of the results.
StoreCopyEntry(a) ==
  /\ task[a] = "copy"
  /\ SetStatus(a, "pending")
  /\ full' = [full EXCEPT ![a] = row]
  /\ To(a, "copyRecord")
  /\ UNCHANGED <<row, loaded, records>>

\* The copy for this user, with the status the column has by default.
StoreCopy(a) ==
  /\ task[a] = "copy"
  /\ SetStatus(a, "pending")
  /\ full' = [full EXCEPT ![a] = loaded[a]]
  /\ To(a, "copyRecord")
  /\ UNCHANGED <<row, loaded, records>>

\* record_analysis, by the request for a copy, by the task for its results.
Record(a) ==
  /\ \/ task[a] = "copyRecord" /\ To(a, "copyTrack")
     \/ task[a] = "record" /\ To(a, "track")
  /\ AddRecord(a, "completed")
  /\ UNCHANGED <<row, status, full, loaded>>

\* get_or_create_assessment and the answer with the copy.
AnswerCopy(a) ==
  /\ task[a] = "copyTrack"
  /\ To(a, "over")
  /\ UNCHANGED <<row, status, full, loaded, records>>

\* A miss: the result row, PENDING.
Store(a) ==
  /\ task[a] = "store"
  /\ SetStatus(a, "pending")
  /\ To(a, "storeRecord")
  /\ UNCHANGED <<row, full, loaded, records>>

\* The pending record; the task is handed over.
StoreRecord(a) ==
  /\ task[a] = "storeRecord"
  /\ AddRecord(a, "pending")
  /\ To(a, "queued")
  /\ UNCHANGED <<row, status, full, loaded>>

\* A request that raises answers 500; nothing is undone.
RequestRaises(a) ==
  /\ task[a] \in {"copy", "copyRecord", "copyTrack", "store", "storeRecord"}
  /\ To(a, "over")
  /\ UNCHANGED <<row, status, full, loaded, records>>

-----------------------------------------------------------------------------
\* The task: PROCESSING.
BeginPR(a) ==
  /\ task[a] = "queued"
  /\ SetStatus(a, "processing")
  /\ To(a, "analyse")
  /\ UNCHANGED <<row, full, loaded, records>>

\* When that first update raises, the handler itself raises on start_time, which is
\* not yet bound: the status is left.
BeginRaises(a) ==
  /\ task[a] = "queued"
  /\ To(a, "over")
  /\ UNCHANGED <<row, status, full, loaded, records>>

\* The analyzer reports an error: FAILED.
FailPR(a) ==
  /\ task[a] = "analyse"
  /\ SetStatus(a, "failed")
  /\ To(a, "over")
  /\ UNCHANGED <<row, full, loaded, records>>

\* Mutant of NoPRs: the task ends where it finds nothing to store.
NoPRsReturns(a) ==
  /\ task[a] = "analyse"
  /\ To(a, "over")
  /\ UNCHANGED <<row, status, full, loaded, records>>

\* No pull requests: COMPLETED, without results, cache entry or record.
NoPRs(a) ==
  /\ task[a] = "analyse"
  /\ SetStatus(a, "completed")
  /\ To(a, "over")
  /\ UNCHANGED <<row, full, loaded, records>>

\* Mutant of CompletePR: the usage is recorded, then the results are stored.
CompleteRecordFirst(a) ==
  /\ task[a] = "analyse"
  /\ AddRecord(a, "completed")
  /\ To(a, "publish")
  /\ UNCHANGED <<row, status, full, loaded>>

\* The results, with COMPLETED, in one update.
CompletePR(a) ==
  /\ task[a] = "analyse"
  /\ SetStatus(a, "completed")
  /\ full' = [full EXCEPT ![a] = a]
  /\ To(a, "publish")
  /\ UNCHANGED <<row, loaded, records>>

\* create_pr_cache_entry.
PublishPR(a) ==
  /\ task[a] = "publish"
  /\ \/ InsertEntry(a) /\ To(a, "record")
     \/ InsertConflict /\ To(a, "raised")
     \/ InsertError /\ To(a, "record")
  /\ UNCHANGED <<status, full, loaded, records>>

\* get_or_create_assessment, the last of the task.
TrackPR(a) ==
  /\ task[a] = "track"
  /\ To(a, "over")
  /\ UNCHANGED <<row, status, full, loaded, records>>

\* Anything that raises within the task.
RaisePR(a) ==
  /\ task[a] \in {"analyse", "publish", "record", "track"}
  /\ To(a, "raised")
  /\ UNCHANGED <<row, status, full, loaded, records>>

\* The except clause around the task: FAILED, whatever was there.
HandlePRError(a) ==
  /\ task[a] = "raised"
  /\ SetStatus(a, "failed")
  /\ To(a, "over")
  /\ UNCHANGED <<row, full, loaded, records>>

\* The worker stops, or the session fails so that the except clause cannot write
\* either.  Nothing looks for the rows of these tasks later.
StopPR(a) ==
  /\ task[a] \notin {"none", "over", "stopped"}
  /\ To(a, "stopped")
  /\ UNCHANGED <<row, status, full, loaded, records>>

-----------------------------------------------------------------------------
\* The month ends.
MonthEnds == Expire /\ UNCHANGED <<task, status, full, loaded, records>>

\* clear_candidate_caches: the entry for all users, the records of one.
Reset(user) ==
  /\ ClearCache \/ (row = NoRow /\ UNCHANGED row)
  /\ records' = [a \in Analyses |-> IF Owner[a] = user THEN {} ELSE records[a]]
  /\ UNCHANGED <<task, status, full, loaded>>

RequestStep(a) == Ask(a) \/ StoreCopy(a) \/ AnswerCopy(a) \/ Store(a) \/ StoreRecord(a)
PRTaskStep(a) ==
  \/ BeginPR(a) \/ FailPR(a) \/ NoPRs(a) \/ CompletePR(a) \/ PublishPR(a) \/ Record(a)
  \/ TrackPR(a) \/ RaisePR(a) \/ HandlePRError(a)

NextPR ==
  \/ \E a \in Analyses : \/ RequestStep(a) \/ RequestRaises(a)
                         \/ PRTaskStep(a) \/ BeginRaises(a) \/ StopPR(a)
  \/ MonthEnds
  \/ \E a \in Analyses : Reset(Owner[a])

SpecPR == InitPR /\ [][NextPR]_prVars

\* The event loop runs a task on after every await, and what it waits for has
\* time-outs.
FairSpecPR == SpecPR /\ \A a \in Analyses : WF_prVars(PRTaskStep(a))

-----------------------------------------------------------------------------
\* Types.
PRTypeOK ==
  /\ row \in Rows
  /\ task \in [Analyses -> PRTaskPlaces]
  /\ status \in [Analyses -> Statuses]
  /\ full \in [Analyses -> Analyses \cup {NoResult}]
  /\ loaded \in [Analyses -> Analyses \cup {NoResult}]
  /\ records \in [Analyses -> SUBSET RecordStatuses]

\* Whatever is shown as a result was computed and is still there: the entry links an
\* analysis with results of its own (though it may be FAILED by then), a copy shows
\* what the analysis it was made of has, a history row that says completed has results.
ResultsAreComputed ==
  /\ row # NoRow => full[row.result] = row.result
  /\ \A a \in Analyses : full[a] # NoResult => full[full[a]] = full[a]
  /\ \A a \in Analyses : "completed" \in records[a] => full[a] # NoResult

\* Every analysis that began comes to an end the frontend's polling can see, unless its
\* own worker stops: nothing that raises within the task leaves it PROCESSING.
BegunAnalysesEnd ==
  \A a \in Analyses :
    status[a] = "processing" ~> status[a] \in {"completed", "failed"} \/ task[a] = "stopped"
=============================================================================
