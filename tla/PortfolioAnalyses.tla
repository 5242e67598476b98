------------------------- MODULE PortfolioAnalyses -------------------------
(***************************************************************************)
(* The life of the portfolio analyses of one cache key: the row created by *)
(* POST /portfolio/analyze, the background task that works on it, and the  *)
(* cache the tasks share (api/routes/portfolio_analysis.py).               *)
(*                                                                         *)
(* Every commit of a task is a step; tasks of any users and workers        *)
(* interleave.  A task lives in the memory of its worker: when the worker  *)
(* stops it is gone, and the row keeps the status it has.  Progress        *)
(* percentages are left out.                                               *)
(***************************************************************************)
EXTENDS ResultCache

CONSTANT CallsMayFail  \* whether calls of the database or of anything else may fail

ASSUME CallsMayFailType == CallsMayFail \in BOOLEAN

portfolioVars == <<row, task, status, full, loaded>>

TaskPlaces == {"none", "queued", "lookup", "copy", "analyse", "publish", "track",
               "raised", "over", "stopped"}

Init ==
  /\ row = NoRow
  /\ task = [a \in Analyses |-> "none"]
  /\ status = [a \in Analyses |-> "none"]
  /\ full = [a \in Analyses |-> NoResult]
  /\ loaded = [a \in Analyses |-> NoResult]

\* The route: the row is committed as PENDING and the task handed over.
Analyze(a) ==
  /\ task[a] = "none"
  /\ To(a, "queued")
  /\ SetStatus(a, "pending")
  /\ UNCHANGED <<row, full, loaded>>

\* PROCESSING, committed; with force_refresh the cache is not asked.
Begin(a) ==
  /\ task[a] = "queued"
  /\ \/ To(a, "lookup")
     \/ To(a, "analyse")
  /\ SetStatus(a, "processing")
  /\ UNCHANGED <<row, full, loaded>>

\* A hit loads the results of the linked analysis.
LookUp(a) ==
  /\ task[a] = "lookup"
  /\ \/ /\ CachedAnalysis = NoResult
        /\ To(a, "analyse")
        /\ UNCHANGED loaded
     \/ /\ CachedAnalysis # NoResult
        /\ To(a, "copy")
        /\ loaded' = [loaded EXCEPT ![a] = full[CachedAnalysis]]
  /\ UNCHANGED <<row, status, full>>

\* The update with the cached results, status COMPLETED.
Copy(a) ==
  /\ task[a] = "copy"
  /\ To(a, "over")
  /\ SetStatus(a, "completed")
  /\ full' = [full EXCEPT ![a] = loaded[a]]
  /\ UNCHANGED <<row, loaded>>

\* Mutant of Fail: the analyzer's error is logged and the status left.
FailSilently(a) ==
  /\ task[a] = "analyse"
  /\ To(a, "over")
  /\ UNCHANGED <<row, status, full, loaded>>

\* The analyzer reports an error: FAILED.
Fail(a) ==
  /\ task[a] = "analyse"
  /\ To(a, "over")
  /\ SetStatus(a, "failed")
  /\ UNCHANGED <<row, full, loaded>>

\* Mutant of Complete: the status is committed ahead of the results.
CompleteStatusFirst(a) ==
  /\ task[a] = "analyse"
  /\ To(a, "publish")
  /\ SetStatus(a, "completed")
  /\ UNCHANGED <<row, full, loaded>>

\* The results, with COMPLETED, in one update.
Complete(a) ==
  /\ task[a] = "analyse"
  /\ To(a, "publish")
  /\ SetStatus(a, "completed")
  /\ full' = [full EXCEPT ![a] = a]
  /\ UNCHANGED <<row, loaded>>

\* create_cache_entry.
Publish(a) ==
  /\ task[a] = "publish"
  /\ \/ InsertEntry(a) /\ To(a, "track")
     \/ InsertConflict /\ To(a, "raised")
     \/ CallsMayFail /\ InsertError /\ To(a, "track")
  /\ UNCHANGED <<status, full, loaded>>

\* get_or_create_assessment (CandidateUsage).
Track(a) ==
  /\ task[a] = "track"
  /\ To(a, "over")
  /\ UNCHANGED <<row, status, full, loaded>>

\* Any call that raises within the task, and get_or_create_assessment when the
\* candidate has two rows.
Raise(a) ==
  /\ CallsMayFail
  /\ task[a] \in {"queued", "lookup", "copy", "analyse", "publish", "track"}
  /\ To(a, "raised")
  /\ UNCHANGED <<row, status, full, loaded>>

\* Mutant of HandleError: the task is put back to be run again.
HandleErrorRetrying(a) ==
  /\ task[a] = "raised"
  /\ To(a, "queued")
  /\ SetStatus(a, "pending")
  /\ UNCHANGED <<row, full, loaded>>

\* The except clause around the whole task: FAILED, whatever was there.
HandleError(a) ==
  /\ task[a] = "raised"
  /\ To(a, "over")
  /\ SetStatus(a, "failed")
  /\ UNCHANGED <<row, full, loaded>>

\* The worker stops, or the session fails so that the except clause cannot write
\* either.  Nothing looks for the rows of these tasks later.
Stop(a) ==
  /\ task[a] \notin {"none", "over", "stopped"}
  /\ To(a, "stopped")
  /\ UNCHANGED <<row, status, full, loaded>>

TaskStep(a) ==
  \/ Begin(a) \/ LookUp(a) \/ Copy(a) \/ Fail(a) \/ Complete(a)
  \/ Publish(a) \/ Track(a) \/ Raise(a) \/ HandleError(a)

CacheStep == (Expire \/ ClearCache) /\ UNCHANGED <<task, status, full, loaded>>

Next ==
  \/ \E a \in Analyses : Analyze(a) \/ TaskStep(a) \/ Stop(a)
  \/ CacheStep

Spec == Init /\ [][Next]_portfolioVars

\* The event loop runs a task on after every await, and what it waits for has
\* time-outs.
FairSpec == Spec /\ \A a \in Analyses : WF_portfolioVars(TaskStep(a))

-----------------------------------------------------------------------------
\* Types.
TypeOK ==
  /\ row \in Rows
  /\ task \in [Analyses -> TaskPlaces]
  /\ status \in [Analyses -> Statuses]
  /\ full \in [Analyses -> Analyses \cup {NoResult}]
  /\ loaded \in [Analyses -> Analyses \cup {NoResult}]

Ended == {"completed", "failed"}

\* No user is shown an empty analysis as completed, and the cache hands out only
\* results that the linked analysis itself computed: a copy is never cached again,
\* and an analysis that raised before it had results is never linked.
ServedResultsAreComputed ==
  /\ \A a \in Analyses : status[a] = "completed" => full[a] # NoResult
  /\ \A a \in Analyses : full[a] # NoResult => full[full[a]] = full[a]
  /\ row # NoRow => full[row.result] = row.result

\* Results stay, and an analysis that ended is not taken up again, in whatever order
\* tasks, resets and month ends come.  Only a task that raised after its results
\* were committed revises an end, from completed to failed.
ResultsStay ==
  [][\A a \in Analyses :
       /\ full[a] # NoResult => full'[a] = full[a]
       /\ status[a] = "failed" => status'[a] = "failed"
       /\ status[a] = "completed" /\ status'[a] # "completed" =>
            task[a] = "raised" /\ status'[a] = "failed"]_portfolioVars

\* "Another user's analysis won the race - that's fine": while no call fails, an
\* analysis that is shown as completed stays so.
EndIsFinal ==
  [][\A a \in Analyses : status[a] \in Ended => status'[a] = status[a]]_portfolioVars

\* "Only one cache entry is created": while it is there, expired or not, the entry
\* of the key stays linked to the analysis that won the race.
EntryIsNeverReplaced ==
  [][row # NoRow /\ row' # NoRow => row'.result = row.result]_portfolioVars

\* The status the frontend polls reaches an end, unless the analysis is itself under way
\* on a worker that stops: whatever raises, other tasks or resets do not keep it open.
AnalysesEnd ==
  \A a \in Analyses : status[a] = "pending" ~> status[a] \in Ended \/ task[a] = "stopped"
=============================================================================
