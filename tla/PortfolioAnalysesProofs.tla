----------------------- MODULE PortfolioAnalysesProofs -----------------------
(***************************************************************************)
(* The cache of portfolio analyses for any number of analyses: what is     *)
(* served was computed by the linked analysis, and results stay.            *)
(*                                                                         *)
(* And that of pull-request analyses, where a hit is copied into a row of  *)
(* its own and into the history: what is shown was computed, and stays.    *)
(***************************************************************************)
EXTENDS PortfolioRequests, PRAnalyses, TLAPS

USE NoResultIsNoAnalysis

\* The places of a task that may have results or an end behind it.
Late == {"publish", "track", "raised", "over", "stopped"}

\* Where a task is says what its row holds, and what it is about to copy.
TaskAndRow ==
  \A a \in Analyses :
    /\ task[a] \in {"publish", "track"} => full[a] = a
    /\ full[a] # NoResult \/ status[a] \in Ended => task[a] \in Late
    /\ status[a] = "failed" => task[a] = "over"
    /\ task[a] = "copy" => loaded[a] # NoResult /\ full[loaded[a]] = loaded[a]

CacheInv == TypeOK /\ ServedResultsAreComputed /\ TaskAndRow

LEMMA TypeStep == TypeOK /\ [Next]_portfolioVars => TypeOK'
<1> SUFFICES ASSUME TypeOK, [Next]_portfolioVars PROVE TypeOK'
  OBVIOUS
<1> USE DEF TypeOK, Statuses, TaskPlaces, To, SetStatus
<1>1. ASSUME NEW a \in Analyses, Analyze(a) PROVE TypeOK'
  BY <1>1 DEF Analyze
<1>2. ASSUME NEW a \in Analyses, Begin(a) PROVE TypeOK'
  BY <1>2 DEF Begin
<1>3. ASSUME NEW a \in Analyses, LookUp(a) PROVE TypeOK'
  <2>1. CachedAnalysis \in Analyses \cup {NoResult}
    BY DEF CachedAnalysis, Rows, NoRow
  <2> QED
    BY <1>3, <2>1 DEF LookUp
<1>4. ASSUME NEW a \in Analyses, Copy(a) PROVE TypeOK'
  BY <1>4 DEF Copy
<1>5. ASSUME NEW a \in Analyses, Fail(a) PROVE TypeOK'
  BY <1>5 DEF Fail
<1>6. ASSUME NEW a \in Analyses, Complete(a) PROVE TypeOK'
  BY <1>6 DEF Complete
<1>7. ASSUME NEW a \in Analyses, Publish(a) PROVE TypeOK'
  <2>1. row' = row \/ row' = [result |-> a, valid |-> TRUE]
    BY <1>7 DEF Publish, InsertEntry, InsertConflict, InsertError
  <2>2. [result |-> a, valid |-> TRUE] \in Rows
    BY DEF Rows
  <2>3. row' \in Rows
    BY <2>1, <2>2
  <2> QED
    BY <1>7, <2>3 DEF Publish
<1>8. ASSUME NEW a \in Analyses, Track(a) PROVE TypeOK'
  BY <1>8 DEF Track
<1>9. ASSUME NEW a \in Analyses, Raise(a) PROVE TypeOK'
  BY <1>9 DEF Raise
<1>10. ASSUME NEW a \in Analyses, HandleError(a) PROVE TypeOK'
  BY <1>10 DEF HandleError
<1>11. ASSUME NEW a \in Analyses, Stop(a) PROVE TypeOK'
  BY <1>11 DEF Stop
<1>12. CASE CacheStep
  <2>1. CASE Expire
    <3>1. row \in [result : Analyses, valid : BOOLEAN]
      BY <2>1 DEF Expire, Rows, NoRow
    <3>2. row' \in Rows
      BY <2>1, <3>1 DEF Expire, Rows
    <3> QED
      BY <1>12, <3>2 DEF CacheStep
  <2>2. CASE ClearCache
    BY <1>12, <2>2 DEF CacheStep, ClearCache, Rows
  <2> QED
    BY <1>12, <2>1, <2>2 DEF CacheStep
<1>13. CASE UNCHANGED portfolioVars
  BY <1>13 DEF portfolioVars
<1> QED
  BY <1>1, <1>2, <1>3, <1>4, <1>5, <1>6, <1>7, <1>8, <1>9, <1>10, <1>11, <1>12, <1>13
     DEF Next, TaskStep

\* A step that leaves the cache entry and all results.
LEMMA ResultsUntouched ==
  ASSUME ServedResultsAreComputed, UNCHANGED <<row, full>>,
         \A a \in Analyses : status'[a] = "completed" => status[a] = "completed"
  PROVE  ServedResultsAreComputed'
BY DEF ServedResultsAreComputed

\* Results stay where they are, so what is linked or copied stays computed.
LEMMA ServedStep ==
  CacheInv /\ TypeOK' /\ [Next]_portfolioVars => ServedResultsAreComputed'
<1> SUFFICES ASSUME CacheInv, TypeOK', [Next]_portfolioVars PROVE ServedResultsAreComputed'
  OBVIOUS
<1>t. TypeOK /\ ServedResultsAreComputed /\ TaskAndRow
  BY DEF CacheInv
<1> USE DEF To, SetStatus
<1>1. ASSUME NEW a \in Analyses, Analyze(a) \/ Begin(a) \/ Fail(a) \/ HandleError(a)
      PROVE  ServedResultsAreComputed'
  BY <1>1, <1>t, ResultsUntouched DEF Analyze, Begin, Fail, HandleError, TypeOK
<1>2. ASSUME NEW a \in Analyses, LookUp(a) \/ Track(a) \/ Raise(a) \/ Stop(a)
      PROVE  ServedResultsAreComputed'
  BY <1>2, <1>t, ResultsUntouched DEF LookUp, Track, Raise, Stop
<1>3. ASSUME NEW a \in Analyses, Copy(a) PROVE ServedResultsAreComputed'
  <2>1. loaded[a] # NoResult /\ full[loaded[a]] = loaded[a] /\ full[a] = NoResult
        /\ loaded[a] \in Analyses
    BY <1>3, <1>t DEF Copy, TaskAndRow, TypeOK, Late
  <2>2. full'[a] = loaded[a] /\ \A b \in Analyses : b # a => full'[b] = full[b]
    BY <1>3, <1>t DEF Copy, TypeOK
  <2>3. row' = row /\ (row # NoRow => row.result \in Analyses)
    BY <1>3, <1>t DEF Copy, TypeOK, Rows
  <2>4. \A b \in Analyses : b # a => status'[b] = status[b]
    BY <1>3, <1>t DEF Copy, TypeOK
  <2> QED
    BY <1>t, <2>1, <2>2, <2>3, <2>4 DEF ServedResultsAreComputed, TypeOK
<1>4. ASSUME NEW a \in Analyses, Complete(a) PROVE ServedResultsAreComputed'
  <2>1. full[a] = NoResult
    BY <1>4, <1>t DEF Complete, TaskAndRow, Late
  <2>2. full'[a] = a /\ \A b \in Analyses : b # a => full'[b] = full[b]
    BY <1>4, <1>t DEF Complete, TypeOK
  <2>3. row' = row /\ (row # NoRow => row.result \in Analyses)
    BY <1>4, <1>t DEF Complete, TypeOK, Rows
  <2>4. \A b \in Analyses : b # a => status'[b] = status[b]
    BY <1>4, <1>t DEF Complete, TypeOK
  <2> QED
    BY <1>t, <2>1, <2>2, <2>3, <2>4 DEF ServedResultsAreComputed, TypeOK
<1>5. ASSUME NEW a \in Analyses, Publish(a) PROVE ServedResultsAreComputed'
  <2>1. full[a] = a
    BY <1>5, <1>t DEF Publish, TaskAndRow
  <2>2. row' = row \/ row' = [result |-> a, valid |-> TRUE]
    BY <1>5 DEF Publish, InsertEntry, InsertConflict, InsertError
  <2>3. UNCHANGED <<status, full>>
    BY <1>5 DEF Publish
  <2> QED
    BY <1>t, <2>1, <2>2, <2>3 DEF ServedResultsAreComputed
<1>6. CASE CacheStep
  <2>1. row' = NoRow \/ (row # NoRow /\ row'.result = row.result)
    BY <1>6, <1>t DEF CacheStep, Expire, ClearCache, TypeOK, Rows, NoRow
  <2>2. UNCHANGED <<status, full>>
    BY <1>6 DEF CacheStep
  <2> QED
    BY <1>t, <2>1, <2>2 DEF ServedResultsAreComputed
<1>7. CASE UNCHANGED portfolioVars
  BY <1>7, <1>t, ResultsUntouched DEF portfolioVars
<1> QED
  BY <1>1, <1>2, <1>3, <1>4, <1>5, <1>6, <1>7 DEF Next, TaskStep

\* The same for what tasks rely on; a step moves one task at most.
LEMMA TaskStepKeeps ==
  CacheInv /\ TypeOK' /\ [Next]_portfolioVars => TaskAndRow'
<1> SUFFICES ASSUME CacheInv, TypeOK', [Next]_portfolioVars PROVE TaskAndRow'
  OBVIOUS
<1>t. TypeOK /\ ServedResultsAreComputed /\ TaskAndRow
  BY DEF CacheInv
<1> USE DEF To, SetStatus, Late, Ended
<1>1. ASSUME NEW a \in Analyses, Analyze(a) PROVE TaskAndRow'
  BY <1>1, <1>t DEF Analyze, TaskAndRow, TypeOK
<1>2. ASSUME NEW a \in Analyses, Begin(a) PROVE TaskAndRow'
  BY <1>2, <1>t DEF Begin, TaskAndRow, TypeOK
<1>3. ASSUME NEW a \in Analyses, LookUp(a) PROVE TaskAndRow'
  <2>1. CASE loaded' = loaded /\ task' = [task EXCEPT ![a] = "analyse"]
    BY <1>3, <1>t, <2>1 DEF LookUp, TaskAndRow, TypeOK
  <2>2. CASE CachedAnalysis # NoResult /\ task' = [task EXCEPT ![a] = "copy"]
             /\ loaded' = [loaded EXCEPT ![a] = full[CachedAnalysis]]
    <3>1. row # NoRow /\ CachedAnalysis = row.result /\ row.result \in Analyses
      BY <2>2, <1>t DEF CachedAnalysis, TypeOK, Rows, NoRow
    <3>2. loaded'[a] = row.result /\ full[row.result] = row.result /\ row.result # NoResult
      BY <2>2, <3>1, <1>t DEF ServedResultsAreComputed, TypeOK
    <3> QED
      BY <1>3, <1>t, <2>2, <3>1, <3>2 DEF LookUp, TaskAndRow, TypeOK
  <2> QED
    BY <1>3, <2>1, <2>2 DEF LookUp
<1>4. ASSUME NEW a \in Analyses, Copy(a) \/ Complete(a) PROVE TaskAndRow'
  <2>0. task[a] = "copy" \/ task[a] = "analyse"
    BY <1>4 DEF Copy, Complete
  <2>1. full[a] = NoResult
    BY <2>0, <1>t DEF TaskAndRow
  <2>2. /\ \A b \in Analyses : b # a => full'[b] = full[b] /\ task'[b] = task[b]
                                         /\ status'[b] = status[b]
        /\ loaded' = loaded /\ status'[a] = "completed"
        /\ task'[a] = "over" \/ (task'[a] = "publish" /\ full'[a] = a)
    <3>1. CASE Copy(a)
      BY <3>1, <1>t DEF Copy, TypeOK
    <3>2. CASE Complete(a)
      BY <3>2, <1>t DEF Complete, TypeOK
    <3> QED
      BY <1>4, <3>1, <3>2
  <2>3. \A b \in Analyses : task[b] = "copy" => loaded[b] # a /\ loaded[b] \in Analyses
    BY <1>t, <2>1 DEF TaskAndRow, TypeOK
  <2> QED
    BY <1>t, <2>1, <2>2, <2>3 DEF TaskAndRow
<1>5. ASSUME NEW a \in Analyses, Fail(a) PROVE TaskAndRow'
  BY <1>5, <1>t DEF Fail, TaskAndRow, TypeOK
<1>6. ASSUME NEW a \in Analyses, Publish(a) \/ Track(a) \/ Raise(a) \/ Stop(a) PROVE TaskAndRow'
  <2>1. /\ UNCHANGED <<status, full, loaded>>
        /\ \A b \in Analyses : b # a => task'[b] = task[b]
        /\ task'[a] \in {"track", "raised", "over", "stopped"} /\ task[a] # "over"
        /\ task'[a] = "track" => task[a] = "publish"
    BY <1>6, <1>t DEF Publish, Track, Raise, Stop, TypeOK
  <2> QED
    BY <1>t, <2>1 DEF TaskAndRow
<1>7. ASSUME NEW a \in Analyses, HandleError(a) PROVE TaskAndRow'
  BY <1>7, <1>t DEF HandleError, TaskAndRow, TypeOK
<1>8. CASE CacheStep \/ UNCHANGED portfolioVars
  BY <1>8, <1>t DEF CacheStep, portfolioVars, TaskAndRow
<1> QED
  BY <1>1, <1>2, <1>3, <1>4, <1>5, <1>6, <1>7, <1>8 DEF Next, TaskStep

LEMMA CacheInit == Init => CacheInv
BY DEF Init, CacheInv, TypeOK, ServedResultsAreComputed, TaskAndRow, Rows, NoRow,
       TaskPlaces, Statuses, Ended

LEMMA CacheInvStep == CacheInv /\ [Next]_portfolioVars => CacheInv'
BY TypeStep, ServedStep, TaskStepKeeps DEF CacheInv

\* For any number of analyses, whatever tasks, resets, month ends and stopped
\* workers do: completed analyses and cache hits show results that were computed.
THEOREM OnlyComputedIsServed == Spec => [](TypeOK /\ ServedResultsAreComputed)
<1>1. CacheInv => TypeOK /\ ServedResultsAreComputed
  BY DEF CacheInv
<1> QED
  BY CacheInit, CacheInvStep, <1>1, PTL DEF Spec

\* Results stay, whatever tasks, resets and month ends do; an analysis that failed is
\* not taken up again, and one that is completed fails only in its own error handling.
THEOREM ResultsAreKept == Spec => ResultsStay
<1> DEFINE Kept == \A a \in Analyses :
                     /\ full[a] # NoResult => full'[a] = full[a]
                     /\ status[a] = "failed" => status'[a] = "failed"
                     /\ status[a] = "completed" /\ status'[a] # "completed" =>
                          task[a] = "raised" /\ status'[a] = "failed"
<1>1. CacheInv /\ [Next]_portfolioVars => [Kept]_portfolioVars
  <2> SUFFICES ASSUME CacheInv, Next PROVE Kept
    OBVIOUS
  <2>t. TypeOK /\ TaskAndRow
    BY DEF CacheInv
  <2> USE DEF To, SetStatus, Late, Ended
  <2>1. ASSUME NEW a \in Analyses, Analyze(a) \/ Begin(a) \/ Fail(a) \/ HandleError(a)
        PROVE  Kept
    BY <2>1, <2>t DEF Analyze, Begin, Fail, HandleError, TaskAndRow, TypeOK
  <2>2. ASSUME NEW a \in Analyses,
               LookUp(a) \/ Publish(a) \/ Track(a) \/ Raise(a) \/ Stop(a)
        PROVE  Kept
    BY <2>2 DEF LookUp, Publish, Track, Raise, Stop
  <2>3. ASSUME NEW a \in Analyses, Copy(a) \/ Complete(a) PROVE Kept
    BY <2>3, <2>t DEF Copy, Complete, TaskAndRow, TypeOK
  <2>4. CASE CacheStep
    BY <2>4 DEF CacheStep
  <2> QED
    BY <2>1, <2>2, <2>3, <2>4 DEF Next, TaskStep
<1> QED
  BY CacheInit, CacheInvStep, <1>1, PTL DEF Spec, ResultsStay

\* The entry of the key is linked to the analysis that inserted it, until a reset clears
\* it (create_cache_entry): whichever tasks race, none takes it over.
THEOREM EntriesStay == Spec => EntryIsNeverReplaced
<1> DEFINE Stays == row # NoRow /\ row' # NoRow => row'.result = row.result
<1>1. CacheInv /\ [Next]_portfolioVars => [Stays]_portfolioVars
  <2> SUFFICES ASSUME CacheInv, Next PROVE Stays
    OBVIOUS
  <2>1. CASE row' = row
    BY <2>1
  <2>2. ASSUME NEW a \in Analyses, Publish(a) PROVE Stays
    BY <2>2 DEF Publish, InsertEntry, InsertConflict, InsertError
  <2>3. CASE CacheStep
    <3>1. row # NoRow => row \in [result : Analyses, valid : BOOLEAN]
      BY DEF CacheInv, TypeOK, Rows
    <3>2. CASE Expire
      BY <3>1, <3>2 DEF Expire, NoRow
    <3>3. CASE ClearCache
      BY <3>3 DEF ClearCache
    <3> QED
      BY <2>3, <3>2, <3>3 DEF CacheStep
  <2>4. ASSUME NEW a \in Analyses,
               \/ Analyze(a) \/ Begin(a) \/ LookUp(a) \/ Copy(a) \/ Fail(a) \/ Complete(a)
               \/ Track(a) \/ Raise(a) \/ HandleError(a) \/ Stop(a)
        PROVE  row' = row
    BY <2>4 DEF Analyze, Begin, LookUp, Copy, Fail, Complete, Track, Raise, HandleError, Stop
  <2> QED
    BY <2>1, <2>2, <2>3, <2>4 DEF Next, TaskStep
<1> QED
  BY CacheInit, CacheInvStep, <1>1, PTL DEF Spec, EntryIsNeverReplaced

\* The tasks of a user's requests are among those: a look for the assessment row that
\* finds several is a call that raises.
LEMMA RequestsUseCache ==
  ASSUME CallsMayFail PROVE [NextRequests]_requestsVars => [Next]_portfolioVars
<1> SUFFICES ASSUME [NextRequests]_requestsVars PROVE [Next]_portfolioVars
  OBVIOUS
<1>1. ASSUME NEW a \in Analyses, CheckUser(a) PROVE UNCHANGED portfolioVars
  BY <1>1 DEF CheckUser
<1>2. ASSUME NEW a \in Analyses,
             \/ StartTask(a) \/ WorkOn(a) \/ TaskPublish(a) \/ TaskCopy(a) \/ TaskFail(a)
             \/ TaskTrackInsert(a) \/ TaskRaise(a) \/ TaskHandleError(a) \/ TaskStop(a)
      PROVE  Next
  BY <1>2 DEF StartTask, WorkOn, TaskPublish, TaskCopy, TaskFail, TaskTrackInsert,
              TaskRaise, TaskHandleError, TaskStop, Next, TaskStep
<1>3. ASSUME NEW a \in Analyses, TaskTrackFind(a) PROVE Next \/ UNCHANGED portfolioVars
  <2>1. CASE Track(a) \/ UNCHANGED portfolioVars
    BY <2>1 DEF Next, TaskStep
  <2>2. CASE To(a, "raised") /\ UNCHANGED <<row, status, full, loaded>>
    BY <1>3, <2>2 DEF TaskTrackFind, Raise, Next, TaskStep
  <2> QED
    BY <1>3, <2>1, <2>2 DEF TaskTrackFind
<1>4. CASE MonthTurns
  BY <1>4 DEF MonthTurns, Next, CacheStep, portfolioVars
<1>5. CASE ResetContext
  BY <1>5 DEF ResetContext, Next, CacheStep
<1>6. CASE UNCHANGED requestsVars
  BY <1>6 DEF requestsVars
<1> QED
  BY <1>1, <1>2, <1>3, <1>4, <1>5, <1>6 DEF NextRequests, RequestTaskStep

\* With the quota and the month that all the user's requests share, and two assessment
\* rows where they race: what is served was computed, and results stay.
THEOREM RequestsServeComputed ==
  ASSUME CallsMayFail PROVE SpecRequests => []ServedResultsAreComputed /\ ResultsStay
<1>1. [NextRequests]_requestsVars => [Next]_portfolioVars
  BY RequestsUseCache
<1>2. InitRequests => Init
  BY DEF InitRequests
<1>3. SpecRequests => Spec
  BY <1>1, <1>2, PTL DEF SpecRequests, Spec
<1> QED
  BY <1>3, OnlyComputedIsServed, ResultsAreKept, PTL

-----------------------------------------------------------------------------
(* The analyses of pull requests, over a cache of the same helpers.  The    *)
(* two specifications are never put together: the variables they have in    *)
(* common serve for the one above and for the other in what follows.        *)

\* The places of a request or a task that may have results behind it.
PRLate == {"copyRecord", "copyTrack", "publish", "record", "track", "raised", "over", "stopped"}

\* Where a request or a task is says what its row holds, and what it is about to copy.
PlaceAndRow(a) ==
  /\ task[a] \in {"publish", "record", "track"} => full[a] = a
  /\ task[a] \in {"copyRecord", "copyTrack"} => full[a] # NoResult
  /\ full[a] # NoResult => task[a] \in PRLate
  /\ task[a] = "copy" => loaded[a] # NoResult /\ full[loaded[a]] = loaded[a]

PRInv == PRTypeOK /\ ResultsAreComputed /\ \A a \in Analyses : PlaceAndRow(a)

\* What a step can do to the entry: nothing, insert the one of an analysis about to
\* publish, let it expire, clear it.
LEMMA EntryStep ==
  ASSUME PRTypeOK, [NextPR]_prVars
  PROVE  \/ row' = row
         \/ row = NoRow /\ \E a \in Analyses : /\ PublishPR(a)
                                               /\ row' = [result |-> a, valid |-> TRUE]
         \/ /\ row \in [result : Analyses, valid : BOOLEAN]
            /\ row' = NoRow \/ row' = [row EXCEPT !.valid = FALSE]
            /\ UNCHANGED full
<1>t. row \in Rows
  BY DEF PRTypeOK
<1>1. ASSUME NEW a \in Analyses, RequestStep(a) \/ RequestRaises(a) PROVE row' = row
  BY <1>1 DEF RequestStep, Ask, StoreCopy, AnswerCopy, Store, StoreRecord,
              RequestRaises
<1>2. ASSUME NEW a \in Analyses, PublishPR(a)
      PROVE  \/ row' = row
             \/ row = NoRow /\ row' = [result |-> a, valid |-> TRUE]
  BY <1>2 DEF PublishPR, InsertEntry, InsertConflict, InsertError
<1>3. ASSUME NEW a \in Analyses,
             \/ BeginPR(a) \/ FailPR(a) \/ NoPRs(a) \/ CompletePR(a) \/ Record(a)
             \/ TrackPR(a) \/ RaisePR(a) \/ HandlePRError(a) \/ BeginRaises(a) \/ StopPR(a)
      PROVE  row' = row
  BY <1>3 DEF BeginPR, FailPR, NoPRs, CompletePR, Record, TrackPR, RaisePR,
              HandlePRError, BeginRaises, StopPR
<1>4. CASE MonthEnds
  <2>1. row.valid /\ row' = [row EXCEPT !.valid = FALSE] /\ UNCHANGED full
    BY <1>4 DEF MonthEnds, Expire
  <2> QED
    BY <2>1, <1>t DEF Rows, NoRow
<1>5. ASSUME NEW u, Reset(u)
      PROVE  \/ row' = row
             \/ row \in [result : Analyses, valid : BOOLEAN] /\ row' = NoRow /\ UNCHANGED full
  BY <1>5, <1>t DEF Reset, ClearCache, Rows
<1>6. CASE UNCHANGED prVars
  BY <1>6 DEF prVars
<1> QED
  BY <1>1, <1>2, <1>3, <1>4, <1>5, <1>6 DEF NextPR, PRTaskStep

LEMMA PRTypeStep ==
  ASSUME PRTypeOK, [NextPR]_prVars PROVE PRTypeOK'
<1>r. row' \in Rows
  <2>1. row \in Rows
    BY DEF PRTypeOK
  <2>2. NoRow \in Rows /\ \A a \in Analyses : [result |-> a, valid |-> TRUE] \in Rows
    BY DEF Rows
  <2>3. row \in [result : Analyses, valid : BOOLEAN] => [row EXCEPT !.valid = FALSE] \in Rows
    BY DEF Rows
  <2>4. row' \in Rows
    BY <2>1, <2>2, <2>3, EntryStep
  <2> QED
    BY <2>4
<1>c. CachedAnalysis \in Analyses \cup {NoResult}
  BY DEF PRTypeOK, CachedAnalysis, Rows, NoRow
<1> USE DEF PRTypeOK, Statuses, PRTaskPlaces, RecordStatuses, To, SetStatus,
            AddRecord
<1>1. ASSUME NEW a \in Analyses, Ask(a) PROVE PRTypeOK'
  BY <1>r, <1>c, <1>1 DEF Ask
<1>2. ASSUME NEW a \in Analyses, StoreCopy(a) \/ Store(a) PROVE PRTypeOK'
  BY <1>r, <1>2 DEF StoreCopy, Store
<1>3. ASSUME NEW a \in Analyses, Record(a) \/ StoreRecord(a) PROVE PRTypeOK'
  BY <1>r, <1>3 DEF Record, StoreRecord
<1>4. ASSUME NEW a \in Analyses,
             \/ AnswerCopy(a) \/ RequestRaises(a) \/ BeginRaises(a) \/ TrackPR(a)
             \/ RaisePR(a) \/ StopPR(a)
      PROVE  PRTypeOK'
  BY <1>r, <1>4 DEF AnswerCopy, RequestRaises, BeginRaises, TrackPR, RaisePR, StopPR
<1>5. ASSUME NEW a \in Analyses,
             BeginPR(a) \/ FailPR(a) \/ NoPRs(a) \/ HandlePRError(a)
      PROVE  PRTypeOK'
  BY <1>r, <1>5 DEF BeginPR, FailPR, NoPRs, HandlePRError
<1>6. ASSUME NEW a \in Analyses, CompletePR(a) PROVE PRTypeOK'
  BY <1>r, <1>6 DEF CompletePR
<1>7. ASSUME NEW a \in Analyses, PublishPR(a) PROVE PRTypeOK'
  BY <1>r, <1>7 DEF PublishPR
<1>8. ASSUME NEW u, Reset(u) PROVE PRTypeOK'
  BY <1>r, <1>8 DEF Reset
<1>9. CASE MonthEnds \/ UNCHANGED prVars
  BY <1>r, <1>9 DEF MonthEnds, prVars
<1> QED
  BY <1>1, <1>2, <1>3, <1>4, <1>5, <1>6, <1>7, <1>8, <1>9
     DEF NextPR, RequestStep, PRTaskStep

\* What a step does to the results: one analysis that has none gets its own or those of
\* the copy it is making, and no other is touched.
LEMMA ResultsStep ==
  ASSUME PRInv, [NextPR]_prVars
  PROVE  \/ full' = full
         \/ \E a \in Analyses :
              /\ full[a] = NoResult
              /\ \A b \in Analyses \ {a} : full'[b] = full[b]
              /\ \/ full'[a] = a
                 \/ full'[a] = loaded[a] /\ task[a] = "copy"
<1>t. PRTypeOK /\ \A a \in Analyses : PlaceAndRow(a)
  BY DEF PRInv
<1>1. ASSUME NEW a \in Analyses, StoreCopy(a)
      PROVE  /\ full[a] = NoResult /\ full'[a] = loaded[a] /\ task[a] = "copy"
             /\ \A b \in Analyses \ {a} : full'[b] = full[b]
  BY <1>t, <1>1 DEF StoreCopy, PRTypeOK, PlaceAndRow, PRLate
<1>2. ASSUME NEW a \in Analyses, CompletePR(a)
      PROVE  /\ full[a] = NoResult /\ full'[a] = a
             /\ \A b \in Analyses \ {a} : full'[b] = full[b]
  BY <1>t, <1>2 DEF CompletePR, PRTypeOK, PlaceAndRow, PRLate
<1>3. ASSUME NEW a \in Analyses,
             \/ Ask(a) \/ AnswerCopy(a) \/ Store(a) \/ StoreRecord(a)
             \/ RequestRaises(a) \/ BeginRaises(a) \/ StopPR(a)
      PROVE  full' = full
  BY <1>3 DEF Ask, AnswerCopy, Store, StoreRecord, RequestRaises,
              BeginRaises, StopPR
<1>4. ASSUME NEW a \in Analyses,
             \/ BeginPR(a) \/ FailPR(a) \/ NoPRs(a) \/ PublishPR(a) \/ Record(a)
             \/ TrackPR(a) \/ RaisePR(a) \/ HandlePRError(a)
      PROVE  full' = full
  BY <1>4 DEF BeginPR, FailPR, NoPRs, PublishPR, Record, TrackPR, RaisePR,
              HandlePRError
<1>5. ASSUME NEW u, Reset(u) PROVE full' = full
  BY <1>5 DEF Reset
<1>6. ASSUME MonthEnds \/ UNCHANGED prVars PROVE full' = full
  BY <1>6 DEF MonthEnds, prVars
<1> QED
  BY <1>1, <1>2, <1>3, <1>4, <1>5, <1>6 DEF NextPR, RequestStep, PRTaskStep

\* Results that are there stay, and those that come are results of the analysis they name.
LEMMA ResultsRemain ==
  ASSUME PRInv, PRTypeOK', [NextPR]_prVars
  PROVE  /\ \A b \in Analyses : full[b] # NoResult => full'[b] = full[b]
         /\ \A b \in Analyses : full'[b] # NoResult => full'[full'[b]] = full'[b]
<1>1. /\ full \in [Analyses -> Analyses \cup {NoResult}]
      /\ full' \in [Analyses -> Analyses \cup {NoResult}]
      /\ loaded \in [Analyses -> Analyses \cup {NoResult}]
      /\ \A b \in Analyses : full[b] # NoResult => full[full[b]] = full[b]
      /\ \A b \in Analyses : task[b] = "copy" => loaded[b] # NoResult /\ full[loaded[b]] = loaded[b]
  BY DEF PRInv, PRTypeOK, ResultsAreComputed, PlaceAndRow
<1>2. CASE full' = full
  BY <1>1, <1>2
<1>3. ASSUME NEW a \in Analyses, full[a] = NoResult,
             \A b \in Analyses \ {a} : full'[b] = full[b],
             full'[a] = a \/ (full'[a] = loaded[a] /\ task[a] = "copy")
      PROVE  /\ \A b \in Analyses : full[b] # NoResult => full'[b] = full[b]
             /\ \A b \in Analyses : full'[b] # NoResult => full'[full'[b]] = full'[b]
  <2>1. \A b \in Analyses : full[b] # NoResult => full'[b] = full[b]
    BY <1>3
  <2>2. full'[full'[a]] = full'[a]
    <3>1. CASE full'[a] = a
      BY <3>1
    <3>2. CASE full'[a] = loaded[a] /\ task[a] = "copy"
      <4>1. loaded[a] \in Analyses /\ full[loaded[a]] # NoResult
        BY <1>1, <3>2
      <4> QED
        BY <1>1, <2>1, <3>2, <4>1
    <3> QED
      BY <1>3, <3>1, <3>2
  <2>3. ASSUME NEW b \in Analyses \ {a}, full'[b] # NoResult PROVE full'[full'[b]] = full'[b]
    <3>1. full[b] \in Analyses /\ full[full[b]] = full[b] /\ full'[b] = full[b]
      BY <1>1, <1>3, <2>3
    <3> QED
      BY <2>1, <3>1
  <2> QED
    BY <2>1, <2>2, <2>3
<1> QED
  BY <1>2, <1>3, ResultsStep

LEMMA ComputedStep ==
  ASSUME PRInv, PRTypeOK', [NextPR]_prVars PROVE ResultsAreComputed'
<1>t. PRTypeOK /\ ResultsAreComputed /\ \A a \in Analyses : PlaceAndRow(a)
  BY DEF PRInv
<1>s. /\ \A b \in Analyses : full[b] # NoResult => full'[b] = full[b]
      /\ \A b \in Analyses : full'[b] # NoResult => full'[full'[b]] = full'[b]
  BY ResultsRemain
<1>1. row' # NoRow => full'[row'.result] = row'.result
  <2>0. row # NoRow => row.result \in Analyses /\ full[row.result] = row.result
    BY <1>t DEF PRTypeOK, ResultsAreComputed, Rows
  <2>1. CASE row' = row
    BY <1>s, <2>0, <2>1
  <2>2. ASSUME NEW a \in Analyses, PublishPR(a), row' = [result |-> a, valid |-> TRUE]
        PROVE  full'[row'.result] = row'.result
    <3>1. full[a] = a
      BY <1>t, <2>2 DEF PublishPR, PlaceAndRow
    <3> QED
      BY <1>s, <2>2, <3>1
  <2>3. CASE /\ row \in [result : Analyses, valid : BOOLEAN]
             /\ row' = NoRow \/ row' = [row EXCEPT !.valid = FALSE]
             /\ UNCHANGED full
    <3>1. row # NoRow
      BY <2>3 DEF NoRow
    <3>2. row' # NoRow => row'.result = row.result
      BY <2>3
    <3> QED
      BY <2>0, <2>3, <3>1, <3>2
  <2> QED
    BY <1>t, <2>1, <2>2, <2>3, EntryStep
<1>2. ASSUME NEW b \in Analyses, "completed" \in records'[b] PROVE full'[b] # NoResult
  <2>1. "completed" \in records[b] \/ task[b] \in {"copyRecord", "record"}
    <3> USE DEF PRTypeOK, AddRecord
    <3>1. ASSUME NEW a \in Analyses, Record(a) \/ StoreRecord(a)
          PROVE  "completed" \in records[b] \/ task[b] \in {"copyRecord", "record"}
      BY <1>t, <1>2, <3>1 DEF Record, StoreRecord
    <3>2. ASSUME NEW a \in Analyses,
                 \/ Ask(a) \/ StoreCopy(a) \/ AnswerCopy(a) \/ Store(a)
                 \/ RequestRaises(a) \/ BeginRaises(a) \/ StopPR(a) \/ BeginPR(a)
          PROVE  records' = records
      BY <3>2 DEF Ask, StoreCopy, AnswerCopy, Store, RequestRaises,
                  BeginRaises, StopPR, BeginPR
    <3>3. ASSUME NEW a \in Analyses,
                 \/ FailPR(a) \/ NoPRs(a) \/ CompletePR(a) \/ PublishPR(a)
                 \/ TrackPR(a) \/ RaisePR(a) \/ HandlePRError(a)
          PROVE  records' = records
      BY <3>3 DEF FailPR, NoPRs, CompletePR, PublishPR, TrackPR, RaisePR, HandlePRError
    <3>4. ASSUME NEW u, Reset(u) PROVE "completed" \in records[b]
      BY <1>2, <3>4 DEF Reset
    <3>5. ASSUME MonthEnds \/ UNCHANGED prVars PROVE records' = records
      BY <3>5 DEF MonthEnds, prVars
    <3>6. records' = records => "completed" \in records[b]
      BY <1>2
    <3> QED
      BY <3>1, <3>2, <3>3, <3>4, <3>5, <3>6 DEF NextPR, RequestStep, PRTaskStep
  <2>2. full[b] # NoResult
    BY <1>t, <2>1 DEF ResultsAreComputed, PlaceAndRow
  <2> QED
    BY <1>s, <2>2
<1> QED
  BY <1>1, <1>2, <1>s DEF ResultsAreComputed

\* A step moves one request or task at most, so what is said of the others holds on as
\* long as their results stay.
LEMMA OthersStand ==
  ASSUME PRInv, PRTypeOK', [NextPR]_prVars, NEW a \in Analyses,
         \A b \in Analyses \ {a} :
           task'[b] = task[b] /\ loaded'[b] = loaded[b] /\ full'[b] = full[b],
         PlaceAndRow(a)'
  PROVE  \A b \in Analyses : PlaceAndRow(b)'
<1>1. ASSUME NEW b \in Analyses \ {a} PROVE PlaceAndRow(b)'
  <2>1. PlaceAndRow(b) /\ loaded[b] \in Analyses \cup {NoResult}
    BY DEF PRInv, PRTypeOK
  <2>2. \A c \in Analyses : full[c] # NoResult => full'[c] = full[c]
    BY ResultsRemain
  <2> QED
    BY <1>1, <2>1, <2>2 DEF PlaceAndRow
<1> QED
  BY <1>1

LEMMA PlaceStep ==
  ASSUME PRInv, PRTypeOK', [NextPR]_prVars
  PROVE  \A b \in Analyses : PlaceAndRow(b)'
<1> DEFINE Standing == \A b \in Analyses : PlaceAndRow(b)'
<1>t. PRTypeOK /\ ResultsAreComputed /\ \A a \in Analyses : PlaceAndRow(a)
  BY DEF PRInv
<1>s. \A b \in Analyses : full[b] # NoResult => full'[b] = full[b]
  BY ResultsRemain
<1> USE DEF To, SetStatus, AddRecord, PRLate
<1>1. ASSUME NEW a \in Analyses, Ask(a) PROVE Standing
  <2>1. \A b \in Analyses \ {a} : task'[b] = task[b] /\ loaded'[b] = loaded[b]
    BY <1>t, <1>1 DEF Ask, PRTypeOK
  <2>2. full' = full /\ full[a] = NoResult
    BY <1>t, <1>1 DEF Ask, PlaceAndRow
  <2>3. PlaceAndRow(a)'
    <3>1. CASE task'[a] = "store"
      BY <2>2, <3>1 DEF PlaceAndRow
    <3>2. CASE task'[a] = "copy" /\ CachedAnalysis # NoResult /\ loaded'[a] = full[CachedAnalysis]
      <4>1. row # NoRow /\ CachedAnalysis = row.result /\ row.result \in Analyses
        BY <1>t, <3>2 DEF CachedAnalysis, PRTypeOK, Rows, NoRow
      <4>2. loaded'[a] = row.result /\ full[row.result] = row.result /\ row.result # NoResult
        BY <1>t, <3>2, <4>1 DEF ResultsAreComputed
      <4> QED
        BY <2>2, <3>2, <4>2 DEF PlaceAndRow
    <3> QED
      BY <1>t, <1>1, <3>1, <3>2 DEF Ask, PRTypeOK
  <2> QED
    BY <2>1, <2>2, <2>3, OthersStand
<1>2. ASSUME NEW a \in Analyses, StoreCopy(a) PROVE Standing
  <2>1. \A b \in Analyses \ {a} :
          task'[b] = task[b] /\ loaded'[b] = loaded[b] /\ full'[b] = full[b]
    BY <1>t, <1>2 DEF StoreCopy, PRTypeOK
  <2>2. task'[a] = "copyRecord" /\ full'[a] = loaded[a] /\ loaded[a] # NoResult
    BY <1>t, <1>2 DEF StoreCopy, PRTypeOK, PlaceAndRow
  <2> QED
    BY <2>1, <2>2, OthersStand DEF PlaceAndRow
<1>3. ASSUME NEW a \in Analyses, CompletePR(a) PROVE Standing
  <2>1. \A b \in Analyses \ {a} :
          task'[b] = task[b] /\ loaded'[b] = loaded[b] /\ full'[b] = full[b]
    BY <1>t, <1>3 DEF CompletePR, PRTypeOK
  <2>2. task'[a] = "publish" /\ full'[a] = a
    BY <1>t, <1>3 DEF CompletePR, PRTypeOK
  <2> QED
    BY <2>1, <2>2, OthersStand DEF PlaceAndRow
\* Every other step leaves the results and goes from a place to one that asks no more.
<1>4. ASSUME NEW a \in Analyses, UNCHANGED <<full, loaded>>, NEW p, To(a, p), p # "copy",
             p \in {"publish", "record", "track"} => task[a] \in {"publish", "record", "track"},
             p \in {"copyRecord", "copyTrack"} => task[a] \in {"copyRecord", "copyTrack"},
             task[a] \in PRLate => p \in PRLate
      PROVE  Standing
  <2>1. task'[a] = p /\ \A b \in Analyses \ {a} : task'[b] = task[b]
    BY <1>t, <1>4 DEF PRTypeOK
  <2>2. PlaceAndRow(a)'
    BY <1>t, <1>4, <2>1 DEF PlaceAndRow
  <2> QED
    BY <1>4, <2>1, <2>2, OthersStand
<1>5. ASSUME NEW a \in Analyses,
             \/ AnswerCopy(a) \/ Store(a) \/ StoreRecord(a) \/ RequestRaises(a)
      PROVE  Standing
  <2>1. PICK p \in {"over", "storeRecord", "queued"} : To(a, p)
    BY <1>5 DEF AnswerCopy, Store, StoreRecord, RequestRaises
  <2>2. UNCHANGED <<full, loaded>> /\ (task[a] \in PRLate => p \in PRLate)
    BY <1>t, <1>5, <2>1 DEF AnswerCopy, Store, StoreRecord, RequestRaises, PRTypeOK
  <2> QED
    BY <1>4, <2>1, <2>2
<1>6. ASSUME NEW a \in Analyses,
             \/ BeginPR(a) \/ BeginRaises(a) \/ FailPR(a) \/ NoPRs(a) \/ TrackPR(a)
             \/ RaisePR(a) \/ HandlePRError(a) \/ StopPR(a)
      PROVE  Standing
  <2>1. PICK p \in {"analyse", "over", "raised", "stopped"} : To(a, p)
    BY <1>6 DEF BeginPR, BeginRaises, FailPR, NoPRs, TrackPR, RaisePR,
                HandlePRError, StopPR
  <2>2. UNCHANGED <<full, loaded>> /\ (p = "analyse" => task[a] = "queued")
    BY <1>t, <1>6, <2>1 DEF BeginPR, BeginRaises, FailPR, NoPRs, TrackPR, RaisePR,
                HandlePRError, StopPR, PRTypeOK
  <2> QED
    BY <1>4, <2>1, <2>2
<1>7. ASSUME NEW a \in Analyses, Record(a) \/ PublishPR(a) PROVE Standing
  <2>1. PICK p \in {"copyTrack", "track", "record", "raised"} : To(a, p)
    BY <1>7 DEF Record, PublishPR
  <2>2. /\ UNCHANGED <<full, loaded>>
        /\ p = "copyTrack" => task[a] = "copyRecord"
        /\ p \in {"track", "record"} => task[a] \in {"record", "publish"}
    BY <1>t, <1>7, <2>1 DEF Record, PublishPR, PRTypeOK
  <2> QED
    BY <1>4, <2>1, <2>2
<1>8. ASSUME UNCHANGED <<task, full, loaded>> PROVE Standing
  BY <1>t, <1>8 DEF PlaceAndRow
<1>9. ASSUME NEW u, Reset(u) PROVE Standing
  BY <1>8, <1>9 DEF Reset
<1>10. ASSUME MonthEnds \/ UNCHANGED prVars PROVE Standing
  BY <1>8, <1>10 DEF MonthEnds, prVars
<1> HIDE DEF Standing
<1>11. Standing
  BY <1>1, <1>2, <1>3, <1>5, <1>6, <1>7, <1>9, <1>10 DEF NextPR, RequestStep, PRTaskStep
<1> QED
  BY <1>11 DEF Standing

LEMMA PRInit == InitPR => PRInv
BY DEF InitPR, PRInv, PRTypeOK, ResultsAreComputed, PlaceAndRow, Rows, NoRow,
                 PRTaskPlaces, Statuses, RecordStatuses, PRLate

LEMMA PRInvStep == PRInv /\ [NextPR]_prVars => PRInv'
BY PRTypeStep, ComputedStep, PlaceStep DEF PRInv

\* For any number of analyses, whatever requests, tasks, resets, month ends and stopped
\* workers do: the entry links results of the analysis itself, a copy shows what was
\* computed, and a history row that says completed has results behind it.
THEOREM PRResultsAreComputed == SpecPR => [](PRTypeOK /\ ResultsAreComputed)
<1>1. PRInv => PRTypeOK /\ ResultsAreComputed
  BY DEF PRInv
<1> QED
  BY PRInit, PRInvStep, <1>1, PTL DEF SpecPR

\* Results once stored are never overwritten or taken back, not even by the except clause
\* that sets FAILED, and the entry of the key is linked to the analysis that inserted it
\* until it is cleared (create_pr_cache_entry).
THEOREM PRResultsStay ==
  SpecPR => [][/\ \A a \in Analyses : full[a] # NoResult => full'[a] = full[a]
               /\ row # NoRow /\ row' # NoRow => row'.result = row.result]_prVars
<1> DEFINE Stay == /\ \A a \in Analyses : full[a] # NoResult => full'[a] = full[a]
                   /\ row # NoRow /\ row' # NoRow => row'.result = row.result
<1>1. PRInv /\ [NextPR]_prVars => Stay
  <2> SUFFICES ASSUME PRInv, [NextPR]_prVars PROVE Stay
    OBVIOUS
  <2>1. PRTypeOK /\ PRTypeOK'
    BY PRTypeStep DEF PRInv
  <2>2. row # NoRow /\ row' # NoRow => row'.result = row.result
    BY <2>1, EntryStep
  <2> QED
    BY <2>1, <2>2, ResultsRemain
<1>2. PRInv /\ [NextPR]_prVars => [Stay]_prVars
  BY <1>1
<1> QED
  BY PRInit, PRInvStep, <1>2, PTL DEF SpecPR
=============================================================================
