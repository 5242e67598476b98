----------------------------- MODULE ResultCache -----------------------------
(***************************************************************************)
(* The cache row of one key (candidate, context, role), shared by all      *)
(* users: PortfolioAnalysisCache and PRAnalysisCache with the helpers the   *)
(* two routes define for them alike.  The unique constraint allows one row *)
(* for the key; a row past its expiry is ignored by readers and stays.     *)
(*                                                                         *)
(* And what the analyses of both routes have: a row and a background task. *)
(***************************************************************************)
CONSTANTS Analyses,  \* the analyses of the key, by id
          NoResult   \* no results, "{}"

ASSUME NoResultIsNoAnalysis == NoResult \notin Analyses

VARIABLES row,     \* NoRow, or the analysis linked and whether it is before the expiry
          task,    \* where the request or the background task of an analysis is
          status,  \* the status of an analysis' own row
          full,    \* its results, named by the analysis that computed them
          loaded   \* the cached results a request or task has read and not yet committed

NoRow == [result |-> NoResult, valid |-> FALSE]
Rows == {NoRow} \cup [result : Analyses, valid : BOOLEAN]
Statuses == {"none", "pending", "processing", "completed", "failed"}

To(a, place) == task' = [task EXCEPT ![a] = place]
SetStatus(a, s) == status' = [status EXCEPT ![a] = s]

-----------------------------------------------------------------------------
\* get_cached_analysis: the linked analysis, NoResult for none.
CachedAnalysis == IF row.valid THEN row.result ELSE NoResult

\* create_cache_entry: the insert that succeeds.
InsertEntry(a) == row = NoRow /\ row' = [result |-> a, valid |-> TRUE]

\* The insert that hits the unique constraint.  The session is rolled back, and
\* with it every object of the session expires; the log line that follows reads
\* the analysis and raises, out of the helper.
InsertConflict == row # NoRow /\ UNCHANGED row

\* Any other database error: the retries end the same way and the helper returns
\* False, with no row.
InsertError == UNCHANGED row

\* The end of the month.
Expire == row.valid /\ row' = [row EXCEPT !.valid = FALSE]

\* clear_candidate_caches, when any hiring manager resets the candidate's context.
ClearCache == row # NoRow /\ row' = NoRow
=============================================================================
