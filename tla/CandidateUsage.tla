--------------------------- MODULE CandidateUsage ---------------------------
(***************************************************************************)
(* The monthly quota of candidate assessments of one user, shared by       *)
(* portfolio and PR analyses: check_user_eligibility of both routes over    *)
(* services/candidate_usage_service.py.                                    *)
(*                                                                         *)
(* A request first looks for the assessment row of its candidate in the    *)
(* current billing period and inserts one if there is none; only after the *)
(* insert is committed it counts the user's rows against the limit of the  *)
(* tier.  A refused request leaves its row behind.  An analysis that ends  *)
(* looks for the row once more, possibly in the next billing period.       *)
(* Every database call is a step of its own; the requests of one user run  *)
(* in any number of workers.  The table has no unique constraint.          *)
(***************************************************************************)
EXTENDS Naturals, FiniteSets

CONSTANTS Requests, Candidates,
          Limit,       \* CANDIDATE_LIMITS of the user's tier
          LastPeriod   \* bound: billing periods considered

ASSUME RequestsFinite == IsFiniteSet(Requests)
ASSUME LimitType == Limit \in Nat \ {0}   \* free users are turned away before
ASSUME LastPeriodType == LastPeriod \in Nat \ {0}

Periods == 1..LastPeriod
Never == 0

VARIABLES period,  \* the billing period the clock shows
          req      \* the requests, and with them the rows they inserted

usageVars == <<period, req>>

(* req[r].month is the period get_or_create_assessment last computed;      *)
(* .checkedIn and .trackedIn are the periods of the rows r inserted before *)
(* and after the analysis; .countedIn is the period whose rows admitted r. *)
Stations == {"idle", "find", "insert", "count", "running", "track", "trackInsert",
             "done", "refused", "failed"}

Idle(c) == [pc |-> "idle", candidate |-> c, month |-> Never,
            checkedIn |-> Never, trackedIn |-> Never, countedIn |-> Never]

InitUsage ==
  /\ period = 1
  /\ req \in [Requests -> {Idle(c) : c \in Candidates}]

\* The rows of a period, by the requests that inserted them.
Checked(p) == {r \in Requests : req[r].checkedIn = p}
Tracked(p) == {r \in Requests : req[r].trackedIn = p}

\* get_monthly_usage: the rows of the period, counted.
MonthlyUsage(p) == Cardinality(Checked(p)) + Cardinality(Tracked(p))

\* The rows of one candidate.
RowsOf(c, p) == Cardinality({r \in Checked(p) : req[r].candidate = c})
                  + Cardinality({r \in Tracked(p) : req[r].candidate = c})

Arrive(r) ==
  /\ req[r].pc = "idle"
  /\ req' = [req EXCEPT ![r].pc = "find"]
  /\ UNCHANGED period

\* The first half of get_or_create_assessment.  scalar_one_or_none raises when
\* there are several rows.
FindRow(r, at, absent, present) ==
  LET rows == RowsOf(req[r].candidate, period)
      Found(pc) == req' = [req EXCEPT ![r].pc = pc, ![r].month = period]
  IN  /\ req[r].pc = at
      /\ \/ rows = 0 /\ Found(absent)
         \/ rows = 1 /\ Found(present)
         \/ rows > 1 /\ Found("failed")
      /\ UNCHANGED period

\* An assessed candidate is admitted without counting.
Find(r) == FindRow(r, "find", "insert", "running")

\* The second half: the new row, committed.
Insert(r) ==
  /\ req[r].pc = "insert"
  /\ req' = [req EXCEPT ![r].pc = "count", ![r].checkedIn = req[r].month]
  /\ UNCHANGED period

\* Mutant of CountRows: only the candidates whose analysis is over are counted.
CountRowsOfEnded(r) ==
  LET usage == Cardinality({q \in Checked(period) : req[q].pc = "done"})
  IN  /\ req[r].pc = "count"
      /\ \/ /\ usage < Limit
            /\ req' = [req EXCEPT ![r].pc = "running", ![r].countedIn = period]
         \/ usage >= Limit /\ req' = [req EXCEPT ![r].pc = "refused"]
      /\ UNCHANGED period

\* A new candidate is admitted while the rows, its own among them, are fewer than
\* the limit.  The period of the count is computed anew.
CountRows(r) ==
  /\ req[r].pc = "count"
  /\ \/ /\ MonthlyUsage(period) < Limit
        /\ req' = [req EXCEPT ![r].pc = "running", ![r].countedIn = period]
     \/ MonthlyUsage(period) >= Limit /\ req' = [req EXCEPT ![r].pc = "refused"]
  /\ UNCHANGED period

\* The analysis ends with results that are tracked, or with those of the cache.
EndAnalysis(r, pc) ==
  /\ req[r].pc = "running"
  /\ req' = [req EXCEPT ![r].pc = pc]
  /\ UNCHANGED period

\* An error: of the database in any of the calls, or of the analysis.
Break(r) ==
  /\ req[r].pc \in {"find", "insert", "count", "running", "track", "trackInsert"}
  /\ req' = [req EXCEPT ![r].pc = "failed"]
  /\ UNCHANGED period

\* get_or_create_assessment once more.
TrackFind(r) == FindRow(r, "track", "trackInsert", "done")

\* Mutant of TrackInsert: an analysis that ends in a new period leaves no row there.
TrackInsertForgotten(r) ==
  /\ req[r].pc = "trackInsert"
  /\ req' = [req EXCEPT ![r].pc = "done"]
  /\ UNCHANGED period

TrackInsert(r) ==
  /\ req[r].pc = "trackInsert"
  /\ req' = [req EXCEPT ![r].pc = "done", ![r].trackedIn = req[r].month]
  /\ UNCHANGED period

\* Midnight at the end of a month.
NextPeriod ==
  /\ period < LastPeriod
  /\ period' = period + 1
  /\ UNCHANGED req

UsageStep(r) ==
  \/ Arrive(r) \/ Find(r) \/ Insert(r) \/ CountRows(r) \/ TrackFind(r) \/ TrackInsert(r)
  \/ Break(r)
  \/ \E pc \in {"track", "done"} : EndAnalysis(r, pc)

NextUsage == (\E r \in Requests : UsageStep(r)) \/ NextPeriod

SpecUsage == InitUsage /\ [][NextUsage]_usageVars

-----------------------------------------------------------------------------
\* Types, and what the station of a request says of its rows.
UsageTypeOK ==
  /\ period \in Periods
  /\ req \in [Requests -> [pc : Stations, candidate : Candidates,
                           month : Periods \cup {Never}, checkedIn : Periods \cup {Never},
                           trackedIn : Periods \cup {Never}, countedIn : Periods \cup {Never}]]
  /\ \A r \in Requests :
       /\ req[r].pc \in {"insert", "count", "trackInsert"} => req[r].month # Never
       /\ req[r].pc \in {"idle", "find", "insert"} => req[r].checkedIn = Never
       /\ req[r].pc \in {"idle", "find", "insert", "count"} => req[r].countedIn = Never
       /\ req[r].pc = "count" => req[r].checkedIn # Never

\* The new candidates that were let in on the count of a period, with a row of it.
LetIn(p) == {r \in Checked(p) : req[r].countedIn = p}

\* However many requests insert and count at the same time, the counts of a period
\* let in no more new candidates than the limit of the tier: each row is committed
\* before its request counts, so of two requests one sees the other's.
QuotaHolds == \A p \in Periods : Cardinality(LetIn(p)) <= Limit

\* The candidates analysed in a period, with results or still under way.
Analysed(p) == {req[r].candidate : r \in
                  {q \in Requests : /\ req[q].month = p
                                    /\ req[q].pc \in {"running", "track", "trackInsert", "done"}}}

\* "BASIC: 10 candidates/month": all analyses of a month, those of candidates that
\* had a row already included, are of at most as many candidates as the limit.
CandidateLimitHolds == \A p \in Periods : Cardinality(Analysed(p)) <= Limit

\* The usage shown to the user misses nobody: an analysis under way is counted in
\* the period it was asked for in, one that ended in the period it ended in, where
\* its candidate has a row whichever request inserted it.
EveryoneIsCounted ==
  \A r \in Requests :
    req[r].pc \in {"running", "track", "done"} => RowsOf(req[r].candidate, req[r].month) > 0
=============================================================================
