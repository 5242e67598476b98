------------------------ MODULE CandidateUsageProofs ------------------------
(***************************************************************************)
(* The candidate quota for any number of requests, candidates and periods  *)
(* and any limit.  What makes it hold under concurrency is the order in    *)
(* the code, insert and commit before counting: whoever was let in on the  *)
(* count of a period has a row of it, so a count below the limit leaves     *)
(* room for the requests let in before and for the one that counts.        *)
(***************************************************************************)
EXTENDS PortfolioRequests, FiniteSetTheorems, TLAPS

USE RequestsFinite, LimitType, LastPeriodType DEF Periods, Never

LEMMA TypeStep == UsageTypeOK /\ [NextUsage]_usageVars => UsageTypeOK'
<1> SUFFICES ASSUME UsageTypeOK, [NextUsage]_usageVars PROVE UsageTypeOK'
  OBVIOUS
<1> USE DEF UsageTypeOK, Stations
<1>1. ASSUME NEW r \in Requests, Arrive(r) PROVE UsageTypeOK'
  BY <1>1 DEF Arrive
<1>2. ASSUME NEW r \in Requests, Find(r) PROVE UsageTypeOK'
  <2>1. PICK pc \in {"insert", "running", "failed"} :
          req' = [req EXCEPT ![r].pc = pc, ![r].month = period]
    BY <1>2 DEF Find, FindRow
  <2> QED
    BY <1>2, <2>1 DEF Find, FindRow
<1>3. ASSUME NEW r \in Requests, Insert(r) PROVE UsageTypeOK'
  BY <1>3 DEF Insert
<1>4. ASSUME NEW r \in Requests, CountRows(r) PROVE UsageTypeOK'
  <2>1. CASE req' = [req EXCEPT ![r].pc = "running", ![r].countedIn = period]
    BY <1>4, <2>1 DEF CountRows
  <2>2. CASE req' = [req EXCEPT ![r].pc = "refused"]
    BY <1>4, <2>2 DEF CountRows
  <2> QED
    BY <1>4, <2>1, <2>2 DEF CountRows
<1>5. ASSUME NEW r \in Requests,
             (\E pc \in {"track", "done"} : EndAnalysis(r, pc)) \/ Break(r)
      PROVE  UsageTypeOK'
  <2>1. PICK pc \in {"track", "done", "failed"} : req' = [req EXCEPT ![r].pc = pc]
    BY <1>5 DEF EndAnalysis, Break
  <2> QED
    BY <1>5, <2>1 DEF EndAnalysis, Break
<1>6. ASSUME NEW r \in Requests, TrackFind(r) PROVE UsageTypeOK'
  <2>1. PICK pc \in {"trackInsert", "done", "failed"} :
          req' = [req EXCEPT ![r].pc = pc, ![r].month = period]
    BY <1>6 DEF TrackFind, FindRow
  <2> QED
    BY <1>6, <2>1 DEF TrackFind, FindRow
<1>7. ASSUME NEW r \in Requests, TrackInsert(r) PROVE UsageTypeOK'
  BY <1>7 DEF TrackInsert
<1>8. CASE NextPeriod
  BY <1>8 DEF NextPeriod
<1>9. CASE UNCHANGED usageVars
  BY <1>9 DEF usageVars
<1> QED
  BY <1>1, <1>2, <1>3, <1>4, <1>5, <1>6, <1>7, <1>8, <1>9 DEF NextUsage, UsageStep

\* A step that leaves the rows of the checks and the periods of the counts.
LEMMA NobodyLetIn ==
  ASSUME QuotaHolds,
         \A r \in Requests : req'[r].checkedIn = req[r].checkedIn
                               /\ req'[r].countedIn = req[r].countedIn
  PROVE  QuotaHolds'
<1>1. \A p \in Periods : LetIn(p)' = LetIn(p)
  BY DEF LetIn, Checked
<1> QED
  BY <1>1 DEF QuotaHolds

\* The count of a period bounds every set of requests with rows of it.
LEMMA UsageCovers ==
  ASSUME NEW p \in Periods, NEW S \in SUBSET Checked(p)
  PROVE  /\ Cardinality(S) \in Nat
         /\ MonthlyUsage(p) \in Nat
         /\ Cardinality(S) <= MonthlyUsage(p)
<1>1. Checked(p) \subseteq Requests /\ Tracked(p) \subseteq Requests
  BY DEF Checked, Tracked
<1>2. IsFiniteSet(Checked(p)) /\ IsFiniteSet(Tracked(p))
  BY <1>1, FS_Subset
<1>3. Cardinality(Checked(p)) \in Nat /\ Cardinality(Tracked(p)) \in Nat
  BY <1>2, FS_CardinalityType
<1>4. Cardinality(S) <= Cardinality(Checked(p))
  BY <1>2, FS_Subset
<1>5. Cardinality(S) \in Nat
  BY <1>2, FS_Subset, FS_CardinalityType
<1> QED
  BY <1>3, <1>4, <1>5 DEF MonthlyUsage

\* Letting a request in: it joins the ones with a row, which are all counted.
LEMMA CountStep ==
  ASSUME UsageTypeOK, QuotaHolds, NEW r \in Requests, CountRows(r) PROVE QuotaHolds'
<1>1. CASE req' = [req EXCEPT ![r].pc = "refused"]
  BY <1>1, NobodyLetIn DEF UsageTypeOK
<1>2. CASE /\ MonthlyUsage(period) < Limit
           /\ req' = [req EXCEPT ![r].pc = "running", ![r].countedIn = period]
  <2> SUFFICES ASSUME NEW p \in Periods PROVE Cardinality(LetIn(p)') <= Limit
    BY DEF QuotaHolds
  <2>1. /\ req'[r].checkedIn = req[r].checkedIn /\ req'[r].countedIn = period
        /\ \A q \in Requests : q # r => req'[q] = req[q]
    BY <1>2 DEF UsageTypeOK
  <2>2. req[r].countedIn = Never /\ period \in Periods
    BY DEF UsageTypeOK, CountRows
  <2>3. CASE p = period
    <3>1. LetIn(p)' \subseteq Checked(p)
      BY <2>1 DEF LetIn, Checked
    <3>2. /\ Cardinality(LetIn(p)') \in Nat /\ MonthlyUsage(p) \in Nat
          /\ Cardinality(LetIn(p)') <= MonthlyUsage(p)
      BY <3>1, UsageCovers
    <3> QED
      BY <1>2, <2>3, <3>2
  <2>4. CASE p # period
    <3>1. LetIn(p)' = LetIn(p)
      BY <2>1, <2>2, <2>4 DEF LetIn, Checked
    <3> QED
      BY <3>1 DEF QuotaHolds
  <2> QED
    BY <2>3, <2>4
<1> QED
  BY <1>1, <1>2 DEF CountRows

\* A new row is of a request that was not let in.
LEMMA InsertStep ==
  ASSUME UsageTypeOK, QuotaHolds, NEW r \in Requests, Insert(r) PROVE QuotaHolds'
<1>1. /\ req[r].countedIn = Never /\ req'[r].countedIn = Never
      /\ \A q \in Requests : q # r => req'[q] = req[q]
  BY DEF UsageTypeOK, Insert
<1>2. \A p \in Periods : LetIn(p)' = LetIn(p)
  BY <1>1 DEF LetIn, Checked
<1> QED
  BY <1>2 DEF QuotaHolds

LEMMA QuotaStep == UsageTypeOK /\ QuotaHolds /\ [NextUsage]_usageVars => QuotaHolds'
<1> SUFFICES ASSUME UsageTypeOK, QuotaHolds, [NextUsage]_usageVars PROVE QuotaHolds'
  OBVIOUS
<1>1. ASSUME NEW r \in Requests, Arrive(r) PROVE QuotaHolds'
  BY <1>1, NobodyLetIn DEF UsageTypeOK, Arrive
<1>2. ASSUME NEW r \in Requests, Find(r) PROVE QuotaHolds'
  <2>1. PICK pc \in Stations : req' = [req EXCEPT ![r].pc = pc, ![r].month = period]
    BY <1>2 DEF Find, FindRow, Stations
  <2> QED
    BY <2>1, NobodyLetIn DEF UsageTypeOK
<1>3. ASSUME NEW r \in Requests,
             (\E pc \in {"track", "done"} : EndAnalysis(r, pc)) \/ Break(r)
      PROVE  QuotaHolds'
  <2>1. PICK pc \in Stations : req' = [req EXCEPT ![r].pc = pc]
    BY <1>3 DEF EndAnalysis, Break, Stations
  <2> QED
    BY <2>1, NobodyLetIn DEF UsageTypeOK
<1>4. ASSUME NEW r \in Requests, TrackFind(r) PROVE QuotaHolds'
  <2>1. PICK pc \in Stations : req' = [req EXCEPT ![r].pc = pc, ![r].month = period]
    BY <1>4 DEF TrackFind, FindRow, Stations
  <2> QED
    BY <2>1, NobodyLetIn DEF UsageTypeOK
<1>5. ASSUME NEW r \in Requests, TrackInsert(r) PROVE QuotaHolds'
  BY <1>5, NobodyLetIn DEF UsageTypeOK, TrackInsert
<1>6. CASE NextPeriod \/ UNCHANGED usageVars
  BY <1>6, NobodyLetIn DEF NextPeriod, usageVars
<1> QED
  BY <1>1, <1>2, <1>3, <1>4, <1>5, <1>6, CountStep, InsertStep DEF NextUsage, UsageStep

LEMMA UsageInit == InitUsage => UsageTypeOK /\ QuotaHolds
<1> SUFFICES ASSUME InitUsage PROVE UsageTypeOK /\ QuotaHolds
  OBVIOUS
<1>0. \A c \in Candidates : Idle(c).pc = "idle" /\ Idle(c).checkedIn = 0 /\ Idle(c).countedIn = 0
  BY DEF Idle
<1>1. \A r \in Requests : \E c \in Candidates : req[r] = Idle(c)
  BY DEF InitUsage
<1>2. UsageTypeOK
  <2>1. req \in [Requests -> {Idle(c) : c \in Candidates}] /\ period = 1
    BY DEF InitUsage
  <2>2. \A c \in Candidates :
          Idle(c) \in [pc : Stations, candidate : Candidates,
                       month : Periods \cup {Never}, checkedIn : Periods \cup {Never},
                       trackedIn : Periods \cup {Never}, countedIn : Periods \cup {Never}]
    BY DEF Idle, Stations
  <2>3. \A r \in Requests : /\ req[r].pc = "idle"
                             /\ req[r].checkedIn = Never /\ req[r].countedIn = Never
    BY <1>0, <1>1
  <2>4. \A r \in Requests : \E c \in Candidates : req[r] = Idle(c)
    BY <1>1
  <2>5. period \in Periods
    BY <2>1
  <2> QED
    BY <2>1, <2>2, <2>3, <2>4, <2>5 DEF UsageTypeOK
<1>3. \A p \in Periods : LetIn(p) = {}
  <2>1. \A r \in Requests : req[r].checkedIn = 0
    BY <1>0, <1>1
  <2>2. ASSUME NEW p \in Periods PROVE Checked(p) = {}
    BY <2>1 DEF Checked
  <2> QED
    BY <2>2 DEF LetIn
<1> QED
  BY <1>2, <1>3, FS_EmptySet DEF QuotaHolds

\* To the quota every step of the composed system is one of its own.
LEMMA RequestsUseUsage == [NextRequests]_requestsVars => [NextUsage]_usageVars
<1> SUFFICES ASSUME [NextRequests]_requestsVars PROVE [NextUsage]_usageVars
  OBVIOUS
<1>1. ASSUME NEW a \in Analyses, CheckUser(a) PROVE NextUsage
  BY <1>1, AnalysesAreRequested DEF CheckUser, NextUsage, UsageStep
<1>2. ASSUME NEW a \in Analyses, StartTask(a) \/ WorkOn(a) \/ TaskHandleError(a)
      PROVE  UNCHANGED usageVars
  BY <1>2 DEF StartTask, WorkOn, TaskHandleError
<1>3. ASSUME NEW a \in Analyses,
             TaskPublish(a) \/ TaskCopy(a) \/ TaskFail(a) \/ TaskTrackFind(a)
               \/ TaskTrackInsert(a) \/ TaskRaise(a)
      PROVE  NextUsage
  BY <1>3, AnalysesAreRequested
     DEF TaskPublish, TaskCopy, TaskFail, TaskTrackFind, TaskTrackInsert, TaskRaise,
         NextUsage, UsageStep
<1>4. ASSUME NEW a \in Analyses, TaskStop(a) PROVE NextUsage \/ UNCHANGED usageVars
  BY <1>4, AnalysesAreRequested DEF TaskStop, NextUsage, UsageStep
<1>5. CASE MonthTurns
  BY <1>5 DEF MonthTurns, NextUsage
<1>6. CASE ResetContext
  BY <1>6 DEF ResetContext, usageVars
<1>7. ASSUME NEW r \in Requests, UsageStep(r) PROVE NextUsage
  BY <1>7 DEF NextUsage
<1>8. CASE UNCHANGED requestsVars
  BY <1>8 DEF requestsVars, usageVars
<1> QED
  BY <1>1, <1>2, <1>3, <1>4, <1>5, <1>6, <1>7, <1>8 DEF NextRequests, RequestTaskStep

\* However its requests and their tasks interleave, a user has no more new candidates
\* let in on the counts of a billing period than the limit of the tier.
THEOREM QuotaIsNeverOverrun == SpecRequests => [](UsageTypeOK /\ QuotaHolds)
<1>1. UsageTypeOK /\ QuotaHolds /\ [NextUsage]_usageVars => (UsageTypeOK /\ QuotaHolds)'
  BY TypeStep, QuotaStep
<1>2. InitRequests => UsageTypeOK /\ QuotaHolds
  BY UsageInit DEF InitRequests
<1> QED
  BY <1>1, <1>2, RequestsUseUsage, PTL DEF SpecRequests

-----------------------------------------------------------------------------
(* Nobody at work, or done, is missing from the count.  Rows are never     *)
(* deleted or moved, and a request has one when it is let in.              *)

HasRow(c, p) ==
  \E q \in Requests : /\ req[q].candidate = c
                      /\ req[q].checkedIn = p \/ req[q].trackedIn = p

LEMMA RowsAreCounted ==
  ASSUME NEW c, NEW p PROVE RowsOf(c, p) > 0 <=> HasRow(c, p)
<1> DEFINE A == {r \in Checked(p) : req[r].candidate = c}
           B == {r \in Tracked(p) : req[r].candidate = c}
<1>1. A \subseteq Requests /\ B \subseteq Requests
  BY DEF Checked, Tracked
<1>2. IsFiniteSet(A) /\ IsFiniteSet(B)
  BY <1>1, FS_Subset
<1>3. /\ Cardinality(A) \in Nat /\ Cardinality(B) \in Nat
      /\ Cardinality(A) = 0 <=> A = {}
      /\ Cardinality(B) = 0 <=> B = {}
  BY <1>2, FS_EmptySet, FS_CardinalityType
<1>4. RowsOf(c, p) > 0 <=> A # {} \/ B # {}
  BY <1>3 DEF RowsOf
<1> QED
  BY <1>4 DEF HasRow, Checked, Tracked

\* The station of a request and the rows there are.
RowsKept ==
  \A r \in Requests :
    /\ req[r].pc # "done" => req[r].trackedIn = Never
    /\ req[r].pc = "count" => req[r].checkedIn = req[r].month
    /\ req[r].pc \in {"running", "track", "done"} =>
         req[r].month # Never /\ HasRow(req[r].candidate, req[r].month)

\* A step of one request that loses no row.
LEMMA RowsStay ==
  ASSUME UsageTypeOK, RowsKept, NEW r \in Requests,
         \A q \in Requests \ {r} : req'[q] = req[q],
         req'[r].candidate = req[r].candidate,
         req[r].checkedIn # Never => req'[r].checkedIn = req[r].checkedIn,
         req[r].trackedIn # Never => req'[r].trackedIn = req[r].trackedIn,
         req'[r].pc # "done" => req'[r].trackedIn = Never,
         req'[r].pc = "count" => req'[r].checkedIn = req'[r].month,
         req'[r].pc \in {"running", "track", "done"} =>
           /\ req'[r].month # Never
           /\ \/ HasRow(req[r].candidate, req'[r].month)
              \/ req'[r].checkedIn = req'[r].month
              \/ req'[r].trackedIn = req'[r].month
  PROVE  RowsKept'
<1>1. ASSUME NEW c, NEW p, p # Never, HasRow(c, p) PROVE HasRow(c, p)'
  <2>1. PICK k \in Requests : /\ req[k].candidate = c
                              /\ req[k].checkedIn = p \/ req[k].trackedIn = p
    BY <1>1 DEF HasRow
  <2>2. /\ req'[k].candidate = c
        /\ req'[k].checkedIn = p \/ req'[k].trackedIn = p
    BY <1>1, <2>1
  <2> QED
    BY <2>2 DEF HasRow
<1>2. ASSUME NEW q \in Requests \ {r}, req'[q].pc \in {"running", "track", "done"}
      PROVE  req'[q].month # Never /\ HasRow(req[q].candidate, req[q].month)'
  BY <1>1, <1>2 DEF RowsKept
<1>3. ASSUME req'[r].pc \in {"running", "track", "done"}
      PROVE  req'[r].month # Never /\ HasRow(req[r].candidate, req[r].month)'
  <2>1. CASE HasRow(req[r].candidate, req'[r].month)
    <3>1. ASSUME NEW p, p # Never, HasRow(req[r].candidate, p)
          PROVE  \E q \in Requests : /\ req'[q].candidate = req[r].candidate
                                     /\ req'[q].checkedIn = p \/ req'[q].trackedIn = p
      BY <1>1, <3>1 DEF HasRow
    <3> QED
      BY <1>3, <2>1, <3>1 DEF HasRow
  <2>2. CASE req'[r].checkedIn = req'[r].month \/ req'[r].trackedIn = req'[r].month
    BY <1>3, <2>2 DEF HasRow
  <2> QED
    BY <1>3, <2>1, <2>2
<1>4. ASSUME NEW q \in Requests PROVE
        /\ req'[q].pc # "done" => req'[q].trackedIn = Never
        /\ req'[q].pc = "count" => req'[q].checkedIn = req'[q].month
  <2>1. CASE q = r
    BY <2>1
  <2>2. CASE q # r
    BY <2>2 DEF RowsKept
  <2> QED
    BY <2>1, <2>2
<1> QED
  BY <1>2, <1>3, <1>4 DEF RowsKept

\* What a look for the row of the candidate leads to.
LEMMA LookStep ==
  ASSUME UsageTypeOK, RowsKept, NEW r \in Requests, NEW at, NEW absent, NEW present,
         FindRow(r, at, absent, present), at # "done",
         absent \in {"insert", "trackInsert"}, present \in {"running", "done"}
  PROVE  RowsKept'
<1>1. PICK pc \in {absent, present, "failed"} :
        /\ req' = [req EXCEPT ![r].pc = pc, ![r].month = period]
        /\ pc = present => RowsOf(req[r].candidate, period) = 1
  BY DEF FindRow
<1>2. /\ \A q \in Requests \ {r} : req'[q] = req[q]
      /\ req'[r] = [req[r] EXCEPT !.pc = pc, !.month = period]
  BY <1>1 DEF UsageTypeOK
<1>3. /\ req'[r].pc = pc /\ req'[r].month = period
      /\ req'[r].candidate = req[r].candidate
      /\ req'[r].checkedIn = req[r].checkedIn /\ req'[r].trackedIn = req[r].trackedIn
  BY <1>2 DEF UsageTypeOK
<1>4. period # Never /\ req[r].trackedIn = Never
  BY DEF UsageTypeOK, RowsKept, FindRow
<1>5. pc = present => HasRow(req[r].candidate, period)
  BY <1>1, RowsAreCounted
<1>6. pc # "count" /\ (pc \in {"running", "track", "done"} => pc = present)
  BY <1>1
<1> QED
  BY <1>2, <1>3, <1>4, <1>5, <1>6, RowsStay

LEMMA RowsStep == UsageTypeOK /\ RowsKept /\ [NextUsage]_usageVars => RowsKept'
<1> SUFFICES ASSUME UsageTypeOK, RowsKept, [NextUsage]_usageVars PROVE RowsKept'
  OBVIOUS
<1>1. ASSUME NEW r \in Requests, Arrive(r) PROVE RowsKept'
  <2>1. /\ \A q \in Requests \ {r} : req'[q] = req[q]
        /\ req'[r] = [req[r] EXCEPT !.pc = "find"]
    BY <1>1 DEF Arrive, UsageTypeOK
  <2> QED
    BY <1>1, <2>1, RowsStay DEF Arrive, UsageTypeOK, RowsKept
<1>2. ASSUME NEW r \in Requests, Find(r) \/ TrackFind(r) PROVE RowsKept'
  BY <1>2, LookStep DEF Find, TrackFind
<1>3. ASSUME NEW r \in Requests, Insert(r) PROVE RowsKept'
  <2>1. /\ \A q \in Requests \ {r} : req'[q] = req[q]
        /\ req'[r] = [req[r] EXCEPT !.pc = "count", !.checkedIn = req[r].month]
    BY <1>3 DEF Insert, UsageTypeOK
  <2> QED
    BY <1>3, <2>1, RowsStay DEF Insert, UsageTypeOK, RowsKept
<1>4. ASSUME NEW r \in Requests, CountRows(r) PROVE RowsKept'
  <2>1. PICK pc \in {"running", "refused"}, p \in {period, req[r].countedIn} :
          req' = [req EXCEPT ![r] = [req[r] EXCEPT !.pc = pc, !.countedIn = p]]
    BY <1>4 DEF CountRows, UsageTypeOK
  <2>2. /\ \A q \in Requests \ {r} : req'[q] = req[q]
        /\ req'[r] = [req[r] EXCEPT !.pc = pc, !.countedIn = p]
    BY <2>1 DEF UsageTypeOK
  <2>3. /\ req[r].pc = "count" /\ req[r].month # Never
        /\ req[r].checkedIn = req[r].month /\ req[r].trackedIn = Never
    BY <1>4 DEF CountRows, UsageTypeOK, RowsKept
  <2>4. /\ req'[r].pc = pc /\ req'[r].month = req[r].month
        /\ req'[r].candidate = req[r].candidate
        /\ req'[r].checkedIn = req[r].checkedIn /\ req'[r].trackedIn = req[r].trackedIn
    BY <2>2 DEF UsageTypeOK
  <2> QED
    BY <2>2, <2>3, <2>4, RowsStay
<1>5. ASSUME NEW r \in Requests,
             (\E pc \in {"track", "done"} : EndAnalysis(r, pc)) \/ Break(r)
      PROVE  RowsKept'
  <2>1. PICK pc \in {"track", "done", "failed"} : req' = [req EXCEPT ![r].pc = pc]
    BY <1>5 DEF EndAnalysis, Break
  <2>2. /\ \A q \in Requests \ {r} : req'[q] = req[q]
        /\ req'[r] = [req[r] EXCEPT !.pc = pc]
    BY <2>1 DEF UsageTypeOK
  <2>3. /\ req'[r].pc = pc /\ req'[r].month = req[r].month
        /\ req'[r].candidate = req[r].candidate
        /\ req'[r].checkedIn = req[r].checkedIn /\ req'[r].trackedIn = req[r].trackedIn
    BY <2>2 DEF UsageTypeOK
  <2>4. /\ req[r].trackedIn = Never
        /\ pc # "failed" => req[r].month # Never /\ HasRow(req[r].candidate, req[r].month)
    <3>1. pc # "failed" => req[r].pc = "running"
      BY <1>5, <2>2, <2>3 DEF EndAnalysis, Break, UsageTypeOK
    <3>2. req[r].pc # "done"
      BY <1>5 DEF EndAnalysis, Break
    <3> QED
      BY <3>1, <3>2 DEF RowsKept
  <2> QED
    BY <2>2, <2>3, <2>4, RowsStay
<1>6. ASSUME NEW r \in Requests, TrackInsert(r) PROVE RowsKept'
  <2>1. /\ \A q \in Requests \ {r} : req'[q] = req[q]
        /\ req'[r] = [req[r] EXCEPT !.pc = "done", !.trackedIn = req[r].month]
    BY <1>6 DEF TrackInsert, UsageTypeOK
  <2>2. req[r].trackedIn = Never /\ req[r].month # Never
    BY <1>6 DEF TrackInsert, RowsKept, UsageTypeOK
  <2>3. /\ req'[r].pc = "done" /\ req'[r].month = req[r].month
        /\ req'[r].candidate = req[r].candidate
        /\ req'[r].checkedIn = req[r].checkedIn /\ req'[r].trackedIn = req[r].month
    BY <2>1 DEF UsageTypeOK
  <2> QED
    BY <2>1, <2>2, <2>3, RowsStay
<1>7. CASE NextPeriod \/ UNCHANGED usageVars
  BY <1>7 DEF NextPeriod, usageVars, RowsKept, HasRow
<1> QED
  BY <1>1, <1>2, <1>3, <1>4, <1>5, <1>6, <1>7 DEF NextUsage, UsageStep

\* The usage of a month counts the candidate of every analysis under way or done:
\* a request is let in with a row of its own or the row of another one.
THEOREM EverybodyIsCounted == SpecRequests => []EveryoneIsCounted
<1>1. InitUsage => RowsKept
  <2> SUFFICES ASSUME InitUsage PROVE RowsKept
    OBVIOUS
  <2>1. \A c \in Candidates : Idle(c).pc = "idle" /\ Idle(c).trackedIn = Never
    BY DEF Idle
  <2>2. \A r \in Requests : req[r].pc = "idle" /\ req[r].trackedIn = Never
    BY <2>1 DEF InitUsage
  <2> QED
    BY <2>2 DEF RowsKept
<1>2. RowsKept => EveryoneIsCounted
  BY RowsAreCounted DEF RowsKept, EveryoneIsCounted
<1>3. InitRequests => UsageTypeOK /\ RowsKept
  BY <1>1, UsageInit DEF InitRequests
<1> QED
  BY <1>1, <1>2, <1>3, TypeStep, RowsStep, RequestsUseUsage, PTL DEF SpecRequests
=============================================================================
