----------------------- MODULE AnalysisRequestsProofs -----------------------
(***************************************************************************)
(* The cancellation registry, and the handlers of /analyze and /batch over *)
(* it, for any number of requests, batches and users and any limits: the   *)
(* registry's dictionaries agree, work is registered until it ends or is   *)
(* cancelled, nothing that is over is, deep dives overrun their quota by   *)
(* fewer than pass its check at once, and history and answer of a batch    *)
(* agree and stay.                                                         *)
(***************************************************************************)
EXTENDS AnalysisRoutes, FiniteSetTheorems, TLAPS

-----------------------------------------------------------------------------
(* The registry.                                                           *)

CancelInv == RunningTypeOK /\ RegistryConsistent

\* What agreement means entry by entry.
LEMMA IndexPointwise ==
  ASSUME RegistryConsistent
  PROVE  /\ DOMAIN userTasks = {running[t].user : t \in DOMAIN running}
         /\ \A u \in DOMAIN userTasks :
              userTasks[u] = {t \in DOMAIN running : running[t].user = u}
  BY DEF RegistryConsistent, IndexOf

\* Registering an id for the user it was made for keeps the agreement.
LEMMA RegisterKeeps ==
  ASSUME CancelInv, NEW t \in TaskIds, RegisterTask(t, OwnerOf[t])
  PROVE  CancelInv'
  <1> DEFINE u == OwnerOf[t]
  <1>1. u \in Users
    BY OwnerOfType
  <1>2. RunningTypeOK'
    BY <1>1 DEF CancelInv, RunningTypeOK, RegisterTask
  <1>3. /\ DOMAIN running' = DOMAIN running \cup {t}
        /\ DOMAIN userTasks' = DOMAIN userTasks \cup {u}
        /\ running'[t].user = u
        /\ \A s \in DOMAIN running : running'[s].user = running[s].user
    BY DEF CancelInv, RunningTypeOK, RegisterTask
  <1>4. DOMAIN userTasks' = {running'[s].user : s \in DOMAIN running'}
    <2>1. DOMAIN userTasks = {running[s].user : s \in DOMAIN running}
      BY IndexPointwise DEF CancelInv
    <2>2. QED
      BY <1>3, <2>1
  <1>5. ASSUME NEW v \in DOMAIN userTasks'
        PROVE  userTasks'[v] = {s \in DOMAIN running' : running'[s].user = v}
    <2>1. TasksOf(v) = {s \in DOMAIN running : running[s].user = v}
      BY IndexPointwise DEF CancelInv, TasksOf
    <2>2. userTasks'[v] = TasksOf(v) \cup (IF v = u THEN {t} ELSE {})
      BY <1>5 DEF RegisterTask
    <2>3. t \in DOMAIN running => running[t].user = u
      BY DEF CancelInv, RunningTypeOK
    <2>4. CASE v = u
      BY <1>3, <2>1, <2>2, <2>3, <2>4
    <2>5. CASE v # u
      BY <1>3, <2>1, <2>2, <2>5
    <2>6. QED
      BY <2>4, <2>5
  <1>6. userTasks' = IndexOf(running')
    <2>1. userTasks' = [v \in DOMAIN userTasks' |-> userTasks'[v]]
      BY DEF RegisterTask
    <2>2. QED
      BY <1>4, <1>5, <2>1 DEF IndexOf
  <1>7. QED
    BY <1>2, <1>6 DEF CancelInv, RegistryConsistent

\* Removing any registered ids keeps it.
LEMMA CleanupKeeps ==
  ASSUME CancelInv, NEW ts, ts \subseteq DOMAIN running, Cleanup(ts)
  PROVE  CancelInv'
  <1> DEFINE gone(v) == {t \in ts : running[t].user = v}
  <1>1. RunningTypeOK'
    BY DEF CancelInv, RunningTypeOK, Cleanup
  <1>2. \A v \in DOMAIN userTasks :
          userTasks[v] = {t \in DOMAIN running : running[t].user = v}
    BY IndexPointwise DEF CancelInv
  <1>3. DOMAIN running' = DOMAIN running \ ts
        /\ \A s \in DOMAIN running' : running'[s] = running[s]
    BY DEF Cleanup
  <1>4. DOMAIN userTasks' = {v \in DOMAIN userTasks : ~(userTasks[v] \subseteq gone(v))}
    BY DEF Cleanup
  <1>5. DOMAIN userTasks' = {running'[s].user : s \in DOMAIN running'}
    <2>1. ASSUME NEW v \in DOMAIN userTasks'
          PROVE  v \in {running'[s].user : s \in DOMAIN running'}
      <3>1. PICK s \in userTasks[v] : s \notin gone(v)
        BY <1>4
      <3>2. s \in DOMAIN running' /\ running'[s].user = v
        BY <1>2, <1>3, <1>4, <3>1
      <3>3. QED
        BY <3>2
    <2>2. ASSUME NEW s \in DOMAIN running'
          PROVE  running'[s].user \in DOMAIN userTasks'
      <3>1. s \in DOMAIN running /\ s \notin ts /\ running'[s] = running[s]
        BY <1>3
      <3>2. running[s].user \in DOMAIN userTasks
        BY <3>1, IndexPointwise DEF CancelInv
      <3>3. QED
        BY <1>2, <1>4, <3>1, <3>2
    <2>3. QED
      BY <2>1, <2>2
  <1>6. ASSUME NEW v \in DOMAIN userTasks'
        PROVE  userTasks'[v] = {s \in DOMAIN running' : running'[s].user = v}
    <2>1. userTasks'[v] = userTasks[v] \ gone(v)
      BY DEF Cleanup
    <2>2. QED
      BY <1>2, <1>3, <1>4, <2>1
  <1>7. userTasks' = IndexOf(running')
    BY <1>5, <1>6 DEF IndexOf, Cleanup
  <1>8. QED
    BY <1>1, <1>7 DEF CancelInv, RegistryConsistent

\* A deadline that passes changes no entry's user.
LEMMA DeadlineKeeps ==
  ASSUME CancelInv, NEW t \in TaskIds, PassDeadline(t)
  PROVE  CancelInv'
  <1>1. RunningTypeOK'
    BY DEF CancelInv, RunningTypeOK, PassDeadline
  <1>2. DOMAIN running' = DOMAIN running
        /\ \A s \in DOMAIN running : running'[s].user = running[s].user
    BY DEF CancelInv, RunningTypeOK, PassDeadline
  <1>3. IndexOf(running') = IndexOf(running)
    BY <1>2 DEF IndexOf
  <1>4. QED
    BY <1>1, <1>3 DEF CancelInv, RegistryConsistent, PassDeadline

LEMMA CancelInit == InitCancellation => CancelInv
  BY DEF InitCancellation, CancelInv, RunningTypeOK, RegistryConsistent, IndexOf

LEMMA CancelStep == CancelInv /\ [NextCancellation]_cancelVars => CancelInv'
  <1> SUFFICES ASSUME CancelInv, [NextCancellation]_cancelVars
               PROVE  CancelInv'
    OBVIOUS
  <1>1. ASSUME NEW t \in TaskIds, RegisterTask(t, OwnerOf[t])
        PROVE  CancelInv'
    BY <1>1, RegisterKeeps
  <1>2. ASSUME NEW t \in TaskIds, NEW u \in Users, CancelTask(t, u)
        PROVE  CancelInv'
    BY <1>2, CleanupKeeps DEF CancelTask, CanCancel
  <1>3. ASSUME NEW t \in TaskIds, CompleteTask(t)
        PROVE  CancelInv'
    BY <1>3, CleanupKeeps DEF CompleteTask
  <1>4. CASE CleanupExpiredTasks
    BY <1>4, CleanupKeeps DEF CleanupExpiredTasks, Expired
  <1>5. ASSUME NEW t \in TaskIds, PassDeadline(t)
        PROVE  CancelInv'
    BY <1>5, DeadlineKeeps
  <1>6. CASE UNCHANGED cancelVars
    BY <1>6 DEF cancelVars, CancelInv, RunningTypeOK, RegistryConsistent, IndexOf
  <1>7. QED
    BY <1>1, <1>2, <1>3, <1>4, <1>5, <1>6 DEF NextCancellation

-----------------------------------------------------------------------------
\* At every moment _user_tasks lists exactly the users with a registered task,
\* each with exactly their tasks (services/cancellation_service.py).
THEOREM RegistryIsConsistent == SpecCancellation => [](RunningTypeOK /\ RegistryConsistent)
  BY CancelInit, CancelStep, PTL DEF SpecCancellation, CancelInv

-----------------------------------------------------------------------------
(* The handlers.                                                           *)

USE RequestsFinite, OwnerOfType, IdOfType, PaidType, DiveLimitType

\* The history covers the requests past the check, and with no deep dive to give
\* nobody passes it.
PeakKept == \A u \in Paid : /\ Cardinality(Past(u)) <= peak[u]
                            /\ Past(u) # {} => DiveLimit > 0

RequestInv == TypeOK /\ RegistryConsistent /\ PeakKept /\ OverrunIsBounded

LEMMA SetsFinite ==
  ASSUME TypeOK, NEW u
  PROVE  /\ IsFiniteSet(Past(u)) /\ Cardinality(Past(u)) \in Nat
         /\ IsFiniteSet(DivesOf(u)) /\ Cardinality(DivesOf(u)) \in Nat
<1>1. Past(u) \subseteq Requests /\ DivesOf(u) \subseteq Requests
  BY DEF TypeOK, Past, DivesOf
<1> QED
  BY <1>1, FS_Subset, FS_CardinalityType

\* A step after which no paying user has more requests past the check, nor more deep
\* dives, keeps the bound.
LEMMA FewerKeeps ==
  ASSUME RequestInv, TypeOK',
         \A u \in Paid : /\ Past(u)' \subseteq Past(u) /\ DivesOf(u)' \subseteq DivesOf(u)
                         /\ peak'[u] = peak[u]
  PROVE  PeakKept' /\ OverrunIsBounded'
<1>1. ASSUME NEW u \in Paid
      PROVE  LET used == Cardinality(DivesOf(u)') + Cardinality(Past(u)')
             IN /\ Cardinality(Past(u)') <= peak'[u]
                /\ Past(u)' # {} => DiveLimit > 0
                /\ used <= DiveLimit \/ used < DiveLimit + peak'[u]
  <2>1. /\ Cardinality(Past(u)') <= Cardinality(Past(u))
        /\ Cardinality(DivesOf(u)') <= Cardinality(DivesOf(u))
    BY <1>1, SetsFinite, FS_Subset DEF RequestInv
  <2>2. /\ Cardinality(Past(u)) \in Nat /\ Cardinality(Past(u)') \in Nat
        /\ Cardinality(DivesOf(u)) \in Nat /\ Cardinality(DivesOf(u)') \in Nat
        /\ peak[u] \in Nat
    BY <1>1, SetsFinite, FS_Subset, FS_CardinalityType DEF RequestInv, TypeOK
  <2>3. Past(u)' # {} => Past(u) # {}
    BY <1>1
  <2>4. LET used == Cardinality(DivesOf(u)) + Cardinality(Past(u))
        IN used <= DiveLimit \/ used < DiveLimit + peak[u]
    BY <1>1 DEF RequestInv, OverrunIsBounded
  <2>5. Cardinality(Past(u)) <= peak[u] /\ (Past(u) # {} => DiveLimit > 0)
    BY <1>1 DEF RequestInv, PeakKept
  <2> QED
    BY <1>1, <2>1, <2>2, <2>3, <2>4, <2>5
<1> QED
  BY <1>1 DEF PeakKept, OverrunIsBounded

\* complete_task is a step of the registry or, for an id it does not know, none.
LEMMA CompleteIsRegistryStep ==
  ASSUME CancelInv, NEW t \in TaskIds, CompleteTask(t)
  PROVE  [NextCancellation]_cancelVars
<1>1. CASE t \in DOMAIN running
  BY <1>1 DEF NextCancellation
<1>2. CASE t \notin DOMAIN running
  <2>1. Cleanup({})
    BY <1>2 DEF CompleteTask
  <2>2. running' = [s \in DOMAIN running |-> running[s]]
    BY <2>1 DEF Cleanup
  <2>3. \A u \in DOMAIN userTasks : userTasks[u] # {}
    BY DEF CancelInv, RegistryConsistent, IndexOf
  <2>4. userTasks' = [u \in DOMAIN userTasks |-> userTasks[u]]
    <3>1. {v \in DOMAIN userTasks : ~(userTasks[v] \subseteq {})} = DOMAIN userTasks
      BY <2>3
    <3>2. userTasks' = [u \in {v \in DOMAIN userTasks : ~(userTasks[v] \subseteq {})} |-> userTasks[u]]
      BY <2>1 DEF Cleanup
    <3> QED
      BY <3>1, <3>2
  <2>5. running = [s \in DOMAIN running |-> running[s]]
        /\ userTasks = [u \in DOMAIN userTasks |-> userTasks[u]]
    BY DEF CancelInv, RunningTypeOK, RegistryConsistent, IndexOf
  <2> QED
    BY <2>2, <2>4, <2>5 DEF cancelVars
<1> QED
  BY <1>1, <1>2

\* What a step of a request does to the registry: one of its operations, or nothing.
LEMMA RegistryStep ==
  ASSUME RequestInv, [Next]_requestVars
  PROVE  [NextCancellation]_cancelVars
<1>i. CancelInv
  BY DEF RequestInv, TypeOK, CancelInv
<1>r. ASSUME NEW r \in Requests, Register(r) PROVE NextCancellation
  BY <1>r DEF Register, UserOf, NextCancellation
<1>1. ASSUME NEW r \in Requests, LookUp(r) \/ Work(r) \/ Track(r)
      PROVE  UNCHANGED cancelVars
  BY <1>1 DEF LookUp, Work, Track, cancelVars
<1>2. ASSUME NEW r \in Requests, Validate(r) PROVE [NextCancellation]_cancelVars
  BY <1>2, <1>r DEF Validate, RaiseUnbound, cancelVars
<1>3. ASSUME NEW r \in Requests, CheckQuota(r) PROVE [NextCancellation]_cancelVars
  BY <1>3, <1>r DEF CheckQuota, RaiseUnbound, cancelVars
<1>4. ASSUME NEW r \in Requests, Fail(r) \/ Finish(r) PROVE [NextCancellation]_cancelVars
  BY <1>4, <1>i, CompleteIsRegistryStep DEF Fail, Finish
<1>5. ASSUME NEW t \in TaskIds, NEW u \in Users, Cancel(t, u) PROVE NextCancellation
  BY <1>5 DEF Cancel, NextCancellation
<1>6. ASSUME NEW t \in TaskIds, PassCancelDeadline(t) PROVE NextCancellation
  BY <1>6 DEF PassCancelDeadline, NextCancellation
<1>7. CASE NewMonth \/ UNCHANGED requestVars
  BY <1>7 DEF NewMonth, requestVars, cancelVars
<1> QED
  BY <1>1, <1>2, <1>3, <1>4, <1>5, <1>6, <1>7 DEF Next, RequestStep

LEMMA RegistryKept ==
  ASSUME RequestInv, [Next]_requestVars PROVE CancelInv'
<1>1. CancelInv /\ [NextCancellation]_cancelVars
  BY RegistryStep DEF RequestInv, TypeOK, CancelInv
<1> QED
  BY <1>1, CancelStep

LEMMA TypeStep ==
  ASSUME RequestInv, [Next]_requestVars PROVE TypeOK'
<1>0. RunningTypeOK'
  BY RegistryKept DEF CancelInv
<1> SUFFICES /\ place' \in [Requests -> Places]
             /\ dives' \subseteq Requests /\ cancelled' \subseteq Requests
             /\ peak' \in [Paid -> Nat]
  BY <1>0 DEF TypeOK
<1> USE DEF RequestInv, TypeOK, Places, To
<1>c. \A u \in Paid : place' \in [Requests -> Places] => Cardinality(Past(u)') \in Nat
  <2>1. \A u \in Paid : IsFiniteSet(Past(u)')
    BY FS_Subset DEF Past
  <2> QED
    BY <2>1, FS_CardinalityType
<1>p. ASSUME Peaks, place' \in [Requests -> Places] PROVE peak' \in [Paid -> Nat]
  BY <1>c, <1>p DEF Peaks
<1>1. ASSUME NEW r \in Requests, LookUp(r) \/ Work(r)
      PROVE  TypeOK'
  BY <1>0, <1>1 DEF LookUp, Work
<1>2. ASSUME NEW r \in Requests, Validate(r) PROVE TypeOK'
  BY <1>0, <1>2, <1>p DEF Validate, RaiseUnbound, Register
<1>3. ASSUME NEW r \in Requests, CheckQuota(r) PROVE TypeOK'
  BY <1>0, <1>3, <1>p DEF CheckQuota, RaiseUnbound, Register
<1>4. ASSUME NEW r \in Requests, Fail(r) \/ Finish(r) PROVE TypeOK'
  BY <1>0, <1>4 DEF Fail, Finish
<1>5. ASSUME NEW r \in Requests, Track(r) PROVE TypeOK'
  BY <1>0, <1>5 DEF Track
<1>6. ASSUME NEW t \in TaskIds, NEW u \in Users, Cancel(t, u) PROVE TypeOK'
  BY <1>0, <1>6 DEF Cancel
<1>7. ASSUME NEW t \in TaskIds, PassCancelDeadline(t) PROVE TypeOK'
  BY <1>0, <1>7 DEF PassCancelDeadline
<1>8. CASE NewMonth
  <2>1. \A u \in Paid : Cardinality(Past(u)) \in Nat
    BY SetsFinite
  <2> QED
    BY <1>0, <1>8, <2>1 DEF NewMonth
<1>9. CASE UNCHANGED requestVars
  BY <1>0, <1>9 DEF requestVars
<1> QED
  BY <1>1, <1>2, <1>3, <1>4, <1>5, <1>6, <1>7, <1>8, <1>9 DEF Next, RequestStep

\* A request that passes the check found a deep dive left, and the history counts it.
LEMMA PassingKeeps ==
  ASSUME RequestInv, TypeOK', NEW r \in Requests, Register(r), place[r] = "quota",
         Cardinality(DivesOf(UserOf(r))) < DiveLimit
  PROVE  PeakKept' /\ OverrunIsBounded'
<1>1. \A u \in Paid : DivesOf(u)' = DivesOf(u)
  BY DEF Register, DivesOf
<1>2. ASSUME NEW u \in Paid
      PROVE  LET used == Cardinality(DivesOf(u)') + Cardinality(Past(u)')
             IN /\ Cardinality(Past(u)') <= peak'[u]
                /\ Past(u)' # {} => DiveLimit > 0
                /\ used <= DiveLimit \/ used < DiveLimit + peak'[u]
  <2>1. /\ Cardinality(Past(u)) \in Nat /\ Cardinality(DivesOf(u)) \in Nat
        /\ peak[u] \in Nat /\ peak'[u] \in Nat
    BY <1>2, SetsFinite DEF RequestInv, TypeOK
  <2>n. Cardinality(Past(u)') \in Nat
    <3>1. IsFiniteSet(Past(u)')
      BY FS_Subset DEF Past
    <3> QED
      BY <3>1, FS_CardinalityType
  <2>2. /\ Cardinality(Past(u)') <= peak'[u]
        /\ Cardinality(Past(u)') <= peak[u] => peak'[u] = peak[u]
    BY <1>2, <2>1, <2>n DEF Register, Peaks
  <2>3. Cardinality(Past(u)) <= peak[u] /\ (Past(u) # {} => DiveLimit > 0)
    BY <1>2 DEF RequestInv, PeakKept
  <2>4. CASE u = UserOf(r)
    <3>1. Cardinality(DivesOf(u)') < DiveLimit
      BY <1>1, <1>2, <2>4
    <3> QED
      BY <1>1, <1>2, <2>1, <2>n, <2>2, <3>1
  <2>5. CASE u # UserOf(r)
    <3>1. Past(u)' = Past(u)
      BY <2>5 DEF RequestInv, TypeOK, Register, To, Past, UserOf
    <3>2. LET used == Cardinality(DivesOf(u)) + Cardinality(Past(u))
          IN used <= DiveLimit \/ used < DiveLimit + peak[u]
      BY <1>2 DEF RequestInv, OverrunIsBounded
    <3> QED
      BY <1>1, <1>2, <2>1, <2>n, <2>2, <2>3, <3>1, <3>2
  <2> QED
    BY <2>4, <2>5
<1> QED
  BY <1>2 DEF PeakKept, OverrunIsBounded

\* Counting a deep dive takes its request out of those to come.
LEMMA TrackKeeps ==
  ASSUME RequestInv, TypeOK', NEW r \in Requests, Track(r)
  PROVE  PeakKept' /\ OverrunIsBounded'
<1>1. ASSUME NEW u \in Paid
      PROVE  LET used == Cardinality(DivesOf(u)') + Cardinality(Past(u)')
             IN /\ Cardinality(Past(u)') <= peak'[u]
                /\ Past(u)' # {} => DiveLimit > 0
                /\ used <= DiveLimit \/ used < DiveLimit + peak'[u]
  <2>1. /\ Cardinality(Past(u)) \in Nat /\ Cardinality(DivesOf(u)) \in Nat
        /\ IsFiniteSet(Past(u)) /\ IsFiniteSet(DivesOf(u))
        /\ peak[u] \in Nat /\ peak'[u] = peak[u]
    BY <1>1, SetsFinite DEF RequestInv, TypeOK, Track
  <2>2. LET used == Cardinality(DivesOf(u)) + Cardinality(Past(u))
        IN used <= DiveLimit \/ used < DiveLimit + peak[u]
    BY <1>1 DEF RequestInv, OverrunIsBounded
  <2>p. Cardinality(Past(u)) <= peak[u] /\ (Past(u) # {} => DiveLimit > 0)
    BY <1>1 DEF RequestInv, PeakKept
  <2>3. CASE u = UserOf(r)
    <3>1. r \in Past(u) /\ Past(u)' = Past(u) \ {r}
      BY <2>3 DEF RequestInv, TypeOK, Track, To, Past
    <3>2. Cardinality(Past(u)') = Cardinality(Past(u)) - 1
      BY <2>1, <3>1, FS_RemoveElement
    <3>3. DivesOf(u)' \subseteq DivesOf(u) \cup {r}
      BY DEF Track, DivesOf
    <3>4. /\ IsFiniteSet(DivesOf(u) \cup {r})
          /\ \/ Cardinality(DivesOf(u) \cup {r}) = Cardinality(DivesOf(u))
             \/ Cardinality(DivesOf(u) \cup {r}) = Cardinality(DivesOf(u)) + 1
      BY <2>1, FS_AddElement
    <3>5. /\ Cardinality(DivesOf(u)') <= Cardinality(DivesOf(u) \cup {r})
          /\ Cardinality(DivesOf(u)') \in Nat
      BY <3>3, <3>4, FS_Subset, FS_CardinalityType
    <3>6. Cardinality(DivesOf(u)') <= Cardinality(DivesOf(u)) + 1
      BY <2>1, <3>4, <3>5
    <3>7. DiveLimit > 0
      BY <2>p, <3>1
    <3> QED
      BY <2>1, <2>2, <2>p, <3>2, <3>5, <3>6, <3>7
  <2>4. CASE u # UserOf(r)
    <3>1. Past(u)' = Past(u) /\ DivesOf(u)' = DivesOf(u)
      BY <2>4 DEF RequestInv, TypeOK, Track, To, Past, DivesOf
    <3> QED
      BY <2>1, <2>2, <2>p, <3>1
  <2> QED
    BY <2>3, <2>4
<1> QED
  BY <1>1 DEF PeakKept, OverrunIsBounded

\* A new month begins with no deep dives and the requests that are under way.
LEMMA MonthKeeps ==
  ASSUME RequestInv, NewMonth
  PROVE  PeakKept' /\ OverrunIsBounded'
<1>1. ASSUME NEW u \in Paid
      PROVE  LET used == Cardinality(DivesOf(u)') + Cardinality(Past(u)')
             IN /\ Cardinality(Past(u)') <= peak'[u]
                /\ Past(u)' # {} => DiveLimit > 0
                /\ used <= DiveLimit \/ used < DiveLimit + peak'[u]
  <2>1. /\ Past(u)' = Past(u) /\ DivesOf(u)' = {} /\ Cardinality(DivesOf(u)') = 0
        /\ peak'[u] = Cardinality(Past(u)) /\ Cardinality(Past(u)) \in Nat
    BY <1>1, SetsFinite, FS_EmptySet DEF RequestInv, NewMonth, Past, DivesOf
  <2>2. Past(u) # {} => DiveLimit > 0
    BY <1>1 DEF RequestInv, PeakKept
  <2>3. Past(u) = {} => Cardinality(Past(u)) = 0
    BY FS_EmptySet
  <2> QED
    BY <2>1, <2>2, <2>3
<1> QED
  BY <1>1 DEF PeakKept, OverrunIsBounded

LEMMA BoundsStep ==
  ASSUME RequestInv, [Next]_requestVars PROVE PeakKept' /\ OverrunIsBounded'
<1>t. TypeOK /\ TypeOK'
  BY TypeStep DEF RequestInv
<1> DEFINE Kept == PeakKept' /\ OverrunIsBounded'
           Fewer == \A u \in Paid : /\ Past(u)' \subseteq Past(u) /\ DivesOf(u)' \subseteq DivesOf(u)
                                    /\ peak'[u] = peak[u]
<1>f. Fewer => Kept
  BY <1>t, FewerKeeps
<1>r. ASSUME NEW r \in Requests, UserOf(r) \notin Paid, Register(r) PROVE Fewer
  <2>1. ASSUME NEW u \in Paid PROVE Past(u)' = Past(u) /\ DivesOf(u)' = DivesOf(u)
    BY <1>t, <1>r, <2>1 DEF Register, TypeOK, To, Past, DivesOf, UserOf
  <2>2. ASSUME NEW u \in Paid PROVE peak'[u] = peak[u]
    <3>1. Cardinality(Past(u)) <= peak[u] /\ Cardinality(Past(u)) \in Nat /\ peak[u] \in Nat
      BY <1>t, <2>2, SetsFinite DEF RequestInv, PeakKept, TypeOK
    <3> QED
      BY <1>r, <2>1, <3>1 DEF Register, Peaks
  <2> QED
    BY <2>1, <2>2
<1>2. ASSUME NEW r \in Requests, Validate(r) PROVE Fewer
  <2>1. CASE UserOf(r) \notin Paid /\ Register(r)
    BY <1>r, <2>1
  <2>2. CASE RaiseUnbound(r) \/ (To(r, "quota") /\ UNCHANGED <<running, userTasks, dives, cancelled, peak>>)
    BY <1>t, <2>2 DEF RaiseUnbound, TypeOK, To, Past, DivesOf
  <2> QED
    BY <1>2, <2>1, <2>2 DEF Validate
<1>3. ASSUME NEW r \in Requests, CheckQuota(r) PROVE Kept
  <2>1. CASE Cardinality(DivesOf(UserOf(r))) < DiveLimit /\ Register(r)
    BY <1>t, <1>3, <2>1, PassingKeeps DEF CheckQuota
  <2>2. CASE RaiseUnbound(r)
    <3>1. Fewer
      BY <1>t, <2>2 DEF RaiseUnbound, TypeOK, To, Past, DivesOf
    <3> QED
      BY <1>f, <3>1
  <2> QED
    BY <1>3, <2>1, <2>2 DEF CheckQuota
<1>4. ASSUME NEW r \in Requests, LookUp(r) \/ Work(r) PROVE Fewer
  BY <1>t, <1>4 DEF LookUp, Work, TypeOK, To, Past, DivesOf
<1>5. ASSUME NEW r \in Requests, Fail(r) \/ Finish(r) PROVE Fewer
  BY <1>t, <1>5 DEF Fail, Finish, TypeOK, To, Past, DivesOf
<1>6. ASSUME NEW r \in Requests, Track(r) PROVE Kept
  BY <1>t, <1>6, TrackKeeps
<1>7. ASSUME NEW t \in TaskIds, NEW u \in Users, Cancel(t, u) PROVE Fewer
  BY <1>7 DEF Cancel, Past, DivesOf
<1>8. ASSUME NEW t \in TaskIds, PassCancelDeadline(t) PROVE Fewer
  BY <1>8 DEF PassCancelDeadline, Past, DivesOf
<1>9. ASSUME NewMonth PROVE Kept
  BY <1>9, MonthKeeps
<1>10. ASSUME UNCHANGED requestVars PROVE Kept
  <2>1. Fewer
    BY <1>10 DEF requestVars, Past, DivesOf
  <2> QED
    BY <1>f, <2>1
<1> HIDE DEF Fewer, Kept
<1>11. Kept
  BY <1>f, <1>2, <1>3, <1>4, <1>5, <1>6, <1>7, <1>8, <1>9, <1>10 DEF Next, RequestStep
<1> QED
  BY <1>11 DEF Kept

LEMMA RequestInit == Init => RequestInv
<1> SUFFICES ASSUME Init PROVE RequestInv
  OBVIOUS
<1>1. CancelInv
  BY CancelInit DEF Init
<1>2. TypeOK
  BY <1>1 DEF Init, TypeOK, CancelInv, Places
<1>3. \A u \in Paid : Past(u) = {} /\ DivesOf(u) = {} /\ peak[u] = 0
  BY DEF Init, Past, DivesOf
<1>4. \A u \in Paid : Cardinality(Past(u)) = 0 /\ Cardinality(DivesOf(u)) = 0
  BY <1>3, FS_EmptySet
<1>5. PeakKept /\ OverrunIsBounded
  BY <1>3, <1>4 DEF PeakKept, OverrunIsBounded
<1> QED
  BY <1>1, <1>2, <1>5 DEF RequestInv, CancelInv

LEMMA RequestInvStep == RequestInv /\ [Next]_requestVars => RequestInv'
BY TypeStep, BoundsStep, RegistryKept DEF RequestInv, CancelInv

-----------------------------------------------------------------------------
(* A request at work is found under its id.                                *)

\* The requests whose id no other request has.
Alone(r) == \A q \in Requests \ {r} : IdOf[q] # IdOf[r]

\* A step that takes nothing out of the registry.
LEMMA NothingLeaves ==
  ASSUME WorkIsRegistered, DOMAIN running \subseteq DOMAIN running', cancelled \subseteq cancelled',
         \A r \in Requests : place'[r] \in Registered =>
            place[r] \in Registered \/ IdOf[r] \in DOMAIN running'
  PROVE  WorkIsRegistered'
BY DEF WorkIsRegistered

\* A request that ends takes its own id out, which is nobody else's or shared.
LEMMA EndingKeeps ==
  ASSUME TypeOK, WorkIsRegistered, NEW r \in Requests, CompleteTask(IdOf[r]), To(r, "over"),
         cancelled' = cancelled
  PROVE  WorkIsRegistered'
<1>1. DOMAIN running' = DOMAIN running \ {IdOf[r]}
  BY DEF CompleteTask, Cleanup
<1>2. /\ place'[r] \notin Registered
      /\ \A q \in Requests \ {r} : place'[q] = place[q]
  BY DEF TypeOK, To, Registered
<1>3. SUFFICES ASSUME NEW q \in Requests, place'[q] \in Registered, q \notin cancelled,
                      \A k \in Requests \ {q} : IdOf[k] # IdOf[q]
               PROVE  IdOf[q] \in DOMAIN running'
  BY DEF WorkIsRegistered
<1>4. q # r /\ IdOf[q] # IdOf[r] /\ place[q] \in Registered
  BY <1>2, <1>3
<1> QED
  BY <1>1, <1>3, <1>4 DEF WorkIsRegistered

LEMMA WorkStep ==
  ASSUME TypeOK, WorkIsRegistered, [Next]_requestVars PROVE WorkIsRegistered'
<1> USE DEF Registered
<1>1. ASSUME NEW r \in Requests, Register(r) PROVE WorkIsRegistered'
  <2>1. DOMAIN running' = DOMAIN running \cup {IdOf[r]}
    BY <1>1 DEF Register, RegisterTask
  <2>2. \A q \in Requests \ {r} : place'[q] = place[q]
    BY <1>1 DEF Register, To, TypeOK
  <2> QED
    BY <1>1, <2>1, <2>2, NothingLeaves DEF Register
<1>2. ASSUME NEW r \in Requests, NEW p, To(r, p), UNCHANGED <<running, cancelled>>,
             p \in Registered => place[r] \in Registered
      PROVE  WorkIsRegistered'
  BY <1>2, NothingLeaves DEF To, TypeOK
<1>4. ASSUME NEW r \in Requests, Validate(r) \/ CheckQuota(r) PROVE WorkIsRegistered'
  <2>1. CASE Register(r)
    BY <1>1, <2>1
  <2>2. CASE RaiseUnbound(r) \/ (To(r, "quota") /\ UNCHANGED <<running, userTasks, dives, cancelled, peak>>)
    BY <1>2, <2>2 DEF RaiseUnbound
  <2> QED
    BY <1>4, <2>1, <2>2 DEF Validate, CheckQuota
<1>5. ASSUME NEW r \in Requests, LookUp(r) \/ Work(r) \/ Track(r)
      PROVE  WorkIsRegistered'
  <2>1. PICK p \in {"over", "track", "finish"} : To(r, p)
    BY <1>5 DEF LookUp, Work, Track
  <2>2. place[r] \in Registered /\ UNCHANGED <<running, cancelled>>
    BY <1>5 DEF LookUp, Work, Track
  <2> QED
    BY <1>2, <2>1, <2>2
<1>6. ASSUME NEW r \in Requests, Fail(r) \/ Finish(r) PROVE WorkIsRegistered'
  BY <1>6, EndingKeeps DEF Fail, Finish
<1>7. ASSUME NEW t \in TaskIds, NEW u \in Users, Cancel(t, u) PROVE WorkIsRegistered'
  <2>1. /\ DOMAIN running' = DOMAIN running \ {t}
        /\ place' = place
        /\ cancelled' = cancelled \cup {r \in Requests : IdOf[r] = t /\ place[r] \in Registered}
    BY <1>7 DEF Cancel, CancelTask, Cleanup
  <2> QED
    BY <2>1 DEF WorkIsRegistered
<1>8. ASSUME NEW t \in TaskIds, PassCancelDeadline(t) PROVE WorkIsRegistered'
  <2>1. DOMAIN running' = DOMAIN running /\ place' = place /\ cancelled' = cancelled
    BY <1>8 DEF PassCancelDeadline, PassDeadline
  <2> QED
    BY <2>1 DEF WorkIsRegistered
<1>9. CASE NewMonth \/ UNCHANGED requestVars
  BY <1>9 DEF NewMonth, requestVars, WorkIsRegistered
<1> QED
  BY <1>4, <1>5, <1>6, <1>7, <1>8, <1>9 DEF Next, RequestStep

-----------------------------------------------------------------------------
(* The batches of POST /batch over the same registry.                       *)

USE BatchIdsType, BatchIdsDiffer

\* Until the handler of a batch ends, its client has no answer and its row no outcome.
BatchOpen(b) == batchPlace[b] # "over" =>
                  answer[b] = "none" /\ history[b] \in {"none", "pending", "processing"}
StillOpen == \A b \in Batches : BatchOpen(b)

BatchInv == /\ BatchesTypeOK
            /\ RegistryConsistent
            /\ StillOpen
            /\ HistoryMatchesAnswer

\* What a step of a batch does to the registry: one of its operations, or nothing.
LEMMA BatchRegistryStep ==
  ASSUME BatchInv, NextBatches
  PROVE  [NextCancellation]_cancelVars
<1> USE DEF cancelVars
<1>i. CancelInv /\ batchId \in [Batches -> TaskIds] /\ RegisteredId \in [Batches -> TaskIds]
  BY DEF BatchInv, BatchesTypeOK, CancelInv
<1>e. ASSUME NEW b \in Batches, NEW a, End(b, a) PROVE [NextCancellation]_cancelVars
  BY <1>i, <1>e, CompleteIsRegistryStep DEF End
<1>1. ASSUME NEW b \in Batches, Begin(b) PROVE [NextCancellation]_cancelVars
  BY <1>i, <1>1 DEF Begin, NextCancellation
<1>2. ASSUME NEW b \in Batches,
             CreateRecord(b) \/ StartProcessing(b) \/ Gather(b) \/ Raise(b)
      PROVE  UNCHANGED cancelVars
  BY <1>2 DEF CreateRecord, StartProcessing, Gather, Raise
<1>3. ASSUME NEW b \in Batches, CheckMode(b) PROVE [NextCancellation]_cancelVars
  BY <1>e, <1>3 DEF CheckMode
<1>4. ASSUME NEW b \in Batches, TimedOut(b) \/ Results(b) \/ HandleError(b)
      PROVE  [NextCancellation]_cancelVars
  BY <1>e, <1>4 DEF TimedOut, Results, HandleError
<1> QED
  BY <1>1, <1>2, <1>3, <1>4 DEF NextBatches, BatchStep

LEMMA BatchRegistryKept ==
  ASSUME BatchInv, NextBatches
  PROVE  RunningTypeOK' /\ RegistryConsistent'
<1>1. CancelInv
  BY DEF BatchInv, BatchesTypeOK, CancelInv
<1>2. CancelInv'
  BY <1>1, BatchRegistryStep, CancelStep
<1>3. RunningTypeOK' <=> RunningTypeOK'
  BY DEF RunningTypeOK
<1> QED
  BY <1>2, <1>3 DEF CancelInv

\* What the history says of one batch, and that another's step leaves it alone.
BatchAgrees(b) ==
  /\ answer[b] = "done" => history[b] \in {"none", "completed"}
  /\ answer[b] = "timeout" => history[b] \in {"none", "failed"}
  /\ history[b] = "completed" => answer[b] = "done"
  /\ history[b] = "failed" => answer[b] \in {"timeout", "error"}

LEMMA OneBatchMoves ==
  ASSUME BatchInv, NEW b \in Batches,
         \A c \in Batches \ {b} : /\ batchPlace'[c] = batchPlace[c]
                                  /\ history'[c] = history[c] /\ answer'[c] = answer[c],
         BatchOpen(b)', BatchAgrees(b)'
  PROVE  StillOpen' /\ HistoryMatchesAnswer'
BY DEF BatchInv, StillOpen, BatchOpen, BatchAgrees, HistoryMatchesAnswer

LEMMA BatchTypeStep ==
  ASSUME BatchInv, NextBatches
  PROVE  BatchesTypeOK'
<1>r. RunningTypeOK'
  BY BatchRegistryKept
<1> USE DEF BatchInv, BatchesTypeOK, BatchPlaces, Histories, Answers,
            BatchTo, SetHistory
<1>i. RecordId \in [Batches -> TaskIds]
  OBVIOUS
<1>1. ASSUME NEW b \in Batches, Begin(b) PROVE BatchesTypeOK'
  BY <1>r, <1>1 DEF Begin
<1>2. ASSUME NEW b \in Batches, CreateRecord(b) PROVE BatchesTypeOK'
  BY <1>r, <1>i, <1>2 DEF CreateRecord
<1>3. ASSUME NEW b \in Batches, StartProcessing(b) \/ Gather(b) \/ Raise(b)
      PROVE  BatchesTypeOK'
  BY <1>r, <1>3 DEF StartProcessing, Gather, Raise
<1>4. ASSUME NEW b \in Batches, CheckMode(b) PROVE BatchesTypeOK'
  BY <1>r, <1>4 DEF CheckMode, End
<1>5. ASSUME NEW b \in Batches, TimedOut(b) \/ Results(b) PROVE BatchesTypeOK'
  BY <1>r, <1>5 DEF TimedOut, Results, End
<1>6. ASSUME NEW b \in Batches, HandleError(b) PROVE BatchesTypeOK'
  BY <1>r, <1>6 DEF HandleError, End
<1> QED
  BY <1>1, <1>2, <1>3, <1>4, <1>5, <1>6 DEF NextBatches, BatchStep

LEMMA BatchHistoryStep ==
  ASSUME BatchInv, NextBatches
  PROVE  StillOpen' /\ HistoryMatchesAnswer'
<1> DEFINE Kept == StillOpen' /\ HistoryMatchesAnswer'
<1>t. BatchesTypeOK /\ StillOpen /\ HistoryMatchesAnswer
  BY DEF BatchInv
<1> USE DEF BatchesTypeOK, BatchTo, SetHistory, HasHistory, BatchOpen, BatchAgrees
<1>1. ASSUME NEW b \in Batches, Begin(b) \/ Gather(b) \/ Raise(b) PROVE Kept
  BY <1>t, <1>1, OneBatchMoves DEF Begin, Gather, Raise, StillOpen
<1>2. ASSUME NEW b \in Batches, CreateRecord(b) \/ StartProcessing(b) PROVE Kept
  BY <1>t, <1>2, OneBatchMoves DEF CreateRecord, StartProcessing, StillOpen
<1>3. ASSUME NEW b \in Batches, CheckMode(b) PROVE Kept
  BY <1>t, <1>3, OneBatchMoves DEF CheckMode, End, StillOpen
<1>4. ASSUME NEW b \in Batches, TimedOut(b) PROVE Kept
  BY <1>t, <1>4, OneBatchMoves DEF TimedOut, End, StillOpen
<1>5. ASSUME NEW b \in Batches, Results(b) PROVE Kept
  BY <1>t, <1>5, OneBatchMoves DEF Results, End, StillOpen
<1>6. ASSUME NEW b \in Batches, HandleError(b) PROVE Kept
  BY <1>t, <1>6, OneBatchMoves DEF HandleError, End, StillOpen
<1> HIDE DEF Kept
<1>7. Kept
  BY <1>1, <1>2, <1>3, <1>4, <1>5, <1>6 DEF NextBatches, BatchStep
<1> QED
  BY <1>7 DEF Kept

LEMMA BatchInit == InitBatches => BatchInv
<1> SUFFICES ASSUME InitBatches PROVE BatchInv
  OBVIOUS
<1>1. InitCancellation
  BY DEF InitBatches
<1>2. RunningTypeOK /\ RegistryConsistent
  BY <1>1, CancelInit DEF CancelInv
<1>3. BatchesTypeOK
  BY <1>2 DEF InitBatches, BatchesTypeOK, BatchPlaces, Histories, Answers
<1> QED
  BY <1>2, <1>3 DEF InitBatches, BatchInv, StillOpen, BatchOpen, HistoryMatchesAnswer

LEMMA BatchInvStep == BatchInv /\ NextBatches => BatchInv'
BY BatchTypeStep, BatchHistoryStep, BatchRegistryKept DEF BatchInv

-----------------------------------------------------------------------------
\* A step of a batch that is over is none.
LEMMA OverIsOver ==
  ASSUME BatchInv, NextBatches, NEW b \in Batches, batchPlace[b] = "over"
  PROVE  UNCHANGED <<batchPlace[b], batchId[b], history[b], answer[b]>>
<1> USE DEF BatchInv, BatchesTypeOK, BatchTo, SetHistory, End
<1>1. ASSUME NEW c \in Batches, Begin(c) \/ CreateRecord(c) \/ StartProcessing(c)
      PROVE  UNCHANGED <<batchPlace[b], batchId[b], history[b], answer[b]>>
  BY <1>1 DEF Begin, CreateRecord, StartProcessing
<1>2. ASSUME NEW c \in Batches, CheckMode(c) \/ Gather(c) \/ Raise(c)
      PROVE  UNCHANGED <<batchPlace[b], batchId[b], history[b], answer[b]>>
  BY <1>2 DEF CheckMode, Gather, Raise
<1>3. ASSUME NEW c \in Batches, TimedOut(c) \/ Results(c) \/ HandleError(c)
      PROVE  UNCHANGED <<batchPlace[b], batchId[b], history[b], answer[b]>>
  BY <1>3 DEF TimedOut, Results, HandleError
<1>4. ASSUME UNCHANGED <<batchPlace, batchId, history, answer>>
      PROVE  UNCHANGED <<batchPlace[b], batchId[b], history[b], answer[b]>>
  BY <1>4
<1> QED
  BY <1>1, <1>2, <1>3 DEF NextBatches, BatchStep

-----------------------------------------------------------------------------
\* Which ids the registry knows: never that of a history row, and of a batch that is
\* over not the one it ended under.
BatchIdsInv ==
  \A b \in Batches :
    /\ batchId[b] \in {RegisteredId[b], RecordId[b]}
    /\ RecordId[b] \notin DOMAIN running
    /\ batchPlace[b] = "over" => batchId[b] \notin DOMAIN running

\* A step that registers nothing, and takes out the id of a batch that ends.
LEMMA NoIdComes ==
  ASSUME BatchIdsInv, DOMAIN running' \subseteq DOMAIN running,
         \A b \in Batches : batchId'[b] \in {batchId[b], RecordId[b]},
         \A b \in Batches : batchPlace'[b] = "over" =>
           \/ batchPlace[b] = "over" /\ batchId'[b] = batchId[b]
           \/ batchId'[b] \notin DOMAIN running'
  PROVE  BatchIdsInv'
BY DEF BatchIdsInv

LEMMA BatchIdsStep ==
  ASSUME BatchesTypeOK, BatchIdsInv, NextBatches
  PROVE  BatchIdsInv'
<1> USE DEF BatchesTypeOK, BatchTo
<1>e. ASSUME NEW b \in Batches, NEW a, End(b, a) PROVE BatchIdsInv'
  <2>1. DOMAIN running' = DOMAIN running \ {batchId[b]} /\ batchId' = batchId
    BY <1>e DEF End, CompleteTask, Cleanup
  <2>2. \A c \in Batches \ {b} : batchPlace'[c] = batchPlace[c]
    BY <1>e DEF End
  <2> QED
    BY <2>1, <2>2, NoIdComes
<1>1. ASSUME NEW b \in Batches, Begin(b) PROVE BatchIdsInv'
  <2>1. DOMAIN running' = DOMAIN running \cup {RegisteredId[b]} /\ batchId' = batchId
    BY <1>1 DEF Begin, RegisterTask
  <2>2. /\ batchPlace'[b] # "over"
        /\ \A c \in Batches \ {b} : batchPlace'[c] = batchPlace[c]
    BY <1>1 DEF Begin
  <2>3. \A c \in Batches : /\ RecordId[c] # RegisteredId[b]
                           /\ c # b => RegisteredId[c] # RegisteredId[b]
    OBVIOUS
  <2> QED
    BY <2>1, <2>2, <2>3 DEF BatchIdsInv
<1>2. ASSUME NEW b \in Batches,
             CreateRecord(b) \/ StartProcessing(b) \/ Gather(b) \/ Raise(b)
      PROVE  BatchIdsInv'
  <2>1. /\ running' = running
        /\ \A c \in Batches : batchId'[c] \in {batchId[c], RecordId[c]}
    BY <1>2 DEF CreateRecord, StartProcessing, Gather, Raise
  <2>2. \A c \in Batches : batchPlace'[c] = "over" =>
          batchPlace[c] = "over" /\ batchId'[c] = batchId[c]
    BY <1>2 DEF CreateRecord, StartProcessing, Gather, Raise
  <2> QED
    BY <2>1, <2>2, NoIdComes
<1>3. ASSUME NEW b \in Batches, CheckMode(b) PROVE BatchIdsInv'
  <2>1. CASE BatchTo(b, "gather") /\ UNCHANGED <<running, userTasks, batchId, answer>>
    BY <2>1, NoIdComes
  <2> QED
    BY <1>e, <1>3, <2>1 DEF CheckMode
<1>4. ASSUME NEW b \in Batches, TimedOut(b) \/ Results(b) \/ HandleError(b)
      PROVE  BatchIdsInv'
  BY <1>e, <1>4 DEF TimedOut, Results, HandleError
<1> QED
  BY <1>1, <1>2, <1>3, <1>4 DEF NextBatches, BatchStep

-----------------------------------------------------------------------------
(* Both kinds of handlers over the one registry.                            *)

USE IdsApart

RoutesInv == RequestInv /\ WorkIsRegistered /\ BatchInv /\ BatchIdsInv

\* Batches and the requests' own variables: a step of one leaves the other's alone.
LEMMA BatchesLeaveRequests ==
  ASSUME RoutesInv, NextBatches, UNCHANGED singleVars
  PROVE  RequestInv' /\ WorkIsRegistered'
<1> USE DEF singleVars
<1>1. RunningTypeOK' /\ RegistryConsistent'
  BY BatchRegistryKept DEF RoutesInv
<1>2. TypeOK'
  BY <1>1 DEF RoutesInv, RequestInv, TypeOK
<1>3. PeakKept' /\ OverrunIsBounded'
  BY DEF RoutesInv, RequestInv, PeakKept, OverrunIsBounded, Past, DivesOf
<1>4. \A r \in Requests : IdOf[r] \in DOMAIN running => IdOf[r] \in DOMAIN running'
  <2> USE DEF RoutesInv, BatchIdsInv
  <2>1. ASSUME NEW b \in Batches, NEW a, End(b, a)
        PROVE  DOMAIN running' = DOMAIN running \ {batchId[b]}
    BY <2>1 DEF End, CompleteTask, Cleanup
  <2>2. ASSUME NEW b \in Batches, Begin(b) PROVE DOMAIN running \subseteq DOMAIN running'
    BY <2>2 DEF Begin, RegisterTask
  <2>3. ASSUME NEW b \in Batches,
               CreateRecord(b) \/ StartProcessing(b) \/ Gather(b) \/ Raise(b)
        PROVE  running' = running
    BY <2>3 DEF CreateRecord, StartProcessing, Gather, Raise
  <2>4. ASSUME NEW b \in Batches, CheckMode(b) \/ TimedOut(b) \/ Results(b) \/ HandleError(b)
        PROVE  running' = running \/ \E a \in Answers : End(b, a)
    BY <2>4 DEF CheckMode, TimedOut, Results, HandleError, Answers
  <2>5. \A r \in Requests, b \in Batches : IdOf[r] # batchId[b]
    OBVIOUS
  <2>6. ASSUME NEW b \in Batches, Begin(b) \/ BatchStep(b)
        PROVE  DOMAIN running \ {batchId[b]} \subseteq DOMAIN running'
    BY <2>1, <2>2, <2>3, <2>4, <2>6 DEF BatchStep
  <2> QED
    BY <2>5, <2>6 DEF NextBatches
<1>5. WorkIsRegistered'
  BY <1>4 DEF RoutesInv, WorkIsRegistered
<1> QED
  BY <1>1, <1>2, <1>3, <1>5 DEF RequestInv

\* What a request can register is no batch's id.
LEMMA RequestsLeaveBatches ==
  ASSUME RoutesInv, Next, UNCHANGED handlerVars
  PROVE  BatchInv' /\ BatchIdsInv'
<1> USE DEF handlerVars
<1>1. CancelInv'
  BY RegistryKept DEF RoutesInv
<1>2. BatchInv'
  BY <1>1 DEF RoutesInv, BatchInv, BatchesTypeOK, StillOpen, BatchOpen, HistoryMatchesAnswer,
              CancelInv
<1>3. DOMAIN running' \subseteq DOMAIN running \cup {IdOf[r] : r \in Requests}
  <2>1. ASSUME NEW r \in Requests, Register(r)
        PROVE  DOMAIN running' = DOMAIN running \cup {IdOf[r]}
    BY <2>1 DEF Register, RegisterTask
  <2>2. ASSUME NEW r \in Requests, LookUp(r) \/ Work(r) \/ Track(r) \/ RaiseUnbound(r)
        PROVE  running' = running
    BY <2>2 DEF LookUp, Work, Track, RaiseUnbound
  <2>3. ASSUME NEW r \in Requests, Validate(r) \/ CheckQuota(r)
        PROVE  running' = running \/ Register(r)
    BY <2>2, <2>3 DEF Validate, CheckQuota
  <2>4. ASSUME NEW r \in Requests, Fail(r) \/ Finish(r)
        PROVE  DOMAIN running' \subseteq DOMAIN running
    BY <2>4 DEF Fail, Finish, CompleteTask, Cleanup
  <2>5. ASSUME NEW t \in TaskIds, NEW u \in Users, Cancel(t, u)
        PROVE  DOMAIN running' \subseteq DOMAIN running
    BY <2>5 DEF Cancel, CancelTask, Cleanup
  <2>6. ASSUME NEW t \in TaskIds, PassCancelDeadline(t)
        PROVE  DOMAIN running' = DOMAIN running
    BY <2>6 DEF PassCancelDeadline, PassDeadline
  <2>7. NewMonth => running' = running
    BY DEF NewMonth
  <2> QED
    BY <2>1, <2>2, <2>3, <2>4, <2>5, <2>6, <2>7 DEF Next, RequestStep
<1>4. BatchIdsInv'
  BY <1>3 DEF RoutesInv, BatchIdsInv
<1> QED
  BY <1>2, <1>4

LEMMA RoutesInit == InitRoutes => RoutesInv
<1> SUFFICES ASSUME InitRoutes PROVE RoutesInv
  OBVIOUS
<1>1. RequestInv /\ BatchInv
  BY RequestInit, BatchInit DEF InitRoutes
<1>2. WorkIsRegistered
  BY DEF InitRoutes, Init, WorkIsRegistered, Registered
<1>3. BatchIdsInv
  BY DEF InitRoutes, InitBatches, InitCancellation, BatchIdsInv
<1> QED
  BY <1>1, <1>2, <1>3 DEF RoutesInv

LEMMA RoutesStep == RoutesInv /\ [NextRoutes]_routesVars => RoutesInv'
<1> SUFFICES ASSUME RoutesInv, [NextRoutes]_routesVars PROVE RoutesInv'
  OBVIOUS
<1>1. CASE Next /\ UNCHANGED handlerVars
  <2>1. RequestInv' /\ WorkIsRegistered'
    BY <1>1, RequestInvStep, WorkStep DEF RoutesInv, RequestInv
  <2> QED
    BY <1>1, <2>1, RequestsLeaveBatches DEF RoutesInv
<1>2. CASE NextBatches /\ UNCHANGED singleVars
  <2>1. BatchInv' /\ BatchIdsInv'
    BY <1>2, BatchInvStep, BatchIdsStep DEF RoutesInv, BatchInv
  <2> QED
    BY <1>2, <2>1, BatchesLeaveRequests DEF RoutesInv
<1>3. CASE UNCHANGED routesVars
  <2> USE <1>3 DEF routesVars, singleVars, handlerVars
  <2>1. RequestInv'
    BY RequestInvStep DEF RoutesInv, requestVars
  <2>2. WorkIsRegistered' /\ BatchIdsInv'
    BY DEF RoutesInv, WorkIsRegistered, BatchIdsInv
  <2>3. BatchInv'
    BY <2>1 DEF RoutesInv, RequestInv, TypeOK, BatchInv, BatchesTypeOK, StillOpen, BatchOpen,
                HistoryMatchesAnswer
  <2> QED
    BY <2>1, <2>2, <2>3 DEF RoutesInv
<1> QED
  BY <1>1, <1>2, <1>3 DEF NextRoutes

\* The deep dives of a month, those under way included, exceed the limit only by what
\* passed the check together, less one: requests one after the other keep it, however
\* cancellations, errors, batches and the end of the month come in between.
THEOREM DeepDivesBounded == SpecRoutes => [](TypeOK /\ OverrunIsBounded)
<1>1. RoutesInv => TypeOK /\ OverrunIsBounded
  BY DEF RoutesInv, RequestInv
<1> QED
  BY RoutesInit, RoutesStep, <1>1, PTL DEF SpecRoutes

\* The registry's two dictionaries agree under both kinds of handlers: what was proved
\* of its operations in any order holds of the calls the routes make.
THEOREM RegistryStaysConsistent == SpecRoutes => []RegistryConsistent
<1>1. RoutesInv => RegistryConsistent
  BY DEF RoutesInv, RequestInv
<1> QED
  BY RoutesInit, RoutesStep, <1>1, PTL DEF SpecRoutes

\* Between its registration and its end a request stays in the registry under its id,
\* unless it is cancelled or shares the id with another request of the same second.
THEOREM WorkStaysRegistered == SpecRoutes => []WorkIsRegistered
<1>1. RoutesInv => WorkIsRegistered
  BY DEF RoutesInv
<1> QED
  BY RoutesInit, RoutesStep, <1>1, PTL DEF SpecRoutes

\* What the history says of a batch that ended is what its client was told, whatever
\* raises on the way and whoever cancels: completed for a result, failed for a time-out.
THEOREM HistoryTellsTheAnswer == SpecRoutes => [](BatchesTypeOK /\ HistoryMatchesAnswer)
<1>1. RoutesInv => BatchesTypeOK /\ HistoryMatchesAnswer
  BY DEF RoutesInv, BatchInv
<1> QED
  BY RoutesInit, RoutesStep, <1>1, PTL DEF SpecRoutes

\* POST /batch/cancel finds no batch that is over under the id its handler ended with,
\* which is the one its client was given: ids do not repeat, and of a batch with a
\* history only the first id is ever registered.
THEOREM OverIsNotCancellable == SpecRoutes => []OverIsForgotten
<1>1. RoutesInv => OverIsForgotten
  BY DEF RoutesInv, BatchIdsInv, OverIsForgotten
<1> QED
  BY RoutesInit, RoutesStep, <1>1, PTL DEF SpecRoutes

\* The outcome of a batch is final: once its client is answered, neither the answer nor
\* the history row changes, whatever else happens.
THEOREM OutcomeIsFinal ==
  SpecRoutes => [][\A b \in Batches : answer[b] # "none" =>
                     answer'[b] = answer[b] /\ history'[b] = history[b]]_routesVars
<1>1. RoutesInv /\ [NextRoutes]_routesVars =>
        [\A b \in Batches : answer[b] # "none" =>
           answer'[b] = answer[b] /\ history'[b] = history[b]]_routesVars
  <2> SUFFICES ASSUME RoutesInv, NextRoutes, NEW b \in Batches, answer[b] # "none"
               PROVE  answer'[b] = answer[b] /\ history'[b] = history[b]
    OBVIOUS
  <2>1. batchPlace[b] = "over"
    BY DEF RoutesInv, BatchInv, StillOpen, BatchOpen
  <2>2. CASE NextBatches
    BY <2>1, <2>2, OverIsOver DEF RoutesInv
  <2>3. CASE UNCHANGED handlerVars
    BY <2>3 DEF handlerVars
  <2> QED
    BY <2>2, <2>3 DEF NextRoutes
<1> QED
  BY RoutesInit, RoutesStep, <1>1, PTL DEF SpecRoutes
=============================================================================
