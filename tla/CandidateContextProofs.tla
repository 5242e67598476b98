----------------------- MODULE CandidateContextProofs -----------------------
(***************************************************************************)
(* Proofs about CandidateContext, for any number of requests, any roles    *)
(* and organisations and any number of retries.  Type correctness first;   *)
(* then ContextInv, which says of every request in lock_context's loop how *)
(* many resets its unique violations have cost, and of every request what  *)
(* the lock must still be when nothing was reset since it arrived.         *)
(***************************************************************************)
EXTENDS CandidateContext, TLAPS

\* The retry loop's account: a unique violation at a time when the row is there
\* is paid for by the reset that must remove it before the next one.
RetryInv(r) ==
  /\ req[r].pc = "lock" =>
       req[r].tries <= ResetsDuring(r) + (IF lock = NoContext THEN 0 ELSE 1)
  /\ req[r].pc = "insert" => req[r].tries <= ResetsDuring(r)
  /\ req[r].pc = "exhausted" => MaxAttempts <= ResetsDuring(r)

\* A request that arrived under a lock not reset since finds it still there,
\* never enters the loop, and is admitted only if it asked for it.
LateInv(r) ==
  req[r].lockThen # NoContext /\ ResetsDuring(r) = 0 =>
    /\ lock = req[r].lockThen
    /\ req[r].pc \notin {"lock", "insert", "refresh"}
    /\ req[r].pc = "admitted" => req[r].want = lock

HandedInv(r) == req[r].got # NoContext /\ ResetsDuring(r) = 0 => req[r].got = lock

\* Before the loop a request has met no violation; only a GET reads for a GET.
ArrivalInv(r) ==
  /\ req[r].pc \in {"validate", "view", "recent"} => req[r].tries = 0
  /\ req[r].pc \in {"view", "recent"} => req[r].viewing

RequestInv(r) == RetryInv(r) /\ LateInv(r) /\ HandedInv(r) /\ ArrivalInv(r)

ContextInv == \A r \in Requests : RequestInv(r)

-----------------------------------------------------------------------------
USE NoContextAssumption, BoundsAssumption

LEMMA TypeInit == Init => TypeOK
BY DEF Init, TypeOK, Idle, RequestType, Finished

\* Comparing both parts compares contexts.
LEMMA MatchesIsEquality ==
  \A c, d \in Contexts : Matches(c, d) => c = d
BY DEF Matches, Contexts

LEMMA IdleType == Idle \in RequestType
BY DEF Idle, RequestType, Finished

LEMMA LeaveType ==
  ASSUME TypeOK, NEW r \in Requests, Leave(r), lock' \in {lock, NoContext},
         recent' \in Contexts \cup {NoContext}, resets' \in Nat, resets <= resets'
  PROVE  TypeOK'
<1>1. req' \in [Requests -> RequestType]
  BY IdleType DEF TypeOK, Leave
<1>2. ASSUME NEW q \in Requests
      PROVE  /\ req'[q].pc \in {"validate", "lock", "insert", "refresh", "admitted"}
                  => req'[q].want \in Contexts
             /\ req'[q].resetsThen <= resets'
  <2>1. CASE q = r
    <3>1. req'[q] = Idle
      BY <2>1 DEF Leave, TypeOK
    <3> QED
      BY <3>1 DEF Idle
  <2>2. CASE q # r
    <3>1. req'[q] = req[q]
      BY <2>2 DEF Leave, TypeOK
    <3>2. req[q].resetsThen \in Nat /\ req[q].resetsThen <= resets
      BY DEF TypeOK, RequestType
    <3> QED
      BY <3>1, <3>2 DEF TypeOK
  <2> QED
    BY <2>1, <2>2
<1> QED
  BY <1>1, <1>2 DEF TypeOK

LEMMA TypeStep == TypeOK /\ [Next]_ctxVars => TypeOK'
<1> SUFFICES ASSUME TypeOK, [Next]_ctxVars PROVE TypeOK'
  OBVIOUS
<1> USE DEF TypeOK, RequestType, Finished
<1>1. ASSUME NEW r \in Requests, StartAnalysis(r) PROVE TypeOK'
  BY <1>1 DEF StartAnalysis, Arrive
<1>2. ASSUME NEW r \in Requests, StartView(r) PROVE TypeOK'
  BY <1>2 DEF StartView, Arrive
<1>3. ASSUME NEW r \in Requests, StartReset(r) PROVE TypeOK'
  BY <1>3 DEF StartReset, Arrive
<1>4. ASSUME NEW r \in Requests, ValidateRead(r) PROVE TypeOK'
  BY <1>4 DEF ValidateRead, GoTo, Obtain
<1>5. ASSUME NEW r \in Requests, ViewRead(r) PROVE TypeOK'
  BY <1>5 DEF ViewRead, GoTo, Obtain
<1>15. ASSUME NEW r \in Requests, RecentRead(r) PROVE TypeOK'
  <2>1. CASE recent # NoContext
    BY <1>15, <2>1 DEF RecentRead
  <2>2. CASE recent = NoContext
    BY <1>15, <2>2, LeaveType DEF RecentRead
  <2> QED
    BY <2>1, <2>2
<1>6. ASSUME NEW r \in Requests, LockRead(r) PROVE TypeOK'
  BY <1>6 DEF LockRead, GoTo, Obtain
<1>7. ASSUME NEW r \in Requests, LockInsert(r) PROVE TypeOK'
  BY <1>7 DEF LockInsert, GoTo
<1>16. ASSUME NEW r \in Requests, LockRefresh(r) PROVE TypeOK'
  BY <1>16 DEF LockRefresh, GoTo, Obtain
<1>8. ASSUME NEW r \in Requests, LockFinalRead(r) PROVE TypeOK'
  BY <1>8 DEF LockFinalRead, GoTo, Obtain
<1>9. ASSUME NEW r \in Requests, ResetRead(r) PROVE TypeOK'
  <2>1. CASE lock = NoContext
    BY <1>9, <2>1, LeaveType DEF ResetRead
  <2>2. CASE lock # NoContext
    BY <1>9, <2>2 DEF ResetRead, GoTo
  <2> QED
    BY <2>1, <2>2
<1>10. ASSUME NEW r \in Requests, ResetDelete(r) PROVE TypeOK'
  BY <1>10, LeaveType DEF ResetDelete
<1>11. ASSUME NEW r \in Requests, StoreAnalysis(r) PROVE TypeOK'
  BY <1>11, LeaveType DEF StoreAnalysis
<1>12. ASSUME NEW r \in Requests, Respond(r) PROVE TypeOK'
  BY <1>12, LeaveType DEF Respond
<1>13. ASSUME NEW r \in Requests, LockInsertError(r) PROVE TypeOK'
  BY <1>13 DEF LockInsertError, GoTo
<1>14. ASSUME UNCHANGED ctxVars PROVE TypeOK'
  BY <1>14 DEF ctxVars
<1> QED
  BY <1>1, <1>2, <1>3, <1>4, <1>5, <1>6, <1>7, <1>8, <1>9, <1>10, <1>11, <1>12, <1>13,
     <1>14, <1>15, <1>16 DEF Next, RequestStep

\* Everything the program stores is of its type.
THEOREM TypeCorrect == Spec => []TypeOK
<1>1. Init => TypeOK
  BY TypeInit
<1>2. TypeOK /\ [Next]_ctxVars => TypeOK'
  BY TypeStep
<1> QED
  BY <1>1, <1>2, PTL DEF Spec

-----------------------------------------------------------------------------
LEMMA ContextInvInit == Init => ContextInv
BY DEF Init, ContextInv, RequestInv, RetryInv, LateInv, HandedInv, ArrivalInv, ResetsDuring, Idle

\* A step of r that leaves the row and the resets alone keeps what is said of
\* the other requests.
LEMMA OthersKept ==
  ASSUME TypeOK, ContextInv, NEW r \in Requests, UNCHANGED <<lock, resets>>,
         \A q \in Requests : q # r => req'[q] = req[q], RequestInv(r)'
  PROVE  ContextInv'
<1> SUFFICES ASSUME NEW q \in Requests, q # r PROVE RequestInv(q)'
  BY DEF ContextInv
<1>1. RequestInv(q) /\ req'[q] = req[q]
  BY DEF ContextInv
<1> QED
  BY <1>1 DEF RequestInv, RetryInv, LateInv, HandedInv, ArrivalInv, ResetsDuring

\* An idle request has nothing to keep.
LEMMA IdleInv ==
  ASSUME TypeOK, NEW r \in Requests, req'[r] = Idle, resets' \in Nat
  PROVE  RequestInv(r)'
BY DEF RequestInv, RetryInv, LateInv, HandedInv, ArrivalInv, ResetsDuring, Idle

LEMMA ContextInvStep == TypeOK /\ ContextInv /\ [Next]_ctxVars => ContextInv'
<1> SUFFICES ASSUME TypeOK, ContextInv, [Next]_ctxVars PROVE ContextInv'
  OBVIOUS
<1> USE DEF RequestInv, RetryInv, LateInv, HandedInv, ArrivalInv, ResetsDuring
<1>t. TypeOK'
  BY TypeStep
<1>a. ASSUME NEW r \in Requests, NEW label \in {"validate", "view", "reset"}, NEW view,
             NEW context, Arrive(r, label, view, context), label = "view" => view
      PROVE  ContextInv'
  <2>1. RequestInv(r)'
    BY <1>a DEF Arrive, TypeOK
  <2> QED
    BY <1>a, <2>1, OthersKept DEF Arrive, TypeOK
<1>1. ASSUME NEW r \in Requests, StartAnalysis(r) PROVE ContextInv'
  BY <1>1, <1>a DEF StartAnalysis
<1>2. ASSUME NEW r \in Requests, StartView(r) PROVE ContextInv'
  BY <1>2, <1>a DEF StartView
<1>3. ASSUME NEW r \in Requests, StartReset(r) PROVE ContextInv'
  BY <1>3, <1>a DEF StartReset
<1>f. ASSUME NEW r \in Requests, Leave(r), UNCHANGED <<lock, resets>> PROVE ContextInv'
  <2>1. RequestInv(r)'
    BY <1>f, IdleInv DEF Leave, TypeOK
  <2> QED
    BY <1>f, <2>1, OthersKept DEF Leave, TypeOK
<1>o. ASSUME NEW r \in Requests, Obtain(r, lock), lock # NoContext,
             UNCHANGED <<lock, resets>>,
             req[r].pc \in {"view", "lock", "refresh"} \/ req[r].want = lock
      PROVE  ContextInv'
  <2>1. /\ req'[r].got = lock
        /\ req'[r].pc \in {"answered", "admitted"}
        /\ req'[r].want = req[r].want
        /\ req'[r].lockThen = req[r].lockThen
        /\ req'[r].resetsThen = req[r].resetsThen
        /\ req[r].viewing => req'[r].pc = "answered"
    BY <1>o DEF Obtain, TypeOK, RequestType
  <2>2. RequestInv(r)
    BY DEF ContextInv
  <2>3. RequestInv(r)'
    BY <1>o, <2>1, <2>2
  <2> QED
    BY <1>o, <2>3, OthersKept DEF Obtain, TypeOK
\* Only the label changes, and only one that no invariant is about is entered.
<1>g. ASSUME NEW r \in Requests, NEW label \in {"refused", "delete", "error"},
             GoTo(r, label), UNCHANGED <<lock, resets>>
      PROVE  ContextInv'
  <2>1. RequestInv(r)
    BY DEF ContextInv
  <2>2. RequestInv(r)'
    BY <1>g, <2>1 DEF GoTo, TypeOK
  <2> QED
    BY <1>g, <2>2, OthersKept DEF GoTo, TypeOK
<1>4. ASSUME NEW r \in Requests, ValidateRead(r) PROVE ContextInv'
  <2>1. CASE lock = NoContext
    <3>1. RequestInv(r)
      BY DEF ContextInv
    <3>3. RequestInv(r)'
      BY <1>4, <2>1, <3>1 DEF ValidateRead, GoTo, TypeOK, RequestType
    <3> QED
      BY <1>4, <2>1, <3>3, OthersKept DEF ValidateRead, GoTo, TypeOK
  <2>2. CASE lock # NoContext /\ Matches(lock, req[r].want)
    <3>1. lock \in Contexts /\ req[r].want \in Contexts
      BY <1>4, <2>2 DEF ValidateRead, TypeOK
    <3>2. req[r].want = lock
      BY <2>2, <3>1, MatchesIsEquality
    <3> QED
      BY <1>4, <1>o, <2>2, <3>2 DEF ValidateRead
  <2>3. CASE lock # NoContext /\ ~Matches(lock, req[r].want)
    BY <1>4, <1>g, <2>3 DEF ValidateRead
  <2> QED
    BY <2>1, <2>2, <2>3
<1>5. ASSUME NEW r \in Requests, ViewRead(r) PROVE ContextInv'
  <2>1. CASE lock # NoContext
    BY <1>5, <1>o, <2>1 DEF ViewRead
  <2>2. CASE lock = NoContext
    <3>1. RequestInv(r)
      BY DEF ContextInv
    <3>2. RequestInv(r)'
      BY <1>5, <2>2, <3>1 DEF ViewRead, GoTo, TypeOK, RequestType
    <3> QED
      BY <1>5, <2>2, <3>2, OthersKept DEF ViewRead, GoTo, TypeOK
  <2> QED
    BY <2>1, <2>2
<1>15. ASSUME NEW r \in Requests, RecentRead(r) PROVE ContextInv'
  <2>1. CASE recent # NoContext
    <3>1. RequestInv(r)
      BY DEF ContextInv
    <3>2. RequestInv(r)'
      BY <1>15, <2>1, <3>1 DEF RecentRead, TypeOK, RequestType
    <3> QED
      BY <1>15, <2>1, <3>2, OthersKept DEF RecentRead, TypeOK
  <2>2. CASE recent = NoContext
    BY <1>15, <1>f, <2>2 DEF RecentRead
  <2> QED
    BY <2>1, <2>2
<1>6. ASSUME NEW r \in Requests, LockRead(r) PROVE ContextInv'
  <2>1. CASE lock # NoContext
    BY <1>6, <1>o, <2>1 DEF LockRead
  <2>2. CASE lock = NoContext
    <3>1. RequestInv(r)
      BY DEF ContextInv
    <3>2. RequestInv(r)'
      BY <1>6, <2>2, <3>1 DEF LockRead, GoTo, TypeOK, RequestType
    <3> QED
      BY <1>6, <2>2, <3>2, OthersKept DEF LockRead, GoTo, TypeOK
  <2> QED
    BY <2>1, <2>2
<1>7. ASSUME NEW r \in Requests, LockInsert(r) PROVE ContextInv'
  <2>1. CASE lock = NoContext
    \* Nothing that is said of a lock in place was being said.
    <3> SUFFICES ASSUME NEW q \in Requests PROVE RequestInv(q)'
      BY DEF ContextInv
    <3>1. RequestInv(q) /\ RequestInv(r)
      BY DEF ContextInv
    <3>2. lock' = req[r].want /\ resets' = resets /\ lock' # NoContext
      BY <1>7, <2>1 DEF LockInsert, TypeOK
    <3>3. CASE q # r
      <4>1. req'[q] = req[q]
        BY <1>7, <2>1, <3>3 DEF LockInsert, GoTo, TypeOK
      <4> QED
        BY <2>1, <3>1, <3>2, <4>1 DEF TypeOK, RequestType
    <3>4. CASE q = r
      <4>1. /\ req'[q].got = req[q].got
            /\ req'[q].pc = "refresh"
            /\ req'[q].want = req[q].want
            /\ req'[q].lockThen = req[q].lockThen
            /\ req'[q].resetsThen = req[q].resetsThen
        BY <1>7, <2>1, <3>2, <3>4 DEF LockInsert, GoTo, TypeOK, RequestType
      <4> QED
        BY <1>7, <2>1, <3>1, <3>2, <3>4, <4>1 DEF LockInsert
    <3> QED
      BY <3>3, <3>4
  <2>2. CASE lock # NoContext
    <3>1. RequestInv(r)
      BY DEF ContextInv
    <3>2. RequestInv(r)'
      BY <1>7, <2>2, <3>1 DEF LockInsert, TypeOK, RequestType
    <3> QED
      BY <1>7, <2>2, <3>2, OthersKept DEF LockInsert, TypeOK
  <2> QED
    BY <2>1, <2>2
<1>16. ASSUME NEW r \in Requests, LockRefresh(r) PROVE ContextInv'
  BY <1>16, <1>o, <1>g DEF LockRefresh
<1>8. ASSUME NEW r \in Requests, LockFinalRead(r) PROVE ContextInv'
  <2>1. CASE lock # NoContext
    BY <1>8, <1>o, <2>1 DEF LockFinalRead
  <2>2. CASE lock = NoContext
    <3>1. RequestInv(r)
      BY DEF ContextInv
    <3>2. RequestInv(r)'
      BY <1>8, <2>2, <3>1 DEF LockFinalRead, GoTo, TypeOK, RequestType
    <3> QED
      BY <1>8, <2>2, <3>2, OthersKept DEF LockFinalRead, GoTo, TypeOK
  <2> QED
    BY <2>1, <2>2
<1>9. ASSUME NEW r \in Requests, ResetRead(r) PROVE ContextInv'
  BY <1>9, <1>f, <1>g DEF ResetRead
<1>10. ASSUME NEW r \in Requests, ResetDelete(r) PROVE ContextInv'
  <2>1. CASE lock = NoContext
    BY <1>10, <1>f, <2>1 DEF ResetDelete
  <2>2. CASE lock # NoContext
    \* Every request in flight has now seen a reset, and the row is gone.
    <3> SUFFICES ASSUME NEW q \in Requests PROVE RequestInv(q)'
      BY DEF ContextInv
    <3>1. RequestInv(q)
      BY DEF ContextInv
    <3>2. lock' = NoContext /\ resets' = resets + 1
      BY <1>10, <2>2 DEF ResetDelete
    <3>3. CASE q # r
      <4>1. req'[q] = req[q]
        BY <1>10, <3>3 DEF ResetDelete, Leave, TypeOK
      <4>2. /\ req[q].resetsThen \in Nat /\ req[q].resetsThen <= resets
            /\ resets \in Nat /\ req[q].tries \in Nat /\ MaxAttempts \in Nat
        BY DEF TypeOK, RequestType
      <4> QED
        BY <2>2, <3>1, <3>2, <4>1, <4>2
    <3>4. CASE q = r
      BY <1>10, <3>2, <3>4, <1>t, IdleInv DEF ResetDelete, Leave, TypeOK
    <3> QED
      BY <3>3, <3>4
  <2> QED
    BY <2>1, <2>2
<1>11. ASSUME NEW r \in Requests, StoreAnalysis(r) PROVE ContextInv'
  BY <1>11, <1>f DEF StoreAnalysis
<1>12. ASSUME NEW r \in Requests, Respond(r) PROVE ContextInv'
  BY <1>12, <1>f DEF Respond
<1>13. ASSUME NEW r \in Requests, LockInsertError(r) PROVE ContextInv'
  BY <1>13, <1>g DEF LockInsertError
<1>14. ASSUME UNCHANGED ctxVars PROVE ContextInv'
  BY <1>14 DEF ctxVars, ContextInv
<1> QED
  BY <1>1, <1>2, <1>3, <1>4, <1>5, <1>6, <1>7, <1>8, <1>9, <1>10, <1>11, <1>12, <1>13,
     <1>14, <1>15, <1>16 DEF Next, RequestStep

-----------------------------------------------------------------------------
\* What the invariant says of the properties the runs check.
LEMMA ContextInvImplies ==
  TypeOK /\ ContextInv => ExhaustionNeedsResets /\ LateAnalysesAgree /\ HandedLockInForce
BY DEF ContextInv, RequestInv, RetryInv, LateInv, HandedInv, ExhaustionNeedsResets,
       LateAnalysesAgree, HandedLockInForce, ResetsDuring, TypeOK, RequestType

\* The safety properties of the lock: lock_context gives up only after
\* MaxAttempts resets, a later analysis agrees with the lock it found, and what
\* a request is handed is the lock in force.
THEOREM LockIsHonoured ==
  Spec => [](ExhaustionNeedsResets /\ LateAnalysesAgree /\ HandedLockInForce)
<1>1. Init => ContextInv
  BY ContextInvInit
<1>2. TypeOK /\ ContextInv /\ [Next]_ctxVars => ContextInv'
  BY ContextInvStep
<1> QED
  BY <1>1, <1>2, TypeCorrect, ContextInvImplies, PTL DEF Spec

\* No step replaces a lock by another one: whatever the number of racing first
\* analyses, the first INSERT to commit decides.
THEOREM LockIsOnlyReset == Spec => LockOnlyReset
<1>1. TypeOK /\ [Next]_ctxVars => [lock # NoContext => lock' \in {lock, NoContext}]_ctxVars
  BY DEF Next, RequestStep, StartAnalysis, StartView, StartReset, Arrive, ValidateRead, ViewRead,
         RecentRead, LockRead, LockInsert, LockRefresh, LockInsertError, LockFinalRead, ResetRead, ResetDelete,
         StoreAnalysis, Respond, ctxVars
<1> QED
  BY <1>1, TypeCorrect, PTL DEF Spec, LockOnlyReset
=============================================================================
