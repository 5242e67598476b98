----------------------- MODULE ConcurrencySlotsProofs -----------------------
(***************************************************************************)
(* The semaphores over a Redis that replies, for any number of requests    *)
(* and users and any limits: while no key expires in use, CountIsHolders   *)
(* is inductive and is what makes the answer of INCR a sound test, so the  *)
(* limits hold.  A count below zero is only met on a key that has.         *)
(***************************************************************************)
EXTENDS ConcurrencySlots, FiniteSetTheorems, TLAPS

USE RequestsFinite, UserOfType, GlobalIsNoUser, MaxConcurrentType DEF Keys

\* Only the count of an outlasted key can have been negative and be reset.
NoReset == \A r \in Requests : step[r] = "reset" => KeyOf(r) \in outlasted
Books == CountIsHolders /\ HoldersBounded /\ NeverOvercounts

\* A key that is gone counts nothing.
GoneIsEmpty == \A k \in Keys : key[k] = "gone" => count[k] = 0

SlotsInv == TypeOK /\ NoReset /\ GoneIsEmpty /\ Books /\ StaleCountsExpire

LEMMA CountedFinite ==
  ASSUME TypeOK, NEW k \in Keys
  PROVE  /\ Counted(k) \subseteq Requests /\ IsFiniteSet(Counted(k)) /\ Cardinality(Counted(k)) \in Nat
         /\ Holders(k) \subseteq Counted(k) /\ IsFiniteSet(Holders(k)) /\ Cardinality(Holders(k)) \in Nat
         /\ Cardinality(Holders(k)) <= Cardinality(Counted(k))
<1>1. Counted(k) \subseteq Requests
  BY DEF TypeOK, Counted, Holders, Overshooting
<1>2. Holders(k) \subseteq Counted(k)
  BY DEF Counted
<1>3. IsFiniteSet(Counted(k))
  BY <1>1, FS_Subset
<1> QED
  BY <1>1, <1>2, <1>3, FS_Subset, FS_CardinalityType

\* What an operation on the key of a request may do to the books: one counted request
\* more or less, and the counter with it.
LEMMA BooksKept ==
  ASSUME TypeOK, TypeOK', CountIsHolders, NeverOvercounts, NEW k \in Keys, NEW r \in Requests,
         NEW d \in {1, -1}, UNCHANGED outlasted,
         count' = [count EXCEPT ![k] = @ + d],
         \A j \in Keys : j # k => Counted(j)' = Counted(j),
         \/ d = 1 /\ r \notin Counted(k) /\ Counted(k)' = Counted(k) \cup {r}
         \/ d = -1 /\ r \in Counted(k) /\ Counted(k)' = Counted(k) \ {r}
  PROVE  /\ CountIsHolders' /\ NeverOvercounts'
         /\ Cardinality(Counted(k)') = Cardinality(Counted(k)) + d
<1>3. IsFiniteSet(Counted(k)) /\ Cardinality(Counted(k)) \in Nat
  BY CountedFinite
<1>5. Cardinality(Counted(k)') = Cardinality(Counted(k)) + d
  <2>1. CASE d = 1 /\ r \notin Counted(k) /\ Counted(k)' = Counted(k) \cup {r}
    BY <2>1, <1>3, FS_AddElement
  <2>2. CASE d = -1 /\ r \in Counted(k) /\ Counted(k)' = Counted(k) \ {r}
    BY <2>2, <1>3, FS_RemoveElement
  <2> QED
    BY <2>1, <2>2
<1>6. count[k] \in Int /\ count'[k] = count[k] + d /\ \A j \in Keys : j # k => count'[j] = count[j]
  BY DEF TypeOK
<1>7. CountIsHolders'
  BY <1>3, <1>5, <1>6 DEF CountIsHolders
<1>8. NeverOvercounts'
  BY <1>3, <1>5, <1>6 DEF NeverOvercounts
<1> QED
  BY <1>5, <1>7, <1>8

\* Of an outlasted key only NeverOvercounts is claimed any more.
LEMMA OutlastedKey ==
  ASSUME Books, UNCHANGED outlasted, NEW k \in outlasted,
         \A j \in Keys : j # k => /\ count'[j] = count[j]
                                 /\ Holders(j)' = Holders(j)
                                 /\ Counted(j)' = Counted(j),
         k \in Keys, count'[k] <= Cardinality(Counted(k)')
  PROVE  Books'
BY DEF Books, CountIsHolders, HoldersBounded, NeverOvercounts

\* A step of one request leaves the others where they are.
OnlyStep(r) == \A q \in Requests : q # r => stage'[q] = stage[q] /\ step'[q] = step[q]

LEMMA OthersStay ==
  ASSUME NEW r \in Requests, OnlyStep(r), NEW k \in Keys, NEW q \in Requests, q # r
  PROVE  /\ q \in Holders(k)' <=> q \in Holders(k)
         /\ q \in Overshooting(k)' <=> q \in Overshooting(k)
BY DEF OnlyStep, Holders, Overshooting, Acquiring, KeyOf

LEMMA KeyType == \A r \in Requests : KeyOf(r) \in Keys
BY DEF KeyOf

KeyStates == {"gone", "lasting", "expiring"}

LEMMA CountType ==
  ASSUME TypeOK, NEW k \in Keys, NEW d \in {1, -1}, NEW done \in BOOLEAN, Count(k, d, done)
  PROVE  count' \in [Keys -> Int] /\ key' \in [Keys -> KeyStates]
BY DEF TypeOK, Count, KeyStates

LEMMA Counting ==
  ASSUME TypeOK, NEW k \in Keys, NEW d \in {1, -1}, Count(k, d, TRUE)
  PROVE  count' = [count EXCEPT ![k] = @ + d] /\ count'[k] = count[k] + d
BY DEF TypeOK, Count

LEMMA TypeStep == TypeOK /\ [Next]_slotVars => TypeOK'
<1> SUFFICES ASSUME TypeOK, [Next]_slotVars PROVE TypeOK'
  OBVIOUS
<1> USE DEF TypeOK, Stages, Acquiring, Releasing, Stage, KeyStates
<1>1. ASSUME NEW r \in Requests, Enter(r) PROVE TypeOK'
  BY <1>1 DEF Enter
<1>2. ASSUME NEW r \in Requests, GetCount(r), UNCHANGED <<lost, outlasted>> PROVE TypeOK'
  BY <1>2 DEF GetCount
<1>3. ASSUME NEW r \in Requests, Incr(r), UNCHANGED <<lost, outlasted>> PROVE TypeOK'
  <2>1. count' \in [Keys -> Int] /\ key' \in [Keys -> KeyStates]
    BY <1>3, KeyType, CountType, RepliesType DEF Incr
  <2>2. PICK x \in {"expire", "back"} : step' = [step EXCEPT ![r] = x]
    BY <1>3 DEF Incr
  <2> QED
    BY <1>3, <2>1, <2>2 DEF Incr
<1>11. ASSUME NEW r \in Requests, SetExpiry(r), UNCHANGED <<lost, outlasted>> PROVE TypeOK'
  <2>1. key' \in [Keys -> KeyStates]
    BY <1>11, KeyType, RepliesType DEF SetExpiry
  <2> QED
    BY <1>11, <2>1 DEF SetExpiry, Acquired
<1>4. ASSUME NEW r \in Requests, DecrBack(r), UNCHANGED <<lost, outlasted>> PROVE TypeOK'
  <2>1. count' \in [Keys -> Int] /\ key' \in [Keys -> KeyStates]
    BY <1>4, KeyType, CountType, RepliesType DEF DecrBack
  <2> QED
    BY <1>4, <2>1 DEF DecrBack
<1>5. ASSUME NEW r \in Requests, TimeOut(r) PROVE TypeOK'
  BY <1>5 DEF TimeOut
<1>7. ASSUME NEW r \in Requests, Release(r), UNCHANGED <<lost, outlasted>> PROVE TypeOK'
  <2>1. count' \in [Keys -> Int] /\ key' \in [Keys -> KeyStates]
    BY <1>7, KeyType, CountType, RepliesType DEF Release
  <2>2. CASE Stage(r, AfterRelease(stage[r])) /\ UNCHANGED step
    <3>1. AfterRelease(stage[r]) \in {"idle", "exitGlobal"}
      BY <1>7 DEF Release, AfterRelease
    <3> QED
      BY <1>7, <2>1, <2>2, <3>1 DEF Release
  <2>3. CASE step' = [step EXCEPT ![r] = "reset"] /\ UNCHANGED stage
    BY <1>7, <2>1, <2>3 DEF Release
  <2> QED
    BY <1>7, <2>2, <2>3 DEF Release
<1>8. ASSUME NEW r \in Requests, ResetCount(r), UNCHANGED <<lost, outlasted>> PROVE TypeOK'
  <2>1. count' \in [Keys -> Int]
    BY <1>8, KeyType DEF ResetCount
  <2>2. AfterRelease(stage[r]) \in {"idle", "exitGlobal"}
    BY <1>8 DEF ResetCount, AfterRelease
  <2>3. key' \in [Keys -> KeyStates]
    BY <1>8, KeyType, RepliesType DEF ResetCount
  <2> QED
    BY <1>8, <2>1, <2>2, <2>3 DEF ResetCount
<1>9. ASSUME NEW k \in Keys, Expire(k) PROVE TypeOK'
  BY <1>9 DEF Expire
<1>12. ASSUME NEW r \in Requests, Die(r) PROVE TypeOK'
  <2>1. stage' \in [Requests -> Stages] /\ step' \in [Requests -> {"get", "expire", "incr", "back", "reset"}]
    BY <1>12 DEF Die
  <2>2. \A q \in Requests : stage[q] = "dead" => stage'[q] = "dead"
    BY <1>12 DEF Die
  <2>3. lost' \in [Keys -> SUBSET {q \in Requests : stage'[q] = "dead"}]
    BY <1>12, <2>2 DEF Die
  <2> QED
    BY <1>12, <2>1, <2>3 DEF Die
<1>10. ASSUME UNCHANGED slotVars PROVE TypeOK'
  BY <1>10 DEF slotVars
<1> QED
  BY <1>1, <1>2, <1>3, <1>4, <1>5, <1>7, <1>8, <1>9, <1>10, <1>11, <1>12 DEF Next, RequestStep

LEMMA SlotsInit == Init => SlotsInv
<1> SUFFICES ASSUME Init PROVE SlotsInv
  OBVIOUS
<1>1. TypeOK /\ NoReset /\ GoneIsEmpty
  BY DEF Init, TypeOK, NoReset, GoneIsEmpty, Stages, Acquiring
<1>2. \A k \in Keys : Holders(k) = {} /\ Counted(k) = {}
  BY DEF Init, Holders, Overshooting, Counted, Acquiring
<1>3. \A k \in Keys : Cardinality(Holders(k)) = 0 /\ Cardinality(Counted(k)) = 0
  BY <1>2, FS_EmptySet
<1>4. \A k \in Keys : count[k] = 0 /\ MaxConcurrent[k] \in Nat
  BY DEF Init
<1> QED
  BY <1>1, <1>3, <1>4 DEF SlotsInv, Books, CountIsHolders, HoldersBounded, NeverOvercounts, StaleCountsExpire

\* A step that leaves the counters, the holders and what is counted.
LEMMA NothingTaken ==
  ASSUME Books, UNCHANGED <<count, outlasted>>,
         \A k \in Keys : Holders(k)' = Holders(k) /\ Counted(k)' = Counted(k)
  PROVE  Books'
BY DEF Books, CountIsHolders, HoldersBounded, NeverOvercounts

\* The holders as the abstract semaphore sees them: a step takes one free slot,
\* gives one back, loses a request, or leaves them, and a key may be outlasted.
OthersAsBefore(k) == \A j \in Keys : j # k => Holders(j)' = Holders(j)

HoldersStep ==
  \/ /\ \A k \in Keys : Holders(k)' = Holders(k)
     /\ outlasted' = outlasted \/ \E k \in Keys : outlasted' = outlasted \cup {k}
  \/ /\ UNCHANGED outlasted
     /\ \E r \in Requests, k \in Keys :
          /\ OthersAsBefore(k)
          /\ \/ /\ r \notin Holders(k) /\ Holders(k)' = Holders(k) \cup {r}
                /\ k \in outlasted \/ Cardinality(Holders(k)) < MaxConcurrent[k]
             \/ r \in Holders(k) /\ Holders(k)' = Holders(k) \ {r}
  \/ /\ UNCHANGED outlasted
     /\ \E r \in Requests : \A k \in Keys : Holders(k)' = Holders(k) \ {r}

\* A release finds at least its own slot counted, unless the key expired since.
LEMMA ReleaseCounts ==
  ASSUME Replies = {TRUE}, SlotsInv, NEW r \in Requests, Release(r), KeyOf(r) \notin outlasted
  PROVE  /\ count' = [count EXCEPT ![KeyOf(r)] = @ + -1]
         /\ Stage(r, AfterRelease(stage[r]))
         /\ UNCHANGED step
<1>d. PICK k \in Keys : k = KeyOf(r)
  BY KeyType
<1>t. TypeOK
  BY DEF SlotsInv
<1>1. r \in Counted(k)
  BY <1>d DEF Release, Releasing, KeyOf, Holders, Counted
<1>2. Cardinality(Counted(k)) >= 1
  <2>1. Cardinality(Counted(k)) # 0
    BY <1>1, <1>t, CountedFinite, FS_EmptySet
  <2> QED
    BY <2>1, <1>t, CountedFinite
<1>3. count[k] >= 1 /\ count[k] \in Int
  BY <1>d, <1>2, <1>t, CountedFinite DEF SlotsInv, Books, CountIsHolders, TypeOK
<1>4. Count(k, -1, TRUE)
  BY <1>d DEF Release
<1>5. count' = [count EXCEPT ![k] = @ + -1]
  BY <1>4, <1>t, Counting
<1>7. ~(Answer(k, -1, TRUE) < 0)
  BY <1>3 DEF Answer
<1> QED
  BY <1>d, <1>5, <1>7 DEF Release

LEMMA NoResetStep ==
  ASSUME Replies = {TRUE}, SlotsInv, [Next]_slotVars PROVE NoReset'
<1> USE DEF NoReset
<1>t. TypeOK /\ NoReset
  BY DEF SlotsInv
<1>1. ASSUME NEW r \in Requests, Release(r), UNCHANGED outlasted PROVE NoReset'
  <2>s. \A q \in Requests : q # r => stage'[q] = stage[q] /\ step'[q] = step[q]
    BY <1>t, <1>1 DEF Release, Stage, TypeOK
  <2>1. CASE KeyOf(r) \notin outlasted
    BY <1>t, <1>1, <2>1, <2>s, ReleaseCounts DEF KeyOf, Release
  <2>2. CASE KeyOf(r) \in outlasted
    <3>1. step'[r] = "reset" => stage'[r] = stage[r]
      BY <1>t, <1>1 DEF Release, TypeOK
    <3> QED
      BY <1>t, <1>1, <2>2, <2>s, <3>1 DEF KeyOf
  <2> QED
    BY <2>1, <2>2
<1>2. ASSUME NEW r \in Requests, UNCHANGED outlasted,
             \/ Enter(r) \/ GetCount(r) \/ Incr(r) \/ SetExpiry(r) \/ DecrBack(r) \/ TimeOut(r)
             \/ ResetCount(r) \/ Die(r)
      PROVE NoReset'
  <2>1. step'[r] # "reset"
    BY <1>t, <1>2 DEF TypeOK, Enter, GetCount, Incr, SetExpiry, Acquired, DecrBack, TimeOut,
                      ResetCount, Die, Acquiring, Releasing
  <2>2. \A q \in Requests : q # r => stage'[q] = stage[q] /\ step'[q] = step[q]
    BY <1>t, <1>2 DEF TypeOK, Enter, GetCount, Incr, SetExpiry, Acquired, DecrBack, TimeOut,
                      ResetCount, Die, Stage
  <2> QED
    BY <1>t, <1>2, <2>1, <2>2 DEF KeyOf
<1>3. CASE UNCHANGED slotVars \/ \E k \in Keys : Expire(k)
  BY <1>t, <1>3 DEF slotVars, Expire, KeyOf
<1> QED
  BY <1>1, <1>2, <1>3 DEF Next, RequestStep, Enter, Die

LEMMA GoneStep ==
  ASSUME SlotsInv, [Next]_slotVars PROVE GoneIsEmpty'
<1> USE DEF GoneIsEmpty
<1>t. TypeOK /\ GoneIsEmpty
  BY DEF SlotsInv
<1>c. ASSUME NEW k \in Keys, NEW d \in {1, -1}, NEW done \in BOOLEAN, Count(k, d, done)
      PROVE  GoneIsEmpty'
  BY <1>t, <1>c DEF Count, TypeOK
<1>1. ASSUME NEW r \in Requests, Incr(r) \/ DecrBack(r) \/ Release(r) PROVE GoneIsEmpty'
  BY <1>1, <1>c, KeyType, RepliesType DEF Incr, DecrBack, Release
<1>2. ASSUME NEW r \in Requests, SetExpiry(r) PROVE GoneIsEmpty'
  <2>1. UNCHANGED count /\ \A k \in Keys : key'[k] = "gone" => key[k] = "gone"
    BY <1>t, <1>2, KeyType DEF SetExpiry, TypeOK
  <2> QED
    BY <1>t, <2>1
<1>3. ASSUME NEW r \in Requests, ResetCount(r) PROVE GoneIsEmpty'
  <2> SUFFICES ASSUME NEW k \in Keys, key'[k] = "gone" PROVE count'[k] = 0
    OBVIOUS
  <2>1. CASE k = KeyOf(r)
    BY <1>t, <1>3, <2>1 DEF ResetCount, TypeOK
  <2>2. CASE k # KeyOf(r)
    BY <1>t, <1>3, <2>2 DEF ResetCount, TypeOK
  <2> QED
    BY <2>1, <2>2
<1>4. ASSUME NEW k \in Keys, Expire(k) PROVE GoneIsEmpty'
  BY <1>t, <1>4 DEF Expire, TypeOK
<1>5. ASSUME NEW r \in Requests, Enter(r) \/ GetCount(r) \/ TimeOut(r) \/ Die(r) PROVE GoneIsEmpty'
  BY <1>t, <1>5 DEF Enter, GetCount, TimeOut, Die
<1>6. CASE UNCHANGED slotVars
  BY <1>t, <1>6 DEF slotVars
<1> QED
  BY <1>1, <1>2, <1>3, <1>4, <1>5, <1>6 DEF Next, RequestStep

\* Whoever made a count positive is about to give the key an expiry, or died before.
Pending(r, k) == r \in Counted(k) /\ step[r] = "expire" /\ (Acquiring(r) => KeyOf(r) = k)

\* Others' commands, and one's own before and after, leave a pending EXPIRE pending.
LEMMA PendingStays ==
  ASSUME TypeOK, NEW r \in Requests, OnlyStep(r), UNCHANGED lost,
         NEW k \in Keys, NEW q \in Requests, q # r, Pending(q, k)
  PROVE  Pending(q, k)'
<1>1. q \in Counted(k)'
  BY OthersStay DEF Pending, Counted
<1>2. step'[q] = step[q] /\ stage'[q] = stage[q]
  BY DEF OnlyStep
<1> QED
  BY <1>1, <1>2 DEF Pending, Acquiring, KeyOf

LEMMA StaleStep ==
  ASSUME Replies = {TRUE}, SlotsInv, [Next]_slotVars
  PROVE  StaleCountsExpire'
<1>t. TypeOK /\ StaleCountsExpire /\ TypeOK'
  BY TypeStep DEF SlotsInv
<1>p. \A k \in Keys : count[k] > 0 => key[k] = "expiring" \/ \E q \in Requests : Pending(q, k)
  BY <1>t, CountedFinite DEF StaleCountsExpire, Pending
<1>g. ASSUME \A k \in Keys : count'[k] > 0 => key'[k] = "expiring" \/ \E q \in Requests : Pending(q, k)'
      PROVE  StaleCountsExpire'
  BY <1>g DEF StaleCountsExpire, Pending
<1>1. ASSUME NEW r \in Requests, Incr(r), UNCHANGED <<lost, outlasted>> PROVE StaleCountsExpire'
  <2> SUFFICES ASSUME NEW k \in Keys, count'[k] > 0, key'[k] # "expiring" PROVE \E q \in Requests : Pending(q, k)'
    BY <1>g
  <2>s. OnlyStep(r) /\ Acquiring(r) /\ UNCHANGED stage /\ step[r] = "incr"
    BY <1>t, <1>1 DEF Incr, OnlyStep, TypeOK
  <2>e. key[k] # "expiring"
    BY <1>t, <1>1, KeyType DEF Incr, Count, TypeOK
  <2>n. count[k] \in Int /\ MaxConcurrent[k] \in Nat /\ MaxConcurrent[k] > 0
    BY <1>t DEF TypeOK
  <2>1. CASE count[k] > 0
    <3>1. PICK q \in Requests : Pending(q, k)
      BY <1>p, <2>1, <2>e
    <3>2. q # r
      BY <3>1, <2>s DEF Pending
    <3> QED
      BY <1>t, <1>1, <2>s, <3>1, <3>2, PendingStays
  <2>2. CASE ~(count[k] > 0)
    <3>1. k = KeyOf(r) /\ count'[k] = count[k] + 1
      BY <1>1, <1>t, <2>2, KeyType DEF Incr, Count, TypeOK
    <3>2. step'[r] = "expire"
      BY <1>1, <1>t, <2>2, <2>n, <3>1 DEF Incr, Answer, TypeOK
    <3> QED
      BY <2>s, <3>1, <3>2 DEF Pending, Counted, Holders, Acquiring, KeyOf
  <2> QED
    BY <2>1, <2>2
<1>2. ASSUME NEW r \in Requests, SetExpiry(r), UNCHANGED <<lost, outlasted>> PROVE StaleCountsExpire'
  <2> SUFFICES ASSUME NEW k \in Keys, count'[k] > 0, key'[k] # "expiring" PROVE \E q \in Requests : Pending(q, k)'
    BY <1>g
  <2>s. OnlyStep(r) /\ Acquiring(r) /\ UNCHANGED count
    BY <1>t, <1>2 DEF SetExpiry, Acquired, Stage, OnlyStep, TypeOK
  <2>1. key[k] # "expiring" /\ (k = KeyOf(r) => key[k] = "gone")
    BY <1>t, <1>2, KeyType DEF SetExpiry, TypeOK
  <2>2. PICK q \in Requests : Pending(q, k)
    BY <1>p, <2>s, <2>1
  <2>3. q # r
    BY <2>1, <2>2, <2>s DEF Pending, SlotsInv, GoneIsEmpty
  <2> QED
    BY <1>t, <1>2, <2>s, <2>2, <2>3, PendingStays
<1>3. ASSUME NEW r \in Requests, UNCHANGED lost,
             Enter(r) \/ GetCount(r) \/ DecrBack(r) \/ TimeOut(r) \/ Release(r) \/ ResetCount(r)
      PROVE  StaleCountsExpire'
  <2> SUFFICES ASSUME NEW k \in Keys, count'[k] > 0, key'[k] # "expiring" PROVE \E q \in Requests : Pending(q, k)'
    BY <1>g
  <2>s. OnlyStep(r) /\ (step[r] = "expire" => stage[r] = "dead") /\ stage[r] # "dead"
    <3>1. CASE Enter(r) \/ GetCount(r) \/ DecrBack(r) \/ TimeOut(r)
      BY <1>t, <3>1 DEF Enter, GetCount, DecrBack, TimeOut, Stage, OnlyStep, TypeOK, Acquiring
    <3>2. CASE Release(r) \/ ResetCount(r)
      BY <1>t, <3>2 DEF Release, ResetCount, Stage, OnlyStep, TypeOK, Releasing
    <3> QED
      BY <1>3, <3>1, <3>2
  <2>1. count[k] > 0 /\ key[k] # "expiring"
    <3>1. CASE ResetCount(r)
      BY <1>t, <3>1, KeyType DEF ResetCount, TypeOK
    <3>2. CASE DecrBack(r) \/ Release(r)
      <4>1. Count(KeyOf(r), -1, TRUE)
        BY <3>2 DEF DecrBack, Release
      <4>2. count[k] \in Int /\ (count'[k] = count[k] \/ count'[k] = count[k] - 1)
        BY <1>t, <4>1, KeyType, Counting DEF TypeOK
      <4>3. key[k] # "expiring"
        BY <1>t, <4>1, KeyType DEF Count, TypeOK
      <4> QED
        BY <4>2, <4>3
    <3>3. CASE Enter(r) \/ GetCount(r) \/ TimeOut(r)
      BY <3>3 DEF Enter, GetCount, TimeOut
    <3> QED
      BY <1>3, <3>1, <3>2, <3>3
  <2>2. PICK q \in Requests : Pending(q, k)
    BY <1>p, <2>1
  <2> QED
    BY <1>t, <1>3, <2>s, <2>2, PendingStays DEF Pending
<1>4. ASSUME NEW r \in Requests, Die(r) PROVE StaleCountsExpire'
  <2> SUFFICES ASSUME NEW k \in Keys, count'[k] > 0, key'[k] # "expiring" PROVE \E q \in Requests : Pending(q, k)'
    BY <1>g
  <2>s. /\ OnlyStep(r) /\ UNCHANGED <<count, key>> /\ stage'[r] = "dead"
        /\ step[r] = "expire" => step'[r] = "expire"
        /\ lost'[k] = IF r \in Counted(k) THEN lost[k] \cup {r} ELSE lost[k]
    BY <1>t, <1>4 DEF Die, Stage, OnlyStep, TypeOK
  <2>1. PICK q \in Requests : Pending(q, k)
    BY <1>p, <2>s
  <2>2. CASE q = r
    BY <2>s, <2>1, <2>2 DEF Pending, Counted, Acquiring
  <2>3. CASE q # r
    <3>1. q \in Counted(k)'
      BY <2>s, <2>1, <2>3, OthersStay DEF Pending, Counted
    <3> QED
      BY <2>s, <2>1, <2>3, <3>1 DEF Pending, OnlyStep, Acquiring, KeyOf
  <2> QED
    BY <2>2, <2>3
<1>5. ASSUME NEW j \in Keys, Expire(j) PROVE StaleCountsExpire'
  <2> SUFFICES ASSUME NEW k \in Keys, count'[k] > 0, key'[k] # "expiring" PROVE \E q \in Requests : Pending(q, k)'
    BY <1>g
  <2>0. count' = [count EXCEPT ![j] = 0] /\ key' = [key EXCEPT ![j] = "gone"]
        /\ lost' = [lost EXCEPT ![j] = {}] /\ UNCHANGED <<stage, step>>
    BY <1>5 DEF Expire
  <2>1. k # j /\ count'[k] = count[k] /\ key'[k] = key[k] /\ lost'[k] = lost[k]
    <3>1. k # j
      BY <1>t, <2>0 DEF TypeOK
    <3> QED
      BY <1>t, <2>0, <3>1 DEF TypeOK
  <2>2. PICK q \in Requests : Pending(q, k)
    BY <1>p, <2>1
  <2> QED
    BY <2>0, <2>1, <2>2 DEF Pending, Counted, Holders, Overshooting, Acquiring, KeyOf
<1>6. ASSUME UNCHANGED slotVars PROVE StaleCountsExpire'
  BY <1>t, <1>6 DEF slotVars, StaleCountsExpire, Counted, Holders, Overshooting, Acquiring, KeyOf
<1> QED
  BY <1>1, <1>2, <1>3, <1>4, <1>5, <1>6 DEF Next, RequestStep, Enter

\* Acquiring: Incr takes the slot or overshoots, DecrBack takes the overshot back.
LEMMA IncrBooks ==
  ASSUME Replies = {TRUE}, SlotsInv, TypeOK', NEW r \in Requests, Incr(r), UNCHANGED <<lost, outlasted>>
  PROVE  Books' /\ HoldersStep
<1>t. TypeOK /\ Books /\ CountIsHolders /\ HoldersBounded /\ NeverOvercounts
  BY DEF SlotsInv, Books
<1>d. PICK k \in Keys : k = KeyOf(r)
  BY KeyType
<1>k. count' = [count EXCEPT ![k] = @ + 1] /\ count'[k] = count[k] + 1
  <2>1. Count(k, 1, TRUE)
    BY <1>d DEF Incr
  <2> QED
    BY <1>t, <2>1, Counting
<1>n. count[k] \in Int /\ MaxConcurrent[k] \in Nat
  BY <1>t DEF TypeOK
<1>s. /\ OnlyStep(r) /\ Acquiring(r) /\ UNCHANGED stage
      /\ step[r] = "incr"
      /\ step'[r] = IF count[k] + 1 <= MaxConcurrent[k] THEN "expire" ELSE "back"
  BY <1>t, <1>d DEF Incr, Answer, OnlyStep, TypeOK
<1>l. r \notin lost[k]
  BY <1>t, <1>s DEF TypeOK, Acquiring
<1>1. r \notin Counted(k)
  BY <1>d, <1>s, <1>l DEF Counted, Holders, Overshooting, Acquiring, KeyOf
<1>2. Counted(k)' = Counted(k) \cup {r}
  <2>1. r \in Counted(k)'
    BY <1>d, <1>s DEF Counted, Holders, Overshooting, Acquiring, KeyOf
  <2>2. Counted(k)' \subseteq Requests /\ Counted(k) \subseteq Requests
    BY <1>t DEF TypeOK, Counted, Holders, Overshooting
  <2> QED
    BY <1>s, <2>1, <2>2, OthersStay DEF Counted
<1>3. \A j \in Keys : j # k => Holders(j)' = Holders(j) /\ Overshooting(j)' = Overshooting(j)
  BY <1>d, <1>s DEF OnlyStep, Holders, Overshooting, Acquiring, KeyOf
<1>4. \A j \in Keys : j # k => Counted(j)' = Counted(j)
  BY <1>3 DEF Counted
<1>5. /\ CountIsHolders' /\ NeverOvercounts'
      /\ Cardinality(Counted(k)') = Cardinality(Counted(k)) + 1
  BY <1>t, <1>k, <1>1, <1>2, <1>4, BooksKept
<1>6. CASE count[k] + 1 <= MaxConcurrent[k]
  <2>1. r \notin Holders(k) /\ Holders(k)' = Holders(k) \cup {r}
    BY <1>d, <1>s, <1>6 DEF OnlyStep, Holders, Acquiring, KeyOf
  <2>2. /\ IsFiniteSet(Holders(k)) /\ Cardinality(Holders(k)) \in Nat
        /\ Cardinality(Holders(k)) <= Cardinality(Counted(k)) /\ Cardinality(Counted(k)) \in Nat
    BY <1>t, CountedFinite
  <2>3. Cardinality(Holders(k)') = Cardinality(Holders(k)) + 1
    BY <2>1, <2>2, FS_AddElement
  <2>4. k \in outlasted \/ count[k] = Cardinality(Counted(k))
    BY <1>t DEF CountIsHolders
  <2>5. k \in outlasted \/ Cardinality(Holders(k)) < MaxConcurrent[k]
    BY <1>6, <1>n, <2>2, <2>4
  <2>6. k \in outlasted \/ Cardinality(Holders(k)') <= MaxConcurrent[k]
    BY <1>n, <2>2, <2>3, <2>5
  <2>7. HoldersBounded'
    BY <1>t, <1>3, <2>6 DEF HoldersBounded
  <2>8. HoldersStep
    BY <1>3, <2>1, <2>5 DEF HoldersStep, OthersAsBefore
  <2> QED
    BY <1>5, <2>7, <2>8 DEF Books
<1>7. CASE ~(count[k] + 1 <= MaxConcurrent[k])
  <2>1. \A j \in Keys : Holders(j)' = Holders(j)
    BY <1>s, <1>7 DEF OnlyStep, Holders, Acquiring, KeyOf
  <2> QED
    BY <1>t, <1>5, <2>1 DEF Books, HoldersBounded, HoldersStep
<1> QED
  BY <1>6, <1>7

LEMMA DecrBackBooks ==
  ASSUME Replies = {TRUE}, SlotsInv, TypeOK', NEW r \in Requests, DecrBack(r), UNCHANGED <<lost, outlasted>>
  PROVE  Books' /\ HoldersStep
<1>t. TypeOK /\ CountIsHolders /\ HoldersBounded /\ NeverOvercounts
  BY DEF SlotsInv, Books
<1>d. PICK k \in Keys : k = KeyOf(r)
  BY KeyType
<1>k. count' = [count EXCEPT ![k] = @ + -1]
  <2>1. Count(k, -1, TRUE)
    BY <1>d DEF DecrBack
  <2> QED
    BY <1>t, <2>1, Counting
<1>s. OnlyStep(r) /\ Acquiring(r) /\ UNCHANGED stage /\ step[r] = "back" /\ step'[r] = "get"
  BY <1>t DEF DecrBack, OnlyStep, TypeOK
<1>1. r \in Counted(k)
  BY <1>d, <1>s DEF Counted, Overshooting
<1>2. r \notin lost[k]
  BY <1>t, <1>s DEF TypeOK, Acquiring
<1>3. \A j \in Keys : Holders(j)' = Holders(j)
  BY <1>s DEF OnlyStep, Holders, Acquiring, KeyOf
<1>4. \A j \in Keys : j # k => Overshooting(j)' = Overshooting(j)
  BY <1>d, <1>s DEF OnlyStep, Overshooting, Acquiring, KeyOf
<1>5. Overshooting(k)' = Overshooting(k) \ {r}
  BY <1>d, <1>s DEF OnlyStep, Overshooting, Acquiring, KeyOf
<1>6. r \notin Holders(k)
  BY <1>d, <1>s DEF Holders, Acquiring, KeyOf
<1>7. Counted(k)' = Counted(k) \ {r} /\ \A j \in Keys : j # k => Counted(j)' = Counted(j)
  BY <1>2, <1>3, <1>4, <1>5, <1>6 DEF Counted
<1>8. CountIsHolders' /\ NeverOvercounts'
  BY <1>t, <1>k, <1>1, <1>7, BooksKept
<1> QED
  BY <1>t, <1>3, <1>8 DEF Books, HoldersBounded, HoldersStep

\* Releasing leaves the holders of the key, and what it counts, without the request.
LEMMA ReleaseHolders ==
  ASSUME TypeOK, NEW r \in Requests, Releasing(r), step[r] \in {"get", "reset"},
         UNCHANGED <<lost, outlasted>>, OnlyStep(r), step'[r] \in {"get", "reset"},
         NEW k \in Keys, k = KeyOf(r), stage'[r] = AfterRelease(stage[r])
  PROVE  /\ r \in Holders(k) /\ Holders(k)' = Holders(k) \ {r}
         /\ r \in Counted(k) /\ Counted(k)' = Counted(k) \ {r}
         /\ \A j \in Keys : j # k => Holders(j)' = Holders(j) /\ Counted(j)' = Counted(j)
<1>g. \/ stage[r] = "dropUser" /\ stage'[r] = "idle" /\ k = UserOf[r]
      \/ stage[r] = "running" /\ stage'[r] = "exitGlobal" /\ k = UserOf[r]
      \/ stage[r] = "exitGlobal" /\ stage'[r] = "idle" /\ k = Global
  BY DEF Releasing, AfterRelease, KeyOf
<1>1. r \in Holders(k)
  BY <1>g DEF Holders
<1>2. r \notin Holders(k)'
  BY <1>g DEF Holders, Acquiring
<1>3. Holders(k)' = Holders(k) \ {r}
  BY <1>1, <1>2, OthersStay DEF Holders
<1>4. \A j \in Keys : j # k => Holders(j)' = Holders(j)
  BY <1>g DEF OnlyStep, Holders, Acquiring, KeyOf
<1>5. \A j \in Keys : Overshooting(j)' = Overshooting(j)
  BY <1>g DEF OnlyStep, Overshooting, Acquiring, KeyOf
<1>6. r \notin lost[k] /\ r \notin Overshooting(k)
  BY <1>g DEF TypeOK, Overshooting, Acquiring
<1> QED
  BY <1>1, <1>3, <1>4, <1>5, <1>6 DEF Counted

LEMMA ReleaseBooks ==
  ASSUME Replies = {TRUE}, SlotsInv, TypeOK', NEW r \in Requests, Release(r) \/ ResetCount(r),
         UNCHANGED <<lost, outlasted>>
  PROVE  Books' /\ HoldersStep
<1>t. TypeOK /\ NoReset /\ Books /\ CountIsHolders /\ HoldersBounded /\ NeverOvercounts
  BY DEF SlotsInv, Books
<1>d. PICK k \in Keys : k = KeyOf(r)
  BY KeyType
<1>n. /\ IsFiniteSet(Holders(k)) /\ Cardinality(Holders(k)) \in Nat
      /\ IsFiniteSet(Counted(k)) /\ Cardinality(Counted(k)) \in Nat
      /\ MaxConcurrent[k] \in Nat /\ count[k] \in Int /\ count[k] <= Cardinality(Counted(k))
  BY <1>t, CountedFinite DEF TypeOK, NeverOvercounts
<1>r. Release(r) => count' = [count EXCEPT ![k] = @ + -1] /\ count'[k] = count[k] - 1
  <2> SUFFICES ASSUME Release(r) PROVE count' = [count EXCEPT ![k] = @ + -1] /\ count'[k] = count[k] - 1
    OBVIOUS
  <2>1. Count(k, -1, TRUE)
    BY <1>d DEF Release
  <2> QED
    BY <1>t, <1>n, <2>1, Counting
<1>s. /\ OnlyStep(r) /\ Releasing(r) /\ step[r] \in {"get", "reset"} /\ step'[r] \in {"get", "reset"}
      /\ \/ UNCHANGED stage /\ Release(r) /\ step[r] = "get" /\ step'[r] = "reset"
         \/ stage'[r] = AfterRelease(stage[r])
  BY <1>t DEF Release, ResetCount, Stage, OnlyStep, TypeOK
<1>1. ASSUME Release(r), k \notin outlasted PROVE Books' /\ HoldersStep
  <2>1. count' = [count EXCEPT ![k] = @ + -1] /\ stage'[r] = AfterRelease(stage[r])
    BY <1>t, <1>1, <1>d, ReleaseCounts DEF Stage, TypeOK
  <2>2. /\ r \in Holders(k) /\ Holders(k)' = Holders(k) \ {r}
        /\ r \in Counted(k) /\ Counted(k)' = Counted(k) \ {r}
        /\ \A j \in Keys : j # k => Holders(j)' = Holders(j) /\ Counted(j)' = Counted(j)
    BY <1>t, <1>d, <1>s, <2>1, ReleaseHolders
  <2>3. CountIsHolders' /\ NeverOvercounts'
    BY <1>t, <2>1, <2>2, BooksKept
  <2>4. Cardinality(Holders(k)') = Cardinality(Holders(k)) - 1
    BY <1>n, <2>2, FS_RemoveElement
  <2>5. HoldersBounded'
    <3> SUFFICES ASSUME NEW j \in Keys, j \notin outlasted PROVE Cardinality(Holders(j)') <= MaxConcurrent[j]
      BY DEF HoldersBounded
    <3>1. Cardinality(Holders(j)) <= MaxConcurrent[j]
      BY <1>t DEF HoldersBounded
    <3>2. CASE j = k
      BY <1>n, <2>4, <3>1, <3>2
    <3>3. CASE j # k
      BY <2>2, <3>1, <3>3
    <3> QED
      BY <3>2, <3>3
  <2>6. HoldersStep
    BY <2>2 DEF HoldersStep, OthersAsBefore
  <2> QED
    BY <2>3, <2>5, <2>6 DEF Books
<1>2. ASSUME k \in outlasted PROVE Books' /\ HoldersStep
  <2>1. \A j \in Keys : j # k => count'[j] = count[j]
    BY <1>t, <1>d DEF Release, ResetCount, Count, TypeOK
  <2>2. \/ count'[k] = count[k] - 1
        \/ count'[k] = 0 /\ stage'[r] = AfterRelease(stage[r])
    BY <1>t, <1>d, <1>r DEF ResetCount, Stage, TypeOK
  <2>3. CASE UNCHANGED stage /\ Release(r) /\ step[r] = "get" /\ step'[r] = "reset"
    <3>1. \A j \in Keys : Holders(j)' = Holders(j) /\ Overshooting(j)' = Overshooting(j)
      BY <1>s, <2>3 DEF OnlyStep, Holders, Overshooting, Releasing, Acquiring, KeyOf
    <3>2. \A j \in Keys : Counted(j)' = Counted(j)
      BY <3>1 DEF Counted
    <3>3. count'[k] <= Cardinality(Counted(k)')
      BY <1>n, <1>r, <2>3, <3>2
    <3> QED
      BY <1>t, <1>2, <2>1, <3>1, <3>2, <3>3, OutlastedKey DEF HoldersStep
  <2>4. CASE stage'[r] = AfterRelease(stage[r])
    <3>1. /\ r \in Holders(k) /\ Holders(k)' = Holders(k) \ {r}
          /\ r \in Counted(k) /\ Counted(k)' = Counted(k) \ {r}
          /\ \A j \in Keys : j # k => Holders(j)' = Holders(j) /\ Counted(j)' = Counted(j)
      BY <1>t, <1>d, <1>s, <2>4, ReleaseHolders
    <3>2. Cardinality(Counted(k)') = Cardinality(Counted(k)) - 1 /\ Cardinality(Counted(k)') \in Nat
      <4>1. Cardinality(Counted(k)') = Cardinality(Counted(k)) - 1
        BY <1>n, <3>1, FS_RemoveElement
      <4>2. IsFiniteSet(Counted(k)')
        BY <1>n, <3>1, FS_RemoveElement
      <4> QED
        BY <4>1, <4>2, FS_CardinalityType
    <3>3. count'[k] <= Cardinality(Counted(k)')
      BY <1>n, <2>2, <3>2
    <3>4. Books'
      BY <1>t, <1>2, <2>1, <3>1, <3>3, OutlastedKey
    <3> QED
      BY <3>1, <3>4 DEF HoldersStep, OthersAsBefore
  <2> QED
    BY <1>s, <2>3, <2>4
<1>3. ASSUME ResetCount(r) PROVE k \in outlasted
  BY <1>t, <1>3, <1>d DEF NoReset, ResetCount
<1> QED
  BY <1>1, <1>2, <1>3

\* Everything else that requests do leaves the counters.
LEMMA OtherBooks ==
  ASSUME SlotsInv, NEW r \in Requests, UNCHANGED <<lost, outlasted>>,
         Enter(r) \/ GetCount(r) \/ SetExpiry(r) \/ TimeOut(r)
  PROVE  Books' /\ HoldersStep
<1>t. TypeOK /\ Books
  BY DEF SlotsInv
<1>s. /\ UNCHANGED count /\ OnlyStep(r)
      /\ \/ stage[r] = "idle" /\ stage'[r] = "user" /\ step'[r] = step[r]
         \/ Acquiring(r) /\ stage'[r] = stage[r] /\ step[r] = "get" /\ step'[r] = "incr"
         \/ stage[r] = "user" /\ step[r] = "expire" /\ stage'[r] = "global" /\ step'[r] = "get"
         \/ stage[r] = "global" /\ step[r] = "expire" /\ stage'[r] = "running" /\ step'[r] = "get"
         \/ stage[r] = "user" /\ stage'[r] = "idle" /\ step[r] = "get" /\ step'[r] = "get"
         \/ stage[r] = "global" /\ stage'[r] = "dropUser" /\ step[r] = "get" /\ step'[r] = "get"
  BY <1>t DEF Enter, GetCount, SetExpiry, Acquired, TimeOut, Acquiring, OnlyStep, Stage, TypeOK
<1>m. step[r] \in {"back", "expire"} => Acquiring(r) \/ stage[r] = "dead"
  BY <1>t DEF TypeOK
<1>3. \A k \in Keys : Holders(k)' = Holders(k) /\ Overshooting(k)' = Overshooting(k)
  <2> SUFFICES ASSUME NEW k \in Keys PROVE Holders(k)' = Holders(k) /\ Overshooting(k)' = Overshooting(k)
    OBVIOUS
  <2>h. r \in Holders(k)' <=> r \in Holders(k)
    BY <1>s, <1>m DEF Holders, Acquiring, KeyOf
  <2>o. r \in Overshooting(k)' <=> r \in Overshooting(k)
    BY <1>s, <1>m DEF Overshooting, Acquiring, KeyOf
  <2>1. /\ Holders(k) \subseteq Requests /\ Holders(k)' \subseteq Requests
        /\ Overshooting(k) \subseteq Requests /\ Overshooting(k)' \subseteq Requests
    BY DEF Holders, Overshooting
  <2>2. Holders(k)' = Holders(k)
    <3>1. ASSUME NEW q \in Requests PROVE q \in Holders(k)' <=> q \in Holders(k)
      <4>1. CASE q = r
        BY <2>h, <4>1
      <4>2. CASE q # r
        BY <1>s, <4>2, OthersStay
      <4> QED
        BY <4>1, <4>2
    <3> QED
      BY <2>1, <3>1, Zenon
  <2>3. Overshooting(k)' = Overshooting(k)
    <3>1. ASSUME NEW q \in Requests PROVE q \in Overshooting(k)' <=> q \in Overshooting(k)
      <4>1. CASE q = r
        BY <2>o, <4>1
      <4>2. CASE q # r
        BY <1>s, <4>2, OthersStay
      <4> QED
        BY <4>1, <4>2
    <3> QED
      BY <2>1, <3>1, Zenon
  <2> QED
    BY <2>2, <2>3
<1>4. \A k \in Keys : Counted(k)' = Counted(k)
  BY <1>3 DEF Counted
<1> QED
  BY <1>t, <1>s, <1>3, <1>4, NothingTaken DEF HoldersStep

\* A death moves the request from the holders to the lost: the counters stay right.
LEMMA DeathBooks ==
  ASSUME SlotsInv, NEW r \in Requests, Die(r)
  PROVE  Books' /\ HoldersStep
<1>t. TypeOK /\ CountIsHolders /\ HoldersBounded /\ NeverOvercounts
  BY DEF SlotsInv, Books
<1>s. /\ UNCHANGED <<count, outlasted>> /\ OnlyStep(r) /\ stage'[r] = "dead"
      /\ \A k \in Keys : lost'[k] = IF r \in Counted(k) THEN lost[k] \cup {r} ELSE lost[k]
  BY <1>t DEF Die, Stage, OnlyStep, TypeOK
<1>1. \A k \in Keys : r \notin Holders(k)' /\ r \notin Overshooting(k)'
  BY <1>s DEF Holders, Overshooting, Acquiring
<1>2. ASSUME NEW k \in Keys
      PROVE  Holders(k)' = Holders(k) \ {r} /\ Overshooting(k)' = Overshooting(k) \ {r}
  <2>1. /\ Holders(k) \subseteq Requests /\ Holders(k)' \subseteq Requests
        /\ Overshooting(k) \subseteq Requests /\ Overshooting(k)' \subseteq Requests
    BY DEF Holders, Overshooting
  <2> QED
    BY <1>1, <1>s, <2>1, OthersStay
<1>3. ASSUME NEW k \in Keys PROVE Counted(k)' = Counted(k)
  BY <1>2, <1>3, <1>s DEF Counted
<1>4. CountIsHolders' /\ NeverOvercounts'
  BY <1>t, <1>s, <1>3 DEF CountIsHolders, NeverOvercounts
<1>5. ASSUME NEW k \in Keys PROVE Cardinality(Holders(k)') <= Cardinality(Holders(k)) /\ Cardinality(Holders(k)') \in Nat
  <2>1. Holders(k)' \subseteq Holders(k) /\ IsFiniteSet(Holders(k))
    BY <1>t, <1>2, <1>5, CountedFinite
  <2> QED
    BY <2>1, FS_Subset, FS_CardinalityType
<1>6. HoldersBounded'
  <2> SUFFICES ASSUME NEW k \in Keys, k \notin outlasted PROVE Cardinality(Holders(k)') <= MaxConcurrent[k]
    BY <1>s DEF HoldersBounded
  <2>1. Cardinality(Holders(k)) <= MaxConcurrent[k] /\ Cardinality(Holders(k)) \in Nat /\ MaxConcurrent[k] \in Nat
    BY <1>t, CountedFinite DEF HoldersBounded
  <2> QED
    BY <1>5, <2>1
<1>7. HoldersStep
  BY <1>s, <1>2 DEF HoldersStep
<1> QED
  BY <1>4, <1>6, <1>7 DEF Books

LEMMA ExpiryBooks ==
  ASSUME SlotsInv, TypeOK', NEW k \in Keys, Expire(k)
  PROVE  Books' /\ HoldersStep
<1>t. TypeOK /\ CountIsHolders /\ HoldersBounded /\ NeverOvercounts
  BY DEF SlotsInv, Books
<1>1. \A j \in Keys : Holders(j)' = Holders(j) /\ Overshooting(j)' = Overshooting(j)
  BY DEF Expire, Holders, Overshooting, Acquiring, KeyOf
<1>2. /\ count'[k] = 0 /\ lost'[k] = {}
      /\ \A j \in Keys : j # k => count'[j] = count[j] /\ Counted(j)' = Counted(j)
  BY <1>t, <1>1 DEF Expire, TypeOK, Counted
<1>3. outlasted \subseteq outlasted' /\ (k \notin outlasted' => Counted(k)' = {})
  BY <1>1, <1>2 DEF Expire, Counted
<1>4. CountIsHolders'
  <2> SUFFICES ASSUME NEW j \in Keys, j \notin outlasted' PROVE count'[j] = Cardinality(Counted(j)')
    BY DEF CountIsHolders
  <2>1. CASE j = k
    BY <1>2, <1>3, <2>1, FS_EmptySet
  <2>2. CASE j # k
    BY <1>t, <1>2, <1>3, <2>2 DEF CountIsHolders
  <2> QED
    BY <2>1, <2>2
<1>5. HoldersBounded'
  BY <1>t, <1>1, <1>3 DEF HoldersBounded
<1>6. NeverOvercounts'
  <2>1. Cardinality(Counted(k)') \in Nat
    <3>1. Counted(k)' \subseteq Counted(k)
      BY <1>1, <1>2 DEF Counted
    <3> QED
      BY <1>t, <3>1, CountedFinite, FS_Subset, FS_CardinalityType
  <2> QED
    BY <1>t, <1>2, <2>1 DEF NeverOvercounts
<1>7. HoldersStep
  BY <1>1 DEF HoldersStep, Expire
<1> QED
  BY <1>4, <1>5, <1>6, <1>7 DEF Books

LEMMA SlotsStep ==
  ASSUME Replies = {TRUE}
  PROVE  SlotsInv /\ [Next]_slotVars => SlotsInv' /\ HoldersStep
<1> SUFFICES ASSUME SlotsInv, [Next]_slotVars PROVE SlotsInv' /\ HoldersStep
  OBVIOUS
<1>1. TypeOK' /\ NoReset' /\ GoneIsEmpty' /\ StaleCountsExpire'
  BY TypeStep, NoResetStep, GoneStep, StaleStep DEF SlotsInv
<1>2. ASSUME NEW r \in Requests, RequestStep(r) \/ Enter(r) PROVE Books' /\ HoldersStep
  BY <1>1, <1>2, IncrBooks, DecrBackBooks, ReleaseBooks, OtherBooks DEF RequestStep, Enter
<1>3. ASSUME NEW r \in Requests, Die(r) PROVE Books' /\ HoldersStep
  BY <1>3, DeathBooks
<1>4. ASSUME NEW k \in Keys, Expire(k) PROVE Books' /\ HoldersStep
  BY <1>1, <1>4, ExpiryBooks
<1>5. ASSUME UNCHANGED slotVars PROVE Books' /\ HoldersStep
  <2>1. UNCHANGED <<count, outlasted>> /\ \A k \in Keys : Holders(k)' = Holders(k) /\ Counted(k)' = Counted(k)
    BY <1>5 DEF slotVars, Holders, Overshooting, Counted, Acquiring, KeyOf
  <2> QED
    BY <2>1, NothingTaken DEF SlotsInv, HoldersStep
<1> QED
  BY <1>1, <1>2, <1>3, <1>4, <1>5 DEF Next, SlotsInv

LEMMA SameCardinality == \A S : Promise!Cardinality(S) = Cardinality(S)
BY DEF Promise!Cardinality, Cardinality

\* Step by step the detailed specification is the abstract one.
LEMMA StepIsSemaphoreStep ==
  HoldersStep => [Promise!Next]_<<[k \in Keys |-> Holders(k)], outlasted>>
<1>1. CASE /\ \A k \in Keys : Holders(k)' = Holders(k)
           /\ outlasted' = outlasted \/ \E k \in Keys : outlasted' = outlasted \cup {k}
  <2>1. UNCHANGED [k \in Keys |-> Holders(k)]
    BY <1>1 DEF Keys
  <2>2. CASE outlasted' = outlasted
    BY <2>1, <2>2
  <2>3. CASE \E k \in Keys : outlasted' = outlasted \cup {k}
    BY <2>1, <2>3 DEF Promise!Next, Promise!Outlast
  <2> QED
    BY <1>1, <2>2, <2>3
<1>2. ASSUME UNCHANGED outlasted, NEW r \in Requests, NEW k \in Keys, OthersAsBefore(k),
             \/ /\ r \notin Holders(k) /\ Holders(k)' = Holders(k) \cup {r}
                /\ k \in outlasted \/ Cardinality(Holders(k)) < MaxConcurrent[k]
             \/ r \in Holders(k) /\ Holders(k)' = Holders(k) \ {r}
      PROVE  Promise!Next
  <2>1. CASE /\ r \notin Holders(k) /\ Holders(k)' = Holders(k) \cup {r}
             /\ k \in outlasted \/ Cardinality(Holders(k)) < MaxConcurrent[k]
    <3>1. Promise!Acquire(r, k)
      BY <1>2, <2>1, SameCardinality DEF Promise!Acquire, OthersAsBefore
    <3> QED
      BY <3>1 DEF Promise!Next
  <2>2. CASE r \in Holders(k) /\ Holders(k)' = Holders(k) \ {r}
    <3>1. Promise!Release(r, k)
      BY <1>2, <2>2 DEF Promise!Release, OthersAsBefore
    <3> QED
      BY <3>1 DEF Promise!Next
  <2> QED
    BY <1>2, <2>1, <2>2
<1>3. ASSUME UNCHANGED outlasted, NEW r \in Requests, \A k \in Keys : Holders(k)' = Holders(k) \ {r}
      PROVE  Promise!Next
  BY <1>3 DEF Promise!Next, Promise!Crash
<1> QED
  BY <1>1, <1>2, <1>3 DEF HoldersStep

\* With a Redis that replies the counters are exact, and neither a user nor the system
\* ever runs more analyses than its limit, until a key expires in use; and even then
\* no count stays above what is held.
THEOREM SlotsAreBounded ==
  ASSUME Replies = {TRUE}
  PROVE  Spec => [](TypeOK /\ CountIsHolders /\ HoldersBounded /\ NeverOvercounts /\ StaleCountsExpire)
<1>1. Init => SlotsInv
  BY SlotsInit
<1>2. SlotsInv /\ [Next]_slotVars => SlotsInv'
  BY SlotsStep
<1>3. SlotsInv => TypeOK /\ CountIsHolders /\ HoldersBounded /\ NeverOvercounts /\ StaleCountsExpire
  BY DEF SlotsInv, Books
<1> QED
  BY <1>1, <1>2, <1>3, PTL DEF Spec

\* The semaphores over Redis implement the atomic ones.
THEOREM SlotsAreSemaphores ==
  ASSUME Replies = {TRUE} PROVE Spec => IsSemaphore
<1>1. Init => Promise!Init
  BY DEF Init, Promise!Init, Holders, Acquiring
<1>2. SlotsInv /\ [Next]_slotVars => SlotsInv' /\ [Promise!Next]_<<[k \in Keys |-> Holders(k)], outlasted>>
  BY SlotsStep, StepIsSemaphoreStep
<1> QED
  BY SlotsInit, <1>1, <1>2, PTL DEF Spec, IsSemaphore, Promise!Spec
=============================================================================
