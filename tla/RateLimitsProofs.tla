-------------------------- MODULE RateLimitsProofs --------------------------
(***************************************************************************)
(* The rate limits, for any number of requests, any limits and any windows.*)
(* A counter is as large as the set of requests its window counted, less   *)
(* those taken back; from that, and from where each request stands, follow *)
(* the bound on the requests let pass and the end of every refusal.        *)
(***************************************************************************)
EXTENDS RateLimits, FiniteSetTheorems, TLAPS

\* The counters that a request at station p may still be counted by.
Ahead(p) ==
  {c \in Counters :
     \/ p \in {"idle", c}
     \/ p = "analysis" /\ c = "pr"
     \/ p = "regHour" /\ c = "regDay"
     \/ p = "general" /\ c = "burst"}

\* The request that made the pull-request counter, until its EXPIRE.
Waiting(c) == {r \in Requests : c = "pr" /\ req[r].pc = "expire"}

\* The requests that have, or will be given, a place in the window.
Placed(c) == win[c].passed \cup Waiting(c)

PlacesAreCounted ==
  /\ \A c \in Counters : Placed(c) \subseteq win[c].counted
  /\ \A c \in Counters \ {"analysis"} : win[c].refunded = {}
  /\ \A r \in win["analysis"].refunded : req[r].pc = "done"

NotYetCounted == \A r \in Requests : \A c \in Ahead(req[r].pc) : r \notin win[c].counted

OneIsPending ==
  \A r \in Waiting("pr") : counter["pr"].left = Forever /\ Waiting("pr") = {r}

PlacesBounded ==
  \A c \in Counters :
    Cardinality(Placed(c) \ win[c].refunded)
      <= Max[c] + Cardinality(win[c].refunded \ Placed(c))

RateInv ==
  /\ TypeOK
  /\ PlacesAreCounted
  /\ NotYetCounted
  /\ OneIsPending
  /\ CountsRequests
  /\ PlacesBounded
  /\ RefusalEnds
  /\ PRWindowEnds

-----------------------------------------------------------------------------
(* Cardinalities.                                                          *)

\* When no more than m of C are left after as many as Q has are taken from it, then no
\* more than m of its subset P are outside Q, but for those of Q outside P.
LEMMA BoundFromCount ==
  ASSUME NEW C, NEW P, NEW Q, NEW m \in Nat, IsFiniteSet(C), IsFiniteSet(Q),
         P \subseteq C, Cardinality(C) - Cardinality(Q) <= m
  PROVE  Cardinality(P \ Q) <= m + Cardinality(Q \ P)
  <1>1. /\ IsFiniteSet(C \ Q) /\ IsFiniteSet(Q \ C)
        /\ Cardinality(C \ Q) = Cardinality(C) - Cardinality(C \cap Q)
        /\ Cardinality(Q \ C) = Cardinality(Q) - Cardinality(Q \cap C)
    BY FS_Difference
  <1>2. C \cap Q = Q \cap C
    OBVIOUS
  <1>3. IsFiniteSet(Q \ P)
    BY FS_Difference
  <1>4. /\ IsFiniteSet(P \ Q)
        /\ Cardinality(P \ Q) <= Cardinality(C \ Q)
    BY <1>1, FS_Subset, P \ Q \in SUBSET (C \ Q)
  <1>5. Cardinality(Q \ C) <= Cardinality(Q \ P)
    BY <1>3, FS_Subset, Q \ C \in SUBSET (Q \ P)
  <1>6. /\ Cardinality(C) \in Nat /\ Cardinality(Q) \in Nat /\ Cardinality(C \cap Q) \in Nat
        /\ Cardinality(P \ Q) \in Nat /\ Cardinality(Q \ P) \in Nat
    <2>1. IsFiniteSet(C \cap Q)
      BY FS_Subset, C \cap Q \in SUBSET C
    <2>2. QED
      BY <1>3, <1>4, <2>1, FS_CardinalityType
  <1>7. QED
    BY <1>1, <1>2, <1>4, <1>5, <1>6

\* The bound survives the loss of places and further refunds.
LEMMA BoundIsMonotone ==
  ASSUME NEW P, NEW Q, NEW P1, NEW Q1, NEW m \in Nat, IsFiniteSet(P), IsFiniteSet(Q1),
         P1 \subseteq P, Q \subseteq Q1,
         Cardinality(P \ Q) <= m + Cardinality(Q \ P)
  PROVE  Cardinality(P1 \ Q1) <= m + Cardinality(Q1 \ P1)
  <1>1. IsFiniteSet(P \ Q) /\ IsFiniteSet(Q1 \ P1)
    BY FS_Difference
  <1>2. /\ IsFiniteSet(P1 \ Q1)
        /\ Cardinality(P1 \ Q1) <= Cardinality(P \ Q)
    BY <1>1, FS_Subset, P1 \ Q1 \in SUBSET (P \ Q)
  <1>3. /\ IsFiniteSet(Q \ P)
        /\ Cardinality(Q \ P) <= Cardinality(Q1 \ P1)
    BY <1>1, FS_Subset, Q \ P \in SUBSET (Q1 \ P1)
  <1>4. QED
    BY <1>1, <1>2, <1>3, FS_CardinalityType

LEMMA WindowsAreFinite ==
  ASSUME TypeOK, NEW c \in Counters
  PROVE  /\ IsFiniteSet(win[c].counted) /\ IsFiniteSet(win[c].passed)
         /\ IsFiniteSet(win[c].refunded) /\ IsFiniteSet(Placed(c))
  <1>1. /\ win[c].counted \in SUBSET Requests /\ win[c].passed \in SUBSET Requests
        /\ win[c].refunded \in SUBSET Requests /\ Placed(c) \in SUBSET Requests
    BY DEF TypeOK, Placed, Waiting
  <1>2. QED
    BY <1>1, RequestsFinite, FS_Subset

-----------------------------------------------------------------------------
(* Types.                                                                  *)

LEMMA TypeInit == Init => TypeOK
  BY MaxType, WindowType DEF Init, TypeOK, Absent, NoRequests, Stations, Counters, Forever

ReqType == req \in [Requests -> [kind : Kinds, pc : Stations]]

WinType ==
  win \in [Counters -> [counted : SUBSET Requests, passed : SUBSET Requests,
                        refunded : SUBSET Requests]]

LEMMA GotoType ==
  ASSUME ReqType, NEW r \in Requests, NEW s \in Stations, Goto(r, s)
  PROVE  /\ ReqType'
         /\ req'[r] = [kind |-> req[r].kind, pc |-> s]
         /\ \A q \in Requests \ {r} : req'[q] = req[q]
  BY DEF ReqType, Goto

LEMMA StationsOfCounters ==
  ASSUME ReqType, NEW r \in Requests, NEW c \in Counters
  PROVE  /\ FirstCounter(req[r].kind) \in Counters
         /\ Within(r, c) \in Stations /\ Over(c) \in Stations
         /\ Counters \subseteq Stations
         /\ {"expire", "handle", "refund", "decr", "refused", "done"} \subseteq Stations
  BY DEF ReqType, FirstCounter, Within, Over, Kinds, Counters, Stations

CounterType ==
  /\ counter \in [Counters -> [n : Int, left : Int]]
  /\ \A c \in Counters : counter[c].left \in {Forever} \cup 0..Window[c]

\* What a command on one counter leaves.
LEMMA OneCounter ==
  ASSUME CounterType, NEW c \in Counters, NEW i \in Int, NEW l \in {Forever} \cup 0..Window[c],
         counter' = [counter EXCEPT ![c] = [n |-> i, left |-> l]]
  PROVE  /\ CounterType'
         /\ counter'[c] = [n |-> i, left |-> l]
         /\ \A d \in Counters \ {c} : counter'[d] = counter[d]
  BY WindowType DEF CounterType, Forever

LEMMA CountRequestType ==
  ASSUME CounterType, NEW c \in Counters, NEW l \in {Forever} \cup 0..Window[c],
         CountRequest(c, l)
  PROVE  /\ CounterType'
         /\ counter'[c] = [n |-> counter[c].n + 1, left |-> l]
         /\ \A d \in Counters \ {c} : counter'[d] = counter[d]
  <1>1. counter[c].n + 1 \in Int
    BY DEF CounterType
  <1>2. counter' = [counter EXCEPT ![c] = [n |-> counter[c].n + 1, left |-> l]]
    BY DEF CountRequest
  <1>3. QED
    BY <1>1, <1>2, OneCounter

LEMMA TypeStep == TypeOK /\ [Next]_rateVars => TypeOK'
  <1> SUFFICES ASSUME TypeOK, [Next]_rateVars PROVE TypeOK'
    OBVIOUS
  <1>p. "pr" \in Counters /\ "analysis" \in Counters
    BY DEF Counters
  <1>l. \A c \in Counters : Window[c] \in {Forever} \cup 0..Window[c]
    BY WindowType
  <1>m. (IF counter["pr"].n = 0 THEN Forever ELSE counter["pr"].left)
          \in {Forever} \cup 0..Window["pr"]
    BY <1>p DEF TypeOK
  <1>t. ReqType /\ WinType /\ CounterType
    BY DEF TypeOK, ReqType, WinType, CounterType
  <1>1. ASSUME NEW r \in Requests, Arrive(r) PROVE TypeOK'
    <2>1. ReqType'
      BY <1>1, <1>t, <1>p, StationsOfCounters, GotoType DEF Arrive
    <2>2. QED
      BY <1>1, <2>1 DEF TypeOK, Arrive, ReqType
  <1>2. ASSUME NEW r \in Requests, NEW c \in Counters, Increment(r, c) PROVE TypeOK'
    <2>1. ReqType'
      BY <1>2, <1>t, StationsOfCounters, GotoType DEF Increment
    <2>2. WinType'
      BY <1>2, <1>t DEF Increment, WinType
    <2>3. CountRequest(c, Window[c])
      BY <1>2 DEF Increment
    <2>4. QED
      BY <1>2, <1>l, <1>t, <2>1, <2>2, <2>3, CountRequestType
         DEF TypeOK, CounterType, Increment, ReqType, WinType
  <1>3. ASSUME NEW r \in Requests, NEW c \in Counters, IncrementFails(r, c) PROVE TypeOK'
    <2>1. ReqType'
      BY <1>3, <1>t, StationsOfCounters, GotoType DEF IncrementFails
    <2>2. WinType'
      BY <1>3, <1>t DEF IncrementFails, WinType
    <2>3. UNCHANGED counter \/ CountRequest(c, Window[c])
      BY <1>3 DEF IncrementFails, Unanswered
    <2>4. QED
      BY <1>3, <1>l, <1>t, <2>1, <2>2, <2>3, CountRequestType
         DEF TypeOK, CounterType, IncrementFails, ReqType, WinType
  <1>4. ASSUME NEW r \in Requests, PRIncrement(r) PROVE TypeOK'
    <2>1. ReqType'
      BY <1>4, <1>t, <1>p, StationsOfCounters, GotoType DEF PRIncrement
    <2>2. WinType'
      BY <1>4, <1>t, <1>p DEF PRIncrement, WinType
    <2>3. QED
      BY <1>4, <1>p, <1>m, <1>t, <2>1, <2>2, CountRequestType
         DEF TypeOK, CounterType, PRIncrement, PRCount, ReqType, WinType
  <1>5. ASSUME NEW r \in Requests, PRIncrementFails(r) PROVE TypeOK'
    <2>1. ReqType'
      BY <1>5, <1>t, <1>p, StationsOfCounters, GotoType DEF PRIncrementFails
    <2>2. lost' \subseteq Requests
      BY <1>5 DEF PRIncrementFails, TypeOK
    <2>w. WinType'
      BY <1>5, <1>t, <1>p DEF PRIncrementFails, WinType
    <2>3. UNCHANGED counter \/ PRCount
      BY <1>5 DEF PRIncrementFails
    <2>4. QED
      BY <1>5, <1>p, <1>m, <1>t, <2>1, <2>2, <2>w, <2>3, CountRequestType
         DEF TypeOK, CounterType, PRIncrementFails, PRCount, ReqType, WinType
  <1>6. ASSUME NEW r \in Requests, PRExpire(r) PROVE TypeOK'
    <2>1. ReqType'
      BY <1>6, <1>t, <1>p, StationsOfCounters, GotoType DEF PRExpire
    <2>2. WinType' /\ lost' \subseteq Requests
      BY <1>6, <1>t, <1>p DEF PRExpire, WinType, TypeOK
    <2>3. CounterType'
      <3>1. CASE counter' = [counter EXCEPT !["pr"].left = Window["pr"]]
        <4>1. counter' = [counter EXCEPT !["pr"] =
                            [n |-> counter["pr"].n, left |-> Window["pr"]]]
          <5>1. counter["pr"] \in [n : Int, left : Int]
            BY <1>t, <1>p DEF CounterType
          <5>2. [counter["pr"] EXCEPT !.left = Window["pr"]]
                  = [n |-> counter["pr"].n, left |-> Window["pr"]]
            BY <5>1
          <5>3. QED
            BY <3>1, <5>2
        <4>2. counter["pr"].n \in Int
          BY <1>t, <1>p DEF CounterType
        <4>3. QED
          BY <1>t, <1>p, <1>l, <4>1, <4>2, OneCounter
      <3>2. CASE UNCHANGED counter
        BY <1>t, <3>2 DEF CounterType
      <3>3. QED
        BY <1>6, <3>1, <3>2 DEF PRExpire
    <2>4. QED
      BY <1>6, <2>1, <2>2, <2>3 DEF TypeOK, PRExpire, ReqType, WinType, CounterType
  <1>7. ASSUME NEW r \in Requests, TurnAway(r) \/ Answer(r) \/ RefundRead(r) PROVE TypeOK'
    BY <1>7 DEF TypeOK, TurnAway, Answer, RefundRead, Goto, Stations
  <1>8. ASSUME NEW r \in Requests, RefundDecr(r) PROVE TypeOK'
    <2>1. ReqType'
      BY <1>8, <1>t, <1>p, StationsOfCounters, GotoType DEF RefundDecr
    <2>2. WinType'
      BY <1>8, <1>t, <1>p DEF RefundDecr, WinType
    <2>3. CounterType'
      <3>1. counter["analysis"].n - 1 \in Int
            /\ (IF counter["analysis"].left = 0 THEN Forever ELSE counter["analysis"].left)
                 \in {Forever} \cup 0..Window["analysis"]
        BY <1>t, <1>p DEF CounterType
      <3>2. CASE UNCHANGED counter
        BY <1>t, <3>2 DEF CounterType
      <3>3. CASE RefundTaken
        BY <1>t, <1>p, <3>1, <3>3, OneCounter DEF RefundTaken
      <3>4. QED
        BY <1>8, <3>2, <3>3 DEF RefundDecr
    <2>4. QED
      BY <1>8, <2>1, <2>2, <2>3 DEF TypeOK, RefundDecr, ReqType, WinType, CounterType
  <1>9. CASE Tick
    BY <1>9, WindowType DEF TypeOK, Tick, Expiring, Absent, NoRequests, Forever
  <1>10. CASE Restart
    BY <1>10 DEF TypeOK, Restart, Stations
  <1>11. CASE UNCHANGED rateVars
    BY <1>11 DEF TypeOK, rateVars
  <1>12. QED
    BY <1>1, <1>2, <1>3, <1>4, <1>5, <1>6, <1>7, <1>8, <1>9, <1>10, <1>11 DEF Next

-----------------------------------------------------------------------------
(* What a step does to one counter and its window.                         *)

Kept(c) == counter'[c] = counter[c] /\ win'[c] = win[c]

Counts(r, c) ==
  /\ counter'[c].n = counter[c].n + 1
  /\ counter'[c].left = IF c # "pr" THEN Window[c]
                        ELSE IF counter[c].n = 0 THEN Forever ELSE counter[c].left
  /\ win'[c].counted = win[c].counted \cup {r}
  /\ win'[c].refunded = win[c].refunded

Passes(r, c) ==
  /\ win'[c].passed = win[c].passed \cup {r}
  /\ counter'[c].n <= Max[c]

\* A request counted, with or without an answer, by a counter of the middleware.
LEMMA IncrementEffect ==
  ASSUME TypeOK, NEW r \in Requests, NEW c \in Counters, Increment(r, c) \/ IncrementFails(r, c)
  PROVE  /\ c # "pr" /\ req[r].pc = c /\ lost' = lost
         /\ \E s \in Stations \ {"idle", "expire"} :
              Goto(r, s) /\ c \notin Ahead(s) /\ Ahead(s) \subseteq Ahead(c)
         /\ \A d \in Counters \ {c} : Kept(d)
         /\ \/ Kept(c)
            \/ Counts(r, c) /\ (win'[c].passed = win[c].passed \/ Passes(r, c))
  <1> DEFINE Next2 == {"regDay", "pr", "handle", "burst", "refused"}
  <1>t. ReqType /\ WinType /\ CounterType /\ Window[c] \in {Forever} \cup 0..Window[c]
    BY WindowType DEF TypeOK, ReqType, WinType, CounterType
  <1>1. c # "pr" /\ req[r].pc = c /\ lost' = lost
    BY DEF Increment, IncrementFails
  <1>2. PICK s : s \in {Within(r, c), Over(c)} /\ Goto(r, s)
    BY DEF Increment, IncrementFails
  <1>3. s \in Stations \ {"idle", "expire"} /\ c \notin Ahead(s) /\ Ahead(s) \subseteq Ahead(c)
    <2>1. \/ c = "regHour" /\ s \in {"regDay", "refused"}
          \/ c = "analysis" /\ s \in {"pr", "handle", "refused"}
          \/ c = "general" /\ s \in {"handle", "burst"}
          \/ c \in {"contact", "regDay", "burst"} /\ s \in {"handle", "refused"}
      BY <1>1, <1>2 DEF Within, Over, Counters
    <2>2. QED
      BY <2>1 DEF Ahead, Counters, Stations
  <1>4. CASE counter' = counter /\ win' = win
    BY <1>1, <1>2, <1>3, <1>4 DEF Kept
  <1>5. CASE CountRequest(c, Window[c])
             /\ \/ win' = [win EXCEPT ![c].counted = @ \cup {r}]
                \/ /\ Fits(c)
                   /\ win' = [win EXCEPT ![c].counted = @ \cup {r}, ![c].passed = @ \cup {r}]
    <2>1. /\ counter'[c] = [n |-> counter[c].n + 1, left |-> Window[c]]
          /\ \A d \in Counters \ {c} : counter'[d] = counter[d]
      BY <1>t, <1>5, CountRequestType
    <2>2. /\ \A d \in Counters \ {c} : win'[d] = win[d]
          /\ win'[c].counted = win[c].counted \cup {r}
          /\ win'[c].refunded = win[c].refunded
          /\ \/ win'[c].passed = win[c].passed
             \/ Fits(c) /\ win'[c].passed = win[c].passed \cup {r}
      <3>1. win' = [win EXCEPT ![c].counted = @ \cup {r}] =>
              /\ \A d \in Counters \ {c} : win'[d] = win[d]
              /\ win'[c].counted = win[c].counted \cup {r}
              /\ win'[c].refunded = win[c].refunded
              /\ win'[c].passed = win[c].passed
        BY <1>t DEF WinType
      <3>2. win' = [win EXCEPT ![c].counted = @ \cup {r}, ![c].passed = @ \cup {r}] =>
              /\ \A d \in Counters \ {c} : win'[d] = win[d]
              /\ win'[c].counted = win[c].counted \cup {r}
              /\ win'[c].refunded = win[c].refunded
              /\ win'[c].passed = win[c].passed \cup {r}
        BY <1>t DEF WinType
      <3>3. QED
        BY <1>5, <3>1, <3>2
    <2>3. Counts(r, c) /\ \A d \in Counters \ {c} : Kept(d)
      BY <1>1, <2>1, <2>2 DEF Counts, Kept
    <2>4. win'[c].passed = win[c].passed \/ Passes(r, c)
      BY <2>1, <2>2 DEF Passes, Fits
    <2>5. QED
      BY <1>1, <1>2, <1>3, <2>3, <2>4
  <1>6. QED
    BY <1>4, <1>5 DEF Increment, IncrementFails, Unanswered

\* A pull-request analysis counted by its own limit: as the first one, which is to set the
\* time to live; as a later one; without an answer; or not at all.
LEMMA PRIncrementEffect ==
  ASSUME TypeOK, PlacesAreCounted, CountsRequests, NEW r \in Requests,
         PRIncrement(r) \/ PRIncrementFails(r)
  PROVE  /\ req[r].pc = "pr"
         /\ \A d \in Counters \ {"pr"} : Kept(d)
         /\ \/ /\ Goto(r, "expire") /\ lost' = lost
               /\ Counts(r, "pr") /\ win'["pr"].passed = win["pr"].passed
               /\ counter["pr"].n = 0
            \/ /\ Goto(r, "handle") \/ Goto(r, "refused")
               /\ lost' = lost
               /\ Counts(r, "pr") /\ (win'["pr"].passed = win["pr"].passed \/ Passes(r, "pr"))
               /\ counter["pr"].n # 0
            \/ Goto(r, "handle") /\ lost' = lost /\ Kept("pr")
            \/ /\ Goto(r, "handle")
               /\ lost' = IF counter["pr"].n = 0 THEN lost \cup {r} ELSE lost
               /\ Counts(r, "pr") /\ win'["pr"].passed = win["pr"].passed
  <1>p. "pr" \in Counters
    BY DEF Counters
  <1>t. WinType /\ CounterType
    BY DEF TypeOK, WinType, CounterType
  <1>1. counter["pr"].n = 0 => win["pr"].counted = {}
    <2>1. IsFiniteSet(win["pr"].counted) /\ win["pr"].refunded = {}
      BY <1>p, WindowsAreFinite DEF PlacesAreCounted
    <2>2. counter["pr"].n = Cardinality(win["pr"].counted)
      <3>1. Cardinality({}) = 0 /\ Cardinality(win["pr"].counted) \in Nat
        BY <2>1, FS_EmptySet, FS_CardinalityType
      <3>2. counter["pr"].n = Cardinality(win["pr"].counted) - Cardinality({})
        BY <1>p, <2>1 DEF CountsRequests
      <3>3. QED
        BY <3>1, <3>2
    <2>3. QED
      BY <2>1, <2>2, FS_EmptySet
  <1>2. ASSUME PRCount
        PROVE  /\ counter'["pr"].n = counter["pr"].n + 1
               /\ counter'["pr"].left =
                    IF counter["pr"].n = 0 THEN Forever ELSE counter["pr"].left
               /\ \A d \in Counters \ {"pr"} : counter'[d] = counter[d]
    <2>1. (IF counter["pr"].n = 0 THEN Forever ELSE counter["pr"].left)
            \in {Forever} \cup 0..Window["pr"]
      BY <1>p, <1>t DEF CounterType
    <2>2. QED
      <3>1. PICK l \in {Forever} \cup 0..Window["pr"] :
              /\ l = IF counter["pr"].n = 0 THEN Forever ELSE counter["pr"].left
              /\ CountRequest("pr", l)
        BY <1>2, <2>1 DEF PRCount
      <3>2. /\ counter'["pr"] = [n |-> counter["pr"].n + 1, left |-> l]
            /\ \A d \in Counters \ {"pr"} : counter'[d] = counter[d]
        BY <1>p, <1>t, <3>1, CountRequestType
      <3>3. QED
        BY <3>1, <3>2
  <1>3. CASE PRIncrement(r) /\ PRFirst
    <2>1. counter["pr"].n = 0
      BY <1>p, <1>t, <1>3 DEF PRFirst, CounterType
    <2>2. /\ PRCount /\ Goto(r, "expire") /\ lost' = lost /\ req[r].pc = "pr"
          /\ win' = [win EXCEPT !["pr"].counted = {r}]
      BY <1>p, <1>t, <1>3, <2>1 DEF PRIncrement, PRFirst
    <2>3. /\ \A d \in Counters \ {"pr"} : win'[d] = win[d]
          /\ win'["pr"].counted = win["pr"].counted \cup {r}
          /\ win'["pr"].refunded = win["pr"].refunded
          /\ win'["pr"].passed = win["pr"].passed
      BY <1>1, <1>p, <1>t, <2>1, <2>2 DEF WinType
    <2>4. QED
      BY <1>2, <2>1, <2>2, <2>3 DEF Counts, Kept
  <1>4. CASE PRIncrement(r) /\ ~PRFirst
    <2>1. counter["pr"].n # 0
      BY <1>p, <1>t, <1>4 DEF PRFirst, CounterType
    <2>2. /\ PRCount /\ lost' = lost /\ req[r].pc = "pr"
          /\ \/ /\ Fits("pr") /\ Goto(r, "handle")
                /\ win' = [win EXCEPT !["pr"].counted = @ \cup {r}, !["pr"].passed = @ \cup {r}]
             \/ Goto(r, "refused") /\ win' = [win EXCEPT !["pr"].counted = @ \cup {r}]
      BY <1>4 DEF PRIncrement
    <2>3. /\ \A d \in Counters \ {"pr"} : win'[d] = win[d]
          /\ win'["pr"].counted = win["pr"].counted \cup {r}
          /\ win'["pr"].refunded = win["pr"].refunded
          /\ \/ Fits("pr") /\ win'["pr"].passed = win["pr"].passed \cup {r}
             \/ win'["pr"].passed = win["pr"].passed
      BY <1>p, <1>t, <2>2 DEF WinType
    <2>4. win'["pr"].passed = win["pr"].passed \/ Passes(r, "pr")
      BY <1>2, <2>2, <2>3 DEF Passes, Fits
    <2>5. QED
      BY <1>2, <2>1, <2>2, <2>3, <2>4 DEF Counts, Kept
  <1>5. CASE PRIncrementFails(r)
    <2>1. CASE UNCHANGED <<counter, win, lost>>
      BY <1>5, <2>1 DEF PRIncrementFails, Kept
    <2>2. CASE /\ PRCount
               /\ win' = [win EXCEPT !["pr"].counted = @ \cup {r}]
               /\ lost' = IF counter["pr"].n = 0 THEN lost \cup {r} ELSE lost
      <3>1. /\ \A d \in Counters \ {"pr"} : win'[d] = win[d]
            /\ win'["pr"].counted = win["pr"].counted \cup {r}
            /\ win'["pr"].refunded = win["pr"].refunded
            /\ win'["pr"].passed = win["pr"].passed
        BY <1>p, <1>t, <2>2 DEF WinType
      <3>2. QED
        BY <1>2, <1>5, <2>2, <3>1 DEF PRIncrementFails, Counts, Kept
    <2>3. QED
      BY <1>5, <2>1, <2>2 DEF PRIncrementFails
  <1>6. QED
    BY <1>3, <1>4, <1>5

\* A request that comes, is turned away, answered, or looks for what to take back.
LEMMA QuietEffect ==
  ASSUME TypeOK, NEW r \in Requests, Arrive(r) \/ TurnAway(r) \/ Answer(r) \/ RefundRead(r)
  PROVE  /\ \A c \in Counters : Kept(c)
         /\ lost' = lost
         /\ req[r].pc # "expire" /\ req[r].pc # "done"
         /\ \E s \in Stations \ {"idle", "expire"} :
              Goto(r, s) /\ Ahead(s) \subseteq Ahead(req[r].pc)
  <1>1. CASE Arrive(r)
    <2>1. FirstCounter(req[r].kind) \in Counters
      BY DEF TypeOK, FirstCounter, Kinds, Counters
    <2>2. Ahead("idle") = Counters /\ \A s : Ahead(s) \subseteq Counters
      BY DEF Ahead
    <2>3. FirstCounter(req[r].kind) \in Stations \ {"idle", "expire"}
      BY <2>1 DEF Stations, Counters
    <2>4. QED
      BY <1>1, <2>2, <2>3 DEF Arrive, Kept
  <1>2. CASE TurnAway(r) \/ Answer(r) \/ RefundRead(r)
    <2>1. \A s \in {"done", "refund", "decr"} :
            s \in Stations \ {"idle", "expire"} /\ Ahead(s) = {}
      BY DEF Ahead, Counters, Stations
    <2>2. PICK s \in {"done", "refund", "decr"} : Goto(r, s)
      BY <1>2 DEF TurnAway, Answer, RefundRead
    <2>3. UNCHANGED <<counter, win, lost>> /\ req[r].pc # "expire" /\ req[r].pc # "done"
      BY <1>2 DEF TurnAway, Answer, RefundRead
    <2>4. QED
      BY <2>1, <2>2, <2>3 DEF Kept
  <1>3. QED
    BY <1>1, <1>2

\* The EXPIRE of a new counter, sent or lost.
LEMMA PRExpireEffect ==
  ASSUME TypeOK, NEW r \in Requests, PRExpire(r)
  PROVE  /\ req[r].pc = "expire" /\ Goto(r, "handle")
         /\ \A d \in Counters \ {"pr"} : Kept(d)
         /\ counter'["pr"].n = counter["pr"].n
         /\ \/ counter'["pr"].left = Window["pr"] /\ lost' = lost
            \/ counter'["pr"].left = counter["pr"].left /\ lost' = lost \cup {r}
         /\ win'["pr"].counted = win["pr"].counted
         /\ win'["pr"].refunded = win["pr"].refunded
         /\ win'["pr"].passed = win["pr"].passed \cup {r}
  <1>p. "pr" \in Counters
    BY DEF Counters
  <1>1. /\ \A d \in Counters \ {"pr"} : win'[d] = win[d]
        /\ win'["pr"].counted = win["pr"].counted
        /\ win'["pr"].refunded = win["pr"].refunded
        /\ win'["pr"].passed = win["pr"].passed \cup {r}
    BY <1>p DEF TypeOK, PRExpire
  <1>2. /\ \A d \in Counters \ {"pr"} : counter'[d] = counter[d]
        /\ counter'["pr"].n = counter["pr"].n
        /\ \/ counter'["pr"].left = Window["pr"] /\ lost' = lost
           \/ counter'["pr"].left = counter["pr"].left /\ lost' = lost \cup {r}
    BY <1>p DEF TypeOK, PRExpire
  <1>3. QED
    BY <1>1, <1>2 DEF PRExpire, Kept

\* The DECR of a refund, sent or lost.
LEMMA RefundEffect ==
  ASSUME TypeOK, NEW r \in Requests, RefundDecr(r)
  PROVE  /\ req[r].pc = "decr" /\ Goto(r, "done") /\ lost' = lost
         /\ \A d \in Counters \ {"analysis"} : Kept(d)
         /\ \/ Kept("analysis")
            \/ /\ counter'["analysis"].n = counter["analysis"].n - 1
               /\ counter'["analysis"].left =
                    IF counter["analysis"].left = 0 THEN Forever ELSE counter["analysis"].left
               /\ win'["analysis"].counted = win["analysis"].counted
               /\ win'["analysis"].passed = win["analysis"].passed
               /\ win'["analysis"].refunded = win["analysis"].refunded \cup {r}
  <1>p. "analysis" \in Counters
    BY DEF Counters
  <1>1. CASE UNCHANGED <<counter, win>>
    BY <1>1 DEF RefundDecr, Kept
  <1>2. CASE RefundTaken /\ win' = [win EXCEPT !["analysis"].refunded = @ \cup {r}]
    <2>1. /\ \A d \in Counters \ {"analysis"} : win'[d] = win[d]
          /\ win'["analysis"].counted = win["analysis"].counted
          /\ win'["analysis"].passed = win["analysis"].passed
          /\ win'["analysis"].refunded = win["analysis"].refunded \cup {r}
      BY <1>p, <1>2 DEF TypeOK
    <2>2. /\ \A d \in Counters \ {"analysis"} : counter'[d] = counter[d]
          /\ counter'["analysis"].n = counter["analysis"].n - 1
          /\ counter'["analysis"].left =
               IF counter["analysis"].left = 0 THEN Forever ELSE counter["analysis"].left
      BY <1>p, <1>2 DEF TypeOK, RefundTaken
    <2>3. QED
      BY <2>1, <2>2 DEF RefundDecr, Kept
  <1>3. QED
    BY <1>1, <1>2 DEF RefundDecr

\* A step of time, for one counter.
LEMMA TickEffect ==
  ASSUME TypeOK, Tick, NEW c \in Counters
  PROVE  \/ counter[c].left = 1 /\ counter'[c] = Absent /\ win'[c] = NoRequests
         \/ /\ counter[c].left # 1 /\ win'[c] = win[c] /\ counter'[c].n = counter[c].n
            /\ counter'[c].left =
                 IF counter[c].left > 0 THEN counter[c].left - 1 ELSE counter[c].left
  BY DEF TypeOK, Tick, Expiring

-----------------------------------------------------------------------------
(* One step of the invariant's parts, for one counter.                     *)

LEMMA SameWaiting ==
  ASSUME TypeOK, NEW r \in Requests, NEW s \in Stations, Goto(r, s),
         req[r].pc # "expire", s # "expire"
  PROVE  \A c \in Counters : Waiting(c)' = Waiting(c)
  <1>1. /\ req'[r] = [kind |-> req[r].kind, pc |-> s]
        /\ \A q \in Requests \ {r} : req'[q] = req[q]
    BY GotoType DEF TypeOK, ReqType
  <1>2. \A q \in Requests : req'[q].pc = "expire" <=> req[q].pc = "expire"
    BY <1>1
  <1>3. QED
    BY <1>2 DEF Waiting

LEMMA CountsStep ==
  ASSUME TypeOK, CountsRequests, NEW r \in Requests, NEW c \in Counters,
         Counts(r, c), r \notin win[c].counted
  PROVE  counter'[c].n = Cardinality(win'[c].counted) - Cardinality(win'[c].refunded)
  <1>1. IsFiniteSet(win[c].counted) /\ IsFiniteSet(win[c].refunded)
    BY WindowsAreFinite
  <1>2. Cardinality(win[c].counted \cup {r}) = Cardinality(win[c].counted) + 1
    BY <1>1, FS_AddElement
  <1>3. Cardinality(win[c].counted) \in Nat /\ Cardinality(win[c].refunded) \in Nat
    BY <1>1, FS_CardinalityType
  <1>4. counter[c].n = Cardinality(win[c].counted) - Cardinality(win[c].refunded)
    BY DEF CountsRequests
  <1>5. QED
    BY <1>2, <1>3, <1>4 DEF Counts

LEMMA BoundStep ==
  ASSUME TypeOK, TypeOK', CountsRequests', PlacesAreCounted', PlacesBounded, NEW c \in Counters,
         \/ Placed(c)' \subseteq Placed(c) /\ win[c].refunded \subseteq win'[c].refunded
         \/ counter'[c].n <= Max[c]
  PROVE  Cardinality(Placed(c)' \ win'[c].refunded)
           <= Max[c] + Cardinality(win'[c].refunded \ Placed(c)')
  <1>m. Max[c] \in Nat
    BY MaxType
  <1>f. IsFiniteSet(win'[c].counted) /\ IsFiniteSet(win'[c].refunded)
    <2>1. win'[c].counted \in SUBSET Requests /\ win'[c].refunded \in SUBSET Requests
      BY DEF TypeOK
    <2>2. QED
      BY <2>1, RequestsFinite, FS_Subset
  <1>1. CASE Placed(c)' \subseteq Placed(c) /\ win[c].refunded \subseteq win'[c].refunded
    <2>1. IsFiniteSet(Placed(c))
      BY WindowsAreFinite
    <2>2. Cardinality(Placed(c) \ win[c].refunded)
            <= Max[c] + Cardinality(win[c].refunded \ Placed(c))
      BY DEF PlacesBounded
    <2>3. QED
      BY <1>m, <1>f, <1>1, <2>1, <2>2, BoundIsMonotone
  <1>2. CASE counter'[c].n <= Max[c]
    <2>1. Cardinality(win'[c].counted) - Cardinality(win'[c].refunded) <= Max[c]
      BY <1>2 DEF CountsRequests
    <2>2. Placed(c)' \subseteq win'[c].counted
      BY DEF PlacesAreCounted
    <2>3. QED
      BY <1>m, <1>f, <2>1, <2>2, BoundFromCount
  <1>3. QED
    BY <1>1, <1>2

-----------------------------------------------------------------------------
(* Each action keeps the invariant.                                        *)

\* While the pull-request counter keeps its time to live, what explains it stays.
LEMMA ReasonStays ==
  ASSUME TypeOK, PRWindowEnds, counter'["pr"].left = counter["pr"].left,
         win["pr"].counted \subseteq win'["pr"].counted, lost \subseteq lost',
         \A q \in Requests : req[q].pc = "expire" => req'[q].pc = "expire" \/ q \in lost'
  PROVE  PRWindowEnds'
  <1> SUFFICES ASSUME counter'["pr"].left = Forever
               PROVE  \E q \in win'["pr"].counted : q \in lost' \/ req'[q].pc = "expire"
    BY DEF PRWindowEnds
  <1>1. PICK q \in win["pr"].counted : q \in lost \/ req[q].pc = "expire"
    BY DEF PRWindowEnds
  <1>2. q \in Requests
    BY DEF TypeOK, Counters
  <1>3. QED
    BY <1>1, <1>2

RateParts ==
  /\ PlacesAreCounted
  /\ NotYetCounted
  /\ OneIsPending
  /\ CountsRequests
  /\ PlacesBounded
  /\ RefusalEnds
  /\ PRWindowEnds

LEMMA QuietKeeps ==
  ASSUME RateInv, TypeOK', NEW r \in Requests,
         Arrive(r) \/ TurnAway(r) \/ Answer(r) \/ RefundRead(r)
  PROVE  RateParts'
  <1>p. "pr" \in Counters /\ "analysis" \in Counters
    BY DEF Counters
  <1>1. /\ \A c \in Counters : Kept(c)
        /\ lost' = lost
        /\ req[r].pc # "expire" /\ req[r].pc # "done"
    BY QuietEffect DEF RateInv
  <1>2. PICK s \in Stations \ {"idle", "expire"} :
          Goto(r, s) /\ Ahead(s) \subseteq Ahead(req[r].pc)
    BY QuietEffect DEF RateInv
  <1>3. /\ req'[r].pc = s
        /\ \A q \in Requests \ {r} : req'[q] = req[q]
    BY <1>2, GotoType DEF RateInv, TypeOK, ReqType
  <1>4. \A c \in Counters : Waiting(c)' = Waiting(c)
    BY <1>1, <1>2, SameWaiting DEF RateInv
  <1>5. PlacesAreCounted'
    <2>1. \A c \in Counters : Placed(c)' = Placed(c)
      BY <1>1, <1>4 DEF Placed, Kept
    <2>2. \A q \in win'["analysis"].refunded : req'[q].pc = "done"
      BY <1>1, <1>3, <1>p DEF RateInv, PlacesAreCounted, Kept, TypeOK
    <2>3. QED
      BY <1>1, <2>1, <2>2 DEF RateInv, PlacesAreCounted, Kept
  <1>6. NotYetCounted'
    BY <1>1, <1>2, <1>3 DEF RateInv, NotYetCounted, Kept, Ahead
  <1>7. OneIsPending'
    BY <1>1, <1>4, <1>p DEF RateInv, OneIsPending, Kept
  <1>8. CountsRequests'
    BY <1>1 DEF RateInv, CountsRequests, Kept
  <1>9. PlacesBounded'
    BY <1>1, <1>4 DEF RateInv, PlacesBounded, Placed, Kept
  <1>10. RefusalEnds'
    BY <1>1 DEF RateInv, RefusalEnds, Kept
  <1>11. PRWindowEnds'
    BY <1>1, <1>3, <1>p DEF RateInv, PRWindowEnds, Kept, TypeOK
  <1>12. QED
    BY <1>5, <1>6, <1>7, <1>8, <1>9, <1>10, <1>11 DEF RateParts

LEMMA IncrementKeeps ==
  ASSUME RateInv, TypeOK', NEW r \in Requests, NEW c \in Counters,
         Increment(r, c) \/ IncrementFails(r, c)
  PROVE  RateParts'
  <1>p. "pr" \in Counters /\ "analysis" \in Counters
    BY DEF Counters
  <1>1. /\ c # "pr" /\ req[r].pc = c /\ lost' = lost
        /\ \A d \in Counters \ {c} : Kept(d)
        /\ \/ Kept(c)
           \/ Counts(r, c) /\ (win'[c].passed = win[c].passed \/ Passes(r, c))
    BY IncrementEffect DEF RateInv
  <1>2. PICK s \in Stations \ {"idle", "expire"} :
          Goto(r, s) /\ c \notin Ahead(s) /\ Ahead(s) \subseteq Ahead(c)
    BY IncrementEffect DEF RateInv
  <1>3. /\ req'[r].pc = s
        /\ \A q \in Requests \ {r} : req'[q] = req[q]
    BY <1>2, GotoType DEF RateInv, TypeOK, ReqType
  <1>n. r \notin win[c].counted /\ c # "done" /\ c # "expire"
    <2>1. c \in Ahead(req[r].pc)
      BY <1>1 DEF Ahead
    <2>2. QED
      BY <1>1, <2>1 DEF RateInv, NotYetCounted, Counters
  <1>4. \A d \in Counters : Waiting(d)' = Waiting(d)
    BY <1>1, <1>2, <1>n, SameWaiting DEF RateInv
  <1>5. PlacesAreCounted'
    <2>1. \A d \in Counters \ {c} : Placed(d)' = Placed(d)
      BY <1>1, <1>4 DEF Placed, Kept
    <2>2. Placed(c)' \subseteq win'[c].counted
      BY <1>1, <1>4 DEF RateInv, PlacesAreCounted, Placed, Kept, Counts, Passes
    <2>3. \A q \in win'["analysis"].refunded : req'[q].pc = "done"
      BY <1>1, <1>3, <1>n, <1>p DEF RateInv, PlacesAreCounted, Kept, Counts, TypeOK
    <2>4. \A d \in Counters : win'[d].refunded = win[d].refunded
      BY <1>1 DEF Kept, Counts
    <2>5. QED
      BY <1>1, <2>1, <2>2, <2>3, <2>4 DEF RateInv, PlacesAreCounted, Kept
  <1>6. NotYetCounted'
    <2>1. ASSUME NEW d \in Ahead(s) PROVE r \notin win'[d].counted
      BY <1>1, <1>2, <2>1 DEF RateInv, NotYetCounted, Kept, Ahead
    <2>2. ASSUME NEW q \in Requests \ {r}, NEW d \in Ahead(req[q].pc)
          PROVE  q \notin win'[d].counted
      BY <1>1, <2>2 DEF RateInv, NotYetCounted, Kept, Counts, Ahead
    <2>3. QED
      BY <1>3, <2>1, <2>2 DEF NotYetCounted, Ahead
  <1>7. OneIsPending'
    BY <1>1, <1>4, <1>p DEF RateInv, OneIsPending, Kept
  <1>8. CountsRequests'
    <2>1. Counts(r, c) =>
            counter'[c].n = Cardinality(win'[c].counted) - Cardinality(win'[c].refunded)
      BY <1>n, CountsStep DEF RateInv
    <2>2. QED
      BY <1>1, <2>1 DEF RateInv, CountsRequests, Kept
  <1>9. PlacesBounded'
    <2>1. \A d \in Counters \ {c} : Placed(d)' = Placed(d) /\ win'[d].refunded = win[d].refunded
      BY <1>1, <1>4 DEF Placed, Kept
    <2>2. \/ Placed(c)' \subseteq Placed(c) /\ win[c].refunded \subseteq win'[c].refunded
          \/ counter'[c].n <= Max[c]
      BY <1>1, <1>4 DEF Placed, Kept, Counts, Passes
    <2>3. \A d \in Counters :
            \/ Placed(d)' \subseteq Placed(d) /\ win[d].refunded \subseteq win'[d].refunded
            \/ counter'[d].n <= Max[d]
      BY <2>1, <2>2
    <2>4. QED
      BY <1>5, <1>8, <2>3, BoundStep DEF RateInv, PlacesBounded
  <1>10. RefusalEnds'
    BY <1>1, WindowType DEF RateInv, RefusalEnds, Kept, Counts
  <1>11. PRWindowEnds'
    BY <1>1, <1>3, <1>n, <1>p DEF RateInv, PRWindowEnds, Kept, TypeOK
  <1>12. QED
    BY <1>5, <1>6, <1>7, <1>8, <1>9, <1>10, <1>11 DEF RateParts

LEMMA PRIncrementKeeps ==
  ASSUME RateInv, TypeOK', NEW r \in Requests, PRIncrement(r) \/ PRIncrementFails(r)
  PROVE  RateParts'
  <1> DEFINE First == /\ Goto(r, "expire") /\ lost' = lost
                      /\ Counts(r, "pr") /\ win'["pr"].passed = win["pr"].passed
                      /\ counter["pr"].n = 0
             Later == /\ Goto(r, "handle") \/ Goto(r, "refused")
                      /\ lost' = lost
                      /\ Counts(r, "pr")
                      /\ win'["pr"].passed = win["pr"].passed \/ Passes(r, "pr")
                      /\ counter["pr"].n # 0
             Uncounted == Goto(r, "handle") /\ lost' = lost /\ Kept("pr")
             Alone == /\ Goto(r, "handle")
                      /\ lost' = IF counter["pr"].n = 0 THEN lost \cup {r} ELSE lost
                      /\ Counts(r, "pr") /\ win'["pr"].passed = win["pr"].passed
  <1>p. "pr" \in Counters /\ "analysis" \in Counters /\ Max["pr"] \in Nat \ {0}
    BY MaxType DEF Counters
  <1>1. /\ req[r].pc = "pr"
        /\ \A d \in Counters \ {"pr"} : Kept(d)
        /\ First \/ Later \/ Uncounted \/ Alone
    BY PRIncrementEffect DEF RateInv
  <1>2. PICK s \in {"expire", "handle", "refused"} : Goto(r, s) /\ (s = "expire" <=> First)
    <2>1. \A s, t : s \in Stations /\ t \in Stations /\ Goto(r, s) /\ Goto(r, t) => s = t
      BY GotoType DEF RateInv, TypeOK, ReqType
    <2>2. {"expire", "handle", "refused"} \subseteq Stations
      BY DEF Stations
    <2>3. QED
      BY <1>1, <2>1, <2>2
  <1>s. s \in Stations /\ Ahead(s) = {}
    BY DEF Stations, Ahead, Counters
  <1>3. /\ req'[r].pc = s
        /\ \A q \in Requests \ {r} : req'[q] = req[q]
    BY <1>2, <1>s, GotoType DEF RateInv, TypeOK, ReqType
  <1>n. r \notin win["pr"].counted
    BY <1>1, <1>p DEF RateInv, NotYetCounted, Ahead
  <1>e. counter["pr"].n = 0 => win["pr"].counted = {} /\ Waiting("pr") = {}
    <2>1. IsFiniteSet(win["pr"].counted) /\ win["pr"].refunded = {}
      BY <1>p, WindowsAreFinite DEF RateInv, PlacesAreCounted
    <2>2. Cardinality({}) = 0 /\ Cardinality(win["pr"].counted) \in Nat
      BY <2>1, FS_EmptySet, FS_CardinalityType
    <2>3. counter["pr"].n = Cardinality(win["pr"].counted) - Cardinality({})
      BY <1>p, <2>1 DEF RateInv, CountsRequests
    <2>4. counter["pr"].n = 0 => win["pr"].counted = {}
      BY <2>1, <2>2, <2>3, FS_EmptySet
    <2>5. QED
      BY <1>p, <2>4 DEF RateInv, PlacesAreCounted, Placed
  <1>4. /\ \A d \in Counters \ {"pr"} : Waiting(d)' = Waiting(d)
        /\ Waiting("pr")' = IF s = "expire" THEN Waiting("pr") \cup {r} ELSE Waiting("pr")
    <2>1. \A d \in Counters \ {"pr"} : Waiting(d)' = {} /\ Waiting(d) = {}
      BY DEF Waiting
    <2>2. \A q \in Requests : 
            req'[q].pc = "expire" <=> (req[q].pc = "expire" \/ (s = "expire" /\ q = r))
      BY <1>1, <1>3
    <2>3. QED
      BY <2>1, <2>2 DEF Waiting
  <1>5. PlacesAreCounted'
    <2>1. \A d \in Counters \ {"pr"} : Placed(d)' = Placed(d) /\ win'[d] = win[d]
      BY <1>1, <1>4 DEF Placed, Kept
    <2>2. Placed("pr")' \subseteq win'["pr"].counted
      BY <1>1, <1>2, <1>4, <1>p DEF RateInv, PlacesAreCounted, Placed, Kept, Counts, Passes
    <2>3. \A q \in win'["analysis"].refunded : req'[q].pc = "done"
      BY <1>1, <1>3, <1>p, <2>1 DEF RateInv, PlacesAreCounted, TypeOK
    <2>4. win'["pr"].refunded = {}
      BY <1>1, <1>p DEF RateInv, PlacesAreCounted, Kept, Counts
    <2>5. QED
      BY <2>1, <2>2, <2>3, <2>4 DEF RateInv, PlacesAreCounted
  <1>6. NotYetCounted'
    <2>1. ASSUME NEW q \in Requests \ {r}, NEW d \in Ahead(req[q].pc)
          PROVE  q \notin win'[d].counted
      BY <1>1, <2>1 DEF RateInv, NotYetCounted, Kept, Counts, Ahead
    <2>2. QED
      BY <1>3, <1>s, <2>1 DEF NotYetCounted
  <1>7. OneIsPending'
    <2>1. CASE First
      BY <1>2, <1>4, <1>e, <2>1 DEF OneIsPending, Counts
    <2>2. CASE ~First
      <3>1. Waiting("pr")' = Waiting("pr")
        BY <1>2, <1>4, <2>2
      <3>2. Waiting("pr") = {} \/ counter'["pr"].left = counter["pr"].left
        BY <1>1, <1>e, <2>2 DEF Kept, Counts
      <3>3. QED
        BY <3>1, <3>2 DEF RateInv, OneIsPending
    <2>3. QED
      BY <2>1, <2>2
  <1>8. CountsRequests'
    <2>1. Counts(r, "pr") =>
            counter'["pr"].n = Cardinality(win'["pr"].counted) - Cardinality(win'["pr"].refunded)
      BY <1>n, <1>p, CountsStep DEF RateInv
    <2>2. QED
      BY <1>1, <2>1 DEF RateInv, CountsRequests, Kept
  <1>9. PlacesBounded'
    <2>1. \A d \in Counters \ {"pr"} : Placed(d)' = Placed(d) /\ win'[d].refunded = win[d].refunded
      BY <1>1, <1>4 DEF Placed, Kept
    <2>2. First => counter'["pr"].n <= Max["pr"]
      BY <1>p DEF Counts
    <2>3. ~First => \/ /\ Placed("pr")' \subseteq Placed("pr")
                       /\ win["pr"].refunded \subseteq win'["pr"].refunded
                    \/ counter'["pr"].n <= Max["pr"]
      BY <1>1, <1>2, <1>4 DEF Placed, Kept, Counts, Passes
    <2>4. \A d \in Counters :
            \/ Placed(d)' \subseteq Placed(d) /\ win[d].refunded \subseteq win'[d].refunded
            \/ counter'[d].n <= Max[d]
      BY <2>1, <2>2, <2>3
    <2>5. QED
      BY <1>5, <1>8, <2>4, BoundStep DEF RateInv, PlacesBounded
  <1>10. RefusalEnds'
    BY <1>1 DEF RateInv, RefusalEnds, Kept
  <1>11. PRWindowEnds'
    <2>1. CASE First
      BY <1>1, <1>2, <1>3, <2>1 DEF PRWindowEnds, Counts
    <2>2. CASE Later
      <3>1. counter'["pr"].left = counter["pr"].left /\ s # "expire"
        BY <1>2, <2>2 DEF Counts
      <3>2. QED
        BY <1>1, <1>3, <2>2, <3>1, ReasonStays DEF RateInv, Counts
    <2>3. CASE Uncounted
      BY <1>1, <1>3, <2>3, ReasonStays DEF RateInv, Kept
    <2>4. CASE Alone
      <3>1. CASE counter["pr"].n = 0
        BY <1>1, <2>4, <3>1 DEF PRWindowEnds, Counts
      <3>2. CASE counter["pr"].n # 0
        BY <1>1, <1>3, <2>4, <3>2, ReasonStays DEF RateInv, Counts
      <3>3. QED
        BY <3>1, <3>2
    <2>5. QED
      BY <1>1, <2>1, <2>2, <2>3, <2>4
  <1>12. QED
    BY <1>5, <1>6, <1>7, <1>8, <1>9, <1>10, <1>11 DEF RateParts

LEMMA PRExpireKeeps ==
  ASSUME RateInv, TypeOK', NEW r \in Requests, PRExpire(r)
  PROVE  RateParts'
  <1>p. "pr" \in Counters /\ "analysis" \in Counters /\ Window["pr"] \in Nat \ {0}
    BY WindowType DEF Counters
  <1>1. /\ req[r].pc = "expire" /\ Goto(r, "handle")
        /\ \A d \in Counters \ {"pr"} : Kept(d)
        /\ counter'["pr"].n = counter["pr"].n
        /\ \/ counter'["pr"].left = Window["pr"] /\ lost' = lost
           \/ counter'["pr"].left = counter["pr"].left /\ lost' = lost \cup {r}
        /\ win'["pr"].counted = win["pr"].counted
        /\ win'["pr"].refunded = win["pr"].refunded
        /\ win'["pr"].passed = win["pr"].passed \cup {r}
    BY PRExpireEffect DEF RateInv
  <1>2. "handle" \in Stations /\ Ahead("handle") = {}
    BY DEF Stations, Ahead, Counters
  <1>3. /\ req'[r].pc = "handle"
        /\ \A q \in Requests \ {r} : req'[q] = req[q]
    BY <1>1, <1>2, GotoType DEF RateInv, TypeOK, ReqType
  <1>4. /\ \A d \in Counters \ {"pr"} : Waiting(d)' = Waiting(d)
        /\ Waiting("pr") = {r} /\ Waiting("pr")' = {}
    <2>1. \A d \in Counters \ {"pr"} : Waiting(d)' = {} /\ Waiting(d) = {}
      BY DEF Waiting
    <2>2. r \in Waiting("pr")
      BY <1>1 DEF Waiting
    <2>3. Waiting("pr") = {r}
      BY <2>2 DEF RateInv, OneIsPending
    <2>4. \A q \in Requests : req'[q].pc # "expire"
      BY <1>3, <2>3 DEF Waiting
    <2>5. QED
      BY <2>1, <2>3, <2>4 DEF Waiting
  <1>5. PlacesAreCounted' /\ \A d \in Counters : Placed(d)' = Placed(d)
    <2>1. \A d \in Counters : Placed(d)' = Placed(d)
      BY <1>1, <1>4 DEF Placed, Kept
    <2>2. \A d \in Counters : /\ win'[d].counted = win[d].counted
                              /\ win'[d].refunded = win[d].refunded
      BY <1>1 DEF Kept
    <2>3. \A q \in win'["analysis"].refunded : req'[q].pc = "done"
      BY <1>1, <1>3, <1>p, <2>2 DEF RateInv, PlacesAreCounted, TypeOK
    <2>4. QED
      BY <2>1, <2>2, <2>3 DEF RateInv, PlacesAreCounted
  <1>6. NotYetCounted'
    <2>1. \A d \in Counters : win'[d].counted = win[d].counted
      BY <1>1 DEF Kept
    <2>2. QED
      BY <1>2, <1>3, <2>1 DEF RateInv, NotYetCounted, Ahead
  <1>7. OneIsPending'
    BY <1>4 DEF OneIsPending
  <1>8. CountsRequests'
    BY <1>1 DEF RateInv, CountsRequests, Kept
  <1>9. PlacesBounded'
    BY <1>1, <1>5 DEF RateInv, PlacesBounded, Kept
  <1>10. RefusalEnds'
    BY <1>1 DEF RateInv, RefusalEnds, Kept
  <1>11. PRWindowEnds'
    <2>1. CASE counter'["pr"].left = Window["pr"]
      BY <1>p, <2>1 DEF PRWindowEnds, Forever
    <2>2. CASE counter'["pr"].left = counter["pr"].left /\ lost' = lost \cup {r}
      BY <1>1, <1>3, <2>2, ReasonStays DEF RateInv
    <2>3. QED
      BY <1>1, <2>1, <2>2
  <1>12. QED
    BY <1>5, <1>6, <1>7, <1>8, <1>9, <1>10, <1>11 DEF RateParts

LEMMA RefundKeeps ==
  ASSUME RateInv, TypeOK', NEW r \in Requests, RefundDecr(r)
  PROVE  RateParts'
  <1> DEFINE Taken == /\ counter'["analysis"].n = counter["analysis"].n - 1
                      /\ counter'["analysis"].left =
                           IF counter["analysis"].left = 0 THEN Forever
                           ELSE counter["analysis"].left
                      /\ win'["analysis"].counted = win["analysis"].counted
                      /\ win'["analysis"].passed = win["analysis"].passed
                      /\ win'["analysis"].refunded = win["analysis"].refunded \cup {r}
  <1>p. "pr" \in Counters /\ "analysis" \in Counters
    BY DEF Counters
  <1>1. /\ req[r].pc = "decr" /\ Goto(r, "done") /\ lost' = lost
        /\ \A d \in Counters \ {"analysis"} : Kept(d)
        /\ Kept("analysis") \/ Taken
    BY RefundEffect DEF RateInv
  <1>2. "done" \in Stations /\ Ahead("done") = {}
    BY DEF Stations, Ahead, Counters
  <1>3. /\ req'[r].pc = "done"
        /\ \A q \in Requests \ {r} : req'[q] = req[q]
    BY <1>1, <1>2, GotoType DEF RateInv, TypeOK, ReqType
  <1>n. r \notin win["analysis"].refunded
    BY <1>1 DEF RateInv, PlacesAreCounted
  <1>4. \A c \in Counters : Waiting(c)' = Waiting(c)
    BY <1>1, <1>2, SameWaiting DEF RateInv
  <1>c. \A d \in Counters : /\ win'[d].counted = win[d].counted
                            /\ win'[d].passed = win[d].passed
                            /\ Placed(d)' = Placed(d)
    BY <1>1, <1>4 DEF Kept, Placed
  <1>5. PlacesAreCounted'
    <2>1. \A d \in Counters \ {"analysis"} : win'[d].refunded = {}
      BY <1>1 DEF RateInv, PlacesAreCounted, Kept
    <2>2. \A q \in win'["analysis"].refunded : req'[q].pc = "done"
      BY <1>1, <1>3, <1>p DEF RateInv, PlacesAreCounted, Kept, TypeOK
    <2>3. QED
      BY <1>c, <2>1, <2>2 DEF RateInv, PlacesAreCounted
  <1>6. NotYetCounted'
    BY <1>c, <1>2, <1>3 DEF RateInv, NotYetCounted, Ahead
  <1>7. OneIsPending'
    BY <1>1, <1>4, <1>p DEF RateInv, OneIsPending, Kept
  <1>8. CountsRequests'
    <2>1. CASE Kept("analysis")
      BY <1>1, <2>1 DEF RateInv, CountsRequests, Kept
    <2>2. CASE Taken
      <3>1. IsFiniteSet(win["analysis"].counted) /\ IsFiniteSet(win["analysis"].refunded)
        BY <1>p, WindowsAreFinite DEF RateInv
      <3>2. Cardinality(win["analysis"].refunded \cup {r})
              = Cardinality(win["analysis"].refunded) + 1
        BY <1>n, <3>1, FS_AddElement
      <3>3. /\ Cardinality(win["analysis"].counted) \in Nat
            /\ Cardinality(win["analysis"].refunded) \in Nat
        BY <3>1, FS_CardinalityType
      <3>4. counter["analysis"].n
              = Cardinality(win["analysis"].counted) - Cardinality(win["analysis"].refunded)
        BY <1>p DEF RateInv, CountsRequests
      <3>5. counter'["analysis"].n
              = Cardinality(win'["analysis"].counted) - Cardinality(win'["analysis"].refunded)
        BY <2>2, <3>2, <3>3, <3>4
      <3>6. QED
        BY <1>1, <3>5 DEF RateInv, CountsRequests, Kept
    <2>3. QED
      BY <1>1, <2>1, <2>2
  <1>9. PlacesBounded'
    <2>1. \A d \in Counters :
            Placed(d)' \subseteq Placed(d) /\ win[d].refunded \subseteq win'[d].refunded
      BY <1>c, <1>1 DEF Kept
    <2>2. QED
      BY <1>5, <1>8, <2>1, BoundStep DEF RateInv, PlacesBounded
  <1>10. RefusalEnds'
    <2>1. \A d \in Counters : counter[d].n \in Int /\ counter[d].left \in Int
      BY DEF RateInv, TypeOK
    <2>2. Taken /\ counter'["analysis"].n > 0 =>
            counter'["analysis"].left \in 1..Window["analysis"]
      <3>1. counter["analysis"].n > 1 => counter["analysis"].left \in 1..Window["analysis"]
        BY <1>p, <2>1 DEF RateInv, RefusalEnds
      <3>2. QED
        BY <1>p, <2>1, <3>1
    <2>3. QED
      BY <1>1, <2>2 DEF RateInv, RefusalEnds, Kept
  <1>11. PRWindowEnds'
    BY <1>1, <1>3, <1>p DEF RateInv, PRWindowEnds, Kept, TypeOK
  <1>12. QED
    BY <1>5, <1>6, <1>7, <1>8, <1>9, <1>10, <1>11 DEF RateParts

LEMMA TickKeeps ==
  ASSUME RateInv, TypeOK', Tick
  PROVE  RateParts'
  <1>p. "pr" \in Counters /\ "analysis" \in Counters
    BY DEF Counters
  <1>1. req' = req /\ lost' = lost
    BY DEF Tick
  <1>2. \A c \in Counters :
          \/ counter[c].left = 1 /\ counter'[c] = Absent /\ win'[c] = NoRequests
          \/ /\ counter[c].left # 1 /\ win'[c] = win[c] /\ counter'[c].n = counter[c].n
             /\ counter'[c].left =
                  IF counter[c].left > 0 THEN counter[c].left - 1 ELSE counter[c].left
    BY TickEffect DEF RateInv
  <1>3. \A c \in Counters : /\ win'[c].counted \subseteq win[c].counted
                            /\ win'[c].passed \subseteq win[c].passed
                            /\ win'[c].refunded \subseteq win[c].refunded
    BY <1>2 DEF NoRequests
  <1>4. /\ \A c \in Counters : Waiting(c)' = Waiting(c)
        /\ \A c \in Counters : Waiting(c) # {} => counter[c].left = Forever
    BY <1>1 DEF RateInv, OneIsPending, Waiting
  <1>5. \A c \in Counters : Placed(c)' \subseteq win'[c].counted
    <2>1. SUFFICES ASSUME NEW c \in Counters PROVE Placed(c)' \subseteq win'[c].counted
      OBVIOUS
    <2>2. CASE counter[c].left = 1
      BY <1>2, <1>4, <2>2 DEF NoRequests, Placed, Forever
    <2>3. CASE counter[c].left # 1
      BY <1>2, <1>4, <2>3 DEF RateInv, PlacesAreCounted, Placed
    <2>4. QED
      BY <2>2, <2>3
  <1>6. PlacesAreCounted'
    BY <1>1, <1>3, <1>5, <1>p DEF RateInv, PlacesAreCounted
  <1>7. NotYetCounted'
    BY <1>1, <1>3 DEF RateInv, NotYetCounted, Ahead
  <1>8. OneIsPending'
    BY <1>2, <1>4, <1>p DEF RateInv, OneIsPending, Forever
  <1>9. CountsRequests'
    BY <1>2, FS_EmptySet DEF RateInv, CountsRequests, NoRequests, Absent
  <1>10. PlacesBounded'
    <2>1. SUFFICES ASSUME NEW c \in Counters
                   PROVE  \/ /\ Placed(c)' \subseteq Placed(c)
                             /\ win[c].refunded \subseteq win'[c].refunded
                          \/ counter'[c].n <= Max[c]
      BY <1>6, <1>9, BoundStep DEF RateInv, PlacesBounded
    <2>2. QED
      BY <1>2, <1>4, MaxType DEF Placed, Absent
  <1>11. RefusalEnds'
    <2>1. \A c \in Counters : counter[c].n \in Int /\ counter[c].left \in Int
      BY DEF RateInv, TypeOK
    <2>2. QED
      BY <1>2, <2>1, WindowType DEF RateInv, RefusalEnds, Absent
  <1>12. PRWindowEnds'
    <2>1. counter["pr"].left \in {Forever} \cup Nat
      BY <1>p, WindowType DEF RateInv, TypeOK
    <2>2. counter'["pr"].left = Forever =>
            counter["pr"].left = Forever /\ win'["pr"] = win["pr"]
      BY <1>2, <1>p, <2>1 DEF Absent, Forever
    <2>3. QED
      BY <1>1, <2>2 DEF RateInv, PRWindowEnds
  <1>13. QED
    BY <1>6, <1>7, <1>8, <1>9, <1>10, <1>11, <1>12 DEF RateParts

LEMMA RestartKeeps ==
  ASSUME RateInv, TypeOK', Restart
  PROVE  RateParts'
  <1>p. "pr" \in Counters /\ "analysis" \in Counters
    BY DEF Counters
  <1>1. counter' = counter /\ win' = win
        /\ lost' = lost \cup {r \in Requests : req[r].pc = "expire"}
    BY DEF Restart
  <1>2. \A r \in Requests :
          \/ req[r].pc \in {"idle", "refused"} /\ req'[r] = req[r]
          \/ req[r].pc \notin {"idle", "refused"} /\ req'[r].pc = "done"
    BY DEF Restart, RateInv, TypeOK
  <1>3. /\ Ahead("done") = {}
        /\ \A c \in Counters : Waiting(c)' = {} /\ Placed(c)' \subseteq Placed(c)
    BY <1>1, <1>2 DEF Ahead, Counters, Waiting, Placed
  <1>4. PlacesAreCounted'
    <2>1. win["analysis"].refunded \subseteq Requests
      BY <1>p DEF RateInv, TypeOK
    <2>2. QED
      BY <1>1, <1>2, <1>3, <2>1 DEF RateInv, PlacesAreCounted
  <1>5. NotYetCounted'
    BY <1>1, <1>2, <1>3 DEF RateInv, NotYetCounted, Ahead
  <1>6. OneIsPending'
    BY <1>3, <1>p DEF OneIsPending
  <1>7. CountsRequests'
    BY <1>1 DEF RateInv, CountsRequests
  <1>8. PlacesBounded'
    BY <1>1, <1>3, <1>4, <1>7, BoundStep DEF RateInv, PlacesBounded
  <1>9. RefusalEnds'
    BY <1>1 DEF RateInv, RefusalEnds
  <1>10. PRWindowEnds'
    BY <1>1, ReasonStays DEF RateInv
  <1>11. QED
    BY <1>4, <1>5, <1>6, <1>7, <1>8, <1>9, <1>10 DEF RateParts

-----------------------------------------------------------------------------
LEMMA RateInit == Init => RateInv
  <1> SUFFICES ASSUME Init PROVE RateInv
    OBVIOUS
  <1>1. TypeOK
    BY TypeInit
  <1>2. \A c \in Counters : counter[c] = Absent /\ win[c] = NoRequests /\ Waiting(c) = {}
    BY DEF Init, Waiting
  <1>3. PlacesAreCounted /\ NotYetCounted /\ OneIsPending
    BY <1>2 DEF PlacesAreCounted, NotYetCounted, OneIsPending, Placed, NoRequests, Ahead,
                Counters
  <1>4. CountsRequests /\ PlacesBounded
    BY <1>2, FS_EmptySet, MaxType
       DEF CountsRequests, PlacesBounded, Placed, NoRequests, Absent
  <1>5. RefusalEnds /\ PRWindowEnds
    BY <1>2 DEF RefusalEnds, PRWindowEnds, Absent, Forever, Counters
  <1>6. QED
    BY <1>1, <1>3, <1>4, <1>5 DEF RateInv

LEMMA RateStep == RateInv /\ [Next]_rateVars => RateInv'
  <1> SUFFICES ASSUME RateInv, [Next]_rateVars PROVE RateInv'
    OBVIOUS
  <1>1. TypeOK'
    BY TypeStep DEF RateInv
  <1>2. CASE UNCHANGED rateVars
    BY <1>1, <1>2
       DEF RateInv, rateVars, PlacesAreCounted, NotYetCounted, OneIsPending, CountsRequests,
           PlacesBounded, RefusalEnds, PRWindowEnds, Placed, Waiting, Ahead
  <1>3. CASE Next
    <2>1. RateParts'
      BY <1>1, <1>3, QuietKeeps, IncrementKeeps, PRIncrementKeeps, PRExpireKeeps, RefundKeeps,
         TickKeeps, RestartKeeps DEF Next
    <2>2. QED
      BY <1>1, <2>1 DEF RateInv, RateParts
  <1>4. QED
    BY <1>2, <1>3

LEMMA RateLimitsInvariant == Spec => []RateInv
  BY RateInit, RateStep, PTL DEF Spec

\* A request is counted once in a window and a count taken back once, whatever Redis or
\* the process does meanwhile: a counter is never off by the requests it lost track of.
THEOREM CountersAreExact == Spec => []CountsRequests
  <1>1. RateInv => CountsRequests
    BY DEF RateInv
  <1>2. QED
    BY <1>1, RateLimitsInvariant, PTL

\* No window lets pass more than its limit and the refunds that came to it from outside.
THEOREM PlacesAreLimited == Spec => []LimitHolds
  <1>1. RateInv => LimitHolds
    <2> SUFFICES ASSUME RateInv, NEW c \in Counters
                 PROVE  Cardinality(win[c].passed \ win[c].refunded)
                          <= Max[c] + Cardinality(win[c].refunded \ win[c].passed)
      BY DEF LimitHolds
    <2>1. /\ IsFiniteSet(Placed(c)) /\ IsFiniteSet(win[c].refunded)
          /\ win[c].passed \subseteq Placed(c) /\ Max[c] \in Nat
      BY WindowsAreFinite, MaxType DEF RateInv, Placed
    <2>2. Cardinality(Placed(c) \ win[c].refunded)
            <= Max[c] + Cardinality(win[c].refunded \ Placed(c))
      BY DEF RateInv, PlacesBounded
    <2>3. QED
      BY <2>1, <2>2, BoundIsMonotone
  <1>2. QED
    BY <1>1, RateLimitsInvariant, PTL

\* A counter of the middleware that is above zero has a time to live.
THEOREM RefusalsEnd == Spec => []RefusalEnds
  <1>1. RateInv => RefusalEnds
    BY DEF RateInv
  <1>2. QED
    BY <1>1, RateLimitsInvariant, PTL

\* The pull-request counter lives for ever only when its EXPIRE was lost.
THEOREM PRWindowsEnd == Spec => []PRWindowEnds
  <1>1. RateInv => PRWindowEnds
    BY DEF RateInv
  <1>2. QED
    BY <1>1, RateLimitsInvariant, PTL

\* The variables keep their types.
THEOREM TypeCorrect == Spec => []TypeOK
  <1>1. RateInv => TypeOK
    BY DEF RateInv
  <1>2. QED
    BY <1>1, RateLimitsInvariant, PTL
=============================================================================
