------------------------ MODULE UsageReportingProofs ------------------------
(***************************************************************************)
(* Usage reporting for any users, records, periods and limits, one          *)
(* execution of the task at a time.                                        *)
(***************************************************************************)
EXTENDS UsageReporting, WellFoundedInduction, FiniteSetTheorems, TLAPS

USE MaxRecordsType, LastPeriodType, LimitType, MaxRetriesType

\* A non-empty set of records has an earliest one.
LEMMA FirstOf ==
  ASSUME NEW S \in SUBSET Records, S # {}
  PROVE  First(S) \in S /\ \A q \in S : First(S) <= q
<1>1. S \subseteq Nat
  BY DEF Records
<1> DEFINE R == OpToRel(<, Nat)
<1>2. IsWellFoundedOn(R, Nat)
  BY NatLessThanWellFounded
<1> HIDE DEF R
<1>3. PICK r \in S : \A q \in S : <<q, r>> \notin R
  BY <1>1, <1>2, WFMin
<1>4. \A q \in S : ~(q < r)
  BY <1>1, <1>3 DEF R, OpToRel
<1>5. \A q \in S : r <= q
  BY <1>1, <1>4
<1> QED
  BY <1>5 DEF First

-----------------------------------------------------------------------------
RunType == [pc : {"idle", "next", "report", "mark", "exempt"},
            todo : SUBSET Records, group : SUBSET Records, tries : 0..MaxRetries]

\* RunsOK of an execution that is set to a new value.
LEMMA RunOK ==
  ASSUME RunsOK, NEW i \in Runs, NEW v \in RunType,
         v.pc \in {"report", "mark", "exempt"} <=> v.group # {},
         run' = [run EXCEPT ![i] = v]
  PROVE  RunsOK'
BY DEF RunsOK, RunType

LEMMA IdleOK == Idle \in RunType /\ Idle.pc = "idle" /\ Idle.group = {}
<1>1. 0 \in 0..MaxRetries
  OBVIOUS
<1> QED
  BY <1>1 DEF Idle, RunType

LEMMA TakeUpOK ==
  ASSUME RunsOK, NEW i \in Runs, NEW S \in SUBSET run[i].todo,
         NEW pc \in {"next", "report", "exempt"}, pc = "next" <=> S = {}, TakeUp(i, S, pc)
  PROVE  RunsOK'
<1> DEFINE v == [pc |-> pc, todo |-> run[i].todo \ S, group |-> S, tries |-> 0]
<1>1. run[i].todo \in SUBSET Records
  BY DEF RunsOK
<1>2. 0 \in 0..MaxRetries
  OBVIOUS
<1>3. v \in RunType
  BY <1>1, <1>2 DEF RunType
<1>4. v.pc \in {"report", "mark", "exempt"} <=> v.group # {}
  OBVIOUS
<1>5. run' = [run EXCEPT ![i] = v]
  BY DEF TakeUp
<1> QED
  BY <1>3, <1>4, <1>5, RunOK

LEMMA NextGroupOK ==
  ASSUME RunsOK, NEW i \in Runs, NEW o, NextGroup(i, o)
  PROVE  RunsOK'
<1> DEFINE rest == {r \in run[i].todo : rec[r].owner = o}
           next == {r \in rest : SameGroup(r, First(rest))}
<1>1. run[i].todo \in SUBSET Records
  BY DEF RunsOK
<1>2. CASE rest = {}
  <2>1. TakeUp(i, {}, "next")
    BY <1>2 DEF NextGroup
  <2> QED
    BY <2>1, TakeUpOK
<1>3. CASE rest # {}
  <2>1. TakeUp(i, next, "report")
    BY <1>3 DEF NextGroup
  <2>2. First(rest) \in rest
    BY <1>1, <1>3, FirstOf
  <2>3. next \in SUBSET run[i].todo /\ next # {}
    BY <2>2 DEF SameGroup
  <2> QED
    BY <2>1, <2>3, TakeUpOK
<1> QED
  BY <1>2, <1>3

LEMMA OneDoneOK ==
  ASSUME RunsOK, NEW i \in Runs, OneDone(i), run[i].pc \in {"mark", "exempt"}
  PROVE  RunsOK'
<1> DEFINE r == First(run[i].group)
<1>1. CASE run[i].group = {r}
  BY <1>1, NextGroupOK DEF OneDone
<1>2. CASE run[i].group # {r}
  <2>1. run' = [run EXCEPT ![i].group = @ \ {r}]
    BY <1>2 DEF OneDone
  <2>2. run[i].group \ {r} # {}
    BY <1>2 DEF RunsOK
  <2> QED
    BY <2>1, <2>2 DEF RunsOK
<1> QED
  BY <1>1, <1>2

LEMMA TypeStep == TypeOK /\ [Next]_reportVars => TypeOK'
<1> SUFFICES ASSUME TypeOK, [Next]_reportVars PROVE TypeOK'
  OBVIOUS
<1> USE DEF TypeOK
<1>1. ASSUME NEW r \in Records, RecordUsage(r) PROVE TypeOK'
  BY <1>1 DEF RecordUsage, RunsOK, Marks
<1>2. ASSUME NEW o \in Owners, ChangePlan(o) PROVE TypeOK'
  BY <1>2 DEF ChangePlan, RunsOK, Plans
<1>3. ASSUME NEW i \in Runs, Fetch(i) PROVE TypeOK'
  <2>1. Oldest \in SUBSET Records
    BY DEF Oldest, Open
  <2> DEFINE v == [Idle EXCEPT !.pc = "next", !.todo = Oldest]
  <2>2. v \in RunType /\ v.pc = "next" /\ v.group = {}
    BY <2>1, IdleOK DEF RunType
  <2>3. RunsOK'
    BY <1>3, <2>2, RunOK DEF Fetch
  <2> QED
    BY <1>3, <2>3 DEF Fetch
<1>4. ASSUME NEW i \in Runs, LoadUser(i) PROVE TypeOK'
  <2>1. run[i].todo \in SUBSET Records /\ First(run[i].todo) \in run[i].todo
    BY <1>4, FirstOf DEF LoadUser, RunsOK
  <2>2. OfPeriod(i) \in SUBSET run[i].todo /\ OfPeriod(i) # {}
    BY <2>1 DEF OfPeriod, SameGroup
  <2>3. OfOwner(i) \in SUBSET run[i].todo /\ OfOwner(i) # {}
    BY <2>1 DEF OfOwner, Owner
  <2>4. RunsOK'
    BY <1>4, <2>2, <2>3, TakeUpOK DEF LoadUser
  <2> QED
    BY <1>4, <2>4 DEF LoadUser
<1>5. ASSUME NEW i \in Runs, PassUser(i) PROVE TypeOK'
  <2>1. run[i].todo \ OfOwner(i) \in SUBSET Records
    BY DEF RunsOK
  <2> QED
    BY <1>5, <2>1 DEF PassUser, RunsOK
<1>6. ASSUME NEW i \in Runs, Finish(i) PROVE TypeOK'
  BY <1>6, IdleOK, RunOK DEF Finish
<1>7. ASSUME NEW i \in Runs, Accepted(i) PROVE TypeOK'
  BY <1>7 DEF Accepted, SetUsage, RunsOK
<1>8. ASSUME NEW i \in Runs, SendFails(i) PROVE TypeOK'
  <2>1. bill' \in [Records -> SUBSET Records]
    BY <1>8 DEF SendFails, SetUsage, RunsOK
  <2>2. ASSUME run[i].tries + 1 < MaxRetries, run' = [run EXCEPT ![i].tries = @ + 1]
        PROVE  RunsOK'
    <3>1. run[i].tries + 1 \in 0..MaxRetries
      BY <2>2 DEF RunsOK
    <3> QED
      BY <2>2, <3>1 DEF RunsOK
  <2>3. ASSUME NextGroup(i, GroupOwner(i)) PROVE RunsOK'
    BY <2>3, NextGroupOK
  <2>4. RunsOK'
    BY <1>8, <2>2, <2>3 DEF SendFails
  <2> QED
    BY <1>8, <2>1, <2>4 DEF SendFails
<1>9. ASSUME NEW i \in Runs, Mark(i) PROVE TypeOK'
  <2>1. RunsOK'
    BY <1>9, OneDoneOK DEF Mark
  <2> QED
    BY <1>9, <2>1 DEF Mark, Marks
<1>10. ASSUME NEW i \in Runs, MarkFails(i) PROVE TypeOK'
  <2>1. RunsOK'
    BY <1>10, OneDoneOK DEF MarkFails
  <2>2. First(run[i].group) \in Records
    BY <1>10, FirstOf DEF MarkFails, RunsOK
  <2> QED
    BY <1>10, <2>1, <2>2 DEF MarkFails
<1>11. ASSUME NEW i \in Runs, MarkExempt(i) PROVE TypeOK'
  <2> DEFINE r == First(run[i].group)
  <2>1. ASSUME run[i].group = {r} PROVE RunsOK'
    <3>1. TakeUp(i, {}, "next")
      BY <1>11, <2>1 DEF MarkExempt
    <3> QED
      BY <3>1, TakeUpOK
  <2>2. ASSUME run[i].group # {r} PROVE RunsOK'
    <3>1. run' = [run EXCEPT ![i].group = @ \ {r}]
      BY <1>11, <2>2 DEF MarkExempt
    <3>2. run[i].group \ {r} # {}
      BY <1>11, <2>2 DEF MarkExempt, RunsOK
    <3> QED
      BY <1>11, <3>1, <3>2 DEF MarkExempt, RunsOK
  <2>3. RunsOK'
    BY <2>1, <2>2
  <2> QED
    BY <1>11, <2>3 DEF MarkExempt, Marks
<1>12. ASSUME NEW i \in Runs, MarkExemptFails(i) PROVE TypeOK'
  BY <1>12, TakeUpOK DEF MarkExemptFails
<1>13. CASE Crash
  <2>1. run' \in [Runs -> RunType] /\ \A i \in Runs : run'[i].pc = "idle" /\ run'[i].group = {}
    BY <1>13, IdleOK DEF Crash
  <2>2. RunsOK'
    BY <2>1 DEF RunsOK, RunType
  <2>3. missed' \subseteq Records
    BY <1>13 DEF Crash, RunsOK
  <2> QED
    BY <1>13, <2>2, <2>3 DEF Crash
<1>14. CASE Calm
  BY <1>14 DEF Calm, RunsOK
<1>15. CASE UNCHANGED reportVars
  BY <1>15 DEF reportVars, RunsOK
<1> QED
  BY <1>1, <1>2, <1>3, <1>4, <1>5, <1>6, <1>7, <1>8, <1>9, <1>10, <1>11, <1>12, <1>13,
     <1>14, <1>15 DEF Next, Step

\* Every record, user, total and execution stays within its type, and an execution has
\* records in hand exactly while it reports or marks.
THEOREM TypeCorrect == Spec => []TypeOK
<1>1. Init => TypeOK
  <2> SUFFICES ASSUME Init PROVE TypeOK
    OBVIOUS
  <2>1. RunsOK
    BY IdleOK DEF Init, RunsOK, RunType
  <2> QED
    BY <2>1 DEF Init, TypeOK, Marks
<1> QED
  BY <1>1, TypeStep, PTL DEF Spec

-----------------------------------------------------------------------------
(***************************************************************************)
(* Marked usage is in the bill.  The proof needs that a total always goes   *)
(* under the earliest open record of its group: then the total it replaces *)
(* was told under the same record, and only a mark missed between the two  *)
(* can have dropped a record from it.                                      *)
(***************************************************************************)
OneRun == \A i, j \in Runs : i = j

\* Marking a record leaves all groups as they are.
LEMMA MarkOne ==
  ASSUME TypeOK, NEW r \in Records, NEW m, rec' = [rec EXCEPT ![r].mark = m]
  PROVE  /\ \A p, q \in Records : SameGroup(p, q)' <=> SameGroup(p, q)
         /\ \A q \in Records : rec'[q].mark = IF q = r THEN m ELSE rec[q].mark
BY DEF TypeOK, SameGroup

LEMMA GroupsAreClasses ==
  /\ \A p \in Records : SameGroup(p, p)
  /\ \A p, q \in Records : SameGroup(p, q) => SameGroup(q, p)
  /\ \A p, q, r \in Records : SameGroup(p, q) /\ SameGroup(q, r) => SameGroup(p, r)
BY DEF SameGroup

\* A group that is taken out of the fetched records is whole, and so is what is left.
LEMMA WholeGroup ==
  ASSUME TypeOK, NEW i \in Runs, NEW T \in SUBSET Records, NEW f \in T, NEW N,
         N = {r \in T : SameGroup(r, f)},
         \A p, q \in Records : SameGroup(p, q)' <=> SameGroup(p, q),
         T \subseteq Open',
         \A t \in T, q \in Open' : q < t /\ SameGroup(q, t) => q \in T,
         run'[i] = [pc |-> "report", todo |-> T \ N, group |-> N, tries |-> 0]
  PROVE  HandOK(i)'
<1>1. Open' \subseteq Records /\ N \subseteq T
  BY DEF Open
<1>2. run'[i].todo = T \ N /\ run'[i].group = N /\ run'[i].pc = "report"
  OBVIOUS
<1>3. \A t \in T \ N, g \in N : ~SameGroup(g, t)
  BY GroupsAreClasses
<1>4. \A g, k \in N : SameGroup(g, k)
  BY GroupsAreClasses
<1>5. \A g \in N, q \in Open' : q < g /\ SameGroup(q, g) => q \in N
  BY <1>1, GroupsAreClasses
<1>6. \A t \in T \ N, q \in Open' : q < t /\ SameGroup(q, t) => q \in T \ N
  BY <1>1, GroupsAreClasses
<1>7. NothingSkipped(T \ N)'
  BY <1>1, <1>6 DEF NothingSkipped
<1>8. NothingSkipped(N)' /\ N \subseteq Open'
  BY <1>1, <1>5 DEF NothingSkipped
<1> QED
  BY <1>1, <1>2, <1>3, <1>4, <1>7, <1>8 DEF HandOK

\* No record in hand.
LEMMA EmptyHand ==
  ASSUME NEW i \in Runs, NEW T \in SUBSET Records, T \subseteq Open',
         \A p, q \in Records : SameGroup(p, q)' <=> SameGroup(p, q),
         \A t \in T, q \in Open' : q < t /\ SameGroup(q, t) => q \in T,
         run'[i].todo = T, run'[i].group = {}, run'[i].pc \in {"idle", "next"}
  PROVE  HandOK(i)'
<1>1. NothingSkipped(T)'
  BY DEF NothingSkipped, Open
<1> QED
  BY <1>1 DEF HandOK

LEMMA NextGroupHand ==
  ASSUME TypeOK, NEW i \in Runs, NEW o, NextGroup(i, o),
         \A p, q \in Records : SameGroup(p, q)' <=> SameGroup(p, q),
         run[i].todo \subseteq Open',
         \A t \in run[i].todo, q \in Open' : q < t /\ SameGroup(q, t) => q \in run[i].todo
  PROVE  HandOK(i)'
<1>0. PICK T : T = run[i].todo
  OBVIOUS
<1> DEFINE rest == {r \in T : rec[r].owner = o}
<1>1. T \in SUBSET Records /\ run \in [Runs -> RunType]
  BY <1>0 DEF TypeOK, RunsOK, RunType
<1>2. CASE rest = {}
  <2>1. run'[i] = [pc |-> "next", todo |-> T \ {}, group |-> {}, tries |-> 0]
    BY <1>0, <1>1, <1>2 DEF NextGroup, TakeUp
  <2>2. run'[i].todo = T /\ run'[i].group = {} /\ run'[i].pc = "next"
    BY <2>1
  <2> QED
    BY <1>0, <1>1, <2>2, EmptyHand
<1>3. CASE rest # {}
  <2>0. PICK N : N = {r \in rest : SameGroup(r, First(rest))}
    OBVIOUS
  <2>1. run'[i] = [pc |-> "report", todo |-> T \ N, group |-> N, tries |-> 0]
    BY <1>0, <1>1, <1>3, <2>0 DEF NextGroup, TakeUp
  <2>2. PICK f \in T : f \in rest /\ f = First(rest)
    BY <1>1, <1>3, FirstOf
  <2>3. N = {r \in T : SameGroup(r, f)}
    BY <2>0, <2>2 DEF SameGroup
  <2> QED
    BY <1>0, <1>1, <2>1, <2>3, WholeGroup
<1> QED
  BY <1>2, <1>3

\* What is said of records and bills holds on while neither changes.
LEMMA SameBooks ==
  ASSUME Ordered, BillsOK, MarkedIsBilled, rec' = rec, bill' = bill, missed \subseteq missed'
  PROVE  Ordered' /\ BillsOK' /\ MarkedIsBilled'
BY DEF Ordered, BillsOK, MarkedIsBilled, Billed, SameGroup, Open

\* Stripe takes the total of a whole group.
LEMMA NewTotal ==
  ASSUME TypeOK, ReportInv, NEW i \in Runs, run[i].pc = "report",
         SetUsage(run[i].group), rec' = rec, missed' = missed
  PROVE  Ordered' /\ BillsOK' /\ MarkedIsBilled'
<1>1. PICK S : S = run[i].group
  OBVIOUS
<1>2. S \in SUBSET Records /\ S # {}
  BY <1>1 DEF TypeOK, RunsOK
<1>3. PICK h \in S : h = First(S) /\ \A q \in S : h <= q
  BY <1>2, FirstOf
<1>4. bill' = [bill EXCEPT ![h] = S]
  BY <1>1, <1>3 DEF SetUsage
<1>5. /\ S \subseteq Open
      /\ \A g, k \in S : SameGroup(g, k)
      /\ \A g \in S, q \in Open : q < g /\ SameGroup(q, g) => q \in S
  BY <1>1 DEF ReportInv, HandOK, NothingSkipped
<1>6. \A k \in Records : bill'[k] = IF k = h THEN S ELSE bill[k]
  BY <1>2, <1>4 DEF TypeOK
<1>7. \A q \in Records : q < h => q \notin S
  BY <1>2, <1>3 DEF Records
<1>8. BillsOK'
  <2> SUFFICES ASSUME NEW k \in Records, bill'[k] # {}
               PROVE  /\ k \in bill'[k]
                      /\ \A r \in bill'[k] : k <= r /\ SameGroup(k, r) /\ rec[r].mark # "absent"
                      /\ \A r \in bill'[k] : rec[r].mark = "reported" /\ rec[k].mark = "open" => k \in missed
                      /\ \A q \in Open : q < k => ~SameGroup(q, k)
    BY DEF BillsOK, SameGroup, Open
  <2>1. CASE k = h
    <3>1. bill'[k] = S
      BY <1>6, <2>1
    <3>2. \A r \in S : rec[r].mark = "open"
      BY <1>5 DEF Open
    <3>3. \A q \in Open : q < h => ~SameGroup(q, h)
      BY <1>3, <1>5, <1>7 DEF Open
    <3> QED
      BY <1>3, <1>5, <2>1, <3>1, <3>2, <3>3
  <2>2. CASE k # h
    BY <1>6, <2>2 DEF ReportInv, BillsOK
  <2> QED
    BY <2>1, <2>2
<1>9. MarkedIsBilled'
  <2> SUFFICES ASSUME NEW r \in Records, rec[r].mark = "reported"
               PROVE  r \in Billed' \/ \E q \in missed : q < r /\ SameGroup(q, r)
    BY DEF MarkedIsBilled, SameGroup
  <2>1. CASE \E q \in missed : q < r /\ SameGroup(q, r)
    BY <2>1
  <2>2. CASE \E k \in Records : k # h /\ r \in bill[k]
    BY <1>6, <2>2 DEF Billed
  <2>3. CASE r \in bill[h]
    <3>1. h <= r /\ SameGroup(h, r) /\ h \in missed
      BY <1>2, <1>3, <1>5, <2>3 DEF ReportInv, BillsOK, Open
    <3>2. h # r
      BY <1>3, <1>5 DEF Open
    <3> QED
      BY <1>2, <1>3, <3>1, <3>2 DEF Records
  <2> QED
    BY <2>1, <2>2, <2>3 DEF ReportInv, MarkedIsBilled, Billed
<1> QED
  BY <1>8, <1>9 DEF ReportInv, Ordered

\* The first record in hand is done with; `done' tells whether it is no longer open.
LEMMA OneDoneHand ==
  ASSUME TypeOK, NEW i \in Runs, HandOK(i), run[i].pc = "mark", OneDone(i), bill' = bill,
         \A p, q \in Records : SameGroup(p, q)' <=> SameGroup(p, q),
         \/ Open' = Open \ {First(run[i].group)} /\ missed' = missed
         \/ Open' = Open /\ missed' = missed \cup {First(run[i].group)}
  PROVE  HandOK(i)'
<1>1. PICK S : S = run[i].group
  OBVIOUS
<1>2. S \in SUBSET Records /\ S # {} /\ run[i].todo \in SUBSET Records
  BY <1>1 DEF TypeOK, RunsOK
<1>3. PICK r \in S : r = First(S) /\ \A q \in S : r <= q
  BY <1>2, FirstOf
<1>4. r \notin run[i].todo
  BY <1>1, <1>2, <1>3, GroupsAreClasses DEF HandOK
<1>5. /\ run[i].todo \subseteq Open'
      /\ \A t \in run[i].todo, q \in Open' : q < t /\ SameGroup(q, t) => q \in run[i].todo
  BY <1>1, <1>3, <1>4 DEF HandOK, NothingSkipped
<1>6. CASE S = {r}
  BY <1>1, <1>3, <1>5, <1>6, NextGroupHand DEF OneDone
<1>7. CASE S # {r}
  <2>1. run' = [run EXCEPT ![i].group = @ \ {r}]
    BY <1>1, <1>3, <1>7 DEF OneDone
  <2>2. run'[i].todo = run[i].todo /\ run'[i].group = S \ {r} /\ run'[i].pc = "mark"
    BY <1>1, <2>1 DEF TypeOK, RunsOK
  <2>3. NothingSkipped(run[i].todo)'
    BY <1>2, <1>5, <2>2 DEF NothingSkipped, Open
  <2>4. S \ {r} \subseteq Open'
    BY <1>1, <1>3 DEF HandOK
  <2>5. \A g \in S \ {r}, q \in Open' : q < g /\ SameGroup(q, g) => q \in (S \ {r}) \cup missed'
    BY <1>1, <1>3 DEF HandOK
  <2>6. \E h \in Records : S \subseteq bill[h]
    BY <1>1 DEF HandOK
  <2>7. /\ \A t \in run[i].todo, g \in S : ~SameGroup(g, t)
        /\ \A g, k \in S : SameGroup(g, k)
    BY <1>1 DEF HandOK
  <2>8. Open' \subseteq Records
    BY DEF Open
  <2> QED
    BY <1>2, <2>2, <2>3, <2>4, <2>5, <2>6, <2>7, <2>8 DEF HandOK
<1> QED
  BY <1>6, <1>7

LEMMA MarkStep ==
  ASSUME TypeOK, ReportInv, OneRun, NEW i \in Runs, Mark(i)
  PROVE  ReportInv'
<1>1. PICK S : S = run[i].group
  OBVIOUS
<1>2. S \in SUBSET Records /\ S # {}
  BY <1>1 DEF TypeOK, RunsOK, Mark
<1>3. PICK r \in S : r = First(S) /\ \A q \in S : r <= q
  BY <1>2, FirstOf
<1>4. rec' = [rec EXCEPT ![r].mark = "reported"] /\ bill' = bill /\ missed' = missed
  BY <1>1, <1>3 DEF Mark
<1>5. /\ \A p, q \in Records : SameGroup(p, q)' <=> SameGroup(p, q)
      /\ \A q \in Records : rec'[q].mark = IF q = r THEN "reported" ELSE rec[q].mark
  BY <1>2, <1>4, MarkOne
<1>6. /\ S \subseteq Open
      /\ \E h \in Records : S \subseteq bill[h]
      /\ \A q \in Open : q < r /\ SameGroup(q, r) => q \in missed
  <2>1. \A q \in Open : q < r => q \notin S
    BY <1>2, <1>3 DEF Records, Open
  <2> QED
    BY <1>1, <1>3, <2>1 DEF ReportInv, HandOK, Mark
<1>7. Open' = Open \ {r}
  BY <1>5 DEF Open
<1>8. HandOK(i)'
  BY <1>1, <1>3, <1>4, <1>5, <1>7, OneDoneHand DEF Mark, ReportInv
<1>9. Ordered'
  BY <1>3, <1>5, <1>6 DEF ReportInv, Ordered, Open
<1>10. MarkedIsBilled'
  <2> SUFFICES ASSUME NEW q \in Records, rec'[q].mark = "reported"
               PROVE  q \in Billed \/ \E k \in missed : k < q /\ SameGroup(k, q)
    BY <1>4, <1>5 DEF MarkedIsBilled, Billed, TypeOK
  <2>1. CASE q = r
    BY <1>2, <1>3, <1>6, <2>1 DEF Billed
  <2>2. CASE q # r
    BY <1>5, <2>2 DEF ReportInv, MarkedIsBilled
  <2> QED
    BY <2>1, <2>2
<1>11. BillsOK'
  <2> SUFFICES ASSUME NEW h \in Records, bill[h] # {}
               PROVE  /\ h \in bill[h]
                      /\ \A q \in bill[h] : h <= q /\ SameGroup(h, q) /\ rec'[q].mark # "absent"
                      /\ \A q \in bill[h] : rec'[q].mark = "reported" /\ rec'[h].mark = "open" => h \in missed
                      /\ \A q \in Open' : q < h => ~SameGroup(q, h)
    BY <1>4, <1>5 DEF BillsOK, TypeOK, Open
  <2>1. bill[h] \in SUBSET Records
    BY DEF TypeOK
  <2>2. /\ h \in bill[h]
        /\ \A q \in bill[h] : h <= q /\ SameGroup(h, q) /\ rec[q].mark # "absent"
        /\ \A q \in bill[h] : rec[q].mark = "reported" /\ rec[h].mark = "open" => h \in missed
        /\ \A q \in Open : q < h => ~SameGroup(q, h)
    BY DEF ReportInv, BillsOK
  <2>3. ASSUME r \in bill[h], h # r, rec[h].mark = "open" PROVE h \in missed
    <3>1. h < r /\ SameGroup(h, r)
      BY <1>2, <2>2, <2>3 DEF Records
    <3> QED
      BY <1>6, <2>3, <3>1 DEF Open
  <2> QED
    BY <1>5, <1>7, <2>1, <2>2, <2>3
<1> QED
  BY <1>8, <1>9, <1>10, <1>11 DEF ReportInv, OneRun

LEMMA MarkExemptStep ==
  ASSUME TypeOK, ReportInv, OneRun, NEW i \in Runs, MarkExempt(i)
  PROVE  ReportInv'
<1>1. PICK S : S = run[i].group
  OBVIOUS
<1>2. S \in SUBSET Records /\ S # {} /\ run[i].todo \in SUBSET Records
  BY <1>1 DEF TypeOK, RunsOK, MarkExempt
<1>3. PICK r \in S : r = First(S)
  BY <1>2, FirstOf
<1>4. rec' = [rec EXCEPT ![r].mark = "exempt"] /\ bill' = bill /\ missed' = missed
  BY <1>1, <1>3 DEF MarkExempt
<1>5. /\ \A p, q \in Records : SameGroup(p, q)' <=> SameGroup(p, q)
      /\ \A q \in Records : rec'[q].mark = IF q = r THEN "exempt" ELSE rec[q].mark
  BY <1>2, <1>4, MarkOne
<1>6. Open' = Open \ {r} /\ r \in Open
  BY <1>1, <1>5 DEF Open, ReportInv, HandOK
<1>7. r \notin run[i].todo
  BY <1>1, <1>2, <1>3, GroupsAreClasses DEF ReportInv, HandOK
<1>8. /\ run[i].todo \subseteq Open'
      /\ \A t \in run[i].todo, q \in Open' : q < t /\ SameGroup(q, t) => q \in run[i].todo
  BY <1>6, <1>7 DEF ReportInv, HandOK, NothingSkipped
<1>9. HandOK(i)'
  <2>1. CASE S = {r}
    <3>1. PICK T : T = run[i].todo
      OBVIOUS
    <3>2. run'[i].todo = T /\ run'[i].group = {} /\ run'[i].pc = "next"
      <4>1. TakeUp(i, {}, "next")
        BY <1>1, <1>3, <2>1 DEF MarkExempt
      <4>2. run'[i] = [pc |-> "next", todo |-> T \ {}, group |-> {}, tries |-> 0]
        BY <3>1, <4>1 DEF TakeUp, TypeOK, RunsOK
      <4> QED
        BY <4>2
    <3> QED
      BY <1>2, <1>5, <1>8, <3>1, <3>2, EmptyHand
  <2>2. CASE S # {r}
    <3>1. run'[i].todo = run[i].todo /\ run'[i].group = S \ {r} /\ run'[i].pc = "exempt"
      BY <1>1, <1>3, <2>2 DEF MarkExempt, TypeOK, RunsOK
    <3>2. NothingSkipped(run[i].todo)'
      BY <1>2, <1>5, <1>8, <3>1 DEF NothingSkipped, Open
    <3>3. S \ {r} \subseteq Open' /\ \A t \in run[i].todo, g \in S : ~SameGroup(g, t)
      BY <1>1, <1>6 DEF ReportInv, HandOK
    <3> QED
      BY <1>2, <1>5, <3>1, <3>2, <3>3 DEF HandOK
  <2> QED
    BY <2>1, <2>2
<1>10. Ordered'
  BY <1>5, <1>6 DEF ReportInv, Ordered, Open
<1>11. MarkedIsBilled'
  <2>1. Billed' = Billed
    BY <1>4 DEF Billed
  <2> QED
    BY <1>4, <1>5, <2>1 DEF ReportInv, MarkedIsBilled, TypeOK
<1>12. BillsOK'
  <2> SUFFICES ASSUME NEW h \in Records, bill[h] # {}
               PROVE  /\ h \in bill[h]
                      /\ \A q \in bill[h] : h <= q /\ SameGroup(h, q) /\ rec'[q].mark # "absent"
                      /\ \A q \in bill[h] : rec'[q].mark = "reported" /\ rec'[h].mark = "open" => h \in missed
                      /\ \A q \in Open' : q < h => ~SameGroup(q, h)
    BY <1>4, <1>5 DEF BillsOK, TypeOK, Open
  <2>1. bill[h] \in SUBSET Records
    BY DEF TypeOK
  <2> QED
    BY <1>5, <1>6, <2>1 DEF ReportInv, BillsOK
<1> QED
  BY <1>9, <1>10, <1>11, <1>12 DEF ReportInv, OneRun

\* The earlier an open record, the fewer open ones are before it.
LEMMA FewerBefore ==
  ASSUME NEW t \in Oldest, NEW q \in Open, q < t
  PROVE  q \in Oldest
<1> DEFINE B(r) == {k \in Open : k < r}
<1>1. IsFiniteSet(Records)
  BY FS_Interval DEF Records
<1>2. IsFiniteSet(B(t)) /\ B(q) \subseteq B(t)
  <2>1. B(t) \subseteq Records
    BY DEF Open
  <2>2. t \in Nat /\ q \in Nat /\ Open \subseteq Nat
    BY DEF Oldest, Open, Records
  <2>3. \A k \in B(q) : k \in Open /\ k < t
    BY <2>2
  <2>4. IsFiniteSet(B(t))
    BY <1>1, <2>1, FS_Subset
  <2> QED
    BY <2>3, <2>4
<1>3. Cardinality(B(q)) <= Cardinality(B(t)) /\ Cardinality(B(q)) \in Nat /\ Cardinality(B(t)) \in Nat
  BY <1>2, FS_Subset, FS_CardinalityType
<1>4. Cardinality(B(t)) < Limit
  BY DEF Oldest
<1>5. Cardinality(B(q)) < Limit
  BY <1>3, <1>4
<1> QED
  BY <1>5 DEF Oldest

LEMMA InvStep ==
  ASSUME TypeOK, ReportInv, OneRun, [Next]_reportVars
  PROVE  ReportInv'
<1>1. ASSUME NEW r \in Records, RecordUsage(r) PROVE ReportInv'
  <2>1. /\ \A p, q \in Records : SameGroup(p, q)' <=> SameGroup(p, q)
        /\ \A q \in Records : rec'[q].mark = IF q = r THEN "open" ELSE rec[q].mark
    <3>1. rec' = [rec EXCEPT ![r].mark = "open"]
      BY <1>1 DEF RecordUsage
    <3> QED
      BY <3>1, MarkOne
  <2>2. \A q \in Records : rec[q].mark # "absent" => q < r
    BY <1>1 DEF RecordUsage, ReportInv, Ordered, Records
  <2>3. Open' = Open \cup {r}
    BY <2>1 DEF Open
  <2>4. bill' = bill /\ run' = run /\ missed' = missed
    BY <1>1 DEF RecordUsage
  <2>5. Ordered'
    BY <1>1, <2>1 DEF RecordUsage, ReportInv, Ordered
  <2>6. MarkedIsBilled'
    <3>1. Billed' = Billed
      BY <2>4 DEF Billed
    <3>2. SUFFICES ASSUME NEW q \in Records, rec'[q].mark = "reported"
                   PROVE  q \in Billed \/ \E k \in missed : k < q /\ SameGroup(k, q)
      BY <2>1, <2>4, <3>1 DEF MarkedIsBilled, TypeOK
    <3>3. rec[q].mark = "reported"
      BY <2>1, <3>2
    <3> QED
      BY <3>3 DEF ReportInv, MarkedIsBilled
  <2>7. BillsOK'
    <3> SUFFICES ASSUME NEW h \in Records, bill[h] # {}
                 PROVE  /\ h \in bill[h]
                        /\ \A q \in bill[h] : h <= q /\ SameGroup(h, q) /\ rec'[q].mark # "absent"
                        /\ \A q \in bill[h] : rec'[q].mark = "reported" /\ rec'[h].mark = "open" => h \in missed
                        /\ \A q \in Open' : q < h => ~SameGroup(q, h)
      BY <2>1, <2>4 DEF BillsOK, TypeOK, Open
    <3>1. bill[h] \in SUBSET Records
      BY DEF TypeOK
    <3>2. /\ h \in bill[h]
          /\ \A q \in bill[h] : h <= q /\ SameGroup(h, q) /\ rec[q].mark # "absent"
          /\ \A q \in bill[h] : rec[q].mark = "reported" /\ rec[h].mark = "open" => h \in missed
          /\ \A q \in Open : q < h => ~SameGroup(q, h)
      BY DEF ReportInv, BillsOK
    <3>3. h < r
      BY <2>2, <3>1, <3>2
    <3>4. r \notin bill[h] /\ ~(r < h)
      BY <1>1, <3>2, <3>3 DEF RecordUsage, Records
    <3> QED
      BY <2>1, <2>3, <3>1, <3>2, <3>4
  <2>8. ASSUME NEW i \in Runs PROVE HandOK(i)'
    <3>1. HandOK(i)
      BY DEF ReportInv
    <3>2. \A t \in run[i].todo \cup run[i].group : t < r
      BY <2>2, <3>1 DEF HandOK, NothingSkipped, Open
    <3>3. \A t \in run[i].todo \cup run[i].group : ~(r < t)
      BY <3>1, <3>2 DEF HandOK, NothingSkipped, Open, Records
    <3>4. NothingSkipped(run[i].todo)'
      BY <2>1, <2>3, <2>4, <3>1, <3>3 DEF HandOK, NothingSkipped, Open
    <3>5. run[i].pc = "report" => NothingSkipped(run[i].group)'
      BY <2>1, <2>3, <2>4, <3>1, <3>3 DEF HandOK, NothingSkipped, Open
    <3> QED
      BY <2>1, <2>3, <2>4, <3>1, <3>3, <3>4, <3>5 DEF HandOK, NothingSkipped, Open
  <2> QED
    BY <2>5, <2>6, <2>7, <2>8 DEF ReportInv
<1>2. ASSUME rec' = rec, bill' = bill, run' = run, missed' = missed PROVE ReportInv'
  BY <1>2 DEF ReportInv, Ordered, BillsOK, MarkedIsBilled, Billed, HandOK, NothingSkipped,
              SameGroup, Open
<1>3. ASSUME NEW i \in Runs, HandOK(i)', rec' = rec, bill' = bill, missed \subseteq missed'
      PROVE  ReportInv'
  BY <1>3, SameBooks DEF ReportInv, OneRun
<1>4. ASSUME NEW i \in Runs, Fetch(i) PROVE ReportInv'
  <2>1. PICK T : T = Oldest
    OBVIOUS
  <2>2. run'[i].todo = T /\ run'[i].group = {} /\ run'[i].pc = "next"
    BY <1>4, <2>1 DEF Fetch, Idle, TypeOK, RunsOK
  <2>3. T \subseteq Open /\ Open \subseteq Records
    BY <2>1 DEF Oldest, Open
  <2>4. ASSUME NEW t \in T, NEW q \in Open, q < t PROVE q \in T
    BY <2>1, <2>3, <2>4, FewerBefore
  <2>5. rec' = rec /\ bill' = bill /\ missed' = missed
    BY <1>4 DEF Fetch
  <2>6. HandOK(i)'
    BY <2>2, <2>3, <2>4, <2>5, EmptyHand DEF Open, SameGroup
  <2> QED
    BY <1>3, <2>5, <2>6
<1>5. ASSUME NEW i \in Runs, LoadUser(i) PROVE ReportInv'
  <2>1. PICK T : T = run[i].todo
    OBVIOUS
  <2>2. T \in SUBSET Records /\ T # {} /\ run \in [Runs -> RunType]
    BY <1>5, <2>1 DEF LoadUser, TypeOK, RunsOK, RunType
  <2>3. PICK f \in T : f = First(T)
    BY <2>2, FirstOf
  <2>4. rec' = rec /\ bill' = bill /\ missed' = missed
    BY <1>5 DEF LoadUser
  <2>5. T \subseteq Open' /\ \A t \in T, q \in Open' : q < t /\ SameGroup(q, t) => q \in T
    BY <2>1, <2>4 DEF ReportInv, HandOK, NothingSkipped, Open
  <2>6. \A p, q \in Records : SameGroup(p, q)' <=> SameGroup(p, q)
    BY <2>4 DEF SameGroup
  <2>7. ASSUME TakeUp(i, OfPeriod(i), "report") PROVE HandOK(i)'
    <3>1. PICK N : N = {r \in T : SameGroup(r, f)}
      OBVIOUS
    <3>2. run'[i] = [pc |-> "report", todo |-> T \ N, group |-> N, tries |-> 0]
      BY <2>1, <2>2, <2>3, <2>7, <3>1 DEF TakeUp, OfPeriod
    <3> QED
      BY <2>2, <2>5, <2>6, <3>1, <3>2, WholeGroup
  <2>8. ASSUME TakeUp(i, OfOwner(i), "exempt") PROVE HandOK(i)'
    <3>1. PICK N : N = {r \in T : rec[r].owner = rec[f].owner}
      OBVIOUS
    <3>2. run'[i] = [pc |-> "exempt", todo |-> T \ N, group |-> N, tries |-> 0]
      BY <2>1, <2>2, <2>3, <2>8, <3>1 DEF TakeUp, OfOwner, Owner
    <3>3. run'[i].pc = "exempt" /\ run'[i].todo = T \ N /\ run'[i].group = N
      BY <3>2
    <3>4. \A t \in T \ N, g \in N : ~SameGroup(g, t)
      BY <3>1 DEF SameGroup
    <3>5. \A t \in T \ N, q \in Open' : q < t /\ SameGroup(q, t) => q \in T \ N
      BY <2>5, <3>1 DEF SameGroup
    <3>6. NothingSkipped(T \ N)'
      BY <2>2, <2>5, <2>6, <3>5 DEF NothingSkipped, Open
    <3> QED
      BY <2>2, <2>5, <2>6, <3>1, <3>3, <3>4, <3>6 DEF HandOK
  <2>9. HandOK(i)'
    BY <1>5, <2>7, <2>8 DEF LoadUser
  <2> QED
    BY <1>3, <2>4, <2>9
<1>6. ASSUME NEW i \in Runs, PassUser(i) PROVE ReportInv'
  <2>1. PICK T : T = run[i].todo \ OfOwner(i)
    OBVIOUS
  <2>2. rec' = rec /\ bill' = bill /\ missed' = missed
    BY <1>6 DEF PassUser
  <2>3. run'[i].todo = T /\ run'[i].group = {} /\ run'[i].pc = "next"
    BY <1>6, <2>1 DEF PassUser, TypeOK, RunsOK
  <2>4. T \subseteq Open' /\ \A t \in T, q \in Open' : q < t /\ SameGroup(q, t) => q \in T
    BY <2>1, <2>2 DEF ReportInv, HandOK, NothingSkipped, OfOwner, SameGroup, Open
  <2>5. HandOK(i)'
    BY <2>2, <2>3, <2>4, EmptyHand DEF Open, SameGroup
  <2> QED
    BY <1>3, <2>2, <2>5
<1>7. ASSUME NEW i \in Runs, Finish(i) PROVE ReportInv'
  <2>1. run'[i].todo = {} /\ run'[i].group = {} /\ run'[i].pc = "idle"
    BY <1>7 DEF Finish, Idle, TypeOK, RunsOK
  <2>2. rec' = rec /\ bill' = bill /\ missed' = missed
    BY <1>7 DEF Finish
  <2>3. HandOK(i)'
    BY <2>1, <2>2, EmptyHand DEF SameGroup
  <2> QED
    BY <1>3, <2>2, <2>3
<1>8. ASSUME NEW i \in Runs, Accepted(i) PROVE ReportInv'
  <2>1. PICK S : S = run[i].group
    OBVIOUS
  <2>2. S \in SUBSET Records /\ S # {}
    BY <1>8, <2>1 DEF Accepted, TypeOK, RunsOK
  <2>3. rec' = rec /\ missed' = missed /\ run[i].pc = "report" /\ SetUsage(run[i].group)
    BY <1>8 DEF Accepted
  <2>4. Ordered' /\ BillsOK' /\ MarkedIsBilled'
    BY <2>3, NewTotal
  <2>5. run'[i].pc = "mark" /\ run'[i].group = S /\ run'[i].todo = run[i].todo
    BY <1>8, <2>1 DEF Accepted, TypeOK, RunsOK
  <2>6. \E h \in Records : S \subseteq bill'[h]
    BY <2>1, <2>2, <2>3, FirstOf DEF SetUsage, TypeOK
  <2>7. HandOK(i)
    BY DEF ReportInv
  <2>8. NothingSkipped(run[i].todo)'
    BY <2>3, <2>5, <2>7 DEF HandOK, NothingSkipped, SameGroup, Open
  <2>9. \A g \in S, q \in Open : q < g /\ SameGroup(q, g) => q \in S
    BY <2>1, <2>3, <2>7 DEF HandOK, NothingSkipped
  <2>10. HandOK(i)'
    BY <2>1, <2>3, <2>5, <2>6, <2>7, <2>8, <2>9 DEF HandOK, SameGroup, Open
  <2> QED
    BY <2>4, <2>10 DEF ReportInv, OneRun
<1>9. ASSUME NEW i \in Runs, SendFails(i) PROVE ReportInv'
  <2>1. rec' = rec /\ missed' = missed /\ run[i].pc = "report"
    BY <1>9 DEF SendFails
  <2>2. Ordered' /\ BillsOK' /\ MarkedIsBilled'
    <3>1. CASE SetUsage(run[i].group)
      BY <2>1, <3>1, NewTotal
    <3>2. CASE UNCHANGED bill
      BY <2>1, <3>2, SameBooks DEF ReportInv
    <3> QED
      BY <1>9, <3>1, <3>2 DEF SendFails
  <2>3. HandOK(i)
    BY DEF ReportInv
  <2>4. \A p, q \in Records : SameGroup(p, q)' <=> SameGroup(p, q)
    BY <2>1 DEF SameGroup
  <2>5. ASSUME run' = [run EXCEPT ![i].tries = @ + 1] PROVE HandOK(i)'
    <3>1. run'[i].pc = "report" /\ run'[i].group = run[i].group /\ run'[i].todo = run[i].todo
      BY <2>1, <2>5 DEF TypeOK, RunsOK
    <3> QED
      BY <2>1, <2>3, <3>1 DEF HandOK, NothingSkipped, SameGroup, Open
  <2>6. ASSUME NextGroup(i, GroupOwner(i)) PROVE HandOK(i)'
    <3>1. /\ run[i].todo \subseteq Open'
          /\ \A t \in run[i].todo, q \in Open' : q < t /\ SameGroup(q, t) => q \in run[i].todo
      BY <2>1, <2>3 DEF HandOK, NothingSkipped, Open
    <3> QED
      BY <2>4, <2>6, <3>1, NextGroupHand
  <2>7. HandOK(i)'
    BY <1>9, <2>5, <2>6 DEF SendFails
  <2> QED
    BY <2>2, <2>7 DEF ReportInv, OneRun
<1>10. ASSUME NEW i \in Runs, Mark(i) PROVE ReportInv'
  BY <1>10, MarkStep
<1>11. ASSUME NEW i \in Runs, MarkFails(i) PROVE ReportInv'
  <2>1. rec' = rec /\ bill' = bill /\ missed' = missed \cup {First(run[i].group)}
          /\ run[i].pc = "mark" /\ OneDone(i)
    BY <1>11 DEF MarkFails
  <2>2. Open' = Open /\ \A p, q \in Records : SameGroup(p, q)' <=> SameGroup(p, q)
    BY <2>1 DEF Open, SameGroup
  <2>3. HandOK(i)'
    BY <2>1, <2>2, OneDoneHand DEF ReportInv
  <2> QED
    BY <1>3, <2>1, <2>3
<1>12. ASSUME NEW i \in Runs, MarkExempt(i) PROVE ReportInv'
  BY <1>12, MarkExemptStep
<1>13. ASSUME NEW i \in Runs, MarkExemptFails(i) PROVE ReportInv'
  <2>1. PICK T : T = run[i].todo
    OBVIOUS
  <2>2. T \in SUBSET Records
    BY <2>1 DEF TypeOK, RunsOK
  <2>3. run'[i].todo = T /\ run'[i].group = {} /\ run'[i].pc = "next"
    BY <1>13, <2>1 DEF MarkExemptFails, TakeUp, TypeOK, RunsOK
  <2>4. rec' = rec /\ bill' = bill /\ missed' = missed
    BY <1>13 DEF MarkExemptFails
  <2>5. T \subseteq Open' /\ \A t \in T, q \in Open' : q < t /\ SameGroup(q, t) => q \in T
    BY <2>1, <2>4 DEF ReportInv, HandOK, NothingSkipped, Open
  <2>6. HandOK(i)'
    BY <2>2, <2>3, <2>4, <2>5, EmptyHand DEF SameGroup
  <2> QED
    BY <1>3, <2>4, <2>6
<1>14. CASE Crash
  <2>1. rec' = rec /\ bill' = bill /\ missed \subseteq missed'
    BY <1>14 DEF Crash
  <2>2. Ordered' /\ BillsOK' /\ MarkedIsBilled'
    BY <2>1, SameBooks DEF ReportInv
  <2>3. ASSUME NEW i \in Runs PROVE HandOK(i)'
    <3>1. run'[i].todo = {} /\ run'[i].group = {} /\ run'[i].pc = "idle"
      BY <1>14 DEF Crash, Idle
    <3> QED
      BY <2>1, <3>1, EmptyHand DEF SameGroup
  <2> QED
    BY <2>2, <2>3 DEF ReportInv
<1>15. ASSUME NEW o \in Owners, ChangePlan(o) PROVE ReportInv'
  BY <1>2, <1>15 DEF ChangePlan
<1>16. CASE Calm
  BY <1>2, <1>16 DEF Calm
<1>17. CASE UNCHANGED reportVars
  BY <1>2, <1>17 DEF reportVars
<1> QED
  BY <1>1, <1>4, <1>5, <1>6, <1>7, <1>8, <1>9, <1>10, <1>11, <1>12, <1>13, <1>14, <1>15,
     <1>16, <1>17 DEF Next, Step

LEMMA InvInit == Init => ReportInv
<1> SUFFICES ASSUME Init PROVE ReportInv
  OBVIOUS
<1>1. Ordered /\ BillsOK /\ MarkedIsBilled
  BY DEF Init, Ordered, BillsOK, MarkedIsBilled
<1>2. \A i \in Runs : HandOK(i)
  BY DEF Init, Idle, HandOK, NothingSkipped
<1> QED
  BY <1>1, <1>2 DEF ReportInv

\* Usage that is marked as reported is in the bill, whatever calls failed and wherever
\* the process ended, but for totals replaced after a missed mark; as long as two
\* executions of the task do not overlap.
THEOREM MarkedUsageIsBilled == OneRun /\ Spec => []MarkedIsBilled
<1>1. Init => ReportInv
  BY InvInit
<1>2. OneRun /\ TypeOK /\ ReportInv /\ [Next]_reportVars => ReportInv'
  BY InvStep
<1>3. ReportInv => MarkedIsBilled
  BY DEF ReportInv
<1>4. ASSUME OneRun PROVE Spec => []MarkedIsBilled
  <2>1. TypeOK /\ ReportInv /\ [Next]_reportVars => ReportInv'
    BY <1>2, <1>4
  <2> QED
    BY <1>1, <1>3, <2>1, TypeCorrect, PTL DEF Spec
<1> QED
  BY <1>4

-----------------------------------------------------------------------------
(***************************************************************************)
(* No record is billed under two seconds.  A record that a total held and  *)
(* whose head is marked is either in hand, waiting for its own mark, or    *)
(* its mark was missed, or its user left the plans with overage, which is  *)
(* for good.                                                               *)
(***************************************************************************)
ExemptIsExempt == \A r \in Records : rec[r].mark = "exempt" => plan[rec[r].owner] = "exempt"

LeftIsMissed ==
  \A h \in Records : \A r \in bill[h] :
    rec[r].mark = "open" /\ rec[h].mark # "open" =>
      \/ r \in missed
      \/ rec[h].mark = "exempt"
      \/ \E i \in Runs : run[i].pc = "mark" /\ r \in run[i].group

ExemptHand(i) == run[i].pc = "exempt" => \A g \in run[i].group : plan[rec[g].owner] = "exempt"

BillableHand(i) ==
  run[i].pc \in {"report", "mark"} =>
    \A g \in run[i].group, r \in Records : rec[r].owner = rec[g].owner => rec[r].mark # "exempt"

MarkedHand(i) ==
  run[i].pc = "mark" =>
    \A g \in run[i].group : \A q \in bill[g] :
      rec[q].mark = "open" => q \in run[i].group \cup missed

OnceHand(i) == ExemptHand(i) /\ BillableHand(i) /\ MarkedHand(i)

OnceInv ==
  /\ ExemptIsExempt
  /\ LeftIsMissed
  /\ BilledOnce
  /\ \A i \in Runs : OnceHand(i)

\* A group in hand that is not being marked.
LEMMA OtherHand ==
  ASSUME OneRun, OnceInv, NEW i \in Runs, rec' = rec, bill' = bill, plan' = plan, missed' = missed,
         run[i].pc # "mark", run'[i].pc # "mark", ExemptHand(i)', BillableHand(i)'
  PROVE  OnceInv'
<1>1. \A j \in Runs : run[j].pc # "mark" /\ run'[j].pc # "mark"
  BY DEF OneRun
<1>2. LeftIsMissed'
  BY <1>1 DEF OnceInv, LeftIsMissed
<1>3. \A j \in Runs : OnceHand(j)'
  BY <1>1 DEF OneRun, OnceHand, MarkedHand
<1> QED
  BY <1>2, <1>3 DEF OnceInv, ExemptIsExempt, BilledOnce

\* After a group comes one of the same user, of whom no record is exempt, or none.
LEMMA NextGroupOnce ==
  ASSUME TypeOK, NEW i \in Runs, NEW o, NextGroup(i, o),
         \A r \in Records : rec'[r].owner = rec[r].owner,
         \A r \in Records : rec[r].owner = o => rec'[r].mark # "exempt"
  PROVE  run'[i].pc \in {"next", "report"} /\ OnceHand(i)'
<1>0. PICK T : T = run[i].todo
  OBVIOUS
<1> DEFINE rest == {r \in T : rec[r].owner = o}
<1>1. T \in SUBSET Records /\ run \in [Runs -> RunType]
  BY <1>0 DEF TypeOK, RunsOK, RunType
<1>2. PICK N, pc : /\ N \subseteq rest /\ pc \in {"next", "report"}
                   /\ run'[i] = [pc |-> pc, todo |-> T \ N, group |-> N, tries |-> 0]
  <2>1. CASE rest = {}
    <3>1. run'[i] = [pc |-> "next", todo |-> T \ {}, group |-> {}, tries |-> 0]
      BY <1>0, <1>1, <2>1 DEF NextGroup, TakeUp
    <3> QED
      BY <3>1
  <2>2. CASE rest # {}
    <3>1. PICK N : N = {r \in rest : SameGroup(r, First(rest))}
      OBVIOUS
    <3>2. run'[i] = [pc |-> "report", todo |-> T \ N, group |-> N, tries |-> 0]
      BY <1>0, <1>1, <2>2, <3>1 DEF NextGroup, TakeUp
    <3> QED
      BY <3>1, <3>2
  <2> QED
    BY <2>1, <2>2
<1>3. run'[i].pc = pc /\ run'[i].group = N
  BY <1>2
<1>4. BillableHand(i)'
  BY <1>1, <1>2, <1>3 DEF BillableHand
<1> QED
  BY <1>2, <1>3, <1>4 DEF OnceHand, ExemptHand, MarkedHand

\* A record leaves the hand, or was the last one of its group.
LEMMA OneDoneCases ==
  ASSUME TypeOK, NEW i \in Runs, run[i].pc = "mark", OneDone(i)
  PROVE  \E r \in run[i].group :
           /\ r = First(run[i].group) /\ r \in Records
           /\ \/ /\ run'[i].pc = "mark" /\ run'[i].group = run[i].group \ {r}
              \/ run[i].group = {r} /\ NextGroup(i, rec[r].owner)
<1>1. First(run[i].group) \in run[i].group /\ run[i].group \in SUBSET Records
  BY FirstOf DEF TypeOK, RunsOK
<1>2. CASE run[i].group = {First(run[i].group)}
  BY <1>1, <1>2 DEF OneDone
<1>3. CASE run[i].group # {First(run[i].group)}
  <2>1. run' = [run EXCEPT ![i].group = @ \ {First(run[i].group)}]
    BY <1>3 DEF OneDone
  <2>2. run'[i].pc = "mark" /\ run'[i].group = run[i].group \ {First(run[i].group)}
    BY <2>1 DEF TypeOK, RunsOK
  <2> QED
    BY <1>1, <2>2
<1> QED
  BY <1>2, <1>3

\* Stripe takes a total: whatever of it was billed before, under another record, had
\* its mark missed.
LEMMA NewTotalOnce ==
  ASSUME TypeOK, ReportInv, OneRun, OnceInv, NEW i \in Runs, run[i].pc = "report",
         SetUsage(run[i].group), rec' = rec, missed' = missed
  PROVE  /\ BilledOnce'
         /\ \A h \in Records : \A r \in bill'[h] :
              rec[r].mark = "open" /\ rec[h].mark # "open" =>
                r \in missed \/ rec[h].mark = "exempt"
         /\ \A g \in run[i].group : bill'[g] \subseteq run[i].group
<1>1. PICK S : S = run[i].group
  OBVIOUS
<1>2. S \in SUBSET Records /\ S # {}
  BY <1>1 DEF TypeOK, RunsOK
<1>3. PICK h \in S : h = First(S) /\ \A q \in S : h <= q
  BY <1>2, FirstOf
<1>4. bill' = [bill EXCEPT ![h] = S]
  BY <1>1, <1>3 DEF SetUsage
<1>5. /\ S \subseteq Open
      /\ \A g, k \in S : SameGroup(g, k)
      /\ \A g \in S, q \in Open : q < g /\ SameGroup(q, g) => q \in S
  BY <1>1 DEF ReportInv, HandOK, NothingSkipped
<1>6. \A k \in Records : bill'[k] = IF k = h THEN S ELSE bill[k]
  BY <1>2, <1>4 DEF TypeOK
<1>7. \A j \in Runs : run[j].pc # "mark"
  BY DEF OneRun
<1>8. ASSUME NEW p \in Records, p # h, NEW r \in bill[p], r \in S PROVE r \in missed
  <2>1. /\ p <= r /\ SameGroup(p, r) /\ rec[p].mark # "absent" /\ p \in bill[p]
        /\ \A q \in Open : q < p => ~SameGroup(q, p)
    BY <1>8 DEF ReportInv, BillsOK
  <2>2. rec[r].mark = "open" /\ r \in Records
    BY <1>5, <1>8 DEF Open
  <2>3. rec[p].mark # "exempt"
    <3>1. rec[p].owner = rec[r].owner
      BY <2>1 DEF SameGroup
    <3>2. BillableHand(i)
      BY DEF OnceInv, OnceHand
    <3> QED
      BY <1>1, <1>8, <3>1, <3>2 DEF BillableHand
  <2>4. rec[p].mark # "open"
    <3>1. SUFFICES ASSUME rec[p].mark = "open" PROVE FALSE
      OBVIOUS
    <3>2. p \in Open
      BY <3>1 DEF Open
    <3>3. p \in S
      <4>1. CASE p = r
        BY <1>8, <4>1
      <4>2. CASE p # r
        BY <1>5, <1>8, <2>1, <2>2, <3>2, <4>2 DEF Records
      <4> QED
        BY <4>1, <4>2
    <3>4. h < p /\ h \in Open /\ SameGroup(h, p)
      BY <1>2, <1>3, <1>5, <1>8, <3>3 DEF Records
    <3> QED
      BY <2>1, <3>4
  <2> QED
    BY <1>7, <1>8, <2>2, <2>3, <2>4 DEF OnceInv, LeftIsMissed
<1>9. BilledOnce'
  <2> SUFFICES ASSUME NEW p \in Records, NEW q \in Records, p # q,
                      NEW r \in bill'[p], r \in bill'[q]
               PROVE  r \in missed
    BY DEF BilledOnce
  <2>1. CASE p = h
    BY <1>6, <1>8, <2>1
  <2>2. CASE q = h
    BY <1>6, <1>8, <2>2
  <2>3. CASE p # h /\ q # h
    BY <1>6, <2>3 DEF OnceInv, BilledOnce
  <2> QED
    BY <2>1, <2>2, <2>3
<1>10. ASSUME NEW k \in Records, NEW r \in bill'[k], rec[r].mark = "open", rec[k].mark # "open"
       PROVE  r \in missed \/ rec[k].mark = "exempt"
  <2>1. k # h
    BY <1>3, <1>5, <1>10 DEF Open
  <2> QED
    BY <1>6, <1>7, <1>10, <2>1 DEF OnceInv, LeftIsMissed
<1>11. ASSUME NEW g \in S PROVE bill'[g] \subseteq S
  <2>1. CASE g = h
    BY <1>2, <1>6, <2>1
  <2>2. CASE g # h
    <3>1. h < g /\ h \in Open /\ SameGroup(h, g)
      BY <1>2, <1>3, <1>5, <2>2 DEF Records
    <3>2. bill[g] = {}
      BY <1>2, <3>1 DEF ReportInv, BillsOK
    <3> QED
      BY <1>2, <1>6, <2>2, <3>2
  <2> QED
    BY <2>1, <2>2
<1> QED
  BY <1>1, <1>9, <1>10, <1>11

LEMMA OnceStep ==
  ASSUME TypeOK, TypeOK', ReportInv, OneRun, OnceInv, [Next]_reportVars
  PROVE  OnceInv'
<1>1. ASSUME NEW r \in Records, RecordUsage(r) PROVE OnceInv'
  <2>1. \A q \in Records : /\ rec'[q].owner = rec[q].owner
                           /\ rec'[q].mark = IF q = r THEN "open" ELSE rec[q].mark
    BY <1>1 DEF RecordUsage, TypeOK
  <2>2. bill' = bill /\ run' = run /\ missed' = missed /\ plan' = plan /\ rec[r].mark = "absent"
    BY <1>1 DEF RecordUsage
  <2>3. \A h \in Records : r \notin bill[h] /\ bill[h] \in SUBSET Records /\ (bill[h] # {} => h # r)
    BY <2>2 DEF ReportInv, BillsOK, TypeOK
  <2>4. LeftIsMissed'
    BY <2>1, <2>2, <2>3 DEF OnceInv, LeftIsMissed
  <2>5. ExemptIsExempt' /\ BilledOnce'
    BY <2>1, <2>2 DEF OnceInv, ExemptIsExempt, BilledOnce
  <2>6. ASSUME NEW i \in Runs PROVE OnceHand(i)'
    <3>1. run[i].group \in SUBSET Records
      BY DEF TypeOK, RunsOK
    <3>2. OnceHand(i)
      BY DEF OnceInv
    <3>3. ExemptHand(i)' /\ BillableHand(i)'
      BY <2>1, <2>2, <3>1, <3>2 DEF OnceHand, ExemptHand, BillableHand
    <3>4. MarkedHand(i)'
      BY <2>1, <2>2, <2>3, <3>1, <3>2 DEF OnceHand, MarkedHand
    <3> QED
      BY <3>3, <3>4 DEF OnceHand
  <2> QED
    BY <2>4, <2>5, <2>6 DEF OnceInv
<1>2. ASSUME NEW o \in Owners, ChangePlan(o) PROVE OnceInv'
  <2>1. /\ rec' = rec /\ bill' = bill /\ run' = run /\ missed' = missed
        /\ \A p \in Owners : plan[p] = "exempt" => plan'[p] = "exempt"
    BY <1>2 DEF ChangePlan, TypeOK
  <2>2. ExemptIsExempt' /\ LeftIsMissed' /\ BilledOnce'
    BY <2>1 DEF OnceInv, ExemptIsExempt, LeftIsMissed, BilledOnce, TypeOK
  <2>3. ASSUME NEW i \in Runs PROVE OnceHand(i)'
    <3>1. run[i].group \in SUBSET Records
      BY DEF TypeOK, RunsOK
    <3> QED
      BY <2>1, <3>1 DEF OnceInv, OnceHand, ExemptHand, BillableHand, MarkedHand, TypeOK
  <2> QED
    BY <2>2, <2>3 DEF OnceInv
<1>3. ASSUME NEW i \in Runs, Fetch(i) \/ PassUser(i) \/ Finish(i) \/ MarkExemptFails(i)
      PROVE  OnceInv'
  <2>1. /\ rec' = rec /\ bill' = bill /\ plan' = plan /\ missed' = missed
        /\ run[i].pc \in {"idle", "next", "exempt"}
    BY <1>3 DEF Fetch, PassUser, Finish, MarkExemptFails
  <2>2. run'[i].pc \in {"idle", "next"}
    <3>1. CASE Fetch(i)
      BY <3>1 DEF Fetch, Idle, TypeOK, RunsOK
    <3>2. CASE PassUser(i) \/ Finish(i)
      BY <3>2 DEF PassUser, Finish, Idle, TypeOK, RunsOK
    <3>3. CASE MarkExemptFails(i)
      BY <3>3 DEF MarkExemptFails, TakeUp, TypeOK, RunsOK
    <3> QED
      BY <1>3, <3>1, <3>2, <3>3
  <2> QED
    BY <2>1, <2>2, OtherHand DEF ExemptHand, BillableHand
<1>4. ASSUME NEW i \in Runs, LoadUser(i) PROVE OnceInv'
  <2>1. PICK T : T = run[i].todo
    OBVIOUS
  <2>2. T \in SUBSET Records /\ T # {} /\ run \in [Runs -> RunType]
    BY <1>4, <2>1 DEF LoadUser, TypeOK, RunsOK, RunType
  <2>3. PICK f \in T : f = First(T)
    BY <2>2, FirstOf
  <2>4. rec' = rec /\ bill' = bill /\ missed' = missed /\ plan' = plan /\ run[i].pc = "next"
    BY <1>4 DEF LoadUser
  <2>5. PICK S, pc : /\ run'[i] = [pc |-> pc, todo |-> T \ S, group |-> S, tries |-> 0]
                     /\ \A g \in S : g \in T /\ rec[g].owner = rec[f].owner
                     /\ \/ pc = "report" /\ plan[rec[f].owner] = "billable"
                        \/ pc = "exempt" /\ plan[rec[f].owner] = "exempt"
    <3>1. ASSUME plan[Owner(i)] = "billable", TakeUp(i, OfPeriod(i), "report")
          PROVE  \E S, pc :
                   /\ run'[i] = [pc |-> pc, todo |-> T \ S, group |-> S, tries |-> 0]
                   /\ \A g \in S : g \in T /\ rec[g].owner = rec[f].owner
                   /\ pc = "report" /\ plan[rec[f].owner] = "billable"
      <4>1. PICK N : N = OfPeriod(i)
        OBVIOUS
      <4>2. run'[i] = [pc |-> "report", todo |-> T \ N, group |-> N, tries |-> 0]
        BY <2>1, <2>2, <3>1, <4>1 DEF TakeUp
      <4>3. \A g \in N : g \in T /\ rec[g].owner = rec[f].owner
        BY <2>1, <2>3, <4>1 DEF OfPeriod, SameGroup
      <4> QED
        BY <2>1, <2>3, <3>1, <4>2, <4>3 DEF Owner
    <3>2. ASSUME plan[Owner(i)] = "exempt", TakeUp(i, OfOwner(i), "exempt")
          PROVE  \E S, pc :
                   /\ run'[i] = [pc |-> pc, todo |-> T \ S, group |-> S, tries |-> 0]
                   /\ \A g \in S : g \in T /\ rec[g].owner = rec[f].owner
                   /\ pc = "exempt" /\ plan[rec[f].owner] = "exempt"
      <4>1. PICK N : N = OfOwner(i)
        OBVIOUS
      <4>2. run'[i] = [pc |-> "exempt", todo |-> T \ N, group |-> N, tries |-> 0]
        BY <2>1, <2>2, <3>2, <4>1 DEF TakeUp
      <4>3. \A g \in N : g \in T /\ rec[g].owner = rec[f].owner
        BY <2>1, <2>3, <4>1 DEF OfOwner, Owner
      <4> QED
        BY <2>1, <2>3, <3>2, <4>2, <4>3 DEF Owner
    <3> QED
      BY <1>4, <3>1, <3>2 DEF LoadUser
  <2>6. run'[i].pc = pc /\ run'[i].group = S
    BY <2>5
  <2>7. ExemptHand(i)'
    BY <2>4, <2>5, <2>6 DEF ExemptHand
  <2>8. BillableHand(i)'
    BY <2>4, <2>5, <2>6 DEF BillableHand, OnceInv, ExemptIsExempt
  <2> QED
    BY <2>4, <2>5, <2>6, <2>7, <2>8, OtherHand
<1>5. ASSUME NEW i \in Runs, Accepted(i) PROVE OnceInv'
  <2>1. /\ rec' = rec /\ missed' = missed /\ plan' = plan /\ run[i].pc = "report"
        /\ SetUsage(run[i].group)
    BY <1>5 DEF Accepted
  <2>2. run'[i].pc = "mark" /\ run'[i].group = run[i].group
    BY <1>5 DEF Accepted, TypeOK, RunsOK
  <2>3. /\ BilledOnce'
        /\ \A h \in Records : \A r \in bill'[h] :
             rec[r].mark = "open" /\ rec[h].mark # "open" =>
               r \in missed \/ rec[h].mark = "exempt"
        /\ \A g \in run[i].group : bill'[g] \subseteq run[i].group
    BY <2>1, NewTotalOnce
  <2>4. LeftIsMissed'
    BY <2>1, <2>3 DEF LeftIsMissed
  <2>5. OnceHand(i)
    BY DEF OnceInv
  <2>6. ExemptHand(i)' /\ BillableHand(i)'
    BY <2>1, <2>2, <2>5 DEF OnceHand, ExemptHand, BillableHand
  <2>7. MarkedHand(i)'
    BY <2>2, <2>3 DEF MarkedHand
  <2>8. ExemptIsExempt'
    BY <2>1 DEF OnceInv, ExemptIsExempt
  <2> QED
    BY <2>3, <2>4, <2>6, <2>7, <2>8 DEF OnceInv, OnceHand, OneRun
<1>6. ASSUME NEW i \in Runs, SendFails(i) PROVE OnceInv'
  <2>1. /\ rec' = rec /\ missed' = missed /\ plan' = plan /\ run[i].pc = "report"
        /\ SetUsage(run[i].group) \/ UNCHANGED bill
    BY <1>6 DEF SendFails
  <2>2. OnceHand(i) /\ \A j \in Runs : run[j].pc # "mark"
    BY <2>1 DEF OnceInv, OneRun
  <2>3. BilledOnce' /\ LeftIsMissed'
    <3>1. CASE SetUsage(run[i].group)
      BY <2>1, <3>1, NewTotalOnce DEF LeftIsMissed
    <3>2. CASE UNCHANGED bill
      BY <2>1, <2>2, <3>2 DEF OnceInv, BilledOnce, LeftIsMissed
    <3> QED
      BY <2>1, <3>1, <3>2
  <2>4. OnceHand(i)'
    <3>1. ASSUME run' = [run EXCEPT ![i].tries = @ + 1] PROVE OnceHand(i)'
      <4>1. run'[i].pc = "report" /\ run'[i].group = run[i].group
        BY <2>1, <3>1 DEF TypeOK, RunsOK
      <4> QED
        BY <2>1, <2>2, <4>1 DEF OnceHand, ExemptHand, BillableHand, MarkedHand
    <3>2. ASSUME NextGroup(i, GroupOwner(i)) PROVE OnceHand(i)'
      <4>1. First(run[i].group) \in run[i].group
        BY <2>1, FirstOf DEF TypeOK, RunsOK
      <4>2. \A r \in Records : rec[r].owner = GroupOwner(i) => rec[r].mark # "exempt"
        BY <2>1, <2>2, <4>1 DEF OnceHand, BillableHand, GroupOwner
      <4> QED
        BY <2>1, <3>2, <4>2, NextGroupOnce
    <3> QED
      BY <1>6, <3>1, <3>2 DEF SendFails
  <2>5. ExemptIsExempt'
    BY <2>1 DEF OnceInv, ExemptIsExempt
  <2> QED
    BY <2>3, <2>4, <2>5 DEF OnceInv, OneRun
<1>7. ASSUME NEW i \in Runs, Mark(i) \/ MarkFails(i) PROVE OnceInv'
  <2>1. /\ bill' = bill /\ plan' = plan /\ run[i].pc = "mark" /\ OneDone(i)
    BY <1>7 DEF Mark, MarkFails
  <2>2. PICK r \in run[i].group :
           /\ r = First(run[i].group) /\ r \in Records
           /\ \/ /\ run'[i].pc = "mark" /\ run'[i].group = run[i].group \ {r}
              \/ run[i].group = {r} /\ NextGroup(i, rec[r].owner)
    BY <2>1, OneDoneCases
  <2>3. /\ \A q \in Records \ {r} : rec'[q] = rec[q]
        /\ rec'[r].owner = rec[r].owner
        /\ missed \subseteq missed'
        /\ \/ rec'[r].mark = "reported"
           \/ rec'[r].mark = rec[r].mark /\ r \in missed'
    BY <1>7, <2>2 DEF Mark, MarkFails, TypeOK
  <2>4. OnceHand(i) /\ run[i].group \in SUBSET Records
    BY DEF OnceInv, TypeOK, RunsOK
  <2>5. \A q \in Records : bill[q] \in SUBSET Records
    BY DEF TypeOK
  <2>6. \A j \in Runs, q \in Records :
           run[j].pc = "mark" /\ q \in run[j].group /\ rec'[q].mark = "open" =>
             q \in missed' \/ (run'[i].pc = "mark" /\ q \in run'[i].group)
    BY <2>2, <2>3 DEF OneRun
  <2>7. LeftIsMissed'
    <3> SUFFICES ASSUME NEW h \in Records, NEW q \in bill[h],
                        rec'[q].mark = "open", rec'[h].mark # "open"
                 PROVE  \/ q \in missed'
                        \/ rec'[h].mark = "exempt"
                        \/ run'[i].pc = "mark" /\ q \in run'[i].group
      BY <2>1 DEF LeftIsMissed
    <3>1. q \in Records /\ rec[q].mark = "open"
      BY <2>3, <2>5
    <3>2. CASE rec[h].mark # "open"
      <4>1. \/ q \in missed
            \/ rec[h].mark = "exempt"
            \/ \E j \in Runs : run[j].pc = "mark" /\ q \in run[j].group
        BY <3>1, <3>2 DEF OnceInv, LeftIsMissed
      <4>2. rec[h].mark = "exempt" => rec'[h].mark = "exempt"
        <5>1. \A g \in run[i].group : rec[g].mark = "open"
          BY DEF ReportInv, HandOK, Open
        <5> QED
          BY <2>2, <2>3, <3>2, <5>1
      <4> QED
        BY <2>3, <2>6, <3>1, <4>1, <4>2
    <3>3. CASE rec[h].mark = "open"
      <4>1. h = r
        BY <2>3, <3>3
      <4>2. q \in run[i].group \cup missed
        BY <2>1, <2>2, <2>4, <3>1, <4>1 DEF OnceHand, MarkedHand
      <4> QED
        BY <2>1, <2>3, <2>6, <3>1, <4>2
    <3> QED
      BY <3>2, <3>3
  <2>8. OnceHand(i)'
    <3>1. CASE run'[i].pc = "mark" /\ run'[i].group = run[i].group \ {r}
      <4>1. BillableHand(i)'
        BY <2>1, <2>2, <2>3, <2>4, <3>1 DEF OnceHand, BillableHand
      <4>2. MarkedHand(i)'
        BY <2>1, <2>2, <2>3, <2>4, <2>5, <3>1 DEF OnceHand, MarkedHand
      <4> QED
        BY <3>1, <4>1, <4>2 DEF OnceHand, ExemptHand
    <3>2. CASE NextGroup(i, rec[r].owner)
      <4>1. \A q \in Records : rec[q].owner = rec[r].owner => rec'[q].mark # "exempt"
        BY <2>1, <2>2, <2>3, <2>4 DEF OnceHand, BillableHand
      <4>2. \A q \in Records : rec'[q].owner = rec[q].owner
        BY <2>3
      <4> QED
        BY <3>2, <4>1, <4>2, NextGroupOnce
    <3> QED
      BY <2>2, <3>1, <3>2
  <2>9. ExemptIsExempt' /\ BilledOnce'
    <3>1. \A q \in Records : rec'[q].mark = "exempt" =>
            rec[q].mark = "exempt" /\ rec'[q].owner = rec[q].owner
      BY <2>3
    <3> QED
      BY <2>1, <2>3, <3>1 DEF OnceInv, ExemptIsExempt, BilledOnce
  <2> QED
    BY <2>7, <2>8, <2>9 DEF OnceInv, OneRun
<1>8. ASSUME NEW i \in Runs, MarkExempt(i) PROVE OnceInv'
  <2>1. First(run[i].group) \in run[i].group /\ run[i].group \in SUBSET Records
    BY <1>8, FirstOf DEF MarkExempt, TypeOK, RunsOK
  <2>2. PICK r \in run[i].group : r = First(run[i].group)
    BY <2>1
  <2>3. /\ bill' = bill /\ plan' = plan /\ missed' = missed /\ run[i].pc = "exempt"
        /\ \A q \in Records : /\ rec'[q].owner = rec[q].owner
                              /\ rec'[q].mark = IF q = r THEN "exempt" ELSE rec[q].mark
    BY <1>8, <2>1, <2>2 DEF MarkExempt, TypeOK
  <2>4. run'[i].pc \in {"next", "exempt"} /\ run'[i].group \subseteq run[i].group
    <3>1. CASE TakeUp(i, {}, "next")
      <4>1. run'[i] = [pc |-> "next", todo |-> run[i].todo \ {}, group |-> {}, tries |-> 0]
        BY <3>1 DEF TakeUp, TypeOK, RunsOK
      <4> QED
        BY <4>1
    <3>2. CASE run' = [run EXCEPT ![i].group = @ \ {First(run[i].group)}]
      BY <2>3, <3>2 DEF TypeOK, RunsOK
    <3> QED
      BY <1>8, <3>1, <3>2 DEF MarkExempt
  <2>5. OnceHand(i) /\ \A j \in Runs : run[j].pc # "mark"
    BY <2>3 DEF OnceInv, OneRun
  <2>6. ExemptIsExempt'
    BY <2>1, <2>2, <2>3, <2>5 DEF OnceInv, ExemptIsExempt, OnceHand, ExemptHand
  <2>7. LeftIsMissed'
    <3>1. \A q \in Records : bill[q] \in SUBSET Records
      BY DEF TypeOK
    <3> QED
      BY <2>1, <2>3, <2>5, <3>1 DEF OnceInv, LeftIsMissed
  <2>8. BilledOnce'
    BY <2>3 DEF OnceInv, BilledOnce
  <2>9. OnceHand(i)'
    BY <2>1, <2>3, <2>4, <2>5 DEF OnceHand, ExemptHand, BillableHand, MarkedHand
  <2> QED
    BY <2>6, <2>7, <2>8, <2>9 DEF OnceInv, OneRun
<1>9. CASE Crash
  <2>1. /\ rec' = rec /\ bill' = bill /\ plan' = plan
        /\ missed' = missed \cup UNION {run[i].group : i \in {j \in Runs : run[j].pc = "mark"}}
        /\ \A i \in Runs : run'[i].pc = "idle"
    BY <1>9 DEF Crash, Idle
  <2>2. \A i \in Runs : run[i].pc = "mark" => run[i].group \subseteq missed'
    BY <2>1
  <2>3. LeftIsMissed'
    BY <2>1, <2>2 DEF OnceInv, LeftIsMissed
  <2>4. ExemptIsExempt' /\ BilledOnce'
    BY <2>1 DEF OnceInv, ExemptIsExempt, BilledOnce
  <2> QED
    BY <2>1, <2>3, <2>4 DEF OnceInv, OnceHand, ExemptHand, BillableHand, MarkedHand
<1>10. CASE Calm \/ UNCHANGED reportVars
  BY <1>10 DEF Calm, reportVars, OnceInv, ExemptIsExempt, LeftIsMissed, BilledOnce, OnceHand,
               ExemptHand, BillableHand, MarkedHand
<1> QED
  BY <1>1, <1>2, <1>3, <1>4, <1>5, <1>6, <1>7, <1>8, <1>9, <1>10 DEF Next, Step

\* No record is billed under two seconds, whatever calls failed and wherever the process
\* ended, but for the records whose mark was missed after Stripe was told of them; as
\* long as two executions of the task do not overlap.
THEOREM UsageIsBilledOnce == OneRun /\ Spec => []BilledOnce
<1>1. Init => ReportInv /\ OnceInv
  <2> SUFFICES ASSUME Init PROVE ReportInv /\ OnceInv
    OBVIOUS
  <2>1. ReportInv
    BY InvInit
  <2>2. ExemptIsExempt /\ LeftIsMissed /\ BilledOnce
    BY DEF Init, ExemptIsExempt, LeftIsMissed, BilledOnce
  <2>3. \A i \in Runs : OnceHand(i)
    BY DEF Init, Idle, OnceHand, ExemptHand, BillableHand, MarkedHand
  <2> QED
    BY <2>1, <2>2, <2>3 DEF OnceInv
<1>2. OneRun /\ TypeOK /\ TypeOK' /\ ReportInv /\ OnceInv /\ [Next]_reportVars
        => ReportInv' /\ OnceInv'
  BY InvStep, OnceStep
<1>3. OnceInv => BilledOnce
  BY DEF OnceInv
<1>4. ASSUME OneRun PROVE Spec => []BilledOnce
  <2>1. TypeOK /\ TypeOK' /\ ReportInv /\ OnceInv /\ [Next]_reportVars
          => ReportInv' /\ OnceInv'
    BY <1>2, <1>4
  <2> QED
    BY <1>1, <1>3, <2>1, TypeCorrect, PTL DEF Spec
<1> QED
  BY <1>4
=============================================================================
