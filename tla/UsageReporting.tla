--------------------------- MODULE UsageReporting ---------------------------
(***************************************************************************)
(* Metered usage on its way to Stripe.  The middleware                     *)
(* (api/middleware/usage_tracking.py) leaves one committed billing record  *)
(* for every tracked request that succeeded; the hourly task               *)
(* (billing/usage_reporter.py, run by api/services/scheduler_service.py)   *)
(* fetches the oldest unreported records, groups them by user and billing  *)
(* period, sends Stripe the total of each group with the action "set" at   *)
(* the second of the group's first record, and then marks the records one  *)
(* at a time, each mark a commit of its own.                               *)
(*                                                                         *)
(* Totals are sets of records here: what Stripe holds for a second is the  *)
(* set of records whose sum it was last told.  Records are numbered in the *)
(* order of their creation; no two groups start in the same second.        *)
(***************************************************************************)
EXTENDS Naturals, FiniteSets

CONSTANTS Owners,
          MaxRecords,  \* bound: billing records considered
          LastPeriod,  \* bound: billing periods considered
          Limit,       \* records fetched by one run (500)
          MaxRetries,  \* tries of one call to Stripe (3)
          Runs         \* executions of the task: the scheduler's, an administrator's

ASSUME MaxRecordsType == MaxRecords \in Nat
ASSUME LastPeriodType == LastPeriod \in Nat \ {0}
ASSUME LimitType == Limit \in Nat \ {0}
ASSUME MaxRetriesType == MaxRetries \in Nat \ {0}

Records == 1..MaxRecords
Periods == 1..LastPeriod

\* "billable": a plan with overage and a subscription item for it; "exempt": any plan
\* but PROFESSIONAL and ENTERPRISE; "unbillable": one of these two without
\* subscription, overage price or item.
Plans == {"billable", "exempt", "unbillable"}
Marks == {"absent", "open", "reported", "exempt"}

VARIABLES rec,    \* billing_usage_records
          plan,   \* the users, as far as the reporter looks at them
          bill,   \* Stripe: the records last set at the second of a record
          run,    \* the executions of the task
          calm,   \* the environment: from now on no call fails and no process ends
          missed  \* history: records Stripe was told of whose mark failed or was cut off

reportVars == <<rec, plan, bill, run, calm, missed>>

Open == {r \in Records : rec[r].mark = "open"}

\* Records that are summed up together.
SameGroup(r, q) == rec[r].owner = rec[q].owner /\ rec[r].period = rec[q].period

\* The earliest of a set of records.
First(S) == CHOOSE r \in S : \A q \in S : r <= q

\* pc "next": between two users; "report": a total is to be sent; "mark", "exempt":
\* records are to be marked, with a record id of Stripe's or with "no_overage_support".
\* todo are the fetched records not dealt with, group those in hand.
Idle == [pc |-> "idle", todo |-> {}, group |-> {}, tries |-> 0]

\* Which requests will succeed, of whom and in which period, is chosen beforehand.
Init ==
  /\ rec \in [Records -> [owner : Owners, period : Periods, mark : {"absent"}]]
  /\ \A r, q \in Records : r <= q => rec[r].period <= rec[q].period
  /\ plan \in [Owners -> Plans]
  /\ bill = [r \in Records |-> {}]
  /\ run = [i \in Runs |-> Idle]
  /\ calm = FALSE
  /\ missed = {}

\* _record_usage after a request that succeeded.
RecordUsage(r) ==
  /\ rec[r].mark = "absent"
  /\ \A q \in Records : q < r => rec[q].mark # "absent"
  /\ rec' = [rec EXCEPT ![r].mark = "open"]
  /\ UNCHANGED <<plan, bill, run, calm, missed>>

\* A downgrade or cancellation, or an overage item is added to the subscription.  A user
\* who subscribes anew gets a new item, and is a new owner here.
ChangePlan(o) ==
  /\ \/ plan[o] # "exempt" /\ plan' = [plan EXCEPT ![o] = "exempt"]
     \/ plan[o] = "unbillable" /\ plan' = [plan EXCEPT ![o] = "billable"]
  /\ UNCHANGED <<rec, bill, run, calm, missed>>

-----------------------------------------------------------------------------
\* Mutant of Oldest: ordered by created_at descending, as the other reads of the repository.
Newest == {r \in Open : Cardinality({q \in Open : q > r}) < Limit}

\* get_unreported_usage: the open records with fewer than Limit open ones before them.
Oldest == {r \in Open : Cardinality({q \in Open : q < r}) < Limit}

Fetch(i) ==
  /\ run[i].pc = "idle"
  /\ Open # {}
  /\ run' = [run EXCEPT ![i] = [Idle EXCEPT !.pc = "next", !.todo = Oldest]]
  /\ UNCHANGED <<rec, plan, bill, calm, missed>>

\* The user of the earliest record that is left; users come in the order of first records.
Owner(i) == rec[First(run[i].todo)].owner
OfOwner(i) == {r \in run[i].todo : rec[r].owner = Owner(i)}
OfPeriod(i) == {r \in run[i].todo : SameGroup(r, First(run[i].todo))}

\* Go on with a group of fetched records at pc.
TakeUp(i, S, pc) ==
  run' = [run EXCEPT ![i] = [pc |-> pc, todo |-> run[i].todo \ S, group |-> S, tries |-> 0]]

\* get_user_by_id and get_subscription_item_for_price succeeded.
LoadUser(i) ==
  /\ run[i].pc = "next"
  /\ run[i].todo # {}
  /\ \/ plan[Owner(i)] = "billable" /\ TakeUp(i, OfPeriod(i), "report")
     \/ plan[Owner(i)] = "exempt" /\ TakeUp(i, OfOwner(i), "exempt")
  /\ UNCHANGED <<rec, plan, bill, calm, missed>>

\* The user cannot be billed, or one of the two calls failed: all records stay open.
PassUser(i) ==
  /\ run[i].pc = "next"
  /\ run[i].todo # {}
  /\ plan[Owner(i)] = "unbillable" \/ ~calm
  /\ run' = [run EXCEPT ![i].todo = @ \ OfOwner(i)]
  /\ UNCHANGED <<rec, plan, bill, calm, missed>>

Finish(i) ==
  /\ run[i].pc = "next"
  /\ run[i].todo = {}
  /\ run' = [run EXCEPT ![i] = Idle]
  /\ UNCHANGED <<rec, plan, bill, calm, missed>>

\* After a group of owner o: the same user's next period, or the next user.
NextGroup(i, o) ==
  LET rest == {r \in run[i].todo : rec[r].owner = o}
      next == {r \in rest : SameGroup(r, First(rest))}
  IN IF rest = {} THEN TakeUp(i, {}, "next") ELSE TakeUp(i, next, "report")

GroupOwner(i) == rec[First(run[i].group)].owner

\* Mutant of SetUsage: the usage of the first record stands for the group's.
SetUsageOfFirst(S) == bill' = [bill EXCEPT ![First(S)] = {First(S)}]

\* create_usage_record with action "set": what was told before for this second is replaced.
SetUsage(S) == bill' = [bill EXCEPT ![First(S)] = S]

\* _report_with_retries: Stripe takes the total and the answer arrives.
Accepted(i) ==
  /\ run[i].pc = "report"
  /\ SetUsage(run[i].group)
  /\ run' = [run EXCEPT ![i].pc = "mark"]
  /\ UNCHANGED <<rec, plan, calm, missed>>

\* One try fails; Stripe may have taken the total.  The group is left after the last
\* try, or after the first failure that is not Stripe's.
SendFails(i) ==
  /\ ~calm
  /\ run[i].pc = "report"
  /\ SetUsage(run[i].group) \/ UNCHANGED bill
  /\ \/ /\ run[i].tries + 1 < MaxRetries
        /\ run' = [run EXCEPT ![i].tries = @ + 1]
     \/ NextGroup(i, GroupOwner(i))
  /\ UNCHANGED <<rec, plan, calm, missed>>

\* The group without its first record, or what comes after the group.
OneDone(i) ==
  LET r == First(run[i].group) IN
    IF run[i].group = {r} THEN NextGroup(i, rec[r].owner)
    ELSE run' = [run EXCEPT ![i].group = @ \ {r}]

\* mark_usage_reported_to_stripe, committed.
Mark(i) ==
  /\ run[i].pc = "mark"
  /\ rec' = [rec EXCEPT ![First(run[i].group)].mark = "reported"]
  /\ OneDone(i)
  /\ UNCHANGED <<plan, bill, calm, missed>>

\* The mark of one record fails; the loop goes on with the next one.
MarkFails(i) ==
  /\ ~calm
  /\ run[i].pc = "mark"
  /\ missed' = missed \cup {First(run[i].group)}
  /\ OneDone(i)
  /\ UNCHANGED <<rec, plan, bill, calm>>

\* Mutant of MarkExempt: records of users without overage are passed over.
MarkExemptForgets(i) ==
  /\ run[i].pc = "exempt"
  /\ LET r == First(run[i].group) IN
       IF run[i].group = {r} THEN TakeUp(i, {}, "next")
       ELSE run' = [run EXCEPT ![i].group = @ \ {r}]
  /\ UNCHANGED <<rec, plan, bill, calm, missed>>

\* mark_usage_reported_to_stripe with "no_overage_support".
MarkExempt(i) ==
  /\ run[i].pc = "exempt"
  /\ LET r == First(run[i].group) IN
       /\ rec' = [rec EXCEPT ![r].mark = "exempt"]
       /\ IF run[i].group = {r} THEN TakeUp(i, {}, "next")
          ELSE run' = [run EXCEPT ![i].group = @ \ {r}]
  /\ UNCHANGED <<plan, bill, calm, missed>>

\* Here an exception ends the loop: it is caught around the whole user.
MarkExemptFails(i) ==
  /\ ~calm
  /\ run[i].pc = "exempt"
  /\ TakeUp(i, {}, "next")
  /\ UNCHANGED <<rec, plan, bill, calm, missed>>

\* The process ends, and with it every execution.
Crash ==
  /\ ~calm
  /\ \E i \in Runs : run[i].pc # "idle"
  /\ missed' = missed \cup UNION {run[i].group : i \in {j \in Runs : run[j].pc = "mark"}}
  /\ run' = [i \in Runs |-> Idle]
  /\ UNCHANGED <<rec, plan, bill, calm>>

Calm ==
  /\ ~calm
  /\ calm' = TRUE
  /\ UNCHANGED <<rec, plan, bill, run, missed>>

Step(i) ==
  \/ Fetch(i) \/ LoadUser(i) \/ PassUser(i) \/ Finish(i) \/ Accepted(i) \/ SendFails(i)
  \/ Mark(i) \/ MarkFails(i) \/ MarkExempt(i) \/ MarkExemptFails(i)

Next ==
  \/ \E r \in Records : RecordUsage(r)
  \/ \E o \in Owners : ChangePlan(o)
  \/ \E i \in Runs : Step(i)
  \/ Crash
  \/ Calm

Spec == Init /\ [][Next]_reportVars

\* The task comes again every hour, and its steps are taken.
FairSpec == Spec /\ \A i \in Runs : WF_reportVars(Step(i))

-----------------------------------------------------------------------------
\* Types, and what the station of an execution says of its records.
RunsOK ==
  /\ run \in [Runs -> [pc : {"idle", "next", "report", "mark", "exempt"},
                       todo : SUBSET Records, group : SUBSET Records, tries : 0..MaxRetries]]
  /\ \A i \in Runs : run[i].pc \in {"report", "mark", "exempt"} <=> run[i].group # {}

TypeOK ==
  /\ rec \in [Records -> [owner : Owners, period : Periods, mark : Marks]]
  /\ plan \in [Owners -> Plans]
  /\ bill \in [Records -> SUBSET Records]
  /\ calm \in BOOLEAN
  /\ missed \subseteq Records
  /\ RunsOK

Billed == UNION {bill[r] : r \in Records}

\* Usage is not lost: what is marked as reported is in the bill.  The exception is a
\* group of which a record could not be marked while a later one was: the next total
\* for the same second replaces the one that had both.
MarkedIsBilled ==
  \A r \in Records :
    rec[r].mark = "reported" =>
      \/ r \in Billed
      \/ \E q \in missed : q < r /\ SameGroup(q, r)

\* What makes it so while one execution runs at a time.  Records are left in order;
Ordered == \A q, r \in Records : q < r /\ rec[r].mark # "absent" => rec[q].mark # "absent"

\* a total stands under the earliest open record of its group there then was, and is
\* complete but for records before which a mark was missed;
BillsOK ==
  \A h \in Records : bill[h] # {} =>
    /\ h \in bill[h]
    /\ \A r \in bill[h] : h <= r /\ SameGroup(h, r) /\ rec[r].mark # "absent"
    /\ \A r \in bill[h] : rec[r].mark = "reported" /\ rec[h].mark = "open" => h \in missed
    /\ \A q \in Open : q < h => ~SameGroup(q, h)

\* fetched records miss no earlier open record of their group;
NothingSkipped(T) ==
  T \subseteq Open /\ \A t \in T, q \in Open : q < t /\ SameGroup(q, t) => q \in T

\* and a group in hand is all there is of it, and billed as a whole before it is marked.
HandOK(i) ==
  LET grp == run[i].group IN
  /\ NothingSkipped(run[i].todo)
  /\ grp \subseteq Open
  /\ \A t \in run[i].todo, g \in grp : ~SameGroup(g, t)
  /\ run[i].pc \in {"report", "mark"} => \A g, k \in grp : SameGroup(g, k)
  /\ run[i].pc = "report" => NothingSkipped(grp)
  /\ run[i].pc = "mark" =>
       /\ \E h \in Records : grp \subseteq bill[h]
       /\ \A g \in grp, q \in Open : q < g /\ SameGroup(q, g) => q \in grp \cup missed

ReportInv == Ordered /\ BillsOK /\ MarkedIsBilled /\ \A i \in Runs : HandOK(i)

\* A record is billed twice, under two seconds, only when Stripe was told of it and
\* its mark then failed or was cut off.
BilledOnce ==
  \A p, q \in Records : p # q => bill[p] \cap bill[q] \subseteq missed

\* The open records of users who cannot be billed; they are fetched first for ever.
Stuck == {r \in Open : plan[rec[r].owner] = "unbillable"}

\* Whatever failed on the way, usage is reported once the failures are over, unless
\* the records that cannot be reported fill the fetch limit.
UsageIsReported ==
  \A r \in Records :
    (rec[r].mark = "open" /\ calm) ~>
      \/ rec[r].mark # "open"
      \/ plan[rec[r].owner] = "unbillable"
      \/ Cardinality(Stuck) >= Limit
=============================================================================
