------------------------ MODULE StripeWebhooksProofs ------------------------
(***************************************************************************)
(* Webhook events for any number of deliveries and events: no event is     *)
(* marked processed that was not handled, one that is processed is not     *)
(* handled again by what is sent later, and no handler writes back what it *)
(* loaded before others committed.                                         *)
(*                                                                         *)
(* And the subscriptions behind them, for any number of requests: what is  *)
(* paid for is reachable from the user's row, no paid plan outlives its    *)
(* subscription's cancellation, and no customer whom Stripe knows is       *)
(* exchanged for another.                                                  *)
(***************************************************************************)
EXTENDS StripeWebhooks, Subscriptions, TLAPS

-----------------------------------------------------------------------------
(* The subscriptions of one user: requests, Stripe and its webhooks         *)
(* together.                                                                *)

\* A committed row: each column holds what it held or, where that is new to the session,
\* what is written, and what another took the place of is remembered.
LEMMA RowWritten ==
  ASSUME SubscriptionsTypeOK, NEW seen0 \in Row, NEW new \in Row, WriteRow(seen0, new)
  PROVE  /\ row' \in Row
         /\ row'.plan = IF new.plan # seen0.plan THEN new.plan ELSE row.plan
         /\ row'.sub = IF new.sub # seen0.sub THEN new.sub ELSE row.sub
         /\ row'.customer = IF new.customer # seen0.customer THEN new.customer ELSE row.customer
         /\ replaced \subseteq replaced' /\ replaced' \subseteq Requests \cup {OldCustomer}
         /\ row.sub \in {None, row'.sub} \cup replaced'
         /\ row.customer \in {None, row'.customer} \cup replaced'
<1>1. row \in Row /\ DOMAIN row = {"plan", "status", "sub", "customer"}
  BY DEF SubscriptionsTypeOK, Row
<1>2. row' = [f \in {"plan", "status", "sub", "customer"} |->
                IF new[f] # seen0[f] THEN new[f] ELSE row[f]]
  BY <1>1 DEF WriteRow
<1>3. /\ row'.plan = IF new.plan # seen0.plan THEN new.plan ELSE row.plan
      /\ row'.status = IF new.status # seen0.status THEN new.status ELSE row.status
      /\ row'.sub = IF new.sub # seen0.sub THEN new.sub ELSE row.sub
      /\ row'.customer = IF new.customer # seen0.customer THEN new.customer ELSE row.customer
  BY <1>2
<1>4. row' = [plan |-> row'.plan, status |-> row'.status, sub |-> row'.sub,
              customer |-> row'.customer]
  BY <1>2
<1>5. row' \in Row
  BY <1>1, <1>3, <1>4 DEF Row
<1>6. replaced' = replaced \cup ({row.sub} \ {None, row'.sub})
                           \cup ({row.customer} \ {None, row'.customer})
  BY DEF WriteRow
<1>7. replaced \subseteq Requests \cup {OldCustomer}
  BY DEF SubscriptionsTypeOK
<1> QED
  BY <1>1, <1>3, <1>5, <1>6, <1>7 DEF Row, Ids

\* What becomes of a queue.
LEMMA Appended ==
  ASSUME NEW T, NEW q \in Seq(T), NEW e \in T
  PROVE  /\ Append(q, e) \in Seq(T)
         /\ DOMAIN Append(q, e) = DOMAIN q \cup {Len(q) + 1}
         /\ \A i \in DOMAIN q : Append(q, e)[i] = q[i] /\ i < Len(q) + 1
         /\ Append(q, e)[Len(q) + 1] = e
OBVIOUS

\* What is left of a queue keeps its order; without its head everything moves up by one.
LEMMA Removed ==
  ASSUME NEW T, NEW q \in Seq(T), NEW i \in DOMAIN q
  PROVE  /\ RemoveAt(q, i) \in Seq(T)
         /\ \A k \in DOMAIN RemoveAt(q, i) : \E j \in DOMAIN q : RemoveAt(q, i)[k] = q[j]
         /\ i = 1 => /\ \A k \in DOMAIN RemoveAt(q, i) : /\ k + 1 \in DOMAIN q
                                                         /\ RemoveAt(q, i)[k] = q[k + 1]
                     /\ \A j \in DOMAIN q : j = 1 \/ /\ j - 1 \in DOMAIN RemoveAt(q, i)
                                                     /\ RemoveAt(q, i)[j - 1] = q[j]
<1> DEFINE a == SubSeq(q, 1, i - 1)
           b == SubSeq(q, i + 1, Len(q))
<1>1. i \in 1..Len(q) /\ Len(q) \in Nat
  OBVIOUS
<1>2. /\ a \in Seq(T) /\ Len(a) = i - 1
      /\ \A k \in 1..(i - 1) : a[k] = q[k]
  BY <1>1
<1>3. /\ b \in Seq(T) /\ Len(b) = Len(q) - i
      /\ \A k \in 1..(Len(q) - i) : b[k] = q[i + k]
  BY <1>1
<1> HIDE DEF a, b
<1>4. RemoveAt(q, i) = a \o b
  BY DEF RemoveAt, a, b
<1>5. /\ a \o b \in Seq(T) /\ Len(a \o b) = Len(q) - 1
      /\ \A k \in 1..(Len(q) - 1) : (a \o b)[k] = IF k < i THEN q[k] ELSE q[k + 1]
  <2>1. /\ a \o b \in Seq(T) /\ Len(a \o b) = Len(a) + Len(b)
        /\ \A k \in 1..(Len(a) + Len(b)) :
             (a \o b)[k] = IF k \leq Len(a) THEN a[k] ELSE b[k - Len(a)]
    BY <1>2, <1>3
  <2>2. ASSUME NEW k \in 1..(Len(q) - 1)
        PROVE  (a \o b)[k] = IF k < i THEN q[k] ELSE q[k + 1]
    <3>1. CASE k < i
      BY <1>1, <1>2, <1>3, <2>1, <2>2, <3>1
    <3>2. CASE ~(k < i)
      <4>1. k - Len(a) \in 1..(Len(q) - i) /\ i + (k - Len(a)) = k + 1
        BY <1>1, <1>2, <2>2, <3>2
      <4>2. k \in 1..(Len(a) + Len(b)) /\ ~(k \leq Len(a))
        BY <1>1, <1>2, <1>3, <2>2, <3>2
      <4>3. (a \o b)[k] = b[k - Len(a)]
        BY <2>1, <4>2
      <4> QED
        BY <1>3, <3>2, <4>1, <4>3
    <3> QED
      BY <3>1, <3>2
  <2> QED
    BY <1>1, <1>2, <1>3, <2>1, <2>2
<1> DEFINE w == a \o b
<1>6. /\ w \in Seq(T) /\ Len(w) = Len(q) - 1 /\ Len(w) \in Nat
      /\ DOMAIN w = 1..(Len(q) - 1) /\ DOMAIN q = 1..Len(q)
      /\ \A k \in 1..(Len(q) - 1) : w[k] = IF k < i THEN q[k] ELSE q[k + 1]
  BY <1>1, <1>5
<1> HIDE DEF w
<1>7. \A k \in DOMAIN w : \E j \in DOMAIN q : w[k] = q[j]
  <2> SUFFICES ASSUME NEW k \in DOMAIN w
               PROVE  \E j \in DOMAIN q : w[k] = q[j]
    OBVIOUS
  <2>1. k \in DOMAIN q /\ k + 1 \in DOMAIN q /\ (w[k] = q[k] \/ w[k] = q[k + 1])
    BY <1>1, <1>6
  <2> QED
    BY <2>1
<1>8. ASSUME i = 1
      PROVE  /\ \A k \in DOMAIN w : k + 1 \in DOMAIN q /\ w[k] = q[k + 1]
             /\ \A j \in DOMAIN q : j = 1 \/ (j - 1 \in DOMAIN w /\ w[j - 1] = q[j])
  <2>1. \A k \in DOMAIN w : k + 1 \in DOMAIN q /\ w[k] = q[k + 1]
    BY <1>1, <1>6, <1>8
  <2>2. \A j \in DOMAIN q : j = 1 \/ j - 1 \in DOMAIN w
    BY <1>1, <1>6, <1>8
  <2>3. \A j \in DOMAIN q : (j - 1) + 1 = j
    BY <1>1, <1>6
  <2> QED
    BY <2>1, <2>2, <2>3
<1>9. RemoveAt(q, i) = w
  BY <1>4 DEF w
<1> QED
  BY <1>6, <1>7, <1>8, <1>9

Pcs == {"idle", "subscribe", "modify", "cancel", "session", "commit", "done", "refused"}

\* The names the row has or had: of subscriptions, and of customers.
SubNames == {None, row.sub} \cup replaced
CustomerNames == {None, row.customer} \cup replaced

\* What a request or a delivery loaded has a name the row has or had.
NamesInv ==
  /\ \A r \in Requests : /\ req[r].seen.sub \in SubNames
                         /\ req[r].seen.customer \in CustomerNames
  /\ desk.seen.sub \in SubNames /\ desk.seen.customer \in CustomerNames

\* Who made a subscription, for which customer, and where its names are.
MadeInv ==
  \A r \in Requests :
    /\ sub[r].status # "none" => /\ op[r].do \in {"create", "checkout"}
                                 /\ req[r].pc \in {"commit", "done"}
                                 /\ sub[r].customer = CustomerOf(r)
    /\ op[r].do = "create" /\ req[r].pc \in {"commit", "done"} => sub[r].status # "none"
    /\ op[r].do = "create" /\ req[r].pc = "done" => r \in lost \/ r \in SubNames
    /\ op[r].do = "checkout" /\ req[r].pc = "done"
         => r \in lost \/ CustomerOf(r) \in CustomerNames

\* The places of a request belong to what it asks, and so does what it is about to write.
PlacesInv ==
  \A r \in Requests :
    /\ req[r].pc = "subscribe" => op[r].do = "create"
    /\ req[r].pc = "session" => op[r].do = "checkout"
    /\ req[r].pc = "modify" => op[r].do = "update"
    /\ req[r].pc = "cancel" => op[r].do \in {"cancelAtEnd", "cancelNow"}
    /\ req[r].pc \in {"modify", "cancel"} => req[r].seen.sub # None
    /\ req[r].pc = "commit" =>
         /\ op[r].do \in {"update", "cancelAtEnd", "cancelNow"} => req[r].seen.sub # None
         /\ req[r].new.sub = IF op[r].do = "create" THEN r ELSE req[r].seen.sub
         /\ req[r].new.customer = IF op[r].do = "checkout" THEN CustomerOf(r)
                                                           ELSE req[r].seen.customer
         /\ req[r].new.plan = IF op[r].do \in {"create", "update"} THEN op[r].plan
                              ELSE IF op[r].do = "cancelNow" THEN "free"
                              ELSE req[r].seen.plan

\* An event tells of a subscription that was made, with its customer.
EventFits(e) ==
  /\ e.customer = sub[e.sub].customer /\ e.customer # None
  /\ sub[e.sub].status # "none"
  /\ e.kind = "deleted" => sub[e.sub].status = "canceled"

EventsInv ==
  /\ \A i \in DOMAIN mail : EventFits(mail[i])
  /\ desk # NoEvent => EventFits(desk.event)

\* The subscription the row names was made; there is one with every paid plan, and the row
\* never comes to name none.
RowInv ==
  /\ row.sub # None => sub[row.sub].status # "none"
  /\ row.plan # "free" => row.sub # None
  /\ \A r \in Requests : req[r].seen.sub # None =>
       row.sub # None /\ sub[req[r].seen.sub].status # "none"
  /\ desk.seen.sub # None => row.sub # None /\ sub[desk.seen.sub].status # "none"

MadeParts == SubscriptionsTypeOK /\ PlacesInv /\ MadeInv

\* What has which type.
LEMMA Types ==
  ASSUME SubscriptionsTypeOK
  PROVE  /\ row.plan \in PaidPlans \cup {"free"} /\ row.sub \in Requests \cup {None}
         /\ row.customer \in Requests \cup {None, OldCustomer}
         /\ \A q \in Requests :
              /\ req[q].pc \in Pcs /\ req[q].seen \in Row /\ req[q].new \in Row
              /\ req[q].seen.sub \in Requests \cup {None}
              /\ req[q].seen.customer \in Requests \cup {None, OldCustomer}
              /\ req[q].new.sub \in Requests \cup {None}
              /\ op[q] \in Operations /\ op[q].plan \in PaidPlans
              /\ op[q].do \in {"create", "update", "cancelAtEnd", "cancelNow", "checkout"}
              /\ sub[q] \in Subscription
              /\ sub[q].status \in {"none", "incomplete", "expired", "active", "canceled"}
              /\ sub[q].customer \in Requests \cup {None}
              /\ CustomerOf(q) \in Requests
         /\ \A i \in DOMAIN mail : mail[i] \in Event
         /\ desk.seen \in Row /\ desk.seen.sub \in Requests \cup {None}
         /\ desk.seen.customer \in Requests \cup {None, OldCustomer}
         /\ desk # NoEvent => desk \in [event : Event, seen : Row]
         /\ "free" \notin PaidPlans /\ None \notin Requests
<1>1. row \in Row
  BY DEF SubscriptionsTypeOK
<1>2. ASSUME NEW q \in Requests
      PROVE  req[q] \in [pc : Pcs, seen : Row, new : Row] /\ sub[q] \in Subscription
  BY DEF SubscriptionsTypeOK, Pcs
<1>3. \A q \in Requests : op[q] \in Operations
  BY WorkType DEF SubscriptionsTypeOK
<1>4. \A i \in DOMAIN mail : mail[i] \in Event
  BY DEF SubscriptionsTypeOK
<1>5. "free" \notin PaidPlans /\ None \notin Requests
  BY PaidPlansType, NoneType
<1>6. NewRow \in Row
  BY DEF NewRow, Row, Ids
<1>7. desk \in [event : Event, seen : Row] \/ desk = NoEvent
  BY DEF SubscriptionsTypeOK
<1>8. desk.seen \in Row
  BY <1>6, <1>7 DEF NoEvent
<1>9. \A u \in Row : /\ u.plan \in PaidPlans \cup {"free"} /\ u.sub \in Requests \cup {None}
                     /\ u.customer \in Requests \cup {None, OldCustomer}
  BY DEF Row, Ids
<1>10. ASSUME NEW q \in Requests
       PROVE  /\ req[q].pc \in Pcs /\ req[q].seen \in Row /\ req[q].new \in Row
              /\ req[q].seen.sub \in Requests \cup {None}
              /\ req[q].seen.customer \in Requests \cup {None, OldCustomer}
              /\ req[q].new.sub \in Requests \cup {None}
  BY <1>2, <1>9
<1>11. ASSUME NEW q \in Requests
       PROVE  /\ op[q].plan \in PaidPlans
              /\ op[q].do \in {"create", "update", "cancelAtEnd", "cancelNow", "checkout"}
              /\ sub[q].status \in {"none", "incomplete", "expired", "active", "canceled"}
              /\ sub[q].customer \in Requests \cup {None}
  BY <1>2, <1>3 DEF Operations, Subscription, Ids
<1>12. \A q \in Requests : CustomerOf(q) \in Requests
  BY <1>10 DEF CustomerOf
<1> QED
  BY <1>1, <1>2, <1>3, <1>4, <1>5, <1>7, <1>8, <1>9, <1>10, <1>11, <1>12

\* Stripe did something to subscription s and tells of it: only s changes, it had not
\* ended, and the event is of deletion when it has ended now.
Tells(s) ==
  /\ s \in Requests
  /\ sub' \in [Requests -> Subscription]
  /\ \A q \in Requests \ {s} : sub'[q] = sub[q]
  /\ sub[s].status # "canceled" /\ sub'[s].status # "none"
  /\ sub'[s].customer # None
  /\ \E e \in Event : /\ mail' = Append(mail, e)
                      /\ e.sub = s /\ e.customer = sub'[s].customer
                      /\ e.kind = "deleted" <=> sub'[s].status = "canceled"
  /\ UNCHANGED <<row, op, desk, lost, replaced, crossed, reorders>>

\* The subscription was there before, and its customer stays.
WasMade(s) == sub[s].status # "none" /\ sub'[s].customer = sub[s].customer

\* Request r gets to pc and keeps what it loaded; the others stand.
Gets(r, pc) ==
  /\ r \in Requests
  /\ req' \in [Requests -> [pc : Pcs, seen : Row, new : Row]]
  /\ \A q \in Requests \ {r} : req'[q] = req[q]
  /\ req'[r].pc = pc /\ req'[r].seen = req[r].seen

\* Stripe's answer leads to a row to be written.
AnswerFits(r) ==
  LET new == req'[r].new
      seen0 == req[r].seen IN
  /\ Gets(r, "commit")
  /\ new.sub = IF op[r].do = "create" THEN r ELSE seen0.sub
  /\ new.customer = IF op[r].do = "checkout" THEN CustomerOf(r) ELSE seen0.customer
  /\ new.plan = IF op[r].do \in {"create", "update"} THEN op[r].plan
                ELSE IF op[r].do = "cancelNow" THEN "free"
                ELSE seen0.plan

\* A request that is answered, or goes elsewhere, keeps what it loaded.
LEMMA GetsThere ==
  ASSUME SubscriptionsTypeOK, NEW r \in Requests, NEW pc \in Pcs, NEW new \in Row,
         req' = [req EXCEPT ![r].pc = pc, ![r].new = new]
  PROVE  Gets(r, pc) /\ req'[r].new = new
<1>1. req \in [Requests -> [pc : Pcs, seen : Row, new : Row]]
  BY DEF SubscriptionsTypeOK, Pcs
<1>2. req'[r] = [req[r] EXCEPT !.pc = pc, !.new = new]
  BY <1>1
<1>3. /\ req'[r].pc = pc /\ req'[r].seen = req[r].seen /\ req'[r].new = new
      /\ req'[r] \in [pc : Pcs, seen : Row, new : Row]
  BY <1>1, <1>2
<1>4. \A q \in Requests \ {r} : req'[q] = req[q]
  BY <1>1
<1>5. req' \in [Requests -> [pc : Pcs, seen : Row, new : Row]]
  BY <1>1, <1>3
<1> QED
  BY <1>3, <1>4, <1>5 DEF Gets

\* The same for a request that keeps the row it is about to write.
LEMMA GoesThere ==
  ASSUME SubscriptionsTypeOK, NEW r \in Requests, NEW pc \in Pcs, Goto(r, pc)
  PROVE  Gets(r, pc) /\ req'[r].new = req[r].new
<1>1. req \in [Requests -> [pc : Pcs, seen : Row, new : Row]]
  BY DEF SubscriptionsTypeOK, Pcs
<1>2. req' = [req EXCEPT ![r].pc = pc]
  BY DEF Goto
<1>3. req'[r] = [req[r] EXCEPT !.pc = pc]
  BY <1>1, <1>2
<1>4. /\ req'[r].pc = pc /\ req'[r].seen = req[r].seen /\ req'[r].new = req[r].new
      /\ req'[r] \in [pc : Pcs, seen : Row, new : Row]
  BY <1>1, <1>3
<1>5. \A q \in Requests \ {r} : req'[q] = req[q]
  BY <1>1, <1>2
<1>6. req' \in [Requests -> [pc : Pcs, seen : Row, new : Row]]
  BY <1>1, <1>2, <1>4
<1> QED
  BY <1>4, <1>5, <1>6 DEF Gets

\* The event that Stripe sends of the subscription as it is now.
LEMMA TellSends ==
  ASSUME SubscriptionsTypeOK, NEW s \in Requests, NEW kind \in {"created", "updated", "deleted"},
         sub' \in [Requests -> Subscription],
         \A q \in Requests \ {s} : sub'[q] = sub[q],
         sub[s].status # "canceled", sub'[s].status # "none",
         sub'[s].customer # None,
         kind = "deleted" <=> sub'[s].status = "canceled",
         Tell(kind, s),
         UNCHANGED <<row, op, desk, lost, replaced, crossed, reorders>>
  PROVE  Tells(s)
<1> DEFINE e == [kind |-> kind, sub |-> s, plan |-> sub'[s].plan,
                 status |-> sub'[s].status, customer |-> sub'[s].customer]
<1>1. sub'[s] \in Subscription
  OBVIOUS
<1>2. /\ sub'[s].status \in {"incomplete", "expired", "active", "canceled"} /\ sub'[s].plan \in PaidPlans
      /\ sub'[s].customer \in Ids
  BY <1>1 DEF Subscription
<1>3. e \in Event
  BY <1>2 DEF Event
<1>4. mail' = Append(mail, e)
  BY DEF Tell
<1>5. /\ e.sub = s /\ e.customer = sub'[s].customer
      /\ e.kind = "deleted" <=> sub'[s].status = "canceled"
  OBVIOUS
<1> QED
  BY <1>3, <1>4, <1>5 DEF Tells

\* Subscription s is written by Stripe with another status, customer or plan.
LEMMA SubWritten ==
  ASSUME SubscriptionsTypeOK, NEW s \in Requests, NEW v \in Subscription,
         sub' = [sub EXCEPT ![s] = v]
  PROVE  /\ sub' \in [Requests -> Subscription]
         /\ \A q \in Requests \ {s} : sub'[q] = sub[q]
         /\ sub'[s] = v
BY DEF SubscriptionsTypeOK

\* The steps at Stripe and of the requests, each by what it changes.  A checkout that is
\* filled in.
LEMMA SubscribeTells ==
  ASSUME MadeParts, NEW s \in Requests, Subscribe(s)
  PROVE  /\ Tells(s) /\ UNCHANGED req
         /\ req[s].pc \in {"commit", "done"} /\ op[s].do = "checkout"
         /\ sub[s].status = "none" /\ sub'[s].status = "incomplete"
         /\ sub'[s].customer = CustomerOf(s)
<1> DEFINE v == [sub[s] EXCEPT !.status = "incomplete", !.customer = CustomerOf(s)]
<1>1. /\ sub[s] \in Subscription /\ CustomerOf(s) \in Requests
      /\ None \notin Requests /\ SubscriptionsTypeOK
  BY Types DEF MadeParts
<1>2. /\ sub[s].status = "none" /\ req[s].pc \in {"commit", "done"} /\ op[s].do = "checkout"
      /\ Tell("created", s)
      /\ UNCHANGED <<req, row, op, desk, lost, replaced, crossed, reorders>>
      /\ sub' = [sub EXCEPT ![s].status = "incomplete", ![s].customer = CustomerOf(s)]
  BY DEF Subscribe
<1>3. v \in Subscription /\ v.status = "incomplete" /\ v.customer = CustomerOf(s)
  BY <1>1 DEF Subscription, Ids
<1>4. sub' = [sub EXCEPT ![s] = v]
  BY <1>1, <1>2 DEF SubscriptionsTypeOK
<1> HIDE DEF v
<1>5. /\ sub' \in [Requests -> Subscription] /\ \A q \in Requests \ {s} : sub'[q] = sub[q]
      /\ sub'[s] = v
  BY <1>1, <1>3, <1>4, SubWritten
<1>6. Tells(s)
  BY <1>1, <1>2, <1>3, <1>5, TellSends
<1> QED
  BY <1>2, <1>3, <1>5, <1>6

\* A subscription that lives has its maker's customer.
LEMMA MadeHasCustomer ==
  ASSUME MadeParts, NEW s \in Requests, sub[s].status # "none"
  PROVE  sub[s].customer \in Requests /\ sub[s].customer # None
BY Types DEF MadeParts, MadeInv

\* A payment.
LEMMA PayTells ==
  ASSUME MadeParts, NEW s \in Requests, Pay(s)
  PROVE  /\ Tells(s) /\ WasMade(s) /\ UNCHANGED req
         /\ sub[s].status = "incomplete" /\ sub'[s].status = "active"
<1> DEFINE v == [sub[s] EXCEPT !.status = "active"]
<1>1. /\ sub[s].status = "incomplete" /\ Tell("updated", s)
      /\ UNCHANGED <<req, row, op, desk, lost, replaced, crossed, reorders>>
      /\ sub' = [sub EXCEPT ![s].status = "active"]
  BY DEF Pay
<1>2. sub[s].customer # None
  BY <1>1, MadeHasCustomer
<1>3. SubscriptionsTypeOK /\ sub[s] \in Subscription
  BY Types DEF MadeParts
<1>4. v \in Subscription /\ v.status = "active" /\ v.customer = sub[s].customer
  BY <1>3 DEF Subscription
<1>5. sub' = [sub EXCEPT ![s] = v]
  BY <1>1, <1>3 DEF SubscriptionsTypeOK
<1> HIDE DEF v
<1>6. /\ sub' \in [Requests -> Subscription] /\ \A q \in Requests \ {s} : sub'[q] = sub[q]
      /\ sub'[s] = v
  BY <1>3, <1>4, <1>5, SubWritten
<1>7. Tells(s)
  BY <1>1, <1>2, <1>3, <1>4, <1>6, TellSends
<1> QED
  BY <1>1, <1>4, <1>6, <1>7 DEF WasMade

\* A payment that never came.
LEMMA ExpireTells ==
  ASSUME MadeParts, NEW s \in Requests, Expire(s)
  PROVE  /\ Tells(s) /\ WasMade(s) /\ UNCHANGED req
         /\ sub[s].status = "incomplete" /\ sub'[s].status = "expired"
<1> DEFINE v == [sub[s] EXCEPT !.status = "expired"]
<1>1. /\ sub[s].status = "incomplete" /\ Tell("updated", s)
      /\ UNCHANGED <<req, row, op, desk, lost, replaced, crossed, reorders>>
      /\ sub' = [sub EXCEPT ![s].status = "expired"]
  BY DEF Expire
<1>2. sub[s].customer # None
  BY <1>1, MadeHasCustomer
<1>3. SubscriptionsTypeOK /\ sub[s] \in Subscription
  BY Types DEF MadeParts
<1>4. v \in Subscription /\ v.status = "expired" /\ v.customer = sub[s].customer
  BY <1>3 DEF Subscription
<1>5. sub' = [sub EXCEPT ![s] = v]
  BY <1>1, <1>3 DEF SubscriptionsTypeOK
<1> HIDE DEF v
<1>6. /\ sub' \in [Requests -> Subscription] /\ \A q \in Requests \ {s} : sub'[q] = sub[q]
      /\ sub'[s] = v
  BY <1>3, <1>4, <1>5, SubWritten
<1>7. Tells(s)
  BY <1>1, <1>2, <1>3, <1>4, <1>6, TellSends
<1> QED
  BY <1>1, <1>4, <1>6, <1>7 DEF WasMade

\* A renewal, when all is quiet.
LEMMA RenewTells ==
  ASSUME MadeParts, NEW s \in Requests, Renew(s)
  PROVE  Tells(s) /\ WasMade(s) /\ UNCHANGED <<req, sub>> /\ Quiet
<1>1. /\ sub[s].status = "active" /\ Tell("updated", s) /\ Quiet
      /\ UNCHANGED <<req, sub, row, op, desk, lost, replaced, crossed, reorders>>
  BY DEF Renew
<1>2. sub[s].customer # None
  BY <1>1, MadeHasCustomer
<1>3. SubscriptionsTypeOK /\ sub' \in [Requests -> Subscription]
  BY <1>1 DEF MadeParts, SubscriptionsTypeOK
<1>4. Tells(s)
  BY <1>1, <1>2, <1>3, TellSends
<1> QED
  BY <1>1, <1>4 DEF WasMade

\* The end of a subscription, when all is quiet.
LEMMA EndTells ==
  ASSUME MadeParts, NEW s \in Requests, End(s)
  PROVE  Tells(s) /\ WasMade(s) /\ UNCHANGED req /\ Quiet
<1> DEFINE v == [sub[s] EXCEPT !.status = "canceled"]
<1>1. /\ sub[s].status = "active" /\ Tell("deleted", s) /\ Quiet
      /\ UNCHANGED <<req, row, op, desk, lost, replaced, crossed, reorders>>
      /\ sub' = [sub EXCEPT ![s].status = "canceled"]
  BY DEF End
<1>2. sub[s].customer # None
  BY <1>1, MadeHasCustomer
<1>3. SubscriptionsTypeOK /\ sub[s] \in Subscription
  BY Types DEF MadeParts
<1>4. v \in Subscription /\ v.status = "canceled" /\ v.customer = sub[s].customer
  BY <1>3 DEF Subscription
<1>5. sub' = [sub EXCEPT ![s] = v]
  BY <1>1, <1>3 DEF SubscriptionsTypeOK
<1> HIDE DEF v
<1>6. /\ sub' \in [Requests -> Subscription] /\ \A q \in Requests \ {s} : sub'[q] = sub[q]
      /\ sub'[s] = v
  BY <1>3, <1>4, <1>5, SubWritten
<1>7. Tells(s)
  BY <1>1, <1>2, <1>3, <1>4, <1>6, TellSends
<1> QED
  BY <1>1, <1>4, <1>6, <1>7 DEF WasMade

\* Answered, with the row it leads to.
LEMMA AnswerGets ==
  ASSUME SubscriptionsTypeOK, NEW r \in Requests, NEW new \in Row, Answered(r, new)
  PROVE  Gets(r, "commit") /\ req'[r].new = new
BY GetsThere DEF Answered, Pcs

\* create_subscription: the subscription is new, and its maker's.
LEMMA CreateTells ==
  ASSUME MadeParts, NEW r \in Requests, CreateSubscription(r)
  PROVE  /\ Tells(r) /\ AnswerFits(r)
         /\ req[r].pc = "subscribe" /\ op[r].do = "create"
         /\ sub[r].status = "none" /\ sub'[r].status = "incomplete"
         /\ sub'[r].customer = CustomerOf(r)
<1> DEFINE v == [sub[r] EXCEPT !.status = "incomplete", !.customer = CustomerOf(r)]
           new == [req[r].seen EXCEPT !.plan = op[r].plan, !.status = "suspended", !.sub = r]
<1>1. /\ req[r].pc = "subscribe" /\ Tell("created", r) /\ Answered(r, new)
      /\ UNCHANGED <<row, op, desk, lost, replaced, crossed, reorders>>
      /\ sub' = [sub EXCEPT ![r].status = "incomplete", ![r].customer = CustomerOf(r)]
  BY DEF CreateSubscription
<1>2. op[r].do = "create" /\ sub[r].status = "none"
  BY <1>1 DEF MadeParts, PlacesInv, MadeInv
<1>3. /\ SubscriptionsTypeOK /\ sub[r] \in Subscription /\ CustomerOf(r) \in Requests
      /\ None \notin Requests /\ req[r].seen \in Row /\ op[r].plan \in PaidPlans
  BY Types DEF MadeParts
<1>4. v \in Subscription /\ v.status = "incomplete" /\ v.customer = CustomerOf(r)
  BY <1>3 DEF Subscription, Ids
<1>5. sub' = [sub EXCEPT ![r] = v]
  BY <1>1, <1>3 DEF SubscriptionsTypeOK
<1>6. /\ new \in Row /\ new.sub = r /\ new.plan = op[r].plan
      /\ new.customer = req[r].seen.customer
  BY <1>3 DEF Row, Ids
<1> HIDE DEF v, new
<1>7. /\ sub' \in [Requests -> Subscription] /\ \A q \in Requests \ {r} : sub'[q] = sub[q]
      /\ sub'[r] = v
  BY <1>3, <1>4, <1>5, SubWritten
<1>8. Tells(r)
  BY <1>1, <1>2, <1>3, <1>4, <1>7, TellSends
<1>9. Gets(r, "commit") /\ req'[r].new = new
  BY <1>1, <1>3, <1>6, AnswerGets
<1>10. AnswerFits(r)
  BY <1>2, <1>6, <1>9 DEF AnswerFits
<1> QED
  BY <1>1, <1>2, <1>4, <1>7, <1>8, <1>10

\* update_subscription_plan: the subscription that was loaded, which is active.
LEMMA UpdateTells ==
  ASSUME MadeParts, NEW r \in Requests, UpdateSubscription(r)
  PROVE  LET s == req[r].seen.sub IN
         /\ Tells(s) /\ WasMade(s) /\ AnswerFits(r)
         /\ req[r].pc = "modify" /\ op[r].do = "update"
         /\ sub[s].status = "active" /\ sub'[s].status = "active"
<1> DEFINE s == req[r].seen.sub
           v == [sub[s] EXCEPT !.plan = op[r].plan]
           new == [req[r].seen EXCEPT !.plan = op[r].plan, !.status = "active", !.sub = s]
<1>1. /\ req[r].pc = "modify" /\ Tell("updated", s) /\ Answered(r, new)
      /\ UNCHANGED <<row, op, desk, lost, replaced, crossed, reorders>>
      /\ sub' = [sub EXCEPT ![s].plan = op[r].plan]
      /\ sub[s].status = "active"
  BY DEF UpdateSubscription
<1>2. SubscriptionsTypeOK /\ op[r].do = "update" /\ s \in Requests
  BY <1>1, Types DEF MadeParts, PlacesInv
<1>3. /\ sub[s] \in Subscription /\ req[r].seen \in Row /\ op[r].plan \in PaidPlans
  BY <1>2, Types
<1>4. sub[s].customer # None
  BY <1>1, <1>2, MadeHasCustomer
<1>5. v \in Subscription /\ v.status = "active" /\ v.customer = sub[s].customer
  BY <1>1, <1>3 DEF Subscription
<1>6. /\ new \in Row /\ new.sub = s /\ new.plan = op[r].plan
      /\ new.customer = req[r].seen.customer
  BY <1>2, <1>3 DEF Row, Ids
<1> HIDE DEF s
<1>7. sub' = [sub EXCEPT ![s] = v]
  BY <1>1, <1>2, <1>3 DEF SubscriptionsTypeOK
<1> HIDE DEF v, new
<1>8. /\ sub' \in [Requests -> Subscription] /\ \A q \in Requests \ {s} : sub'[q] = sub[q]
      /\ sub'[s] = v
  BY <1>2, <1>5, <1>7, SubWritten
<1>9. Tells(s)
  BY <1>1, <1>2, <1>4, <1>5, <1>8, TellSends
<1>10. Gets(r, "commit") /\ req'[r].new = new
  BY <1>1, <1>2, <1>6, AnswerGets
<1>11. AnswerFits(r)
  BY <1>2, <1>6, <1>10 DEF AnswerFits, s
<1> QED
  BY <1>1, <1>2, <1>5, <1>8, <1>9, <1>11 DEF WasMade, s

\* The cancellation at the period's end.
LEMMA CancelAtEndTells ==
  ASSUME MadeParts, NEW r \in Requests, CancelAtEnd(r)
  PROVE  LET s == req[r].seen.sub IN
         /\ Tells(s) /\ WasMade(s) /\ AnswerFits(r)
         /\ req[r].pc = "cancel" /\ op[r].do = "cancelAtEnd"
         /\ sub[s].status = "active" /\ sub'[s].status = "active"
<1> DEFINE s == req[r].seen.sub
           v == [sub[s] EXCEPT !.ending = TRUE]
           new == [req[r].seen EXCEPT !.status = "canceled"]
<1>1. /\ req[r].pc = "cancel" /\ Tell("updated", s) /\ Answered(r, new)
      /\ op[r].do = "cancelAtEnd"
      /\ UNCHANGED <<row, op, desk, lost, replaced, crossed, reorders>>
      /\ sub' = [sub EXCEPT ![s].ending = TRUE]
      /\ sub[s].status = "active"
  BY DEF CancelAtEnd
<1>2. SubscriptionsTypeOK /\ s \in Requests
  BY <1>1, Types DEF MadeParts, PlacesInv
<1>3. /\ sub[s] \in Subscription /\ req[r].seen \in Row
  BY <1>2, Types
<1>4. sub[s].customer # None
  BY <1>1, <1>2, MadeHasCustomer
<1>5. v \in Subscription /\ v.status = "active" /\ v.customer = sub[s].customer
  BY <1>1, <1>3 DEF Subscription
<1>6. /\ new \in Row /\ new.sub = s /\ new.plan = req[r].seen.plan
      /\ new.customer = req[r].seen.customer
  BY <1>2, <1>3 DEF Row, Ids
<1> HIDE DEF s
<1>7. sub' = [sub EXCEPT ![s] = v]
  BY <1>1, <1>2, <1>3 DEF SubscriptionsTypeOK
<1> HIDE DEF v, new
<1>8. /\ sub' \in [Requests -> Subscription] /\ \A q \in Requests \ {s} : sub'[q] = sub[q]
      /\ sub'[s] = v
  BY <1>2, <1>5, <1>7, SubWritten
<1>9. Tells(s)
  BY <1>1, <1>2, <1>4, <1>5, <1>8, TellSends
<1>10. Gets(r, "commit") /\ req'[r].new = new
  BY <1>1, <1>2, <1>6, AnswerGets
<1>11. AnswerFits(r)
  BY <1>1, <1>6, <1>10 DEF AnswerFits, s
<1> QED
  BY <1>1, <1>5, <1>8, <1>9, <1>11 DEF WasMade, s

\* The cancellation at once.
LEMMA CancelNowTells ==
  ASSUME MadeParts, NEW r \in Requests, CancelNow(r)
  PROVE  LET s == req[r].seen.sub IN
         /\ Tells(s) /\ WasMade(s) /\ AnswerFits(r)
         /\ req[r].pc = "cancel" /\ op[r].do = "cancelNow"
         /\ sub'[s].status = "canceled"
<1> DEFINE s == req[r].seen.sub
           v == [sub[s] EXCEPT !.status = "canceled"]
           new == [req[r].seen EXCEPT !.plan = "free", !.status = "canceled"]
<1>1. /\ req[r].pc = "cancel" /\ Tell("deleted", s) /\ Answered(r, new)
      /\ op[r].do = "cancelNow"
      /\ UNCHANGED <<row, op, desk, lost, replaced, crossed, reorders>>
      /\ sub' = [sub EXCEPT ![s].status = "canceled"]
      /\ sub[s].status \in {"incomplete", "active"}
  BY DEF CancelNow
<1>2. SubscriptionsTypeOK /\ s \in Requests
  BY <1>1, Types DEF MadeParts, PlacesInv
<1>3. /\ sub[s] \in Subscription /\ req[r].seen \in Row
  BY <1>2, Types
<1>4. sub[s].customer # None
  BY <1>1, <1>2, MadeHasCustomer
<1>5. v \in Subscription /\ v.status = "canceled" /\ v.customer = sub[s].customer
  BY <1>1, <1>3 DEF Subscription
<1>6. /\ new \in Row /\ new.sub = s /\ new.plan = "free"
      /\ new.customer = req[r].seen.customer
  BY <1>2, <1>3 DEF Row, Ids
<1> HIDE DEF s
<1>7. sub' = [sub EXCEPT ![s] = v]
  BY <1>1, <1>2, <1>3 DEF SubscriptionsTypeOK
<1> HIDE DEF v, new
<1>8. /\ sub' \in [Requests -> Subscription] /\ \A q \in Requests \ {s} : sub'[q] = sub[q]
      /\ sub'[s] = v
  BY <1>2, <1>5, <1>7, SubWritten
<1>9. Tells(s)
  BY <1>1, <1>2, <1>4, <1>5, <1>8, TellSends
<1>10. Gets(r, "commit") /\ req'[r].new = new
  BY <1>1, <1>2, <1>6, AnswerGets
<1>11. AnswerFits(r)
  BY <1>1, <1>6, <1>10 DEF AnswerFits, s
<1> QED
  BY <1>1, <1>5, <1>8, <1>9, <1>11 DEF WasMade, s

\* The checkout session: Stripe has nothing to tell yet.
LEMMA SessionGets ==
  ASSUME MadeParts, NEW r \in Requests, CreateCheckoutSession(r)
  PROVE  /\ AnswerFits(r) /\ req[r].pc = "session" /\ op[r].do = "checkout"
         /\ UNCHANGED <<row, op, sub, mail, desk, lost, replaced, crossed, reorders>>
<1> DEFINE new == [req[r].seen EXCEPT !.customer = CustomerOf(r)]
<1>1. /\ req[r].pc = "session" /\ Answered(r, new)
      /\ UNCHANGED <<row, op, sub, mail, desk, lost, replaced, crossed, reorders>>
  BY DEF CreateCheckoutSession
<1>2. SubscriptionsTypeOK /\ op[r].do = "checkout"
  BY <1>1 DEF MadeParts, PlacesInv
<1>3. req[r].seen \in Row /\ CustomerOf(r) \in Requests
  BY <1>2, Types
<1>4. /\ new \in Row /\ new.sub = req[r].seen.sub /\ new.plan = req[r].seen.plan
      /\ new.customer = CustomerOf(r)
  BY <1>3 DEF Row, Ids
<1> HIDE DEF new
<1>5. Gets(r, "commit") /\ req'[r].new = new
  BY <1>1, <1>2, <1>4, AnswerGets
<1> QED
  BY <1>1, <1>2, <1>4, <1>5 DEF AnswerFits

\* A refusal: the request is over and nothing was written.
LEMMA RefuseGets ==
  ASSUME SubscriptionsTypeOK, NEW r \in Requests, Refuse(r)
  PROVE  /\ Gets(r, "refused") /\ UnderWay(r) /\ req[r].pc # "commit"
         /\ UNCHANGED <<row, op, sub, mail, desk, lost, replaced, crossed, reorders>>
BY GoesThere DEF Refuse, Pcs

\* A request starts with the row, at the place of what it asks, if it has a subscription
\* where it needs one.
LEMMA LoadGets ==
  ASSUME SubscriptionsTypeOK, NEW r \in Requests, LoadRow(r)
  PROVE  /\ req[r].pc = "idle"
         /\ req' \in [Requests -> [pc : Pcs, seen : Row, new : Row]]
         /\ \A q \in Requests \ {r} : req'[q] = req[q]
         /\ req'[r].seen = row
         /\ \/ req'[r].pc = "subscribe" /\ op[r].do = "create"
            \/ req'[r].pc = "session" /\ op[r].do = "checkout"
            \/ req'[r].pc = "refused"
            \/ req'[r].pc = "modify" /\ op[r].do = "update" /\ row.sub # None
            \/ req'[r].pc = "cancel" /\ op[r].do \in {"cancelAtEnd", "cancelNow"} /\ row.sub # None
         /\ crossed' = (crossed \/ \E q \in Requests : UnderWay(q))
         /\ UNCHANGED <<row, op, sub, mail, desk, lost, replaced, reorders>>
<1> DEFINE next == CASE op[r].do = "create" -> "subscribe"
                     [] op[r].do = "checkout" -> "session"
                     [] op[r].do = "update" /\ row.sub # None -> "modify"
                     [] op[r].do \in {"cancelAtEnd", "cancelNow"} /\ row.sub # None -> "cancel"
                     [] OTHER -> "refused"
           v == [pc |-> next, seen |-> row, new |-> row]
<1>1. /\ req[r].pc = "idle" /\ req' = [req EXCEPT ![r] = v]
      /\ crossed' = (crossed \/ \E q \in Requests : UnderWay(q))
      /\ UNCHANGED <<row, op, sub, mail, desk, lost, replaced, reorders>>
  BY DEF LoadRow
<1>2. op[r].do \in {"create", "update", "cancelAtEnd", "cancelNow", "checkout"}
  BY Types
<1>3. \/ next = "subscribe" /\ op[r].do = "create"
      \/ next = "session" /\ op[r].do = "checkout"
      \/ next = "refused"
      \/ next = "modify" /\ op[r].do = "update" /\ row.sub # None
      \/ next = "cancel" /\ op[r].do \in {"cancelAtEnd", "cancelNow"} /\ row.sub # None
  <2>1. CASE op[r].do = "create"
    <3>1. next = "subscribe"
      BY <2>1
    <3> QED
      BY <2>1, <3>1
  <2>2. CASE op[r].do = "checkout"
    <3>1. next = "session"
      BY <2>2
    <3> QED
      BY <2>2, <3>1
  <2>3. CASE row.sub = None /\ op[r].do \notin {"create", "checkout"}
    <3>1. next = "refused"
      BY <2>3
    <3> QED
      BY <3>1
  <2>4. CASE row.sub # None /\ op[r].do = "update"
    <3>1. next = "modify"
      BY <2>4
    <3> QED
      BY <2>4, <3>1
  <2>5. CASE row.sub # None /\ op[r].do \in {"cancelAtEnd", "cancelNow"}
    <3>1. next = "cancel"
      BY <2>5
    <3> QED
      BY <2>5, <3>1
  <2> QED
    BY <1>2, <2>1, <2>2, <2>3, <2>4, <2>5
<1> HIDE DEF next
<1>4. v \in [pc : Pcs, seen : Row, new : Row] /\ v.pc = next /\ v.seen = row
  BY <1>3 DEF SubscriptionsTypeOK, Pcs
<1> HIDE DEF v
<1>5. req \in [Requests -> [pc : Pcs, seen : Row, new : Row]]
  BY DEF SubscriptionsTypeOK, Pcs
<1>6. /\ req' \in [Requests -> [pc : Pcs, seen : Row, new : Row]]
      /\ \A q \in Requests \ {r} : req'[q] = req[q]
      /\ req'[r] = v
  BY <1>1, <1>4, <1>5
<1> QED
  BY <1>1, <1>3, <1>4, <1>6

\* Of a commit: the price for overages changes nothing that is asked here, and the row is
\* written or the request rolled back.
SubsStand ==
  /\ sub' \in [Requests -> Subscription]
  /\ \A q \in Requests : /\ sub'[q].status = sub[q].status
                         /\ sub'[q].customer = sub[q].customer

RowWrittenFrom(seen0, new) ==
  /\ row' \in Row
  /\ row'.plan = IF new.plan # seen0.plan THEN new.plan ELSE row.plan
  /\ row'.sub = IF new.sub # seen0.sub THEN new.sub ELSE row.sub
  /\ row'.customer = IF new.customer # seen0.customer THEN new.customer ELSE row.customer
  /\ replaced \subseteq replaced' /\ replaced' \subseteq Requests \cup {OldCustomer}
  /\ row.sub \in {None, row'.sub} \cup replaced'
  /\ row.customer \in {None, row'.customer} \cup replaced'

\* A commit writes the row from what was loaded and what is new, or is rolled back.
LEMMA CommitWrites ==
  ASSUME MadeParts, NEW r \in Requests, Commit(r)
  PROVE  /\ req[r].pc = "commit" /\ Gets(r, "done") /\ SubsStand
         /\ \/ RowWrittenFrom(req[r].seen, req[r].new) /\ lost' = lost
            \/ lost' = lost \cup {r} /\ UNCHANGED <<row, replaced>>
         /\ UNCHANGED <<op, mail, desk, crossed, reorders>>
<1>1. /\ req[r].pc = "commit" /\ Goto(r, "done")
      /\ UNCHANGED <<op, mail, desk, crossed, reorders>>
      /\ AddsOverage(r) \/ UNCHANGED sub
      /\ \/ WriteRow(req[r].seen, req[r].new) /\ UNCHANGED lost
         \/ lost' = lost \cup {r} /\ UNCHANGED <<row, replaced>>
  BY DEF Commit
<1>2. SubscriptionsTypeOK /\ req[r].seen \in Row /\ req[r].new \in Row
  BY Types DEF MadeParts
<1>3. Gets(r, "done")
  BY <1>1, <1>2, GoesThere DEF Pcs
<1>4. ASSUME AddsOverage(r) PROVE SubsStand
  <2> DEFINE s == req[r].new.sub
             v == [sub[s] EXCEPT !.overage = TRUE]
  <2>1. sub' = [sub EXCEPT ![s].overage = TRUE] /\ op[r].do \in {"create", "update"}
    BY <1>4 DEF AddsOverage
  <2>2. s \in Requests
    BY <1>1, <1>2, <2>1, Types DEF MadeParts, PlacesInv
  <2>3. sub[s] \in Subscription
    BY <1>2, <2>2, Types
  <2>4. /\ v \in Subscription /\ v.status = sub[s].status /\ v.customer = sub[s].customer
    BY <2>3 DEF Subscription
  <2> HIDE DEF s
  <2>5. sub' = [sub EXCEPT ![s] = v]
    BY <1>2, <2>1, <2>2, <2>3 DEF SubscriptionsTypeOK
  <2> HIDE DEF v
  <2>6. /\ sub' \in [Requests -> Subscription]
        /\ \A q \in Requests \ {s} : sub'[q] = sub[q]
        /\ sub'[s] = v
    BY <1>2, <2>2, <2>4, <2>5, SubWritten
  <2> QED
    BY <2>2, <2>4, <2>6 DEF SubsStand
<1>5. SubsStand
  BY <1>1, <1>2, <1>4 DEF SubsStand, SubscriptionsTypeOK
<1>6. ASSUME WriteRow(req[r].seen, req[r].new)
      PROVE  RowWrittenFrom(req[r].seen, req[r].new)
  BY <1>2, <1>6, RowWritten DEF RowWrittenFrom
<1> QED
  BY <1>1, <1>3, <1>5, <1>6

\* A delivery takes its event off the queue, in its turn or not, and loads the row.
LEMMA DeliverTakes ==
  ASSUME SubscriptionsTypeOK, NEW i \in DOMAIN mail, Deliver(i)
  PROVE  /\ desk = NoEvent
         /\ desk' = [event |-> mail[i], seen |-> row]
         /\ desk' \in [event : Event, seen : Row] /\ desk' # NoEvent
         /\ desk'.event = mail[i] /\ desk'.seen = row
         /\ mail' \in Seq(Event)
         /\ \A k \in DOMAIN mail' : \E j \in DOMAIN mail : mail'[k] = mail[j]
         /\ reorders' \in 0..MaxReorders
         /\ \/ /\ i = 1 /\ reorders' = reorders
               /\ \A k \in DOMAIN mail' : k + 1 \in DOMAIN mail /\ mail'[k] = mail[k + 1]
               /\ \A j \in DOMAIN mail : j = 1 \/ (j - 1 \in DOMAIN mail' /\ mail'[j - 1] = mail[j])
            \/ reorders' > 0
         /\ UNCHANGED <<row, op, req, sub, lost, replaced, crossed>>
<1>1. /\ desk = NoEvent /\ desk' = [event |-> mail[i], seen |-> row]
      /\ i = 1 \/ reorders < MaxReorders
      /\ mail' = RemoveAt(mail, i)
      /\ reorders' = IF i = 1 THEN reorders ELSE reorders + 1
      /\ UNCHANGED <<row, op, req, sub, lost, replaced, crossed>>
  BY DEF Deliver
<1>2. mail \in Seq(Event) /\ row \in Row /\ reorders \in 0..MaxReorders
  BY DEF SubscriptionsTypeOK
<1>3. mail[i] \in Event /\ None \notin Event
  BY <1>2, NoneType
<1>4. /\ desk' \in [event : Event, seen : Row]
      /\ desk'.event = mail[i] /\ desk'.seen = row
  BY <1>1, <1>2, <1>3
<1>5. desk' # NoEvent
  BY <1>3, <1>4 DEF NoEvent
<1>6. /\ mail' \in Seq(Event)
      /\ \A k \in DOMAIN mail' : \E j \in DOMAIN mail : mail'[k] = mail[j]
      /\ i = 1 => /\ \A k \in DOMAIN mail' : k + 1 \in DOMAIN mail /\ mail'[k] = mail[k + 1]
                  /\ \A j \in DOMAIN mail : j = 1 \/ (j - 1 \in DOMAIN mail' /\ mail'[j - 1] = mail[j])
  BY <1>1, <1>2, Removed
<1>7. MaxReorders \in Nat
  BY BoundType
<1>8. reorders' \in 0..MaxReorders /\ (i = 1 \/ reorders' > 0)
  BY <1>1, <1>2, <1>7
<1> QED
  BY <1>1, <1>4, <1>5, <1>6, <1>8

\* A handler writes the row if it finds the user.
LEMMA HandleWrites ==
  ASSUME SubscriptionsTypeOK, HandleEvent
  PROVE  /\ desk \in [event : Event, seen : Row] /\ desk # NoEvent
         /\ \/ /\ Finds(desk.event) /\ Told(desk.event) \in Row
               /\ RowWrittenFrom(desk.seen, Told(desk.event))
            \/ ~Finds(desk.event) /\ UNCHANGED <<row, replaced>>
         /\ desk' = NoEvent
         /\ UNCHANGED <<op, req, sub, mail, lost, crossed, reorders>>
<1>1. /\ desk # NoEvent /\ desk' = NoEvent
      /\ UNCHANGED <<op, req, sub, mail, lost, crossed, reorders>>
      /\ \/ Finds(desk.event) /\ WriteRow(desk.seen, Told(desk.event))
         \/ ~Finds(desk.event) /\ UNCHANGED <<row, replaced>>
  BY DEF HandleEvent
<1>2. desk \in [event : Event, seen : Row]
  BY <1>1 DEF SubscriptionsTypeOK
<1>3. desk.event \in Event /\ desk.seen \in Row
  BY <1>2
<1>4. Told(desk.event) \in Row
  BY <1>3 DEF Told, Event, Row, Ids
<1>5. ASSUME WriteRow(desk.seen, Told(desk.event))
      PROVE  RowWrittenFrom(desk.seen, Told(desk.event))
  BY <1>3, <1>4, <1>5, RowWritten DEF RowWrittenFrom
<1> QED
  BY <1>1, <1>2, <1>4, <1>5

\* A handler that fails leaves the row, and the event is sent again.
LEMMA HandleFailsKeeps ==
  ASSUME SubscriptionsTypeOK, HandleFails
  PROVE  /\ desk \in [event : Event, seen : Row] /\ desk # NoEvent
         /\ desk' = NoEvent
         /\ mail' = Append(mail, desk.event) /\ mail' \in Seq(Event)
         /\ reorders' \in 0..MaxReorders /\ reorders' > 0
         /\ UNCHANGED <<row, op, req, sub, lost, replaced, crossed>>
<1>1. /\ desk # NoEvent /\ desk' = NoEvent /\ mail' = Append(mail, desk.event)
      /\ reorders < MaxReorders /\ reorders' = reorders + 1
      /\ UNCHANGED <<row, op, req, sub, lost, replaced, crossed>>
  BY DEF HandleFails
<1>2. desk \in [event : Event, seen : Row] /\ mail \in Seq(Event)
  BY <1>1 DEF SubscriptionsTypeOK
<1>3. mail' \in Seq(Event)
  BY <1>1, <1>2
<1>4. reorders \in 0..MaxReorders /\ MaxReorders \in Nat
  BY BoundType DEF SubscriptionsTypeOK
<1>5. reorders' \in 0..MaxReorders /\ reorders' > 0
  BY <1>1, <1>4
<1> QED
  BY <1>1, <1>2, <1>3, <1>5

SubsInv == SubscriptionsTypeOK /\ PlacesInv /\ MadeInv /\ NamesInv /\ EventsInv /\ RowInv

\* The requests stand, or one is answered: for a new subscription, the one that makes it.
Answers(s) ==
  \/ UNCHANGED req
  \/ \E r \in Requests : /\ AnswerFits(r) /\ req[r].pc \in {"subscribe", "modify", "cancel"}
                         /\ op[r].do = "create" => r = s

Makes(s) ==
  \/ WasMade(s)
  \/ /\ op[s].do \in {"create", "checkout"} /\ req'[s].pc \in {"commit", "done"}
     /\ sub'[s].customer = CustomerOf(s)

\* The steps at Stripe, of the user or of a request: Stripe tells of a subscription that
\* was there or is made by its request.
LEMMA TellsAndAnswers ==
  ASSUME MadeParts, NEW r \in Requests,
         \/ Subscribe(r) \/ Pay(r) \/ Expire(r) \/ Renew(r) \/ End(r) \/ CreateSubscription(r)
         \/ UpdateSubscription(r) \/ CancelAtEnd(r) \/ CancelNow(r)
  PROVE  \E s \in Requests : Tells(s) /\ Answers(s) /\ Makes(s)
<1>0. CASE Subscribe(r)
  BY <1>0, SubscribeTells DEF Answers, Makes
<1>1. CASE Pay(r) \/ Expire(r)
  BY <1>1, PayTells, ExpireTells DEF Answers, Makes
<1>2. CASE Renew(r)
  BY <1>2, RenewTells DEF Answers, Makes
<1>3. CASE End(r)
  BY <1>3, EndTells DEF Answers, Makes
<1>4. CASE CreateSubscription(r)
  <2>1. Tells(r) /\ Answers(r)
    BY <1>4, CreateTells DEF Answers
  <2>2. req'[r].pc = "commit"
    BY <1>4, CreateTells DEF AnswerFits, Gets
  <2>3. Makes(r)
    BY <1>4, <2>2, CreateTells DEF Makes
  <2> QED
    BY <2>1, <2>3
<1>5. CASE UpdateSubscription(r)
  BY <1>5, UpdateTells DEF Answers, Makes, Tells
<1>6. CASE CancelAtEnd(r)
  BY <1>6, CancelAtEndTells DEF Answers, Makes, Tells
<1>7. CASE CancelNow(r)
  BY <1>7, CancelNowTells DEF Answers, Makes, Tells
<1> QED
  BY <1>0, <1>1, <1>2, <1>3, <1>4, <1>5, <1>6, <1>7

\* The requests keep what they loaded, and the customer they would take.
LEMMA AnswersKeep ==
  ASSUME SubscriptionsTypeOK, NEW s \in Requests, Answers(s)
  PROVE  /\ req' \in [Requests -> [pc : Pcs, seen : Row, new : Row]]
         /\ \A q \in Requests : /\ req'[q].seen = req[q].seen
                                /\ CustomerOf(q)' = CustomerOf(q)
                                /\ \/ req'[q] = req[q]
                                   \/ /\ AnswerFits(q) /\ req'[q].pc = "commit"
                                      /\ req[q].pc \in {"subscribe", "modify", "cancel"}
                                      /\ op[q].do = "create" => q = s
<1>1. /\ req' \in [Requests -> [pc : Pcs, seen : Row, new : Row]]
      /\ \A q \in Requests :
           \/ req'[q] = req[q]
           \/ /\ AnswerFits(q) /\ req'[q].pc = "commit" /\ req'[q].seen = req[q].seen
              /\ req[q].pc \in {"subscribe", "modify", "cancel"}
              /\ op[q].do = "create" => q = s
  <2>1. CASE UNCHANGED req
    BY <2>1 DEF SubscriptionsTypeOK, Pcs
  <2>2. CASE \E r \in Requests :
               /\ AnswerFits(r) /\ req[r].pc \in {"subscribe", "modify", "cancel"}
               /\ op[r].do = "create" => r = s
    <3>1. PICK r \in Requests :
               /\ AnswerFits(r) /\ req[r].pc \in {"subscribe", "modify", "cancel"}
               /\ op[r].do = "create" => r = s
      BY <2>2
    <3>2. /\ req' \in [Requests -> [pc : Pcs, seen : Row, new : Row]]
          /\ \A q \in Requests \ {r} : req'[q] = req[q]
          /\ req'[r].pc = "commit" /\ req'[r].seen = req[r].seen
      BY <3>1 DEF AnswerFits, Gets
    <3> QED
      BY <3>1, <3>2
  <2> QED
    BY <2>1, <2>2 DEF Answers
<1>2. \A q \in Requests : req'[q].seen = req[q].seen
  BY <1>1
<1>3. \A q \in Requests : CustomerOf(q)' = CustomerOf(q)
  BY <1>2 DEF CustomerOf
<1> QED
  BY <1>1, <1>2, <1>3

\* What Stripe tells of keeps the invariant.
LEMMA TellsKeeps ==
  ASSUME SubsInv, NEW s \in Requests, Tells(s), Answers(s), Makes(s)
  PROVE  SubsInv'
<1>1. SubscriptionsTypeOK /\ PlacesInv /\ MadeInv /\ NamesInv /\ EventsInv /\ RowInv
  BY DEF SubsInv
<1>2. PICK e \in Event : /\ mail' = Append(mail, e)
                         /\ e.sub = s /\ e.customer = sub'[s].customer
                         /\ e.kind = "deleted" <=> sub'[s].status = "canceled"
  BY DEF Tells
<1>3. /\ sub' \in [Requests -> Subscription]
      /\ \A q \in Requests \ {s} : sub'[q] = sub[q]
      /\ sub[s].status # "canceled" /\ sub'[s].status # "none" /\ sub'[s].customer # None
      /\ row' = row /\ op' = op /\ desk' = desk /\ lost' = lost /\ replaced' = replaced
      /\ crossed' = crossed /\ reorders' = reorders
  BY DEF Tells
<1>4. /\ req' \in [Requests -> [pc : Pcs, seen : Row, new : Row]]
      /\ \A q \in Requests : /\ req'[q].seen = req[q].seen
                             /\ CustomerOf(q)' = CustomerOf(q)
                             /\ \/ req'[q] = req[q]
                                \/ /\ AnswerFits(q) /\ req'[q].pc = "commit"
                                   /\ req[q].pc \in {"subscribe", "modify", "cancel"}
                                   /\ op[q].do = "create" => q = s
  BY <1>1, AnswersKeep
<1>5. sub[s].status # "none" => sub'[s].customer = sub[s].customer
  BY <1>1 DEF Makes, WasMade, MadeInv
<1>6. mail \in Seq(Event) /\ mail' \in Seq(Event)
  BY <1>1, <1>2 DEF SubscriptionsTypeOK
<1>7. SubscriptionsTypeOK'
  BY <1>1, <1>3, <1>4, <1>6 DEF SubscriptionsTypeOK, Pcs
<1>8. PlacesInv'
  <2> SUFFICES ASSUME NEW q \in Requests
               PROVE  /\ req'[q].pc = "subscribe" => op[q].do = "create"
                      /\ req'[q].pc = "session" => op[q].do = "checkout"
                      /\ req'[q].pc = "modify" => op[q].do = "update"
                      /\ req'[q].pc = "cancel" => op[q].do \in {"cancelAtEnd", "cancelNow"}
                      /\ req'[q].pc \in {"modify", "cancel"} => req'[q].seen.sub # None
                      /\ req'[q].pc = "commit" =>
                           /\ op[q].do \in {"update", "cancelAtEnd", "cancelNow"}
                                => req'[q].seen.sub # None
                           /\ req'[q].new.sub = IF op[q].do = "create" THEN q
                                                ELSE req'[q].seen.sub
                           /\ req'[q].new.customer = IF op[q].do = "checkout"
                                                     THEN CustomerOf(q)'
                                                     ELSE req'[q].seen.customer
                           /\ req'[q].new.plan =
                                IF op[q].do \in {"create", "update"} THEN op[q].plan
                                ELSE IF op[q].do = "cancelNow" THEN "free"
                                ELSE req'[q].seen.plan
    BY <1>3 DEF PlacesInv
  <2>1. CASE req'[q] = req[q]
    BY <1>1, <1>4, <2>1 DEF PlacesInv
  <2>2. CASE /\ AnswerFits(q) /\ req'[q].pc = "commit"
             /\ req[q].pc \in {"subscribe", "modify", "cancel"}
    <3>1. op[q].do \in {"update", "cancelAtEnd", "cancelNow"} => req[q].seen.sub # None
      BY <1>1, <2>2 DEF PlacesInv
    <3> QED
      BY <1>4, <2>2, <3>1 DEF AnswerFits
  <2> QED
    BY <1>4, <2>1, <2>2
<1>9. MadeInv'
  <2> SUFFICES ASSUME NEW q \in Requests
               PROVE  /\ sub'[q].status # "none" =>
                           /\ op[q].do \in {"create", "checkout"}
                           /\ req'[q].pc \in {"commit", "done"}
                           /\ sub'[q].customer = CustomerOf(q)
                      /\ op[q].do = "create" /\ req'[q].pc \in {"commit", "done"}
                           => sub'[q].status # "none"
                      /\ op[q].do = "create" /\ req'[q].pc = "done"
                           => q \in lost \/ q \in SubNames
                      /\ op[q].do = "checkout" /\ req'[q].pc = "done"
                           => q \in lost \/ CustomerOf(q) \in CustomerNames
    BY <1>3, <1>4 DEF MadeInv, SubNames, CustomerNames
  <2>1. sub[q].status # "none" => req'[q].pc \in {"commit", "done"}
    BY <1>1, <1>4 DEF MadeInv
  <2>2. q # s => sub'[q] = sub[q]
    BY <1>3
  <2>3. sub'[q].status # "none" => /\ op[q].do \in {"create", "checkout"}
                                   /\ req'[q].pc \in {"commit", "done"}
                                   /\ sub'[q].customer = CustomerOf(q)
    BY <1>1, <2>1, <2>2 DEF MadeInv, Makes, WasMade
  <2>4. op[q].do = "create" /\ req'[q].pc \in {"commit", "done"} => sub'[q].status # "none"
    BY <1>1, <1>3, <1>4, <2>2 DEF MadeInv
  <2>5. req'[q].pc = "done" => req'[q] = req[q]
    BY <1>4
  <2> QED
    BY <1>1, <2>3, <2>4, <2>5 DEF MadeInv
<1>10. NamesInv'
  BY <1>1, <1>3, <1>4 DEF NamesInv, SubNames, CustomerNames
<1>11. EventsInv'
  <2> DEFINE Fits1(f) == /\ f.customer = sub'[f.sub].customer /\ f.customer # None
                         /\ sub'[f.sub].status # "none"
                         /\ f.kind = "deleted" => sub'[f.sub].status = "canceled"
  <2>1. ASSUME NEW f \in Event, EventFits(f)
        PROVE  Fits1(f)
    <3>1. f.sub \in Requests
      BY DEF Event
    <3>2. CASE f.sub = s
      BY <1>3, <1>5, <2>1, <3>2 DEF EventFits
    <3>3. CASE f.sub # s
      BY <1>3, <2>1, <3>1, <3>3 DEF EventFits
    <3> QED
      BY <3>2, <3>3
  <2>2. Fits1(e)
    BY <1>2, <1>3
  <2> HIDE DEF Fits1
  <2>3. ASSUME NEW i \in DOMAIN mail'
        PROVE  Fits1(mail'[i])
    <3>1. mail'[i] = e \/ (i \in DOMAIN mail /\ mail'[i] = mail[i])
      BY <1>2, <1>6, Appended
    <3>2. \A j \in DOMAIN mail : mail[j] \in Event /\ EventFits(mail[j])
      BY <1>1, Types DEF EventsInv
    <3> QED
      BY <2>1, <2>2, <3>1, <3>2
  <2>4. desk # NoEvent => Fits1(desk.event)
    <3>1. desk # NoEvent => desk.event \in Event /\ EventFits(desk.event)
      BY <1>1, Types DEF EventsInv
    <3> QED
      BY <2>1, <3>1
  <2> QED
    BY <1>3, <2>3, <2>4 DEF EventsInv, EventFits, Fits1, NoEvent, NewRow
<1>12. RowInv'
  <2>1. \A q \in Requests : sub[q].status # "none" => sub'[q].status # "none"
    BY <1>3
  <2>2. /\ row.sub \in Requests \cup {None} /\ desk.seen.sub \in Requests \cup {None}
        /\ \A q \in Requests : req[q].seen.sub \in Requests \cup {None}
    BY <1>1, Types
  <2> QED
    BY <1>1, <1>3, <1>4, <2>1, <2>2 DEF RowInv
<1> QED
  BY <1>7, <1>8, <1>9, <1>10, <1>11, <1>12 DEF SubsInv

\* A request moves while Stripe and the row stand.
LEMMA MovesKeep ==
  ASSUME SubsInv, NEW r \in Requests,
         UNCHANGED <<row, op, sub, mail, desk, lost, replaced, crossed, reorders>>,
         \/ CreateCheckoutSession(r)
         \/ Refuse(r)
  PROVE  SubsInv'
<1>1. SubscriptionsTypeOK /\ PlacesInv /\ MadeInv /\ NamesInv /\ EventsInv /\ RowInv /\ MadeParts
  BY DEF SubsInv, MadeParts
<1>2. /\ req' \in [Requests -> [pc : Pcs, seen : Row, new : Row]]
      /\ \A q \in Requests :
           /\ req'[q].seen = req[q].seen
           /\ \/ req'[q] = req[q]
              \/ req'[q].pc = "refused" /\ req[q].pc \in {"subscribe", "modify", "cancel", "session"}
              \/ /\ AnswerFits(q) /\ req'[q].pc = "commit" /\ op[q].do = "checkout"
                 /\ req[q].pc = "session"
  <2>1. CASE CreateCheckoutSession(r)
    BY <1>1, <2>1, SessionGets DEF AnswerFits, Gets
  <2>2. CASE Refuse(r)
    BY <1>1, <2>2, RefuseGets DEF Gets, UnderWay
  <2> QED
    BY <2>1, <2>2
<1>3. \A q \in Requests : CustomerOf(q)' = CustomerOf(q)
  BY <1>2 DEF CustomerOf
<1>4. SubscriptionsTypeOK'
  BY <1>1, <1>2 DEF SubscriptionsTypeOK, Pcs
<1>5. PlacesInv'
  BY <1>1, <1>2, <1>3 DEF PlacesInv, AnswerFits
<1>6. MadeInv'
  BY <1>1, <1>2, <1>3 DEF MadeInv, SubNames, CustomerNames
<1>7. NamesInv'
  BY <1>1, <1>2 DEF NamesInv, SubNames, CustomerNames
<1>8. EventsInv'
  BY <1>1 DEF EventsInv, EventFits, NoEvent, NewRow
<1>9. RowInv'
  BY <1>1, <1>2 DEF RowInv
<1> QED
  BY <1>4, <1>5, <1>6, <1>7, <1>8, <1>9 DEF SubsInv

\* What is loaded has names the row has.
LEMMA LoadKeeps ==
  ASSUME SubsInv, NEW r \in Requests, LoadRow(r)
  PROVE  SubsInv'
<1>1. SubscriptionsTypeOK /\ PlacesInv /\ MadeInv /\ NamesInv /\ EventsInv /\ RowInv
  BY DEF SubsInv
<1>2. /\ req[r].pc = "idle"
      /\ req' \in [Requests -> [pc : Pcs, seen : Row, new : Row]]
      /\ \A q \in Requests \ {r} : req'[q] = req[q]
      /\ req'[r].seen = row
      /\ \/ req'[r].pc = "subscribe" /\ op[r].do = "create"
         \/ req'[r].pc = "session" /\ op[r].do = "checkout"
         \/ req'[r].pc = "refused"
         \/ req'[r].pc = "modify" /\ op[r].do = "update" /\ row.sub # None
         \/ req'[r].pc = "cancel" /\ op[r].do \in {"cancelAtEnd", "cancelNow"} /\ row.sub # None
      /\ crossed' = (crossed \/ \E q \in Requests : UnderWay(q))
      /\ UNCHANGED <<row, op, sub, mail, desk, lost, replaced, reorders>>
  BY <1>1, LoadGets
<1>3. sub[r].status = "none"
  BY <1>1, <1>2 DEF MadeInv
<1>4. \A q \in Requests \ {r} : CustomerOf(q)' = CustomerOf(q)
  BY <1>2 DEF CustomerOf
<1>5. SubscriptionsTypeOK'
  BY <1>1, <1>2 DEF SubscriptionsTypeOK, Pcs
<1>6. PlacesInv'
  BY <1>1, <1>2, <1>4 DEF PlacesInv
<1>7. MadeInv'
  BY <1>1, <1>2, <1>3, <1>4 DEF MadeInv, SubNames, CustomerNames
<1>8. NamesInv'
  BY <1>1, <1>2 DEF NamesInv, SubNames, CustomerNames
<1>9. EventsInv'
  BY <1>1, <1>2 DEF EventsInv, EventFits, NoEvent, NewRow
<1>10. RowInv'
  BY <1>1, <1>2 DEF RowInv
<1> QED
  BY <1>5, <1>6, <1>7, <1>8, <1>9, <1>10 DEF SubsInv

\* The names of a row that is written: none is forgotten.
LEMMA NamesGrow ==
  ASSUME NEW seen0, NEW new, RowWrittenFrom(seen0, new)
  PROVE  SubNames \subseteq SubNames' /\ CustomerNames \subseteq CustomerNames'
BY DEF RowWrittenFrom, SubNames, CustomerNames

\* A commit puts the names of what was made into the row, unless it is rolled back.
LEMMA CommitKeeps ==
  ASSUME SubsInv, NEW r \in Requests, Commit(r)
  PROVE  SubsInv'
<1>1. SubscriptionsTypeOK /\ PlacesInv /\ MadeInv /\ NamesInv /\ EventsInv /\ RowInv /\ MadeParts
  BY DEF SubsInv, MadeParts
<1>2. /\ req[r].pc = "commit" /\ Gets(r, "done") /\ SubsStand
      /\ \/ RowWrittenFrom(req[r].seen, req[r].new) /\ lost' = lost
         \/ lost' = lost \cup {r} /\ row' = row /\ replaced' = replaced
      /\ op' = op /\ mail' = mail /\ desk' = desk /\ crossed' = crossed /\ reorders' = reorders
  BY <1>1, CommitWrites
<1>3. /\ req' \in [Requests -> [pc : Pcs, seen : Row, new : Row]]
      /\ \A q \in Requests \ {r} : req'[q] = req[q]
      /\ req'[r].pc = "done" /\ \A q \in Requests : req'[q].seen = req[q].seen
  BY <1>2 DEF Gets
<1>4. \A q \in Requests : CustomerOf(q)' = CustomerOf(q)
  BY <1>3 DEF CustomerOf
<1>5. /\ sub' \in [Requests -> Subscription]
      /\ \A q \in Requests : sub'[q].status = sub[q].status /\ sub'[q].customer = sub[q].customer
  BY <1>2 DEF SubsStand
<1>6. SubNames \subseteq SubNames' /\ CustomerNames \subseteq CustomerNames'
  BY <1>2, NamesGrow DEF SubNames, CustomerNames
<1>7. row' \in Row /\ replaced' \subseteq Requests \cup {OldCustomer} /\ lost' \subseteq Requests
  BY <1>1, <1>2 DEF RowWrittenFrom, SubscriptionsTypeOK
<1>8. SubscriptionsTypeOK'
  BY <1>1, <1>2, <1>3, <1>5, <1>7 DEF SubscriptionsTypeOK, Pcs
<1>9. PlacesInv'
  BY <1>1, <1>2, <1>3, <1>4 DEF PlacesInv
<1>10. /\ req[r].new.sub = IF op[r].do = "create" THEN r ELSE req[r].seen.sub
       /\ req[r].new.customer = IF op[r].do = "checkout" THEN CustomerOf(r)
                                ELSE req[r].seen.customer
       /\ req[r].new.plan = IF op[r].do \in {"create", "update"} THEN op[r].plan
                            ELSE IF op[r].do = "cancelNow" THEN "free" ELSE req[r].seen.plan
       /\ op[r].do \in {"update", "cancelAtEnd", "cancelNow"} => req[r].seen.sub # None
  BY <1>1, <1>2 DEF PlacesInv
<1>11. op[r].do = "create" => r \in lost' \/ r \in SubNames'
  <2>1. CASE lost' = lost \cup {r}
    BY <2>1
  <2>2. CASE RowWrittenFrom(req[r].seen, req[r].new)
    <3>1. CASE req[r].seen.sub = r
      BY <1>1, <1>6, <3>1 DEF NamesInv
    <3>2. CASE req[r].seen.sub # r
      BY <1>10, <2>2, <3>2 DEF RowWrittenFrom, SubNames
    <3> QED
      BY <3>1, <3>2
  <2> QED
    BY <1>2, <2>1, <2>2
<1>12. op[r].do = "checkout" => r \in lost' \/ CustomerOf(r) \in CustomerNames'
  <2>1. CASE lost' = lost \cup {r}
    BY <2>1
  <2>2. CASE RowWrittenFrom(req[r].seen, req[r].new)
    <3>1. CASE req[r].seen.customer \in {None, OldCustomer}
      <4>1. CustomerOf(r) = r /\ r \notin {None, OldCustomer}
        BY <3>1, NoneType, OldCustomerType DEF CustomerOf
      <4>2. op[r].do = "checkout" => row'.customer = r
        BY <1>10, <2>2, <3>1, <4>1 DEF RowWrittenFrom
      <4> QED
        BY <4>1, <4>2 DEF CustomerNames
    <3>2. CASE req[r].seen.customer \notin {None, OldCustomer}
      <4>1. CustomerOf(r) = req[r].seen.customer
        BY <3>2 DEF CustomerOf
      <4> QED
        BY <1>1, <1>6, <4>1 DEF NamesInv
    <3> QED
      BY <3>1, <3>2
  <2> QED
    BY <1>2, <2>1, <2>2
<1>13. lost \subseteq lost'
  BY <1>2
<1>14. MadeInv'
  <2> SUFFICES ASSUME NEW q \in Requests
               PROVE  /\ sub'[q].status # "none" =>
                           /\ op[q].do \in {"create", "checkout"}
                           /\ req'[q].pc \in {"commit", "done"}
                           /\ sub'[q].customer = CustomerOf(q)
                      /\ op[q].do = "create" /\ req'[q].pc \in {"commit", "done"}
                           => sub'[q].status # "none"
                      /\ op[q].do = "create" /\ req'[q].pc = "done"
                           => q \in lost' \/ q \in SubNames'
                      /\ op[q].do = "checkout" /\ req'[q].pc = "done"
                           => q \in lost' \/ CustomerOf(q) \in CustomerNames'
    BY <1>2, <1>4 DEF MadeInv
  <2>1. CASE q = r
    BY <1>1, <1>2, <1>3, <1>5, <1>11, <1>12, <2>1 DEF MadeInv
  <2>2. CASE q # r
    <3>1. req'[q] = req[q]
      BY <1>3, <2>2
    <3> QED
      BY <1>1, <1>5, <1>6, <1>13, <3>1 DEF MadeInv
  <2> QED
    BY <2>1, <2>2
<1>15. NamesInv'
  <2>1. \A q \in Requests : req'[q].seen.sub \in SubNames' /\ req'[q].seen.customer \in CustomerNames'
    BY <1>1, <1>3, <1>6 DEF NamesInv
  <2>2. desk'.seen.sub \in SubNames' /\ desk'.seen.customer \in CustomerNames'
    BY <1>1, <1>2, <1>6 DEF NamesInv
  <2> QED
    BY <2>1, <2>2 DEF NamesInv
<1>16. EventsInv'
  <2>1. \A i \in DOMAIN mail : mail[i].sub \in Requests
    BY <1>1, Types DEF Event
  <2>2. desk # NoEvent => desk.event.sub \in Requests
    BY <1>1, Types DEF Event
  <2> QED
    BY <1>1, <1>2, <1>5, <2>1, <2>2 DEF EventsInv, EventFits, NoEvent, NewRow
<1>17. RowInv'
  <2>1. /\ row.sub \in Requests \cup {None} /\ desk.seen.sub \in Requests \cup {None}
        /\ \A q \in Requests : req[q].seen.sub \in Requests \cup {None}
    BY <1>1, Types
  <2>2. CASE row' = row
    BY <1>1, <1>2, <1>3, <1>5, <2>1, <2>2 DEF RowInv
  <2>3. CASE RowWrittenFrom(req[r].seen, req[r].new)
    <3>1. row'.sub = row.sub \/ (row'.sub = r /\ sub[r].status # "none" /\ r # None)
      BY <1>1, <1>2, <1>10, <2>3, Types DEF RowWrittenFrom, MadeInv
    <3>2. row'.plan # "free" => row'.sub # None
      <4>1. CASE row'.plan = row.plan
        BY <1>1, <3>1, <4>1 DEF RowInv
      <4>2. CASE row'.plan # row.plan
        <5>1. row'.plan = req[r].new.plan /\ req[r].new.plan # req[r].seen.plan
          BY <2>3, <4>2 DEF RowWrittenFrom
        <5>2. CASE op[r].do = "create"
          BY <1>1, <1>10, <2>3, <3>1, <5>2, Types DEF RowWrittenFrom, RowInv
        <5>3. CASE op[r].do = "update"
          BY <1>1, <1>10, <3>1, <5>3 DEF RowInv
        <5>4. CASE op[r].do \notin {"create", "update"}
          BY <1>10, <5>1, <5>4
        <5> QED
          BY <5>2, <5>3, <5>4
      <4> QED
        BY <4>1, <4>2
    <3>3. row.sub # None => row'.sub # None
      BY <3>1
    <3>4. row'.sub # None => sub'[row'.sub].status # "none"
      BY <1>1, <1>5, <2>1, <3>1 DEF RowInv
    <3>5. \A q \in Requests : req'[q].seen.sub # None =>
            row'.sub # None /\ sub'[req'[q].seen.sub].status # "none"
      BY <1>1, <1>3, <1>5, <2>1, <3>3 DEF RowInv
    <3>6. desk'.seen.sub # None => row'.sub # None /\ sub'[desk'.seen.sub].status # "none"
      BY <1>1, <1>2, <1>5, <2>1, <3>3 DEF RowInv
    <3> QED
      BY <3>2, <3>4, <3>5, <3>6 DEF RowInv
  <2> QED
    BY <1>2, <2>2, <2>3
<1> QED
  BY <1>8, <1>9, <1>14, <1>15, <1>16, <1>17 DEF SubsInv

\* A delivery loads names the row has.
LEMMA DeliverKeeps ==
  ASSUME SubsInv, NEW i \in DOMAIN mail, Deliver(i)
  PROVE  SubsInv'
<1>1. SubscriptionsTypeOK /\ PlacesInv /\ MadeInv /\ NamesInv /\ EventsInv /\ RowInv
  BY DEF SubsInv
<1>2. /\ desk' = [event |-> mail[i], seen |-> row]
      /\ desk' \in [event : Event, seen : Row]
      /\ desk'.event = mail[i] /\ desk'.seen = row
      /\ mail' \in Seq(Event)
      /\ \A k \in DOMAIN mail' : \E j \in DOMAIN mail : mail'[k] = mail[j]
      /\ reorders' \in 0..MaxReorders
      /\ UNCHANGED <<row, op, req, sub, lost, replaced, crossed>>
  BY <1>1, DeliverTakes
<1>3. SubscriptionsTypeOK'
  BY <1>1, <1>2 DEF SubscriptionsTypeOK
<1>4. PlacesInv'
  BY <1>1, <1>2 DEF PlacesInv, CustomerOf
<1>5. MadeInv'
  BY <1>1, <1>2 DEF MadeInv, SubNames, CustomerNames, CustomerOf
<1>6. NamesInv'
  BY <1>1, <1>2 DEF NamesInv, SubNames, CustomerNames
<1>7. EventsInv'
  BY <1>1, <1>2 DEF EventsInv, EventFits
<1>8. RowInv'
  BY <1>1, <1>2 DEF RowInv
<1> QED
  BY <1>3, <1>4, <1>5, <1>6, <1>7, <1>8 DEF SubsInv

\* An empty desk has loaded no names.
LEMMA NoEventSeesNothing == NoEvent.seen.sub = None /\ NoEvent.seen.customer = None
BY DEF NoEvent, NewRow

\* A handler that fails keeps the invariant.
LEMMA HandleFailsStands ==
  ASSUME SubsInv, HandleFails
  PROVE  SubsInv'
<1>1. SubscriptionsTypeOK /\ PlacesInv /\ MadeInv /\ NamesInv /\ EventsInv /\ RowInv
  BY DEF SubsInv
<1>2. /\ desk \in [event : Event, seen : Row] /\ desk # NoEvent
      /\ desk' = NoEvent
      /\ mail' = Append(mail, desk.event) /\ mail' \in Seq(Event)
      /\ reorders' \in 0..MaxReorders
      /\ UNCHANGED <<row, op, req, sub, lost, replaced, crossed>>
  BY <1>1, HandleFailsKeeps
<1>3. desk'.seen.sub = None /\ desk'.seen.customer = None
  BY <1>2, NoEventSeesNothing
<1>4. SubscriptionsTypeOK'
  BY <1>1, <1>2 DEF SubscriptionsTypeOK, NoEvent, NewRow
<1>5. PlacesInv'
  BY <1>1, <1>2 DEF PlacesInv, CustomerOf
<1>6. MadeInv'
  BY <1>1, <1>2 DEF MadeInv, SubNames, CustomerNames, CustomerOf
<1>7. NamesInv'
  BY <1>1, <1>2, <1>3 DEF NamesInv, SubNames, CustomerNames
<1>8. EventsInv'
  <2>1. mail \in Seq(Event) /\ desk.event \in Event
    BY <1>1, <1>2 DEF SubscriptionsTypeOK
  <2>2. ASSUME NEW i \in DOMAIN mail'
        PROVE  EventFits(mail'[i])
    <3>1. mail'[i] = desk.event \/ (i \in DOMAIN mail /\ mail'[i] = mail[i])
      BY <1>2, <2>1, Appended
    <3> QED
      BY <1>1, <1>2, <3>1 DEF EventsInv
  <2>3. desk' = NoEvent'
    BY <1>2 DEF NoEvent, NewRow
  <2> QED
    BY <1>2, <2>2, <2>3 DEF EventsInv, EventFits
<1>9. RowInv'
  BY <1>1, <1>2, <1>3 DEF RowInv
<1> QED
  BY <1>4, <1>5, <1>6, <1>7, <1>8, <1>9 DEF SubsInv

\* What a handler writes of an event it found the user by.
LEMMA ToldIs ==
  ASSUME SubscriptionsTypeOK, desk # NoEvent
  PROVE  LET e == desk.event
             new == Told(e) IN
         /\ e \in Event /\ e.sub \in Requests /\ e.plan \in PaidPlans
         /\ new.customer = desk.seen.customer
         /\ e.kind = "deleted" => new.plan = "free" /\ new.sub = desk.seen.sub
         /\ e.kind # "deleted" => new.plan = e.plan /\ new.sub = e.sub
<1>1. desk.event \in Event /\ desk.seen \in Row
  BY DEF SubscriptionsTypeOK
<1> QED
  BY <1>1 DEF Told, Event, Row

\* A handler writes the name of a subscription that was made, and forgets none.
LEMMA HandleKeeps ==
  ASSUME SubsInv, HandleEvent
  PROVE  SubsInv'
<1>1. SubscriptionsTypeOK /\ PlacesInv /\ MadeInv /\ NamesInv /\ EventsInv /\ RowInv
  BY DEF SubsInv
<1> DEFINE e == desk.event
           new == Told(e)
<1>2. /\ desk \in [event : Event, seen : Row] /\ desk # NoEvent
      /\ \/ RowWrittenFrom(desk.seen, new)
         \/ row' = row /\ replaced' = replaced
      /\ desk' = NoEvent
      /\ UNCHANGED <<op, req, sub, mail, lost, crossed, reorders>>
  BY <1>1, HandleWrites
<1>3. /\ e \in Event /\ e.sub \in Requests /\ e.plan \in PaidPlans
      /\ new.customer = desk.seen.customer
      /\ e.kind = "deleted" => new.plan = "free" /\ new.sub = desk.seen.sub
      /\ e.kind # "deleted" => new.plan = e.plan /\ new.sub = e.sub
  BY <1>1, <1>2, ToldIs
<1> HIDE DEF new, e
<1>4. desk'.seen.sub = None /\ desk'.seen.customer = None
  BY <1>2, NoEventSeesNothing
<1>5. SubNames \subseteq SubNames' /\ CustomerNames \subseteq CustomerNames'
  BY <1>2, NamesGrow DEF SubNames, CustomerNames
<1>6. row' \in Row /\ replaced' \subseteq Requests \cup {OldCustomer}
  BY <1>1, <1>2 DEF RowWrittenFrom, SubscriptionsTypeOK
<1>7. SubscriptionsTypeOK'
  BY <1>1, <1>2, <1>6 DEF SubscriptionsTypeOK, NoEvent, NewRow
<1>8. PlacesInv'
  BY <1>1, <1>2 DEF PlacesInv, CustomerOf
<1>9. MadeInv'
  <2>1. \A q \in Requests : CustomerOf(q)' = CustomerOf(q)
    BY <1>2 DEF CustomerOf
  <2> QED
    BY <1>1, <1>2, <1>5, <2>1 DEF MadeInv
<1>10. NamesInv'
  <2>1. None \in SubNames' /\ None \in CustomerNames'
    BY DEF SubNames, CustomerNames
  <2>2. \A q \in Requests : req'[q].seen.sub \in SubNames' /\ req'[q].seen.customer \in CustomerNames'
    BY <1>1, <1>2, <1>5 DEF NamesInv
  <2> QED
    BY <1>4, <2>1, <2>2 DEF NamesInv
<1>11. EventsInv'
  <2>1. desk' = NoEvent'
    BY <1>2 DEF NoEvent, NewRow
  <2> QED
    BY <1>1, <1>2, <2>1 DEF EventsInv, EventFits
<1>12. RowInv'
  <2>1. CASE row' = row
    BY <1>1, <1>2, <1>4, <2>1 DEF RowInv
  <2>2. CASE RowWrittenFrom(desk.seen, new)
    <3>1. row'.sub = row.sub \/ (row'.sub = e.sub /\ e.sub # None)
      BY <1>1, <1>3, <2>2, Types DEF RowWrittenFrom
    <3>2. row.sub # None => row'.sub # None
      BY <3>1
    <3>3. sub[e.sub].status # "none"
      BY <1>1, <1>2 DEF EventsInv, EventFits, e
    <3>4. row'.plan # "free" => row'.sub # None
      <4>1. CASE row'.plan = row.plan
        BY <1>1, <3>2, <4>1 DEF RowInv
      <4>2. CASE row'.plan # row.plan /\ e.kind = "deleted"
        BY <1>3, <2>2, <4>2 DEF RowWrittenFrom
      <4>3. CASE e.kind # "deleted"
        <5>1. CASE desk.seen.sub = e.sub
          BY <1>1, <1>3, <3>2, <5>1, Types DEF RowInv
        <5>2. CASE desk.seen.sub # e.sub
          BY <1>1, <1>3, <2>2, <4>3, <5>2, Types DEF RowWrittenFrom
        <5> QED
          BY <5>1, <5>2
      <4> QED
        BY <4>1, <4>2, <4>3
    <3>5. row'.sub # None => sub'[row'.sub].status # "none"
      BY <1>1, <1>2, <3>1, <3>3 DEF RowInv
    <3>6. \A q \in Requests : req'[q].seen.sub # None =>
            row'.sub # None /\ sub'[req'[q].seen.sub].status # "none"
      BY <1>1, <1>2, <3>2 DEF RowInv
    <3> QED
      BY <1>4, <3>4, <3>5, <3>6 DEF RowInv
  <2> QED
    BY <1>2, <2>1, <2>2
<1> QED
  BY <1>7, <1>8, <1>9, <1>10, <1>11, <1>12 DEF SubsInv

\* At first there is nothing to name.
LEMMA SubsStart ==
  ASSUME InitSubscriptions
  PROVE  SubsInv
<1>1. /\ row \in {NewRow, [NewRow EXCEPT !.customer = OldCustomer]}
      /\ op \in Work /\ mail = <<>> /\ desk = NoEvent
      /\ lost = {} /\ replaced = {} /\ crossed = FALSE /\ reorders = 0
      /\ req = [r \in Requests |-> [pc |-> "idle", seen |-> NewRow, new |-> NewRow]]
      /\ sub = [r \in Requests |-> [plan |-> op[r].plan, status |-> "none", customer |-> None,
                                    ending |-> FALSE, overage |-> FALSE]]
  BY DEF InitSubscriptions
<1>2. /\ NewRow \in Row /\ NewRow.plan = "free" /\ NewRow.sub = None
      /\ NewRow.customer = None
  BY DEF NewRow, Row, Ids
<1>3. /\ \A r \in Requests : op[r].plan \in PaidPlans
      /\ row \in Row /\ row.plan = "free" /\ row.sub = None
  <2>1. \A r \in Requests : op[r].plan \in PaidPlans
    BY <1>1, WorkType DEF Operations
  <2>2. row \in Row /\ row.plan = "free" /\ row.sub = None
    BY <1>1 DEF NewRow, Row, Ids
  <2> QED
    BY <2>1, <2>2
<1>4. sub \in [Requests -> Subscription]
  BY <1>1, <1>3 DEF Subscription, Ids
<1>5. req \in [Requests -> [pc : {"idle", "subscribe", "modify", "cancel", "session",
                                 "commit", "done", "refused"}, seen : Row, new : Row]]
  BY <1>1, <1>2
<1>6. reorders \in 0..MaxReorders
  BY <1>1, BoundType
<1>7. SubscriptionsTypeOK
  <2>1. mail \in Seq(Event)
    BY <1>1
  <2>2. row \in Row /\ op \in Work /\ crossed \in BOOLEAN
    BY <1>1, <1>3
  <2>3. desk = NoEvent /\ lost \subseteq Requests /\ replaced \subseteq Requests \cup {OldCustomer}
    BY <1>1
  <2> QED
    BY <1>4, <1>5, <1>6, <2>1, <2>2, <2>3 DEF SubscriptionsTypeOK
<1>8. PlacesInv /\ MadeInv
  BY <1>1 DEF PlacesInv, MadeInv
<1>9. desk.seen.sub = None /\ desk.seen.customer = None
  BY <1>1, NoEventSeesNothing
<1>10. NamesInv /\ RowInv
  BY <1>1, <1>2, <1>3, <1>9 DEF NamesInv, RowInv, SubNames, CustomerNames
<1>11. EventsInv
  BY <1>1 DEF EventsInv
<1> QED
  BY <1>7, <1>8, <1>10, <1>11 DEF SubsInv

\* Every step keeps the invariant.
LEMMA SubsStep ==
  ASSUME SubsInv, [NextSubscriptions]_subscriptionVars
  PROVE  SubsInv'
<1>1. MadeParts
  BY DEF SubsInv, MadeParts
<1>2. ASSUME NEW r \in Requests,
             \/ Subscribe(r) \/ Pay(r) \/ Expire(r) \/ Renew(r) \/ End(r)
             \/ CreateSubscription(r)
             \/ UpdateSubscription(r) \/ CancelAtEnd(r) \/ CancelNow(r)
      PROVE  SubsInv'
  BY <1>1, <1>2, TellsAndAnswers, TellsKeeps
<1>3. ASSUME NEW r \in Requests, CreateCheckoutSession(r) \/ Refuse(r)
      PROVE  SubsInv'
  <2>1. UNCHANGED <<row, op, sub, mail, desk, lost, replaced, crossed, reorders>>
    BY <1>3 DEF CreateCheckoutSession, Refuse
  <2> QED
    BY <1>3, <2>1, MovesKeep
<1>4. ASSUME NEW r \in Requests, LoadRow(r)
      PROVE  SubsInv'
  BY <1>4, LoadKeeps
<1>5. ASSUME NEW r \in Requests, Commit(r)
      PROVE  SubsInv'
  BY <1>5, CommitKeeps
<1>6. ASSUME NEW i \in DOMAIN mail, Deliver(i)
      PROVE  SubsInv'
  BY <1>6, DeliverKeeps
<1>7. ASSUME HandleEvent
      PROVE  SubsInv'
  BY <1>7, HandleKeeps
<1>8. ASSUME HandleFails
      PROVE  SubsInv'
  BY <1>8, HandleFailsStands
<1>9. ASSUME UNCHANGED subscriptionVars
      PROVE  SubsInv'
  BY <1>9 DEF subscriptionVars, SubsInv, SubscriptionsTypeOK, PlacesInv, MadeInv, NamesInv,
     EventsInv, RowInv, EventFits, SubNames, CustomerNames, CustomerOf, NoEvent, NewRow
<1> QED
  BY <1>2, <1>3, <1>4, <1>5, <1>6, <1>7, <1>8, <1>9 DEF NextSubscriptions, RequestStep

\* An active subscription is reachable from the row, whatever overlapped or was lost.
THEOREM PaidSubscriptionsAreReachable ==
  SpecSubscriptions => [](SubscriptionsTypeOK /\ PaidIsReachable)
<1>1. InitSubscriptions => SubsInv
  BY SubsStart
<1>2. SubsInv /\ [NextSubscriptions]_subscriptionVars => SubsInv'
  BY SubsStep
<1>3. SubsInv => SubscriptionsTypeOK /\ PaidIsReachable
  <2> SUFFICES ASSUME SubsInv, NEW s \in Requests, sub[s].status = "active",
                      row.sub # s, row.customer # sub[s].customer,
                      req[s].pc # "commit", s \notin lost
               PROVE  {s, sub[s].customer} \cap replaced # {}
    BY DEF SubsInv, PaidIsReachable
  <2>1. /\ op[s].do \in {"create", "checkout"} /\ req[s].pc = "done"
        /\ sub[s].customer = CustomerOf(s)
        /\ op[s].do = "create" => s \in SubNames
        /\ op[s].do = "checkout" => CustomerOf(s) \in CustomerNames
    BY DEF SubsInv, MadeInv
  <2>2. s # None /\ CustomerOf(s) # None
    BY Types DEF SubsInv
  <2> QED
    BY <2>1, <2>2 DEF SubNames, CustomerNames
<1> QED
  BY <1>1, <1>2, <1>3, PTL DEF SpecSubscriptions

-----------------------------------------------------------------------------
(* As long as no two requests overlapped and no event came out of turn, what *)
(* Stripe has told and the row has not heard yet makes good for what a       *)
(* request or a handler writes back.                                         *)

Gone(s) == s \in Requests /\ sub[s].status = "canceled"

\* The subscription would be found by the customer in the row.
OfRow(s) == s \in Requests /\ sub[s].customer = row.customer /\ row.customer # None

\* An event that is found by the row's customer and brings back what has ended, and one
\* that brings what has not.
Late(e) == e.kind # "deleted" /\ sub[e.sub].status = "canceled" /\ e.customer = row.customer
Good(e) == sub[e.sub].status # "canceled" /\ e.customer = row.customer

SomeLate ==
  \/ \E i \in DOMAIN mail : Late(mail[i])
  \/ desk # NoEvent /\ Late(desk.event)

\* The last that Stripe tells of a subscription that ended is its deletion.
DeletionsLast ==
  /\ \A i \in DOMAIN mail : sub[mail[i].sub].status = "canceled" =>
       \E j \in DOMAIN mail : j >= i /\ mail[j].kind = "deleted" /\ mail[j].sub = mail[i].sub
  /\ desk # NoEvent /\ desk.event.kind # "deleted" /\ sub[desk.event.sub].status = "canceled" =>
       \E j \in DOMAIN mail : mail[j].kind = "deleted" /\ mail[j].sub = desk.event.sub

\* One request is under way; it knows the row's customer, which is never exchanged for
\* another if Stripe knows it, and cannot cancel what it makes.
OneAtATime ==
  /\ \A p, q \in Requests : UnderWay(p) /\ UnderWay(q) => p = q
  /\ \A r \in Requests :
       /\ UnderWay(r) => /\ sub[r].status # "canceled" /\ req[r].seen.sub # r
                         /\ req[r].seen.customer = row.customer
       /\ req[r].pc # "idle" => req[r].seen.customer \in {None, OldCustomer, row.customer}
       /\ req[r].pc = "commit" /\ op[r].do = "update" => sub[req[r].seen.sub].status = "active"
       /\ sub[r].status # "none" => sub[r].customer \in {r, row.customer}
  /\ desk.seen.customer \in {None, OldCustomer, row.customer}

\* Where the row's subscription moves on while a request is under way, it moves to one of
\* the row's customer.
LoadedInv ==
  \A r \in Requests : UnderWay(r) /\ OfRow(req[r].seen.sub) => OfRow(row.sub)

LateInRow == SomeLate => OfRow(row.sub)

ModifyInv ==
  \A r \in Requests :
    req[r].pc = "modify" /\ row.sub # req[r].seen.sub /\ (SomeLate \/ Gone(row.sub))
      => OfRow(req[r].seen.sub)

\* The row moves on once for an event, and not while it is at the desk.
DeskInv ==
  desk # NoEvent =>
    /\ \A r \in Requests : UnderWay(r) /\ row.sub # req[r].seen.sub => row.sub = desk.seen.sub
    /\ Gone(row.sub) /\ row.sub # desk.seen.sub =>
         \E j \in DOMAIN mail : mail[j].kind = "deleted" /\ mail[j].sub = row.sub

\* Before an update is written Stripe has told of what it modified, after anything late.
UpdateInv ==
  \A r \in Requests : req[r].pc = "commit" /\ op[r].do = "update" =>
    /\ \A i \in DOMAIN mail : Late(mail[i]) => \E j \in DOMAIN mail : j > i /\ Good(mail[j])
    /\ desk # NoEvent /\ Late(desk.event) => \E j \in DOMAIN mail : Good(mail[j])
    /\ Gone(row.sub) =>
         \/ \E j \in DOMAIN mail : Good(mail[j])
         \/ desk # NoEvent /\ Good(desk.event) /\ desk.seen.customer = row.customer

\* An event will be found for a paid plan whose subscription has ended.
GoneIsTold ==
  row.plan # "free" /\ Gone(row.sub) =>
    \/ \E j \in DOMAIN mail : \/ mail[j].customer = row.customer
                              \/ mail[j].kind # "created" /\ mail[j].sub = row.sub
    \/ /\ desk # NoEvent /\ Finds(desk.event)
       /\ desk.event.kind = "deleted" => desk.seen.plan # "free"

BackInv ==
  /\ DeletionsLast /\ OneAtATime /\ LoadedInv /\ LateInRow /\ ModifyInv /\ DeskInv
  /\ UpdateInv /\ GoneIsTold

\* What a step at Stripe changes.
LEMMA TellsSays ==
  ASSUME SubsInv, NEW s \in Requests, Tells(s), Makes(s)
  PROVE  /\ \A q \in Requests :
              /\ sub[q].status # "none" => /\ sub'[q].customer = sub[q].customer
                                           /\ sub'[q].status # "none"
              /\ sub[q].status = "canceled" => sub'[q].status = "canceled"
              /\ sub'[q].status = "canceled" => sub[q].status = "canceled" \/ q = s
              /\ q # s => sub'[q] = sub[q]
         /\ sub[s].status # "canceled" /\ sub'[s].status # "none" /\ sub'[s].customer # None
         /\ Len(mail) + 1 \in DOMAIN mail'
         /\ DOMAIN mail' = DOMAIN mail \cup {Len(mail) + 1}
         /\ \A i \in DOMAIN mail : /\ mail'[i] = mail[i] /\ i < Len(mail) + 1 /\ i \in Nat
                                   /\ mail[i].sub \in Requests
                                   /\ mail[i].customer = sub[mail[i].sub].customer
                                   /\ mail[i].customer # None
                                   /\ sub[mail[i].sub].status # "none"
         /\ mail'[Len(mail) + 1].sub = s
         /\ mail'[Len(mail) + 1].customer = sub'[s].customer
         /\ mail'[Len(mail) + 1].kind = "deleted" <=> sub'[s].status = "canceled"
         /\ row' = row /\ op' = op /\ desk' = desk /\ crossed' = crossed /\ reorders' = reorders
<1>1. PICK e \in Event : /\ mail' = Append(mail, e)
                         /\ e.sub = s /\ e.customer = sub'[s].customer
                         /\ e.kind = "deleted" <=> sub'[s].status = "canceled"
  BY DEF Tells
<1>2. SubscriptionsTypeOK /\ mail \in Seq(Event) /\ MadeInv
  BY DEF SubsInv, SubscriptionsTypeOK
<1>3. /\ DOMAIN mail' = DOMAIN mail \cup {Len(mail) + 1}
      /\ \A i \in DOMAIN mail : mail'[i] = mail[i] /\ i < Len(mail) + 1 /\ i \in Nat
      /\ mail'[Len(mail) + 1] = e
  BY <1>1, <1>2, Appended
<1>4. \A i \in DOMAIN mail : mail[i].sub \in Requests
  BY <1>2, Types DEF Event
<1>5. \A i \in DOMAIN mail : EventFits(mail[i])
  BY DEF SubsInv, EventsInv
<1>6. /\ \A q \in Requests \ {s} : sub'[q] = sub[q]
      /\ sub[s].status # "canceled" /\ sub'[s].status # "none" /\ sub'[s].customer # None
      /\ row' = row /\ op' = op /\ desk' = desk /\ crossed' = crossed /\ reorders' = reorders
  BY DEF Tells
<1>7. sub[s].status # "none" => sub'[s].customer = sub[s].customer
  BY <1>2 DEF Makes, WasMade, MadeInv
<1>8. \A q \in Requests :
        /\ sub[q].status # "none" => /\ sub'[q].customer = sub[q].customer
                                     /\ sub'[q].status # "none"
        /\ sub[q].status = "canceled" => sub'[q].status = "canceled"
        /\ sub'[q].status = "canceled" => sub[q].status = "canceled" \/ q = s
        /\ q # s => sub'[q] = sub[q]
  BY <1>6, <1>7
<1> QED
  BY <1>1, <1>3, <1>4, <1>5, <1>6, <1>8 DEF EventFits

\* The subscriptions that the row and the requests name were made.
LEMMA NamedWereMade ==
  ASSUME SubsInv
  PROVE  /\ row.sub \in Requests \cup {None} /\ None \notin Requests
         /\ row.sub \in Requests => sub[row.sub].status # "none"
         /\ \A q \in Requests : /\ req[q].seen.sub \in Requests \cup {None}
                                /\ req[q].seen.sub \in Requests =>
                                     sub[req[q].seen.sub].status # "none"
         /\ desk # NoEvent => /\ desk.event.sub \in Requests
                              /\ desk.event.customer = sub[desk.event.sub].customer
                              /\ desk.event.customer # None
                              /\ sub[desk.event.sub].status # "none"
                              /\ desk.event.kind = "deleted"
                                   => sub[desk.event.sub].status = "canceled"
<1>1. SubscriptionsTypeOK /\ RowInv /\ EventsInv
  BY DEF SubsInv
<1>2. desk # NoEvent => desk.event.sub \in Requests
  BY <1>1, Types DEF Event
<1> QED
  BY <1>1, <1>2, Types DEF RowInv, EventsInv, EventFits

\* What Stripe tells of a subscription that just ended is its deletion.
LEMMA DeletionsTold ==
  ASSUME SubsInv, DeletionsLast, NEW s \in Requests, Tells(s), Makes(s)
  PROVE  DeletionsLast'
<1> DEFINE n == Len(mail) + 1
<1>1. /\ \A q \in Requests : sub'[q].status = "canceled" => sub[q].status = "canceled" \/ q = s
      /\ n \in DOMAIN mail' /\ DOMAIN mail' = DOMAIN mail \cup {n} /\ n >= n
      /\ \A i \in DOMAIN mail : mail'[i] = mail[i] /\ n >= i /\ mail[i].sub \in Requests
      /\ mail'[n].sub = s
      /\ mail'[n].kind = "deleted" <=> sub'[s].status = "canceled"
      /\ desk' = desk
  <2>1. n \in Nat
    BY DEF SubsInv, SubscriptionsTypeOK
  <2>2. \A i \in DOMAIN mail : i \in Nat /\ i < n
    BY TellsSays
  <2>3. n >= n /\ \A i \in DOMAIN mail : n >= i
    BY <2>1, <2>2
  <2> HIDE DEF n
  <2>4. n = Len(mail) + 1
    BY DEF n
  <2> QED
    BY <2>3, <2>4, TellsSays
<1>2. desk # NoEvent => desk.event.sub \in Requests
  BY NamedWereMade
<1> HIDE DEF n
<1>3. ASSUME NEW i \in DOMAIN mail', sub'[mail'[i].sub].status = "canceled"
      PROVE  \E j \in DOMAIN mail' : j >= i /\ mail'[j].kind = "deleted" /\ mail'[j].sub = mail'[i].sub
  <2>1. CASE mail'[i].sub = s
    <3>1. n >= i
      BY <1>1
    <3> QED
      BY <1>1, <1>3, <2>1, <3>1
  <2>2. CASE mail'[i].sub # s
    <3>1. /\ i \in DOMAIN mail /\ mail'[i] = mail[i]
          /\ sub[mail[i].sub].status = "canceled"
      BY <1>1, <1>3, <2>2
    <3>2. PICK j \in DOMAIN mail : j >= i /\ mail[j].kind = "deleted" /\ mail[j].sub = mail[i].sub
      BY <3>1 DEF DeletionsLast
    <3> QED
      BY <1>1, <3>1, <3>2
  <2> QED
    BY <2>1, <2>2
<1>4. ASSUME desk # NoEvent, desk.event.kind # "deleted", sub'[desk.event.sub].status = "canceled"
      PROVE  \E j \in DOMAIN mail' : mail'[j].kind = "deleted" /\ mail'[j].sub = desk.event.sub
  <2>1. CASE desk.event.sub = s
    BY <1>1, <1>4, <2>1
  <2>2. CASE desk.event.sub # s
    <3>1. PICK j \in DOMAIN mail : mail[j].kind = "deleted" /\ mail[j].sub = desk.event.sub
      BY <1>1, <1>2, <1>4, <2>2 DEF DeletionsLast
    <3> QED
      BY <1>1, <3>1
  <2> QED
    BY <2>1, <2>2
<1> QED
  BY <1>1, <1>3, <1>4 DEF DeletionsLast, NoEvent, NewRow

\* What happens to subscription s does not end it, and what was paid for stays so.
Steady(s) ==
  sub'[s].status # "canceled" /\ (sub[s].status = "active" => sub'[s].status = "active")

\* A step of the user or of time at Stripe, or the answer to the one request that is under
\* way.
Acts(s) ==
  \/ UNCHANGED req /\ Steady(s)
  \/ \E r \in Requests :
       /\ AnswerFits(r)
       /\ \/ /\ req[r].pc = "subscribe" /\ op[r].do = "create" /\ s = r
             /\ sub[s].status = "none" /\ sub'[s].status = "incomplete"
          \/ /\ req[r].pc = "modify" /\ op[r].do = "update" /\ s = req[r].seen.sub
             /\ sub[s].status = "active" /\ sub'[s].status = "active"
          \/ /\ req[r].pc = "cancel" /\ op[r].do = "cancelAtEnd" /\ s = req[r].seen.sub
             /\ sub[s].status = "active" /\ sub'[s].status = "active"
          \/ /\ req[r].pc = "cancel" /\ op[r].do = "cancelNow" /\ s = req[r].seen.sub
             /\ sub'[s].status = "canceled"

\* The payments and the answers to the requests, as the steps at Stripe that they are.
LEMMA ActsAre ==
  ASSUME MadeParts, NEW r \in Requests,
         \/ Subscribe(r) \/ Pay(r) \/ Expire(r) \/ CreateSubscription(r)
         \/ UpdateSubscription(r) \/ CancelAtEnd(r) \/ CancelNow(r)
  PROVE  \E s \in Requests : Tells(s) /\ Answers(s) /\ Makes(s) /\ Acts(s)
<1>0. CASE Subscribe(r)
  BY <1>0, SubscribeTells DEF Answers, Makes, Acts, Steady
<1>1. CASE Pay(r) \/ Expire(r)
  BY <1>1, PayTells, ExpireTells DEF Answers, Makes, Acts, Steady
<1>2. CASE CreateSubscription(r)
  <2>1. /\ Tells(r) /\ Answers(r) /\ op[r].do = "create" /\ req'[r].pc = "commit"
        /\ sub'[r].customer = CustomerOf(r)
    BY <1>2, CreateTells DEF Answers, AnswerFits, Gets
  <2>2. Acts(r)
    BY <1>2, CreateTells DEF Acts
  <2> QED
    BY <2>1, <2>2 DEF Makes
<1>3. CASE UpdateSubscription(r)
  BY <1>3, UpdateTells DEF Answers, Makes, Tells, Acts
<1>4. CASE CancelAtEnd(r)
  BY <1>4, CancelAtEndTells DEF Answers, Makes, Tells, Acts
<1>5. CASE CancelNow(r)
  BY <1>5, CancelNowTells DEF Answers, Makes, Tells, Acts
<1> QED
  BY <1>0, <1>1, <1>2, <1>3, <1>4, <1>5

\* Whoever acts, those who are under way were so before; where a subscription ends, the
\* one request under way cancelled what it had loaded.
LEMMA ActsSay ==
  ASSUME SubsInv, OneAtATime, NEW s \in Requests,
         Tells(s), Answers(s), Makes(s), Acts(s)
  PROVE  /\ \A q \in Requests :
              /\ req'[q].seen = req[q].seen
              /\ UnderWay(q)' => UnderWay(q)
              /\ req'[q].pc # "idle" => req[q].pc # "idle"
              /\ req'[q].pc = "modify" => req'[q] = req[q] /\ Steady(s)
              /\ req'[q].pc = "commit" =>
                   \/ req'[q] = req[q] /\ Steady(s)
                   \/ /\ req[q].pc \in {"subscribe", "modify", "cancel"}
                      /\ op[q].do = "update" =>
                           /\ req[q].pc = "modify" /\ s = req[q].seen.sub
                           /\ sub[s].status = "active" /\ sub'[s].status = "active"
         /\ sub'[s].status = "canceled" =>
              \E r \in Requests : /\ UnderWay(r) /\ s = req[r].seen.sub
                                  /\ req[r].pc = "cancel"
<1>1. CASE UNCHANGED req /\ Steady(s)
  BY <1>1 DEF UnderWay, Steady
<1>2. ASSUME NEW r \in Requests, AnswerFits(r),
             \/ /\ req[r].pc = "subscribe" /\ op[r].do = "create" /\ s = r
                /\ sub[s].status = "none" /\ sub'[s].status = "incomplete"
             \/ /\ req[r].pc = "modify" /\ op[r].do = "update" /\ s = req[r].seen.sub
                /\ sub[s].status = "active" /\ sub'[s].status = "active"
             \/ /\ req[r].pc = "cancel" /\ op[r].do = "cancelAtEnd" /\ s = req[r].seen.sub
                /\ sub[s].status = "active" /\ sub'[s].status = "active"
             \/ /\ req[r].pc = "cancel" /\ op[r].do = "cancelNow" /\ s = req[r].seen.sub
                /\ sub'[s].status = "canceled"
      PROVE  /\ \A q \in Requests :
                  /\ req'[q].seen = req[q].seen
                  /\ UnderWay(q)' => UnderWay(q)
                  /\ req'[q].pc # "idle" => req[q].pc # "idle"
                  /\ req'[q].pc = "modify" => req'[q] = req[q] /\ Steady(s)
                  /\ req'[q].pc = "commit" =>
                       \/ req'[q] = req[q] /\ Steady(s)
                       \/ /\ req[q].pc \in {"subscribe", "modify", "cancel"}
                          /\ op[q].do = "update" =>
                               /\ req[q].pc = "modify" /\ s = req[q].seen.sub
                               /\ sub[s].status = "active" /\ sub'[s].status = "active"
             /\ sub'[s].status = "canceled" =>
                  \E p \in Requests : /\ UnderWay(p) /\ s = req[p].seen.sub
                                      /\ req[p].pc = "cancel"
  <2>1. /\ \A q \in Requests \ {r} : req'[q] = req[q]
        /\ req'[r].pc = "commit" /\ req'[r].seen = req[r].seen
        /\ UnderWay(r) /\ req[r].pc \in {"subscribe", "modify", "cancel"}
    BY <1>2 DEF AnswerFits, Gets, UnderWay
  <2>2. \A q \in Requests \ {r} : ~UnderWay(q) /\ req[q].pc \notin {"modify", "commit"}
    BY <2>1 DEF OneAtATime, UnderWay
  <2>3. ASSUME NEW q \in Requests
        PROVE  /\ req'[q].seen = req[q].seen
               /\ UnderWay(q)' => UnderWay(q)
               /\ req'[q].pc # "idle" => req[q].pc # "idle"
               /\ req'[q].pc = "modify" => req'[q] = req[q] /\ Steady(s)
               /\ req'[q].pc = "commit" =>
                    \/ req'[q] = req[q] /\ Steady(s)
                    \/ /\ req[q].pc \in {"subscribe", "modify", "cancel"}
                       /\ op[q].do = "update" =>
                            /\ req[q].pc = "modify" /\ s = req[q].seen.sub
                            /\ sub[s].status = "active" /\ sub'[s].status = "active"
    <3>1. CASE q = r
      BY <1>2, <2>1, <3>1 DEF Steady
    <3>2. CASE q # r
      BY <2>1, <2>2, <3>2 DEF UnderWay
    <3> QED
      BY <3>1, <3>2
  <2> QED
    BY <1>2, <2>1, <2>3
<1> QED
  BY <1>1, <1>2 DEF Acts

\* Nothing that Stripe does for a payment or a request, told at once, does harm.
LEMMA ActsKeep ==
  ASSUME SubsInv, BackInv, NEW s \in Requests,
         Tells(s), Answers(s), Makes(s), Acts(s)
  PROVE  BackInv'
<1> DEFINE n == Len(mail) + 1
<1>1. /\ DeletionsLast /\ OneAtATime /\ LoadedInv /\ LateInRow /\ ModifyInv /\ DeskInv
      /\ UpdateInv /\ GoneIsTold
  BY DEF BackInv
<1>2. /\ \A q \in Requests :
           /\ sub[q].status # "none" => /\ sub'[q].customer = sub[q].customer
                                        /\ sub'[q].status # "none"
           /\ sub[q].status = "canceled" => sub'[q].status = "canceled"
           /\ sub'[q].status = "canceled" => sub[q].status = "canceled" \/ q = s
           /\ q # s => sub'[q] = sub[q]
      /\ sub[s].status # "canceled" /\ sub'[s].status # "none" /\ sub'[s].customer # None
      /\ n \in DOMAIN mail' /\ DOMAIN mail' = DOMAIN mail \cup {n}
      /\ \A i \in DOMAIN mail : /\ mail'[i] = mail[i] /\ n > i
                                /\ mail[i].sub \in Requests
                                /\ mail[i].customer = sub[mail[i].sub].customer
                                /\ mail[i].customer # None
                                /\ sub[mail[i].sub].status # "none"
      /\ mail'[n].sub = s
      /\ mail'[n].customer = sub'[s].customer
      /\ mail'[n].kind = "deleted" <=> sub'[s].status = "canceled"
      /\ row' = row /\ op' = op /\ desk' = desk
  <2>1. n \in Nat
    BY DEF SubsInv, SubscriptionsTypeOK
  <2>2. \A i \in DOMAIN mail : n > i
    BY <2>1, TellsSays
  <2> HIDE DEF n
  <2>3. n = Len(mail) + 1
    BY DEF n
  <2> QED
    BY <2>2, <2>3, TellsSays
<1> HIDE DEF n
<1>3. /\ \A q \in Requests :
           /\ req'[q].seen = req[q].seen
           /\ UnderWay(q)' => UnderWay(q)
           /\ req'[q].pc # "idle" => req[q].pc # "idle"
           /\ req'[q].pc = "modify" => req'[q] = req[q] /\ Steady(s)
           /\ req'[q].pc = "commit" =>
                \/ req'[q] = req[q] /\ Steady(s)
                \/ /\ req[q].pc \in {"subscribe", "modify", "cancel"}
                   /\ op[q].do = "update" =>
                        /\ req[q].pc = "modify" /\ s = req[q].seen.sub
                        /\ sub[s].status = "active" /\ sub'[s].status = "active"
      /\ sub'[s].status = "canceled" =>
           \E r \in Requests : UnderWay(r) /\ s = req[r].seen.sub /\ req[r].pc = "cancel"
  BY <1>1, ActsSay
<1>4. /\ row.sub \in Requests \cup {None} /\ None \notin Requests
      /\ row.sub \in Requests => sub[row.sub].status # "none"
      /\ \A q \in Requests : /\ req[q].seen.sub \in Requests \cup {None}
                             /\ req[q].seen.sub \in Requests => sub[req[q].seen.sub].status # "none"
      /\ desk # NoEvent => /\ desk.event.sub \in Requests
                           /\ desk.event.customer = sub[desk.event.sub].customer
                           /\ desk.event.customer # None
                           /\ sub[desk.event.sub].status # "none"
  BY NamedWereMade
<1>5. NoEvent' = NoEvent
  BY DEF NoEvent, NewRow
<1>6. DeletionsLast'
  BY <1>1, DeletionsTold
<1>7. OneAtATime'
  <2>1. \A p, q \in Requests : UnderWay(p)' /\ UnderWay(q)' => p = q
    BY <1>1, <1>3 DEF OneAtATime
  <2>2. ASSUME NEW q \in Requests
        PROVE  /\ UnderWay(q)' => /\ sub'[q].status # "canceled" /\ req'[q].seen.sub # q
                                  /\ req'[q].seen.customer = row.customer
               /\ req'[q].pc # "idle" => req'[q].seen.customer \in {None, OldCustomer, row.customer}
               /\ req'[q].pc = "commit" /\ op[q].do = "update"
                    => sub'[req'[q].seen.sub].status = "active"
               /\ sub'[q].status # "none" => sub'[q].customer \in {q, row.customer}
    <3>1. UnderWay(q)' => /\ sub'[q].status # "canceled" /\ req'[q].seen.sub # q
                          /\ req'[q].seen.customer = row.customer
      <4>1. UnderWay(q) => /\ sub[q].status # "canceled" /\ req[q].seen.sub # q
                           /\ req[q].seen.customer = row.customer
        BY <1>1 DEF OneAtATime
      <4>2. UnderWay(q) => sub'[q].status # "canceled"
        <5> SUFFICES ASSUME UnderWay(q), sub'[q].status = "canceled"
                     PROVE  FALSE
          OBVIOUS
        <5>1. q = s
          BY <1>2, <4>1
        <5>2. PICK r \in Requests : UnderWay(r) /\ s = req[r].seen.sub
          BY <1>3, <5>1
        <5> QED
          BY <1>1, <5>1, <5>2 DEF OneAtATime
      <4> QED
        BY <1>3, <4>1, <4>2
    <3>2. req'[q].pc # "idle" => req'[q].seen.customer \in {None, OldCustomer, row.customer}
      BY <1>1, <1>3 DEF OneAtATime
    <3>3. req'[q].pc = "commit" /\ op[q].do = "update"
            => sub'[req'[q].seen.sub].status = "active"
      <4> SUFFICES ASSUME req'[q].pc = "commit", op[q].do = "update"
                   PROVE  sub'[req[q].seen.sub].status = "active"
        BY <1>3
      <4>1. CASE req'[q] = req[q] /\ Steady(s)
        <5>1. sub[req[q].seen.sub].status = "active"
          BY <1>1, <4>1 DEF OneAtATime
        <5>2. req[q].seen.sub \in Requests
          <6>1. req[q].pc = "commit"
            BY <4>1
          <6> QED
            BY <1>4, <6>1 DEF SubsInv, PlacesInv
        <5> QED
          BY <1>2, <4>1, <5>1, <5>2 DEF Steady
      <4>2. CASE s = req[q].seen.sub /\ sub'[s].status = "active"
        BY <4>2
      <4> QED
        BY <1>3, <4>1, <4>2
    <3>4. sub'[q].status # "none" => sub'[q].customer \in {q, row.customer}
      <4>1. CASE sub[q].status # "none"
        BY <1>1, <1>2, <4>1 DEF OneAtATime
      <4>2. CASE q # s
        BY <1>1, <1>2, <4>2 DEF OneAtATime
      <4>3. CASE q = s /\ sub[q].status = "none"
        <5>1. req'[q].pc \in {"commit", "done"} /\ sub'[q].customer = CustomerOf(q)
          BY <4>3 DEF Makes, WasMade
        <5>2. req[q].seen.customer \in {None, OldCustomer, row.customer}
          BY <1>1, <1>3, <5>1 DEF OneAtATime
        <5> QED
          BY <5>1, <5>2 DEF CustomerOf
      <4> QED
        BY <4>1, <4>2, <4>3
    <3> QED
      BY <3>1, <3>2, <3>3, <3>4
  <2>3. desk.seen.customer \in {None, OldCustomer, row.customer}
    BY <1>1 DEF OneAtATime
  <2> QED
    BY <1>2, <2>1, <2>2, <2>3 DEF OneAtATime
<1>8. \A q \in Requests : sub[q].status # "none" /\ sub'[q].customer = row.customer
                            => sub[q].customer = row.customer
  BY <1>2
<1>9. LoadedInv'
  <2> SUFFICES ASSUME NEW q \in Requests, UnderWay(q)', req'[q].seen.sub \in Requests,
                      sub'[req'[q].seen.sub].customer = row.customer, row.customer # None
               PROVE  row.sub \in Requests /\ sub'[row.sub].customer = row.customer
    BY <1>2 DEF LoadedInv, OfRow
  <2>1. UnderWay(q) /\ OfRow(req[q].seen.sub)
    BY <1>3, <1>4, <1>8 DEF OfRow
  <2>2. OfRow(row.sub)
    BY <1>1, <2>1 DEF LoadedInv
  <2> QED
    BY <1>2, <1>4, <2>2 DEF OfRow
\* What is late now was late, or comes of the end of what the one request had loaded.
<1>10. ASSUME SomeLate'
       PROVE  SomeLate \/ (sub'[s].status = "canceled" /\ OfRow(s))
  <2>1. CASE \E i \in DOMAIN mail' : /\ mail'[i].kind # "deleted"
                                     /\ sub'[mail'[i].sub].status = "canceled"
                                     /\ mail'[i].customer = row.customer
    <3>1. PICK i \in DOMAIN mail' : /\ mail'[i].kind # "deleted"
                                    /\ sub'[mail'[i].sub].status = "canceled"
                                    /\ mail'[i].customer = row.customer
      BY <2>1
    <3>2. i # n
      BY <1>2, <3>1
    <3>3. i \in DOMAIN mail /\ mail'[i] = mail[i]
      BY <1>2, <3>2
    <3>4. CASE sub[mail[i].sub].status = "canceled"
      BY <3>1, <3>3, <3>4 DEF SomeLate, Late
    <3>5. CASE sub[mail[i].sub].status # "canceled"
      <4>1. mail[i].sub = s /\ sub[s].customer = row.customer /\ row.customer # None
        BY <1>2, <3>1, <3>3, <3>5
      <4> QED
        BY <3>1, <3>3, <4>1 DEF OfRow
    <3> QED
      BY <3>4, <3>5
  <2>2. CASE /\ desk # NoEvent /\ desk.event.kind # "deleted"
             /\ sub'[desk.event.sub].status = "canceled"
             /\ desk.event.customer = row.customer
    <3>1. CASE sub[desk.event.sub].status = "canceled"
      BY <2>2, <3>1 DEF SomeLate, Late
    <3>2. CASE sub[desk.event.sub].status # "canceled"
      <4>1. desk.event.sub = s /\ sub[s].customer = row.customer /\ row.customer # None
        BY <1>2, <1>4, <2>2, <3>2
      <4> QED
        BY <2>2, <4>1 DEF OfRow
    <3> QED
      BY <3>1, <3>2
  <2> QED
    BY <1>2, <1>5, <1>10, <2>1, <2>2 DEF SomeLate, Late
<1>11. LateInRow'
  <2> SUFFICES ASSUME SomeLate'
               PROVE  /\ row.sub \in Requests /\ sub'[row.sub].customer = row.customer
                      /\ row.customer # None
    BY <1>2 DEF LateInRow, OfRow
  <2>1. OfRow(row.sub)
    <3>1. CASE SomeLate
      BY <1>1, <3>1 DEF LateInRow
    <3>2. CASE sub'[s].status = "canceled" /\ OfRow(s)
      <4>1. PICK r \in Requests : UnderWay(r) /\ s = req[r].seen.sub
        BY <1>3, <3>2
      <4> QED
        BY <1>1, <3>2, <4>1 DEF LoadedInv
    <3> QED
      BY <1>10, <3>1, <3>2
  <2> QED
    BY <1>2, <1>4, <2>1 DEF OfRow
<1>12. ModifyInv'
  <2> SUFFICES ASSUME NEW q \in Requests, req'[q].pc = "modify", row.sub # req'[q].seen.sub,
                      SomeLate' \/ (row.sub \in Requests /\ sub'[row.sub].status = "canceled")
               PROVE  /\ req'[q].seen.sub \in Requests
                      /\ sub'[req'[q].seen.sub].customer = row.customer
                      /\ row.customer # None
    BY <1>2 DEF ModifyInv, OfRow, Gone
  <2>1. req'[q] = req[q] /\ Steady(s)
    BY <1>3
  <2>2. SomeLate \/ Gone(row.sub)
    BY <1>2, <1>10, <2>1 DEF Gone, Steady
  <2>3. OfRow(req[q].seen.sub)
    BY <1>1, <2>1, <2>2 DEF ModifyInv
  <2> QED
    BY <1>2, <1>4, <2>1, <2>3 DEF OfRow
<1>13. DeskInv'
  <2> SUFFICES ASSUME desk # NoEvent
               PROVE  /\ \A q \in Requests : UnderWay(q)' /\ row.sub # req'[q].seen.sub
                           => row.sub = desk.seen.sub
                      /\ row.sub \in Requests /\ sub'[row.sub].status = "canceled"
                         /\ row.sub # desk.seen.sub =>
                           \E j \in DOMAIN mail' : mail'[j].kind = "deleted" /\ mail'[j].sub = row.sub
    BY <1>2, <1>5 DEF DeskInv, Gone
  <2>1. \A q \in Requests : UnderWay(q)' /\ row.sub # req'[q].seen.sub => row.sub = desk.seen.sub
    BY <1>1, <1>3 DEF DeskInv
  <2>2. ASSUME row.sub \in Requests, sub'[row.sub].status = "canceled", row.sub # desk.seen.sub
        PROVE  \E j \in DOMAIN mail' : mail'[j].kind = "deleted" /\ mail'[j].sub = row.sub
    <3>1. CASE row.sub = s
      BY <1>2, <2>2, <3>1
    <3>2. CASE row.sub # s
      <4>1. Gone(row.sub)
        BY <1>2, <2>2, <3>2 DEF Gone
      <4>2. PICK j \in DOMAIN mail : mail[j].kind = "deleted" /\ mail[j].sub = row.sub
        BY <1>1, <2>2, <4>1 DEF DeskInv
      <4> QED
        BY <1>2, <4>2
    <3> QED
      BY <3>1, <3>2
  <2> QED
    BY <2>1, <2>2
<1>14. UpdateInv'
  <2> DEFINE LateAt(i) == /\ mail'[i].kind # "deleted" /\ mail'[i].customer = row.customer
                          /\ sub'[mail'[i].sub].status = "canceled"
             GoodAfter(i) == \E j \in DOMAIN mail' : /\ j > i /\ mail'[j].customer = row.customer
                                                     /\ sub'[mail'[j].sub].status # "canceled"
             SomeGood == \E j \in DOMAIN mail' : /\ mail'[j].customer = row.customer
                                                 /\ sub'[mail'[j].sub].status # "canceled"
             LateAtDesk == /\ desk # NoEvent /\ desk.event.kind # "deleted"
                           /\ desk.event.customer = row.customer
                           /\ sub'[desk.event.sub].status = "canceled"
             GoodAtDesk == /\ desk # NoEvent /\ desk.event.customer = row.customer
                           /\ sub'[desk.event.sub].status # "canceled"
                           /\ desk.seen.customer = row.customer
             RowGone == row.sub \in Requests /\ sub'[row.sub].status = "canceled"
  <2> SUFFICES ASSUME NEW q \in Requests, req'[q].pc = "commit", op[q].do = "update"
               PROVE  /\ \A i \in DOMAIN mail' : LateAt(i) => GoodAfter(i)
                      /\ LateAtDesk => SomeGood
                      /\ RowGone => SomeGood \/ GoodAtDesk
    BY <1>2, <1>5 DEF UpdateInv, Gone, Late, Good
  <2>1. sub'[s].status # "canceled"
    BY <1>3 DEF Steady
  <2>2. \A p \in Requests : sub'[p].status = "canceled" <=> sub[p].status = "canceled"
    BY <1>2, <2>1
  <2>3. CASE req'[q] = req[q]
    <3>1. req[q].pc = "commit"
      BY <2>3
    <3>2. ASSUME NEW i \in DOMAIN mail', LateAt(i)
          PROVE  GoodAfter(i)
      <4>1. i \in DOMAIN mail /\ mail'[i] = mail[i]
        BY <1>2, <2>1, <3>2
      <4>2. Late(mail[i])
        BY <1>2, <2>2, <3>2, <4>1 DEF Late
      <4>3. PICK j \in DOMAIN mail : j > i /\ Good(mail[j])
        BY <1>1, <3>1, <4>1, <4>2 DEF UpdateInv
      <4> QED
        BY <1>2, <2>2, <4>3 DEF Good
    <3>3. ASSUME LateAtDesk
          PROVE  SomeGood
      <4>1. Late(desk.event)
        BY <1>4, <2>2, <3>3 DEF Late
      <4>2. PICK j \in DOMAIN mail : Good(mail[j])
        BY <1>1, <3>1, <3>3, <4>1 DEF UpdateInv
      <4> QED
        BY <1>2, <2>2, <4>2 DEF Good
    <3>4. ASSUME RowGone
          PROVE  SomeGood \/ GoodAtDesk
      <4>1. \/ \E j \in DOMAIN mail : Good(mail[j])
            \/ desk # NoEvent /\ Good(desk.event) /\ desk.seen.customer = row.customer
        BY <1>1, <2>2, <3>1, <3>4 DEF UpdateInv, Gone
      <4>2. CASE \E j \in DOMAIN mail : Good(mail[j])
        BY <1>2, <2>2, <4>2 DEF Good
      <4>3. CASE desk # NoEvent /\ Good(desk.event) /\ desk.seen.customer = row.customer
        BY <1>4, <2>2, <4>3 DEF Good
      <4> QED
        BY <4>1, <4>2, <4>3
    <3> HIDE DEF LateAt, GoodAfter, SomeGood, LateAtDesk, GoodAtDesk, RowGone
    <3> QED
      BY <3>2, <3>3, <3>4
  <2>4. CASE /\ req[q].pc = "modify" /\ s = req[q].seen.sub /\ sub[s].status = "active"
    <3>1. ASSUME SomeLate \/ Gone(row.sub)
          PROVE  mail'[n].customer = row.customer /\ sub'[mail'[n].sub].status # "canceled"
      <4>1. OfRow(s)
        <5>1. CASE row.sub # s
          BY <1>1, <2>4, <3>1, <5>1 DEF ModifyInv
        <5>2. CASE row.sub = s
          <6>1. SomeLate
            BY <2>4, <3>1, <5>2 DEF Gone
          <6> QED
            BY <1>1, <5>2, <6>1 DEF LateInRow
        <5> QED
          BY <5>1, <5>2
      <4> QED
        BY <1>2, <2>1, <2>4, <4>1 DEF OfRow
    <3>2. ASSUME NEW i \in DOMAIN mail', LateAt(i)
          PROVE  GoodAfter(i)
      <4>1. i \in DOMAIN mail /\ mail'[i] = mail[i] /\ n > i
        BY <1>2, <2>1, <3>2
      <4>2. SomeLate
        BY <1>2, <2>2, <3>2, <4>1 DEF Late, SomeLate
      <4> QED
        BY <1>2, <3>1, <4>1, <4>2
    <3>3. ASSUME LateAtDesk
          PROVE  SomeLate
      BY <1>4, <2>2, <3>3 DEF Late, SomeLate
    <3>4. RowGone => Gone(row.sub)
      BY <2>2 DEF Gone
    <3>5. (LateAtDesk \/ RowGone) => SomeGood
      BY <1>2, <3>1, <3>3, <3>4
    <3> HIDE DEF LateAt, GoodAfter, SomeGood, LateAtDesk, GoodAtDesk, RowGone
    <3> QED
      BY <3>2, <3>5
  <2> QED
    BY <1>3, <2>3, <2>4
<1>15. GoneIsTold'
  <2> SUFFICES ASSUME row.plan # "free", row.sub \in Requests, sub'[row.sub].status = "canceled"
               PROVE  \/ \E j \in DOMAIN mail' : \/ mail'[j].customer = row.customer
                                                 \/ mail'[j].kind # "created" /\ mail'[j].sub = row.sub
                      \/ /\ desk # NoEvent /\ Finds(desk.event)
                         /\ desk.event.kind = "deleted" => desk.seen.plan # "free"
    BY <1>2, <1>5 DEF GoneIsTold, Gone, Finds
  <2>1. CASE row.sub = s
    BY <1>2, <2>1
  <2>2. CASE row.sub # s
    <3>1. Gone(row.sub)
      BY <1>2, <2>2 DEF Gone
    <3>2. \/ \E j \in DOMAIN mail : \/ mail[j].customer = row.customer
                                    \/ mail[j].kind # "created" /\ mail[j].sub = row.sub
          \/ /\ desk # NoEvent /\ Finds(desk.event)
             /\ desk.event.kind = "deleted" => desk.seen.plan # "free"
      BY <1>1, <3>1 DEF GoneIsTold
    <3> QED
      BY <1>2, <3>2
  <2> QED
    BY <2>1, <2>2
<1> QED
  BY <1>6, <1>7, <1>9, <1>11, <1>12, <1>13, <1>14, <1>15 DEF BackInv

\* When all is quiet, only what Stripe tells now is to be heard.
LEMMA QuietKeeps ==
  ASSUME SubsInv, BackInv, NEW s \in Requests, Tells(s), Makes(s), UNCHANGED req, Quiet
  PROVE  BackInv'
<1> DEFINE n == Len(mail) + 1
<1>1. /\ DeletionsLast /\ OneAtATime /\ GoneIsTold
  BY DEF BackInv
<1>2. /\ \A q \in Requests :
           /\ sub[q].status # "none" => sub'[q].customer = sub[q].customer
           /\ sub'[q].status = "canceled" => sub[q].status = "canceled" \/ q = s
           /\ q # s => sub'[q] = sub[q]
      /\ DOMAIN mail' = DOMAIN mail \cup {n}
      /\ mail'[n].sub = s /\ mail'[n].customer = sub'[s].customer
      /\ mail'[n].kind = "deleted" <=> sub'[s].status = "canceled"
      /\ row' = row /\ op' = op /\ desk' = desk
  BY TellsSays
<1>3. /\ desk = NoEvent /\ NoEvent' = NoEvent
      /\ \A q \in Requests : ~UnderWay(q) /\ ~UnderWay(q)' /\ req'[q] = req[q]
                             /\ req[q].pc \notin {"modify", "commit"}
  BY DEF Quiet, UnderWay, NoEvent, NewRow
<1>4. DOMAIN mail' = {n}
  <2>1. DOMAIN mail = {}
    BY DEF Quiet
  <2> QED
    BY <1>2, <2>1
<1> HIDE DEF n
<1>5. DeletionsLast'
  BY <1>1, DeletionsTold
<1>6. OneAtATime'
  <2>1. ASSUME NEW q \in Requests
        PROVE  /\ req'[q].pc # "idle" => req'[q].seen.customer \in {None, OldCustomer, row.customer}
               /\ sub'[q].status # "none" => sub'[q].customer \in {q, row.customer}
    <3>1. CASE sub[q].status # "none" \/ q # s
      BY <1>1, <1>2, <1>3, <3>1 DEF OneAtATime
    <3>2. CASE q = s /\ sub[q].status = "none"
      <4>1. req'[q].pc \in {"commit", "done"} /\ sub'[q].customer = CustomerOf(q)
        BY <3>2 DEF Makes, WasMade
      <4>2. req[q].seen.customer \in {None, OldCustomer, row.customer}
        BY <1>1, <1>3, <4>1 DEF OneAtATime
      <4> QED
        BY <1>3, <4>1, <4>2 DEF CustomerOf
    <3> QED
      BY <3>1, <3>2
  <2>2. desk.seen.customer \in {None, OldCustomer, row.customer}
    BY <1>1 DEF OneAtATime
  <2> QED
    BY <1>2, <1>3, <2>1, <2>2 DEF OneAtATime
<1>7. LoadedInv' /\ ModifyInv' /\ UpdateInv' /\ DeskInv'
  BY <1>2, <1>3 DEF LoadedInv, ModifyInv, UpdateInv, DeskInv
<1>8. ~SomeLate'
  BY <1>2, <1>3, <1>4 DEF SomeLate, Late
<1>9. LateInRow'
  BY <1>8 DEF LateInRow
<1>10. GoneIsTold'
  <2> SUFFICES ASSUME row.plan # "free", row.sub \in Requests, sub'[row.sub].status = "canceled"
               PROVE  \E j \in DOMAIN mail' : mail'[j].kind # "created" /\ mail'[j].sub = row.sub
    BY <1>2 DEF GoneIsTold, Gone
  <2>1. CASE row.sub = s
    BY <1>2, <2>1
  <2>2. CASE row.sub # s
    <3>1. Gone(row.sub)
      BY <1>2, <2>2 DEF Gone
    <3>2. DOMAIN mail = {}
      BY DEF Quiet
    <3> QED
      BY <1>1, <1>3, <3>1, <3>2 DEF GoneIsTold
  <2> QED
    BY <2>1, <2>2
<1> QED
  BY <1>5, <1>6, <1>7, <1>9, <1>10 DEF BackInv

\* A request moves, or is loaded when no other is under way; Stripe and the row stand.
LEMMA MovesBack ==
  ASSUME SubsInv, BackInv, NEW r \in Requests,
         UNCHANGED <<row, op, sub, mail, desk>>,
         \/ CreateCheckoutSession(r)
         \/ Refuse(r)
         \/ LoadRow(r) /\ \A q \in Requests : ~UnderWay(q)
  PROVE  BackInv'
<1>1. /\ DeletionsLast /\ OneAtATime /\ LoadedInv /\ LateInRow /\ ModifyInv /\ DeskInv
      /\ UpdateInv /\ GoneIsTold /\ SubscriptionsTypeOK /\ MadeParts
  BY DEF BackInv, SubsInv, MadeParts
<1>2. /\ row.sub \in Requests \cup {None} /\ None \notin Requests
      /\ row.sub \in Requests => sub[row.sub].status # "none"
  BY NamedWereMade
<1>3. \A q \in Requests :
        \/ req'[q] = req[q]
        \/ /\ ~UnderWay(q)' /\ req'[q].seen = req[q].seen /\ req[q].pc # "idle"
           /\ req'[q].pc \notin {"modify", "commit"}
        \/ /\ UnderWay(q) /\ req'[q].seen = req[q].seen /\ req[q].pc # "idle"
           /\ req'[q].pc = "commit" /\ op[q].do = "checkout"
        \/ /\ req[q].pc = "idle" /\ req'[q].seen = row /\ req'[q].pc # "commit"
           /\ \A p \in Requests : ~UnderWay(p)
           /\ \A p \in Requests : UnderWay(p)' => p = q
  <2>1. CASE CreateCheckoutSession(r)
    <3>1. AnswerFits(r) /\ req[r].pc = "session" /\ op[r].do = "checkout"
      BY <1>1, <2>1, SessionGets
    <3> QED
      BY <3>1 DEF AnswerFits, Gets, UnderWay
  <2>2. CASE Refuse(r)
    <3>1. Gets(r, "refused") /\ UnderWay(r)
      BY <1>1, <2>2, RefuseGets
    <3> QED
      BY <3>1 DEF Gets, UnderWay
  <2>3. CASE LoadRow(r) /\ \A q \in Requests : ~UnderWay(q)
    <3>1. /\ req[r].pc = "idle" /\ req'[r].seen = row /\ req'[r].pc # "commit"
          /\ \A q \in Requests \ {r} : req'[q] = req[q]
      BY <1>1, <2>3, LoadGets
    <3> QED
      BY <2>3, <3>1 DEF UnderWay
  <2> QED
    BY <2>1, <2>2, <2>3
<1>4. ASSUME NEW q \in Requests, UnderWay(q)'
      PROVE  \/ UnderWay(q) /\ req'[q].seen = req[q].seen
             \/ req[q].pc = "idle" /\ req'[q].seen = row
  BY <1>3, <1>4 DEF UnderWay
<1>5. NoEvent' = NoEvent /\ row' = row /\ op' = op /\ sub' = sub /\ mail' = mail /\ desk' = desk
  BY DEF NoEvent, NewRow
<1>6. DeletionsLast'
  BY <1>1, <1>5 DEF DeletionsLast
<1>7. OneAtATime'
  <2>1. \A p, q \in Requests : UnderWay(p)' /\ UnderWay(q)' => p = q
    <3> SUFFICES ASSUME NEW p \in Requests, NEW q \in Requests, UnderWay(p)', UnderWay(q)'
                 PROVE  p = q
      OBVIOUS
    <3>1. CASE UnderWay(p) /\ UnderWay(q)
      BY <1>1, <3>1 DEF OneAtATime
    <3>2. CASE ~UnderWay(p) \/ ~UnderWay(q)
      BY <1>3, <3>2 DEF UnderWay
    <3> QED
      BY <3>1, <3>2
  <2>2. ASSUME NEW q \in Requests
        PROVE  /\ UnderWay(q)' => /\ sub[q].status # "canceled" /\ req'[q].seen.sub # q
                                  /\ req'[q].seen.customer = row.customer
               /\ req'[q].pc # "idle" => req'[q].seen.customer \in {None, OldCustomer, row.customer}
               /\ req'[q].pc = "commit" /\ op[q].do = "update"
                    => sub[req'[q].seen.sub].status = "active"
               /\ sub[q].status # "none" => sub[q].customer \in {q, row.customer}
    <3>1. sub[q].status # "none" => sub[q].customer \in {q, row.customer}
      BY <1>1 DEF OneAtATime
    <3>2. req'[q].pc # "idle" => req'[q].seen.customer \in {None, OldCustomer, row.customer}
      BY <1>1, <1>3 DEF OneAtATime
    <3>3. req'[q].pc = "commit" /\ op[q].do = "update" => sub[req'[q].seen.sub].status = "active"
      BY <1>1, <1>3 DEF OneAtATime
    <3>4. UnderWay(q)' => /\ sub[q].status # "canceled" /\ req'[q].seen.sub # q
                          /\ req'[q].seen.customer = row.customer
      <4>1. CASE UnderWay(q) /\ req'[q].seen = req[q].seen
        BY <1>1, <4>1 DEF OneAtATime
      <4>2. CASE req[q].pc = "idle" /\ req'[q].seen = row
        <5>1. sub[q].status = "none"
          BY <4>2 DEF SubsInv, MadeInv
        <5> QED
          BY <1>2, <4>2, <5>1
      <4> QED
        BY <1>4, <4>1, <4>2
    <3> QED
      BY <3>1, <3>2, <3>3, <3>4
  <2>3. desk.seen.customer \in {None, OldCustomer, row.customer}
    BY <1>1 DEF OneAtATime
  <2> QED
    BY <1>5, <2>1, <2>2, <2>3 DEF OneAtATime
<1>8. LoadedInv'
  BY <1>1, <1>4, <1>5 DEF LoadedInv, OfRow
<1>9. SomeLate' = SomeLate
  BY <1>5 DEF SomeLate, Late
<1>10. LateInRow'
  BY <1>1, <1>5, <1>9 DEF LateInRow, OfRow
<1>11. ModifyInv'
  <2> SUFFICES ASSUME NEW q \in Requests, req'[q].pc = "modify", row.sub # req'[q].seen.sub,
                      SomeLate \/ Gone(row.sub)
               PROVE  OfRow(req'[q].seen.sub)
    BY <1>5, <1>9 DEF ModifyInv, OfRow, Gone
  <2>1. UnderWay(q)'
    BY DEF UnderWay
  <2>2. req'[q] = req[q]
    BY <1>3, <2>1
  <2> QED
    BY <1>1, <2>2 DEF ModifyInv
<1>12. DeskInv'
  BY <1>1, <1>4, <1>5 DEF DeskInv, Gone
<1>13. UpdateInv'
  <2>1. ASSUME NEW q \in Requests, req'[q].pc = "commit", op[q].do = "update"
        PROVE  req'[q] = req[q]
    BY <1>3, <2>1 DEF UnderWay
  <2> QED
    BY <1>1, <1>5, <2>1 DEF UpdateInv, Gone, Late, Good
<1>14. GoneIsTold'
  BY <1>1, <1>5 DEF GoneIsTold, Gone, Finds
<1> QED
  BY <1>6, <1>7, <1>8, <1>10, <1>11, <1>12, <1>13, <1>14 DEF BackInv

\* The oldest event is delivered: what was heard of it at the head of the queue is heard
\* of it at the desk.
LEMMA DeliverBack ==
  ASSUME SubsInv, BackInv, NEW i \in DOMAIN mail, Deliver(i), reorders' = 0
  PROVE  BackInv'
<1>1. /\ DeletionsLast /\ OneAtATime /\ LoadedInv /\ LateInRow /\ ModifyInv /\ DeskInv
      /\ UpdateInv /\ GoneIsTold /\ SubscriptionsTypeOK
  BY DEF BackInv, SubsInv
<1>2. /\ desk = NoEvent /\ desk' # NoEvent
      /\ desk'.event = mail[1] /\ desk'.seen = row
      /\ 1 \in DOMAIN mail
      /\ \A k \in DOMAIN mail' : k + 1 \in DOMAIN mail /\ mail'[k] = mail[k + 1]
      /\ \A j \in DOMAIN mail : j = 1 \/ (j - 1 \in DOMAIN mail' /\ mail'[j - 1] = mail[j])
      /\ row' = row /\ op' = op /\ req' = req /\ sub' = sub
  <2>1. /\ desk = NoEvent /\ desk' # NoEvent
        /\ desk'.event = mail[i] /\ desk'.seen = row
        /\ \/ /\ i = 1 /\ reorders' = reorders
              /\ \A k \in DOMAIN mail' : k + 1 \in DOMAIN mail /\ mail'[k] = mail[k + 1]
              /\ \A j \in DOMAIN mail : j = 1 \/ (j - 1 \in DOMAIN mail' /\ mail'[j - 1] = mail[j])
           \/ reorders' > 0
        /\ row' = row /\ op' = op /\ req' = req /\ sub' = sub
    BY <1>1, DeliverTakes
  <2>2. ~(reorders' > 0)
    OBVIOUS
  <2> QED
    BY <2>1, <2>2
<1>3. /\ \A j \in DOMAIN mail : j \in Nat
      /\ \A k \in DOMAIN mail' : k \in Nat
  <2>1. mail' \in Seq(Event) /\ mail \in Seq(Event)
    BY <1>1, DeliverTakes DEF SubscriptionsTypeOK
  <2> QED
    BY <2>1
<1>4. NoEvent' = NoEvent
  BY DEF NoEvent, NewRow
<1>5. DeletionsLast'
  <2>1. ASSUME NEW k \in DOMAIN mail', sub[mail'[k].sub].status = "canceled"
        PROVE  \E j \in DOMAIN mail' : j >= k /\ mail'[j].kind = "deleted" /\ mail'[j].sub = mail'[k].sub
    <3>1. k + 1 \in DOMAIN mail /\ mail'[k] = mail[k + 1] /\ k \in Nat
      BY <1>2, <1>3
    <3>2. PICK j \in DOMAIN mail : j >= k + 1 /\ mail[j].kind = "deleted" /\ mail[j].sub = mail[k + 1].sub
      BY <1>1, <2>1, <3>1 DEF DeletionsLast
    <3>3. j # 1 \/ k = 0
      BY <3>1, <3>2, <1>3
    <3>4. k # 0
      <4>1. mail' \in Seq(Event)
        BY <1>1, DeliverTakes
      <4> QED
        BY <4>1
    <3>5. j - 1 \in DOMAIN mail' /\ mail'[j - 1] = mail[j] /\ j - 1 >= k
      BY <1>2, <1>3, <3>1, <3>2, <3>3, <3>4
    <3> QED
      BY <3>1, <3>2, <3>5
  <2>2. ASSUME mail[1].kind # "deleted", sub[mail[1].sub].status = "canceled"
        PROVE  \E j \in DOMAIN mail' : mail'[j].kind = "deleted" /\ mail'[j].sub = mail[1].sub
    <3>1. PICK j \in DOMAIN mail : mail[j].kind = "deleted" /\ mail[j].sub = mail[1].sub
      BY <1>1, <1>2, <2>2 DEF DeletionsLast
    <3>2. j # 1
      BY <2>2, <3>1
    <3> QED
      BY <1>2, <3>1, <3>2
  <2> QED
    BY <1>2, <2>1, <2>2 DEF DeletionsLast
<1>6. OneAtATime'
  BY <1>1, <1>2 DEF OneAtATime, UnderWay
<1>7. LoadedInv'
  BY <1>1, <1>2 DEF LoadedInv, OfRow, UnderWay
<1>8. SomeLate' => SomeLate
  BY <1>2 DEF SomeLate, Late
<1>9. LateInRow'
  BY <1>1, <1>2, <1>8 DEF LateInRow, OfRow
<1>10. ModifyInv'
  BY <1>1, <1>2, <1>8 DEF ModifyInv, OfRow, Gone
<1>11. DeskInv'
  BY <1>2 DEF DeskInv, Gone
<1>12. UpdateInv'
  <2> SUFFICES ASSUME NEW q \in Requests, req[q].pc = "commit", op[q].do = "update"
               PROVE  /\ \A k \in DOMAIN mail' : Late(mail'[k]) =>
                           \E j \in DOMAIN mail' : j > k /\ Good(mail'[j])
                      /\ Late(mail[1]) => \E j \in DOMAIN mail' : Good(mail'[j])
                      /\ Gone(row.sub) => \/ \E j \in DOMAIN mail' : Good(mail'[j])
                                          \/ Good(mail[1])
    BY <1>2, <1>4 DEF UpdateInv, Gone, Late, Good
  <2>1. /\ \A k \in DOMAIN mail : Late(mail[k]) => \E j \in DOMAIN mail : j > k /\ Good(mail[j])
        /\ Gone(row.sub) => \E j \in DOMAIN mail : Good(mail[j])
    BY <1>1, <1>2 DEF UpdateInv
  <2>2. ASSUME NEW k \in DOMAIN mail', Late(mail'[k])
        PROVE  \E j \in DOMAIN mail' : j > k /\ Good(mail'[j])
    <3>1. k + 1 \in DOMAIN mail /\ mail'[k] = mail[k + 1] /\ k \in Nat
      BY <1>2, <1>3
    <3>2. PICK j \in DOMAIN mail : j > k + 1 /\ Good(mail[j])
      BY <2>1, <2>2, <3>1
    <3>3. j # 1 /\ j - 1 > k /\ j - 1 \in DOMAIN mail' /\ mail'[j - 1] = mail[j]
      BY <1>2, <1>3, <3>1, <3>2
    <3> QED
      BY <3>2, <3>3
  <2>3. ASSUME Late(mail[1])
        PROVE  \E j \in DOMAIN mail' : Good(mail'[j])
    <3>1. PICK j \in DOMAIN mail : j > 1 /\ Good(mail[j])
      BY <1>2, <2>1, <2>3
    <3>2. j - 1 \in DOMAIN mail' /\ mail'[j - 1] = mail[j]
      BY <1>2, <1>3, <3>1
    <3> QED
      BY <3>1, <3>2
  <2>4. ASSUME Gone(row.sub)
        PROVE  (\E j \in DOMAIN mail' : Good(mail'[j])) \/ Good(mail[1])
    <3>1. PICK j \in DOMAIN mail : Good(mail[j])
      BY <2>1, <2>4
    <3>2. CASE j # 1
      BY <1>2, <3>1, <3>2
    <3> QED
      BY <3>1, <3>2
  <2> QED
    BY <2>2, <2>3, <2>4
<1>13. GoneIsTold'
  <2> SUFFICES ASSUME row.plan # "free", Gone(row.sub)
               PROVE  \/ \E j \in DOMAIN mail' : \/ mail'[j].customer = row.customer
                                                 \/ mail'[j].kind # "created" /\ mail'[j].sub = row.sub
                      \/ /\ mail[1].kind # "created" /\ row.sub = mail[1].sub
                      \/ row.customer = mail[1].customer
    BY <1>2, <1>4 DEF GoneIsTold, Gone, Finds
  <2>1. PICK j \in DOMAIN mail : \/ mail[j].customer = row.customer
                                 \/ mail[j].kind # "created" /\ mail[j].sub = row.sub
    BY <1>1, <1>2 DEF GoneIsTold
  <2>2. CASE j # 1
    BY <1>2, <2>1, <2>2
  <2> QED
    BY <2>1, <2>2
<1> QED
  BY <1>5, <1>6, <1>7, <1>9, <1>10, <1>11, <1>12, <1>13 DEF BackInv

\* What the row says after an event was handled: the customer stands, and where it names
\* another subscription that one is of the row's customer and the event's.
LEMMA HandleSays ==
  ASSUME SubsInv, OneAtATime, HandleEvent
  PROVE  LET e == desk.event IN
         /\ desk # NoEvent /\ desk' = NoEvent
         /\ row'.customer = row.customer
         /\ row'.sub # row.sub =>
              /\ row'.sub = e.sub /\ e.kind # "deleted" /\ e.sub # desk.seen.sub
              /\ OfRow(e.sub) /\ e.customer = row.customer
         /\ Finds(e) /\ e.kind # "deleted" =>
            row'.sub = IF e.sub = desk.seen.sub THEN row.sub ELSE e.sub
         /\ Finds(e) /\ e.kind = "deleted" =>
            row'.plan = IF desk.seen.plan = "free" THEN row.plan ELSE "free"
         /\ ~Finds(e) => row' = row
         /\ op' = op /\ req' = req /\ sub' = sub /\ mail' = mail
<1> DEFINE e == desk.event
           new == Told(e)
<1>1. SubscriptionsTypeOK
  BY DEF SubsInv
<1>2. /\ desk # NoEvent /\ desk' = NoEvent
      /\ \/ Finds(e) /\ RowWrittenFrom(desk.seen, new)
         \/ ~Finds(e) /\ row' = row
      /\ op' = op /\ req' = req /\ sub' = sub /\ mail' = mail
  BY <1>1, HandleWrites
<1>3. /\ e.sub \in Requests
      /\ new.customer = desk.seen.customer
      /\ e.kind = "deleted" => new.plan = "free" /\ new.sub = desk.seen.sub
      /\ e.kind # "deleted" => new.plan = e.plan /\ new.sub = e.sub
  BY <1>1, <1>2, ToldIs
<1>4. e.customer = sub[e.sub].customer /\ e.customer \notin {None, OldCustomer}
  <2>1. e.customer \in Requests \cup {None}
    BY <1>1, <1>2, Types DEF Event, Ids
  <2> QED
    BY <1>2, <2>1, NamedWereMade, OldCustomerType
<1>5. desk.seen.customer \in {None, OldCustomer, row.customer}
  BY DEF OneAtATime
<1>6. ASSUME Finds(e), RowWrittenFrom(desk.seen, new)
      PROVE  /\ row'.customer = row.customer
             /\ row'.sub # row.sub =>
                  /\ row'.sub = e.sub /\ e.kind # "deleted" /\ e.sub # desk.seen.sub
                  /\ OfRow(e.sub) /\ e.customer = row.customer
             /\ e.kind # "deleted" => row'.sub = IF e.sub = desk.seen.sub THEN row.sub ELSE e.sub
             /\ e.kind = "deleted" => row'.plan = IF desk.seen.plan = "free" THEN row.plan ELSE "free"
  <2>1. /\ row'.plan = IF new.plan # desk.seen.plan THEN new.plan ELSE row.plan
        /\ row'.sub = IF new.sub # desk.seen.sub THEN new.sub ELSE row.sub
        /\ row'.customer = IF new.customer # desk.seen.customer THEN new.customer ELSE row.customer
    BY <1>6 DEF RowWrittenFrom
  <2>2. (e.kind # "created" /\ desk.seen.sub = e.sub) \/ desk.seen.customer = e.customer
    BY <1>6 DEF Finds
  <2> HIDE DEF e, new
  <2>3. row'.sub # row.sub =>
          /\ row'.sub = e.sub /\ e.kind # "deleted" /\ e.sub # desk.seen.sub
    BY <1>3, <2>1
  <2>4. row'.sub # row.sub => OfRow(e.sub) /\ e.customer = row.customer
    BY <1>3, <1>4, <1>5, <2>2, <2>3 DEF OfRow
  <2> QED
    BY <1>3, <2>1, <2>3, <2>4
<1> QED
  BY <1>2, <1>6

\* A handler takes one event from the desk: what it brings back to the row, later events
\* make good for.
LEMMA HandleBack ==
  ASSUME SubsInv, BackInv, HandleEvent
  PROVE  BackInv'
<1> DEFINE e == desk.event
<1>1. /\ DeletionsLast /\ OneAtATime /\ LoadedInv /\ LateInRow /\ ModifyInv /\ DeskInv
      /\ UpdateInv /\ GoneIsTold /\ SubscriptionsTypeOK
  BY DEF BackInv, SubsInv
<1>2. /\ desk # NoEvent /\ desk' = NoEvent
      /\ row'.customer = row.customer
      /\ row'.sub # row.sub =>
           /\ row'.sub = e.sub /\ e.kind # "deleted" /\ e.sub # desk.seen.sub
           /\ OfRow(e.sub) /\ e.customer = row.customer
      /\ Finds(e) /\ e.kind # "deleted" =>
         row'.sub = IF e.sub = desk.seen.sub THEN row.sub ELSE e.sub
      /\ Finds(e) /\ e.kind = "deleted" =>
         row'.plan = IF desk.seen.plan = "free" THEN row.plan ELSE "free"
      /\ ~Finds(e) => row' = row
      /\ op' = op /\ req' = req /\ sub' = sub /\ mail' = mail
  BY <1>1, HandleSays
<1>3. NoEvent' = NoEvent /\ desk'.seen.customer = None
  BY <1>2, NoEventSeesNothing DEF NoEvent, NewRow
<1>4. /\ e.sub \in Requests /\ e.customer = sub[e.sub].customer /\ e.customer # None
      /\ e.kind = "deleted" => sub[e.sub].status = "canceled"
  BY <1>2, NamedWereMade
<1> HIDE DEF e
<1>5. DeletionsLast'
  BY <1>1, <1>2, <1>3 DEF DeletionsLast
<1>6. OneAtATime'
  BY <1>1, <1>2, <1>3 DEF OneAtATime, UnderWay
<1>7. LoadedInv'
  <2> SUFFICES ASSUME NEW q \in Requests, UnderWay(q), OfRow(req[q].seen.sub)
               PROVE  /\ row'.sub \in Requests /\ sub[row'.sub].customer = row.customer
                      /\ row.customer # None
    BY <1>2 DEF LoadedInv, OfRow, UnderWay
  <2>1. CASE row'.sub = row.sub
    BY <1>1, <2>1 DEF LoadedInv, OfRow
  <2>2. CASE row'.sub # row.sub
    BY <1>2, <2>2 DEF OfRow
  <2> QED
    BY <2>1, <2>2
<1>8. SomeLate' => SomeLate
  BY <1>2, <1>3 DEF SomeLate, Late
<1>9. LateInRow'
  <2> SUFFICES ASSUME SomeLate
               PROVE  /\ row'.sub \in Requests /\ sub[row'.sub].customer = row.customer
                      /\ row.customer # None
    BY <1>2, <1>8 DEF LateInRow, OfRow
  <2>1. CASE row'.sub = row.sub
    BY <1>1, <2>1 DEF LateInRow, OfRow
  <2>2. CASE row'.sub # row.sub
    BY <1>2, <2>2 DEF OfRow
  <2> QED
    BY <2>1, <2>2
<1>10. ModifyInv'
  <2> SUFFICES ASSUME NEW q \in Requests, req[q].pc = "modify", row'.sub # req[q].seen.sub,
                      SomeLate \/ (row'.sub \in Requests /\ sub[row'.sub].status = "canceled")
               PROVE  OfRow(req[q].seen.sub)
    BY <1>2, <1>8 DEF ModifyInv, OfRow, Gone
  <2>1. CASE row'.sub = row.sub
    BY <1>1, <2>1 DEF ModifyInv, Gone
  <2>2. CASE row'.sub # row.sub
    <3>1. SomeLate
      <4>1. CASE sub[row'.sub].status = "canceled"
        BY <1>2, <2>2, <4>1 DEF SomeLate, Late, e
      <4> QED
        BY <4>1
    <3>2. CASE row.sub = req[q].seen.sub
      BY <1>1, <3>1, <3>2 DEF LateInRow
    <3>3. CASE row.sub # req[q].seen.sub
      BY <1>1, <3>1, <3>3 DEF ModifyInv
    <3> QED
      BY <3>2, <3>3
  <2> QED
    BY <2>1, <2>2
<1>11. DeskInv'
  BY <1>2, <1>3 DEF DeskInv
<1>12. UpdateInv'
  <2> SUFFICES ASSUME NEW q \in Requests, req[q].pc = "commit", op[q].do = "update"
               PROVE  /\ \A i \in DOMAIN mail : Late(mail[i]) =>
                           \E j \in DOMAIN mail : j > i /\ Good(mail[j])
                      /\ row'.sub \in Requests /\ sub[row'.sub].status = "canceled" =>
                           \E j \in DOMAIN mail : Good(mail[j])
    BY <1>2, <1>3 DEF UpdateInv, Gone, Late, Good
  <2>1. \A i \in DOMAIN mail : Late(mail[i]) => \E j \in DOMAIN mail : j > i /\ Good(mail[j])
    BY <1>1 DEF UpdateInv
  <2>2. ASSUME row'.sub \in Requests, sub[row'.sub].status = "canceled"
        PROVE  \E j \in DOMAIN mail : Good(mail[j])
    <3>1. CASE row'.sub # row.sub
      <4>1. Late(desk.event)
        BY <1>2, <2>2, <3>1 DEF Late, e
      <4> QED
        BY <1>1, <1>2, <4>1 DEF UpdateInv
    <3>2. CASE row'.sub = row.sub
      <4>1. \/ \E j \in DOMAIN mail : Good(mail[j])
            \/ Good(desk.event) /\ desk.seen.customer = row.customer
        BY <1>1, <2>2, <3>2 DEF UpdateInv, Gone
      <4>2. ASSUME Good(e), desk.seen.customer = row.customer
            PROVE  FALSE
        <5>1. Finds(e) /\ e.kind # "deleted" /\ sub[e.sub].status # "canceled"
          BY <1>4, <4>2 DEF Finds, Good
        <5>2. e.sub = desk.seen.sub
          BY <1>2, <2>2, <5>1
        <5>3. sub[req[q].seen.sub].status = "active" /\ UnderWay(q)
          BY <1>1 DEF OneAtATime, UnderWay
        <5>4. row.sub # req[q].seen.sub
          BY <2>2, <3>2, <5>3
        <5>5. row.sub = desk.seen.sub
          BY <1>1, <1>2, <5>3, <5>4 DEF DeskInv
        <5> QED
          BY <2>2, <3>2, <5>1, <5>2, <5>5
      <4> QED
        BY <4>1, <4>2 DEF e
    <3> QED
      BY <3>1, <3>2
  <2> QED
    BY <2>1, <2>2
<1>13. GoneIsTold'
  <2> SUFFICES ASSUME row'.plan # "free", row'.sub \in Requests, sub[row'.sub].status = "canceled"
               PROVE  \E j \in DOMAIN mail : \/ mail[j].customer = row.customer
                                             \/ mail[j].kind # "created" /\ mail[j].sub = row'.sub
    BY <1>2, <1>3 DEF GoneIsTold, Gone
  <2>1. CASE Finds(e) /\ e.kind # "deleted"
    <3>1. CASE e.sub = desk.seen.sub /\ e.sub # row'.sub
      <4>1. row'.sub = row.sub
        BY <1>2, <2>1, <3>1
      <4>2. \E j \in DOMAIN mail : mail[j].kind = "deleted" /\ mail[j].sub = row.sub
        BY <1>1, <1>2, <3>1, <4>1 DEF DeskInv, Gone
      <4> QED
        BY <4>1, <4>2
    <3>2. CASE e.sub = row'.sub
      <4>1. \E j \in DOMAIN mail : mail[j].kind = "deleted" /\ mail[j].sub = e.sub
        BY <1>1, <1>2, <2>1, <3>2 DEF DeletionsLast, e
      <4> QED
        BY <3>2, <4>1
    <3> QED
      BY <1>2, <2>1, <3>1, <3>2
  <2>2. CASE Finds(e) /\ e.kind = "deleted"
    <3>1. desk.seen.plan = "free" /\ row'.plan = row.plan /\ row'.sub = row.sub
      BY <1>2, <2>2
    <3> QED
      BY <1>1, <2>2, <3>1 DEF GoneIsTold, Gone, e
  <2>3. CASE ~Finds(e)
    BY <1>1, <1>2, <2>3 DEF GoneIsTold, Gone, e
  <2> QED
    BY <2>1, <2>2, <2>3
<1> QED
  BY <1>5, <1>6, <1>7, <1>9, <1>10, <1>11, <1>12, <1>13 DEF BackInv

\* A commit of the one request that is under way.
LEMMA CommitBack ==
  ASSUME SubsInv, BackInv, NEW r \in Requests, Commit(r)
  PROVE  BackInv'
<1>1. /\ DeletionsLast /\ OneAtATime /\ LoadedInv /\ LateInRow /\ ModifyInv /\ DeskInv
      /\ UpdateInv /\ GoneIsTold /\ SubscriptionsTypeOK /\ MadeParts
  BY DEF BackInv, SubsInv, MadeParts
<1>2. /\ req[r].pc = "commit" /\ Gets(r, "done") /\ SubsStand
      /\ RowWrittenFrom(req[r].seen, req[r].new) \/ row' = row
      /\ op' = op /\ mail' = mail /\ desk' = desk
  BY <1>1, CommitWrites
<1>3. /\ UnderWay(r) /\ sub[r].status # "canceled" /\ req[r].seen.sub # r
      /\ req[r].seen.customer = row.customer
      /\ \A q \in Requests \ {r} : ~UnderWay(q) /\ req'[q] = req[q]
      /\ req'[r].pc = "done" /\ req'[r].seen = req[r].seen
  <2>1. UnderWay(r)
    BY <1>2 DEF UnderWay
  <2> QED
    BY <1>1, <1>2, <2>1 DEF OneAtATime, Gets
<1>4. \A q \in Requests : ~UnderWay(q)' /\ req'[q].pc \notin {"modify", "commit"}
  BY <1>3 DEF UnderWay
<1>5. \A q \in Requests : sub'[q].status = sub[q].status /\ sub'[q].customer = sub[q].customer
  BY <1>2 DEF SubsStand
<1>6. /\ row.sub \in Requests \cup {None} /\ None \notin Requests
      /\ row.sub \in Requests => sub[row.sub].status # "none"
      /\ desk # NoEvent => /\ desk.event.sub \in Requests
                           /\ desk.event.customer = sub[desk.event.sub].customer
                           /\ desk.event.customer # None
      /\ \A i \in DOMAIN mail : /\ mail[i].sub \in Requests
                                /\ mail[i].customer \notin {None, OldCustomer}
                                /\ mail[i].customer = sub[mail[i].sub].customer
                                /\ sub[mail[i].sub].status # "none"
  <2>1. \A i \in DOMAIN mail : /\ mail[i].sub \in Requests
                               /\ mail[i].customer \in Requests \cup {None}
    BY <1>1, Types DEF Event, Ids
  <2> QED
    BY <2>1, NamedWereMade, OldCustomerType DEF SubsInv, EventsInv, EventFits
<1>7. NoEvent' = NoEvent
  BY DEF NoEvent, NewRow
<1>8. /\ req[r].new.sub = IF op[r].do = "create" THEN r ELSE req[r].seen.sub
      /\ req[r].new.customer = IF op[r].do = "checkout" THEN CustomerOf(r)
                               ELSE req[r].seen.customer
      /\ req[r].new.plan = IF op[r].do \in {"create", "update"} THEN op[r].plan
                           ELSE IF op[r].do = "cancelNow" THEN "free" ELSE req[r].seen.plan
  BY <1>1, <1>2 DEF MadeParts, PlacesInv
\* The row that is written: it names r's own subscription, or a first customer.
<1>9. /\ row'.sub = row.sub \/ (row'.sub = r /\ op[r].do = "create")
      /\ row'.customer = row.customer
         \/ (row'.customer = r /\ row.customer \in {None, OldCustomer} /\ op[r].do = "checkout")
      /\ row'.plan = row.plan \/ row'.plan = "free" \/ op[r].do \in {"create", "update"}
  BY <1>2, <1>3, <1>8 DEF RowWrittenFrom, CustomerOf
<1>10. op[r].do = "create" /\ row' # row => row'.sub = r
  BY <1>2, <1>3, <1>8 DEF RowWrittenFrom
<1>11. DeletionsLast'
  BY <1>1, <1>2, <1>5, <1>6, <1>7 DEF DeletionsLast
<1>12. OneAtATime'
  <2>1. ASSUME NEW q \in Requests
        PROVE  /\ req'[q].pc # "idle" => req'[q].seen.customer \in {None, OldCustomer, row'.customer}
               /\ sub'[q].status # "none" => sub'[q].customer \in {q, row'.customer}
    <3>1. req'[q].pc # "idle" => req[q].pc # "idle" /\ req'[q].seen = req[q].seen
      BY <1>2, <1>3
    <3>2. req[q].pc # "idle" => req[q].seen.customer \in {None, OldCustomer, row.customer}
      BY <1>1 DEF OneAtATime
    <3>3. sub[q].status # "none" => /\ sub[q].customer \in {q, row.customer}
                                    /\ sub[q].customer \notin {None, OldCustomer}
      BY <1>1, MadeHasCustomer, NoneType, OldCustomerType DEF OneAtATime
    <3> QED
      BY <1>5, <1>9, <3>1, <3>2, <3>3
  <2>2. desk'.seen.customer \in {None, OldCustomer, row'.customer}
    BY <1>1, <1>2, <1>9 DEF OneAtATime
  <2> QED
    BY <1>2, <1>4, <2>1, <2>2 DEF OneAtATime
<1>13. LoadedInv' /\ ModifyInv' /\ UpdateInv'
  BY <1>4 DEF LoadedInv, ModifyInv, UpdateInv
<1>14. LateInRow'
  <2> SUFFICES ASSUME NEW f, f.sub \in Requests, f.customer = sub[f.sub].customer,
                      f.customer # None, sub[f.sub].status = "canceled", f.kind # "deleted",
                      f.customer = row'.customer,
                      (\E i \in DOMAIN mail : f = mail[i]) \/ (desk # NoEvent /\ f = desk.event)
               PROVE  /\ row'.sub \in Requests /\ sub[row'.sub].customer = row'.customer
                      /\ row'.customer # None
    BY <1>2, <1>5, <1>6, <1>7 DEF LateInRow, SomeLate, Late, OfRow
  <2>1. row'.customer = row.customer
    <3> SUFFICES ASSUME row'.customer = r, row.customer \in {None, OldCustomer}
                 PROVE  FALSE
      BY <1>9
    <3>1. f.customer \in {f.sub, row.customer}
      BY <1>1 DEF OneAtATime
    <3> QED
      BY <1>3, <3>1, NoneType, OldCustomerType
  <2>2. OfRow(row.sub)
    BY <1>1, <2>1 DEF LateInRow, SomeLate, Late
  <2>3. CASE row'.sub = row.sub
    BY <2>1, <2>2, <2>3 DEF OfRow
  <2>4. CASE row'.sub = r /\ op[r].do = "create"
    <3>1. sub[r].status # "none" /\ sub[r].customer = CustomerOf(r)
      BY <1>1, <1>2, <2>4 DEF MadeParts, MadeInv
    <3>2. row.customer \in Requests
      BY <1>1, <2>1, MadeHasCustomer
    <3>3. CustomerOf(r) = row.customer
      BY <1>3, <3>2, NoneType, OldCustomerType DEF CustomerOf
    <3> QED
      BY <2>1, <2>4, <3>1, <3>3
  <2> QED
    BY <1>9, <2>3, <2>4
<1>15. DeskInv'
  <2> SUFFICES ASSUME desk # NoEvent, row'.sub \in Requests, sub[row'.sub].status = "canceled",
                      row'.sub # desk.seen.sub
               PROVE  \E j \in DOMAIN mail : mail[j].kind = "deleted" /\ mail[j].sub = row'.sub
    BY <1>2, <1>4, <1>5, <1>7 DEF DeskInv, Gone
  <2>1. row'.sub = row.sub
    BY <1>3, <1>9
  <2> QED
    BY <1>1, <2>1 DEF DeskInv, Gone
<1>16. GoneIsTold'
  <2> SUFFICES ASSUME row'.plan # "free", row'.sub \in Requests, sub[row'.sub].status = "canceled"
               PROVE  \/ \E j \in DOMAIN mail : \/ mail[j].customer = row'.customer
                                                \/ mail[j].kind # "created" /\ mail[j].sub = row'.sub
                      \/ /\ desk # NoEvent /\ Finds(desk.event)
                         /\ desk.event.kind = "deleted" => desk.seen.plan # "free"
    BY <1>2, <1>5, <1>7 DEF GoneIsTold, Gone, Finds
  <2>1. row'.sub = row.sub /\ Gone(row.sub)
    BY <1>3, <1>9 DEF Gone
  <2>2. ASSUME row.plan # "free"
        PROVE  \/ \E j \in DOMAIN mail : \/ mail[j].customer = row'.customer
                                         \/ mail[j].kind # "created" /\ mail[j].sub = row.sub
               \/ /\ desk # NoEvent /\ Finds(desk.event)
                  /\ desk.event.kind = "deleted" => desk.seen.plan # "free"
    <3>1. \/ \E j \in DOMAIN mail : \/ mail[j].customer = row.customer
                                    \/ mail[j].kind # "created" /\ mail[j].sub = row.sub
          \/ /\ desk # NoEvent /\ Finds(desk.event)
             /\ desk.event.kind = "deleted" => desk.seen.plan # "free"
      BY <1>1, <2>1, <2>2 DEF GoneIsTold
    <3>2. \A j \in DOMAIN mail : mail[j].customer = row.customer => row'.customer = row.customer
      BY <1>6, <1>9
    <3> QED
      BY <3>1, <3>2
  <2>3. ASSUME op[r].do = "update"
        PROVE  \/ \E j \in DOMAIN mail : mail[j].customer = row'.customer
               \/ /\ desk # NoEvent /\ Finds(desk.event)
                  /\ desk.event.kind = "deleted" => desk.seen.plan # "free"
    <3>1. row'.customer = row.customer
      BY <1>9, <2>3
    <3>2. \/ \E j \in DOMAIN mail : Good(mail[j])
          \/ desk # NoEvent /\ Good(desk.event) /\ desk.seen.customer = row.customer
      BY <1>1, <1>2, <2>1, <2>3 DEF UpdateInv
    <3>3. CASE \E j \in DOMAIN mail : Good(mail[j])
      BY <3>1, <3>3 DEF Good
    <3>4. CASE desk # NoEvent /\ Good(desk.event) /\ desk.seen.customer = row.customer
      <4>1. desk.event.kind # "deleted"
        BY <3>4, NamedWereMade DEF Good
      <4> QED
        BY <3>4, <4>1 DEF Good, Finds
    <3> QED
      BY <3>2, <3>3, <3>4
  <2>4. CASE op[r].do = "create"
    <3>1. row' = row
      BY <1>3, <1>10, <2>4
    <3> QED
      BY <2>1, <2>2, <3>1
  <2>5. CASE op[r].do \notin {"create", "update"}
    <3>1. row.plan # "free"
      BY <1>9, <2>5
    <3> QED
      BY <2>1, <2>2, <3>1
  <2> QED
    BY <2>3, <2>4, <2>5
<1> QED
  BY <1>11, <1>12, <1>13, <1>14, <1>15, <1>16 DEF BackInv

\* At first no plan is paid.
LEMMA BackStart ==
  ASSUME InitSubscriptions
  PROVE  BackInv
<1>1. /\ row \in {NewRow, [NewRow EXCEPT !.customer = OldCustomer]}
      /\ mail = <<>> /\ desk = NoEvent
      /\ \A r \in Requests : req[r].pc = "idle" /\ sub[r].status = "none"
  BY DEF InitSubscriptions
<1>2. \A r \in Requests : ~UnderWay(r) /\ req[r].pc \notin {"modify", "commit"}
  BY <1>1 DEF UnderWay
<1>3. desk.seen.customer = None /\ row.plan = "free"
  BY <1>1, NoEventSeesNothing DEF NewRow
<1>4. OneAtATime
  BY <1>1, <1>2, <1>3 DEF OneAtATime
<1>5. DeletionsLast /\ LateInRow /\ DeskInv /\ GoneIsTold
  BY <1>1, <1>3 DEF DeletionsLast, LateInRow, SomeLate, DeskInv, GoneIsTold
<1>6. LoadedInv /\ ModifyInv /\ UpdateInv
  BY <1>2 DEF LoadedInv, ModifyInv, UpdateInv
<1> QED
  BY <1>4, <1>5, <1>6 DEF BackInv

\* Once two requests overlapped or an event came out of turn, that is remembered; before, a
\* step finds what it keeps.
LEMMA InTurnStep ==
  ASSUME SubsInv, InTurn => BackInv, [NextSubscriptions]_subscriptionVars
  PROVE  InTurn' => BackInv'
<1> SUFFICES ASSUME InTurn'
             PROVE  BackInv'
  OBVIOUS
<1>1. SubscriptionsTypeOK /\ MadeParts /\ ~crossed' /\ reorders' = 0
  BY DEF SubsInv, MadeParts, InTurn
<1>2. ASSUME NEW r \in Requests,
             \/ Subscribe(r) \/ Pay(r) \/ Expire(r) \/ CreateSubscription(r)
             \/ UpdateSubscription(r)
             \/ CancelAtEnd(r) \/ CancelNow(r)
      PROVE  BackInv'
  <2>1. PICK s \in Requests : Tells(s) /\ Answers(s) /\ Makes(s) /\ Acts(s)
    BY <1>1, <1>2, ActsAre
  <2>2. BackInv
    BY <1>1, <2>1 DEF Tells, InTurn
  <2> QED
    BY <2>1, <2>2, ActsKeep
<1>3. ASSUME NEW r \in Requests, Renew(r) \/ End(r)
      PROVE  BackInv'
  <2>1. Tells(r) /\ Makes(r) /\ UNCHANGED req /\ Quiet
    BY <1>1, <1>3, RenewTells, EndTells DEF Makes
  <2>2. BackInv
    BY <1>1, <2>1 DEF Tells, InTurn
  <2> QED
    BY <2>1, <2>2, QuietKeeps
<1>4. ASSUME NEW r \in Requests, CreateCheckoutSession(r) \/ Refuse(r)
      PROVE  BackInv'
  <2>1. UNCHANGED <<row, op, sub, mail, desk>> /\ crossed' = crossed /\ reorders' = reorders
    BY <1>4 DEF CreateCheckoutSession, Refuse
  <2>2. BackInv
    BY <1>1, <2>1 DEF InTurn
  <2> QED
    BY <1>4, <2>1, <2>2, MovesBack
<1>5. ASSUME NEW r \in Requests, LoadRow(r)
      PROVE  BackInv'
  <2>1. /\ UNCHANGED <<row, op, sub, mail, desk>> /\ reorders' = reorders
        /\ crossed' = (crossed \/ \E q \in Requests : UnderWay(q))
    BY <1>5 DEF LoadRow
  <2>2. ~crossed /\ \A q \in Requests : ~UnderWay(q)
    BY <1>1, <2>1
  <2>3. BackInv
    BY <1>1, <2>1, <2>2 DEF InTurn
  <2> QED
    BY <1>5, <2>1, <2>2, <2>3, MovesBack
<1>6. ASSUME NEW r \in Requests, Commit(r)
      PROVE  BackInv'
  <2>1. BackInv
    BY <1>1, <1>6 DEF Commit, InTurn
  <2> QED
    BY <1>6, <2>1, CommitBack
<1>7. ASSUME NEW i \in DOMAIN mail, Deliver(i)
      PROVE  BackInv'
  <2>1. reorders = 0 /\ crossed' = crossed
    <3>1. reorders' = (IF i = 1 THEN reorders ELSE reorders + 1) /\ crossed' = crossed
      BY <1>7 DEF Deliver
    <3>2. reorders \in 0..MaxReorders /\ MaxReorders \in Nat
      BY <1>1, BoundType DEF SubscriptionsTypeOK
    <3> QED
      BY <1>1, <3>1, <3>2
  <2>2. BackInv
    BY <1>1, <2>1 DEF InTurn
  <2> QED
    BY <1>1, <1>7, <2>2, DeliverBack
<1>8. ASSUME HandleEvent
      PROVE  BackInv'
  <2>1. BackInv
    BY <1>1, <1>8 DEF HandleEvent, InTurn
  <2> QED
    BY <1>8, <2>1, HandleBack
<1>9. ~HandleFails
  <2> SUFFICES ASSUME HandleFails
               PROVE  FALSE
    OBVIOUS
  <2>1. reorders' > 0
    BY <1>1, HandleFailsKeeps
  <2> QED
    BY <1>1, <2>1
<1>10. ASSUME UNCHANGED subscriptionVars
       PROVE  BackInv'
  <2>1. /\ row' = row /\ op' = op /\ req' = req /\ sub' = sub /\ mail' = mail /\ desk' = desk
        /\ crossed' = crossed /\ reorders' = reorders
    BY <1>10 DEF subscriptionVars
  <2>2. BackInv
    BY <1>1, <2>1 DEF InTurn
  <2>3. NoEvent' = NoEvent
    BY DEF NoEvent, NewRow
  <2>4. DeletionsLast' /\ OneAtATime' /\ LoadedInv' /\ DeskInv' /\ UpdateInv'
    BY <2>1, <2>2, <2>3 DEF BackInv, DeletionsLast, OneAtATime, LoadedInv, DeskInv, UpdateInv,
       UnderWay, OfRow, Gone, Late, Good
  <2>5. SomeLate' = SomeLate
    BY <2>1, <2>3 DEF SomeLate, Late
  <2>6. LateInRow' /\ ModifyInv' /\ GoneIsTold'
    BY <2>1, <2>2, <2>3, <2>5 DEF BackInv, LateInRow, ModifyInv, GoneIsTold, OfRow, Gone, Finds
  <2> QED
    BY <2>4, <2>6 DEF BackInv
<1> QED
  BY <1>2, <1>3, <1>4, <1>5, <1>6, <1>7, <1>8, <1>9, <1>10 DEF NextSubscriptions, RequestStep

\* When all is quiet no paid plan outlives its subscription's cancellation, whatever was
\* rolled back, as long as no two requests overlapped and no event came out of turn.
THEOREM CancellationsEndPlans == SpecSubscriptions => []CancellationEndsPlan
<1> DEFINE Inv == SubsInv /\ (InTurn => BackInv)
<1>1. InitSubscriptions => Inv
  BY SubsStart, BackStart
<1>2. Inv /\ [NextSubscriptions]_subscriptionVars => Inv'
  BY SubsStep, InTurnStep
<1>3. Inv => CancellationEndsPlan
  <2> SUFFICES ASSUME Inv, Quiet, InTurn, row.plan # "free"
               PROVE  row.sub # None /\ sub[row.sub].status # "canceled"
    BY DEF CancellationEndsPlan
  <2>1. SubscriptionsTypeOK /\ RowInv
    BY DEF SubsInv
  <2>3. BackInv
    OBVIOUS
  <2>4. ~Gone(row.sub)
    <3>1. mail = <<>> /\ desk = NoEvent
      BY DEF Quiet
    <3> QED
      BY <2>3, <3>1 DEF BackInv, GoneIsTold
  <2>5. row.sub \in Requests /\ row.sub # None
    BY <2>1, Types DEF RowInv
  <2> QED
    BY <2>4, <2>5 DEF Gone
<1> QED
  BY <1>1, <1>2, <1>3, PTL DEF SpecSubscriptions

-----------------------------------------------------------------------------
\* Unless requests overlapped, the one under way knows the row's customer.
SoleInv ==
  ~crossed =>
    /\ \A p, q \in Requests : UnderWay(p) /\ UnderWay(q) => p = q
    /\ \A r \in Requests : UnderWay(r) => req[r].seen.customer = row.customer

\* The row's customer stays, once it has one that Stripe knows, until requests overlap.
CustomerStays ==
  ~crossed /\ row.customer \notin {None, OldCustomer} => row'.customer = row.customer

\* Nothing but a request that is loaded comes under way, and a customer is written by the
\* one request that found none, or none that Stripe knows.
LEMMA SoleStep ==
  ASSUME SubsInv, SoleInv, [NextSubscriptions]_subscriptionVars
  PROVE  SoleInv' /\ CustomerStays
<1>1. SubscriptionsTypeOK /\ MadeParts
  BY DEF SubsInv, MadeParts
<1>2. ASSUME crossed' = crossed, row'.customer = row.customer,
             \A q \in Requests : UnderWay(q)' => UnderWay(q) /\ req'[q].seen = req[q].seen
      PROVE  SoleInv' /\ CustomerStays
  BY <1>2 DEF SoleInv, CustomerStays
<1>3. ASSUME NEW r \in Requests,
             \/ Subscribe(r) \/ Pay(r) \/ Expire(r) \/ Renew(r) \/ End(r)
             \/ CreateSubscription(r)
             \/ UpdateSubscription(r) \/ CancelAtEnd(r) \/ CancelNow(r)
      PROVE  SoleInv' /\ CustomerStays
  <2>1. PICK s \in Requests : Tells(s) /\ Answers(s)
    BY <1>1, <1>3, TellsAndAnswers
  <2>2. \A q \in Requests : UnderWay(q)' => UnderWay(q) /\ req'[q].seen = req[q].seen
    BY <1>1, <2>1, AnswersKeep DEF UnderWay
  <2>3. crossed' = crossed /\ row'.customer = row.customer
    BY <2>1 DEF Tells
  <2> QED
    BY <1>2, <2>2, <2>3
<1>4. ASSUME NEW r \in Requests, CreateCheckoutSession(r) \/ Refuse(r)
      PROVE  SoleInv' /\ CustomerStays
  <2>1. \A q \in Requests : UnderWay(q)' => UnderWay(q) /\ req'[q].seen = req[q].seen
    <3>1. CASE CreateCheckoutSession(r)
      <4>1. AnswerFits(r) /\ req[r].pc = "session"
        BY <1>1, <3>1, SessionGets
      <4> QED
        BY <4>1 DEF AnswerFits, Gets, UnderWay
    <3>2. CASE Refuse(r)
      <4>1. Gets(r, "refused")
        BY <1>1, <3>2, RefuseGets
      <4> QED
        BY <4>1 DEF Gets, UnderWay
    <3> QED
      BY <1>4, <3>1, <3>2
  <2>2. crossed' = crossed /\ row'.customer = row.customer
    BY <1>4 DEF CreateCheckoutSession, Refuse
  <2> QED
    BY <1>2, <2>1, <2>2
<1>5. ASSUME NEW r \in Requests, LoadRow(r)
      PROVE  SoleInv' /\ CustomerStays
  <2>1. /\ \A q \in Requests \ {r} : req'[q] = req[q]
        /\ req'[r].seen = row /\ row' = row
        /\ crossed' = (crossed \/ \E q \in Requests : UnderWay(q))
    BY <1>1, <1>5, LoadGets
  <2>2. ~crossed' => \A q \in Requests : UnderWay(q)' => q = r
    BY <2>1 DEF UnderWay
  <2> QED
    BY <2>1, <2>2 DEF SoleInv, CustomerStays
<1>6. ASSUME NEW r \in Requests, Commit(r)
      PROVE  SoleInv' /\ CustomerStays
  <2>1. /\ req[r].pc = "commit" /\ Gets(r, "done") /\ crossed' = crossed
        /\ RowWrittenFrom(req[r].seen, req[r].new) \/ row' = row
    BY <1>1, <1>6, CommitWrites
  <2>2. UnderWay(r) /\ \A q \in Requests : UnderWay(q)' => q # r /\ UnderWay(q)
    BY <2>1 DEF Gets, UnderWay
  <2>3. SoleInv'
    BY <2>1, <2>2 DEF SoleInv
  <2>4. ASSUME ~crossed, row.customer \notin {None, OldCustomer}
        PROVE  row'.customer = row.customer
    <3>1. req[r].seen.customer = row.customer
      BY <2>2, <2>4 DEF SoleInv
    <3>2. req[r].new.customer = req[r].seen.customer
      BY <1>1, <2>1, <2>4, <3>1 DEF MadeParts, PlacesInv, CustomerOf
    <3> QED
      BY <2>1, <3>2 DEF RowWrittenFrom
  <2> QED
    BY <2>3, <2>4 DEF CustomerStays
<1>7. ASSUME HandleEvent
      PROVE  SoleInv' /\ CustomerStays
  <2>1. /\ desk # NoEvent /\ req' = req /\ crossed' = crossed
        /\ RowWrittenFrom(desk.seen, Told(desk.event)) \/ row' = row
    BY <1>1, <1>7, HandleWrites
  <2>2. Told(desk.event).customer = desk.seen.customer
    BY <1>1, <2>1, ToldIs
  <2>3. row'.customer = row.customer
    BY <2>1, <2>2 DEF RowWrittenFrom
  <2> QED
    BY <1>2, <2>1, <2>3 DEF UnderWay
<1>8. ASSUME NEW i \in DOMAIN mail, Deliver(i)
      PROVE  SoleInv' /\ CustomerStays
  BY <1>2, <1>8 DEF Deliver, UnderWay
<1>9. ASSUME HandleFails
      PROVE  SoleInv' /\ CustomerStays
  BY <1>2, <1>9 DEF HandleFails, UnderWay
<1>10. ASSUME UNCHANGED subscriptionVars
       PROVE  SoleInv' /\ CustomerStays
  BY <1>2, <1>10 DEF subscriptionVars, UnderWay
<1> QED
  BY <1>3, <1>4, <1>5, <1>6, <1>7, <1>8, <1>9, <1>10 DEF NextSubscriptions, RequestStep

\* A customer whom Stripe knows is exchanged for another only where requests overlapped: no
\* checkout, rolled back or not, and no event does it otherwise.  One whom Stripe does not
\* know is exchanged by the next checkout.
THEOREM CustomersStay == SpecSubscriptions => [][CustomerStays]_row
<1> DEFINE Inv == SubsInv /\ SoleInv
<1>1. InitSubscriptions => Inv
  <2>1. InitSubscriptions => SoleInv
    BY DEF InitSubscriptions, UnderWay, SoleInv
  <2> QED
    BY <2>1, SubsStart
<1>2. Inv /\ [NextSubscriptions]_subscriptionVars => Inv'
  BY SubsStep, SoleStep
<1>3. Inv /\ [NextSubscriptions]_subscriptionVars => [CustomerStays]_row
  BY SoleStep
<1> QED
  BY <1>1, <1>2, <1>3, PTL DEF SpecSubscriptions

-----------------------------------------------------------------------------
(* The events of Stripe, as they are delivered and handled.                *)

USE MailType, KindType, DataType, StripeDataType, PlansType, BoundTypes

\* A late delivery found its event processed and will find it so.
LateInv ==
  \A d \in late : /\ place[d] \in {"check", "answered", "unanswered"}
                  /\ status[event[d]] = "processed"

\* The places of a handler belong to its kind of event; a plan that is applied is known.
PlaceFits ==
  \A d \in Deliveries :
    /\ place[d] \in {"payOld", "payDates", "payNew", "payment", "fetch", "payApply"}
         => Kind[event[d]] = "paid"
    /\ place[d] = "payApply" => got[d].plan # UnknownPlan
    /\ place[d] \in {"failLock", "failInvoice", "failPayment"}
         => Kind[event[d]] = "payFailed"

WebhookInv == TypeOK /\ PlaceFits /\ ProcessedWasHandled /\ LateInv

Step(d) ==
  /\ Send(d) \/ DeliveryStep(d) \/ ListFailed(d) \/ StripeFails(d) \/ Stop(d)
  /\ UNCHANGED event

LEMMA NextIsStep == Next => \E d \in Deliveries : Step(d)
BY DEF Next, Step, Send, DeliveryStep

\* Writing a row of the right type into the user keeps its type; each column holds
\* what it held or, where that is new to the session, what is written.
LEMMA WriteFacts ==
  ASSUME TypeOK, NEW d \in Deliveries, NEW new \in UserRow, WriteUser(d, new)
  PROVE  /\ user' \in UserRow
         /\ user'.plan = IF new.plan # seen[d].plan THEN new.plan ELSE user.plan
         /\ user'.status = IF new.status # seen[d].status THEN new.status ELSE user.status
<1>1. DOMAIN user = {"plan", "status", "sub", "dates"}
  BY DEF TypeOK, UserRow
<1>2. \A f \in {"plan", "status", "sub", "dates"} :
        user'[f] = IF new[f] # seen[d][f] THEN new[f] ELSE user[f]
  BY <1>1 DEF WriteUser
<1>3. user' = [plan |-> user'.plan, status |-> user'.status, sub |-> user'.sub,
               dates |-> user'.dates]
  BY <1>1 DEF WriteUser
<1>4. /\ user'.plan \in Plans \cup {"free"} /\ user'.status \in SubStatuses
      /\ user'.sub \in BOOLEAN /\ user'.dates \in {"none", "invoice", "subscription", "ended"}
  BY <1>2 DEF TypeOK, UserRow
<1>5. user' \in UserRow
  BY <1>3, <1>4 DEF UserRow
<1> QED
  BY <1>2, <1>5

LEMMA FromStripeFacts ==
  ASSUME TypeOK, NEW d \in Deliveries, NEW data \in SubData, NEW plan \in Plans \cup {"free"},
         FromStripe(d, data, plan)
  PROVE  /\ user' \in UserRow
         /\ user'.plan = IF plan # seen[d].plan THEN plan ELSE user.plan
         /\ user'.status = IF data.status # seen[d].status THEN data.status ELSE user.status
<1> DEFINE new == [plan |-> plan, status |-> data.status, sub |-> TRUE, dates |-> "subscription"]
<1>1. new \in UserRow /\ new.plan = plan /\ new.status = data.status
  BY DEF UserRow, SubData
<1>2. WriteUser(d, new)
  BY DEF FromStripe
<1> HIDE DEF new
<1> QED
  BY <1>1, <1>2, WriteFacts

\* What each step does to the user: nothing, or one of the handlers' writes.
UserKept(d) ==
  /\ user' \in UserRow
  /\ user'.plan # user.plan => user'.plan \in PlansOf(d)
  /\ user'.status # user.status => user'.status \in StatusesOf(d)

LEMMA UserStep ==
  ASSUME TypeOK, PlaceFits, NEW d \in Deliveries, Step(d)
  PROVE  UserKept(d)
<1>e. event[d] \in Events /\ DataOf[event[d]] \in SubData /\ got[d] \in SubData
      /\ seen[d] \in UserRow /\ user \in UserRow
  BY DEF TypeOK
<1>0. CASE UNCHANGED user
  BY <1>0, <1>e DEF UserKept
<1>1. CASE ApplySubscription(d)
  <2> DEFINE data == DataOf[event[d]]
  <2>k. Kind[event[d]] \in {"subCreated", "subUpdated"}
    BY <1>1 DEF ApplySubscription, At
  <2>p. PlansOf(d) = {data.plan} /\ StatusesOf(d) = {data.status}
    BY <2>k DEF PlansOf, StatusesOf
  <2>1. CASE data.plan # UnknownPlan /\ FromStripe(d, data, data.plan)
    <3>1. data.plan \in Plans
      BY <1>e, <2>1 DEF SubData
    <3> HIDE DEF data
    <3>2. data \in SubData
      BY <1>e DEF data
    <3> QED
      BY <2>1, <2>p, <3>1, <3>2, FromStripeFacts DEF UserKept
  <2>2. CASE FromStripe(d, data, seen[d].plan)
    <3>1. seen[d].plan \in Plans \cup {"free"} /\ data \in SubData
      BY <1>e DEF UserRow
    <3> HIDE DEF data
    <3> QED
      BY <2>2, <2>p, <3>1, FromStripeFacts DEF UserKept
  <2> QED
    BY <1>0, <1>1, <2>1, <2>2 DEF ApplySubscription
<1>2. CASE ApplyDeleted(d)
  <2> DEFINE new == [seen[d] EXCEPT !.plan = "free", !.status = "canceled", !.dates = "ended"]
  <2>1. WriteUser(d, new) /\ Kind[event[d]] = "subDeleted"
    BY <1>2 DEF ApplyDeleted, At
  <2>2. new \in UserRow /\ new.plan = "free" /\ new.status = "canceled"
    BY <1>e DEF UserRow, SubStatuses
  <2>3. PlansOf(d) = {"free"} /\ StatusesOf(d) = {"canceled"}
    BY <2>1 DEF PlansOf, StatusesOf
  <2> HIDE DEF new
  <2> QED
    BY <2>1, <2>2, <2>3, WriteFacts DEF UserKept
<1>3. CASE PayDates(d)
  <2> DEFINE new == [seen[d] EXCEPT !.dates = "invoice"]
  <2>1. WriteUser(d, new)
    BY <1>3 DEF PayDates
  <2>2. new \in UserRow /\ new.plan = seen[d].plan /\ new.status = seen[d].status
    BY <1>e DEF UserRow
  <2> HIDE DEF new
  <2> QED
    BY <2>1, <2>2, WriteFacts DEF UserKept
<1>4. CASE PayApply(d)
  <2>1. FromStripe(d, got[d], got[d].plan) /\ place[d] = "payApply"
    BY <1>4 DEF PayApply
  <2>2. got[d].plan \in Plans /\ Kind[event[d]] = "paid"
    BY <1>e, <2>1 DEF PlaceFits, SubData
  <2>3. PlansOf(d) = {got[d].plan} /\ StatusesOf(d) = {got[d].status}
    BY <2>2 DEF PlansOf, StatusesOf
  <2> QED
    BY <1>e, <2>1, <2>2, <2>3, FromStripeFacts DEF UserKept
<1>5. CASE FailInvoice(d)
  <2>1. CASE UNCHANGED user
    BY <1>0, <2>1
  <2>2. CASE ~UNCHANGED user
    <3> DEFINE new == [seen[d] EXCEPT !.status = "past_due"]
    <3>1. WriteUser(d, new) /\ place[d] = "failInvoice"
      BY <1>5, <2>2 DEF FailInvoice
    <3>2. new \in UserRow /\ new.plan = seen[d].plan /\ new.status = "past_due"
      BY <1>e DEF UserRow, SubStatuses
    <3>3. StatusesOf(d) = {"past_due"}
      BY <3>1 DEF PlaceFits, StatusesOf
    <3> HIDE DEF new
    <3> QED
      BY <3>1, <3>2, <3>3, WriteFacts DEF UserKept
  <2> QED
    BY <2>1, <2>2
<1>6. CASE \/ Send(d) \/ ListFailed(d) \/ StripeFails(d) \/ Stop(d)
           \/ Check(d) \/ Record(d) \/ Load(d) \/ Mark(d) \/ MarkFailed(d) \/ Retry(d)
  BY <1>0, <1>6 DEF Send, ListFailed, StripeFails, Stop, Check, Record, Load, Mark,
                    MarkFailed, Retry, rows
<1>7. CASE \/ Draft(d) \/ Finalize(d) \/ PayOld(d) \/ PayNew(d) \/ PayPayment(d)
           \/ Fetch(d) \/ FailLock(d) \/ FailPayment(d)
  BY <1>0, <1>7 DEF Draft, Finalize, PayOld, PayNew, PayPayment, Fetch, FailLock,
                    FailPayment, rows
<1> QED
  BY <1>1, <1>2, <1>3, <1>4, <1>5, <1>6, <1>7 DEF Step, DeliveryStep, Handle

LEMMA TypeStep ==
  ASSUME TypeOK, PlaceFits, NEW d \in Deliveries, Step(d)
  PROVE  TypeOK' /\ PlaceFits'
<1>u. user' \in UserRow
  BY UserStep DEF UserKept
<1>e. /\ event' = event /\ event \in Mail /\ event \in [Deliveries -> Events]
      /\ event[d] \in Events /\ Kind[event[d]] \in Kinds
  BY DEF TypeOK, Step
<1>1. CASE Send(d)
  BY <1>1, <1>u, <1>e DEF Send, To, rows, TypeOK, PlaceFits, Places
<1>2. CASE Check(d) \/ Record(d)
  BY <1>2, <1>u, <1>e DEF Check, Record, To, rows, history, TypeOK, PlaceFits, Places
<1>3. CASE Load(d)
  BY <1>3, <1>u, <1>e DEF Load, To, rows, history, TypeOK, PlaceFits, Places, Kinds
<1>4. CASE ApplySubscription(d) \/ ApplyDeleted(d) \/ PayDates(d) \/ PayApply(d) \/ Mark(d)
  BY <1>4, <1>u, <1>e DEF ApplySubscription, ApplyDeleted, PayDates, PayApply, Mark,
     MarkProcessed, To, TypeOK, PlaceFits, Places
<1>5. CASE Draft(d) \/ Finalize(d) \/ PayNew(d)
  BY <1>5, <1>u, <1>e DEF Draft, Finalize, PayNew, CreateInvoice, To, history,
     TypeOK, PlaceFits, Places
<1>6. CASE PayOld(d)
  BY <1>6, <1>u, <1>e DEF PayOld, To, history, TypeOK, PlaceFits, Places
<1>7. CASE PayPayment(d) \/ FailPayment(d)
  BY <1>7, <1>u, <1>e DEF PayPayment, FailPayment, CreatePayment, To, history,
     TypeOK, PlaceFits, Places
<1>8. CASE Fetch(d)
  BY <1>8, <1>u, <1>e DEF Fetch, To, rows, history, TypeOK, PlaceFits, Places
<1>9. CASE FailLock(d)
  BY <1>9, <1>u, <1>e DEF FailLock, To, rows, history, TypeOK, PlaceFits, Places
<1>10. CASE FailInvoice(d)
  BY <1>10, <1>u, <1>e DEF FailInvoice, CreateInvoice, To, history, TypeOK, PlaceFits, Places
<1>11. CASE MarkFailed(d)
  BY <1>11, <1>u, <1>e DEF MarkFailed, To, TypeOK, PlaceFits, Places
<1>12. CASE StripeFails(d) \/ Stop(d)
  BY <1>12, <1>u, <1>e DEF StripeFails, Stop, To, rows, TypeOK, PlaceFits, Places
<1>13. CASE ListFailed(d)
  BY <1>13, <1>u, <1>e DEF ListFailed, To, rows, history, TypeOK, PlaceFits, Places
<1>14. CASE Retry(d)
  BY <1>14, <1>u, <1>e DEF Retry, To, rows, TypeOK, PlaceFits, Places
<1> QED
  BY <1>1, <1>2, <1>3, <1>4, <1>5, <1>6, <1>7, <1>8, <1>9, <1>10, <1>11, <1>12, <1>13, <1>14
     DEF Step, DeliveryStep, Handle

\* The marks: only the end of a handler makes an event processed, and what was sent
\* of a processed event stays on the way to its answer.
LEMMA MarkStep ==
  ASSUME WebhookInv, NEW d \in Deliveries, Step(d)
  PROVE  ProcessedWasHandled' /\ LateInv'
<1> USE DEF WebhookInv, TypeOK, ProcessedWasHandled, LateInv
<1>e. event' = event /\ event \in [Deliveries -> Events] /\ event[d] \in Events
  BY DEF Step
<1>1. CASE Send(d)
  BY <1>1, <1>e DEF Send, To, rows
<1>2. CASE Check(d) \/ Record(d)
  BY <1>2, <1>e DEF Check, Record, To, rows, history
<1>3. CASE Load(d)
  BY <1>3, <1>e DEF Load, To, rows, history
<1>4. CASE ApplySubscription(d) \/ ApplyDeleted(d) \/ PayDates(d) \/ PayApply(d) \/ Mark(d)
  BY <1>4, <1>e DEF ApplySubscription, ApplyDeleted, PayDates, PayApply, Mark, At,
     MarkProcessed, To
<1>5. CASE Draft(d) \/ Finalize(d) \/ PayNew(d) \/ PayOld(d)
  BY <1>5, <1>e DEF Draft, Finalize, PayNew, PayOld, CreateInvoice, To, history
<1>6. CASE PayPayment(d) \/ FailPayment(d) \/ Fetch(d)
  BY <1>6, <1>e DEF PayPayment, FailPayment, Fetch, CreatePayment, To, rows, history
<1>7. CASE FailLock(d) \/ FailInvoice(d)
  BY <1>7, <1>e DEF FailLock, FailInvoice, CreateInvoice, To, rows, history
<1>8. CASE MarkFailed(d) \/ ListFailed(d) \/ Retry(d)
  BY <1>8, <1>e DEF MarkFailed, ListFailed, Retry, To, rows, history
<1>9. CASE StripeFails(d) \/ Stop(d)
  BY <1>9, <1>e DEF StripeFails, Stop, To, rows
<1> QED
  BY <1>1, <1>2, <1>3, <1>4, <1>5, <1>6, <1>7, <1>8, <1>9 DEF Step, DeliveryStep, Handle

LEMMA InvInit == Init => WebhookInv
<1> SUFFICES ASSUME Init PROVE WebhookInv
  OBVIOUS
<1>1. (CHOOSE s \in StripeData : TRUE) \in StripeData
  OBVIOUS
<1>2. NewUser \in UserRow
  BY DEF NewUser, UserRow, SubStatuses
<1>3. TypeOK
  BY <1>1, <1>2 DEF Init, TypeOK, Places
<1> QED
  BY <1>3 DEF Init, WebhookInv, PlaceFits, ProcessedWasHandled, LateInv

LEMMA InvNext == WebhookInv /\ [Next]_webhookVars => WebhookInv'
<1> SUFFICES ASSUME WebhookInv, [Next]_webhookVars PROVE WebhookInv'
  OBVIOUS
<1>1. CASE UNCHANGED webhookVars
  BY <1>1 DEF webhookVars, WebhookInv, TypeOK, PlaceFits, ProcessedWasHandled, LateInv
<1>2. ASSUME NEW d \in Deliveries, Step(d) PROVE WebhookInv'
  BY <1>2, TypeStep, MarkStep DEF WebhookInv
<1> QED
  BY <1>1, <1>2, NextIsStep

LEMMA InvAlways == Spec => []WebhookInv
BY InvInit, InvNext, PTL DEF Spec

\* No event is lost to a worker that stops between two commits, and what Stripe sends
\* of a processed event runs no handler (process_webhook).
THEOREM ProcessedEventsWereHandled ==
  Spec => [](TypeOK /\ ProcessedWasHandled /\ LateDuplicateIsIgnored)
<1>1. WebhookInv => TypeOK /\ ProcessedWasHandled /\ LateDuplicateIsIgnored
  BY DEF WebhookInv, LateInv, LateDuplicateIsIgnored
<1> QED
  BY <1>1, InvAlways, PTL

\* Every step moves the delivery it is a step of.
LEMMA PlaceMoves ==
  ASSUME TypeOK, NEW d \in Deliveries, Step(d)
  PROVE  place'[d] # place[d]
<1> USE DEF To, At, TypeOK
<1>e. Kind[event[d]] \in Kinds
  BY DEF Step
<1>1. CASE Load(d)
  BY <1>1, <1>e DEF Load, Kinds
<1>2. CASE Send(d) \/ Check(d) \/ Record(d) \/ Mark(d) \/ MarkFailed(d) \/ Retry(d)
  BY <1>2 DEF Send, Check, Record, Mark, MarkFailed, Retry, MarkProcessed
<1>3. CASE ApplySubscription(d) \/ ApplyDeleted(d) \/ PayDates(d) \/ PayApply(d)
  BY <1>3 DEF ApplySubscription, ApplyDeleted, PayDates, PayApply, MarkProcessed
<1>4. CASE Draft(d) \/ Finalize(d) \/ PayNew(d) \/ PayOld(d)
  BY <1>4 DEF Draft, Finalize, PayNew, PayOld, CreateInvoice
<1>5. CASE PayPayment(d) \/ FailPayment(d) \/ Fetch(d) \/ FailLock(d) \/ FailInvoice(d)
  BY <1>5 DEF PayPayment, FailPayment, Fetch, FailLock, FailInvoice, CreatePayment,
              CreateInvoice
<1>6. CASE ListFailed(d) \/ StripeFails(d) \/ Stop(d)
  BY <1>6 DEF ListFailed, StripeFails, Stop
<1> QED
  BY <1>1, <1>2, <1>3, <1>4, <1>5, <1>6 DEF Step, DeliveryStep, Handle

\* No handler brings back a plan or a status it loaded before another session
\* committed (webhook_handlers.py).
THEOREM NoStaleWrites == Spec => NoStaleColumns
<1> DEFINE Fresh ==
      \E d \in Deliveries :
        /\ place'[d] # place[d]
        /\ user'.plan # user.plan => user'.plan \in PlansOf(d)
        /\ user'.status # user.status => user'.status \in StatusesOf(d)
<1>1. ASSUME WebhookInv, [Next]_webhookVars PROVE [Fresh]_webhookVars
  <2>1. ASSUME NEW d \in Deliveries, Step(d) PROVE Fresh
    <3>1. UserKept(d) /\ place'[d] # place[d]
      BY <1>1, <2>1, UserStep, PlaceMoves DEF WebhookInv
    <3> QED
      BY <3>1 DEF UserKept
  <2> HIDE DEF Fresh
  <2> QED
    BY <1>1, <2>1, NextIsStep
<1>2. NoStaleColumns <=> [][Fresh]_webhookVars
  BY DEF NoStaleColumns
<1> HIDE DEF Fresh
<1> QED
  BY <1>1, <1>2, InvAlways, PTL DEF Spec
=============================================================================
