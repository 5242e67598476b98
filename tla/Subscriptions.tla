---------------------------- MODULE Subscriptions ----------------------------
(***************************************************************************)
(* The subscriptions of one user: the routes of api/routes/billing.py and  *)
(* SubscriptionManager (billing/subscription_manager.py), which call       *)
(* Stripe (billing/stripe_client.py) first and write the user's row        *)
(* afterwards, and the events by which Stripe tells of its subscriptions   *)
(* (billing/webhook_handlers.py).                                          *)
(*                                                                         *)
(* A request is one session of the database, committed by get_db_session   *)
(* when the answer is out.  A session writes those columns that differ     *)
(* from what it loaded.  A subscription and a customer of Stripe have the  *)
(* name of the request that made them.                                     *)
(*                                                                         *)
(* The quota is a function of the plan; dates, invoices and the repetition *)
(* of deliveries are StripeWebhooks' matter.  Trials and prices unknown to *)
(* the code are left out.                                                  *)
(***************************************************************************)
EXTENDS Naturals, Sequences, FiniteSets, SequencesExt

CONSTANTS Requests,
          Work,         \* what the requests may ask: functions to operations
          PaidPlans,    \* the plans for sale
          Overage,      \* the plans with a price for overages
          OldCustomer,  \* a customer of whom Stripe no longer knows
          None,
          MaxReorders   \* bound: deliveries out of turn

Operations == [do : {"create", "update", "cancelAtEnd", "cancelNow", "checkout"}, plan : PaidPlans]

ASSUME WorkType == Work # {} /\ Work \subseteq [Requests -> Operations]
ASSUME PaidPlansType == "free" \notin PaidPlans /\ Overage \subseteq PaidPlans
ASSUME BoundType == MaxReorders \in Nat

VARIABLES row,       \* the user's subscription columns
          op,        \* what a request asks
          req,       \* where it is, the row it loaded and the one it is about to write
          sub,       \* Stripe: the subscriptions
          mail,      \* Stripe: the events not yet delivered, oldest first
          desk,      \* the delivery under way
          lost,      \* history: requests rolled back after Stripe had accepted them
          replaced,  \* history: subscriptions and customers another took the place of in the row
          crossed,   \* history: did two requests overlap
          reorders   \* history: deliveries out of turn

subscriptionVars == <<row, op, req, sub, mail, desk, lost, replaced, crossed, reorders>>

Ids == Requests \cup {None}
Row == [plan : PaidPlans \cup {"free"}, status : {"active", "canceled", "suspended"},
        sub : Ids, customer : Ids \cup {OldCustomer}]
Subscription == [plan : PaidPlans,
                 status : {"none", "incomplete", "expired", "active", "canceled"},
                 customer : Ids, ending : BOOLEAN, overage : BOOLEAN]
Event == [kind : {"created", "updated", "deleted"}, sub : Requests, plan : PaidPlans,
          status : {"incomplete", "expired", "active", "canceled"}, customer : Ids]

ASSUME NoneType == None \notin Requests /\ None \notin Event
ASSUME OldCustomerType == OldCustomer \notin Requests /\ OldCustomer # None

NewRow == [plan |-> "free", status |-> "active", sub |-> None, customer |-> None]
NoEvent == [event |-> None, seen |-> NewRow]

InitSubscriptions ==
  /\ row \in {NewRow, [NewRow EXCEPT !.customer = OldCustomer]}
  /\ op \in Work
  /\ req = [r \in Requests |-> [pc |-> "idle", seen |-> NewRow, new |-> NewRow]]
  /\ sub = [r \in Requests |-> [plan |-> op[r].plan, status |-> "none", customer |-> None,
                                ending |-> FALSE, overage |-> FALSE]]
  /\ mail = <<>>
  /\ desk = NoEvent
  /\ lost = {}
  /\ replaced = {}
  /\ crossed = FALSE
  /\ reorders = 0

UnderWay(r) == req[r].pc \in {"subscribe", "modify", "cancel", "session", "commit"}
Goto(r, pc) == req' = [req EXCEPT ![r].pc = pc]

\* _ensure_stripe_customer, and the same in the checkout route: a new customer is made where
\* there is none or get_customer does not find it.
CustomerOf(r) == IF req[r].seen.customer \in {None, OldCustomer} THEN r ELSE req[r].seen.customer

\* The columns a session changed, committed.
WriteRow(seen, new) ==
  /\ row' = [f \in DOMAIN row |-> IF new[f] # seen[f] THEN new[f] ELSE row[f]]
  /\ replaced' = replaced \cup ({row.sub} \ {None, row'.sub})
                          \cup ({row.customer} \ {None, row'.customer})

-----------------------------------------------------------------------------
(* Stripe, as far as the code relies on it.                                *)

Tell(kind, s) ==
  mail' = Append(mail, [kind |-> kind, sub |-> s, plan |-> sub'[s].plan,
                        status |-> sub'[s].status, customer |-> sub'[s].customer])

\* The user fills in the checkout that was offered, and Stripe makes the subscription.
Subscribe(s) ==
  /\ op[s].do = "checkout"
  /\ req[s].pc \in {"commit", "done"}
  /\ sub[s].status = "none"
  /\ sub' = [sub EXCEPT ![s].status = "incomplete", ![s].customer = CustomerOf(s)]
  /\ Tell("created", s)
  /\ UNCHANGED <<row, op, req, desk, lost, replaced, crossed, reorders>>

\* The first invoice is paid: in the checkout, or by the client secret that came with the
\* answer.
Pay(s) ==
  /\ sub[s].status = "incomplete"
  /\ sub' = [sub EXCEPT ![s].status = "active"]
  /\ Tell("updated", s)
  /\ UNCHANGED <<row, op, req, desk, lost, replaced, crossed, reorders>>

\* Or it is not: after a day, when no request is under way any more, the subscription is
\* incomplete_expired for good.
Expire(s) ==
  /\ sub[s].status = "incomplete"
  /\ \A r \in Requests : ~UnderWay(r)
  /\ sub' = [sub EXCEPT ![s].status = "expired"]
  /\ Tell("updated", s)
  /\ UNCHANGED <<row, op, req, desk, lost, replaced, crossed, reorders>>

Quiet == mail = <<>> /\ desk = NoEvent /\ \A r \in Requests : ~UnderWay(r)

\* A period is over, and a subscription that was not cancelled goes on.  Periods are months:
\* what was under way is over by then.
Renew(s) ==
  /\ Quiet
  /\ sub[s].status = "active"
  /\ ~sub[s].ending
  /\ UNCHANGED sub
  /\ Tell("updated", s)
  /\ UNCHANGED <<row, op, req, desk, lost, replaced, crossed, reorders>>

\* A subscription ends with its period, when it was cancelled or Stripe gives up a payment.
End(s) ==
  /\ Quiet
  /\ sub[s].status = "active"
  /\ sub' = [sub EXCEPT ![s].status = "canceled"]
  /\ Tell("deleted", s)
  /\ UNCHANGED <<row, op, req, desk, lost, replaced, crossed, reorders>>

-----------------------------------------------------------------------------
(* The routes.                                                             *)

\* get_user_by_id, and what is refused before Stripe is asked.
LoadRow(r) ==
  /\ req[r].pc = "idle"
  /\ LET next == CASE op[r].do = "create" -> "subscribe"
                   [] op[r].do = "checkout" -> "session"
                   [] op[r].do = "update" /\ row.sub # None -> "modify"
                   [] op[r].do \in {"cancelAtEnd", "cancelNow"} /\ row.sub # None -> "cancel"
                   [] OTHER -> "refused"
     IN req' = [req EXCEPT ![r] = [pc |-> next, seen |-> row, new |-> row]]
  /\ crossed' = (crossed \/ \E q \in Requests : UnderWay(q))
  /\ UNCHANGED <<row, op, sub, mail, desk, lost, replaced, reorders>>

\* Stripe's answer leads to the row to be written.
Answered(r, new) == req' = [req EXCEPT ![r].pc = "commit", ![r].new = new]

\* create_subscription: an earlier subscription is not looked for, and a new customer is
\* not kept.
CreateSubscription(r) ==
  /\ req[r].pc = "subscribe"
  /\ sub' = [sub EXCEPT ![r].status = "incomplete", ![r].customer = CustomerOf(r)]
  /\ Tell("created", r)
  /\ Answered(r, [req[r].seen EXCEPT !.plan = op[r].plan, !.status = "suspended", !.sub = r])
  /\ UNCHANGED <<row, op, desk, lost, replaced, crossed, reorders>>

\* Stripe knows no parameter remove_items, which is sent for an item of the old plan's
\* overages when the new plan has none.
AsksRemoval(r) ==
  /\ req[r].seen.plan \in Overage
  /\ op[r].plan \notin Overage
  /\ sub[req[r].seen.sub].overage

\* update_subscription_plan: the subscription is read and modified.
UpdateSubscription(r) ==
  LET s == req[r].seen.sub IN
  /\ req[r].pc = "modify"
  /\ sub[s].status = "active"
  /\ ~AsksRemoval(r)
  /\ sub' = [sub EXCEPT ![s].plan = op[r].plan]
  /\ Tell("updated", s)
  /\ Answered(r, [req[r].seen EXCEPT !.plan = op[r].plan, !.status = "active", !.sub = s])
  /\ UNCHANGED <<row, op, desk, lost, replaced, crossed, reorders>>

CancelAtEnd(r) ==
  LET s == req[r].seen.sub IN
  /\ req[r].pc = "cancel"
  /\ op[r].do = "cancelAtEnd"
  /\ sub[s].status = "active"
  /\ sub' = [sub EXCEPT ![s].ending = TRUE]
  /\ Tell("updated", s)
  /\ Answered(r, [req[r].seen EXCEPT !.status = "canceled"])
  /\ UNCHANGED <<row, op, desk, lost, replaced, crossed, reorders>>

CancelNow(r) ==
  LET s == req[r].seen.sub IN
  /\ req[r].pc = "cancel"
  /\ op[r].do = "cancelNow"
  /\ sub[s].status \in {"incomplete", "active"}
  /\ sub' = [sub EXCEPT ![s].status = "canceled"]
  /\ Tell("deleted", s)
  /\ Answered(r, [req[r].seen EXCEPT !.plan = "free", !.status = "canceled"])
  /\ UNCHANGED <<row, op, desk, lost, replaced, crossed, reorders>>

\* Mutant of CreateCheckoutSession: the new customer is not kept.
CreateCheckoutSessionForgets(r) ==
  /\ req[r].pc = "session"
  /\ Answered(r, [req[r].seen EXCEPT !.status = "active"])
  /\ UNCHANGED <<row, op, sub, mail, desk, lost, replaced, crossed, reorders>>

\* create_checkout_session, with the customer the row is to have.
CreateCheckoutSession(r) ==
  /\ req[r].pc = "session"
  /\ Answered(r, [req[r].seen EXCEPT !.customer = CustomerOf(r)])
  /\ UNCHANGED <<row, op, sub, mail, desk, lost, replaced, crossed, reorders>>

\* Stripe refuses, or cannot be reached, or the worker stops.
Refuse(r) ==
  /\ UnderWay(r)
  /\ req[r].pc # "commit"
  /\ Goto(r, "refused")
  /\ UNCHANGED <<row, op, sub, mail, desk, lost, replaced, crossed, reorders>>

\* The price for overages is added where the new plan has one and the old had none; that
\* may fail.
AddsOverage(r) ==
  LET s == req[r].new.sub IN
  /\ op[r].plan \in Overage
  /\ op[r].do = "create" \/ (op[r].do = "update" /\ req[r].seen.plan \notin Overage)
  /\ sub' = [sub EXCEPT ![s].overage = TRUE]

\* _update_user_subscription and the other writes, and the commit.
Commit(r) ==
  /\ req[r].pc = "commit"
  /\ AddsOverage(r) \/ UNCHANGED sub
  /\ \/ WriteRow(req[r].seen, req[r].new) /\ Goto(r, "done") /\ UNCHANGED lost
     \/ lost' = lost \cup {r} /\ Goto(r, "done") /\ UNCHANGED <<row, replaced>>
  /\ UNCHANGED <<op, mail, desk, crossed, reorders>>

-----------------------------------------------------------------------------
(* The webhooks.                                                           *)

\* An event is delivered, in its turn or not, and its user loaded.
Deliver(i) ==
  /\ desk = NoEvent
  /\ i = 1 \/ reorders < MaxReorders
  /\ desk' = [event |-> mail[i], seen |-> row]
  /\ mail' = RemoveAt(mail, i)
  /\ reorders' = IF i = 1 THEN reorders ELSE reorders + 1
  /\ UNCHANGED <<row, op, req, sub, lost, replaced, crossed>>

\* Mutant of Finds: the customer is not asked for.
FindsBySubscription(e) == desk.seen.sub = e.sub

\* Of a user, created is looked up by the customer; the others by the subscription and,
\* if there is none, by the customer.
Finds(e) ==
  \/ e.kind # "created" /\ desk.seen.sub = e.sub
  \/ desk.seen.customer = e.customer

\* Mutant of Told: Stripe's status is written as it is.
ToldUnmapped(e) ==
  IF e.kind = "deleted" THEN [desk.seen EXCEPT !.plan = "free", !.status = "canceled"]
                        ELSE [desk.seen EXCEPT !.plan = e.plan, !.sub = e.sub, !.status = e.status]

\* Mutant of Told: the plan stays when the subscription is gone.
ToldKeepsPlan(e) ==
  IF e.kind = "deleted" THEN [desk.seen EXCEPT !.status = "canceled"]
  ELSE [desk.seen EXCEPT !.plan = e.plan, !.sub = e.sub,
          !.status = IF e.status \in {"incomplete", "expired"} THEN "suspended" ELSE e.status]

\* The row by an event.  The plan is that of the subscription whatever its status, unless
\* it is deleted, and the None for its id is not written.
Told(e) ==
  IF e.kind = "deleted" THEN [desk.seen EXCEPT !.plan = "free", !.status = "canceled"]
  ELSE [desk.seen EXCEPT !.plan = e.plan, !.sub = e.sub,
          !.status = IF e.status \in {"incomplete", "expired"} THEN "suspended" ELSE e.status]

\* handle_customer_subscription_created, _updated, _deleted.
HandleEvent ==
  /\ desk # NoEvent
  /\ \/ Finds(desk.event) /\ WriteRow(desk.seen, Told(desk.event))
     \/ ~Finds(desk.event) /\ UNCHANGED <<row, replaced>>
  /\ desk' = NoEvent
  /\ UNCHANGED <<op, req, sub, mail, lost, crossed, reorders>>

\* The handler fails and the event is sent again, later.
HandleFails ==
  /\ desk # NoEvent
  /\ reorders < MaxReorders
  /\ reorders' = reorders + 1
  /\ mail' = Append(mail, desk.event)
  /\ desk' = NoEvent
  /\ UNCHANGED <<row, op, req, sub, lost, replaced, crossed>>

RequestStep(r) ==
  \/ CreateSubscription(r) \/ UpdateSubscription(r) \/ CancelAtEnd(r) \/ CancelNow(r)
  \/ CreateCheckoutSession(r) \/ Refuse(r) \/ Commit(r)

NextSubscriptions ==
  \/ \E r \in Requests : LoadRow(r) \/ RequestStep(r)
                        \/ Subscribe(r) \/ Pay(r) \/ Expire(r) \/ Renew(r) \/ End(r)
  \/ \E i \in DOMAIN mail : Deliver(i)
  \/ HandleEvent
  \/ HandleFails

SpecSubscriptions == InitSubscriptions /\ [][NextSubscriptions]_subscriptionVars

\* Requests end, what Stripe tells arrives, and a subscription is renewed while it lives.
FairSpecSubscriptions ==
  /\ SpecSubscriptions
  /\ \A r \in Requests : /\ WF_subscriptionVars(RequestStep(r))
                         /\ WF_subscriptionVars(Renew(r))
  /\ WF_subscriptionVars(mail # <<>> /\ Deliver(1))
  /\ WF_subscriptionVars(HandleEvent)

-----------------------------------------------------------------------------
SubscriptionsTypeOK ==
  /\ row \in Row
  /\ op \in Work
  /\ req \in [Requests -> [pc : {"idle", "subscribe", "modify", "cancel", "session",
                                 "commit", "done", "refused"}, seen : Row, new : Row]]
  /\ sub \in [Requests -> Subscription]
  /\ mail \in Seq(Event)
  /\ desk = NoEvent \/ desk \in [event : Event, seen : Row]
  /\ lost \subseteq Requests
  /\ replaced \subseteq Requests \cup {OldCustomer}
  /\ crossed \in BOOLEAN
  /\ reorders \in 0..MaxReorders

\* What a user pays for can be found from the row, by the subscription or by its customer:
\* else no event of it reaches the user and no route can cancel it.  What is not found was
\* rolled back when Stripe had accepted it, or the row now names another in its place.
PaidIsReachable ==
  \A s \in Requests :
    sub[s].status = "active" =>
      \/ row.sub = s
      \/ row.customer = sub[s].customer
      \/ req[s].pc = "commit"
      \/ s \in lost
      \/ {s, sub[s].customer} \cap replaced # {}

InTurn == ~crossed /\ reorders = 0

\* When all is quiet no paid plan outlives the cancellation of its subscription, unless two
\* requests overlapped or an event came out of turn.  A request that is rolled back does no
\* harm here: the event of what Stripe did makes good for it.  Only a cancellation ends a
\* plan: that of a subscription which was never paid for and expired is kept.
CancellationEndsPlan ==
  Quiet /\ InTurn /\ row.plan # "free" =>
    row.sub # None /\ sub[row.sub].status # "canceled"

Active == {s \in Requests : sub[s].status = "active"}

\* Whatever overlapped, was rolled back or came out of turn: when the user has come to one
\* subscription that is found from the row, the row comes to say what Stripe says of it.
RenewalsRepair ==
  \A s \in Requests :
    <>[](Active = {s} /\ ~sub[s].ending /\ (row.sub = s \/ row.customer = sub[s].customer))
      => <>[](row.plan = sub[s].plan /\ row.sub = s /\ row.status = "active")
=============================================================================
