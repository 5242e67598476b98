--------------------------- MODULE StripeWebhooks ---------------------------
(***************************************************************************)
(* The webhook events of one customer with one subscription and one        *)
(* invoice: WebhookService (api/services/webhook_service.py), the handlers *)
(* (billing/webhook_handlers.py) and the rows they write.                  *)
(*                                                                         *)
(* A delivery is one session of the database: Stripe sends an event, again *)
(* when it was not answered or answered 5xx, and also while an earlier     *)
(* delivery is still under way; an administrator may retry failed events.  *)
(* Every commit is a step, and every read that is used after another       *)
(* session may have committed.  A session writes those attributes of the   *)
(* user that differ from what it loaded (seen).                            *)
(*                                                                         *)
(* Left out: events of no handler or no user (answered "ignored"), invoices *)
(* of nothing, the texts and amounts of invoices.                          *)
(***************************************************************************)
EXTENDS Naturals

CONSTANTS Deliveries, Events,
          Mail,         \* what the deliveries may carry: functions to events
          Kind,         \* its type
          DataOf,       \* of a subscription event: plan and status in its data
          Plans,        \* paid plans
          StripeData,   \* what get_subscription may answer
          MaxAttempts,  \* max_attempts of the retry route
          MaxRetries,   \* bound: handler runs started by the retry route, per event
          MaxFaults     \* bound: Stripe errors and stopped workers

UnknownPlan == "unknown"   \* _map_price_to_plan answers None
Kinds == {"subCreated", "subUpdated", "subDeleted", "invCreated", "invFinalized",
          "paid", "payFailed"}
SubStatuses == {"active", "past_due", "canceled"}
SubData == [plan : Plans \cup {UnknownPlan}, status : SubStatuses]

ASSUME MailType == Mail # {} /\ Mail \subseteq [Deliveries -> Events]
ASSUME KindType == Kind \in [Events -> Kinds]
ASSUME DataType == DataOf \in [Events -> SubData]
ASSUME StripeDataType == StripeData # {} /\ StripeData \subseteq SubData
ASSUME PlansType == "free" \notin Plans /\ UnknownPlan \notin Plans
ASSUME BoundTypes == MaxAttempts \in Nat /\ MaxRetries \in Nat /\ MaxFaults \in Nat

VARIABLES event,    \* the event a delivery carries, the same whenever it is sent
          status,   \* WebhookEvent.status of an event
          attempts, \* WebhookEvent.attempts
          user,     \* the user's subscription columns
          invoice,  \* Invoice.status
          payment,  \* Payment.status of the invoice's payment intent
          place,    \* where a delivery is
          seen,     \* the user as the session loaded it
          saw,      \* whether the session found the invoice
          got,      \* what Stripe answered to get_subscription
          late,     \* history: deliveries sent when their event was processed, and has not failed since
          handled,  \* history: handler runs of an event that ended well
          retried,  \* history: handler runs started by the retry route
          faults    \* history: faults so far

rows == <<status, attempts, user, invoice, payment>>
history == <<late, handled, retried, faults>>
webhookVars == <<event, status, attempts, user, invoice, payment, place, seen, saw, got,
                 late, handled, retried, faults>>

UserRow == [plan : Plans \cup {"free"}, status : SubStatuses, sub : BOOLEAN,
            dates : {"none", "invoice", "subscription", "ended"}]
Places == {"idle", "check", "record", "load", "apply", "draft", "finalize", "payOld",
           "payDates", "payNew", "payment", "fetch", "payApply", "failLock", "failInvoice",
           "failPayment", "mark", "markFailed", "listed", "unanswered", "answered"}

NewUser == [plan |-> "free", status |-> "active", sub |-> FALSE, dates |-> "none"]

Init ==
  /\ event \in Mail
  /\ status = [e \in Events |-> "none"]
  /\ attempts = [e \in Events |-> 0]
  /\ user = NewUser
  /\ invoice = "none"
  /\ payment = "none"
  /\ place = [d \in Deliveries |-> "idle"]
  /\ seen = [d \in Deliveries |-> NewUser]
  /\ saw = [d \in Deliveries |-> FALSE]
  /\ got = [d \in Deliveries |-> CHOOSE s \in StripeData : TRUE]
  /\ late = {}
  /\ handled = [e \in Events |-> 0]
  /\ retried = [e \in Events |-> 0]
  /\ faults = 0

To(d, p) == place' = [place EXCEPT ![d] = p]
At(d, p, kinds) == place[d] = p /\ Kind[event[d]] \in kinds

\* Mutant of WriteUser: the whole row is written back.
WriteUserRow(d, new) == user' = new

\* The columns that differ from what the session loaded are written.
WriteUser(d, new) ==
  user' = [f \in DOMAIN user |-> IF new[f] # seen[d][f] THEN new[f] ELSE user[f]]

\* The user's row is locked between the flush and the commit of payment_failed, unless it
\* was past due already and nothing was written.
UserFree == \A d \in Deliveries : place[d] = "failInvoice" => seen[d].status = "past_due"

\* update_webhook_status "processed", in the transaction of the writes before it.
MarkProcessed(d) ==
  /\ status' = [status EXCEPT ![event[d]] = "processed"]
  /\ handled' = [handled EXCEPT ![event[d]] = @ + 1]
  /\ To(d, "answered")

-----------------------------------------------------------------------------
\* Stripe sends an event, or sends it again.
Send(d) ==
  /\ place[d] \in {"idle", "unanswered"}
  /\ To(d, "check")
  /\ late' = IF status[event[d]] = "processed" THEN late \cup {d} ELSE late \ {d}
  /\ UNCHANGED <<event, rows, seen, saw, got, handled, retried, faults>>

\* Mutant of Check: the event is looked for, its status not.
CheckStatusIgnored(d) ==
  /\ place[d] = "check"
  /\ To(d, "record")
  /\ UNCHANGED <<rows, seen, saw, got, history>>

\* process_webhook: an event already processed is answered so.
Check(d) ==
  /\ place[d] = "check"
  /\ To(d, IF status[event[d]] = "processed" THEN "answered" ELSE "record")
  /\ UNCHANGED <<rows, seen, saw, got, history>>

\* Mutant of Record: the row is created as processed.
RecordProcessed(d) ==
  /\ place[d] = "record"
  /\ status' = [status EXCEPT ![event[d]] = IF @ = "none" THEN "processed" ELSE @]
  /\ To(d, "load")
  /\ UNCHANGED <<attempts, user, invoice, payment, seen, saw, got, history>>

\* create_webhook_event: the row, or the one that is there, whatever its status.
Record(d) ==
  /\ place[d] = "record"
  /\ status' = [status EXCEPT ![event[d]] = IF @ = "none" THEN "pending" ELSE @]
  /\ To(d, "load")
  /\ UNCHANGED <<attempts, user, invoice, payment, seen, saw, got, history>>

\* The reads of a handler: the user and the invoice.
Load(d) ==
  /\ place[d] = "load"
  /\ seen' = [seen EXCEPT ![d] = user]
  /\ saw' = [saw EXCEPT ![d] = invoice # "none"]
  /\ To(d, CASE Kind[event[d]] \in {"subCreated", "subUpdated", "subDeleted"} -> "apply"
             [] Kind[event[d]] = "invCreated" -> "draft"
             [] Kind[event[d]] = "invFinalized" -> "finalize"
             [] Kind[event[d]] = "paid" -> IF invoice # "none" THEN "payOld" ELSE "payNew"
             [] Kind[event[d]] = "payFailed" -> "failLock")
  /\ UNCHANGED <<rows, got, history>>

\* _update_user_subscription_from_stripe_data with the plan given.
FromStripe(d, data, plan) ==
  WriteUser(d, [plan |-> plan, status |-> data.status, sub |-> TRUE, dates |-> "subscription"])

\* subscription.created (an unknown price is ignored), subscription.updated (an
\* unknown price keeps the plan).
ApplySubscription(d) ==
  LET data == DataOf[event[d]] IN
  /\ At(d, "apply", {"subCreated", "subUpdated"})
  /\ UserFree
  /\ \/ data.plan # UnknownPlan /\ FromStripe(d, data, data.plan)
     \/ /\ data.plan = UnknownPlan
        /\ \/ Kind[event[d]] = "subUpdated" /\ FromStripe(d, data, seen[d].plan)
           \/ Kind[event[d]] = "subCreated" /\ UNCHANGED user
  /\ MarkProcessed(d)
  /\ UNCHANGED <<attempts, invoice, payment, seen, saw, got, late, retried, faults>>

\* subscription.deleted.  The None for the subscription's id is not written.
ApplyDeleted(d) ==
  /\ At(d, "apply", {"subDeleted"})
  /\ UserFree
  /\ WriteUser(d, [seen[d] EXCEPT !.plan = "free", !.status = "canceled", !.dates = "ended"])
  /\ MarkProcessed(d)
  /\ UNCHANGED <<attempts, invoice, payment, seen, saw, got, late, retried, faults>>

\* create_invoice, where the session found none: the unique stripe_invoice_id lets
\* one through.  A session whose insert failed cannot write the event's status
\* either: it stays as it is and the answer is 500.
CreateInvoice(d, s, next) ==
  /\ ~saw[d]
  /\ \/ invoice = "none" /\ invoice' = s /\ To(d, next)
     \/ invoice # "none" /\ UNCHANGED invoice /\ To(d, "unanswered")

\* invoice.created.
Draft(d) ==
  /\ place[d] = "draft"
  /\ \/ saw[d] /\ UNCHANGED invoice /\ To(d, "mark")
     \/ CreateInvoice(d, "draft", "mark")
  /\ UNCHANGED <<status, attempts, user, payment, seen, saw, got, history>>

\* invoice.finalized.
Finalize(d) ==
  /\ place[d] = "finalize"
  /\ \/ saw[d] /\ invoice' = "finalized" /\ To(d, "mark")
     \/ CreateInvoice(d, "finalized", "mark")
  /\ UNCHANGED <<status, attempts, user, payment, seen, saw, got, history>>

\* invoice.payment_succeeded, the invoice known: paid, and the user is loaded.
PayOld(d) ==
  /\ place[d] = "payOld"
  /\ invoice' = "paid"
  /\ seen' = [seen EXCEPT ![d] = user]
  /\ To(d, "payDates")
  /\ UNCHANGED <<status, attempts, user, payment, saw, got, history>>

\* Then the dates of the invoice become those of the subscription.
PayDates(d) ==
  /\ place[d] = "payDates"
  /\ UserFree
  /\ WriteUser(d, [seen[d] EXCEPT !.dates = "invoice"])
  /\ MarkProcessed(d)
  /\ UNCHANGED <<attempts, invoice, payment, seen, saw, got, late, retried, faults>>

\* invoice.payment_succeeded, the invoice new.
PayNew(d) ==
  /\ place[d] = "payNew"
  /\ CreateInvoice(d, "paid", "payment")
  /\ UNCHANGED <<status, attempts, user, payment, seen, saw, got, history>>

\* create_payment: the payment intent is unique.
CreatePayment(d, s, next) ==
  \/ payment = "none" /\ payment' = s /\ To(d, next)
  \/ payment # "none" /\ UNCHANGED payment /\ To(d, "unanswered")

PayPayment(d) ==
  /\ place[d] = "payment"
  /\ CreatePayment(d, "succeeded", "fetch")
  /\ UNCHANGED <<status, attempts, user, invoice, seen, saw, got, history>>

\* get_subscription: what Stripe has now.
Fetch(d) ==
  /\ place[d] = "fetch"
  /\ \E data \in StripeData :
       /\ got' = [got EXCEPT ![d] = data]
       /\ To(d, IF data.plan = UnknownPlan THEN "mark" ELSE "payApply")
  /\ UNCHANGED <<rows, seen, saw, history>>

PayApply(d) ==
  /\ place[d] = "payApply"
  /\ UserFree
  /\ FromStripe(d, got[d], got[d].plan)
  /\ MarkProcessed(d)
  /\ UNCHANGED <<attempts, invoice, payment, seen, saw, got, late, retried, faults>>

\* invoice.payment_failed: PAST_DUE is flushed, then the invoice looked for.
FailLock(d) ==
  /\ place[d] = "failLock"
  /\ seen[d].status = "past_due" \/ UserFree
  /\ saw' = [saw EXCEPT ![d] = invoice # "none"]
  /\ To(d, "failInvoice")
  /\ UNCHANGED <<rows, seen, got, history>>

\* The invoice is open; PAST_DUE is committed with it, or rolled back.
FailInvoice(d) ==
  /\ place[d] = "failInvoice"
  /\ \/ saw[d] /\ invoice' = "open" /\ To(d, "failPayment")
     \/ CreateInvoice(d, "open", "failPayment")
  /\ \/ /\ saw[d] \/ invoice = "none"
        /\ WriteUser(d, [seen[d] EXCEPT !.status = "past_due"])
     \/ ~saw[d] /\ invoice # "none" /\ UNCHANGED user
  /\ UNCHANGED <<status, attempts, payment, seen, saw, got, history>>

FailPayment(d) ==
  /\ place[d] = "failPayment"
  /\ CreatePayment(d, "failed", "mark")
  /\ UNCHANGED <<status, attempts, user, invoice, seen, saw, got, history>>

Mark(d) ==
  /\ place[d] = "mark"
  /\ MarkProcessed(d)
  /\ UNCHANGED <<attempts, user, invoice, payment, seen, saw, got, late, retried, faults>>

\* Mutant of MarkFailed: the error is kept in the row and the answer is 200.
MarkFailedAnswered(d) ==
  /\ place[d] = "markFailed"
  /\ status' = [status EXCEPT ![event[d]] = "failed"]
  /\ late' = {c \in late : event[c] # event[d]}
  /\ To(d, "answered")
  /\ UNCHANGED <<attempts, user, invoice, payment, seen, saw, got, handled, retried, faults>>

\* update_webhook_status "failed", whatever the status was, and the answer 500.
MarkFailed(d) ==
  /\ place[d] = "markFailed"
  /\ status' = [status EXCEPT ![event[d]] = "failed"]
  /\ late' = {c \in late : event[c] # event[d]}
  /\ To(d, "unanswered")
  /\ UNCHANGED <<attempts, user, invoice, payment, seen, saw, got, handled, retried, faults>>

\* get_failed_webhooks, its list read once; each handler runs when its turn comes.
ListFailed(d) ==
  /\ place[d] = "idle"
  /\ status[event[d]] = "failed"
  /\ attempts[event[d]] < MaxAttempts
  /\ retried[event[d]] < MaxRetries
  /\ To(d, "listed")
  /\ UNCHANGED <<rows, seen, saw, got, history>>

Retry(d) ==
  /\ place[d] = "listed"
  /\ retried' = [retried EXCEPT ![event[d]] = @ + 1]
  /\ To(d, "load")
  /\ UNCHANGED <<rows, seen, saw, got, late, handled, faults>>

\* Stripe's API fails under get_subscription.
StripeFails(d) ==
  /\ place[d] = "fetch"
  /\ faults < MaxFaults
  /\ faults' = faults + 1
  /\ To(d, "markFailed")
  /\ UNCHANGED <<rows, seen, saw, got, late, handled, retried>>

\* The worker stops, its transaction is rolled back.
Stop(d) ==
  /\ place[d] \notin {"idle", "unanswered", "answered"}
  /\ faults < MaxFaults
  /\ faults' = faults + 1
  /\ To(d, "unanswered")
  /\ UNCHANGED <<rows, seen, saw, got, late, handled, retried>>

Handle(d) ==
  \/ ApplySubscription(d) \/ ApplyDeleted(d) \/ Draft(d) \/ Finalize(d)
  \/ PayOld(d) \/ PayDates(d) \/ PayNew(d) \/ PayPayment(d) \/ Fetch(d) \/ PayApply(d)
  \/ FailLock(d) \/ FailInvoice(d) \/ FailPayment(d)

DeliveryStep(d) ==
  /\ Check(d) \/ Record(d) \/ Load(d) \/ Handle(d) \/ Mark(d) \/ MarkFailed(d) \/ Retry(d)
  /\ UNCHANGED event

Next ==
  \E d \in Deliveries :
    \/ Send(d) \/ DeliveryStep(d)
    \/ (ListFailed(d) \/ StripeFails(d) \/ Stop(d)) /\ UNCHANGED event

Spec == Init /\ [][Next]_webhookVars

\* A session goes on when its statement is answered, locks are granted in turn, and
\* Stripe sends again what was not answered with 200.
FairSpec ==
  /\ Spec
  /\ \A d \in Deliveries : /\ SF_webhookVars(DeliveryStep(d))
                           /\ WF_webhookVars(place[d] = "unanswered" /\ Send(d))

-----------------------------------------------------------------------------
\* Types.
TypeOK ==
  /\ event \in Mail
  /\ status \in [Events -> {"none", "pending", "processed", "failed"}]
  /\ attempts \in [Events -> Nat]
  /\ user \in UserRow
  /\ invoice \in {"none", "draft", "open", "finalized", "paid"}
  /\ payment \in {"none", "succeeded", "failed"}
  /\ place \in [Deliveries -> Places]
  /\ seen \in [Deliveries -> UserRow]
  /\ saw \in [Deliveries -> BOOLEAN]
  /\ got \in [Deliveries -> StripeData]
  /\ late \subseteq Deliveries
  /\ handled \in [Events -> Nat]
  /\ retried \in [Events -> Nat]
  /\ faults \in 0..MaxFaults

\* A worker that stops between two commits loses no event: whatever is marked
\* processed was handled to its end.
ProcessedWasHandled == \A e \in Events : status[e] = "processed" => handled[e] > 0

\* What Stripe sends of an event once it is processed runs no handler, unless a
\* delivery that overlapped the successful one fails and takes the mark away.
LateDuplicateIsIgnored ==
  \A d \in late : place[d] \in {"check", "answered", "unanswered"}

\* What an event has to say of the plan and of the status.
PlansOf(d) ==
  CASE Kind[event[d]] = "subDeleted" -> {"free"}
    [] Kind[event[d]] \in {"subCreated", "subUpdated"} -> {DataOf[event[d]].plan}
    [] Kind[event[d]] = "paid" -> {got[d].plan}
    [] OTHER -> {}

StatusesOf(d) ==
  CASE Kind[event[d]] = "subDeleted" -> {"canceled"}
    [] Kind[event[d]] \in {"subCreated", "subUpdated"} -> {DataOf[event[d]].status}
    [] Kind[event[d]] = "paid" -> {got[d].status}
    [] Kind[event[d]] = "payFailed" -> {"past_due"}
    [] OTHER -> {}

\* A handler never brings back what it loaded before others committed: the plan and
\* the status change only to what the event itself says of them.  A failed payment
\* leaves a new plan alone, an unknown price or an invoice too.
NoStaleColumns ==
  [][\E d \in Deliveries :
       /\ place'[d] # place[d]
       /\ user'.plan # user.plan => user'.plan \in PlansOf(d)
       /\ user'.status # user.status => user'.status \in StatusesOf(d)]_webhookVars

\* After the last fault every event is processed, whichever commits had been made
\* before.  Not payment_failed: when its payment row exists the insert fails on
\* every delivery.
EventsAreProcessed ==
  \A e \in Events :
    Kind[e] # "payFailed" => (status[e] = "pending" ~> status[e] = "processed")
=============================================================================
