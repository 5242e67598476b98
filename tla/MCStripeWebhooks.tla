-------------------------- MODULE MCStripeWebhooks --------------------------
(***************************************************************************)
(* Six mails of three deliveries each: an invoice and its payment sent     *)
(* twice; a price Stripe knows and the code does not between invoice and   *)
(* payment; a new subscription whose payment fails and is made; a failure  *)
(* reported twice; and two with a new plan and the deletion.               *)
(***************************************************************************)
EXTENDS StripeWebhooks, TLC

CONSTANTS d1, d2, d3, created, finalized, paid, failed, subscribed, updated, repriced, deleted

Data(p) == [plan |-> p, status |-> "active"]
MCDeliveries == {d1, d2, d3}
MCEvents == {created, finalized, paid, failed, subscribed, updated, repriced, deleted}
MCKind == (created :> "invCreated") @@ (finalized :> "invFinalized") @@ (paid :> "paid")
           @@ (failed :> "payFailed") @@ (updated :> "subUpdated")
           @@ (repriced :> "subUpdated") @@ (subscribed :> "subCreated") @@ (deleted :> "subDeleted")
MCDataOf == [e \in MCEvents |-> Data(CASE e = updated -> "pro"
                                      [] e \in {repriced, subscribed} -> UnknownPlan
                                      [] OTHER -> "basic")]
MCPlans == {"basic", "pro"}
MCStripe == {Data("basic"), Data(UnknownPlan)}

MailOf(a, b, c) == (d1 :> a) @@ (d2 :> b) @@ (d3 :> c)
MCMail == {MailOf(created, paid, paid), MailOf(finalized, repriced, paid),
           MailOf(subscribed, failed, paid), MailOf(created, failed, failed),
           MailOf(failed, updated, deleted), MailOf(deleted, repriced, updated)}
=============================================================================
