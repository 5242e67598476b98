--------------------------- MODULE MCSubscriptions ---------------------------
(* Two requests that subscribe, one way or the other, or change the plan, and a third that *)
(* changes the subscription or cancels it; the dearer plan has a price for overages.       *)
EXTENDS Subscriptions, TLC

CONSTANTS q1, q2, q3

Ask(do, plan) == [do |-> do, plan |-> plan]
ThenAsk(do1, do2, dos) == {(q1 :> Ask(do1, "basic")) @@ (q2 :> Ask(do2, "pro"))
                             @@ (q3 :> Ask(do3, "basic")) : do3 \in dos}

MCRequests == {q1, q2, q3}
MCPlans == {"basic", "pro"}
MCOverage == {"pro"}
MCWork == ThenAsk("create", "update", {"update", "cancelAtEnd", "cancelNow"})
            \cup ThenAsk("checkout", "update", {"cancelNow"})
            \cup ThenAsk("checkout", "create", {"cancelNow"})
=============================================================================
