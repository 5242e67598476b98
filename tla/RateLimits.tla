----------------------------- MODULE RateLimits -----------------------------
(***************************************************************************)
(* The rate limits: the middleware in front of every route                 *)
(* (api/middleware/rate_limiting.py) and the hourly limit behind it on      *)
(* pull-request analyses (services/pr_rate_limiter.py), both over counters *)
(* in Redis (api/services/redis_service.py).                               *)
(*                                                                         *)
(* The middleware counts a request with INCR and EXPIRE in one transaction,*)
(* whether the request passes or not, and takes the count of an analysis   *)
(* back, with GET and then DECR, when it was answered 5xx.  The            *)
(* pull-request limiter sends INCR and, when the counter is new, EXPIRE.   *)
(* Where Redis fails a request passes.  The counters of one client are     *)
(* modelled, and time in steps of which a window has a few.                *)
(***************************************************************************)
EXTENDS Integers, FiniteSets

CONSTANTS Requests,
          Max,      \* requests per window, of each counter
          Window    \* steps of time per window, of each counter

Counters == {"analysis", "contact", "regHour", "regDay", "general", "burst", "pr"}
Kinds == {"analysis", "pr", "contact", "registration", "general"}

ASSUME RequestsFinite == IsFiniteSet(Requests)
ASSUME MaxType == Max \in [Counters -> Nat \ {0}]
ASSUME WindowType == Window \in [Counters -> Nat \ {0}]

VARIABLES counter,    \* Redis: the counters, with what is left of their time to live
          connected,  \* RedisService._connected
          req,        \* the requests
          win,        \* history: the requests counted, let pass and taken back, per counter
          lost        \* history: requests after whose INCR no EXPIRE reached Redis

rateVars == <<counter, connected, req, win, lost>>

Forever == -1
Absent == [n |-> 0, left |-> 0]
NoRequests == [counted |-> {}, passed |-> {}, refunded |-> {}]

Init ==
  /\ counter = [c \in Counters |-> Absent]
  /\ connected = TRUE
  /\ req \in [Requests -> [kind : Kinds, pc : {"idle"}]]
  /\ win = [c \in Counters |-> NoRequests]
  /\ lost = {}

Goto(r, pc) == req' = [req EXCEPT ![r].pc = pc]

\* Where a request is counted first: dispatch looks at the path.
FirstCounter(kind) ==
  CASE kind \in {"analysis", "pr"} -> "analysis"
    [] kind = "registration" -> "regHour"
    [] OTHER -> kind

\* Where it is counted next when it is within or over the limit of a counter; "handle" is
\* call_next, "refused" a 429.
Within(r, c) ==
  CASE c = "regHour" -> "regDay"
    [] c = "analysis" /\ req[r].kind = "pr" -> "pr"
    [] OTHER -> "handle"

Over(c) == IF c = "general" THEN "burst" ELSE "refused"

Arrive(r) ==
  /\ req[r].pc = "idle"
  /\ Goto(r, FirstCounter(req[r].kind))
  /\ UNCHANGED <<counter, connected, win, lost>>

-----------------------------------------------------------------------------
\* INCR, which makes an absent counter.
CountRequest(c, left) == counter' = [counter EXCEPT ![c] = [n |-> @.n + 1, left |-> left]]

\* Mutant of Fits: one request more than the limit is let pass.
FitsOneMore(c) == counter[c].n <= Max[c]

\* The count that INCR answers is within the limit.
Fits(c) == counter[c].n + 1 <= Max[c]

\* increment_rate_limit: INCR and EXPIRE in one transaction, so that every request, a refused
\* one too, starts the window anew.
Increment(r, c) ==
  /\ req[r].pc = c
  /\ c # "pr"
  /\ connected
  /\ CountRequest(c, Window[c])
  /\ \/ /\ Fits(c)
        /\ Goto(r, Within(r, c))
        /\ win' = [win EXCEPT ![c].counted = @ \cup {r}, ![c].passed = @ \cup {r}]
     \/ /\ ~Fits(c)
        /\ Goto(r, Over(c))
        /\ win' = [win EXCEPT ![c].counted = @ \cup {r}]
  /\ UNCHANGED <<connected, lost>>

\* Mutant of Unanswered: INCR and EXPIRE are sent one after the other.
UnansweredIncr(c) ==
  CountRequest(c, IF counter[c].n = 0 THEN Forever ELSE counter[c].left)

\* A transaction whose answer is lost is carried out as a whole.
Unanswered(c) == CountRequest(c, Window[c])

\* Without a connection, or when the call fails, the request passes; the transaction
\* may have been carried out.  An error of the transport ends the use of Redis until
\* the next start of the process.
IncrementFails(r, c) ==
  /\ req[r].pc = c
  /\ c # "pr"
  /\ Goto(r, Within(r, c))
  /\ \/ UNCHANGED <<counter, win>>
     \/ /\ connected
        /\ Unanswered(c)
        /\ win' = [win EXCEPT ![c].counted = @ \cup {r}]
  /\ connected' \in {connected, FALSE}
  /\ UNCHANGED lost

\* Mutant of PRFirst: the count is taken for the one before INCR.
PRFirstBefore == counter["pr"].n + 1 = 0

\* INCR answers 1: the counter is new.
PRFirst == counter["pr"].n + 1 = 1

\* RedisService.incr.
PRCount ==
  CountRequest("pr", IF counter["pr"].n = 0 THEN Forever ELSE counter["pr"].left)

\* check_limit: only a new counter is given a time to live.
PRIncrement(r) ==
  /\ req[r].pc = "pr"
  /\ connected
  /\ PRCount
  /\ \/ /\ PRFirst
        /\ Goto(r, "expire")
        /\ win' = [win EXCEPT !["pr"].counted = {r}]
     \/ /\ ~PRFirst /\ Fits("pr")
        /\ Goto(r, "handle")
        /\ win' = [win EXCEPT !["pr"].counted = @ \cup {r}, !["pr"].passed = @ \cup {r}]
     \/ /\ ~PRFirst /\ ~Fits("pr")
        /\ Goto(r, "refused")
        /\ win' = [win EXCEPT !["pr"].counted = @ \cup {r}]
  /\ UNCHANGED <<connected, lost>>

\* No connection, or an error: the request passes.  An INCR whose answer is lost has
\* counted, and is followed by no EXPIRE.
PRIncrementFails(r) ==
  /\ req[r].pc = "pr"
  /\ Goto(r, "handle")
  /\ \/ UNCHANGED <<counter, win, lost>>
     \/ /\ connected
        /\ PRCount
        /\ win' = [win EXCEPT !["pr"].counted = @ \cup {r}]
        /\ lost' = IF counter["pr"].n = 0 THEN lost \cup {r} ELSE lost
  /\ UNCHANGED connected

\* The EXPIRE of a new counter; when it fails, check_limit goes on.
PRExpire(r) ==
  /\ req[r].pc = "expire"
  /\ \/ connected /\ counter' = [counter EXCEPT !["pr"].left = Window["pr"]] /\ UNCHANGED lost
     \/ UNCHANGED counter /\ lost' = lost \cup {r}
  /\ Goto(r, "handle")
  /\ win' = [win EXCEPT !["pr"].passed = @ \cup {r}]
  /\ UNCHANGED connected

\* check_user_eligibility refuses a pull-request analysis before it is counted.
TurnAway(r) ==
  /\ req[r].pc = "pr"
  /\ Goto(r, "done")
  /\ UNCHANGED <<counter, connected, win, lost>>

\* The answer of the route.  A failed analysis, of either kind, is to be taken back.
Answer(r) ==
  /\ req[r].pc = "handle"
  /\ \/ Goto(r, "done")
     \/ req[r].kind \in {"analysis", "pr"} /\ Goto(r, "refund")
  /\ UNCHANGED <<counter, connected, win, lost>>

\* decrement_rate_limit: GET; nothing is taken back from an absent or empty counter, nor
\* when the call fails.
RefundRead(r) ==
  /\ req[r].pc = "refund"
  /\ \/ connected /\ counter["analysis"].n > 0 /\ Goto(r, "decr")
     \/ Goto(r, "done")
  /\ UNCHANGED <<counter, connected, win, lost>>

\* Mutant of RefundTaken: the counter is cleared.
RefundClears == counter' = [counter EXCEPT !["analysis"].n = 0]

\* DECR, which makes an absent counter too, without a time to live.
RefundTaken ==
  LET k == counter["analysis"] IN
    counter' = [counter EXCEPT !["analysis"] =
                  [n |-> k.n - 1, left |-> IF k.left = 0 THEN Forever ELSE k.left]]

RefundDecr(r) ==
  /\ req[r].pc = "decr"
  /\ \/ UNCHANGED <<counter, win>>
     \/ /\ connected
        /\ RefundTaken
        /\ win' = [win EXCEPT !["analysis"].refunded = @ \cup {r}]
  /\ Goto(r, "done")
  /\ UNCHANGED <<connected, lost>>

-----------------------------------------------------------------------------
\* A step of time: counters come closer to their end, and are absent after it.
Expiring(c) == counter[c].left = 1

Tick ==
  /\ counter' = [c \in Counters |->
                   IF Expiring(c) THEN Absent
                   ELSE IF counter[c].left > 0 THEN [counter[c] EXCEPT !.left = @ - 1]
                   ELSE counter[c]]
  /\ win' = [c \in Counters |-> IF Expiring(c) THEN NoRequests ELSE win[c]]
  /\ UNCHANGED <<connected, req, lost>>

\* The process is started again; requests under way are gone.
Restart ==
  /\ req' = [r \in Requests |->
               IF req[r].pc \in {"idle", "refused"} THEN req[r] ELSE [req[r] EXCEPT !.pc = "done"]]
  /\ lost' = lost \cup {r \in Requests : req[r].pc = "expire"}
  /\ connected' = TRUE
  /\ UNCHANGED <<counter, win>>

Next ==
  \/ \E r \in Requests :
       \/ Arrive(r)
       \/ \E c \in Counters : Increment(r, c) \/ IncrementFails(r, c)
       \/ PRIncrement(r) \/ PRIncrementFails(r) \/ PRExpire(r) \/ TurnAway(r)
       \/ Answer(r) \/ RefundRead(r) \/ RefundDecr(r)
  \/ Tick
  \/ Restart

Spec == Init /\ [][Next]_rateVars

-----------------------------------------------------------------------------
Stations == Counters \cup {"idle", "expire", "handle", "refund", "decr", "refused", "done"}

TypeOK ==
  /\ counter \in [Counters -> [n : Int, left : Int]]
  /\ \A c \in Counters : counter[c].left \in {Forever} \cup 0..Window[c]
  /\ connected \in BOOLEAN
  /\ req \in [Requests -> [kind : Kinds, pc : Stations]]
  /\ win \in [Counters -> [counted : SUBSET Requests, passed : SUBSET Requests,
                           refunded : SUBSET Requests]]
  /\ lost \subseteq Requests

\* The counter is the number of requests of its window, less those taken back in it.
CountsRequests ==
  \A c \in Counters :
    counter[c].n = Cardinality(win[c].counted) - Cardinality(win[c].refunded)

\* In a window no more than the limit keep a place they were given, except one for each
\* refund of a request that has no place in it: it was counted in an earlier window,
\* which ended before the refund, or it was let pass without being counted.
LimitHolds ==
  \A c \in Counters :
    Cardinality(win[c].passed \ win[c].refunded)
      <= Max[c] + Cardinality(win[c].refunded \ win[c].passed)

\* A counter that may refuse ends: a client that asks nothing for a window is let in
\* again, whatever was refused, failed or taken back before.
RefusalEnds ==
  \A c \in Counters \ {"pr"} :
    counter[c].n > 0 => counter[c].left \in 1..Window[c]

\* The hourly count of pull-request analyses ends with its hour, unless its first request
\* could not set the time to live: then it never ends.
PRWindowEnds ==
  counter["pr"].left = Forever =>
    \E r \in win["pr"].counted : r \in lost \/ req[r].pc = "expire"
=============================================================================
