-------------------------- MODULE CandidateContext --------------------------
(***************************************************************************)
(* The evaluation context a hiring manager locks for a candidate           *)
(* (api/services/candidate_context.py, GET route of                        *)
(* api/routes/candidates.py).  The first analysis locks role and           *)
(* organisation; later ones must ask for the same until the manager resets *)
(* the lock.                                                               *)
(*                                                                         *)
(* Every statement names both columns of the primary key                   *)
(* (locked_by_user_id, username), so locks of different pairs never meet   *)
(* and one pair is modelled: its row of candidate_contexts is lock.        *)
(* Requests are coroutines over one PostgreSQL database (READ COMMITTED):  *)
(* each SELECT is a step, and so is each INSERT or DELETE with the commit  *)
(* that follows it.  A request is one analysis (any of the three analysis  *)
(* routes), one GET or one DELETE of the context.                          *)
(***************************************************************************)
EXTENDS Integers, FiniteSets

CONSTANTS Requests,
          Roles, Orgs,
          NoContext,     \* no row
          MaxAttempts,   \* rounds of lock_context's loop (5 in the code)
          MaxResets      \* bound: rows deleted in one behaviour

Contexts == [role : Roles, org : Orgs]

ASSUME NoContextAssumption == NoContext \notin Contexts
ASSUME BoundsAssumption == MaxAttempts \in Nat \ {0} /\ MaxResets \in Nat

VARIABLES lock,     \* the row: a context, or NoContext
          recent,   \* context of the newest stored analysis, or NoContext
          resets,   \* rows deleted so far (history)
          req       \* the requests

ctxVars == <<lock, recent, resets, req>>

\* What a request holds: where it stands, whether it is a GET (it answers rather
\* than analyses), the context it asks for, the unique violations lock_context
\* has met, the locked context it was handed; and, as history, the lock and the
\* resets when it arrived.  Nothing of it outlives the request.
Idle ==
  [pc |-> "idle", viewing |-> FALSE, want |-> NoContext, tries |-> 0,
   got |-> NoContext, lockThen |-> NoContext, resetsThen |-> 0]

Init ==
  /\ lock = NoContext
  /\ recent = NoContext
  /\ resets = 0
  /\ req = [r \in Requests |-> Idle]

Finished == {"admitted", "refused", "answered", "error", "exhausted"}

GoTo(r, label) == req' = [req EXCEPT ![r].pc = label]

Leave(r) == req' = [req EXCEPT ![r] = Idle]

Arrive(r, label, view, context) ==
  /\ req[r].pc = "idle"
  /\ req' = [req EXCEPT ![r] = [pc |-> label, viewing |-> view, want |-> context,
                                tries |-> 0, got |-> NoContext,
                                lockThen |-> lock, resetsThen |-> resets]]
  /\ UNCHANGED <<lock, recent, resets>>

StartAnalysis(r) == \E context \in Contexts : Arrive(r, "validate", FALSE, context)

StartView(r) == Arrive(r, "view", TRUE, NoContext)

StartReset(r) ==
  /\ resets + Cardinality({q \in Requests : req[q].pc \in {"reset", "delete"}}) < MaxResets
  /\ Arrive(r, "reset", FALSE, NoContext)

\* The request is handed a locked context: validate_context admits the analysis
\* without looking at it again, the GET route answers with it.
Obtain(r, context) ==
  req' = [req EXCEPT ![r].got = context,
                     ![r].pc = IF req[r].viewing THEN "answered" ELSE "admitted"]

-----------------------------------------------------------------------------
\* Mutant of Matches: the two comparisons joined the wrong way.
MatchesEither(c, d) == c.role = d.role \/ c.org = d.org

\* The comparison of validate_context.
Matches(c, d) == c.role = d.role /\ c.org = d.org

\* validate_context, its own SELECT: with a row in place the request is compared
\* with it, without one it goes on to lock.
ValidateRead(r) ==
  /\ req[r].pc = "validate"
  /\ \/ lock = NoContext /\ GoTo(r, "lock")
     \/ lock # NoContext /\ Matches(lock, req[r].want) /\ Obtain(r, lock)
     \/ lock # NoContext /\ ~Matches(lock, req[r].want) /\ GoTo(r, "refused")
  /\ UNCHANGED <<lock, recent, resets>>

\* get_candidate_context: the row, if there is one.
ViewRead(r) ==
  /\ req[r].pc = "view"
  /\ \/ lock # NoContext /\ Obtain(r, lock)
     \/ lock = NoContext /\ GoTo(r, "recent")
  /\ UNCHANGED <<lock, recent, resets>>

\* Its second SELECT: a lock on the newest analysis, else 404.
RecentRead(r) ==
  /\ req[r].pc = "recent"
  /\ \/ /\ recent # NoContext
        /\ req' = [req EXCEPT ![r].want = recent, ![r].pc = "lock"]
     \/ recent = NoContext /\ Leave(r)
  /\ UNCHANGED <<lock, recent, resets>>

\* lock_context, head of the loop: a row found is returned as it is.
LockRead(r) ==
  /\ req[r].pc = "lock"
  /\ req[r].tries < MaxAttempts
  /\ \/ lock # NoContext /\ Obtain(r, lock)
     \/ lock = NoContext /\ GoTo(r, "insert")
  /\ UNCHANGED <<lock, recent, resets>>

\* Mutant of LockInsert: after a unique violation the unsaved row is returned.
LockInsertReturnsOwn(r) ==
  /\ req[r].pc = "insert"
  /\ \/ lock = NoContext /\ lock' = req[r].want /\ GoTo(r, "refresh")
     \/ lock # NoContext /\ Obtain(r, req[r].want) /\ UNCHANGED lock
  /\ UNCHANGED <<recent, resets>>

\* Mutant of LockInsert: retries the INSERT itself, never the SELECT.
LockInsertAgain(r) ==
  /\ req[r].pc = "insert"
  /\ \/ lock = NoContext /\ lock' = req[r].want /\ GoTo(r, "refresh")
     \/ lock # NoContext /\ UNCHANGED <<lock, req>>
  /\ UNCHANGED <<recent, resets>>

\* Mutant of LockInsert: the first unique violation uses up every attempt.
LockInsertOnce(r) ==
  /\ req[r].pc = "insert"
  /\ \/ lock = NoContext /\ lock' = req[r].want /\ GoTo(r, "refresh")
     \/ /\ lock # NoContext
        /\ req' = [req EXCEPT ![r].tries = MaxAttempts, ![r].pc = "lock"]
        /\ UNCHANGED lock
  /\ UNCHANGED <<recent, resets>>

\* INSERT and commit: the row is in place, or a unique violation, rollback and another
\* round.
LockInsert(r) ==
  /\ req[r].pc = "insert"
  /\ \/ lock = NoContext /\ lock' = req[r].want /\ GoTo(r, "refresh")
     \/ /\ lock # NoContext
        /\ req' = [req EXCEPT ![r].tries = @ + 1, ![r].pc = "lock"]
        /\ UNCHANGED lock
  /\ UNCHANGED <<recent, resets>>

\* refresh: the row as it is now, which may be another's after a reset; with no row it
\* fails, and the error is raised again.
LockRefresh(r) ==
  /\ req[r].pc = "refresh"
  /\ \/ lock # NoContext /\ Obtain(r, lock)
     \/ lock = NoContext /\ GoTo(r, "error")
  /\ UNCHANGED <<lock, recent, resets>>

\* Either fails for another reason: rollback, and the error is raised again.
LockInsertError(r) ==
  /\ req[r].pc \in {"insert", "refresh"}
  /\ GoTo(r, "error")
  /\ UNCHANGED <<lock, recent, resets>>

\* The fetch after the last attempt; with no row even now, RuntimeError.
LockFinalRead(r) ==
  /\ req[r].pc = "lock"
  /\ req[r].tries = MaxAttempts
  /\ \/ lock # NoContext /\ Obtain(r, lock)
     \/ lock = NoContext /\ GoTo(r, "exhausted")
  /\ UNCHANGED <<lock, recent, resets>>

\* reset_context: nothing to reset is a 404.
ResetRead(r) ==
  /\ req[r].pc = "reset"
  /\ \/ lock = NoContext /\ Leave(r)
     \/ lock # NoContext /\ GoTo(r, "delete")
  /\ UNCHANGED <<lock, recent, resets>>

\* DELETE by primary key and commit: whatever row is there now, also one locked
\* since the SELECT; no row at all is no error.
ResetDelete(r) ==
  /\ req[r].pc = "delete"
  /\ lock' = NoContext
  /\ resets' = IF lock = NoContext THEN resets ELSE resets + 1
  /\ Leave(r)
  /\ UNCHANGED recent

\* The admitted analysis is stored under the context it asked for.
StoreAnalysis(r) ==
  /\ req[r].pc = "admitted"
  /\ recent' = req[r].want
  /\ Leave(r)
  /\ UNCHANGED <<lock, resets>>

\* The response is sent; an admitted analysis may also fail before it is stored.
Respond(r) ==
  /\ req[r].pc \in Finished
  /\ Leave(r)
  /\ UNCHANGED <<lock, recent, resets>>

RequestStep(r) ==
  \/ ValidateRead(r) \/ ViewRead(r) \/ RecentRead(r)
  \/ LockRead(r) \/ LockInsert(r) \/ LockRefresh(r) \/ LockFinalRead(r)
  \/ ResetRead(r) \/ ResetDelete(r)
  \/ StoreAnalysis(r) \/ Respond(r)

Next ==
  \E r \in Requests :
    \/ StartAnalysis(r) \/ StartView(r) \/ StartReset(r)
    \/ RequestStep(r)
    \/ LockInsertError(r)

Spec == Init /\ [][Next]_ctxVars

\* The event loop runs every coroutine whose statement has been answered; that a
\* statement fails is never owed.
FairSpec == Spec /\ \A r \in Requests : WF_ctxVars(RequestStep(r))

-----------------------------------------------------------------------------
\* Types of the row, of the history and of the requests.
RequestType ==
  [pc : {"idle", "validate", "view", "recent", "lock", "insert", "refresh", "reset",
         "delete"} \cup Finished,
   viewing : BOOLEAN,
   want : Contexts \cup {NoContext},
   tries : 0..MaxAttempts,
   got : Contexts \cup {NoContext},
   lockThen : Contexts \cup {NoContext},
   resetsThen : Nat]

TypeOK ==
  /\ lock \in Contexts \cup {NoContext}
  /\ recent \in Contexts \cup {NoContext}
  /\ resets \in Nat
  /\ req \in [Requests -> RequestType]
  /\ \A r \in Requests :
       /\ req[r].pc \in {"validate", "lock", "insert", "refresh", "admitted"} => req[r].want \in Contexts
       /\ req[r].resetsThen <= resets

\* The rows deleted since the request arrived.
ResetsDuring(r) == resets - req[r].resetsThen

\* A lock in place is never replaced by another: it can only be reset.  Two
\* first analyses that race to lock must not overwrite each other.
LockOnlyReset ==
  [][lock # NoContext => lock' \in {lock, NoContext}]_ctxVars

\* lock_context gives up (RuntimeError) only if the row was deleted at least
\* MaxAttempts times while it ran: each further unique violation needs a reset
\* since the one before, otherwise the re-read would have found the row.
ExhaustionNeedsResets ==
  \A r \in Requests : req[r].pc = "exhausted" => ResetsDuring(r) >= MaxAttempts

\* An analysis that arrives when a context is already locked, and meets no
\* reset, is admitted only for that context ("All subsequent analyses by this
\* user must use the same context").
LateAnalysesAgree ==
  \A r \in Requests :
    req[r].pc = "admitted" /\ req[r].lockThen # NoContext /\ ResetsDuring(r) = 0
      => req[r].want = lock

\* The context a request is handed, after however many retries, is the one in
\* force, unless it was reset since the request arrived.
HandedLockInForce ==
  \A r \in Requests : req[r].got # NoContext /\ ResetsDuring(r) = 0 => req[r].got = lock

\* Every request is answered: the retry loop ends.
RequestsAnswered == \A r \in Requests : req[r].pc # "idle" ~> req[r].pc = "idle"
=============================================================================
