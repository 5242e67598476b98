---------------------------- MODULE Cancellation ----------------------------
(***************************************************************************)
(* CancellationService (services/cancellation_service.py): the in-memory   *)
(* registry of analyses that may still be cancelled, kept by one API       *)
(* process.  Two dictionaries describe the same tasks: _running_tasks by   *)
(* task id, _user_tasks by user.  Every method runs without an await       *)
(* between its first read and its last write, so each is one action.       *)
(*                                                                         *)
(* Time is abstracted to what the service compares it with: a task is      *)
(* registered with its window open (10 s for a single analysis, 30 s for a *)
(* batch) and the deadline passes some time later.  A RunningTask's status *)
(* leaves RUNNING only in the call that also removes it, so the registry   *)
(* holds no status.                                                        *)
(***************************************************************************)
CONSTANTS TaskIds,   \* task ids the routes make up
          Users,
          OwnerOf    \* the user a task id is made for

\* A single id contains the user id, a batch id is a fresh uuid4: an id never
\* changes hands.
ASSUME OwnerOfType == OwnerOf \in [TaskIds -> Users]

VARIABLES running,    \* _running_tasks: id -> [user, open]
          userTasks   \* _user_tasks: user -> non-empty set of ids

cancelVars == <<running, userTasks>>

InitCancellation ==
  /\ running = [t \in {} |-> {}]
  /\ userTasks = [u \in {} |-> {}]

\* _user_tasks.get(u, set()).
TasksOf(u) == IF u \in DOMAIN userTasks THEN userTasks[u] ELSE {}

\* register_task: an id already present is overwritten, its deadline with it.
RegisterTask(t, u) ==
  /\ running' = [s \in DOMAIN running \cup {t} |->
                   IF s = t THEN [user |-> u, open |-> TRUE] ELSE running[s]]
  /\ userTasks' = [v \in DOMAIN userTasks \cup {u} |-> TasksOf(v) \cup
                     (IF v = u THEN {t} ELSE {})]

\* _cleanup_task for every id of ts: out of _running_tasks, out of its user's
\* set, and the user out of _user_tasks when that set is left empty.
Cleanup(ts) ==
  LET gone(u) == {t \in ts : running[t].user = u}
  IN /\ running' = [t \in DOMAIN running \ ts |-> running[t]]
     /\ userTasks' = [u \in {v \in DOMAIN userTasks : ~(userTasks[v] \subseteq gone(v))}
                        |-> userTasks[u] \ gone(u)]

\* The ownership test of cancel_task, then can_cancel_task.
CanCancel(t, u) ==
  /\ t \in DOMAIN running
  /\ running[t].user = u
  /\ running[t].open

\* cancel_task, when it succeeds.  No caller registers an asyncio task, so
\* there is none to cancel.
CancelTask(t, u) == CanCancel(t, u) /\ Cleanup({t})

\* complete_task, whatever the final status: nothing for an id it does not know.
CompleteTask(t) == Cleanup({t} \cap DOMAIN running)

\* cleanup_expired_tasks.
Expired == {t \in DOMAIN running : ~running[t].open}

CleanupExpiredTasks == Expired # {} /\ Cleanup(Expired)

\* The wall clock passes the cancel_deadline of t.
PassDeadline(t) ==
  /\ t \in DOMAIN running
  /\ running[t].open
  /\ running' = [running EXCEPT ![t] = [@ EXCEPT !.open = FALSE]]
  /\ UNCHANGED userTasks

NextCancellation ==
  \/ \E t \in TaskIds : RegisterTask(t, OwnerOf[t])
  \/ \E t \in TaskIds, u \in Users : CancelTask(t, u)
  \/ \E t \in TaskIds : t \in DOMAIN running /\ CompleteTask(t)
  \/ CleanupExpiredTasks
  \/ \E t \in TaskIds : PassDeadline(t)

SpecCancellation == InitCancellation /\ [][NextCancellation]_cancelVars

-----------------------------------------------------------------------------
\* The registry holds made-up ids, each for the user it was made for.
RunningTypeOK ==
  /\ running \in [DOMAIN running -> [user : Users, open : BOOLEAN]]
  /\ DOMAIN running \subseteq TaskIds
  /\ \A t \in DOMAIN running : running[t].user = OwnerOf[t]

\* The index _user_tasks ought to be: who has a task, and which.
IndexOf(r) ==
  [u \in {r[t].user : t \in DOMAIN r} |-> {t \in DOMAIN r : r[t].user = u}]

\* The two dictionaries agree at every moment: a user is listed exactly while
\* one of the registered tasks is theirs, and with exactly those tasks.  Were
\* they to drift apart, get_user_running_tasks would hide a running task, or a
\* user with no task would be kept for ever.
RegistryConsistent == userTasks = IndexOf(running)
=============================================================================
