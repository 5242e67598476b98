-------------------------- MODULE MCUsageReporting --------------------------
(***************************************************************************)
(* Instances of UsageReporting: two users and three records, of which one   *)
(* run fetches two, so that a group can be cut by the limit, be continued   *)
(* by a later record and follow a group of another user or period.          *)
(***************************************************************************)
EXTENDS UsageReporting

CONSTANTS o1, o2, hourly, manual

MCOwners == {o1, o2}
\* The scheduler's own loop runs a task only after the one before it has ended.
OneAtATime == {hourly}
\* POST /scheduler/tasks/{name}/run executes the task whatever the loop is doing.
WithManual == {hourly, manual}
=============================================================================
