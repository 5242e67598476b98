-------------------------- MODULE ConcurrencySlots --------------------------
(***************************************************************************)
(* The slots an /analyze request must hold while it runs: one of its user's *)
(* and one of the whole system's, counted by semaphores in Redis           *)
(* (api/services/rate_limit_service.py, rate_limit_dependencies.py).       *)
(*                                                                         *)
(* Every Redis command is one step and any number of requests of any       *)
(* worker process interleave between them.  acquire is optimistic: GET,    *)
(* and with a slot free INCR; the INCR that ends above the limit is taken  *)
(* back by a DECR and the request sleeps and tries again until it times    *)
(* out; the one that does not is followed by EXPIRE, and a key expires     *)
(* 600 s after its last.  A worker may die between any two commands of its *)
(* request, whose slots remain counted.                                    *)
(*                                                                         *)
(* RedisService answers for a client that is not connected, and for a      *)
(* command that fails, what an absent key and a count of 0 would: None to  *)
(* GET, 0 to INCR and DECR.  Replies says whether commands are carried out *)
(* always, never or sometimes.                                             *)
(***************************************************************************)
EXTENDS Integers, FiniteSets

CONSTANTS Requests, Users,
          UserOf,         \* whose request it is
          Global,         \* the key rate_limit:global; rate_limit:user:u is u
          MaxConcurrent,  \* limit of each key
          Replies,        \* {TRUE}: Redis replies; {FALSE}: not connected; both: may fail
          Mortal          \* the requests whose worker may die

Keys == Users \cup {Global}

ASSUME RequestsFinite == IsFiniteSet(Requests)
ASSUME UserOfType == UserOf \in [Requests -> Users]
ASSUME GlobalIsNoUser == Global \notin Users
ASSUME MaxConcurrentType == MaxConcurrent \in [Keys -> Nat \ {0}]
ASSUME RepliesType == Replies # {} /\ Replies \subseteq BOOLEAN
ASSUME MortalType == Mortal \subseteq Requests

VARIABLES count,  \* Redis: the counter of each key
          key,    \* Redis: whether the key is there, and with an expiry
          stage,  \* which slot a request is after, or gives back
          step,   \* where it is within acquire and release
          lost,   \* history: the requests of dead workers that each key still counts
          outlasted  \* history: the keys that expired under requests they counted

slotVars == <<count, key, stage, step, lost, outlasted>>

Stages == {"idle", "user", "global", "running", "dropUser", "exitGlobal", "dead"}

Init ==
  /\ count = [k \in Keys |-> 0]
  /\ key = [k \in Keys |-> "gone"]
  /\ stage = [r \in Requests |-> "idle"]
  /\ step = [r \in Requests |-> "get"]
  /\ lost = [k \in Keys |-> {}]
  /\ outlasted = {}

\* The key a request works on.
KeyOf(r) == IF stage[r] \in {"global", "exitGlobal"} THEN Global ELSE UserOf[r]

\* INCR or DECR, carried out or not, and what they answer.  A key that is gone is made
\* anew, without an expiry.
Count(k, by, done) ==
  /\ count' = [count EXCEPT ![k] = IF done THEN @ + by ELSE @]
  /\ key' = [key EXCEPT ![k] = IF done /\ @ = "gone" THEN "lasting" ELSE @]
Answer(k, by, done) == IF done THEN count[k] + by ELSE 0

Stage(r, s) == stage' = [stage EXCEPT ![r] = s]

\* __aenter__ begins with the user's semaphore.
Enter(r) ==
  /\ stage[r] = "idle"
  /\ Stage(r, "user")
  /\ UNCHANGED <<count, key, step, lost, outlasted>>

Acquiring(r) == stage[r] \in {"user", "global"}

\* GET; at the limit the request sleeps and will GET again.
GetCount(r) ==
  /\ Acquiring(r)
  /\ step[r] = "get"
  /\ \E done \in Replies : Answer(KeyOf(r), 0, done) < MaxConcurrent[KeyOf(r)]
  /\ step' = [step EXCEPT ![r] = "incr"]
  /\ UNCHANGED <<count, key, stage>>

\* Mutant of Incr: the answer of INCR is not looked at, the GET was enough.
IncrUnchecked(r) ==
  /\ Acquiring(r)
  /\ step[r] = "incr"
  /\ \E done \in Replies : Count(KeyOf(r), 1, done)
  /\ step' = [step EXCEPT ![r] = "expire"]
  /\ UNCHANGED stage

\* INCR, and its answer decides.
Incr(r) ==
  /\ Acquiring(r)
  /\ step[r] = "incr"
  /\ \E done \in Replies :
       /\ Count(KeyOf(r), 1, done)
       /\ step' = [step EXCEPT ![r] =
                     IF Answer(KeyOf(r), 1, done) <= MaxConcurrent[KeyOf(r)] THEN "expire" ELSE "back"]
  /\ UNCHANGED stage

\* The slot is held: on to the global semaphore, or into the handler.
Acquired(r) ==
  /\ Stage(r, IF stage[r] = "user" THEN "global" ELSE "running")
  /\ step' = [step EXCEPT ![r] = "get"]

\* Mutant of SetExpiry: the key is left without expiry.
SetExpiryForgotten(r) ==
  /\ Acquiring(r)
  /\ step[r] = "expire"
  /\ Acquired(r)
  /\ UNCHANGED <<count, key>>

\* EXPIRE, whose answer is not looked at; it does nothing when the key is gone.
SetExpiry(r) ==
  /\ Acquiring(r)
  /\ step[r] = "expire"
  /\ \E done \in Replies :
       key' = [key EXCEPT ![KeyOf(r)] = IF done /\ @ # "gone" THEN "expiring" ELSE @]
  /\ Acquired(r)
  /\ UNCHANGED count

\* Mutant of DecrBack: the counter is left where the failed INCR put it.
DecrBackForgotten(r) ==
  /\ Acquiring(r)
  /\ step[r] = "back"
  /\ step' = [step EXCEPT ![r] = "get"]
  /\ UNCHANGED <<count, key, stage>>

\* Race lost: the increment is taken back.
DecrBack(r) ==
  /\ Acquiring(r)
  /\ step[r] = "back"
  /\ \E done \in Replies : Count(KeyOf(r), -1, done)
  /\ step' = [step EXCEPT ![r] = "get"]
  /\ UNCHANGED stage

\* Five seconds are over at the head of the loop, or the answer of GET is no number
\* and the except clause gives up: 429, and a request that waited for the global slot
\* gives its user's back first.
TimeOut(r) ==
  /\ Acquiring(r)
  /\ step[r] = "get"
  /\ Stage(r, IF stage[r] = "user" THEN "idle" ELSE "dropUser")
  /\ UNCHANGED <<count, key, step, lost, outlasted>>

\* Mutant of AfterRelease: refused the global slot, the request starts over.
AfterReleaseRetries(s) == CASE s = "dropUser" -> "user"
                            [] s = "running" -> "exitGlobal"
                            [] s = "exitGlobal" -> "idle"

\* What follows: 429, the global slot, the answer.
AfterRelease(s) == CASE s = "dropUser" -> "idle"
                     [] s = "running" -> "exitGlobal"
                     [] s = "exitGlobal" -> "idle"

\* A handler that returns or raises is followed by __aexit__, the user's slot first.
Releasing(r) == stage[r] \in {"dropUser", "running", "exitGlobal"}

\* _release_semaphore: DECR; a negative answer is to be reset.
Release(r) ==
  /\ Releasing(r)
  /\ step[r] = "get"
  /\ \E done \in Replies :
       /\ Count(KeyOf(r), -1, done)
       /\ \/ /\ Answer(KeyOf(r), -1, done) >= 0
             /\ Stage(r, AfterRelease(stage[r]))
             /\ UNCHANGED step
          \/ /\ Answer(KeyOf(r), -1, done) < 0
             /\ step' = [step EXCEPT ![r] = "reset"]
             /\ UNCHANGED stage

\* Mutant of ResetCount: the count is set to one, as if the request still held its slot.
ResetCountToOne(r) ==
  /\ step[r] = "reset"
  /\ \E done \in Replies :
       /\ count' = [count EXCEPT ![KeyOf(r)] = IF done THEN 1 ELSE @]
       /\ key' = [key EXCEPT ![KeyOf(r)] = IF done THEN "expiring" ELSE @]
  /\ Stage(r, AfterRelease(stage[r]))
  /\ step' = [step EXCEPT ![r] = "get"]

\* SET "0", whatever the count has become; RedisService.set gives every key an expiry.
ResetCount(r) ==
  /\ step[r] = "reset"
  /\ \E done \in Replies :
       /\ count' = [count EXCEPT ![KeyOf(r)] = IF done THEN 0 ELSE @]
       /\ key' = [key EXCEPT ![KeyOf(r)] = IF done THEN "expiring" ELSE @]
  /\ Stage(r, AfterRelease(stage[r]))
  /\ step' = [step EXCEPT ![r] = "get"]

-----------------------------------------------------------------------------
\* The requests that hold a slot of the key: from the INCR that stayed within the limit.
Holders(k) ==
  {r \in Requests :
     \/ Acquiring(r) /\ step[r] = "expire" /\ KeyOf(r) = k
     \/ k = Global /\ stage[r] \in {"running", "exitGlobal"}
     \/ k = UserOf[r] /\ stage[r] \in {"global", "running", "dropUser"}}

\* The requests whose INCR went over the limit and is not yet taken back.
Overshooting(k) == {r \in Requests : Acquiring(r) /\ step[r] = "back" /\ KeyOf(r) = k}

\* What a key ought to count: also the slots of workers that died.
Counted(k) == Holders(k) \cup Overshooting(k) \cup lost[k]

\* The key expires: its last EXPIRE is 600 s ago, so that whoever holds a slot has
\* outlasted it or has just made its INCR, or nobody does and what it counts was left
\* behind.
Expire(k) ==
  /\ key[k] = "expiring"
  /\ \A r \in Holders(k) : stage[r] \in {"user", "global", "dropUser"} =>
                            step[r] = "expire" /\ KeyOf(r) = k
  /\ count' = [count EXCEPT ![k] = 0]
  /\ key' = [key EXCEPT ![k] = "gone"]
  /\ lost' = [lost EXCEPT ![k] = {}]
  /\ outlasted' = IF Holders(k) \cup Overshooting(k) = {} THEN outlasted ELSE outlasted \cup {k}
  /\ UNCHANGED <<stage, step>>

\* The worker dies: nobody releases what its request holds.
Die(r) ==
  /\ r \in Mortal
  /\ stage[r] \notin {"idle", "dead"}
  /\ Stage(r, "dead")
  /\ step' = [step EXCEPT ![r] = IF @ = "expire" THEN @ ELSE "get"]
  /\ lost' = [k \in Keys |-> IF r \in Counted(k) THEN lost[k] \cup {r} ELSE lost[k]]
  /\ UNCHANGED <<count, key, outlasted>>

RequestStep(r) ==
  /\ \/ GetCount(r) \/ Incr(r) \/ SetExpiry(r) \/ DecrBack(r) \/ TimeOut(r)
     \/ Release(r) \/ ResetCount(r)
  /\ UNCHANGED <<lost, outlasted>>

Next ==
  \/ \E r \in Requests : Enter(r) \/ RequestStep(r) \/ Die(r)
  \/ \E k \in Keys : Expire(k)

Spec == Init /\ [][Next]_slotVars

\* Coroutines whose command is answered run on, and handlers end (each of their own
\* calls has a time-out).  Strong fairness of the time-out: the clock runs on while
\* the loop goes round, and every round begins by looking at it.
FairSpec ==
  Spec /\ \A r \in Requests : WF_slotVars(RequestStep(r)) /\ SF_slotVars(TimeOut(r))

-----------------------------------------------------------------------------
\* Types, and the command each stage can be at.
TypeOK ==
  /\ count \in [Keys -> Int]
  /\ key \in [Keys -> {"gone", "lasting", "expiring"}]
  /\ stage \in [Requests -> Stages]
  /\ step \in [Requests -> {"get", "incr", "expire", "back", "reset"}]
  /\ lost \in [Keys -> SUBSET {r \in Requests : stage[r] = "dead"}]
  /\ outlasted \subseteq Keys
  /\ \A r \in Requests : /\ step[r] \in {"incr", "back"} => Acquiring(r)
                         /\ step[r] = "expire" => Acquiring(r) \/ stage[r] = "dead"
                         /\ step[r] = "reset" => Releasing(r)

\* The limits of the configuration ("Max concurrent analyses per user", "Max
\* concurrent analyses system-wide"): no user and no system has more analyses
\* running than its limit, whatever the interleaving of GETs and INCRs and whichever
\* workers die, until a key expires under an analysis.
HoldersBounded ==
  \A k \in Keys \ outlasted : Cardinality(Holders(k)) <= MaxConcurrent[k]

\* Until then the counter is exact: the slots held, the increments about to be taken
\* back, and what dead workers held since the key last expired.  So no slot is lost
\* otherwise, and a release never drives the counter below zero.
CountIsHolders ==
  \A k \in Keys \ outlasted : count[k] = Cardinality(Counted(k))

\* Even when keys expire under analyses that go on, and releases drive the counter
\* below zero and reset it, a count never stays above what is held or was lost with a
\* worker: an expiry lets too many in, and locks nobody out.
NeverOvercounts == \A k \in Keys : count[k] <= Cardinality(Counted(k))

\* "Set expiry to prevent stale counts": whatever a key counts goes away by itself one
\* day, except for a worker that died between INCR and EXPIRE: the key then waits for
\* the next acquisition, which with a limit of one never comes.
StaleCountsExpire ==
  \A k \in Keys : count[k] > 0 =>
    key[k] = "expiring" \/ \E r \in Counted(k) : step[r] = "expire" /\ (Acquiring(r) => KeyOf(r) = k)

\* The optimistic GET, INCR and DECR are together an atomic semaphore per key: every
\* step takes one free slot, gives one back, changes no holder, or is a death or the
\* expiry from which on the key's limit no longer holds.
Promise == INSTANCE Slots WITH Limit <- MaxConcurrent,
                               holders <- [k \in Keys |-> Holders(k)]

IsSemaphore == Promise!Spec

\* Nobody waits for ever: neither for a slot nor, holding the user's slot, for the
\* global one, not even for slots that dead workers hold.
Answered == \A r \in Requests : stage[r] # "idle" ~> stage[r] \in {"idle", "dead"}
=============================================================================
