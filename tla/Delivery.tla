------------------------------ MODULE Delivery ------------------------------
(***************************************************************************)
(* Notifications on the server: the subscriber that writes the rows        *)
(* (gateway/notification_service.py), the workers that deliver them        *)
(* (notification_worker/main.py), and mark-read.                           *)
(*                                                                         *)
(* A worker keeps a task only in its own memory between BRPOP and SETEX:   *)
(* whatever breaks it in between, its process or an exception that         *)
(* process_one_task swallows, loses the task.                              *)
(***************************************************************************)
EXTENDS Naturals, Sequences, FiniteSets

CONSTANTS
    Workers,
    Ids,       \* ids of notifications
    Strays,    \* the ids no row will ever have
    MaxTasks,  \* bound on the tasks ever queued
    MaxBreaks, \* bound on the times a worker breaks with a task of an id
    MaxExpired \* bound on the times the key of an id expires

ASSUME DeliveryConfig ==
    /\ IsFiniteSet(Workers)
    /\ Ids # {} /\ Strays \subseteq Ids
    /\ MaxTasks \in Nat /\ MaxBreaks \in Nat /\ MaxExpired \in Nat

VARIABLES
    status,  \* NOTIFICATION.status of each row
    queue,   \* the Redis list 'notification-queue', the next task to pop first
    keys,    \* the ids whose notification:delivered key is there
    at,      \* where each worker is in process_one_task
    task,    \* the task it popped last
    queued,  \* tasks ever queued
    broken,  \* times a worker broke with a task of each id
    expired, \* history: times the key of each id expired
    made,    \* history: deliveries of each id, by whatever worker
    lost,    \* history: those of them whose worker broke before it set the key
    raced    \* history: times a worker found no key while another held the id

vars == <<status, queue, keys, at, task, queued, broken, expired, made, lost, raced>>

Statuses == {"none", "pending", "sent", "failed", "read"}
Tasks == [id : Ids, channels : SUBSET {"in_app", "email"}]
Places == {"idle", "popped", "checked", "fetched", "delivered", "saved"}

Init ==
    /\ status = [n \in Ids |-> "none"]
    /\ queue = <<>> /\ keys = {}
    /\ at = [w \in Workers |-> "idle"]
    /\ task = [w \in Workers |-> CHOOSE t \in Tasks : TRUE]
    /\ queued = 0
    /\ broken = [n \in Ids |-> 0] /\ expired = [n \in Ids |-> 0]
    /\ made = [n \in Ids |-> 0] /\ lost = [n \in Ids |-> 0] /\ raced = [n \in Ids |-> 0]

Id(w) == task[w].id

At(w, place) == at[w] = place

Goto(w, place) == at' = [at EXCEPT ![w] = place]

\* The workers past EXISTS that have not delivered, and those that still owe the key.
Undelivered(n) == {w \in Workers : Id(w) = n /\ at[w] \in {"checked", "fetched"}}
Owing(n) == {w \in Workers : Id(w) = n /\ at[w] \in {"delivered", "saved"}}
-----------------------------------------------------------------------------
\* handle_event, for an insight that passes the merchant's preferences: a new
\* row.  Its own _enqueue_delivery pushes nothing: json.dumps refuses the UUID,
\* and the exception is swallowed, as it is when Redis cannot be reached.
Notify(n) ==
    /\ status[n] = "none" /\ n \notin Strays
    /\ status' = [status EXCEPT ![n] = "pending"]
    /\ UNCHANGED <<queue, keys, at, task, queued, broken, expired, made, lost, raced>>

\* Whoever queues tasks, and queues them again; the id of a row exists only
\* once the row does.
Queue(t) ==
    /\ queued < MaxTasks
    /\ status[t.id] # "none" \/ t.id \in Strays
    /\ queue' = Append(queue, t)
    /\ queued' = queued + 1
    /\ UNCHANGED <<status, keys, at, task, broken, expired, made, lost, raced>>

\* NotificationMarkReadController.post
MarkRead(n) ==
    /\ status[n] # "none"
    /\ status' = [status EXCEPT ![n] = "read"]
    /\ UNCHANGED <<queue, keys, at, task, queued, broken, expired, made, lost, raced>>

\* 86400 seconds after SETEX.
Expire(n) ==
    /\ n \in keys /\ expired[n] < MaxExpired
    /\ keys' = keys \ {n}
    /\ expired' = [expired EXCEPT ![n] = @ + 1]
    /\ UNCHANGED <<status, queue, at, task, queued, broken, made, lost, raced>>
-----------------------------------------------------------------------------
\* process_one_task
Pop(w) ==
    /\ At(w, "idle") /\ queue # <<>>
    /\ task' = [task EXCEPT ![w] = Head(queue)]
    /\ queue' = Tail(queue)
    /\ Goto(w, "popped")
    /\ UNCHANGED <<status, keys, queued, broken, expired, made, lost, raced>>

\* Mutant of Duplicate: the key is not looked at.
NoDuplicate(w) == FALSE

Duplicate(w) == Id(w) \in keys

CheckKey(w) ==
    /\ At(w, "popped")
    /\ Goto(w, IF Duplicate(w) THEN "idle" ELSE "checked")
    /\ raced' = IF ~Duplicate(w) /\ Undelivered(Id(w)) \cup Owing(Id(w)) # {}
                THEN [raced EXCEPT ![Id(w)] = @ + 1] ELSE raced
    /\ UNCHANGED <<status, queue, keys, task, queued, broken, expired, made, lost>>

\* Mutant of Missing: an id without a row is given up without a key.
MissingKeyless(w) ==
    /\ At(w, "checked") /\ status[Id(w)] = "none"
    /\ Goto(w, "idle")
    /\ UNCHANGED <<status, queue, keys, task, queued, broken, expired, made, lost, raced>>

Missing(w) ==
    /\ At(w, "checked") /\ status[Id(w)] = "none"
    /\ keys' = keys \cup {Id(w)}
    /\ Goto(w, "idle")
    /\ UNCHANGED <<status, queue, task, queued, broken, expired, made, lost, raced>>

Fetch(w) ==
    /\ At(w, "checked") /\ status[Id(w)] # "none"
    /\ Goto(w, "fetched")
    /\ UNCHANGED <<status, queue, keys, task, queued, broken, expired, made, lost, raced>>

Deliver(w) ==
    /\ At(w, "fetched")
    /\ made' = [made EXCEPT ![Id(w)] = @ + 1]
    /\ Goto(w, "delivered")
    /\ UNCHANGED <<status, queue, keys, task, queued, broken, expired, lost, raced>>

\* Mutant of Outcome: the row takes the word of the adapter.
OutcomeSkipped(w) == IF "email" \in task[w].channels THEN "skipped" ELSE "sent"

\* Mutant of Outcome: a row is only marked when all went well.
OutcomeSent(w) == IF "email" \in task[w].channels THEN "pending" ELSE "sent"

\* The payloads of the service satisfy the in-app adapter, and name no recipient
\* for the email adapter, which skips; a skip counts as a failure.
Outcome(w) == IF "email" \in task[w].channels THEN "failed" ELSE "sent"

\* The row fetched before the delivery is saved after it, whatever its status is by now.
Save(w) ==
    /\ At(w, "delivered")
    /\ status' = [status EXCEPT ![Id(w)] = Outcome(w)]
    /\ Goto(w, "saved")
    /\ UNCHANGED <<queue, keys, task, queued, broken, expired, made, lost, raced>>

SetKey(w) ==
    /\ At(w, "saved")
    /\ keys' = keys \cup {Id(w)}
    /\ Goto(w, "idle")
    /\ UNCHANGED <<status, queue, task, queued, broken, expired, made, lost, raced>>

\* An exception of Redis, of the database, or the end of the process.
Break(w) ==
    /\ ~At(w, "idle") /\ broken[Id(w)] < MaxBreaks
    /\ broken' = [broken EXCEPT ![Id(w)] = @ + 1]
    /\ lost' = IF w \in Owing(Id(w)) THEN [lost EXCEPT ![Id(w)] = @ + 1] ELSE lost
    /\ Goto(w, "idle")
    /\ UNCHANGED <<status, queue, keys, task, queued, expired, made, raced>>

Work(w) ==
    \/ Pop(w) \/ CheckKey(w) \/ Missing(w) \/ Fetch(w)
    \/ Deliver(w) \/ Save(w) \/ SetKey(w)

Next ==
    \/ \E n \in Ids : Notify(n) \/ MarkRead(n) \/ Expire(n)
    \/ \E t \in Tasks : Queue(t)
    \/ \E w \in Workers : Work(w) \/ Break(w)

\* main loops for ever, whatever process_one_task raises.
Fairness == \A w \in Workers : WF_vars(Work(w))

Spec == Init /\ [][Next]_vars /\ Fairness
-----------------------------------------------------------------------------
TypeOK ==
    /\ status \in [Ids -> Statuses]
    /\ queue \in Seq(Tasks)
    /\ keys \subseteq Ids
    /\ at \in [Workers -> Places]
    /\ task \in [Workers -> Tasks]
    /\ queued \in 0..MaxTasks
    /\ broken \in [Ids -> 0..MaxBreaks] /\ expired \in [Ids -> 0..MaxExpired]
    /\ made \in [Ids -> Nat] /\ lost \in [Ids -> Nat] /\ raced \in [Ids -> Nat]

(***************************************************************************)
(* However often an id is queued, and whichever workers take its tasks, it *)
(* is delivered once, and once more for each time its key expired, a       *)
(* worker broke between delivery and key, or two were between EXISTS and   *)
(* SETEX together.                                                         *)
(***************************************************************************)
RedeliveryExplained ==
    \A n \in Ids : made[n] <= 1 + expired[n] + lost[n] + raced[n]

(***************************************************************************)
(* What main.py:4-6 says: "duplicate delivery attempts for the same         *)
(* notification are deduplicated".  While the key lasts and nobody breaks, *)
(* an id is delivered once.  Two workers with a task of one id each find   *)
(* no key, and deliver both.                                               *)
(***************************************************************************)
DuplicatesDeduplicated ==
    \A n \in Ids : expired[n] = 0 /\ lost[n] = 0 => made[n] <= 1

(***************************************************************************)
(* The key that makes the workers skip an id is there only when its row    *)
(* is settled: a break never leaves a row pending that no task can move.   *)
(***************************************************************************)
KeyMeansSettled ==
    \A n \in keys \ Strays : status[n] \notin {"none", "pending"}

(***************************************************************************)
(* The queue does not run dry by forgetting: a queued id gets its key,     *)
(* unless a worker broke with a task of that id.                           *)
(***************************************************************************)
QueuedGetsKey ==
    \A n \in Ids : (\E i \in 1..Len(queue) : queue[i].id = n) ~> (n \in keys \/ broken[n] > 0)
=============================================================================
