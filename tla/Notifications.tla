---------------------------- MODULE Notifications ----------------------------
(* apps/notifications_agent: POST /v1/notify, the asyncio delivery tasks that *)
(* dispatch_job starts, their bookkeeping in Postgres, and the DLQ replay.    *)
(*                                                                            *)
(* A request's session commits only when FastAPI closes the get_db            *)
(* dependency, after the handler returned; the delivery tasks are already     *)
(* running by then.  Hence three steps per request: check, dispatch, commit.  *)
(* Every await of a task is a point where other tasks and requests run.       *)
EXTENDS Integers, FiniteSets

CONSTANTS
    Requests,       \* POST /v1/notify calls; a request also names the job id it draws
    Keys,           \* idempotency keys
    Channels,       \* channel names
    Want,           \* request -> channels the caller names, {} for none
    Sensitive,      \* requests with sensitivity=sensitive: body_stored is null
    DefaultRoute,   \* the channels _DEFAULT_ROUTES gives when the caller names none
    MaxAttempts,    \* dispatch_job's max_attempts
    MaxPosts,       \* posts one channel.send() may issue (_MAX_RETRIES of telegram)
    MaxDispatches,  \* bound: dispatches of one job, replays included
    MaxMishaps      \* bound: crashes and database errors in a behaviour

ASSUME NotificationsAssumption ==
    /\ DefaultRoute \subseteq Channels /\ DefaultRoute # {}
    /\ Want \in [Requests -> SUBSET Channels]
    /\ Sensitive \subseteq Requests
    /\ MaxAttempts \in Nat \ {0}
    /\ MaxPosts \in Nat \ {0}
    /\ MaxDispatches \in Nat \ {0}
    /\ MaxMishaps \in Nat

VARIABLES
    req,         \* request -> [key, pc, job]
    row,         \* job -> [status, fresh]: committed notification_jobs rows
    task,        \* job -> channel -> [pc, attempt, result]: _deliver_channel coroutines
    fin,         \* job -> state of its _finalize task
    sentRows,    \* job -> channel -> committed deliveries with status "sent"
    failedRows,  \* job -> channel -> committed deliveries with status "failed"
    acked,       \* job -> channel -> sends that returned success
    posted,      \* job -> channel -> messages the provider may have accepted
    dispatched,  \* job -> calls of dispatch_job
    mishaps      \* crashes and database errors so far

vars == <<req, row, task, fin, sentRows, failedRows, acked, posted, dispatched, mishaps>>

Idle == [pc |-> "off", attempt |-> 0, result |-> "none"]
NoRow == [status |-> "none", fresh |-> FALSE]
Statuses == {"none", "pending", "succeeded", "partial", "failed"}

TypeOK ==
    /\ req \in [Requests -> [key : Keys,
                             pc : {"new", "checked", "commit", "accepted", "dedup",
                                   "rejected", "error", "lost"},
                             job : Requests]]
    /\ row \in [Requests -> [status : Statuses, fresh : BOOLEAN]]
    /\ task \in [Requests -> [Channels -> [pc : {"off", "try", "record", "done"},
                                           attempt : 0..MaxAttempts,
                                           result : {"none", "ok", "fail"}]]]
    /\ fin \in [Requests -> {"off", "wait", "done"}]
    /\ sentRows \in [Requests -> [Channels -> Nat]]
    /\ failedRows \in [Requests -> [Channels -> Nat]]
    /\ acked \in [Requests -> [Channels -> Nat]]
    /\ posted \in [Requests -> [Channels -> Nat]]
    /\ dispatched \in [Requests -> Nat]
    /\ mishaps \in Nat

Zero == [r \in Requests |-> [c \in Channels |-> 0]]

Init ==
    /\ req \in [Requests -> [key : Keys, pc : {"new"}, job : Requests]]
    /\ \A r \in Requests : req[r].job = r
    /\ row = [r \in Requests |-> NoRow]
    /\ task = [r \in Requests |-> [c \in Channels |-> Idle]]
    /\ fin = [r \in Requests |-> "off"]
    /\ sentRows = Zero /\ failedRows = Zero
    /\ acked = Zero /\ posted = Zero
    /\ dispatched = [r \in Requests |-> 0]
    /\ mishaps = 0

-----------------------------------------------------------------------------
(* The notification_jobs table.                                              *)

Committed(j) == row[j].status # "none"

\* Committed jobs with this key whose 24 h window is open.
get_job_by_idempotency_key(k) ==
    {j \in Requests : Committed(j) /\ row[j].fresh /\ req[j].key = k}

\* notification_jobs.idempotency_key is UNIQUE, whatever idempotency_expires_at says.
KeyIsFree(k) == \A j \in Requests : Committed(j) => req[j].key # k

\* UPDATE ... WHERE id = j: no row, no effect.
set_job_status(j, s) ==
    row' = IF Committed(j) THEN [row EXCEPT ![j].status = s] ELSE row

-----------------------------------------------------------------------------
(* The queue runner.                                                         *)

\* Explicit channels win; the routing-rule query compares the column object
\* with True in Python, filters on a constant FALSE and never yields a rule;
\* what is left is the default route.
resolve_channels(r) == IF Want[r] # {} THEN Want[r] ELSE DefaultRoute

\* One _deliver_channel task per channel and one _finalize task.
dispatch_job(j, cs) ==
    /\ task' = [task EXCEPT ![j] = [c \in Channels |->
                    IF c \in cs THEN [pc |-> "try", attempt |-> 1, result |-> "none"]
                    ELSE Idle]]
    /\ fin' = [fin EXCEPT ![j] = "wait"]
    /\ dispatched' = [dispatched EXCEPT ![j] = @ + 1]

\* The next turn of the retry loop, or its end with what the last turn left in
\* `result`: a failure result on an earlier turn is reset before the next one.
AttemptFailed(t, left) ==
    IF t.attempt < MaxAttempts
    THEN [pc |-> "try", attempt |-> t.attempt + 1, result |-> "none"]
    ELSE [t EXCEPT !.pc = "record", !.result = left]

\* The vault or the channel factory raised: nothing was posted.
build_channel_raises(j, c) ==
    /\ task[j][c].pc = "try"
    /\ task' = [task EXCEPT ![j][c] = AttemptFailed(@, "none")]
    /\ UNCHANGED <<req, row, fin, sentRows, failedRows, acked, posted, dispatched, mishaps>>

\* channel.send() returned success=False.  Of its posts n timed out or lost
\* their answer after the provider took the message.
send_returns_failure(j, c) ==
    /\ task[j][c].pc = "try"
    /\ task' = [task EXCEPT ![j][c] = AttemptFailed(@, "fail")]
    /\ \E n \in 0..MaxPosts : posted' = [posted EXCEPT ![j][c] = @ + n]
    /\ UNCHANGED <<req, row, fin, sentRows, failedRows, acked, dispatched, mishaps>>

\* Variant: the break after result.success is missing
SendAndKeepLooping(j, c) ==
    /\ task[j][c].pc = "try"
    /\ task' = [task EXCEPT ![j][c] = AttemptFailed(@, "ok")]
    /\ acked' = [acked EXCEPT ![j][c] = @ + 1]
    /\ \E n \in 1..MaxPosts : posted' = [posted EXCEPT ![j][c] = @ + n]
    /\ UNCHANGED <<req, row, fin, sentRows, failedRows, dispatched, mishaps>>

\* channel.send() returned success=True, at its n-th post: leave the loop.
send_returns_success(j, c) ==
    /\ task[j][c].pc = "try"
    /\ task' = [task EXCEPT ![j][c] = [@ EXCEPT !.pc = "record", !.result = "ok"]]
    /\ acked' = [acked EXCEPT ![j][c] = @ + 1]
    /\ \E n \in 1..MaxPosts : posted' = [posted EXCEPT ![j][c] = @ + n]
    /\ UNCHANGED <<req, row, fin, sentRows, failedRows, dispatched, mishaps>>

\* Variant: the delivery row is written as "sent" whatever the result says
RecordAlwaysSent(j, c) ==
    /\ task[j][c].pc = "record"
    /\ task' = [task EXCEPT ![j][c].pc = "done"]
    /\ sentRows' = [sentRows EXCEPT ![j][c] = IF Committed(j) THEN @ + 1 ELSE @]
    /\ UNCHANGED <<req, row, fin, failedRows, acked, posted, dispatched, mishaps>>

\* The bookkeeping after the loop.  The INSERT violates the foreign key while
\* the job row is not committed; the exception is logged and swallowed.
record_delivery(j, c) ==
    /\ task[j][c].pc = "record"
    /\ task' = [task EXCEPT ![j][c].pc = "done"]
    /\ sentRows' = [sentRows EXCEPT ![j][c] =
                        IF Committed(j) /\ task[j][c].result = "ok" THEN @ + 1 ELSE @]
    /\ failedRows' = [failedRows EXCEPT ![j][c] =
                        IF Committed(j) /\ task[j][c].result = "fail" THEN @ + 1 ELSE @]
    /\ UNCHANGED <<req, row, fin, acked, posted, dispatched, mishaps>>

\* The database refuses the bookkeeping: logged, no row, no retry.
bookkeeping_fails(j, c) ==
    /\ mishaps < MaxMishaps
    /\ task[j][c].pc = "record"
    /\ task[j][c].result # "none"
    /\ task' = [task EXCEPT ![j][c].pc = "done"]
    /\ mishaps' = mishaps + 1
    /\ UNCHANGED <<req, row, fin, sentRows, failedRows, acked, posted, dispatched>>

\* Variant: the finalizer waits for the delivery rows instead of the tasks
FinalizeOnRows(j) ==
    /\ fin[j] = "wait"
    /\ \A c \in Channels : task[j][c].pc = "off" \/ sentRows[j][c] + failedRows[j][c] > 0
    /\ fin' = [fin EXCEPT ![j] = "done"]
    /\ set_job_status(j, "succeeded")
    /\ UNCHANGED <<req, task, sentRows, failedRows, acked, posted, dispatched, mishaps>>

\* gather() over the tasks, then the final status: every exception of a delivery
\* is caught inside _deliver_channel, so gather never returns one.
_finalize(j) ==
    /\ fin[j] = "wait"
    /\ \A c \in Channels : task[j][c].pc \in {"off", "done"}
    /\ fin' = [fin EXCEPT ![j] = "done"]
    /\ set_job_status(j, "succeeded")
    /\ UNCHANGED <<req, task, sentRows, failedRows, acked, posted, dispatched, mishaps>>

\* The database refuses the status update: the finalizer task dies.
finalize_fails(j) ==
    /\ mishaps < MaxMishaps
    /\ fin[j] = "wait"
    /\ \A c \in Channels : task[j][c].pc \in {"off", "done"}
    /\ fin' = [fin EXCEPT ![j] = "done"]
    /\ mishaps' = mishaps + 1
    /\ UNCHANGED <<req, row, task, sentRows, failedRows, acked, posted, dispatched>>

-----------------------------------------------------------------------------
(* The HTTP handlers.                                                        *)

\* POST /v1/notify, up to the answer of the idempotency query.
notify_check(r) ==
    /\ req[r].pc = "new"
    /\ IF get_job_by_idempotency_key(req[r].key) # {}
       THEN \E j \in get_job_by_idempotency_key(req[r].key) :
                req' = [req EXCEPT ![r].pc = "dedup", ![r].job = j]
       ELSE req' = [req EXCEPT ![r].pc = "checked"]
    /\ UNCHANGED <<row, task, fin, sentRows, failedRows, acked, posted, dispatched, mishaps>>

\* The rendered body is empty: 400, nothing is created.
notify_reject(r) ==
    /\ req[r].pc = "checked"
    /\ req' = [req EXCEPT ![r].pc = "rejected"]
    /\ UNCHANGED <<row, task, fin, sentRows, failedRows, acked, posted, dispatched, mishaps>>

\* create_job and write_audit into the session, then dispatch_job.
notify_dispatch(r) ==
    /\ req[r].pc = "checked"
    /\ req' = [req EXCEPT ![r].pc = "commit"]
    /\ dispatch_job(r, resolve_channels(r))
    /\ UNCHANGED <<row, sentRows, failedRows, acked, posted, mishaps>>

\* The dependency closes: the INSERT, or the unique key refuses it (500).
notify_commit(r) ==
    /\ req[r].pc = "commit"
    /\ IF KeyIsFree(req[r].key)
       THEN /\ req' = [req EXCEPT ![r].pc = "accepted"]
            /\ row' = [row EXCEPT ![r] = [status |-> "pending", fresh |-> TRUE]]
       ELSE /\ req' = [req EXCEPT ![r].pc = "error"]
            /\ UNCHANGED row
    /\ UNCHANGED <<task, fin, sentRows, failedRows, acked, posted, dispatched, mishaps>>

\* The database fails at the commit: 500, and the tasks run on.
notify_commit_fails(r) ==
    /\ mishaps < MaxMishaps
    /\ req[r].pc = "commit"
    /\ req' = [req EXCEPT ![r].pc = "error"]
    /\ mishaps' = mishaps + 1
    /\ UNCHANGED <<row, task, fin, sentRows, failedRows, acked, posted, dispatched>>

\* POST /v1/notify/{job}/replay by an admin: 409 unless failed or partial, 422
\* without a stored body; the channels are the job's.
replay_job(j) ==
    /\ Committed(j)
    /\ dispatched[j] < MaxDispatches
    /\ IF row[j].status \in {"failed", "partial"} /\ j \notin Sensitive
       THEN /\ set_job_status(j, "pending")
            /\ dispatch_job(j, resolve_channels(j))
       ELSE UNCHANGED <<row, task, fin, dispatched>>
    /\ UNCHANGED <<req, sentRows, failedRows, acked, posted, mishaps>>

\* idempotency_expires_at passes.
expire(j) ==
    /\ Committed(j) /\ row[j].fresh
    /\ row' = [row EXCEPT ![j].fresh = FALSE]
    /\ UNCHANGED <<req, task, fin, sentRows, failedRows, acked, posted, dispatched, mishaps>>

\* The process dies: tasks, finalizers and open requests are gone, the rows stay.
crash ==
    /\ mishaps < MaxMishaps
    /\ mishaps' = mishaps + 1
    /\ task' = [r \in Requests |-> [c \in Channels |-> Idle]]
    /\ fin' = [r \in Requests |-> "off"]
    /\ req' = [r \in Requests |->
                 IF req[r].pc \in {"checked", "commit"} THEN [req[r] EXCEPT !.pc = "lost"]
                 ELSE req[r]]
    /\ UNCHANGED <<row, sentRows, failedRows, acked, posted, dispatched>>

Deliver(j, c) ==
    \/ build_channel_raises(j, c)
    \/ send_returns_failure(j, c)
    \/ send_returns_success(j, c)
    \/ record_delivery(j, c)
    \/ bookkeeping_fails(j, c)

Handle(r) ==
    \/ notify_check(r)
    \/ notify_reject(r)
    \/ notify_dispatch(r)
    \/ notify_commit(r)
    \/ notify_commit_fails(r)

Next ==
    \/ \E r \in Requests : Handle(r)
    \/ \E r \in Requests, c \in Channels : Deliver(r, c)
    \/ \E r \in Requests : _finalize(r) \/ finalize_fails(r) \/ replay_job(r) \/ expire(r)
    \/ crash

Spec == Init /\ [][Next]_vars

\* The event loop runs every ready coroutine, and every await of a handler or of
\* a task has a timeout or is a database call.
FairSpec ==
    /\ Spec
    /\ \A r \in Requests : WF_vars(Handle(r)) /\ WF_vars(_finalize(r))
    /\ \A r \in Requests, c \in Channels : WF_vars(Deliver(r, c))

-----------------------------------------------------------------------------
(* Properties.                                                               *)

\* "Once channel.send() returns successfully, we NEVER re-send, even if the
\* subsequent DB bookkeeping fails" (_deliver_channel): per dispatch a channel
\* sees at most one successful send, and none while its loop is still turning.
NeverResend ==
    \A j \in Requests, c \in Channels :
        /\ acked[j][c] <= dispatched[j]
        /\ task[j][c].pc = "try" => acked[j][c] < dispatched[j]

\* The delivery rows tell the truth: never more "sent" rows than successful
\* sends, never two rows for one dispatch, and no row without its job.
DeliveryRowsTrue ==
    \A j \in Requests, c \in Channels :
        /\ sentRows[j][c] <= acked[j][c]
        /\ sentRows[j][c] + failedRows[j][c] <= dispatched[j]
        /\ sentRows[j][c] + failedRows[j][c] > 0 => Committed(j)

\* Of all requests with one key at most one ever gets a job of its own, races
\* and expired windows included.
OneJobPerKey ==
    \A r, s \in Requests :
        req[r].pc = "accepted" /\ req[s].pc = "accepted" /\ req[r].key = req[s].key
            => r = s

\* Every dispatch ends: its channels give up or succeed and its finalizer runs,
\* unless the process dies.
DispatchEnds ==
    \A j \in Requests : fin[j] = "wait" ~> fin[j] # "wait"

\* What the tables say is so, and the state has its types.
TablesAreTrue == TypeOK /\ DeliveryRowsTrue /\ OneJobPerKey
=============================================================================
