--------------------------- MODULE AutomationRuns ---------------------------
(***************************************************************************)
(* The workflow engine of apps/automation_agent: runs are created by       *)
(* trigger_run, picked up by the polling loops of one or more workers,     *)
(* executed step by step against other agents, and dead-lettered when a    *)
(* step fails.  A run is named by its idempotency key, which the database  *)
(* keeps unique.  Every commit is a step of its own, because a crash may   *)
(* come after it and because workers see each other's commits only.        *)
(***************************************************************************)
EXTENDS Integers, FiniteSets

CONSTANTS
    Runs,         \* idempotency keys
    Workers,      \* processes that run worker_loop
    NSteps,       \* steps of the workflow
    MaxAttempts,  \* retry_policy.max_attempts of a step
    Concurrency,  \* runs a worker picks up per tick
    EagerDlq,     \* can replay load run.dlq_entry?  FALSE in the code: the
                  \* relationship is lazy and an async session refuses to load it
    MaxReplays,   \* bound: replays of a run
    MaxMishaps    \* bound: crashes and database errors

ASSUME AutomationAssumption ==
    /\ IsFiniteSet(Runs)
    /\ NSteps \in Nat
    /\ MaxAttempts \in Nat
    /\ Concurrency \in Nat \ {0}
    /\ EagerDlq \in BOOLEAN
    /\ MaxReplays \in Nat
    /\ MaxMishaps \in Nat

VARIABLES
    automation,  \* does the parent automation row (still) exist?
    status,      \* AutomationRun.status; "none" before the row exists
    born,        \* created_at, as a position
    dlq,         \* runs with an AutomationDLQ row
    replays,     \* AutomationDLQ.replay_count
    rows,        \* AutomationStepRun.status of a worker's latest execution
    executed,    \* how often a step took effect at the agent it calls
    batch,       \* runs a worker has selected and not yet marked running
    task,        \* the asyncio task a worker has for a run
    mishaps

vars == <<automation, status, born, dlq, replays, rows, executed, batch, task, mishaps>>

Steps == 1..NSteps
RunStatus == {"none", "pending", "running", "succeeded", "failed"}
RowStatus == {"none", "pending", "running", "succeeded", "failed"}
TaskPc == {"none", "spawned", "loaded", "orphan", "next", "calling", "failed"}

\* A task: where it is, the status and parent it loaded, its step and attempt.
Task == [pc : TaskPc, seen : RunStatus, parent : BOOLEAN,
         step : 1..(NSteps + 1), attempt : Nat]

NoTask == [pc |-> "none", seen |-> "none", parent |-> TRUE, step |-> 1, attempt |-> 1]

TypeOK ==
    /\ automation \in BOOLEAN
    /\ status \in [Runs -> RunStatus]
    /\ born \in [Runs -> Nat]
    /\ dlq \subseteq Runs
    /\ replays \in [Runs -> Nat]
    /\ rows \in [Workers -> [Runs -> [Steps -> RowStatus]]]
    /\ executed \in [Runs -> [Steps -> Nat]]
    /\ batch \in [Workers -> SUBSET Runs]
    /\ task \in [Workers -> [Runs -> Task]]
    /\ mishaps \in Nat

Init ==
    /\ automation = TRUE
    /\ status = [r \in Runs |-> "none"]
    /\ born = [r \in Runs |-> 0]
    /\ dlq = {}
    /\ replays = [r \in Runs |-> 0]
    /\ rows = [w \in Workers |-> [r \in Runs |-> [s \in Steps |-> "none"]]]
    /\ executed = [r \in Runs |-> [s \in Steps |-> 0]]
    /\ batch = [w \in Workers |-> {}]
    /\ task = [w \in Workers |-> [r \in Runs |-> NoTask]]
    /\ mishaps = 0

-----------------------------------------------------------------------------
(* The API *)

\* trigger_run: an unknown automation is a 404, a known key returns the run it
\* names, and of two racing inserts the unique constraint rejects the second.
trigger_run(r) ==
    /\ automation
    /\ status[r] = "none"
    /\ status' = [status EXCEPT ![r] = "pending"]
    /\ born' = [born EXCEPT ![r] = Cardinality({q \in Runs : status[q] # "none"}) + 1]
    /\ UNCHANGED <<automation, dlq, replays, rows, executed, batch, task, mishaps>>

\* replay_dlq_run: whatever the run's status is.  When run.dlq_entry cannot be
\* loaded the request fails and nothing is committed.
replay_dlq_run(r) ==
    /\ r \in dlq
    /\ EagerDlq
    /\ replays[r] < MaxReplays
    /\ status' = [status EXCEPT ![r] = "pending"]
    /\ replays' = [replays EXCEPT ![r] = @ + 1]
    /\ UNCHANGED <<automation, born, dlq, rows, executed, batch, task, mishaps>>

\* The automation row is deleted behind the API: ON DELETE SET NULL.
delete_automation ==
    /\ automation
    /\ automation' = FALSE
    /\ UNCHANGED <<status, born, dlq, replays, rows, executed, batch, task, mishaps>>

-----------------------------------------------------------------------------
(* worker_loop *)

Busy(w) == batch[w] # {} \/ \E r \in Runs : task[w][r].pc # "none"

Pending == {r \in Runs : status[r] = "pending"}

\* get_pending_runs: the oldest pending runs, without a row lock.
get_pending_runs(w) ==
    /\ ~Busy(w)
    /\ Pending # {}
    /\ batch' = [batch EXCEPT ![w] =
          {r \in Pending : Cardinality({q \in Pending : born[q] < born[r]}) < Concurrency}]
    /\ UNCHANGED <<automation, status, born, dlq, replays, rows, executed, task, mishaps>>

\* The commit that marks the selected runs running, and the tasks it spawns.
\* The UPDATE names the row only: it succeeds whatever the status is by now.
mark_running(w) ==
    /\ batch[w] # {}
    /\ status' = [r \in Runs |-> IF r \in batch[w] THEN "running" ELSE status[r]]
    /\ task' = [task EXCEPT ![w] =
          [r \in Runs |-> IF r \in batch[w] THEN [NoTask EXCEPT !.pc = "spawned"] ELSE @[r]]]
    /\ batch' = [batch EXCEPT ![w] = {}]
    /\ UNCHANGED <<automation, born, dlq, replays, rows, executed, mishaps>>

-----------------------------------------------------------------------------
(* process_with_semaphore and process_run, one task of a worker *)

At(w, r, pc) == task[w][r].pc = pc

\* The task's new control state, as a record over the old one.
Goto(w, r, t) == task' = [task EXCEPT ![w][r] = t]

\* Variant: the check before execution accepts pending runs only.
LoadPendingOnly(w, r) ==
    /\ At(w, r, "spawned")
    /\ IF status[r] = "pending"
       THEN Goto(w, r, [NoTask EXCEPT !.pc = "loaded", !.seen = status[r],
                                      !.parent = automation])
       ELSE Goto(w, r, NoTask)
    /\ UNCHANGED <<automation, status, born, dlq, replays, rows, executed, batch, mishaps>>

\* process_with_semaphore: load the run and its parent; leave a run alone
\* that is neither pending nor running.
load_run(w, r) ==
    /\ At(w, r, "spawned")
    /\ IF status[r] \in {"pending", "running"}
       THEN Goto(w, r, [NoTask EXCEPT !.pc = "loaded", !.seen = status[r],
                                      !.parent = automation])
       ELSE Goto(w, r, NoTask)
    /\ UNCHANGED <<automation, status, born, dlq, replays, rows, executed, batch, mishaps>>

\* process_run begins: "running" is written only if the loaded status differs.
\* The step rows are inserted with the commit of the first step.
begin_run(w, r) ==
    /\ At(w, r, "loaded")
    /\ status' = IF task[w][r].seen = "pending" THEN [status EXCEPT ![r] = "running"]
                 ELSE status
    /\ Goto(w, r, [task[w][r] EXCEPT !.pc = IF task[w][r].parent THEN "next" ELSE "orphan"])
    /\ UNCHANGED <<automation, born, dlq, replays, rows, executed, batch, mishaps>>

\* process_run: the parent automation is gone.  Failed, without a DLQ row.
fail_orphan(w, r) ==
    /\ At(w, r, "orphan")
    /\ status' = [status EXCEPT ![r] = "failed"]
    /\ Goto(w, r, NoTask)
    /\ UNCHANGED <<automation, born, dlq, replays, rows, executed, batch, mishaps>>

\* The rows after the commit that starts step k: the step before it succeeded
\* in memory and is written by the same commit.
RowsAt(old, k) ==
    [s \in Steps |-> IF s = k THEN "running"
                     ELSE IF s = k - 1 THEN "succeeded"
                     ELSE IF k = 1 THEN "pending" ELSE old[s]]

\* process_run: a step is marked running and the commit makes it visible.
start_step(w, r) ==
    /\ At(w, r, "next")
    /\ task[w][r].step <= NSteps
    /\ rows' = [rows EXCEPT ![w][r] = RowsAt(@, task[w][r].step)]
    /\ Goto(w, r, [task[w][r] EXCEPT !.pc = "calling", !.attempt = 1])
    /\ UNCHANGED <<automation, status, born, dlq, replays, executed, batch, mishaps>>

MayCall(w, r) == At(w, r, "calling") /\ task[w][r].attempt <= MaxAttempts

\* Variant: the step counter advances although the call failed.
CallIgnoresFailure(w, r) ==
    /\ MayCall(w, r)
    /\ \E effect \in BOOLEAN :
          executed' = [executed EXCEPT ![r][task[w][r].step] = IF effect THEN @ + 1 ELSE @]
    /\ Goto(w, r, [task[w][r] EXCEPT !.pc = "next", !.step = @ + 1])
    /\ UNCHANGED <<automation, status, born, dlq, replays, rows, batch, mishaps>>

\* execute_agent_action succeeds; the loop goes on with the next step.
call_succeeds(w, r) ==
    /\ MayCall(w, r)
    /\ executed' = [executed EXCEPT ![r][task[w][r].step] = @ + 1]
    /\ Goto(w, r, [task[w][r] EXCEPT !.pc = "next", !.step = @ + 1])
    /\ UNCHANGED <<automation, status, born, dlq, replays, rows, batch, mishaps>>

\* execute_agent_action reports a failure.  After a timeout or a 5xx answer the
\* agent may have done the work all the same.
call_fails(w, r) ==
    /\ MayCall(w, r)
    /\ \E effect \in BOOLEAN :
          executed' = [executed EXCEPT ![r][task[w][r].step] = IF effect THEN @ + 1 ELSE @]
    /\ Goto(w, r, [task[w][r] EXCEPT !.attempt = @ + 1])
    /\ UNCHANGED <<automation, status, born, dlq, replays, rows, batch, mishaps>>

\* Variant: the workflow is not halted by a failed step.
StepFailsAndGoesOn(w, r) ==
    /\ At(w, r, "calling")
    /\ ~MayCall(w, r)
    /\ rows' = [rows EXCEPT ![w][r][task[w][r].step] = "failed"]
    /\ Goto(w, r, [task[w][r] EXCEPT !.pc = "next", !.step = @ + 1])
    /\ UNCHANGED <<automation, status, born, dlq, replays, executed, batch, mishaps>>

\* process_run: the attempts are used up; the failed step is committed.
step_fails(w, r) ==
    /\ At(w, r, "calling")
    /\ ~MayCall(w, r)
    /\ rows' = [rows EXCEPT ![w][r][task[w][r].step] = "failed"]
    /\ Goto(w, r, [task[w][r] EXCEPT !.pc = "failed"])
    /\ UNCHANGED <<automation, status, born, dlq, replays, executed, batch, mishaps>>

\* process_run: all steps done; status, audit and the last row in one commit.
succeed_run(w, r) ==
    /\ At(w, r, "next")
    /\ task[w][r].step > NSteps
    /\ status' = [status EXCEPT ![r] = "succeeded"]
    /\ rows' = [rows EXCEPT ![w][r] = [s \in Steps |-> IF s = NSteps THEN "succeeded" ELSE @[s]]]
    /\ Goto(w, r, NoTask)
    /\ UNCHANGED <<automation, born, dlq, replays, executed, batch, mishaps>>

\* Variant: the status is committed before the DLQ row is inserted, and a crash
\* or a rejected insert loses the row.
FailWithoutDlq(w, r) ==
    /\ At(w, r, "failed")
    /\ status' = [status EXCEPT ![r] = "failed"]
    /\ dlq' \in {dlq, dlq \cup {r}}
    /\ Goto(w, r, NoTask)
    /\ UNCHANGED <<automation, born, replays, rows, executed, batch, mishaps>>

\* process_run: failed status, DLQ row and audit in one commit.  AutomationDLQ
\* keeps run_id unique: a second row raises, the transaction is rolled back and
\* the exception ends the task with the status as it was.
fail_run(w, r) ==
    /\ At(w, r, "failed")
    /\ IF r \in dlq
       THEN UNCHANGED <<status, dlq>>
       ELSE /\ status' = [status EXCEPT ![r] = "failed"]
            /\ dlq' = dlq \cup {r}
    /\ Goto(w, r, NoTask)
    /\ UNCHANGED <<automation, born, replays, rows, executed, batch, mishaps>>

-----------------------------------------------------------------------------
(* Failures of the worker *)

Mishap == mishaps < MaxMishaps /\ mishaps' = mishaps + 1

\* A commit of the task raises: the loop logs it and forgets the task.
task_error(w, r) ==
    /\ task[w][r].pc # "none"
    /\ Mishap
    /\ Goto(w, r, NoTask)
    /\ UNCHANGED <<automation, status, born, dlq, replays, rows, executed, batch>>

\* The process dies: its selection and its tasks are gone, nothing else is.
crash(w) ==
    /\ Busy(w)
    /\ Mishap
    /\ batch' = [batch EXCEPT ![w] = {}]
    /\ task' = [task EXCEPT ![w] = [r \in Runs |-> NoTask]]
    /\ UNCHANGED <<automation, status, born, dlq, replays, rows, executed>>

-----------------------------------------------------------------------------

TaskStep(w, r) ==
    \/ load_run(w, r) \/ begin_run(w, r) \/ fail_orphan(w, r) \/ start_step(w, r)
    \/ call_succeeds(w, r) \/ call_fails(w, r) \/ step_fails(w, r)
    \/ succeed_run(w, r) \/ fail_run(w, r)

Next ==
    \/ \E r \in Runs : trigger_run(r) \/ replay_dlq_run(r)
    \/ delete_automation
    \/ \E w \in Workers :
          \/ get_pending_runs(w) \/ mark_running(w) \/ crash(w)
          \/ \E r \in Runs : TaskStep(w, r) \/ task_error(w, r)

Spec == Init /\ [][Next]_vars

\* worker_loop ticks forever and its tasks make progress.
Fairness ==
    \A w \in Workers :
        /\ WF_vars(get_pending_runs(w))
        /\ WF_vars(mark_running(w))
        /\ \A r \in Runs : WF_vars(TaskStep(w, r))

FairSpec == Spec /\ Fairness

-----------------------------------------------------------------------------
(* Properties *)

\* "Steps execute in order; failure halts the run": a step has taken effect at
\* its agent only if the step before it has.
StepOrder ==
    \A r \in Runs : \A s \in Steps :
        s > 1 /\ executed[r][s] > 0 => executed[r][s - 1] > 0

\* A run that is reported succeeded has taken every step, however many workers
\* executed it and wherever they crashed.
SucceededRanEveryStep ==
    \A r \in Runs : status[r] = "succeeded" => \A s \in Steps : executed[r][s] > 0

\* "failed runs are placed in DLQ": the failed status and the DLQ row appear
\* together, except for a run whose automation was deleted.
FailedIsDeadLettered ==
    \A r \in Runs : status[r] = "failed" => r \in dlq \/ ~automation

\* Every accepted run is finished one way or the other, unless a worker or the
\* database failed on the way, or the run was replayed: a replay that fails
\* again violates the unique DLQ row and leaves the run "running".
RunsFinish ==
    \A r \in Runs : status[r] = "pending"
        ~> status[r] \in {"succeeded", "failed"} \/ mishaps > 0 \/ replays[r] > 0

=============================================================================
