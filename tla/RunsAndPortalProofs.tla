------------------------- MODULE RunsAndPortalProofs -------------------------
(* Proofs about AutomationRuns, for every number of workers, runs and steps,    *)
(* and about Portal, for any records and numbers of operations and failures.    *)
EXTENDS AutomationRuns, Portal, SequenceTheorems, FiniteSetTheorems, TLAPS

(***************************************************************************)
(* AutomationRuns: a run's steps take effect once and in order.             *)
(***************************************************************************)

\* A task that calls an agent, or has given up on it, is at a step of the workflow.
CallingInRange ==
    \A w \in Workers : \A r \in Runs :
        task[w][r].pc \in {"calling", "failed"} => task[w][r].step <= NSteps

\* What a task knows: the steps before its own have taken effect, and it takes
\* the orphan path only when the automation is gone for good.
TaskProgress ==
    \A w \in Workers : \A r \in Runs :
        /\ \A s \in Steps : s < task[w][r].step => executed[r][s] > 0
        /\ task[w][r].pc = "orphan" => ~automation
        /\ task[w][r].parent \/ ~automation

TypeInv == TypeOK /\ CallingInRange

Inv ==
    /\ TypeInv
    /\ TaskProgress
    /\ StepOrder
    /\ SucceededRanEveryStep
    /\ FailedIsDeadLettered

-----------------------------------------------------------------------------

\* Giving one task a new control state leaves the others alone.
LEMMA GotoType ==
    ASSUME TypeOK, NEW w \in Workers, NEW r \in Runs, NEW t \in Task, Goto(w, r, t)
    PROVE  /\ task' \in [Workers -> [Runs -> Task]]
           /\ task'[w][r] = t
           /\ \A v \in Workers, q \in Runs : v # w \/ q # r => task'[v][q] = task[v][q]
BY DEF TypeOK, Goto

\* The same for the part of the invariant about the range of steps.
LEMMA GotoRange ==
    ASSUME TypeInv, NEW w \in Workers, NEW r \in Runs, NEW t \in Task, Goto(w, r, t),
           t.pc \in {"calling", "failed"} => t.step <= NSteps
    PROVE  task' \in [Workers -> [Runs -> Task]] /\ CallingInRange'
<1>1. task' \in [Workers -> [Runs -> Task]]
  BY GotoType DEF TypeInv
<1>2. ASSUME NEW v \in Workers, NEW q \in Runs, task'[v][q].pc \in {"calling", "failed"}
      PROVE  task'[v][q].step <= NSteps
  <2>1. CASE v = w /\ q = r
    BY <1>2, <2>1, GotoType DEF TypeInv
  <2>2. CASE v # w \/ q # r
    <3>1. task'[v][q] = task[v][q]
      BY <2>2, GotoType DEF TypeInv
    <3> QED BY <1>2, <3>1 DEF TypeInv, CallingInRange
  <2> QED BY <2>1, <2>2
<1> QED BY <1>1, <1>2 DEF CallingInRange

LEMMA NoTaskType ==
    /\ NoTask \in Task
    /\ [NoTask EXCEPT !.pc = "spawned"] \in Task
<1>1. 1 \in 1..(NSteps + 1)
  BY AutomationAssumption
<1> QED BY <1>1 DEF NoTask, Task, TaskPc, RunStatus

\* Every task a worker has is a task record.
LEMMA TaskAt ==
    ASSUME TypeOK, NEW w \in Workers, NEW r \in Runs
    PROVE  /\ task[w][r] \in Task
           /\ task[w][r].pc \in TaskPc
           /\ task[w][r].step \in 1..(NSteps + 1)
           /\ task[w][r].attempt \in Nat
BY DEF TypeOK, Task

\* Every step of one task keeps the state well typed.
LEMMA TaskTypeStep ==
    ASSUME TypeInv, NEW w \in Workers, NEW r \in Runs, TaskStep(w, r)
    PROVE  TypeInv'
<1> USE AutomationAssumption
<1> DEFINE t == task[w][r]
<1>0. t \in Task /\ t.step \in 1..(NSteps + 1) /\ t.attempt \in Nat /\ TypeOK
  BY TaskAt DEF TypeInv
<1>1. CASE load_run(w, r)
  <2>1. ASSUME NEW x \in RunStatus, NEW b \in BOOLEAN
        PROVE  [NoTask EXCEPT !.pc = "loaded", !.seen = x, !.parent = b] \in Task
    <3>1. 1 \in 1..(NSteps + 1)
      OBVIOUS
    <3> QED BY <3>1 DEF NoTask, Task, TaskPc, RunStatus
  <2>2. status[r] \in RunStatus /\ automation \in BOOLEAN
    BY <1>0 DEF TypeOK
  <2>3. \E u \in Task : Goto(w, r, u) /\ u.pc \notin {"calling", "failed"}
    BY <1>1, <2>1, <2>2, NoTaskType DEF load_run, NoTask
  <2>4. task' \in [Workers -> [Runs -> Task]] /\ CallingInRange'
    BY <2>3, GotoRange
  <2> QED BY <1>0, <1>1, <2>4 DEF TypeInv, TypeOK, load_run
<1>2. CASE begin_run(w, r)
  <2>1. \E p \in {"next", "orphan"} : Goto(w, r, [t EXCEPT !.pc = p])
    BY <1>2 DEF begin_run
  <2>2. \A p \in {"next", "orphan"} : [t EXCEPT !.pc = p] \in Task /\ [t EXCEPT !.pc = p].pc = p
    BY <1>0 DEF Task, TaskPc
  <2>3. task' \in [Workers -> [Runs -> Task]] /\ CallingInRange'
    BY <2>1, <2>2, GotoRange
  <2> QED BY <1>0, <1>2, <2>3 DEF TypeInv, TypeOK, begin_run, RunStatus
<1>3. CASE fail_orphan(w, r)
  <2>1. task' \in [Workers -> [Runs -> Task]] /\ CallingInRange'
    BY <1>3, NoTaskType, GotoRange DEF fail_orphan, NoTask
  <2> QED BY <1>0, <1>3, <2>1 DEF TypeInv, TypeOK, fail_orphan, RunStatus
<1>4. CASE start_step(w, r)
  <2>1. [t EXCEPT !.pc = "calling", !.attempt = 1] \in Task
    BY <1>0 DEF Task, TaskPc
  <2>2. [t EXCEPT !.pc = "calling", !.attempt = 1].step <= NSteps
    BY <1>0, <1>4 DEF start_step, Task
  <2>3. task' \in [Workers -> [Runs -> Task]] /\ CallingInRange'
    BY <1>4, <2>1, <2>2, GotoRange DEF start_step
  <2>4. RowsAt(rows[w][r], t.step) \in [Steps -> RowStatus]
    BY <1>0 DEF TypeOK, RowsAt, RowStatus
  <2>5. rows' \in [Workers -> [Runs -> [Steps -> RowStatus]]]
    BY <1>0, <1>4, <2>4 DEF TypeOK, start_step
  <2> QED BY <1>0, <1>4, <2>3, <2>5 DEF TypeInv, TypeOK, start_step
<1>5. t.pc \in {"calling", "failed"} => t.step \in Steps
  BY <1>0 DEF TypeInv, CallingInRange, Steps
<1>6. CASE call_succeeds(w, r)
  <2>1. t.step \in Steps
    BY <1>5, <1>6 DEF call_succeeds, MayCall, At
  <2>2. /\ [t EXCEPT !.pc = "next", !.step = @ + 1] \in Task
        /\ [t EXCEPT !.pc = "next", !.step = @ + 1].pc = "next"
    <3>1. t.step + 1 \in 1..(NSteps + 1)
      BY <2>1 DEF Steps
    <3> QED BY <1>0, <3>1 DEF Task, TaskPc
  <2>3. task' \in [Workers -> [Runs -> Task]] /\ CallingInRange'
    BY <1>6, <2>2, GotoRange DEF call_succeeds
  <2>4. executed' \in [Runs -> [Steps -> Nat]]
    BY <1>0, <1>6, <2>1 DEF TypeOK, call_succeeds
  <2> QED BY <1>0, <1>6, <2>3, <2>4 DEF TypeInv, TypeOK, call_succeeds
<1>7. CASE call_fails(w, r)
  <2>1. t.step \in Steps
    BY <1>5, <1>7 DEF call_fails, MayCall, At
  <2>2. [t EXCEPT !.attempt = @ + 1] \in Task /\ [t EXCEPT !.attempt = @ + 1].step = t.step
    BY <1>0 DEF Task
  <2>3. task' \in [Workers -> [Runs -> Task]] /\ CallingInRange'
    <3>1. t.step <= NSteps
      BY <2>1 DEF Steps
    <3> QED BY <1>7, <2>2, <3>1, GotoRange DEF call_fails
  <2>4. executed' \in [Runs -> [Steps -> Nat]]
    BY <1>0, <1>7, <2>1 DEF TypeOK, call_fails
  <2> QED BY <1>0, <1>7, <2>3, <2>4 DEF TypeInv, TypeOK, call_fails
<1>8. CASE step_fails(w, r)
  <2>1. t.step \in Steps
    BY <1>5, <1>8 DEF step_fails, At
  <2>2. [t EXCEPT !.pc = "failed"] \in Task /\ [t EXCEPT !.pc = "failed"].step = t.step
    BY <1>0 DEF Task, TaskPc
  <2>3. task' \in [Workers -> [Runs -> Task]] /\ CallingInRange'
    <3>1. t.step <= NSteps
      BY <2>1 DEF Steps
    <3> QED BY <1>8, <2>2, <3>1, GotoRange DEF step_fails
  <2>4. rows' \in [Workers -> [Runs -> [Steps -> RowStatus]]]
    BY <1>0, <1>8, <2>1 DEF TypeOK, step_fails, RowStatus
  <2> QED BY <1>0, <1>8, <2>3, <2>4 DEF TypeInv, TypeOK, step_fails
<1>9. CASE succeed_run(w, r)
  <2>1. task' \in [Workers -> [Runs -> Task]] /\ CallingInRange'
    BY <1>9, NoTaskType, GotoRange DEF succeed_run, NoTask
  <2>2. rows' \in [Workers -> [Runs -> [Steps -> RowStatus]]]
    BY <1>0, <1>9 DEF TypeOK, succeed_run, RowStatus
  <2> QED BY <1>0, <1>9, <2>1, <2>2 DEF TypeInv, TypeOK, succeed_run, RunStatus
<1>10. CASE fail_run(w, r)
  <2>1. task' \in [Workers -> [Runs -> Task]] /\ CallingInRange'
    BY <1>10, NoTaskType, GotoRange DEF fail_run, NoTask
  <2> QED BY <1>0, <1>10, <2>1 DEF TypeInv, TypeOK, fail_run, RunStatus
<1> QED BY <1>1, <1>2, <1>3, <1>4, <1>6, <1>7, <1>8, <1>9, <1>10 DEF TaskStep

\* Every step keeps the state well typed.
LEMMA TypeStep ==
    ASSUME TypeInv, [Next]_vars
    PROVE  TypeInv'
<1> USE AutomationAssumption
<1>1. ASSUME NEW r \in Runs, trigger_run(r)
      PROVE  TypeInv'
  <2>1. Cardinality({q \in Runs : status[q] # "none"}) \in Nat
    BY FS_Subset, FS_CardinalityType
  <2> QED BY <1>1, <2>1 DEF TypeInv, TypeOK, CallingInRange, trigger_run, RunStatus
<1>2. ASSUME NEW r \in Runs, replay_dlq_run(r)
      PROVE  TypeInv'
  BY <1>2 DEF TypeInv, TypeOK, CallingInRange, replay_dlq_run, RunStatus
<1>3. CASE delete_automation
  BY <1>3 DEF TypeInv, TypeOK, CallingInRange, delete_automation
<1>4. ASSUME NEW w \in Workers, get_pending_runs(w)
      PROVE  TypeInv'
  BY <1>4 DEF TypeInv, TypeOK, CallingInRange, get_pending_runs, Pending
<1>5. ASSUME NEW w \in Workers, mark_running(w)
      PROVE  TypeInv'
  <2>1. [NoTask EXCEPT !.pc = "spawned"].pc = "spawned"
    BY DEF NoTask
  <2>2. task' \in [Workers -> [Runs -> Task]]
    BY <1>5, NoTaskType DEF TypeInv, TypeOK, mark_running
  <2>3. CallingInRange'
    BY <1>5, <2>1 DEF TypeInv, TypeOK, CallingInRange, mark_running
  <2> QED BY <1>5, <2>2, <2>3 DEF TypeInv, TypeOK, mark_running, RunStatus
<1>6. ASSUME NEW w \in Workers, crash(w)
      PROVE  TypeInv'
  <2>1. task' \in [Workers -> [Runs -> Task]]
    BY <1>6, NoTaskType DEF TypeInv, TypeOK, crash
  <2>2. CallingInRange'
    BY <1>6 DEF TypeInv, TypeOK, CallingInRange, crash, NoTask
  <2> QED BY <1>6, <2>1, <2>2 DEF TypeInv, TypeOK, crash, Mishap
<1>7. ASSUME NEW w \in Workers, NEW r \in Runs, task_error(w, r)
      PROVE  TypeInv'
  <2>1. task' \in [Workers -> [Runs -> Task]] /\ CallingInRange'
    BY <1>7, NoTaskType, GotoRange DEF task_error, NoTask
  <2> QED BY <1>7, <2>1 DEF TypeInv, TypeOK, task_error, Mishap
<1>8. CASE UNCHANGED vars
  BY <1>8 DEF TypeInv, TypeOK, CallingInRange, vars
<1> QED BY <1>1, <1>2, <1>3, <1>4, <1>5, <1>6, <1>7, <1>8, TaskTypeStep DEF Next

-----------------------------------------------------------------------------

\* Effects at the agents are never undone.
EffectsGrow == \A r \in Runs : \A s \in Steps : executed'[r][s] >= executed[r][s]

\* Moving one task keeps TaskProgress if the new control state is entitled to it.
LEMMA GotoProgress ==
    ASSUME TypeOK, TypeOK', TaskProgress, EffectsGrow, automation' = automation,
           NEW w \in Workers, NEW r \in Runs, NEW u \in Task, Goto(w, r, u),
           \A s \in Steps : s < u.step => executed'[r][s] > 0,
           u.pc = "orphan" => ~automation,
           u.parent \/ ~automation
    PROVE  TaskProgress'
<1> SUFFICES ASSUME NEW v \in Workers, NEW q \in Runs
             PROVE  /\ \A s \in Steps : s < task'[v][q].step => executed'[q][s] > 0
                    /\ task'[v][q].pc = "orphan" => ~automation'
                    /\ task'[v][q].parent \/ ~automation'
  BY DEF TaskProgress
<1>1. CASE v = w /\ q = r
  BY <1>1, GotoType
<1>2. CASE v # w \/ q # r
  <2>1. task'[v][q] = task[v][q]
    BY <1>2, GotoType
  <2>2. ASSUME NEW s \in Steps, s < task[v][q].step
        PROVE  executed'[q][s] > 0
    <3>1. executed[q][s] > 0 /\ executed'[q][s] >= executed[q][s]
      BY <2>2 DEF TaskProgress, EffectsGrow
    <3>2. executed[q][s] \in Nat /\ executed'[q][s] \in Nat
      BY DEF TypeOK
    <3> QED BY <3>1, <3>2
  <2>3. (task[v][q].pc = "orphan" => ~automation) /\ (task[v][q].parent \/ ~automation)
    BY DEF TaskProgress
  <2> QED BY <2>1, <2>2, <2>3
<1> QED BY <1>1, <1>2

\* The run that no effect is taken back from keeps what was true of it.
LEMMA GrowKeeps ==
    ASSUME TypeOK, TypeOK', EffectsGrow, SucceededRanEveryStep, NEW r \in Runs,
           status[r] = "succeeded"
    PROVE  \A s \in Steps : executed'[r][s] > 0
BY DEF TypeOK, EffectsGrow, SucceededRanEveryStep

\* A call that took effect, or none, at step k of run r keeps the order of effects.
LEMMA CallOrder ==
    ASSUME TypeOK, TypeOK', StepOrder, NEW r \in Runs, NEW k \in Steps, NEW e \in BOOLEAN,
           \A s \in Steps : s < k => executed[r][s] > 0,
           executed' = [executed EXCEPT ![r][k] = IF e THEN @ + 1 ELSE @]
    PROVE  StepOrder' /\ EffectsGrow
<1>1. \A q \in Runs : \A s \in Steps : executed[q][s] \in Nat /\ executed'[q][s] \in Nat
  BY DEF TypeOK
<1>2. EffectsGrow
  BY <1>1 DEF EffectsGrow, TypeOK
<1>3. ASSUME NEW q \in Runs, NEW s \in Steps, s > 1, executed'[q][s] > 0
      PROVE  executed'[q][s - 1] > 0
  <2>1. s - 1 \in Steps
    BY <1>3, AutomationAssumption DEF Steps
  <2>2. executed[q][s - 1] > 0
    <3>1. CASE q = r /\ s = k
      BY <2>1, <3>1, AutomationAssumption DEF Steps
    <3>2. CASE q # r \/ s # k
      <4>1. executed'[q][s] = executed[q][s]
        BY <3>2 DEF TypeOK
      <4> QED BY <1>3, <4>1 DEF StepOrder
    <3> QED BY <3>1, <3>2
  <2> QED BY <1>1, <1>2, <2>1, <2>2 DEF EffectsGrow
<1> QED BY <1>2, <1>3 DEF StepOrder

\* Every step of one task keeps the safety invariants.
LEMMA TaskSafetyStep ==
    ASSUME Inv, TypeOK', NEW w \in Workers, NEW r \in Runs, TaskStep(w, r)
    PROVE  TaskProgress' /\ StepOrder' /\ SucceededRanEveryStep' /\ FailedIsDeadLettered'
<1> USE AutomationAssumption
<1> DEFINE t == task[w][r]
<1> DEFINE Goal == TaskProgress' /\ StepOrder' /\ SucceededRanEveryStep' /\ FailedIsDeadLettered'
<1>0. TypeOK /\ TaskProgress /\ t \in Task /\ t.step \in 1..(NSteps + 1)
  BY TaskAt DEF Inv, TypeInv
<1>a. /\ \A s \in Steps : s < t.step => executed[r][s] > 0
      /\ t.pc = "orphan" => ~automation
      /\ t.parent \/ ~automation
  BY <1>0 DEF TaskProgress
<1>b. /\ NoTask \in Task /\ NoTask.step = 1 /\ NoTask.pc = "none" /\ NoTask.parent
      /\ \A s \in Steps : ~(s < 1)
  BY NoTaskType DEF NoTask, Steps
<1>1. CASE load_run(w, r)
  <2>1. EffectsGrow
    BY <1>0, <1>1 DEF TypeOK, load_run, EffectsGrow
  <2>2. ASSUME NEW x \in RunStatus
        PROVE  LET u == [NoTask EXCEPT !.pc = "loaded", !.seen = x, !.parent = automation]
               IN  u \in Task /\ u.step = 1 /\ u.pc = "loaded" /\ u.parent = automation
    <3>1. 1 \in 1..(NSteps + 1) /\ automation \in BOOLEAN
      BY <1>0 DEF TypeOK
    <3> QED BY <3>1 DEF NoTask, Task, TaskPc, RunStatus
  <2>3. PICK u \in Task : /\ Goto(w, r, u) /\ u.step = 1 /\ u.pc # "orphan"
                          /\ u.parent \/ ~automation
    <3>1. status[r] \in RunStatus /\ automation \in BOOLEAN
      BY <1>0 DEF TypeOK
    <3> QED BY <1>1, <1>b, <2>2, <3>1 DEF load_run
  <2>4. TaskProgress'
    BY <1>0, <1>1, <1>b, <2>1, <2>3, GotoProgress DEF load_run
  <2> QED BY <1>1, <2>4 DEF Inv, load_run, StepOrder, SucceededRanEveryStep, FailedIsDeadLettered
<1>2. CASE begin_run(w, r)
  <2>1. EffectsGrow
    BY <1>0, <1>2 DEF TypeOK, begin_run, EffectsGrow
  <2>2. PICK p \in {"next", "orphan"} :
            Goto(w, r, [t EXCEPT !.pc = p]) /\ (p = "orphan" => ~t.parent)
    BY <1>2 DEF begin_run
  <2>3. LET u == [t EXCEPT !.pc = p]
        IN  u \in Task /\ u.step = t.step /\ u.pc = p /\ u.parent = t.parent
    BY <1>0 DEF Task, TaskPc
  <2>4. \A s \in Steps : s < t.step => executed'[r][s] > 0
    BY <1>2, <1>a DEF begin_run
  <2>5. TaskProgress'
    BY <1>0, <1>2, <1>a, <2>1, <2>2, <2>3, <2>4, GotoProgress DEF begin_run
  <2>6. SucceededRanEveryStep' /\ FailedIsDeadLettered'
    BY <1>0, <1>2 DEF Inv, TypeOK, begin_run, SucceededRanEveryStep, FailedIsDeadLettered
  <2> QED BY <1>2, <2>5, <2>6 DEF Inv, begin_run, StepOrder
<1>3. CASE fail_orphan(w, r)
  <2>1. EffectsGrow
    BY <1>0, <1>3 DEF TypeOK, fail_orphan, EffectsGrow
  <2>2. TaskProgress'
    BY <1>0, <1>3, <1>b, <2>1, GotoProgress DEF fail_orphan
  <2>3. ~automation
    BY <1>3, <1>a DEF fail_orphan, At
  <2>4. SucceededRanEveryStep' /\ FailedIsDeadLettered'
    BY <1>0, <1>3, <2>3 DEF Inv, TypeOK, fail_orphan, SucceededRanEveryStep, FailedIsDeadLettered
  <2> QED BY <1>3, <2>2, <2>4 DEF Inv, fail_orphan, StepOrder
<1>4. CASE start_step(w, r)
  <2>1. EffectsGrow
    BY <1>0, <1>4 DEF TypeOK, start_step, EffectsGrow
  <2>2. LET u == [t EXCEPT !.pc = "calling", !.attempt = 1]
        IN  u \in Task /\ u.step = t.step /\ u.pc = "calling" /\ u.parent = t.parent
    BY <1>0 DEF Task, TaskPc
  <2>3. \A s \in Steps : s < t.step => executed'[r][s] > 0
    BY <1>4, <1>a DEF start_step
  <2>4. TaskProgress'
    BY <1>0, <1>4, <1>a, <2>1, <2>2, <2>3, GotoProgress DEF start_step
  <2> QED BY <1>4, <2>4 DEF Inv, start_step, StepOrder, SucceededRanEveryStep, FailedIsDeadLettered
<1>5. t.pc = "calling" => t.step \in Steps
  BY <1>0 DEF Inv, TypeInv, CallingInRange, Steps
<1>6. CASE call_succeeds(w, r)
  <2>1. t.step \in Steps
    BY <1>5, <1>6 DEF call_succeeds, MayCall, At
  <2>2. executed' = [executed EXCEPT ![r][t.step] = IF TRUE THEN @ + 1 ELSE @]
    BY <1>6 DEF call_succeeds
  <2>3. StepOrder' /\ EffectsGrow
    BY <1>0, <1>a, <2>1, <2>2, CallOrder DEF Inv
  <2>4. LET u == [t EXCEPT !.pc = "next", !.step = @ + 1]
        IN  u \in Task /\ u.step = t.step + 1 /\ u.pc = "next" /\ u.parent = t.parent
    <3>1. t.step + 1 \in 1..(NSteps + 1)
      BY <2>1 DEF Steps
    <3> QED BY <1>0, <3>1 DEF Task, TaskPc
  <2>5. ASSUME NEW s \in Steps, s < t.step + 1
        PROVE  executed'[r][s] > 0
    <3>1. executed[r][s] \in Nat /\ executed'[r][s] \in Nat /\ executed'[r][s] >= executed[r][s]
      BY <1>0, <2>3 DEF TypeOK, EffectsGrow
    <3>2. CASE s = t.step
      BY <1>0, <2>1, <2>2, <3>1, <3>2 DEF TypeOK
    <3>3. CASE s < t.step
      BY <1>a, <3>1, <3>3
    <3> QED BY <2>1, <2>5, <3>2, <3>3 DEF Steps
  <2>6. TaskProgress'
    BY <1>0, <1>6, <1>a, <2>3, <2>4, <2>5, GotoProgress DEF call_succeeds
  <2>7. SucceededRanEveryStep' /\ FailedIsDeadLettered'
    BY <1>0, <1>6, <2>3, GrowKeeps DEF Inv, call_succeeds, SucceededRanEveryStep,
                                       FailedIsDeadLettered
  <2> QED BY <2>3, <2>6, <2>7
<1>7. CASE call_fails(w, r)
  <2>1. t.step \in Steps
    BY <1>5, <1>7 DEF call_fails, MayCall, At
  <2>2. PICK e \in BOOLEAN :
            executed' = [executed EXCEPT ![r][t.step] = IF e THEN @ + 1 ELSE @]
    BY <1>7 DEF call_fails
  <2>3. StepOrder' /\ EffectsGrow
    BY <1>0, <1>a, <2>1, <2>2, CallOrder DEF Inv
  <2>4. LET u == [t EXCEPT !.attempt = @ + 1]
        IN  u \in Task /\ u.step = t.step /\ u.pc = t.pc /\ u.parent = t.parent
    BY <1>0 DEF Task, TaskPc
  <2>5. ASSUME NEW s \in Steps, s < t.step
        PROVE  executed'[r][s] > 0
    <3>1. executed[r][s] \in Nat /\ executed'[r][s] \in Nat /\ executed'[r][s] >= executed[r][s]
      BY <1>0, <2>3 DEF TypeOK, EffectsGrow
    <3> QED BY <1>a, <2>5, <3>1
  <2>6. TaskProgress'
    BY <1>0, <1>7, <1>a, <2>3, <2>4, <2>5, GotoProgress DEF call_fails
  <2>7. SucceededRanEveryStep' /\ FailedIsDeadLettered'
    BY <1>0, <1>7, <2>3, GrowKeeps DEF Inv, call_fails, SucceededRanEveryStep,
                                       FailedIsDeadLettered
  <2> QED BY <2>3, <2>6, <2>7
<1>8. CASE step_fails(w, r)
  <2>1. EffectsGrow
    BY <1>0, <1>8 DEF TypeOK, step_fails, EffectsGrow
  <2>2. LET u == [t EXCEPT !.pc = "failed"]
        IN  u \in Task /\ u.step = t.step /\ u.pc = "failed" /\ u.parent = t.parent
    BY <1>0 DEF Task, TaskPc
  <2>3. \A s \in Steps : s < t.step => executed'[r][s] > 0
    BY <1>8, <1>a DEF step_fails
  <2>4. TaskProgress'
    BY <1>0, <1>8, <1>a, <2>1, <2>2, <2>3, GotoProgress DEF step_fails
  <2> QED BY <1>8, <2>4 DEF Inv, step_fails, StepOrder, SucceededRanEveryStep, FailedIsDeadLettered
<1>9. CASE succeed_run(w, r)
  <2>1. EffectsGrow
    BY <1>0, <1>9 DEF TypeOK, succeed_run, EffectsGrow
  <2>2. TaskProgress'
    BY <1>0, <1>9, <1>b, <2>1, GotoProgress DEF succeed_run
  <2>3. \A s \in Steps : executed[r][s] > 0
    <3>1. \A s \in Steps : s < t.step
      BY <1>0, <1>9 DEF succeed_run, Steps
    <3> QED BY <1>a, <3>1
  <2>4. SucceededRanEveryStep' /\ FailedIsDeadLettered'
    BY <1>0, <1>9, <2>3 DEF Inv, TypeOK, succeed_run, SucceededRanEveryStep,
                            FailedIsDeadLettered
  <2> QED BY <1>9, <2>2, <2>4 DEF Inv, succeed_run, StepOrder
<1>10. CASE fail_run(w, r)
  <2>1. EffectsGrow
    BY <1>0, <1>10 DEF TypeOK, fail_run, EffectsGrow
  <2>2. TaskProgress'
    BY <1>0, <1>10, <1>b, <2>1, GotoProgress DEF fail_run
  <2>3. SucceededRanEveryStep' /\ FailedIsDeadLettered'
    BY <1>0, <1>10 DEF Inv, TypeOK, fail_run, SucceededRanEveryStep, FailedIsDeadLettered
  <2> QED BY <1>10, <2>2, <2>3 DEF Inv, fail_run, StepOrder
<1> QED BY <1>1, <1>2, <1>3, <1>4, <1>6, <1>7, <1>8, <1>9, <1>10 DEF TaskStep

\* Every step keeps the safety invariants.
LEMMA SafetyStep ==
    ASSUME Inv, TypeOK', [Next]_vars
    PROVE  TaskProgress' /\ StepOrder' /\ SucceededRanEveryStep' /\ FailedIsDeadLettered'
<1> USE AutomationAssumption DEF Inv, TypeInv
<1> DEFINE Goal == TaskProgress' /\ StepOrder' /\ SucceededRanEveryStep' /\ FailedIsDeadLettered'
<1>b. /\ NoTask \in Task /\ NoTask.step = 1 /\ NoTask.pc = "none" /\ NoTask.parent
      /\ \A s \in Steps : ~(s < 1)
  BY NoTaskType DEF NoTask, Steps
<1>1. ASSUME NEW r \in Runs, trigger_run(r) \/ replay_dlq_run(r)
      PROVE  Goal
  BY <1>1 DEF TypeOK, trigger_run, replay_dlq_run, TaskProgress, StepOrder,
              SucceededRanEveryStep, FailedIsDeadLettered
<1>2. CASE delete_automation
  BY <1>2 DEF delete_automation, TaskProgress, StepOrder, SucceededRanEveryStep,
              FailedIsDeadLettered
<1>3. ASSUME NEW w \in Workers, get_pending_runs(w)
      PROVE  Goal
  BY <1>3 DEF get_pending_runs, TaskProgress, StepOrder, SucceededRanEveryStep,
              FailedIsDeadLettered
<1>4. ASSUME NEW w \in Workers, mark_running(w)
      PROVE  Goal
  <2>1. LET u == [NoTask EXCEPT !.pc = "spawned"]
        IN  u.step = 1 /\ u.pc = "spawned" /\ u.parent
    BY DEF NoTask
  <2>2. TaskProgress'
    BY <1>4, <1>b, <2>1 DEF TypeOK, mark_running, TaskProgress
  <2>3. SucceededRanEveryStep' /\ FailedIsDeadLettered'
    BY <1>4 DEF TypeOK, mark_running, SucceededRanEveryStep, FailedIsDeadLettered
  <2> QED BY <1>4, <2>2, <2>3 DEF mark_running, StepOrder
<1>5. ASSUME NEW w \in Workers, crash(w)
      PROVE  Goal
  <2>1. TaskProgress'
    BY <1>5, <1>b DEF TypeOK, crash, TaskProgress
  <2> QED BY <1>5, <2>1 DEF crash, StepOrder, SucceededRanEveryStep, FailedIsDeadLettered
<1>6. ASSUME NEW w \in Workers, NEW r \in Runs, task_error(w, r)
      PROVE  Goal
  <2>1. EffectsGrow
    BY <1>6 DEF TypeOK, task_error, EffectsGrow
  <2>2. TaskProgress'
    BY <1>6, <1>b, <2>1, GotoProgress DEF task_error
  <2> QED BY <1>6, <2>2 DEF task_error, StepOrder, SucceededRanEveryStep, FailedIsDeadLettered
<1>7. CASE UNCHANGED vars
  BY <1>7 DEF vars, TaskProgress, StepOrder, SucceededRanEveryStep, FailedIsDeadLettered
<1> QED BY <1>1, <1>2, <1>3, <1>4, <1>5, <1>6, <1>7, TaskSafetyStep DEF Next

-----------------------------------------------------------------------------

\* The inductive invariant of the workflow engine.
THEOREM EngineInvariant == Spec => []Inv
<1>1. Init => Inv
  <2> SUFFICES ASSUME Init PROVE Inv
    OBVIOUS
  <2>1. TypeOK
    BY NoTaskType DEF Init, TypeOK, RunStatus, RowStatus
  <2>2. CallingInRange /\ TaskProgress
    <3>1. \A s \in Steps : ~(s < 1)
      BY AutomationAssumption DEF Steps
    <3> QED BY <3>1 DEF Init, CallingInRange, TaskProgress, NoTask
  <2>3. StepOrder /\ SucceededRanEveryStep /\ FailedIsDeadLettered
    BY DEF Init, StepOrder, SucceededRanEveryStep, FailedIsDeadLettered
  <2> QED BY <2>1, <2>2, <2>3 DEF Inv, TypeInv
<1>2. Inv /\ [Next]_vars => Inv'
  BY TypeStep, SafetyStep DEF Inv, TypeInv
<1> QED BY <1>1, <1>2, PTL DEF Spec

\* The engine's state is always well typed.
THEOREM EngineTypeOK == Spec => []TypeOK
BY EngineInvariant, PTL DEF Inv, TypeInv

\* Effects appear in workflow order, whatever the number of workers.
THEOREM EngineStepOrder == Spec => []StepOrder
BY EngineInvariant, PTL DEF Inv

\* A run reported succeeded has taken every step, whatever the number of workers.
THEOREM EngineSucceededRanEveryStep == Spec => []SucceededRanEveryStep
BY EngineInvariant, PTL DEF Inv

\* A failed run is in the DLQ unless its automation was deleted.
THEOREM EngineFailedIsDeadLettered == Spec => []FailedIsDeadLettered
BY EngineInvariant, PTL DEF Inv

(***************************************************************************)
(* The pages of the portal.                                                 *)
(***************************************************************************)

Keys == {"list", "jobs", "detail"}

\* What the arguments need of a page: every table an operation changes is
\* refreshed by the operation or polled, and a drawer that shows a secret
\* clears it when it closes.
OpSound(p, o) ==
    /\ o.refreshes \subseteq Keys /\ o.delayed \subseteq Keys
    /\ o.alters \cup o.later \subseteq Keys
    /\ (o.alters \cup o.later) \cap p.queries.asks
           \subseteq o.refreshes \cup o.delayed \cup p.queries.polls
    /\ "detail" \in (o.alters \cup o.later) \cap p.queries.asks =>
           "detail" \in o.refreshes \cup p.queries.polls
    /\ o.shows \in Homes \cup {"none"}
    /\ o.shows = "drawer" => "clears" \in p.drawer /\ "drawer" \notin o.closes

PageSound(p) ==
    /\ p.queries.asks \subseteq Keys
    /\ p.dialogs \subseteq DOMAIN p.ops
    /\ \A n \in DOMAIN p.ops : OpSound(p, p.ops[n])

Kind(s) == IF s \in Records THEN "detail" ELSE s
Touched(o) == o.alters \cup o.later

\* A success that has not been handled yet will refresh the slot, or excuse it.
Awaited(p, s, R) ==
    \E i \in DOMAIN R : /\ R[i].st = "done"
                        /\ s \in SlotsOf(Touched(p.ops[R[i].op]), R[i].rec)

\* Where the refresh of a slot that is behind comes from, whether the slot is
\* observed or not: a drawer may be opened again on an old copy.
Owed(p, s, c, f, d, R) ==
    c = "behind" => \/ Kind(s) \notin p.queries.asks
                    \/ Kind(s) \in p.queries.polls
                    \/ f = "fresh"
                    \/ s \in d \ Records
                    \/ Awaited(p, s, R)

Requests(p) == [op : DOMAIN p.ops, rec : Records \cup {NewRec},
                st : {"sent", "done", "over"}, job : BOOLEAN, gone : BOOLEAN]

ReqsOK(p, R) ==
    /\ R \in Seq(Requests(p))
    /\ \A i \in DOMAIN R : R[i].job => R[i].st # "sent"

\* A secret in the drawer: the page clears it, and it is the drawer's own.
RevealOK(p, drawer, res, arm, str) ==
    /\ \A h \in {"drawer", "dialog"} : res[h] # NoRec => h \in arm
    /\ res["drawer"] # NoRec => "clears" \in p.drawer
    /\ (res["drawer"] # NoRec /\ res["drawer"] # drawer) => str

PortalInv ==
    /\ PortalTypeOK
    /\ ReqsOK(P, reqs)
    /\ \A s \in Slots : Owed(P, s, copy[s], fetch[s], due, reqs)
    /\ RevealOK(P, view.drawer, result, armed, stray)

LEMMA ConsoleOp ==
    Op({}, {}, {}) = [alters |-> {}, refreshes |-> {}, closes |-> {}, later |-> {},
                      delayed |-> {}, shows |-> "none", eager |-> FALSE]
BY DEF Op

LEMMA QueuedOp ==
    ASSUME NEW a, NEW r, NEW c, NEW l
    PROVE  LET o == Queues(Op(a, r, c), l) IN
           /\ o.alters = a /\ o.refreshes = r /\ o.closes = c
           /\ o.later = l /\ o.delayed = {} /\ o.shows = "none"
BY DEF Queues, Op

LEMMA DelayedOp ==
    ASSUME NEW a, NEW r, NEW c, NEW l, NEW d
    PROVE  LET o == Delays(Queues(Op(a, r, c), l), d) IN
           /\ o.alters = a /\ o.refreshes = r /\ o.closes = c
           /\ o.later = l /\ o.delayed = d /\ o.shows = "none"
BY DEF Delays, Queues, Op

\* The pages of PortalPages are such.
LEMMA PagesSound ==
    ASSUME NEW name \in Pages PROVE PageSound(PageOf(name))
<1>1. PageSound(Users)
    BY DEF PageSound, OpSound, Keys, Homes, Page, Queries, Op,
       Users, UsersQueries, UsersOps, UsersRow, UsersDialogs
<1>2. PageSound(ApiKeys)
    BY DEF PageSound, OpSound, Keys, Homes, Page, Queries, Op,
       ApiKeys, ApiKeysQueries, ApiKeysOps, ApiKeysRow, ApiKeysDialogs, Reveals
<1>3. PageSound(IpAllowlist)
    BY DEF PageSound, OpSound, Keys, Homes, Page, Queries, Op,
       IpAllowlist, IpAllowlistOps, IpAllowlistRow, IpAllowlistDialogs
<1>4. PageSound(Services)
    BY DEF PageSound, OpSound, Keys, Homes, Page, Queries, Op,
       Services, ServicesQueries, ServicesOps, ServicesRow, ServicesDrawer,
       ServicesRuleRow, ServicesDialogs, Reveals
<1>5. PageSound(Secrets)
    BY DEF PageSound, OpSound, Keys, Homes, Page, Queries, Op,
       Secrets, SecretsQueries, SecretsOps, SecretsCreate, SecretsEdit, SecretsRotate,
       SecretsReveal, SecretsDelete, SecretsVerify, SecretsRow, SecretsDialogs,
       Reveals
<1>6. PageSound(Email)
    BY DEF PageSound, OpSound, Keys, Homes, Page, Queries, Op,
       Email, EmailQueries, EmailOps, EmailRefresh, EmailHeader, EmailRow,
       EmailDialogs, Eager
<1>7. PageSound(Inbox)
    BY DEF PageSound, OpSound, Keys, Homes, Page, Queries, Op,
       Inbox, InboxQueries, InboxOps, InboxRow
<1>8. PageSound(Servers)
    BY QueuedOp, DelayedOp, ConsoleOp
       DEF PageSound, OpSound, Keys, Homes, Page, Queries, Servers,
           ServersQueries, ServersOps, ServersSync, ServersPower, ServersDelete, ServersRow,
           ServersDrawer, ServersDialogs
<1>9. PageSound(Dns)
    BY DEF PageSound, OpSound, Keys, Homes, Page, Queries, Op,
       Dns, DnsQueries, DnsOps, DnsRecordJob, DnsDiscover, DnsRow, DnsDrawer,
       DnsRecordRow, DnsDialogs, Queues
<1>10. PageSound(Monitoring)
    BY DelayedOp
       DEF PageSound, OpSound, Keys, Homes, Page, Queries, Monitoring, MonitoringQueries,
           MonitoringOps, MonitoringRefreshAll, MonitoringAdd, MonitoringRow,
           MonitoringDrawer, MonitoringEdit
<1>11. PageSound(Storage)
    BY DEF PageSound, OpSound, Keys, Homes, Page, Queries, Op,
       Storage, StorageQueries, StorageOps, StorageCreate, StorageRow, StorageEdit,
       Queues
<1>12. PageSound(PbxFleet)
    BY DEF PageSound, OpSound, Keys, Homes, Page, Queries, Op,
       PbxFleet, PbxOps, Queues
<1>13. PageSound(Backups)
    BY DEF PageSound, OpSound, Keys, Homes, Page, Queries, Op,
       Backups, BackupOps
<1>14. PageSound(KbDocuments)
    BY DEF PageSound, OpSound, Keys, Homes, Page, Queries, Op,
       KbDocuments, KbDocumentsQueries, KbDocumentsOps, KbIngest, KbDocumentsDialogs,
       KbDocumentsRow, Queues
<1>15. PageSound(KbSources)
    BY DEF PageSound, OpSound, Keys, Homes, Page, Queries, Op,
       KbSources, KbSourcesOps, KbSourcesDialogs
<1>16. PageSound(Ask)
    BY DEF PageSound, OpSound, Keys, Homes, Page, Queries, Op,
       Ask, AskOps, AskFeedback
<1>17. PageSound(Agents)
    BY DEF PageSound, OpSound, Keys, Homes, Page, Queries, Op,
       Agents, AgentsQueries, AgentsOps, AgentsDialogs, AgentsRow
<1>18. PageSound(Personas)
    BY DEF PageSound, OpSound, Keys, Homes, Page, Queries, Op,
       Personas, PersonasOps, PersonasDrawer, PersonasDialogs
<1>19. PageSound(PersonaDefaults)
    BY DEF PageSound, OpSound, Keys, Homes, Page, Queries, Op,
       PersonaDefaults, DefaultsOps
<1>20. PageSound(TaskRoutes)
    BY DEF PageSound, OpSound, Keys, Homes, Page, Queries, Op,
       TaskRoutes, RoutesOps
<1>21. QED
    BY <1>1, <1>2, <1>3, <1>4, <1>5, <1>6, <1>7, <1>8, <1>9, <1>10, <1>11, <1>12, <1>13, <1>14, <1>15, <1>16, <1>17, <1>18, <1>19, <1>20
       DEF Pages, PageOf

-----------------------------------------------------------------------------
(* The types, in the parts an action may change. *)

CopiesOK(c, f) ==
    /\ c \in [Slots -> {"fresh", "behind", "excused"}]
    /\ f \in [Slots -> {"idle", "fresh", "old"}]
    /\ \A s \in Slots : f[s] = "old" => c[s] # "fresh"

ViewOK(p, v) == v \in [dialog : p.dialogs \cup {"none"}, rec : Records \cup {NewRec, NoRec},
                       drawer : Records \cup {NoRec}]

ShownOK(res, arm, str) ==
    /\ res \in [Homes -> Records \cup {NewRec, NoRec}]
    /\ arm \subseteq Homes /\ str \in BOOLEAN

OwedAll(p, c, f, d, R) == \A s \in Slots : Owed(p, s, c[s], f[s], d, R)

LEMMA InvParts ==
    ASSUME PortalInv
    PROVE  /\ page \in Pages /\ PageSound(P)
           /\ CopiesOK(copy, fetch) /\ ViewOK(P, view) /\ ShownOK(result, armed, stray)
           /\ ReqsOK(P, reqs) /\ Len(reqs) <= ops /\ ops \in 0..MaxOps
           /\ due \subseteq Slots /\ faults \in 0..MaxFaults
           /\ OwedAll(P, copy, fetch, due, reqs)
           /\ RevealOK(P, view.drawer, result, armed, stray)
<1>1. PageSound(P)
    BY PagesSound DEF PortalInv, PortalTypeOK, P
<1>2. QED
    BY <1>1 DEF PortalInv, PortalTypeOK, CopiesOK, ViewOK, ShownOK, OwedAll

LEMMA InvAgain ==
    ASSUME page' = page, page \in Pages,
           CopiesOK(copy', fetch'), ViewOK(P, view'), ShownOK(result', armed', stray'),
           ReqsOK(P, reqs'), Len(reqs') <= ops', ops' \in 0..MaxOps,
           due' \subseteq Slots, faults' \in 0..MaxFaults,
           OwedAll(P, copy', fetch', due', reqs'),
           RevealOK(P, view'.drawer, result', armed', stray')
    PROVE  PortalInv'
<1>1. P' = P
    BY DEF P
<1>2. \A i \in DOMAIN reqs' : reqs'[i] \in Requests(P)
    BY DEF ReqsOK
<1>3. PortalTypeOK'
    BY <1>1, <1>2 DEF PortalTypeOK, CopiesOK, ViewOK, ShownOK, Requests, Ids
<1>4. QED
    BY <1>1, <1>3 DEF PortalInv, OwedAll

-----------------------------------------------------------------------------
(* Slots, copies and requests *)

LEMMA SlotsIn ==
    ASSUME NEW keys \in SUBSET Keys, NEW r
    PROVE  SlotsOf(keys, r) \subseteq Slots
BY DEF SlotsOf, Slots, Keys

\* A slot stands for its own kind of key.
LEMMA KindOf ==
    ASSUME NEW keys \in SUBSET Keys, NEW r, NEW s \in SlotsOf(keys, r)
    PROVE  Kind(s) \in keys
BY PortalAssumption DEF SlotsOf, Kind, Keys

LEMMA AgeCopies ==
    ASSUME CopiesOK(copy, fetch), NEW slots \in SUBSET Slots,
           NEW how \in {"behind", "excused"}, Age(slots, how)
    PROVE  /\ CopiesOK(copy', fetch')
           /\ \A s \in Slots \ slots : copy'[s] = copy[s] /\ fetch'[s] = fetch[s]
           /\ \A s \in slots : copy'[s] \in {how, "excused"}
<1>1. PICK read \in SUBSET {s \in slots : fetch[s] = "fresh"} :
          fetch' = [s \in Slots |-> IF s \in read THEN "old" ELSE fetch[s]]
    BY DEF Age
<1>2. copy' = [s \in Slots |-> IF s \in slots /\ copy[s] # "excused" THEN how ELSE copy[s]]
    BY DEF Age
<1>3. QED BY <1>1, <1>2 DEF CopiesOK

\* What an invalidation and a new observer have in common.
LEMMA AskAgain ==
    ASSUME CopiesOK(copy, fetch), NEW slots,
           fetch' = Invalidate(fetch, slots) \/ fetch' = Observe(fetch, slots)
    PROVE  /\ fetch' \in [Slots -> {"idle", "fresh", "old"}]
           /\ \A s \in Slots : fetch'[s] = "old" => fetch[s] = "old"
           /\ \A s \in Slots : fetch[s] = "fresh" => fetch'[s] = "fresh"
BY DEF CopiesOK, Invalidate, Observe

LEMMA ExcuseCopies ==
    ASSUME CopiesOK(copy, fetch), NEW slots, copy' = Excuse(slots)
    PROVE  /\ copy' \in [Slots -> {"fresh", "behind", "excused"}]
           /\ \A s \in Slots : copy'[s] = "behind" => copy[s] = "behind" /\ s \notin slots
           /\ \A s \in Slots : copy'[s] = "fresh" => copy[s] = "fresh"
BY DEF CopiesOK, Excuse

\* The successes of R that R2 still has to handle; the one of i may be gone.
Carries(R, R2, i) ==
    \A j \in DOMAIN R \ {i} : R[j].st = "done" =>
        \E k \in DOMAIN R2 : /\ R2[k].st = "done"
                             /\ R2[k].op = R[j].op /\ R2[k].rec = R[j].rec

LEMMA CutOut ==
    ASSUME NEW S, NEW q \in Seq(S), NEW i \in 1..Len(q), NEW w,
           w = SubSeq(q, 1, i - 1) \o SubSeq(q, i + 1, Len(q))
    PROVE  /\ w \in Seq(S) /\ Len(w) = Len(q) - 1
           /\ \A j \in 1..Len(w) : w[j] = IF j < i THEN q[j] ELSE q[j + 1]
<1> DEFINE a == SubSeq(q, 1, i - 1)
           b == SubSeq(q, i + 1, Len(q))
<1>1. Len(q) \in Nat
    OBVIOUS
<1>2. a \in Seq(S) /\ Len(a) = i - 1
    BY <1>1
<1>3. b \in Seq(S) /\ Len(b) = Len(q) - i
    BY <1>1
<1>4. \A j \in 1..(i - 1) : a[j] = q[j]
    BY <1>1
<1>5. \A j \in 1..(Len(q) - i) : b[j] = q[i + j]
    BY <1>1
<1>6. w = a \o b
    OBVIOUS
<1> HIDE DEF a, b
<1>7. w \in Seq(S) /\ Len(w) = Len(a) + Len(b)
    BY ONLY <1>2, <1>3, <1>6, ConcatProperties
<1>8. \A j \in 1..(Len(a) + Len(b)) : w[j] = IF j <= Len(a) THEN a[j] ELSE b[j - Len(a)]
    BY ONLY <1>2, <1>3, <1>6, ConcatProperties
<1>9. Len(w) = Len(q) - 1
    BY ONLY <1>1, <1>2, <1>3, <1>7, i \in 1..Len(q)
<1>10. ASSUME NEW j \in 1..Len(w) PROVE w[j] = IF j < i THEN q[j] ELSE q[j + 1]
    <2>1. CASE j < i
        <3>1. j \in 1..(i - 1) /\ j <= Len(a) /\ j \in 1..(Len(a) + Len(b))
            BY ONLY <1>1, <1>2, <1>3, <1>7, <2>1, i \in 1..Len(q), j \in 1..Len(w)
        <3>2. w[j] = a[j] /\ a[j] = q[j]
            BY <1>4, <1>8, <3>1
        <3>3. QED BY <2>1, <3>2
    <2>2. CASE ~(j < i)
        <3>1. /\ j - Len(a) \in 1..(Len(q) - i) /\ i + (j - Len(a)) = j + 1
              /\ ~(j <= Len(a)) /\ j \in 1..(Len(a) + Len(b))
            BY ONLY <1>1, <1>2, <1>3, <1>7, <2>2, i \in 1..Len(q), j \in 1..Len(w)
        <3>2. w[j] = b[j - Len(a)]
            BY <1>8, <3>1
        <3>3. b[j - Len(a)] = q[i + (j - Len(a))]
            BY <1>5, <3>1
        <3>4. QED BY <2>2, <3>1, <3>2, <3>3
    <2>3. QED BY <2>1, <2>2
<1>11. QED BY <1>7, <1>9, <1>10

\* What a request leaves behind: a sequence of requests, the successes of the
\* others, and its own as long as it is not over.
LEMMA FinishOK ==
    ASSUME NEW p, ReqsOK(p, reqs), NEW i \in Ids, NEW q \in Requests(p),
           q.job => q.st # "sent"
    PROVE  /\ ReqsOK(p, Finish(i, q)) /\ Len(Finish(i, q)) <= Len(reqs)
           /\ Carries(reqs, Finish(i, q), i)
           /\ q.st = "done" => \E k \in DOMAIN Finish(i, q) : Finish(i, q)[k] = q
<1>1. reqs \in Seq(Requests(p)) /\ i \in 1..Len(reqs) /\ DOMAIN reqs = 1..Len(reqs)
    BY DEF ReqsOK, Ids
<1>2. CASE q.st = "over" /\ ~q.job
    <2>1. Finish(i, q) = SubSeq(reqs, 1, i - 1) \o SubSeq(reqs, i + 1, Len(reqs))
        BY <1>2 DEF Finish, Without
    <2> DEFINE w == Finish(i, q)
    <2>2. /\ w \in Seq(Requests(p)) /\ Len(w) = Len(reqs) - 1
          /\ \A j \in 1..Len(w) : w[j] = IF j < i THEN reqs[j] ELSE reqs[j + 1]
        BY <1>1, <2>1, CutOut
    <2> HIDE DEF w
    <2>3. DOMAIN w = 1..Len(w) /\ Len(reqs) \in Nat
        BY <1>1, <2>2
    <2>4. ReqsOK(p, w)
        BY <1>1, <2>2, <2>3 DEF ReqsOK
    <2>5. ASSUME NEW j \in DOMAIN reqs \ {i} PROVE \E k \in DOMAIN w : w[k] = reqs[j]
        <3>1. CASE j < i
            <4>1. j \in DOMAIN w /\ w[j] = reqs[j]
                BY <1>1, <2>2, <2>3, <3>1
            <4>2. QED BY <4>1
        <3>2. CASE ~(j < i)
            <4>1. j - 1 \in DOMAIN w /\ ~(j - 1 < i) /\ (j - 1) + 1 = j
                BY <1>1, <2>2, <2>3, <2>5, <3>2
            <4>2. w[j - 1] = reqs[j]
                BY <2>2, <2>3, <4>1
            <4>3. QED BY <4>1, <4>2
        <3>3. QED BY <3>1, <3>2
    <2>6. Carries(reqs, w, i)
        BY <2>5 DEF Carries
    <2>7. Len(w) <= Len(reqs)
        BY <2>2, <2>3
    <2>8. QED BY <1>2, <2>4, <2>6, <2>7 DEF w
<1>3. CASE ~(q.st = "over" /\ ~q.job)
    <2>1. Finish(i, q) = [reqs EXCEPT ![i] = q]
        BY <1>3 DEF Finish
    <2> DEFINE w == Finish(i, q)
    <2>2. /\ w \in Seq(Requests(p)) /\ Len(w) = Len(reqs) /\ DOMAIN w = DOMAIN reqs
          /\ w[i] = q /\ \A j \in DOMAIN reqs \ {i} : w[j] = reqs[j]
        BY <1>1, <2>1
    <2> HIDE DEF w
    <2>3. ReqsOK(p, w)
        BY <1>1, <2>2 DEF ReqsOK
    <2>4. Carries(reqs, w, i)
        BY <2>2 DEF Carries
    <2>5. i \in DOMAIN w /\ Len(w) <= Len(reqs)
        BY <1>1, <2>2
    <2>6. QED BY <2>2, <2>3, <2>4, <2>5 DEF w
<1>4. QED BY <1>2, <1>3

LEMMA WithoutOK ==
    ASSUME NEW p, ReqsOK(p, reqs), NEW i \in Ids
    PROVE  /\ ReqsOK(p, Without(i)) /\ Len(Without(i)) <= Len(reqs)
           /\ Carries(reqs, Without(i), i)
<1> DEFINE q == [reqs[i] EXCEPT !.st = "over", !.job = FALSE]
<1>1. reqs[i] \in Requests(p)
    BY DEF ReqsOK, Ids
<1>2. q \in Requests(p) /\ q.st = "over" /\ q.job = FALSE
    BY <1>1 DEF Requests
<1> HIDE DEF q
<1>3. Finish(i, q) = Without(i)
    BY <1>2 DEF Finish
<1>4. QED BY <1>2, <1>3, FinishOK

\* A slot stays owed while its request stays and the successes are carried on.
LEMMA OwedOn ==
    ASSUME NEW p, NEW s, NEW c, NEW f, NEW d, NEW R, Owed(p, s, c, f, d, R),
           NEW c2, NEW f2, NEW d2, NEW R2, NEW i, Carries(R, R2, i),
           c2 = "behind" => c = "behind",
           c2 = "behind" /\ f = "fresh" => f2 = "fresh",
           s \in d \ Records => s \in d2 \/ f2 = "fresh" \/ Kind(s) \notin p.queries.asks,
           i \in DOMAIN R /\ R[i].st = "done" =>
               s \notin SlotsOf(Touched(p.ops[R[i].op]), R[i].rec) \/ Owed(p, s, c2, f2, d2, R2)
    PROVE  Owed(p, s, c2, f2, d2, R2)
<1>1. SUFFICES ASSUME c2 = "behind" PROVE Owed(p, s, c2, f2, d2, R2)
    BY DEF Owed
<1>2. CASE Awaited(p, s, R)
    <2>1. PICK j \in DOMAIN R : /\ R[j].st = "done"
                                /\ s \in SlotsOf(Touched(p.ops[R[j].op]), R[j].rec)
        BY <1>2 DEF Awaited
    <2>2. CASE j = i
        BY <2>1, <2>2
    <2>3. CASE j # i
        <3>1. Awaited(p, s, R2)
            BY <2>1, <2>3 DEF Carries, Awaited
        <3>2. QED BY <3>1 DEF Owed
    <2>4. QED BY <2>2, <2>3
<1>3. CASE ~Awaited(p, s, R)
    BY <1>1, <1>3 DEF Owed
<1>4. QED BY <1>2, <1>3

-----------------------------------------------------------------------------
(* The user *)

\* Requests that only carry on leave every slot owed if nothing else changes.
LEMMA OwedCarried ==
    ASSUME NEW p, NEW c, NEW f, NEW d, NEW R, NEW R2, OwedAll(p, c, f, d, R),
           Carries(R, R2, 0), 0 \notin DOMAIN R
    PROVE  OwedAll(p, c, f, d, R2)
BY OwedOn DEF OwedAll

LEMMA NoZero == ASSUME ReqsOK(P, reqs) PROVE 0 \notin DOMAIN reqs /\ Carries(reqs, reqs, 0)
BY DEF ReqsOK, Carries

LEMMA OpenDialogStep == ASSUME PortalInv, OpenDialog PROVE PortalInv'
<1>1. UNCHANGED <<page, copy, fetch, reqs, ops, due, armed, faults>>
    BY DEF OpenDialog
<1>2. PICK d \in P.dialogs, r \in Records \cup {NewRec} :
          /\ view' = [view EXCEPT !.dialog = d, !.rec = r]
          /\ result' = IF P.ops[d].shows = "drawer"
                       THEN [result EXCEPT !["drawer"] = NoRec] ELSE result
          /\ stray' = (stray /\ result'["drawer"] # NoRec)
    BY DEF OpenDialog
<1>3. ViewOK(P, view') /\ view'.drawer = view.drawer
    BY InvParts, <1>2 DEF ViewOK
<1>4. /\ result' \in [Homes -> Records \cup {NewRec, NoRec}]
      /\ \A h \in Homes : result'[h] = result[h] \/ (h = "drawer" /\ result'[h] = NoRec)
    BY InvParts, <1>2 DEF ShownOK, Homes
<1>5. stray' \in BOOLEAN /\ ((stray /\ result'["drawer"] # NoRec) <=> stray')
    BY <1>2
<1>6. ShownOK(result', armed', stray')
    BY InvParts, <1>1, <1>4, <1>5 DEF ShownOK
<1>7. RevealOK(P, view'.drawer, result', armed', stray')
    BY InvParts, <1>1, <1>3, <1>4, <1>5 DEF RevealOK, Homes
<1>8. QED
    BY InvParts, InvAgain, <1>1, <1>3, <1>6, <1>7

LEMMA UnmountedOK ==
    ASSUME ReqsOK(P, reqs)
    PROVE  /\ ReqsOK(P, Unmounted) /\ Len(Unmounted) = Len(reqs)
           /\ Carries(reqs, Unmounted, 0)
<1>1. reqs \in Seq(Requests(P)) /\ DOMAIN reqs = 1..Len(reqs) /\ Len(reqs) \in Nat
    BY DEF ReqsOK
<1> DEFINE w == Unmounted
<1>2. ASSUME NEW i \in Ids
      PROVE  /\ w[i] \in Requests(P) /\ w[i].op = reqs[i].op /\ w[i].rec = reqs[i].rec
             /\ w[i].st = reqs[i].st /\ w[i].job = reqs[i].job
    <2>1. reqs[i] \in Requests(P)
        BY <1>1 DEF Ids
    <2>2. w[i] = IF reqs[i].op = view.dialog THEN [reqs[i] EXCEPT !.gone = TRUE] ELSE reqs[i]
        BY DEF Unmounted
    <2>3. QED BY <2>1, <2>2 DEF Requests
<1>3. w = [i \in 1..Len(reqs) |-> w[i]]
    BY <1>1 DEF Unmounted, Ids
<1> HIDE DEF w
<1>4. w \in Seq(Requests(P)) /\ Len(w) = Len(reqs) /\ DOMAIN w = DOMAIN reqs
    BY <1>1, <1>2, <1>3 DEF Ids
<1>5. ReqsOK(P, w)
    BY <1>2, <1>4 DEF ReqsOK, Ids
<1>6. Carries(reqs, w, 0)
    BY <1>2, <1>4 DEF Carries, Ids
<1>7. QED BY <1>4, <1>5, <1>6 DEF w

LEMMA CloseDialogStep == ASSUME PortalInv, CloseDialog PROVE PortalInv'
<1>1. /\ UNCHANGED <<page, copy, fetch, ops, due, faults, stray>>
      /\ view' = [view EXCEPT !.dialog = "none", !.rec = NoRec]
      /\ result' = [result EXCEPT !["dialog"] = NoRec]
      /\ armed' = armed \ {"dialog"}
      /\ reqs' = Unmounted
    BY DEF CloseDialog
<1>2. ViewOK(P, view') /\ view'.drawer = view.drawer
    BY InvParts, <1>1 DEF ViewOK
<1>3. ShownOK(result', armed', stray')
    BY InvParts, <1>1 DEF ShownOK
<1>4. RevealOK(P, view'.drawer, result', armed', stray')
    BY InvParts, <1>1, <1>2 DEF RevealOK, ShownOK, Homes
<1>5. ReqsOK(P, reqs') /\ Len(reqs') = Len(reqs) /\ Carries(reqs, reqs', 0)
    BY InvParts, UnmountedOK, <1>1
<1>6. OwedAll(P, copy', fetch', due', reqs')
    BY InvParts, NoZero, OwedCarried, <1>1, <1>5
<1>7. QED
    BY InvParts, InvAgain, <1>1, <1>2, <1>3, <1>4, <1>5, <1>6

LEMMA OpenDrawerStep == ASSUME PortalInv, OpenDrawer PROVE PortalInv'
<1>1. UNCHANGED <<page, copy, reqs, ops, due, result, armed, faults, stray>> /\ view = NoView
    BY DEF OpenDrawer
<1>2. PICK r \in Records :
          /\ view' = [view EXCEPT !.drawer = r]
          /\ fetch' = Observe(fetch, SlotsOf(P.queries.asks \cap {"detail"}, r))
    BY DEF OpenDrawer
<1>3. ViewOK(P, view') /\ view'.drawer = r /\ view.drawer = NoRec
    BY InvParts, <1>1, <1>2 DEF ViewOK, NoView
<1>4. RevealOK(P, view'.drawer, result', armed', stray')
    BY InvParts, <1>1, <1>3 DEF RevealOK
<1>5. /\ CopiesOK(copy', fetch')
      /\ \A s \in Slots : fetch[s] = "fresh" => fetch'[s] = "fresh"
    BY InvParts, AskAgain, <1>1, <1>2 DEF CopiesOK
<1>6. OwedAll(P, copy', fetch', due', reqs')
    BY InvParts, NoZero, OwedOn, <1>1, <1>5 DEF OwedAll
<1>7. QED
    BY InvParts, InvAgain, <1>1, <1>3, <1>4, <1>5, <1>6

LEMMA CloseDrawerStep == ASSUME PortalInv, CloseDrawer PROVE PortalInv'
<1>1. UNCHANGED <<page, copy, fetch, reqs, ops, due, faults>> /\ view' = NoView
    BY DEF CloseDrawer
<1>2. ViewOK(P, view') /\ view'.drawer = NoRec
    BY <1>1 DEF ViewOK, NoView
<1>3. ShownOK(result', armed', stray') /\ RevealOK(P, view'.drawer, result', armed', stray')
    <2>1. CASE "clears" \in P.drawer
        <3>1. /\ result' = [result EXCEPT !["drawer"] = NoRec]
              /\ armed' = armed \ {"drawer"} /\ stray' = FALSE
            BY <2>1 DEF CloseDrawer
        <3>2. QED BY InvParts, <1>2, <3>1 DEF ShownOK, RevealOK, Homes
    <2>2. CASE "clears" \notin P.drawer
        <3>1. UNCHANGED <<result, armed, stray>>
            BY <2>2 DEF CloseDrawer
        <3>2. QED BY InvParts, <2>2, <3>1 DEF ShownOK, RevealOK
    <2>3. QED BY <2>1, <2>2
<1>4. QED
    BY InvParts, InvAgain, <1>1, <1>2, <1>3

LEMMA CloseModalStep == ASSUME PortalInv, CloseModal PROVE PortalInv'
<1>1. /\ UNCHANGED <<page, copy, fetch, view, reqs, ops, due, armed, faults, stray>>
      /\ result' = [result EXCEPT !["modal"] = NoRec]
    BY DEF CloseModal
<1>2. ShownOK(result', armed', stray') /\ RevealOK(P, view'.drawer, result', armed', stray')
    BY InvParts, <1>1 DEF ShownOK, RevealOK, Homes
<1>3. QED
    BY InvParts, InvAgain, <1>1, <1>2

LEMMA SubmitStep == ASSUME PortalInv, Submit PROVE PortalInv'
<1>1. /\ UNCHANGED <<page, copy, fetch, due, result, armed, faults, stray>>
      /\ ops < MaxOps /\ ops' = ops + 1
    BY DEF Submit
<1>2. PICK op \in DOMAIN P.ops, r \in Records \cup {NewRec} :
          /\ reqs' = Append(reqs, Request(op, r))
          /\ view' = IF P.ops[op].eager
                     THEN [view EXCEPT !.dialog = "none", !.rec = NoRec] ELSE view
    BY DEF Submit
<1>3. ViewOK(P, view') /\ view'.drawer = view.drawer
    BY InvParts, <1>2 DEF ViewOK
<1>4. RevealOK(P, view'.drawer, result', armed', stray')
    BY InvParts, <1>1, <1>3 DEF RevealOK
<1>5. Request(op, r) \in Requests(P) /\ Request(op, r).job = FALSE
    BY DEF Request, Requests
<1>6. reqs \in Seq(Requests(P)) /\ \A i \in DOMAIN reqs : reqs[i].job => reqs[i].st # "sent"
    BY InvParts DEF ReqsOK
<1>7. /\ reqs' \in Seq(Requests(P)) /\ Len(reqs') = Len(reqs) + 1
      /\ DOMAIN reqs' = DOMAIN reqs \cup {Len(reqs) + 1}
      /\ \A i \in DOMAIN reqs : reqs'[i] = reqs[i]
      /\ reqs'[Len(reqs) + 1] = Request(op, r)
    BY <1>2, <1>5, <1>6
<1>8. ReqsOK(P, reqs') /\ Carries(reqs, reqs', 0)
    BY <1>5, <1>6, <1>7 DEF ReqsOK, Carries
<1>9. OwedAll(P, copy', fetch', due', reqs')
    BY InvParts, NoZero, OwedCarried, <1>1, <1>8
<1>10. Len(reqs') <= ops' /\ ops' \in 0..MaxOps
    BY InvParts, PortalAssumption, <1>1, <1>6, <1>7
<1>11. QED
    BY InvParts, InvAgain, <1>1, <1>3, <1>4, <1>8, <1>9, <1>10

LEMMA RefreshPageStep == ASSUME PortalInv, Refresh PROVE PortalInv'
<1>1. /\ UNCHANGED <<page, copy, view, reqs, ops, due, result, armed, faults, stray>>
      /\ fetch' = Invalidate(fetch, P.queries.reload)
    BY DEF Refresh
<1>2. /\ CopiesOK(copy', fetch')
      /\ \A s \in Slots : fetch[s] = "fresh" => fetch'[s] = "fresh"
    BY InvParts, AskAgain, <1>1 DEF CopiesOK
<1>3. OwedAll(P, copy', fetch', due', reqs')
    BY InvParts, NoZero, OwedOn, <1>1, <1>2 DEF OwedAll
<1>4. QED
    BY InvParts, InvAgain, <1>1, <1>2, <1>3

-----------------------------------------------------------------------------
(* The server *)

\* Where a change of the server leaves the slots: what it touched is excused, or
\* the success of its request is still to be handled.
LEMMA OwedAged ==
    ASSUME NEW p, ReqsOK(p, reqs), NEW i \in Ids, NEW slots, NEW R2,
           OwedAll(p, copy, fetch, due, reqs), due' = due, Carries(reqs, R2, i),
           \A s \in Slots \ slots : copy'[s] = copy[s] /\ fetch'[s] = fetch[s],
           \/ \A s \in slots : copy'[s] = "excused"
           \/ \E k \in DOMAIN R2 : /\ R2[k].st = "done"
                                   /\ slots \subseteq SlotsOf(Touched(p.ops[R2[k].op]), R2[k].rec),
           reqs[i].st = "done" =>
               \E k \in DOMAIN R2 : /\ R2[k].st = "done"
                                    /\ R2[k].op = reqs[i].op /\ R2[k].rec = reqs[i].rec
    PROVE  OwedAll(p, copy', fetch', due', R2)
<1>1. ASSUME NEW s \in Slots PROVE Owed(p, s, copy'[s], fetch'[s], due', R2)
    <2>1. CASE s \in slots
        BY <2>1 DEF Owed, Awaited
    <2>2. CASE s \notin slots
        <3>1. Carries(reqs, R2, 0) /\ 0 \notin DOMAIN reqs
            BY DEF Carries, ReqsOK
        <3>2. QED BY <2>2, <3>1, OwedOn DEF OwedAll
    <2>3. QED BY <2>1, <2>2
<1>2. QED BY <1>1 DEF OwedAll

LEMMA RequestFacts ==
    ASSUME PortalInv, NEW i \in Ids
    PROVE  /\ reqs \in Seq(Requests(P)) /\ reqs[i] \in Requests(P)
           /\ reqs[i].op \in DOMAIN P.ops /\ OpSound(P, OpOf(i))
           /\ reqs[i].job => reqs[i].st # "sent"
           /\ reqs[i].rec \in Records \cup {NewRec}
           /\ P.queries.asks \subseteq Keys
<1>1. reqs \in Seq(Requests(P)) /\ reqs[i] \in Requests(P) /\ (reqs[i].job => reqs[i].st # "sent")
    BY InvParts DEF ReqsOK, Ids
<1>2. QED BY <1>1, InvParts DEF Requests, PageSound, OpOf

LEMMA ServeStep == ASSUME PortalInv, NEW i \in Ids, Serve(i) PROVE PortalInv'
<1> DEFINE slots == SlotsOf(OpOf(i).alters, reqs[i].rec)
           q == [reqs[i] EXCEPT !.st = "done", !.job = (OpOf(i).later # {})]
<1>1. /\ UNCHANGED <<page, view, ops, due, result, armed, faults, stray>>
      /\ reqs[i].st = "sent" /\ Age(slots, "behind")
      /\ reqs' = [reqs EXCEPT ![i].st = "done", ![i].job = (OpOf(i).later # {})]
    BY DEF Serve
<1>2. PICK b \in BOOLEAN : b = (OpOf(i).later # {})
    OBVIOUS
<1>3. slots \subseteq Slots /\ slots \subseteq SlotsOf(Touched(OpOf(i)), reqs[i].rec)
    BY RequestFacts, SlotsIn DEF OpSound, Touched, SlotsOf
<1>4. reqs' = [reqs EXCEPT ![i] = [reqs[i] EXCEPT !.st = "done", !.job = b]]
    BY <1>1, <1>2, RequestFacts
<1>5. /\ reqs' \in Seq(Requests(P)) /\ Len(reqs') = Len(reqs) /\ DOMAIN reqs' = DOMAIN reqs
      /\ reqs'[i] = [reqs[i] EXCEPT !.st = "done", !.job = b]
      /\ \A j \in DOMAIN reqs \ {i} : reqs'[j] = reqs[j]
    <2>1. [reqs[i] EXCEPT !.st = "done", !.job = b] \in Requests(P)
        BY RequestFacts DEF Requests
    <2>2. QED BY <1>4, <2>1, RequestFacts DEF Ids
<1>6. reqs'[i].st = "done" /\ reqs'[i].op = reqs[i].op /\ reqs'[i].rec = reqs[i].rec
    BY <1>5, RequestFacts DEF Requests
<1>7. ReqsOK(P, reqs') /\ Carries(reqs, reqs', i)
    BY <1>5, <1>6, InvParts DEF ReqsOK, Carries
<1> HIDE DEF slots
<1>8. /\ CopiesOK(copy', fetch')
      /\ \A s \in Slots \ slots : copy'[s] = copy[s] /\ fetch'[s] = fetch[s]
    BY <1>1, <1>3, AgeCopies, InvParts
<1>9. OwedAll(P, copy', fetch', due', reqs')
    <2>1. i \in DOMAIN reqs' /\ slots \subseteq SlotsOf(Touched(P.ops[reqs'[i].op]), reqs'[i].rec)
        BY <1>3, <1>5, <1>6 DEF OpOf, Ids
    <2>2. QED BY <1>1, <1>6, <1>7, <1>8, <2>1, OwedAged, InvParts
<1>10. RevealOK(P, view'.drawer, result', armed', stray')
    BY <1>1, InvParts
<1>11. QED BY <1>1, <1>5, <1>7, <1>8, <1>9, <1>10, InvParts, InvAgain

LEMMA RefusedStep == ASSUME PortalInv, NEW i \in Ids, Refused(i) PROVE PortalInv'
<1>1. /\ UNCHANGED <<page, copy, fetch, view, ops, due, result, armed, faults, stray>>
      /\ reqs[i].st = "sent" /\ reqs' = Without(i)
    BY DEF Refused
<1>2. ReqsOK(P, reqs') /\ Len(reqs') <= Len(reqs) /\ Carries(reqs, reqs', i)
    BY <1>1, InvParts, WithoutOK
<1>3. Carries(reqs, reqs', 0)
    BY <1>1, <1>2 DEF Carries
<1>4. OwedAll(P, copy', fetch', due', reqs')
    BY <1>1, <1>3, InvParts, NoZero, OwedCarried
<1>5. Len(reqs') <= ops' /\ Len(reqs') \in Nat
    BY <1>1, <1>2, InvParts DEF ReqsOK
<1>6. QED BY <1>1, <1>2, <1>4, <1>5, InvParts, InvAgain

LEMMA JobRunsStep == ASSUME PortalInv, NEW i \in Ids, JobRuns(i) PROVE PortalInv'
<1> DEFINE slots == SlotsOf(OpOf(i).later, reqs[i].rec)
           how == IF reqs[i].st = "over" THEN "excused" ELSE "behind"
           q == [reqs[i] EXCEPT !.job = FALSE]
<1>1. /\ UNCHANGED <<page, view, ops, due, result, armed, faults, stray>>
      /\ reqs[i].job /\ Age(slots, how) /\ reqs' = Finish(i, q)
    BY DEF JobRuns
<1>2. slots \subseteq Slots /\ slots \subseteq SlotsOf(Touched(OpOf(i)), reqs[i].rec)
    BY RequestFacts, SlotsIn DEF OpSound, Touched, SlotsOf
<1>3. /\ q \in Requests(P) /\ q.job = FALSE
      /\ q.st = reqs[i].st /\ q.op = reqs[i].op /\ q.rec = reqs[i].rec
    BY RequestFacts DEF Requests
<1>4. reqs[i].st \in {"done", "over"}
    BY <1>1, RequestFacts DEF Requests
<1>5. how \in {"behind", "excused"}
    OBVIOUS
<1> HIDE DEF slots, q
<1>6. /\ ReqsOK(P, reqs') /\ Len(reqs') <= Len(reqs) /\ Carries(reqs, reqs', i)
      /\ q.st = "done" => \E k \in DOMAIN reqs' : reqs'[k] = q
    BY <1>1, <1>3, InvParts, FinishOK
<1>7. /\ CopiesOK(copy', fetch')
      /\ \A s \in Slots \ slots : copy'[s] = copy[s] /\ fetch'[s] = fetch[s]
      /\ \A s \in slots : copy'[s] \in {how, "excused"}
    <2> HIDE DEF how
    <2>1. QED BY <1>1, <1>2, <1>5, AgeCopies, InvParts
<1>8. OwedAll(P, copy', fetch', due', reqs')
    <2>1. reqs[i].st = "done" =>
              \E k \in DOMAIN reqs' : /\ reqs'[k].st = "done" /\ reqs'[k].op = reqs[i].op
                                      /\ reqs'[k].rec = reqs[i].rec
        BY <1>3, <1>6
    <2>2. CASE reqs[i].st = "over"
        <3>1. \A s \in slots : copy'[s] = "excused"
            BY <1>7, <2>2
        <3>2. QED BY <1>1, <1>6, <1>7, <2>1, <3>1, OwedAged, InvParts
    <2>3. CASE reqs[i].st = "done"
        <3>1. \E k \in DOMAIN reqs' :
                  /\ reqs'[k].st = "done"
                  /\ slots \subseteq SlotsOf(Touched(P.ops[reqs'[k].op]), reqs'[k].rec)
            BY <1>2, <2>1, <2>3 DEF OpOf
        <3>2. QED BY <1>1, <1>6, <1>7, <2>1, <3>1, OwedAged, InvParts
    <2>4. QED BY <1>4, <2>2, <2>3
<1>9. Len(reqs') <= ops' /\ Len(reqs') \in Nat
    BY <1>1, <1>6, InvParts DEF ReqsOK
<1>10. QED BY <1>1, <1>6, <1>7, <1>8, <1>9, InvParts, InvAgain

-----------------------------------------------------------------------------
(* Answers *)

\* After a success every slot it touched is asked again, will be, or is excused.
LEMMA SuccessOwes ==
    ASSUME PortalInv, NEW i \in Ids, Success(i), NEW R2,
           NEW s \in SlotsOf(Touched(OpOf(i)), reqs[i].rec), s \in Slots
    PROVE  Owed(P, s, copy'[s], fetch'[s], due', R2)
<1> DEFINE op == OpOf(i)
<1>1. /\ fetch' = Invalidate(fetch, Refreshed(op))
      /\ due' = due \cup SlotsOf(op.delayed, view.drawer)
      /\ copy' = Excuse(SlotsOf((op.alters \cup op.later) \cap {"detail"}, reqs[i].rec)
                            \ {view.drawer})
    BY DEF Success
<1>2. OpSound(P, op) /\ P.queries.asks \subseteq Keys
    BY RequestFacts
<1> HIDE DEF op
<1>3. Touched(op) \subseteq Keys
    BY <1>2 DEF OpSound, Touched
<1>4. Kind(s) \in Touched(op)
    BY <1>3, KindOf DEF op
<1>5. SUFFICES ASSUME copy'[s] = "behind", Kind(s) \in P.queries.asks,
                      Kind(s) \notin P.queries.polls
               PROVE  fetch'[s] = "fresh" \/ s \in due' \ Records
    BY DEF Owed
<1>6. CASE s \notin Records
    <2>1. Kind(s) = s /\ s # "detail"
        BY <1>6, PortalAssumption DEF Kind, Slots
    <2>2. s \in op.refreshes \cup op.delayed
        BY <1>2, <1>4, <1>5, <2>1 DEF OpSound, Touched
    <2>3. CASE s \in op.refreshes
        <3>1. s \in Refreshed(op) /\ s \in Observed
            BY <1>5, <2>1, <2>3 DEF Refreshed, Observed, SlotsOf
        <3>2. QED BY <1>1, <3>1 DEF Invalidate
    <2>4. CASE s \in op.delayed
        BY <1>1, <1>6, <2>1, <2>4 DEF SlotsOf
    <2>5. QED BY <2>2, <2>3, <2>4
<1>7. CASE s \in Records
    <2>1. Kind(s) = "detail" /\ s \notin Keys
        BY <1>7, PortalAssumption DEF Kind, Keys
    <2>2. s = reqs[i].rec
        BY <1>3, <2>1 DEF SlotsOf, op
    <2>3. s \in SlotsOf((op.alters \cup op.later) \cap {"detail"}, reqs[i].rec)
        BY <1>4, <1>7, <2>1, <2>2 DEF SlotsOf, Touched
    <2>4. s = view.drawer
        BY <1>1, <1>5, <2>3 DEF Excuse
    <2>5. "detail" \in op.refreshes
        BY <1>2, <1>4, <1>5, <2>1 DEF OpSound, Touched
    <2>6. s \in Refreshed(op) /\ s \in Observed
        BY <1>5, <1>7, <2>1, <2>4, <2>5 DEF Refreshed, Observed, SlotsOf
    <2>7. QED BY <1>1, <2>6 DEF Invalidate
<1>8. QED BY <1>6, <1>7

LEMMA SuccessReveals ==
    ASSUME PortalInv, NEW i \in Ids, Success(i)
    PROVE  /\ ViewOK(P, view') /\ ShownOK(result', armed', stray')
           /\ RevealOK(P, view'.drawer, result', armed', stray')
<1> DEFINE op == OpOf(i)
           q == reqs[i]
<1>1. /\ view' = Closed(op) /\ result' = Shown(op, q) /\ armed' = Countdown(op, q)
      /\ stray' = \/ op.shows = "drawer" /\ q.rec # view.drawer
                  \/ op.shows # "drawer" /\ stray
                  \/ "drawer" \in op.closes /\ result["drawer"] # NoRec
    BY DEF Success
<1>2. OpSound(P, op) /\ q.rec \in Records \cup {NewRec}
    BY RequestFacts
<1> HIDE DEF op, q
<1>3. /\ stray' \in BOOLEAN
      /\ stray' <=> \/ op.shows = "drawer" /\ q.rec # view.drawer
                    \/ op.shows # "drawer" /\ stray
                    \/ "drawer" \in op.closes /\ result["drawer"] # NoRec
    BY <1>1
<1>4. ViewOK(P, view')
    BY <1>1, InvParts DEF ViewOK, Closed
<1>5. view'.drawer = IF "drawer" \in op.closes THEN NoRec ELSE view.drawer
    BY <1>1 DEF Closed
<1>6. CASE op.shows = "none" \/ op.shows = "modal" \/ (op.shows = "dialog" /\ q.gone)
    <2>1. armed' = armed
        BY <1>1, <1>6 DEF Countdown
    <2>2. result' = result \/ result' = [result EXCEPT !["modal"] = q.rec]
        BY <1>1, <1>6 DEF Shown
    <2>3. /\ result' \in [Homes -> Records \cup {NewRec, NoRec}]
          /\ result'["drawer"] = result["drawer"] /\ result'["dialog"] = result["dialog"]
        BY <1>2, <2>2, InvParts DEF ShownOK, Homes
    <2>4. ShownOK(result', armed', stray')
        BY <1>3, <2>1, <2>3, InvParts DEF ShownOK
    <2>5. RevealOK(P, view'.drawer, result', armed', stray')
        BY <1>3, <1>5, <1>6, <2>1, <2>3, InvParts DEF RevealOK
    <2>6. QED BY <1>4, <2>4, <2>5
<1>7. CASE op.shows = "dialog" /\ ~q.gone
    <2>1. armed' = armed \cup {"dialog"} /\ result' = [result EXCEPT !["dialog"] = q.rec]
        BY <1>1, <1>7 DEF Countdown, Shown
    <2>2. /\ result' \in [Homes -> Records \cup {NewRec, NoRec}]
          /\ result'["drawer"] = result["drawer"]
        BY <1>2, <2>1, InvParts DEF ShownOK, Homes
    <2>3. ShownOK(result', armed', stray')
        BY <1>3, <2>1, <2>2, InvParts DEF ShownOK, Homes
    <2>4. RevealOK(P, view'.drawer, result', armed', stray')
        BY <1>3, <1>5, <1>7, <2>1, <2>2, InvParts DEF RevealOK
    <2>5. QED BY <1>4, <2>3, <2>4
<1>8. CASE op.shows = "drawer"
    <2>1. armed' = armed \cup {"drawer"} /\ result' = [result EXCEPT !["drawer"] = q.rec]
        BY <1>1, <1>8 DEF Countdown, Shown
    <2>2. /\ result' \in [Homes -> Records \cup {NewRec, NoRec}]
          /\ result'["drawer"] = q.rec /\ result'["dialog"] = result["dialog"]
        BY <1>2, <2>1, InvParts DEF ShownOK, Homes
    <2>3. ShownOK(result', armed', stray')
        BY <1>3, <2>1, <2>2, InvParts DEF ShownOK, Homes
    <2>4. "clears" \in P.drawer /\ "drawer" \notin op.closes
        BY <1>2, <1>8 DEF OpSound
    <2>5. RevealOK(P, view'.drawer, result', armed', stray')
        BY <1>3, <1>5, <1>8, <2>1, <2>2, <2>4, InvParts DEF RevealOK
    <2>6. QED BY <1>4, <2>3, <2>5
<1>9. QED BY <1>2, <1>6, <1>7, <1>8 DEF OpSound, Homes

LEMMA SuccessStep == ASSUME PortalInv, NEW i \in Ids, Success(i) PROVE PortalInv'
<1> DEFINE op == OpOf(i)
           q == [reqs[i] EXCEPT !.st = "over"]
<1>1. /\ UNCHANGED <<page, ops, faults>> /\ reqs[i].st = "done"
      /\ fetch' = Invalidate(fetch, Refreshed(op))
      /\ due' = due \cup SlotsOf(op.delayed, view.drawer)
      /\ copy' = Excuse(SlotsOf((op.alters \cup op.later) \cap {"detail"}, reqs[i].rec)
                            \ {view.drawer})
      /\ reqs' = Finish(i, q)
    BY DEF Success
<1>2. q \in Requests(P) /\ q.st = "over"
    BY RequestFacts DEF Requests
<1>3. ReqsOK(P, reqs') /\ Len(reqs') <= Len(reqs) /\ Carries(reqs, reqs', i)
    <2> HIDE DEF q
    <2>1. QED BY <1>1, <1>2, InvParts, FinishOK
<1>4. /\ copy' \in [Slots -> {"fresh", "behind", "excused"}]
      /\ \A s \in Slots : copy'[s] = "behind" => copy[s] = "behind"
      /\ \A s \in Slots : copy'[s] = "fresh" => copy[s] = "fresh"
    BY <1>1, InvParts, ExcuseCopies
<1>5. /\ CopiesOK(copy', fetch')
      /\ \A s \in Slots : fetch[s] = "fresh" => fetch'[s] = "fresh"
    BY <1>1, <1>4, InvParts, AskAgain DEF CopiesOK
<1>6. due' \subseteq Slots
    BY <1>1, InvParts, RequestFacts, SlotsIn DEF OpSound
<1>7. OwedAll(P, copy', fetch', due', reqs')
    <2>1. ASSUME NEW s \in Slots PROVE Owed(P, s, copy'[s], fetch'[s], due', reqs')
        <3>1. s \in SlotsOf(Touched(OpOf(i)), reqs[i].rec) => Owed(P, s, copy'[s], fetch'[s], due', reqs')
            BY <2>1, SuccessOwes
        <3>2. Owed(P, s, copy[s], fetch[s], due, reqs) /\ due \subseteq due'
            BY <1>1, InvParts DEF OwedAll
        <3>3. QED BY <1>3, <1>4, <1>5, <3>1, <3>2, OwedOn DEF OpOf
    <2>2. QED BY <2>1 DEF OwedAll
<1>8. Len(reqs') <= ops' /\ Len(reqs') \in Nat
    BY <1>1, <1>3, InvParts DEF ReqsOK
<1>9. QED BY <1>1, <1>3, <1>5, <1>6, <1>7, <1>8, InvParts, InvAgain, SuccessReveals

LEMMA AnswerLostStep == ASSUME PortalInv, NEW i \in Ids, AnswerLost(i) PROVE PortalInv'
<1> DEFINE q == [reqs[i] EXCEPT !.st = "over"]
<1>1. /\ UNCHANGED <<page, fetch, view, ops, due, result, armed, stray>>
      /\ faults < MaxFaults /\ faults' = faults + 1
      /\ copy' = Excuse(SlotsOf(Touched(OpOf(i)), reqs[i].rec))
      /\ reqs' = Finish(i, q)
    BY DEF AnswerLost, Touched
<1>2. q \in Requests(P) /\ q.st = "over"
    BY RequestFacts DEF Requests
<1>3. ReqsOK(P, reqs') /\ Len(reqs') <= Len(reqs) /\ Carries(reqs, reqs', i)
    <2> HIDE DEF q
    <2>1. QED BY <1>1, <1>2, InvParts, FinishOK
<1>4. /\ copy' \in [Slots -> {"fresh", "behind", "excused"}]
      /\ \A s \in Slots : copy'[s] = "behind" =>
             copy[s] = "behind" /\ s \notin SlotsOf(Touched(OpOf(i)), reqs[i].rec)
      /\ \A s \in Slots : copy'[s] = "fresh" => copy[s] = "fresh"
    BY <1>1, InvParts, ExcuseCopies
<1>5. CopiesOK(copy', fetch')
    BY <1>1, <1>4, InvParts DEF CopiesOK
<1>6. OwedAll(P, copy', fetch', due', reqs')
    <2>1. ASSUME NEW s \in Slots PROVE Owed(P, s, copy'[s], fetch'[s], due', reqs')
        <3>1. s \in SlotsOf(Touched(OpOf(i)), reqs[i].rec) => Owed(P, s, copy'[s], fetch'[s], due', reqs')
            BY <1>4, <2>1 DEF Owed
        <3>2. Owed(P, s, copy[s], fetch[s], due, reqs)
            BY InvParts DEF OwedAll
        <3>3. QED BY <1>1, <1>3, <1>4, <3>1, <3>2, OwedOn DEF OpOf
    <2>2. QED BY <2>1 DEF OwedAll
<1>7. /\ Len(reqs') <= ops' /\ Len(reqs') \in Nat /\ faults' \in 0..MaxFaults
    BY <1>1, <1>3, InvParts, PortalAssumption DEF ReqsOK
<1>8. QED BY <1>1, <1>3, <1>5, <1>6, <1>7, InvParts, InvAgain

LEMMA TimerStep == ASSUME PortalInv, TimerFires PROVE PortalInv'
<1>1. /\ UNCHANGED <<page, copy, view, reqs, ops, result, armed, faults, stray>>
      /\ fetch' = Invalidate(fetch, due) /\ due' = {}
    BY DEF TimerFires
<1>2. /\ CopiesOK(copy', fetch')
      /\ \A s \in Slots : fetch[s] = "fresh" => fetch'[s] = "fresh"
    BY <1>1, InvParts, AskAgain DEF CopiesOK
<1>3. ASSUME NEW s \in due \ Records
      PROVE  fetch'[s] = "fresh" \/ Kind(s) \notin P.queries.asks
    <2>1. Kind(s) = s /\ s # "detail" /\ s \in Slots
        BY <1>3, InvParts, PortalAssumption DEF Kind, Slots
    <2>2. Kind(s) \in P.queries.asks => s \in Observed
        BY <2>1 DEF Observed, SlotsOf
    <2>3. QED BY <1>1, <1>3, <2>1, <2>2 DEF Invalidate
<1>4. OwedAll(P, copy', fetch', due', reqs')
    BY <1>1, <1>2, <1>3, InvParts, NoZero, OwedOn DEF OwedAll
<1>5. QED BY <1>1, <1>2, <1>4, InvParts, InvAgain

LEMMA HideStep == ASSUME PortalInv, NEW h \in Homes, Hide(h) PROVE PortalInv'
<1>1. /\ UNCHANGED <<page, copy, fetch, reqs, ops, due, faults>>
      /\ armed' = armed \ {h} /\ result' = [result EXCEPT ![h] = NoRec]
      /\ view' = IF h = "dialog" THEN [view EXCEPT !.dialog = "none", !.rec = NoRec] ELSE view
      /\ stray' = (stray /\ h # "drawer")
    BY DEF Hide
<1>2. ViewOK(P, view') /\ view'.drawer = view.drawer
    BY <1>1, InvParts DEF ViewOK
<1>3. stray' \in BOOLEAN /\ (stray' <=> stray /\ h # "drawer")
    BY <1>1
<1>4. /\ result' \in [Homes -> Records \cup {NewRec, NoRec}] /\ result'[h] = NoRec
      /\ \A g \in Homes \ {h} : result'[g] = result[g]
    BY <1>1, InvParts DEF ShownOK
<1>5. ShownOK(result', armed', stray')
    BY <1>1, <1>3, <1>4, InvParts DEF ShownOK
<1>6. RevealOK(P, view'.drawer, result', armed', stray')
    BY <1>1, <1>2, <1>3, <1>4, InvParts DEF RevealOK, Homes
<1>7. QED BY <1>1, <1>2, <1>5, <1>6, InvParts, InvAgain

-----------------------------------------------------------------------------
(* Queries *)

LEMMA PollStep == ASSUME PortalInv, NEW s \in Slots, Poll(s) PROVE PortalInv'
<1>1. /\ UNCHANGED <<page, copy, view, reqs, ops, due, result, armed, faults, stray>>
      /\ fetch' = [fetch EXCEPT ![s] = "fresh"]
    BY DEF Poll
<1>2. /\ CopiesOK(copy', fetch')
      /\ \A t \in Slots : fetch[t] = "fresh" => fetch'[t] = "fresh"
    BY <1>1, InvParts DEF CopiesOK
<1>3. OwedAll(P, copy', fetch', due', reqs')
    BY <1>1, <1>2, InvParts, NoZero, OwedOn DEF OwedAll
<1>4. QED BY <1>1, <1>2, <1>3, InvParts, InvAgain

\* An answer that saw every change makes the copy fresh; an older one was not
\* what the slot was owed by.
LEMMA FetchArrivesStep == ASSUME PortalInv, NEW s \in Slots, FetchArrives(s) PROVE PortalInv'
<1>1. /\ UNCHANGED <<page, view, reqs, ops, due, result, armed, faults, stray>>
      /\ copy' = [copy EXCEPT ![s] = IF fetch[s] = "fresh" THEN "fresh" ELSE @]
      /\ fetch' = [fetch EXCEPT ![s] = "idle"]
    BY DEF FetchArrives
<1>2. /\ CopiesOK(copy', fetch')
      /\ \A t \in Slots : copy'[t] = "behind" => /\ copy[t] = "behind"
                                                 /\ fetch[t] = "fresh" => fetch'[t] = "fresh"
    BY <1>1, InvParts DEF CopiesOK
<1>3. OwedAll(P, copy', fetch', due', reqs')
    BY <1>1, <1>2, InvParts, NoZero, OwedOn DEF OwedAll
<1>4. QED BY <1>1, <1>2, <1>3, InvParts, InvAgain

LEMMA FetchFailsStep == ASSUME PortalInv, NEW s \in Slots, FetchFails(s) PROVE PortalInv'
<1>1. /\ UNCHANGED <<page, view, reqs, ops, due, result, armed, stray>>
      /\ faults < MaxFaults /\ faults' = faults + 1
      /\ fetch' = [fetch EXCEPT ![s] = "idle"] /\ copy' = Excuse({s})
    BY DEF FetchFails
<1>2. /\ copy' \in [Slots -> {"fresh", "behind", "excused"}]
      /\ \A t \in Slots : copy'[t] = "behind" => copy[t] = "behind" /\ t # s
      /\ \A t \in Slots : copy'[t] = "fresh" => copy[t] = "fresh"
    BY <1>1, InvParts, ExcuseCopies
<1>3. /\ CopiesOK(copy', fetch')
      /\ \A t \in Slots : copy'[t] = "behind" /\ fetch[t] = "fresh" => fetch'[t] = "fresh"
    BY <1>1, <1>2, InvParts DEF CopiesOK
<1>4. OwedAll(P, copy', fetch', due', reqs')
    <2>1. ASSUME NEW t \in Slots PROVE Owed(P, t, copy'[t], fetch'[t], due', reqs')
        <3>1. Owed(P, t, copy[t], fetch[t], due, reqs) /\ ReqsOK(P, reqs)
            BY InvParts DEF OwedAll
        <3>2. reqs' = reqs /\ due' = due /\ Carries(reqs, reqs, 0) /\ 0 \notin DOMAIN reqs
            BY <1>1, <3>1, NoZero
        <3>3. /\ copy'[t] = "behind" => copy[t] = "behind"
              /\ copy'[t] = "behind" /\ fetch[t] = "fresh" => fetch'[t] = "fresh"
            BY <1>2, <1>3
        <3>4. QED BY ONLY <3>1, <3>2, <3>3, OwedOn
    <2>2. QED BY <2>1 DEF OwedAll
<1>5. faults' \in 0..MaxFaults
    BY <1>1, InvParts, PortalAssumption
<1>6. QED BY <1>1, <1>3, <1>4, <1>5, InvParts, InvAgain

-----------------------------------------------------------------------------
(* The theorems *)

LEMMA PortalInitInv == PortalInit => PortalInv
<1> SUFFICES ASSUME PortalInit PROVE PortalInv
    OBVIOUS
<1>1. page \in Pages /\ CopiesOK(copy, fetch)
    BY DEF PortalInit, CopiesOK
<1>2. ViewOK(P, view)
    BY DEF PortalInit, ViewOK, NoView
<1>3. ReqsOK(P, reqs) /\ Len(reqs) = 0 /\ DOMAIN reqs = {}
    BY DEF PortalInit, ReqsOK
<1>4. OwedAll(P, copy, fetch, due, reqs)
    BY DEF PortalInit, OwedAll, Owed
<1>5. ShownOK(result, armed, stray) /\ RevealOK(P, view.drawer, result, armed, stray)
    BY DEF PortalInit, ShownOK, RevealOK, Homes
<1>6. due \subseteq Slots /\ ops = 0 /\ faults = 0 /\ 0 \in 0..MaxOps /\ 0 \in 0..MaxFaults
    BY PortalAssumption DEF PortalInit
<1>7. PortalTypeOK
    BY <1>1, <1>2, <1>3, <1>5, <1>6 DEF PortalTypeOK, CopiesOK, ViewOK, ShownOK, Ids
<1>8. QED BY <1>3, <1>4, <1>5, <1>7 DEF PortalInv, OwedAll

LEMMA PortalStepInv == PortalInv /\ [PortalNext]_portalVars => PortalInv'
<1> SUFFICES ASSUME PortalInv, [PortalNext]_portalVars PROVE PortalInv'
    OBVIOUS
<1>1. CASE OpenDialog \/ CloseDialog \/ OpenDrawer \/ CloseDrawer \/ CloseModal
    BY <1>1, OpenDialogStep, CloseDialogStep, OpenDrawerStep, CloseDrawerStep, CloseModalStep
<1>2. CASE Submit \/ Refresh \/ TimerFires
    BY <1>2, SubmitStep, RefreshPageStep, TimerStep
<1>3. ASSUME NEW i \in Ids, Serve(i) \/ Refused(i) \/ JobRuns(i) \/ Success(i) \/ AnswerLost(i)
      PROVE  PortalInv'
    BY <1>3, ServeStep, RefusedStep, JobRunsStep, SuccessStep, AnswerLostStep
<1>4. ASSUME NEW h \in Homes, Hide(h) PROVE PortalInv'
    BY <1>4, HideStep
<1>5. ASSUME NEW s \in Slots, Poll(s) \/ FetchArrives(s) \/ FetchFails(s) PROVE PortalInv'
    BY <1>5, PollStep, FetchArrivesStep, FetchFailsStep
<1>6. CASE UNCHANGED portalVars
    BY <1>6, InvParts, InvAgain DEF portalVars
<1>7. QED BY <1>1, <1>2, <1>3, <1>4, <1>5, <1>6 DEF PortalNext

\* The inductive invariant of the pages: a slot that is behind is owed its
\* refresh whether it is observed or not, and a revealed secret is accounted for
\* wherever the user has gone meanwhile.
THEOREM PortalInvariant == PortalSpec => []PortalInv
<1>1. QED BY PortalInitInv, PortalStepInv, PTL DEF PortalSpec

\* On every page, for any number of records and mutations: a table on show that
\* is behind because of what the user did is owed its refresh.
THEOREM RefreshesAreOwed == PortalSpec => []RefreshIsOwed
<1>1. PortalInv => RefreshIsOwed
    <2> SUFFICES ASSUME PortalInv, NEW s \in Observed, copy[s] = "behind"
                 PROVE  \/ s \in Polled \cup due
                        \/ fetch[s] = "fresh"
                        \/ \E i \in Ids :
                               /\ reqs[i].st = "done"
                               /\ s \in SlotsOf(OpOf(i).refreshes \cup OpOf(i).delayed, view.drawer)
        BY DEF RefreshIsOwed, PortalInv
    <2>1. P.queries.asks \subseteq Keys
        BY InvParts DEF PageSound
    <2>2. s \in Slots /\ Kind(s) \in P.queries.asks
        BY <2>1, SlotsIn, KindOf DEF Observed
    <2>3. s \in Records => s = view.drawer
        BY <2>1, PortalAssumption DEF Observed, SlotsOf, Keys
    <2>4. ASSUME NEW keys \in SUBSET Keys, Kind(s) \in keys PROVE s \in SlotsOf(keys, view.drawer)
        BY <2>2, <2>3, <2>4, PortalAssumption DEF Kind, SlotsOf, Slots
    <2>5. Kind(s) \in P.queries.polls => s \in Polled
        BY <2>2, <2>3, PortalAssumption DEF Kind, SlotsOf, Slots, Polled
    <2>6. CASE Awaited(P, s, reqs)
        <3>1. PICK i \in Ids : reqs[i].st = "done" /\ s \in SlotsOf(Touched(OpOf(i)), reqs[i].rec)
            BY <2>6 DEF Awaited, Ids, OpOf
        <3>2. OpSound(P, OpOf(i))
            BY RequestFacts
        <3>3. Kind(s) \in Touched(OpOf(i))
            BY <3>1, <3>2, KindOf DEF OpSound, Touched
        <3>4. Kind(s) \in OpOf(i).refreshes \cup OpOf(i).delayed \cup P.queries.polls
            BY <2>2, <3>2, <3>3 DEF OpSound, Touched
        <3>5. OpOf(i).refreshes \cup OpOf(i).delayed \subseteq Keys
            BY <3>2 DEF OpSound
        <3>6. QED BY <2>4, <2>5, <3>1, <3>4, <3>5
    <2>7. CASE ~Awaited(P, s, reqs)
        BY <2>2, <2>5, <2>7, InvParts DEF OwedAll, Owed
    <2>8. QED BY <2>6, <2>7
<1>2. QED BY <1>1, PortalInvariant, PTL

\* On every page: a secret is shown where it was asked for, unless the user has
\* left the drawer since, and its countdown is running.
THEOREM RevealsStaySafe == PortalSpec => []RevealsAreSafe
<1>1. PortalInv => RevealsAreSafe
    BY DEF PortalInv, RevealOK, RevealsAreSafe, ResultStaysHome, RevealIsTimed
<1>2. QED BY <1>1, PortalInvariant, PTL
=============================================================================
