------------------------------ MODULE ServerJobs -----------------------------
(* The server agent: API calls put change jobs into server_change_jobs        *)
(* (api/servers.py, snapshots.py, backups.py) and one worker task of the same *)
(* process (jobs/worker.py) polls them, calls the cloud provider and tracks   *)
(* instances and snapshots in its tables.                                     *)
(*                                                                            *)
(* One provider host.  An instance or snapshot is named by the job and the    *)
(* attempt that made it, and so is its row: an instance gets no second row    *)
(* while its host stays registered, as a row only goes when the provider has  *)
(* confirmed that the instance is gone.  The worker's session survives a      *)
(* failed provider call but not a failed statement or commit: the handler of  *)
(* the exception then fails too and the rest of the batch is dropped, as in a *)
(* crash.                                                                     *)
(* Requests refused with 404 change nothing and are left out; so are events.  *)
EXTENDS Integers, FiniteSets

CONSTANTS
    Jobs,         \* change jobs, numbered in the order of created_at
    None,
    BatchLimit,   \* LIMIT of the poll
    MaxAttempts,  \* job_max_attempts
    MaxFaults     \* bound: provider, vault and database errors, crashes

Powers == {"running", "stopped"}

\* <<0, 0>> is an instance made outside Nexus.
Ids == {<<0, 0>>} \cup (Jobs \X (1..MaxAttempts))

OnHost == {"create_instance", "sync"}
OnServer == {"delete_instance", "start", "stop", "other", "create_snapshot", "delete_snapshot"}

ASSUME ServerAssumption ==
    /\ Jobs \subseteq Nat \ {0} /\ IsFiniteSet(Jobs)
    /\ None \notin Jobs \cup Ids \cup Powers \cup OnHost \cup OnServer
    /\ BatchLimit \in Nat \ {0} /\ MaxAttempts \in Nat \ {0} /\ MaxFaults \in Nat

VARIABLES
    host,      \* whether the server_hosts row exists
    row,       \* server_instances: instance -> power_status
    snapRow,   \* server_snapshots and server_backups: snapshot -> its instance
    job,       \* server_change_jobs
    prov,      \* the provider's instances: instance -> power
    provSnaps, \* the provider's snapshots
    worker,    \* the worker: its step, its job, the rest of its batch and what it has read
    faults,
    effects,   \* history: job -> provider calls that took effect
    done,      \* history: jobs with an attempt the provider has confirmed
    dirty,     \* history: things changed at the provider and not recorded since
    dropped    \* history: jobs interrupted between two commits

db == <<host, row, snapRow>>
vars == <<db, job, prov, provSnaps, worker, faults, effects, done, dirty, dropped>>

NoJob == [op |-> None, status |-> "absent", attempts |-> 0, inst |-> None, snap |-> None]

Idle == [pc |-> "idle", cur |-> None, rest |-> {}, seen |-> [i \in Ids |-> None]]

JobRow ==
    [op : OnHost \cup OnServer \cup {None},
     status : {"absent", "pending", "running", "succeeded", "failed"},
     attempts : 0..MaxAttempts, inst : Ids \cup {None}, snap : Ids \cup {None}]

WorkerPc == {"idle", "mark", "resolve", "call", "commit", "audit", "fail", "audit_failure"}

Worker ==
    [pc : WorkerPc, cur : Jobs \cup {None}, rest : SUBSET Jobs, seen : [Ids -> Powers \cup {None}]]

TypeOK ==
    /\ host \in BOOLEAN
    /\ row \in [Ids -> Powers \cup {None}]
    /\ snapRow \in [Ids -> Ids \cup {None}]
    /\ job \in [Jobs -> JobRow]
    /\ prov \in [Ids -> Powers \cup {None}]
    /\ provSnaps \subseteq Ids
    /\ worker \in Worker
    /\ Cardinality(worker.rest) < BatchLimit
    /\ worker.pc = "idle" <=> worker.cur = None
    /\ faults \in 0..MaxFaults
    /\ effects \in [Jobs -> 0..MaxAttempts]
    /\ done \subseteq Jobs /\ dirty \subseteq Ids /\ dropped \subseteq Jobs

Init ==
    /\ host = TRUE
    /\ row = [i \in Ids |-> None]
    /\ snapRow = [i \in Ids |-> None]
    /\ job = [j \in Jobs |-> NoJob]
    /\ prov = [i \in Ids |-> IF i = <<0, 0>> THEN "running" ELSE None]
    /\ provSnaps = {}
    /\ worker = Idle
    /\ faults = 0
    /\ effects = [j \in Jobs |-> 0]
    /\ done = {} /\ dirty = {} /\ dropped = {}

------------------------------------------------------------------------------
\* The API

Arrives(j) == job[j].status = "absent" /\ \A m \in Jobs : m < j => job[m].status # "absent"

\* _create_job
Put(j, r) ==
    /\ Arrives(j)
    /\ job' = [job EXCEPT ![j] = [r EXCEPT !.status = "pending"]]
    /\ UNCHANGED <<db, prov, provSnaps, worker, faults, effects, done, dirty, dropped>>

create_server(j) == host /\ Put(j, [NoJob EXCEPT !.op = "create_instance"])

sync_servers(j) == host /\ Put(j, [NoJob EXCEPT !.op = "sync"])

\* delete_server, start_server, stop_server, and with "other" what changes
\* nothing that is tracked: reboot, rebuild, restore, backup schedules.
ServerJob(j, i, op) ==
    /\ row[i] # None
    /\ Put(j, [NoJob EXCEPT !.op = op, !.inst = i])

delete_server(j, i) == ServerJob(j, i, "delete_instance")
start_server(j, i) == ServerJob(j, i, "start")
stop_server(j, i) == ServerJob(j, i, "stop")
other_action(j, i) == ServerJob(j, i, "other")

\* create_snapshot, and create_backup, which takes a snapshot too
create_snapshot(j, i) == ServerJob(j, i, "create_snapshot")

delete_snapshot(j, s) ==
    /\ snapRow[s] # None
    /\ Put(j, [NoJob EXCEPT !.op = "delete_snapshot", !.inst = snapRow[s], !.snap = s])

\* The rows of its instances and their snapshots go with the host.
delete_host ==
    /\ host
    /\ host' = FALSE
    /\ row' = [i \in Ids |-> None]
    /\ snapRow' = [i \in Ids |-> None]
    /\ UNCHANGED <<job, prov, provSnaps, worker, faults, effects, done, dirty, dropped>>

------------------------------------------------------------------------------
\* The worker: process_pending_jobs

Cur == worker.cur
Att == <<Cur, job[Cur].attempts>>
Goto(pc) == worker' = [worker EXCEPT !.pc = pc]

\* The jobs of a batch are taken up in the order of created_at, until the
\* poll has done them all.
TakeUp(batch) ==
    \/ batch = {} /\ worker' = Idle
    \/ \E j \in batch :
         /\ \A k \in batch : j <= k
         /\ worker' = [Idle EXCEPT !.pc = "mark", !.cur = j, !.rest = batch \ {j}]

NextJob == TakeUp(worker.rest)

Pending == {j \in Jobs : job[j].status = "pending"}

\* ORDER BY created_at LIMIT BatchLimit
Oldest(batch) ==
    /\ \A j \in batch, k \in Pending \ batch : j < k
    /\ Cardinality(batch) <= BatchLimit
    /\ batch = Pending \/ Cardinality(batch) = BatchLimit

poll ==
    /\ worker.pc = "idle" /\ Pending # {}
    /\ \E batch \in SUBSET Pending : Oldest(batch) /\ TakeUp(batch)
    /\ UNCHANGED <<db, job, prov, provSnaps, faults, effects, done, dirty, dropped>>

mark_running ==
    /\ worker.pc = "mark"
    /\ job' = [job EXCEPT ![Cur].status = "running", ![Cur].attempts = @ + 1]
    /\ Goto("resolve")
    /\ UNCHANGED <<db, prov, provSnaps, faults, effects, done, dirty, dropped>>

\* The host of the job, through the server's row unless the payload names it.
resolve_host ==
    /\ worker.pc = "resolve"
    /\ Goto(IF IF job[Cur].op \in OnHost THEN host ELSE row[job[Cur].inst] # None
            THEN "call" ELSE "fail")
    /\ UNCHANGED <<db, job, prov, provSnaps, faults, effects, done, dirty, dropped>>

\* The provider does what the adapter asks, or refuses because it does not
\* know the instance or snapshot.
ProviderAccepts ==
    LET j == job[Cur]
    IN CASE j.op \in OnHost -> TRUE
         [] j.op = "delete_snapshot" -> j.snap \in provSnaps
         [] OTHER -> prov[j.inst] # None

ProviderDoes ==
    LET j == job[Cur]
    IN /\ prov' = CASE j.op = "create_instance" -> [prov EXCEPT ![Att] = "running"]
                    [] j.op = "delete_instance" -> [prov EXCEPT ![j.inst] = None]
                    [] j.op = "start" -> [prov EXCEPT ![j.inst] = "running"]
                    [] j.op = "stop" -> [prov EXCEPT ![j.inst] = "stopped"]
                    [] OTHER -> prov
       /\ provSnaps' = CASE j.op = "create_snapshot" -> provSnaps \cup {Att}
                         [] j.op = "delete_snapshot" -> provSnaps \ {j.snap}
                         [] OTHER -> provSnaps
       /\ effects' = [effects EXCEPT ![Cur] = @ + 1]
       /\ dirty' = dirty \cup
            (CASE j.op \in {"create_instance", "create_snapshot"} -> {Att}
               [] j.op \in {"delete_instance", "start", "stop"} -> {j.inst}
               [] j.op = "delete_snapshot" -> {j.snap}
               [] OTHER -> {})

\* adapter.<operation>; sync reads the provider's listing.
call_provider ==
    /\ worker.pc = "call"
    /\ IF ProviderAccepts
       THEN /\ ProviderDoes
            /\ done' = done \cup {Cur}
            /\ worker' = [worker EXCEPT !.pc = "commit", !.seen = prov]
       ELSE Goto("fail") /\ UNCHANGED <<prov, provSnaps, effects, done, dirty>>
    /\ UNCHANGED <<db, job, faults, dropped>>

\* Vault or provider fail, or the provider's answer is lost.
call_fails ==
    /\ worker.pc = "call" /\ faults < MaxFaults
    /\ faults' = faults + 1
    /\ \/ ProviderAccepts /\ ProviderDoes
       \/ UNCHANGED <<prov, provSnaps, effects, dirty>>
    /\ Goto("fail")
    /\ UNCHANGED <<db, job, done, dropped>>

\* Variant: sync adds new instances and does not refresh the known ones.
SyncAddsOnly(i) == IF row[i] = None THEN worker.seen[i] ELSE row[i]

\* A sync leaves rows of what the provider no longer lists as they are.
Synced(i) == IF worker.seen[i] # None THEN worker.seen[i] ELSE row[i]

\* The rows that go in with "succeeded".
NewRow(i) ==
    LET j == job[Cur]
    IN CASE j.op = "create_instance" /\ i = Att -> "running"
         [] j.op = "sync" -> Synced(i)
         [] j.op = "delete_instance" /\ i = j.inst -> None
         [] j.op = "start" /\ i = j.inst /\ row[i] # None -> "running"
         [] j.op = "stop" /\ i = j.inst /\ row[i] # None -> "stopped"
         [] OTHER -> row[i]

\* A row for a host or server that has been deleted meanwhile breaks its
\* foreign key: the commit fails.
KeyMissing ==
    LET j == job[Cur]
    IN \/ j.op = "create_instance" /\ ~host
       \/ j.op = "sync" /\ ~host /\ \E i \in Ids : worker.seen[i] # None
       \/ j.op = "create_snapshot" /\ row[j.inst] = None

\* The commit may fail as well where it updates the columns of a row that is
\* gone, and where it stores a new instance: no relationship() makes the
\* flush insert it before the job's instance_id refers to it.
MayBeRefused ==
    LET j == job[Cur]
    IN \/ KeyMissing
       \/ j.op = "create_instance"
       \/ j.op \in {"start", "stop", "other"} /\ row[j.inst] = None

Recorded ==
    LET j == job[Cur]
    IN CASE j.op \in {"create_instance", "create_snapshot"} -> {Att}
         [] j.op \in {"delete_instance", "start", "stop"} -> {j.inst}
         [] j.op = "delete_snapshot" -> {j.snap}
         [] j.op = "sync" -> {i \in Ids : worker.seen[i] # None}
         [] OTHER -> {}

commit_success ==
    /\ worker.pc = "commit" /\ ~KeyMissing
    /\ row' = [i \in Ids |-> NewRow(i)]
    /\ snapRow' = [s \in Ids |->
         LET j == job[Cur]
         IN CASE j.op = "create_snapshot" /\ s = Att -> j.inst
              [] j.op = "delete_snapshot" /\ s = j.snap -> None
              [] j.op = "delete_instance" /\ snapRow[s] = j.inst -> None
              [] OTHER -> snapRow[s]]
    /\ job' = [job EXCEPT ![Cur].status = "succeeded"]
    /\ dirty' = dirty \ Recorded
    /\ Goto("audit")
    /\ UNCHANGED <<host, prov, provSnaps, faults, effects, done, dropped>>

\* The audit row is a commit of its own.
audit_success ==
    /\ worker.pc = "audit"
    /\ NextJob
    /\ UNCHANGED <<db, job, prov, provSnaps, faults, effects, done, dirty, dropped>>

\* Variant: a job with attempts left is not put back.
commit_failure_keeps_running ==
    /\ worker.pc = "fail"
    /\ job' = [job EXCEPT ![Cur].status = IF job[Cur].attempts >= MaxAttempts THEN "failed" ELSE "running"]
    /\ Goto("audit_failure")
    /\ UNCHANGED <<db, prov, provSnaps, faults, effects, done, dirty, dropped>>

commit_failure ==
    /\ worker.pc = "fail"
    /\ job' = [job EXCEPT ![Cur].status = IF job[Cur].attempts >= MaxAttempts THEN "failed" ELSE "pending"]
    /\ Goto("audit_failure")
    /\ UNCHANGED <<db, prov, provSnaps, faults, effects, done, dirty, dropped>>

audit_failure ==
    /\ worker.pc = "audit_failure"
    /\ NextJob
    /\ UNCHANGED <<db, job, prov, provSnaps, faults, effects, done, dirty, dropped>>

\* Variant: the handler works after a failed commit and puts the job back.
AbandonAndRequeue ==
    /\ worker' = Idle
    /\ job' = [job EXCEPT ![Cur].status = IF job[Cur].attempts >= MaxAttempts THEN "failed" ELSE "pending"]
    /\ UNCHANGED <<db, prov, provSnaps, effects, done, dirty, dropped>>

\* The poll is given up where it stands; the loop polls again.
Abandon ==
    /\ worker' = Idle
    /\ dropped' = IF job[Cur].status = "running" THEN dropped \cup {Cur} ELSE dropped
    /\ UNCHANGED <<db, job, prov, provSnaps, effects, done, dirty>>

commit_refused ==
    /\ worker.pc = "commit" /\ MayBeRefused
    /\ Abandon
    /\ UNCHANGED faults

\* A statement or commit fails, or the process dies and starts again.
interrupted ==
    /\ worker.pc # "idle" /\ faults < MaxFaults
    /\ faults' = faults + 1
    /\ Abandon

------------------------------------------------------------------------------
Work ==
    \/ poll \/ mark_running \/ resolve_host \/ call_provider \/ commit_success
    \/ audit_success \/ commit_failure \/ audit_failure \/ commit_refused

Api ==
    \/ \E j \in Jobs : create_server(j) \/ sync_servers(j)
    \/ \E j \in Jobs, i \in Ids :
         \/ delete_server(j, i) \/ start_server(j, i) \/ stop_server(j, i)
         \/ other_action(j, i) \/ create_snapshot(j, i) \/ delete_snapshot(j, i)
    \/ delete_host

Next == Api \/ Work \/ call_fails \/ interrupted

Spec == Init /\ [][Next]_vars

\* The worker's loop never stops polling; nothing makes clients call.
FairSpec == Spec /\ WF_vars(Work)

------------------------------------------------------------------------------
\* What the tables say of the provider is so: a tracked instance exists and
\* has the power state shown, a tracked snapshot exists, and no instance that
\* a job has created runs unseen while its host is registered; unless a change
\* at the provider was not followed by a commit, and until a sync sees it.
DriftHasCause ==
    /\ \A i \in Ids \ dirty :
         /\ row[i] # None => prov[i] = row[i]
         /\ snapRow[i] # None => i \in provSnaps
         /\ host /\ i # <<0, 0>> /\ prov[i] # None => row[i] # None

\* A job is "succeeded" only after the provider has confirmed an attempt, is
\* "failed" only with all attempts used, and no job has more effects at the
\* provider than attempts.
ReportIsTrue ==
    \A j \in Jobs :
        /\ job[j].status = "succeeded" => j \in done
        /\ job[j].status = "failed" => job[j].attempts = MaxAttempts
        /\ effects[j] <= job[j].attempts

\* Every pending job finishes, unless an error or crash hit it between the
\* commits that mark it running and finished.
JobsEnd ==
    \A j \in Jobs : job[j].status = "pending"
                      ~> job[j].status \in {"succeeded", "failed"} \/ j \in dropped

\* What server_instances, server_snapshots and server_change_jobs say of the
\* provider is so, as far as each of these states it, and the state has its types.
TablesAreTrue == TypeOK /\ DriftHasCause /\ ReportIsTrue

Records ==
    [j \in Jobs |-> [status |-> job[j].status, tries |-> job[j].attempts, acts |-> effects[j]]]

Ledger == INSTANCE JobLedger WITH MaxTries <- MaxAttempts, ledger <- Records

\* The jobs of server_change_jobs are done as JobLedger promises, whatever fails
\* between the worker's commits and whenever it is restarted: a finished job is
\* never taken up again, and no attempt changes the provider twice.
JobsKeepLedger == Ledger!Spec
==============================================================================
