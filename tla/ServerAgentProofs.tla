--------------------------- MODULE ServerAgentProofs --------------------------
(* Proofs about the server agent for every value of its constants.            *)
(* ServerJobs: its jobs implement JobLedger, and its tables say what is so.   *)
(* ServerHosts: what it says of hosts, devices and machines is so.            *)
EXTENDS ServerAgent, FiniteSetTheorems, TLAPS

\* The worker is between the commit that takes a job up and the one that ends it.
InJob == worker.pc \in {"resolve", "call", "commit", "fail"}

\* What the worker holds of its batch is still as the poll found it, and only it
\* changes what it has taken up.
BatchInv ==
    /\ worker.cur \notin worker.rest
    /\ \A j \in worker.rest : job[j].status = "pending"
    /\ worker.pc = "mark" => job[Cur].status = "pending"
    /\ InJob => job[Cur].status = "running"
    /\ worker.pc # "idle" => job[Cur].status # "absent"

\* What a row of server_change_jobs says.
JobInv ==
    \A j \in Jobs :
        /\ job[j].status = "absent" => job[j] = NoJob
        /\ job[j].status # "absent" => job[j].op \in OnHost \cup OnServer
        /\ job[j].status = "pending" => job[j].attempts < MaxAttempts
        /\ job[j].status = "running" => job[j].attempts > 0
        /\ job[j].op \in OnServer => job[j].inst \in Ids
        /\ job[j].op = "delete_snapshot" => job[j].snap \in Ids

\* An attempt reaches the provider at most once, and before it is recorded.
CallInv ==
    /\ worker.pc \in {"resolve", "call"} => effects[Cur] < job[Cur].attempts
    /\ worker.pc = "commit" => effects[Cur] > 0 /\ Cur \in done

WorkInv == TypeOK /\ BatchInv /\ JobInv /\ CallInv /\ ReportIsTrue

\* Instances are made by create_instance jobs, snapshots by create_snapshot jobs.
IsInstance(i) == i = <<0, 0>> \/ job[i[1]].op = "create_instance"
IsSnapshot(i) == i # <<0, 0>> /\ job[i[1]].op = "create_snapshot"

KindInv ==
    /\ \A i \in Ids :
         /\ prov[i] # None \/ row[i] # None \/ worker.seen[i] # None => IsInstance(i)
         /\ i \in provSnaps \/ snapRow[i] # None => IsSnapshot(i)
         /\ snapRow[i] # None => IsInstance(snapRow[i])
    /\ \A j \in Jobs :
         /\ job[j].inst # None => IsInstance(job[j].inst)
         /\ job[j].snap # None => IsSnapshot(job[j].snap)

\* Between the provider's answer and the commit: what the call has changed is
\* so, and the server has a row as long as the host has one.
AnswerInv ==
    LET j == job[Cur]
    IN /\ worker.pc \in {"call", "commit"} /\ j.op \in OnServer /\ host => row[j.inst] # None
       /\ worker.pc = "commit" =>
            /\ j.op = "sync" => worker.seen = prov
            /\ j.op = "create_instance" => prov[Att] = "running"
            /\ j.op = "delete_instance" => prov[j.inst] = None
            /\ j.op = "start" => prov[j.inst] = "running"
            /\ j.op = "stop" => prov[j.inst] = "stopped"
            /\ j.op = "create_snapshot" => Att \in provSnaps
            /\ j.op = "delete_snapshot" => j.snap \notin provSnaps

Inv == WorkInv /\ KindInv /\ AnswerInv /\ DriftHasCause

-------------------------------------------------------------------------------

\* The worker's record after it has moved to another step of the same job.
LEMMA GotoType ==
    ASSUME TypeOK, NEW pc \in WorkerPc, Goto(pc)
    PROVE  /\ worker' \in Worker
           /\ worker'.pc = pc /\ worker'.cur = worker.cur
           /\ worker'.rest = worker.rest /\ worker'.seen = worker.seen
BY DEF TypeOK, Goto, Worker

\* The worker's record after it has turned to the next job of a batch.
LEMMA TakeUpType ==
    ASSUME TypeOK, NEW batch \in SUBSET Jobs, TakeUp(batch), Cardinality(batch) <= BatchLimit
    PROVE  /\ worker' \in Worker
           /\ Cardinality(worker'.rest) < BatchLimit
           /\ worker'.pc = "idle" <=> worker'.cur = None
           /\ worker'.pc \in {"idle", "mark"}
           /\ worker'.seen = [i \in Ids |-> None]
           /\ worker'.rest \subseteq batch /\ worker'.cur \notin worker'.rest
           /\ worker'.pc = "mark" => worker'.cur \in batch
<1> USE ServerAssumption
<1>1. Idle \in Worker
  BY DEF Idle, WorkerPc, Worker
<1>2. CASE batch = {} /\ worker' = Idle
  BY <1>1, <1>2, FS_EmptySet DEF Idle
<1>3. CASE \E j \in batch : worker' = [Idle EXCEPT !.pc = "mark", !.cur = j, !.rest = batch \ {j}]
  <2>1. PICK j \in batch : worker' = [Idle EXCEPT !.pc = "mark", !.cur = j, !.rest = batch \ {j}]
    BY <1>3
  <2>2. IsFiniteSet(batch)
    BY FS_Subset
  <2>3. Cardinality(batch \ {j}) = Cardinality(batch) - 1 /\ Cardinality(batch) \in Nat
    BY <2>2, FS_RemoveElement, FS_CardinalityType
  <2>4. worker' = [pc |-> "mark", cur |-> j, rest |-> batch \ {j}, seen |-> [i \in Ids |-> None]]
    BY <2>1 DEF Idle
  <2> QED BY <2>3, <2>4 DEF WorkerPc, Worker
<1> QED BY <1>2, <1>3 DEF TakeUp

\* What a new row of server_change_jobs has to say.
NewJob(q) ==
    /\ q \in JobRow /\ q.attempts = 0
    /\ q.op \in OnHost \cup OnServer
    /\ q.op \in OnServer => q.inst \in Ids
    /\ q.op = "delete_snapshot" => q.snap \in Ids

LEMMA NoJobType == NoJob \in JobRow /\ NoJob.attempts = 0 /\ NoJob.inst = None /\ NoJob.snap = None
BY ServerAssumption DEF NoJob, JobRow

LEMMA NewHostJob ==
    ASSUME NEW op \in OnHost, NEW q, q = [NoJob EXCEPT !.op = op]
    PROVE  NewJob(q) /\ q.inst = None /\ q.snap = None
BY NoJobType DEF NewJob, JobRow, OnHost, OnServer

LEMMA NewServerJob ==
    ASSUME NEW op \in OnServer \ {"delete_snapshot"}, NEW i \in Ids,
           NEW q, q = [NoJob EXCEPT !.op = op, !.inst = i]
    PROVE  NewJob(q) /\ q.inst = i /\ q.snap = None
BY NoJobType DEF NewJob, JobRow

\* What changes when a job is put into the table.
LEMMA PutJob ==
    ASSUME WorkInv, NEW j \in Jobs, NEW r, NewJob(r), Put(j, r)
    PROVE  /\ job' \in [Jobs -> JobRow]
           /\ job'[j].op = r.op /\ job'[j].inst = r.inst /\ job'[j].snap = r.snap
           /\ job'[j].status = "pending" /\ job'[j].attempts = 0
           /\ \A k \in Jobs : k # j => job'[k] = job[k]
           /\ job[j] = NoJob /\ j # worker.cur /\ j \notin worker.rest
<1> DEFINE q == [r EXCEPT !.status = "pending"]
<1>1. /\ q \in JobRow /\ job \in [Jobs -> JobRow]
      /\ q.op = r.op /\ q.inst = r.inst /\ q.snap = r.snap
      /\ q.status = "pending" /\ q.attempts = 0
  BY DEF NewJob, JobRow, WorkInv, TypeOK
<1>2. job' = [job EXCEPT ![j] = q]
  BY DEF Put
<1> HIDE DEF q
<1>3. job[j].status = "absent" /\ job[j] = NoJob
  BY DEF Put, Arrives, WorkInv, JobInv
<1>4. j # worker.cur /\ j \notin worker.rest
  BY <1>3, ServerAssumption DEF WorkInv, TypeOK, BatchInv, Worker, Cur
<1> QED BY <1>1, <1>2, <1>3, <1>4

\* A new row of server_change_jobs leaves the worker and its batch alone.
LEMMA PutWork ==
    ASSUME WorkInv, NEW j \in Jobs, NEW r, NewJob(r), Put(j, r)
    PROVE  WorkInv'
<1> USE ServerAssumption
<1>1. /\ job' \in [Jobs -> JobRow]
      /\ job'[j].op = r.op /\ job'[j].inst = r.inst /\ job'[j].snap = r.snap
      /\ job'[j].status = "pending" /\ job'[j].attempts = 0
      /\ \A k \in Jobs : k # j => job'[k] = job[k]
  BY PutJob
<1>2. job[j].attempts = 0 /\ j # worker.cur /\ j \notin worker.rest
  BY PutJob DEF NoJob
<1>3. TypeOK'
  BY <1>1 DEF WorkInv, TypeOK, Put, db
<1>4. BatchInv'
  BY <1>1, <1>2 DEF WorkInv, TypeOK, BatchInv, InJob, Cur, Put, Worker
<1>5. JobInv'
  BY <1>1 DEF WorkInv, JobInv, NewJob
<1>6. CallInv'
  BY <1>1, <1>2 DEF WorkInv, TypeOK, CallInv, Put, Worker, Cur
<1>7. ReportIsTrue'
  <2>1. UNCHANGED <<effects, done>>
    BY DEF Put
  <2> QED BY <1>1, <1>2, <2>1 DEF WorkInv, ReportIsTrue
<1> QED BY <1>3, <1>4, <1>5, <1>6, <1>7 DEF WorkInv

\* Every API call that makes a job.
Request(j) ==
    \/ create_server(j) \/ sync_servers(j)
    \/ \E i \in Ids :
         \/ delete_server(j, i) \/ start_server(j, i) \/ stop_server(j, i)
         \/ other_action(j, i) \/ create_snapshot(j, i) \/ delete_snapshot(j, i)

LEMMA RequestPuts ==
    ASSUME WorkInv, NEW j \in Jobs, Request(j)
    PROVE  \E r : /\ NewJob(r) /\ Put(j, r)
                  /\ r.inst # None => row[r.inst] # None \/ \E s \in Ids : snapRow[s] = r.inst
                  /\ r.snap # None => r.snap \in Ids /\ snapRow[r.snap] # None
<1> USE ServerAssumption
<1>1. CASE create_server(j)
  BY <1>1, NewHostJob DEF create_server, OnHost
<1>2. CASE sync_servers(j)
  BY <1>2, NewHostJob DEF sync_servers, OnHost
<1>3. ASSUME NEW i \in Ids, NEW op \in OnServer \ {"delete_snapshot"}, ServerJob(j, i, op)
      PROVE  \E r : /\ NewJob(r) /\ Put(j, r)
                    /\ r.inst # None => row[r.inst] # None
                    /\ r.snap = None
  <2> DEFINE q == [NoJob EXCEPT !.op = op, !.inst = i]
  <2>1. NewJob(q) /\ q.inst = i /\ q.snap = None
    BY NewServerJob
  <2>2. Put(j, q) /\ row[i] # None
    BY <1>3 DEF ServerJob
  <2> HIDE DEF q
  <2> QED BY <2>1, <2>2
<1>4. ASSUME NEW i \in Ids,
             \/ delete_server(j, i) \/ start_server(j, i) \/ stop_server(j, i)
             \/ other_action(j, i) \/ create_snapshot(j, i)
      PROVE  \E op \in OnServer \ {"delete_snapshot"} : ServerJob(j, i, op)
  BY <1>4 DEF delete_server, start_server, stop_server, other_action, create_snapshot, OnServer
<1>5. ASSUME NEW i \in Ids, delete_snapshot(j, i)
      PROVE  \E r : /\ NewJob(r) /\ Put(j, r)
                    /\ \E s \in Ids : snapRow[s] = r.inst
                    /\ r.snap # None => r.snap \in Ids /\ snapRow[r.snap] # None
  <2>1. snapRow[i] \in Ids
    BY <1>5 DEF delete_snapshot, WorkInv, TypeOK
  <2>2. PICK q : q = [NoJob EXCEPT !.op = "delete_snapshot", !.inst = snapRow[i], !.snap = i]
    OBVIOUS
  <2>3. NewJob(q) /\ q.inst = snapRow[i] /\ q.snap = i
    BY <2>1, <2>2, NoJobType DEF NewJob, JobRow, OnServer
  <2>4. Put(j, q) /\ snapRow[i] # None
    BY <1>5, <2>2 DEF delete_snapshot
  <2> QED BY <2>3, <2>4
<1> QED BY <1>1, <1>2, <1>3, <1>4, <1>5 DEF Request

\* The worker ends a job or puts it back, at the commit that follows an attempt.
LEMMA StatusSet ==
    ASSUME WorkInv, NEW st \in {"pending", "succeeded", "failed"}, worker.pc # "idle",
           job' = [job EXCEPT ![Cur].status = st]
    PROVE  /\ Cur \in Jobs /\ job' \in [Jobs -> JobRow] /\ job'[Cur].status = st
           /\ \A k \in Jobs : k # Cur => job'[k] = job[k]
           /\ \A k \in Jobs : /\ job'[k].op = job[k].op /\ job'[k].inst = job[k].inst
                               /\ job'[k].snap = job[k].snap /\ job'[k].attempts = job[k].attempts
<1>1. Cur \in Jobs /\ job[Cur] \in JobRow /\ job \in [Jobs -> JobRow]
  BY DEF WorkInv, TypeOK, Worker, Cur
<1> DEFINE q == [job[Cur] EXCEPT !.status = st]
<1>2. /\ q \in JobRow /\ q.status = st /\ q.op = job[Cur].op /\ q.inst = job[Cur].inst
      /\ q.snap = job[Cur].snap /\ q.attempts = job[Cur].attempts
  BY <1>1 DEF JobRow
<1>3. job' = [job EXCEPT ![Cur] = q]
  BY <1>1
<1> HIDE DEF q
<1> QED BY <1>1, <1>2, <1>3

\* The commit that takes a job up.
LEMMA MarkSets ==
    ASSUME WorkInv, mark_running
    PROVE  /\ Cur \in Jobs /\ job' \in [Jobs -> JobRow] /\ job'[Cur].status = "running"
           /\ job'[Cur].attempts = job[Cur].attempts + 1
           /\ \A k \in Jobs : k # Cur => job'[k] = job[k]
           /\ \A k \in Jobs : /\ job'[k].op = job[k].op /\ job'[k].inst = job[k].inst
                               /\ job'[k].snap = job[k].snap
<1>1. /\ Cur \in Jobs /\ job[Cur] \in JobRow /\ job \in [Jobs -> JobRow]
      /\ job[Cur].status = "pending"
  BY DEF WorkInv, TypeOK, Worker, Cur, BatchInv, mark_running
<1> DEFINE q == [job[Cur] EXCEPT !.status = "running", !.attempts = @ + 1]
<1>2. job[Cur].attempts + 1 \in 0..MaxAttempts
  BY <1>1, ServerAssumption DEF WorkInv, JobInv, JobRow
<1>3. /\ q \in JobRow /\ q.status = "running" /\ q.op = job[Cur].op /\ q.inst = job[Cur].inst
      /\ q.snap = job[Cur].snap /\ q.attempts = job[Cur].attempts + 1
  BY <1>1, <1>2 DEF JobRow
<1>4. job' = [job EXCEPT ![Cur] = q]
  BY <1>1 DEF mark_running
<1> HIDE DEF q
<1> QED BY <1>1, <1>3, <1>4

\* The job the worker is at names things that may exist.
LEMMA CurJob ==
    ASSUME WorkInv, InJob
    PROVE  /\ Cur \in Jobs /\ Att \in Ids
           /\ job[Cur].op \in OnHost \cup OnServer
           /\ job[Cur].op \in OnServer => job[Cur].inst \in Ids
           /\ job[Cur].op = "delete_snapshot" => job[Cur].snap \in Ids
<1> USE ServerAssumption
<1>1. Cur \in Jobs /\ job[Cur] \in JobRow /\ job[Cur].status = "running"
  BY DEF WorkInv, TypeOK, BatchInv, Worker, Cur, InJob
<1>2. job[Cur].attempts \in 1..MaxAttempts
  <2>1. job[Cur].attempts \in 0..MaxAttempts
    BY <1>1 DEF JobRow
  <2>2. job[Cur].attempts > 0
    BY <1>1 DEF WorkInv, JobInv
  <2> QED BY <2>1, <2>2
<1>3. Att \in Ids
  BY <1>1, <1>2 DEF Att, Ids
<1> QED BY <1>1, <1>3 DEF WorkInv, JobInv

\* What a call that takes effect does to the provider.
LEMMA CallSets ==
    ASSUME WorkInv, worker.pc = "call", ProviderDoes
    PROVE  /\ prov' \in [Ids -> Powers \cup {None}] /\ provSnaps' \subseteq Ids /\ dirty' \subseteq Ids
           /\ effects' \in [Jobs -> 0..MaxAttempts] /\ effects'[Cur] = effects[Cur] + 1
           /\ \A k \in Jobs : k # Cur => effects'[k] = effects[k]
           /\ effects[Cur] \in Nat /\ effects[Cur] < job[Cur].attempts
<1> USE ServerAssumption
<1>1. /\ Cur \in Jobs /\ Att \in Ids
      /\ job[Cur].op \in OnHost \cup OnServer
      /\ job[Cur].op \in OnServer => job[Cur].inst \in Ids
      /\ job[Cur].op = "delete_snapshot" => job[Cur].snap \in Ids
  BY CurJob DEF InJob
<1>2. /\ prov \in [Ids -> Powers \cup {None}] /\ provSnaps \subseteq Ids /\ dirty \subseteq Ids
      /\ effects \in [Jobs -> 0..MaxAttempts] /\ job[Cur].attempts \in 0..MaxAttempts
  BY <1>1 DEF WorkInv, TypeOK, JobRow
<1>3. prov' \in [Ids -> Powers \cup {None}]
  BY <1>1, <1>2 DEF ProviderDoes, OnServer, Powers
<1>4. provSnaps' \subseteq Ids /\ dirty' \subseteq Ids
  BY <1>1, <1>2 DEF ProviderDoes, OnServer
<1>5. effects[Cur] < job[Cur].attempts
  BY DEF WorkInv, CallInv
<1> QED BY <1>1, <1>2, <1>3, <1>4, <1>5 DEF ProviderDoes

\* Steps of the worker that touch no job, no effect and not the provider's
\* confirmation keep WorkInv if they keep the worker in order.
LEMMA WorkerMoves ==
    ASSUME WorkInv, UNCHANGED <<job, effects, done>>, TypeOK', BatchInv', CallInv'
    PROVE  WorkInv'
BY DEF WorkInv, JobInv, ReportIsTrue

LEMMA WorkStep ==
    ASSUME WorkInv, [Next]_vars
    PROVE  WorkInv'
<1> USE ServerAssumption
<1>1. CASE \E j \in Jobs : Request(j)
  BY <1>1, RequestPuts, PutWork
<1>2. CASE delete_host
  <2>1. TypeOK'
    BY <1>2 DEF WorkInv, TypeOK, delete_host
  <2>2. BatchInv' /\ CallInv'
    BY <1>2 DEF WorkInv, BatchInv, CallInv, InJob, Cur, delete_host
  <2> QED BY <1>2, <2>1, <2>2, WorkerMoves DEF delete_host
<1>3. CASE poll
  <2>1. PICK batch \in SUBSET Pending : Oldest(batch) /\ TakeUp(batch)
    BY <1>3 DEF poll
  <2>2. batch \in SUBSET Jobs /\ Cardinality(batch) <= BatchLimit
    BY <2>1 DEF Pending, Oldest
  <2>3. TypeOK'
    BY <1>3, <2>1, <2>2, TakeUpType DEF WorkInv, TypeOK, poll, db
  <2>4. BatchInv' /\ CallInv'
    BY <1>3, <2>1, <2>2, TakeUpType DEF WorkInv, BatchInv, CallInv, InJob, Cur, Pending, poll
  <2> QED BY <1>3, <2>3, <2>4, WorkerMoves DEF poll
<1>4. CASE mark_running
  <2>1. worker' \in Worker /\ worker'.pc = "resolve" /\ worker'.cur = Cur
        /\ worker'.rest = worker.rest
    BY <1>4, GotoType DEF mark_running, WorkInv, WorkerPc, Cur
  <2>2. /\ Cur \in Jobs /\ job' \in [Jobs -> JobRow] /\ job'[Cur].status = "running"
        /\ job'[Cur].attempts = job[Cur].attempts + 1
        /\ \A k \in Jobs : k # Cur => job'[k] = job[k]
        /\ \A k \in Jobs : /\ job'[k].op = job[k].op /\ job'[k].inst = job[k].inst
                            /\ job'[k].snap = job[k].snap
    BY <1>4, MarkSets
  <2>3. TypeOK'
    BY <1>4, <2>1, <2>2 DEF WorkInv, TypeOK, mark_running, db, Cur
  <2>4. \A k \in Jobs : effects[k] \in Nat /\ job[k].attempts \in Nat
    BY DEF WorkInv, TypeOK, JobRow
  <2>5. BatchInv'
    BY <2>1, <2>2 DEF WorkInv, TypeOK, Worker, BatchInv, InJob, Cur
  <2>6. job[Cur].status = "pending"
    BY <1>4 DEF WorkInv, BatchInv, mark_running
  <2>7. JobInv'
    BY <2>2, <2>4, <2>6 DEF WorkInv, JobInv
  <2>8. UNCHANGED <<effects, done>>
    BY <1>4 DEF mark_running
  <2>9. CallInv'
    <3>0. effects[Cur] <= job[Cur].attempts
      BY <2>2 DEF WorkInv, ReportIsTrue
    <3>1. effects[Cur] < job[Cur].attempts + 1
      BY <2>2, <2>4, <3>0
    <3>2. effects'[worker'.cur] < job'[worker'.cur].attempts
      BY <2>1, <2>2, <2>8, <3>1
    <3> QED BY <2>1, <3>2 DEF CallInv, Cur
  <2>10. ReportIsTrue'
    BY <2>2, <2>4, <2>8 DEF WorkInv, ReportIsTrue
  <2> QED BY <2>3, <2>5, <2>7, <2>9, <2>10 DEF WorkInv
<1>5. CASE resolve_host
  <2>1. PICK pc \in {"call", "fail"} : Goto(pc)
    BY <1>5 DEF resolve_host
  <2>2. /\ worker' \in Worker /\ worker'.pc = pc /\ worker'.cur = worker.cur
        /\ worker'.rest = worker.rest
    BY <2>1, GotoType DEF WorkInv, WorkerPc
  <2>3. TypeOK'
    BY <1>5, <2>1, <2>2 DEF WorkInv, TypeOK, resolve_host, db
  <2>4. BatchInv' /\ CallInv'
    BY <1>5, <2>1, <2>2 DEF WorkInv, BatchInv, CallInv, InJob, Cur, resolve_host
  <2> QED BY <1>5, <2>3, <2>4, WorkerMoves DEF resolve_host
<1>6. CASE call_provider \/ call_fails
  <2>1. PICK pc \in {"commit", "fail"} :
          /\ worker' \in Worker /\ worker'.pc = pc /\ worker'.cur = Cur
          /\ worker'.rest = worker.rest
          /\ pc = "commit" => ProviderDoes /\ Cur \in done'
    <3>1. CASE Goto("fail")
      BY <3>1, GotoType DEF WorkInv, WorkerPc, Cur
    <3>2. CASE /\ worker' = [worker EXCEPT !.pc = "commit", !.seen = prov]
               /\ ProviderDoes /\ Cur \in done'
      BY <3>2 DEF WorkInv, TypeOK, Worker, WorkerPc, Cur
    <3> QED BY <1>6, <3>1, <3>2 DEF call_provider, call_fails
  <2>2. /\ worker.pc = "call" /\ Cur \in Jobs
        /\ UNCHANGED <<db, job, dropped>> /\ done' \in {done, done \cup {Cur}}
        /\ faults' \in 0..MaxFaults
    <3>1. worker.pc = "call"
      BY <1>6 DEF call_provider, call_fails
    <3>2. Cur \in Jobs
      BY <3>1, CurJob DEF InJob
    <3> QED BY <1>6, <3>1, <3>2 DEF call_provider, call_fails, WorkInv, TypeOK
  <2>3. ProviderDoes \/ UNCHANGED <<prov, provSnaps, effects, dirty>>
    BY <1>6 DEF call_provider, call_fails
  <2>4. /\ prov' \in [Ids -> Powers \cup {None}] /\ provSnaps' \subseteq Ids /\ dirty' \subseteq Ids
        /\ effects' \in [Jobs -> 0..MaxAttempts] /\ effects[Cur] \in Nat
        /\ effects'[Cur] \in {effects[Cur], effects[Cur] + 1} /\ effects[Cur] < job[Cur].attempts
        /\ \A k \in Jobs : k # Cur => effects'[k] = effects[k]
        /\ ProviderDoes => effects'[Cur] = effects[Cur] + 1
    <3>1. CASE ProviderDoes
      BY <2>2, <3>1, CallSets
    <3>2. CASE UNCHANGED <<prov, provSnaps, effects, dirty>> /\ ~ProviderDoes
      BY <2>2, <3>2 DEF WorkInv, TypeOK, CallInv
    <3> QED BY <2>3, <3>1, <3>2
  <2>5. TypeOK'
    BY <2>1, <2>2, <2>4 DEF WorkInv, TypeOK, db, Cur
  <2>6. BatchInv'
    BY <2>1, <2>2 DEF WorkInv, BatchInv, InJob, Cur
  <2>7. JobInv'
    BY <2>2 DEF WorkInv, JobInv
  <2>8. CallInv'
    BY <2>1, <2>2, <2>4 DEF CallInv, Cur
  <2>9. ReportIsTrue'
    <3>1. \A k \in Jobs : job[k].attempts \in Nat
      BY DEF WorkInv, TypeOK, JobRow
    <3>2. effects'[Cur] <= job[Cur].attempts
      BY <2>2, <2>4, <3>1
    <3>3. \A k \in Jobs : effects'[k] <= job[k].attempts
      BY <2>4, <3>2 DEF WorkInv, ReportIsTrue
    <3> QED BY <2>2, <3>3 DEF WorkInv, ReportIsTrue
  <2> QED BY <2>5, <2>6, <2>7, <2>8, <2>9 DEF WorkInv
<1>7. CASE commit_success
  <2>1. /\ worker' \in Worker /\ worker'.pc = "audit" /\ worker'.cur = Cur
        /\ worker'.rest = worker.rest
    BY <1>7, GotoType DEF commit_success, WorkInv, WorkerPc, Cur
  <2>2. /\ Cur \in Jobs /\ job' \in [Jobs -> JobRow] /\ job'[Cur].status = "succeeded"
        /\ \A k \in Jobs : k # Cur => job'[k] = job[k]
        /\ \A k \in Jobs : /\ job'[k].op = job[k].op /\ job'[k].inst = job[k].inst
                            /\ job'[k].snap = job[k].snap /\ job'[k].attempts = job[k].attempts
    BY <1>7, StatusSet DEF commit_success
  <2>3. TypeOK'
    <3>0. /\ row \in [Ids -> Powers \cup {None}] /\ worker.seen \in [Ids -> Powers \cup {None}]
          /\ snapRow \in [Ids -> Ids \cup {None}]
      BY DEF WorkInv, TypeOK, Worker
    <3>1. row' \in [Ids -> Powers \cup {None}]
      <4>1. \A i \in Ids : NewRow(i) \in Powers \cup {None}
        BY <3>0 DEF NewRow, Synced, Powers
      <4> QED BY <1>7, <4>1 DEF commit_success
    <3>2. snapRow' \in [Ids -> Ids \cup {None}]
      <4>1. InJob
        BY <1>7 DEF commit_success, InJob
      <4>2. job[Cur].op \in OnServer => job[Cur].inst \in Ids
        BY <4>1, CurJob
      <4> QED BY <1>7, <3>0, <4>2 DEF commit_success, OnServer
    <3> QED BY <1>7, <2>1, <2>2, <3>1, <3>2 DEF WorkInv, TypeOK, commit_success, Cur
  <2>4. BatchInv'
    BY <2>1, <2>2 DEF WorkInv, TypeOK, Worker, BatchInv, InJob, Cur
  <2>5. JobInv'
    <3>1. job[Cur].status = "running"
      BY <1>7 DEF WorkInv, BatchInv, InJob, commit_success
    <3> QED BY <2>2, <3>1 DEF WorkInv, JobInv
  <2>6. UNCHANGED <<effects, done>> /\ worker.pc = "commit"
    BY <1>7 DEF commit_success
  <2>7. CallInv'
    BY <2>1 DEF CallInv
  <2>8. ReportIsTrue'
    BY <2>2, <2>6 DEF WorkInv, ReportIsTrue, CallInv
  <2> QED BY <2>3, <2>4, <2>5, <2>7, <2>8 DEF WorkInv
<1>8. CASE commit_failure
  <2>1. /\ worker' \in Worker /\ worker'.pc = "audit_failure" /\ worker'.cur = Cur
        /\ worker'.rest = worker.rest
    BY <1>8, GotoType DEF commit_failure, WorkInv, WorkerPc, Cur
  <2>2. PICK st \in {"pending", "failed"} :
          /\ job' = [job EXCEPT ![Cur].status = st]
          /\ st = "failed" <=> job[Cur].attempts >= MaxAttempts
    BY <1>8 DEF commit_failure
  <2>3. /\ Cur \in Jobs /\ job' \in [Jobs -> JobRow] /\ job'[Cur].status = st
        /\ \A k \in Jobs : k # Cur => job'[k] = job[k]
        /\ \A k \in Jobs : /\ job'[k].op = job[k].op /\ job'[k].inst = job[k].inst
                            /\ job'[k].snap = job[k].snap /\ job'[k].attempts = job[k].attempts
    BY <1>8, <2>2, StatusSet DEF commit_failure
  <2>4. TypeOK'
    BY <1>8, <2>1, <2>3 DEF WorkInv, TypeOK, commit_failure, db, Cur
  <2>5. BatchInv'
    BY <2>1, <2>3 DEF WorkInv, TypeOK, Worker, BatchInv, InJob, Cur
  <2>6. \A k \in Jobs : job[k].attempts \in 0..MaxAttempts
    BY DEF WorkInv, TypeOK, JobRow
  <2>7. JobInv'
    <3>1. job[Cur].status = "running"
      BY <1>8 DEF WorkInv, BatchInv, InJob, commit_failure
    <3> QED BY <2>2, <2>3, <2>6, <3>1 DEF WorkInv, JobInv
  <2>8. UNCHANGED <<effects, done>>
    BY <1>8 DEF commit_failure
  <2>9. CallInv'
    BY <2>1 DEF CallInv
  <2>10. ReportIsTrue'
    BY <2>2, <2>3, <2>6, <2>8 DEF WorkInv, ReportIsTrue
  <2> QED BY <2>4, <2>5, <2>7, <2>9, <2>10 DEF WorkInv
<1>9. CASE audit_success \/ audit_failure
  <2>1. /\ TakeUp(worker.rest) /\ worker.rest \in SUBSET Jobs
        /\ UNCHANGED <<db, job, prov, provSnaps, faults, effects, done, dirty, dropped>>
    BY <1>9 DEF audit_success, audit_failure, NextJob, WorkInv, TypeOK, Worker
  <2>2. Cardinality(worker.rest) <= BatchLimit
    <3>1. IsFiniteSet(worker.rest)
      BY <2>1, FS_Subset
    <3> QED BY <3>1, FS_CardinalityType DEF WorkInv, TypeOK
  <2>3. TypeOK'
    BY <2>1, <2>2, TakeUpType DEF WorkInv, TypeOK, db
  <2>4. BatchInv' /\ CallInv'
    BY <2>1, <2>2, TakeUpType DEF WorkInv, BatchInv, CallInv, InJob, Cur
  <2> QED BY <2>1, <2>3, <2>4, WorkerMoves
<1>10. CASE commit_refused \/ interrupted
  <2>1. /\ worker' = Idle /\ faults' \in 0..MaxFaults /\ dropped' \in SUBSET Jobs
        /\ UNCHANGED <<db, job, prov, provSnaps, effects, done, dirty>>
    <3>1. Abandon /\ worker.pc # "idle"
      BY <1>10 DEF commit_refused, interrupted
    <3>2. Cur \in Jobs
      BY <3>1 DEF WorkInv, TypeOK, Worker, Cur
    <3>3. faults' \in 0..MaxFaults
      BY <1>10 DEF commit_refused, interrupted, WorkInv, TypeOK
    <3> QED BY <3>1, <3>2, <3>3 DEF Abandon, WorkInv, TypeOK
  <2>2. Idle \in Worker /\ Idle.rest = {} /\ Idle.pc = "idle" /\ Idle.cur = None
    BY DEF Idle, Worker, WorkerPc
  <2>3. TypeOK'
    BY <2>1, <2>2, FS_EmptySet DEF WorkInv, TypeOK, db
  <2>4. BatchInv' /\ CallInv'
    BY <2>1, <2>2 DEF BatchInv, CallInv, InJob
  <2> QED BY <2>1, <2>3, <2>4, WorkerMoves
<1>11. CASE UNCHANGED vars
  <2>1. TypeOK' /\ BatchInv' /\ CallInv'
    BY <1>11 DEF vars, db, WorkInv, TypeOK, BatchInv, CallInv, InJob, Cur
  <2> QED BY <1>11, <2>1, WorkerMoves DEF vars
<1> QED
  BY <1>1, <1>2, <1>3, <1>4, <1>5, <1>6, <1>7, <1>8, <1>9, <1>10, <1>11
     DEF Next, Api, Work, Request

LEMMA WorkInit == Init => WorkInv
<1> SUFFICES ASSUME Init PROVE WorkInv
  OBVIOUS
<1> USE ServerAssumption
<1>1. \A i \in Ids : (IF i = <<0, 0>> THEN "running" ELSE None) \in Powers \cup {None}
  BY DEF Powers
<1>2. /\ worker \in Worker /\ worker.rest = {} /\ worker.pc = "idle" /\ worker.cur = None
  BY DEF Init, Idle, Worker, WorkerPc
<1>3. TypeOK
  BY <1>1, <1>2, NoJobType, FS_EmptySet DEF Init, TypeOK
<1>4. BatchInv /\ CallInv
  BY <1>2 DEF BatchInv, CallInv, InJob
<1>5. JobInv /\ ReportIsTrue
  BY NoJobType DEF Init, JobInv, ReportIsTrue, NoJob, OnHost, OnServer
<1> QED BY <1>3, <1>4, <1>5 DEF WorkInv

THEOREM ServerWork == Spec => []WorkInv
BY WorkInit, WorkStep, PTL DEF Spec

-------------------------------------------------------------------------------

\* What the ledger sees of a job.
LEMMA RecordOf ==
    /\ DOMAIN Records = Jobs /\ DOMAIN Records' = Jobs
    /\ \A k \in Jobs : /\ Records[k] = [status |-> job[k].status, tries |-> job[k].attempts, acts |-> effects[k]]
                        /\ Records'[k] = [status |-> job'[k].status, tries |-> job'[k].attempts, acts |-> effects'[k]]
BY DEF Records

\* A step that changes what the ledger sees of one job only.
LEMMA RecordChange ==
    ASSUME NEW j \in Jobs, NEW q,
           q = [status |-> job'[j].status, tries |-> job'[j].attempts, acts |-> effects'[j]],
           \A k \in Jobs : k # j => job'[k] = job[k] /\ effects'[k] = effects[k]
    PROVE  Records' = [Records EXCEPT ![j] = q]
<1>1. \A k \in Jobs : Records'[k] = IF k = j THEN q ELSE Records[k]
  BY RecordOf
<1>2. Records' = [k \in Jobs |-> Records'[k]] /\ DOMAIN Records = Jobs
  BY RecordOf DEF Records
<1> QED BY <1>1, <1>2

\* A change of one job's status, and of nothing else the ledger sees.
LEMMA RecordStatus ==
    ASSUME NEW j \in Jobs, NEW st,
           UNCHANGED effects, job'[j].status = st, job'[j].attempts = job[j].attempts,
           \A k \in Jobs : k # j => job'[k] = job[k]
    PROVE  Records' = [Records EXCEPT ![j].status = st]
<1>1. [Records[j] EXCEPT !.status = st]
        = [status |-> job'[j].status, tries |-> job'[j].attempts, acts |-> effects'[j]]
  BY RecordOf
<1> QED BY <1>1, RecordChange

LEMMA LedgerStep ==
    ASSUME WorkInv, [Next]_vars
    PROVE  [Ledger!Next]_Records
<1> USE ServerAssumption
<1>0. CASE UNCHANGED <<job, effects>>
  BY <1>0 DEF Records
<1>1. ASSUME NEW j \in Jobs, Request(j)
      PROVE  Ledger!Submit(j)
  <2>1. PICK r : NewJob(r) /\ Put(j, r)
    BY <1>1, RequestPuts
  <2>2. /\ job'[j].status = "pending" /\ job'[j].attempts = 0 /\ job[j] = NoJob
        /\ \A k \in Jobs : k # j => job'[k] = job[k]
    BY <2>1, PutJob
  <2>3. UNCHANGED effects /\ job[j].status = "absent" /\ job[j].attempts = 0
    BY <2>1, <2>2 DEF Put, NoJob
  <2>4. Records' = [Records EXCEPT ![j].status = "pending"]
    BY <2>2, <2>3, RecordStatus
  <2>5. Records[j].status = "absent"
    BY <2>3, RecordOf
  <2> QED BY <2>4, <2>5 DEF Ledger!Submit, Ledger!Says
<1>2. CASE mark_running
  <2>1. /\ Cur \in Jobs /\ job'[Cur].status = "running"
        /\ job'[Cur].attempts = job[Cur].attempts + 1
        /\ \A k \in Jobs : k # Cur => job'[k] = job[k]
    BY <1>2, MarkSets
  <2>2. UNCHANGED effects /\ job[Cur].status = "pending"
    BY <1>2 DEF mark_running, WorkInv, BatchInv
  <2>3. job[Cur].attempts < MaxAttempts
    BY <2>1, <2>2 DEF WorkInv, JobInv
  <2>4. Records[Cur].status = "pending" /\ Records[Cur].tries = job[Cur].attempts
    BY <2>1, <2>2, RecordOf
  <2>5. [Records[Cur] EXCEPT !.status = "running", !.tries = @ + 1]
          = [status |-> job'[Cur].status, tries |-> job'[Cur].attempts, acts |-> effects'[Cur]]
    <3>1. [Records[Cur] EXCEPT !.status = "running"]
            = [status |-> "running", tries |-> job[Cur].attempts, acts |-> effects[Cur]]
      BY <2>1, RecordOf
    <3>2. PICK q : q = [Records[Cur] EXCEPT !.status = "running"]
      OBVIOUS
    <3>3. [q EXCEPT !.tries = @ + 1]
            = [status |-> "running", tries |-> job[Cur].attempts + 1, acts |-> effects[Cur]]
      <4>1. q = [status |-> "running", tries |-> job[Cur].attempts, acts |-> effects[Cur]]
        BY <3>1, <3>2
      <4> QED BY <4>1
    <3> QED BY <2>1, <2>2, <3>2, <3>3
  <2>6. Records' = [Records EXCEPT ![Cur] = [Records[Cur] EXCEPT !.status = "running", !.tries = @ + 1]]
    BY <2>1, <2>2, <2>5, RecordChange
  <2>7. Records' = [Records EXCEPT ![Cur].status = "running", ![Cur].tries = @ + 1]
    BY <2>1, <2>6, RecordOf
  <2>8. Ledger!Take(Cur)
    BY <2>3, <2>4, <2>7 DEF Ledger!Take
  <2> QED BY <2>1, <2>8 DEF Ledger!Next
<1>3. CASE (call_provider \/ call_fails) /\ ProviderDoes
  <2>1. worker.pc = "call" /\ UNCHANGED job
    BY <1>3 DEF call_provider, call_fails
  <2>2. Cur \in Jobs /\ job[Cur].status = "running"
    BY <2>1, CurJob DEF InJob, WorkInv, BatchInv
  <2>3. /\ effects'[Cur] = effects[Cur] + 1 /\ effects[Cur] < job[Cur].attempts
        /\ \A k \in Jobs : k # Cur => effects'[k] = effects[k]
    BY <1>3, <2>1, CallSets
  <2>4. /\ Records[Cur].status = "running"
        /\ Records[Cur].acts = effects[Cur] /\ Records[Cur].tries = job[Cur].attempts
    BY <2>2, RecordOf
  <2>5. [Records[Cur] EXCEPT !.acts = @ + 1]
          = [status |-> job'[Cur].status, tries |-> job'[Cur].attempts, acts |-> effects'[Cur]]
    BY <2>1, <2>2, <2>3, RecordOf
  <2>6. Records' = [Records EXCEPT ![Cur] = [Records[Cur] EXCEPT !.acts = @ + 1]]
    BY <2>1, <2>2, <2>3, <2>5, RecordChange
  <2>7. Ledger!Act(Cur)
    BY <2>3, <2>4, <2>6 DEF Ledger!Act
  <2> QED BY <2>2, <2>7 DEF Ledger!Next
<1>4. CASE commit_success
  <2>1. worker.pc = "commit" /\ UNCHANGED effects
    BY <1>4 DEF commit_success
  <2>2. /\ Cur \in Jobs /\ job'[Cur].status = "succeeded"
        /\ job'[Cur].attempts = job[Cur].attempts
        /\ \A k \in Jobs : k # Cur => job'[k] = job[k]
    BY <1>4, <2>1, StatusSet DEF commit_success
  <2>3. Records' = [Records EXCEPT ![Cur].status = "succeeded"]
    BY <2>1, <2>2, RecordStatus
  <2>4. job[Cur].status = "running" /\ effects[Cur] > 0
    BY <2>1 DEF WorkInv, BatchInv, CallInv, InJob
  <2>5. Records[Cur].status = "running" /\ Records[Cur].acts > 0
    BY <2>2, <2>4, RecordOf
  <2>6. Ledger!Succeed(Cur)
    BY <2>3, <2>5 DEF Ledger!Succeed, Ledger!Says
  <2> QED BY <2>2, <2>6 DEF Ledger!Next
<1>5. CASE commit_failure
  <2>1. worker.pc = "fail" /\ UNCHANGED effects
    BY <1>5 DEF commit_failure
  <2>2. PICK st \in {"pending", "failed"} :
          /\ job' = [job EXCEPT ![Cur].status = st]
          /\ st = "failed" <=> job[Cur].attempts >= MaxAttempts
    BY <1>5 DEF commit_failure
  <2>3. /\ Cur \in Jobs /\ job'[Cur].status = st
        /\ job'[Cur].attempts = job[Cur].attempts
        /\ \A k \in Jobs : k # Cur => job'[k] = job[k]
    BY <2>1, <2>2, StatusSet
  <2>4. Records' = [Records EXCEPT ![Cur].status = st]
    BY <2>1, <2>3, RecordStatus
  <2>5. job[Cur].status = "running" /\ job[Cur].attempts \in 0..MaxAttempts
    BY <2>1, <2>3 DEF WorkInv, TypeOK, JobRow, BatchInv, InJob
  <2>6. Records[Cur].status = "running" /\ Records[Cur].tries = job[Cur].attempts
    <3>1. Records[Cur] = [status |-> job[Cur].status, tries |-> job[Cur].attempts, acts |-> effects[Cur]]
      BY <2>3, RecordOf
    <3> QED BY <2>5, <3>1
  <2>7. CASE st = "failed"
    <3>1. Records[Cur].tries = MaxAttempts
      BY <2>2, <2>5, <2>6, <2>7
    <3>2. Ledger!Fail(Cur)
      BY <2>4, <2>6, <2>7, <3>1 DEF Ledger!Fail, Ledger!Says
    <3> QED BY <2>3, <3>2 DEF Ledger!Next
  <2>8. CASE st = "pending"
    <3>1. Records[Cur].tries < MaxAttempts
      BY <2>2, <2>5, <2>6, <2>8
    <3>2. Ledger!PutBack(Cur)
      BY <2>4, <2>6, <2>8, <3>1 DEF Ledger!PutBack, Ledger!Says
    <3> QED BY <2>3, <3>2 DEF Ledger!Next
  <2> QED BY <2>2, <2>7, <2>8
<1>6. CASE (call_provider \/ call_fails) /\ ~ProviderDoes
  BY <1>0, <1>6 DEF call_provider, call_fails
<1>7. CASE delete_host \/ poll \/ resolve_host \/ audit_success \/ audit_failure
  BY <1>0, <1>7 DEF delete_host, poll, resolve_host, audit_success, audit_failure
<1>8. CASE commit_refused \/ interrupted
  BY <1>0, <1>8 DEF commit_refused, interrupted, Abandon
<1>9. CASE UNCHANGED vars
  BY <1>0, <1>9 DEF vars
<1>10. CASE \E j \in Jobs : Request(j)
  BY <1>1, <1>10 DEF Ledger!Next
<1> QED
  BY <1>2, <1>3, <1>4, <1>5, <1>6, <1>7, <1>8, <1>9, <1>10 DEF Next, Api, Work, Request

\* The jobs of server_change_jobs are done as JobLedger promises: each attempt
\* of jobs/worker.py reaches the provider at most once, a job is "succeeded" only
\* after a call, "failed" only with no attempt left, and neither is taken back.
THEOREM ServerJobsKeepLedger == Spec => JobsKeepLedger
<1>1. Init => Ledger!Init
  BY DEF Init, Ledger!Init, Records, NoJob
<1>2. WorkInv /\ [Next]_vars => [Ledger!Next]_Records
  BY LedgerStep
<1> QED BY <1>1, <1>2, ServerWork, PTL DEF Spec, JobsKeepLedger, Ledger!Spec

-------------------------------------------------------------------------------

\* An attempt names a thing of its own, not the instance made outside Nexus.
LEMMA AttParts ==
    /\ \A i \in Ids : i = <<0, 0>> \/ i[1] \in Jobs
    /\ Cur \in Jobs => Att # <<0, 0>> /\ Att[1] = Cur
<1> USE ServerAssumption
<1>1. ASSUME NEW i \in Ids, i # <<0, 0>>
      PROVE  i[1] \in Jobs
  BY <1>1 DEF Ids
<1>2. ASSUME Cur \in Jobs PROVE Att # <<0, 0>> /\ Att[1] = Cur
  BY <1>2 DEF Att
<1> QED BY <1>1, <1>2

\* The worker does not change what its jobs are about.
SameJobs ==
    \A k \in Jobs : /\ job'[k].op = job[k].op /\ job'[k].inst = job[k].inst
                    /\ job'[k].snap = job[k].snap

LEMMA KindStable ==
    ASSUME \A k \in Jobs : job'[k].op = job[k].op \/ job[k].op = None, NEW i \in Ids
    PROVE  (IsInstance(i) => IsInstance(i)') /\ (IsSnapshot(i) => IsSnapshot(i)')
<1>1. i = <<0, 0>> \/ i[1] \in Jobs
  BY AttParts
<1>2. None # "create_instance" /\ None # "create_snapshot"
  BY ServerAssumption DEF OnHost, OnServer
<1> QED BY <1>1, <1>2 DEF IsInstance, IsSnapshot

\* Instances and snapshots keep apart when the worker changes neither the
\* provider nor the tables.
LEMMA KindKeeps ==
    ASSUME WorkInv, KindInv, SameJobs, UNCHANGED <<row, snapRow, prov, provSnaps>>,
           worker'.seen = worker.seen \/ worker'.seen = [i \in Ids |-> None] \/ worker'.seen = prov
    PROVE  KindInv'
<1>1. \A i \in Ids : (IsInstance(i) => IsInstance(i)') /\ (IsSnapshot(i) => IsSnapshot(i)')
  BY KindStable DEF SameJobs
<1>2. \A i \in Ids : snapRow[i] # None => snapRow[i] \in Ids
  BY DEF WorkInv, TypeOK
<1>3. \A j \in Jobs : job[j].inst \in Ids \cup {None} /\ job[j].snap \in Ids \cup {None}
  BY DEF WorkInv, TypeOK, JobRow
<1>4. ASSUME NEW i \in Ids
      PROVE  /\ (prov[i] # None \/ row[i] # None \/ worker.seen[i] # None => IsInstance(i))'
             /\ (i \in provSnaps \/ snapRow[i] # None => IsSnapshot(i))'
             /\ (snapRow[i] # None => IsInstance(snapRow[i]))'
  BY <1>1, <1>2 DEF KindInv
<1>5. ASSUME NEW j \in Jobs
      PROVE  /\ (job[j].inst # None => IsInstance(job[j].inst))'
             /\ (job[j].snap # None => IsSnapshot(job[j].snap))'
  BY <1>1, <1>3 DEF KindInv, SameJobs
<1> QED BY <1>4, <1>5 DEF KindInv

\* What the job the worker is at is about.
LEMMA CurKinds ==
    ASSUME WorkInv, KindInv, InJob
    PROVE  /\ job[Cur].op = "create_instance" => IsInstance(Att)
           /\ job[Cur].op = "create_snapshot" => IsSnapshot(Att)
           /\ job[Cur].op \in OnServer => job[Cur].inst \in Ids /\ IsInstance(job[Cur].inst)
           /\ job[Cur].op = "delete_snapshot" => job[Cur].snap \in Ids /\ IsSnapshot(job[Cur].snap)
<1>1. /\ Cur \in Jobs /\ Att \in Ids
      /\ job[Cur].op \in OnServer => job[Cur].inst \in Ids
      /\ job[Cur].op = "delete_snapshot" => job[Cur].snap \in Ids
  BY CurJob
<1>2. Att # <<0, 0>> /\ Att[1] = Cur
  BY <1>1, AttParts
<1>3. None \notin Ids
  BY ServerAssumption
<1> QED BY <1>1, <1>2, <1>3 DEF KindInv, IsInstance, IsSnapshot

LEMMA KindStep ==
    ASSUME WorkInv, KindInv, [Next]_vars
    PROVE  KindInv'
<1> USE ServerAssumption
<1>1. CASE \E j \in Jobs : Request(j)
  <2>0. PICK j \in Jobs : Request(j)
    BY <1>1
  <2>1. PICK r :
          /\ NewJob(r) /\ Put(j, r)
          /\ r.inst # None => row[r.inst] # None \/ \E s \in Ids : snapRow[s] = r.inst
          /\ r.snap # None => r.snap \in Ids /\ snapRow[r.snap] # None
    BY <2>0, RequestPuts
  <2>2. /\ job'[j].op = r.op /\ job'[j].inst = r.inst /\ job'[j].snap = r.snap
        /\ \A k \in Jobs : k # j => job'[k] = job[k]
        /\ job[j] = NoJob
    BY <2>1, PutJob
  <2>3. \A k \in Jobs : job'[k].op = job[k].op \/ job[k].op = None
    BY <2>2 DEF NoJob
  <2>4. \A i \in Ids : (IsInstance(i) => IsInstance(i)') /\ (IsSnapshot(i) => IsSnapshot(i)')
    BY <2>3, KindStable
  <2>5. UNCHANGED <<row, snapRow, prov, provSnaps, worker>>
    BY <2>1 DEF Put, db
  <2>6. \A i \in Ids : snapRow[i] # None => snapRow[i] \in Ids
    BY DEF WorkInv, TypeOK
  <2>7. \A k \in Jobs : job[k].inst \in Ids \cup {None} /\ job[k].snap \in Ids \cup {None}
    BY DEF WorkInv, TypeOK, JobRow
  <2>8. r.inst # None => r.inst \in Ids /\ IsInstance(r.inst)
    <3>1. r.inst \in Ids \cup {None}
      BY <2>1 DEF NewJob, JobRow
    <3> QED BY <2>1, <3>1 DEF KindInv
  <2>9. r.snap # None => r.snap \in Ids /\ IsSnapshot(r.snap)
    BY <2>1 DEF KindInv
  <2>10. ASSUME NEW i \in Ids
         PROVE  /\ (prov[i] # None \/ row[i] # None \/ worker.seen[i] # None => IsInstance(i))'
                /\ (i \in provSnaps \/ snapRow[i] # None => IsSnapshot(i))'
                /\ (snapRow[i] # None => IsInstance(snapRow[i]))'
    BY <2>4, <2>5, <2>6 DEF KindInv
  <2>11. ASSUME NEW k \in Jobs
         PROVE  /\ (job[k].inst # None => IsInstance(job[k].inst))'
                /\ (job[k].snap # None => IsSnapshot(job[k].snap))'
    <3>1. CASE k = j
      BY <2>2, <2>4, <2>8, <2>9, <3>1
    <3>2. CASE k # j
      BY <2>2, <2>4, <2>7, <3>2 DEF KindInv
    <3> QED BY <3>1, <3>2
  <2> QED BY <2>10, <2>11 DEF KindInv
<1>2. CASE delete_host
  <2>1. UNCHANGED <<job, prov, provSnaps, worker>> /\ row' = [i \in Ids |-> None] /\ snapRow' = [i \in Ids |-> None]
    BY <1>2 DEF delete_host
  <2> QED BY <2>1 DEF KindInv, IsInstance, IsSnapshot
<1>3. CASE (call_provider \/ call_fails) /\ ProviderDoes
  <2>1. worker.pc = "call" /\ UNCHANGED <<job, row, snapRow>> /\ worker'.seen \in {worker.seen, prov}
    <3>1. worker \in Worker
      BY DEF WorkInv, TypeOK
    <3> QED BY <1>3, <3>1 DEF call_provider, call_fails, Goto, Worker, db
  <2>2. /\ job[Cur].op = "create_instance" => IsInstance(Att)
        /\ job[Cur].op = "create_snapshot" => IsSnapshot(Att)
        /\ job[Cur].op \in OnServer => job[Cur].inst \in Ids /\ IsInstance(job[Cur].inst)
        /\ Att \in Ids
    BY <2>1, CurKinds, CurJob DEF InJob
  <2>3. prov \in [Ids -> Powers \cup {None}]
    BY DEF WorkInv, TypeOK
  <2>4. \A i \in Ids : prov'[i] # None => IsInstance(i)
    <3>1. \A i \in Ids : prov[i] # None => IsInstance(i)
      BY DEF KindInv
    <3> QED BY <1>3, <2>2, <2>3, <3>1 DEF ProviderDoes, OnServer
  <2>5. \A i \in Ids : i \in provSnaps' => IsSnapshot(i)
    <3>1. \A i \in Ids : i \in provSnaps => IsSnapshot(i)
      BY DEF KindInv
    <3> QED BY <1>3, <2>2, <3>1 DEF ProviderDoes
  <2>6. \A i \in Ids : IsInstance(i)' = IsInstance(i) /\ IsSnapshot(i)' = IsSnapshot(i)
    BY <2>1 DEF IsInstance, IsSnapshot
  <2>7. ASSUME NEW i \in Ids
        PROVE  /\ (prov[i] # None \/ row[i] # None \/ worker.seen[i] # None => IsInstance(i))'
               /\ (i \in provSnaps \/ snapRow[i] # None => IsSnapshot(i))'
               /\ (snapRow[i] # None => IsInstance(snapRow[i]))'
    <3>1. prov[i] # None \/ row[i] # None \/ worker.seen[i] # None => IsInstance(i)
      BY DEF KindInv
    <3>2. worker'.seen[i] # None => IsInstance(i)
      BY <2>1, <3>1
    <3>3. (i \in provSnaps \/ snapRow[i] # None => IsSnapshot(i)) /\ (snapRow[i] # None => IsInstance(snapRow[i]))
      BY DEF KindInv
    <3>4. (snapRow[i] # None => IsInstance(snapRow[i]))'
      BY <2>1, <3>3 DEF IsInstance
    <3> QED BY <2>1, <2>4, <2>5, <2>6, <3>1, <3>2, <3>3, <3>4
  <2>8. ASSUME NEW k \in Jobs
        PROVE  /\ (job[k].inst # None => IsInstance(job[k].inst))'
               /\ (job[k].snap # None => IsSnapshot(job[k].snap))'
    BY <2>1 DEF KindInv, IsInstance, IsSnapshot
  <2> QED BY <2>7, <2>8 DEF KindInv
<1>4. CASE commit_success
  <2>1. /\ worker.pc = "commit" /\ UNCHANGED <<prov, provSnaps>> /\ worker'.seen = worker.seen
        /\ \A i \in Ids : row'[i] = NewRow(i)
    <3>1. worker \in Worker
      BY DEF WorkInv, TypeOK
    <3> QED BY <1>4, <3>1 DEF commit_success, Goto, Worker
  <2>2. SameJobs
    BY <1>4, <2>1, StatusSet DEF commit_success, SameJobs
  <2>3. \A i \in Ids : (IsInstance(i) => IsInstance(i)') /\ (IsSnapshot(i) => IsSnapshot(i)')
    BY <2>2, KindStable DEF SameJobs
  <2>4. /\ job[Cur].op = "create_instance" => IsInstance(Att)
        /\ job[Cur].op = "create_snapshot" => IsSnapshot(Att)
        /\ job[Cur].op \in OnServer => job[Cur].inst \in Ids /\ IsInstance(job[Cur].inst)
    BY <2>1, CurKinds DEF InJob
  <2>5. \A i \in Ids : row'[i] # None => IsInstance(i)
    <3>1. \A i \in Ids : row[i] # None \/ worker.seen[i] # None => IsInstance(i)
      BY DEF KindInv
    <3> QED BY <2>1, <2>4, <3>1 DEF NewRow, Synced, OnServer
  <2>6. ASSUME NEW i \in Ids, snapRow'[i] # None
        PROVE  IsSnapshot(i) /\ snapRow'[i] \in Ids /\ IsInstance(snapRow'[i])
    <3>1. \/ snapRow'[i] = snapRow[i]
          \/ job[Cur].op = "create_snapshot" /\ i = Att /\ snapRow'[i] = job[Cur].inst
      BY <1>4, <2>6 DEF commit_success
    <3>2. CASE snapRow'[i] = snapRow[i]
      BY <2>6, <3>2 DEF WorkInv, TypeOK, KindInv
    <3>3. CASE job[Cur].op = "create_snapshot" /\ i = Att /\ snapRow'[i] = job[Cur].inst
      BY <2>4, <3>3 DEF OnServer
    <3> QED BY <3>1, <3>2, <3>3
  <2>7. ASSUME NEW i \in Ids
        PROVE  /\ (prov[i] # None \/ row[i] # None \/ worker.seen[i] # None => IsInstance(i))'
               /\ (i \in provSnaps \/ snapRow[i] # None => IsSnapshot(i))'
               /\ (snapRow[i] # None => IsInstance(snapRow[i]))'
    <3>1. prov[i] # None \/ worker.seen[i] # None => IsInstance(i)
      BY DEF KindInv
    <3>2. i \in provSnaps => IsSnapshot(i)
      BY DEF KindInv
    <3> QED BY <2>1, <2>3, <2>5, <2>6, <3>1, <3>2
  <2>8. ASSUME NEW k \in Jobs
        PROVE  /\ (job[k].inst # None => IsInstance(job[k].inst))'
               /\ (job[k].snap # None => IsSnapshot(job[k].snap))'
    <3>1. job[k].inst \in Ids \cup {None} /\ job[k].snap \in Ids \cup {None}
      BY DEF WorkInv, TypeOK, JobRow
    <3> QED BY <2>2, <2>3, <3>1 DEF KindInv, SameJobs
  <2> QED BY <2>7, <2>8 DEF KindInv
<1>5. CASE mark_running \/ commit_failure
  <2>1. SameJobs
    <3>1. CASE mark_running
      BY <3>1, MarkSets DEF SameJobs
    <3>2. CASE commit_failure
      <4>1. \E st \in {"pending", "failed"} : job' = [job EXCEPT ![Cur].status = st]
        BY <3>2 DEF commit_failure
      <4>2. worker.pc # "idle"
        BY <3>2 DEF commit_failure
      <4> QED BY <4>1, <4>2, StatusSet DEF SameJobs
    <3> QED BY <1>5, <3>1, <3>2
  <2>2. worker'.seen = worker.seen
    BY <1>5, GotoType DEF mark_running, commit_failure, WorkInv, WorkerPc
  <2> QED BY <1>5, <2>1, <2>2, KindKeeps DEF mark_running, commit_failure, db
<1>6. CASE (call_provider \/ call_fails) /\ ~ProviderDoes
  <2>1. Goto("fail") /\ UNCHANGED <<db, job, prov, provSnaps>>
    BY <1>6 DEF call_provider, call_fails
  <2>2. worker'.seen = worker.seen
    BY <2>1, GotoType DEF WorkInv, WorkerPc
  <2> QED BY <2>1, <2>2, KindKeeps DEF SameJobs, db
<1>7. CASE resolve_host
  <2>1. \E pc \in WorkerPc : Goto(pc)
    BY <1>7 DEF resolve_host, WorkerPc
  <2>2. worker'.seen = worker.seen
    BY <2>1, GotoType DEF WorkInv
  <2> QED BY <1>7, <2>2, KindKeeps DEF resolve_host, SameJobs, db
<1>8. CASE poll \/ audit_success \/ audit_failure \/ commit_refused \/ interrupted
  <2>1. worker'.seen = [i \in Ids |-> None]
    <3>1. worker' = Idle \/ \E b, j : worker' = [Idle EXCEPT !.pc = "mark", !.cur = j, !.rest = b]
      BY <1>8 DEF poll, audit_success, audit_failure, NextJob, TakeUp, commit_refused, interrupted, Abandon
    <3>2. ASSUME NEW b, NEW j, worker' = [Idle EXCEPT !.pc = "mark", !.cur = j, !.rest = b]
          PROVE  worker' = [pc |-> "mark", cur |-> j, rest |-> b, seen |-> [i \in Ids |-> None]]
      BY <3>2 DEF Idle
    <3>3. Idle.seen = [i \in Ids |-> None]
      BY DEF Idle
    <3> QED BY <3>1, <3>2, <3>3
  <2> QED BY <1>8, <2>1, KindKeeps
          DEF poll, audit_success, audit_failure, commit_refused, interrupted, Abandon, SameJobs, db
<1>9. CASE UNCHANGED vars
  BY <1>9, KindKeeps DEF vars, SameJobs, db
<1> QED
  BY <1>1, <1>2, <1>3, <1>4, <1>5, <1>6, <1>7, <1>8, <1>9 DEF Next, Api, Work, Request

\* What the worker knows at the commit stays so until the commit.
LEMMA AnswerStep ==
    ASSUME WorkInv, KindInv, AnswerInv, [Next]_vars
    PROVE  AnswerInv'
<1> USE ServerAssumption
<1>1. CASE \E j \in Jobs : Request(j)
  <2>0. PICK j \in Jobs : Request(j)
    BY <1>1
  <2>1. PICK r : NewJob(r) /\ Put(j, r)
    BY <2>0, RequestPuts
  <2>2. job'[Cur] = job[Cur] \/ worker.pc = "idle"
    BY <2>1, PutJob DEF Cur, WorkInv, TypeOK, Worker
  <2>3. UNCHANGED <<host, row, snapRow, prov, provSnaps, worker>>
    BY <2>1 DEF Put, db
  <2> QED BY <2>2, <2>3 DEF AnswerInv, Att, Cur
<1>2. CASE delete_host
  BY <1>2 DEF delete_host, AnswerInv, Att, Cur
<1>3. CASE resolve_host
  <2>1. /\ worker'.cur = worker.cur /\ UNCHANGED <<host, row, job>>
        /\ worker'.pc \in {"call", "fail"}
        /\ worker'.pc = "call" /\ job[Cur].op \notin OnHost => row[job[Cur].inst] # None
    <3>1. PICK pc \in {"call", "fail"} :
            Goto(pc) /\ (pc = "call" /\ job[Cur].op \notin OnHost => row[job[Cur].inst] # None)
      BY <1>3 DEF resolve_host
    <3>2. worker'.pc = pc /\ worker'.cur = worker.cur
      BY <3>1, GotoType DEF WorkInv, WorkerPc
    <3> QED BY <1>3, <3>1, <3>2 DEF resolve_host, db
  <2>2. OnHost \cap OnServer = {}
    BY DEF OnHost, OnServer
  <2> QED BY <2>1, <2>2 DEF AnswerInv, Cur
<1>4. CASE (call_provider \/ call_fails) /\ worker'.pc = "commit"
  <2>1. /\ worker.pc = "call" /\ worker'.cur = worker.cur /\ worker'.seen = prov
        /\ ProviderDoes /\ UNCHANGED <<host, row, job>>
    <3>1. worker \in Worker
      BY DEF WorkInv, TypeOK
    <3> QED BY <1>4, <3>1 DEF call_provider, call_fails, Goto, Worker, db
  <2>2. /\ Att \in Ids
        /\ job[Cur].op \in OnServer => job[Cur].inst \in Ids
    BY <2>1, CurJob DEF InJob
  <2>3. prov \in [Ids -> Powers \cup {None}]
    BY DEF WorkInv, TypeOK
  <2>4. /\ job[Cur].op = "sync" => prov' = prov
        /\ job[Cur].op = "create_instance" => prov'[Att] = "running"
        /\ job[Cur].op = "delete_instance" => prov'[job[Cur].inst] = None
        /\ job[Cur].op = "start" => prov'[job[Cur].inst] = "running"
        /\ job[Cur].op = "stop" => prov'[job[Cur].inst] = "stopped"
        /\ job[Cur].op = "create_snapshot" => Att \in provSnaps'
        /\ job[Cur].op = "delete_snapshot" => job[Cur].snap \notin provSnaps'
    BY <2>1, <2>2, <2>3 DEF ProviderDoes, OnServer
  <2>5. worker.pc = "call" /\ job[Cur].op \in OnServer /\ host => row[job[Cur].inst] # None
    BY DEF AnswerInv
  <2> QED BY <2>1, <2>4, <2>5 DEF AnswerInv, Cur, Att
<1>5. CASE worker'.pc \notin {"call", "commit"}
  BY <1>5 DEF AnswerInv
<1>6. CASE UNCHANGED vars
  BY <1>6 DEF vars, db, AnswerInv, Cur, Att
<1>7. CASE mark_running \/ commit_success \/ commit_failure
  BY <1>5, <1>7, GotoType DEF mark_running, commit_success, commit_failure, WorkInv, WorkerPc
<1>8. CASE (call_provider \/ call_fails) /\ worker'.pc # "commit"
  <2>1. Goto("fail") \/ worker' = [worker EXCEPT !.pc = "commit", !.seen = prov]
    BY <1>8 DEF call_provider, call_fails
  <2>2. worker'.pc \in {"fail", "commit"}
    BY <2>1 DEF Goto, WorkInv, TypeOK, Worker
  <2> QED BY <1>5, <1>8, <2>2
<1>9. CASE poll \/ audit_success \/ audit_failure \/ commit_refused \/ interrupted
  <2>1. worker' = Idle \/ \E b, j : worker' = [Idle EXCEPT !.pc = "mark", !.cur = j, !.rest = b]
    BY <1>9 DEF poll, audit_success, audit_failure, NextJob, TakeUp, commit_refused, interrupted, Abandon
  <2>2. ASSUME NEW b, NEW j, worker' = [Idle EXCEPT !.pc = "mark", !.cur = j, !.rest = b]
        PROVE  worker'.pc = "mark"
    BY <2>2 DEF Idle
  <2>3. Idle.pc = "idle"
    BY DEF Idle
  <2> QED BY <1>5, <2>1, <2>2, <2>3
<1> QED
  BY <1>1, <1>2, <1>3, <1>4, <1>6, <1>7, <1>8, <1>9 DEF Next, Api, Work, Request

\* No table drifts from the provider but through a change that is not recorded.
LEMMA DriftStep ==
    ASSUME WorkInv, KindInv, AnswerInv, DriftHasCause, [Next]_vars
    PROVE  DriftHasCause'
<1> USE ServerAssumption
<1>1. CASE UNCHANGED <<host, row, snapRow, prov, provSnaps, dirty>>
  BY <1>1 DEF DriftHasCause
<1>2. CASE delete_host
  BY <1>2 DEF delete_host, DriftHasCause
<1>3. CASE (call_provider \/ call_fails) /\ ProviderDoes
  <2>1. worker.pc = "call" /\ UNCHANGED <<host, row, snapRow>>
    BY <1>3 DEF call_provider, call_fails, db
  <2>2. /\ Att \in Ids
        /\ job[Cur].op \in OnServer => job[Cur].inst \in Ids
    BY <2>1, CurJob DEF InJob
  <2>3. prov \in [Ids -> Powers \cup {None}]
    BY DEF WorkInv, TypeOK
  <2>4. ASSUME NEW i \in Ids \ dirty'
        PROVE  i \notin dirty /\ prov'[i] = prov[i] /\ (i \in provSnaps' <=> i \in provSnaps)
    BY <1>3, <2>2, <2>3 DEF ProviderDoes, OnServer
  <2> QED BY <2>1, <2>4 DEF DriftHasCause
<1>4. CASE commit_success
  <2>1. /\ worker.pc = "commit" /\ ~KeyMissing /\ UNCHANGED <<host, prov, provSnaps>>
        /\ dirty' = dirty \ Recorded /\ \A i \in Ids : row'[i] = NewRow(i)
        /\ \A s \in Ids : snapRow'[s] =
             CASE job[Cur].op = "create_snapshot" /\ s = Att -> job[Cur].inst
               [] job[Cur].op = "delete_snapshot" /\ s = job[Cur].snap -> None
               [] job[Cur].op = "delete_instance" /\ snapRow[s] = job[Cur].inst -> None
               [] OTHER -> snapRow[s]
    BY <1>4 DEF commit_success
  <2>2. /\ job[Cur].op = "create_instance" => IsInstance(Att)
        /\ job[Cur].op = "create_snapshot" => IsSnapshot(Att)
        /\ job[Cur].op \in OnServer => job[Cur].inst \in Ids /\ IsInstance(job[Cur].inst)
        /\ job[Cur].op = "delete_snapshot" => job[Cur].snap \in Ids /\ IsSnapshot(job[Cur].snap)
        /\ Att \in Ids /\ job[Cur].op \in OnHost \cup OnServer
    BY <2>1, CurKinds, CurJob DEF InJob
  <2>3. \A i \in Ids : ~(IsInstance(i) /\ IsSnapshot(i))
    BY DEF IsInstance, IsSnapshot
  <2>4. \A i \in Ids : /\ prov[i] # None \/ row[i] # None \/ worker.seen[i] # None => IsInstance(i)
                       /\ i \in provSnaps \/ snapRow[i] # None => IsSnapshot(i)
    BY DEF KindInv
  <2>5. /\ job[Cur].op \in OnServer /\ host => row[job[Cur].inst] # None
        /\ job[Cur].op = "sync" => worker.seen = prov
        /\ job[Cur].op = "create_instance" => prov[Att] = "running"
        /\ job[Cur].op = "delete_instance" => prov[job[Cur].inst] = None
        /\ job[Cur].op = "start" => prov[job[Cur].inst] = "running"
        /\ job[Cur].op = "stop" => prov[job[Cur].inst] = "stopped"
        /\ job[Cur].op = "create_snapshot" => Att \in provSnaps
        /\ job[Cur].op = "delete_snapshot" => job[Cur].snap \notin provSnaps
    BY <2>1 DEF AnswerInv
  <2>6. "running" # None /\ "stopped" # None
    BY DEF Powers
  \* What the commit records it records as it is.
  <2>7. ASSUME NEW i \in Ids \cap Recorded
        PROVE  /\ row'[i] # None => prov[i] = row'[i]
               /\ snapRow'[i] # None => i \in provSnaps
               /\ host /\ prov[i] # None => row'[i] # None
    <3>1. CASE job[Cur].op = "create_instance"
      BY <2>1, <2>2, <2>3, <2>4, <2>5, <2>6, <2>7, <3>1 DEF Recorded, NewRow
    <3>2. CASE job[Cur].op = "sync"
      BY <2>1, <2>3, <2>4, <2>5, <2>7, <3>2 DEF Recorded, NewRow, Synced
    <3>3. CASE job[Cur].op = "delete_instance"
      BY <2>1, <2>2, <2>3, <2>4, <2>5, <2>7, <3>3 DEF Recorded, NewRow, OnServer
    <3>4. CASE job[Cur].op \in {"start", "stop"}
      BY <2>1, <2>2, <2>3, <2>4, <2>5, <2>6, <2>7, <3>4 DEF Recorded, NewRow, OnServer
    <3>5. CASE job[Cur].op = "create_snapshot"
      BY <2>1, <2>2, <2>3, <2>4, <2>5, <2>7, <3>5 DEF Recorded, NewRow
    <3>6. CASE job[Cur].op = "delete_snapshot"
      BY <2>1, <2>2, <2>3, <2>4, <2>5, <2>7, <3>6 DEF Recorded, NewRow
    <3>7. job[Cur].op # "other"
      BY <2>7 DEF Recorded
    <3> QED BY <2>2, <3>1, <3>2, <3>3, <3>4, <3>5, <3>6, <3>7 DEF OnHost, OnServer
  \* It leaves the rest alone.
  <2>8. ASSUME NEW i \in Ids \ Recorded
        PROVE  row'[i] = row[i] /\ snapRow'[i] \in {snapRow[i], None}
    <3>1. row'[i] = row[i]
      BY <2>1, <2>8 DEF Recorded, NewRow, Synced
    <3>2. snapRow'[i] \in {snapRow[i], None}
      BY <2>1, <2>8 DEF Recorded
    <3> QED BY <3>1, <3>2
  <2>9. ASSUME NEW i \in Ids, i \notin dirty'
        PROVE  i \notin dirty \/ i \in Recorded
    BY <2>1, <2>9
  <2>10. ASSUME NEW i \in Ids, i \notin dirty'
         PROVE  /\ row'[i] # None => prov[i] = row'[i]
                /\ snapRow'[i] # None => i \in provSnaps
                /\ host /\ i # <<0, 0>> /\ prov[i] # None => row'[i] # None
    <3>1. CASE i \in Recorded
      BY <2>7, <3>1
    <3>2. CASE i \notin Recorded
      BY <2>8, <2>9, <2>10, <3>2 DEF DriftHasCause
    <3> QED BY <3>1, <3>2
  <2> QED BY <2>1, <2>10 DEF DriftHasCause
<1>5. CASE \E j \in Jobs : Request(j)
  <2>1. \E j \in Jobs : \E r : Put(j, r)
    BY <1>5, RequestPuts
  <2> QED BY <1>1, <2>1 DEF Put, db
<1>6. CASE (call_provider \/ call_fails) /\ ~ProviderDoes
  BY <1>1, <1>6 DEF call_provider, call_fails, db
<1>7. CASE poll \/ mark_running \/ resolve_host \/ audit_success \/ commit_failure \/ audit_failure
  BY <1>1, <1>7 DEF poll, mark_running, resolve_host, audit_success, commit_failure, audit_failure, db
<1>8. CASE commit_refused \/ interrupted
  BY <1>1, <1>8 DEF commit_refused, interrupted, Abandon, db
<1>9. CASE UNCHANGED vars
  BY <1>1, <1>9 DEF vars, db
<1> QED
  BY <1>2, <1>3, <1>4, <1>5, <1>6, <1>7, <1>8, <1>9 DEF Next, Api, Work, Request

\* Whatever fails and whenever the worker is restarted, server_instances and
\* server_snapshots show what the provider has, unless a change there has not
\* been followed by the commit of jobs/worker.py, and server_change_jobs reports
\* no outcome that did not happen.
THEOREM ServerTablesAreTrue == Spec => []TablesAreTrue
<1>1. Init => Inv
  <2> SUFFICES ASSUME Init PROVE Inv
    OBVIOUS
  <2>1. WorkInv
    BY WorkInit
  <2>2. KindInv
    BY NoJobType DEF Init, KindInv, Idle, IsInstance
  <2>3. AnswerInv
    BY DEF Init, Idle, AnswerInv
  <2>4. DriftHasCause
    BY DEF Init, DriftHasCause
  <2> QED BY <2>1, <2>2, <2>3, <2>4 DEF Inv
<1>2. Inv /\ [Next]_vars => Inv'
  BY WorkStep, KindStep, AnswerStep, DriftStep DEF Inv
<1>3. Inv => TablesAreTrue
  BY DEF Inv, WorkInv, TablesAreTrue
<1> QED BY <1>1, <1>2, <1>3, PTL DEF Spec

\* The server agent as the run has it, hosts, devices and Proxmox machines beside the
\* change jobs, keeps what the jobs keep.
THEOREM ServerAgentKeepsJobs ==
    AgentSpec => []TablesAreTrue /\ JobsKeepLedger
<1>1. AgentInit => Init
  BY DEF AgentInit
<1>2. [AgentNext]_agentVars => [Next]_vars
  BY DEF AgentNext, Serving, Beside, agentVars
<1> QED
  BY <1>1, <1>2, ServerTablesAreTrue, ServerJobsKeepLedger, PTL DEF AgentSpec, Spec

------------------------------------------------------------------------------
(* Hosts, devices and Proxmox machines (ServerHosts) *)

Start == [pc : {"down", "listed", "up"}, listed : SUBSET Secrets, asked : SUBSET Aliases,
          full : BOOLEAN, failed : BOOLEAN, before : [Labels -> Aliases \cup {"none"}],
          after : [Labels -> Aliases \cup {"none"}]]
Live == [op : {"none", "server resources", "console", "host resources", "catalog"},
         pc : {"idle", "host", "list", "read", "call", "audit", "done"},
         label : Labels \cup {"none"}, alias : Aliases \cup {"none"}, audit : BOOLEAN,
         flags : SUBSET {"vault changed", "host gone", "failed"},
         answer : {"none", "200", "400", "500", "502"}]

\* Hosts do not change while the agent starts, and what it has read of the vault is what
\* the vault held, all of it unless that was more than a page.  A request has no audit
\* row before it is done.
SeedInv ==
    start.pc \in {"down", "listed"} =>
        /\ start.before = hosts /\ start.after = hosts
        /\ start.listed \cap Aliases \subseteq start.asked
        /\ start.full \/ start.failed \/ start.asked \subseteq start.listed

HostInv ==
    /\ secrets \in Seq(Secrets) /\ hosts \in [Labels -> Aliases \cup {"none"}]
    /\ start \in Start /\ live \in Live
    /\ SeedInv /\ SeedIsWhole
    /\ live.pc # "done" => ~live.audit
    /\ LiveIsAccounted

Viewer == [pc : {"idle", "run", "store", "done"}, force : BOOLEAN, now : Nat, data : Nat,
           answer : {"none", "200", "502"}]

\* A list is cached with a time not later than its own.
DeviceInv ==
    /\ clock \in Nat /\ viewer \in [Viewers -> Viewer]
    /\ cache # <<>> => cache \in Nat \X Nat /\ cache[1] <= cache[2]
    /\ \A p \in Viewers :
         /\ viewer[p].pc = "run" => viewer[p].now <= clock
         /\ viewer[p].pc = "store" => viewer[p].now <= viewer[p].data
    /\ DevicesAreFresh

Vm == [name : HostNames \cup {"none"}, by : Orders \cup {"none", "hand"}]
Order == [pc : {"absent", "pending", "post", "find", "store", "succeeded", "failed", "stuck"},
          name : HostNames \cup {"none"}, tries : Nat, found : Vms \cup {0}, failed : BOOLEAN]

SharedName(n) == \E m, k \in makers : m # k /\ m[1] = n /\ k[1] = n

\* The job that has found a machine has found its own, unless the name or the id is
\* another's too; and without a failure it has made no other that is still there.
OrderOK(j) ==
    LET o == order[j] IN
    /\ o.pc = "absent" => o.name = "none"
    /\ o.pc \in {"find", "store", "succeeded"} => o.name # "none" /\ <<o.name, j>> \in makers
    /\ o.pc = "store" =>
         /\ o.found \in Vms
         /\ vms[o.found] # NoVm =>
              vms[o.found].by = j \/ o.found \in reused \/ SharedName(o.name)
    /\ o.pc \in {"pending", "post"} /\ ~o.failed => \A v \in Vms : vms[v].by # j
    /\ o.pc \in {"find", "store"} /\ ~o.failed =>
         \A v, w \in Vms : vms[v].by = j /\ vms[w].by = j => v = w
    /\ o.pc = "store" /\ ~o.failed /\ ~SharedName(o.name) =>
         \A v \in Vms : vms[v].by = j => v = o.found
    /\ o.pc = "succeeded" /\ ~o.failed /\ ~SharedName(o.name) =>
         \A v \in Vms : vms[v].by = j => vmRows[v] = j

MachineOK(v) ==
    /\ vms[v] # NoVm => vms[v].name # "none" /\ <<vms[v].name, vms[v].by>> \in makers
    /\ vms[v].by \in Orders => vms[v].name = order[vms[v].by].name /\ vms[v].name # "none"
    /\ vmRows[v] \in Orders =>
         /\ order[vmRows[v]].pc = "succeeded"
         /\ vms[v] # NoVm =>
              vms[v].by = vmRows[v] \/ v \in reused \/ SharedName(order[vmRows[v]].name)

VmInv ==
    /\ vms \in [Vms -> Vm] /\ order \in [Orders -> Order]
    /\ vmRows \in [Vms -> Orders \cup {"none", "sync"}]
    /\ IsFiniteSet(makers)
    /\ \A j \in Orders : OrderOK(j)
    /\ \A v \in Vms : MachineOK(v)

LEMMA HostConsts ==
    /\ PageSize \in Nat \ {0} /\ CacheTtl \in Nat \ {0} /\ MaxTries \in Nat \ {0}
    /\ "none" \notin Secrets /\ "none" \notin Orders /\ "none" \notin HostNames
    /\ "sync" \notin Orders /\ "hand" \notin Orders /\ Aliases \subseteq Secrets
    /\ IsFiniteSet(Secrets)
BY HostsAssumption DEF Secrets

(* Devices *)

LEMMA DeviceStep ==
    ASSUME DeviceInv, DeviceNext
    PROVE  DeviceInv'
<1>1. /\ clock \in Nat /\ viewer \in [Viewers -> Viewer] /\ CacheTtl \in Nat \ {0}
      /\ cache # <<>> => cache \in Nat \X Nat /\ cache[1] <= cache[2]
  BY HostConsts DEF DeviceInv
<1>2. ASSUME NEW p \in Viewers, NEW w \in Viewer, viewer' = [viewer EXCEPT ![p] = w],
             UNCHANGED clock,
             w.pc = "run" => w.now <= clock,
             w.pc = "store" => w.now <= w.data,
             w.pc = "done" /\ w.answer = "200" =>
               w.data > w.now - CacheTtl /\ (w.force => w.data >= w.now),
             cache' # <<>> => cache' \in Nat \X Nat /\ cache'[1] <= cache'[2]
      PROVE  DeviceInv'
  <2>1. viewer' \in [Viewers -> Viewer] /\ \A q \in Viewers : viewer'[q] = IF q = p THEN w ELSE viewer[q]
    BY <1>1, <1>2
  <2>2. DevicesAreFresh'
    BY <1>2, <2>1 DEF DeviceInv, DevicesAreFresh
  <2> QED BY <1>1, <1>2, <2>1, <2>2 DEF DeviceInv
<1>3. ASSUME NEW p \in Viewers, NEW force \in BOOLEAN, ListDevices(p, force) PROVE DeviceInv'
  <2> DEFINE hit == ~force /\ cache # <<>> /\ clock - cache[1] < CacheTtl
             w1 == [pc |-> "done", force |-> FALSE, now |-> clock, data |-> cache[2], answer |-> "200"]
             w2 == [pc |-> "run", force |-> force, now |-> clock, data |-> 0, answer |-> "none"]
  <2>1. UNCHANGED <<clock, cache>> /\ viewer' = [viewer EXCEPT ![p] = IF hit THEN w1 ELSE w2]
    BY <1>3 DEF ListDevices
  <2>2. CASE hit
    <3>1. w1 \in Viewer /\ cache[2] > clock - CacheTtl
      BY <1>1, <2>2 DEF Viewer
    <3> QED BY <1>1, <1>2, <2>1, <2>2, <3>1
  <2>3. CASE ~hit
    <3>1. PICK w : w = w2
      OBVIOUS
    <3>2. w \in Viewer /\ w.pc = "run" /\ w.now <= clock
      BY <1>1, <3>1 DEF Viewer
    <3>3. viewer' = [viewer EXCEPT ![p] = w]
      BY <2>1, <2>3, <3>1
    <3>4. UNCHANGED <<clock, cache>>
      BY <2>1
    <3> HIDE DEF hit, w1, w2
    <3> QED BY <1>1, <1>2, <3>2, <3>3, <3>4
  <2> QED BY <2>2, <2>3
<1>4. ASSUME NEW p \in Viewers, RunMeshctrl(p) PROVE DeviceInv'
  <2>1. PICK w : w = [viewer[p] EXCEPT !.pc = "store", !.data = clock]
    OBVIOUS
  <2>2. w \in Viewer /\ w.pc = "store" /\ w.data = clock /\ w.now = viewer[p].now
    BY <1>1, <2>1 DEF Viewer
  <2>3. viewer' = [viewer EXCEPT ![p] = w] /\ UNCHANGED <<clock, cache>> /\ viewer[p].now <= clock
    BY <1>1, <1>4, <2>1 DEF RunMeshctrl, DeviceInv
  <2> QED BY <1>1, <1>2, <2>2, <2>3
<1>5. ASSUME NEW p \in Viewers, CachesDevices(p) PROVE DeviceInv'
  <2>1. PICK w : w = [viewer[p] EXCEPT !.pc = "done", !.answer = "200"]
    OBVIOUS
  <2>2. /\ w \in Viewer /\ w.pc = "done" /\ w.data = viewer[p].data /\ w.now = viewer[p].now
        /\ viewer[p].now \in Nat /\ viewer[p].data \in Nat
    BY <1>1, <2>1 DEF Viewer
  <2>3. /\ viewer' = [viewer EXCEPT ![p] = w] /\ UNCHANGED clock
        /\ cache' = <<viewer[p].now, viewer[p].data>> /\ viewer[p].now <= viewer[p].data
    BY <1>1, <1>5, <2>1 DEF CachesDevices, DeviceInv
  <2>4. cache' \in Nat \X Nat /\ cache'[1] <= cache'[2]
    BY <2>2, <2>3
  <2>5. w.data > w.now - CacheTtl /\ w.data >= w.now
    BY <1>1, <2>2, <2>3
  <2> QED BY <1>2, <2>2, <2>3, <2>4, <2>5
<1>6. ASSUME NEW p \in Viewers, MeshFails(p) PROVE DeviceInv'
  <2>1. PICK w : w = [viewer[p] EXCEPT !.pc = "done", !.answer = "502"]
    OBVIOUS
  <2>2. w \in Viewer /\ w.pc = "done" /\ w.answer = "502"
    BY <1>1, <2>1 DEF Viewer
  <2>3. viewer' = [viewer EXCEPT ![p] = w] /\ UNCHANGED <<clock, cache>>
    BY <1>1, <1>6, <2>1 DEF MeshFails
  <2> QED BY <1>1, <1>2, <2>2, <2>3
<1>7. NoViewer \in Viewer /\ NoViewer.pc = "idle"
  BY DEF NoViewer, Viewer
<1>8. ASSUME NEW p \in Viewers, ViewerLeaves(p) PROVE DeviceInv'
  BY <1>1, <1>2, <1>7, <1>8 DEF ViewerLeaves
<1>9. CASE MeshRestart
  BY <1>1, <1>7, <1>9 DEF MeshRestart, DeviceInv, DevicesAreFresh
<1>10. CASE ClockTicks
  <2>1. clock' = clock + 1 /\ UNCHANGED <<cache, viewer>>
    BY <1>10 DEF ClockTicks
  <2>2. \A p \in Viewers : viewer[p].now \in Nat
    BY <1>1 DEF Viewer
  <2>3. DevicesAreFresh'
    BY <2>1 DEF DeviceInv, DevicesAreFresh
  <2> QED BY <1>1, <2>1, <2>2, <2>3 DEF DeviceInv
<1> QED BY <1>3, <1>4, <1>5, <1>6, <1>8, <1>9, <1>10 DEF DeviceNext, GetDevice

(* Hosts *)

\* A step of the request that waits for a provider.
LEMMA LiveStep ==
    ASSUME HostInv, UNCHANGED <<secrets, hosts, start>>, live' \in Live,
           live'.pc # "done" => ~live'.audit, LiveIsAccounted'
    PROVE  HostInv'
BY DEF HostInv, SeedInv, SeedIsWhole, Contested, HostsOf

\* A page of the vault's listing is part of what it holds, all of it if it fits.
LEMMA PageOfVault ==
    ASSUME secrets \in Seq(Secrets)
    PROVE  /\ Page \subseteq ToSet(secrets) /\ ToSet(secrets) \subseteq Secrets
           /\ Len(secrets) <= PageSize => Page = ToSet(secrets)
<1>1. Len(secrets) \in Nat /\ PageSize \in Nat /\ PageSize > 0
  BY HostConsts
<1>2. PICK n : n = IF Len(secrets) < PageSize THEN Len(secrets) ELSE PageSize
  OBVIOUS
<1>3. n \in 0..Len(secrets) /\ (Len(secrets) <= PageSize => n = Len(secrets))
  BY <1>1, <1>2
<1>4. Page = ToSet(SubSeq(secrets, 1, n))
  BY <1>2 DEF Page
<1>5. /\ Len(SubSeq(secrets, 1, n)) = n /\ SubSeq(secrets, 1, n) \in Seq(Secrets)
      /\ \A i \in 1..n : SubSeq(secrets, 1, n)[i] = secrets[i]
  BY <1>1, <1>3
<1>6. Page = {secrets[i] : i \in 1..n}
  BY <1>4, <1>5 DEF ToSet
<1> QED BY <1>3, <1>6 DEF ToSet

\* A request is answered, with no audit row.
LEMMA LiveAnswers ==
    ASSUME HostInv, UNCHANGED <<secrets, hosts, start>>, NEW code \in {"200", "500", "502"},
           Answered(code), live.pc \notin {"idle", "done"},
           code = "200" => live.op # "console",
           code # "200" /\ live.flags = {} => live.alias \notin Page
    PROVE  HostInv'
<1>1. live \in Live /\ ~live.audit
  BY DEF HostInv
<1>2. live' = [live EXCEPT !.pc = "done", !.answer = code]
  BY DEF Answered
<1>3. /\ live' \in Live /\ live'.pc = "done" /\ live'.answer = code /\ ~live'.audit
      /\ live'.op = live.op /\ live'.flags = live.flags /\ live'.alias = live.alias
  BY <1>1, <1>2 DEF Live
<1>4. LiveIsAccounted'
  BY <1>3 DEF LiveIsAccounted, Page
<1> QED BY <1>3, <1>4, LiveStep

\* A request goes on to pc.
LEMMA LiveGoes ==
    ASSUME HostInv, UNCHANGED <<secrets, hosts, start>>,
           NEW pc \in {"list", "read", "call", "audit"},
           live.pc # "done", live' = [live EXCEPT !.pc = pc]
    PROVE  HostInv'
<1>1. live \in Live /\ ~live.audit
  BY DEF HostInv
<1>2. live' \in Live /\ live'.pc = pc /\ ~live'.audit
  BY <1>1 DEF Live
<1> QED BY <1>2, LiveStep DEF LiveIsAccounted

LEMMA AskStep ==
    ASSUME HostInv, NEW l \in Labels, NEW pc \in {"host", "list", "done"},
           NEW op \in {"server resources", "console", "host resources", "catalog"},
           Asks(op, l, pc)
    PROVE  HostInv'
<1> DEFINE code == IF pc = "done" THEN "400" ELSE "none"
<1>1. NoLive \in Live /\ ~NoLive.audit
  BY DEF NoLive, Live
<1>2. hosts[l] \in Aliases \cup {"none"} /\ code \in {"none", "400"}
  BY DEF HostInv
<1>3. PICK u : u = [NoLive EXCEPT !.op = op, !.label = l]
  OBVIOUS
<1>4. PICK w : w = [u EXCEPT !.alias = hosts[l], !.pc = pc]
  OBVIOUS
<1>5. PICK x : x = [w EXCEPT !.answer = code]
  OBVIOUS
<1>6. u \in Live /\ ~u.audit
  BY <1>1, <1>3 DEF Live
<1>7. w \in Live /\ ~w.audit /\ w.pc = pc
  BY <1>2, <1>4, <1>6 DEF Live
<1>8. x \in Live /\ ~x.audit /\ x.pc = pc /\ x.answer \in {"none", "400"}
  BY <1>2, <1>5, <1>7 DEF Live
<1>9. live' = x /\ UNCHANGED <<secrets, hosts, start>>
  BY <1>3, <1>4, <1>5 DEF Asks
<1> QED BY <1>8, <1>9, LiveStep DEF LiveIsAccounted

LEMMA NoLiveStep ==
    ASSUME HostInv, UNCHANGED <<secrets, hosts, start>>, live' = NoLive
    PROVE  HostInv'
<1>1. NoLive \in Live /\ ~NoLive.audit /\ NoLive.pc = "idle"
  BY DEF NoLive, Live
<1> QED BY <1>1, LiveStep DEF LiveIsAccounted

\* Nobody's host or secret changes under a request without a note of it.
LEMMA NoteStep ==
    ASSUME HostInv, NEW what \in {"vault changed", "host gone"}, Notes(what)
    PROVE  /\ live' \in Live /\ (live'.pc # "done" => ~live'.audit)
           /\ LiveIsAccounted'
<1>1. live \in Live
  BY DEF HostInv
<1>2. CASE live.pc = "idle"
  BY <1>2 DEF Notes, HostInv, LiveIsAccounted
<1>3. CASE live.pc # "idle"
  <2>1. live' = [live EXCEPT !.flags = live.flags \cup {what}]
    BY <1>3 DEF Notes
  <2>2. live' \in Live /\ what \in live'.flags /\ live.flags \subseteq live'.flags
    BY <1>1, <2>1 DEF Live
  <2>3. /\ live'.pc = live.pc /\ live'.audit = live.audit /\ live'.answer = live.answer
        /\ live'.op = live.op
    BY <1>1, <2>1 DEF Live
  <2> QED BY <2>2, <2>3 DEF HostInv, LiveIsAccounted
<1> QED BY <1>2, <1>3

\* The agent is up: hosts may change.
LEMMA UpStep ==
    ASSUME HostInv, UNCHANGED start, secrets' \in Seq(Secrets),
           hosts' = hosts \/ (Up /\ hosts' \in [Labels -> Aliases \cup {"none"}]),
           live' \in Live, live'.pc # "done" => ~live'.audit, LiveIsAccounted'
    PROVE  HostInv'
<1>1. SeedInv'
  BY DEF HostInv, SeedInv, Up
<1>2. SeedIsWhole'
  BY DEF HostInv, SeedIsWhole, Contested, HostsOf
<1>3. hosts' \in [Labels -> Aliases \cup {"none"}]
  BY DEF HostInv
<1> QED BY <1>1, <1>2, <1>3 DEF HostInv

LEMMA OperatorStep ==
    ASSUME HostInv,
           \/ \E l \in Labels : DeleteHost(l) \/ \E a \in Aliases : CreateHost(l, a)
           \/ \E a \in Secrets : StoreSecret(a) \/ DeleteSecret(a)
    PROVE  HostInv'
<1>0. /\ secrets \in Seq(Secrets) /\ hosts \in [Labels -> Aliases \cup {"none"}]
      /\ live \in Live /\ (live.pc # "done" => ~live.audit) /\ LiveIsAccounted
  BY DEF HostInv
<1>1. ASSUME NEW l \in Labels, NEW a \in Aliases, CreateHost(l, a) PROVE HostInv'
  <2>1. /\ Up /\ hosts' \in [Labels -> Aliases \cup {"none"}]
        /\ UNCHANGED <<secrets, start, live>>
    BY <1>0, <1>1 DEF CreateHost
  <2>2. LiveIsAccounted'
    BY <1>0, <2>1 DEF LiveIsAccounted, Page
  <2> QED BY <1>0, <2>1, <2>2, UpStep
<1>2. ASSUME NEW l \in Labels, DeleteHost(l) PROVE HostInv'
  <2>1. /\ Up /\ hosts' \in [Labels -> Aliases \cup {"none"}]
        /\ UNCHANGED <<secrets, start>> /\ (Notes("host gone") \/ UNCHANGED live)
    BY <1>0, <1>2 DEF DeleteHost
  <2>2. CASE Notes("host gone")
    <3>1. live' \in Live /\ (live'.pc # "done" => ~live'.audit) /\ LiveIsAccounted'
      BY <2>2, NoteStep
    <3> QED BY <1>0, <2>1, <3>1, UpStep
  <2>3. CASE UNCHANGED live
    <3>1. LiveIsAccounted'
      BY <1>0, <2>1, <2>3 DEF LiveIsAccounted, Page
    <3> QED BY <1>0, <2>1, <2>3, <3>1, UpStep
  <2> QED BY <2>1, <2>2, <2>3
<1>3. ASSUME NEW a \in Secrets, StoreSecret(a) PROVE HostInv'
  <2>0. <<a>> \in Seq(Secrets)
    OBVIOUS
  <2>1. secrets' \in Seq(Secrets)
    <3>1. secrets' = <<a>> \o secrets
      BY <1>3 DEF StoreSecret
    <3> QED BY <1>0, <2>0, <3>1
  <2>2. UNCHANGED <<hosts, start>> /\ Notes("vault changed")
    BY <1>3 DEF StoreSecret
  <2>3. live' \in Live /\ (live'.pc # "done" => ~live'.audit) /\ LiveIsAccounted'
    BY <2>2, NoteStep
  <2> QED BY <2>1, <2>2, <2>3, UpStep
<1>4. ASSUME NEW a \in Secrets, DeleteSecret(a) PROVE HostInv'
  <2>1. PICK i \in DOMAIN secrets : secrets' = RemoveAt(secrets, i)
    BY <1>4 DEF DeleteSecret
  <2>2. i \in 1..Len(secrets) /\ Len(secrets) \in Nat
    BY <1>0
  <2>3. SubSeq(secrets, 1, i - 1) \in Seq(Secrets) /\ SubSeq(secrets, i + 1, Len(secrets)) \in Seq(Secrets)
    BY <1>0, <2>2
  <2>4. secrets' \in Seq(Secrets)
    BY <2>1, <2>3 DEF RemoveAt
  <2>5. UNCHANGED <<hosts, start>> /\ Notes("vault changed")
    BY <1>4 DEF DeleteSecret
  <2>6. live' \in Live /\ (live'.pc # "done" => ~live'.audit) /\ LiveIsAccounted'
    BY <2>5, NoteStep
  <2> QED BY <2>4, <2>5, <2>6, UpStep
<1> QED BY <1>1, <1>2, <1>3, <1>4

LEMMA RequestStep ==
    ASSUME HostInv,
           \/ \E l \in Labels :
                get_server_resources(l) \/ get_console(l) \/ get_host_resources(l) \/ ask_catalog(l)
           \/ LoadsHost \/ ListsSecrets \/ ReadsSecret
           \/ GivesNodeStatus \/ GivesUsage \/ GivesSpecs \/ GivesCatalog \/ GivesConsole
           \/ Audits \/ LiveFails \/ LiveEnds
    PROVE  HostInv'
<1>0. secrets \in Seq(Secrets) /\ live \in Live /\ Page \subseteq ToSet(secrets)
  BY PageOfVault DEF HostInv
<1>1. ASSUME NEW l \in Labels,
             get_server_resources(l) \/ get_console(l) \/ get_host_resources(l) \/ ask_catalog(l)
      PROVE  HostInv'
  BY <1>1, AskStep DEF get_server_resources, get_console, get_host_resources, ask_catalog
<1>2. CASE LoadsHost
  BY <1>2, LiveAnswers, LiveGoes DEF LoadsHost
<1>3. CASE ListsSecrets
  BY <1>3, LiveAnswers, LiveGoes DEF ListsSecrets, Refused
<1>4. CASE ReadsSecret
  BY <1>0, <1>4, LiveAnswers, LiveGoes DEF ReadsSecret, Refused
<1>5. CASE GivesNodeStatus \/ GivesUsage \/ GivesSpecs \/ GivesCatalog
  BY <1>5, LiveAnswers DEF GivesNodeStatus, GivesUsage, GivesSpecs, GivesCatalog, Gives
<1>6. CASE GivesConsole
  BY <1>6, LiveGoes DEF GivesConsole
<1>7. CASE Audits
  <2>1. live' = [live EXCEPT !.pc = "done", !.answer = "200", !.audit = TRUE]
    BY <1>7 DEF Audits
  <2>2. PICK u : u = [live EXCEPT !.pc = "done", !.answer = "200"]
    OBVIOUS
  <2>3. u \in Live /\ u.pc = "done" /\ u.answer = "200"
    BY <1>0, <2>2 DEF Live
  <2>4. live' = [u EXCEPT !.audit = TRUE]
    BY <2>1, <2>2
  <2>5. live' \in Live /\ live'.pc = "done" /\ live'.answer = "200" /\ live'.audit
    BY <2>3, <2>4 DEF Live
  <2>6. LiveIsAccounted'
    BY <2>5 DEF LiveIsAccounted
  <2> QED BY <1>7, <2>5, <2>6, LiveStep DEF Audits
<1>8. CASE LiveFails
  <2>1. PICK stored \in BOOLEAN :
          live' = [live EXCEPT !.pc = "done", !.answer = Refused, !.audit = stored,
                               !.flags = live.flags \cup {"failed"}]
    BY <1>8 DEF LiveFails
  <2>2. PICK u : u = [live EXCEPT !.pc = "done", !.answer = Refused]
    OBVIOUS
  <2>3. Refused \in {"500", "502"}
    BY DEF Refused
  <2>4. u \in Live /\ u.pc = "done" /\ u.answer = Refused /\ u.flags = live.flags
    BY <1>0, <2>2, <2>3 DEF Live
  <2>5. live' = [u EXCEPT !.audit = stored, !.flags = live.flags \cup {"failed"}]
    BY <2>1, <2>2
  <2>6. /\ live' \in Live /\ live'.pc = "done" /\ live'.answer = Refused /\ "failed" \in live'.flags
    BY <1>0, <2>4, <2>5 DEF Live
  <2>7. LiveIsAccounted'
    BY <2>3, <2>6 DEF LiveIsAccounted
  <2> QED BY <1>8, <2>6, <2>7, LiveStep DEF LiveFails
<1>9. CASE LiveEnds
  BY <1>9, NoLiveStep DEF LiveEnds
<1> QED BY <1>1, <1>2, <1>3, <1>4, <1>5, <1>6, <1>7, <1>8, <1>9

\* The agent starts: it reads the vault, and makes the hosts that are missing.
LEMMA RestartStep ==
    ASSUME HostInv, Restart
    PROVE  HostInv'
<1>1. /\ secrets \in Seq(Secrets) /\ hosts \in [Labels -> Aliases \cup {"none"}]
      /\ UNCHANGED <<secrets, hosts>> /\ live' = NoLive /\ start' = Starting
  BY DEF HostInv, Restart
<1>2. /\ Starting \in Start /\ Starting.pc = "down" /\ Starting.listed = {} /\ Starting.asked = {}
      /\ Starting.before = hosts /\ Starting.after = hosts
  BY <1>1 DEF Starting, Start
<1>3. NoLive \in Live /\ ~NoLive.audit /\ NoLive.pc = "idle"
  BY DEF NoLive, Live
<1> QED BY <1>1, <1>2, <1>3 DEF HostInv, SeedInv, SeedIsWhole, LiveIsAccounted

LEMMA SeedListsStep ==
    ASSUME HostInv, SeedLists
    PROVE  HostInv'
<1>1. /\ secrets \in Seq(Secrets) /\ start \in Start /\ live \in Live
      /\ UNCHANGED <<secrets, hosts, live>> /\ start.pc = "down"
      /\ hosts \in [Labels -> Aliases \cup {"none"}]
  BY DEF HostInv, SeedLists
<1>2. LiveIsAccounted' /\ (live'.pc # "done" => ~live'.audit)
  BY <1>1 DEF HostInv, LiveIsAccounted, Page
<1>3. CASE start' = [start EXCEPT !.pc = "listed", !.listed = Page, !.asked = ToSet(secrets) \cap Aliases,
                                  !.full = Len(secrets) > PageSize]
  <2>1. /\ Page \subseteq ToSet(secrets) /\ ToSet(secrets) \subseteq Secrets
        /\ Len(secrets) <= PageSize => Page = ToSet(secrets)
        /\ Len(secrets) \in Nat /\ PageSize \in Nat
    BY <1>1, PageOfVault, HostConsts
  <2>2. PICK u : u = [start EXCEPT !.pc = "listed", !.listed = Page]
    OBVIOUS
  <2>3. u \in Start /\ u.pc = "listed" /\ u.listed = Page /\ u.before = start.before /\ u.after = start.after
    BY <1>1, <2>1, <2>2 DEF Start
  <2>4. start' = [u EXCEPT !.asked = ToSet(secrets) \cap Aliases, !.full = Len(secrets) > PageSize]
    BY <1>3, <2>2
  <2>5. /\ start' \in Start /\ start'.pc = "listed" /\ start'.listed = Page
        /\ start'.asked = ToSet(secrets) \cap Aliases
        /\ ~start'.full => Len(secrets) <= PageSize
        /\ start'.before = start.before /\ start'.after = start.after
    <3> DEFINE seen == ToSet(secrets) \cap Aliases
               full == Len(secrets) > PageSize
    <3>1. seen \subseteq Aliases /\ full \in BOOLEAN /\ (~full => Len(secrets) <= PageSize)
      BY <2>1
    <3>2. start' = [u EXCEPT !.asked = seen, !.full = full]
      BY <2>4
    <3> HIDE DEF seen, full
    <3>3. /\ start' \in Start /\ start'.pc = "listed" /\ start'.listed = Page
          /\ start'.asked = seen /\ start'.full = full
          /\ start'.before = start.before /\ start'.after = start.after
      BY <2>3, <3>1, <3>2 DEF Start
    <3> QED BY <3>1, <3>3 DEF seen
  <2>6. SeedInv'
    BY <1>1, <2>1, <2>5 DEF HostInv, SeedInv
  <2> QED BY <1>1, <1>2, <2>5, <2>6 DEF HostInv, SeedIsWhole
<1>4. CASE start' = [start EXCEPT !.pc = "up", !.failed = TRUE]
  <2>1. /\ start' \in Start /\ start'.pc = "up" /\ start'.failed
        /\ start'.before = start.before /\ start'.after = start.after
    BY <1>1, <1>4 DEF Start
  <2>2. start.before = start.after
    BY <1>1 DEF HostInv, SeedInv
  <2> QED BY <1>1, <1>2, <2>1, <2>2 DEF HostInv, SeedInv, SeedIsWhole
<1> QED BY <1>3, <1>4 DEF SeedLists

\* What the seed makes of the hosts: a host for every credential that is wanted, if no
\* label is taken, and nothing else.
LEMMA SeededHosts ==
    ASSUME hosts \in [Labels -> Aliases \cup {"none"}], NEW l \in Labels
    PROVE  /\ Seeded(l) \in Aliases \cup {"none"}
           /\ Seeded(l) # hosts[l] => hosts[l] = "none" /\ Seeded(l) \in Wanted
           /\ ~LabelTaken => \A a \in Wanted : LabelOf(a) = l => Seeded(l) = a
<1>1. Wanted \subseteq Aliases
  BY DEF Wanted
<1>2. CASE ~LabelTaken /\ \E a \in Wanted : LabelOf(a) = l
  <2>1. PICK a \in Wanted : LabelOf(a) = l
    BY <1>2
  <2>2. \A b \in Wanted : LabelOf(b) = l => b = a
    BY <1>2, <2>1 DEF LabelTaken
  <2>3. Seeded(l) = CHOOSE b \in Wanted : LabelOf(b) = l
    BY <1>2 DEF Seeded
  <2>4. Seeded(l) \in Wanted /\ LabelOf(Seeded(l)) = l
    BY <2>1, <2>3
  <2>5. Seeded(l) = a
    BY <2>2, <2>4
  <2>6. hosts[l] = "none"
    BY <1>2, <2>1 DEF LabelTaken
  <2> QED BY <1>1, <2>1, <2>2, <2>5, <2>6
<1>3. CASE ~(~LabelTaken /\ \E a \in Wanted : LabelOf(a) = l)
  <2>1. Seeded(l) = hosts[l]
    BY <1>3 DEF Seeded
  <2> QED BY <1>3, <2>1
<1> QED BY <1>2, <1>3

LEMMA SeedCommitsStep ==
    ASSUME HostInv, SeedCommits
    PROVE  HostInv'
<1>1. /\ secrets \in Seq(Secrets) /\ start \in Start /\ live \in Live
      /\ UNCHANGED <<secrets, live>> /\ start.pc = "listed"
      /\ hosts \in [Labels -> Aliases \cup {"none"}]
  BY DEF HostInv, SeedCommits
<1>2. LiveIsAccounted' /\ (live'.pc # "done" => ~live'.audit)
  BY <1>1 DEF HostInv, LiveIsAccounted, Page
<1>3. /\ start.before = hosts /\ start.after = hosts /\ start.listed \cap Aliases \subseteq start.asked
      /\ start.full \/ start.failed \/ start.asked \subseteq start.listed
  BY <1>1 DEF HostInv, SeedInv
<1>4. CASE /\ hosts' = [l \in Labels |-> Seeded(l)]
           /\ start' = [start EXCEPT !.pc = "up", !.after = hosts']
  <2>1. \A l \in Labels : hosts'[l] = Seeded(l)
    BY <1>4
  <2>2. hosts' \in [Labels -> Aliases \cup {"none"}]
    BY <1>1, <1>4, SeededHosts
  <2>3. /\ start' \in Start /\ start'.pc = "up" /\ start'.after = hosts' /\ start'.before = hosts
        /\ start'.asked = start.asked /\ start'.full = start.full /\ start'.failed = start.failed
    BY <1>1, <1>3, <1>4, <2>2 DEF Start
  <2>4. start.asked \subseteq Aliases
    BY <1>1 DEF Start
  <2>5. Wanted \subseteq start.asked \ HostsOf(hosts)
    BY <1>3 DEF Wanted, HasHost, HostsOf
  <2>6. ASSUME ~start.full, ~start.failed, ~Contested'
        PROVE  start.asked \subseteq HostsOf(hosts')
    <3>1. start.asked \subseteq start.listed
      BY <1>3, <2>6
    <3>2. ~LabelTaken
      BY <2>3, <2>5, <2>6 DEF LabelTaken, Contested
    <3>3. SUFFICES ASSUME NEW a \in start.asked PROVE \E l \in Labels : hosts'[l] = a
      BY DEF HostsOf
    <3>4. LabelOf(a) \in Labels
      BY DEF LabelOf, Labels
    <3>5. CASE a \in Wanted
      BY <1>1, <2>1, <3>2, <3>4, <3>5, SeededHosts
    <3>6. CASE a \notin Wanted
      <4>1. PICK l \in Labels : hosts[l] = a
        BY <2>4, <3>1, <3>6 DEF Wanted, HasHost
      <4>2. hosts[l] # "none"
        BY <2>4, <4>1, HostConsts
      <4>3. hosts'[l] = a
        BY <1>1, <2>1, <4>1, <4>2, SeededHosts
      <4> QED BY <4>3
    <3> QED BY <3>5, <3>6
  <2>7. \A l \in Labels : hosts'[l] # hosts[l] =>
          hosts[l] = "none" /\ hosts'[l] \in start.asked \ HostsOf(hosts)
    BY <1>1, <2>1, <2>5, SeededHosts
  <2>8. SeedIsWhole'
    BY <2>3, <2>6, <2>7 DEF SeedIsWhole
  <2> QED BY <1>1, <1>2, <2>2, <2>3, <2>8 DEF HostInv, SeedInv
<1>5. CASE start' = [start EXCEPT !.pc = "up", !.failed = TRUE] /\ UNCHANGED hosts
  <2>1. /\ start' \in Start /\ start'.pc = "up" /\ start'.failed
        /\ start'.before = start.before /\ start'.after = start.after
    BY <1>1, <1>5 DEF Start
  <2> QED BY <1>1, <1>2, <1>3, <1>5, <2>1 DEF HostInv, SeedInv, SeedIsWhole
<1> QED BY <1>4, <1>5 DEF SeedCommits

LEMMA HostStep ==
    ASSUME HostInv, HostNext
    PROVE  HostInv'
<1>1. CASE Restart \/ SeedLists \/ SeedCommits
  BY <1>1, RestartStep, SeedListsStep, SeedCommitsStep
<1>2. CASE \/ \E l \in Labels : DeleteHost(l) \/ \E a \in Aliases : CreateHost(l, a)
           \/ \E a \in Secrets : StoreSecret(a) \/ DeleteSecret(a)
  BY <1>2, OperatorStep
<1>3. CASE \/ \E l \in Labels :
                get_server_resources(l) \/ get_console(l) \/ get_host_resources(l) \/ ask_catalog(l)
           \/ LoadsHost \/ ListsSecrets \/ ReadsSecret
           \/ GivesNodeStatus \/ GivesUsage \/ GivesSpecs \/ GivesCatalog \/ GivesConsole
           \/ Audits \/ LiveFails \/ LiveEnds
  BY <1>3, RequestStep
<1> QED BY <1>1, <1>2, <1>3 DEF HostNext

(* Machines *)

LEMMA SharedIsShared ==
    ASSUME IsFiniteSet(makers), NEW n, SharedName(n)
    PROVE  Shared(n)
<1> DEFINE S == {m \in makers : m[1] = n}
<1>1. PICK a, b \in S : a # b
  BY DEF SharedName
<1>2. IsFiniteSet(S)
  BY FS_Subset
<1>3. Cardinality(S \ {a}) = Cardinality(S) - 1 /\ IsFiniteSet(S \ {a})
  BY <1>1, <1>2, FS_RemoveElement
<1>4. b \in S \ {a}
  BY <1>1
<1> HIDE DEF S
<1>5. Cardinality(S \ {a}) \in Nat /\ Cardinality(S) \in Nat
  BY <1>2, <1>3, FS_CardinalityType
<1>6. Cardinality(S \ {a}) # 0
  BY <1>3, <1>4, FS_EmptySet
<1>7. Cardinality(S) > 1
  BY <1>3, <1>5, <1>6
<1> QED BY <1>7 DEF Shared, S

LEMMA VmTypes ==
    ASSUME VmInv
    PROVE  /\ vms \in [Vms -> Vm] /\ order \in [Orders -> Order]
           /\ vmRows \in [Vms -> Orders \cup {"none", "sync"}]
           /\ \A v \in Vms : vms[v].by \in Orders =>
                vms[v] # NoVm /\ order[vms[v].by].name = vms[v].name /\ vms[v].name # "none"
<1>1. NoVm.by = "none" /\ "none" \notin Orders
  BY HostConsts DEF NoVm
<1>2. ASSUME NEW v \in Vms, vms[v].by \in Orders
      PROVE  vms[v] # NoVm /\ order[vms[v].by].name = vms[v].name /\ vms[v].name # "none"
  <2>1. MachineOK(v)
    BY DEF VmInv
  <2>2. vms[v] # NoVm
    BY <1>1, <1>2
  <2>3. vms[v].name = order[vms[v].by].name /\ vms[v].name # "none"
    BY <1>2, <2>1 DEF MachineOK
  <2> QED BY <2>2, <2>3
<1> QED BY <1>2 DEF VmInv

LEMMA ServersInv ==
    ASSUME VmInv
    PROVE  ServersAreOwn
<1>1. \A n : ~Shared(n) => ~SharedName(n)
  BY SharedIsShared DEF VmInv
<1>2. \A v \in Vms : vmRows[v] \in Orders /\ vms[v] # NoVm =>
        vms[v].by = vmRows[v] \/ v \in reused \/ Shared(order[vmRows[v]].name)
  BY <1>1 DEF VmInv, MachineOK
<1>3. ASSUME NEW j \in Orders, order[j].name = "none"
      PROVE  order[j].pc # "succeeded" /\ \A v \in Vms : vms[v].by # j
  <2>1. OrderOK(j)
    BY DEF VmInv
  <2>2. order[j].pc # "succeeded"
    BY <1>3, <2>1 DEF OrderOK
  <2>3. \A v \in Vms : vms[v].by = j => order[j].name # "none"
    BY VmTypes
  <2> QED BY <1>3, <2>2, <2>3
<1>4. \A j \in Orders : order[j].pc = "succeeded" /\ ~order[j].failed /\ ~Shared(order[j].name) =>
        \A v \in Vms : vms[v].by = j => vmRows[v] = j
  BY <1>1 DEF VmInv, OrderOK
<1> QED BY <1>2, <1>3, <1>4 DEF ServersAreOwn

\* A job goes on without a change of the machines or their rows.
LEMMA OrderStep ==
    ASSUME VmInv, NEW j \in Orders, NEW w \in Order, order' = [order EXCEPT ![j] = w],
           UNCHANGED <<vms, vmRows, makers, reused>>, order[j].pc # "succeeded",
           w.name = order[j].name \/ order[j].pc = "absent", OrderOK(j)'
    PROVE  VmInv'
<1>1. order' \in [Orders -> Order] /\ \A i \in Orders : order'[i] = IF i = j THEN w ELSE order[i]
  BY VmTypes
<1>2. ASSUME NEW i \in Orders PROVE OrderOK(i)'
  <2>1. CASE i = j
    BY <2>1
  <2>2. CASE i # j
    <3>1. order'[i] = order[i]
      BY <1>1, <2>2
    <3> QED BY <3>1 DEF VmInv, OrderOK, SharedName
  <2> QED BY <2>1, <2>2
<1>3. ASSUME NEW v \in Vms PROVE MachineOK(v)'
  <2>1. MachineOK(v) /\ (order[j].pc = "absent" => vms[v].by # j)
    <3>1. MachineOK(v) /\ OrderOK(j)
      BY DEF VmInv
    <3>2. order[j].pc = "absent" => order[j].name = "none"
      BY <3>1 DEF OrderOK
    <3>3. vms[v].by = j => order[j].name # "none"
      BY VmTypes
    <3> QED BY <3>1, <3>2, <3>3
  <2>2. vmRows[v] # j
    BY <2>1 DEF MachineOK
  <2>3. vms[v].by = j => order'[j].name = order[j].name
    BY <1>1, <2>1
  <2> QED BY <1>1, <2>1, <2>2, <2>3 DEF MachineOK, SharedName
<1> QED BY <1>1, <1>2, <1>3 DEF VmInv

\* A machine is made, by a job or by hand.
LEMMA MadeStep ==
    ASSUME VmInv, NEW v \in Vms, NEW n \in HostNames, NEW by \in Orders \cup {"hand"},
           VmMade(v, n, by), UNCHANGED vmRows, order' \in [Orders -> Order],
           \A i \in Orders : i # by => order'[i] = order[i],
           by \in Orders => /\ order[by].pc # "succeeded" /\ order[by].name = n
                            /\ order'[by].name = n /\ OrderOK(by)'
    PROVE  VmInv'
<1>0. n # "none" /\ "none" \notin Orders /\ "hand" \notin Orders
  BY HostConsts
<1>1. PICK m : m = [name |-> n, by |-> by]
  OBVIOUS
<1>2. m \in Vm /\ m.name = n /\ m.by = by
  BY <1>1 DEF Vm
<1>3. /\ vms' \in [Vms -> Vm] /\ \A u \in Vms : vms'[u] = IF u = v THEN m ELSE vms[u]
      /\ vms[v] = NoVm
  BY <1>1, <1>2, VmTypes DEF VmMade
<1>4. /\ makers' = makers \cup {<<n, by>>} /\ reused \subseteq reused'
      /\ vmRows[v] # "none" \/ (\E i \in AtWork : order[i].found = v) => v \in reused'
  BY DEF VmMade
<1>5. IsFiniteSet(makers')
  BY <1>4, FS_AddElement DEF VmInv
<1>6. \A x : SharedName(x) => SharedName(x)'
  BY <1>4 DEF SharedName
<1>7. ASSUME NEW i \in Orders PROVE OrderOK(i)'
  <2>1. CASE i = by
    BY <2>1
  <2>2. CASE i # by
    <3>1. order'[i] = order[i] /\ OrderOK(i) /\ order[i] \in Order
      BY <2>2, VmTypes DEF VmInv
    <3>2. \A u \in Vms : vms'[u].by = i => u # v /\ vms[u].by = i
      BY <1>2, <1>3, <2>2
    <3>3. order[i].pc = "store" => i \in AtWork
      BY DEF AtWork
    <3>4. ASSUME order[i].pc = "store", vms'[order[i].found] # NoVm
          PROVE  \/ vms'[order[i].found].by = i \/ order[i].found \in reused'
                 \/ SharedName(order[i].name)'
      <4>1. CASE order[i].found = v
        BY <1>4, <3>3, <3>4, <4>1
      <4>2. CASE order[i].found # v
        BY <1>3, <1>4, <1>6, <3>1, <3>4, <4>2 DEF OrderOK
      <4> QED BY <4>1, <4>2
    <3>5. ~SharedName(order[i].name)' => ~SharedName(order[i].name)
      BY <1>6
    <3>6. /\ order[i].pc = "absent" => order[i].name = "none"
          /\ order[i].pc \in {"find", "store", "succeeded"} =>
               order[i].name # "none" /\ <<order[i].name, i>> \in makers'
          /\ order[i].pc = "store" => order[i].found \in Vms
      BY <1>4, <3>1 DEF OrderOK
    <3>7. /\ order[i].pc \in {"pending", "post"} /\ ~order[i].failed => \A u \in Vms : vms'[u].by # i
          /\ order[i].pc \in {"find", "store"} /\ ~order[i].failed =>
               \A u, x \in Vms : vms'[u].by = i /\ vms'[x].by = i => u = x
          /\ order[i].pc = "store" /\ ~order[i].failed /\ ~SharedName(order[i].name)' =>
               \A u \in Vms : vms'[u].by = i => u = order[i].found
          /\ order[i].pc = "succeeded" /\ ~order[i].failed /\ ~SharedName(order[i].name)' =>
               \A u \in Vms : vms'[u].by = i => vmRows[u] = i
      BY <3>1, <3>2, <3>5 DEF OrderOK
    <3> QED BY <3>1, <3>4, <3>6, <3>7 DEF OrderOK
  <2> QED BY <2>1, <2>2
<1>8. ASSUME NEW u \in Vms PROVE MachineOK(u)'
  <2>1. MachineOK(u) /\ vmRows[u] \in Orders \cup {"none", "sync"}
    BY VmTypes DEF VmInv
  <2>2. \A i \in Orders : order'[i].name = order[i].name /\ (order[i].pc = "succeeded" => order'[i] = order[i])
    OBVIOUS
  <2>3. CASE u = v
    <3>1. vms'[u] # NoVm => vms'[u].name # "none" /\ <<vms'[u].name, vms'[u].by>> \in makers'
      BY <1>0, <1>2, <1>3, <1>4, <2>3
    <3>2. vms'[u].by \in Orders => vms'[u].name = order'[vms'[u].by].name /\ vms'[u].name # "none"
      BY <1>0, <1>2, <1>3, <2>3
    <3>3. vmRows[u] \in Orders => order'[vmRows[u]].pc = "succeeded" /\ u \in reused'
      BY <1>0, <1>4, <2>1, <2>2, <2>3 DEF MachineOK
    <3> QED BY <3>1, <3>2, <3>3 DEF MachineOK
  <2>4. CASE u # v
    <3>1. vms'[u] = vms[u]
      BY <1>3, <2>4
    <3>2. vms[u] # NoVm => vms[u].name # "none" /\ <<vms[u].name, vms[u].by>> \in makers'
      BY <1>4, <2>1 DEF MachineOK
    <3>3. vms[u].by \in Orders => vms[u].name = order'[vms[u].by].name /\ vms[u].name # "none"
      BY <2>1, <2>2 DEF MachineOK
    <3>4. ASSUME vmRows[u] \in Orders
          PROVE  /\ order'[vmRows[u]].pc = "succeeded" /\ order'[vmRows[u]] = order[vmRows[u]]
                 /\ vms[u] # NoVm =>
                      \/ vms[u].by = vmRows[u] \/ u \in reused'
                      \/ SharedName(order[vmRows[u]].name)'
      BY <1>4, <1>6, <2>1, <2>2, <3>4 DEF MachineOK
    <3> QED BY <3>1, <3>2, <3>3, <3>4 DEF MachineOK
  <2> QED BY <2>3, <2>4
<1> QED BY <1>3, <1>5, <1>7, <1>8, VmTypes DEF VmInv

\* A machine is removed, perhaps with its row.
LEMMA RemovedStep ==
    ASSUME VmInv, NEW v \in Vms, vms' = [vms EXCEPT ![v] = NoVm],
           UNCHANGED vmRows \/ vmRows' = [vmRows EXCEPT ![v] = "none"],
           UNCHANGED <<order, makers, reused>>
    PROVE  VmInv'
<1>0. NoVm \in Vm /\ NoVm.by = "none" /\ "none" \notin Orders
  BY HostConsts DEF NoVm, Vm
<1>1. vms' \in [Vms -> Vm] /\ \A u \in Vms : vms'[u] = IF u = v THEN NoVm ELSE vms[u]
  BY <1>0, VmTypes
<1>2. /\ vmRows' \in [Vms -> Orders \cup {"none", "sync"}]
      /\ \A u \in Vms : (u # v => vmRows'[u] = vmRows[u]) /\ vmRows'[u] \in {vmRows[u], "none"}
  BY VmTypes
<1>3. ASSUME NEW i \in Orders PROVE OrderOK(i)'
  <2>1. \A u \in Vms : vms'[u].by = i => u # v /\ vms[u].by = i
    BY <1>0, <1>1
  <2>2. OrderOK(i)
    BY DEF VmInv
  <2>3. order[i].found \in Vms /\ vms'[order[i].found] # NoVm =>
          vms[order[i].found] # NoVm /\ vms'[order[i].found] = vms[order[i].found]
    BY <1>1
  <2> QED BY <1>2, <2>1, <2>2, <2>3 DEF OrderOK, SharedName
<1>4. ASSUME NEW u \in Vms PROVE MachineOK(u)'
  <2>1. MachineOK(u)
    BY DEF VmInv
  <2>2. vmRows'[u] \in Orders => vmRows'[u] = vmRows[u]
    BY <1>0, <1>2
  <2>3. CASE u = v
    BY <1>0, <1>1, <2>1, <2>2, <2>3 DEF MachineOK
  <2>4. CASE u # v
    BY <1>1, <2>1, <2>2, <2>4 DEF MachineOK, SharedName
  <2> QED BY <2>3, <2>4
<1> QED BY <1>1, <1>2, <1>3, <1>4 DEF VmInv

\* The steps of a job that make no machine.
LEMMA OrderSteps ==
    ASSUME VmInv, NEW j \in Orders,
           \/ \E n \in HostNames : OrderVm(j, n)
           \/ OrderUnsupported(j) \/ TakesOrder(j) \/ RefusesOrder(j) \/ FindsVm(j)
    PROVE  VmInv'
<1>0. /\ order[j] \in Order /\ OrderOK(j) /\ MaxTries \in Nat \ {0} /\ "none" \notin HostNames
      /\ order \in [Orders -> Order]
  BY VmTypes, HostConsts DEF VmInv
<1>1. ASSUME NEW w \in Order, order' = [order EXCEPT ![j] = w], UNCHANGED <<vms, vmRows, makers, reused>>,
             order[j].pc # "succeeded", w.name = order[j].name \/ order[j].pc = "absent",
             w.pc \in {"pending", "post", "failed"}, w.failed = order[j].failed \/ order[j].pc = "absent",
             w.pc # "failed" => \A v \in Vms : order[j].failed \/ vms[v].by # j
      PROVE  VmInv'
  <2>1. order'[j] = w
    BY <1>0, <1>1
  <2>2. order[j].pc = "absent" => \A v \in Vms : vms[v].by # j
    BY <1>0, VmTypes DEF OrderOK
  <2>3. OrderOK(j)'
    BY <1>1, <2>1, <2>2 DEF OrderOK
  <2> QED BY <1>1, <2>3, OrderStep
<1>2. ASSUME NEW n \in HostNames, OrderVm(j, n) PROVE VmInv'
  <2>1. PICK w : w = [NoOrder EXCEPT !.pc = "pending", !.name = n]
    OBVIOUS
  <2>2. w \in Order /\ w.pc = "pending"
    BY <2>1 DEF NoOrder, Order
  <2>3. /\ order' = [order EXCEPT ![j] = w] /\ order[j].pc = "absent"
        /\ UNCHANGED <<vms, vmRows, makers, reused>>
    BY <1>2, <2>1 DEF OrderVm
  <2>4. \A v \in Vms : vms[v].by # j
    BY <1>0, <2>3, VmTypes DEF OrderOK
  <2> QED BY <1>1, <2>2, <2>3, <2>4
<1>3. CASE OrderUnsupported(j)
  <2>1. PICK w : w = [NoOrder EXCEPT !.pc = "pending"]
    OBVIOUS
  <2>2. w \in Order /\ w.pc = "pending"
    BY <2>1 DEF NoOrder, Order
  <2>3. /\ order' = [order EXCEPT ![j] = w] /\ order[j].pc = "absent"
        /\ UNCHANGED <<vms, vmRows, makers, reused>>
    BY <1>3, <2>1 DEF OrderUnsupported
  <2>4. \A v \in Vms : vms[v].by # j
    BY <1>0, <2>3, VmTypes DEF OrderOK
  <2> QED BY <1>1, <2>2, <2>3, <2>4
<1>4. CASE TakesOrder(j)
  <2>1. PICK w : w = [order[j] EXCEPT !.pc = "post", !.tries = order[j].tries + 1]
    OBVIOUS
  <2>2. w \in Order /\ w.pc = "post" /\ w.name = order[j].name /\ w.failed = order[j].failed
    <3>1. order[j].tries + 1 \in Nat
      BY <1>0 DEF Order
    <3> QED BY <1>0, <2>1, <3>1 DEF Order
  <2>3. /\ order' = [order EXCEPT ![j] = w] /\ order[j].pc = "pending"
        /\ UNCHANGED <<vms, vmRows, makers, reused>>
    BY <1>0, <1>4, <2>1 DEF TakesOrder
  <2>4. \A v \in Vms : order[j].failed \/ vms[v].by # j
    BY <1>0, <2>3 DEF OrderOK
  <2> QED BY <1>1, <2>2, <2>3, <2>4
<1>5. PICK r : r = Retried(order[j])
  OBVIOUS
<1>6. r \in Order /\ r.pc \in {"pending", "failed"} /\ r.name = order[j].name /\ r.failed = order[j].failed
  <2>1. PICK pc \in {"pending", "failed"} : r = [order[j] EXCEPT !.found = 0, !.pc = pc]
    BY <1>0, <1>5 DEF Retried
  <2> QED BY <1>0, <2>1 DEF Order
<1>7. CASE RefusesOrder(j)
  <2>1. /\ order' = [order EXCEPT ![j] = r] /\ order[j].pc = "post"
        /\ UNCHANGED <<vms, vmRows, makers, reused>>
    BY <1>0, <1>5, <1>7 DEF RefusesOrder
  <2>2. \A v \in Vms : order[j].failed \/ vms[v].by # j
    BY <1>0, <2>1 DEF OrderOK
  <2> QED BY <1>1, <1>6, <2>1, <2>2
<1>8. CASE FindsVm(j)
  <2>1. /\ order[j].pc = "find" /\ UNCHANGED <<vms, vmRows, makers, reused>>
        /\ order[j].name # "none" /\ <<order[j].name, j>> \in makers
    BY <1>0, <1>8 DEF FindsVm, OrderOK
  <2>2. CASE Named(order[j].name) = {} /\ order' = [order EXCEPT ![j] = Retried(@)]
    <3>1. order' = [order EXCEPT ![j] = r]
      BY <1>0, <1>5, <2>2
    <3>2. \A v \in Vms : vms[v].by # j
      BY <2>2, VmTypes DEF Named
    <3> QED BY <1>1, <1>6, <2>1, <3>1, <3>2
  <2>3. ASSUME NEW v \in Named(order[j].name),
               order' = [order EXCEPT ![j].pc = "store", ![j].found = v]
        PROVE  VmInv'
    <3>1. v \in Vms /\ vms[v] # NoVm /\ vms[v].name = order[j].name
      BY <2>3 DEF Named
    <3>2. PICK w : w = [order[j] EXCEPT !.pc = "store", !.found = v]
      OBVIOUS
    <3>3. /\ w \in Order /\ w.pc = "store" /\ w.found = v
          /\ w.name = order[j].name /\ w.failed = order[j].failed
      BY <1>0, <3>1, <3>2 DEF Order
    <3>4. order' = [order EXCEPT ![j] = w]
      BY <1>0, <2>3, <3>2
    <3>5. <<vms[v].name, vms[v].by>> \in makers
      BY <3>1 DEF VmInv, MachineOK
    <3>6. vms[v].by = j \/ SharedName(order[j].name)
      BY <2>1, <3>1, <3>5 DEF SharedName
    <3>7. ~order[j].failed => \A u, x \in Vms : vms[u].by = j /\ vms[x].by = j => u = x
      BY <1>0, <2>1 DEF OrderOK
    <3>8. order'[j] = w
      BY <1>0, <3>4
    <3>9. SharedName(order[j].name) <=> SharedName(order[j].name)'
      BY <2>1, <3>3, <3>8 DEF SharedName
    <3>10. OrderOK(j)'
      BY <2>1, <3>1, <3>3, <3>6, <3>7, <3>8, <3>9 DEF OrderOK
    <3> QED BY <2>1, <3>3, <3>4, <3>10, OrderStep
  <2> QED BY <1>8, <2>2, <2>3 DEF FindsVm
<1> QED BY <1>2, <1>3, <1>4, <1>7, <1>8

\* The steps of a job that make a machine, or may have.
LEMMA PostSteps ==
    ASSUME VmInv, NEW j \in Orders, PostsVm(j) \/ VmCallFails(j)
    PROVE  VmInv'
<1>0. /\ order[j] \in Order /\ OrderOK(j) /\ MaxTries \in Nat \ {0} /\ "hand" \notin Orders
      /\ order \in [Orders -> Order]
  BY VmTypes, HostConsts DEF VmInv
<1>1. CASE PostsVm(j)
  <2>1. PICK v \in Vms : VmMade(v, order[j].name, j)
    BY <1>1 DEF PostsVm
  <2>2. /\ order[j].pc = "post" /\ order[j].name # "none" /\ UNCHANGED vmRows
        /\ order' = [order EXCEPT ![j].pc = "find"]
    BY <1>1 DEF PostsVm
  <2>3. PICK w : w = [order[j] EXCEPT !.pc = "find"]
    OBVIOUS
  <2>4. w \in Order /\ w.pc = "find" /\ w.name = order[j].name /\ w.failed = order[j].failed
    BY <1>0, <2>3 DEF Order
  <2>5. order' \in [Orders -> Order] /\ order'[j] = w /\ \A i \in Orders : i # j => order'[i] = order[i]
    BY <1>0, <2>2, <2>3, <2>4
  <2>6. order[j].name \in HostNames
    BY <1>0, <2>2 DEF Order
  <2>7. /\ vms' = [vms EXCEPT ![v] = [name |-> order[j].name, by |-> j]]
        /\ <<order[j].name, j>> \in makers'
    BY <2>1 DEF VmMade
  <2>8. ~order[j].failed => \A u \in Vms : vms'[u].by = j => u = v
    BY <1>0, <2>2, <2>7, VmTypes DEF OrderOK
  <2>9. OrderOK(j)'
    BY <2>2, <2>4, <2>5, <2>7, <2>8 DEF OrderOK
  <2> QED BY <2>1, <2>2, <2>4, <2>5, <2>6, <2>9, MadeStep
<1>2. CASE VmCallFails(j)
  <2>1. /\ order[j].pc \in {"post", "find"} /\ order[j].name # "none" /\ UNCHANGED vmRows
        /\ order' = [order EXCEPT ![j] = [Retried(@) EXCEPT !.failed = TRUE]]
    BY <1>2 DEF VmCallFails
  <2>2. PICK pc \in {"pending", "failed"} : Retried(order[j]) = [order[j] EXCEPT !.found = 0, !.pc = pc]
    BY <1>0 DEF Retried
  <2>3. PICK r : r = Retried(order[j])
    OBVIOUS
  <2>4. r \in Order /\ r.pc = pc /\ r.name = order[j].name
    BY <1>0, <2>2, <2>3 DEF Order
  <2>5. PICK w : w = [r EXCEPT !.failed = TRUE]
    OBVIOUS
  <2>6. w \in Order /\ w.pc = pc /\ w.name = order[j].name /\ w.failed
    BY <2>4, <2>5 DEF Order
  <2>7. order' = [order EXCEPT ![j] = w]
    BY <1>0, <2>1, <2>3, <2>5
  <2>8. order' \in [Orders -> Order] /\ order'[j] = w /\ \A i \in Orders : i # j => order'[i] = order[i]
    BY <1>0, <2>6, <2>7
  <2>9. OrderOK(j)'
    BY <2>6, <2>8 DEF OrderOK
  <2>10. ASSUME NEW v \in Vms, VmMade(v, order[j].name, j) PROVE VmInv'
    <3>1. order[j].name \in HostNames
      BY <1>0, <2>1 DEF Order
    <3> QED BY <2>1, <2>6, <2>8, <2>9, <2>10, <3>1, MadeStep
  <2>11. CASE UNCHANGED <<vms, makers, reused>>
    BY <2>1, <2>6, <2>7, <2>9, <2>11, OrderStep
  <2> QED BY <1>2, <2>10, <2>11 DEF VmCallFails
<1> QED BY <1>1, <1>2

LEMMA StoreSteps ==
    ASSUME VmInv, NEW j \in Orders, StoresVm(j)
    PROVE  VmInv'
<1> DEFINE f == order[j].found
<1>0. /\ order[j] \in Order /\ OrderOK(j) /\ "none" \notin Orders
      /\ order \in [Orders -> Order] /\ vmRows \in [Vms -> Orders \cup {"none", "sync"}]
  BY VmTypes, HostConsts DEF VmInv
<1>1. order[j].pc = "store" /\ UNCHANGED <<vms, makers, reused>> /\ f \in Vms
  BY <1>0 DEF StoresVm, OrderOK
<1>2. CASE vmRows[f] # "none"
  <2>1. PICK w : w = [order[j] EXCEPT !.pc = "stuck"]
    OBVIOUS
  <2>2. w \in Order /\ w.pc = "stuck" /\ w.name = order[j].name
    BY <1>0, <2>1 DEF Order
  <2>3. order' = [order EXCEPT ![j] = w] /\ UNCHANGED vmRows
    BY <1>0, <1>2, <2>1 DEF StoresVm
  <2>4. OrderOK(j)'
    BY <1>0, <2>2, <2>3 DEF OrderOK
  <2> QED BY <1>1, <2>2, <2>3, <2>4, OrderStep
<1>3. CASE vmRows[f] = "none"
  <2>1. PICK w : w = [order[j] EXCEPT !.pc = "succeeded"]
    OBVIOUS
  <2>2. w \in Order /\ w.pc = "succeeded" /\ w.name = order[j].name /\ w.failed = order[j].failed
    BY <1>0, <2>1 DEF Order
  <2>3. order' = [order EXCEPT ![j] = w] /\ vmRows' = [vmRows EXCEPT ![f] = j]
    BY <1>0, <1>3, <2>1 DEF StoresVm
  <2>4. /\ order' \in [Orders -> Order] /\ \A i \in Orders : order'[i] = IF i = j THEN w ELSE order[i]
        /\ vmRows' \in [Vms -> Orders \cup {"none", "sync"}]
        /\ \A v \in Vms : vmRows'[v] = IF v = f THEN j ELSE vmRows[v]
    BY <1>0, <1>1, <2>2, <2>3
  <2> HIDE DEF f
  <2>5. \A x : SharedName(x)' <=> SharedName(x)
    BY <1>1 DEF SharedName
  <2>6. /\ order[j].name # "none" /\ <<order[j].name, j>> \in makers
        /\ vms[f] # NoVm => vms[f].by = j \/ f \in reused \/ SharedName(order[j].name)
        /\ ~order[j].failed /\ ~SharedName(order[j].name) => \A v \in Vms : vms[v].by = j => v = f
    BY <1>0, <1>1 DEF OrderOK, f
  <2>7. OrderOK(j)'
    BY <1>1, <2>2, <2>4, <2>5, <2>6 DEF OrderOK
  <2>8. ASSUME NEW i \in Orders, i # j PROVE OrderOK(i)'
    <3>1. OrderOK(i) /\ order'[i] = order[i]
      BY <2>4, <2>8 DEF VmInv
    <3>2. \A v \in Vms : vmRows[v] = i => vmRows'[v] = i
      BY <1>0, <1>3, <2>4
    <3> QED BY <1>1, <2>5, <3>1, <3>2 DEF OrderOK
  <2>9. ASSUME NEW v \in Vms PROVE MachineOK(v)'
    <3>1. MachineOK(v) /\ \A i \in Orders : order'[i].name = order[i].name
      BY <2>2, <2>4 DEF VmInv
    <3>2. CASE v = f
      <4>1. vmRows'[v] = j /\ order'[j] = w
        BY <2>4, <3>2
      <4>2. SharedName(order[j].name) => SharedName(order[vmRows[v]].name)'
        BY <2>2, <2>5, <4>1
      <4> QED BY <1>1, <2>2, <2>6, <3>1, <3>2, <4>1, <4>2 DEF MachineOK
    <3>3. CASE v # f
      <4>1. vmRows'[v] = vmRows[v]
        BY <2>4, <3>3
      <4>2. vmRows[v] \in Orders => vmRows[v] # j /\ order'[vmRows[v]] = order[vmRows[v]]
        BY <1>1, <2>4, <3>1 DEF MachineOK
      <4>3. vmRows[v] \in Orders =>
              (SharedName(order[vmRows[v]].name) => SharedName(order[vmRows[v]].name)')
        BY <2>5, <4>1, <4>2
      <4> QED BY <1>1, <3>1, <4>1, <4>2, <4>3 DEF MachineOK
    <3> QED BY <3>2, <3>3
  <2>10. IsFiniteSet(makers)' /\ vms' \in [Vms -> Vm]
    BY <1>1 DEF VmInv
  <2> QED BY <2>4, <2>7, <2>8, <2>9, <2>10 DEF VmInv
<1> QED BY <1>2, <1>3

LEMMA SyncStep ==
    ASSUME VmInv, SyncsVms
    PROVE  VmInv'
<1>1. /\ vmRows' = [v \in Vms |-> IF vms[v] # NoVm /\ vmRows[v] = "none" THEN "sync" ELSE vmRows[v]]
      /\ UNCHANGED <<vms, order, makers, reused>>
      /\ "none" \notin Orders /\ "sync" \notin Orders
  BY HostConsts DEF SyncsVms
<1>2. /\ vmRows' \in [Vms -> Orders \cup {"none", "sync"}]
      /\ \A v \in Vms : vmRows'[v] = vmRows[v] \/ (vmRows[v] = "none" /\ vmRows'[v] = "sync")
  BY <1>1, VmTypes
<1>3. ASSUME NEW j \in Orders PROVE OrderOK(j)'
  <2>1. OrderOK(j)
    BY DEF VmInv
  <2> QED BY <1>1, <1>2, <2>1 DEF OrderOK, SharedName
<1>4. ASSUME NEW v \in Vms PROVE MachineOK(v)'
  <2>1. MachineOK(v)
    BY DEF VmInv
  <2> QED BY <1>1, <1>2, <2>1 DEF MachineOK, SharedName
<1> QED BY <1>1, <1>2, <1>3, <1>4 DEF VmInv

LEMMA VmStep ==
    ASSUME VmInv, VmNext
    PROVE  VmInv'
<1>1. ASSUME NEW v \in Vms, DeletesVm(v) \/ RemovedByHand(v) PROVE VmInv'
  BY <1>1, RemovedStep DEF DeletesVm, RemovedByHand
<1>2. ASSUME NEW n \in HostNames, MadeByHand(n) PROVE VmInv'
  <2>1. PICK v \in Vms : VmMade(v, n, "hand")
    BY <1>2 DEF MadeByHand
  <2>2. UNCHANGED <<vmRows, order>> /\ "hand" \notin Orders
    BY <1>2, HostConsts DEF MadeByHand
  <2> QED BY <2>1, <2>2, MadeStep, VmTypes
<1>3. ASSUME NEW j \in Orders,
             \/ \E n \in HostNames : OrderVm(j, n)
             \/ OrderUnsupported(j) \/ TakesOrder(j) \/ RefusesOrder(j) \/ PostsVm(j)
             \/ VmCallFails(j) \/ FindsVm(j) \/ StoresVm(j)
      PROVE  VmInv'
  BY <1>3, OrderSteps, PostSteps, StoreSteps
<1> QED BY <1>1, <1>2, <1>3, SyncStep DEF VmNext

LEMMA HostsStart ==
    ASSUME HostsInit
    PROVE  HostInv /\ DeviceInv /\ VmInv
<1>1. secrets \in Seq(Secrets)
  <2>1. PICK s \in SUBSET Secrets : secrets \in SetToSeqs(s)
    BY DEF HostsInit, SetToAllKPermutations
  <2>2. IsFiniteSet(s)
    BY HostConsts, FS_Subset
  <2>3. PICK n : n = Cardinality(s)
    OBVIOUS
  <2>4. n \in Nat
    BY <2>2, <2>3, FS_CardinalityType
  <2>5. secrets \in [1..n -> s]
    BY <2>1, <2>3 DEF SetToSeqs
  <2> QED BY <2>4, <2>5
<1>2. HostInv
  <2>1. hosts \in [Labels -> Aliases \cup {"none"}] /\ start = [Starting EXCEPT !.pc = "up"] /\ live = NoLive
    BY DEF HostsInit
  <2>2. Starting \in Start /\ Starting.asked = {} /\ Starting.before = hosts /\ Starting.after = hosts
    BY <2>1 DEF Starting, Start
  <2>3. start \in Start /\ start.pc = "up" /\ start.asked = {} /\ start.before = hosts /\ start.after = hosts
    BY <2>1, <2>2 DEF Start
  <2>4. NoLive \in Live /\ ~NoLive.audit /\ NoLive.pc = "idle"
    BY DEF NoLive, Live
  <2> QED BY <1>1, <2>1, <2>3, <2>4 DEF HostInv, SeedInv, SeedIsWhole, LiveIsAccounted
<1>3. DeviceInv
  <2>1. NoViewer \in Viewer /\ NoViewer.pc = "idle"
    BY DEF NoViewer, Viewer
  <2> QED BY <2>1 DEF HostsInit, DeviceInv, DevicesAreFresh
<1>4. VmInv
  <2>1. NoVm \in Vm /\ NoVm.by = "none" /\ NoOrder \in Order /\ NoOrder.pc = "absent" /\ NoOrder.name = "none"
    BY DEF NoVm, Vm, NoOrder, Order
  <2>2. /\ vms = [v \in Vms |-> NoVm] /\ vmRows = [v \in Vms |-> "none"]
        /\ order = [j \in Orders |-> NoOrder] /\ makers = {} /\ "none" \notin Orders
    BY HostConsts DEF HostsInit
  <2>3. \A j \in Orders : OrderOK(j)
    BY <2>1, <2>2 DEF OrderOK
  <2>4. \A v \in Vms : MachineOK(v)
    BY <2>1, <2>2 DEF MachineOK
  <2>5. IsFiniteSet(makers)
    BY <2>2, FS_EmptySet
  <2> QED BY <2>1, <2>2, <2>3, <2>4, <2>5 DEF VmInv
<1> QED BY <1>2, <1>3, <1>4

\* However agent starts, requests, caches and jobs interleave with administrators, the
\* vault and the node: the seed of hosts is whole or has a cause not to be, a console is
\* given out with its audit row, a list of devices is never older than asked for, and a
\* create job has stored the machine it has made.
THEOREM ServerHostsAreTrue == AgentSpec => []HostsAreTrue
<1> DEFINE HInv == HostInv /\ DeviceInv /\ VmInv
<1>1. AgentInit => HInv
  BY HostsStart DEF AgentInit
<1>2. HInv /\ [AgentNext]_agentVars => HInv'
  <2> SUFFICES ASSUME HInv, [AgentNext]_agentVars PROVE HInv'
    OBVIOUS
  <2>1. HostInv' \/ ~UNCHANGED hostVars
    BY DEF hostVars, HostInv, SeedInv, SeedIsWhole, Contested, HostsOf, LiveIsAccounted, Page
  <2>2. DeviceInv' \/ ~UNCHANGED deviceVars
    BY DEF deviceVars, DeviceInv, DevicesAreFresh
  <2>3. VmInv' \/ ~UNCHANGED vmVars
    BY DEF vmVars, VmInv, OrderOK, MachineOK, SharedName
  <2>4. CASE HostNext
    BY <2>2, <2>3, <2>4, HostStep DEF HostNext
  <2>5. CASE DeviceNext
    BY <2>1, <2>3, <2>5, DeviceStep DEF DeviceNext
  <2>6. CASE VmNext
    BY <2>1, <2>2, <2>6, VmStep DEF VmNext
  <2>7. CASE UNCHANGED hostsVars
    BY <2>1, <2>2, <2>3, <2>7 DEF hostsVars
  <2> QED BY <2>4, <2>5, <2>6, <2>7 DEF AgentNext, Serving, Beside, agentVars
<1>3. HInv => HostsAreTrue
  BY ServersInv DEF HostInv, DeviceInv, HostsAreTrue
<1> QED BY <1>1, <1>2, <1>3, PTL DEF AgentSpec

==============================================================================
