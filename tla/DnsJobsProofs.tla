----------------------------- MODULE DnsJobsProofs -----------------------------
(* Proofs about DnsJobs for any set of jobs and any batches over finitely many    *)
(* names: dns_records and dns_change_jobs tell the truth about the provider, and  *)
(* jobs that never overlap on a name leave at most one record for it.             *)
EXTENDS DnsJobs, TLAPS, FiniteSetTheorems

\* A job before its dispatch, and what a running attempt may have in hand.
ShapeOK(j) ==
    /\ req[j].pc \in {"none", "sync"} =>
         ~Active(j) /\ plan[j] = NoPlan /\ dbjob[j] = None /\ obj[j] = "pending"
    /\ Active(j) => task[j].i \in 1..Len(plan[j].recs)
    /\ ~Active(j) => tx[j] = NoWrites
    /\ task[j].pc \in {"find", "write", "get", "store"} => plan[j].op = "upsert"
    /\ task[j].pc \in {"read", "remove", "drop"} => plan[j].op = "delete"
    /\ \A k \in Keys : tx[j][k] # Same =>
         k \in PlanKeys(plan[j]) /\ (tx[j][k] # None => plan[j].op = "upsert")

\* A running attempt has done the records before the one it is at, and the job
\* object is marked succeeded only after the last one.
ProgressOK(j) ==
    /\ Active(j) => \A n \in 1..(task[j].i - 1) : plan[j].recs[n].key \in handled[j]
    /\ task[j].pc \in {"get", "store", "drop"} => Key(j) \in handled[j]
    /\ task[j].pc \in {"finish", "commit"} => PlanKeys(plan[j]) \subseteq handled[j]
    /\ obj[j] = "succeeded" => PlanKeys(plan[j]) \subseteq handled[j]
    /\ obj[j] = "failed" => task[j].pc = "done" /\ task[j].att = MaxAttempts

\* What an attempt has in hand, or has written and not committed, was accepted.
AppliedOK(j) ==
    /\ task[j].pc \in {"get", "store"} =>
         task[j].found \in Ids /\ Cur(j).val \in accepted[Key(j)]
    /\ \A k \in Keys : tx[j][k] \notin {Same, None} => tx[j][k].val \in accepted[k]

Rec(k, v, id) == [key |-> k, val |-> v, id |-> id]

\* On a name no other task works on, what an attempt has found, not found or
\* written is how the provider still is, until it changes the record again itself.
StoredOK(j) ==
    /\ task[j].pc = "write" /\ task[j].found = None /\ Key(j) \notin shared =>
         \A r \in prov : r.key # Key(j)
    /\ task[j].pc \in {"get", "store"} /\ Key(j) \notin shared =>
         Rec(Key(j), Cur(j).val, task[j].found) \in prov
    /\ \A k \in Keys \ shared : tx[j][k] \notin {Same, None} =>
         \/ task[j].pc \in {"get", "store"} /\ Key(j) = k
         \/ Rec(k, tx[j][k].val, tx[j][k].pid) \in prov

JobOK(j) == ShapeOK(j) /\ ProgressOK(j) /\ AppliedOK(j) /\ StoredOK(j)

\* Two running tasks have only shared names in common, whatever is at the provider
\* was accepted, and a name that was never shared has one record at most.
Alone == \A j, m \in Jobs : j # m /\ Active(j) /\ Active(m) =>
            PlanKeys(plan[j]) \cap PlanKeys(plan[m]) \subseteq shared
ProvAccepted == \A r \in prov : r.val \in accepted[r.key]
OneRecord == \A r, s \in prov : r.key = s.key /\ r.key \notin shared => r = s

Inv ==
    /\ TypeOK /\ \A j \in Jobs : JobOK(j)
    /\ Alone /\ ProvAccepted /\ OneRecord
    /\ RowsWereApplied /\ ReportIsTrue /\ DriftHasCause

------------------------------------------------------------------------------
Provs == [key : Keys, val : Values, id : Ids]
Recs == [key : Keys, val : Values]
Plans == [op : {"upsert", "delete"}, recs : Seq(Recs)]
Requests == [pc : {"none", "sync", "open", "committed", "lost"},
             snap : [id : 0..MaxZones, val : [Keys -> Values \cup {None}]]]
Tasks == [pc : Working \cup {"off", "done", "dead"}, att : 1..MaxAttempts,
          i : Nat, zone : Zones, found : Ids \cup {None}, got : Rows \cup {None}]
Writes == [Keys -> Rows \cup {None, Same}]

LEMMA Types ==
    TypeOK <=>
    /\ zone \in Zones /\ row \in [Keys -> Rows \cup {None}]
    /\ dbjob \in [Jobs -> {"pending", "succeeded", "failed", None}]
    /\ prov \subseteq Provs /\ req \in [Jobs -> Requests]
    /\ obj \in [Jobs -> {"pending", "succeeded", "failed"}]
    /\ plan \in [Jobs -> Plans] /\ task \in [Jobs -> Tasks] /\ tx \in [Jobs -> Writes]
    /\ zones \in 1..MaxZones /\ faults \in 0..MaxFaults
    /\ accepted \in [Keys -> SUBSET Values] /\ handled \in [Jobs -> SUBSET Keys]
    /\ dirty \subseteq Keys /\ shared \subseteq Keys
BY DEF TypeOK, Provs, Recs, Plans, Requests, Tasks, Writes

LEMMA TypesNext ==
    ASSUME zone' \in Zones, row' \in [Keys -> Rows \cup {None}],
           dbjob' \in [Jobs -> {"pending", "succeeded", "failed", None}],
           prov' \subseteq Provs, req' \in [Jobs -> Requests],
           obj' \in [Jobs -> {"pending", "succeeded", "failed"}],
           plan' \in [Jobs -> Plans], task' \in [Jobs -> Tasks], tx' \in [Jobs -> Writes],
           zones' \in 1..MaxZones, faults' \in 0..MaxFaults,
           accepted' \in [Keys -> SUBSET Values], handled' \in [Jobs -> SUBSET Keys],
           dirty' \subseteq Keys, shared' \subseteq Keys
    PROVE  TypeOK'
BY DEF TypeOK, Provs, Recs, Plans, Requests, Tasks, Writes

LEMMA Consts ==
    /\ MaxAttempts \in Nat \ {0} /\ MaxZones \in Nat \ {0} /\ MaxFaults \in Nat
    /\ None \notin Jobs /\ None # Ext /\ None \notin Ids
    /\ None \notin {"pending", "succeeded", "failed"}
BY DnsAssumption DEF Ids

\* A task that has not begun an attempt.
LEMMA AtType ==
    ASSUME NEW pc \in Working \cup {"off", "done", "dead"}, NEW n \in 1..MaxAttempts
    PROVE  /\ At(pc, n) \in Tasks
           /\ At(pc, n).pc = pc /\ At(pc, n).att = n /\ At(pc, n).i = 1
<1>1. NoZone \in Zones
  BY Consts DEF NoZone, Zones
<1>2. Idle \in Tasks /\ Idle.i = 1
  BY <1>1, Consts DEF Idle, Tasks
<1>3. At(pc, n) = [Idle EXCEPT !.pc = pc, !.att = n]
  BY DEF At
<1> QED BY <1>2, <1>3 DEF Tasks

LEMMA NoWritesType == NoWrites \in Writes /\ \A k \in Keys : NoWrites[k] = Same
BY DEF NoWrites, Writes

\* The record a running task is at.
LEMMA AtRecord ==
    ASSUME Inv, NEW j \in Jobs, Active(j)
    PROVE  /\ plan[j] \in Plans /\ Len(plan[j].recs) \in Nat
           /\ plan[j].recs \in Seq(Recs) /\ task[j].i \in 1..Len(plan[j].recs)
           /\ Cur(j) \in Recs /\ Key(j) \in Keys /\ Cur(j).val \in Values
           /\ Key(j) \in PlanKeys(plan[j])
<1>1. plan[j] \in Plans /\ plan[j].recs \in Seq(Recs)
  BY Types DEF Inv, Plans
<1>2. task[j].i \in 1..Len(plan[j].recs)
  BY DEF Inv, JobOK, ShapeOK
<1>3. Len(plan[j].recs) \in Nat /\ Cur(j) \in Recs
  BY <1>1, <1>2 DEF Cur
<1>4. Key(j) \in PlanKeys(plan[j])
  BY <1>1, <1>2 DEF PlanKeys, ToSet, Key, Cur
<1> QED BY <1>1, <1>2, <1>3, <1>4 DEF Key, Recs

\* A step of task j that changes the provider at most at the names of its job
\* keeps what is said of the other jobs.
LEMMA OthersKeep ==
    ASSUME Inv, TypeOK', NEW j \in Jobs, Active(j), UNCHANGED <<dbjob, req, plan, shared>>,
           \A m \in Jobs \ {j} : /\ task'[m] = task[m] /\ obj'[m] = obj[m]
                                 /\ tx'[m] = tx[m] /\ handled'[m] = handled[m],
           handled[j] \subseteq handled'[j],
           \A k \in Keys : accepted[k] \subseteq accepted'[k],
           \A r \in Provs : r.key \notin PlanKeys(plan[j]) => (r \in prov <=> r \in prov'),
           NEW m \in Jobs, m # j
    PROVE  JobOK(m)'
<1>1. /\ task'[m] = task[m] /\ obj'[m] = obj[m] /\ tx'[m] = tx[m] /\ handled'[m] = handled[m]
      /\ dbjob' = dbjob /\ req' = req /\ plan' = plan /\ shared' = shared
  OBVIOUS
<1>2. Active(m)' <=> Active(m)
  BY <1>1 DEF Active
<1>3. Key(m)' = Key(m) /\ Cur(m)' = Cur(m)
  BY <1>1 DEF Key, Cur
<1>4. JobOK(m) /\ prov' \subseteq Provs /\ prov \subseteq Provs /\ shared \subseteq Keys
  BY Types DEF Inv, TypeOK, Provs
<1>5. ShapeOK(m)'
  BY <1>1, <1>2, <1>4 DEF JobOK, ShapeOK
<1>6. ProgressOK(m)'
  BY <1>1, <1>2, <1>3, <1>4 DEF JobOK, ProgressOK
<1>7. task[m].pc \in {"write", "get", "store"} => Active(m)
  BY DEF Active, Working
<1>8. AppliedOK(m)'
  <2>1. task[m].pc \in {"get", "store"} => Key(m) \in Keys
    BY <1>7, AtRecord
  <2> QED BY <1>1, <1>3, <1>4, <2>1 DEF JobOK, AppliedOK
<1>9. Active(m) => PlanKeys(plan[m]) \cap PlanKeys(plan[j]) \subseteq shared
  BY DEF Inv, Alone
<1>10. ASSUME Active(m), NEW k \in PlanKeys(plan[m]) \ shared, NEW r \in Provs, r.key = k
       PROVE  r \in prov <=> r \in prov'
  BY <1>9, <1>10
<1>11. StoredOK(m)'
  <2>1. ASSUME task[m].pc = "write", task[m].found = None, Key(m) \notin shared, NEW r \in prov'
        PROVE  r.key # Key(m)
    <3>1. Active(m) /\ Key(m) \in PlanKeys(plan[m]) /\ StoredOK(m)
      BY <2>1, <1>7, <1>4, AtRecord DEF JobOK
    <3>2. r.key = Key(m) => r \in prov
      BY <2>1, <1>4, <1>10, <3>1
    <3> QED BY <2>1, <3>1, <3>2 DEF StoredOK
  <2>2. ASSUME task[m].pc \in {"get", "store"}, Key(m) \notin shared
        PROVE  Rec(Key(m), Cur(m).val, task[m].found) \in prov'
    <3>1. Active(m) /\ Key(m) \in PlanKeys(plan[m]) /\ StoredOK(m)
      BY <2>2, <1>7, <1>4, AtRecord DEF JobOK
    <3>2. Rec(Key(m), Cur(m).val, task[m].found) \in prov
      BY <2>2, <3>1 DEF StoredOK
    <3>3. Rec(Key(m), Cur(m).val, task[m].found).key = Key(m)
      BY DEF Rec
    <3> QED BY <1>10, <2>2, <1>4, <3>1, <3>2, <3>3
  <2>3. ASSUME NEW k \in Keys \ shared, tx[m][k] \notin {Same, None}
        PROVE  \/ task[m].pc \in {"get", "store"} /\ Key(m) = k
               \/ Rec(k, tx[m][k].val, tx[m][k].pid) \in prov'
    <3>1. Active(m) /\ k \in PlanKeys(plan[m]) /\ StoredOK(m)
      BY <1>4, <2>3, NoWritesType DEF JobOK, ShapeOK
    <3>2. CASE Rec(k, tx[m][k].val, tx[m][k].pid) \in prov
      <4>1. Rec(k, tx[m][k].val, tx[m][k].pid).key = k
        BY DEF Rec
      <4> QED BY <1>10, <1>4, <3>1, <3>2, <4>1
    <3> QED BY <2>3, <3>1, <3>2 DEF StoredOK
  <2> QED BY <1>1, <1>3, <2>1, <2>2, <2>3 DEF StoredOK
<1> QED BY <1>5, <1>6, <1>8, <1>11 DEF JobOK

LEMMA TaskStep ==
    ASSUME Inv, TypeOK', NEW j \in Jobs, Active(j), UNCHANGED <<dbjob, req, plan, shared>>,
           \A m \in Jobs \ {j} : /\ task'[m] = task[m] /\ obj'[m] = obj[m]
                                 /\ tx'[m] = tx[m] /\ handled'[m] = handled[m],
           handled[j] \subseteq handled'[j],
           \A k \in Keys : accepted[k] \subseteq accepted'[k],
           \A r \in Provs : r.key \notin PlanKeys(plan[j]) => (r \in prov <=> r \in prov'),
           JobOK(j)',
           ProvAccepted', OneRecord', RowsWereApplied', DriftHasCause'
    PROVE  Inv'
<1>1. \A m \in Jobs : JobOK(m)'
  BY OthersKeep
<1>2. Alone'
  <2>1. \A m \in Jobs : Active(m)' => Active(m)
    BY DEF Active
  <2> QED BY <2>1 DEF Inv, Alone
<1>3. ReportIsTrue'
  <2>1. dbjob[j] # "failed"
    BY DEF Inv, ReportIsTrue, Active, Working
  <2> QED BY <2>1 DEF Inv, ReportIsTrue
<1> QED BY <1>1, <1>2, <1>3 DEF Inv

\* A step of task j that leaves the provider, its history and the rows alone.
LEMMA LocalStep ==
    ASSUME Inv, TypeOK', NEW j \in Jobs, Active(j),
           UNCHANGED <<zone, row, dbjob, req, plan, shared, prov, accepted, dirty>>,
           \A m \in Jobs \ {j} : /\ task'[m] = task[m] /\ obj'[m] = obj[m]
                                 /\ tx'[m] = tx[m] /\ handled'[m] = handled[m],
           handled[j] \subseteq handled'[j],
           JobOK(j)'
    PROVE  Inv'
<1>1. ProvAccepted' /\ OneRecord' /\ RowsWereApplied' /\ DriftHasCause'
  BY DEF Inv, ProvAccepted, OneRecord, RowsWereApplied, DriftHasCause
<1> QED BY <1>1, TaskStep

\* An exception in an attempt: nothing is in hand or written any more, and the job
\* object is marked failed only after the last attempt.
LEMMA Fails ==
    ASSUME Inv, NEW j \in Jobs, Active(j), AttemptFails(j)
    PROVE  /\ task' \in [Jobs -> Tasks] /\ tx' \in [Jobs -> Writes]
           /\ obj' \in [Jobs -> {"pending", "succeeded", "failed"}]
           /\ \A m \in Jobs \ {j} : task'[m] = task[m] /\ obj'[m] = obj[m] /\ tx'[m] = tx[m]
           /\ tx'[j] = NoWrites /\ task'[j].i = 1
           /\ \/ task'[j].pc = "done" /\ task'[j].att = MaxAttempts /\ obj'[j] = "failed"
              \/ task'[j].pc = "begin" /\ obj'[j] = obj[j] /\ obj[j] # "failed"
<1>1. /\ task \in [Jobs -> Tasks] /\ tx \in [Jobs -> Writes]
      /\ obj \in [Jobs -> {"pending", "succeeded", "failed"}]
  BY Types DEF Inv
<1>2. /\ task' = [task EXCEPT ![j] = IF task[j].att = MaxAttempts THEN At("done", task[j].att)
                                                              ELSE Started(task[j].att + 1)]
      /\ obj' = IF task[j].att = MaxAttempts THEN [obj EXCEPT ![j] = "failed"] ELSE obj
      /\ tx' = [tx EXCEPT ![j] = NoWrites]
  BY DEF AttemptFails, update_job_status
<1>3. tx' \in [Jobs -> Writes] /\ tx'[j] = NoWrites /\ \A m \in Jobs \ {j} : tx'[m] = tx[m]
  BY <1>1, <1>2, NoWritesType
<1>4. task[j].att \in 1..MaxAttempts
  BY <1>1 DEF Tasks
<1>5. CASE task[j].att = MaxAttempts
  <2>1. task' = [task EXCEPT ![j] = At("done", MaxAttempts)] /\ obj' = [obj EXCEPT ![j] = "failed"]
    BY <1>2, <1>5
  <2>2. /\ At("done", MaxAttempts) \in Tasks /\ At("done", MaxAttempts).pc = "done"
        /\ At("done", MaxAttempts).att = MaxAttempts /\ At("done", MaxAttempts).i = 1
    BY <1>4, <1>5, AtType
  <2> QED BY <1>1, <1>3, <2>1, <2>2
<1>6. CASE task[j].att # MaxAttempts
  <2>1. task[j].att + 1 \in 1..MaxAttempts
    BY <1>4, <1>6, Consts
  <2>2. task' = [task EXCEPT ![j] = Started(task[j].att + 1)] /\ obj' = obj
    BY <1>2, <1>6
  <2>3. /\ Started(task[j].att + 1) \in Tasks /\ Started(task[j].att + 1).pc = "begin"
        /\ Started(task[j].att + 1).i = 1
    BY <2>1, AtType DEF Started, Working
  <2>4. obj[j] # "failed"
    BY DEF Inv, JobOK, ProgressOK, Active, Working
  <2> QED BY <1>1, <1>3, <2>2, <2>3, <2>4
<1> QED BY <1>5, <1>6

LEMMA FailsJobOK ==
    ASSUME Inv, NEW j \in Jobs, Active(j), AttemptFails(j), UNCHANGED <<req, plan, dbjob>>,
           handled[j] \subseteq handled'[j]
    PROVE  JobOK(j)'
<1>1. /\ tx'[j] = NoWrites /\ task'[j].i = 1
      /\ \/ task'[j].pc = "done" /\ task'[j].att = MaxAttempts /\ obj'[j] = "failed"
         \/ task'[j].pc = "begin" /\ obj'[j] = obj[j] /\ obj[j] # "failed"
  BY Fails
<1>2. 1 \in 1..Len(plan[j].recs) /\ req[j].pc \notin {"none", "sync"}
  <2>1. req[j].pc \notin {"none", "sync"}
    BY DEF Inv, JobOK, ShapeOK
  <2> QED BY <2>1, AtRecord
<1>3. ShapeOK(j)'
  BY <1>1, <1>2, NoWritesType DEF ShapeOK, Active, Working
<1>4. obj[j] = "succeeded" => PlanKeys(plan[j]) \subseteq handled[j]
  BY DEF Inv, JobOK, ProgressOK
<1>5. ProgressOK(j)'
  BY <1>1, <1>4 DEF ProgressOK
<1>6. AppliedOK(j)'
  BY <1>1, NoWritesType DEF AppliedOK
<1>7. StoredOK(j)'
  BY <1>1, NoWritesType DEF StoredOK
<1> QED BY <1>3, <1>5, <1>6, <1>7 DEF JobOK

\* An attempt that fails without an effect at the provider.
LEMMA PlainFailure ==
    ASSUME Inv, NEW j \in Jobs, Active(j), AttemptFails(j), faults' \in 0..MaxFaults,
           UNCHANGED <<db, prov, req, plan, history, dirty>>
    PROVE  Inv'
<1>1. /\ UNCHANGED <<zone, row, dbjob, zones, prov, req, plan>>
      /\ UNCHANGED <<accepted, handled, shared, dirty>>
  BY DEF db, history
<1>2. JobOK(j)'
  BY <1>1, FailsJobOK
<1>3. TypeOK'
  BY <1>1, Fails, Types, TypesNext DEF Inv
<1> QED BY <1>1, <1>2, <1>3, Fails, LocalStep

\* The end of a record: the next one or the end of the loop.
LEMMA Advances ==
    ASSUME Inv, NEW j \in Jobs, Active(j), Advance(j), Key(j) \in handled[j]
    PROVE  /\ task' \in [Jobs -> Tasks] /\ \A m \in Jobs \ {j} : task'[m] = task[m]
           /\ \/ task'[j].pc = "finish" /\ PlanKeys(plan[j]) \subseteq handled[j]
              \/ task'[j].pc = FirstStep(j)
           /\ task'[j].i \in 1..Len(plan[j].recs)
           /\ \A n \in 1..(task'[j].i - 1) : plan[j].recs[n].key \in handled[j]
<1>1. task \in [Jobs -> Tasks]
  BY Types DEF Inv
<1>2. task[j] \in Tasks /\ task[j].i \in Nat /\ task[j].att \in 1..MaxAttempts
  BY <1>1 DEF Tasks
<1>3. \A n \in 1..task[j].i : plan[j].recs[n].key \in handled[j]
  <2>1. \A n \in 1..(task[j].i - 1) : plan[j].recs[n].key \in handled[j]
    BY DEF Inv, JobOK, ProgressOK
  <2>2. plan[j].recs[task[j].i].key \in handled[j]
    BY DEF Key, Cur
  <2> QED BY <1>2, <2>1, <2>2
<1>4. CASE task[j].i = Len(plan[j].recs)
  <2>1. task' = [task EXCEPT ![j] = At("finish", task[j].att)]
    BY <1>4 DEF Advance
  <2>2. /\ At("finish", task[j].att) \in Tasks /\ At("finish", task[j].att).pc = "finish"
        /\ At("finish", task[j].att).i = 1
    BY <1>2, AtType DEF Working
  <2>3. PlanKeys(plan[j]) \subseteq handled[j]
    BY <1>3, <1>4, AtRecord DEF PlanKeys, ToSet
  <2> QED BY <1>1, <2>1, <2>2, <2>3, AtRecord
<1>5. CASE task[j].i # Len(plan[j].recs)
  <2>1. FirstStep(j) \in Working /\ task[j].i + 1 \in Nat
    BY <1>2 DEF FirstStep, Working
  <2>2. PICK t : t = [task[j] EXCEPT !.pc = FirstStep(j), !.i = task[j].i + 1,
                                     !.found = None, !.got = None]
    OBVIOUS
  <2>3. task' = [task EXCEPT ![j] = t]
    <3>1. task' = [task EXCEPT ![j] =
                     IF task[j].i = Len(plan[j].recs) THEN At("finish", task[j].att)
                     ELSE [task[j] EXCEPT !.pc = FirstStep(j), !.i = task[j].i + 1,
                                          !.found = None, !.got = None]]
      BY Zenon DEF Advance
    <3> QED BY <1>5, <2>2, <3>1, Zenon
  <2>4. t \in Tasks /\ t.pc = FirstStep(j) /\ t.i = task[j].i + 1
    <3>1. PICK pc \in Working, n \in Nat : pc = FirstStep(j) /\ n = task[j].i + 1
      BY <2>1
    <3>2. PICK u : u = [task[j] EXCEPT !.pc = pc, !.i = n]
      OBVIOUS
    <3>3. u \in Tasks /\ u.pc = pc /\ u.i = n
      BY <1>2, <3>2 DEF Tasks
    <3>4. PICK w : w = [u EXCEPT !.found = None, !.got = None]
      OBVIOUS
    <3>5. w \in Tasks /\ w.pc = pc /\ w.i = n
      BY <3>3, <3>4 DEF Tasks
    <3>6. w = t
      BY <2>2, <3>1, <3>2, <3>4
    <3> QED BY <3>1, <3>5, <3>6
  <2>5. task[j].i + 1 \in 1..Len(plan[j].recs)
    BY <1>5, AtRecord
  <2>6. task'[j] = t /\ task' \in [Jobs -> Tasks] /\ \A m \in Jobs \ {j} : task'[m] = task[m]
    BY <1>1, <2>3, <2>4
  <2>7. \A n \in 1..(t.i - 1) : plan[j].recs[n].key \in handled[j]
    BY <1>2, <1>3, <2>4
  <2> QED BY <2>4, <2>5, <2>6, <2>7
<1> QED BY <1>4, <1>5

\* A step of task j to pc that writes nothing: what must hold there.
LEMMA MoveStep ==
    ASSUME Inv, NEW j \in Jobs, Active(j), NEW pc \in Working,
           task' \in [Jobs -> Tasks], \A m \in Jobs \ {j} : task'[m] = task[m],
           task'[j].pc = pc, task'[j].i = task[j].i,
           UNCHANGED <<zone, row, dbjob, zones, prov, req, obj, plan, tx, faults, accepted,
                       shared, dirty>>,
           handled' \in [Jobs -> SUBSET Keys], handled[j] \subseteq handled'[j],
           \A m \in Jobs \ {j} : handled'[m] = handled[m],
           pc \in {"find", "write", "get", "store"} => plan[j].op = "upsert",
           pc \in {"read", "remove", "drop"} => plan[j].op = "delete",
           pc \in {"get", "store", "drop"} => Key(j) \in handled'[j],
           pc \notin {"finish", "commit"},
           pc = "write" /\ task'[j].found = None => \A r \in prov : r.key # Key(j),
           pc \in {"get", "store"} => task[j].pc = "get" /\ task'[j].found = task[j].found,
           task[j].pc # "store" /\ (task[j].pc = "get" => pc = "store")
    PROVE  Inv'
<1>1. TypeOK'
  BY Types, TypesNext DEF Inv
<1>2. JobOK(j) /\ Active(j)'
  BY DEF Inv, Active
<1>3. Key(j)' = Key(j) /\ Cur(j)' = Cur(j)
  BY DEF Key, Cur
<1>4. ShapeOK(j)'
  BY <1>2 DEF JobOK, ShapeOK
<1>5. ProgressOK(j)'
  <2>1. obj[j] # "failed"
    BY <1>2 DEF JobOK, ProgressOK, Active, Working
  <2> QED BY <1>2, <1>3, <2>1 DEF JobOK, ProgressOK
<1>6. AppliedOK(j)'
  BY <1>2, <1>3 DEF JobOK, AppliedOK
<1>7. StoredOK(j)'
  BY <1>2, <1>3 DEF JobOK, StoredOK
<1>8. JobOK(j)'
  BY <1>4, <1>5, <1>6, <1>7 DEF JobOK
<1> QED BY <1>1, <1>8, LocalStep

LEMMA BeginAttempt ==
    ASSUME Inv, NEW j \in Jobs, Active(j), begin_attempt(j)
    PROVE  Inv'
<1>1. CASE zone.id = 0
  <2>1. AttemptFails(j) /\ UNCHANGED <<db, prov, req, plan, faults, history, dirty>>
    BY <1>1 DEF begin_attempt
  <2>2. faults' \in 0..MaxFaults
    BY <2>1, Types DEF Inv
  <2> QED BY <2>1, <2>2, PlainFailure
<1>2. CASE zone.id # 0
  <2>1. /\ task' = [task EXCEPT ![j].pc = FirstStep(j), ![j].zone = zone] /\ task[j].pc = "begin"
        /\ UNCHANGED <<zone, row, dbjob, zones, prov, req, obj, plan, tx, faults, accepted,
                       shared, dirty, handled>>
    BY <1>2 DEF begin_attempt, db, history
  <2>2. FirstStep(j) \in Working /\ FirstStep(j) \in {"find", "read"}
    BY DEF FirstStep, Working
  <2>3. task \in [Jobs -> Tasks] /\ zone \in Zones /\ handled \in [Jobs -> SUBSET Keys] /\ plan[j].op \in {"upsert", "delete"}
    BY Types DEF Inv, Plans
  <2>4. /\ task' \in [Jobs -> Tasks] /\ \A m \in Jobs \ {j} : task'[m] = task[m]
        /\ task'[j].pc = FirstStep(j) /\ task'[j].i = task[j].i
    BY <2>1, <2>2, <2>3 DEF Tasks
  <2>5. /\ FirstStep(j) = "find" => plan[j].op = "upsert"
        /\ FirstStep(j) = "read" => plan[j].op = "delete"
    BY <2>3 DEF FirstStep
  <2> QED BY <2>1, <2>2, <2>3, <2>4, <2>5, MoveStep
<1> QED BY <1>1, <1>2

LEMMA FindRecord ==
    ASSUME Inv, NEW j \in Jobs, Active(j), find_record(j)
    PROVE  Inv'
<1>1. CASE AttemptFails(j)
  <2>1. faults' \in 0..MaxFaults
    BY Types DEF Inv, find_record
  <2> QED BY <1>1, <2>1, PlainFailure DEF find_record
<1>2. CASE ~AttemptFails(j)
  <2> DEFINE ids == {r.id : r \in {x \in prov : x.key = Key(j)}}
  <2>1. /\ task[j].pc = "find"
        /\ UNCHANGED <<zone, row, dbjob, zones, prov, req, obj, plan, tx, faults, accepted,
                       shared, dirty, handled>>
        /\ \E f \in (IF ids = {} THEN {None} ELSE ids) :
             task' = [task EXCEPT ![j].pc = "write", ![j].found = f]
    BY <1>2 DEF find_record, db, history
  <2>2. PICK f \in (IF ids = {} THEN {None} ELSE ids) :
             task' = [task EXCEPT ![j].pc = "write", ![j].found = f]
    BY <2>1
  <2>3. task \in [Jobs -> Tasks] /\ handled \in [Jobs -> SUBSET Keys] /\ prov \subseteq Provs
    BY Types DEF Inv
  <2>4. ids \subseteq Ids
    BY <2>3 DEF Provs
  <2>5. f \in Ids \cup {None} /\ (f = None => \A r \in prov : r.key # Key(j))
    BY <2>4, Consts
  <2>6. /\ task' \in [Jobs -> Tasks] /\ \A m \in Jobs \ {j} : task'[m] = task[m]
        /\ task'[j].pc = "write" /\ task'[j].i = task[j].i /\ task'[j].found = f
    BY <2>2, <2>3, <2>5 DEF Tasks, Working
  <2>7. plan[j].op = "upsert"
    BY <2>1 DEF Inv, JobOK, ShapeOK
  <2>8. "write" \in Working
    BY DEF Working
  <2> QED BY <2>1, <2>3, <2>5, <2>6, <2>7, <2>8, MoveStep
<1> QED BY <1>1, <1>2

\* The row an attempt sees is absent or a row.
LEMMA RowSeen ==
    ASSUME Inv, NEW j \in Jobs, Active(j)
    PROVE  get_record(j, Key(j)) \in Rows \cup {None}
<1>1. /\ tx \in [Jobs -> Writes] /\ row \in [Keys -> Rows \cup {None}] /\ Key(j) \in Keys
  BY Types, AtRecord DEF Inv
<1>2. tx[j][Key(j)] \in Rows \cup {None, Same}
  BY <1>1 DEF Writes
<1> QED BY <1>1, <1>2 DEF get_record

LEMMA GetExisting ==
    ASSUME Inv, NEW j \in Jobs, Active(j), get_existing(j)
    PROVE  Inv'
<1>1. /\ task[j].pc = "get"
      /\ task' = [task EXCEPT ![j].pc = "store", ![j].got = get_record(j, Key(j))]
      /\ UNCHANGED <<zone, row, dbjob, zones, prov, req, obj, plan, tx, faults, accepted,
                     shared, dirty, handled>>
  BY DEF get_existing, db, history
<1>2. task \in [Jobs -> Tasks] /\ handled \in [Jobs -> SUBSET Keys]
  BY Types DEF Inv
<1>3. "store" \in Working
  BY DEF Working
<1>4. /\ task' \in [Jobs -> Tasks] /\ \A m \in Jobs \ {j} : task'[m] = task[m]
      /\ task'[j].pc = "store" /\ task'[j].i = task[j].i /\ task'[j].found = task[j].found
  BY <1>1, <1>2, <1>3, RowSeen DEF Tasks
<1>5. plan[j].op = "upsert" /\ Key(j) \in handled[j]
  BY <1>1 DEF Inv, JobOK, ShapeOK, ProgressOK
<1> QED BY <1>1, <1>2, <1>3, <1>4, <1>5, MoveStep

LEMMA ReadRow ==
    ASSUME Inv, NEW j \in Jobs, Active(j), read_row(j)
    PROVE  Inv'
<1> DEFINE r == get_record(j, Key(j))
           pc == IF r = None THEN "drop" ELSE "remove"
<1>1. /\ task[j].pc = "read"
      /\ task' = [task EXCEPT ![j].pc = pc, ![j].got = r]
      /\ handled' = IF r = None THEN [handled EXCEPT ![j] = handled[j] \cup {Key(j)}] ELSE handled
      /\ UNCHANGED <<zone, row, dbjob, zones, prov, req, obj, plan, tx, faults, accepted,
                     shared, dirty>>
  BY DEF read_row, db
<1>2. task \in [Jobs -> Tasks] /\ handled \in [Jobs -> SUBSET Keys] /\ Key(j) \in Keys
  BY Types, AtRecord DEF Inv
<1>3. pc \in Working /\ pc \in {"drop", "remove"}
  BY DEF Working
<1>4. r \in Rows \cup {None}
  BY RowSeen
<1>5. /\ handled' \in [Jobs -> SUBSET Keys] /\ handled[j] \subseteq handled'[j]
      /\ \A m \in Jobs \ {j} : handled'[m] = handled[m]
      /\ pc = "drop" => Key(j) \in handled'[j]
  BY <1>1, <1>2
<1> HIDE DEF pc, r
<1>6. /\ task' \in [Jobs -> Tasks] /\ \A m \in Jobs \ {j} : task'[m] = task[m]
      /\ task'[j].pc = pc /\ task'[j].i = task[j].i
  BY <1>1, <1>2, <1>3, <1>4 DEF Tasks
<1>7. plan[j].op = "delete"
  BY <1>1 DEF Inv, JobOK, ShapeOK
<1> QED BY <1>1, <1>3, <1>5, <1>6, <1>7, MoveStep

\* What the provider does with an upsert: it touches no other name and leaves one
\* record at most where there was one at most, or none was found.
LEMMA Upserted ==
    ASSUME Inv, NEW j \in Jobs, Active(j), task[j].pc = "write", ProviderAccepts(j),
           ProviderUpsert(j), UNCHANGED shared,
           accepted' = [accepted EXCEPT ![Key(j)] = @ \cup {Cur(j).val}]
    PROVE  /\ prov' \subseteq Provs /\ accepted' \in [Keys -> SUBSET Values]
           /\ \A k \in Keys : accepted[k] \subseteq accepted'[k]
           /\ Cur(j).val \in accepted'[Key(j)]
           /\ \A r \in Provs : r.key # Key(j) => (r \in prov <=> r \in prov')
           /\ Rec(Key(j), Cur(j).val, RecordId(j)) \in prov' /\ RecordId(j) \in Ids
           /\ ProvAccepted' /\ OneRecord'
<1> DEFINE K == Key(j)
           v == Cur(j).val
           F == task[j].found
           Change(r) == IF r.key = K /\ r.id = F THEN Rec(r.key, v, r.id) ELSE r
<1>1. /\ task[j] \in Tasks /\ prov \subseteq Provs /\ accepted \in [Keys -> SUBSET Values]
      /\ K \in Keys /\ v \in Values
  BY Types, AtRecord DEF Inv
<1>2. /\ accepted' \in [Keys -> SUBSET Values] /\ v \in accepted'[K]
      /\ \A k \in Keys : accepted[k] \subseteq accepted'[k]
  BY <1>1
<1>3. F \in Ids \cup {None} /\ <<j, task[j].att>> \in Ids
  BY <1>1, Consts DEF Tasks, Ids
<1>4. ProvAccepted /\ OneRecord /\ StoredOK(j)
  BY DEF Inv, JobOK
<1>5. CASE F # None
  <2>1. \A r \in prov : [r EXCEPT !.val = v] = Rec(r.key, v, r.id)
    BY <1>1 DEF Provs, Rec
  <2>2. prov' = {Change(r) : r \in prov}
    BY <1>5, <2>1 DEF ProviderUpsert
  <2>3. \A r \in prov : Change(r) \in Provs /\ Change(r).key = r.key /\ Change(r).id = r.id
    BY <1>1 DEF Provs, Rec
  <2>4. PICK r0 \in prov : r0.key = K /\ r0.id = F
    BY <1>5 DEF ProviderAccepts
  <2>5. Change(r0) = Rec(K, v, F)
    BY <2>4
  <2>6. \A r \in prov : r.key # K => Change(r) = r
    OBVIOUS
  <2>7. \A r \in prov : Change(r).val \in accepted'[Change(r).key]
    <3>1. SUFFICES ASSUME NEW r \in prov PROVE Change(r).val \in accepted'[Change(r).key]
      OBVIOUS
    <3>2. r.val \in accepted[r.key] /\ r.key \in Keys
      BY <1>1, <1>4 DEF ProvAccepted, Provs
    <3>3. CASE r.key = K /\ r.id = F
      BY <1>2, <3>3 DEF Rec
    <3>4. CASE ~(r.key = K /\ r.id = F)
      BY <1>2, <3>2, <3>4
    <3> QED BY <3>3, <3>4
  <2> HIDE DEF Change
  <2>8. prov' \subseteq Provs /\ Rec(K, v, F) \in prov'
    BY <2>2, <2>3, <2>4, <2>5
  <2>9. \A r \in Provs : r.key # K => (r \in prov <=> r \in prov')
    BY <2>2, <2>3, <2>6
  <2>10. ProvAccepted'
    BY <2>2, <2>7 DEF ProvAccepted
  <2>11. OneRecord'
    BY <1>4, <2>2, <2>3 DEF OneRecord
  <2> QED BY <1>2, <1>3, <1>5, <2>8, <2>9, <2>10, <2>11, Consts DEF RecordId
<1>6. CASE F = None
  <2>1. NewRecord(j) = Rec(K, v, RecordId(j)) /\ RecordId(j) \in Ids
    BY <1>3, <1>6 DEF NewRecord, Rec, RecordId
  <2>2. prov' = prov \cup {Rec(K, v, RecordId(j))}
    BY <1>6, <2>1 DEF ProviderUpsert
  <2>3. /\ Rec(K, v, RecordId(j)) \in Provs /\ Rec(K, v, RecordId(j)).key = K
        /\ Rec(K, v, RecordId(j)).val = v
    BY <1>1, <2>1 DEF Rec, Provs
  <2>4. K \notin shared => \A r \in prov : r.key # K
    BY <1>4, <1>6 DEF StoredOK
  <2>5. OneRecord'
    BY <1>4, <2>2, <2>3, <2>4 DEF OneRecord
  <2>6. ProvAccepted'
    BY <1>1, <1>2, <1>4, <2>2, <2>3 DEF ProvAccepted, Provs
  <2> QED BY <1>1, <1>2, <2>1, <2>2, <2>3, <2>5, <2>6
<1> QED BY <1>5, <1>6

\* A change at the provider of a name that is marked dirty.
LEMMA DirtyDrift ==
    ASSUME Inv, NEW K \in Keys, UNCHANGED <<row, shared>>, dirty' = dirty \cup {K},
           \A r \in Provs : r.key # K => (r \in prov <=> r \in prov')
    PROVE  DriftHasCause'
<1> SUFFICES ASSUME NEW k \in Keys \ (shared \cup dirty'), row[k] # None
             PROVE  [key |-> k, val |-> row[k].val, id |-> row[k].pid] \in prov'
  BY DEF DriftHasCause
<1>1. PICK x : x = [key |-> k, val |-> row[k].val, id |-> row[k].pid]
  OBVIOUS
<1>2. x \in prov /\ prov \subseteq Provs /\ x.key = k /\ k # K
  BY <1>1, Types DEF Inv, DriftHasCause
<1> QED BY <1>1, <1>2

LEMMA UpsertRecord ==
    ASSUME Inv, NEW j \in Jobs, Active(j), upsert_record(j)
    PROVE  Inv'
<1>0. faults \in 0..MaxFaults
  BY Types DEF Inv
<1>1. CASE ~ProviderAccepts(j)
  BY <1>0, <1>1, PlainFailure DEF upsert_record, history
<1>2. CASE ProviderAccepts(j)
  <2>1. /\ task[j].pc = "write" /\ ProviderUpsert(j)
        /\ accepted' = [accepted EXCEPT ![Key(j)] = @ \cup {Cur(j).val}]
        /\ handled' = [handled EXCEPT ![j] = handled[j] \cup {Key(j)}]
        /\ dirty' = dirty \cup {Key(j)}
        /\ task' = [task EXCEPT ![j].pc = "get", ![j].found = RecordId(j)]
        /\ UNCHANGED <<obj, tx, zone, zones, row, dbjob, req, plan, faults, shared>>
    BY <1>2 DEF upsert_record, db
  <2>2. /\ prov' \subseteq Provs /\ accepted' \in [Keys -> SUBSET Values]
        /\ \A k \in Keys : accepted[k] \subseteq accepted'[k]
        /\ Cur(j).val \in accepted'[Key(j)]
        /\ \A r \in Provs : r.key # Key(j) => (r \in prov <=> r \in prov')
        /\ Rec(Key(j), Cur(j).val, RecordId(j)) \in prov' /\ RecordId(j) \in Ids
        /\ ProvAccepted' /\ OneRecord'
    BY <1>2, <2>1, Upserted
  <2>3. /\ task \in [Jobs -> Tasks] /\ handled \in [Jobs -> SUBSET Keys] /\ dirty \subseteq Keys
        /\ Key(j) \in Keys /\ Key(j) \in PlanKeys(plan[j])
    BY Types, AtRecord DEF Inv
  <2>4. /\ task' \in [Jobs -> Tasks] /\ \A m \in Jobs \ {j} : task'[m] = task[m]
        /\ task'[j].pc = "get" /\ task'[j].i = task[j].i /\ task'[j].found = RecordId(j)
    <3>1. PICK f \in Ids : f = RecordId(j)
      BY <2>2
    <3>2. task' = [task EXCEPT ![j].pc = "get", ![j].found = f]
      BY <2>1, <3>1
    <3> QED BY <2>3, <3>1, <3>2 DEF Tasks, Working
  <2>5. /\ handled' \in [Jobs -> SUBSET Keys] /\ handled'[j] = handled[j] \cup {Key(j)}
        /\ \A m \in Jobs \ {j} : handled'[m] = handled[m]
    BY <2>1, <2>3
  <2>6. TypeOK'
    BY <2>1, <2>2, <2>3, <2>4, <2>5, Types, TypesNext DEF Inv
  <2>7. Key(j)' = Key(j) /\ Cur(j)' = Cur(j) /\ Active(j)' /\ JobOK(j)
    BY <2>1, <2>4 DEF Key, Cur, Active, Working, Inv
  <2>8. ShapeOK(j)'
    BY <2>1, <2>4, <2>7 DEF JobOK, ShapeOK
  <2>9. ProgressOK(j)'
    <3>1. obj[j] # "failed"
      BY <2>7, <2>1 DEF JobOK, ProgressOK
    <3> QED BY <2>1, <2>4, <2>5, <2>7, <3>1 DEF JobOK, ProgressOK
  <2>10. AppliedOK(j)'
    <3>1. ASSUME NEW k \in Keys, tx[j][k] \notin {Same, None}
          PROVE  tx[j][k].val \in accepted'[k]
      BY <2>2, <2>7, <3>1 DEF JobOK, AppliedOK
    <3> QED BY <2>1, <2>2, <2>4, <2>7, <3>1 DEF AppliedOK
  <2>11. StoredOK(j)'
    <3>1. ASSUME NEW k \in Keys \ shared, tx[j][k] \notin {Same, None}, Key(j) # k
          PROVE  Rec(k, tx[j][k].val, tx[j][k].pid) \in prov'
      <4>1. Rec(k, tx[j][k].val, tx[j][k].pid) \in prov /\ prov \subseteq Provs
        BY <2>1, <2>7, <3>1, Types DEF JobOK, StoredOK, Inv
      <4>2. Rec(k, tx[j][k].val, tx[j][k].pid).key = k
        BY DEF Rec
      <4> QED BY <2>2, <3>1, <4>1, <4>2
    <3> QED BY <2>1, <2>2, <2>4, <2>7, <3>1 DEF StoredOK
  <2>12. JobOK(j)'
    BY <2>8, <2>9, <2>10, <2>11 DEF JobOK
  <2>13. RowsWereApplied'
    BY <2>1, <2>2 DEF Inv, RowsWereApplied
  <2>14. DriftHasCause'
    BY <2>1, <2>2, <2>3, DirtyDrift
  <2> QED BY <2>1, <2>2, <2>3, <2>4, <2>5, <2>6, <2>12, <2>13, <2>14, TaskStep
<1> QED BY <1>1, <1>2

LEMMA AnswerLost ==
    ASSUME Inv, NEW j \in Jobs, Active(j), answer_lost(j)
    PROVE  Inv'
<1> DEFINE K == Key(j)
<1>1. /\ AttemptFails(j) /\ faults < MaxFaults /\ faults' = faults + 1
      /\ dirty' = dirty \cup {K}
      /\ UNCHANGED <<zone, zones, row, dbjob, req, plan, handled, shared>>
  BY DEF answer_lost, db
<1>2. /\ K \in Keys /\ K \in PlanKeys(plan[j]) /\ prov \subseteq Provs /\ dirty \subseteq Keys
      /\ accepted \in [Keys -> SUBSET Values] /\ faults \in 0..MaxFaults
      /\ ProvAccepted /\ OneRecord
  BY Types, AtRecord DEF Inv
<1>3. /\ prov' \subseteq Provs /\ accepted' \in [Keys -> SUBSET Values]
      /\ \A k \in Keys : accepted[k] \subseteq accepted'[k]
      /\ \A r \in Provs : r.key # K => (r \in prov <=> r \in prov')
      /\ ProvAccepted' /\ OneRecord'
  <2>1. CASE /\ task[j].pc = "write" /\ ProviderAccepts(j) /\ ProviderUpsert(j)
             /\ accepted' = [accepted EXCEPT ![Key(j)] = @ \cup {Cur(j).val}]
    BY <1>1, <2>1, Upserted
  <2>2. CASE prov' = prov \ Removed(j) /\ accepted' = accepted
    BY <1>1, <1>2, <2>2 DEF Removed, ProvAccepted, OneRecord
  <2> QED BY <2>1, <2>2 DEF answer_lost
<1>4. JobOK(j)'
  BY <1>1, FailsJobOK
<1>5. TypeOK'
  <2>1. faults' \in 0..MaxFaults
    BY <1>1, <1>2, Consts
  <2> QED BY <1>1, <1>2, <1>3, <2>1, Fails, Types, TypesNext DEF Inv
<1>6. RowsWereApplied'
  BY <1>1, <1>3 DEF Inv, RowsWereApplied
<1>7. DriftHasCause'
  BY <1>1, <1>2, <1>3, DirtyDrift
<1> QED BY <1>1, <1>2, <1>3, <1>4, <1>5, <1>6, <1>7, Fails, TaskStep

LEMMA DeleteRecord ==
    ASSUME Inv, NEW j \in Jobs, Active(j), delete_record(j)
    PROVE  Inv'
<1> DEFINE K == Key(j)
<1>0. faults \in 0..MaxFaults
  BY Types DEF Inv
<1>1. CASE Removed(j) = {}
  BY <1>0, <1>1, PlainFailure DEF delete_record, history
<1>2. CASE Removed(j) # {}
  <2>1. /\ task[j].pc = "remove" /\ prov' = prov \ Removed(j)
        /\ handled' = [handled EXCEPT ![j] = handled[j] \cup {K}]
        /\ dirty' = dirty \cup {K} /\ task' = [task EXCEPT ![j].pc = "drop"]
        /\ UNCHANGED <<obj, tx, zone, zones, row, dbjob, req, plan, faults, accepted, shared>>
    BY <1>2 DEF delete_record, db
  <2>2. /\ task \in [Jobs -> Tasks] /\ handled \in [Jobs -> SUBSET Keys] /\ dirty \subseteq Keys
        /\ K \in Keys /\ K \in PlanKeys(plan[j]) /\ prov \subseteq Provs
    BY Types, AtRecord DEF Inv
  <2>3. /\ task' \in [Jobs -> Tasks] /\ \A m \in Jobs \ {j} : task'[m] = task[m]
        /\ task'[j].pc = "drop" /\ task'[j].i = task[j].i
    BY <2>1, <2>2 DEF Tasks, Working
  <2>4. /\ handled' \in [Jobs -> SUBSET Keys] /\ handled'[j] = handled[j] \cup {K}
        /\ \A m \in Jobs \ {j} : handled'[m] = handled[m]
    BY <2>1, <2>2
  <2>5. prov' \subseteq Provs /\ \A r \in Provs : r.key # K => (r \in prov <=> r \in prov')
    BY <2>1, <2>2 DEF Removed
  <2>6. TypeOK'
    BY <2>1, <2>2, <2>3, <2>4, <2>5, Types, TypesNext DEF Inv
  <2>7. Key(j)' = Key(j) /\ Cur(j)' = Cur(j) /\ Active(j)' /\ JobOK(j)
    BY <2>1, <2>3 DEF Key, Cur, Active, Working, Inv
  <2>8. plan[j].op = "delete" /\ obj[j] # "failed"
    BY <2>1, <2>7 DEF JobOK, ShapeOK, ProgressOK
  <2>9. ShapeOK(j)'
    BY <2>1, <2>3, <2>7, <2>8 DEF JobOK, ShapeOK
  <2>10. ProgressOK(j)'
    BY <2>1, <2>3, <2>4, <2>7, <2>8 DEF JobOK, ProgressOK
  <2>11. \A k \in Keys : tx[j][k] \in {Same, None}
    BY <2>7, <2>8 DEF JobOK, ShapeOK
  <2>12. AppliedOK(j)' /\ StoredOK(j)'
    BY <2>1, <2>3, <2>11 DEF AppliedOK, StoredOK
  <2>13. JobOK(j)'
    BY <2>9, <2>10, <2>12 DEF JobOK
  <2>14. ProvAccepted' /\ OneRecord' /\ RowsWereApplied'
    BY <2>1 DEF Inv, ProvAccepted, OneRecord, RowsWereApplied
  <2>15. DriftHasCause'
    BY <2>1, <2>2, <2>5, DirtyDrift
  <2> QED BY <2>1, <2>2, <2>3, <2>4, <2>5, <2>6, <2>13, <2>14, <2>15, TaskStep
<1> QED BY <1>1, <1>2

LEMMA StepFails ==
    ASSUME Inv, NEW j \in Jobs, step_fails(j)
    PROVE  Inv'
<1>1. faults' \in 0..MaxFaults
  BY Types, Consts DEF step_fails, Inv
<1> QED BY <1>1, PlainFailure DEF step_fails

LEMMA DeadlockDetected ==
    ASSUME Inv, NEW j \in Jobs, Active(j), deadlock_detected(j)
    PROVE  Inv'
<1>1. faults' \in 0..MaxFaults
  BY Types DEF deadlock_detected, Inv
<1> QED BY <1>1, PlainFailure DEF deadlock_detected

\* A write of one row in an attempt's transaction, which ends the record.
LEMMA WriteStep ==
    ASSUME Inv, NEW j \in Jobs, Active(j), Advance(j), Key(j) \in handled[j],
           NEW w \in Rows \cup {None, Same}, tx' = [tx EXCEPT ![j][Key(j)] = w],
           w \notin {Same, None} =>
             /\ plan[j].op = "upsert" /\ w.val \in accepted[Key(j)]
             /\ Key(j) \notin shared => Rec(Key(j), w.val, w.pid) \in prov,
           task[j].pc \in {"store", "drop"},
           UNCHANGED <<zone, zones, row, dbjob, prov, req, obj, plan, faults, accepted, handled,
                       shared, dirty>>
    PROVE  Inv'
<1> DEFINE K == Key(j)
<1>1. /\ tx \in [Jobs -> Writes] /\ K \in Keys /\ K \in PlanKeys(plan[j])
      /\ plan[j].op \in {"upsert", "delete"}
  BY Types, AtRecord DEF Inv, Plans
<1>2. /\ tx' \in [Jobs -> Writes] /\ tx'[j][K] = w
      /\ \A k \in Keys \ {K} : tx'[j][k] = tx[j][k]
      /\ \A m \in Jobs \ {j} : tx'[m] = tx[m]
  BY <1>1 DEF Writes
<1>3. /\ task' \in [Jobs -> Tasks] /\ \A m \in Jobs \ {j} : task'[m] = task[m]
      /\ \/ task'[j].pc = "finish" /\ PlanKeys(plan[j]) \subseteq handled[j]
         \/ task'[j].pc = FirstStep(j)
      /\ task'[j].i \in 1..Len(plan[j].recs)
      /\ \A n \in 1..(task'[j].i - 1) : plan[j].recs[n].key \in handled[j]
  BY Advances
<1>4. /\ FirstStep(j) \in {"find", "read"}
      /\ FirstStep(j) = "find" => plan[j].op = "upsert"
      /\ FirstStep(j) = "read" => plan[j].op = "delete"
  BY <1>1 DEF FirstStep
<1>5. TypeOK'
  BY <1>2, <1>3, Types, TypesNext DEF Inv
<1>6. JobOK(j) /\ obj[j] # "failed"
  BY DEF Inv, JobOK, ProgressOK, Active, Working
<1>7. ShapeOK(j)'
  <2>1. \A k \in Keys : tx'[j][k] # Same =>
           k \in PlanKeys(plan[j]) /\ (tx'[j][k] # None => plan[j].op = "upsert")
    BY <1>1, <1>2, <1>6 DEF JobOK, ShapeOK
  <2>2. req[j].pc \notin {"none", "sync"}
    BY <1>6 DEF JobOK, ShapeOK
  <2>3. Active(j)'
    BY <1>3, <1>4 DEF Active, Working
  <2> QED BY <1>3, <1>4, <2>1, <2>2, <2>3 DEF ShapeOK
<1>8. ProgressOK(j)'
  BY <1>3, <1>4, <1>6 DEF JobOK, ProgressOK
<1>9. AppliedOK(j)'
  <2>1. \A k \in Keys : tx'[j][k] \notin {Same, None} => tx'[j][k].val \in accepted[k]
    BY <1>2, <1>6 DEF JobOK, AppliedOK
  <2> QED BY <1>3, <1>4, <2>1 DEF AppliedOK
<1>10. StoredOK(j)'
  <2>1. \A k \in Keys \ shared : tx'[j][k] \notin {Same, None} =>
           Rec(k, tx'[j][k].val, tx'[j][k].pid) \in prov
    BY <1>2, <1>6 DEF JobOK, StoredOK
  <2> QED BY <1>3, <1>4, <2>1 DEF StoredOK
<1>11. JobOK(j)'
  BY <1>7, <1>8, <1>9, <1>10 DEF JobOK
<1> QED BY <1>2, <1>3, <1>5, <1>11, LocalStep

LEMMA StoreRecord ==
    ASSUME Inv, NEW j \in Jobs, Active(j), store_record(j)
    PROVE  Inv'
<1> DEFINE K == Key(j)
<1>1. CASE FlushConflicts(j)
  <2>1. faults' \in 0..MaxFaults
    BY Types DEF Inv, store_record
  <2> QED BY <1>1, <2>1, PlainFailure DEF store_record
<1>2. CASE ~FlushConflicts(j)
  <2> DEFINE rid == IF task[j].got # None THEN task[j].got.rid ELSE <<j, task[j].att>>
  <2>1. PICK w : w = [val |-> Cur(j).val, pid |-> task[j].found, rid |-> rid]
    OBVIOUS
  <2>2. /\ task[j].pc = "store" /\ tx' = [tx EXCEPT ![j][K] = w] /\ Advance(j)
        /\ UNCHANGED <<zone, zones, row, dbjob, prov, req, obj, plan, faults, accepted, handled,
                       shared, dirty>>
    BY <1>2, <2>1 DEF store_record, db, history
  <2>3. JobOK(j)
    BY DEF Inv
  <2>4. task[j].found \in Ids /\ Cur(j).val \in accepted[K] /\ Cur(j).val \in Values
    BY <2>2, <2>3, AtRecord DEF JobOK, AppliedOK
  <2>5. rid \in Ids
    <3>1. task[j] \in Tasks
      BY Types DEF Inv
    <3> QED BY <3>1, Consts DEF Tasks, Rows, Ids
  <2> HIDE DEF rid
  <2>6. w \in Rows /\ w.val = Cur(j).val /\ w.pid = task[j].found
    BY <2>1, <2>4, <2>5 DEF Rows
  <2>7. /\ plan[j].op = "upsert" /\ K \in handled[j]
        /\ K \notin shared => Rec(K, w.val, w.pid) \in prov
    BY <2>2, <2>3, <2>6 DEF JobOK, ShapeOK, ProgressOK, StoredOK
  <2> QED BY <2>2, <2>4, <2>6, <2>7, WriteStep
<1> QED BY <1>1, <1>2

LEMMA DeleteRecordBySpec ==
    ASSUME Inv, NEW j \in Jobs, Active(j), delete_record_by_spec(j)
    PROVE  Inv'
<1> DEFINE K == Key(j)
<1>1. /\ task[j].pc = "drop" /\ Advance(j)
      /\ UNCHANGED <<zone, zones, row, dbjob, prov, req, obj, plan, faults, accepted, handled,
                     shared, dirty>>
  BY DEF delete_record_by_spec, db, history
<1>2. JobOK(j) /\ tx \in [Jobs -> Writes] /\ K \in Keys
  BY Types, AtRecord DEF Inv
<1>3. K \in handled[j] /\ tx[j][K] \in {Same, None}
  BY <1>1, <1>2 DEF JobOK, ShapeOK, ProgressOK
<1>4. CASE tx' = tx
  <2>1. tx' = [tx EXCEPT ![j][K] = tx[j][K]]
    BY <1>2, <1>4 DEF Writes
  <2> QED BY <1>1, <1>3, <2>1, WriteStep
<1>5. CASE tx' = [tx EXCEPT ![j][K] = None]
  BY <1>1, <1>3, <1>5, WriteStep
<1> QED BY <1>4, <1>5 DEF delete_record_by_spec

LEMMA MarkSucceeded ==
    ASSUME Inv, NEW j \in Jobs, Active(j), mark_succeeded(j)
    PROVE  Inv'
<1>1. /\ task[j].pc = "finish" /\ obj' = [obj EXCEPT ![j] = "succeeded"]
      /\ task' = [task EXCEPT ![j].pc = "commit"]
      /\ UNCHANGED <<zone, zones, row, dbjob, prov, req, plan, tx, faults, accepted, handled,
                     shared, dirty>>
  BY DEF mark_succeeded, update_job_status, db, history
<1>2. /\ task \in [Jobs -> Tasks] /\ obj \in [Jobs -> {"pending", "succeeded", "failed"}]
      /\ JobOK(j)
  BY Types DEF Inv
<1>3. /\ task' \in [Jobs -> Tasks] /\ \A m \in Jobs \ {j} : task'[m] = task[m]
      /\ task'[j].pc = "commit" /\ task'[j].i = task[j].i
  BY <1>1, <1>2 DEF Tasks, Working
<1>4. /\ obj' \in [Jobs -> {"pending", "succeeded", "failed"}] /\ obj'[j] = "succeeded"
      /\ \A m \in Jobs \ {j} : obj'[m] = obj[m]
  BY <1>1, <1>2
<1>5. TypeOK'
  BY <1>1, <1>3, <1>4, Types, TypesNext DEF Inv
<1>6. Active(j)'
  BY <1>3 DEF Active, Working
<1>7. ShapeOK(j)'
  BY <1>1, <1>2, <1>3, <1>6 DEF JobOK, ShapeOK
<1>8. ProgressOK(j)'
  BY <1>1, <1>2, <1>3, <1>4, <1>6 DEF JobOK, ProgressOK
<1>9. AppliedOK(j)' /\ StoredOK(j)'
  BY <1>1, <1>2, <1>3 DEF JobOK, AppliedOK, StoredOK
<1>10. JobOK(j)'
  BY <1>7, <1>8, <1>9 DEF JobOK
<1> QED BY <1>1, <1>3, <1>4, <1>5, <1>10, LocalStep

LEMMA CommitAttempt ==
    ASSUME Inv, NEW j \in Jobs, Active(j), commit_attempt(j)
    PROVE  Inv'
<1>1. /\ task[j].pc = "commit"
      /\ row' = [k \in Keys |-> IF tx[j][k] = Same THEN row[k] ELSE tx[j][k]]
      /\ dirty' = {k \in dirty : tx[j][k] = Same}
      /\ tx' = [tx EXCEPT ![j] = NoWrites]
      /\ task' = [task EXCEPT ![j] = At("done", task[j].att)]
      /\ UNCHANGED <<zone, zones, dbjob, prov, req, obj, plan, faults, accepted, handled, shared>>
  BY DEF commit_attempt, history
<1>2. /\ task \in [Jobs -> Tasks] /\ tx \in [Jobs -> Writes] /\ dirty \subseteq Keys
      /\ row \in [Keys -> Rows \cup {None}] /\ JobOK(j)
  BY Types DEF Inv
<1>3. /\ task' \in [Jobs -> Tasks] /\ \A m \in Jobs \ {j} : task'[m] = task[m]
      /\ task'[j].pc = "done"
  <2>1. task[j].att \in 1..MaxAttempts
    BY <1>2 DEF Tasks
  <2>2. At("done", task[j].att) \in Tasks /\ At("done", task[j].att).pc = "done"
    BY <2>1, AtType
  <2> QED BY <1>1, <1>2, <2>2
<1>4. /\ tx' \in [Jobs -> Writes] /\ tx'[j] = NoWrites /\ \A m \in Jobs \ {j} : tx'[m] = tx[m]
  BY <1>1, <1>2, NoWritesType
<1>5. row' \in [Keys -> Rows \cup {None}]
  BY <1>1, <1>2 DEF Writes
<1>6. TypeOK'
  BY <1>1, <1>3, <1>4, <1>5, Types, TypesNext DEF Inv
<1>7. JobOK(j)'
  <2>1. req[j].pc \notin {"none", "sync"} /\ obj[j] # "failed" /\ ~Active(j)'
    BY <1>1, <1>2, <1>3 DEF JobOK, ShapeOK, ProgressOK, Active, Working
  <2>2. ShapeOK(j)'
    BY <1>1, <1>3, <1>4, <2>1, NoWritesType DEF ShapeOK
  <2>3. ProgressOK(j)'
    BY <1>1, <1>2, <1>3, <2>1 DEF JobOK, ProgressOK
  <2>4. AppliedOK(j)' /\ StoredOK(j)'
    BY <1>3, <1>4, NoWritesType DEF AppliedOK, StoredOK
  <2> QED BY <2>2, <2>3, <2>4 DEF JobOK
<1>8. ProvAccepted' /\ OneRecord'
  BY <1>1 DEF Inv, ProvAccepted, OneRecord
<1>9. RowsWereApplied'
  BY <1>1, <1>2 DEF Inv, RowsWereApplied, JobOK, AppliedOK
<1>10. DriftHasCause'
  <2> SUFFICES ASSUME NEW k \in Keys \ (shared \cup dirty'), row'[k] # None
               PROVE  [key |-> k, val |-> row'[k].val, id |-> row'[k].pid] \in prov
    BY <1>1 DEF DriftHasCause
  <2>1. CASE tx[j][k] = Same
    BY <1>1, <2>1 DEF Inv, DriftHasCause
  <2>2. CASE tx[j][k] # Same
    BY <1>1, <1>2, <2>2 DEF JobOK, StoredOK, Rec
  <2> QED BY <2>1, <2>2
<1> QED BY <1>1, <1>3, <1>4, <1>6, <1>7, <1>8, <1>9, <1>10, TaskStep

------------------------------------------------------------------------------
\* A step that leaves the tasks and the provider alone.
LEMMA SideStep ==
    ASSUME Inv, TypeOK',
           UNCHANGED <<prov, obj, plan, task, tx, accepted, handled, dirty, shared>>,
           \A j \in Jobs : req'[j].pc \in {"none", "sync"} =>
             req[j].pc \in {"none", "sync"} /\ dbjob'[j] = None,
           ReportIsTrue', RowsWereApplied', DriftHasCause'
    PROVE  Inv'
<1>1. ASSUME NEW j \in Jobs PROVE JobOK(j)'
  <2>1. JobOK(j) /\ (Active(j)' <=> Active(j)) /\ Key(j)' = Key(j) /\ Cur(j)' = Cur(j)
    BY DEF Inv, Active, Key, Cur
  <2>2. ShapeOK(j)'
    BY <2>1 DEF JobOK, ShapeOK
  <2>3. ProgressOK(j)'
    BY <2>1 DEF JobOK, ProgressOK
  <2>4. AppliedOK(j)' /\ StoredOK(j)'
    BY <2>1 DEF JobOK, AppliedOK, StoredOK
  <2> QED BY <2>2, <2>3, <2>4 DEF JobOK
<1>2. Alone' /\ ProvAccepted' /\ OneRecord'
  BY DEF Inv, Alone, ProvAccepted, OneRecord, Active
<1> QED BY <1>1, <1>2 DEF Inv

\* A request starts its task: the names it shares with running tasks are marked.
LEMMA DispatchStep ==
    ASSUME Inv, NEW j \in Jobs, req[j].pc \in {"none", "sync"}, NEW p \in Plans, p.recs # <<>>,
           Dispatch(j, p), UNCHANGED <<db, prov, obj, tx, faults, accepted, handled, dirty>>
    PROVE  Inv'
<1> DEFINE Both == UNION {PlanKeys(p) \cap PlanKeys(plan[m]) : m \in {n \in Jobs \ {j} : Active(n)}}
<1>1. /\ plan' = [plan EXCEPT ![j] = p] /\ shared' = shared \cup Both
      /\ req' = [req EXCEPT ![j] = [pc |-> "open", snap |-> NoSnap]]
      /\ task' = [task EXCEPT ![j] = Started(1)]
      /\ UNCHANGED <<zone, zones, row, dbjob, prov, obj, tx, faults, accepted, handled, dirty>>
  BY DEF Dispatch, db
<1>2. /\ plan \in [Jobs -> Plans] /\ req \in [Jobs -> Requests] /\ task \in [Jobs -> Tasks]
      /\ shared \subseteq Keys /\ JobOK(j)
  BY Types DEF Inv
<1>3. PlanKeys(p) \subseteq Keys
  <2>1. p.recs \in Seq(Recs)
    BY DEF Plans
  <2>2. \A i \in DOMAIN p.recs : p.recs[i] \in Recs
    BY <2>1
  <2> QED BY <2>2 DEF Recs, PlanKeys, ToSet
<1>4. shared' \subseteq Keys
  BY <1>1, <1>2, <1>3
<1>5. /\ Started(1) \in Tasks /\ Started(1).pc = "begin" /\ Started(1).i = 1
  BY Consts, AtType DEF Started, Working
<1>6. /\ task' \in [Jobs -> Tasks] /\ task'[j] = Started(1)
      /\ \A m \in Jobs \ {j} : task'[m] = task[m]
  BY <1>1, <1>2, <1>5
<1>7. [pc |-> "open", snap |-> NoSnap] \in Requests
  BY Consts DEF Requests, NoSnap
<1>8. /\ req' \in [Jobs -> Requests] /\ req'[j].pc = "open"
      /\ \A m \in Jobs \ {j} : req'[m] = req[m]
  BY <1>1, <1>2, <1>7
<1>9. /\ plan' \in [Jobs -> Plans] /\ plan'[j] = p /\ \A m \in Jobs \ {j} : plan'[m] = plan[m]
  BY <1>1, <1>2
<1>10. TypeOK'
  BY <1>1, <1>4, <1>6, <1>8, <1>9, Types, TypesNext DEF Inv
<1>11. /\ ~Active(j) /\ dbjob[j] = None /\ obj[j] = "pending" /\ tx[j] = NoWrites
  BY <1>2 DEF JobOK, ShapeOK
<1>12. JobOK(j)'
  <2>1. Len(p.recs) \in Nat \ {0}
    BY DEF Plans
  <2>2. ShapeOK(j)'
    BY <1>1, <1>5, <1>6, <1>8, <1>9, <1>11, <2>1, NoWritesType DEF ShapeOK, Active, Working
  <2>3. ProgressOK(j)'
    BY <1>1, <1>5, <1>6, <1>11 DEF ProgressOK
  <2>4. AppliedOK(j)' /\ StoredOK(j)'
    BY <1>1, <1>5, <1>6, <1>11, NoWritesType DEF AppliedOK, StoredOK
  <2> QED BY <2>2, <2>3, <2>4 DEF JobOK
<1>13. ASSUME NEW m \in Jobs, m # j PROVE JobOK(m)'
  <2>1. /\ JobOK(m) /\ (Active(m)' <=> Active(m)) /\ Key(m)' = Key(m) /\ Cur(m)' = Cur(m)
        /\ task'[m] = task[m] /\ plan'[m] = plan[m] /\ req'[m] = req[m]
    BY <1>6, <1>8, <1>9, <1>13 DEF Inv, Active, Key, Cur
  <2>2. ShapeOK(m)'
    BY <1>1, <2>1 DEF JobOK, ShapeOK
  <2>3. ProgressOK(m)'
    BY <1>1, <2>1 DEF JobOK, ProgressOK
  <2>4. AppliedOK(m)'
    BY <1>1, <2>1 DEF JobOK, AppliedOK
  <2>5. StoredOK(m)'
    BY <1>1, <2>1 DEF JobOK, StoredOK
  <2> QED BY <2>2, <2>3, <2>4, <2>5 DEF JobOK
<1>14. Alone'
  <2>1. \A m \in Jobs \ {j} : Active(m) => PlanKeys(p) \cap PlanKeys(plan[m]) \subseteq shared'
    BY <1>1
  <2>2. \A m \in Jobs \ {j} : (Active(m)' <=> Active(m)) /\ plan'[m] = plan[m]
    BY <1>6, <1>9 DEF Active
  <2>3. ASSUME NEW m \in Jobs, NEW n \in Jobs, m # n, Active(m)', Active(n)'
        PROVE  PlanKeys(plan'[m]) \cap PlanKeys(plan'[n]) \subseteq shared'
    <3>1. CASE m = j
      BY <1>9, <2>1, <2>2, <2>3, <3>1
    <3>2. CASE n = j
      BY <1>9, <2>1, <2>2, <2>3, <3>2
    <3>3. CASE m # j /\ n # j
      BY <1>1, <2>2, <2>3, <3>3 DEF Inv, Alone
    <3> QED BY <3>1, <3>2, <3>3
  <2> QED BY <2>3 DEF Alone
<1>15. ReportIsTrue'
  <2> SUFFICES ASSUME NEW m \in Jobs
               PROVE  /\ dbjob'[m] = "succeeded" => PlanKeys(plan'[m]) \subseteq handled'[m]
                      /\ dbjob'[m] = "failed" => task'[m].pc = "done" /\ task'[m].att = MaxAttempts
    BY DEF ReportIsTrue
  <2>1. CASE m = j
    BY <1>1, <1>11, <2>1, Consts
  <2>2. CASE m # j
    BY <1>1, <1>6, <1>9, <2>2 DEF Inv, ReportIsTrue
  <2> QED BY <2>1, <2>2
<1>16. ProvAccepted' /\ OneRecord' /\ RowsWereApplied' /\ DriftHasCause'
  BY <1>1 DEF Inv, ProvAccepted, OneRecord, RowsWereApplied, DriftHasCause
<1> QED BY <1>10, <1>12, <1>13, <1>14, <1>15, <1>16 DEF Inv

LEMMA BatchRequest ==
    ASSUME Inv, NEW j \in Jobs, batch_upsert(j) \/ batch_delete(j)
    PROVE  Inv'
<1>1. PICK b \in Batches, op \in {"upsert", "delete"} :
        Dispatch(j, [op |-> op, recs |-> Records(b, j)])
  BY DEF batch_upsert, batch_delete
<1>2. b \in Seq(Keys) /\ b # <<>>
  BY DnsAssumption
<1>3. Records(b, j) \in Seq(Recs) /\ Records(b, j) # <<>>
  <2>1. Len(b) \in Nat \ {0} /\ \A i \in 1..Len(b) : b[i] \in Keys
    BY <1>2
  <2>2. \A i \in 1..Len(b) : [key |-> b[i], val |-> j] \in Recs
    BY <2>1 DEF Recs, Values
  <2> QED BY <2>1, <2>2 DEF Records
<1>4. PICK p : p = [op |-> op, recs |-> Records(b, j)]
  OBVIOUS
<1>5. p \in Plans /\ p.recs # <<>>
  BY <1>3, <1>4 DEF Plans
<1>6. req[j].pc \in {"none", "sync"} /\ UNCHANGED <<db, prov, obj, tx, faults, accepted, handled, dirty>>
  BY DEF batch_upsert, batch_delete, Arrives
<1> QED BY <1>1, <1>4, <1>5, <1>6, DispatchStep

LEMMA SyncList ==
    ASSUME Inv, NEW j \in Jobs, sync_list(j)
    PROVE  Inv'
<1>1. PICK v \in [Keys -> {r.val : r \in prov} \cup {None}] :
        req' = [req EXCEPT ![j] = [pc |-> "sync", snap |-> [id |-> zone.id, val |-> v]]]
  BY DEF sync_list
<1>2. /\ req[j].pc = "none"
      /\ UNCHANGED <<zone, zones, row, dbjob, prov, obj, plan, task, tx, faults, accepted, handled,
                     shared, dirty>>
  BY DEF sync_list, Arrives, db, history
<1>3. req \in [Jobs -> Requests] /\ prov \subseteq Provs /\ zone \in Zones /\ JobOK(j)
  BY Types DEF Inv
<1>4. v \in [Keys -> Values \cup {None}] /\ zone.id \in 0..MaxZones
  BY <1>3 DEF Provs, Zones
<1>5. PICK q : q = [pc |-> "sync", snap |-> [id |-> zone.id, val |-> v]]
  OBVIOUS
<1>6. q \in Requests /\ q.pc = "sync"
  BY <1>4, <1>5 DEF Requests
<1>7. req' \in [Jobs -> Requests] /\ \A m \in Jobs \ {j} : req'[m] = req[m]
  BY <1>1, <1>3, <1>5, <1>6
<1>8. TypeOK'
  BY <1>2, <1>7, Types, TypesNext DEF Inv
<1>9. \A m \in Jobs : req'[m].pc \in {"none", "sync"} =>
        req[m].pc \in {"none", "sync"} /\ dbjob'[m] = None
  BY <1>2, <1>7 DEF Inv, JobOK, ShapeOK
<1>10. ReportIsTrue' /\ RowsWereApplied' /\ DriftHasCause'
  BY <1>2 DEF Inv, ReportIsTrue, RowsWereApplied, DriftHasCause
<1> QED BY <1>2, <1>8, <1>9, <1>10, SideStep

\* The sequence of a finite set lists its members.
LEMMA SequenceOf ==
    ASSUME NEW S, IsFiniteSet(S), S # {}
    PROVE  SetToSeq(S) \in Seq(S) /\ SetToSeq(S) # <<>>
<1>1. Cardinality(S) \in Nat /\ ExistsBijection(1..Cardinality(S), S)
  BY FS_CardinalityType
<1>2. \E f \in [1..Cardinality(S) -> S] : IsInjective(f)
  BY <1>1 DEF ExistsBijection, Bijection, Injection, IsInjective
<1>3. SetToSeq(S) \in [1..Cardinality(S) -> S]
  BY <1>2 DEF SetToSeq
<1>4. Cardinality(S) # 0
  BY FS_EmptySet
<1> QED BY <1>1, <1>3, <1>4

LEMMA SyncCompare ==
    ASSUME Inv, NEW j \in Jobs, sync_compare(j)
    PROVE  Inv'
<1> DEFINE snap == req[j].snap
           drift == {k \in Keys : zone.id = snap.id /\ row[k] # None /\ row[k].val # snap.val[k]}
           S == {[key |-> k, val |-> row[k].val] : k \in drift}
           fix == SetToSeq(S)
<1>1. req[j].pc = "sync" /\ UNCHANGED <<db, prov, obj, tx, faults, accepted, handled, dirty>>
  BY DEF sync_compare
<1>2. CASE drift # {} /\ Dispatch(j, [op |-> "upsert", recs |-> fix])
  <2>1. row \in [Keys -> Rows \cup {None}]
    BY Types DEF Inv
  <2>2. S \subseteq Recs
    BY <2>1 DEF Recs, Rows
  <2>3. IsFiniteSet(S) /\ S # {}
    <3>1. IsFiniteSet(drift)
      BY DnsAssumption, FS_Subset
    <3>2. PICK f : f = [k \in drift |-> [key |-> k, val |-> row[k].val]]
      OBVIOUS
    <3>3. f \in Surjection(drift, S)
      BY <3>2 DEF Surjection
    <3> HIDE DEF drift, S
    <3>4. IsFiniteSet(S)
      BY <3>1, <3>3, FS_Surjection
    <3> QED BY <1>2, <3>4 DEF S
  <2>4. fix \in Seq(Recs) /\ fix # <<>>
    <3> HIDE DEF S
    <3>1. fix \in Seq(S) /\ fix # <<>>
      BY <2>3, SequenceOf
    <3> HIDE DEF fix
    <3> QED BY <2>2, <3>1
  <2> HIDE DEF fix
  <2>5. PICK p : p = [op |-> "upsert", recs |-> fix]
    OBVIOUS
  <2>6. p \in Plans /\ p.recs # <<>> /\ Dispatch(j, p)
    BY <1>2, <2>4, <2>5 DEF Plans
  <2> QED BY <1>1, <2>6, DispatchStep
<1>3. CASE /\ req' = [req EXCEPT ![j] = [pc |-> "lost", snap |-> NoSnap]]
           /\ UNCHANGED <<plan, task, shared>>
  <2>1. UNCHANGED <<zone, zones, row, dbjob, prov, obj, plan, task, tx, faults, accepted, handled,
                    shared, dirty>>
    BY <1>1, <1>3 DEF db
  <2>2. [pc |-> "lost", snap |-> NoSnap] \in Requests
    BY Consts DEF Requests, NoSnap
  <2>3. req \in [Jobs -> Requests]
    BY Types DEF Inv
  <2>4. /\ req' \in [Jobs -> Requests] /\ \A m \in Jobs \ {j} : req'[m] = req[m]
        /\ req'[j].pc = "lost"
    BY <1>3, <2>2, <2>3
  <2>5. TypeOK'
    BY <2>1, <2>4, Types, TypesNext DEF Inv
  <2>6. \A m \in Jobs : req'[m].pc \in {"none", "sync"} =>
          req[m].pc \in {"none", "sync"} /\ dbjob'[m] = None
    BY <2>1, <2>4 DEF Inv, JobOK, ShapeOK
  <2>7. ReportIsTrue' /\ RowsWereApplied' /\ DriftHasCause'
    BY <2>1 DEF Inv, ReportIsTrue, RowsWereApplied, DriftHasCause
  <2> QED BY <2>1, <2>5, <2>6, <2>7, SideStep
<1> QED BY <1>2, <1>3 DEF sync_compare

LEMMA EndRequest ==
    ASSUME Inv, NEW j \in Jobs, end_request(j) \/ lose_request(j)
    PROVE  Inv'
<1>1. /\ req[j].pc = "open"
      /\ UNCHANGED <<zone, zones, row, prov, obj, plan, task, tx, accepted, handled, shared, dirty>>
      /\ \E s \in {"committed", "lost"} : req' = [req EXCEPT ![j].pc = s]
      /\ dbjob' = dbjob \/ dbjob' = [dbjob EXCEPT ![j] = obj[j]]
  BY DEF end_request, lose_request, db, history
<1>2. /\ req \in [Jobs -> Requests] /\ obj \in [Jobs -> {"pending", "succeeded", "failed"}]
      /\ dbjob \in [Jobs -> {"pending", "succeeded", "failed", None}] /\ JobOK(j)
      /\ faults \in 0..MaxFaults
  BY Types DEF Inv
<1>3. /\ req' \in [Jobs -> Requests] /\ \A m \in Jobs \ {j} : req'[m] = req[m]
      /\ req'[j].pc \in {"committed", "lost"}
  BY <1>1, <1>2 DEF Requests
<1>4. /\ dbjob' \in [Jobs -> {"pending", "succeeded", "failed", None}]
      /\ dbjob'[j] = dbjob[j] \/ dbjob'[j] = obj[j]
      /\ \A m \in Jobs \ {j} : dbjob'[m] = dbjob[m]
  BY <1>1, <1>2
<1>5. faults' \in 0..MaxFaults
  BY <1>2, Consts DEF end_request, lose_request
<1>6. TypeOK'
  BY <1>1, <1>3, <1>4, <1>5, Types, TypesNext DEF Inv
<1>7. \A m \in Jobs : req'[m].pc \in {"none", "sync"} =>
        req[m].pc \in {"none", "sync"} /\ dbjob'[m] = None
  BY <1>3, <1>4 DEF Inv, JobOK, ShapeOK
<1>8. ReportIsTrue'
  BY <1>1, <1>2, <1>4 DEF Inv, ReportIsTrue, JobOK, ProgressOK
<1>9. RowsWereApplied' /\ DriftHasCause'
  BY <1>1 DEF Inv, RowsWereApplied, DriftHasCause
<1> QED BY <1>1, <1>6, <1>7, <1>8, <1>9, SideStep

LEMMA UnregisterZone ==
    ASSUME Inv, unregister_zone
    PROVE  Inv'
<1>1. /\ zone' = NoZone /\ row' = [k \in Keys |-> None] /\ dbjob' = [j \in Jobs |-> None]
      /\ faults < MaxFaults /\ faults' = faults + 1
      /\ UNCHANGED <<zones, prov, req, obj, plan, task, tx, accepted, handled, shared, dirty>>
  BY DEF unregister_zone, history
<1>2. zone' \in Zones /\ faults' \in 0..MaxFaults
  BY <1>1, Consts, Types DEF Inv, NoZone, Zones
<1>3. TypeOK'
  BY <1>1, <1>2, Types, TypesNext DEF Inv
<1>4. ReportIsTrue' /\ RowsWereApplied' /\ DriftHasCause'
  BY <1>1, Consts DEF ReportIsTrue, RowsWereApplied, DriftHasCause
<1>5. \A j \in Jobs : dbjob'[j] = None /\ req'[j] = req[j]
  BY <1>1
<1> QED BY <1>1, <1>3, <1>4, <1>5, SideStep

LEMMA CreateZone ==
    ASSUME Inv, create_zone
    PROVE  Inv'
<1>1. /\ zones < MaxZones /\ zones' = zones + 1 /\ zone' = [id |-> zones + 1, resolved |-> FALSE]
      /\ UNCHANGED <<row, dbjob, prov, req, obj, plan, task, tx, faults, accepted, handled,
                     shared, dirty>>
  BY DEF create_zone, history
<1>2. zone' \in Zones /\ zones' \in 1..MaxZones
  BY <1>1, Consts, Types DEF Inv, Zones
<1>3. TypeOK'
  BY <1>1, <1>2, Types, TypesNext DEF Inv
<1>4. ReportIsTrue' /\ RowsWereApplied' /\ DriftHasCause'
  BY <1>1 DEF Inv, ReportIsTrue, RowsWereApplied, DriftHasCause
<1>5. \A j \in Jobs : req'[j].pc \in {"none", "sync"} => dbjob'[j] = None
  BY <1>1 DEF Inv, JobOK, ShapeOK
<1> QED BY <1>1, <1>3, <1>4, <1>5, SideStep

LEMMA ImportZones ==
    ASSUME Inv, import_provider_zones
    PROVE  Inv'
<1> DEFINE Imported(x) == [val |-> x.val, pid |-> x.id, rid |-> <<None, zones + 1>>]
<1>1. /\ zones < MaxZones /\ zones' = zones + 1 /\ zone' = [id |-> zones + 1, resolved |-> TRUE]
      /\ UNCHANGED <<dbjob, prov, req, obj, plan, task, tx, faults, accepted, handled, shared, dirty>>
  BY DEF import_provider_zones, history
<1>2. PICK new \in [Keys -> prov \cup {None}] :
        /\ \/ \A k \in Keys : new[k] = None
           \/ \A k \in Keys :
                LET recs == {x \in prov : x.key = k}
                IN IF recs = {} THEN new[k] = None ELSE new[k] \in recs
        /\ row' = [k \in Keys |-> IF new[k] = None THEN None
                                  ELSE [val |-> new[k].val, pid |-> new[k].id,
                                        rid |-> <<None, zones'>>]]
  BY DEF import_provider_zones
<1>3. prov \subseteq Provs /\ zones \in 1..MaxZones /\ ProvAccepted
  BY Types DEF Inv
<1>4. \A k \in Keys : new[k] = None \/ (new[k] \in prov /\ new[k].key = k)
  <2>1. CASE \A k \in Keys : new[k] = None
    BY <2>1
  <2>2. CASE \A k \in Keys :
               LET recs == {x \in prov : x.key = k}
               IN IF recs = {} THEN new[k] = None ELSE new[k] \in recs
    BY <2>2
  <2> QED BY <1>2, <2>1, <2>2
<1>5. row' = [k \in Keys |-> IF new[k] = None THEN None ELSE Imported(new[k])]
  BY <1>1, <1>2
<1>6. \A x \in prov : Imported(x) \in Rows /\ Imported(x).val = x.val /\ Imported(x).pid = x.id
  BY <1>3, Consts DEF Provs, Rows, Ids
<1> HIDE DEF Imported
<1>7. \A k \in Keys : \/ row'[k] = None
                      \/ row'[k] = Imported(new[k]) /\ new[k] \in prov /\ new[k].key = k
  BY <1>4, <1>5
<1>8. row' \in [Keys -> Rows \cup {None}]
  BY <1>4, <1>5, <1>6
<1>9. zone' \in Zones /\ zones' \in 1..MaxZones
  BY <1>1, <1>3, Consts DEF Zones
<1>10. TypeOK'
  BY <1>1, <1>8, <1>9, Types, TypesNext DEF Inv
<1>11. RowsWereApplied'
  BY <1>1, <1>3, <1>6, <1>7 DEF RowsWereApplied, ProvAccepted
<1>12. DriftHasCause'
  <2>1. \A x \in prov : [key |-> x.key, val |-> x.val, id |-> x.id] = x
    BY <1>3 DEF Provs
  <2> QED BY <1>1, <1>6, <1>7, <2>1 DEF DriftHasCause
<1>13. ReportIsTrue'
  BY <1>1 DEF Inv, ReportIsTrue
<1>14. \A j \in Jobs : req'[j].pc \in {"none", "sync"} => dbjob'[j] = None
  BY <1>1 DEF Inv, JobOK, ShapeOK
<1> QED BY <1>1, <1>10, <1>11, <1>12, <1>13, <1>14, SideStep

LEMMA Restart ==
    ASSUME Inv, restart
    PROVE  Inv'
<1>1. /\ faults < MaxFaults /\ faults' = faults + 1
      /\ task' = [j \in Jobs |-> IF Active(j) THEN At("dead", task[j].att) ELSE task[j]]
      /\ req' = [j \in Jobs |-> IF req[j].pc \in {"sync", "open"}
                                THEN [pc |-> "lost", snap |-> NoSnap] ELSE req[j]]
      /\ tx' = [j \in Jobs |-> NoWrites]
      /\ UNCHANGED <<zone, zones, row, dbjob, prov, obj, plan, accepted, handled, shared, dirty>>
  BY DEF restart, db, history
<1>2. task \in [Jobs -> Tasks] /\ req \in [Jobs -> Requests] /\ faults \in 0..MaxFaults
  BY Types DEF Inv
<1>3. \A j \in Jobs : At("dead", task[j].att) \in Tasks /\ At("dead", task[j].att).pc = "dead"
  <2>1. \A j \in Jobs : task[j].att \in 1..MaxAttempts
    BY <1>2 DEF Tasks
  <2> QED BY <2>1, AtType
<1>4. /\ task' \in [Jobs -> Tasks]
      /\ \A j \in Jobs : \/ Active(j) /\ task'[j].pc = "dead"
                         \/ ~Active(j) /\ task'[j] = task[j]
  BY <1>1, <1>2, <1>3
<1>5. [pc |-> "lost", snap |-> NoSnap] \in Requests
  BY Consts DEF Requests, NoSnap
<1>6. /\ req' \in [Jobs -> Requests]
      /\ \A j \in Jobs : req'[j].pc \in {"none", "sync"} => req[j].pc \in {"none", "sync"}
  BY <1>1, <1>2, <1>5
<1>7. tx' \in [Jobs -> Writes] /\ \A j \in Jobs : tx'[j] = NoWrites
  BY <1>1, NoWritesType
<1>8. faults' \in 0..MaxFaults
  BY <1>1, <1>2, Consts
<1>9. TypeOK'
  BY <1>1, <1>4, <1>6, <1>7, <1>8, Types, TypesNext DEF Inv
<1>10. \A j \in Jobs : ~Active(j)' /\ task'[j].pc \in {"off", "done", "dead"}
  BY <1>2, <1>4 DEF Active, Working, Tasks
<1>11. ASSUME NEW j \in Jobs PROVE JobOK(j)'
  <2>1. JobOK(j)
    BY DEF Inv
  <2>2. ShapeOK(j)'
    BY <1>1, <1>6, <1>7, <1>10, <2>1, NoWritesType DEF JobOK, ShapeOK
  <2>3. obj[j] = "failed" => task'[j].pc = "done" /\ task'[j].att = MaxAttempts
    BY <1>4, <2>1 DEF JobOK, ProgressOK, Active, Working
  <2>4. ProgressOK(j)'
    BY <1>1, <1>10, <2>1, <2>3 DEF JobOK, ProgressOK
  <2>5. AppliedOK(j)' /\ StoredOK(j)'
    BY <1>7, <1>10, NoWritesType DEF AppliedOK, StoredOK
  <2> QED BY <2>2, <2>4, <2>5 DEF JobOK
<1>12. ReportIsTrue'
  BY <1>1, <1>4 DEF Inv, ReportIsTrue, Active, Working
<1>13. Alone' /\ ProvAccepted' /\ OneRecord' /\ RowsWereApplied' /\ DriftHasCause'
  BY <1>1, <1>10 DEF Inv, Alone, ProvAccepted, OneRecord, RowsWereApplied, DriftHasCause
<1> QED BY <1>9, <1>11, <1>12, <1>13 DEF Inv

------------------------------------------------------------------------------
LEMMA InvInit == Init => Inv
<1> SUFFICES ASSUME Init PROVE Inv
  OBVIOUS
<1>1. /\ zone = [id |-> 1, resolved |-> TRUE] /\ row = [k \in Keys |-> None]
      /\ dbjob = [j \in Jobs |-> None] /\ prov = {Foreign(k) : k \in Unmanaged}
      /\ accepted = [k \in Keys |-> IF k \in Unmanaged THEN {Ext} ELSE {}]
      /\ req = [j \in Jobs |-> [pc |-> "none", snap |-> NoSnap]]
      /\ obj = [j \in Jobs |-> "pending"] /\ plan = [j \in Jobs |-> NoPlan]
      /\ task = [j \in Jobs |-> Idle] /\ tx = [j \in Jobs |-> NoWrites]
      /\ zones = 1 /\ faults = 0 /\ handled = [j \in Jobs |-> {}] /\ dirty = {} /\ shared = {}
  BY DEF Init
<1>2. \A k \in Keys : Foreign(k) \in Provs /\ Foreign(k).key = k /\ Foreign(k).val = Ext
  BY DEF Foreign, Provs, Values, Ids
<1>3. prov \subseteq Provs /\ ProvAccepted /\ OneRecord
  <2>1. Unmanaged \subseteq Keys
    BY DnsAssumption
  <2> QED BY <1>1, <1>2, <2>1 DEF ProvAccepted, OneRecord
<1>4. Idle \in Tasks /\ Idle.pc = "off" /\ NoPlan \in Plans
  <2>1. NoZone \in Zones
    BY Consts DEF NoZone, Zones
  <2> QED BY <2>1, Consts DEF Idle, Tasks, NoPlan, Plans
<1>5. [pc |-> "none", snap |-> NoSnap] \in Requests
  BY Consts DEF Requests, NoSnap
<1>6. TypeOK
  <2>1. zone \in Zones /\ zones \in 1..MaxZones /\ faults \in 0..MaxFaults
    BY <1>1, Consts DEF Zones
  <2>2. accepted \in [Keys -> SUBSET Values]
    BY <1>1 DEF Values
  <2> QED BY <1>1, <1>3, <1>4, <1>5, <2>1, <2>2, NoWritesType, Types
<1>7. ASSUME NEW j \in Jobs PROVE JobOK(j)
  <2>1. task[j].pc = "off" /\ tx[j] = NoWrites /\ obj[j] = "pending" /\ plan[j] = NoPlan /\ dbjob[j] = None
    BY <1>1, <1>4
  <2> QED BY <2>1, NoWritesType DEF JobOK, ShapeOK, ProgressOK, AppliedOK, StoredOK, Active, Working
<1>8. Alone
  BY <1>1, <1>4 DEF Alone, Active, Working
<1>9. ReportIsTrue
  BY <1>1, Consts DEF ReportIsTrue
<1>10. RowsWereApplied /\ DriftHasCause
  BY <1>1 DEF RowsWereApplied, DriftHasCause
<1> QED BY <1>3, <1>6, <1>7, <1>8, <1>9, <1>10 DEF Inv

LEMMA InvStep == Inv /\ [Next]_vars => Inv'
<1> SUFFICES ASSUME Inv, [Next]_vars PROVE Inv'
  OBVIOUS
<1>1. ASSUME NEW j \in Jobs, Request(j) PROVE Inv'
  BY <1>1, BatchRequest, SyncList, SyncCompare, EndRequest DEF Request
<1>2. ASSUME NEW j \in Jobs, Step(j) PROVE Inv'
  BY <1>2, BeginAttempt, FindRecord, UpsertRecord, GetExisting, StoreRecord, ReadRow, DeleteRecord,
     DeleteRecordBySpec, MarkSucceeded, CommitAttempt, DeadlockDetected DEF Step
<1>3. ASSUME NEW j \in Jobs, answer_lost(j) PROVE Inv'
  <2>1. Active(j)
    BY <1>3 DEF answer_lost, Active, Working
  <2> QED BY <1>3, <2>1, AnswerLost
<1>4. CASE UNCHANGED vars
  <2>1. UNCHANGED <<zone, zones, row, dbjob, prov, req, obj, plan, task, tx, faults, accepted,
                    handled, shared, dirty>>
    BY <1>4 DEF vars, db, history
  <2>2. TypeOK'
    BY <2>1, Types, TypesNext DEF Inv
  <2>3. ReportIsTrue' /\ RowsWereApplied' /\ DriftHasCause'
    BY <2>1 DEF Inv, ReportIsTrue, RowsWereApplied, DriftHasCause
  <2>4. \A j \in Jobs : req'[j].pc \in {"none", "sync"} => dbjob'[j] = None
    BY <2>1 DEF Inv, JobOK, ShapeOK
  <2> QED BY <2>1, <2>2, <2>3, <2>4, SideStep
<1> QED BY <1>1, <1>2, <1>3, <1>4, StepFails, UnregisterZone, CreateZone, ImportZones, Restart DEF Next

\* What the code keeps true of tasks, uncommitted writes, rows and provider.
THEOREM DnsInvariant == Spec => []Inv
BY InvInit, InvStep, PTL DEF Spec

\* For any jobs, names, batches and faults: rows hold only what the provider took,
\* stored statuses are true, and a row differs from the provider only on a name two
\* tasks worked on at once or one whose last provider call no commit followed.
THEOREM DnsTablesAreTrue == Spec => []TablesAreTrue
<1>1. Inv => TablesAreTrue
  BY DEF Inv, TablesAreTrue
<1> QED BY <1>1, DnsInvariant, PTL

\* "Idempotent upsert": retries after any faults leave at most one record for a
\* name that two tasks never worked on at the same time.
THEOREM DnsUpsertIsIdempotent == Spec => []UpsertIsIdempotent
<1>1. Inv => UpsertIsIdempotent
  <2> SUFFICES ASSUME Inv, NEW k \in Keys \ shared
               PROVE  Cardinality({r \in prov : r.key = k}) <= 1
    BY DEF UpsertIsIdempotent
  <2>1. CASE {r \in prov : r.key = k} = {}
    BY <2>1, FS_EmptySet
  <2>2. CASE {r \in prov : r.key = k} # {}
    <3>1. PICK s \in prov : s.key = k
      BY <2>2
    <3>2. {r \in prov : r.key = k} = {s}
      BY <3>1 DEF Inv, OneRecord
    <3>3. Cardinality({s}) = 1
      BY FS_Singleton
    <3> QED BY <3>2, <3>3
  <2> QED BY <2>1, <2>2
<1> QED BY <1>1, DnsInvariant, PTL
=============================================================================
