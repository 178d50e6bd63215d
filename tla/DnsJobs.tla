------------------------------- MODULE DnsJobs -------------------------------
(* The DNS agent: requests create change jobs (api/records.py, api/sync.py)   *)
(* and start one asyncio task per job (jobs/runner.py), which calls the DNS   *)
(* provider and writes dns_records, a transaction per attempt.                *)
(*                                                                            *)
(* The job is one ORM object shared by two sessions' code: it belongs to the  *)
(* request's session, open until the request ends, while the task changes its *)
(* status.  Only a commit of the request's session can store that status.     *)
(* Record names are taken in the form the provider uses.  Requests refused    *)
(* with 404, 409 or 422 and dry runs change nothing and are left out.         *)
EXTENDS Integers, Sequences, FiniteSets, SequencesExt

CONSTANTS
    Jobs,         \* change jobs, one per request, numbered as requests come
    Keys,         \* (record_type, name) pairs of the one zone
    Batches,      \* key sequences a request may carry
    Unmanaged,    \* keys the provider has a record for before Nexus
    None,         \* absent row, value or id
    Ext,          \* the value of records made outside Nexus
    MaxAttempts,  \* job_max_attempts
    MaxZones,     \* bound: registrations of the zone
    MaxFaults     \* bound: errors of provider, vault or database, restarts
                  \* of the agent and unregistrations of the zone, together

ASSUME DnsAssumption ==
    /\ Jobs \subseteq Nat /\ IsFiniteSet(Keys) /\ Unmanaged \subseteq Keys
    /\ None \notin Jobs /\ Ext \notin Jobs /\ None # Ext
    /\ None \notin (Jobs \cup {None}) \X Nat /\ None \notin {"pending", "succeeded", "failed"}
    /\ \A b \in Batches : b \in Seq(Keys) /\ b # <<>>
    /\ MaxAttempts \in Nat \ {0} /\ MaxZones \in Nat \ {0}
    /\ MaxFaults \in Nat

VARIABLES
    zone,      \* dns_zones: id (0 when unregistered), provider_zone_id known
    row,       \* dns_records: key -> committed row
    dbjob,     \* dns_change_jobs: job -> committed status
    prov,      \* the provider's records
    req,       \* job -> its request
    obj,       \* job -> status of the shared ORM object
    plan,      \* job -> operation and records
    task,      \* job -> its background task
    tx,        \* job -> uncommitted writes of its attempt
    zones, faults,
    accepted,  \* history: key -> values the provider has taken
    handled,   \* history: job -> keys its provider calls are done for
    dirty,     \* history: keys changed at the provider and not committed since
    shared     \* history: keys two tasks worked on at the same time

db == <<zone, row, dbjob, zones>>
history == <<accepted, handled, shared>>
vars == <<db, prov, req, obj, plan, task, tx, faults, history, dirty>>

Values == Jobs \cup {Ext}
Ids == (Jobs \cup {None}) \X Nat
Rows == [val : Values, pid : Ids, rid : Ids]
Zones == [id : 0..MaxZones, resolved : BOOLEAN]
NoZone == [id |-> 0, resolved |-> FALSE]

\* No uncommitted write on the key.
Same == [same |-> TRUE]
NoWrites == [k \in Keys |-> Same]

Working == {"begin", "find", "write", "get", "store", "read", "remove", "drop", "finish", "commit"}
Idle == [pc |-> "off", att |-> 1, i |-> 1, zone |-> NoZone, found |-> None, got |-> None]
At(pc, n) == [Idle EXCEPT !.pc = pc, !.att = n]
Started(n) == At("begin", n)
NoPlan == [op |-> "upsert", recs |-> <<>>]
NoSnap == [id |-> 0, val |-> [k \in Keys |-> None]]

TypeOK ==
    /\ zone \in Zones
    /\ row \in [Keys -> Rows \cup {None}]
    /\ dbjob \in [Jobs -> {"pending", "succeeded", "failed", None}]
    /\ prov \subseteq [key : Keys, val : Values, id : Ids]
    /\ req \in [Jobs -> [pc : {"none", "sync", "open", "committed", "lost"},
                         snap : [id : 0..MaxZones, val : [Keys -> Values \cup {None}]]]]
    /\ obj \in [Jobs -> {"pending", "succeeded", "failed"}]
    /\ plan \in [Jobs -> [op : {"upsert", "delete"}, recs : Seq([key : Keys, val : Values])]]
    /\ task \in [Jobs -> [pc : Working \cup {"off", "done", "dead"}, att : 1..MaxAttempts,
                          i : Nat, zone : Zones, found : Ids \cup {None},
                          got : Rows \cup {None}]]
    /\ tx \in [Jobs -> [Keys -> Rows \cup {None, Same}]]
    /\ zones \in 1..MaxZones /\ faults \in 0..MaxFaults
    /\ accepted \in [Keys -> SUBSET Values] /\ handled \in [Jobs -> SUBSET Keys]
    /\ dirty \subseteq Keys /\ shared \subseteq Keys

Foreign(k) == [key |-> k, val |-> Ext, id |-> <<None, 0>>]

Init ==
    /\ zone = [id |-> 1, resolved |-> TRUE]
    /\ row = [k \in Keys |-> None]
    /\ dbjob = [j \in Jobs |-> None]
    /\ prov = {Foreign(k) : k \in Unmanaged}
    /\ accepted = [k \in Keys |-> IF k \in Unmanaged THEN {Ext} ELSE {}]
    /\ req = [j \in Jobs |-> [pc |-> "none", snap |-> NoSnap]]
    /\ obj = [j \in Jobs |-> "pending"]
    /\ plan = [j \in Jobs |-> NoPlan]
    /\ task = [j \in Jobs |-> Idle]
    /\ tx = [j \in Jobs |-> NoWrites]
    /\ zones = 1 /\ faults = 0
    /\ handled = [j \in Jobs |-> {}]
    /\ dirty = {} /\ shared = {}

Active(j) == task[j].pc \in Working
PlanKeys(p) == {r.key : r \in ToSet(p.recs)}
Cur(j) == plan[j].recs[task[j].i]
Key(j) == Cur(j).key

\* Another job's transaction holds the row's lock until it ends.
LockedFor(j, k) == \E m \in Jobs \ {j} : tx[m][k] # Same

\* store.get_record: the row of the zone the attempt loaded, as its own
\* transaction sees it.
get_record(j, k) ==
    IF tx[j][k] # Same THEN tx[j][k]
    ELSE IF zone.id = task[j].zone.id THEN row[k] ELSE None

------------------------------------------------------------------------------
\* Requests

\* store.create_job and dispatch_job: the row is flushed, not committed, and
\* the task is started.
Dispatch(j, p) ==
    /\ plan' = [plan EXCEPT ![j] = p]
    /\ req' = [req EXCEPT ![j] = [pc |-> "open", snap |-> NoSnap]]
    /\ task' = [task EXCEPT ![j] = Started(1)]
    /\ shared' = shared \cup
         UNION {PlanKeys(p) \cap PlanKeys(plan[m]) : m \in {n \in Jobs \ {j} : Active(n)}}

Arrives(j) == req[j].pc = "none" /\ \A m \in Jobs : m < j => req[m].pc # "none"

Records(b, v) == [i \in 1..Len(b) |-> [key |-> b[i], val |-> v]]

batch_upsert(j) ==
    /\ Arrives(j) /\ zone.id # 0
    /\ \E b \in Batches : Dispatch(j, [op |-> "upsert", recs |-> Records(b, j)])
    /\ UNCHANGED <<db, prov, obj, tx, faults, accepted, handled, dirty>>

batch_delete(j) ==
    /\ Arrives(j) /\ zone.id # 0
    /\ \E b \in Batches : Dispatch(j, [op |-> "delete", recs |-> Records(b, j)])
    /\ UNCHANGED <<db, prov, obj, tx, faults, accepted, handled, dirty>>

\* sync_zone, first half: the provider's records; of several with one key the
\* last of the listing stays in provider_map.
sync_list(j) ==
    /\ Arrives(j) /\ zone.id # 0 /\ zone.resolved
    /\ \E v \in [Keys -> {r.val : r \in prov} \cup {None}] :
         /\ \A k \in Keys :
              LET vals == {r.val : r \in {x \in prov : x.key = k}}
              IN IF vals = {} THEN v[k] = None ELSE v[k] \in vals
         /\ req' = [req EXCEPT ![j] = [pc |-> "sync", snap |-> [id |-> zone.id, val |-> v]]]
    /\ UNCHANGED <<db, prov, obj, plan, task, tx, faults, history, dirty>>

\* sync_zone, second half: the rows of the zone it loaded, the drift report,
\* and with reconcile a job that upserts the drifted records.
sync_compare(j) ==
    LET snap == req[j].snap
        drift == {k \in Keys : /\ zone.id = snap.id
                               /\ row[k] # None /\ row[k].val # snap.val[k]}
        fix == SetToSeq({[key |-> k, val |-> row[k].val] : k \in drift})
    IN /\ req[j].pc = "sync"
       /\ \/ /\ drift # {}
             /\ Dispatch(j, [op |-> "upsert", recs |-> fix])
          \/ /\ req' = [req EXCEPT ![j] = [pc |-> "lost", snap |-> NoSnap]]
             /\ UNCHANGED <<plan, task, shared>>
       /\ UNCHANGED <<db, prov, obj, tx, faults, accepted, handled, dirty>>

\* The request ends: its session flushes what the task has made of the job
\* object so far and commits.  From here on the object is detached.
end_request(j) ==
    /\ req[j].pc = "open"
    /\ req' = [req EXCEPT ![j].pc = "committed"]
    /\ dbjob' = [dbjob EXCEPT ![j] = obj[j]]
    /\ UNCHANGED <<zone, zones, row, prov, obj, plan, task, tx, faults, history, dirty>>

\* The commit fails; or log_audit swallowed a failed flush, which leaves the
\* session's transaction rolled back, and get_db closes it without an error.
\* The task runs on.
lose_request(j) ==
    /\ req[j].pc = "open" /\ faults < MaxFaults
    /\ req' = [req EXCEPT ![j].pc = "lost"]
    /\ faults' = faults + 1
    /\ UNCHANGED <<db, prov, obj, plan, task, tx, history, dirty>>

------------------------------------------------------------------------------
\* Zones

\* delete_zone: records and committed jobs go with the zone; it waits for the
\* transactions that hold locks on the zone's rows.
unregister_zone ==
    /\ zone.id # 0 /\ faults < MaxFaults
    /\ faults' = faults + 1
    /\ \A j \in Jobs : tx[j] = NoWrites
    /\ zone' = NoZone
    /\ row' = [k \in Keys |-> None]
    /\ dbjob' = [j \in Jobs |-> None]
    /\ UNCHANGED <<zones, prov, req, obj, plan, task, tx, history, dirty>>

\* The zone is registered only when the look-up of its provider id fails:
\* after an UPDATE with the id, updated_at is expired, the reply that reads it
\* raises, and the registration is rolled back.
create_zone ==
    /\ zone.id = 0 /\ zones < MaxZones
    /\ zones' = zones + 1
    /\ zone' = [id |-> zones', resolved |-> FALSE]
    /\ UNCHANGED <<row, dbjob, prov, req, obj, plan, task, tx, faults, history, dirty>>

\* The zone is registered with the records the provider lists, or with none
\* if it does not list them.
import_provider_zones ==
    /\ zone.id = 0 /\ zones < MaxZones
    /\ zones' = zones + 1
    /\ zone' = [id |-> zones', resolved |-> TRUE]
    /\ \E new \in [Keys -> prov \cup {None}] :
         /\ \/ \A k \in Keys : new[k] = None
            \/ \A k \in Keys :
                 LET recs == {x \in prov : x.key = k}
                 IN IF recs = {} THEN new[k] = None ELSE new[k] \in recs
         /\ row' = [k \in Keys |-> IF new[k] = None THEN None
                                   ELSE [val |-> new[k].val, pid |-> new[k].id,
                                         rid |-> <<None, zones'>>]]
    /\ UNCHANGED <<dbjob, prov, req, obj, plan, task, tx, faults, history, dirty>>

------------------------------------------------------------------------------
\* The task

\* store.update_job_status on the object; its flush stores nothing, because
\* the object is in the request's session.
update_job_status(j, s) == [obj EXCEPT ![j] = s]

\* Variant: attempts are not counted.
AttemptFailsAgain(j) ==
    /\ task' = [task EXCEPT ![j] = Started(1)]
    /\ tx' = [tx EXCEPT ![j] = NoWrites]
    /\ UNCHANGED obj

\* An exception inside the attempt: the transaction is rolled back, the next
\* attempt starts, or the job object is marked failed after the last one.
AttemptFails(j) ==
    LET last == task[j].att = MaxAttempts
    IN /\ task' = [task EXCEPT ![j] =
                     IF last THEN At("done", @.att)
                     ELSE Started(@.att + 1)]
       /\ obj' = IF last THEN update_job_status(j, "failed") ELSE obj
       /\ tx' = [tx EXCEPT ![j] = NoWrites]

FirstStep(j) == IF plan[j].op = "upsert" THEN "find" ELSE "read"

\* After a record: the next one, or the end of the loop.
Advance(j) ==
    task' = [task EXCEPT ![j] =
               IF @.i = Len(plan[j].recs) THEN At("finish", @.att)
               ELSE [task[j] EXCEPT !.pc = FirstStep(j), !.i = @ + 1, !.found = None, !.got = None]]

begin_attempt(j) ==
    /\ task[j].pc = "begin"
    /\ IF zone.id = 0 THEN AttemptFails(j)
       ELSE /\ task' = [task EXCEPT ![j].pc = FirstStep(j), ![j].zone = zone]
            /\ UNCHANGED <<obj, tx>>
    /\ UNCHANGED <<db, prov, req, plan, faults, history, dirty>>

\* Variant: the adapter does not look for the record.
find_nothing(j) ==
    /\ task[j].pc = "find"
    /\ task' = [task EXCEPT ![j].pc = "write", ![j].found = None]
    /\ UNCHANGED <<db, prov, req, obj, plan, tx, faults, history, dirty>>

\* adapter.find_record; without a provider zone id the call is refused.
find_record(j) ==
    /\ task[j].pc = "find"
    /\ LET ids == {r.id : r \in {x \in prov : x.key = Key(j)}}
       IN IF ~task[j].zone.resolved THEN AttemptFails(j)
          ELSE /\ \E f \in (IF ids = {} THEN {None} ELSE ids) :
                    task' = [task EXCEPT ![j].pc = "write", ![j].found = f]
               /\ UNCHANGED <<obj, tx>>
    /\ UNCHANGED <<db, prov, req, plan, faults, history, dirty>>

\* What adapter.upsert_record does at the provider: a change of the record
\* found, or a new record.  The provider refuses to change a record that is
\* gone and to add one that exists with the same content.
NewRecord(j) == [key |-> Key(j), val |-> Cur(j).val, id |-> <<j, task[j].att>>]

ProviderAccepts(j) ==
    IF task[j].found # None THEN \E r \in prov : r.key = Key(j) /\ r.id = task[j].found
    ELSE \A r \in prov : ~(r.key = Key(j) /\ r.val = Cur(j).val)

ProviderUpsert(j) ==
    prov' = IF task[j].found # None
            THEN {IF r.key = Key(j) /\ r.id = task[j].found
                  THEN [r EXCEPT !.val = Cur(j).val] ELSE r : r \in prov}
            ELSE prov \cup {NewRecord(j)}

RecordId(j) == IF task[j].found # None THEN task[j].found ELSE <<j, task[j].att>>

upsert_record(j) ==
    /\ task[j].pc = "write"
    /\ IF ProviderAccepts(j)
       THEN /\ ProviderUpsert(j)
            /\ accepted' = [accepted EXCEPT ![Key(j)] = @ \cup {Cur(j).val}]
            /\ handled' = [handled EXCEPT ![j] = @ \cup {Key(j)}]
            /\ dirty' = dirty \cup {Key(j)}
            /\ task' = [task EXCEPT ![j].pc = "get", ![j].found = RecordId(j)]
            /\ UNCHANGED <<obj, tx>>
       ELSE AttemptFails(j) /\ UNCHANGED <<prov, accepted, handled, dirty>>
    /\ UNCHANGED <<db, req, plan, faults, shared>>

\* store.upsert_record, first statement.
get_existing(j) ==
    /\ task[j].pc = "get"
    /\ task' = [task EXCEPT ![j].pc = "store", ![j].got = get_record(j, Key(j))]
    /\ UNCHANGED <<db, prov, req, obj, plan, tx, faults, history, dirty>>

\* store.upsert_record, its flush: an UPDATE of the row it has read, or an
\* INSERT.  The flush fails if that row is gone, or if another transaction has
\* inserted the key or removed the zone meanwhile.
FlushConflicts(j) ==
    LET now == get_record(j, Key(j))
    IN IF task[j].got # None THEN now = None \/ now.rid # task[j].got.rid
       ELSE now # None \/ zone.id # task[j].zone.id

\* Variant: an existing row keeps its value.
store_keeps_value(j) ==
    /\ task[j].pc = "store"
    /\ ~LockedFor(j, Key(j))
    /\ IF FlushConflicts(j) THEN AttemptFails(j)
       ELSE /\ tx' = [tx EXCEPT ![j][Key(j)] =
                        IF task[j].got # None THEN [task[j].got EXCEPT !.pid = task[j].found]
                        ELSE [val |-> Cur(j).val, pid |-> task[j].found,
                              rid |-> <<j, task[j].att>>]]
            /\ Advance(j)
            /\ UNCHANGED obj
    /\ UNCHANGED <<db, prov, req, plan, faults, history, dirty>>

store_record(j) ==
    /\ task[j].pc = "store"
    /\ ~LockedFor(j, Key(j))
    /\ IF FlushConflicts(j) THEN AttemptFails(j)
       ELSE /\ tx' = [tx EXCEPT ![j][Key(j)] =
                        [val |-> Cur(j).val, pid |-> task[j].found,
                         rid |-> IF task[j].got # None THEN task[j].got.rid
                                 ELSE <<j, task[j].att>>]]
            /\ Advance(j)
            /\ UNCHANGED obj
    /\ UNCHANGED <<db, prov, req, plan, faults, history, dirty>>

\* A delete job looks the row up; without a row there is nothing to delete at
\* the provider.
read_row(j) ==
    /\ task[j].pc = "read"
    /\ LET r == get_record(j, Key(j))
       IN /\ task' = [task EXCEPT ![j].pc = IF r = None THEN "drop" ELSE "remove", ![j].got = r]
          /\ handled' = IF r = None THEN [handled EXCEPT ![j] = @ \cup {Key(j)}] ELSE handled
    /\ UNCHANGED <<db, prov, req, obj, plan, tx, faults, accepted, shared, dirty>>

\* adapter.delete_record by the id in the row; the provider does not know the
\* id of a record that is gone.
Removed(j) == {r \in prov : r.key = Key(j) /\ r.id = task[j].got.pid}

delete_record(j) ==
    /\ task[j].pc = "remove"
    /\ IF Removed(j) # {}
       THEN /\ prov' = prov \ Removed(j)
            /\ handled' = [handled EXCEPT ![j] = @ \cup {Key(j)}]
            /\ dirty' = dirty \cup {Key(j)}
            /\ task' = [task EXCEPT ![j].pc = "drop"]
            /\ UNCHANGED <<obj, tx>>
       ELSE AttemptFails(j) /\ UNCHANGED <<prov, handled, dirty>>
    /\ UNCHANGED <<db, req, plan, faults, accepted, shared>>

delete_record_by_spec(j) ==
    /\ task[j].pc = "drop"
    /\ \/ /\ get_record(j, Key(j)) = None
          /\ UNCHANGED tx
       \/ /\ get_record(j, Key(j)) # None
          /\ ~LockedFor(j, Key(j))
          /\ tx' = [tx EXCEPT ![j][Key(j)] = None]
    /\ Advance(j)
    /\ UNCHANGED <<db, prov, req, obj, plan, faults, history, dirty>>

\* The job object is marked succeeded before the attempt commits.
mark_succeeded(j) ==
    /\ task[j].pc = "finish"
    /\ obj' = update_job_status(j, "succeeded")
    /\ task' = [task EXCEPT ![j].pc = "commit"]
    /\ UNCHANGED <<db, prov, req, plan, tx, faults, history, dirty>>

commit_attempt(j) ==
    /\ task[j].pc = "commit"
    /\ row' = [k \in Keys |-> IF tx[j][k] = Same THEN row[k] ELSE tx[j][k]]
    /\ dirty' = {k \in dirty : tx[j][k] = Same}
    /\ tx' = [tx EXCEPT ![j] = NoWrites]
    /\ task' = [task EXCEPT ![j] = At("done", @.att)]
    /\ UNCHANGED <<zone, zones, dbjob, prov, req, obj, plan, faults, history>>

\* Vault, provider or database fail a step without effect; the commit too.
step_fails(j) ==
    /\ Active(j) /\ task[j].pc # "finish" /\ faults < MaxFaults
    /\ faults' = faults + 1
    /\ AttemptFails(j)
    /\ UNCHANGED <<db, prov, req, plan, history, dirty>>

\* The provider does what it was asked and the answer is lost; the adapter's
\* own repetition of a POST or DELETE is then refused.
answer_lost(j) ==
    /\ faults < MaxFaults
    /\ \/ /\ task[j].pc = "write" /\ ProviderAccepts(j)
          /\ ProviderUpsert(j)
          /\ accepted' = [accepted EXCEPT ![Key(j)] = @ \cup {Cur(j).val}]
       \/ /\ task[j].pc = "remove"
          /\ prov' = prov \ Removed(j)
          /\ UNCHANGED accepted
    /\ faults' = faults + 1
    /\ dirty' = dirty \cup {Key(j)}
    /\ AttemptFails(j)
    /\ UNCHANGED <<db, req, plan, handled, shared>>

\* Postgres breaks a cycle of transactions that wait for each other's rows.
Waits(j) ==
    /\ \/ task[j].pc = "store"
       \/ task[j].pc = "drop" /\ get_record(j, Key(j)) # None
    /\ LockedFor(j, Key(j))

deadlock_detected(j) ==
    /\ \E S \in SUBSET Jobs :
         /\ j \in S
         /\ \A m \in S : Waits(m) /\ \E n \in S \ {m} : tx[n][Key(m)] # Same
    /\ AttemptFails(j)
    /\ UNCHANGED <<db, prov, req, plan, faults, history, dirty>>

\* The agent restarts: tasks, job objects and open sessions are gone.  The
\* start-up code does not look at dns_change_jobs.
restart ==
    /\ faults < MaxFaults
    /\ \E j \in Jobs : Active(j) \/ req[j].pc \in {"sync", "open"}
    /\ faults' = faults + 1
    /\ task' = [j \in Jobs |-> IF Active(j) THEN At("dead", task[j].att) ELSE task[j]]
    /\ req' = [j \in Jobs |-> IF req[j].pc \in {"sync", "open"}
                              THEN [pc |-> "lost", snap |-> NoSnap] ELSE req[j]]
    /\ tx' = [j \in Jobs |-> NoWrites]
    /\ UNCHANGED <<db, prov, obj, plan, history, dirty>>

------------------------------------------------------------------------------
Step(j) ==
    /\ Active(j)
    /\ \/ begin_attempt(j) \/ find_record(j) \/ upsert_record(j) \/ get_existing(j)
       \/ store_record(j) \/ read_row(j) \/ delete_record(j) \/ delete_record_by_spec(j)
       \/ mark_succeeded(j) \/ commit_attempt(j) \/ deadlock_detected(j)

Request(j) ==
    \/ batch_upsert(j) \/ batch_delete(j) \/ sync_list(j) \/ sync_compare(j)
    \/ end_request(j) \/ lose_request(j)

Next ==
    \/ \E j \in Jobs : Request(j) \/ Step(j) \/ step_fails(j) \/ answer_lost(j)
    \/ unregister_zone \/ create_zone \/ import_provider_zones \/ restart

Spec == Init /\ [][Next]_vars

\* The event loop runs every task that can go on; nothing makes clients call.
FairSpec == Spec /\ \A j \in Jobs : WF_vars(Step(j))

------------------------------------------------------------------------------
\* Every row of dns_records holds a value that the provider has accepted for
\* that name: a job writes the provider first and the row after it, and no
\* rollback, retry, lock wait or concurrent job leaves a row ahead of it.
RowsWereApplied == \A k \in Keys : row[k] # None => row[k].val \in accepted[k]

\* What GET /v1/jobs/{id} can show is true of the provider: a stored
\* "succeeded" means every record of the job went through there, a stored
\* "failed" that the task has used up its attempts, although the status is
\* stored by another session than the one that does the work.
ReportIsTrue ==
    \A j \in Jobs :
        /\ dbjob[j] = "succeeded" => PlanKeys(plan[j]) \subseteq handled[j]
        /\ dbjob[j] = "failed" => task[j].pc = "done" /\ task[j].att = MaxAttempts

\* "Idempotent upsert": whatever is retried after lost answers and restarts,
\* jobs that never overlap on a name leave at most one record for it.
UpsertIsIdempotent ==
    \A k \in Keys \ shared : Cardinality({r \in prov : r.key = k}) <= 1

\* Where Nexus and the provider disagree on a managed name, either two tasks
\* worked on it at once, or a provider call for it was not followed by a
\* commit; a retry that commits repairs the second kind.
DriftHasCause ==
    \A k \in Keys \ (shared \cup dirty) :
        row[k] # None => [key |-> k, val |-> row[k].val, id |-> row[k].pid] \in prov

\* Every dispatched task comes to an end, whatever fails, disappears or locks.
TasksEnd == \A j \in Jobs : Active(j) ~> ~Active(j)

\* What dns_records and dns_change_jobs say of the provider is so, as far as each
\* of these states it, and the state has its types.
TablesAreTrue == TypeOK /\ RowsWereApplied /\ ReportIsTrue /\ DriftHasCause
==============================================================================
