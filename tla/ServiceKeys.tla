----------------------------- MODULE ServiceKeys -----------------------------
(* The external services registered with nexus (routers/service_integrations.py *)
(* of nexus_api), their keys, and the check of such a key by the secrets agent   *)
(* (get_service_identity), which also writes the usage log.                      *)
(*                                                                               *)
(* One service_id; its row, rules and usage log are the committed state of the   *)
(* database.  A request loads the row, works on its copy and commits, and other  *)
(* requests commit in between.  A commit writes the columns the request changed; *)
(* it fails with StaleDataError when the row is gone.  Keys are numbers, in the  *)
(* order they are generated; hash, prefix and ciphertext of a key are kept as    *)
(* the key they belong to.  Left out: names, descriptions, limits and the        *)
(* permission lists, which nothing reads; time: all usage is of today.           *)
EXTENDS Integers, FiniteSets

CONSTANTS
    ServiceReqs,    \* requests of administrators
    Callers,        \* requests of the service to the secrets agent
    MaxServiceOps,  \* bound: requests of administrators
    MaxServiceFaults \* bound: requests lost with their process, database errors

ASSUME ServiceAssumption ==
    IsFiniteSet(ServiceReqs) /\ MaxServiceOps \in Nat /\ MaxServiceFaults \in Nat

VARIABLES
    service,   \* the row of service_integrations
    rules,     \* service_permission_rules: the id of the service's row, is_active
    usage,     \* service_usage_log: the callers that were logged
    adminreq,  \* the requests of administrators
    caller,    \* the requests of the service
    keys,      \* keys generated so far
    serviceOps, serviceFaults,
    strays     \* history: usage committed while a delete was under way

serviceVars == <<service, rules, usage, adminreq, caller, keys, serviceOps, serviceFaults, strays>>

NoKey == 0
NoService == [id |-> 0]
Registered == service # NoService

\* ServiceIntegration; id is that of its first key
ServiceRow(id, hash, prefix, enc, active) ==
    [id |-> id, hash |-> hash, prefix |-> prefix, enc |-> enc, active |-> active]

\* key: the one generated or revealed; counts: what was counted; overtaken: history, the
\* key or the row was written by another request since it was loaded
IdleAdmin == [op |-> "none", pc |-> "idle", row |-> NoService, key |-> NoKey, doomed |-> {}, counts |-> <<>>,
              answer |-> "none", audited |-> FALSE, overtaken |-> FALSE]
IdleCaller == [pc |-> "idle", key |-> NoKey, row |-> NoService, answer |-> "none", logged |-> FALSE,
               excused |-> FALSE, inforce |-> FALSE]

ServiceInit ==
    /\ service \in {NoService, ServiceRow(1, 1, 1, NoKey, TRUE)}    \* none, or one from before api_key_enc
    /\ rules = {} /\ usage = {} /\ strays = {}
    /\ adminreq = [r \in ServiceReqs |-> IdleAdmin] /\ caller = [c \in Callers |-> IdleCaller]
    /\ keys = 1 /\ serviceOps = 0 /\ serviceFaults = 0

ServiceOps == {"create", "regenerate", "activate", "deactivate", "delete", "reveal", "read",
               "add rule", "patch rule", "drop rule"}

(* ---------------- administrators ---------------- *)

\* a request comes
AdminStarts(r, op) ==
    /\ adminreq[r].pc \in {"idle", "done"} /\ serviceOps < MaxServiceOps
    /\ serviceOps' = serviceOps + 1
    /\ adminreq' = [adminreq EXCEPT ![r] = [IdleAdmin EXCEPT !.op = op, !.pc = "load"]]
    /\ UNCHANGED <<service, rules, usage, caller, keys, serviceFaults, strays>>

AnswerAdmin(r, answer) == [adminreq EXCEPT ![r].pc = "done", ![r].answer = answer]

\* the row is loaded, 409 or 404, and what needs no further statement is done on the
\* copy: _generate_api_key, or the decryption of the key
AdminLoads(r) ==
    LET q == adminreq[r]
        new == q.op \in {"create", "regenerate"}
        refused == CASE q.op = "create" -> Registered
                     [] q.op = "reveal" -> ~Registered \/ service.enc = NoKey
                     [] OTHER -> ~Registered
        loaded == [q EXCEPT !.row = service,
                            !.pc = CASE q.op = "delete" -> "usage" [] q.op = "read" -> "count" [] OTHER -> "commit",
                            !.key = IF new THEN keys + 1 ELSE IF q.op = "reveal" THEN service.enc ELSE NoKey] IN
    /\ q.pc = "load"
    /\ IF refused THEN adminreq' = AnswerAdmin(r, "refused") /\ UNCHANGED keys
       ELSE adminreq' = [adminreq EXCEPT ![r] = loaded] /\ keys' = IF new THEN keys + 1 ELSE keys
    /\ UNCHANGED <<service, rules, usage, caller, serviceOps, serviceFaults, strays>>

\* reveal_key: the wrong password
AdminMistypes(r) ==
    /\ adminreq[r].pc = "load" /\ adminreq[r].op = "reveal"
    /\ adminreq' = AnswerAdmin(r, "refused")
    /\ UNCHANGED <<service, rules, usage, caller, keys, serviceOps, serviceFaults, strays>>

\* delete_service: the usage log is deleted, but not committed
DeletesUsage(r) ==
    /\ adminreq[r].pc = "usage"
    /\ adminreq' = [adminreq EXCEPT ![r].pc = "commit", ![r].doomed = usage]
    /\ UNCHANGED <<service, rules, usage, caller, keys, serviceOps, serviceFaults, strays>>

\* every other request that has loaded the row works on a copy that is no longer right
Overtakes(reqs, r) ==
    [s \in ServiceReqs |-> IF s # r /\ reqs[s].pc \notin {"idle", "load", "done"}
                           THEN [reqs[s] EXCEPT !.overtaken = TRUE] ELSE reqs[s]]

\* callers that have read the row of a service that is gone
Excuses == [c \in Callers |-> [caller[c] EXCEPT !.excused = @ \/ caller[c].pc = "log"]]

\* Variant: the ciphertext of the old key is kept.
KeyColumnsKeepEnc(row, key) == [row EXCEPT !.hash = key, !.prefix = key]

\* the three columns of a key are written together
KeyColumns(row, key) == [row EXCEPT !.hash = key, !.prefix = key, !.enc = key]

\* create_service: the row is inserted, unless service_id has been taken since
CommitsCreate(r) ==
    /\ adminreq[r].pc = "commit" /\ adminreq[r].op = "create"
    /\ LET key == adminreq[r].key IN
       IF Registered THEN adminreq' = AnswerAdmin(r, "failed") /\ UNCHANGED service
       ELSE /\ service' = ServiceRow(key, key, key, key, TRUE)
            /\ adminreq' = Overtakes([adminreq EXCEPT ![r].pc = "refresh"], r)
    /\ UNCHANGED <<rules, usage, caller, keys, serviceOps, serviceFaults, strays>>

Still(r) == service.id = adminreq[r].row.id

\* regenerate_key
CommitsKey(r) ==
    /\ adminreq[r].pc = "commit" /\ adminreq[r].op = "regenerate"
    /\ IF ~Still(r) THEN adminreq' = AnswerAdmin(r, "failed") /\ UNCHANGED service
       ELSE /\ service' = KeyColumns(service, adminreq[r].key)
            /\ adminreq' = Overtakes([adminreq EXCEPT ![r].pc = "refresh"], r)
    /\ UNCHANGED <<rules, usage, caller, keys, serviceOps, serviceFaults, strays>>

\* update_service: a value that equals the loaded one is not written at all
CommitsUpdate(r) ==
    LET q == adminreq[r]
        active == q.op = "activate" IN
    /\ q.pc = "commit" /\ q.op \in {"activate", "deactivate"}
    /\ IF q.row.active = active
       THEN adminreq' = [adminreq EXCEPT ![r].pc = "refresh"] /\ UNCHANGED service
       ELSE IF ~Still(r) THEN adminreq' = AnswerAdmin(r, "failed") /\ UNCHANGED service
       ELSE /\ service' = [service EXCEPT !.active = active]
            /\ adminreq' = Overtakes([adminreq EXCEPT ![r].pc = "refresh"], r)
    /\ UNCHANGED <<rules, usage, caller, keys, serviceOps, serviceFaults, strays>>

\* delete_service: the row goes, its rules with it (ON DELETE CASCADE), and the usage
\* the statement before had found; no error when the row is gone already
CommitsDelete(r) ==
    /\ adminreq[r].pc = "commit" /\ adminreq[r].op = "delete"
    /\ service' = IF Still(r) THEN NoService ELSE service
    /\ rules' = {rule \in rules : rule[1] # adminreq[r].row.id}
    /\ usage' = usage \ adminreq[r].doomed
    /\ caller' = Excuses
    /\ adminreq' = Overtakes(AnswerAdmin(r, "ok"), r)
    /\ UNCHANGED <<keys, serviceOps, serviceFaults, strays>>

\* reveal_key: the audit row is committed, then the key shown
CommitsReveal(r) ==
    /\ adminreq[r].pc = "commit" /\ adminreq[r].op = "reveal"
    /\ adminreq' = [AnswerAdmin(r, "ok") EXCEPT ![r].audited = TRUE]
    /\ UNCHANGED <<service, rules, usage, caller, keys, serviceOps, serviceFaults, strays>>

\* create_rule, update_rule, delete_rule: they load the service, then the rule and write
\* it; a rule of a service that is gone violates the foreign key, or is not found
CommitsRule(r) ==
    LET q == adminreq[r]
        own == {rule \in rules : rule[1] = q.row.id} IN
    /\ q.pc = "commit" /\ q.op \in {"add rule", "patch rule", "drop rule"}
    /\ \/ /\ q.op = "add rule" /\ Still(r)
          /\ rules' = rules \cup {<<q.row.id, TRUE>>} /\ adminreq' = AnswerAdmin(r, "ok")
       \/ /\ q.op = "add rule" /\ ~Still(r) /\ UNCHANGED rules /\ adminreq' = AnswerAdmin(r, "failed")
       \/ /\ q.op # "add rule" /\ own = {} /\ UNCHANGED rules /\ adminreq' = AnswerAdmin(r, "refused")
       \/ \E rule \in own :
            /\ q.op # "add rule"
            /\ rules' = (rules \ {rule}) \cup (IF q.op = "patch rule" THEN {<<rule[1], ~rule[2]>>} ELSE {})
            /\ adminreq' = AnswerAdmin(r, "ok")
    /\ UNCHANGED <<service, usage, caller, keys, serviceOps, serviceFaults, strays>>

\* db.refresh, which fails when the row is gone; then _to_response
AdminRefreshes(r) ==
    /\ adminreq[r].pc = "refresh"
    /\ adminreq' = IF Registered /\ service.id = (IF adminreq[r].op = "create" THEN adminreq[r].key ELSE adminreq[r].row.id)
                   THEN [adminreq EXCEPT ![r].pc = "count", ![r].row = service]
                   ELSE AnswerAdmin(r, "failed")
    /\ UNCHANGED <<service, rules, usage, caller, keys, serviceOps, serviceFaults, strays>>

\* _get_usage_counts and get_usage: each window in a query of its own; the last one
\* comes before the answer, which shows the key that was generated
AdminCounts(r) ==
    LET counts == <<Cardinality(usage)>> IN
    /\ adminreq[r].pc = "count"
    /\ adminreq' = IF adminreq[r].counts = <<>> THEN [adminreq EXCEPT ![r].counts = counts]
                   ELSE [AnswerAdmin(r, "ok") EXCEPT ![r].counts = <<@[1], counts[1]>>]
    /\ UNCHANGED <<service, rules, usage, caller, keys, serviceOps, serviceFaults, strays>>

\* nexus_api is stopped: what was not committed is lost, and so is the answer
AdminIsLost(r) ==
    /\ adminreq[r].pc \notin {"idle", "done"} /\ serviceFaults < MaxServiceFaults
    /\ serviceFaults' = serviceFaults + 1
    /\ adminreq' = [adminreq EXCEPT ![r] = IdleAdmin]
    /\ UNCHANGED <<service, rules, usage, caller, keys, serviceOps, strays>>

(* ---------------- the secrets agent ---------------- *)

InForce(key) == Registered /\ service.hash = key /\ service.active

\* the service calls with one of its keys
ServiceCalls(c, key) ==
    /\ caller[c].pc \in {"idle", "done"} /\ c \notin usage
    /\ caller' = [caller EXCEPT ![c] = [IdleCaller EXCEPT !.pc = "check", !.key = key, !.inforce = InForce(key)]]
    /\ UNCHANGED <<service, rules, usage, adminreq, keys, serviceOps, serviceFaults, strays>>

\* get_service_identity: the row of this id and hash that is active; without one the
\* keys of the environment decide, of which a generated key is none
ChecksKey(c) ==
    /\ caller[c].pc = "check"
    /\ caller' = IF InForce(caller[c].key)
                 THEN [caller EXCEPT ![c].pc = "log", ![c].row = service, ![c].inforce = TRUE]
                 ELSE [caller EXCEPT ![c].pc = "done", ![c].answer = "401"]
    /\ UNCHANGED <<service, rules, usage, adminreq, keys, serviceOps, serviceFaults, strays>>

\* last_seen_at and the usage are committed; when the row is gone neither is, and the
\* exception is passed over: the caller was found and is let in
LogsUsage(c) ==
    LET there == service.id = caller[c].row.id IN
    /\ caller[c].pc = "log"
    /\ usage' = IF there THEN usage \cup {c} ELSE usage
    /\ caller' = [caller EXCEPT ![c].pc = "done", ![c].answer = "ok", ![c].logged = there]
    /\ strays' = IF \E r \in ServiceReqs : adminreq[r].op = "delete" /\ adminreq[r].pc = "commit"
                 THEN strays \cup {c} ELSE strays
    /\ UNCHANGED <<service, rules, adminreq, keys, serviceOps, serviceFaults>>

\* the database fails: before the caller is found it is refused, after it let in
CheckFails(c) ==
    /\ caller[c].pc \in {"check", "log"} /\ serviceFaults < MaxServiceFaults
    /\ serviceFaults' = serviceFaults + 1
    /\ caller' = [caller EXCEPT ![c].pc = "done", ![c].answer = IF caller[c].pc = "log" THEN "ok" ELSE "401",
                                ![c].excused = TRUE]
    /\ UNCHANGED <<service, rules, usage, adminreq, keys, serviceOps, strays>>

ServiceNext ==
    \/ \E r \in ServiceReqs :
         \/ \E op \in ServiceOps : AdminStarts(r, op)
         \/ AdminLoads(r) \/ AdminMistypes(r) \/ DeletesUsage(r)
         \/ CommitsCreate(r) \/ CommitsKey(r) \/ CommitsUpdate(r) \/ CommitsDelete(r)
         \/ CommitsReveal(r) \/ CommitsRule(r)
         \/ AdminRefreshes(r) \/ AdminCounts(r) \/ AdminIsLost(r)
    \/ \E c \in Callers :
         \/ \E key \in 1..keys : ServiceCalls(c, key)
         \/ ChecksKey(c) \/ LogsUsage(c) \/ CheckFails(c)

(* ---------------- properties ---------------- *)

\* The key that is checked, the one whose beginning is shown and the one that can be
\* revealed are the same, so that a key whose answer was lost can still be had.
KeyIsOne == Registered => service.prefix = service.hash /\ service.enc \in {service.hash, NoKey}

\* A key about to be shown is the one in force and the counts of a longer window are not
\* the smaller ones, unless another request wrote the row in the meantime; and a key
\* that was revealed is audited.
ShownIsInForce ==
    \A r \in ServiceReqs :
        LET q == adminreq[r] IN
        /\ q.pc = "count" /\ q.key # NoKey /\ ~q.overtaken => Registered /\ service.hash = q.key
        /\ q.pc = "done" /\ q.op = "read" /\ q.answer = "ok" /\ ~q.overtaken => q.counts[1] <= q.counts[2]
        /\ q.pc = "done" /\ q.op = "reveal" /\ q.answer = "ok" => q.audited /\ q.key # NoKey

\* Who is let in came with a key that was in force at some time of the call, and is in
\* the usage log then, unless the service was deleted or the database failed meanwhile.
CallersAreKnown ==
    \A c \in Callers : caller[c].answer = "ok" => caller[c].inforce /\ (caller[c].logged \/ caller[c].excused)

\* A service that is deleted leaves no usage behind for the next one of its name, except
\* what was committed while the delete was under way; rules never outlive it.
NothingIsInherited ==
    /\ ~Registered => usage \subseteq strays /\ rules = {}
    /\ \A rule \in rules : rule[1] = service.id

\* What the administrators of services and the services themselves rely on.
ServiceKeysHold == KeyIsOne /\ ShownIsInForce /\ CallersAreKnown /\ NothingIsInherited
=============================================================================
