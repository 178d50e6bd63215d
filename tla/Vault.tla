-------------------------------- MODULE Vault --------------------------------
(* apps/secrets_agent: the secrets vault.  Every request runs in one database *)
(* session that get_vault_db commits when the handler returns and rolls back  *)
(* when it raises, an HTTPException included.  A request loads the policies,  *)
(* then the secret, decides, and commits; other requests commit in between    *)
(* (READ COMMITTED, no row is locked by a SELECT).                            *)
(*                                                                            *)
(* Column scope stands for the two columns tenant_id and env, which the code  *)
(* treats alike.  Patterns are the sets of aliases and scopes they match.     *)
(* Every encryption draws a fresh DEK, so a DEK and a ciphertext are named by *)
(* the request that produced them.  Metadata-only reads (list, get) are left  *)
(* out, and so are the columns no decision reads (description, timestamps).   *)
EXTENDS Integers, FiniteSets

CONSTANTS
    Reqs,        \* HTTP requests
    Services,    \* recognised caller identities
    Admins,      \* the identities with is_admin
    Stranger,    \* a caller whose key is not recognised
    Ids,         \* primary keys of vault_secrets
    Aliases,
    Scopes,
    None,        \* an unset column, or the producer of a seeded value
    PolicyIds,   \* primary keys of vault_policies
    Policy,      \* policy id -> its columns
    Calls,       \* the requests callers may make
    InitPolicies,\* policies active at the start
    SeedIds,     \* rows present at the start
    SeedName,    \* seed row -> its alias and scope
    MaxErrors    \* bound: failed statements, failed commits and crashes

Actions == {"read", "write", "rotate"}

Ops == {"create", "read", "read_by_alias", "update", "rotate", "delete"}

Names == [alias : Aliases, scope : Scopes]

\* The columns a PATCH body sets; None leaves a column alone.
Patches == [alias : Aliases \cup {None}, scope : Scopes \cup {None},
            value : BOOLEAN, is_active : BOOLEAN \cup {None}]

ASSUME VaultAssumption ==
    /\ Admins \subseteq Services
    /\ Stranger \notin Services
    /\ None \notin Reqs /\ None \notin Aliases \cup Scopes /\ None \notin BOOLEAN
    /\ IsFiniteSet(PolicyIds)
    /\ Policy \in [PolicyIds -> [services : SUBSET Services, aliases : SUBSET Aliases,
                                 scopes : SUBSET Scopes, actions : SUBSET Actions,
                                 priority : Int]]
    /\ Calls \subseteq [op : Ops, service : Services \cup {Stranger}, id : Ids,
                        name : Names, patch : Patches]
    /\ InitPolicies \subseteq PolicyIds
    /\ SeedIds \subseteq Ids
    /\ SeedName \in [SeedIds -> Names]
    /\ \A i, j \in SeedIds : SeedName[i] = SeedName[j] => i = j
    /\ MaxErrors \in Nat

VARIABLES
    secret,    \* id -> committed row of vault_secrets
    policies,  \* ids of the active vault_policies
    dropped,   \* ids of the policies deactivated so far
    req,       \* request -> its call and what it has loaded
    audit,     \* committed vault_audit_events
    errors     \* failed statements, commits and crashes so far

vars == <<secret, policies, dropped, req, audit, errors>>

Blobs == Reqs \cup {None}

Rows == [exists : BOOLEAN, alias : Aliases \cup {None}, scope : Scopes \cup {None},
         is_active : BOOLEAN, encrypted_dek : Blobs, ciphertext : Blobs]

NoRow == [exists |-> FALSE, alias |-> None, scope |-> None, is_active |-> FALSE,
          encrypted_dek |-> None, ciphertext |-> None]

AuditEvents == [req : Reqs, action : Actions \cup {"delete"}, result : {"allowed", "denied"}]

Failures == {"401", "403", "404", "409", "500"}

\* "cleared" is a create that found no active row with its name.  Field
\* revoked is history: the policies deactivated before the request began.
Requests == [pc : {"idle", "engine", "loaded", "allowed", "cleared", "ok"} \cup Failures,
             call : Calls \cup {None}, engine : SUBSET PolicyIds, revoked : SUBSET PolicyIds,
             row : Rows, pending : SUBSET AuditEvents]

TypeOK ==
    /\ secret \in [Ids -> Rows]
    /\ policies \subseteq PolicyIds
    /\ dropped \subseteq PolicyIds
    /\ req \in [Reqs -> Requests]
    /\ audit \subseteq AuditEvents
    /\ errors \in 0..MaxErrors

Closed == [pc |-> "idle", call |-> None, engine |-> {}, revoked |-> {},
           row |-> NoRow, pending |-> {}]

Init ==
    /\ secret = [i \in Ids |->
                   IF i \in SeedIds
                   THEN [exists |-> TRUE, alias |-> SeedName[i].alias, scope |-> SeedName[i].scope,
                         is_active |-> TRUE, encrypted_dek |-> None, ciphertext |-> None]
                   ELSE NoRow]
    /\ policies = InitPolicies
    /\ dropped = {}
    /\ req = [r \in Reqs |-> Closed]
    /\ audit = {}
    /\ errors = 0

-----------------------------------------------------------------------------
(* policy/engine.py                                                           *)

\* PolicyEngine.__init__: the loaded rows, highest priority first.  The query
\* has no ORDER BY, so rows of equal priority come in any order.
sorted_policies(ps) ==
    {f \in [1..Cardinality(ps) -> ps] :
        /\ \A p \in ps : \E n \in 1..Cardinality(ps) : f[n] = p
        /\ \A m, n \in 1..Cardinality(ps) : m < n => Policy[f[m]].priority >= Policy[f[n]].priority}

Matches(p, service, name) ==
    /\ service \in Policy[p].services
    /\ name.alias \in Policy[p].aliases
    /\ name.scope \in Policy[p].scopes

\* PolicyEngine.check over one sorted list: the first match decides, and
\* without a match access is denied.
check(order, service, action, name) ==
    \E n \in DOMAIN order :
        /\ Matches(order[n], service, name)
        /\ \A m \in DOMAIN order : m < n => ~Matches(order[m], service, name)
        /\ action \in Policy[order[n]].actions

-----------------------------------------------------------------------------
(* dependencies.py and audit/sink.py                                          *)

Event(r, action, result) == [req |-> r, action |-> action, result |-> result]

\* Variant: get_vault_db commits whatever the handler did.
commit_anyway(r, status) ==
    /\ req' = [req EXCEPT ![r] = [Closed EXCEPT !.pc = status, !.call = req[r].call]]
    /\ audit' = audit \cup req[r].pending
    /\ UNCHANGED secret

\* get_vault_db when the handler raises: nothing the session did survives.
rollback(r, status) ==
    /\ req' = [req EXCEPT ![r] = [Closed EXCEPT !.pc = status, !.call = req[r].call]]
    /\ UNCHANGED <<secret, audit>>

\* get_vault_db when the handler returns: the row and the audit event, together.
commit(r, rows, events) ==
    /\ secret' = rows
    /\ audit' = audit \cup events
    /\ req' = [req EXCEPT ![r].pc = "ok", ![r].pending = {}]

\* get_service_identity and get_policy_engine: the dependencies of every handler.
start(r, call) ==
    /\ req[r].pc = "idle"
    /\ req' = [req EXCEPT ![r] =
                 IF call.service = Stranger
                 THEN [Closed EXCEPT !.pc = "401", !.call = call]
                 ELSE [Closed EXCEPT !.pc = "engine", !.call = call,
                                     !.engine = policies, !.revoked = dropped]]
    /\ UNCHANGED <<secret, policies, dropped, audit, errors>>

\* A statement or a commit fails, or the process dies: the session is lost.  An
\* audit row that cannot be flushed ends here too: log_event swallows the
\* exception, and the session then refuses every later statement.
db_error(r) ==
    /\ req[r].pc \in {"engine", "loaded", "allowed", "cleared"}
    /\ errors < MaxErrors
    /\ errors' = errors + 1
    /\ rollback(r, "500")
    /\ UNCHANGED <<policies, dropped>>

-----------------------------------------------------------------------------
(* api/secrets.py and store/postgres.py                                       *)

\* PostgresSecretStore.get_by_alias: the active row with this name, if any.
get_by_alias(name) ==
    {i \in Ids : /\ secret[i].exists /\ secret[i].is_active
                 /\ secret[i].alias = name.alias /\ secret[i].scope = name.scope}

\* The ids a handler's SELECT returns, after the handler's own 404 condition.
found(call) ==
    CASE call.op = "read_by_alias" -> get_by_alias(call.name)
      [] call.op = "delete"        -> {i \in {call.id} : secret[i].exists}
      [] OTHER                     -> {i \in {call.id} : secret[i].exists /\ secret[i].is_active}

\* _store.get or _store.get_by_alias at the head of every handler but create.
load_secret(r) ==
    /\ req[r].pc = "engine"
    /\ req[r].call.op # "create"
    /\ \/ /\ found(req[r].call) = {}
          /\ rollback(r, "404")
       \/ \E i \in found(req[r].call) :
            /\ req' = [req EXCEPT ![r].pc = "loaded", ![r].row = secret[i]]
            /\ UNCHANGED <<secret, audit>>
    /\ UNCHANGED <<policies, dropped, errors>>

\* The action each handler asks the policy engine for, and the one it audits.
policy_action(op) ==
    CASE op \in {"read", "read_by_alias"} -> "read"
      [] op = "rotate"                    -> "rotate"
      [] OTHER                            -> "write"

audit_action(op) == IF op = "delete" THEN "delete" ELSE policy_action(op)

\* update_secret and delete_secret also let an administrator through.
admin_may(call) == call.op \in {"update", "delete"} /\ call.service \in Admins

\* The name the decision is about: the one in the body, or the loaded row's.
subject(r) ==
    IF req[r].call.op = "create" THEN req[r].call.name
    ELSE [alias |-> req[r].row.alias, scope |-> req[r].row.scope]

\* The access decision, and the audit row the handler adds to its session (only
\* update adds it later, with the columns it wrote).  A denied request raises.
decide(r) ==
    LET call == req[r].call
        action == policy_action(call.op)
    IN  /\ \/ req[r].pc = "loaded"
           \/ req[r].pc = "engine" /\ call.op = "create"
        /\ \E order \in sorted_policies(req[r].engine) :
             IF check(order, call.service, action, subject(r)) \/ admin_may(call)
             THEN /\ req' = [req EXCEPT ![r].pc = "allowed",
                                        ![r].pending = IF call.op = "update" THEN {}
                                          ELSE {Event(r, audit_action(call.op), "allowed")}]
                  /\ UNCHANGED <<secret, audit>>
             ELSE rollback(r, "403")
        /\ UNCHANGED <<policies, dropped, errors>>

\* create_secret looks for an active secret of the same name.
check_duplicate(r) ==
    /\ req[r].pc = "allowed"
    /\ req[r].call.op = "create"
    /\ IF get_by_alias(req[r].call.name) # {}
       THEN rollback(r, "409")
       ELSE /\ req' = [req EXCEPT ![r].pc = "cleared"]
            /\ UNCHANGED <<secret, audit>>
    /\ UNCHANGED <<policies, dropped, errors>>

\* uq_vault_secrets_alias_tenant_env: over every row, the inactive ones too.
taken(i, row) ==
    \E j \in Ids \ {i} : /\ secret[j].exists
                         /\ secret[j].alias = row.alias /\ secret[j].scope = row.scope

\* Variant: the UPDATE names every column.
flush_all(loaded, dirty, current) == dirty

\* The session's UPDATE: it names the columns whose value differs from the one
\* loaded, and leaves the others as they are in the database by now.
flush(loaded, dirty, current) ==
    LET column(new, old, now) == IF new # old THEN new ELSE now
    IN  [exists        |-> current.exists,
         alias         |-> column(dirty.alias, loaded.alias, current.alias),
         scope         |-> column(dirty.scope, loaded.scope, current.scope),
         is_active     |-> column(dirty.is_active, loaded.is_active, current.is_active),
         encrypted_dek |-> column(dirty.encrypted_dek, loaded.encrypted_dek, current.encrypted_dek),
         ciphertext    |-> column(dirty.ciphertext, loaded.ciphertext, current.ciphertext)]

\* Variant: the old DEK is kept.
encrypt_same_dek(row, r) == [row EXCEPT !.ciphertext = r]

\* encrypt_secret: a fresh DEK, both blobs replaced.
encrypt_secret(row, r) == [row EXCEPT !.encrypted_dek = r, !.ciphertext = r]

\* PostgresSecretStore.update assigns the fields that are not None.
set_column(value, old) == IF value = None THEN old ELSE value

\* PostgresSecretStore.create, under the unique constraint (no handler catches
\* its error), then commit.
create_secret(r) ==
    LET name == req[r].call.name
        row == encrypt_secret([exists |-> TRUE, alias |-> name.alias, scope |-> name.scope,
                               is_active |-> TRUE, encrypted_dek |-> None,
                               ciphertext |-> None], r)
    IN  /\ req[r].pc = "cleared"
        /\ \E i \in Ids :
             /\ ~secret[i].exists
             /\ IF taken(i, row)
                THEN rollback(r, "500")
                ELSE commit(r, [secret EXCEPT ![i] = row], req[r].pending)
        /\ UNCHANGED <<policies, dropped, errors>>

\* read_secret_value and read_secret_by_alias: the value comes from the loaded
\* row; only last_used_at is written.
read_secret_value(r) ==
    /\ req[r].pc = "allowed"
    /\ req[r].call.op \in {"read", "read_by_alias"}
    /\ commit(r, secret, req[r].pending)
    /\ UNCHANGED <<policies, dropped, errors>>

\* PostgresSecretStore.update and the audit row that follows it; the unique
\* constraint's error is answered with 409.
update_secret(r) ==
    LET i == req[r].call.id
        patch == req[r].call.patch
        loaded == req[r].row
        named == [loaded EXCEPT !.alias = set_column(patch.alias, loaded.alias),
                                !.scope = set_column(patch.scope, loaded.scope),
                                !.is_active = set_column(patch.is_active, loaded.is_active)]
        dirty == IF patch.value THEN encrypt_secret(named, r) ELSE named
        row == flush(loaded, dirty, secret[i])
    IN  /\ req[r].pc = "allowed"
        /\ req[r].call.op = "update"
        /\ IF taken(i, row)
           THEN rollback(r, "409")
           ELSE commit(r, [secret EXCEPT ![i] = row], {Event(r, "write", "allowed")})
        /\ UNCHANGED <<policies, dropped, errors>>

rotate_secret(r) ==
    LET i == req[r].call.id
        loaded == req[r].row
    IN  /\ req[r].pc = "allowed"
        /\ req[r].call.op = "rotate"
        /\ commit(r, [secret EXCEPT ![i] = flush(loaded, encrypt_secret(loaded, r), secret[i])],
                  req[r].pending)
        /\ UNCHANGED <<policies, dropped, errors>>

\* PostgresSecretStore.deactivate.
delete_secret(r) ==
    LET i == req[r].call.id
        loaded == req[r].row
    IN  /\ req[r].pc = "allowed"
        /\ req[r].call.op = "delete"
        /\ commit(r, [secret EXCEPT ![i] =
                        flush(loaded, [loaded EXCEPT !.is_active = FALSE], secret[i])],
                  req[r].pending)
        /\ UNCHANGED <<policies, dropped, errors>>

-----------------------------------------------------------------------------
(* api/policies.py (administrators only)                                      *)

create_policy(p) ==
    /\ p \notin policies \cup dropped
    /\ policies' = policies \cup {p}
    /\ UNCHANGED <<secret, dropped, req, audit, errors>>

delete_policy(p) ==
    /\ p \in policies
    /\ policies' = policies \ {p}
    /\ dropped' = dropped \cup {p}
    /\ UNCHANGED <<secret, req, audit, errors>>

Next ==
    \/ \E r \in Reqs, call \in Calls : start(r, call)
    \/ \E r \in Reqs : load_secret(r)
    \/ \E r \in Reqs : decide(r)
    \/ \E r \in Reqs : check_duplicate(r)
    \/ \E r \in Reqs : create_secret(r)
    \/ \E r \in Reqs : read_secret_value(r)
    \/ \E r \in Reqs : update_secret(r)
    \/ \E r \in Reqs : rotate_secret(r)
    \/ \E r \in Reqs : delete_secret(r)
    \/ \E r \in Reqs : db_error(r)
    \/ \E p \in PolicyIds : create_policy(p)
    \/ \E p \in PolicyIds : delete_policy(p)

Spec == Init /\ [][Next]_vars

-----------------------------------------------------------------------------
(* Properties                                                                 *)

\* However rotations and updates of one secret overlap, the row's encrypted DEK
\* and ciphertext come from the same encryption, so that the value can always be
\* decrypted; no two rows share a name (models.py: "encrypted_dek and ciphertext
\* are always set together", uq_vault_secrets_alias_tenant_env).  The state has its
\* types.
RowsAreSound ==
    /\ TypeOK
    /\ \A i \in Ids : secret[i].encrypted_dek = secret[i].ciphertext
    /\ \A r \in Reqs : req[r].row.encrypted_dek = req[r].row.ciphertext
    /\ \A i, j \in Ids : /\ i # j /\ secret[i].exists /\ secret[j].exists
                         => <<secret[i].alias, secret[i].scope>> # <<secret[j].alias, secret[j].scope>>

\* A deleted secret stays deleted: no update or rotation that loaded the row
\* while it was still active brings it back (delete_secret, update_secret).
DeletedStaysDeleted ==
    [][\A i \in Ids : secret[i].exists /\ ~secret[i].is_active => ~secret'[i].is_active]_vars

\* The audit log and the outcome agree: a request succeeded exactly when one
\* "allowed" event of its action is committed, and the current value of every
\* secret was put there by a request on record (audit/sink.py, get_vault_db).
SuccessIsAudited ==
    /\ \A r \in Reqs : \A e \in audit :
         e.req = r /\ e.result = "allowed"
            => req[r].pc = "ok" /\ e.action = audit_action(req[r].call.op)
    /\ \A r \in Reqs : req[r].pc = "ok" => \E e \in audit : e.req = r /\ e.result = "allowed"
    /\ \A i \in Ids : secret[i].ciphertext \in Reqs
         => \E e \in audit : e.req = secret[i].ciphertext /\ e.action \in {"write", "rotate"}

\* Access control against its reference definition: a request succeeds only if,
\* of the policies that were active when it began, one matches, grants the
\* action, and no matching policy has a higher priority; an administrator may
\* update and delete without one (engine.py: default deny, first match wins).
Granted(r, ps) ==
    LET call == req[r].call
    IN  \E p \in ps :
          /\ Matches(p, call.service, subject(r))
          /\ policy_action(call.op) \in Policy[p].actions
          /\ \A q \in ps : Matches(q, call.service, subject(r))
                             => Policy[q].priority <= Policy[p].priority

SuccessIsGranted ==
    \A r \in Reqs : req[r].pc = "ok"
        => admin_may(req[r].call) \/ Granted(r, req[r].engine \ req[r].revoked)

\* Nothing succeeds without leave and without a trace.
SuccessIsAccounted == SuccessIsGranted /\ SuccessIsAudited
=============================================================================
