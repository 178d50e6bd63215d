-------------------------------- MODULE Pbx --------------------------------
(* The PBX agent (pbx_agent): its targets and the credentials it keeps for    *)
(* them in the vault, the reload jobs, the fleet status cache, and the        *)
(* verification dialog of the portal page (pages/IntegrationsPbx.tsx).        *)
(*                                                                            *)
(* A request handler runs without interruption between two awaits; every call *)
(* of the vault, of the database or of a PBX is one step, and may fail.  A    *)
(* credential is named by the target whose PBX it opens.  The credentials of  *)
(* a target live under aliases made of its name, and names are not unique; a  *)
(* member of Names stands for all names of one slug.  An SSH key and an SSH   *)
(* password are handled alike and are one credential here.                    *)
(* Left out: hosts, ports and user names, tenants, what the commands print,   *)
(* the key formats, and notifications (best effort, nothing reads them).      *)
EXTENDS Integers, FiniteSets, Sequences, SequencesExt

CONSTANTS
    Targets,     \* ids of PBX targets
    Names,       \* slugs of their names
    None,
    Runners,     \* job worker loops (one per agent process sharing the table)
    MaxOps       \* bound: requests, jobs, refreshes, verifications and restarts, together

ASSUME PbxAssumption ==
    /\ None \notin Targets \cup Names \cup {"deleted"} /\ "deleted" \notin Targets
    /\ IsFiniteSet(Targets) /\ IsFiniteSet(Names)
    /\ MaxOps \in Nat

VARIABLES
    rows,     \* pbx_targets
    vault,    \* secrets by alias: a credential, None, or "deleted"
    req,      \* register, edit and delete requests, numbered as they arrive
    jobs,     \* pbx_jobs, numbered as they are created
    runner,   \* what each worker loop is doing
    cache,    \* _fleet_cache: None or the nodes of the last refresh to end
    flag,     \* _fleet_refreshing
    refresh,  \* calls of _refresh_fleet
    stream,   \* verify-stream calls with the page's reader of each
    modal,    \* the page's verification dialog
    ops,      \* bound: requests, jobs, refreshes, verifications and restarts so far
    users,    \* history: <<target, name>>, a name whose aliases it was given credentials under
    purged,   \* history: aliases some delete request has set out to remove
    byHand,   \* history: targets whose aliases came from outside
    crossed   \* history: a verification or a close of the dialog met a running one

store == <<rows, vault>>
fleet == <<cache, flag, refresh>>
page == <<stream, modal, crossed>>
history == <<users, purged, byHand>>
vars == <<store, req, jobs, runner, fleet, page, ops, history>>

Kinds == {"ami", "ssh"}

\* _make_alias
Alias(n, k) == <<n, k>>
Aliases == Names \X Kinds

\* PbxTarget; its name is left out: an edit gives any name, the row's own included
Row == [ami : Aliases, ssh : Aliases \cup {None}, active : BOOLEAN]

Live(a) == vault[a] \in Targets

Count(n) == ops + n <= MaxOps /\ ops' = ops + n

(* ---------------- credentials: client/secrets.py ---------------- *)

\* a request: the name its aliases are made of, the credentials given with it and
\* not stored yet, those stored, and the aliases a delete has still to remove
NewReq(op, t, n, ks, old) ==
    [op |-> op, t |-> t, name |-> n, given |-> ks, todo |-> ks, kept |-> {},
     old |-> old, pc |-> "vault"]

\* AMI first
NextKind(i) == IF "ami" \in req[i].todo THEN "ami" ELSE "ssh"

Stored(r, k, ok) ==
    [r EXCEPT !.todo = @ \ {k}, !.pc = "vault", !.kept = IF ok THEN @ \cup {k} ELSE @]

\* store_secret returned, or raised SecretsError: without its AMI secret a
\* registration ends, anything else goes on
AfterStore(i, ok) ==
    LET k == NextKind(i)
    IN IF ~ok /\ k = "ami" /\ req[i].op = "register" THEN req' = RemoveAt(req, i)
       ELSE req' = [req EXCEPT ![i] = Stored(@, k, ok)]

\* store_secret: POST creates the secret; an alias that is there answers 409, one
\* that was deleted breaks the vault's unique constraint; an answer may be lost
StoreSecret(i) ==
    /\ req[i].pc = "vault" /\ req[i].todo # {}
    /\ LET a == Alias(req[i].name, NextKind(i))
       IN \/ /\ vault[a] = None
             /\ vault' = [vault EXCEPT ![a] = req[i].t]
             /\ \E ok \in BOOLEAN : AfterStore(i, ok)
          \/ /\ Live(a)
             /\ req' = [req EXCEPT ![i].pc = "rotate"]
             /\ UNCHANGED vault
          \/ AfterStore(i, FALSE) /\ UNCHANGED vault
    /\ UNCHANGED <<rows, jobs, runner, fleet, page, ops, history>>

\* _rotate_existing: read the id by alias, rotate it
RotateExisting(i) ==
    /\ req[i].pc = "rotate"
    /\ LET a == Alias(req[i].name, NextKind(i))
       IN \/ /\ Live(a)
             /\ vault' = [vault EXCEPT ![a] = req[i].t]
             /\ \E ok \in BOOLEAN : AfterStore(i, ok)
          \/ AfterStore(i, FALSE) /\ UNCHANGED vault
    /\ UNCHANGED <<rows, jobs, runner, fleet, page, ops, history>>

\* delete_secret_by_alias: look the id up, DELETE it; failures are only logged
DeleteSecret(i) ==
    /\ req[i].pc = "vault" /\ req[i].op = "delete" /\ req[i].old # <<>>
    /\ LET a == Head(req[i].old)
       IN \/ Live(a) /\ vault' = [vault EXCEPT ![a] = "deleted"]
          \/ UNCHANGED vault
    /\ req' = [req EXCEPT ![i].old = Tail(@)]
    /\ UNCHANGED <<rows, jobs, runner, fleet, page, ops, history>>

(* ---------------- targets: api/targets.py ---------------- *)

Taken(t) == rows[t] # None \/ t \in byHand \/ \E u \in users : u[1] = t

Ask(r) == Count(1) /\ req' = Append(req, r)

\* register_and_verify, up to the first call of the vault
Register(t, n, ks) ==
    /\ ~Taken(t) /\ "ami" \in ks
    /\ Ask(NewReq("register", t, n, ks, <<>>))
    /\ users' = users \cup {<<t, n>>}
    /\ UNCHANGED <<store, jobs, runner, fleet, page, purged, byHand>>

\* edit_target, up to the first call of the vault; the aliases of new credentials
\* are made of the new name, or of the one just read; one that brings no credentials
\* changes nothing that is modelled
EditTarget(t, n, ks) ==
    /\ rows[t] # None /\ ks # {}
    /\ Ask(NewReq("edit", t, n, ks, <<>>))
    /\ users' = users \cup {<<t, n>>}
    /\ UNCHANGED <<store, jobs, runner, fleet, page, purged, byHand>>

AliasesOf(row) == IF row.ssh = None THEN <<row.ami>> ELSE <<row.ami, row.ssh>>

\* delete_target, up to the first call of the vault
DeleteTarget(t) ==
    /\ rows[t] # None
    /\ Ask(NewReq("delete", t, None, {}, AliasesOf(rows[t])))
    /\ purged' = purged \cup ToSet(AliasesOf(rows[t]))
    /\ UNCHANGED <<store, jobs, runner, fleet, page, users, byHand>>

\* the row a registration inserts: the SSH alias is there whether or not it was stored
RegisteredRow(r) ==
    [ami |-> Alias(r.name, "ami"),
     ssh |-> IF "ssh" \in r.given THEN Alias(r.name, "ssh") ELSE None, active |-> TRUE]

\* Variant: the row is given the alias of every credential of the request
EditedRowGiven(row, r) ==
    [row EXCEPT !.ami = IF "ami" \in r.given THEN Alias(r.name, "ami") ELSE @,
                !.ssh = IF "ssh" \in r.given THEN Alias(r.name, "ssh") ELSE @]

\* postgres.update_target with what an edit has stored
EditedRow(row, r) ==
    [row EXCEPT !.ami = IF "ami" \in r.kept THEN Alias(r.name, "ami") ELSE @,
                !.ssh = IF "ssh" \in r.kept THEN Alias(r.name, "ssh") ELSE @]

\* the row of a deleted target; ON DELETE SET NULL in its jobs
DropRow(t) ==
    /\ rows' = [rows EXCEPT ![t] = None]
    /\ jobs' = [j \in DOMAIN jobs |->
                   IF jobs[j].t = t THEN [jobs[j] EXCEPT !.t = None] ELSE jobs[j]]

\* the database part of a request, with its audit event in one commit: an edit of a
\* row that is gone by now, or a failing commit, answers with an error
WriteTarget(i) ==
    LET r == req[i]
    IN /\ r.pc = "vault" /\ r.todo = {} /\ r.old = <<>>
       /\ \/ /\ r.op = "register" /\ rows' = [rows EXCEPT ![r.t] = RegisteredRow(r)]
             /\ UNCHANGED jobs
          \/ /\ r.op = "edit" /\ rows[r.t] # None
             /\ rows' = [rows EXCEPT ![r.t] = EditedRow(@, r)]
             /\ UNCHANGED jobs
          \/ r.op = "delete" /\ DropRow(r.t)
          \/ UNCHANGED <<rows, jobs>>
       /\ req' = IF r.op = "register" /\ rows' # rows
                 THEN [req EXCEPT ![i] = [pc |-> "check"]] ELSE RemoveAt(req, i)
       /\ UNCHANGED <<vault, runner, fleet, page, ops, history>>

\* a registration whose row is committed tries SSH and AMI with the credentials it was
\* given and only then answers
RunChecks(i) ==
    /\ req[i].pc = "check"
    /\ req' = RemoveAt(req, i)
    /\ UNCHANGED <<store, jobs, runner, fleet, page, ops, history>>

\* create_target and update_target (POST, PATCH): one commit, aliases as given
PlainWrite(t) ==
    /\ Count(1)
    /\ \/ /\ ~Taken(t)
          /\ \E a \in Names :
                rows' = [rows EXCEPT ![t] = [ami |-> Alias(a, "ami"), ssh |-> None, active |-> TRUE]]
          /\ byHand' = byHand \cup {t}
       \/ /\ rows[t] # None
          /\ \/ rows' = [rows EXCEPT ![t].active = ~@] /\ UNCHANGED byHand
             \/ /\ \E a \in Names : rows' = [rows EXCEPT ![t].ami = Alias(a, "ami")]
                /\ byHand' = byHand \cup {t}
    /\ UNCHANGED <<vault, req, jobs, runner, fleet, page, users, purged>>

(* ---------------- reload jobs: api/jobs.py, jobs/runner.py ---------------- *)

Idle == [pc |-> "idle"]

\* create_job
CreateJob(t) ==
    /\ Count(1) /\ rows[t] # None
    /\ jobs' = Append(jobs, [t |-> t, status |-> "pending", attempts |-> 0, sent |-> 0])
    /\ UNCHANGED <<store, req, runner, fleet, page, history>>

\* Variant: jobs a dead worker left behind are taken up again
ClaimableAgain(j) == jobs[j].status \in {"pending", "running"}

Claimable(j) == jobs[j].status = "pending"

\* poll_jobs: the oldest pending job, row locked, running and counted in one commit
PollJobs(w) ==
    /\ runner[w] = Idle
    /\ \E j \in DOMAIN jobs :
          /\ Claimable(j) /\ \A k \in 1..(j - 1) : ~Claimable(k)
          /\ jobs' = [jobs EXCEPT ![j].status = "running", ![j].attempts = @ + 1]
          /\ runner' = [runner EXCEPT ![w] = [pc |-> "load", j |-> j]]
    /\ UNCHANGED <<store, req, fleet, page, ops, history>>

\* what is to be recorded: the result of the action, or _record_failure
Outcome(w, o) == runner' = [runner EXCEPT ![w] = [pc |-> "save", j |-> runner[w].j, out |-> o]]

\* _process_job: read the target; without it the job fails
LoadTarget(w) ==
    /\ runner[w].pc = "load"
    /\ LET j == runner[w].j
           t == jobs[j].t
       IN IF t = None \/ rows[t] = None
          THEN Outcome(w, "failed")
          ELSE runner' = [runner EXCEPT ![w] =
                   [pc |-> "secret", j |-> j, t |-> t, alias |-> rows[t].ami]]
    /\ UNCHANGED <<store, req, jobs, fleet, page, ops, history>>

\* fetch_secret
FetchSecret(w) ==
    /\ runner[w].pc = "secret"
    /\ \/ /\ Live(runner[w].alias)
          /\ runner' = [runner EXCEPT ![w] =
                 [pc |-> "ami", j |-> runner[w].j, t |-> runner[w].t,
                  cred |-> vault[runner[w].alias]]]
       \/ Outcome(w, "failed")
    /\ UNCHANGED <<store, req, jobs, fleet, page, ops, history>>

\* run_ami_action: connect and log in, send Reload, read the reply until a timeout
RunAmiAction(w) ==
    /\ runner[w].pc = "ami"
    /\ \/ /\ runner[w].cred = runner[w].t
          /\ jobs' = [jobs EXCEPT ![runner[w].j].sent = @ + 1]
          /\ \E o \in {"succeeded", "failed"} : Outcome(w, o)
       \/ Outcome(w, "failed") /\ UNCHANGED jobs
    /\ UNCHANGED <<store, req, fleet, page, ops, history>>

\* result, status and audit event in one commit; when it fails only a log line tells
SaveOutcome(w) ==
    /\ runner[w].pc = "save"
    /\ \/ jobs' = [jobs EXCEPT ![runner[w].j].status = runner[w].out]
       \/ UNCHANGED jobs
    /\ runner' = [runner EXCEPT ![w] = Idle]
    /\ UNCHANGED <<store, req, fleet, page, ops, history>>

(* ---------------- fleet status: api/fleet.py ---------------- *)

Running(r) == refresh[r].pc \in {"read", "poll"}

NewRefresh(pc) == [pc |-> pc, nodes |-> <<>>]

\* fleet_status without a cache, or with one older than CACHE_TTL while no refresh is
\* flagged: a task is made, which has not run yet; without a cache the call also
\* refreshes by itself
FleetStatus ==
    /\ LET task == IF flag THEN <<>> ELSE <<NewRefresh("new")>>
           own == IF cache = None THEN <<NewRefresh("read")>> ELSE <<>>
           more == task \o own
       IN /\ more # <<>>
          /\ Count(Len(more))
          /\ refresh' = refresh \o more
          /\ flag' = (flag \/ own # <<>>)
    /\ UNCHANGED <<store, req, jobs, runner, cache, page, history>>

\* _refresh_fleet sets the flag as it starts: called by fleet_refresh and the
\* background poller when the flag is down, by fleet_summary without a cache
StartRefresh ==
    /\ Count(1)
    /\ ~flag \/ cache = None
    /\ refresh' = Append(refresh, NewRefresh("read"))
    /\ flag' = TRUE
    /\ UNCHANGED <<store, req, jobs, runner, cache, page, history>>

\* the task made by fleet_status gets its turn
TaskRuns(r) ==
    /\ refresh[r].pc = "new"
    /\ refresh' = [refresh EXCEPT ![r].pc = "read"] /\ flag' = TRUE
    /\ UNCHANGED <<store, req, jobs, runner, cache, page, ops, history>>

\* the finally clause of _refresh_fleet
EndRefresh(r) == flag' = FALSE /\ refresh' = RemoveAt(refresh, r)

ActiveTargets == {t \in Targets : rows[t] # None /\ rows[t].active}

\* the select of active targets
ReadTargets(r) ==
    /\ refresh[r].pc = "read"
    /\ \/ /\ refresh' = [refresh EXCEPT ![r] =
                [pc |-> "poll", nodes |-> [t \in ActiveTargets |-> rows[t]]]]
          /\ UNCHANGED flag
       \/ EndRefresh(r)
    /\ UNCHANGED <<store, req, jobs, runner, cache, page, ops, history>>

\* _poll_single_target: the port of the PBX, then its SSH credentials, then AMI
Poll(t, row, up) ==
    CASE ~up -> "offline"
      [] up /\ (row.ssh = None \/ ~Live(row.ssh)) -> "no_credentials"
      [] up /\ row.ssh # None /\ Live(row.ssh) /\ vault[row.ssh] # t -> "ssh_refused"
      [] OTHER -> IF vault[row.ami] = t THEN "ok" ELSE "no_ami"

\* the polls are done: the cache is replaced
PollTargets(r) ==
    /\ refresh[r].pc = "poll"
    /\ \E up \in SUBSET DOMAIN refresh[r].nodes :
          cache' = [t \in DOMAIN refresh[r].nodes |-> Poll(t, refresh[r].nodes[t], t \in up)]
    /\ EndRefresh(r)
    /\ UNCHANGED <<store, req, jobs, runner, page, ops, history>>

(* ------- verification: verify_target_stream and the page's dialog ------- *)

\* the sections of a verification, in their order
Sections == <<"vault", "ssh", "ami">>

\* startVerifyStream: the buttons are under the dialog, the one of the target being
\* verified is busy; the handler reads the target, or answers 404
StartVerify(t) ==
    /\ Count(1)
    /\ ~modal.open /\ modal.verifying # t
    /\ stream' = Append(stream, [t |-> t, found |-> rows[t] # None, at |-> 1])
    /\ modal' = [open |-> TRUE, title |-> t, checks |-> {}, verifying |-> t, streaming |-> TRUE]
    /\ UNCHANGED <<store, req, jobs, runner, fleet, crossed, history>>

\* one section of _generate and its events, which the page adds to the dialog, whatever
\* that shows by now: the secrets under the row's aliases are read, then the port and
\* the credentials of SSH, then those of AMI are tried.  What the checks find changes
\* nothing but their wording.
StreamStep(s) ==
    /\ stream[s].at <= Len(Sections) /\ stream[s].found
    /\ stream' = [stream EXCEPT ![s].at = @ + 1]
    /\ modal' = [modal EXCEPT !.open = TRUE,
                              !.checks = @ \cup {<<stream[s].t, Sections[stream[s].at]>>}]
    /\ UNCHANGED <<store, req, jobs, runner, fleet, crossed, ops, history>>

\* Variant: without the finally clause
StreamEndsQuiet(s) ==
    /\ stream' = RemoveAt(stream, s)
    /\ modal' = [modal EXCEPT !.verifying = None, !.streaming = @ /\ stream[s].at <= Len(Sections)]
    /\ UNCHANGED <<store, req, jobs, runner, fleet, crossed, ops, history>>

\* the stream is done, cut or refused: the finally clause of startVerifyStream
StreamEnds(s) ==
    /\ stream' = RemoveAt(stream, s)
    /\ modal' = [modal EXCEPT !.verifying = None, !.streaming = FALSE]
    /\ UNCHANGED <<store, req, jobs, runner, fleet, crossed, ops, history>>

\* the dialog is closed, by its cross at any time
CloseModal ==
    /\ modal.open
    /\ modal' = [modal EXCEPT !.open = FALSE, !.title = None, !.checks = {}, !.streaming = FALSE]
    /\ crossed' = (crossed \/ stream # <<>>)
    /\ UNCHANGED <<store, req, jobs, runner, fleet, stream, ops, history>>

(* ---------------- restart ---------------- *)

\* the agent process stops: requests are cut, loops and the cache start afresh
Crash ==
    /\ Count(1)
    /\ req' = <<>>
    /\ runner' = [w \in Runners |-> Idle]
    /\ cache' = None /\ flag' = FALSE
    /\ refresh' = <<>>
    /\ stream' = <<>>
    /\ modal' = [modal EXCEPT !.verifying = None, !.streaming = FALSE]
    /\ UNCHANGED <<store, jobs, crossed, history>>

IsInjectiveOn(f, S) == \A x, y \in S : f[x] = f[y] => x = y

\* each target of a set has been registered under some name, with both credentials;
\* no two of them under one
Init ==
    /\ \E old \in SUBSET Targets, name \in [Targets -> Names] :
          /\ IsInjectiveOn(name, old)
          /\ rows = [t \in Targets |->
                 IF t \in old THEN [ami |-> Alias(name[t], "ami"),
                                    ssh |-> Alias(name[t], "ssh"), active |-> TRUE]
                 ELSE None]
          /\ vault = [a \in Aliases |->
                 IF \E t \in old : name[t] = a[1] THEN CHOOSE t \in old : name[t] = a[1]
                 ELSE None]
          /\ users = {<<t, name[t]>> : t \in old}
    /\ req = <<>> /\ jobs = <<>> /\ runner = [w \in Runners |-> Idle]
    /\ cache = None /\ flag = FALSE /\ refresh = <<>>
    /\ stream = <<>> /\ crossed = FALSE
    /\ modal = [open |-> FALSE, title |-> None, checks |-> {}, verifying |-> None, streaming |-> FALSE]
    /\ ops = 0 /\ purged = {} /\ byHand = {}

Next ==
    \/ \E t \in Targets :
          \/ \E n \in Names, ks \in SUBSET Kinds : Register(t, n, ks) \/ EditTarget(t, n, ks)
          \/ DeleteTarget(t) \/ PlainWrite(t) \/ CreateJob(t) \/ StartVerify(t)
    \/ \E i \in DOMAIN req : StoreSecret(i) \/ RotateExisting(i) \/ DeleteSecret(i)
                         \/ WriteTarget(i) \/ RunChecks(i)
    \/ \E w \in Runners :
          PollJobs(w) \/ LoadTarget(w) \/ FetchSecret(w) \/ RunAmiAction(w) \/ SaveOutcome(w)
    \/ FleetStatus \/ StartRefresh
    \/ \E r \in DOMAIN refresh : TaskRuns(r) \/ ReadTargets(r) \/ PollTargets(r)
    \/ \E s \in DOMAIN stream : StreamStep(s) \/ StreamEnds(s)
    \/ CloseModal \/ Crash

Spec == Init /\ [][Next]_vars

(* ---------------- properties ---------------- *)

TypeOK ==
    /\ rows \in [Targets -> Row \cup {None}]
    /\ vault \in [Aliases -> Targets \cup {None, "deleted"}]
    /\ \A i \in DOMAIN req : req[i].pc \in {"vault", "rotate", "check"}
    /\ \A j \in DOMAIN jobs : /\ jobs[j].t \in Targets \cup {None}
                              /\ jobs[j].status \in {"pending", "running", "succeeded", "failed"}
    /\ \A w \in Runners : runner[w].pc \in {"idle", "load", "secret", "ami", "save"}
    /\ flag \in BOOLEAN
    /\ \A r \in DOMAIN refresh : refresh[r].pc \in {"new", "read", "poll"}
    /\ \A s \in DOMAIN stream : stream[s].at \in 1..(Len(Sections) + 1)
    /\ modal.open \in BOOLEAN /\ modal.title \in Targets \cup {None}

\* No other target was given credentials under the name an alias is made of, and no delete has
\* set out to remove it.
Undisturbed(a, t) ==
    /\ a \notin purged
    /\ \A u \in users : u[2] = a[1] => u[1] = t

\* A target registered or edited through the agent finds its own credentials under its
\* aliases, however requests interleave, whichever call of the vault fails and whenever
\* the agent is restarted; only a delete, or a second target of the same name, can take
\* them away.  An SSH credential that could not be stored is missing, never another's.
\* And the state has its types.
CredentialsAreOwn ==
    /\ TypeOK
    /\ \A t \in Targets : rows[t] # None /\ t \notin byHand =>
         /\ Undisturbed(rows[t].ami, t) => vault[rows[t].ami] = t
         /\ rows[t].ssh # None /\ Undisturbed(rows[t].ssh, t) => vault[rows[t].ssh] \in {t, None}

\* While _fleet_refreshing is set some refresh is under way, although refreshes overlap
\* and each lowers the flag of all: the flag never keeps the fleet from being polled.
FlagHasRefresh == flag => \E r \in DOMAIN refresh : Running(r)

\* As long as no dialog was closed over a running verification, an open dialog shows the
\* checks of the target in its title, section after section, and "running" exactly while
\* its stream is.
DialogIsOwn ==
    modal.open /\ ~crossed =>
        /\ \E n \in 0..Len(Sections) : modal.checks = {<<modal.title, Sections[m]>> : m \in 1..n}
        /\ modal.streaming = (stream # <<>>)

\* What the fleet page and its dialog show is their own and current.
ViewsAreOwn == FlagHasRefresh /\ DialogIsOwn

JobIds == 1..MaxOps
NoJob == [status |-> "absent", tries |-> 0, acts |-> 0]

Records ==
    [j \in JobIds |->
        IF j \in DOMAIN jobs
        THEN [status |-> jobs[j].status, tries |-> jobs[j].attempts, acts |-> jobs[j].sent]
        ELSE NoJob]

Ledger == INSTANCE JobLedger WITH Jobs <- JobIds, MaxTries <- 1, ledger <- Records

\* The jobs of pbx_jobs are done as JobLedger promises, with a single try: a job
\* sends its reload to the PBX at most once, whatever fails and whenever a worker
\* dies, and is recorded as succeeded only if it was sent.
JobsKeepLedger == Ledger!Spec
=============================================================================
