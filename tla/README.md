# TLA+ models of Nexus Core

Nexus Core is an automation platform: a portal and an API accept work, workers
and agents (DNS, servers, PBX, carriers, storage, e-mail, monitoring,
notifications, automation) carry it out at outside providers, a vault keeps the
credentials, and a Redis Streams bus carries the events. Every agent is a
FastAPI service with its own tables in Postgres; nearly all of them do their
work in background asyncio tasks and report it through rows whose `status`
column is a small state machine. What is hard about them is alike everywhere: a
row is committed before or after the outside world changes, never together with
it; tasks outlive the requests that started them; workers poll what other
workers may be polling; module-level flags and caches are shared by overlapping
calls; pages show answers to questions the user has since moved on from; and a
crash can come between any two commits.

This directory holds TLA+ models of those state machines, TLC configurations
that check them on small instances, and TLAPS proofs of the most important
results for every instance. `PROJECT.json` lists components, runs, the source
lines behind every definition (`map`), mutations that each property must
detect, hazards and theorems.

    tlc -workers 2 -config EventBus.cfg MCEventBus     # a run
    tlapm PlatformProofs.tla                           # a proof module

## 1. Inventory

| Component | State | Operations | Hard behaviour | What makes it correct | Module |
|---|---|---|---|---|---|
| Event bus (`packages/shared/events/transport.py`) | Redis stream, consumer group, pending entries, dead-letter stream | publish, subscribe, claim, retry, dead-letter | crash at every await, Redis errors before or after the effect, slow handlers whose entry is claimed by another | at-least-once, dead-letter threshold, everything settles | `EventBus` |
| Automation agent (`executor/`, `api/`) | runs, step rows, DLQ, tasks of each worker | trigger, poll, execute steps, retry, fail, replay | several workers polling, crash between commits, retried agent calls | order of steps, truth of statuses, DLQ, runs finish | `AutomationRuns` |
| Notifications agent | jobs with idempotency key, deliveries, asyncio tasks | notify, deliver with retries, finalize, replay | tasks start before the job is committed; concurrent duplicates; lost answers | no resend after success, true rows, one job per key | `Notifications` |
| Service keys (`routers/service_integrations.py`, `get_service_identity`) | services with key hash, prefix and ciphertext, permission rules, usage log | create, regenerate, activate, reveal, delete, read usage; call with a key | requests load, work and commit over each other, a delete meets a call, an answer is lost after its commit | one key is checked, shown and revealed; who is let in is logged; nothing outlives the service | `ServiceKeys`, `SecretsAgent` |
| Secrets agent (vault) | secrets, policies, audit log, one session per request | create, read, update, rotate, delete, change policies | lost updates between overlapping requests, audit in the transaction that is rolled back | decryptable rows, access by policy, audit agrees with outcome | `Vault`, `SecretsAgent` |
| Knowledge base ingest (`nexus_api/routers/kb.py`, `nexus_worker`) | documents, chunks, RQ queue, worker | create, upload, reingest, delete, embed, recover at start-up | worker holds a stale row while the API changes it; crash and recovery; lost enqueue | search sees whole, current documents; none is forgotten | `KbIngest` |
| Ask Nexus (`kb.py`: search, ask, feedback; `shared/events`) | Redis counter, event rows, published events | search, ask, give feedback | crash between INCR and EXPIRE, a session that failed under the handler, documents that leave the index | within the limit, cited documents were ready and readable, rows and events as the exceptions state | `AskNexus`, `KnowledgeBase` |
| DNS agent | zones, records, change jobs, tasks; provider's records | batch upsert, batch delete, sync, register, unregister, import | two sessions share the job object; lock waits and deadlock; provider changed before commit | rows follow the provider, true reports, idempotent upsert, tasks end | `DnsJobs` |
| Server agent | hosts, instances, snapshots, change jobs, worker; provider's instances | create, delete, power, snapshot, backup, sync; delete host | job left running between commits, lost answers, rows deleted under the worker | tables follow the provider, jobs keep the ledger, jobs end | `ServerJobs`, `ServerAgent` |
| Server agent: hosts, devices, Proxmox (`seed_hosts.py`, `api/hosts.py`, `servers.py`, `catalog.py`, `client/meshcentral.py`, `adapters/proxmox.py`) | host rows, aliases in the vault, cache of devices, machines of a node | seed, register, delete, live requests, list devices, create and destroy machines | a seed that stops half-way, a page of the vault, overlapping refreshes, machines found by name, ids given out again | seeds are whole and repeatable, lists fresh, a stored server is its job's machine | `ServerHosts`, `ServerAgent` |
| Backup and restore (`routers/backup.py`, `BackupRestore.tsx`) | files of two directories, retention configuration, progress records, master key, the page's dialogs | back up, restore, upload, configure, delete, poll progress | names of one minute, rotation between choosing and reading a file, dialogs closed early, psql that fails half-way | the safety backup stays, what was chosen is restored, rotation keeps the newest, pages tell the truth | `Backup` |
| PBX agent (`api/targets.py`, `api/fleet.py`, `jobs/runner.py`, `IntegrationsPbx.tsx`) | targets, their secrets in the vault, jobs, fleet cache and flag, verification streams | register, edit, delete, create job, poll, refresh, verify | aliases made of names, several vault calls per request, overlapping refreshes, crash after "running" | credentials are a target's own, a reload is sent at most once, the flag never sticks | `Pbx`, `PbxAgent` |
| PBX probes (`adapters/ami.py`, `ssh_system.py`, `api/diagnostics.py`, `status.py`, verification in `targets.py`, poll in `fleet.py`) | one AMI or SSH session, the findings | verify, diagnose, query, poll, capture | events between replies, answers that come late or never, keys in five forms | an answer is its command's own, nothing stays open, findings are true | `PbxProbe`, `PbxAgent` |
| Sign-in, users, API keys, allow-list (`routers/auth.py`, `users.py`, `ip_allowlist.py`, `dependencies.py`, portal store) | users, keys, entries, token hashes, reset links, rate limiter, sessions of browsers | sign in, renew, sign out, forgot, reset, edit users and permissions, create, toggle, rotate, delete | requests of one user overlap; tokens checked before and replaced after an await | sessions end with the password, issued tokens work, the limit holds | `Access` |
| Portal (`nexus_portal/src/pages`) | query cache, requests, dialogs, drawer, revealed secrets | every mutation of twenty pages, open, close, refresh, poll | answers after the user has moved on, refreshes overtaken by changes | what is behind is owed a refresh; results and countdowns stay with their view | `PortalPages`, `Portal` |
| Monitoring agent: Nagios | host files, backups, status cache | add, edit, delete host, validate, reload, refresh | several SSH commands per request on one directory | roll back what was refused, keep what was accepted, cache knows changes | `Nagios` |
| Agent registry and heartbeats (`agent_registry`, `nexus_api/main.py`, `heartbeat.py`) | agents, deployments, last heartbeat, what was told | seed, register, deploy, heartbeat, monitor | restart in the middle of the seed, lost heartbeats, time passes during a round | one deployment, notices settle | `AgentRegistry` |
| E-mail agent and Brain credentials | vault secret, mailbox and password on the mail server, list of mailboxes, a message under way | create, reset, list, refresh, send | who was called goes on after the caller gave up; overlapping refreshes; SMTP answer lost | "ok" means set in both places, list settles, true answers to a sender | `Mail` |
| Reading mail (`services/imap.py`, `admin_imap.py`, `server_stats.py`, `sent_stats.py`) | folder, list on the screen, global credentials of a module, cache of the queue | list, open, mark, statistics | messages arrive or go between list and opening, secrets change between two reads | what is opened is what was listed, secrets are no older than the request, the refresh flag never sticks | `MailReading` |
| Task API and dispatch (`routers/tasks.py`, `nexus_worker/jobs.py`) | tasks, task runs | create, cancel, dispatch | dispatch always stops at "no agent" (7) | | not modelled |
| Entities (system of record) | entities, versions, events | create, update, delete | updates fail with an error of the code (7) | | not modelled |
| Cron scheduler, carrier agent, storage agent, monitoring checks, demo agent, proxies, infrastructure | | | unreachable or pass-through (7) | | not modelled |

Interactions: agents fetch credentials from the vault at the start of a job (a
failure there is one of the errors the models inject); `Pbx` and `Mail` contain
the part of the vault they use, because there the order of vault call and local
write is the point; DNS, server and monitoring agents post to `POST /v1/notify`;
events are published after the commits they describe and failures to publish are
swallowed, so no table depends on the bus. The pages of the portal are modelled
with the handlers they call where both decide the outcome (`Backup`, `Pbx`,
`Access`), and by themselves otherwise (`Portal`).

## 2. Plan

1. Done: the modules of the table, in twelve runs. Parts of a program that share
   no state share a run through a composing module (`Operations`, `PbxAgent`,
   `SecretsAgent`, `KnowledgeBase`, `ServerAgent`). `JobLedger` is the abstract
   specification of an agent's jobs, implemented by `ServerJobs` and `Pbx`.
2. Done: proofs of every safety property of every run, both refinements of
   `JobLedger` included, in eight modules that follow the composition of the
   program.
3. Worth adding if the code changes: task dispatch and the cron scheduler once
   their queries select anything.

## 3. The modules

Common conventions. An action is what happens between two awaits or two commits
of the code: everything a transaction writes appears at its commit. Provider
calls, SSH commands, Redis commands and commits are single steps, and each has a
sibling that fails before or after taking effect. Failures share one bounded
counter (`MaxMishaps`, `MaxFaults`, ...), the only reason for the bound being
that TLC must finish; proofs hold for any value. History variables (`handled`,
`executed`, `effects`, `dirty`, `users`, `stray`, ...) are read by properties
only. Operators marked "Variant" are plausible bugs used for mutation; no
specification uses them. Where SQLAlchemy matters, the models follow what it
does: attributes of a rolled-back session are expired and cannot be reloaded
from async code, a commit writes only the columns that changed, and an object
belongs to the session that loaded it. Sessions of yield dependencies (`get_db`)
are taken to commit after the handler has returned and before its answer is
sent.

* **EventBus**: `pc`, `batch` and `phase` are the local state of `subscribe`;
  `pel`, `delivered`, `last`, `first` are Redis'. Actions are `publish`,
  `subscribe`, the read, claim, handle, acknowledge and dead-letter steps,
  crash, Redis error, and the passing of the idle threshold.
* **AutomationRuns**: `status`, `rows`, `dlq` are tables; `batch` and `task` are
  what each worker holds in memory. `EagerDlq` says whether
  `replay_dlq_run` can load `run.dlq_entry`; in the code it cannot (the
  relationship is lazy), so replays always fail there. The run sets it to TRUE
  in order to check the engine with replays too, which includes every behaviour
  without them.
* **Notifications**: a request is three steps (check, dispatch, commit) because
  delivery tasks run before the commit. Routing is the default route: the
  routing rules are never selected (7). Rendering of templates is left out.
* **Vault**: a request loads policies in the order of their priority, then the
  row, decides by the first that matches, changes its copy (`set_column`),
  flushes what it changed and commits; other requests commit in between.
  Encryption is modelled by which request produced key and ciphertext. Reads of
  metadata are left out.
* **ServiceKeys**: a request of an administrator loads the row, works on its
  copy and commits; a key is the number of its generation, and hash, prefix and
  ciphertext are each the key they belong to. `overtaken` is the history of a
  row written by others since it was loaded. Callers are looked up, then logged.
* **KbIngest**: the worker's loaded copy of the row, the queue, `startup.py`,
  and the API's handlers. A document's chunks are named by the version that
  wrote them; search is the set of chunks it would return.
* **AskNexus**: per request a session whose rows are seen once committed, and
  which fails for good after a failed statement; the counter in Redis with or
  without its time to live; each event is published before its row is written.
* **DnsJobs**: requests and tasks as separate processes over the provider, row
  locks and the commit of each attempt; sync with reconcile; registration,
  unregistration and import of the zone. Record names are in the provider's
  form; the Cloudflare adapter also looks records up by relative name, which
  may fail to match.
* **ServerJobs**, for a provider that says which instance it has created: the
  API's job kinds (reboot, rebuild, restore and backup
  schedules are one kind, "other": they change nothing that is tracked), the
  worker's poll, commits, provider call, failure handler and audit commit, and
  the deletion of the host. A failed flush expires the job object, so that the
  failure handler fails as well: `Abandon`. What a worker has taken up is a set of
  job numbers, worked on in their order.
* **ServerHosts**: the start of the agent with its seed, administrators and live
  requests on hosts; the cached list of MeshCentral; and a Proxmox node, whose
  new machine is found by its name in a listing and whose ids are given out
  again. The three share nothing (`part` in `ServerAgent`).
* **JobLedger**: the abstract specification of an agent that does jobs for
  others. A job is submitted, taken up at most `MaxTries` times, reaches the
  system outside at most once per try, is put back only while tries are left,
  and once "succeeded" (only after it reached the outside) or "failed" (only
  with no try left) is never touched again; a job may be left "running" for
  ever. `ServerJobs!Ledger` maps job rows, attempts and provider effects to it
  with `MaxAttempts` tries, `Pbx!Ledger` maps `pbx_jobs` and sent reloads with a
  single try.
* **Backup**: a request counts tables, dumps, archives (compress, encrypt,
  rotate), notifies, and for a restore reads the chosen file and runs psql. The
  database is the write it has reached and the key its secrets are sealed
  under. The page's two dialogs and its polling of progress are part of the
  model, so are clients of the API without a page.
* **Pbx**: register, edit and delete requests as series of vault calls and one
  commit; the runner's two commits around a job; `_fleet_cache` and
  `_fleet_refreshing` with overlapping refreshes; the verification stream and
  the dialog that reads it. The checks of a verification only word the events;
  what they find is the matter of `PbxProbe`.
* **PbxProbe**: one request with its plan of commands over AMI and SSH against a
  node that is slow, interleaves events, hangs up or changes while it is asked.
  The plan is the set of phases still to do; the next is the first of them in the
  order of the source (`Place`).
* **Access**: a request carries what it read (`seen`) and the columns it will
  write (`set`), which are those its handler has changed, as the ORM does; a commit
  leaves the others as another request has put them. A JWT has no serial number,
  only subject and second. The limiter's list of calls (a set, as each call is one
  of its own), the allow-list test of the middleware, and the browser's store
  (`tab`) are included.
* **PortalPages, Portal**: `PortalPages` is the data of twenty pages: queries
  and timers, and of every `useMutation` the keys it alters and invalidates, the
  dialogs it closes and what it shows. `Portal` is what TanStack Query and React
  do with them, and the user. Of a cached answer only its age is kept.
* **Nagios, AgentRegistry, Mail, MailReading, Operations**: an SSH command per
  step for the Nagios files; minutes, heartbeats, the seed and the monitor's rounds; the
  chain from the Brain through vault, agent and SSH bridge to the script on the
  mail server, each link of which can fail while the rest goes on; the list of
  mailboxes with its flag, lock and background refresh; SMTP with its fallback
  through the bridge; lists of messages and what is opened from them.
* **Operations, PbxAgent, SecretsAgent, KnowledgeBase, ServerAgent** compose
  components that share no state they write: a flag (`part`, `looking`,
  `knocking`, `inquiry`) chosen at first says which one moves. Every behaviour of
  one is there with the others at rest, and as neither reads what the other
  writes no order is lost.

## 4. The runs

Deadlock is checked for the event bus, whose consumers poll for ever; the others
switch the check off because their systems rest once the bounded requests are
used up. A type invariant is part of one invariant of each run.

| Run | Instance | Properties and what they show |
|---|---|---|
| `event_bus` | 2 consumers, 2 events, stream trimmed to 1, threshold 3, batch 2, 2 mishaps | `NoSilentLoss`, `DeadLetterThreshold`, `AckIsFinal`; `EventuallySettled`: every entry is handled, dead-lettered or trimmed and the pending list drains |
| `automation_engine` | 1 worker, 2 runs, 2 steps, 2 attempts, 1 replay, 1 mishap | `StepOrder`, `SucceededRanEveryStep`, `FailedIsDeadLettered`, `RunsFinish` |
| `notifications` | 2 requests with equal or different keys, 1 channel, 2 attempts, 2 dispatches, 1 mishap | `NeverResend`; `TablesAreTrue`: delivery rows are true, one committed job per key; `DispatchEnds` |
| `vault` | 3 requests of 9 kinds by 3 callers, 2 seeded secrets, 2 policies of which one denies, 1 error; beside them 2 requests of administrators at a time, 3 in all, 1 caller, 1 fault | `RowsAreSound`; `SuccessIsAccounted`: success was granted by policies in force and is audited; `DeletedStaysDeleted`; `ServiceKeysHold`: one key is checked, shown and revealed, callers are logged, nothing is inherited |
| `kb_ingest` | 1 document, 2 reingests, 2 crashes, 1 loss; beside it 2 requests of an operator and a reader, limit 1, 1 document found, 2 faults | `IndexIsWhole`: search sees whole current documents, none waits for a job that is not there; `IngestEnds`; `AsksAreAccounted`: within the limit, answered from what is theirs to read, rows and events agree |
| `dns_jobs` | 2 overlapping jobs on 2 records in either order, 2 attempts, 2 registrations, 1 fault | `TablesAreTrue`: rows were applied, stored statuses are true, drift has a cause; `UpsertIsIdempotent`, `TasksEnd` |
| `server_jobs` | 3 jobs of any kind, polls of 2, 2 attempts, 2 faults; beside them a vault of 3 aliases and pages of 2, which starts empty, with two of a provider or with one of each, 2 viewers of a list that lasts 2 ticks of 3, 2 create jobs and machines of 2 names and 2 ids, each with 2 steps of an administrator and 1 fault | `TablesAreTrue`, `JobsKeepLedger` (refinement of `JobLedger`), `JobsEnd`; `HostsAreTrue`: seeds are whole, consoles audited, lists fresh, a stored server is its job's machine |
| `backup` | 1 page and API clients, 2 requests, 2 directories, limit 1 or 2, 2 minutes, 1 write, 1 deletion, reconfiguration or restart | `RestoreIsSafe`: the safety backup stays and what was chosen is read, unless a backup of the file's own minute was not finished when the restore was asked for; `PagesTellTruth`; `RotationKeepsNewest` |
| `pbx` | 2 targets of which one at least is not registered at first, 2 names, 1 runner, 3 operations of any kind; beside them one probe of any kind, 6 sets of credentials, 2 slow answers, 1 change of the node | `CredentialsAreOwn`, `ViewsAreOwn` (refresh flag, dialog), `JobsKeepLedger`; `ProbesAreTrue`: output is a command's own, nothing stays open, findings are true |
| `access` | 2 users, 2 addresses, 2 browsers, 2 requests at a time, 3 in all, limit 2 in 2 ticks | `SessionFollowsPassword`, `IssuedTokenLives`, `SignInLimit` |
| `portal` | each of 20 pages, 2 records, 2 mutations, 1 failed request | `RefreshIsOwed`; `RevealsAreSafe`: an answer stays with the view that asked, a revealed secret has its countdown |
| `operations` | 2 hosts and 2 Nagios requests; 1 agent, 2 lost calls; 2 mailboxes of one alias, 2 credential requests at a time, 3 in all; 2 readers, 2 messages, 2 reads; 1 fault each | `NagiosIsTrue`: answers and the cache, `RegistryAndMailAreTrue`: one deployment of the seed, own deployments resolved, answers, lists, messages and credentials are true; `RegistryAndListSettle`: notices and the list settle |

Why the bounds are enough. The races of this code are between two actors on one
row, file, flag or view: two consumers, two requests with a key, a request and
the worker, a user and an answer. Two of each (three in the vault, where a third
request may change what the first two read; three in the server agent, so that a
job stays behind a full batch; three operations in the PBX agent and in
sign-in, so that two requests meet what a third has left) and one failure beyond
what one attempt survives produce every such order. One document is enough for
the ingest because documents share only the queue, which is served in order, and
the worker, which holds one at a time. Two minutes let file names of backups
collide or not. The trimmed stream, the exhausted attempts, the full batch, the
full limiter and the full directory are reached in every run. The automation run
has one worker because two of them may both execute a run (7); the proofs cover
any number. Two runs start from fewer states than their specifications allow
(`MCSpec` of `MCPbx` and `MCServerJobs`); the theorems about them do not.
Symmetry is used only in runs without liveness (`pbx`, `access`, `portal`,
`vault`).

Fairness. Weak fairness is assumed of the steps of loops and tasks: the polling
loops catch every exception and sleep, asyncio runs every ready task, and
Docker restarts the containers (`docker-compose.yml`). In `operations` it is
assumed of the minutes passing, the monitor's rounds, the expiry of the list,
the background refresh once created, and the page's question for the list, which
it repeats every 30 to 60 seconds (`IntegrationsEmail.tsx:147-187`). It is not
assumed of other callers, crashes, errors, replays or administrators.

The properties of the portal and of requests that meet on one name carry their
exceptions in the statement (`stray`, `crossed`, `Undisturbed`, `alone`,
`spoiled`, `early`): each exception names a history of user or operator actions
under which the code does lose the property, and the runs show that there is no
other.

## 5. Proofs

Eight modules prove, for every value of the constants that satisfies the named
assumptions (`BusAssumption`, `AccessAssumption`, `BackupAssumption`,
`NoneAssumption`, `AutomationAssumption`, `PortalAssumption`, `ServerAssumption`,
`HostsAssumption`, `PbxAssumption`, `ProbeAssumption`, `VaultAssumption`,
`ServiceAssumption`, `NotificationsAssumption`, `NagiosAssumption`,
`RegistryAssumption`, `MailAssumption`, `ReadingAssumption`, `KbAssumption`,
`AskAssumption`, `DnsAssumption`: bounds are numbers, limits of attempts, batches
and pages positive ones, `None` and `NULL` are not names, what is counted or listed
is finite), what the runs show on a small instance. Each is the usual argument:
the initial states satisfy an invariant, every action preserves it (one step per
action), and the property follows. What is proved is seldom inductive; the
strengthenings say what each process knows while it waits.

* `PlatformProofs`, on what every part stands on. The event bus: `BusTypeOK`,
  `BusNoSilentLoss`, `BusDeadLetterThreshold`, `BusAckIsFinal`. A consumer about to
  acknowledge must be known to have handled the entry or to have copied it to the
  dead-letter stream (`AckJustified`), and the group's cursor must not run ahead of
  the stream or behind a delivery (`CursorInStream`). The lemma `FirstOfPrefix` says
  that COUNT takes a prefix, so XREADGROUP skips nothing.
  Sign-in: `SessionsFollowPasswords`, `IssuedTokensLive`, `SignInsLimited`.
  `AccessInv` says of each request which columns it may still write and that the
  session it carries goes back to the password in force, or is known not to
  (`SessionsRooted`); two users never share an address, and no two requests insert
  one user. `LimiterInv`: what the limiter has forgotten is too old to share a
  window with a call made now, so each window is bounded by calls it has counted.
  Backup and restore: `RestoresAreSafe`, `PagesAreTold`, `RotationsKeepNewest` (an
  action property). `BackupInv` follows a safety backup from its count to its file
  (`SafetyComing`), the chosen file from the click to psql (`ChoiceKept`), and what
  each page waits for (`PageFollows`, `ProgressFollows`). For the rotation: of the
  files it removes against the rule, the one with fewest newer files would have been
  kept (a minimal element of the finite sets of newer files).
* `RunsAndPortalProofs`. The run engine: `EngineTypeOK`, `EngineStepOrder`,
  `EngineSucceededRanEveryStep`, `EngineFailedIsDeadLettered`. `TaskProgress`
  says what a task knows: the steps before its own have taken effect, and it
  takes the orphan path only when the automation is gone. It holds per task,
  hence for any number of workers that execute the same run at once.
  The portal: `PortalInvariant`, `RefreshesAreOwed`, `RevealsStaySafe`, for each of
  the twenty pages by cases on its table. `Owed`: a copy that is behind has a
  mutation, a fetch or a timer under way that will renew it; `ReqsOK` and `RevealOK`:
  an answer belongs to the view that asked, and what is shown is cleared with it.
* `ServerAgentProofs`: `ServerWork`, `ServerJobsKeepLedger`,
  `ServerTablesAreTrue`, `ServerAgentKeepsJobs`, `ServerHostsAreTrue`.
  `WorkInv`: only the worker changes what it has taken up, and an attempt reaches the provider at most once
  and before it is recorded. `KindInv`: instances and snapshots come from jobs of
  their kind, so ids never mix. `AnswerInv`: between the provider's answer and the
  commit what the call has changed is so. `DriftHasCause` is part of the
  invariant. The refinement is shown step by step: each step of the agent is a
  step of `JobLedger` or leaves its state alone (`LedgerStep`). For the hosts:
  `SeedInv` says that hosts stay as they are while the agent starts and that what
  it has read of the vault is all of it or a page; `DeviceInv` that a list is never
  cached under a time after its own; `OrderOK` and `MachineOK` that a job which had
  no failure has at most one machine, which it finds, unless the name is shared or
  the id was given out again (`MadeStep`, `RemovedStep`: what a machine that comes
  or goes under a job at work may change).
* `PbxProofs`: `PbxWork`, `PbxJobsKeepLedger` (the same with one try),
  `PbxInvariant`, `PbxCredentialsAreOwn`, `PbxViewsAreOwn`, `PbxAgentKeepsAll`,
  `PbxProbesAreTrue`.
  `RunnerInv`: a worker loop has its job to itself. `VaultInv`, `RequestInv`,
  `RowInv`: a secret belongs to a target that was given credentials under its
  name, a request knows which secrets it has stored, a row leads to a secret of
  its own. The histories only grow and what they excuse stays excused
  (`RequestsStay`, `RowsStay`), so a step need only be compared with the one alias
  it writes. `DialogInv`: until a dialog is closed over a running verification
  there is one verification and the dialog shows a prefix of its sections. For the
  probes: `LineOK` says stage by stage what can be under way on a connection, and
  so that a reply read out of its place leaves a mark; `VerifyOK` that as long as
  every check has passed, what a verification has no longer left to do is so.
* `VaultProofs`: `VaultInvariant`, `VaultRowsAreSound`,
  `VaultSuccessIsAccounted`, `VaultDeletedStaysDeleted` (an action property),
  `SecretsAgentKeepsVault`, `SecretsAgentServiceKeysHold`. `RequestInv` says what
  a request carries from its load to its commit: a whole row, policies that were
  in force, leave to go on and the event to commit. `FirstMatch` says that the
  first policy of the engine's order that matches is one of the highest priority.
  `ServiceInv` does the same for service keys (`AdminOK`, `CallerOK`): a key about
  to be shown is the one in force unless the row was overtaken, and what a delete
  has not found was committed while it was under way (`Overtaken`: what the
  others know after a commit).
* `OperationsProofs`. Notifications: `NotificationsInvariant`,
  `NotificationsNeverResend`, `NotificationsTablesAreTrue`. `DeliveryInv` counts per
  channel: sends acknowledged and rows written never exceed dispatches, with room
  for the one that is still trying or about to write its row.
  What nexus operates from outside: `NagiosStaysTrue`, `RegistryAndMailStayTrue`.
  `NagiosInv`: what a request knows of its host file and of its copy, as long as no
  other has been on either (`spoiled`), and that what two requests hold is apart.
  `RegistryInv`: between its question and its commit the seed knows of no deployment
  of its own, and nobody else makes one. `CredentialInv`: of the requests for one
  alias at most one is alone, and what that one has stored, fetched or written is
  still there (`OrderKnows`, `OrderGoes`); `SentSoFar` counts the copies of a
  message. `ReadingInv`: a sequence number that no deletion has reached is that of
  the message listed (`Listed`, `BeforeThePlace`), and what a request has read of the
  vault is no older than its own start, which is no older than the floor of any it
  runs beside (`Connects`), so those who replace the credentials it reads cannot
  put older ones there. `SentInv`: the refresh flag is up only while a refresh is
  under way.
* `KbIngestProofs`: `KbInvariant`, `KbIndexIsWhole`, `BaseIndexIsWhole`,
  `BaseAsksAreAccounted`. `UrlInv`:
  the id of a URL ingest has no row and no second job until it is fetched.
  `WorkerInv`: the worker's copy has the metadata of the row. `FoundInv`: where a
  document in "processing" or "uploaded" can be as long as nothing was lost, which
  is what `startup.py` relies on. For those who ask, `OnWay` says stage by stage
  what a session holds unless it has failed, and that nobody was told of a commit
  before it; `LimitInv` compares what passed with the counter.

* `DnsJobsProofs`: `DnsInvariant`, `DnsTablesAreTrue`, `DnsUpsertIsIdempotent`.
  `ProgressOK`: an attempt has done the records before the one it is at, and the
  shared job object is marked succeeded only after the last, so whichever session
  stores its status stores a true one. `StoredOK` with `Alone`: on a name no other
  running task has, what an attempt has found, not found or written is still how
  the provider is, because only tasks change it (`OthersKeep`). The names are
  assumed finite: a sync lists the drifted ones.

`ServerAgentKeepsJobs`, `PbxAgentKeepsAll`, `SecretsAgentKeepsVault`,
`PbxProbesAreTrue`, `SecretsAgentServiceKeysHold`, `ServerHostsAreTrue`,
`BaseIndexIsWhole`, `BaseAsksAreAccounted`, `NagiosStaysTrue` and
`RegistryAndMailStayTrue` are about the composed specifications the runs check.

Where an attempt at a proof failed the model was at fault more than once, and was
put right from the source: two CASEs with overlapping arms, of which TLC takes the
first and the logic any (`Validate` of `Nagios`, `Resolve` of `AgentRegistry`); a
second request that had no file yet and so spoiled the file of every other
(`spoiled` of `Nagios`); and the statement that a restore reads what was chosen,
which three requests refute although two do not (`calm` of `Backup`).

Only model-checked: all liveness (`EventuallySettled`, `RunsFinish`,
`DispatchEnds`, `IngestEnds`, `TasksEnd`, `JobsEnd`, `RegistryAndListSettle`),
which needs fairness and ENABLED and is out of the prover's reach. Every other
property of a run is a theorem.

## 6. Mutations

Every property of every run has a mutation that breaks it: a mapped definition
replaced by a "Variant" with a plausible mistake (a lost guard, an attempt too
many, an acknowledgement on error, a restart that resets the group, a rotation
that keeps the old key, a sync that does not refresh, events read before the
reply, a key whose ciphertext is not replaced, a machine taken for another of its
name, a reset that keeps the session, a drawer closed without its secret).

## 7. Not modelled, and remarks

Not modelled:

* Comparisons of the form `column is True` inside `where()` are the Python
  constant False, so these queries return nothing: agent selection and persona
  defaults of the task dispatch (a task is always kept queued), due cron
  automations, routing rules, storage targets, monitoring targets. The models
  follow that where they include the query; the cron scheduler, the task
  dispatch, the storage jobs and the monitoring checks are left out because they
  never come to do anything.
* Nothing creates jobs of the carrier agent. Updates of entities fail with an
  error before they write.
* The answers of the language model, and personas in searches: only the task
  dispatch, which never gets that far, passes one on.
* Cryptography, HTTP, SMTP, IMAP, SSH, S3, pg_dump, psql, React and TanStack
  Query are external and modelled by how the code uses them. Formatting,
  logging, metrics, listings, navigation and styling are left out: no property
  depends on them. The proxies and the demo agent keep no state.

Remarks on the code, met while modelling; the models follow the code in each:

* Automation: two workers may execute one run, since the poll reads without a
  lock and marks afterwards (`worker.py:230`; the comment at 232 expects
  otherwise); runs marked running by a worker that dies are not picked up again.
* Notifications: two concurrent requests with one idempotency key both deliver
  (`notify.py:70`; `README.md:71` promises none); a delivery that used up its
  attempts ends its job as "succeeded" (`queue/runner.py:238`).
* Vault: a denied read leaves no audit event, the exception rolls back the
  session that holds it (`dependencies.py:55`, `secrets.py:165`). An alias of a
  deleted secret can never be created again (`secrets.py:88`).
* Service keys: permission rules are stored and listed but enforced nowhere
  (`service_integrations.py:478-580` are their only uses).
* Knowledge base: the embedding metadata of a document that came with metadata
  is not stored (`jobs.py:727`, `README.md:263`); the dedup test never finds a
  document unchanged, because its status is "processing" by then.
* Ask Nexus: the counter is left without a time to live when the process dies
  between INCR and EXPIRE (`kb.py:599-601`); the row of ask.responded is never
  committed, although the comment says "persisted" (`kb.py:787`).
* DNS: a job may stay "pending" after its task ended (`store/postgres.py:254`);
  a restart loses tasks, although `docs/agent_ops_runbook.md:128` says they are
  retried.
* Servers: no relationship orders the insert of a new instance before the update
  of the job that refers to it; the model lets that commit fail or succeed.
  The seed gives all credentials of a provider one label (`seed_hosts.py:86`), so
  with two of them none gets a host; it sees a page of 50 aliases of the vault
  (`secrets.py:121`), so older credentials are found neither by it nor by live
  requests; a deleted host is back at the next start. On Proxmox a machine is
  found by its name after its creation (`proxmox.py:230-245`), so a namesake may
  be adopted; rows left behind meet an id given out again; rebuild, deletion of
  snapshots, restore of backups and schedules always fail (`proxmox.py:251-382`).
* Backup: psql runs without ON_ERROR_STOP, so a partial restore reports success;
  a restore sends only the file's name, so a name of two directories means the
  default one; retention deletes by name in the default directory; two backups
  of one minute share a file; `pending_restart` is never cleared.
* PBX: an older refresh may overwrite a newer cache; an edit invalidates
  `pbx-fleet` while the query's key is `pbx_fleet_status`; registering a deleted
  name again always fails in the vault; any AMI reply counts as success.
  A PPK key that cannot be converted raises even if there is a password
  (`ssh_system.py:135-150`); `reload_asterisk` (`ops/reload.py:16`) is
  never called.
* Access: refresh tokens made in one second are identical; a reset by link keeps
  the sessions; the portal never uses its refresh token; a late 401 signs out a
  session begun since (`client.ts:31`).
* Portal: tables of jobs of DNS and storage stay behind until asked for again;
  rotating a key overwrites one shown only once.
* Nagios: an edit without services replaces them by the default check, although
  `api/nagios.py:107` says they are kept; `a.b` and `a_b` share a file.
* Registry: `resolve_agent` may return another tenant's deployment when a tenant
  has none; a lost notice is not repeated.
* Reading mail: an attachment is said to be matched by index, but the first one
  is returned whatever its id (`admin_imap.py:293`); over IMAP a list keeps
  sequence numbers, so what is opened may be its neighbour (`imap.py:161`).
* Mail: creating a mailbox that exists answers "ok" and overwrites the vault's
  password; `a.b@c` and `a_b@c` share a vault alias; a script that outlives the
  Brain's patience overwrites a later password; an SMTP answer that is lost sends
  a second copy through the bridge.
