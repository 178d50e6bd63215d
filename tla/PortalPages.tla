------------------------------ MODULE PortalPages ------------------------------
(***************************************************************************)
(* The pages of the portal (apps/nexus_portal/src/pages), as the data the  *)
(* rules of module Portal act on: what a page asks the API for, what it    *)
(* asks again on a timer, and for every useMutation of the page what the   *)
(* call changes on the server and what its onSuccess does.  "list" is the  *)
(* page's table, "jobs" its table of jobs (or of counters computed behind  *)
(* the list's back), "detail" the query keyed by the record whose drawer   *)
(* is open.  An operation submitted by a dialog gives the dialog its name. *)
(***************************************************************************)
EXTENDS Naturals, FiniteSets

\* What a page asks for, the keys with a refetchInterval, and the keys its
\* Refresh button asks for again.
Queries(asks, polls, reload) == [asks |-> asks, polls |-> polls, reload |-> reload]

\* A mutation: the keys the call alters, the keys onSuccess invalidates, the
\* dialogs (and the drawer) onSuccess closes.
Op(alters, refreshes, closes) ==
  [alters |-> alters, refreshes |-> refreshes, closes |-> closes,
   later |-> {}, delayed |-> {}, shows |-> "none", eager |-> FALSE]

\* The call only queues a job, and the job alters these keys.
Queues(op, later) == [op EXCEPT !.later = later]
\* onSuccess invalidates these keys three seconds later (setTimeout).
Delays(op, keys) == [op EXCEPT !.delayed = keys]
\* onSuccess shows a secret of the answer: in the drawer, in the dialog the
\* operation came from, or in a modal of its own that is shown once.
Reveals(op, home) == [op EXCEPT !.shows = home]
\* The dialog closes when it is submitted, before any answer.
Eager(op) == [op EXCEPT !.eager = TRUE]

\* A page: queries, mutations, what its header, its rows and its drawer offer,
\* which operations go through a dialog, which buttons are blocked (loading)
\* while their call is under way, and whether closing the drawer clears what
\* was revealed in it.
Page(q, ops, header, row, drawer, dialogs, blocks) ==
  [queries |-> q, ops |-> ops, header |-> header, row |-> row,
   drawer |-> drawer, dialogs |-> dialogs, blocks |-> blocks]

-----------------------------------------------------------------------------
(* Users.tsx, ApiKeys.tsx, IpAllowlist.tsx *)

UsersQueries == Queries({"list"}, {}, {})
UsersOps ==
  [create |-> Op({"list"}, {"list"}, {"create"}),
   update |-> Op({"list"}, {"list"}, {"update"}),
   reset  |-> Op({}, {}, {"reset"}),
   perms  |-> Op({"list"}, {"list"}, {"perms"})]
UsersRow == {"update", "reset", "perms"}
UsersDialogs == {"create", "update", "reset", "perms"}
Users == Page(UsersQueries, UsersOps, {"create"}, UsersRow, {}, UsersDialogs, {})

ApiKeysQueries == Queries({"list"}, {}, {})
ApiKeysOps ==
  [create |-> Reveals(Op({"list"}, {"list"}, {"create"}), "modal"),
   rotate |-> Reveals(Op({"list"}, {"list"}, {}), "modal"),
   toggle |-> Op({"list"}, {"list"}, {}),
   delete |-> Op({"list"}, {"list"}, {})]
ApiKeysRow == {"toggle", "rotate", "delete"}
ApiKeysDialogs == {"create"}
ApiKeys == Page(ApiKeysQueries, ApiKeysOps, {"create"}, ApiKeysRow, {}, ApiKeysDialogs, {})

IpAllowlistOps ==
  [create |-> Op({"list"}, {"list"}, {"create"}),
   toggle |-> Op({"list"}, {"list"}, {}),
   delete |-> Op({"list"}, {"list"}, {})]
IpAllowlistRow == {"toggle", "delete"}
IpAllowlistDialogs == {"create"}
IpAllowlist ==
  Page(Queries({"list"}, {}, {}), IpAllowlistOps, {"create"}, IpAllowlistRow, {},
       IpAllowlistDialogs, {})

-----------------------------------------------------------------------------
(* IntegrationsServices.tsx: the drawer shows the rules of the service and,
   after a break-glass reveal, its key for 120 seconds. *)

ServicesQueries == Queries({"list", "detail"}, {"list"}, {"list"})
ServicesOps ==
  [create |-> Reveals(Op({"list"}, {"list"}, {"create"}), "modal"),
   update |-> Op({"list"}, {"list"}, {"update"}),
   delete |-> Op({"list"}, {"list"}, {"drawer"}),
   regen  |-> Reveals(Op({"list"}, {"list"}, {}), "modal"),
   addRule    |-> Op({"detail"}, {"detail"}, {"addRule", "editRule"}),
   editRule   |-> Op({"detail"}, {"detail"}, {"addRule", "editRule"}),
   deleteRule |-> Op({"detail"}, {"detail"}, {}),
   toggleRule |-> Op({"detail"}, {"detail"}, {}),
   reveal     |-> Reveals(Op({}, {}, {"reveal"}), "drawer")]
ServicesRow == {"drawer", "update", "regen", "delete"}
ServicesRuleRow == {"toggleRule", "editRule", "deleteRule"}
ServicesDrawer == ServicesRuleRow \cup {"addRule", "reveal", "clears"}
ServicesDialogs == {"create", "update", "addRule", "editRule", "reveal"}
Services ==
  Page(ServicesQueries, ServicesOps, {"create"}, ServicesRow, ServicesDrawer,
       ServicesDialogs, {})

(* Secrets.tsx and components/Secrets: a modal per operation, mounted while its
   record is set. *)

SecretsQueries == Queries({"list"}, {}, {})
SecretsCreate == Op({"list"}, {"list"}, {"create"})
SecretsEdit   == Op({"list"}, {"list"}, {"edit"})
SecretsRotate == Op({"list"}, {"list"}, {"rotate"})
SecretsReveal == Reveals(Op({}, {}, {}), "dialog")
SecretsDelete == Op({"list"}, {"list"}, {"delete"})
SecretsVerify == Op({}, {}, {})
SecretsOps ==
  [create |-> SecretsCreate, edit |-> SecretsEdit, rotate |-> SecretsRotate,
   reveal |-> SecretsReveal, delete |-> SecretsDelete, verify |-> SecretsVerify]
SecretsRow == {"verify", "reveal", "edit", "rotate", "delete"}
SecretsDialogs == {"create", "edit", "rotate", "reveal", "delete"}
Secrets ==
  Page(SecretsQueries, SecretsOps, {"create"}, SecretsRow, {}, SecretsDialogs, {"verify"})

-----------------------------------------------------------------------------
(* IntegrationsEmail.tsx, MailboxInbox.tsx *)

EmailQueries == Queries({"list", "jobs"}, {"list", "jobs"}, {"jobs"})
EmailRefresh == Op({"jobs"}, {"jobs"}, {})
EmailOps ==
  [create    |-> Op({"list"}, {"list"}, {"create"}),
   addDomain |-> Eager(Op({"list"}, {"list"}, {"create"})),
   password  |-> Op({}, {}, {"password"}),
   disable   |-> Op({"list"}, {"list"}, {}),
   alias     |-> Op({}, {}, {"alias"}),
   stats     |-> EmailRefresh]
EmailRow == {"password", "disable"}
EmailHeader == {"create", "alias", "stats", "addDomain"}
EmailDialogs == {"create", "password", "alias", "addDomain"}
Email == Page(EmailQueries, EmailOps, EmailHeader, EmailRow, {}, EmailDialogs, {"stats"})

InboxQueries == Queries({"list", "detail"}, {}, {"list"})
InboxOps == [markRead |-> Op({"list"}, {"list"}, {})]
InboxRow == {"drawer", "markRead"}
Inbox == Page(InboxQueries, InboxOps, {}, InboxRow, {}, {}, {})

-----------------------------------------------------------------------------
(* InfrastructureServers.tsx: "detail" are the resources of the server whose
   drawer is open. *)

ServersQueries == Queries({"list", "jobs", "detail"}, {"list", "jobs", "detail"}, {"list", "jobs"})
ServersSync  == Delays(Queues(Op({"jobs"}, {"jobs"}, {}), {"list", "jobs"}), {"list"})
ServersPower == Delays(Queues(Op({"jobs"}, {"jobs"}, {}), {"list", "jobs", "detail"}), {"list"})
ServersDelete ==
  Queues(Op({"jobs"}, {"list", "jobs"}, {"drawer", "delete"}), {"list", "jobs"})
ServersOps ==
  [sync |-> ServersSync, power |-> ServersPower, delete |-> ServersDelete,
   console |-> Op({}, {}, {})]
ServersRow == {"drawer", "console", "power"}
ServersDrawer == {"console", "power", "delete"}
ServersDialogs == {"delete"}
Servers ==
  Page(ServersQueries, ServersOps, {"sync"}, ServersRow, ServersDrawer, ServersDialogs, {"sync"})

(* IntegrationsDns.tsx: the drawer shows the records of a zone; a second drawer
   lists the zones of a provider and imports them. *)

DnsQueries == Queries({"list", "jobs", "detail"}, {}, {"list", "jobs"})
DnsRecordJob(closes) ==
  Queues(Op({"jobs"}, {"detail", "jobs"}, closes), {"detail", "jobs"})
DnsOps ==
  [createZone |-> Op({"list"}, {"list"}, {"createZone"}),
   upsert     |-> DnsRecordJob({"upsert"}),
   deleteRecord |-> DnsRecordJob({}),
   sync       |-> Op({}, {}, {}),
   unregister |-> Op({"list", "jobs"}, {"list", "jobs"}, {"drawer"}),
   import     |-> Op({"list"}, {"list"}, {})]
DnsRow == {"drawer", "sync", "unregister"}
DnsRecordRow == {"upsert", "deleteRecord"}
DnsDrawer == DnsRecordRow \cup {"sync"}
DnsDialogs == {"createZone", "upsert"}
DnsDiscover == {"import"}
Dns ==
  Page(DnsQueries, DnsOps, {"createZone"} \cup DnsDiscover, DnsRow, DnsDrawer,
       DnsDialogs, {"sync", "import"})

(* MonitoringDashboard.tsx: the agent answers once Nagios has been told to
   reload; the page waits three seconds and refreshes everything. *)

MonitoringQueries == Queries({"list", "detail"}, {"list"}, {"list"})
MonitoringRefreshAll == {"list", "detail"}
MonitoringOps ==
  [create |-> Delays(Queues(Op({}, {}, {"create"}), {"list"}), MonitoringRefreshAll),
   update |-> Delays(Queues(Op({}, {}, {"update"}), {"list"}), MonitoringRefreshAll),
   delete |-> Delays(Queues(Op({}, {}, {"drawer"}), {"list"}), MonitoringRefreshAll)]
MonitoringRow == {"drawer"}
MonitoringDrawer == {"update", "delete"}
MonitoringAdd == {"create"}
MonitoringEdit == {"update"}
Monitoring ==
  Page(MonitoringQueries, MonitoringOps, MonitoringAdd, MonitoringRow,
       MonitoringDrawer, MonitoringAdd \cup MonitoringEdit, {"delete"})

-----------------------------------------------------------------------------
(* IntegrationsStorage.tsx, IntegrationsPbx.tsx, BackupRestore.tsx *)

StorageQueries == Queries({"list", "jobs"}, {}, {})
StorageOps ==
  [create |-> Op({"list"}, {"list"}, {"create"}),
   update |-> Op({"list"}, {"list"}, {"update"}),
   test   |-> Queues(Op({"jobs"}, {"jobs"}, {}), {"jobs"})]
StorageRow == {"update", "test"}
StorageCreate == {"create"}
StorageEdit == {"update"}
Storage ==
  Page(StorageQueries, StorageOps, StorageCreate, StorageRow, {},
       StorageCreate \cup StorageEdit, {"test"})

\* The edit invalidates 'pbx-fleet'; the table is 'pbx_fleet_status'.  The add
\* dialog stays open with the report of the registration.
PbxOps ==
  [refresh |-> Queues(Op({}, {"list"}, {}), {"list"}),
   add     |-> Op({"list"}, {"list"}, {}),
   edit    |-> Op({"list"}, {}, {"edit"}),
   delete  |-> Op({"list"}, {"list"}, {})]
PbxFleet ==
  Page(Queries({"list"}, {"list"}, {"list"}), PbxOps, {"refresh", "add"},
       {"edit", "delete"}, {}, {"add", "edit"}, {"refresh"})

\* "jobs" is the configuration card.
BackupOps ==
  [create   |-> Op({"list", "jobs"}, {"list", "jobs"}, {}),
   delete   |-> Op({"list", "jobs"}, {"list", "jobs"}, {}),
   settings |-> Op({"jobs"}, {"jobs"}, {})]
Backups ==
  Page(Queries({"list", "jobs"}, {"list"}, {"list"}), BackupOps, {"create", "settings"},
       {"delete"}, {}, {}, {"create"})

-----------------------------------------------------------------------------
(* KbDocuments.tsx, KbSources.tsx, KbSearch.tsx, AskNexus.tsx *)

KbDocumentsQueries == Queries({"list"}, {"list"}, {})
KbIngest(dialog) == Queues(Op({"list"}, {"list"}, dialog), {"list"})
KbDocumentsOps ==
  [text |-> KbIngest({"text"}), url |-> KbIngest({"url"}), file |-> KbIngest({"file"}),
   reingest |-> KbIngest({})]
KbDocumentsRow == {"reingest"}
KbDocumentsDialogs == {"text", "url", "file"}
KbDocuments ==
  Page(KbDocumentsQueries, KbDocumentsOps, KbDocumentsDialogs, KbDocumentsRow, {},
       KbDocumentsDialogs, {"reingest"})

KbSourcesOps == [create |-> Op({"list"}, {"list"}, {"create"})]
KbSourcesDialogs == {"create"}
KbSources ==
  Page(Queries({"list"}, {}, {}), KbSourcesOps, KbSourcesDialogs, {}, {}, KbSourcesDialogs, {})

\* A question has no table; the answer on show is kept until the next one, and
\* feedback is sent for the answer on show.
AskOps == [ask |-> Op({}, {}, {}), feedback |-> Op({}, {}, {})]
AskFeedback == {"feedback"}
Ask == Page(Queries({}, {}, {}), AskOps, {"ask"} \cup AskFeedback, {}, {}, {}, {"ask", "feedback"})

-----------------------------------------------------------------------------
(* Agents.tsx, Personas.tsx, PersonaDefaults.tsx, TaskRoutes.tsx, Tasks.tsx *)

AgentsQueries == Queries({"list", "jobs"}, {"jobs"}, {})
AgentsOps == [create |-> Op({"list"}, {"list"}, {"create"}), ping |-> Op({}, {}, {})]
AgentsRow == {"ping"}
AgentsDialogs == {"create"}
Agents == Page(AgentsQueries, AgentsOps, AgentsDialogs, AgentsRow, {}, AgentsDialogs, {"ping"})

PersonasOps ==
  [create  |-> Op({"list"}, {"list"}, {"create"}),
   version |-> Op({"detail"}, {"detail"}, {"version"})]
PersonasDrawer == {"version"}
PersonasDialogs == {"create", "version"}
Personas ==
  Page(Queries({"list", "detail"}, {}, {}), PersonasOps, {"create"}, {"drawer"},
       PersonasDrawer, PersonasDialogs, {})

DefaultsOps == [create |-> Op({"list"}, {"list"}, {"create"})]
PersonaDefaults ==
  Page(Queries({"list"}, {}, {}), DefaultsOps, {"create"}, {}, {}, {"create"}, {})

RoutesOps == [create |-> Op({"list"}, {"list"}, {"create"})]
TaskRoutes ==
  Page(Queries({"list"}, {}, {}), RoutesOps, {"create"}, {}, {}, {"create"}, {})

-----------------------------------------------------------------------------
\* The pages the router knows that change anything on the server.
Pages ==
  {"users", "apiKeys", "ipAllowlist", "services", "secrets", "email",
   "inbox", "servers", "dns", "monitoring", "storage", "pbx", "backup",
   "kbDocuments", "kbSources", "ask", "agents", "personas",
   "personaDefaults", "taskRoutes"}

PageOf(name) ==
  CASE name = "users" -> Users
    [] name = "apiKeys" -> ApiKeys
    [] name = "ipAllowlist" -> IpAllowlist
    [] name = "services" -> Services
    [] name = "secrets" -> Secrets
    [] name = "email" -> Email
    [] name = "inbox" -> Inbox
    [] name = "servers" -> Servers
    [] name = "dns" -> Dns
    [] name = "monitoring" -> Monitoring
    [] name = "storage" -> Storage
    [] name = "pbx" -> PbxFleet
    [] name = "backup" -> Backups
    [] name = "kbDocuments" -> KbDocuments
    [] name = "kbSources" -> KbSources
    [] name = "ask" -> Ask
    [] name = "agents" -> Agents
    [] name = "personas" -> Personas
    [] name = "personaDefaults" -> PersonaDefaults
    [] name = "taskRoutes" -> TaskRoutes

=============================================================================
