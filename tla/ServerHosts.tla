----------------------------- MODULE ServerHosts -----------------------------
(* What the server agent does beside its change jobs.                         *)
(*                                                                            *)
(* Hosts: at its start the agent makes a server_hosts row for every           *)
(* credential it sees in the vault (seed_hosts.py); administrators register   *)
(* and delete hosts (api/hosts.py); pages ask for resources, consoles and     *)
(* catalogues of a host while they wait (api/servers.py, catalog.py), with    *)
(* the credential fetched in two calls (client/vault_client.py).              *)
(* Devices: the list of MeshCentral with its cache (client/meshcentral.py).   *)
(* Machines: adapters/proxmox.py, which finds the VM it has just created by   *)
(* its name in a listing, and whose ids are given out again.                  *)
(*                                                                            *)
(* The three share no state.  One tenant; a host is named by its label, which *)
(* is unique there.  Figures, addresses and names of systems are left out.    *)
EXTENDS Integers, Sequences, FiniteSets, SequencesExt

CONSTANTS
    VultrAliases, ProxmoxAliases, \* aliases server.vultr.*, server.proxmox.*
    OtherAliases,                 \* secrets of others in the same vault
    GivenLabels,                  \* labels administrators give to hosts
    PageSize,                     \* secrets the vault lists when not told otherwise
    Viewers,                      \* requests for the list of devices
    CacheTtl,                     \* _CACHE_TTL
    Orders,                       \* create jobs of a Proxmox host
    HostNames, Vms,               \* names and ids of machines
    MaxTries,                     \* job_max_attempts
    MaxOps, MaxLost, MaxClock     \* bounds: operator's steps, failures, time

Aliases == VultrAliases \cup ProxmoxAliases
Secrets == Aliases \cup OtherAliases
Labels == {"Vultr Production", "Proxmox Production"} \cup GivenLabels

ASSUME HostsAssumption ==
    /\ PageSize \in Nat \ {0} /\ CacheTtl \in Nat \ {0} /\ MaxTries \in Nat \ {0}
    /\ MaxOps \in Nat /\ MaxLost \in Nat /\ MaxClock \in Nat
    /\ IsFiniteSet(Secrets)
    /\ {"none", "sync", "hand"} \cap (Secrets \cup Orders \cup HostNames) = {}

VARIABLES
    secrets,  \* the vault: active secrets, the newest first
    spent,    \* aliases the vault has had: none of them can be created again
    hosts,    \* server_hosts: label -> secret_alias
    start,    \* the start of the agent and, after it, what it has done
    live,     \* a request that waits for a provider
    clock, cache, viewer,          \* time, _cache, requests for devices
    vms,      \* the machines of a Proxmox node: name, and who has made it
    vmRows,   \* server_instances of that node: id -> the job that has stored the row
    order,    \* create jobs
    makers,   \* history: who has made a machine of which name
    reused,   \* history: ids given out again while a row or a job refers to them
    ops, lost

hostVars == <<secrets, spent, hosts, start, live>>
deviceVars == <<clock, cache, viewer>>
vmVars == <<vms, vmRows, order, makers, reused>>
boundVars == <<ops, lost>>

Operates == ops < MaxOps /\ ops' = ops + 1 /\ UNCHANGED lost
Fails == lost < MaxLost /\ lost' = lost + 1 /\ UNCHANGED ops

------------------------------------------------------------------------------
\* Hosts

\* get_adapter: the adapter of a host, by the provider of its credential
Adapter(alias) == IF alias \in VultrAliases THEN "vultr" ELSE "proxmox"

\* _PROVIDER_MAP: one label for each provider
LabelOf(alias) == IF Adapter(alias) = "vultr" THEN "Vultr Production" ELSE "Proxmox Production"

\* GET /v1/secrets: the newest, a page of them
Page == ToSet(SubSeq(secrets, 1, IF Len(secrets) < PageSize THEN Len(secrets) ELSE PageSize))

NoLive == [op |-> "none", pc |-> "idle", label |-> "none", alias |-> "none",
           audit |-> FALSE, flags |-> {}, answer |-> "none"]

Up == start.pc = "up"

\* listed: what the vault has answered; asked: the credentials it held then; full: it held
\* more than a page; before, after: hosts at the ends of the seed
Starting == [pc |-> "down", listed |-> {}, asked |-> {}, full |-> FALSE, failed |-> FALSE,
             before |-> hosts, after |-> hosts]

\* The process ends and starts again; requests in flight are gone.
Restart ==
    /\ Up
    /\ start' = Starting
    /\ live' = NoLive
    /\ UNCHANGED <<secrets, spent, hosts, boundVars>>

\* seed_hosts_from_vault asks for the secrets; without an answer it gives up.
SeedLists ==
    /\ start.pc = "down"
    /\ \/ /\ start' = [start EXCEPT !.pc = "listed", !.listed = Page, !.asked = ToSet(secrets) \cap Aliases,
                                    !.full = Len(secrets) > PageSize]
          /\ UNCHANGED boundVars
       \/ /\ Fails
          /\ start' = [start EXCEPT !.pc = "up", !.failed = TRUE]
    /\ UNCHANGED <<secrets, spent, hosts, live>>

HasHost(alias) == \E l \in Labels : hosts[l] = alias

\* The aliases it makes a host for.
Wanted == {a \in start.listed \cap Aliases : ~HasHost(a)}

\* A label that is taken, or wanted twice, breaks the unique index: the flush fails and
\* with it the whole session.
LabelTaken ==
    \E a \in Wanted : hosts[LabelOf(a)] # "none" \/ \E b \in Wanted \ {a} : LabelOf(b) = LabelOf(a)

Seeded(l) ==
    IF ~LabelTaken /\ \E a \in Wanted : LabelOf(a) = l THEN CHOOSE a \in Wanted : LabelOf(a) = l
    ELSE hosts[l]

SeedCommits ==
    /\ start.pc = "listed"
    /\ \/ /\ hosts' = [l \in Labels |-> Seeded(l)]
          /\ start' = [start EXCEPT !.pc = "up", !.after = hosts']
          /\ UNCHANGED boundVars
       \/ /\ Wanted # {} /\ Fails
          /\ start' = [start EXCEPT !.pc = "up", !.failed = TRUE]
          /\ UNCHANGED hosts
    /\ UNCHANGED <<secrets, spent, live>>

\* create_host
CreateHost(l, a) ==
    /\ Up /\ hosts[l] = "none" /\ Operates
    /\ hosts' = [hosts EXCEPT ![l] = a]
    /\ UNCHANGED <<secrets, spent, start, live>>

Notes(what) == live' = IF live.pc = "idle" THEN live ELSE [live EXCEPT !.flags = @ \cup {what}]

\* delete_host, whose servers go with it
DeleteHost(l) ==
    /\ Up /\ hosts[l] # "none" /\ Operates
    /\ hosts' = [hosts EXCEPT ![l] = "none"]
    /\ IF live.label = l THEN Notes("host gone") ELSE UNCHANGED live
    /\ UNCHANGED <<secrets, spent, start>>

\* Somebody stores a secret, or deletes one.
StoreSecret(a) ==
    /\ a \notin spent /\ Operates
    /\ secrets' = <<a>> \o secrets /\ spent' = spent \cup {a}
    /\ Notes("vault changed")
    /\ UNCHANGED <<hosts, start>>

DeleteSecret(a) ==
    /\ Operates
    /\ \E i \in DOMAIN secrets : secrets[i] = a /\ secrets' = RemoveAt(secrets, i)
    /\ Notes("vault changed")
    /\ UNCHANGED <<spent, hosts, start>>

\* A request arrives and loads what it is about; pc is what it does next.
Asks(op, l, pc) ==
    /\ Up /\ live.pc = "idle" /\ hosts[l] # "none"
    /\ live' = [NoLive EXCEPT !.op = op, !.label = l, !.alias = hosts[l], !.pc = pc,
                              !.answer = IF pc = "done" THEN "400" ELSE "none"]
    /\ UNCHANGED <<secrets, spent, hosts, start, boundVars>>

\* A server is loaded first, and its host by another statement.
get_server_resources(l) == Asks("server resources", l, "host")
get_console(l) == Asks("console", l, "host")

\* Only nodes of Proxmox have resources of their own.
get_host_resources(l) == Asks("host resources", l, IF Adapter(hosts[l]) = "proxmox" THEN "list" ELSE "done")

\* list_regions, list_plans, list_os_images
ask_catalog(l) == Asks("catalog", l, "list")

Answered(code) == live' = [live EXCEPT !.pc = "done", !.answer = code]

LoadsHost ==
    /\ live.pc = "host"
    /\ IF "host gone" \in live.flags THEN Answered("500") ELSE live' = [live EXCEPT !.pc = "list"]
    /\ UNCHANGED <<secrets, spent, hosts, start, boundVars>>

Refused == IF live.op = "catalog" THEN "500" ELSE "502"

\* get_secret: the listing, searched for the alias
ListsSecrets ==
    /\ live.pc = "list"
    /\ IF live.alias \in Page THEN live' = [live EXCEPT !.pc = "read"] ELSE Answered(Refused)
    /\ UNCHANGED <<secrets, spent, hosts, start, boundVars>>

\* get_secret: the value of what was found
ReadsSecret ==
    /\ live.pc = "read"
    /\ IF live.alias \in ToSet(secrets) THEN live' = [live EXCEPT !.pc = "call"] ELSE Answered(Refused)
    /\ UNCHANGED <<secrets, spent, hosts, start, boundVars>>

\* The provider answers; what cannot be read beside the figures asked for, storage pools
\* or bandwidth, is left out of the answer.
Gives(op, providers) ==
    /\ live.pc = "call" /\ live.op = op /\ Adapter(live.alias) \in providers
    /\ Answered("200")
    /\ UNCHANGED <<secrets, spent, hosts, start, boundVars>>

GivesNodeStatus == Gives("host resources", {"proxmox"})
GivesUsage == Gives("server resources", {"proxmox"})
GivesSpecs == Gives("server resources", {"vultr"})
GivesCatalog == Gives("catalog", {"vultr", "proxmox"})

\* get_console_url makes an address up, without the provider.
GivesConsole ==
    /\ live.pc = "call" /\ live.op = "console"
    /\ live' = [live EXCEPT !.pc = "audit"]
    /\ UNCHANGED <<secrets, spent, hosts, start, boundVars>>

\* _audit, a commit of its own before the console is given out
Audits ==
    /\ live.pc = "audit"
    /\ live' = [live EXCEPT !.pc = "done", !.answer = "200", !.audit = TRUE]
    /\ UNCHANGED <<secrets, spent, hosts, start, boundVars>>

\* The vault, the provider or the commit of the audit row fails, that one perhaps after it
\* was done.
LiveFails ==
    /\ live.pc \in {"list", "read", "call", "audit"}
    /\ live.pc = "call" => live.op # "console"
    /\ Fails
    /\ \E stored \in {FALSE, live.pc = "audit"} :
         live' = [live EXCEPT !.pc = "done", !.answer = Refused, !.audit = stored, !.flags = @ \cup {"failed"}]
    /\ UNCHANGED <<secrets, spent, hosts, start>>

LiveEnds ==
    /\ live.pc = "done" /\ live' = NoLive
    /\ UNCHANGED <<secrets, spent, hosts, start, boundVars>>

HostNext ==
    /\ \/ Restart \/ SeedLists \/ SeedCommits
       \/ \E l \in Labels : DeleteHost(l) \/ \E a \in Aliases : CreateHost(l, a)
       \/ \E a \in Secrets : StoreSecret(a) \/ DeleteSecret(a)
       \/ \E l \in Labels :
            get_server_resources(l) \/ get_console(l) \/ get_host_resources(l) \/ ask_catalog(l)
       \/ LoadsHost \/ ListsSecrets \/ ReadsSecret
       \/ GivesNodeStatus \/ GivesUsage \/ GivesSpecs \/ GivesCatalog \/ GivesConsole
       \/ Audits \/ LiveFails \/ LiveEnds
    /\ UNCHANGED <<deviceVars, vmVars>>

------------------------------------------------------------------------------
\* Devices.  Of a list only the time is kept at which MeshCentral has made it.

NoViewer == [pc |-> "idle", force |-> FALSE, now |-> 0, data |-> 0, answer |-> "none"]

\* list_devices: from the cache while it is young, unless a new list is asked for
ListDevices(p, force) ==
    /\ viewer[p].pc = "idle"
    /\ viewer' = [viewer EXCEPT ![p] =
         IF ~force /\ cache # <<>> /\ clock - cache[1] < CacheTtl
         THEN [pc |-> "done", force |-> FALSE, now |-> clock, data |-> cache[2], answer |-> "200"]
         ELSE [pc |-> "run", force |-> force, now |-> clock, data |-> 0, answer |-> "none"]]
    /\ UNCHANGED <<clock, cache, boundVars>>

\* get_device looks a name up in such a list
GetDevice(p) == ListDevices(p, FALSE)

\* _run_meshctrl: the passwords from the vault, and the command over SSH
RunMeshctrl(p) ==
    /\ viewer[p].pc = "run"
    /\ viewer' = [viewer EXCEPT ![p].pc = "store", ![p].data = clock]
    /\ UNCHANGED <<clock, cache, boundVars>>

\* The answer comes back, is parsed and cached with the time the request began.
CachesDevices(p) ==
    /\ viewer[p].pc = "store"
    /\ cache' = <<viewer[p].now, viewer[p].data>>
    /\ viewer' = [viewer EXCEPT ![p].pc = "done", ![p].answer = "200"]
    /\ UNCHANGED <<clock, boundVars>>

\* Vault, SSH or command fail, or the output is no JSON.
MeshFails(p) ==
    /\ viewer[p].pc \in {"run", "store"} /\ Fails
    /\ viewer' = [viewer EXCEPT ![p].pc = "done", ![p].answer = "502"]
    /\ UNCHANGED <<clock, cache>>

ViewerLeaves(p) ==
    /\ viewer[p].pc = "done"
    /\ viewer' = [viewer EXCEPT ![p] = NoViewer]
    /\ UNCHANGED <<clock, cache, boundVars>>

MeshRestart ==
    /\ cache' = <<>> /\ viewer' = [p \in Viewers |-> NoViewer]
    /\ UNCHANGED <<clock, boundVars>>

ClockTicks ==
    /\ clock < MaxClock /\ clock' = clock + 1
    /\ UNCHANGED <<cache, viewer, boundVars>>

DeviceNext ==
    /\ \/ \E p \in Viewers : \/ \E force \in BOOLEAN : ListDevices(p, force)
                             \/ GetDevice(p)
                             \/ RunMeshctrl(p) \/ CachesDevices(p) \/ MeshFails(p) \/ ViewerLeaves(p)
       \/ MeshRestart \/ ClockTicks
    /\ UNCHANGED <<hostVars, vmVars>>

------------------------------------------------------------------------------
\* Machines.  The worker does one job at a time.

NoVm == [name |-> "none", by |-> "none"]
NoOrder == [pc |-> "absent", name |-> "none", tries |-> 0, found |-> 0, failed |-> FALSE]

AtWork == {j \in Orders : order[j].pc \in {"post", "find", "store"}}

\* create_server
OrderVm(j, n) ==
    /\ order[j].pc = "absent"
    /\ order' = [order EXCEPT ![j] = [NoOrder EXCEPT !.pc = "pending", !.name = n]]
    /\ UNCHANGED <<vms, vmRows, makers, reused, boundVars>>

\* A job for what the adapter does not support: it is refused before anything is asked.
OrderUnsupported(j) ==
    /\ order[j].pc = "absent"
    /\ order' = [order EXCEPT ![j] = [NoOrder EXCEPT !.pc = "pending"]]
    /\ UNCHANGED <<vms, vmRows, makers, reused, boundVars>>

TakesOrder(j) ==
    /\ order[j].pc = "pending" /\ AtWork = {}
    /\ order' = [order EXCEPT ![j].pc = "post", ![j].tries = @ + 1]
    /\ UNCHANGED <<vms, vmRows, makers, reused, boundVars>>

Retried(o) == [o EXCEPT !.found = 0, !.pc = IF o.tries >= MaxTries THEN "failed" ELSE "pending"]

\* The node makes a machine under an id that is free.
VmMade(v, n, by) ==
    /\ vms[v] = NoVm
    /\ vms' = [vms EXCEPT ![v] = [name |-> n, by |-> by]]
    /\ makers' = makers \cup {<<n, by>>}
    /\ reused' = IF vmRows[v] # "none" \/ \E j \in AtWork : order[j].found = v
                 THEN reused \cup {v} ELSE reused

\* rebuild, delete_snapshot, restore_backup, set_backup_schedule, disable_backups:
\* NotImplementedError
RefusesOrder(j) ==
    /\ order[j].pc = "post" /\ order[j].name = "none"
    /\ order' = [order EXCEPT ![j] = Retried(@)]
    /\ UNCHANGED <<vms, vmRows, makers, reused, boundVars>>

\* create_instance: POST
PostsVm(j) ==
    /\ order[j].pc = "post" /\ order[j].name # "none"
    /\ \E v \in Vms : VmMade(v, order[j].name, j)
    /\ order' = [order EXCEPT ![j].pc = "find"]
    /\ UNCHANGED <<vmRows, boundVars>>

\* POST or the listing fails, or the answer to POST is lost
VmCallFails(j) ==
    /\ order[j].pc \in {"post", "find"} /\ order[j].name # "none" /\ Fails
    /\ order' = [order EXCEPT ![j] = [Retried(@) EXCEPT !.failed = TRUE]]
    /\ \/ order[j].pc = "post" /\ \E v \in Vms : VmMade(v, order[j].name, j)
       \/ UNCHANGED <<vms, makers, reused>>
    /\ UNCHANGED vmRows

\* Variant: the first machine of the listing, whatever its name.
AnyVm(n) == {v \in Vms : vms[v] # NoVm}

\* create_instance: the machines of the listing that have the name, in no known order
Named(n) == {v \in Vms : vms[v] # NoVm /\ vms[v].name = n}

FindsVm(j) ==
    /\ order[j].pc = "find"
    /\ \/ \E v \in Named(order[j].name) : order' = [order EXCEPT ![j].pc = "store", ![j].found = v]
       \/ Named(order[j].name) = {} /\ order' = [order EXCEPT ![j] = Retried(@)]
    /\ UNCHANGED <<vms, vmRows, makers, reused, boundVars>>

\* The row goes in with "succeeded", unless there is one of this id: the failed commit
\* leaves the job running for ever.
StoresVm(j) ==
    /\ order[j].pc = "store"
    /\ IF vmRows[order[j].found] = "none"
       THEN /\ vmRows' = [vmRows EXCEPT ![order[j].found] = j]
            /\ order' = [order EXCEPT ![j].pc = "succeeded"]
       ELSE order' = [order EXCEPT ![j].pc = "stuck"] /\ UNCHANGED vmRows
    /\ UNCHANGED <<vms, makers, reused, boundVars>>

\* list_instances, stored by a sync
SyncsVms ==
    /\ AtWork = {} /\ Operates
    /\ vmRows' = [v \in Vms |-> IF vms[v] # NoVm /\ vmRows[v] = "none" THEN "sync" ELSE vmRows[v]]
    /\ UNCHANGED <<vms, order, makers, reused>>

\* delete_instance of a server that is tracked; the answer may be lost, and the row stays.
DeletesVm(v) ==
    /\ AtWork = {} /\ vmRows[v] # "none" /\ vms[v] # NoVm
    /\ vms' = [vms EXCEPT ![v] = NoVm]
    /\ \/ Operates /\ vmRows' = [vmRows EXCEPT ![v] = "none"]
       \/ Fails /\ UNCHANGED vmRows
    /\ UNCHANGED <<order, makers, reused>>

\* Somebody makes or removes a machine in Proxmox itself.
MadeByHand(n) ==
    /\ Operates
    /\ \E v \in Vms : VmMade(v, n, "hand")
    /\ UNCHANGED <<vmRows, order>>

RemovedByHand(v) ==
    /\ Operates /\ vms[v] # NoVm
    /\ vms' = [vms EXCEPT ![v] = NoVm]
    /\ UNCHANGED <<vmRows, order, makers, reused>>

VmNext ==
    /\ \/ \E j \in Orders : \/ \E n \in HostNames : OrderVm(j, n)
                            \/ OrderUnsupported(j) \/ TakesOrder(j) \/ RefusesOrder(j) \/ PostsVm(j) \/ VmCallFails(j) \/ FindsVm(j) \/ StoresVm(j)
       \/ SyncsVms
       \/ \E v \in Vms : DeletesVm(v) \/ RemovedByHand(v)
       \/ \E n \in HostNames : MadeByHand(n)
    /\ UNCHANGED <<hostVars, deviceVars>>

------------------------------------------------------------------------------
HostsInit ==
    /\ secrets \in SetToAllKPermutations(Secrets) /\ Len(secrets) <= PageSize
    /\ spent = ToSet(secrets)
    /\ hosts = [l \in Labels |-> "none"]
    /\ start = [Starting EXCEPT !.pc = "up"]
    /\ live = NoLive
    /\ clock = 0 /\ cache = <<>> /\ viewer = [p \in Viewers |-> NoViewer]
    /\ vms = [v \in Vms |-> NoVm] /\ vmRows = [v \in Vms |-> "none"]
    /\ order = [j \in Orders |-> NoOrder] /\ makers = {} /\ reused = {}
    /\ ops = 0 /\ lost = 0

------------------------------------------------------------------------------
HostsOf(rows) == {rows[l] : l \in Labels}

\* Two credentials of a provider without a host, or another host under its label
Contested ==
    LET new == start.asked \ HostsOf(start.before) IN
    \E a \in new : \/ start.before[LabelOf(a)] # "none"
                  \/ \E b \in new \ {a} : LabelOf(a) = LabelOf(b)

\* When the agent has started every credential of a provider has its host, unless the
\* vault or the database failed, the vault held more than a page, or the one label of a
\* provider was contested.  However often it starts, the seed changes no host there is
\* and makes none for a credential that has one (seed_hosts.py:72-118).
SeedIsWhole ==
    start.pc = "up" =>
        /\ start.asked \subseteq HostsOf(start.after) \/ start.failed \/ start.full \/ Contested
        /\ \A l \in Labels : start.after[l] # start.before[l] =>
             /\ start.before[l] = "none"
             /\ start.after[l] \in start.asked \ HostsOf(start.before)

\* A console is given out only with its audit row, and one that is refused has none
\* unless its commit was not heard of.  Without a failure a request is refused only for a
\* host or secret that went, or one the vault no longer lists (servers.py:333-374).
LiveIsAccounted ==
    live.pc = "done" =>
        /\ live.op = "console" /\ live.answer = "200" => live.audit
        /\ live.audit => live.answer = "200" \/ "failed" \in live.flags
        /\ live.answer \in {"500", "502"} /\ live.flags = {} => live.alias \notin Page

\* A list of devices is never older than the cache allows, and one that was asked for
\* anew is newer than the question, however requests overlap (meshcentral.py:115-135).
DevicesAreFresh ==
    \A p \in Viewers : viewer[p].pc = "done" /\ viewer[p].answer = "200" =>
        /\ viewer[p].data > viewer[p].now - CacheTtl
        /\ viewer[p].force => viewer[p].data >= viewer[p].now

Shared(n) == Cardinality({m \in makers : m[1] = n}) > 1

\* The server a create job has stored is the machine it has made, unless machines of that
\* name were made by others as well or the id was given out again under a row that was
\* left behind; and without those and without failures the job leaves no machine that is
\* not tracked; a job that is not supported changes nothing (proxmox.py:230-246).
ServersAreOwn ==
    /\ \A v \in Vms : vmRows[v] \in Orders /\ vms[v] # NoVm =>
         vms[v].by = vmRows[v] \/ v \in reused \/ Shared(order[vmRows[v]].name)
    /\ \A j \in Orders : order[j].name = "none" => order[j].pc # "succeeded" /\ \A v \in Vms : vms[v].by # j
    /\ \A j \in Orders : order[j].pc = "succeeded" /\ ~order[j].failed /\ ~Shared(order[j].name) =>
         \A v \in Vms : vms[v].by = j => vmRows[v] = j

\* What the server agent says of hosts, devices and machines is so.
HostsAreTrue == SeedIsWhole /\ LiveIsAccounted /\ DevicesAreFresh /\ ServersAreOwn
==============================================================================
