---------------------------- MODULE AgentRegistry ----------------------------
(* The agent registry (agent_registry), the heartbeats the agents send it      *)
(* (packages/shared/heartbeat.py), and what nexus_api does with it: the         *)
(* registration of the known agents at its start and the monitor of stale       *)
(* heartbeats (nexus_api/main.py, lifespan and _heartbeat_monitor).             *)
(*                                                                              *)
(* Time is counted in minutes.  Every minute each running agent sends one       *)
(* heartbeat, which reaches the registry or is lost; the monitor sleeps two     *)
(* minutes, asks for the list of agents and works through the answer, while     *)
(* time goes on.  A notice counts as given when notify_action is called: it     *)
(* never raises, and its delivery is the business of module Notifications.      *)
(* Left out: audit rows, capabilities, descriptions and addresses, and the      *)
(* log entry every 30 minutes.                                                  *)
EXTENDS Integers, FiniteSets, Sequences

CONSTANTS
    Agents,          \* names of agents
    SeedList,        \* agents_to_register: the agents nexus_api registers, in order
    Tenants,         \* tenants with deployments of their own
    Global,          \* tenant_id NULL
    Interval,        \* minutes between two rounds of the monitor (2)
    Threshold,       \* minutes without a heartbeat the monitor tolerates (3)
    MaxDeployments,  \* bound: deployments of one agent
    MaxLost          \* bound: lost heartbeats, failed calls and restarts of nexus_api

ASSUME RegistryAssumption ==
    /\ IsFiniteSet(Agents) /\ SeedList \in Seq(Agents)
    /\ Interval \in Nat \ {0} /\ Threshold \in Nat \ {0}
    /\ MaxDeployments \in Nat /\ MaxLost \in Nat

VARIABLES
    up,       \* agents that are running
    beat,     \* registry_agents: Absent, Never or the age of last_heartbeat
    off,      \* registry_agents: agents with status "disabled"
    deps,     \* registry_deployments of each agent, newest first
    api,      \* what nexus_api is doing
    alerted,  \* _alerted
    lost,
    told,     \* history: the last notice given about each agent
    forgot,   \* history: agents that were in _alerted when nexus_api stopped
    blind     \* history: agents whose deployments the registry would not list at a start

registryVars == <<up, beat, off, deps, api, alerted, lost, told, forgot, blind>>

(* ---------------- the registry ---------------- *)

Absent == -2
Never == -1
Known(a) == beat[a] # Absent
Older(n) == IF 0 <= n /\ n <= Threshold THEN n + 1 ELSE n

\* create_agent: 409 when the name is taken
CreateAgent(a) == beat' = [beat EXCEPT ![a] = IF @ = Absent THEN Never ELSE @]

\* create_deployment: "no strict unique constraint", the newest comes first
CreateDeployment(a, d) == deps' = [deps EXCEPT ![a] = <<d>> \o @]

Deployment(t, by) == [tenant |-> t, by |-> by]
Nothing == Deployment("none", "none")

\* resolve_agent: nothing of a disabled agent; else the first of the list, and any
\* later one that is the tenant's own takes its place
Resolve(a, t) ==
    LET own == {n \in DOMAIN deps[a] : deps[a][n].tenant = t} IN
    IF a \in off \/ deps[a] = <<>> THEN Nothing
    ELSE IF own = {} THEN Head(deps[a])
    ELSE deps[a][CHOOSE n \in own : \A m \in own : m <= n]

\* create_agent by an operator
Register(a) ==
    /\ ~Known(a) /\ CreateAgent(a)
    /\ UNCHANGED <<up, off, deps, api, alerted, lost, told, forgot, blind>>

\* patch_agent: an operator disables or enables an agent
PatchAgent(a) ==
    /\ Known(a)
    /\ off' = IF a \in off THEN off \ {a} ELSE off \cup {a}
    /\ UNCHANGED <<up, beat, deps, api, alerted, lost, told, forgot, blind>>

\* create_deployment by an operator
Deploy(a, t) ==
    /\ Known(a) /\ Len(deps[a]) < MaxDeployments
    /\ CreateDeployment(a, Deployment(t, "operator"))
    /\ UNCHANGED <<up, beat, off, api, alerted, lost, told, forgot, blind>>

\* patch_deployment: an operator gives a deployment to another tenant
PatchDeployment(a, n, t) ==
    /\ n \in DOMAIN deps[a]
    /\ deps' = [deps EXCEPT ![a][n].tenant = t]
    /\ UNCHANGED <<up, beat, off, api, alerted, lost, told, forgot, blind>>

(* ---------------- heartbeats ---------------- *)

\* start_heartbeat, stop_heartbeat and crashes
Starts(a) ==
    /\ a \notin up /\ up' = up \cup {a}
    /\ UNCHANGED <<beat, off, deps, api, alerted, lost, told, forgot, blind>>
Stops(a) ==
    /\ a \in up /\ up' = up \ {a}
    /\ UNCHANGED <<beat, off, deps, api, alerted, lost, told, forgot, blind>>

\* record_heartbeat: 404 for a name that is not registered
Stored(a, arrived) == a \in arrived /\ Known(a)

Tick == IF api.pc = "sleep" /\ api.left > 0 THEN [api EXCEPT !.left = @ - 1] ELSE api

\* a minute passes, in which the heartbeats of arrived arrive
Minute(arrived) ==
    LET missing == Cardinality({a \in up \ arrived : Known(a)}) IN
    /\ lost + missing <= MaxLost
    /\ lost' = lost + missing
    /\ beat' = [a \in Agents |-> IF Stored(a, arrived) THEN 0 ELSE Older(beat[a])]
    /\ api' = Tick
    /\ UNCHANGED <<up, off, deps, alerted, told, forgot, blind>>

(* ---------------- nexus_api: start ---------------- *)

Sleeping == [pc |-> "sleep", left |-> Interval]
Seeding(n) == [pc |-> "agent", n |-> n]
Begin == IF SeedList = <<>> THEN Sleeping ELSE Seeding(1)

\* one agent is registered, or was before
SeedAgent ==
    /\ api.pc = "agent"
    /\ CreateAgent(SeedList[api.n])
    /\ api' = [api EXCEPT !.pc = "look"]
    /\ UNCHANGED <<up, off, deps, alerted, lost, told, forgot, blind>>

After == IF api.n = Len(SeedList) THEN Sleeping ELSE Seeding(api.n + 1)

\* Variant: the deployments of the agent are not asked for.
SeedLookSkipped ==
    /\ api.pc = "look"
    /\ api' = [api EXCEPT !.pc = "deploy"]
    /\ UNCHANGED <<up, beat, off, deps, alerted, lost, told, forgot, blind>>

\* a deployment is only made when the agent has none
SeedLook ==
    /\ api.pc = "look"
    /\ api' = IF deps[SeedList[api.n]] = <<>> THEN [api EXCEPT !.pc = "deploy"] ELSE After
    /\ UNCHANGED <<up, beat, off, deps, alerted, lost, told, forgot, blind>>

SeedDeploy ==
    /\ api.pc = "deploy"
    /\ CreateDeployment(SeedList[api.n], Deployment(Global, "seed"))
    /\ api' = After
    /\ UNCHANGED <<up, beat, off, alerted, lost, told, forgot, blind>>

\* the registry answers with an error: an agent it does not know is passed over, its
\* refusal to list deployments is taken for an empty list, and that to make one ignored
SeedRefused ==
    LET a == SeedList[api.n] IN
    /\ api.pc \in {"agent", "look", "deploy"} /\ lost < MaxLost
    /\ lost' = lost + 1
    /\ IF api.pc = "look"
       THEN api' = [api EXCEPT !.pc = "deploy"] /\ blind' = blind \cup {a}
       ELSE api' = (IF api.pc = "agent" /\ Known(a) THEN [api EXCEPT !.pc = "look"] ELSE After)
            /\ UNCHANGED blind
    /\ UNCHANGED <<up, beat, off, deps, alerted, told, forgot>>

\* the registry does not answer: the rest of the list is given up, the monitor starts
SeedFails ==
    /\ api.pc \in {"agent", "look", "deploy"} /\ lost < MaxLost
    /\ lost' = lost + 1
    /\ api' = Sleeping
    /\ \/ UNCHANGED <<beat, deps>>
       \/ api.pc = "agent" /\ CreateAgent(SeedList[api.n]) /\ UNCHANGED deps
       \/ /\ api.pc = "deploy" /\ UNCHANGED beat
          /\ CreateDeployment(SeedList[api.n], Deployment(Global, "seed"))
    /\ UNCHANGED <<up, off, alerted, told, forgot, blind>>

\* nexus_api is stopped and started: _alerted starts empty
ApiRestarts ==
    /\ lost < MaxLost /\ lost' = lost + 1
    /\ api' = Begin
    /\ alerted' = {} /\ forgot' = forgot \cup alerted
    /\ UNCHANGED <<up, beat, off, deps, told, blind>>

(* ---------------- nexus_api: the monitor ---------------- *)

\* the list is read; the monitor works with this answer
MonitorReads ==
    /\ api.pc = "sleep" /\ api.left = 0
    /\ api' = [pc |-> "list", left |-> {a \in Agents : Known(a)}, ages |-> beat]
    /\ UNCHANGED <<up, beat, off, deps, alerted, lost, told, forgot, blind>>

\* not 200, or an exception: nothing is looked at this time
MonitorFails ==
    /\ api.pc = "sleep" /\ api.left = 0 /\ lost < MaxLost
    /\ lost' = lost + 1
    /\ api' = Sleeping
    /\ UNCHANGED <<up, beat, off, deps, alerted, told, forgot, blind>>

\* an agent that has never sent one is skipped; one whose last is too old is told
\* down, once; one that is heard of again is told recovered
Judge(a) ==
    LET age == api.ages[a]
        stale == age = Threshold + 1 IN
    IF age = Never \/ stale = (a \in alerted) THEN UNCHANGED <<alerted, told, forgot>>
    ELSE /\ alerted' = IF stale THEN alerted \cup {a} ELSE alerted \ {a}
         /\ told' = [told EXCEPT ![a] = IF stale THEN "down" ELSE "recovered"]
         /\ forgot' = forgot \ {a}

MonitorLooks ==
    /\ api.pc = "list"
    /\ \/ /\ api.left = {} /\ api' = Sleeping
          /\ UNCHANGED <<alerted, told, forgot>>
       \/ \E a \in api.left :
            /\ api' = [api EXCEPT !.left = @ \ {a}]
            /\ Judge(a)
    /\ UNCHANGED <<up, beat, off, deps, lost, blind>>

RegistryInit ==
    /\ up = {} /\ beat = [a \in Agents |-> Absent] /\ off = {}
    /\ deps = [a \in Agents |-> <<>>] /\ api = Begin /\ alerted = {} /\ lost = 0
    /\ told = [a \in Agents |-> "nothing"] /\ forgot = {} /\ blind = {}

ApiSteps == SeedAgent \/ SeedLook \/ SeedDeploy \/ MonitorReads \/ MonitorLooks

RegistryNext ==
    \/ \E a \in Agents :
         \/ Starts(a) \/ Stops(a) \/ Register(a) \/ PatchAgent(a)
         \/ \E t \in Tenants \cup {Global} :
              Deploy(a, t) \/ \E n \in 1..MaxDeployments : PatchDeployment(a, n, t)
    \/ \E arrived \in SUBSET up : Minute(arrived)
    \/ ApiSteps \/ SeedRefused \/ SeedFails \/ ApiRestarts \/ MonitorFails

(* ---------------- properties ---------------- *)

\* The registration at start makes one deployment of an agent at most, however often
\* nexus_api is started and stopped in the middle, unless the registry answered the
\* question for its deployments with an error.
SeedMakesOne ==
    \A a \in Agents :
        a \notin blind => Cardinality({n \in DOMAIN deps[a] : deps[a][n].by = "seed"}) <= 1

\* A tenant that has a deployment of its own is never sent to another one's by
\* resolve_agent.
ResolvesOwn ==
    \A a \in Agents, t \in Tenants \cup {Global} :
        (\E n \in DOMAIN deps[a] : deps[a][n].tenant = t) =>
            Resolve(a, t) = Nothing \/ Resolve(a, t).tenant = t

\* An agent that stays away after having been heard of is in the end told down and
\* stays so, and one that stays is in the end no longer told down, unless nexus_api
\* was restarted in between and has forgotten that it had told so.
NoticesSettle ==
    \A a \in Agents :
        /\ <>[](a \notin up /\ beat[a] >= 0) => <>[](told[a] = "down")
        /\ <>[](a \in up /\ Known(a)) => <>[](told[a] # "down" \/ a \in forgot)
=============================================================================
