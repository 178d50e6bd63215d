----------------------------- MODULE ServerAgent -----------------------------
(* The server agent: its change jobs (ServerJobs), and its hosts, devices and *)
(* Proxmox machines (ServerHosts).  ServerJobs has one host whose provider    *)
(* names what it creates, as Vultr does, so what ServerHosts adds is apart    *)
(* from it: a behaviour is one of either, the other at rest.                  *)
EXTENDS ServerJobs, ServerHosts

VARIABLE part    \* what is looked at

hostsVars == <<hostVars, deviceVars, vmVars, boundVars>>
agentVars == <<part, vars, hostsVars>>

AgentInit ==
    /\ part \in {"jobs", "hosts", "devices", "machines"}
    /\ Init /\ HostsInit
    /\ part # "hosts" => secrets = <<>>

Serving(A) == part = "jobs" /\ A /\ UNCHANGED <<part, hostsVars>>

Beside(p, A) == part = p /\ A /\ UNCHANGED <<part, vars>>

AgentNext ==
    \/ Serving(Next)
    \/ Beside("hosts", HostNext) \/ Beside("devices", DeviceNext) \/ Beside("machines", VmNext)

\* The worker's loop never stops polling; nothing makes clients call.
AgentSpec == AgentInit /\ [][AgentNext]_agentVars /\ WF_agentVars(Serving(Work))
==============================================================================
