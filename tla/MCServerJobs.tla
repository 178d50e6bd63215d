---------------------------- MODULE MCServerJobs ----------------------------
(* Small instances of ServerJobs and ServerHosts; the vault starts with no    *)
(* secret, with two of one provider, or with one of each.                     *)
EXTENDS ServerAgent

MCInit ==
    AgentInit /\ secrets \in {<<>>, <<"proxmox a", "proxmox b">>, <<"vultr a", "proxmox a">>}

MCSpec == MCInit /\ [][AgentNext]_agentVars /\ WF_agentVars(Serving(Work))
=============================================================================
