---------------------------- MODULE SecretsAgent ----------------------------
(* Who may ask the secrets agent and what is answered: the vault (Vault),      *)
(* whose callers are known by then, and the keys of registered services with   *)
(* the check of such a key (ServiceKeys).  Neither reads what the other        *)
(* writes, so a behaviour is one of either, the other at rest.                 *)
EXTENDS Vault, ServiceKeys

VARIABLE knocking    \* it is the keys of services that are looked at

AgentInit ==
    /\ knocking \in BOOLEAN
    /\ Init /\ ServiceInit
    /\ ~knocking => ~Registered

AgentNext ==
    \/ ~knocking /\ Next /\ UNCHANGED <<knocking, serviceVars>>
    \/ knocking /\ ServiceNext /\ UNCHANGED <<knocking, vars>>

AgentSpec == AgentInit /\ [][AgentNext]_<<knocking, vars, serviceVars>>
=============================================================================
