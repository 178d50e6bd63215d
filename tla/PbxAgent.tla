------------------------------ MODULE PbxAgent ------------------------------
(* The PBX agent: its jobs, targets and pages (Pbx), and what it finds out     *)
(* about a node while somebody waits (PbxProbe).  A probe reads a target and   *)
(* its secrets and writes nothing the others read, so a behaviour is one of    *)
(* either, the other at rest.                                                  *)
EXTENDS Pbx, PbxProbe

VARIABLE looking    \* it is the probes that are looked at

AgentInit ==
    /\ looking \in BOOLEAN
    /\ Init /\ ProbeInit
    /\ looking => rows = [t \in Targets |-> None]
    /\ ~looking => pbx.pjsip /\ target = CHOOSE c \in Credentials : TRUE

AgentNext ==
    \/ ~looking /\ Next /\ UNCHANGED <<looking, probeVars>>
    \/ looking /\ ProbeNext /\ UNCHANGED <<looking, vars>>

AgentSpec == AgentInit /\ [][AgentNext]_<<looking, vars, probeVars>>
=============================================================================
