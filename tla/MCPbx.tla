------------------------------- MODULE MCPbx -------------------------------
(* Small instances of Pbx and PbxProbe: at first some target is not           *)
(* registered yet; a target has the right credentials, or some of them wrong, *)
(* or keys in forms that must be converted or cannot be.                      *)
EXTENDS PbxAgent, TLC

MCInit == AgentInit /\ \E t \in Targets : rows[t] = None

MCSpec == MCInit /\ [][AgentNext]_<<looking, vars, probeVars>>

Symm == Permutations(Names) \cup Permutations(Targets)

MCCredential(ami, key, keyright, pwd) == [ami |-> ami, key |-> key, keyright |-> keyright, pwd |-> pwd]
MCCredentials ==
    {MCCredential("good", "pem", TRUE, "none"), MCCredential("bad", "base64", TRUE, "good"),
     MCCredential("good", "ppk", FALSE, "good"), MCCredential("good", "text", FALSE, "bad"),
     MCCredential("good", "ppk other", TRUE, "good"), MCCredential("bad", "none", FALSE, "good")}
=============================================================================
