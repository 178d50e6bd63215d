---------------------------- MODULE MCOperations ----------------------------
(* A small instance of Operations: the name of host h1 is part of the name of  *)
(* h2, and h2 is referred to from outside the directory; the two mailboxes     *)
(* (as a.b@c and a_b@c) have one vault alias.                                  *)
EXTENDS Operations

CONSTANTS h1, h2, a1, m1, m2

MCMentions == {<<h1, h1>>, <<h2, h2>>, <<h2, h1>>}
MCCfgName == [h \in {h1, h2} |-> h]
MCSeedList == <<a1>>
MCAliasOf == [m \in {m1, m2} |-> "alias"]
=============================================================================
