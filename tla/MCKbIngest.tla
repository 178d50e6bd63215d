----------------------------- MODULE MCKbIngest -----------------------------
(* Small instances of KbIngest and AskNexus: an operator and a reader; a       *)
(* document only the operator may read.                                        *)
EXTENDS KnowledgeBase

CONSTANTS d1, op, rd, int

MCRoleOf == [u \in {op, rd} |-> IF u = op THEN "operator" ELSE "reader"]
MCNamespaceOf == [d \in {int} |-> "internal"]
=============================================================================
