------------------------------- MODULE MCPortal -------------------------------
(* Every page of the portal with two records and two mutations. *)
EXTENDS Portal, TLC

Symmetry == Permutations(Records)
=============================================================================
