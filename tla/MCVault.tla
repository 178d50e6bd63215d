------------------------------- MODULE MCVault -------------------------------
(* Two services, one an administrator, on two secrets; two policies, of which *)
(* one denies what the lower one grants.                                      *)
EXTENDS SecretsAgent, TLC

CONSTANTS r1, r2, r3, svc, adm, i1, i2, i3, a, b, s, t, grant, deny

MCPolicy ==
    grant :> [services |-> {svc}, aliases |-> {a, b}, scopes |-> {s, t},
              actions |-> {"read", "write", "rotate"}, priority |-> 10]
    @@ deny :> [services |-> {svc, adm}, aliases |-> {b}, scopes |-> {s, t},
                actions |-> {"read"}, priority |-> 20]

NoPatch == [alias |-> None, scope |-> None, value |-> FALSE, is_active |-> None]

Call(op, who, id, name, patch) ==
    [op |-> op, service |-> who, id |-> id, name |-> name, patch |-> patch]

A == [alias |-> a, scope |-> s]
B == [alias |-> b, scope |-> t]

MCCalls ==
    {Call("create", svc, i1, A, NoPatch),
     Call("create", svc, i1, [alias |-> b, scope |-> s], NoPatch),
     Call("read", svc, i1, A, NoPatch),
     Call("read_by_alias", svc, i1, A, NoPatch),
     Call("read", Stranger, i1, A, NoPatch),
     Call("rotate", svc, i1, A, NoPatch),
     Call("delete", adm, i1, A, NoPatch),
     Call("update", svc, i1, A, [NoPatch EXCEPT !.alias = b]),
     Call("update", adm, i1, A, [NoPatch EXCEPT !.value = TRUE, !.scope = t, !.is_active = TRUE])}

MCSeedName == i1 :> A @@ i2 :> B

Symmetry == Permutations(Reqs) \cup Permutations(ServiceReqs)
=============================================================================
