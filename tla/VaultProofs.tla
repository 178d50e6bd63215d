----------------------------- MODULE VaultProofs -----------------------------
(* Proofs about Vault for any sets of requests, callers, secrets and policies: *)
(* rows stay decryptable and unique, a deleted secret stays deleted, and       *)
(* nothing succeeds without leave and without a trace; and about the keys of   *)
(* services (ServiceKeys) for any number of administrators and callers.        *)
EXTENDS SecretsAgent, Sequences, FiniteSetTheorems, TLAPS

Active == {"engine", "loaded", "allowed", "cleared"}

\* What is decided about, and the access decision of policy/engine.py, for a
\* request whose state is q.
SubjectOf(q) ==
    IF q.call.op = "create" THEN q.call.name ELSE [alias |-> q.row.alias, scope |-> q.row.scope]

HasLeave(q) ==
    \/ admin_may(q.call)
    \/ \E p \in q.engine :
          /\ Matches(p, q.call.service, SubjectOf(q))
          /\ policy_action(q.call.op) \in Policy[p].actions
          /\ \A o \in q.engine : Matches(o, q.call.service, SubjectOf(q))
                                   => Policy[o].priority <= Policy[p].priority

\* What a request knows on its way: its row was loaded whole, and active if it is to
\* be updated or rotated; its policies were not deactivated before it began; once it
\* is let through it has leave, and the event to commit with its work.
RequestOK(r, q) ==
    /\ q.pc \in Active \cup {"ok"} => q.call \in Calls
    /\ q.row.encrypted_dek = q.row.ciphertext
    /\ q.pc \in {"loaded", "allowed"} /\ q.call.op \in {"update", "rotate"} => q.row.is_active
    /\ q.engine \cap q.revoked = {}
    /\ q.pc \in {"allowed", "cleared", "ok"} => HasLeave(q)
    /\ q.pc \in {"allowed", "cleared"} =>
         q.pending = IF q.call.op = "update" THEN {} ELSE {Event(r, audit_action(q.call.op), "allowed")}
    /\ q.pc = "cleared" => q.call.op = "create"

RequestInv == \A r \in Reqs : RequestOK(r, req[r])

RowInv ==
    /\ \A i \in Ids : secret[i].encrypted_dek = secret[i].ciphertext
    /\ \A i, j \in Ids : /\ i # j /\ secret[i].exists /\ secret[j].exists
                         => <<secret[i].alias, secret[i].scope>> # <<secret[j].alias, secret[j].scope>>

\* The audit log holds the events of the requests that succeeded, one of each, and
\* one for every value in the vault.
AuditInv ==
    /\ \A e \in audit : /\ e.result = "allowed" /\ req[e.req].pc = "ok"
                        /\ e.action = audit_action(req[e.req].call.op)
    /\ \A r \in Reqs : req[r].pc = "ok" => \E e \in audit : e.req = r
    /\ \A i \in Ids : secret[i].ciphertext \in Reqs
         => \E e \in audit : e.req = secret[i].ciphertext /\ e.action \in {"write", "rotate"}

PolicyInv == policies \cap dropped = {}

Inv == TypeOK /\ RequestInv /\ RowInv /\ AuditInv /\ PolicyInv

------------------------------------------------------------------------------
\* Requests

LEMMA NoRowType == NoRow \in Rows /\ NoRow.encrypted_dek = NoRow.ciphertext
BY DEF NoRow, Rows, Blobs

\* A request whose session is lost keeps nothing but its call.
LEMMA LostType ==
    ASSUME NEW r, NEW st \in Failures, NEW c \in Calls \cup {None}, NEW q,
           q = [Closed EXCEPT !.pc = st, !.call = c]
    PROVE  q \in Requests /\ RequestOK(r, q) /\ q.pc \in Failures
<1>1. PICK row : row = NoRow
  OBVIOUS
<1>2. row \in Rows /\ row.encrypted_dek = row.ciphertext
  BY <1>1, NoRowType
<1>3. Closed = [pc |-> "idle", call |-> None, engine |-> {}, revoked |-> {}, row |-> row, pending |-> {}]
  BY <1>1 DEF Closed
<1>4. /\ q.pc = st /\ q.call = c /\ q.engine = {} /\ q.revoked = {} /\ q.row = row /\ q.pending = {}
      /\ q = [pc |-> st, call |-> c, engine |-> {}, revoked |-> {}, row |-> row, pending |-> {}]
  BY <1>3
<1>5. q \in Requests
  BY <1>2, <1>4 DEF Requests, Failures
<1>6. RequestOK(r, q)
  BY <1>2, <1>4 DEF RequestOK, Failures, Active
<1> QED BY <1>4, <1>5, <1>6

\* A step that changes one request.
LEMMA RequestSet ==
    ASSUME Inv, NEW r \in Reqs, NEW q \in Requests, RequestOK(r, q), req' = [req EXCEPT ![r] = q]
    PROVE  /\ req' \in [Reqs -> Requests] /\ RequestInv'
           /\ req'[r] = q /\ \A o \in Reqs : o # r => req'[o] = req[o]
<1>1. req \in [Reqs -> Requests]
  BY DEF Inv, TypeOK
<1>2. req' \in [Reqs -> Requests] /\ req'[r] = q /\ \A o \in Reqs : o # r => req'[o] = req[o]
  BY <1>1
<1> QED BY <1>2 DEF Inv, RequestInv

\* A step that commits nothing.
LEMMA NothingCommitted ==
    ASSUME Inv, NEW r \in Reqs, NEW q \in Requests, RequestOK(r, q), req' = [req EXCEPT ![r] = q],
           req[r].pc # "ok", q.pc # "ok", UNCHANGED <<secret, audit, policies, dropped>>,
           errors' \in 0..MaxErrors
    PROVE  Inv'
<1>1. /\ req' \in [Reqs -> Requests] /\ RequestInv'
      /\ req'[r] = q /\ \A o \in Reqs : o # r => req'[o] = req[o]
  BY RequestSet
<1>2. audit \subseteq AuditEvents
  BY DEF Inv, TypeOK
<1>3. \A e \in audit : e.req \in Reqs
  BY <1>2 DEF AuditEvents
<1>4. TypeOK'
  BY <1>1 DEF Inv, TypeOK
<1>5. AuditInv'
  <2>1. \A e \in audit : e.req # r
    BY DEF Inv, AuditInv
  <2>2. \A o \in Reqs : req'[o].pc = "ok" => o # r
    BY <1>1
  <2> QED BY <1>1, <1>3, <2>1, <2>2 DEF Inv, AuditInv
<1>6. RowInv' /\ PolicyInv'
  BY DEF Inv, RowInv, PolicyInv
<1> QED BY <1>1, <1>4, <1>5, <1>6 DEF Inv

LEMMA RollbackInv ==
    ASSUME Inv, NEW r \in Reqs, NEW st \in Failures, rollback(r, st), req[r].pc # "ok",
           UNCHANGED <<policies, dropped>>, errors' \in 0..MaxErrors
    PROVE  Inv'
<1>1. PICK q : q = [Closed EXCEPT !.pc = st, !.call = req[r].call]
  OBVIOUS
<1>2. req[r].call \in Calls \cup {None}
  BY DEF Inv, TypeOK, Requests
<1>3. q \in Requests /\ RequestOK(r, q) /\ q.pc \in Failures
  BY <1>1, <1>2, LostType
<1>4. q.pc # "ok"
  BY <1>3 DEF Failures
<1>5. req' = [req EXCEPT ![r] = q] /\ UNCHANGED <<secret, audit, policies, dropped>>
  BY <1>1 DEF rollback
<1> QED BY <1>3, <1>4, <1>5, NothingCommitted

\* A request that is on its way.
LEMMA OnItsWay ==
    ASSUME Inv, NEW r \in Reqs, req[r].pc \in Active
    PROVE  /\ req[r] \in Requests /\ RequestOK(r, req[r]) /\ req[r].pc # "ok"
           /\ req[r].call \in Calls /\ req[r].row \in Rows /\ req[r].engine \subseteq PolicyIds
           /\ req[r].call.op \in Ops /\ req[r].call.id \in Ids /\ req[r].call.name \in Names
           /\ req[r].call.patch \in Patches /\ req[r].call.service \in Services \cup {Stranger}
           /\ errors \in 0..MaxErrors /\ secret \in [Ids -> Rows]
<1>1. req[r] \in Requests /\ RequestOK(r, req[r]) /\ errors \in 0..MaxErrors /\ secret \in [Ids -> Rows]
  BY DEF Inv, TypeOK, RequestInv
<1>2. req[r].call \in Calls /\ req[r].pc # "ok"
  BY <1>1 DEF RequestOK, Active
<1>3. req[r].row \in Rows /\ req[r].engine \subseteq PolicyIds
  BY <1>1 DEF Requests
<1>4. /\ req[r].call.op \in Ops /\ req[r].call.id \in Ids /\ req[r].call.name \in Names
      /\ req[r].call.patch \in Patches /\ req[r].call.service \in Services \cup {Stranger}
  BY <1>2, VaultAssumption
<1> QED BY <1>1, <1>2, <1>3, <1>4

\* The row and the event are committed together.
LEMMA CommitInv ==
    ASSUME Inv, NEW r \in Reqs, req[r].pc \in {"allowed", "cleared"}, NEW rows \in [Ids -> Rows],
           NEW ev, ev = Event(r, audit_action(req[r].call.op), "allowed"), commit(r, rows, {ev}),
           RowInv', UNCHANGED <<policies, dropped, errors>>,
           \A i \in Ids : \/ rows[i].ciphertext = secret[i].ciphertext
                          \/ rows[i].ciphertext = r /\ req[r].call.op \in {"create", "update", "rotate"}
    PROVE  Inv'
<1>1. PICK was, q : was = req[r] /\ q = [was EXCEPT !.pc = "ok", !.pending = {}]
  OBVIOUS
<1>2. /\ was \in Requests /\ RequestOK(r, was) /\ was.pc \in {"allowed", "cleared"}
      /\ was.call \in Calls /\ was.call.op \in Ops /\ req[r].pc # "ok"
  BY <1>1, OnItsWay DEF Active
<1>3. /\ q \in Requests /\ q.pc = "ok" /\ q.call = was.call /\ q.row = was.row /\ q.engine = was.engine
      /\ q.revoked = was.revoked
  BY <1>1, <1>2 DEF Requests
<1>4. HasLeave(was) => HasLeave(q)
  BY <1>3 DEF HasLeave, SubjectOf
<1>5. RequestOK(r, q)
  BY <1>2, <1>3, <1>4 DEF RequestOK
<1>6. req' = [req EXCEPT ![r] = q] /\ secret' = rows /\ audit' = audit \cup {ev}
  BY <1>1 DEF commit
<1>7. /\ req' \in [Reqs -> Requests] /\ RequestInv'
      /\ req'[r] = q /\ \A o \in Reqs : o # r => req'[o] = req[o]
  BY <1>3, <1>5, <1>6, RequestSet
<1>8. /\ ev \in AuditEvents /\ ev.req = r /\ ev.result = "allowed" /\ ev.action = audit_action(was.call.op)
      /\ was.call.op \in {"create", "update", "rotate"} => ev.action \in {"write", "rotate"}
  <2>1. audit_action(was.call.op) \in Actions \cup {"delete"}
    BY <1>2 DEF audit_action, policy_action, Actions, Ops
  <2>2. was.call.op \in {"create", "update", "rotate"} => audit_action(was.call.op) \in {"write", "rotate"}
    BY DEF audit_action, policy_action
  <2>3. ev = [req |-> r, action |-> audit_action(was.call.op), result |-> "allowed"]
    BY <1>1 DEF Event
  <2> QED BY <2>1, <2>2, <2>3 DEF AuditEvents
<1>9. audit \subseteq AuditEvents
  BY DEF Inv, TypeOK
<1>10. TypeOK'
  BY <1>6, <1>7, <1>8, <1>9 DEF Inv, TypeOK
<1>11. \A e \in audit : e.req \in Reqs /\ e.req # r
  BY <1>2, <1>9 DEF AuditEvents, Inv, AuditInv
<1>12. AuditInv'
  <2>1. ASSUME NEW e \in audit'
        PROVE  e.result = "allowed" /\ req'[e.req].pc = "ok" /\ e.action = audit_action(req'[e.req].call.op)
    <3>1. CASE e \in audit
      BY <1>7, <1>11, <3>1 DEF Inv, AuditInv
    <3>2. CASE e = ev
      BY <1>3, <1>7, <1>8, <3>2
    <3> QED BY <1>6, <2>1, <3>1, <3>2
  <2>2. ASSUME NEW o \in Reqs, req'[o].pc = "ok"
        PROVE  \E e \in audit' : e.req = o
    <3>1. CASE o = r
      BY <1>6, <1>8, <3>1
    <3>2. CASE o # r
      BY <1>6, <1>7, <2>2, <3>2 DEF Inv, AuditInv
    <3> QED BY <3>1, <3>2
  <2>3. ASSUME NEW i \in Ids, secret'[i].ciphertext \in Reqs
        PROVE  \E e \in audit' : e.req = secret'[i].ciphertext /\ e.action \in {"write", "rotate"}
    <3>1. CASE rows[i].ciphertext = secret[i].ciphertext
      BY <1>6, <2>3, <3>1 DEF Inv, AuditInv
    <3>2. CASE rows[i].ciphertext = r /\ req[r].call.op \in {"create", "update", "rotate"}
      BY <1>1, <1>6, <1>8, <3>2
    <3> QED BY <3>1, <3>2
  <2> QED BY <2>1, <2>2, <2>3 DEF AuditInv
<1>13. PolicyInv'
  BY DEF Inv, PolicyInv
<1> QED BY <1>7, <1>10, <1>12, <1>13 DEF Inv

------------------------------------------------------------------------------
\* Decisions

\* The first match of a sorted list is a match of the highest priority.
LEMMA FirstMatch ==
    ASSUME NEW ps \in SUBSET PolicyIds, NEW order \in sorted_policies(ps), NEW svc, NEW action, NEW name,
           check(order, svc, action, name)
    PROVE  \E p \in ps : /\ Matches(p, svc, name) /\ action \in Policy[p].actions
                         /\ \A o \in ps : Matches(o, svc, name) => Policy[o].priority <= Policy[p].priority
<1>1. PICK size : size = Cardinality(ps)
  OBVIOUS
<1>2. /\ order \in [1..size -> ps] /\ DOMAIN order = 1..size
      /\ \A p \in ps : \E n \in 1..size : order[n] = p
      /\ \A m, n \in 1..size : m < n => Policy[order[m]].priority >= Policy[order[n]].priority
  BY <1>1 DEF sorted_policies
<1>3. PICK n \in 1..size :
         /\ Matches(order[n], svc, name) /\ action \in Policy[order[n]].actions
         /\ \A m \in 1..size : m < n => ~Matches(order[m], svc, name)
  BY <1>2 DEF check
<1>4. \A p \in ps : Policy[p].priority \in Int
  BY VaultAssumption
<1>5. ASSUME NEW o \in ps, Matches(o, svc, name)
      PROVE  Policy[o].priority <= Policy[order[n]].priority
  <2>1. PICK m \in 1..size : order[m] = o
    BY <1>2
  <2>2. ~(m < n)
    BY <1>3, <1>5, <2>1
  <2>3. m = n \/ n < m
    BY <2>2
  <2>4. Policy[o].priority \in Int
    BY <1>4
  <2> QED BY <1>2, <2>1, <2>3, <2>4
<1> QED BY <1>2, <1>3, <1>5

LEMMA DecideInv ==
    ASSUME Inv, NEW r \in Reqs, decide(r)
    PROVE  Inv'
<1>0. req[r].pc \in Active /\ UNCHANGED <<policies, dropped, errors>>
  BY DEF decide, Active
<1>1. /\ req[r] \in Requests /\ RequestOK(r, req[r]) /\ req[r].pc # "ok"
      /\ req[r].call \in Calls /\ req[r].call.op \in Ops /\ req[r].engine \subseteq PolicyIds
      /\ errors' \in 0..MaxErrors
  BY <1>0, OnItsWay
<1>2. CASE rollback(r, "403")
  BY <1>0, <1>1, <1>2, RollbackInv DEF Failures
<1>3. CASE ~rollback(r, "403")
  <2>1. PICK was, pend : was = req[r] /\ pend = IF was.call.op = "update" THEN {}
                                                 ELSE {Event(r, audit_action(was.call.op), "allowed")}
    OBVIOUS
  <2>2. PICK order \in sorted_policies(was.engine) :
           /\ check(order, was.call.service, policy_action(was.call.op), subject(r)) \/ admin_may(was.call)
           /\ req' = [req EXCEPT ![r].pc = "allowed", ![r].pending = pend]
           /\ UNCHANGED <<secret, audit>>
    BY <1>3, <2>1 DEF decide
  <2>3. subject(r) = SubjectOf(was)
    BY <2>1 DEF subject, SubjectOf
  <2>4. HasLeave(was)
    BY <1>1, <2>1, <2>2, <2>3, FirstMatch DEF HasLeave
  <2>5. pend \subseteq AuditEvents
    <3>1. audit_action(was.call.op) \in Actions \cup {"delete"}
      BY <1>1, <2>1 DEF audit_action, policy_action, Actions, Ops
    <3>2. Event(r, audit_action(was.call.op), "allowed") \in AuditEvents
      BY <3>1 DEF Event, AuditEvents
    <3> QED BY <2>1, <3>2
  <2>6. PICK q : q = [was EXCEPT !.pc = "allowed", !.pending = pend]
    OBVIOUS
  <2>7. /\ q \in Requests /\ q.pc = "allowed" /\ q.pending = pend /\ q.call = was.call /\ q.row = was.row
        /\ q.engine = was.engine /\ q.revoked = was.revoked
    BY <1>1, <2>1, <2>5, <2>6 DEF Requests
  <2>8. HasLeave(q)
    BY <2>4, <2>7 DEF HasLeave, SubjectOf
  <2>9. was.call.op \in {"update", "rotate"} => was.row.is_active
    BY <1>1, <2>1 DEF RequestOK, decide
  <2>10. RequestOK(r, q)
    BY <1>1, <2>1, <2>7, <2>8, <2>9 DEF RequestOK
  <2>11. req' = [req EXCEPT ![r] = q]
    BY <2>1, <2>2, <2>6
  <2>12. q.pc # "ok" /\ UNCHANGED <<secret, audit, policies, dropped>>
    BY <1>0, <2>2, <2>7
  <2> QED BY <1>1, <2>7, <2>10, <2>11, <2>12, NothingCommitted
<1> QED BY <1>2, <1>3

LEMMA StartInv ==
    ASSUME Inv, NEW r \in Reqs, NEW call \in Calls, start(r, call)
    PROVE  Inv'
<1>0. req[r].pc # "ok" /\ UNCHANGED <<secret, audit, policies, dropped>> /\ errors' \in 0..MaxErrors
  BY DEF start, Inv, TypeOK
<1>1. CASE call.service = Stranger
  <2>1. PICK q : q = [Closed EXCEPT !.pc = "401", !.call = call]
    OBVIOUS
  <2>2. q \in Requests /\ RequestOK(r, q) /\ q.pc \in Failures
    BY <2>1, LostType DEF Failures
  <2>3. req' = [req EXCEPT ![r] = q] /\ q.pc # "ok"
    BY <1>1, <2>1, <2>2 DEF start, Failures
  <2> QED BY <1>0, <2>2, <2>3, NothingCommitted
<1>2. CASE call.service # Stranger
  <2>1. PICK q, row : row = NoRow /\ q = [pc |-> "engine", call |-> call, engine |-> policies,
                                          revoked |-> dropped, row |-> row, pending |-> {}]
    OBVIOUS
  <2>2. row \in Rows /\ row.encrypted_dek = row.ciphertext
    BY <2>1, NoRowType
  <2>3. policies \subseteq PolicyIds /\ dropped \subseteq PolicyIds /\ policies \cap dropped = {}
    BY DEF Inv, TypeOK, PolicyInv
  <2>4. q \in Requests /\ q.pc = "engine" /\ q.pc # "ok"
    BY <2>1, <2>2, <2>3 DEF Requests
  <2>5. RequestOK(r, q)
    BY <2>1, <2>2, <2>3 DEF RequestOK
  <2>6. req' = [req EXCEPT ![r] = q]
    <3>1. Closed = [pc |-> "idle", call |-> None, engine |-> {}, revoked |-> {}, row |-> row, pending |-> {}]
      BY <2>1 DEF Closed
    <3>2. PICK c : c = [Closed EXCEPT !.pc = "engine", !.call = call]
      OBVIOUS
    <3>3. c = [pc |-> "engine", call |-> call, engine |-> {}, revoked |-> {}, row |-> row, pending |-> {}]
      BY <3>1, <3>2
    <3>4. PICK d : d = [c EXCEPT !.engine = policies]
      OBVIOUS
    <3>5. d = [pc |-> "engine", call |-> call, engine |-> policies, revoked |-> {}, row |-> row, pending |-> {}]
      BY <3>3, <3>4
    <3>6. [d EXCEPT !.revoked = dropped] = q
      BY <2>1, <3>5
    <3> QED BY <1>2, <3>2, <3>4, <3>6 DEF start
  <2> QED BY <1>0, <2>4, <2>5, <2>6, NothingCommitted
<1> QED BY <1>1, <1>2

LEMMA LoadInv ==
    ASSUME Inv, NEW r \in Reqs, load_secret(r)
    PROVE  Inv'
<1>0. req[r].pc = "engine" /\ UNCHANGED <<policies, dropped, errors>> /\ req[r].pc \in Active
  BY DEF load_secret, Active
<1>1. /\ req[r] \in Requests /\ RequestOK(r, req[r]) /\ req[r].pc # "ok"
      /\ req[r].call \in Calls /\ req[r].call.id \in Ids /\ errors' \in 0..MaxErrors /\ secret \in [Ids -> Rows]
  BY <1>0, OnItsWay
<1>2. CASE rollback(r, "404")
  BY <1>0, <1>1, <1>2, RollbackInv DEF Failures
<1>3. CASE ~rollback(r, "404")
  <2>1. PICK i \in found(req[r].call) :
           /\ req' = [req EXCEPT ![r].pc = "loaded", ![r].row = secret[i]]
           /\ UNCHANGED <<secret, audit>>
    BY <1>3 DEF load_secret
  <2>2. PICK was, row : was = req[r] /\ row = secret[i]
    OBVIOUS
  <2>3. i \in Ids /\ (was.call.op \in {"update", "rotate"} => row.is_active)
    BY <1>1, <2>1, <2>2 DEF found, get_by_alias
  <2>4. row \in Rows /\ row.encrypted_dek = row.ciphertext
    BY <1>1, <2>2, <2>3 DEF Inv, RowInv
  <2>5. PICK q : q = [was EXCEPT !.pc = "loaded", !.row = row]
    OBVIOUS
  <2>6. /\ q \in Requests /\ q.pc = "loaded" /\ q.call = was.call /\ q.row = row
        /\ q.engine = was.engine /\ q.revoked = was.revoked
    BY <1>1, <2>2, <2>4, <2>5 DEF Requests
  <2>7. RequestOK(r, q)
    BY <1>1, <2>2, <2>3, <2>4, <2>6 DEF RequestOK
  <2>8. req' = [req EXCEPT ![r] = q] /\ q.pc # "ok" /\ UNCHANGED <<secret, audit, policies, dropped>>
    BY <1>0, <2>1, <2>2, <2>5, <2>6
  <2> QED BY <1>1, <2>6, <2>7, <2>8, NothingCommitted
<1> QED BY <1>2, <1>3

LEMMA CheckDuplicateInv ==
    ASSUME Inv, NEW r \in Reqs, check_duplicate(r)
    PROVE  Inv'
<1>0. /\ req[r].pc = "allowed" /\ req[r].call.op = "create" /\ UNCHANGED <<policies, dropped, errors>>
      /\ req[r].pc \in Active
  BY DEF check_duplicate, Active
<1>1. req[r] \in Requests /\ RequestOK(r, req[r]) /\ req[r].pc # "ok" /\ errors' \in 0..MaxErrors
  BY <1>0, OnItsWay
<1>2. CASE rollback(r, "409")
  BY <1>0, <1>1, <1>2, RollbackInv DEF Failures
<1>3. CASE ~rollback(r, "409")
  <2>1. req' = [req EXCEPT ![r].pc = "cleared"] /\ UNCHANGED <<secret, audit>>
    BY <1>3 DEF check_duplicate
  <2>2. PICK was, q : was = req[r] /\ q = [was EXCEPT !.pc = "cleared"]
    OBVIOUS
  <2>3. /\ q \in Requests /\ q.pc = "cleared" /\ q.call = was.call /\ q.row = was.row
        /\ q.engine = was.engine /\ q.revoked = was.revoked /\ q.pending = was.pending
    BY <1>1, <2>2 DEF Requests
  <2>4. HasLeave(was) => HasLeave(q)
    BY <2>3 DEF HasLeave, SubjectOf
  <2>5. RequestOK(r, q)
    BY <1>0, <1>1, <2>2, <2>3, <2>4 DEF RequestOK, Active
  <2>6. req' = [req EXCEPT ![r] = q] /\ q.pc # "ok" /\ UNCHANGED <<secret, audit, policies, dropped>>
    BY <1>0, <2>1, <2>2, <2>3
  <2> QED BY <1>1, <2>3, <2>5, <2>6, NothingCommitted
<1> QED BY <1>2, <1>3

------------------------------------------------------------------------------
\* Rows

\* A row that replaces another under the unique constraint.
LEMMA RowPut ==
    ASSUME Inv, NEW i \in Ids, NEW row \in Rows, secret' = [secret EXCEPT ![i] = row],
           row.encrypted_dek = row.ciphertext, ~taken(i, row)
    PROVE  RowInv'
<1>1. secret \in [Ids -> Rows]
  BY DEF Inv, TypeOK
<1>2. secret'[i] = row /\ \A j \in Ids : j # i => secret'[j] = secret[j]
  BY <1>1
<1>3. \A j \in Ids : j # i /\ secret[j].exists => ~(secret[j].alias = row.alias /\ secret[j].scope = row.scope)
  BY DEF taken
<1> QED BY <1>2, <1>3 DEF Inv, RowInv

\* A row that keeps its name.
LEMMA RowKeeps ==
    ASSUME Inv, NEW i \in Ids, NEW row \in Rows, secret' = [secret EXCEPT ![i] = row],
           row.encrypted_dek = row.ciphertext, row.exists = secret[i].exists,
           row.alias = secret[i].alias, row.scope = secret[i].scope
    PROVE  RowInv'
<1>1. secret \in [Ids -> Rows]
  BY DEF Inv, TypeOK
<1>2. secret'[i] = row /\ \A j \in Ids : j # i => secret'[j] = secret[j]
  BY <1>1
<1> QED BY <1>2 DEF Inv, RowInv

LEMMA EncryptSets ==
    ASSUME NEW row \in Rows, NEW r \in Reqs, NEW q, q = encrypt_secret(row, r)
    PROVE  /\ q \in Rows /\ q.encrypted_dek = r /\ q.ciphertext = r /\ q.exists = row.exists
           /\ q.alias = row.alias /\ q.scope = row.scope /\ q.is_active = row.is_active
<1>1. r \in Blobs
  BY DEF Blobs
<1> QED BY <1>1 DEF encrypt_secret, Rows

\* The UPDATE of a session that has loaded a whole row: the columns come from the
\* session where it changed them and from the table where not, and the two blobs
\* come together.
LEMMA FlushSets ==
    ASSUME NEW loaded \in Rows, NEW dirty \in Rows, NEW current \in Rows, NEW row,
           row = flush(loaded, dirty, current),
           loaded.encrypted_dek = loaded.ciphertext, dirty.encrypted_dek = dirty.ciphertext,
           current.encrypted_dek = current.ciphertext
    PROVE  /\ row \in Rows /\ row.encrypted_dek = row.ciphertext /\ row.exists = current.exists
           /\ dirty.alias = loaded.alias => row.alias = current.alias
           /\ dirty.scope = loaded.scope => row.scope = current.scope
           /\ row.is_active = IF dirty.is_active # loaded.is_active THEN dirty.is_active ELSE current.is_active
           /\ row.ciphertext = IF dirty.ciphertext # loaded.ciphertext THEN dirty.ciphertext ELSE current.ciphertext
<1>1. /\ row.exists = current.exists
      /\ row.alias = IF dirty.alias # loaded.alias THEN dirty.alias ELSE current.alias
      /\ row.scope = IF dirty.scope # loaded.scope THEN dirty.scope ELSE current.scope
      /\ row.is_active = IF dirty.is_active # loaded.is_active THEN dirty.is_active ELSE current.is_active
      /\ row.encrypted_dek = IF dirty.encrypted_dek # loaded.encrypted_dek THEN dirty.encrypted_dek
                             ELSE current.encrypted_dek
      /\ row.ciphertext = IF dirty.ciphertext # loaded.ciphertext THEN dirty.ciphertext ELSE current.ciphertext
      /\ row = [exists |-> row.exists, alias |-> row.alias, scope |-> row.scope, is_active |-> row.is_active,
                encrypted_dek |-> row.encrypted_dek, ciphertext |-> row.ciphertext]
  BY DEF flush
<1>2. /\ row.exists \in BOOLEAN /\ row.alias \in Aliases \cup {None} /\ row.scope \in Scopes \cup {None}
      /\ row.is_active \in BOOLEAN /\ row.encrypted_dek \in Blobs /\ row.ciphertext \in Blobs
  BY <1>1 DEF Rows
<1>3. row \in Rows
  BY <1>1, <1>2 DEF Rows
<1> QED BY <1>1, <1>3

\* What an update makes of the row it has loaded.
Patched(loaded, patch, r) ==
    LET named == [loaded EXCEPT !.alias = set_column(patch.alias, loaded.alias),
                                !.scope = set_column(patch.scope, loaded.scope),
                                !.is_active = set_column(patch.is_active, loaded.is_active)]
    IN  IF patch.value THEN encrypt_secret(named, r) ELSE named

LEMMA PatchedSets ==
    ASSUME NEW loaded \in Rows, NEW patch \in Patches, NEW r \in Reqs, NEW row, row = Patched(loaded, patch, r)
    PROVE  /\ row \in Rows
           /\ loaded.encrypted_dek = loaded.ciphertext => row.encrypted_dek = row.ciphertext
           /\ row.ciphertext \in {r, loaded.ciphertext}
<1>1. PICK al, sc, ac : /\ al = set_column(patch.alias, loaded.alias)
                        /\ sc = set_column(patch.scope, loaded.scope)
                        /\ ac = set_column(patch.is_active, loaded.is_active)
  OBVIOUS
<1>2. al \in Aliases \cup {None} /\ sc \in Scopes \cup {None} /\ ac \in BOOLEAN
  BY <1>1 DEF set_column, Patches, Rows
<1>3. PICK named : named = [loaded EXCEPT !.alias = al, !.scope = sc, !.is_active = ac]
  OBVIOUS
<1>4. named \in Rows /\ named.encrypted_dek = loaded.encrypted_dek /\ named.ciphertext = loaded.ciphertext
  BY <1>2, <1>3 DEF Rows
<1>5. row = IF patch.value THEN encrypt_secret(named, r) ELSE named
  BY <1>1, <1>3 DEF Patched
<1>6. CASE patch.value
  BY <1>4, <1>5, <1>6, EncryptSets
<1>7. CASE ~patch.value
  BY <1>4, <1>5, <1>7
<1> QED BY <1>6, <1>7

LEMMA CreateInv ==
    ASSUME Inv, NEW r \in Reqs, create_secret(r)
    PROVE  Inv'
<1>0. req[r].pc = "cleared" /\ req[r].pc \in Active /\ UNCHANGED <<policies, dropped, errors>>
  BY DEF create_secret, Active
<1>1. /\ RequestOK(r, req[r]) /\ req[r].pc # "ok" /\ req[r].call.name \in Names /\ errors' \in 0..MaxErrors
      /\ secret \in [Ids -> Rows]
  BY <1>0, OnItsWay
<1>2. PICK name, blank : /\ name = req[r].call.name
                         /\ blank = [exists |-> TRUE, alias |-> name.alias, scope |-> name.scope,
                                     is_active |-> TRUE, encrypted_dek |-> None, ciphertext |-> None]
  OBVIOUS
<1>3. PICK row : row = encrypt_secret(blank, r)
  OBVIOUS
<1>4. blank \in Rows
  BY <1>1, <1>2 DEF Names, Rows, Blobs
<1>5. row \in Rows /\ row.encrypted_dek = r /\ row.ciphertext = r
  BY <1>3, <1>4, EncryptSets
<1>6. PICK i \in Ids : \/ rollback(r, "500")
                       \/ ~taken(i, row) /\ commit(r, [secret EXCEPT ![i] = row], req[r].pending)
  BY <1>2, <1>3 DEF create_secret
<1>7. CASE rollback(r, "500")
  BY <1>0, <1>1, <1>7, RollbackInv DEF Failures
<1>8. CASE ~taken(i, row) /\ commit(r, [secret EXCEPT ![i] = row], req[r].pending)
  <2>1. PICK ev, rows : ev = Event(r, audit_action(req[r].call.op), "allowed") /\ rows = [secret EXCEPT ![i] = row]
    OBVIOUS
  <2>2. req[r].call.op = "create" /\ req[r].pending = {ev}
    BY <1>0, <1>1, <2>1 DEF RequestOK
  <2>3. commit(r, rows, {ev})
    BY <1>8, <2>1, <2>2
  <2>4. secret' = [secret EXCEPT ![i] = row]
    BY <2>1, <2>3 DEF commit
  <2>5. RowInv'
    BY <1>5, <1>8, <2>4, RowPut
  <2>6. rows \in [Ids -> Rows] /\ \A j \in Ids : rows[j].ciphertext = secret[j].ciphertext \/ rows[j].ciphertext = r
    BY <1>1, <1>5, <2>1
  <2> QED BY <1>0, <2>1, <2>2, <2>3, <2>5, <2>6, CommitInv
<1> QED BY <1>6, <1>7, <1>8

LEMMA ReadInv ==
    ASSUME Inv, NEW r \in Reqs, read_secret_value(r)
    PROVE  Inv'
<1>0. /\ req[r].pc = "allowed" /\ req[r].pc \in Active /\ UNCHANGED <<policies, dropped, errors>>
      /\ req[r].call.op # "update" /\ commit(r, secret, req[r].pending)
  BY DEF read_secret_value, Active
<1>1. RequestOK(r, req[r]) /\ secret \in [Ids -> Rows]
  BY <1>0, OnItsWay
<1>2. PICK ev : ev = Event(r, audit_action(req[r].call.op), "allowed")
  OBVIOUS
<1>3. commit(r, secret, {ev})
  BY <1>0, <1>1, <1>2 DEF RequestOK
<1>4. RowInv'
  BY <1>0 DEF commit, Inv, RowInv
<1> QED BY <1>0, <1>1, <1>2, <1>3, <1>4, CommitInv

\* A request that writes the row it has loaded, with its event.
LEMMA WriteInv ==
    ASSUME Inv, NEW r \in Reqs, req[r].pc = "allowed", UNCHANGED <<policies, dropped, errors>>,
           NEW i \in Ids, NEW dirty \in Rows, dirty.encrypted_dek = dirty.ciphertext,
           NEW row, row = flush(req[r].row, dirty, secret[i]),
           NEW ev, ev = Event(r, audit_action(req[r].call.op), "allowed"),
           commit(r, [secret EXCEPT ![i] = row], {ev}),
           \/ ~taken(i, row)
           \/ dirty.alias = req[r].row.alias /\ dirty.scope = req[r].row.scope,
           \/ dirty.ciphertext = req[r].row.ciphertext
           \/ dirty.ciphertext = r /\ req[r].call.op \in {"create", "update", "rotate"}
    PROVE  Inv'
<1>1. PICK loaded, current, rows : loaded = req[r].row /\ current = secret[i] /\ rows = [secret EXCEPT ![i] = row]
  OBVIOUS
<1>2. req[r].pc \in Active /\ secret \in [Ids -> Rows]
  BY DEF Active, Inv, TypeOK
<1>3. loaded \in Rows /\ loaded.encrypted_dek = loaded.ciphertext
  BY <1>1, <1>2, OnItsWay DEF RequestOK
<1>4. current \in Rows /\ current.encrypted_dek = current.ciphertext
  BY <1>1, <1>2 DEF Inv, RowInv
<1>5. /\ row \in Rows /\ row.encrypted_dek = row.ciphertext /\ row.exists = current.exists
      /\ dirty.alias = loaded.alias => row.alias = current.alias
      /\ dirty.scope = loaded.scope => row.scope = current.scope
      /\ row.ciphertext = IF dirty.ciphertext # loaded.ciphertext THEN dirty.ciphertext ELSE current.ciphertext
  BY <1>1, <1>3, <1>4, FlushSets
<1>6. secret' = [secret EXCEPT ![i] = row] /\ commit(r, rows, {ev})
  BY <1>1 DEF commit
<1>7. RowInv'
  <2>1. CASE ~taken(i, row)
    BY <1>5, <1>6, <2>1, RowPut
  <2>2. CASE dirty.alias = loaded.alias /\ dirty.scope = loaded.scope
    BY <1>1, <1>5, <1>6, <2>2, RowKeeps
  <2> QED BY <1>1, <2>1, <2>2
<1>8. rows \in [Ids -> Rows]
  BY <1>1, <1>2, <1>5
<1>9. \A j \in Ids : \/ rows[j].ciphertext = secret[j].ciphertext
                     \/ rows[j].ciphertext = r /\ req[r].call.op \in {"create", "update", "rotate"}
  BY <1>1, <1>2, <1>5
<1> QED BY <1>6, <1>7, <1>8, <1>9, CommitInv

LEMMA UpdateInv ==
    ASSUME Inv, NEW r \in Reqs, update_secret(r)
    PROVE  Inv'
<1>0. /\ req[r].pc = "allowed" /\ req[r].pc \in Active /\ UNCHANGED <<policies, dropped, errors>>
      /\ req[r].call.op = "update"
  BY DEF update_secret, Active
<1>1. PICK i, patch, loaded : i = req[r].call.id /\ patch = req[r].call.patch /\ loaded = req[r].row
  OBVIOUS
<1>2. /\ i \in Ids /\ patch \in Patches /\ loaded \in Rows /\ loaded.encrypted_dek = loaded.ciphertext
      /\ req[r].pc # "ok" /\ errors' \in 0..MaxErrors
  BY <1>0, <1>1, OnItsWay DEF RequestOK
<1>3. PICK dirty, row : dirty = Patched(loaded, patch, r) /\ row = flush(loaded, dirty, secret[i])
  OBVIOUS
<1>4. dirty \in Rows /\ dirty.encrypted_dek = dirty.ciphertext /\ dirty.ciphertext \in {r, loaded.ciphertext}
  BY <1>2, <1>3, PatchedSets
<1>5. PICK ev : ev = Event(r, audit_action(req[r].call.op), "allowed")
  OBVIOUS
<1>6. ev = Event(r, "write", "allowed")
  BY <1>0, <1>5 DEF audit_action, policy_action
<1>7. rollback(r, "409") \/ (~taken(i, row) /\ commit(r, [secret EXCEPT ![i] = row], {ev}))
  BY <1>1, <1>3, <1>6 DEF update_secret, Patched
<1>8. CASE rollback(r, "409")
  BY <1>0, <1>2, <1>8, RollbackInv DEF Failures
<1>9. CASE ~taken(i, row) /\ commit(r, [secret EXCEPT ![i] = row], {ev})
  BY <1>0, <1>1, <1>2, <1>3, <1>4, <1>5, <1>9, WriteInv
<1> QED BY <1>7, <1>8, <1>9

LEMMA RotateInv ==
    ASSUME Inv, NEW r \in Reqs, rotate_secret(r)
    PROVE  Inv'
<1>0. /\ req[r].pc = "allowed" /\ req[r].pc \in Active /\ UNCHANGED <<policies, dropped, errors>>
      /\ req[r].call.op = "rotate"
  BY DEF rotate_secret, Active
<1>1. PICK i, loaded : i = req[r].call.id /\ loaded = req[r].row
  OBVIOUS
<1>2. i \in Ids /\ loaded \in Rows /\ RequestOK(r, req[r])
  BY <1>0, <1>1, OnItsWay
<1>3. PICK dirty, row : dirty = encrypt_secret(loaded, r) /\ row = flush(loaded, dirty, secret[i])
  OBVIOUS
<1>4. /\ dirty \in Rows /\ dirty.encrypted_dek = dirty.ciphertext /\ dirty.ciphertext = r
      /\ dirty.alias = loaded.alias /\ dirty.scope = loaded.scope
  BY <1>2, <1>3, EncryptSets
<1>5. PICK ev : ev = Event(r, audit_action(req[r].call.op), "allowed")
  OBVIOUS
<1>6. req[r].pending = {ev}
  BY <1>0, <1>2, <1>5 DEF RequestOK
<1>7. commit(r, [secret EXCEPT ![i] = row], {ev})
  BY <1>1, <1>3, <1>6 DEF rotate_secret
<1> QED BY <1>0, <1>1, <1>2, <1>3, <1>4, <1>5, <1>7, WriteInv

LEMMA DeleteInv ==
    ASSUME Inv, NEW r \in Reqs, delete_secret(r)
    PROVE  Inv'
<1>0. /\ req[r].pc = "allowed" /\ req[r].pc \in Active /\ UNCHANGED <<policies, dropped, errors>>
      /\ req[r].call.op = "delete"
  BY DEF delete_secret, Active
<1>1. PICK i, loaded : i = req[r].call.id /\ loaded = req[r].row
  OBVIOUS
<1>2. i \in Ids /\ loaded \in Rows /\ loaded.encrypted_dek = loaded.ciphertext /\ RequestOK(r, req[r])
  BY <1>0, <1>1, OnItsWay DEF RequestOK
<1>3. PICK dirty, row : dirty = [loaded EXCEPT !.is_active = FALSE] /\ row = flush(loaded, dirty, secret[i])
  OBVIOUS
<1>4. /\ dirty \in Rows /\ dirty.encrypted_dek = dirty.ciphertext /\ dirty.ciphertext = loaded.ciphertext
      /\ dirty.alias = loaded.alias /\ dirty.scope = loaded.scope
  BY <1>2, <1>3 DEF Rows
<1>5. PICK ev : ev = Event(r, audit_action(req[r].call.op), "allowed")
  OBVIOUS
<1>6. req[r].pending = {ev}
  BY <1>0, <1>2, <1>5 DEF RequestOK
<1>7. commit(r, [secret EXCEPT ![i] = row], {ev})
  BY <1>1, <1>3, <1>6 DEF delete_secret
<1>8. /\ row = flush(req[r].row, dirty, secret[i]) /\ dirty.ciphertext = req[r].row.ciphertext
      /\ dirty.alias = req[r].row.alias /\ dirty.scope = req[r].row.scope
  BY <1>1, <1>3, <1>4
<1> QED BY <1>0, <1>2, <1>4, <1>5, <1>7, <1>8, WriteInv

LEMMA DbErrorInv ==
    ASSUME Inv, NEW r \in Reqs, db_error(r)
    PROVE  Inv'
<1>1. req[r].pc # "ok" /\ UNCHANGED <<policies, dropped>> /\ rollback(r, "500")
  BY DEF db_error
<1>2. errors' \in 0..MaxErrors
  BY VaultAssumption DEF db_error, Inv, TypeOK
<1> QED BY <1>1, <1>2, RollbackInv DEF Failures

LEMMA PolicyStep ==
    ASSUME Inv, NEW p \in PolicyIds, create_policy(p) \/ delete_policy(p)
    PROVE  Inv'
<1>1. UNCHANGED <<secret, req, audit, errors>>
  BY DEF create_policy, delete_policy
<1>2. policies' \subseteq PolicyIds /\ dropped' \subseteq PolicyIds /\ policies' \cap dropped' = {}
  BY DEF create_policy, delete_policy, Inv, TypeOK, PolicyInv
<1> QED BY <1>1, <1>2 DEF Inv, TypeOK, RequestInv, RowInv, AuditInv, PolicyInv

LEMMA InvStep ==
    ASSUME Inv, [Next]_vars
    PROVE  Inv'
<1>1. CASE UNCHANGED vars
  BY <1>1 DEF vars, Inv, TypeOK, RequestInv, RowInv, AuditInv, PolicyInv
<1>2. ASSUME NEW r \in Reqs, NEW call \in Calls, start(r, call)
      PROVE  Inv'
  BY <1>2, StartInv
<1>3. ASSUME NEW r \in Reqs, load_secret(r) \/ decide(r) \/ check_duplicate(r) \/ db_error(r)
      PROVE  Inv'
  BY <1>3, LoadInv, DecideInv, CheckDuplicateInv, DbErrorInv
<1>4. ASSUME NEW r \in Reqs, \/ create_secret(r) \/ read_secret_value(r) \/ update_secret(r)
                             \/ rotate_secret(r) \/ delete_secret(r)
      PROVE  Inv'
  BY <1>4, CreateInv, ReadInv, UpdateInv, RotateInv, DeleteInv
<1>5. ASSUME NEW p \in PolicyIds, create_policy(p) \/ delete_policy(p)
      PROVE  Inv'
  BY <1>5, PolicyStep
<1> QED BY <1>1, <1>2, <1>3, <1>4, <1>5 DEF Next

LEMMA InvInit == Init => Inv
<1> SUFFICES ASSUME Init PROVE Inv
  OBVIOUS
<1>1. PICK empty, closed : empty = NoRow /\ closed = Closed
  OBVIOUS
<1>2. empty \in Rows /\ empty.encrypted_dek = empty.ciphertext /\ empty.exists = FALSE /\ empty.ciphertext = None
  BY <1>1, NoRowType DEF NoRow
<1>3. /\ closed.pc = "idle" /\ closed.row = empty /\ closed.engine = {} /\ closed.revoked = {}
      /\ closed \in Requests
  BY <1>1, <1>2 DEF Closed, Requests
<1>4. \A r \in Reqs : RequestOK(r, closed)
  BY <1>2, <1>3 DEF RequestOK, Active
<1>5. req \in [Reqs -> Requests] /\ RequestInv /\ \A r \in Reqs : req[r].pc = "idle"
  BY <1>1, <1>3, <1>4 DEF Init, RequestInv
<1>6. ASSUME NEW i \in Ids
      PROVE  /\ secret[i] \in Rows /\ secret[i].encrypted_dek = None /\ secret[i].ciphertext = None
             /\ secret[i].exists => /\ i \in SeedIds /\ secret[i].alias = SeedName[i].alias
                                    /\ secret[i].scope = SeedName[i].scope
  <2>1. CASE i \in SeedIds
    <3>1. PICK row : row = [exists |-> TRUE, alias |-> SeedName[i].alias, scope |-> SeedName[i].scope,
                            is_active |-> TRUE, encrypted_dek |-> None, ciphertext |-> None]
      OBVIOUS
    <3>2. SeedName[i] \in Names
      BY <2>1, VaultAssumption
    <3>3. row \in Rows
      BY <3>1, <3>2 DEF Rows, Names, Blobs
    <3>4. secret[i] = row
      BY <2>1, <3>1 DEF Init
    <3> QED BY <2>1, <3>1, <3>3, <3>4
  <2>2. CASE i \notin SeedIds
    <3>1. secret[i] = empty
      BY <1>1, <2>2 DEF Init
    <3>2. empty.encrypted_dek = None
      BY <1>1 DEF NoRow
    <3> QED BY <1>2, <3>1, <3>2
  <2> QED BY <2>1, <2>2
<1>7. secret \in [Ids -> Rows]
  BY <1>6 DEF Init
<1>8. RowInv
  <2>1. ASSUME NEW i \in Ids, NEW j \in Ids, i # j, secret[i].exists, secret[j].exists
        PROVE  ~(secret[i].alias = secret[j].alias /\ secret[i].scope = secret[j].scope)
    <3>1. i \in SeedIds /\ j \in SeedIds /\ SeedName[i] \in Names /\ SeedName[j] \in Names /\ SeedName[i] # SeedName[j]
      BY <1>6, <2>1, VaultAssumption
    <3>2. SeedName[i].alias # SeedName[j].alias \/ SeedName[i].scope # SeedName[j].scope
      BY <3>1 DEF Names
    <3> QED BY <1>6, <2>1, <3>2
  <2> QED BY <1>6, <2>1 DEF RowInv
<1>9. AuditInv
  <2>1. \A i \in Ids : secret[i].ciphertext \notin Reqs
    BY <1>6, VaultAssumption
  <2> QED BY <1>5, <2>1 DEF Init, AuditInv
<1>10. TypeOK /\ PolicyInv
  BY <1>5, <1>7, VaultAssumption DEF Init, TypeOK, PolicyInv
<1> QED BY <1>5, <1>8, <1>9, <1>10 DEF Inv

THEOREM VaultInvariant == Spec => []Inv
BY InvInit, InvStep, PTL DEF Spec

------------------------------------------------------------------------------

\* However rotations and updates of one secret overlap (api/secrets.py), its two blobs
\* come from the same encryption, and no two rows share a name.
THEOREM VaultRowsAreSound == Spec => []RowsAreSound
<1>1. Inv => RowsAreSound
  BY DEF Inv, RequestInv, RequestOK, RowInv, RowsAreSound
<1> QED BY <1>1, VaultInvariant, PTL

\* A request succeeds only with the leave of the policies that were active when it
\* began, or as an administrator's update or delete; what succeeds is on record, and
\* what is on record has succeeded (policy/engine.py, dependencies.py, audit/sink.py).
THEOREM VaultSuccessIsAccounted == Spec => []SuccessIsAccounted
<1>1. Inv => SuccessIsGranted
  <2> SUFFICES ASSUME Inv, NEW r \in Reqs, req[r].pc = "ok"
               PROVE  admin_may(req[r].call) \/ Granted(r, req[r].engine \ req[r].revoked)
    BY DEF SuccessIsGranted
  <2>1. RequestOK(r, req[r])
    BY DEF Inv, RequestInv
  <2>2. HasLeave(req[r]) /\ req[r].engine \ req[r].revoked = req[r].engine
    BY <2>1 DEF RequestOK
  <2>3. subject(r) = SubjectOf(req[r])
    BY DEF subject, SubjectOf
  <2> QED BY <2>2, <2>3 DEF HasLeave, Granted
<1>2. Inv => SuccessIsAudited
  <2> SUFFICES ASSUME Inv PROVE SuccessIsAudited
    OBVIOUS
  <2>1. AuditInv
    BY DEF Inv
  <2> QED BY <2>1 DEF AuditInv, SuccessIsAudited
<1> QED BY <1>1, <1>2, VaultInvariant, PTL DEF SuccessIsAccounted

\* A request that writes the row it has loaded leaves a deleted secret deleted.
LEMMA FlushKeepsDeleted ==
    ASSUME Inv, NEW r \in Reqs, req[r].pc = "allowed", NEW i \in Ids, NEW dirty \in Rows,
           dirty.encrypted_dek = dirty.ciphertext, dirty.is_active => req[r].row.is_active,
           ~secret[i].is_active
    PROVE  ~flush(req[r].row, dirty, secret[i]).is_active
<1>1. PICK loaded, current, row : /\ loaded = req[r].row /\ current = secret[i]
                                  /\ row = flush(loaded, dirty, current)
  OBVIOUS
<1>2. req[r].pc \in Active /\ secret \in [Ids -> Rows]
  BY DEF Active, Inv, TypeOK
<1>3. loaded \in Rows /\ loaded.encrypted_dek = loaded.ciphertext
  BY <1>1, <1>2, OnItsWay DEF RequestOK
<1>4. current \in Rows /\ current.encrypted_dek = current.ciphertext
  BY <1>1, <1>2 DEF Inv, RowInv
<1>5. row.is_active = IF dirty.is_active # loaded.is_active THEN dirty.is_active ELSE current.is_active
  BY <1>1, <1>3, <1>4, FlushSets
<1>6. dirty.is_active \in BOOLEAN /\ loaded.is_active \in BOOLEAN
  BY <1>3 DEF Rows
<1>7. ~row.is_active
  BY <1>1, <1>5, <1>6
<1> QED BY <1>1, <1>7

\* A deleted secret stays deleted: no update or rotation that loaded the row while it
\* was active brings it back.
THEOREM VaultDeletedStaysDeleted == Spec => DeletedStaysDeleted
<1> DEFINE Kept == \A i \in Ids : secret[i].exists /\ ~secret[i].is_active => ~secret'[i].is_active
<1>1. Inv /\ [Next]_vars => Kept
  <2> SUFFICES ASSUME Inv, [Next]_vars, NEW j \in Ids, secret[j].exists, ~secret[j].is_active
               PROVE  ~secret'[j].is_active
    OBVIOUS
  <2>0. secret \in [Ids -> Rows]
    BY DEF Inv, TypeOK
  <2>1. CASE UNCHANGED secret
    BY <2>1
  <2>2. ASSUME NEW i \in Ids, NEW row, secret' = [secret EXCEPT ![i] = row], ~secret[i].is_active => ~row.is_active
         PROVE  ~secret'[j].is_active
    BY <2>0, <2>2
  <2>3. ASSUME NEW r \in Reqs, create_secret(r)
        PROVE  ~secret'[j].is_active
    <3>0. PICK i \in Ids : \E row : ~secret[i].exists /\ (UNCHANGED secret \/ secret' = [secret EXCEPT ![i] = row])
      BY <2>3 DEF create_secret, rollback, commit
    <3>1. PICK row : ~secret[i].exists /\ (UNCHANGED secret \/ secret' = [secret EXCEPT ![i] = row])
      BY <3>0
    <3>2. i # j
      BY <3>1
    <3> QED BY <2>0, <3>1, <3>2
  <2>4. ASSUME NEW r \in Reqs, update_secret(r)
        PROVE  ~secret'[j].is_active
    <3>1. PICK i, patch, loaded : i = req[r].call.id /\ patch = req[r].call.patch /\ loaded = req[r].row
      OBVIOUS
    <3>2. req[r].pc = "allowed" /\ req[r].pc \in Active /\ req[r].call.op = "update"
      BY <2>4 DEF update_secret, Active
    <3>3. /\ i \in Ids /\ patch \in Patches /\ loaded \in Rows /\ loaded.encrypted_dek = loaded.ciphertext
          /\ loaded.is_active
      BY <3>1, <3>2, OnItsWay DEF RequestOK
    <3>4. PICK dirty, row : dirty = Patched(loaded, patch, r) /\ row = flush(loaded, dirty, secret[i])
      OBVIOUS
    <3>5. dirty \in Rows /\ dirty.encrypted_dek = dirty.ciphertext
      BY <3>3, <3>4, PatchedSets
    <3>6. UNCHANGED secret \/ secret' = [secret EXCEPT ![i] = row]
      BY <2>4, <3>1, <3>4 DEF update_secret, Patched, rollback, commit
    <3>7. ~secret[i].is_active => ~row.is_active
      BY <3>1, <3>2, <3>3, <3>4, <3>5, FlushKeepsDeleted
    <3>8. CASE secret' = [secret EXCEPT ![i] = row]
      BY <2>2, <3>3, <3>7, <3>8
    <3> QED BY <2>1, <3>6, <3>8
  <2>5. ASSUME NEW r \in Reqs, rotate_secret(r)
        PROVE  ~secret'[j].is_active
    <3>1. PICK i, loaded : i = req[r].call.id /\ loaded = req[r].row
      OBVIOUS
    <3>2. req[r].pc = "allowed" /\ req[r].pc \in Active /\ req[r].call.op = "rotate"
      BY <2>5 DEF rotate_secret, Active
    <3>3. i \in Ids /\ loaded \in Rows
      BY <3>1, <3>2, OnItsWay
    <3>4. PICK dirty, row : dirty = encrypt_secret(loaded, r) /\ row = flush(loaded, dirty, secret[i])
      OBVIOUS
    <3>5. dirty \in Rows /\ dirty.encrypted_dek = dirty.ciphertext /\ dirty.is_active = loaded.is_active
      BY <3>3, <3>4, EncryptSets
    <3>6. secret' = [secret EXCEPT ![i] = row]
      BY <2>5, <3>1, <3>4 DEF rotate_secret, commit
    <3>7. ~secret[i].is_active => ~row.is_active
      BY <3>1, <3>2, <3>3, <3>4, <3>5, FlushKeepsDeleted
    <3> QED BY <2>2, <3>3, <3>6, <3>7
  <2>6. ASSUME NEW r \in Reqs, delete_secret(r)
        PROVE  ~secret'[j].is_active
    <3>1. PICK i, loaded : i = req[r].call.id /\ loaded = req[r].row
      OBVIOUS
    <3>2. req[r].pc = "allowed" /\ req[r].pc \in Active
      BY <2>6 DEF delete_secret, Active
    <3>3. i \in Ids /\ loaded \in Rows /\ loaded.encrypted_dek = loaded.ciphertext
      BY <3>1, <3>2, OnItsWay DEF RequestOK
    <3>4. PICK dirty, row : dirty = [loaded EXCEPT !.is_active = FALSE] /\ row = flush(loaded, dirty, secret[i])
      OBVIOUS
    <3>5. dirty \in Rows /\ dirty.encrypted_dek = dirty.ciphertext /\ dirty.is_active = FALSE
      BY <3>3, <3>4 DEF Rows
    <3>6. secret' = [secret EXCEPT ![i] = row]
      BY <2>6, <3>1, <3>4 DEF delete_secret, commit
    <3>7. ~secret[i].is_active => ~row.is_active
      BY <3>1, <3>2, <3>3, <3>4, <3>5, FlushKeepsDeleted
    <3> QED BY <2>2, <3>3, <3>6, <3>7
  <2>7. CASE UNCHANGED vars
    BY <2>1, <2>7 DEF vars
  <2>8. ASSUME NEW r \in Reqs, NEW call \in Calls, start(r, call)
        PROVE  UNCHANGED secret
    BY <2>8 DEF start
  <2>9. ASSUME NEW r \in Reqs, load_secret(r) \/ check_duplicate(r) \/ db_error(r)
        PROVE  UNCHANGED secret
    BY <2>9 DEF load_secret, check_duplicate, db_error, rollback
  <2>10. ASSUME NEW r \in Reqs, decide(r) \/ read_secret_value(r)
        PROVE  UNCHANGED secret
    BY <2>10 DEF decide, read_secret_value, rollback, commit
  <2>11. ASSUME NEW p \in PolicyIds, create_policy(p) \/ delete_policy(p)
         PROVE  UNCHANGED secret
    BY <2>11 DEF create_policy, delete_policy
  <2> QED BY <2>1, <2>3, <2>4, <2>5, <2>6, <2>7, <2>8, <2>9, <2>10, <2>11 DEF Next
<1>2. Inv /\ [Next]_vars => [Kept]_vars
  BY <1>1
<1> QED BY <1>2, VaultInvariant, PTL DEF Spec, DeletedStaysDeleted

\* The secrets agent as the run has it, the keys of services beside the vault, keeps what
\* the vault keeps: while the keys are looked at the vault stands still.
THEOREM SecretsAgentKeepsVault ==
    AgentSpec => []RowsAreSound /\ []SuccessIsAccounted /\ DeletedStaysDeleted
<1>1. AgentInit => Init
  BY DEF AgentInit
<1>2. [AgentNext]_<<knocking, vars, serviceVars>> => [Next]_vars
  BY DEF AgentNext
<1> QED
  BY <1>1, <1>2, VaultRowsAreSound, VaultSuccessIsAccounted, VaultDeletedStaysDeleted, PTL DEF AgentSpec, Spec

-------------------------------------------------------------------------------
(* The keys of services *)

ServiceRows == [id : Nat \ {0}, hash : Nat \ {0}, prefix : Nat \ {0}, enc : Nat, active : BOOLEAN]

AdminReq ==
    [op : ServiceOps \cup {"none"}, pc : {"idle", "load", "usage", "commit", "refresh", "count", "done"},
     row : ServiceRows \cup {NoService}, key : Nat, doomed : SUBSET Callers, counts : Seq(Nat),
     answer : {"none", "ok", "refused", "failed"}, audited : BOOLEAN, overtaken : BOOLEAN]

CallerReq ==
    [pc : {"idle", "check", "log", "done"}, key : Nat, row : ServiceRows \cup {NoService},
     answer : {"none", "ok", "401"}, logged : BOOLEAN, excused : BOOLEAN, inforce : BOOLEAN]

ServiceType ==
    /\ service \in ServiceRows \cup {NoService}
    /\ rules \subseteq Nat \X BOOLEAN
    /\ usage \subseteq Callers /\ IsFiniteSet(usage)
    /\ adminreq \in [ServiceReqs -> AdminReq]
    /\ caller \in [Callers -> CallerReq]
    /\ keys \in Nat \ {0}

\* What a request of an administrator knows of the row it works on, of its key, of the
\* usage it is about to delete and of what it has counted.
AdminOK(q) ==
    /\ q.pc \in {"load", "usage", "commit", "refresh"} => q.counts = <<>>
    /\ q.pc = "usage" => q.op = "delete"
    /\ q.pc \in {"usage", "commit"} /\ q.op # "create" => q.row \in ServiceRows
    /\ q.pc = "commit" /\ q.op \in {"create", "regenerate", "reveal"} => q.key # NoKey
    /\ q.pc \in {"usage", "commit", "refresh", "count"} /\ q.op \notin {"create", "regenerate", "reveal"} => q.key = NoKey
    /\ q.pc = "refresh" => q.op \in {"create", "regenerate", "activate", "deactivate"}
    /\ q.pc = "count" => q.op \in {"create", "regenerate", "activate", "deactivate", "read"}
    /\ q.pc \in {"refresh", "count"} /\ q.key # NoKey /\ ~q.overtaken => Registered /\ service.hash = q.key
    /\ q.pc = "commit" /\ q.op = "delete" => usage \ q.doomed \subseteq strays
    /\ q.pc = "count" /\ q.counts # <<>> /\ ~q.overtaken => q.counts[1] <= Cardinality(usage)
    /\ q.pc = "done" /\ q.op = "read" /\ q.answer = "ok" /\ ~q.overtaken => q.counts[1] <= q.counts[2]
    /\ q.pc = "done" /\ q.op = "reveal" /\ q.answer = "ok" => q.audited /\ q.key # NoKey

\* A caller that is being logged was found, and its row is still there or its loss noted.
CallerOK(c) ==
    /\ c.pc = "log" => c.inforce /\ c.row \in ServiceRows /\ (service.id = c.row.id \/ c.excused)
    /\ c.answer = "ok" => c.inforce /\ (c.logged \/ c.excused)

ServiceInv ==
    /\ ServiceType
    /\ \A r \in ServiceReqs : AdminOK(adminreq[r])
    /\ \A c \in Callers : CallerOK(caller[c])
    /\ KeyIsOne
    /\ NothingIsInherited

\* A step of one administrator that leaves the tables alone but for rules of the service.
LEMMA AdminMoves ==
    ASSUME ServiceInv, NEW r \in ServiceReqs, NEW q \in AdminReq, AdminOK(q),
           adminreq' = [adminreq EXCEPT ![r] = q], keys' \in Nat \ {0},
           UNCHANGED rules \/ (Registered /\ rules' \subseteq {service.id} \X BOOLEAN),
           UNCHANGED <<service, usage, caller, strays>>
    PROVE  ServiceInv'
<1>1. ServiceType'
  <2>1. rules' \subseteq Nat \X BOOLEAN
    BY DEF ServiceInv, ServiceType, Registered, ServiceRows
  <2> QED BY <2>1 DEF ServiceInv, ServiceType
<1>2. \A s \in ServiceReqs : adminreq'[s] = IF s = r THEN q ELSE adminreq[s]
  BY DEF ServiceInv, ServiceType
<1>3. ASSUME NEW s \in ServiceReqs PROVE AdminOK(adminreq[s])'
  <2>1. CASE s = r
    BY <1>2, <2>1 DEF AdminOK, Registered
  <2>2. CASE s # r
    BY <1>2, <2>2 DEF AdminOK, Registered, ServiceInv
  <2> QED BY <2>1, <2>2
<1>4. \A c \in Callers : CallerOK(caller[c])'
  BY DEF ServiceInv, CallerOK
<1>5. KeyIsOne' /\ NothingIsInherited'
  BY DEF ServiceInv, KeyIsOne, NothingIsInherited, Registered
<1> QED BY <1>1, <1>3, <1>4, <1>5 DEF ServiceInv

\* An administrator that ends, with any answer but the ones that promise something.
LEMMA AdminEnds ==
    ASSUME ServiceInv, NEW r \in ServiceReqs, NEW a \in {"ok", "refused", "failed"},
           adminreq' = AnswerAdmin(r, a), a = "ok" => adminreq[r].op \notin {"read", "reveal"},
           UNCHANGED rules \/ (Registered /\ rules' \subseteq {service.id} \X BOOLEAN),
           UNCHANGED <<service, usage, caller, strays, keys>>
    PROVE  ServiceInv'
<1>1. adminreq[r] \in AdminReq
  BY DEF ServiceInv, ServiceType
<1>2. PICK q : q = [adminreq[r] EXCEPT !.pc = "done", !.answer = a]
  OBVIOUS
<1>3. q \in AdminReq /\ q.pc = "done" /\ q.answer = a /\ q.op = adminreq[r].op
  BY <1>1, <1>2 DEF AdminReq
<1>4. adminreq' = [adminreq EXCEPT ![r] = q]
  BY <1>2 DEF AnswerAdmin, ServiceInv, ServiceType
<1>5. AdminOK(q)
  BY <1>3 DEF AdminOK
<1>6. keys' \in Nat \ {0}
  BY DEF ServiceInv, ServiceType
<1> QED BY <1>3, <1>4, <1>5, <1>6, AdminMoves

\* What the others know after a commit that has overtaken them.
LEMMA Overtaken ==
    ASSUME ServiceInv, NEW r \in ServiceReqs, NEW q \in AdminReq,
           adminreq' = Overtakes([adminreq EXCEPT ![r] = q], r),
           usage' \subseteq usage, strays' = strays
    PROVE  /\ adminreq' \in [ServiceReqs -> AdminReq]
           /\ adminreq'[r] = q
           /\ \A s \in ServiceReqs : s # r => AdminOK(adminreq[s])'
<1>1. adminreq \in [ServiceReqs -> AdminReq]
  BY DEF ServiceInv, ServiceType
<1>2. adminreq'[r] = q
  BY <1>1 DEF Overtakes
<1>3. ASSUME NEW s \in ServiceReqs, s # r, NEW p, p = adminreq[s]
      PROVE  /\ adminreq'[s] \in AdminReq
             /\ adminreq'[s] = IF p.pc \in {"idle", "load", "done"} THEN p ELSE [p EXCEPT !.overtaken = TRUE]
  <2>1. adminreq'[s] = IF p.pc \in {"idle", "load", "done"} THEN p ELSE [p EXCEPT !.overtaken = TRUE]
    BY <1>1, <1>3 DEF Overtakes
  <2>2. p \in AdminReq
    BY <1>1, <1>3
  <2>3. [p EXCEPT !.overtaken = TRUE] \in AdminReq
    BY <2>2 DEF AdminReq
  <2> QED BY <2>1, <2>2, <2>3
<1>4. adminreq' \in [ServiceReqs -> AdminReq]
  <2>1. \A s \in ServiceReqs : adminreq'[s] \in AdminReq
    BY <1>2, <1>3
  <2>2. adminreq' = [s \in ServiceReqs |-> adminreq'[s]]
    BY DEF Overtakes
  <2> QED BY <2>1, <2>2
<1>5. ASSUME NEW s \in ServiceReqs, s # r PROVE AdminOK(adminreq[s])'
  <2>1. PICK p : p = adminreq[s]
    OBVIOUS
  <2>2. p \in AdminReq /\ AdminOK(p)
    BY <1>1, <2>1 DEF ServiceInv
  <2>3. CASE p.pc \in {"idle", "load", "done"}
    <3>1. adminreq'[s] = p
      BY <1>3, <1>5, <2>1, <2>3
    <3> QED BY <2>2, <2>3, <3>1 DEF AdminOK
  <2>4. CASE p.pc \notin {"idle", "load", "done"}
    <3>1. adminreq'[s] = [p EXCEPT !.overtaken = TRUE]
      BY <1>3, <1>5, <2>1, <2>4
    <3>2. /\ adminreq'[s].overtaken /\ adminreq'[s].pc = p.pc /\ adminreq'[s].op = p.op
          /\ adminreq'[s].row = p.row /\ adminreq'[s].key = p.key /\ adminreq'[s].doomed = p.doomed
          /\ adminreq'[s].counts = p.counts
      BY <2>2, <3>1 DEF AdminReq
    <3> QED BY <2>2, <2>4, <3>2 DEF AdminOK
  <2> QED BY <2>3, <2>4
<1> QED BY <1>2, <1>4, <1>5

LEMMA ServiceInvInit ==
    ASSUME ServiceInit PROVE ServiceInv
<1>1. IdleAdmin \in AdminReq /\ IdleCaller \in CallerReq
  BY DEF IdleAdmin, IdleCaller, AdminReq, CallerReq, NoKey
<1>2. ServiceRow(1, 1, 1, NoKey, TRUE) \in ServiceRows
  BY DEF ServiceRow, ServiceRows, NoKey
<1>3. ServiceType
  <2>1. adminreq \in [ServiceReqs -> AdminReq] /\ caller \in [Callers -> CallerReq]
    BY <1>1 DEF ServiceInit
  <2>2. service \in ServiceRows \cup {NoService}
    BY <1>2, Zenon DEF ServiceInit
  <2>3. rules = {} /\ usage = {} /\ keys \in Nat \ {0}
    BY DEF ServiceInit
  <2> QED BY <2>1, <2>2, <2>3, FS_EmptySet DEF ServiceType
<1>4. \A r \in ServiceReqs : AdminOK(adminreq[r])
  BY DEF ServiceInit, AdminOK, IdleAdmin
<1>5. \A c \in Callers : CallerOK(caller[c])
  BY DEF ServiceInit, CallerOK, IdleCaller
<1>6. KeyIsOne /\ NothingIsInherited
  BY DEF ServiceInit, KeyIsOne, NothingIsInherited, Registered, ServiceRow, NoService
<1> QED BY <1>3, <1>4, <1>5, <1>6 DEF ServiceInv

\* What is done on the copy before anything is written.
LEMMA AdminLoadsInv ==
    ASSUME ServiceInv, NEW r \in ServiceReqs, AdminLoads(r)
    PROVE  ServiceInv'
<1>1. PICK q : q = adminreq[r]
  OBVIOUS
<1>2. q \in AdminReq /\ q.pc = "load" /\ keys \in Nat \ {0} /\ service \in ServiceRows \cup {NoService}
  BY <1>1 DEF AdminLoads, ServiceInv, ServiceType
<1>3. CASE adminreq' = AnswerAdmin(r, "refused") /\ UNCHANGED keys
  BY <1>3, AdminEnds DEF AdminLoads
<1>4. CASE ~(adminreq' = AnswerAdmin(r, "refused") /\ UNCHANGED keys)
  <2>1. PICK key : key = IF q.op \in {"create", "regenerate"} THEN keys + 1
                         ELSE IF q.op = "reveal" THEN service.enc ELSE NoKey
    OBVIOUS
  <2>2. PICK pc : pc = CASE q.op = "delete" -> "usage" [] q.op = "read" -> "count" [] OTHER -> "commit"
    OBVIOUS
  <2>3. PICK new : new = [q EXCEPT !.row = service, !.pc = pc, !.key = key]
    OBVIOUS
  <2>4. /\ adminreq' = [adminreq EXCEPT ![r] = new]
        /\ keys' = IF q.op \in {"create", "regenerate"} THEN keys + 1 ELSE keys
        /\ UNCHANGED <<service, rules, usage, caller, strays>>
    BY <1>1, <1>4, <2>1, <2>2, <2>3 DEF AdminLoads
  <2>5. /\ q.op # "create" => Registered
        /\ q.op = "reveal" => service.enc # NoKey
    BY <1>1, <1>4 DEF AdminLoads
  <2>6. q.op # "create" => service \in ServiceRows
    BY <1>2, <2>5 DEF Registered
  <2>7. key \in Nat /\ (q.op \in {"create", "regenerate", "reveal"} => key # NoKey)
        /\ (q.op \notin {"create", "regenerate", "reveal"} => key = NoKey)
    BY <1>2, <2>1, <2>5, <2>6 DEF NoKey, ServiceRows
  <2>8. pc \in {"usage", "count", "commit"} /\ (pc = "usage" <=> q.op = "delete") /\ (pc = "count" <=> q.op = "read")
    BY <2>2
  <2>9. new \in AdminReq /\ new.row = service /\ new.pc = pc /\ new.key = key /\ new.op = q.op
        /\ new.counts = q.counts
    BY <1>2, <2>3, <2>7, <2>8 DEF AdminReq
  <2>10. q.counts = <<>>
    BY <1>1, <1>2 DEF ServiceInv, AdminOK
  <2>11. AdminOK(new)
    BY <2>6, <2>7, <2>8, <2>9, <2>10 DEF AdminOK
  <2>12. keys' \in Nat \ {0}
    BY <1>2, <2>4
  <2> QED BY <2>4, <2>9, <2>11, <2>12, AdminMoves
<1> QED BY <1>3, <1>4

LEMMA AdminQuiet ==
    ASSUME ServiceInv, NEW r \in ServiceReqs,
           \/ \E op \in ServiceOps : AdminStarts(r, op)
           \/ AdminMistypes(r) \/ DeletesUsage(r) \/ CommitsReveal(r)
           \/ AdminRefreshes(r) \/ AdminCounts(r) \/ AdminIsLost(r)
    PROVE  ServiceInv'
<1>1. PICK q : q = adminreq[r]
  OBVIOUS
<1>2. q \in AdminReq /\ AdminOK(q) /\ keys \in Nat \ {0}
      /\ service \in ServiceRows \cup {NoService} /\ usage \subseteq Callers /\ IsFiniteSet(usage)
  BY <1>1 DEF ServiceInv, ServiceType
<1>3. UNCHANGED <<service, rules, usage, caller, keys, strays>>
  BY DEF AdminStarts, AdminMistypes, DeletesUsage, CommitsReveal, AdminRefreshes, AdminCounts, AdminIsLost
<1>4. IdleAdmin \in AdminReq
  BY DEF IdleAdmin, AdminReq, NoKey
<1>5. SUFFICES \E new \in AdminReq : AdminOK(new) /\ adminreq' = [adminreq EXCEPT ![r] = new]
  BY <1>2, <1>3, AdminMoves
<1>6. ASSUME NEW op \in ServiceOps, AdminStarts(r, op)
      PROVE  \E new \in AdminReq : AdminOK(new) /\ adminreq' = [adminreq EXCEPT ![r] = new]
  <2>1. PICK new : new = [IdleAdmin EXCEPT !.op = op, !.pc = "load"]
    OBVIOUS
  <2>2. new \in AdminReq /\ new.pc = "load" /\ new.counts = <<>>
    BY <1>4, <2>1 DEF AdminReq, IdleAdmin
  <2>3. AdminOK(new)
    BY <2>2 DEF AdminOK
  <2> QED BY <1>6, <2>1, <2>2, <2>3 DEF AdminStarts
<1>7. CASE AdminMistypes(r)
  <2>1. PICK new : new = [q EXCEPT !.pc = "done", !.answer = "refused"]
    OBVIOUS
  <2>2. new \in AdminReq /\ new.pc = "done" /\ new.answer = "refused"
    BY <1>2, <2>1 DEF AdminReq
  <2>3. AdminOK(new)
    BY <2>2 DEF AdminOK
  <2>4. adminreq' = [adminreq EXCEPT ![r] = new]
    BY <1>1, <1>7, <2>1 DEF AdminMistypes, AnswerAdmin, ServiceInv, ServiceType
  <2> QED BY <2>2, <2>3, <2>4
<1>8. CASE DeletesUsage(r)
  <2>1. PICK new : new = [q EXCEPT !.pc = "commit", !.doomed = usage]
    OBVIOUS
  <2>2. new \in AdminReq /\ new.pc = "commit" /\ new.doomed = usage /\ new.op = q.op /\ new.row = q.row
        /\ new.counts = q.counts /\ new.key = q.key
    BY <1>2, <2>1 DEF AdminReq
  <2>3. q.op = "delete" /\ q.row \in ServiceRows /\ q.counts = <<>> /\ q.key = NoKey
    BY <1>1, <1>2, <1>8 DEF AdminOK, DeletesUsage
  <2>4. AdminOK(new)
    BY <2>2, <2>3 DEF AdminOK
  <2>5. adminreq' = [adminreq EXCEPT ![r] = new]
    BY <1>1, <1>8, <2>1 DEF DeletesUsage, ServiceInv, ServiceType
  <2> QED BY <2>2, <2>4, <2>5
<1>9. CASE CommitsReveal(r)
  <2>1. PICK new : new = [q EXCEPT !.pc = "done", !.answer = "ok", !.audited = TRUE]
    OBVIOUS
  <2>2. new \in AdminReq /\ new.pc = "done" /\ new.op = q.op /\ new.audited /\ new.key = q.key
    BY <1>2, <2>1 DEF AdminReq
  <2>3. q.op = "reveal" /\ q.key # NoKey
    BY <1>1, <1>2, <1>9 DEF AdminOK, CommitsReveal
  <2>4. AdminOK(new)
    BY <2>2, <2>3 DEF AdminOK
  <2>5. adminreq' = [adminreq EXCEPT ![r] = new]
    BY <1>1, <1>9, <2>1 DEF CommitsReveal, AnswerAdmin, ServiceInv, ServiceType
  <2> QED BY <2>2, <2>4, <2>5
<1>10. CASE AdminRefreshes(r)
  <2>1. CASE adminreq' = AnswerAdmin(r, "failed")
    <3>1. PICK new : new = [q EXCEPT !.pc = "done", !.answer = "failed"]
      OBVIOUS
    <3>2. new \in AdminReq /\ new.pc = "done" /\ new.answer = "failed"
      BY <1>2, <3>1 DEF AdminReq
    <3>3. AdminOK(new)
      BY <3>2 DEF AdminOK
    <3>4. adminreq' = [adminreq EXCEPT ![r] = new]
      BY <1>1, <2>1, <3>1 DEF AnswerAdmin, ServiceInv, ServiceType
    <3> QED BY <3>2, <3>3, <3>4
  <2>2. CASE adminreq' # AnswerAdmin(r, "failed")
    <3>1. PICK new : new = [q EXCEPT !.pc = "count", !.row = service]
      OBVIOUS
    <3>2. new \in AdminReq /\ new.pc = "count" /\ new.op = q.op /\ new.key = q.key
          /\ new.counts = q.counts /\ new.overtaken = q.overtaken
      BY <1>2, <3>1 DEF AdminReq
    <3>3. q.pc = "refresh"
      BY <1>1, <1>10 DEF AdminRefreshes
    <3>4. AdminOK(new)
      BY <1>2, <3>2, <3>3 DEF AdminOK
    <3>5. adminreq' = [adminreq EXCEPT ![r] = new]
      BY <1>1, <1>10, <2>2, <3>1 DEF AdminRefreshes, ServiceInv, ServiceType
    <3> QED BY <3>2, <3>4, <3>5
  <2> QED BY <2>1, <2>2
<1>11. CASE AdminCounts(r)
  <2>1. q.pc = "count" /\ Cardinality(usage) \in Nat
    BY <1>1, <1>2, <1>11, FS_CardinalityType DEF AdminCounts
  <2>2. CASE q.counts = <<>>
    <3>0. PICK counts : counts = <<Cardinality(usage)>>
      OBVIOUS
    <3>1. PICK new : new = [q EXCEPT !.counts = counts]
      OBVIOUS
    <3>3. counts \in Seq(Nat) /\ counts[1] = Cardinality(usage)
      BY <2>1, <3>0
    <3>2. new \in AdminReq /\ new.pc = "count" /\ new.op = q.op /\ new.key = q.key
          /\ new.counts = counts /\ new.overtaken = q.overtaken
      BY <1>2, <2>1, <3>1, <3>3 DEF AdminReq
    <3>4. AdminOK(new)
      BY <1>2, <2>1, <3>2, <3>3 DEF AdminOK
    <3>5. adminreq' = [adminreq EXCEPT ![r] = new]
      BY <1>1, <1>11, <2>2, <3>0, <3>1 DEF AdminCounts, ServiceInv, ServiceType
    <3> QED BY <3>2, <3>4, <3>5
  <2>3. CASE q.counts # <<>>
    <3>1. q.counts[1] \in Nat
      BY <1>2, <2>3 DEF AdminReq
    <3>2. PICK counts : counts = <<q.counts[1], Cardinality(usage)>>
      OBVIOUS
    <3>3. counts \in Seq(Nat) /\ counts[1] = q.counts[1] /\ counts[2] = Cardinality(usage)
      BY <2>1, <3>1, <3>2
    <3>4. PICK new : new = [q EXCEPT !.pc = "done", !.answer = "ok", !.counts = counts]
      OBVIOUS
    <3>5. new \in AdminReq /\ new.pc = "done" /\ new.op = q.op /\ new.counts = counts /\ new.overtaken = q.overtaken
      BY <1>2, <3>3, <3>4 DEF AdminReq
    <3>6. AdminOK(new)
      BY <1>2, <2>1, <2>3, <3>3, <3>5 DEF AdminOK
    <3>7. adminreq' = [adminreq EXCEPT ![r] = new]
      BY <1>1, <1>11, <2>3, <3>2, <3>4 DEF AdminCounts, AnswerAdmin, ServiceInv, ServiceType
    <3> QED BY <3>5, <3>6, <3>7
  <2> QED BY <2>2, <2>3
<1>12. CASE AdminIsLost(r)
  <2>1. AdminOK(IdleAdmin)
    BY DEF AdminOK, IdleAdmin
  <2> QED BY <1>4, <1>12, <2>1 DEF AdminIsLost
<1> QED BY <1>6, <1>7, <1>8, <1>9, <1>10, <1>11, <1>12

\* The commit of a row: it was the request's to write, and has its key if that is new.
LEMMA CommitWrites ==
    ASSUME ServiceInv, NEW r \in ServiceReqs, NEW row \in ServiceRows,
           adminreq[r].pc = "commit", adminreq[r].op \in {"create", "regenerate", "activate", "deactivate"},
           adminreq' = Overtakes([adminreq EXCEPT ![r].pc = "refresh"], r),
           service' = row, Registered => row.id = service.id,
           row.prefix = row.hash, row.enc \in {row.hash, NoKey},
           adminreq[r].op \in {"create", "regenerate"} => row.hash = adminreq[r].key,
           UNCHANGED <<rules, usage, caller, keys, strays>>
    PROVE  ServiceInv'
<1>1. PICK q : q = [adminreq[r] EXCEPT !.pc = "refresh"]
  OBVIOUS
<1>2. adminreq \in [ServiceReqs -> AdminReq] /\ adminreq[r] \in AdminReq /\ AdminOK(adminreq[r])
  BY DEF ServiceInv, ServiceType
<1>3. /\ q \in AdminReq /\ q.pc = "refresh" /\ q.op = adminreq[r].op /\ q.key = adminreq[r].key
      /\ q.counts = adminreq[r].counts
  BY <1>1, <1>2 DEF AdminReq
<1>4. adminreq' = Overtakes([adminreq EXCEPT ![r] = q], r)
  BY <1>1, <1>2
<1>5. /\ adminreq' \in [ServiceReqs -> AdminReq] /\ adminreq'[r] = q
      /\ \A s \in ServiceReqs : s # r => AdminOK(adminreq[s])'
  BY <1>3, <1>4, Overtaken
<1>6. Registered' /\ service'.hash = row.hash /\ service'.id = row.id /\ row.id # 0
  BY DEF Registered, NoService, ServiceRows
<1>7. AdminOK(adminreq[r])'
  <2>1. q.counts = <<>> /\ (q.op \notin {"create", "regenerate", "reveal"} => q.key = NoKey)
    BY <1>2, <1>3 DEF AdminOK
  <2> QED BY <1>3, <1>5, <1>6, <2>1 DEF AdminOK
<1>8. ServiceType'
  BY <1>5 DEF ServiceInv, ServiceType
<1>9. ASSUME NEW c \in Callers PROVE CallerOK(caller[c])'
  <2>1. CallerOK(caller[c]) /\ caller'[c] = caller[c]
    BY DEF ServiceInv
  <2>2. ~Registered => service.id = 0
    BY DEF Registered, NoService
  <2>3. caller[c].row \in ServiceRows => caller[c].row.id # 0
    BY DEF ServiceRows
  <2> QED BY <1>6, <2>1, <2>2, <2>3 DEF CallerOK
<1>10. KeyIsOne'
  BY DEF KeyIsOne
<1>11. NothingIsInherited'
  BY <1>6 DEF ServiceInv, NothingIsInherited
<1> QED BY <1>5, <1>7, <1>8, <1>9, <1>10, <1>11 DEF ServiceInv

LEMMA AdminCommits ==
    ASSUME ServiceInv, NEW r \in ServiceReqs, CommitsCreate(r) \/ CommitsKey(r) \/ CommitsUpdate(r)
    PROVE  ServiceInv'
<1>1. PICK q : q = adminreq[r]
  OBVIOUS
<1>2. q \in AdminReq /\ AdminOK(q) /\ q.pc = "commit" /\ q.key \in Nat
      /\ service \in ServiceRows \cup {NoService} /\ adminreq \in [ServiceReqs -> AdminReq]
  BY <1>1 DEF ServiceInv, ServiceType, AdminReq, CommitsCreate, CommitsKey, CommitsUpdate
<1>3. UNCHANGED <<rules, usage, caller, keys, strays>>
  BY DEF CommitsCreate, CommitsKey, CommitsUpdate
<1>4. CASE adminreq' = AnswerAdmin(r, "failed") /\ UNCHANGED service
  BY <1>3, <1>4, AdminEnds
<1>5. CASE CommitsCreate(r) /\ ~(adminreq' = AnswerAdmin(r, "failed") /\ UNCHANGED service)
  <2>1. PICK row : row = [id |-> q.key, hash |-> q.key, prefix |-> q.key, enc |-> q.key, active |-> TRUE]
    OBVIOUS
  <2>2. q.op = "create" /\ q.key # NoKey
    BY <1>1, <1>2, <1>5 DEF CommitsCreate, AdminOK
  <2>3. /\ row \in ServiceRows /\ row.prefix = row.hash /\ row.enc = row.hash /\ row.hash = q.key
    BY <1>2, <2>1, <2>2 DEF ServiceRows, NoKey
  <2>4. /\ service' = row /\ ~Registered
        /\ adminreq' = Overtakes([adminreq EXCEPT ![r].pc = "refresh"], r)
    BY <1>1, <1>5, <2>1 DEF CommitsCreate, ServiceRow
  <2> QED BY <1>1, <1>2, <1>3, <2>2, <2>3, <2>4, CommitWrites
<1>6. CASE CommitsKey(r) /\ ~(adminreq' = AnswerAdmin(r, "failed") /\ UNCHANGED service)
  <2>1. PICK row : row = [service EXCEPT !.hash = q.key, !.prefix = q.key, !.enc = q.key]
    OBVIOUS
  <2>2. q.op = "regenerate" /\ q.key # NoKey /\ q.row \in ServiceRows
    BY <1>1, <1>2, <1>6 DEF CommitsKey, AdminOK
  <2>3. /\ service' = row /\ Still(r)
        /\ adminreq' = Overtakes([adminreq EXCEPT ![r].pc = "refresh"], r)
    BY <1>1, <1>6, <2>1 DEF CommitsKey, KeyColumns
  <2>4. service \in ServiceRows
    BY <1>1, <1>2, <2>2, <2>3 DEF Still, ServiceRows, NoService
  <2>5. /\ row \in ServiceRows /\ row.prefix = row.hash /\ row.enc = row.hash /\ row.hash = q.key
        /\ row.id = service.id
    BY <1>2, <2>1, <2>2, <2>4 DEF ServiceRows, NoKey
  <2> QED BY <1>1, <1>2, <1>3, <2>2, <2>3, <2>5, CommitWrites
<1>7. CASE CommitsUpdate(r) /\ q.row.active = (q.op = "activate")
  <2>1. q.op \in {"activate", "deactivate"} /\ UNCHANGED service
        /\ adminreq' = [adminreq EXCEPT ![r].pc = "refresh"]
    BY <1>1, <1>7 DEF CommitsUpdate
  <2>2. PICK new : new = [q EXCEPT !.pc = "refresh"]
    OBVIOUS
  <2>3. new \in AdminReq /\ new.pc = "refresh" /\ new.op = q.op /\ new.key = q.key /\ new.counts = q.counts
    BY <1>2, <2>2 DEF AdminReq
  <2>4. q.key = NoKey /\ q.counts = <<>>
    BY <1>2, <2>1 DEF AdminOK
  <2>5. AdminOK(new)
    BY <2>1, <2>3, <2>4 DEF AdminOK
  <2>6. adminreq' = [adminreq EXCEPT ![r] = new] /\ keys' \in Nat \ {0}
    BY <1>1, <1>2, <1>3, <2>1, <2>2 DEF ServiceInv, ServiceType
  <2> QED BY <1>3, <2>1, <2>3, <2>5, <2>6, AdminMoves
<1>8. CASE /\ CommitsUpdate(r) /\ q.row.active # (q.op = "activate")
           /\ ~(adminreq' = AnswerAdmin(r, "failed") /\ UNCHANGED service)
  <2>1. PICK active \in BOOLEAN : active = (q.op = "activate")
    OBVIOUS
  <2>2. PICK row : row = [service EXCEPT !.active = active]
    OBVIOUS
  <2>3. q.op \in {"activate", "deactivate"} /\ q.row \in ServiceRows
    BY <1>1, <1>2, <1>8 DEF CommitsUpdate, AdminOK
  <2>4. /\ service' = row /\ Still(r)
        /\ adminreq' = Overtakes([adminreq EXCEPT ![r].pc = "refresh"], r)
    BY <1>1, <1>8, <2>1, <2>2 DEF CommitsUpdate
  <2>5. service \in ServiceRows
    BY <1>1, <1>2, <2>3, <2>4 DEF Still, ServiceRows, NoService
  <2>6. /\ row \in ServiceRows /\ row.prefix = service.prefix /\ row.enc = service.enc /\ row.hash = service.hash
        /\ row.id = service.id
    BY <2>2, <2>5 DEF ServiceRows
  <2>7. service.prefix = service.hash /\ service.enc \in {service.hash, NoKey}
    BY <2>5 DEF ServiceInv, KeyIsOne, Registered, NoService, ServiceRows
  <2> QED BY <1>1, <1>2, <1>3, <2>3, <2>4, <2>6, <2>7, CommitWrites
<1> QED BY <1>4, <1>5, <1>6, <1>7, <1>8

\* The delete takes the row, the rules with it and the usage it has found.
LEMMA AdminDeletes ==
    ASSUME ServiceInv, NEW r \in ServiceReqs, CommitsDelete(r)
    PROVE  ServiceInv'
<1>1. PICK q : q = [adminreq[r] EXCEPT !.pc = "done", !.answer = "ok"]
  OBVIOUS
<1>2. /\ adminreq \in [ServiceReqs -> AdminReq] /\ adminreq[r] \in AdminReq /\ AdminOK(adminreq[r])
      /\ adminreq[r].pc = "commit" /\ adminreq[r].op = "delete"
      /\ service \in ServiceRows \cup {NoService}
  BY DEF ServiceInv, ServiceType, CommitsDelete
<1>3. q \in AdminReq /\ q.pc = "done" /\ q.op = "delete"
  BY <1>1, <1>2 DEF AdminReq
<1>4. adminreq' = Overtakes([adminreq EXCEPT ![r] = q], r)
  BY <1>1, <1>2 DEF CommitsDelete, AnswerAdmin
<1>5. UNCHANGED strays /\ usage' = usage \ adminreq[r].doomed /\ usage' \subseteq usage
  BY DEF CommitsDelete
<1>6. /\ adminreq' \in [ServiceReqs -> AdminReq] /\ adminreq'[r] = q
      /\ \A s \in ServiceReqs : s # r => AdminOK(adminreq[s])'
  BY <1>3, <1>4, <1>5, Overtaken
<1>7. AdminOK(adminreq[r])'
  BY <1>3, <1>6 DEF AdminOK
<1>8. ASSUME NEW c \in Callers
      PROVE  /\ caller'[c] \in CallerReq /\ CallerOK(caller[c])'
  <2>1. PICK k : k = caller[c]
    OBVIOUS
  <2>2. k \in CallerReq /\ CallerOK(k)
    BY <2>1 DEF ServiceInv, ServiceType
  <2>3. caller'[c] = [k EXCEPT !.excused = k.excused \/ k.pc = "log"]
    BY <2>1 DEF CommitsDelete, Excuses
  <2>4. (k.excused \/ k.pc = "log") \in BOOLEAN
    OBVIOUS
  <2>5. /\ caller'[c] \in CallerReq /\ caller'[c].pc = k.pc /\ caller'[c].row = k.row /\ caller'[c].inforce = k.inforce
        /\ caller'[c].answer = k.answer /\ caller'[c].logged = k.logged
        /\ caller'[c].excused = (k.excused \/ k.pc = "log")
    BY <2>2, <2>3, <2>4 DEF CallerReq
  <2> QED BY <2>2, <2>5 DEF CallerOK
<1>9. caller' = [c \in Callers |-> caller'[c]]
  BY DEF CommitsDelete, Excuses
<1>10. IsFiniteSet(usage') /\ usage' \subseteq Callers
  BY <1>5, FS_Subset DEF ServiceInv, ServiceType
<1>11. service' \in ServiceRows \cup {NoService} /\ keys' = keys /\ rules' \subseteq rules
  BY <1>2 DEF CommitsDelete
<1>12. ServiceType'
  BY <1>6, <1>8, <1>9, <1>10, <1>11 DEF ServiceInv, ServiceType
<1>13. CASE Still(r)
  <2>1. service' = NoService /\ rules' = {rule \in rules : rule[1] # service.id}
    BY <1>13 DEF CommitsDelete, Still
  <2>2. rules' = {}
    BY <2>1 DEF ServiceInv, NothingIsInherited
  <2>3. usage' \subseteq strays'
    BY <1>2, <1>5 DEF AdminOK
  <2>4. KeyIsOne' /\ NothingIsInherited'
    BY <2>1, <2>2, <2>3 DEF KeyIsOne, NothingIsInherited, Registered
  <2> QED BY <1>6, <1>7, <1>8, <1>12, <2>4 DEF ServiceInv
<1>14. CASE ~Still(r)
  <2>1. service' = service
    BY <1>14 DEF CommitsDelete
  <2>2. KeyIsOne' /\ NothingIsInherited'
    BY <1>5, <1>11, <2>1 DEF ServiceInv, KeyIsOne, NothingIsInherited, Registered
  <2> QED BY <1>6, <1>7, <1>8, <1>12, <2>2 DEF ServiceInv
<1> QED BY <1>13, <1>14

\* A rule is written for the service that is there.
LEMMA AdminRules ==
    ASSUME ServiceInv, NEW r \in ServiceReqs, CommitsRule(r)
    PROVE  ServiceInv'
<1>1. PICK q : q = adminreq[r]
  OBVIOUS
<1>2. /\ q.pc = "commit" /\ q.op \in {"add rule", "patch rule", "drop rule"} /\ q.row \in ServiceRows
      /\ service \in ServiceRows \cup {NoService}
  BY <1>1 DEF CommitsRule, ServiceInv, ServiceType, AdminOK
<1>3. UNCHANGED <<service, usage, caller, strays, keys>>
  BY DEF CommitsRule
<1>4. rules \subseteq Nat \X BOOLEAN /\ \A rule \in rules : rule[1] = service.id
  BY DEF ServiceInv, ServiceType, NothingIsInherited
<1>5. rules # {} => Registered
  BY DEF ServiceInv, NothingIsInherited
<1>6. PICK a \in {"ok", "refused", "failed"} : adminreq' = AnswerAdmin(r, a)
  BY DEF CommitsRule
<1>7. UNCHANGED rules \/ (Registered /\ rules' \subseteq {service.id} \X BOOLEAN)
  <2>1. CASE UNCHANGED rules
    BY <2>1
  <2>2. CASE q.op = "add rule" /\ Still(r) /\ rules' = rules \cup {<<q.row.id, TRUE>>}
    <3>1. service.id = q.row.id
      BY <1>1, <2>2 DEF Still
    <3>2. q.row.id # 0
      BY <1>2 DEF ServiceRows
    <3>3. Registered
      BY <3>1, <3>2 DEF Registered, NoService
    <3>4. ASSUME NEW rule \in rules' PROVE rule \in {service.id} \X BOOLEAN
      <4>1. CASE rule \in rules
        BY <1>4, <4>1
      <4>2. CASE rule \in {<<service.id, TRUE>>}
        <5>1. <<service.id, TRUE>> \in {service.id} \X BOOLEAN
          OBVIOUS
        <5> QED BY <4>2, <5>1
      <4> QED BY <2>2, <3>1, <4>1, <4>2
    <3> QED BY <3>3, <3>4
  <2>3. CASE \E rule \in rules : \E new \in SUBSET ({rule[1]} \X BOOLEAN) : rules' = (rules \ {rule}) \cup new
    <3>1. PICK rule \in rules : \E new \in SUBSET ({rule[1]} \X BOOLEAN) : rules' = (rules \ {rule}) \cup new
      BY <2>3
    <3>2. PICK new \in SUBSET ({rule[1]} \X BOOLEAN) : rules' = (rules \ {rule}) \cup new
      BY <3>1
    <3>3. ASSUME NEW x \in rules' PROVE x \in {service.id} \X BOOLEAN
      <4>1. CASE x \in rules
        BY <1>4, <4>1
      <4>2. CASE x \in new
        BY <1>4, <3>1, <4>2
      <4> QED BY <3>2, <4>1, <4>2
    <3> QED BY <1>5, <3>1, <3>3
  <2>4. ASSUME NEW rule \in rules,
               rules' = (rules \ {rule}) \cup (IF q.op = "patch rule" THEN {<<rule[1], ~rule[2]>>} ELSE {})
        PROVE  \E new \in SUBSET ({rule[1]} \X BOOLEAN) : rules' = (rules \ {rule}) \cup new
    <3>1. <<rule[1], ~rule[2]>> \in {rule[1]} \X BOOLEAN
      OBVIOUS
    <3> QED BY <2>4, <3>1
  <2> QED BY <1>1, <1>2, <2>1, <2>2, <2>3, <2>4 DEF CommitsRule
<1> QED BY <1>1, <1>2, <1>3, <1>6, <1>7, AdminEnds

\* A step of one caller: the usage grows by it at most, and then the delete knows.
LEMMA CallerMoves ==
    ASSUME ServiceInv, NEW c \in Callers, NEW k \in CallerReq, CallerOK(k),
           caller' = [caller EXCEPT ![c] = k],
           UNCHANGED <<service, rules, adminreq, keys>>, strays \subseteq strays',
           \/ UNCHANGED usage
           \/ /\ usage' = usage \cup {c} /\ Registered
              /\ (\E r \in ServiceReqs : adminreq[r].op = "delete" /\ adminreq[r].pc = "commit") => c \in strays'
    PROVE  ServiceInv'
<1>1. caller \in [Callers -> CallerReq] /\ usage \subseteq Callers /\ IsFiniteSet(usage)
  BY DEF ServiceInv, ServiceType
<1>2. IsFiniteSet(usage') /\ usage \subseteq usage' /\ usage' \subseteq Callers
  BY <1>1, FS_AddElement
<1>3. Cardinality(usage) \in Nat /\ Cardinality(usage') \in Nat /\ Cardinality(usage) <= Cardinality(usage')
  BY <1>1, <1>2, FS_CardinalityType, FS_Subset
<1>4. ServiceType'
  BY <1>1, <1>2 DEF ServiceInv, ServiceType
<1>5. ASSUME NEW r \in ServiceReqs PROVE AdminOK(adminreq[r])'
  <2>1. PICK q : q = adminreq[r] /\ q = adminreq'[r]
    OBVIOUS
  <2>2. q \in AdminReq /\ AdminOK(q)
    BY <2>1 DEF ServiceInv, ServiceType
  <2>3. q.pc = "commit" /\ q.op = "delete" => usage' \ q.doomed \subseteq strays'
    BY <2>1, <2>2 DEF AdminOK
  <2>4. q.pc = "count" /\ q.counts # <<>> /\ ~q.overtaken => q.counts[1] <= Cardinality(usage')
    <3>1. q.counts # <<>> => q.counts[1] \in Nat
      BY <2>2 DEF AdminReq
    <3>2. q.pc = "count" /\ q.counts # <<>> /\ ~q.overtaken => q.counts[1] <= Cardinality(usage)
      BY <2>2 DEF AdminOK
    <3> QED BY <1>3, <3>1, <3>2
  <2> QED BY <2>1, <2>2, <2>3, <2>4 DEF AdminOK, Registered
<1>6. ASSUME NEW d \in Callers PROVE CallerOK(caller[d])'
  <2>1. CASE d = c
    <3>1. caller'[d] = k
      BY <1>1, <2>1
    <3> QED BY <3>1 DEF CallerOK
  <2>2. CASE d # c
    <3>1. caller'[d] = caller[d] /\ CallerOK(caller[d])
      BY <1>1, <2>2 DEF ServiceInv
    <3> QED BY <3>1 DEF CallerOK
  <2> QED BY <2>1, <2>2
<1>7. KeyIsOne' /\ NothingIsInherited'
  BY DEF ServiceInv, KeyIsOne, NothingIsInherited, Registered
<1> QED BY <1>4, <1>5, <1>6, <1>7 DEF ServiceInv

LEMMA CallerStep ==
    ASSUME ServiceInv, NEW c \in Callers,
           \/ \E key \in 1..keys : ServiceCalls(c, key)
           \/ ChecksKey(c) \/ LogsUsage(c) \/ CheckFails(c)
    PROVE  ServiceInv'
<1>1. PICK k : k = caller[c]
  OBVIOUS
<1>2. k \in CallerReq /\ CallerOK(k) /\ service \in ServiceRows \cup {NoService} /\ keys \in Nat
      /\ caller \in [Callers -> CallerReq]
  BY <1>1 DEF ServiceInv, ServiceType
<1>3. ASSUME NEW key \in 1..keys, ServiceCalls(c, key)
      PROVE  ServiceInv'
  <2>1. PICK b \in BOOLEAN : b = InForce(key)
    BY DEF InForce
  <2>2. PICK new : new = [IdleCaller EXCEPT !.pc = "check", !.key = key, !.inforce = b]
    OBVIOUS
  <2>3. IdleCaller \in CallerReq /\ IdleCaller.answer = "none" /\ key \in Nat
    BY <1>2 DEF IdleCaller, CallerReq, NoKey
  <2>4. new \in CallerReq /\ new.pc = "check" /\ new.answer = "none"
    BY <2>2, <2>3 DEF CallerReq
  <2>5. CallerOK(new)
    BY <2>4 DEF CallerOK
  <2>6. /\ caller' = [caller EXCEPT ![c] = new]
        /\ UNCHANGED <<service, rules, usage, adminreq, keys, strays>>
    BY <1>3, <2>1, <2>2 DEF ServiceCalls
  <2> QED BY <2>4, <2>5, <2>6, CallerMoves
<1>4. CASE ChecksKey(c)
  <2>1. UNCHANGED <<service, rules, usage, adminreq, keys, strays>>
    BY <1>4 DEF ChecksKey
  <2>2. CASE InForce(k.key)
    <3>1. PICK new : new = [k EXCEPT !.pc = "log", !.row = service, !.inforce = TRUE]
      OBVIOUS
    <3>2. service \in ServiceRows
      BY <1>2, <2>2 DEF InForce, Registered
    <3>3. new \in CallerReq /\ new.pc = "log" /\ new.row = service /\ new.inforce
          /\ new.answer = k.answer /\ new.logged = k.logged /\ new.excused = k.excused
      BY <1>2, <3>1 DEF CallerReq
    <3>4. CallerOK(new)
      BY <1>2, <3>2, <3>3 DEF CallerOK
    <3>5. caller' = [caller EXCEPT ![c] = new]
      BY <1>1, <1>2, <1>4, <2>2, <3>1 DEF ChecksKey
    <3> QED BY <2>1, <3>3, <3>4, <3>5, CallerMoves
  <2>3. CASE ~InForce(k.key)
    <3>1. PICK new : new = [k EXCEPT !.pc = "done", !.answer = "401"]
      OBVIOUS
    <3>2. new \in CallerReq /\ new.pc = "done" /\ new.answer = "401"
      BY <1>2, <3>1 DEF CallerReq
    <3>3. CallerOK(new)
      BY <3>2 DEF CallerOK
    <3>4. caller' = [caller EXCEPT ![c] = new]
      BY <1>1, <1>2, <1>4, <2>3, <3>1 DEF ChecksKey
    <3> QED BY <2>1, <3>2, <3>3, <3>4, CallerMoves
  <2> QED BY <2>2, <2>3
<1>5. CASE LogsUsage(c)
  <2>1. PICK there \in BOOLEAN : there = (service.id = k.row.id)
    OBVIOUS
  <2>2. k.pc = "log" /\ k.inforce /\ k.row \in ServiceRows /\ (there \/ k.excused)
    BY <1>1, <1>2, <1>5, <2>1 DEF LogsUsage, CallerOK
  <2>3. PICK new : new = [k EXCEPT !.pc = "done", !.answer = "ok", !.logged = there]
    OBVIOUS
  <2>4. new \in CallerReq /\ new.pc = "done" /\ new.inforce = k.inforce /\ new.excused = k.excused /\ new.logged = there
    BY <1>2, <2>3 DEF CallerReq
  <2>5. CallerOK(new)
    BY <2>2, <2>4 DEF CallerOK
  <2>6. caller' = [caller EXCEPT ![c] = new]
    BY <1>1, <1>2, <1>5, <2>1, <2>3 DEF LogsUsage
  <2>7. service.id = k.row.id => Registered
    <3>1. k.row.id # 0
      BY <2>2 DEF ServiceRows
    <3> QED BY <3>1 DEF Registered, NoService
  <2>8. UNCHANGED <<service, rules, adminreq, keys>>
    BY <1>5 DEF LogsUsage
  <2>9. /\ strays \subseteq strays'
        /\ (\E r \in ServiceReqs : adminreq[r].op = "delete" /\ adminreq[r].pc = "commit") => c \in strays'
    BY <1>5 DEF LogsUsage
  <2>10. usage' = IF service.id = k.row.id THEN usage \cup {c} ELSE usage
    BY <1>1, <1>5 DEF LogsUsage
  <2> QED BY <2>4, <2>5, <2>6, <2>7, <2>8, <2>9, <2>10, CallerMoves
<1>6. CASE CheckFails(c)
  <2>1. PICK answer \in {"ok", "401"} : answer = IF k.pc = "log" THEN "ok" ELSE "401"
    OBVIOUS
  <2>2. PICK new : new = [k EXCEPT !.pc = "done", !.answer = answer, !.excused = TRUE]
    OBVIOUS
  <2>3. new \in CallerReq /\ new.pc = "done" /\ new.answer = answer /\ new.inforce = k.inforce /\ new.excused
    BY <1>2, <2>2 DEF CallerReq
  <2>4. CallerOK(new)
    BY <1>2, <2>1, <2>3 DEF CallerOK
  <2>5. /\ caller' = [caller EXCEPT ![c] = new]
        /\ UNCHANGED <<service, rules, usage, adminreq, keys, strays>>
    BY <1>1, <1>2, <1>6, <2>1, <2>2 DEF CheckFails
  <2> QED BY <2>3, <2>4, <2>5, CallerMoves
<1> QED BY <1>3, <1>4, <1>5, <1>6

LEMMA ServiceInvStep ==
    ASSUME ServiceInv, [ServiceNext]_serviceVars
    PROVE  ServiceInv'
<1>1. CASE UNCHANGED serviceVars
  <2>1. ServiceType'
    BY <1>1 DEF serviceVars, ServiceInv, ServiceType
  <2>2. \A r \in ServiceReqs : AdminOK(adminreq[r])'
    BY <1>1 DEF serviceVars, ServiceInv, AdminOK, Registered
  <2>3. \A c \in Callers : CallerOK(caller[c])'
    BY <1>1 DEF serviceVars, ServiceInv, CallerOK
  <2>4. KeyIsOne' /\ NothingIsInherited'
    BY <1>1 DEF serviceVars, ServiceInv, KeyIsOne, NothingIsInherited, Registered
  <2> QED BY <2>1, <2>2, <2>3, <2>4 DEF ServiceInv
<1>2. ASSUME NEW r \in ServiceReqs, CommitsCreate(r) \/ CommitsKey(r) \/ CommitsUpdate(r)
      PROVE  ServiceInv'
  BY <1>2, AdminCommits
<1>3. ASSUME NEW r \in ServiceReqs,
             \/ \E op \in ServiceOps : AdminStarts(r, op)
             \/ AdminMistypes(r) \/ DeletesUsage(r) \/ CommitsReveal(r)
             \/ AdminRefreshes(r) \/ AdminCounts(r) \/ AdminIsLost(r)
      PROVE  ServiceInv'
  BY <1>3, AdminQuiet
<1>4. ASSUME NEW r \in ServiceReqs, AdminLoads(r) \/ CommitsDelete(r) \/ CommitsRule(r)
      PROVE  ServiceInv'
  BY <1>4, AdminLoadsInv, AdminDeletes, AdminRules
<1>5. ASSUME NEW c \in Callers,
             \/ \E key \in 1..keys : ServiceCalls(c, key)
             \/ ChecksKey(c) \/ LogsUsage(c) \/ CheckFails(c)
      PROVE  ServiceInv'
  BY <1>5, CallerStep
<1> QED BY <1>1, <1>2, <1>3, <1>4, <1>5 DEF ServiceNext

LEMMA ServiceInvHolds ==
    ASSUME ServiceInv PROVE ServiceKeysHold
<1>1. ShownIsInForce
  BY DEF ServiceInv, AdminOK, ShownIsInForce
<1>2. CallersAreKnown
  BY DEF ServiceInv, CallerOK, CallersAreKnown
<1> QED BY <1>1, <1>2 DEF ServiceInv, ServiceKeysHold

\* Whatever administrators and services do at a time: what is checked, shown and revealed
\* is one key, a key about to be shown is the one in force, whoever is let in is in the
\* usage log, and a deleted service leaves nothing behind (service_integrations.py,
\* dependencies.py), with the exceptions the property states.
THEOREM SecretsAgentServiceKeysHold == AgentSpec => []ServiceKeysHold
<1>1. AgentInit => ServiceInv
  BY ServiceInvInit DEF AgentInit
<1>2. ServiceInv /\ [AgentNext]_<<knocking, vars, serviceVars>> => ServiceInv'
  <2>1. [AgentNext]_<<knocking, vars, serviceVars>> => [ServiceNext]_serviceVars
    BY DEF AgentNext
  <2>2. ServiceInv /\ [ServiceNext]_serviceVars => ServiceInv'
    BY ServiceInvStep
  <2> QED BY <2>1, <2>2
<1>3. ServiceInv => ServiceKeysHold
  BY ServiceInvHolds
<1> QED BY <1>1, <1>2, <1>3, PTL DEF AgentSpec

==============================================================================
