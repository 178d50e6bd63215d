------------------------------ MODULE PbxProofs ------------------------------
(* Proofs about Pbx for every set of targets, names and worker loops and any   *)
(* number of operations: its jobs implement JobLedger, its views are their     *)
(* own, and its targets find their own credentials.  And about PbxProbe, for   *)
(* every set of credentials: what is found out about a node is so.             *)
EXTENDS PbxAgent, SequenceTheorems, TLAPS

Nodes == UNION {[S -> Row] : S \in SUBSET Targets}

Refresh == [pc : {"new", "read", "poll"}, nodes : Nodes]

Stream == [t : Targets, found : BOOLEAN, at : 1..4]

Modal ==
    [open : BOOLEAN, title : Targets \cup {None}, checks : SUBSET (Targets \X {"vault", "ssh", "ami"}),
     verifying : Targets \cup {None}, streaming : BOOLEAN]

ViewType ==
    /\ refresh \in Seq(Refresh) /\ flag \in BOOLEAN
    /\ stream \in Seq(Stream) /\ modal \in Modal /\ crossed \in BOOLEAN

\* What a verification has shown when it is at its section n.
Shown(t, n) == {<<t, Sections[m]>> : m \in 1..(n - 1)}

\* Until a dialog is closed over a running verification there is at most one, and
\* the dialog is open for it and shows what it has found so far.
DialogInv ==
    ~crossed =>
        /\ stream = <<>> => ~modal.streaming
        /\ stream # <<>> => /\ Len(stream) = 1 /\ modal.open /\ modal.streaming
                            /\ modal.title = stream[1].t
                            /\ modal.checks = Shown(stream[1].t, stream[1].at)
        /\ modal.open => \E n \in 1..4 : modal.checks = Shown(modal.title, n)

ViewInv == ViewType /\ FlagHasRefresh /\ DialogInv

\* pbx_jobs and the worker loops
Job == [t : Targets \cup {None}, status : {"pending", "running", "succeeded", "failed"},
        attempts : {0, 1}, sent : {0, 1}]

RunnerState ==
    [pc : {"idle"}] \cup [pc : {"load"}, j : Nat]
    \cup [pc : {"secret"}, j : Nat, t : Targets, alias : Aliases]
    \cup [pc : {"ami"}, j : Nat, t : Targets, cred : Targets]
    \cup [pc : {"save"}, j : Nat, out : {"succeeded", "failed"}]

JobType ==
    /\ jobs \in Seq(Job) /\ runner \in [Runners -> RunnerState]
    /\ ops \in 0..MaxOps /\ Len(jobs) <= ops

\* Every job is tried once, and what its row says has happened.
JobInv ==
    \A j \in DOMAIN jobs :
        /\ jobs[j].attempts = IF jobs[j].status = "pending" THEN 0 ELSE 1
        /\ jobs[j].status = "pending" => jobs[j].sent = 0
        /\ jobs[j].status = "succeeded" => jobs[j].sent = 1

\* A worker loop has its job to itself, and knows whether it has sent it.
RunnerInv ==
    /\ \A w \in Runners : runner[w].pc # "idle" =>
         /\ runner[w].j \in DOMAIN jobs /\ jobs[runner[w].j].status = "running"
         /\ runner[w].pc # "save" => jobs[runner[w].j].sent = 0
         /\ runner[w].pc = "save" /\ runner[w].out = "succeeded" => jobs[runner[w].j].sent = 1
    /\ \A v, w \in Runners :
         v # w /\ runner[v].pc # "idle" /\ runner[w].pc # "idle" => runner[v].j # runner[w].j

WorkInv == JobType /\ JobInv /\ RunnerInv

\* Requests, the vault and who has used a name
Request ==
    [pc : {"check"}] \cup
    [op : {"register", "edit", "delete"}, t : Targets, name : Names \cup {None},
     given : SUBSET Kinds, todo : SUBSET Kinds, kept : SUBSET Kinds, old : Seq(Aliases),
     pc : {"vault", "rotate"}]

StoreType ==
    /\ rows \in [Targets -> Row \cup {None}]
    /\ vault \in [Aliases -> Targets \cup {None, "deleted"}]
    /\ users \subseteq Targets \X Names /\ purged \subseteq Aliases /\ byHand \subseteq Targets

\* A secret belongs to a target that was given credentials under its name, and
\* only what a delete request has set out to remove is removed.
VaultInv ==
    \A a \in Aliases :
        /\ vault[a] \in Targets => <<vault[a], a[1]>> \in users
        /\ vault[a] = "deleted" => a \in purged

\* What a request knows while it waits for the vault.
RequestOK(r) ==
    /\ r \in Request
    /\ r.pc # "check" =>
         /\ r.op = "delete" => r.pc = "vault" /\ r.todo = {} /\ \A n \in DOMAIN r.old : r.old[n] \in purged
         /\ r.op # "delete" => r.old = <<>> /\ r.name \in Names /\ <<r.t, r.name>> \in users
         /\ r.op # "delete" => \A k \in r.kept :
              Undisturbed(Alias(r.name, k), r.t) => vault[Alias(r.name, k)] = r.t
         /\ r.op = "register" => "ami" \in r.todo \cup r.kept

RequestInv == req \in Seq(Request) /\ \A i \in DOMAIN req : RequestOK(req[i])

\* The row of a target that was not given aliases by hand leads to its AMI secret.
RowInv ==
    \A t \in Targets : rows[t] # None /\ t \notin byHand /\ Undisturbed(rows[t].ami, t)
                         => vault[rows[t].ami] = t

CredInv == StoreType /\ VaultInv /\ RequestInv /\ RowInv

Inv == ViewInv /\ WorkInv /\ CredInv

------------------------------------------------------------------------------
\* Sequences of requests, refreshes and verifications

LEMMA RemoveAtIn ==
    ASSUME NEW S, NEW s \in Seq(S), NEW i \in DOMAIN s
    PROVE  /\ RemoveAt(s, i) \in Seq(S) /\ Len(RemoveAt(s, i)) = Len(s) - 1
           /\ \A k \in DOMAIN RemoveAt(s, i) : \E m \in DOMAIN s : RemoveAt(s, i)[k] = s[m]
<1> DEFINE a == SubSeq(s, 1, i - 1)
           b == SubSeq(s, i + 1, Len(s))
<1>1. i \in 1..Len(s) /\ Len(s) \in Nat /\ DOMAIN s = 1..Len(s)
  BY LenProperties
<1>2. a \in Seq(S) /\ Len(a) = i - 1 /\ \A k \in 1..(i - 1) : a[k] = s[k]
  BY <1>1, SubSeqProperties
<1>3. b \in Seq(S) /\ Len(b) = Len(s) - i /\ \A k \in 1..(Len(s) - i) : b[k] = s[i + k]
  <2>1. i + 1 \in Int /\ \A x \in (i + 1)..Len(s) : s[x] \in S
    BY <1>1, ElementOfSeq
  <2>2. /\ b \in Seq(S) /\ Len(b) = IF i + 1 <= Len(s) THEN Len(s) - (i + 1) + 1 ELSE 0
        /\ \A k \in 1..(Len(s) - (i + 1) + 1) : b[k] = s[(i + 1) + k - 1]
    BY <1>1, <2>1, SubSeqProperties
  <2> HIDE DEF b
  <2>3. Len(s) - (i + 1) + 1 = Len(s) - i
    BY <1>1
  <2>4. ASSUME NEW k \in 1..(Len(s) - i) PROVE b[k] = s[i + k]
    <3>1. b[k] = s[(i + 1) + k - 1]
      BY <2>2, <2>3
    <3>2. (i + 1) + k - 1 = i + k
      BY <1>1
    <3> QED BY <3>1, <3>2
  <2>5. Len(b) = Len(s) - i
    BY <1>1, <2>2
  <2> QED BY <2>2, <2>4, <2>5
<1>5. RemoveAt(s, i) = a \o b
  BY DEF RemoveAt
<1> HIDE DEF a, b
<1>4. /\ a \o b \in Seq(S) /\ Len(a \o b) = Len(s) - 1
      /\ \A k \in 1..(Len(s) - 1) : (a \o b)[k] = IF k <= i - 1 THEN a[k] ELSE b[k - (i - 1)]
  <2>1. Len(a) + Len(b) = Len(s) - 1
    BY <1>1, <1>2, <1>3
  <2>2. /\ a \o b \in Seq(S) /\ Len(a \o b) = Len(a) + Len(b)
        /\ \A k \in 1..(Len(a) + Len(b)) : (a \o b)[k] = IF k <= Len(a) THEN a[k] ELSE b[k - Len(a)]
    BY <1>2, <1>3, ConcatProperties
  <2>3. Len(a) = i - 1
    BY <1>2
  <2> QED BY <2>1, <2>2, <2>3
<1>6. ASSUME NEW k \in 1..(Len(s) - 1)
      PROVE  \E m \in 1..Len(s) : (a \o b)[k] = s[m]
  <2>1. CASE k <= i - 1
    <3>1. k \in 1..(i - 1) /\ k \in 1..Len(s)
      BY <1>1, <2>1
    <3>2. (a \o b)[k] = a[k]
      BY <1>4, <2>1
    <3> QED BY <1>2, <3>1, <3>2
  <2>2. CASE ~(k <= i - 1)
    <3>1. k - (i - 1) \in 1..(Len(s) - i) /\ i + (k - (i - 1)) \in 1..Len(s)
      BY <1>1, <2>2
    <3> QED BY <1>3, <1>4, <2>2, <3>1
  <2> QED BY <2>1, <2>2
<1> QED BY <1>1, <1>4, <1>5, <1>6, LenProperties

\* Removing the only element leaves nothing.
LEMMA RemoveOnly ==
    ASSUME NEW S, NEW s \in Seq(S), Len(s) = 1, NEW i \in DOMAIN s
    PROVE  RemoveAt(s, i) = <<>>
<1>1. RemoveAt(s, i) \in Seq(S) /\ Len(RemoveAt(s, i)) = 0
  BY RemoveAtIn
<1> QED BY <1>1, EmptySeq

LEMMA OneIsNotNone ==
    ASSUME NEW S, NEW s \in Seq(S), Len(s) = 1
    PROVE  s # <<>>
<1>1. Len(s) # 0
  OBVIOUS
<1> QED BY <1>1, EmptySeq

------------------------------------------------------------------------------
\* Credentials

\* Names that were used and aliases that were given up stay so, and what a target
\* has alone under its own name nobody takes from it.
StoreGrows ==
    /\ users \subseteq users' /\ purged \subseteq purged' /\ byHand \subseteq byHand'
    /\ \A a \in Aliases, t \in Targets : Undisturbed(a, t)' /\ vault[a] = t => vault'[a] = t

LEMMA StillUndisturbed ==
    ASSUME StoreGrows, NEW a, NEW t, Undisturbed(a, t)'
    PROVE  Undisturbed(a, t)
BY DEF StoreGrows, Undisturbed

LEMMA RequestStays ==
    ASSUME StoreGrows, NEW r, RequestOK(r)
    PROVE  RequestOK(r)'
<1>1. CASE r.pc = "check"
  BY <1>1 DEF RequestOK
<1>2. CASE r.pc # "check"
  <2>1. r.t \in Targets /\ r.kept \subseteq Kinds
    BY <1>2 DEF RequestOK, Request
  <2>2. ASSUME r.op # "delete", NEW k \in r.kept, Undisturbed(Alias(r.name, k), r.t)'
        PROVE  vault'[Alias(r.name, k)] = r.t
    <3>1. Undisturbed(Alias(r.name, k), r.t)
      BY <2>2, StillUndisturbed
    <3>2. r.name \in Names
      BY <1>2, <2>2 DEF RequestOK
    <3>3. Alias(r.name, k) \in Aliases
      BY <2>1, <3>2 DEF Alias, Aliases
    <3>4. vault[Alias(r.name, k)] = r.t
      BY <1>2, <2>2, <3>1 DEF RequestOK
    <3> QED BY <2>1, <2>2, <3>3, <3>4 DEF StoreGrows
  <2> QED BY <1>2, <2>2 DEF RequestOK, StoreGrows
<1> QED BY <1>1, <1>2

\* The requests after a step are those before it, and perhaps one that is new or
\* has gone on.
LEMMA RequestsStay ==
    ASSUME StoreGrows, RequestInv, req' \in Seq(Request),
           \A k \in DOMAIN req' : (\E m \in DOMAIN req : req'[k] = req[m])
                                  \/ (\E r : req'[k] = r /\ RequestOK(r)')
    PROVE  RequestInv'
<1>1. \A r : RequestOK(r) => RequestOK(r)'
  BY RequestStays
<1>2. ASSUME NEW k \in DOMAIN req'
      PROVE  RequestOK(req[k])'
  <2>1. CASE \E m \in DOMAIN req : req'[k] = req[m]
    BY <1>1, <2>1 DEF RequestInv
  <2>2. CASE \E r : req'[k] = r /\ RequestOK(r)'
    BY <2>2
  <2> QED BY <2>1, <2>2
<1> QED BY <1>2 DEF RequestInv

LEMMA RowsStay ==
    ASSUME StoreType, StoreGrows, RowInv, UNCHANGED rows
    PROVE  RowInv'
<1> SUFFICES ASSUME NEW t \in Targets, rows[t] # None, t \notin byHand', Undisturbed(rows[t].ami, t)'
             PROVE  vault'[rows[t].ami] = t
  BY DEF RowInv
<1>1. rows[t].ami \in Aliases
  BY DEF StoreType, Row
<1>2. Undisturbed(rows[t].ami, t)
  BY StillUndisturbed
<1>3. vault[rows[t].ami] = t
  BY <1>2 DEF RowInv, StoreGrows
<1> QED BY <1>1, <1>3 DEF StoreGrows

\* A request that is at its turn with the vault.
LEMMA RequestAt ==
    ASSUME CredInv, NEW i \in DOMAIN req, req[i].pc # "check"
    PROVE  /\ RequestOK(req[i]) /\ req[i] \in Request
           /\ req[i].op \in {"register", "edit", "delete"} /\ req[i].t \in Targets
           /\ req[i].todo \subseteq Kinds /\ req[i].kept \subseteq Kinds
           /\ req[i].pc \in {"vault", "rotate"} /\ req[i].old \in Seq(Aliases)
           /\ NextKind(i) \in Kinds
           /\ req[i].op # "delete" => /\ req[i].name \in Names /\ <<req[i].t, req[i].name>> \in users
                                       /\ Alias(req[i].name, NextKind(i)) \in Aliases
<1>1. RequestOK(req[i]) /\ req[i] \in Request
  BY DEF CredInv, RequestInv, RequestOK
<1>2. NextKind(i) \in Kinds
  BY DEF NextKind, Kinds
<1>3. /\ req[i].op \in {"register", "edit", "delete"} /\ req[i].t \in Targets
      /\ req[i].todo \subseteq Kinds /\ req[i].kept \subseteq Kinds
      /\ req[i].pc \in {"vault", "rotate"} /\ req[i].old \in Seq(Aliases)
  BY <1>1 DEF Request
<1>4. req[i].op # "delete" => req[i].name \in Names /\ <<req[i].t, req[i].name>> \in users
  BY <1>1 DEF RequestOK
<1> QED BY <1>1, <1>2, <1>3, <1>4 DEF Alias, Aliases

\* What store_secret leaves of a request.
LEMMA StoredFields ==
    ASSUME NEW r \in Request, r.pc # "check", NEW k \in Kinds, NEW ok \in BOOLEAN
    PROVE  LET q == Stored(r, k, ok)
           IN /\ q \in Request /\ q.pc = "vault" /\ q.todo = r.todo \ {k}
              /\ q.kept = IF ok THEN r.kept \cup {k} ELSE r.kept
              /\ q.op = r.op /\ q.t = r.t /\ q.name = r.name /\ q.old = r.old
BY DEF Stored, Request

\* A request that ends.
LEMMA RequestsRemoved ==
    ASSUME CredInv, NEW i \in DOMAIN req, req' = RemoveAt(req, i)
    PROVE  /\ req' \in Seq(Request)
           /\ \A n \in DOMAIN req' : \E m \in DOMAIN req : req'[n] = req[m]
<1>1. req \in Seq(Request)
  BY DEF CredInv, RequestInv
<1>2. /\ RemoveAt(req, i) \in Seq(Request)
      /\ \A n \in DOMAIN RemoveAt(req, i) : \E m \in DOMAIN req : RemoveAt(req, i)[n] = req[m]
  BY <1>1, RemoveAtIn
<1> QED BY <1>2

\* A request that goes on as r.
LEMMA RequestReplaced ==
    ASSUME CredInv, StoreGrows, NEW i \in DOMAIN req, NEW r, req' = [req EXCEPT ![i] = r], RequestOK(r)'
    PROVE  RequestInv'
<1>1. req \in Seq(Request) /\ RequestInv /\ r \in Request
  BY DEF CredInv, RequestInv, RequestOK
<1>2. /\ req' \in Seq(Request) /\ DOMAIN req' = DOMAIN req
      /\ \A n \in DOMAIN req : req'[n] = IF n = i THEN r ELSE req[n]
  BY <1>1, ExceptSeq, LenProperties
<1> QED BY <1>1, <1>2, RequestsStay

\* store_secret and _rotate_existing leave the requests in order.
LEMMA StoreReq ==
    ASSUME CredInv, StoreGrows, NEW i \in DOMAIN req, req[i].pc # "check", req[i].op # "delete",
           NEW ok \in BOOLEAN, AfterStore(i, ok),
           ok => vault'[Alias(req[i].name, NextKind(i))] = req[i].t
    PROVE  RequestInv'
<1> DEFINE k == NextKind(i)
           q == Stored(req[i], k, ok)
<1>0. /\ RequestOK(req[i]) /\ req[i] \in Request /\ k \in Kinds
      /\ req[i].name \in Names /\ <<req[i].t, req[i].name>> \in users
  BY RequestAt
<1>1. req \in Seq(Request) /\ DOMAIN req = 1..Len(req) /\ RequestInv
  BY LenProperties DEF CredInv, RequestInv
<1>2. CASE ~ok /\ k = "ami" /\ req[i].op = "register"
  <2>1. req' = RemoveAt(req, i)
    BY <1>2 DEF AfterStore
  <2>2. /\ req' \in Seq(Request)
        /\ \A n \in DOMAIN req' : \E m \in DOMAIN req : req'[n] = req[m]
    BY <2>1, RequestsRemoved
  <2> QED BY <1>1, <2>2, RequestsStay
<1>3. CASE ~(~ok /\ k = "ami" /\ req[i].op = "register")
  <2>1. req' = [req EXCEPT ![i] = q]
    BY <1>3 DEF AfterStore
  <2>2. /\ q \in Request /\ q.pc = "vault" /\ q.todo = req[i].todo \ {k}
        /\ q.kept = IF ok THEN req[i].kept \cup {k} ELSE req[i].kept
        /\ q.op = req[i].op /\ q.t = req[i].t /\ q.name = req[i].name /\ q.old = req[i].old
    BY <1>0, StoredFields
  <2>3. k = "ami" /\ req[i].op = "register" => ok
    BY <1>3
  <2>4. ok => vault'[Alias(req[i].name, k)] = req[i].t
    OBVIOUS
  <2> HIDE DEF q, k
  <2>5. PICK old, new : old = req[i] /\ new = q
    OBVIOUS
  <2>6. RequestOK(old)' /\ RequestOK(old)
    BY <1>0, <2>5, RequestStays
  <2>7. RequestOK(new)'
    <3>1. ASSUME NEW x \in new.kept, Undisturbed(Alias(new.name, x), new.t)'
          PROVE  vault'[Alias(new.name, x)] = new.t
      <4>1. CASE x = k /\ ok
        BY <2>2, <2>4, <2>5, <4>1
      <4>2. CASE x \in old.kept
        BY <2>2, <2>5, <2>6, <3>1, <4>2 DEF RequestOK
      <4> QED BY <2>2, <2>5, <4>1, <4>2
    <3>2. new \in Request /\ new.op # "delete" /\ new.pc # "check" /\ new.old = <<>>
          /\ new.name \in Names /\ <<new.t, new.name>> \in users'
      BY <2>2, <2>5, <2>6 DEF RequestOK
    <3>3. new.op = "register" => "ami" \in new.todo \cup new.kept
      BY <2>2, <2>3, <2>5, <2>6 DEF RequestOK
    <3> QED BY <3>1, <3>2, <3>3 DEF RequestOK
  <2> QED BY <2>1, <2>5, <2>7, RequestReplaced
<1> QED BY <1>2, <1>3

\* A request that has its credential stored under its own alias takes it from nobody
\* who is alone there.
LEMMA VaultSet ==
    ASSUME CredInv, NEW i \in DOMAIN req, req[i].pc # "check", req[i].op # "delete",
           vault' = [vault EXCEPT ![Alias(req[i].name, NextKind(i))] = req[i].t],
           UNCHANGED <<rows, history>>
    PROVE  /\ StoreGrows /\ StoreType' /\ VaultInv' /\ RowInv'
           /\ vault'[Alias(req[i].name, NextKind(i))] = req[i].t
<1>1. PICK a, t, n : a = Alias(req[i].name, NextKind(i)) /\ t = req[i].t /\ n = req[i].name
  OBVIOUS
<1>2. a \in Aliases /\ t \in Targets /\ <<t, n>> \in users /\ a[1] = n
  BY <1>1, RequestAt DEF Alias
<1>3. vault' = [vault EXCEPT ![a] = t] /\ UNCHANGED <<rows, users, purged, byHand>>
  BY <1>1 DEF history
<1>4. StoreGrows
  BY <1>2, <1>3 DEF StoreGrows, Undisturbed, CredInv, StoreType
<1>5. StoreType' /\ VaultInv'
  BY <1>2, <1>3, PbxAssumption DEF CredInv, StoreType, VaultInv
<1>6. RowInv'
  BY <1>3, <1>4, RowsStay DEF CredInv
<1> QED BY <1>1, <1>2, <1>3, <1>4, <1>5, <1>6 DEF CredInv, StoreType

LEMMA VaultKeeps ==
    ASSUME CredInv, UNCHANGED <<rows, vault, history>>
    PROVE  StoreGrows /\ StoreType' /\ VaultInv' /\ RowInv'
<1>1. UNCHANGED <<rows, vault, users, purged, byHand>>
  BY DEF history
<1>2. StoreGrows
  BY <1>1 DEF StoreGrows, Undisturbed
<1> QED BY <1>1, <1>2, RowsStay DEF CredInv, StoreType, VaultInv

LEMMA StoreSecretCred ==
    ASSUME CredInv, NEW i \in DOMAIN req, StoreSecret(i)
    PROVE  CredInv'
<1>1. req[i].pc = "vault" /\ req[i].todo # {}
  BY DEF StoreSecret
<1>2. req[i].pc # "check" /\ req[i].op # "delete"
  BY <1>1 DEF CredInv, RequestInv, RequestOK
<1>3. UNCHANGED <<rows, history>>
  BY DEF StoreSecret
<1>4. ASSUME vault' = [vault EXCEPT ![Alias(req[i].name, NextKind(i))] = req[i].t],
             NEW ok \in BOOLEAN, AfterStore(i, ok)
      PROVE  CredInv'
  <2>1. /\ StoreGrows /\ StoreType' /\ VaultInv' /\ RowInv'
        /\ vault'[Alias(req[i].name, NextKind(i))] = req[i].t
    BY <1>2, <1>3, <1>4, VaultSet
  <2>2. RequestInv'
    BY <1>2, <1>4, <2>1, StoreReq
  <2> QED BY <2>1, <2>2 DEF CredInv
<1>5. ASSUME UNCHANGED vault, AfterStore(i, FALSE)
      PROVE  CredInv'
  <2>1. StoreGrows /\ StoreType' /\ VaultInv' /\ RowInv'
    BY <1>3, <1>5, VaultKeeps
  <2>2. RequestInv'
    BY <1>2, <1>5, <2>1, StoreReq
  <2> QED BY <2>1, <2>2 DEF CredInv
<1>6. ASSUME UNCHANGED vault, req' = [req EXCEPT ![i].pc = "rotate"]
      PROVE  CredInv'
  <2>1. StoreGrows /\ StoreType' /\ VaultInv' /\ RowInv'
    BY <1>3, <1>6, VaultKeeps
  <2>2. PICK r, q : r = req[i] /\ q = [r EXCEPT !.pc = "rotate"]
    OBVIOUS
  <2>3. RequestOK(r)' /\ r.pc # "check" /\ r.op # "delete"
    BY <1>2, <2>1, <2>2, RequestStays DEF CredInv, RequestInv
  <2>4. /\ q \in Request /\ q.pc = "rotate" /\ q.todo = r.todo /\ q.kept = r.kept
        /\ q.op = r.op /\ q.t = r.t /\ q.name = r.name /\ q.old = r.old
    BY <2>2, <2>3 DEF RequestOK, Request
  <2>5. RequestOK(q)'
    BY <2>3, <2>4 DEF RequestOK
  <2>6. req' = [req EXCEPT ![i] = q]
    BY <1>6, <2>2
  <2>7. RequestInv'
    BY <2>1, <2>5, <2>6, RequestReplaced
  <2> QED BY <2>1, <2>7 DEF CredInv
<1> QED BY <1>4, <1>5, <1>6 DEF StoreSecret

LEMMA RotateExistingCred ==
    ASSUME CredInv, NEW i \in DOMAIN req, RotateExisting(i)
    PROVE  CredInv'
<1>1. req[i].pc = "rotate" /\ UNCHANGED <<rows, history>>
  BY DEF RotateExisting
<1>2. req[i].pc # "check" /\ req[i].op # "delete"
  BY <1>1 DEF CredInv, RequestInv, RequestOK
<1>4. ASSUME vault' = [vault EXCEPT ![Alias(req[i].name, NextKind(i))] = req[i].t],
             NEW ok \in BOOLEAN, AfterStore(i, ok)
      PROVE  CredInv'
  <2>1. /\ StoreGrows /\ StoreType' /\ VaultInv' /\ RowInv'
        /\ vault'[Alias(req[i].name, NextKind(i))] = req[i].t
    BY <1>1, <1>2, <1>4, VaultSet
  <2>2. RequestInv'
    BY <1>2, <1>4, <2>1, StoreReq
  <2> QED BY <2>1, <2>2 DEF CredInv
<1>5. ASSUME UNCHANGED vault, AfterStore(i, FALSE)
      PROVE  CredInv'
  <2>1. StoreGrows /\ StoreType' /\ VaultInv' /\ RowInv'
    BY <1>1, <1>5, VaultKeeps
  <2>2. RequestInv'
    BY <1>2, <1>5, <2>1, StoreReq
  <2> QED BY <2>1, <2>2 DEF CredInv
<1> QED BY <1>4, <1>5 DEF RotateExisting

\* A delete only ever removes what it has announced.
LEMMA DeleteSecretCred ==
    ASSUME CredInv, NEW i \in DOMAIN req, DeleteSecret(i)
    PROVE  CredInv'
<1>1. /\ req[i].pc = "vault" /\ req[i].op = "delete" /\ req[i].old # <<>>
      /\ UNCHANGED <<rows, users, purged, byHand>>
      /\ req' = [req EXCEPT ![i].old = Tail(@)]
  BY DEF DeleteSecret, history
<1>2. PICK r : r = req[i]
  OBVIOUS
<1>3. RequestOK(r) /\ r.old \in Seq(Aliases) /\ r.old # <<>> /\ r \in Request
  BY <1>1, <1>2, RequestAt
<1>4. /\ Head(r.old) = r.old[1] /\ 1 \in DOMAIN r.old /\ Head(r.old) \in Aliases
      /\ Tail(r.old) \in Seq(Aliases)
      /\ \A n \in DOMAIN Tail(r.old) : n + 1 \in DOMAIN r.old /\ Tail(r.old)[n] = r.old[n + 1]
  BY <1>3, HeadTailProperties, LenProperties
<1>5. /\ Head(r.old) \in purged
      /\ \A n \in DOMAIN Tail(r.old) : Tail(r.old)[n] \in purged
  BY <1>1, <1>2, <1>3, <1>4 DEF RequestOK
<1>6. PICK a, rest : a = Head(r.old) /\ rest = Tail(r.old)
  OBVIOUS
<1>7. \/ UNCHANGED vault
      \/ vault' = [vault EXCEPT ![a] = "deleted"]
  BY <1>2, <1>6 DEF DeleteSecret
<1>8. StoreGrows
  BY <1>1, <1>4, <1>5, <1>6, <1>7 DEF StoreGrows, Undisturbed, CredInv, StoreType
<1>9. StoreType' /\ VaultInv'
  BY <1>1, <1>4, <1>5, <1>6, <1>7, PbxAssumption DEF CredInv, StoreType, VaultInv
<1>10. RowInv'
  BY <1>1, <1>8, RowsStay DEF CredInv
<1>11. PICK q : q = [r EXCEPT !.old = rest]
  OBVIOUS
<1>12. /\ q \in Request /\ q.pc = "vault" /\ q.op = "delete" /\ q.todo = r.todo /\ q.old = rest
  BY <1>1, <1>2, <1>3, <1>4, <1>6, <1>11 DEF Request
<1>13. RequestOK(q)'
  BY <1>1, <1>2, <1>3, <1>5, <1>6, <1>12 DEF RequestOK
<1>14. req' = [req EXCEPT ![i] = q]
  BY <1>1, <1>2, <1>6, <1>11
<1>15. RequestInv'
  BY <1>8, <1>13, <1>14, RequestReplaced
<1> QED BY <1>8, <1>9, <1>10, <1>15 DEF CredInv

\* A request that arrives.
LEMMA RequestAdded ==
    ASSUME CredInv, StoreGrows, NEW r, req' = Append(req, r), RequestOK(r)'
    PROVE  RequestInv'
<1>1. req \in Seq(Request) /\ RequestInv /\ r \in Request
  BY DEF CredInv, RequestInv, RequestOK
<1>2. /\ Append(req, r) \in Seq(Request) /\ Len(Append(req, r)) = Len(req) + 1
      /\ \A n \in 1..Len(req) : Append(req, r)[n] = req[n]
      /\ Append(req, r)[Len(req) + 1] = r
  BY <1>1, AppendProperties
<1>3. req' \in Seq(Request) /\ DOMAIN req' = 1..(Len(req) + 1) /\ DOMAIN req = 1..Len(req) /\ Len(req) \in Nat
  BY <1>1, <1>2, LenProperties
<1>4. ASSUME NEW n \in DOMAIN req'
      PROVE  (\E m \in DOMAIN req : req'[n] = req[m]) \/ (\E q : req'[n] = q /\ RequestOK(q)')
  <2>1. CASE n = Len(req) + 1
    BY <1>2, <2>1
  <2>2. CASE n # Len(req) + 1
    <3>1. n \in 1..Len(req)
      BY <1>3, <2>2
    <3> QED BY <1>2, <1>3, <3>1
  <2> QED BY <2>1, <2>2
<1> QED BY <1>1, <1>3, <1>4, RequestsStay

\* Another user of a name, or aliases given up.
LEMMA HistoryGrows ==
    ASSUME CredInv, UNCHANGED <<rows, vault, byHand>>, users \subseteq users', purged \subseteq purged',
           users' \subseteq Targets \X Names, purged' \subseteq Aliases
    PROVE  StoreGrows /\ StoreType' /\ VaultInv' /\ RowInv'
<1>1. StoreGrows
  BY DEF StoreGrows
<1> QED BY <1>1, RowsStay DEF CredInv, StoreType, VaultInv

LEMMA AskCred ==
    ASSUME CredInv, NEW t \in Targets, NEW n \in Names, NEW ks \in SUBSET Kinds,
           Register(t, n, ks) \/ EditTarget(t, n, ks)
    PROVE  CredInv'
<1>1. PICK op \in {"register", "edit"} :
          req' = Append(req, NewReq(op, t, n, ks, <<>>)) /\ (op = "register" => "ami" \in ks)
  BY DEF Register, EditTarget, Ask
<1>2. users' = users \cup {<<t, n>>} /\ UNCHANGED <<rows, vault, byHand, purged>>
  BY DEF Register, EditTarget, store
<1>3. StoreGrows /\ StoreType' /\ VaultInv' /\ RowInv'
  <2>1. users \subseteq users' /\ purged \subseteq purged' /\ users' \subseteq Targets \X Names /\ purged' \subseteq Aliases
    BY <1>2 DEF CredInv, StoreType
  <2> QED BY <1>2, <2>1, HistoryGrows
<1>4. PICK r : r = NewReq(op, t, n, ks, <<>>)
  OBVIOUS
<1>5. <<>> \in Seq(Aliases)
  BY EmptySeq
<1>6. /\ r \in Request /\ r.op = op /\ r.t = t /\ r.name = n /\ r.todo = ks /\ r.kept = {}
      /\ r.old = <<>> /\ r.pc = "vault"
  BY <1>4, <1>5 DEF NewReq, Request
<1>7. RequestOK(r)'
  BY <1>1, <1>2, <1>6 DEF RequestOK
<1>8. req' = Append(req, r)
  BY <1>1, <1>4
<1>9. RequestInv'
  BY <1>3, <1>7, <1>8, RequestAdded
<1> QED BY <1>3, <1>9 DEF CredInv

LEMMA DeleteTargetCred ==
    ASSUME CredInv, NEW t \in Targets, DeleteTarget(t)
    PROVE  CredInv'
<1>1. PICK old : old = AliasesOf(rows[t])
  OBVIOUS
<1>2. /\ req' = Append(req, NewReq("delete", t, None, {}, old)) /\ purged' = purged \cup ToSet(old)
      /\ UNCHANGED <<rows, vault, users, byHand>> /\ rows[t] \in Row
  BY <1>1 DEF DeleteTarget, Ask, store, CredInv, StoreType
<1>3. old \in Seq(Aliases)
  <2>1. CASE rows[t].ssh = None
    <3>1. rows[t].ami \in Aliases /\ old = <<rows[t].ami>>
      BY <1>1, <1>2, <2>1 DEF AliasesOf, Row
    <3> QED BY <3>1
  <2>2. CASE rows[t].ssh # None
    <3>1. rows[t].ami \in Aliases /\ rows[t].ssh \in Aliases /\ old = <<rows[t].ami, rows[t].ssh>>
      BY <1>1, <1>2, <2>2 DEF AliasesOf, Row
    <3> QED BY <3>1
  <2> QED BY <2>1, <2>2
<1>4. ToSet(old) \subseteq Aliases /\ \A n \in DOMAIN old : old[n] \in ToSet(old)
  BY <1>3, ElementOfSeq, LenProperties DEF ToSet
<1>5. StoreGrows /\ StoreType' /\ VaultInv' /\ RowInv'
  <2>1. users \subseteq users' /\ purged \subseteq purged' /\ users' \subseteq Targets \X Names /\ purged' \subseteq Aliases
    BY <1>2, <1>4 DEF CredInv, StoreType
  <2> QED BY <1>2, <2>1, HistoryGrows
<1>6. PICK r : r = NewReq("delete", t, None, {}, old)
  OBVIOUS
<1>7. r \in Request /\ r.op = "delete" /\ r.todo = {} /\ r.old = old /\ r.pc = "vault"
  BY <1>3, <1>6 DEF NewReq, Request
<1>8. RequestOK(r)'
  BY <1>2, <1>4, <1>7 DEF RequestOK
<1>9. req' = Append(req, r)
  BY <1>2, <1>6
<1>10. RequestInv'
  BY <1>5, <1>8, <1>9, RequestAdded
<1> QED BY <1>5, <1>10 DEF CredInv

\* The row a request writes leads to a credential it has stored, or to the one the
\* row has led to before.
LEMMA WriteTargetRow ==
    ASSUME CredInv, NEW i \in DOMAIN req, req[i].pc = "vault", req[i].todo = {}, req[i].op # "delete",
           NEW row, \/ req[i].op = "register" /\ row = RegisteredRow(req[i])
                    \/ rows[req[i].t] # None /\ row = EditedRow(rows[req[i].t], req[i])
    PROVE  /\ row \in Row
           /\ req[i].t \notin byHand /\ Undisturbed(row.ami, req[i].t) => vault[row.ami] = req[i].t
<1>1. PICK r, t, was : r = req[i] /\ t = req[i].t /\ was = rows[req[i].t]
  OBVIOUS
<1>2. RequestOK(r) /\ r \in Request /\ t \in Targets /\ r.name \in Names /\ r.t = t
      /\ r.todo = {} /\ r.pc = "vault" /\ r.op # "delete"
  BY <1>1, RequestAt
<1>3. Alias(r.name, "ami") \in Aliases /\ Alias(r.name, "ssh") \in Aliases
  BY <1>2 DEF Alias, Aliases, Kinds
<1>4. "ami" \in r.kept /\ Undisturbed(Alias(r.name, "ami"), t) => vault[Alias(r.name, "ami")] = t
  BY <1>2 DEF RequestOK
<1>5. CASE r.op = "register" /\ row = RegisteredRow(r)
  <2>1. "ami" \in r.kept
    BY <1>2, <1>5 DEF RequestOK
  <2>2. row.ami = Alias(r.name, "ami") /\ row \in Row
    BY <1>3, <1>5 DEF RegisteredRow, Row
  <2> QED BY <1>1, <1>4, <2>1, <2>2
<1>6. CASE was # None /\ row = EditedRow(was, r)
  <2>1. was \in Row
    BY <1>1, <1>2, <1>6 DEF CredInv, StoreType
  <2>2. row \in Row /\ row.ami = IF "ami" \in r.kept THEN Alias(r.name, "ami") ELSE was.ami
    BY <1>3, <1>6, <2>1 DEF EditedRow, Row
  <2>3. t \notin byHand /\ Undisturbed(was.ami, t) => vault[was.ami] = t
    BY <1>1, <1>2, <1>6 DEF CredInv, RowInv
  <2> QED BY <1>1, <1>4, <2>2, <2>3
<1> QED BY <1>1, <1>5, <1>6

LEMMA WriteTargetCred ==
    ASSUME CredInv, NEW i \in DOMAIN req, WriteTarget(i)
    PROVE  CredInv'
<1>1. req[i].pc = "vault" /\ req[i].todo = {} /\ UNCHANGED <<vault, users, purged, byHand>>
  BY DEF WriteTarget, history
<1>2. StoreGrows
  BY <1>1 DEF StoreGrows, Undisturbed
<1>3. req[i].t \in Targets
  BY <1>1, RequestAt
<1>4. StoreType' /\ RowInv'
  <2>1. ASSUME NEW row, rows' = [rows EXCEPT ![req[i].t] = row], row \in Row,
               req[i].t \notin byHand /\ Undisturbed(row.ami, req[i].t) => vault[row.ami] = req[i].t
        PROVE  StoreType' /\ RowInv'
    BY <1>1, <1>3, <2>1 DEF CredInv, StoreType, RowInv, Undisturbed
  <2>2. CASE req[i].op = "register" /\ rows' = [rows EXCEPT ![req[i].t] = RegisteredRow(req[i])]
    BY <1>1, <2>1, <2>2, WriteTargetRow
  <2>3. CASE req[i].op = "edit" /\ rows[req[i].t] # None
                /\ rows' = [rows EXCEPT ![req[i].t] = EditedRow(rows[req[i].t], req[i])]
    BY <1>1, <2>1, <2>3, WriteTargetRow
  <2>4. CASE rows' = [rows EXCEPT ![req[i].t] = None]
    BY <1>1, <1>3, <2>4 DEF CredInv, StoreType, RowInv, Undisturbed
  <2>5. CASE UNCHANGED rows
    BY <1>1, <1>2, <2>5, RowsStay DEF CredInv, StoreType
  <2> QED BY <2>2, <2>3, <2>4, <2>5 DEF WriteTarget, DropRow
<1>5. VaultInv'
  BY <1>1 DEF CredInv, VaultInv
<1>6. RequestInv'
  <2>1. CASE req' = [req EXCEPT ![i] = [pc |-> "check"]]
    <3>1. PICK r : r = [pc |-> "check"]
      OBVIOUS
    <3>2. RequestOK(r)'
      BY <3>1 DEF RequestOK, Request
    <3> QED BY <1>2, <2>1, <3>1, <3>2, RequestReplaced
  <2>2. CASE req' = RemoveAt(req, i)
    <3>1. /\ req' \in Seq(Request)
          /\ \A n \in DOMAIN req' : \E m \in DOMAIN req : req'[n] = req[m]
      BY <2>2, RequestsRemoved
    <3> QED BY <1>2, <3>1, RequestsStay DEF CredInv
  <2> QED BY <2>1, <2>2 DEF WriteTarget
<1> QED BY <1>4, <1>5, <1>6 DEF CredInv

LEMMA RunChecksCred ==
    ASSUME CredInv, NEW i \in DOMAIN req, RunChecks(i)
    PROVE  CredInv'
<1>1. StoreGrows /\ StoreType' /\ VaultInv' /\ RowInv'
  BY VaultKeeps DEF RunChecks, store
<1>2. /\ req' \in Seq(Request)
      /\ \A n \in DOMAIN req' : \E m \in DOMAIN req : req'[n] = req[m]
  BY RequestsRemoved DEF RunChecks
<1> QED BY <1>1, <1>2, RequestsStay DEF CredInv

LEMMA PlainWriteCred ==
    ASSUME CredInv, NEW t \in Targets, PlainWrite(t)
    PROVE  CredInv'
<1>1. UNCHANGED <<vault, req, users, purged>>
  BY DEF PlainWrite
<1>2. byHand \subseteq byHand' /\ byHand' \subseteq Targets
  BY DEF PlainWrite, CredInv, StoreType
<1>3. StoreGrows
  BY <1>1, <1>2 DEF StoreGrows, Undisturbed
<1>4. PICK row \in Row :
         /\ rows' = [rows EXCEPT ![t] = row]
         /\ t \in byHand' \/ (rows[t] # None /\ row.ami = rows[t].ami /\ byHand' = byHand)
  <2>1. ASSUME NEW a \in Names, rows' = [rows EXCEPT ![t] = [ami |-> Alias(a, "ami"), ssh |-> None, active |-> TRUE]],
               t \in byHand'
        PROVE  \E row \in Row : rows' = [rows EXCEPT ![t] = row] /\ t \in byHand'
    <3>1. [ami |-> Alias(a, "ami"), ssh |-> None, active |-> TRUE] \in Row
      BY DEF Row, Alias, Aliases, Kinds
    <3> QED BY <2>1, <3>1
  <2>2. ASSUME rows[t] # None, rows' = [rows EXCEPT ![t].active = ~@], UNCHANGED byHand
        PROVE  \E row \in Row : rows' = [rows EXCEPT ![t] = row] /\ row.ami = rows[t].ami
    <3>1. rows[t] \in Row
      BY <2>2 DEF CredInv, StoreType
    <3>2. PICK row : row = [rows[t] EXCEPT !.active = ~@]
      OBVIOUS
    <3>3. row \in Row /\ row.ami = rows[t].ami
      BY <3>1, <3>2 DEF Row
    <3> QED BY <2>2, <3>2, <3>3
  <2>3. ASSUME rows[t] # None, NEW a \in Names, rows' = [rows EXCEPT ![t].ami = Alias(a, "ami")], t \in byHand'
        PROVE  \E row \in Row : rows' = [rows EXCEPT ![t] = row] /\ t \in byHand'
    <3>1. rows[t] \in Row /\ Alias(a, "ami") \in Aliases
      BY <2>3 DEF CredInv, StoreType, Alias, Aliases, Kinds
    <3>2. PICK row : row = [rows[t] EXCEPT !.ami = Alias(a, "ami")]
      OBVIOUS
    <3>3. row \in Row
      BY <3>1, <3>2 DEF Row
    <3> QED BY <2>3, <3>2, <3>3
  <2> QED BY <2>1, <2>2, <2>3 DEF PlainWrite
<1>5. StoreType'
  BY <1>1, <1>2, <1>4 DEF CredInv, StoreType
<1>6. RowInv'
  <2> SUFFICES ASSUME NEW u \in Targets, rows'[u] # None, u \notin byHand', Undisturbed(rows[u].ami, u)'
               PROVE  vault'[rows'[u].ami] = u
    BY DEF RowInv
  <2>1. rows[u] # None /\ rows'[u].ami = rows[u].ami
    BY <1>4 DEF CredInv, StoreType
  <2> QED BY <1>1, <1>2, <2>1 DEF CredInv, RowInv, Undisturbed
<1>7. VaultInv' /\ RequestInv'
  <2>1. \A r : RequestOK(r) => RequestOK(r)'
    BY <1>3, RequestStays
  <2> QED BY <1>1, <2>1 DEF CredInv, VaultInv, RequestInv
<1> QED BY <1>5, <1>6, <1>7 DEF CredInv

\* Any other step leaves the store alone, and at most cuts off all requests.
LEMMA CredKeeps ==
    ASSUME CredInv, UNCHANGED <<rows, vault, history>>, req' = req \/ req' = <<>>
    PROVE  CredInv'
<1>1. StoreGrows /\ StoreType' /\ VaultInv' /\ RowInv'
  BY VaultKeeps
<1>2. \A r : RequestOK(r) => RequestOK(r)'
  BY <1>1, RequestStays
<1>3. RequestInv'
  <2>1. CASE req' = req
    BY <1>2, <2>1 DEF CredInv, RequestInv
  <2>2. CASE req' = <<>>
    <3>1. <<>> \in Seq(Request) /\ DOMAIN <<>> = {}
      BY EmptySeq
    <3> QED BY <2>2, <3>1 DEF RequestInv
  <2> QED BY <2>1, <2>2
<1> QED BY <1>1, <1>3 DEF CredInv

LEMMA CredStep ==
    ASSUME CredInv, [Next]_vars
    PROVE  CredInv'
<1>1. CASE UNCHANGED vars
  BY <1>1, CredKeeps DEF vars, store, history
<1>2. CASE Next
  <2>1. ASSUME NEW t \in Targets, NEW n \in Names, NEW ks \in SUBSET Kinds,
               Register(t, n, ks) \/ EditTarget(t, n, ks)
        PROVE  CredInv'
    BY <2>1, AskCred
  <2>2. ASSUME NEW t \in Targets, DeleteTarget(t) \/ PlainWrite(t)
        PROVE  CredInv'
    BY <2>2, DeleteTargetCred, PlainWriteCred
  <2>3. ASSUME NEW t \in Targets, CreateJob(t) \/ StartVerify(t)
        PROVE  CredInv'
    BY <2>3, CredKeeps DEF CreateJob, StartVerify, store
  <2>4. ASSUME NEW i \in DOMAIN req, \/ StoreSecret(i) \/ RotateExisting(i) \/ DeleteSecret(i)
                                     \/ WriteTarget(i) \/ RunChecks(i)
        PROVE  CredInv'
    BY <2>4, StoreSecretCred, RotateExistingCred, DeleteSecretCred, WriteTargetCred, RunChecksCred
  <2>5. ASSUME NEW w \in Runners, \/ PollJobs(w) \/ LoadTarget(w) \/ FetchSecret(w)
                                  \/ RunAmiAction(w) \/ SaveOutcome(w)
        PROVE  CredInv'
    BY <2>5, CredKeeps DEF PollJobs, LoadTarget, FetchSecret, RunAmiAction, SaveOutcome, store
  <2>6. CASE FleetStatus \/ StartRefresh \/ CloseModal \/ Crash
    BY <2>6, CredKeeps DEF FleetStatus, StartRefresh, CloseModal, Crash, store
  <2>7. ASSUME NEW r \in DOMAIN refresh, TaskRuns(r) \/ ReadTargets(r) \/ PollTargets(r)
        PROVE  CredInv'
    BY <2>7, CredKeeps DEF TaskRuns, ReadTargets, PollTargets, store
  <2>8. ASSUME NEW s \in DOMAIN stream, StreamStep(s) \/ StreamEnds(s)
        PROVE  CredInv'
    BY <2>8, CredKeeps DEF StreamStep, StreamEnds, store
  <2> QED BY <1>2, <2>1, <2>2, <2>3, <2>4, <2>5, <2>6, <2>7, <2>8 DEF Next
<1> QED BY <1>1, <1>2

LEMMA CredInit == Init => CredInv
<1> SUFFICES ASSUME Init PROVE CredInv
  OBVIOUS
<1>1. PICK old \in SUBSET Targets, name \in [Targets -> Names] :
          /\ IsInjectiveOn(name, old)
          /\ rows = [t \in Targets |->
                 IF t \in old THEN [ami |-> Alias(name[t], "ami"),
                                    ssh |-> Alias(name[t], "ssh"), active |-> TRUE]
                 ELSE None]
          /\ vault = [a \in Aliases |->
                 IF \E t \in old : name[t] = a[1] THEN CHOOSE t \in old : name[t] = a[1]
                 ELSE None]
          /\ users = {<<t, name[t]>> : t \in old}
  BY DEF Init
<1>2. req = <<>> /\ purged = {} /\ byHand = {}
  BY DEF Init
<1>3. ASSUME NEW a \in Aliases
      PROVE  \/ vault[a] = None /\ \A t \in old : name[t] # a[1]
             \/ vault[a] \in old /\ name[vault[a]] = a[1]
  BY <1>1
<1>4. ASSUME NEW t \in Targets, NEW k \in Kinds
      PROVE  Alias(name[t], k) \in Aliases /\ Alias(name[t], k)[1] = name[t]
  BY DEF Alias, Aliases
<1>5. rows \in [Targets -> Row \cup {None}]
  <2> SUFFICES ASSUME NEW t \in Targets PROVE rows[t] \in Row \cup {None}
    BY <1>1
  <2>1. Alias(name[t], "ami") \in Aliases /\ Alias(name[t], "ssh") \in Aliases
    BY <1>4 DEF Kinds
  <2> QED BY <1>1, <2>1 DEF Row
<1>6. vault \in [Aliases -> Targets \cup {None, "deleted"}]
  BY <1>1, <1>3
<1>7. StoreType
  BY <1>1, <1>2, <1>5, <1>6 DEF StoreType
<1>8. VaultInv
  <2> SUFFICES ASSUME NEW a \in Aliases
               PROVE  /\ vault[a] \in Targets => <<vault[a], a[1]>> \in users
                      /\ vault[a] # "deleted"
    BY DEF VaultInv
  <2>1. CASE vault[a] = None
    BY <2>1, PbxAssumption DEF VaultInv
  <2>2. CASE vault[a] \in old /\ name[vault[a]] = a[1]
    BY <1>1, <2>2, PbxAssumption DEF VaultInv
  <2> QED BY <1>3, <2>1, <2>2
<1>9. RowInv
  <2> SUFFICES ASSUME NEW t \in Targets, rows[t] # None PROVE vault[rows[t].ami] = t
    BY DEF RowInv
  <2>1. t \in old /\ rows[t].ami = Alias(name[t], "ami")
    BY <1>1
  <2>2. Alias(name[t], "ami") \in Aliases /\ Alias(name[t], "ami")[1] = name[t]
    BY <1>4 DEF Kinds
  <2>3. vault[Alias(name[t], "ami")] \in old /\ name[vault[Alias(name[t], "ami")]] = name[t]
    BY <1>3, <2>1, <2>2
  <2> QED BY <1>1, <2>1, <2>3 DEF IsInjectiveOn
<1>10. RequestInv
  BY <1>2, EmptySeq DEF RequestInv
<1> QED BY <1>7, <1>8, <1>9, <1>10 DEF CredInv

------------------------------------------------------------------------------
\* Reload jobs

\* A step that changes one job.
JobSet(j, row) ==
    /\ jobs' \in Seq(Job) /\ Len(jobs') = Len(jobs) /\ DOMAIN jobs' = DOMAIN jobs
    /\ jobs'[j] = row /\ \A k \in DOMAIN jobs : k # j => jobs'[k] = jobs[k]

LEMMA JobPut ==
    ASSUME WorkInv, NEW j \in DOMAIN jobs, NEW row \in Job, jobs' = [jobs EXCEPT ![j] = row]
    PROVE  JobSet(j, row)
<1>1. jobs \in Seq(Job)
  BY DEF WorkInv, JobType
<1> QED BY <1>1, ExceptSeq, LenProperties DEF JobSet

LEMMA JobAt ==
    ASSUME WorkInv, NEW j \in DOMAIN jobs
    PROVE  jobs[j] \in Job
BY ElementOfSeq, LenProperties DEF WorkInv, JobType

\* poll_jobs marks the job and gives it to the loop.
LEMMA PollSets ==
    ASSUME WorkInv, NEW w \in Runners, PollJobs(w)
    PROVE  \E j \in DOMAIN jobs, row \in Job :
             /\ jobs[j].status = "pending" /\ jobs[j].attempts = 0 /\ jobs[j].sent = 0
             /\ jobs' = [jobs EXCEPT ![j] = row]
             /\ row.status = "running" /\ row.attempts = 1 /\ row.sent = 0
             /\ runner' = [runner EXCEPT ![w] = [pc |-> "load", j |-> j]]
<1>1. PICK j \in DOMAIN jobs :
          /\ jobs[j].status = "pending"
          /\ jobs' = [jobs EXCEPT ![j].status = "running", ![j].attempts = @ + 1]
          /\ runner' = [runner EXCEPT ![w] = [pc |-> "load", j |-> j]]
  BY DEF PollJobs, Claimable
<1>2. jobs[j] \in Job /\ jobs[j].attempts = 0 /\ jobs[j].sent = 0
  BY <1>1, JobAt DEF WorkInv, JobInv
<1>3. PICK row : row = [jobs[j] EXCEPT !.status = "running", !.attempts = @ + 1]
  OBVIOUS
<1>4. row \in Job /\ row.status = "running" /\ row.attempts = 1 /\ row.sent = 0
  <2>1. PICK q : q = [jobs[j] EXCEPT !.status = "running"]
    OBVIOUS
  <2>2. q \in Job /\ q.status = "running" /\ q.attempts = 0 /\ q.sent = 0
    BY <1>2, <2>1 DEF Job
  <2>3. row = [q EXCEPT !.attempts = 1]
    <3>1. row = [q EXCEPT !.attempts = jobs[j].attempts + 1]
      BY <1>3, <2>1
    <3> QED BY <1>2, <3>1
  <2> QED BY <2>2, <2>3 DEF Job
<1>5. jobs' = [jobs EXCEPT ![j] = row]
  BY <1>1, <1>3
<1> QED BY <1>1, <1>2, <1>4, <1>5

\* A loop that is at a job.
LEMMA RunnerAt ==
    ASSUME WorkInv, NEW w \in Runners, runner[w].pc # "idle"
    PROVE  /\ runner[w].j \in DOMAIN jobs /\ runner[w].j \in Nat /\ jobs[runner[w].j] \in Job
           /\ jobs[runner[w].j].status = "running" /\ jobs[runner[w].j].attempts = 1
           /\ runner[w].pc # "save" => jobs[runner[w].j].sent = 0
           /\ runner[w].pc = "save" /\ runner[w].out = "succeeded" => jobs[runner[w].j].sent = 1
           /\ runner[w] \in RunnerState
<1>1. /\ runner[w].j \in DOMAIN jobs /\ jobs[runner[w].j].status = "running"
      /\ runner[w].pc # "save" => jobs[runner[w].j].sent = 0
      /\ runner[w].pc = "save" /\ runner[w].out = "succeeded" => jobs[runner[w].j].sent = 1
  BY DEF WorkInv, RunnerInv
<1>2. jobs[runner[w].j].attempts = 1 /\ jobs[runner[w].j] \in Job
  BY <1>1, JobAt DEF WorkInv, JobInv
<1>3. runner[w] \in RunnerState /\ runner[w].j \in Nat
  BY <1>1, LenProperties DEF WorkInv, JobType
<1> QED BY <1>1, <1>2, <1>3

\* A loop goes on with its job, or is done with it; the table may have learnt what
\* it did.
LEMMA RunnerMoves ==
    ASSUME WorkInv, NEW w \in Runners, runner[w].pc # "idle",
           NEW new \in RunnerState, runner' = [runner EXCEPT ![w] = new],
           UNCHANGED ops, NEW row \in Job, NEW j, j = runner[w].j,
           JobSet(j, row), row.attempts = 1,
           row.status \in {"running", "succeeded", "failed"},
           row.status = "succeeded" => row.sent = 1,
           new.pc # "idle" => /\ new.j = j /\ row.status = "running"
                              /\ new.pc # "save" => row.sent = 0
                              /\ new.pc = "save" /\ new.out = "succeeded" => row.sent = 1
    PROVE  WorkInv'
<1>1. j \in DOMAIN jobs
  BY RunnerAt
<1>2. /\ jobs' \in Seq(Job) /\ Len(jobs') = Len(jobs) /\ DOMAIN jobs' = DOMAIN jobs
      /\ jobs'[j] = row /\ \A k \in DOMAIN jobs : k # j => jobs'[k] = jobs[k]
  BY DEF JobSet
<1>3. runner \in [Runners -> RunnerState]
  BY DEF WorkInv, JobType
<1>4. runner'[w] = new /\ \A v \in Runners : v # w => runner'[v] = runner[v]
  BY <1>3
<1>5. JobType'
  BY <1>2, <1>3 DEF WorkInv, JobType
<1>6. JobInv'
  BY <1>2 DEF WorkInv, JobInv
<1>7. \A v \in Runners : v # w /\ runner[v].pc # "idle" => runner[v].j # j
  BY DEF WorkInv, RunnerInv
<1>8. RunnerInv'
  <2>1. ASSUME NEW v \in Runners, runner'[v].pc # "idle"
        PROVE  /\ runner'[v].j \in DOMAIN jobs' /\ jobs'[runner'[v].j].status = "running"
               /\ runner'[v].pc # "save" => jobs'[runner'[v].j].sent = 0
               /\ runner'[v].pc = "save" /\ runner'[v].out = "succeeded" => jobs'[runner'[v].j].sent = 1
    <3>1. CASE v = w
      BY <1>1, <1>2, <1>4, <2>1, <3>1
    <3>2. CASE v # w
      BY <1>2, <1>4, <1>7, <2>1, <3>2 DEF WorkInv, RunnerInv
    <3> QED BY <3>1, <3>2
  <2>2. ASSUME NEW u \in Runners, NEW v \in Runners, u # v, runner'[u].pc # "idle", runner'[v].pc # "idle"
        PROVE  runner'[u].j # runner'[v].j
    BY <1>4, <1>7, <2>2 DEF WorkInv, RunnerInv
  <2> QED BY <2>1, <2>2 DEF RunnerInv
<1> QED BY <1>5, <1>6, <1>8 DEF WorkInv

\* A loop that goes on without touching the table.
LEMMA RunnerGoesOn ==
    ASSUME WorkInv, NEW w \in Runners, runner[w].pc # "idle",
           NEW new \in RunnerState, runner' = [runner EXCEPT ![w] = new],
           UNCHANGED <<ops, jobs>>,
           new.pc # "idle" => /\ new.j = runner[w].j
                              /\ new.pc # "save" => jobs[runner[w].j].sent = 0
                              /\ new.pc = "save" /\ new.out = "succeeded" => jobs[runner[w].j].sent = 1
    PROVE  WorkInv'
<1>1. PICK j, row : j = runner[w].j /\ row = jobs[j]
  OBVIOUS
<1>2. j \in DOMAIN jobs /\ row \in Job /\ row.status = "running" /\ row.attempts = 1
  BY <1>1, RunnerAt
<1>3. JobSet(j, row)
  BY <1>1 DEF WorkInv, JobType, JobSet
<1>4. /\ row.status \in {"running", "succeeded", "failed"} /\ (row.status = "succeeded" => row.sent = 1)
      /\ new.pc # "idle" => /\ new.j = j /\ row.status = "running"
                            /\ new.pc # "save" => row.sent = 0
                            /\ new.pc = "save" /\ new.out = "succeeded" => row.sent = 1
  BY <1>1, <1>2
<1>5. UNCHANGED ops
  OBVIOUS
<1> QED BY <1>1, <1>2, <1>3, <1>4, <1>5, RunnerMoves

\* Steps that leave the jobs and the loops alone, but for the target a job is about.
LEMMA WorkKeeps ==
    ASSUME WorkInv, UNCHANGED runner, ops' \in 0..MaxOps, ops <= ops',
           jobs' \in Seq(Job), Len(jobs') = Len(jobs),
           \A j \in DOMAIN jobs : /\ jobs'[j].status = jobs[j].status
                                  /\ jobs'[j].attempts = jobs[j].attempts /\ jobs'[j].sent = jobs[j].sent
    PROVE  WorkInv'
<1>1. DOMAIN jobs' = DOMAIN jobs /\ Len(jobs) \in Nat
  BY LenProperties DEF WorkInv, JobType
<1>2. JobType'
  <2>1. Len(jobs) <= ops /\ ops \in Nat /\ ops' \in Nat /\ runner \in [Runners -> RunnerState]
    BY PbxAssumption DEF WorkInv, JobType
  <2> QED BY <1>1, <2>1 DEF JobType
<1>3. JobInv'
  BY <1>1 DEF WorkInv, JobInv
<1>4. RunnerInv'
  BY <1>1 DEF WorkInv, RunnerInv
<1> QED BY <1>2, <1>3, <1>4 DEF WorkInv

\* The jobs of a deleted target keep everything but the target.
LEMMA DropSets ==
    ASSUME WorkInv, NEW t, DropRow(t)
    PROVE  /\ jobs' \in Seq(Job) /\ Len(jobs') = Len(jobs) /\ DOMAIN jobs' = DOMAIN jobs
           /\ \A j \in DOMAIN jobs : /\ jobs'[j].status = jobs[j].status
                                     /\ jobs'[j].attempts = jobs[j].attempts /\ jobs'[j].sent = jobs[j].sent
<1>1. jobs \in Seq(Job) /\ DOMAIN jobs = 1..Len(jobs) /\ Len(jobs) \in Nat
  BY LenProperties DEF WorkInv, JobType
<1>2. ASSUME NEW j \in DOMAIN jobs
      PROVE  /\ jobs'[j] \in Job /\ jobs'[j].status = jobs[j].status
             /\ jobs'[j].attempts = jobs[j].attempts /\ jobs'[j].sent = jobs[j].sent
  <2>1. jobs[j] \in Job
    BY JobAt
  <2>2. PICK row : row = [jobs[j] EXCEPT !.t = None]
    OBVIOUS
  <2>3. row \in Job /\ row.status = jobs[j].status /\ row.attempts = jobs[j].attempts /\ row.sent = jobs[j].sent
    BY <2>1, <2>2 DEF Job
  <2>4. jobs'[j] = IF jobs[j].t = t THEN row ELSE jobs[j]
    BY <2>2 DEF DropRow
  <2> QED BY <2>1, <2>3, <2>4
<1>3. jobs' = [j \in 1..Len(jobs) |-> jobs'[j]]
  BY <1>1 DEF DropRow
<1>4. jobs' \in [1..Len(jobs) -> Job]
  BY <1>1, <1>2, <1>3
<1>5. jobs' \in Seq(Job) /\ DOMAIN jobs' = 1..Len(jobs)
  BY <1>1, <1>4, SeqDef
<1>6. Len(jobs') = Len(jobs)
  BY <1>1, <1>5, LenProperties
<1> QED BY <1>1, <1>2, <1>5, <1>6

LEMMA WorkStep ==
    ASSUME WorkInv, StoreType, [Next]_vars
    PROVE  WorkInv'
<1>0. ops \in 0..MaxOps /\ MaxOps \in Nat /\ jobs \in Seq(Job) /\ Len(jobs) \in Nat /\ Len(jobs) <= ops
      /\ DOMAIN jobs = 1..Len(jobs) /\ runner \in [Runners -> RunnerState]
  BY PbxAssumption, LenProperties DEF WorkInv, JobType
<1>1. CASE UNCHANGED <<jobs, runner, ops>>
  BY <1>0, <1>1, WorkKeeps
<1>2. ASSUME NEW n \in {0, 1, 2}, Count(n), UNCHANGED <<jobs, runner>>
      PROVE  WorkInv'
  <2>1. ops' \in 0..MaxOps /\ ops <= ops'
    BY <1>0, <1>2 DEF Count
  <2> QED BY <1>0, <1>2, <2>1, WorkKeeps
<1>3. ASSUME NEW t \in Targets, CreateJob(t)
      PROVE  WorkInv'
  <2>1. PICK row : row = [t |-> t, status |-> "pending", attempts |-> 0, sent |-> 0]
    OBVIOUS
  <2>2. jobs' = Append(jobs, row) /\ UNCHANGED runner /\ ops' = ops + 1 /\ ops + 1 <= MaxOps
    BY <1>3, <2>1 DEF CreateJob, Count
  <2>3. row \in Job /\ row.status = "pending" /\ row.attempts = 0 /\ row.sent = 0
    BY <2>1 DEF Job
  <2>4. /\ jobs' \in Seq(Job) /\ Len(jobs') = Len(jobs) + 1
        /\ \A k \in 1..Len(jobs) : jobs'[k] = jobs[k]
        /\ jobs'[Len(jobs) + 1] = row
    BY <1>0, <2>2, <2>3, AppendProperties
  <2>5. DOMAIN jobs' = 1..(Len(jobs) + 1)
    BY <2>4, LenProperties
  <2>6. JobType'
    BY <1>0, <2>2, <2>4 DEF JobType
  <2>7. ASSUME NEW k \in DOMAIN jobs' PROVE (k \in DOMAIN jobs /\ jobs'[k] = jobs[k]) \/ jobs'[k] = row
    BY <1>0, <2>4, <2>5
  <2>8. JobInv'
    BY <2>3, <2>7 DEF WorkInv, JobInv
  <2>9. \A k \in DOMAIN jobs : k \in DOMAIN jobs' /\ jobs'[k] = jobs[k]
    BY <1>0, <2>4, <2>5
  <2>10. RunnerInv'
    BY <2>2, <2>9 DEF WorkInv, RunnerInv
  <2> QED BY <2>6, <2>8, <2>10 DEF WorkInv
<1>4. ASSUME NEW w \in Runners, PollJobs(w)
      PROVE  WorkInv'
  <2>1. PICK j \in DOMAIN jobs, row \in Job :
             /\ jobs[j].status = "pending"
             /\ jobs' = [jobs EXCEPT ![j] = row]
             /\ row.status = "running" /\ row.attempts = 1 /\ row.sent = 0
             /\ runner' = [runner EXCEPT ![w] = [pc |-> "load", j |-> j]]
    BY <1>4, PollSets
  <2>2. /\ jobs' \in Seq(Job) /\ Len(jobs') = Len(jobs) /\ DOMAIN jobs' = DOMAIN jobs
        /\ jobs'[j] = row /\ \A k \in DOMAIN jobs : k # j => jobs'[k] = jobs[k]
    BY <2>1, JobPut DEF JobSet
  <2>3. UNCHANGED ops
    BY <1>4 DEF PollJobs
  <2>4. PICK new : new = [pc |-> "load", j |-> j]
    OBVIOUS
  <2>5. new \in RunnerState /\ new.pc = "load" /\ new.j = j
    BY <1>0, <2>4 DEF RunnerState
  <2>6. runner' = [runner EXCEPT ![w] = new]
    BY <2>1, <2>4
  <2>7. runner' \in [Runners -> RunnerState] /\ runner'[w] = new
        /\ \A v \in Runners : v # w => runner'[v] = runner[v]
    BY <1>0, <2>5, <2>6
  <2>8. JobType' /\ JobInv'
    BY <1>0, <2>1, <2>2, <2>3, <2>7 DEF WorkInv, JobType, JobInv
  <2>9. \A v \in Runners : runner[v].pc # "idle" => runner[v].j # j
    BY <2>1 DEF WorkInv, RunnerInv
  <2>10. RunnerInv'
    <3>1. ASSUME NEW v \in Runners, runner'[v].pc # "idle"
          PROVE  /\ runner'[v].j \in DOMAIN jobs' /\ jobs'[runner'[v].j].status = "running"
                 /\ runner'[v].pc # "save" => jobs'[runner'[v].j].sent = 0
                 /\ runner'[v].pc = "save" /\ runner'[v].out = "succeeded" => jobs'[runner'[v].j].sent = 1
      <4>1. CASE v = w
        BY <2>1, <2>2, <2>5, <2>7, <3>1, <4>1
      <4>2. CASE v # w
        BY <2>2, <2>7, <2>9, <3>1, <4>2 DEF WorkInv, RunnerInv
      <4> QED BY <4>1, <4>2
    <3>2. ASSUME NEW u \in Runners, NEW v \in Runners, u # v, runner'[u].pc # "idle", runner'[v].pc # "idle"
          PROVE  runner'[u].j # runner'[v].j
      BY <2>5, <2>7, <2>9, <3>2 DEF WorkInv, RunnerInv
    <3> QED BY <3>1, <3>2 DEF RunnerInv
  <2> QED BY <2>8, <2>10 DEF WorkInv
<1>5. ASSUME NEW w \in Runners, LoadTarget(w)
      PROVE  WorkInv'
  <2>1. PICK j, t : j = runner[w].j /\ t = jobs[j].t
    OBVIOUS
  <2>2. runner[w].pc = "load" /\ UNCHANGED <<ops, jobs>>
    BY <1>5 DEF LoadTarget
  <2>3. j \in Nat /\ jobs[j].sent = 0 /\ t \in Targets \cup {None}
    BY <2>1, <2>2, RunnerAt DEF Job
  <2>4. CASE Outcome(w, "failed")
    <3>1. PICK new : new = [pc |-> "save", j |-> j, out |-> "failed"]
      OBVIOUS
    <3>2. new \in RunnerState /\ new.pc = "save" /\ new.j = j /\ new.out = "failed"
      BY <2>3, <3>1 DEF RunnerState
    <3>3. runner' = [runner EXCEPT ![w] = new]
      BY <2>1, <2>4, <3>1 DEF Outcome
    <3> QED BY <2>1, <2>2, <3>2, <3>3, RunnerGoesOn
  <2>5. CASE t # None /\ rows[t] # None /\ runner' = [runner EXCEPT ![w] =
                   [pc |-> "secret", j |-> j, t |-> t, alias |-> rows[t].ami]]
    <3>1. PICK new : new = [pc |-> "secret", j |-> j, t |-> t, alias |-> rows[t].ami]
      OBVIOUS
    <3>2. t \in Targets /\ rows[t].ami \in Aliases
      BY <2>3, <2>5 DEF StoreType, Row
    <3>3. new \in RunnerState /\ new.pc = "secret" /\ new.j = j
      BY <2>3, <3>1, <3>2 DEF RunnerState
    <3>4. runner' = [runner EXCEPT ![w] = new]
      BY <2>5, <3>1
    <3> QED BY <2>1, <2>2, <2>3, <3>3, <3>4, RunnerGoesOn
  <2> QED BY <1>5, <2>1, <2>4, <2>5 DEF LoadTarget
<1>6. ASSUME NEW w \in Runners, FetchSecret(w)
      PROVE  WorkInv'
  <2>1. PICK j : j = runner[w].j
    OBVIOUS
  <2>2. runner[w].pc = "secret" /\ UNCHANGED <<ops, jobs>>
    BY <1>6 DEF FetchSecret
  <2>3. j \in Nat /\ jobs[j].sent = 0 /\ runner[w] \in RunnerState
    BY <2>1, <2>2, RunnerAt
  <2>4. CASE Outcome(w, "failed")
    <3>1. PICK new : new = [pc |-> "save", j |-> j, out |-> "failed"]
      OBVIOUS
    <3>2. new \in RunnerState /\ new.pc = "save" /\ new.j = j /\ new.out = "failed"
      BY <2>3, <3>1 DEF RunnerState
    <3>3. runner' = [runner EXCEPT ![w] = new]
      BY <2>1, <2>4, <3>1 DEF Outcome
    <3> QED BY <2>1, <2>2, <3>2, <3>3, RunnerGoesOn
  <2>5. CASE Live(runner[w].alias) /\ runner' = [runner EXCEPT ![w] =
                 [pc |-> "ami", j |-> runner[w].j, t |-> runner[w].t, cred |-> vault[runner[w].alias]]]
    <3>1. PICK new : new = [pc |-> "ami", j |-> runner[w].j, t |-> runner[w].t, cred |-> vault[runner[w].alias]]
      OBVIOUS
    <3>2. runner[w].t \in Targets
      BY <2>2, <2>3 DEF RunnerState
    <3>3. new \in RunnerState /\ new.pc = "ami" /\ new.j = j
      BY <2>1, <2>3, <2>5, <3>1, <3>2 DEF RunnerState, Live
    <3>4. runner' = [runner EXCEPT ![w] = new]
      BY <2>5, <3>1
    <3> QED BY <2>1, <2>2, <2>3, <3>3, <3>4, RunnerGoesOn
  <2> QED BY <1>6, <2>4, <2>5 DEF FetchSecret
<1>7. ASSUME NEW w \in Runners, RunAmiAction(w)
      PROVE  WorkInv'
  <2>1. PICK j : j = runner[w].j
    OBVIOUS
  <2>2. runner[w].pc = "ami" /\ UNCHANGED ops
    BY <1>7 DEF RunAmiAction
  <2>3. j \in Nat /\ jobs[j] \in Job /\ jobs[j].sent = 0 /\ jobs[j].attempts = 1 /\ jobs[j].status = "running"
    BY <2>1, <2>2, RunnerAt
  <2>4. PICK o \in {"succeeded", "failed"} :
          /\ Outcome(w, o)
          /\ \/ jobs' = [jobs EXCEPT ![j].sent = @ + 1]
             \/ o = "failed" /\ UNCHANGED jobs
    BY <1>7, <2>1 DEF RunAmiAction
  <2>5. PICK new : new = [pc |-> "save", j |-> j, out |-> o]
    OBVIOUS
  <2>6. new \in RunnerState /\ new.pc = "save" /\ new.j = j /\ new.out = o
    BY <2>3, <2>5 DEF RunnerState
  <2>7. runner' = [runner EXCEPT ![w] = new]
    BY <2>1, <2>4, <2>5 DEF Outcome
  <2>8. CASE o = "failed" /\ UNCHANGED jobs
    BY <2>1, <2>2, <2>6, <2>7, <2>8, RunnerGoesOn
  <2>9. CASE jobs' = [jobs EXCEPT ![j].sent = @ + 1]
    <3>1. PICK row : row = [jobs[j] EXCEPT !.sent = @ + 1]
      OBVIOUS
    <3>2. row \in Job /\ row.status = "running" /\ row.attempts = 1 /\ row.sent = 1
      BY <2>3, <3>1 DEF Job
    <3>3. JobSet(j, row)
      <4>1. jobs' = [jobs EXCEPT ![j] = row]
        BY <2>9, <3>1
      <4> QED BY <2>1, <2>2, <3>2, <4>1, JobPut, RunnerAt
    <3> QED BY <2>1, <2>2, <2>6, <2>7, <3>2, <3>3, RunnerMoves
  <2> QED BY <2>4, <2>8, <2>9
<1>8. ASSUME NEW w \in Runners, SaveOutcome(w)
      PROVE  WorkInv'
  <2>1. PICK j, new : j = runner[w].j /\ new = Idle
    OBVIOUS
  <2>2. runner[w].pc = "save" /\ UNCHANGED ops /\ runner' = [runner EXCEPT ![w] = new]
    BY <1>8, <2>1 DEF SaveOutcome
  <2>3. /\ j \in Nat /\ jobs[j] \in Job /\ jobs[j].attempts = 1 /\ runner[w] \in RunnerState
        /\ runner[w].out = "succeeded" => jobs[j].sent = 1
    BY <2>1, <2>2, RunnerAt
  <2>4. new \in RunnerState /\ new.pc = "idle" /\ runner[w].out \in {"succeeded", "failed"}
    BY <2>1, <2>2, <2>3 DEF Idle, RunnerState
  <2>5. CASE UNCHANGED jobs
    BY <2>1, <2>2, <2>4, <2>5, RunnerGoesOn
  <2>6. CASE jobs' = [jobs EXCEPT ![j].status = runner[w].out]
    <3>1. PICK row : row = [jobs[j] EXCEPT !.status = runner[w].out]
      OBVIOUS
    <3>2. row \in Job /\ row.status = runner[w].out /\ row.attempts = 1 /\ row.sent = jobs[j].sent
      BY <2>3, <2>4, <3>1 DEF Job
    <3>3. JobSet(j, row)
      <4>1. jobs' = [jobs EXCEPT ![j] = row]
        BY <2>6, <3>1
      <4> QED BY <2>1, <2>2, <3>2, <4>1, JobPut, RunnerAt
    <3> QED BY <2>1, <2>2, <2>3, <2>4, <3>2, <3>3, RunnerMoves
  <2> QED BY <1>8, <2>1, <2>5, <2>6 DEF SaveOutcome
<1>9. ASSUME NEW i \in DOMAIN req, WriteTarget(i)
      PROVE  WorkInv'
  <2>1. UNCHANGED <<runner, ops>>
    BY <1>9 DEF WriteTarget
  <2>2. CASE UNCHANGED jobs
    BY <1>1, <2>1, <2>2
  <2>3. CASE \E t : DropRow(t)
    <3>1. /\ jobs' \in Seq(Job) /\ Len(jobs') = Len(jobs)
          /\ \A j \in DOMAIN jobs : /\ jobs'[j].status = jobs[j].status
                                    /\ jobs'[j].attempts = jobs[j].attempts /\ jobs'[j].sent = jobs[j].sent
      BY <2>3, DropSets
    <3> QED BY <1>0, <2>1, <3>1, WorkKeeps
  <2> QED BY <1>9, <2>2, <2>3 DEF WriteTarget
<1>10. CASE Crash
  <2>1. UNCHANGED jobs /\ ops' = ops + 1 /\ ops + 1 <= MaxOps /\ runner' = [w \in Runners |-> Idle]
    BY <1>10 DEF Crash, Count
  <2>2. Idle \in RunnerState /\ Idle.pc = "idle"
    BY DEF Idle, RunnerState
  <2>3. runner' \in [Runners -> RunnerState] /\ \A w \in Runners : runner'[w].pc = "idle"
    BY <2>1, <2>2
  <2>4. JobType'
    BY <1>0, <2>1, <2>3 DEF JobType
  <2> QED BY <2>1, <2>3, <2>4 DEF WorkInv, JobInv, RunnerInv
<1>11. CASE FleetStatus
  <2>1. PICK n : Count(n) /\ n \in {0, 1, 2}
    <3> DEFINE task == IF flag THEN <<>> ELSE <<NewRefresh("new")>>
               own == IF cache = None THEN <<NewRefresh("read")>> ELSE <<>>
    <3>1. Count(Len(task \o own))
      BY <1>11 DEF FleetStatus
    <3>2. Len(task \o own) \in {0, 1, 2}
      OBVIOUS
    <3> QED BY <3>1, <3>2
  <2> QED BY <1>2, <1>11, <2>1 DEF FleetStatus
<1>12. CASE UNCHANGED vars
  BY <1>1, <1>12 DEF vars
<1>13. ASSUME NEW t \in Targets, NEW n \in Names, NEW ks \in SUBSET Kinds,
              Register(t, n, ks) \/ EditTarget(t, n, ks)
       PROVE  WorkInv'
  BY <1>2, <1>13 DEF Register, EditTarget, Ask
<1>14. ASSUME NEW t \in Targets, DeleteTarget(t) \/ PlainWrite(t) \/ StartVerify(t)
       PROVE  WorkInv'
  BY <1>2, <1>14 DEF DeleteTarget, PlainWrite, StartVerify, Ask
<1>15. ASSUME NEW i \in DOMAIN req, StoreSecret(i) \/ RotateExisting(i) \/ DeleteSecret(i) \/ RunChecks(i)
       PROVE  WorkInv'
  BY <1>1, <1>15 DEF StoreSecret, RotateExisting, DeleteSecret, RunChecks
<1>16. CASE StartRefresh
  BY <1>2, <1>16 DEF StartRefresh
<1>17. ASSUME NEW r \in DOMAIN refresh, TaskRuns(r) \/ ReadTargets(r) \/ PollTargets(r)
       PROVE  WorkInv'
  BY <1>1, <1>17 DEF TaskRuns, ReadTargets, PollTargets
<1>18. CASE CloseModal \/ \E s \in DOMAIN stream : StreamStep(s) \/ StreamEnds(s)
  BY <1>1, <1>18 DEF StreamStep, StreamEnds, CloseModal
<1> QED
  BY <1>3, <1>4, <1>5, <1>6, <1>7, <1>8, <1>9, <1>10, <1>11, <1>12, <1>13, <1>14, <1>15, <1>16, <1>17, <1>18
  DEF Next

LEMMA WorkInit == Init => WorkInv
<1> SUFFICES ASSUME Init PROVE WorkInv
  OBVIOUS
<1>1. jobs = <<>> /\ jobs \in Seq(Job) /\ Len(jobs) = 0 /\ DOMAIN jobs = {} /\ ops = 0
      /\ runner = [w \in Runners |-> Idle]
  BY EmptySeq DEF Init
<1>2. Idle \in RunnerState /\ Idle.pc = "idle"
  BY DEF Idle, RunnerState
<1> QED BY <1>1, <1>2, PbxAssumption DEF WorkInv, JobType, JobInv, RunnerInv

LEMMA StoreTyped == CredInv => StoreType
BY DEF CredInv

\* What the agent knows of its jobs and of its credentials holds in every state.
THEOREM PbxWork == Spec => [](WorkInv /\ CredInv)
<1>1. Init => WorkInv /\ CredInv
  BY WorkInit, CredInit
<1>2. WorkInv /\ CredInv /\ [Next]_vars => WorkInv' /\ CredInv'
  BY WorkStep, CredStep, StoreTyped
<1> QED BY <1>1, <1>2, PTL DEF Spec

\* What the ledger sees of a row of pbx_jobs.
RecordOfRow(row) == [status |-> row.status, tries |-> row.attempts, acts |-> row.sent]

LEMMA RecordOf ==
    /\ DOMAIN Records = JobIds /\ DOMAIN Records' = JobIds
    /\ \A k \in JobIds : Records[k] = IF k \in DOMAIN jobs THEN RecordOfRow(jobs[k]) ELSE NoJob
    /\ \A k \in JobIds : Records'[k] = IF k \in DOMAIN jobs' THEN RecordOfRow(jobs'[k]) ELSE NoJob
BY DEF Records, RecordOfRow

LEMMA RecordChange ==
    ASSUME NEW j \in JobIds, NEW q, Records'[j] = q,
           \A k \in JobIds : k # j => Records'[k] = Records[k]
    PROVE  Records' = [Records EXCEPT ![j] = q]
<1>1. \A k \in JobIds : Records'[k] = IF k = j THEN q ELSE Records[k]
  OBVIOUS
<1>2. Records' = [k \in JobIds |-> Records'[k]] /\ DOMAIN Records = JobIds
  BY RecordOf DEF Records
<1> QED BY <1>1, <1>2

\* A step that changes one job changes its record only.
LEMMA RecordSet ==
    ASSUME WorkInv, NEW j \in DOMAIN jobs, NEW row \in Job, JobSet(j, row)
    PROVE  /\ j \in JobIds /\ Records[j] = RecordOfRow(jobs[j])
           /\ Records' = [Records EXCEPT ![j] = RecordOfRow(row)]
<1>1. j \in JobIds
  <2>1. DOMAIN jobs = 1..Len(jobs) /\ Len(jobs) \in Nat /\ Len(jobs) <= ops /\ ops \in 0..MaxOps /\ MaxOps \in Nat
    BY LenProperties, PbxAssumption DEF WorkInv, JobType
  <2> QED BY <2>1 DEF JobIds
<1>2. Records[j] = RecordOfRow(jobs[j]) /\ Records'[j] = RecordOfRow(row)
  BY <1>1, RecordOf DEF JobSet
<1>3. \A k \in JobIds : k # j => Records'[k] = Records[k]
  BY RecordOf DEF JobSet
<1> QED BY <1>1, <1>2, <1>3, RecordChange

LEMMA LedgerStep ==
    ASSUME WorkInv, [Next]_vars
    PROVE  [Ledger!Next]_Records
<1>0. CASE UNCHANGED jobs
  BY <1>0 DEF Records
<1>1. ASSUME NEW t \in Targets, CreateJob(t)
      PROVE  \E j \in JobIds : Ledger!Submit(j)
  <2>1. PICK row : row = [t |-> t, status |-> "pending", attempts |-> 0, sent |-> 0]
    OBVIOUS
  <2>2. jobs' = Append(jobs, row) /\ ops + 1 <= MaxOps
    BY <1>1, <2>1 DEF CreateJob, Count
  <2>3. RecordOfRow(row) = [status |-> "pending", tries |-> 0, acts |-> 0] /\ row \in Job
    BY <1>1, <2>1 DEF RecordOfRow, Job
  <2>4. jobs \in Seq(Job) /\ Len(jobs) \in Nat /\ Len(jobs) <= ops /\ ops \in 0..MaxOps /\ MaxOps \in Nat
        /\ DOMAIN jobs = 1..Len(jobs)
    BY LenProperties, PbxAssumption DEF WorkInv, JobType
  <2>5. PICK j : j = Len(jobs) + 1
    OBVIOUS
  <2>6. /\ Append(jobs, row) \in Seq(Job) /\ Len(Append(jobs, row)) = Len(jobs) + 1
        /\ \A k \in 1..Len(jobs) : Append(jobs, row)[k] = jobs[k]
        /\ Append(jobs, row)[Len(jobs) + 1] = row
    BY <2>3, <2>4, AppendProperties
  <2>7. DOMAIN jobs' = 1..j /\ jobs'[j] = row /\ \A k \in DOMAIN jobs : jobs'[k] = jobs[k]
    BY <2>2, <2>4, <2>5, <2>6, LenProperties
  <2>8. j \in JobIds /\ j \notin DOMAIN jobs /\ j \in DOMAIN jobs'
        /\ \A k \in JobIds : k # j => (k \in DOMAIN jobs <=> k \in DOMAIN jobs')
    BY <2>2, <2>4, <2>5, <2>7 DEF JobIds
  <2>9. Records[j] = NoJob /\ Records'[j] = [status |-> "pending", tries |-> 0, acts |-> 0]
        /\ \A k \in JobIds : k # j => Records'[k] = Records[k]
    BY <2>3, <2>7, <2>8, RecordOf
  <2>10. Records' = [Records EXCEPT ![j] = [status |-> "pending", tries |-> 0, acts |-> 0]]
    BY <2>8, <2>9, RecordChange
  <2>11. [Records[j] EXCEPT !.status = "pending"] = [status |-> "pending", tries |-> 0, acts |-> 0]
    BY <2>9 DEF NoJob
  <2>12. Records' = [Records EXCEPT ![j].status = "pending"]
    BY <2>10, <2>11
  <2>13. Records[j].status = "absent"
    BY <2>9 DEF NoJob
  <2> QED BY <2>8, <2>12, <2>13 DEF Ledger!Submit, Ledger!Says
<1>2. ASSUME NEW w \in Runners, PollJobs(w)
      PROVE  \E j \in JobIds : Ledger!Take(j)
  <2>1. PICK j \in DOMAIN jobs, row \in Job :
             /\ jobs[j].status = "pending" /\ jobs[j].attempts = 0 /\ jobs[j].sent = 0
             /\ jobs' = [jobs EXCEPT ![j] = row]
             /\ row.status = "running" /\ row.attempts = 1 /\ row.sent = 0
    BY <1>2, PollSets
  <2>2. /\ j \in JobIds /\ Records[j] = RecordOfRow(jobs[j])
        /\ Records' = [Records EXCEPT ![j] = RecordOfRow(row)]
    BY <2>1, JobPut, RecordSet
  <2>3. Records[j] = [status |-> "pending", tries |-> 0, acts |-> 0]
        /\ RecordOfRow(row) = [status |-> "running", tries |-> 1, acts |-> 0]
    BY <2>1, <2>2 DEF RecordOfRow
  <2>4. [Records[j] EXCEPT !.status = "running", !.tries = @ + 1] = [status |-> "running", tries |-> 1, acts |-> 0]
    <3>1. PICK q, p : p = Records[j] /\ q = [p EXCEPT !.status = "running"]
      OBVIOUS
    <3>2. q = [status |-> "running", tries |-> 0, acts |-> 0]
      BY <2>3, <3>1
    <3>3. [q EXCEPT !.tries = p.tries + 1] = [status |-> "running", tries |-> 1, acts |-> 0]
      <4>1. p.tries + 1 = 1
        BY <2>3, <3>1
      <4> QED BY <3>2, <4>1
    <3> QED BY <3>1, <3>3
  <2>5. Records' = [Records EXCEPT ![j].status = "running", ![j].tries = @ + 1]
    BY <2>2, <2>3, <2>4
  <2>6. Records[j].status = "pending" /\ Records[j].tries < 1
    BY <2>3
  <2> QED BY <2>2, <2>5, <2>6 DEF Ledger!Take
<1>3. ASSUME NEW w \in Runners, RunAmiAction(w), jobs' # jobs
      PROVE  \E j \in JobIds : Ledger!Act(j)
  <2>1. PICK j : j = runner[w].j
    OBVIOUS
  <2>2. runner[w].pc = "ami" /\ jobs' = [jobs EXCEPT ![j].sent = @ + 1]
    BY <1>3, <2>1 DEF RunAmiAction
  <2>3. /\ j \in DOMAIN jobs /\ jobs[j] \in Job /\ jobs[j].sent = 0 /\ jobs[j].attempts = 1
        /\ jobs[j].status = "running"
    BY <2>1, <2>2, RunnerAt
  <2>4. PICK row : row = [jobs[j] EXCEPT !.sent = @ + 1]
    OBVIOUS
  <2>5. row \in Job /\ row.status = "running" /\ row.attempts = 1 /\ row.sent = 1
    BY <2>3, <2>4 DEF Job
  <2>6. jobs' = [jobs EXCEPT ![j] = row]
    BY <2>2, <2>4
  <2>7. /\ j \in JobIds /\ Records[j] = RecordOfRow(jobs[j])
        /\ Records' = [Records EXCEPT ![j] = RecordOfRow(row)]
    BY <2>3, <2>5, <2>6, JobPut, RecordSet
  <2>8. Records[j] = [status |-> "running", tries |-> 1, acts |-> 0]
        /\ RecordOfRow(row) = [status |-> "running", tries |-> 1, acts |-> 1]
    BY <2>3, <2>5, <2>7 DEF RecordOfRow
  <2>9. [Records[j] EXCEPT !.acts = @ + 1] = [status |-> "running", tries |-> 1, acts |-> 1]
    BY <2>8
  <2>10. Records' = [Records EXCEPT ![j].acts = @ + 1]
    BY <2>7, <2>8, <2>9
  <2>11. Records[j].status = "running" /\ Records[j].acts < Records[j].tries
    BY <2>8
  <2> QED BY <2>7, <2>10, <2>11 DEF Ledger!Act
<1>4. ASSUME NEW w \in Runners, SaveOutcome(w), jobs' # jobs
      PROVE  \E j \in JobIds : Ledger!Succeed(j) \/ Ledger!Fail(j)
  <2>1. PICK j, o : j = runner[w].j /\ o = runner[w].out
    OBVIOUS
  <2>2. runner[w].pc = "save" /\ jobs' = [jobs EXCEPT ![j].status = o]
    BY <1>4, <2>1 DEF SaveOutcome
  <2>3. /\ j \in DOMAIN jobs /\ jobs[j] \in Job /\ jobs[j].attempts = 1 /\ jobs[j].status = "running"
        /\ o \in {"succeeded", "failed"} /\ (o = "succeeded" => jobs[j].sent = 1)
    BY <2>1, <2>2, RunnerAt DEF RunnerState
  <2>4. PICK row : row = [jobs[j] EXCEPT !.status = o]
    OBVIOUS
  <2>5. row \in Job /\ row.status = o /\ row.attempts = 1 /\ row.sent = jobs[j].sent
    BY <2>3, <2>4 DEF Job
  <2>6. jobs' = [jobs EXCEPT ![j] = row]
    BY <2>2, <2>4
  <2>7. /\ j \in JobIds /\ Records[j] = RecordOfRow(jobs[j])
        /\ Records' = [Records EXCEPT ![j] = RecordOfRow(row)]
    BY <2>3, <2>5, <2>6, JobPut, RecordSet
  <2>8. Records[j] = [status |-> "running", tries |-> 1, acts |-> jobs[j].sent]
        /\ RecordOfRow(row) = [status |-> o, tries |-> 1, acts |-> jobs[j].sent]
    BY <2>3, <2>5, <2>7 DEF RecordOfRow
  <2>9. [Records[j] EXCEPT !.status = o] = [status |-> o, tries |-> 1, acts |-> jobs[j].sent]
    BY <2>8
  <2>10. Records' = [Records EXCEPT ![j].status = o]
    BY <2>7, <2>8, <2>9
  <2>11. Records[j].status = "running" /\ Records[j].tries = 1 /\ Records[j].acts = jobs[j].sent
    BY <2>8
  <2>12. CASE o = "succeeded"
    <3>1. Records[j].acts > 0
      BY <2>3, <2>11, <2>12
    <3> QED BY <2>7, <2>10, <2>11, <2>12, <3>1 DEF Ledger!Succeed, Ledger!Says
  <2>13. CASE o = "failed"
    BY <2>7, <2>10, <2>11, <2>13 DEF Ledger!Fail, Ledger!Says
  <2> QED BY <2>3, <2>12, <2>13
<1>5. ASSUME NEW i \in DOMAIN req, WriteTarget(i)
      PROVE  UNCHANGED Records
  <2>1. CASE UNCHANGED jobs
    BY <2>1 DEF Records
  <2>2. CASE \E t : DropRow(t)
    <3>1. /\ DOMAIN jobs' = DOMAIN jobs
          /\ \A j \in DOMAIN jobs : /\ jobs'[j].status = jobs[j].status
                                    /\ jobs'[j].attempts = jobs[j].attempts /\ jobs'[j].sent = jobs[j].sent
      BY <2>2, DropSets
    <3> QED BY <3>1 DEF Records
  <2> QED BY <1>5, <2>1, <2>2 DEF WriteTarget
<1>6. CASE UNCHANGED vars
  BY <1>0, <1>6 DEF vars
<1>7. ASSUME NEW t \in Targets, NEW n \in Names, NEW ks \in SUBSET Kinds,
             Register(t, n, ks) \/ EditTarget(t, n, ks)
      PROVE  UNCHANGED jobs
  BY <1>7 DEF Register, EditTarget
<1>8. ASSUME NEW t \in Targets, DeleteTarget(t) \/ PlainWrite(t) \/ StartVerify(t)
      PROVE  UNCHANGED jobs
  BY <1>8 DEF DeleteTarget, PlainWrite, StartVerify
<1>9. ASSUME NEW i \in DOMAIN req, StoreSecret(i) \/ RotateExisting(i) \/ DeleteSecret(i) \/ RunChecks(i)
      PROVE  UNCHANGED jobs
  BY <1>9 DEF StoreSecret, RotateExisting, DeleteSecret, RunChecks
<1>10. ASSUME NEW w \in Runners, LoadTarget(w) \/ FetchSecret(w)
       PROVE  UNCHANGED jobs
  BY <1>10 DEF LoadTarget, FetchSecret
<1>11. ASSUME NEW r \in DOMAIN refresh, TaskRuns(r) \/ ReadTargets(r) \/ PollTargets(r)
       PROVE  UNCHANGED jobs
  BY <1>11 DEF TaskRuns, ReadTargets, PollTargets
<1>12. CASE \/ FleetStatus \/ StartRefresh \/ CloseModal \/ Crash
            \/ \E s \in DOMAIN stream : StreamStep(s) \/ StreamEnds(s)
  BY <1>0, <1>12 DEF FleetStatus, StartRefresh, CloseModal, Crash, StreamStep, StreamEnds
<1>13. ASSUME NEW w \in Runners, RunAmiAction(w) \/ SaveOutcome(w)
       PROVE  UNCHANGED jobs \/ Ledger!Next
  BY <1>3, <1>4, <1>13 DEF Ledger!Next
<1>14. CASE \E t \in Targets : CreateJob(t)
  BY <1>1, <1>14 DEF Ledger!Next
<1>15. CASE \E w \in Runners : PollJobs(w)
  BY <1>2, <1>15 DEF Ledger!Next
<1> QED
  BY <1>0, <1>5, <1>6, <1>7, <1>8, <1>9, <1>10, <1>11, <1>12, <1>13, <1>14, <1>15 DEF Next

\* The reload jobs of pbx_jobs are done as JobLedger promises with a single try
\* (jobs/runner.py): each is sent to the PBX at most once, by one of any number of
\* worker loops, and is recorded as succeeded only if it was sent.
THEOREM PbxJobsKeepLedger == Spec => JobsKeepLedger
<1>1. Init => Ledger!Init
  <2> SUFFICES ASSUME Init PROVE Ledger!Init
    OBVIOUS
  <2>1. DOMAIN jobs = {}
    BY EmptySeq DEF Init
  <2> QED BY <2>1 DEF Ledger!Init, Records, NoJob
<1>2. WorkInv /\ [Next]_vars => [Ledger!Next]_Records
  BY LedgerStep
<1> QED BY <1>1, <1>2, PbxWork, PTL DEF Spec, JobsKeepLedger, Ledger!Spec

------------------------------------------------------------------------------
\* The fleet page and the dialog

\* A step that touches neither keeps what is known of them.
LEMMA ViewKeeps ==
    ASSUME ViewInv, UNCHANGED <<flag, refresh, stream, modal, crossed>>
    PROVE  ViewInv'
BY DEF ViewInv, ViewType, FlagHasRefresh, Running, DialogInv

LEMMA ViewInit == Init => ViewInv
<1> SUFFICES ASSUME Init PROVE ViewInv
  OBVIOUS
<1>2. modal \in Modal /\ refresh \in Seq(Refresh) /\ stream \in Seq(Stream)
  BY EmptySeq DEF Init, Modal
<1>3. FlagHasRefresh /\ DialogInv
  BY DEF Init, FlagHasRefresh, DialogInv
<1> QED BY <1>2, <1>3 DEF Init, ViewInv, ViewType

\* Refreshes that are running go on running when others join them.
LEMMA Joined ==
    ASSUME ViewInv, NEW more \in Seq(Refresh), refresh' = refresh \o more
    PROVE  /\ refresh' \in Seq(Refresh)
           /\ (\E r \in DOMAIN refresh : Running(r)) => (\E r \in DOMAIN refresh : Running(r))'
           /\ (\E r \in DOMAIN more : more[r].pc \in {"read", "poll"})
                  => (\E r \in DOMAIN refresh : Running(r))'
<1>1. refresh \in Seq(Refresh) /\ Len(refresh) \in Nat /\ DOMAIN refresh = 1..Len(refresh)
      /\ Len(more) \in Nat /\ DOMAIN more = 1..Len(more)
  BY LenProperties DEF ViewInv, ViewType
<1>2. /\ refresh' \in Seq(Refresh) /\ DOMAIN refresh' = 1..(Len(refresh) + Len(more))
      /\ \A r \in 1..(Len(refresh) + Len(more)) :
           refresh'[r] = IF r <= Len(refresh) THEN refresh[r] ELSE more[r - Len(refresh)]
  BY <1>1, ConcatProperties, LenProperties
<1>3. ASSUME NEW r \in DOMAIN refresh, Running(r)
      PROVE  (\E q \in DOMAIN refresh : Running(q))'
  <2>1. r \in DOMAIN refresh' /\ refresh'[r] = refresh[r]
    BY <1>1, <1>2
  <2> QED BY <1>3, <2>1 DEF Running
<1>4. ASSUME NEW r \in DOMAIN more, more[r].pc \in {"read", "poll"}
      PROVE  (\E q \in DOMAIN refresh : Running(q))'
  <2>1. Len(refresh) + r \in DOMAIN refresh' /\ refresh'[Len(refresh) + r] = more[r]
    BY <1>1, <1>2
  <2> QED BY <1>4, <2>1 DEF Running
<1> QED BY <1>2, <1>3, <1>4

LEMMA NewRefreshType ==
    ASSUME NEW pc \in {"new", "read", "poll"}
    PROVE  NewRefresh(pc) \in Refresh /\ NewRefresh(pc).pc = pc
<1>1. <<>> \in [{} -> Row]
  OBVIOUS
<1>2. <<>> \in Nodes
  BY <1>1 DEF Nodes
<1> QED BY <1>2 DEF NewRefresh, Refresh

\* A step of the fleet page only.
LEMMA FleetOnly ==
    ASSUME ViewInv, UNCHANGED page, refresh' \in Seq(Refresh), flag' \in BOOLEAN, FlagHasRefresh'
    PROVE  ViewInv'
BY DEF ViewInv, ViewType, DialogInv, page

LEMMA RefreshAt ==
    ASSUME ViewInv, NEW r \in DOMAIN refresh, NEW new \in Refresh, refresh' = [refresh EXCEPT ![r] = new],
           new.pc \in {"read", "poll"}
    PROVE  refresh' \in Seq(Refresh) /\ FlagHasRefresh'
<1>1. refresh \in Seq(Refresh)
  BY DEF ViewInv, ViewType
<1>2. refresh' \in Seq(Refresh) /\ DOMAIN refresh' = DOMAIN refresh /\ refresh'[r] = new
  BY <1>1, ExceptSeq, LenProperties
<1> QED BY <1>2 DEF FlagHasRefresh, Running

LEMMA FleetStep ==
    ASSUME ViewInv, StoreType,
           FleetStatus \/ StartRefresh \/ \E r \in DOMAIN refresh : TaskRuns(r) \/ ReadTargets(r) \/ PollTargets(r)
    PROVE  ViewInv'
<1>0. refresh \in Seq(Refresh) /\ flag \in BOOLEAN /\ FlagHasRefresh
  BY DEF ViewInv, ViewType
<1>1. CASE FleetStatus
  <2> DEFINE task == IF flag THEN <<>> ELSE <<NewRefresh("new")>>
             own == IF cache = None THEN <<NewRefresh("read")>> ELSE <<>>
             more == task \o own
  <2>1. refresh' = refresh \o more /\ flag' = (flag \/ own # <<>>) /\ UNCHANGED page
    BY <1>1 DEF FleetStatus
  <2>2. NewRefresh("new") \in Refresh /\ NewRefresh("read") \in Refresh /\ NewRefresh("read").pc = "read"
    BY NewRefreshType
  <2>3. task \in Seq(Refresh) /\ own \in Seq(Refresh)
    BY <2>2
  <2>4. own # <<>> => Len(own) = 1 /\ own[1].pc = "read"
    BY <2>2
  <2> HIDE DEF task, own
  <2>5. more \in Seq(Refresh) /\ Len(more) = Len(task) + Len(own) /\ DOMAIN more = 1..(Len(task) + Len(own))
        /\ \A k \in 1..(Len(task) + Len(own)) : more[k] = IF k <= Len(task) THEN task[k] ELSE own[k - Len(task)]
    BY <2>3, ConcatProperties, LenProperties
  <2>6. own # <<>> => \E k \in DOMAIN more : more[k].pc \in {"read", "poll"}
    <3> SUFFICES ASSUME own # <<>> PROVE \E k \in DOMAIN more : more[k].pc \in {"read", "poll"}
      OBVIOUS
    <3>1. Len(task) \in Nat /\ Len(own) = 1
      BY <2>3, <2>4, LenProperties
    <3>2. Len(task) + 1 \in 1..(Len(task) + Len(own)) /\ ~(Len(task) + 1 <= Len(task)) /\ (Len(task) + 1) - Len(task) = 1
      BY <3>1
    <3>3. more[Len(task) + 1] = own[1]
      BY <2>5, <3>2
    <3> QED BY <2>4, <2>5, <3>2, <3>3
  <2> HIDE DEF more
  <2>7. /\ refresh' \in Seq(Refresh)
        /\ (\E r \in DOMAIN refresh : Running(r)) => (\E r \in DOMAIN refresh : Running(r))'
        /\ (\E r \in DOMAIN more : more[r].pc \in {"read", "poll"})
                  => (\E r \in DOMAIN refresh : Running(r))'
    BY <2>1, <2>5, Joined
  <2>8. FlagHasRefresh'
    BY <1>0, <2>1, <2>6, <2>7 DEF FlagHasRefresh
  <2>9. flag' \in BOOLEAN
    BY <2>1, <1>0
  <2> QED BY <2>1, <2>7, <2>8, <2>9, FleetOnly
<1>2. CASE StartRefresh
  <2>1. PICK new : new = NewRefresh("read")
    OBVIOUS
  <2>2. new \in Refresh /\ new.pc = "read"
    BY <2>1, NewRefreshType
  <2>3. refresh' = Append(refresh, new) /\ flag' = TRUE /\ UNCHANGED page
    BY <1>2, <2>1 DEF StartRefresh
  <2>4. refresh' \in Seq(Refresh) /\ Len(refresh) + 1 \in DOMAIN refresh' /\ refresh'[Len(refresh) + 1] = new
    BY <1>0, <2>2, <2>3, AppendProperties, LenProperties
  <2>5. FlagHasRefresh'
    BY <2>2, <2>4 DEF FlagHasRefresh, Running
  <2> QED BY <2>3, <2>4, <2>5, FleetOnly
<1>3. ASSUME NEW r \in DOMAIN refresh, TaskRuns(r)
      PROVE  ViewInv'
  <2>1. PICK old, new : old = refresh[r] /\ new = [old EXCEPT !.pc = "read"]
    OBVIOUS
  <2>2. old \in Refresh
    BY <1>0, <2>1, ElementOfSeq, LenProperties
  <2>3. new \in Refresh /\ new.pc = "read"
    BY <2>1, <2>2 DEF Refresh
  <2>4. refresh' = [refresh EXCEPT ![r] = new] /\ flag' = TRUE /\ UNCHANGED page
    BY <1>3, <2>1 DEF TaskRuns
  <2>5. refresh' \in Seq(Refresh) /\ FlagHasRefresh'
    BY <2>3, <2>4, RefreshAt
  <2> QED BY <2>4, <2>5, FleetOnly
<1>4. ASSUME NEW r \in DOMAIN refresh, EndRefresh(r), UNCHANGED page
      PROVE  ViewInv'
  <2>1. flag' = FALSE /\ refresh' = RemoveAt(refresh, r)
    BY <1>4 DEF EndRefresh
  <2>2. RemoveAt(refresh, r) \in Seq(Refresh)
    BY <1>0, RemoveAtIn
  <2>3. FlagHasRefresh' /\ refresh' \in Seq(Refresh) /\ flag' \in BOOLEAN
    BY <2>1, <2>2 DEF FlagHasRefresh
  <2> QED BY <1>4, <2>3, FleetOnly
<1>5. ASSUME NEW r \in DOMAIN refresh, ReadTargets(r)
      PROVE  ViewInv'
  <2>1. UNCHANGED page
    BY <1>5 DEF ReadTargets
  <2>2. CASE EndRefresh(r)
    BY <1>4, <2>1, <2>2
  <2>3. CASE ~EndRefresh(r)
    <3>1. PICK nodes, new : nodes = [t \in ActiveTargets |-> rows[t]] /\ new = [pc |-> "poll", nodes |-> nodes]
      OBVIOUS
    <3>2. nodes \in [ActiveTargets -> Row] /\ ActiveTargets \in SUBSET Targets
      BY <3>1 DEF ActiveTargets, StoreType
    <3>3. nodes \in Nodes
      BY <3>2 DEF Nodes
    <3>4. new \in Refresh /\ new.pc = "poll"
      BY <3>1, <3>3 DEF Refresh
    <3>5. refresh' = [refresh EXCEPT ![r] = new] /\ flag' = flag
      BY <1>5, <2>3, <3>1 DEF ReadTargets
    <3>6. refresh' \in Seq(Refresh) /\ FlagHasRefresh'
      BY <3>4, <3>5, RefreshAt
    <3>7. flag' \in BOOLEAN
      BY <1>0, <3>5
    <3> QED BY <2>1, <3>6, <3>7, FleetOnly
  <2> QED BY <2>2, <2>3
<1>6. ASSUME NEW r \in DOMAIN refresh, PollTargets(r)
      PROVE  ViewInv'
  BY <1>4, <1>6 DEF PollTargets
<1> QED BY <1>1, <1>2, <1>3, <1>5, <1>6

\* A step of the dialog only.
LEMMA DialogOnly ==
    ASSUME ViewInv, UNCHANGED fleet, stream' \in Seq(Stream), modal' \in Modal, crossed' \in BOOLEAN, DialogInv'
    PROVE  ViewInv'
BY DEF ViewInv, ViewType, FlagHasRefresh, Running, fleet

\* Nothing is shown before the first section, and each section adds its own.
LEMMA ShownGrows ==
    ASSUME NEW t, NEW n \in 1..3
    PROVE  Shown(t, 1) = {} /\ Shown(t, n + 1) = Shown(t, n) \cup {<<t, Sections[n]>>}
<1>1. 1..(1 - 1) = {} /\ 1..(n + 1 - 1) = 1..(n - 1) \cup {n}
  OBVIOUS
<1> QED BY <1>1 DEF Shown

\* The verification that ends.
LEMMA DialogEnds ==
    ASSUME ViewInv, stream' = <<>>, UNCHANGED crossed,
           modal' = [modal EXCEPT !.verifying = None, !.streaming = FALSE]
    PROVE  modal' \in Modal /\ DialogInv'
<1>1. PICK old, new : old = modal /\ new = modal'
  OBVIOUS
<1>2. old \in Modal /\ new = [old EXCEPT !.verifying = None, !.streaming = FALSE]
  BY <1>1 DEF ViewInv, ViewType
<1>3. /\ new \in Modal /\ new.open = old.open /\ new.title = old.title /\ new.checks = old.checks
      /\ new.streaming = FALSE
  BY <1>2 DEF Modal
<1>4. ~crossed /\ old.open => \E n \in 1..4 : old.checks = Shown(old.title, n)
  BY <1>1 DEF ViewInv, DialogInv
<1>5. ~crossed /\ new.open => \E n \in 1..4 : new.checks = Shown(new.title, n)
  BY <1>3, <1>4
<1> QED BY <1>1, <1>3, <1>5 DEF DialogInv, Shown

LEMMA DialogStep ==
    ASSUME ViewInv, \/ \E t \in Targets : StartVerify(t)
                    \/ \E s \in DOMAIN stream : StreamStep(s) \/ StreamEnds(s)
                    \/ CloseModal
    PROVE  ViewInv'
<1>0. /\ stream \in Seq(Stream) /\ modal \in Modal /\ crossed \in BOOLEAN
      /\ DOMAIN stream = 1..Len(stream) /\ Len(stream) \in Nat /\ DialogInv
  BY LenProperties DEF ViewInv, ViewType
<1>1. ASSUME NEW t \in Targets, StartVerify(t)
      PROVE  ViewInv'
  <2>1. PICK new, m : /\ new = [t |-> t, found |-> rows[t] # None, at |-> 1]
                      /\ m = [open |-> TRUE, title |-> t, checks |-> {}, verifying |-> t, streaming |-> TRUE]
    OBVIOUS
  <2>2. ~modal.open /\ stream' = Append(stream, new) /\ modal' = m /\ UNCHANGED <<crossed, fleet>>
    BY <1>1, <2>1 DEF StartVerify
  <2>3. new \in Stream /\ new.t = t /\ new.at = 1
    BY <2>1 DEF Stream
  <2>4. m \in Modal /\ m.open = TRUE /\ m.title = t /\ m.checks = {} /\ m.streaming = TRUE
    BY <2>1 DEF Modal
  <2>5. stream' \in Seq(Stream)
    <3>1. Append(stream, new) \in Seq(Stream)
      BY <1>0, <2>3, AppendProperties
    <3> QED BY <2>2, <3>1
  <2>6. ~crossed => stream' = <<new>>
    <3> SUFFICES ASSUME ~crossed PROVE stream' = <<new>>
      OBVIOUS
    <3>1. stream = <<>>
      BY <1>0, <2>2 DEF DialogInv
    <3> QED BY <2>2, <3>1
  <2>7. ~crossed => stream' # <<>> /\ Len(stream') = 1 /\ stream'[1] = new
    <3>1. Len(<<new>>) = 1 /\ <<new>>[1] = new /\ <<new>> \in Seq(Stream)
      BY <2>3
    <3>2. <<new>> # <<>>
      BY <3>1, OneIsNotNone
    <3> QED BY <2>6, <3>1, <3>2
  <2>8. Shown(t, 1) = {} /\ 1 \in 1..4
    BY ShownGrows
  <2>9. DialogInv'
    BY <2>2, <2>3, <2>4, <2>7, <2>8 DEF DialogInv, Shown
  <2> QED BY <1>0, <2>2, <2>4, <2>5, <2>9, DialogOnly
<1>2. ASSUME NEW s \in DOMAIN stream, StreamStep(s)
      PROVE  ViewInv'
  <2>1. PICK old, new, was, m, c :
           /\ old = stream[s] /\ new = [old EXCEPT !.at = @ + 1] /\ was = modal
           /\ c = was.checks \cup {<<old.t, Sections[old.at]>>}
           /\ m = [was EXCEPT !.open = TRUE, !.checks = c]
    OBVIOUS
  <2>2. old.at <= 3 /\ stream' = [stream EXCEPT ![s] = new] /\ modal' = m /\ UNCHANGED <<crossed, fleet>>
    <3>1. Len(Sections) = 3
      BY DEF Sections
    <3>2. stream' = [stream EXCEPT ![s] = new] /\ stream[s].at <= Len(Sections) /\ UNCHANGED <<crossed, fleet>>
      BY <1>2, <2>1 DEF StreamStep
    <3>3. modal' = m
      BY <1>2, <2>1 DEF StreamStep
    <3> QED BY <2>1, <3>1, <3>2, <3>3
  <2>3. old \in Stream /\ old.at \in 1..3 /\ old.t \in Targets
    <3>1. old \in Stream
      BY <1>0, <2>1, ElementOfSeq
    <3> QED BY <2>2, <3>1 DEF Stream
  <2>4. new \in Stream /\ new.t = old.t /\ new.at = old.at + 1
    <3>1. old.at + 1 \in 1..4
      BY <2>3
    <3> QED BY <2>1, <2>3, <3>1 DEF Stream
  <2>5. Sections[old.at] \in {"vault", "ssh", "ami"}
    BY <2>3 DEF Sections
  <2>6. /\ m \in Modal /\ m.open = TRUE /\ m.title = was.title /\ m.streaming = was.streaming /\ m.checks = c
    <3>1. was \in Modal /\ c \in SUBSET (Targets \X {"vault", "ssh", "ami"})
      BY <1>0, <2>1, <2>3, <2>5 DEF Modal
    <3> QED BY <2>1, <3>1 DEF Modal
  <2>7. /\ stream' \in Seq(Stream) /\ Len(stream') = Len(stream) /\ stream'[s] = new
    BY <1>0, <2>2, <2>4, ExceptSeq
  <2>8. ASSUME ~crossed
        PROVE  /\ stream' # <<>> /\ Len(stream') = 1 /\ stream'[1] = new
               /\ m.streaming /\ m.title = new.t /\ c = Shown(new.t, new.at) /\ new.at \in 1..4
    <3>1. stream # <<>>
      BY <1>0
    <3>2. Len(stream) = 1 /\ was.streaming /\ was.title = stream[1].t /\ was.checks = Shown(stream[1].t, stream[1].at)
      BY <1>0, <2>1, <2>8, <3>1 DEF DialogInv
    <3>3. s = 1
      BY <1>0, <3>2
    <3>4. c = Shown(new.t, new.at)
      BY <2>1, <2>3, <2>4, <3>2, <3>3, ShownGrows
    <3>5. stream' # <<>>
      <4>1. PICK q : q = stream'
        OBVIOUS
      <4>2. q \in Seq(Stream) /\ Len(q) = 1
        BY <2>7, <3>2, <4>1
      <4> QED BY <4>1, <4>2, OneIsNotNone
    <3> QED BY <2>1, <2>3, <2>4, <2>6, <2>7, <3>2, <3>3, <3>4, <3>5
  <2>9. DialogInv'
    BY <2>2, <2>6, <2>8 DEF DialogInv, Shown
  <2> QED BY <1>0, <2>2, <2>6, <2>7, <2>9, DialogOnly
<1>3. ASSUME NEW s \in DOMAIN stream, StreamEnds(s)
      PROVE  ViewInv'
  <2>1. stream' = RemoveAt(stream, s) /\ UNCHANGED <<crossed, fleet>>
        /\ modal' = [modal EXCEPT !.verifying = None, !.streaming = FALSE]
    BY <1>3 DEF StreamEnds
  <2>2. RemoveAt(stream, s) \in Seq(Stream)
    BY <1>0, RemoveAtIn
  <2>3. CASE crossed
    <3>1. modal' \in Modal
      BY <1>0, <2>1 DEF Modal
    <3>2. DialogInv'
      BY <2>1, <2>3 DEF DialogInv
    <3> QED BY <1>0, <2>1, <2>2, <3>1, <3>2, DialogOnly
  <2>4. CASE ~crossed
    <3>1. Len(stream) = 1
      <4>1. stream # <<>>
        BY <1>0
      <4> QED BY <1>0, <2>4, <4>1 DEF DialogInv
    <3>2. RemoveAt(stream, s) = <<>>
      BY <1>0, <3>1, RemoveOnly
    <3>3. stream' = <<>>
      BY <2>1, <3>2
    <3>4. modal' \in Modal /\ DialogInv'
      BY <2>1, <3>3, DialogEnds
    <3> QED BY <1>0, <2>1, <2>2, <3>4, DialogOnly
  <2> QED BY <1>0, <2>3, <2>4
<1>4. CASE CloseModal
  <2>1. PICK old, new : old = modal /\ new = modal'
    OBVIOUS
  <2>2. /\ old \in Modal /\ UNCHANGED <<stream, fleet>> /\ crossed' = (crossed \/ stream # <<>>)
        /\ new = [old EXCEPT !.open = FALSE, !.title = None, !.checks = {}, !.streaming = FALSE]
    BY <1>0, <1>4, <2>1 DEF CloseModal
  <2>3. new \in Modal /\ new.open = FALSE /\ new.streaming = FALSE
    BY <2>2 DEF Modal
  <2>4. DialogInv'
    BY <2>1, <2>2, <2>3 DEF DialogInv
  <2> QED BY <1>0, <2>1, <2>2, <2>3, <2>4, DialogOnly
<1> QED BY <1>1, <1>2, <1>3, <1>4

LEMMA ViewStep ==
    ASSUME ViewInv, StoreType, [Next]_vars
    PROVE  ViewInv'
<1>0. CASE UNCHANGED <<fleet, page>>
  BY <1>0, ViewKeeps DEF fleet, page
<1>1. CASE \/ FleetStatus \/ StartRefresh
           \/ \E r \in DOMAIN refresh : TaskRuns(r) \/ ReadTargets(r) \/ PollTargets(r)
  BY <1>1, FleetStep
<1>2. CASE \/ \E t \in Targets : StartVerify(t)
           \/ \E s \in DOMAIN stream : StreamStep(s) \/ StreamEnds(s)
           \/ CloseModal
  BY <1>2, DialogStep
<1>3. CASE Crash
  <2>1. /\ flag' = FALSE /\ refresh' = <<>> /\ stream' = <<>> /\ UNCHANGED crossed
        /\ modal' = [modal EXCEPT !.verifying = None, !.streaming = FALSE]
    BY <1>3 DEF Crash
  <2>2. modal' \in Modal /\ DialogInv'
    BY <2>1, DialogEnds
  <2>3. refresh' \in Seq(Refresh) /\ stream' \in Seq(Stream)
    BY <2>1, EmptySeq
  <2> QED BY <2>1, <2>2, <2>3 DEF ViewInv, ViewType, FlagHasRefresh
<1>4. CASE UNCHANGED vars
  BY <1>0, <1>4 DEF vars
<1>5. ASSUME NEW t \in Targets, NEW n \in Names, NEW ks \in SUBSET Kinds,
             Register(t, n, ks) \/ EditTarget(t, n, ks)
      PROVE  UNCHANGED <<fleet, page>>
  BY <1>5 DEF Register, EditTarget
<1>6. ASSUME NEW t \in Targets, DeleteTarget(t) \/ PlainWrite(t) \/ CreateJob(t)
      PROVE  UNCHANGED <<fleet, page>>
  BY <1>6 DEF DeleteTarget, PlainWrite, CreateJob
<1>7. ASSUME NEW i \in DOMAIN req, \/ StoreSecret(i) \/ RotateExisting(i) \/ DeleteSecret(i)
                                   \/ WriteTarget(i) \/ RunChecks(i)
      PROVE  UNCHANGED <<fleet, page>>
  BY <1>7 DEF StoreSecret, RotateExisting, DeleteSecret, WriteTarget, RunChecks
<1>8. ASSUME NEW w \in Runners, \/ PollJobs(w) \/ LoadTarget(w) \/ FetchSecret(w)
                                \/ RunAmiAction(w) \/ SaveOutcome(w)
      PROVE  UNCHANGED <<fleet, page>>
  BY <1>8 DEF PollJobs, LoadTarget, FetchSecret, RunAmiAction, SaveOutcome
<1> QED BY <1>0, <1>1, <1>2, <1>3, <1>4, <1>5, <1>6, <1>7, <1>8 DEF Next

THEOREM PbxInvariant == Spec => []Inv
<1>1. Init => Inv
  BY WorkInit, CredInit, ViewInit DEF Inv
<1>2. Inv /\ [Next]_vars => Inv'
  BY WorkStep, CredStep, ViewStep, StoreTyped DEF Inv
<1> QED BY <1>1, <1>2, PTL DEF Spec

LEMMA InvTypes == Inv => TypeOK
<1> SUFFICES ASSUME Inv PROVE TypeOK
  OBVIOUS
<1>1. rows \in [Targets -> Row \cup {None}] /\ vault \in [Aliases -> Targets \cup {None, "deleted"}]
  BY DEF Inv, CredInv, StoreType
<1>2. \A i \in DOMAIN req : req[i].pc \in {"vault", "rotate", "check"}
  BY DEF Inv, CredInv, RequestInv, RequestOK, Request
<1>3. \A j \in DOMAIN jobs : /\ jobs[j].t \in Targets \cup {None}
                             /\ jobs[j].status \in {"pending", "running", "succeeded", "failed"}
  BY JobAt DEF Inv, Job
<1>4. \A w \in Runners : runner[w].pc \in {"idle", "load", "secret", "ami", "save"}
  BY DEF Inv, WorkInv, JobType, RunnerState
<1>5. flag \in BOOLEAN
  BY DEF Inv, ViewInv, ViewType
<1>6. \A r \in DOMAIN refresh : refresh[r].pc \in {"new", "read", "poll"}
  <2>1. \A r \in DOMAIN refresh : refresh[r] \in Refresh
    BY ElementOfSeq, LenProperties DEF Inv, ViewInv, ViewType
  <2> QED BY <2>1 DEF Refresh
<1>7. \A s \in DOMAIN stream : stream[s].at \in 1..(Len(Sections) + 1)
  <2>1. \A s \in DOMAIN stream : stream[s] \in Stream
    BY ElementOfSeq, LenProperties DEF Inv, ViewInv, ViewType
  <2>2. Len(Sections) + 1 = 4
    BY DEF Sections
  <2> QED BY <2>1, <2>2 DEF Stream
<1>8. modal.open \in BOOLEAN /\ modal.title \in Targets \cup {None}
  BY DEF Inv, ViewInv, ViewType, Modal
<1> QED BY <1>1, <1>2, <1>3, <1>4, <1>5, <1>6, <1>7, <1>8 DEF TypeOK

\* A target registered or edited through the agent finds its own credentials under its
\* aliases unless a delete or another target of the same name has interfered, however
\* the requests of api/targets.py and their calls of the vault interleave, fail, or are
\* cut by a restart.
THEOREM PbxCredentialsAreOwn == Spec => []CredentialsAreOwn
<1>1. Inv => CredentialsAreOwn
  <2> SUFFICES ASSUME Inv PROVE CredentialsAreOwn
    OBVIOUS
  <2>1. TypeOK
    BY InvTypes
  <2>2. ASSUME NEW t \in Targets, rows[t] # None, t \notin byHand, Undisturbed(rows[t].ami, t)
        PROVE  vault[rows[t].ami] = t
    BY <2>2 DEF Inv, CredInv, RowInv
  <2>3. ASSUME NEW t \in Targets, rows[t] # None, rows[t].ssh # None, Undisturbed(rows[t].ssh, t)
        PROVE  vault[rows[t].ssh] \in {t, None}
    <3>1. rows[t].ssh \in Aliases
      BY <2>3 DEF Inv, CredInv, StoreType, Row
    <3>2. PICK a, v : a = rows[t].ssh /\ v = vault[a]
      OBVIOUS
    <3>3. /\ a \in Aliases /\ v \in Targets \cup {None, "deleted"} /\ a \notin purged
          /\ \A u \in users : u[2] = a[1] => u[1] = t
          /\ v \in Targets => <<v, a[1]>> \in users
          /\ v = "deleted" => a \in purged
      BY <2>3, <3>1, <3>2 DEF Inv, CredInv, StoreType, VaultInv, Undisturbed
    <3>4. v \in Targets => v = t
      BY <3>3
    <3> QED BY <3>2, <3>3, <3>4
  <2> QED BY <2>1, <2>2, <2>3 DEF CredentialsAreOwn
<1> QED BY <1>1, PbxInvariant, PTL

\* While the fleet page's flag says that a refresh is under way one is, although
\* overlapping refreshes lower it for each other; and until a dialog is closed over a
\* running verification, an open dialog shows the checks of the target in its title.
THEOREM PbxViewsAreOwn == Spec => []ViewsAreOwn
<1>1. Inv => ViewsAreOwn
  <2> SUFFICES ASSUME Inv PROVE ViewsAreOwn
    OBVIOUS
  <2>1. FlagHasRefresh
    BY DEF Inv, ViewInv
  <2>2. ASSUME modal.open, ~crossed
        PROVE  /\ \E n \in 0..Len(Sections) : modal.checks = {<<modal.title, Sections[m]>> : m \in 1..n}
               /\ modal.streaming = (stream # <<>>)
    <3>1. PICK n \in 1..4 : modal.checks = Shown(modal.title, n)
      BY <2>2 DEF Inv, ViewInv, DialogInv
    <3>2. n - 1 \in 0..Len(Sections)
      BY <3>1 DEF Sections
    <3>3. modal.checks = {<<modal.title, Sections[m]>> : m \in 1..(n - 1)}
      BY <3>1 DEF Shown
    <3>4. modal.streaming = (stream # <<>>)
      BY <2>2 DEF Inv, ViewInv, ViewType, DialogInv, Modal
    <3> QED BY <3>2, <3>3, <3>4
  <2> QED BY <2>1, <2>2 DEF ViewsAreOwn, DialogIsOwn
<1> QED BY <1>1, PbxInvariant, PTL

\* The PBX agent as the run has it, the probes of nodes beside jobs, targets and pages,
\* keeps what these keep.
THEOREM PbxAgentKeepsAll ==
    AgentSpec => []CredentialsAreOwn /\ []ViewsAreOwn /\ JobsKeepLedger
<1>1. AgentInit => Init
  BY DEF AgentInit
<1>2. [AgentNext]_<<looking, vars, probeVars>> => [Next]_vars
  BY DEF AgentNext
<1> QED
  BY <1>1, <1>2, PbxCredentialsAreOwn, PbxViewsAreOwn, PbxJobsKeepLedger, PTL DEF AgentSpec, Spec

------------------------------------------------------------------------------
(* Probes (PbxProbe) *)

Requests == Diagnostics \cup Statuses \cup {"verify", "poll"}
SessionPhases == AmiCommands \cup {"ami login"}
AllPhases == SessionPhases \cup {"ami secret", "ssh key", "ssh password", "ssh port", "key login",
                                 "password login", "ami port", "snapshot"}
Blocks == AmiCommands \cup {"Login accepted", "Login refused", "Events", "event"}

Check == (AllPhases \cup {"asterisk"}) \X BOOLEAN

Probe == [op : Requests \cup {"none"},
          pc : {"idle", "plan", "done", "banner", "login", "events", "reply"},
          plan : SUBSET AllPhases, cmd : SessionPhases \cup {"none"},
          conn : {"none", "open", "eof", "reset"}, owed : Seq(AmiCommands \cup {"Login", "Events"}),
          inbox : SUBSET Blocks, leaks : Nat,
          flags : SUBSET {"slow", "late", "deaf", "event", "hung", "moved"},
          outs : SUBSET (AmiCommands \X SUBSET Blocks),
          checks : SUBSET Check,
          audit : {"none", "success", "error"},
          answer : {"none", "ok", "not ok", "500", "502"}]

Node == [ssh : BOOLEAN, ami : BOOLEAN, asterisk : BOOLEAN, pjsip : BOOLEAN]

\* What was read went to the command, and nothing is left open.
OutputOK(p) ==
    /\ \A o \in p.outs :
         /\ o[2] = {o[1]} \/ p.flags \cap {"late", "event", "hung"} # {}
         /\ o[2] \subseteq {o[1], "Events", "event"}
    /\ p.leaks > 0 => "deaf" \in p.flags

\* What is under way on the connection, stage by stage.
LineOK(p) ==
    /\ p.pc \in {"idle", "plan", "done"} => p.conn = "none" /\ p.owed = <<>> /\ p.inbox = {}
    /\ p.pc \in {"banner", "login", "events", "reply"} =>
         /\ p.conn # "none" /\ p.cmd \in SessionPhases
         /\ "moved" \notin p.flags => pbx.ami /\ pbx.asterisk
    /\ p.pc = "banner" => p.owed = <<>> /\ p.inbox = {}
    /\ p.pc = "login" =>
         \/ p.owed = <<"Login">> /\ p.inbox = {}
         \/ /\ p.owed = <<>> /\ p.inbox \subseteq {"Login accepted", "Login refused", "event"}
            /\ p.inbox # {} => "Login accepted" \in p.inbox \/ "Login refused" \in p.inbox
            /\ "Login accepted" \in p.inbox => target.ami = "good"
            /\ "Login refused" \in p.inbox => target.ami = "bad"
    /\ p.pc = "events" =>
         /\ target.ami = "good" /\ p.inbox \subseteq {"event", "Events"}
         /\ p.owed = <<>> \/ (p.owed = <<"Events">> /\ "Events" \notin p.inbox)
    /\ p.pc = "reply" =>
         /\ target.ami = "good" /\ p.cmd \in AmiCommands
         /\ p.inbox \subseteq {"event", "Events", p.cmd}
         /\ p.owed \in {<<>>, <<p.cmd>>, <<"Events", p.cmd>>}
         /\ "Events" \in p.inbox \/ p.owed = <<"Events", p.cmd>> =>
              p.flags \cap {"late", "event", "hung"} # {}
    /\ "event" \in p.inbox => "event" \in p.flags
    /\ p.conn = "eof" => "hung" \in p.flags
    /\ p.conn = "reset" => p.flags # {}

AllPass(p) == \A c \in p.checks : c[2]

Right ==
    /\ pbx.ssh /\ pbx.ami /\ pbx.asterisk /\ target.ami = "good"
    /\ target.key # "none" => target.keyright /\ sanitize_ssh_key(target.key) = "pem"
    /\ target.pwd # "bad"

\* As long as every check has passed, what verify_target no longer has
\* left to do is so.
VerifyOK(p, left) ==
    p.op = "verify" =>
        /\ "moved" \notin p.flags /\ AllPass(p) =>
             /\ "ssh key" \notin left /\ target.key # "none" => <<"ssh key", TRUE>> \in p.checks
             /\ "ssh password" \notin left /\ target.pwd # "none" =>
                  <<"ssh password", TRUE>> \in p.checks
             /\ "ssh port" \notin left => pbx.ssh
             /\ "key login" \notin left /\ target.key # "none" =>
                  target.keyright /\ sanitize_ssh_key(target.key) = "pem"
             /\ "password login" \notin left => target.pwd # "bad"
             /\ "ami port" \notin left => pbx.ami /\ pbx.asterisk
             /\ "ami login" \notin left => target.ami = "good"
        /\ p.flags = {} /\ Right => AllPass(p)

PollOK(p) ==
    p.op = "poll" /\ "moved" \notin p.flags =>
        /\ <<"ssh port", TRUE>> \in p.checks => pbx.ssh
        /\ <<"asterisk", TRUE>> \in p.checks => pbx.asterisk
        /\ <<"ami login", TRUE>> \in p.checks => pbx.ami /\ target.ami = "good"
        /\ <<"snapshot", TRUE>> \in p.checks => target.keyright \/ target.pwd = "good"

CheckOK(p) ==
    p.op = "ami_check" =>
        /\ p.pc # "done" => "core show uptime" \in p.plan \/ target.ami = "good"
        /\ p.answer = "ok" => target.ami = "good"
        /\ p.answer = "not ok" /\ p.flags = {} =>
             target.ami = "bad" \/ ~pbx.ami \/ ~pbx.asterisk

\* Only the poll takes a snapshot.
PlanOK(p) == p.op = "verify" => "snapshot" \notin p.plan

ProbeOK(p) ==
    /\ p \in Probe /\ PlanOK(p)
    /\ p.pc \in {"idle", "done"} <=> p.plan = {}
    /\ p.pc = "idle" => p = NoProbe
    /\ p.pc # "done" => p.answer = "none"
    /\ OutputOK(p) /\ LineOK(p) /\ VerifyOK(p, p.plan) /\ PollOK(p) /\ CheckOK(p)

ProbeInv == pbx \in Node /\ target \in Credential /\ ProbeOK(probe)

LEMMA PlansAre ==
    /\ \A op \in Requests : Phases(op) \subseteq AllPhases /\ Phases(op) # {}
    /\ {"ssh key", "ssh password", "ssh port", "key login", "password login", "ami port",
        "ami login"} \subseteq Phases("verify")
    /\ "core show uptime" \in Phases("ami_check")
    /\ "snapshot" \notin Phases("verify")
<1>1. VerifyPlan \in Seq(AllPhases) /\ VerifyPlan # <<>>
  BY DEF VerifyPlan, AllPhases, SessionPhases, AmiCommands
<1>2. PollPlan \in Seq(AllPhases) /\ PollPlan # <<>>
  BY DEF PollPlan, AllPhases, SessionPhases, AmiCommands
<1>3. ASSUME NEW op \in Diagnostics PROVE DiagnosticPlan(op) \in Seq(AllPhases) /\ DiagnosticPlan(op) # <<>>
  <2>1. CASE op = "ping"
    BY <2>1 DEF DiagnosticPlan, AllPhases
  <2>2. CASE op = "ami_check"
    BY <2>2 DEF DiagnosticPlan, AllPhases, SessionPhases, AmiCommands
  <2>3. CASE op = "version"
    BY <2>3 DEF DiagnosticPlan, AllPhases, SessionPhases, AmiCommands
  <2> QED BY <2>1, <2>2, <2>3 DEF Diagnostics
<1>4. ASSUME NEW op \in Statuses PROVE StatusPlan(op) \in Seq(AllPhases) /\ StatusPlan(op) # <<>>
  <2>1. CASE op = "peers"
    BY <2>1 DEF StatusPlan, AllPhases, SessionPhases, AmiCommands
  <2>2. CASE op = "registrations"
    BY <2>2 DEF StatusPlan, AllPhases, SessionPhases, AmiCommands
  <2>3. CASE op = "channels"
    BY <2>3 DEF StatusPlan, AllPhases, SessionPhases, AmiCommands
  <2>4. CASE op = "uptime"
    BY <2>4 DEF StatusPlan, AllPhases, SessionPhases, AmiCommands
  <2> QED BY <2>1, <2>2, <2>3, <2>4 DEF Statuses
<1>5. ASSUME NEW op \in Requests PROVE ProbePlan(op) \in Seq(AllPhases) /\ ProbePlan(op) # <<>>
  BY <1>1, <1>2, <1>3, <1>4 DEF ProbePlan, Requests, Diagnostics, Statuses
<1>6. ProbePlan("verify") = VerifyPlan /\ ProbePlan("ami_check") = <<"ami secret", "core show uptime">>
  BY DEF ProbePlan, Diagnostics, Statuses, DiagnosticPlan
<1>7. /\ 2 \in DOMAIN VerifyPlan /\ VerifyPlan[2] = "ssh key"
      /\ 3 \in DOMAIN VerifyPlan /\ VerifyPlan[3] = "ssh password"
      /\ 4 \in DOMAIN VerifyPlan /\ VerifyPlan[4] = "ssh port"
      /\ 5 \in DOMAIN VerifyPlan /\ VerifyPlan[5] = "key login"
      /\ 6 \in DOMAIN VerifyPlan /\ VerifyPlan[6] = "password login"
      /\ 7 \in DOMAIN VerifyPlan /\ VerifyPlan[7] = "ami port"
      /\ 8 \in DOMAIN VerifyPlan /\ VerifyPlan[8] = "ami login"
  BY DEF VerifyPlan
<1>8. ASSUME NEW op \in Requests PROVE Phases(op) \subseteq AllPhases /\ Phases(op) # {}
  <2>1. PICK s \in Seq(AllPhases) : s = ProbePlan(op) /\ s # <<>>
    BY <1>5
  <2>2. Phases(op) = {s[n] : n \in 1..Len(s)} /\ Len(s) \in Nat /\ Len(s) > 0
    BY <2>1 DEF Phases
  <2>3. \A n \in 1..Len(s) : s[n] \in AllPhases
    OBVIOUS
  <2>4. s[1] \in Phases(op)
    BY <2>2
  <2> QED BY <2>2, <2>3, <2>4
<1>9. {"ssh key", "ssh password", "ssh port", "key login", "password login", "ami port",
       "ami login"} \subseteq Phases("verify")
  BY <1>6, <1>7 DEF Phases
<1>10. "core show uptime" \in Phases("ami_check")
  <2> DEFINE s == <<"ami secret", "core show uptime">>
  <2>1. 2 \in DOMAIN s /\ s[2] = "core show uptime"
    OBVIOUS
  <2>2. ProbePlan("ami_check") = s
    BY <1>6
  <2> HIDE DEF s
  <2> QED BY <2>1, <2>2 DEF Phases
<1>11. "snapshot" \notin Phases("verify")
  <2>1. ASSUME NEW n \in DOMAIN VerifyPlan PROVE VerifyPlan[n] # "snapshot"
    <3>1. n \in {1, 2, 3, 4, 5, 6, 7, 8, 9}
      BY DEF VerifyPlan
    <3>2. /\ VerifyPlan[1] = "ami secret" /\ VerifyPlan[2] = "ssh key" /\ VerifyPlan[3] = "ssh password"
          /\ VerifyPlan[4] = "ssh port" /\ VerifyPlan[5] = "key login" /\ VerifyPlan[6] = "password login"
          /\ VerifyPlan[7] = "ami port" /\ VerifyPlan[8] = "ami login" /\ VerifyPlan[9] = "core show version"
      BY DEF VerifyPlan
    <3> QED BY <3>1, <3>2
  <2> QED BY <1>6, <2>1 DEF Phases
<1> QED BY <1>8, <1>9, <1>10, <1>11

\* A login comes after the credential it uses.
LEMMA VerifyOrder ==
    ASSUME probe.op = "verify"
    PROVE  /\ Doing("key login") => "ssh key" \notin probe.plan
           /\ Doing("password login") => "ssh password" \notin probe.plan
<1>1. ProbePlan("verify") = VerifyPlan
  BY DEF ProbePlan, Diagnostics, Statuses
<1>2. ASSUME NEW n \in DOMAIN VerifyPlan
      PROVE  /\ VerifyPlan[n] = "ssh key" <=> n = 2
             /\ VerifyPlan[n] = "ssh password" <=> n = 3
             /\ VerifyPlan[n] = "key login" <=> n = 5
             /\ VerifyPlan[n] = "password login" <=> n = 6
  <2>1. n \in 1..9
    BY DEF VerifyPlan
  <2>2. n \in {1, 2, 3, 4, 5, 6, 7, 8, 9}
    BY <2>1
  <2>3. /\ VerifyPlan[1] = "ami secret" /\ VerifyPlan[2] = "ssh key" /\ VerifyPlan[3] = "ssh password"
        /\ VerifyPlan[4] = "ssh port" /\ VerifyPlan[5] = "key login" /\ VerifyPlan[6] = "password login"
        /\ VerifyPlan[7] = "ami port" /\ VerifyPlan[8] = "ami login" /\ VerifyPlan[9] = "core show version"
    BY DEF VerifyPlan
  <2> QED BY <2>2, <2>3
<1>3. 2 \in DOMAIN VerifyPlan /\ 3 \in DOMAIN VerifyPlan /\ 5 \in DOMAIN VerifyPlan /\ 6 \in DOMAIN VerifyPlan
  BY DEF VerifyPlan
<1>4. /\ Place("verify", "ssh key") = 2 /\ Place("verify", "ssh password") = 3
      /\ Place("verify", "key login") = 5 /\ Place("verify", "password login") = 6
  BY <1>1, <1>2, <1>3 DEF Place
<1>5. \A a, b : Doing(a) /\ b \in probe.plan => Place("verify", a) <= Place("verify", b)
  BY DEF Doing
<1>6. /\ Doing("key login") /\ "ssh key" \in probe.plan => 5 <= 2
      /\ Doing("password login") /\ "ssh password" \in probe.plan => 6 <= 3
  BY <1>4, <1>5
<1>7. ~(5 <= 2) /\ ~(6 <= 3)
  OBVIOUS
<1> QED BY <1>6, <1>7

\* A check is written down.
Adds(p, c) == [p EXCEPT !.checks = @ \cup {c}]

LEMMA FindsAdds == ASSUME NEW p, NEW f, NEW ok PROVE Finds(p, f, ok) = Adds(p, <<f, ok>>)
BY DEF Finds, Adds

LEMMA AddsIs ==
    ASSUME NEW p \in Probe, NEW c \in Check
    PROVE  LET q == Adds(p, c) IN
           /\ q \in Probe /\ q.checks = p.checks \cup {c}
           /\ q.op = p.op /\ q.pc = p.pc /\ q.plan = p.plan /\ q.cmd = p.cmd /\ q.conn = p.conn
           /\ q.owed = p.owed /\ q.inbox = p.inbox /\ q.leaks = p.leaks /\ q.flags = p.flags
           /\ q.outs = p.outs /\ q.audit = p.audit /\ q.answer = p.answer
<1>1. PICK q : q = [p EXCEPT !.checks = p.checks \cup {c}]
  OBVIOUS
<1>2. p.checks \cup {c} \in SUBSET Check
  BY DEF Probe
<1>3. q \in Probe
  BY <1>1, <1>2 DEF Probe
<1>4. /\ q.checks = p.checks \cup {c}
      /\ q.op = p.op /\ q.pc = p.pc /\ q.plan = p.plan /\ q.cmd = p.cmd /\ q.conn = p.conn
      /\ q.owed = p.owed /\ q.inbox = p.inbox /\ q.leaks = p.leaks /\ q.flags = p.flags
      /\ q.outs = p.outs /\ q.audit = p.audit /\ q.answer = p.answer
  BY <1>1 DEF Probe
<1>5. Adds(p, c) = q
  BY <1>1 DEF Adds
<1> QED BY <1>3, <1>4, <1>5

\* q differs from p in its checks, marks and where it stands.
Like(q, p) == q.op = p.op /\ q.outs = p.outs /\ q.leaks = p.leaks /\ p.flags \subseteq q.flags

\* What was so stays so when more goes wrong.
LEMMA MoreFlags ==
    ASSUME NEW p \in Probe, NEW q \in Probe, Like(q, p)
    PROVE  /\ OutputOK(p) => OutputOK(q)
           /\ q.checks = p.checks => /\ PollOK(p) => PollOK(q)
                                     /\ \A left : VerifyOK(p, left) => VerifyOK(q, left)
<1>1. OutputOK(p) => OutputOK(q)
  BY DEF Like, OutputOK, Probe
<1>2. q.checks = p.checks => (PollOK(p) => PollOK(q))
  BY DEF Like, PollOK
<1>3. ASSUME q.checks = p.checks, NEW left, VerifyOK(p, left) PROVE VerifyOK(q, left)
  <2>1. AllPass(q) <=> AllPass(p)
    BY <1>3 DEF AllPass
  <2>2. q.flags = {} => p.flags = {}
    BY DEF Like, Probe
  <2> HIDE DEF AllPass, Right
  <2> QED BY <1>3, <2>1, <2>2 DEF Like, VerifyOK
<1> QED BY <1>1, <1>2, <1>3

\* A request answers.
LEMMA AnswersOK ==
    ASSUME NEW p \in Probe, p.conn = "none", p.owed = <<>>, p.inbox = {},
           OutputOK(p), VerifyOK(p, {}), PollOK(p),
           NEW code \in {"ok", "not ok", "500", "502"}, NEW audit \in {"none", "success", "error"},
           p.op = "ami_check" =>
             /\ code = "ok" => target.ami = "good"
             /\ code = "not ok" /\ p.flags = {} => target.ami = "bad" \/ ~pbx.ami \/ ~pbx.asterisk
    PROVE  ProbeOK(Answers(p, code, audit))
<1>1. PICK u : u = [p EXCEPT !.pc = "done", !.plan = {}]
  OBVIOUS
<1>2. /\ u \in Probe /\ u.pc = "done" /\ u.plan = {} /\ Like(u, p) /\ u.checks = p.checks
      /\ u.flags = p.flags /\ u.conn = "none" /\ u.owed = <<>> /\ u.inbox = {}
  BY <1>1 DEF Probe, Like
<1>3. PICK w : w = [u EXCEPT !.answer = code, !.audit = audit]
  OBVIOUS
<1>4. /\ w \in Probe /\ w.pc = "done" /\ w.plan = {} /\ Like(w, p) /\ w.checks = p.checks
      /\ w.flags = p.flags /\ w.conn = "none" /\ w.owed = <<>> /\ w.inbox = {} /\ w.answer = code
  <2>1. w \in Probe
    <3>1. PICK x : x = [u EXCEPT !.answer = code]
      OBVIOUS
    <3>2. x \in Probe
      BY <1>2, <3>1 DEF Probe
    <3>3. w = [x EXCEPT !.audit = audit]
      BY <1>3, <3>1
    <3> QED BY <3>2, <3>3 DEF Probe
  <2>2. /\ w.pc = u.pc /\ w.plan = u.plan /\ w.checks = u.checks /\ w.flags = u.flags /\ w.conn = u.conn
        /\ w.owed = u.owed /\ w.inbox = u.inbox /\ w.answer = code
        /\ w.op = u.op /\ w.outs = u.outs /\ w.leaks = u.leaks
    BY <1>2, <1>3 DEF Probe
  <2> QED BY <1>2, <2>1, <2>2 DEF Like
<1>5. Answers(p, code, audit) = w
  BY <1>1, <1>3 DEF Answers
<1>6. OutputOK(w) /\ PollOK(w) /\ VerifyOK(w, w.plan)
  BY <1>4, MoreFlags
<1>7. LineOK(w)
  BY <1>4 DEF LineOK
<1>8. CheckOK(w)
  BY <1>4 DEF CheckOK, Like
<1> QED BY <1>4, <1>5, <1>6, <1>7, <1>8 DEF ProbeOK, PlanOK

\* A request goes on with its plan.
LEMMA ContinuesOK ==
    ASSUME NEW p \in Probe, p.conn = "none", p.owed = <<>>, p.inbox = {}, p.answer = "none",
           NEW past, PlanOK(p), OutputOK(p), VerifyOK(p, p.plan \ past), PollOK(p),
           p.op = "ami_check" => "core show uptime" \in p.plan \ past \/ target.ami = "good"
    PROVE  ProbeOK(Continues(p, past))
<1>1. CASE p.plan \ past # {}
  <2>1. PICK u : u = [p EXCEPT !.pc = "plan", !.plan = p.plan \ past]
    OBVIOUS
  <2>2. /\ u \in Probe /\ u.pc = "plan" /\ u.plan = p.plan \ past /\ Like(u, p)
        /\ u.checks = p.checks /\ u.answer = "none"
        /\ u.flags = p.flags /\ u.conn = "none" /\ u.owed = <<>> /\ u.inbox = {}
    BY <2>1 DEF Probe, Like
  <2>3. Continues(p, past) = u
    BY <1>1, <2>1 DEF Continues
  <2>4. OutputOK(u) /\ PollOK(u) /\ VerifyOK(u, u.plan)
    BY <2>2, MoreFlags
  <2>5. LineOK(u) /\ CheckOK(u) /\ PlanOK(u)
    BY <2>2 DEF LineOK, CheckOK, PlanOK, Like
  <2> QED BY <1>1, <2>2, <2>3, <2>4, <2>5 DEF ProbeOK
<1>2. CASE p.plan \ past = {}
  <2> DEFINE audit == IF p.op \in Diagnostics THEN "success" ELSE "none"
  <2>1. Continues(p, past) = Answers(p, "ok", audit)
    BY <1>2 DEF Continues
  <2>2. audit \in {"none", "success", "error"}
    OBVIOUS
  <2> HIDE DEF audit
  <2> QED BY <1>2, <2>1, <2>2, AnswersOK
<1> QED BY <1>1, <1>2

\* Something was slow.
Slowed(p) == [p EXCEPT !.flags = @ \cup {"slow"}]

LEMMA SlowedIs ==
    ASSUME NEW p \in Probe
    PROVE  /\ Slowed(p) \in Probe /\ Like(Slowed(p), p)
           /\ Slowed(p).flags = p.flags \cup {"slow"} /\ Slowed(p).checks = p.checks
           /\ Slowed(p).pc = p.pc /\ Slowed(p).plan = p.plan
           /\ Slowed(p).cmd = p.cmd /\ Slowed(p).conn = p.conn
           /\ Slowed(p).owed = p.owed /\ Slowed(p).inbox = p.inbox /\ Slowed(p).answer = p.answer
<1>1. PICK u : u = [p EXCEPT !.flags = p.flags \cup {"slow"}]
  OBVIOUS
<1>2. Slowed(p) = u
  BY <1>1 DEF Slowed
<1>3. u \in Probe /\ u.flags = p.flags \cup {"slow"}
  BY <1>1 DEF Probe
<1>4. /\ u.op = p.op /\ u.outs = p.outs /\ u.leaks = p.leaks /\ u.checks = p.checks
      /\ u.pc = p.pc /\ u.plan = p.plan /\ u.cmd = p.cmd /\ u.conn = p.conn
      /\ u.owed = p.owed /\ u.inbox = p.inbox /\ u.answer = p.answer
  BY <1>1 DEF Probe
<1> QED BY <1>2, <1>3, <1>4 DEF Like

\* The session of p is over, and outs is what was read.
Over(p, outs) == [p EXCEPT !.cmd = "none", !.conn = "none", !.owed = <<>>, !.inbox = {}, !.outs = outs]
Ended(p, outs, c) == Adds(Over(p, outs), c)

LEMMA EndedIs ==
    ASSUME NEW p \in Probe, NEW c \in Check, NEW outs \in SUBSET (AmiCommands \X SUBSET Blocks)
    PROVE  LET q == Ended(p, outs, c) IN
           /\ q \in Probe /\ q.conn = "none" /\ q.owed = <<>> /\ q.inbox = {}
           /\ q.op = p.op /\ q.plan = p.plan /\ q.flags = p.flags /\ q.leaks = p.leaks
           /\ q.answer = p.answer /\ q.checks = p.checks \cup {c} /\ q.outs = outs
<1>2. PICK u : u = [p EXCEPT !.cmd = "none", !.conn = "none"]
  OBVIOUS
<1>3. /\ u \in Probe /\ u.cmd = "none" /\ u.conn = "none"
      /\ u.op = p.op /\ u.plan = p.plan /\ u.flags = p.flags /\ u.leaks = p.leaks
      /\ u.answer = p.answer /\ u.checks = p.checks
  BY <1>2 DEF Probe
<1>4. PICK w : w = [u EXCEPT !.owed = <<>>, !.inbox = {}]
  OBVIOUS
<1>5. <<>> \in Seq(AmiCommands \cup {"Login", "Events"})
  OBVIOUS
<1>6. /\ w \in Probe /\ w.owed = <<>> /\ w.inbox = {} /\ w.conn = "none"
      /\ w.op = p.op /\ w.plan = p.plan /\ w.flags = p.flags /\ w.leaks = p.leaks
      /\ w.answer = p.answer /\ w.checks = p.checks
  BY <1>3, <1>4, <1>5 DEF Probe
<1>7. PICK x : x = [w EXCEPT !.outs = outs]
  OBVIOUS
<1>8. x = Over(p, outs)
  BY <1>2, <1>4, <1>7 DEF Over
<1>9. /\ x \in Probe /\ x.owed = <<>> /\ x.inbox = {} /\ x.conn = "none"
      /\ x.op = p.op /\ x.plan = p.plan /\ x.flags = p.flags /\ x.leaks = p.leaks
      /\ x.answer = p.answer /\ x.checks = p.checks /\ x.outs = outs
  BY <1>6, <1>7 DEF Probe
<1>10. Ended(p, outs, c) = Adds(x, c)
  BY <1>8 DEF Ended
<1> QED BY <1>9, <1>10, AddsIs

LEMMA AppendTwo ==
    ASSUME NEW x, NEW y
    PROVE  Append(<<>>, x) = <<x>> /\ Append(<<y>>, x) = <<y, x>>
<1> DEFINE S == {x, y}
<1>1. Append(<<y>>, x) \in Seq(S) /\ <<y, x>> \in Seq(S) /\ Len(<<y, x>>) = 2 /\ Len(Append(<<y>>, x)) = 2
  OBVIOUS
<1>2. Append(<<y>>, x)[1] = y /\ <<y, x>>[1] = y /\ Append(<<y>>, x)[2] = x /\ <<y, x>>[2] = x
  OBVIOUS
<1>3. \A i \in 1..2 : Append(<<y>>, x)[i] = <<y, x>>[i]
  BY <1>2
<1>4. Append(<<y>>, x) = <<y, x>>
  BY <1>1, <1>3, SeqEqual
<1>5. Append(<<>>, x) = <<x>>
  OBVIOUS
<1> QED BY <1>4, <1>5

\* A session that failed: the node, where nothing was slow, is not right.
LEMMA SessionFails ==
    ASSUME NEW p \in Probe, p.cmd \in SessionPhases, p.answer = "none",
           NEW how \in {"amierror", "oserror"}, PlanOK(p), OutputOK(p), PollOK(p),
           p.flags = {} /\ how = "amierror" => target.ami = "bad" \/ ~pbx.ami \/ ~pbx.asterisk,
           p.op = "verify" => how = "amierror" \/ p.flags # {}
    PROVE  ProbeOK(SessionEnds(p, how, {}))
<1>0. PICK c : c = <<p.cmd, FALSE>>
  OBVIOUS
<1>1. PICK q : q = Ended(p, p.outs, c)
  OBVIOUS
<1>2. /\ q \in Probe /\ q.conn = "none" /\ q.owed = <<>> /\ q.inbox = {}
      /\ q.op = p.op /\ q.plan = p.plan /\ q.flags = p.flags /\ q.leaks = p.leaks
      /\ q.answer = p.answer /\ q.checks = p.checks \cup {c}
      /\ q.outs = p.outs
  <2>1. p.outs \in SUBSET (AmiCommands \X SUBSET Blocks)
    BY DEF Probe
  <2>2. c \in Check
    BY <1>0 DEF Check, AllPhases
  <2> QED BY <1>1, <2>1, <2>2, EndedIs
<1>3. /\ ~AllPass(q)
      /\ \A f \in AllPhases \cup {"asterisk"} : <<f, TRUE>> \in q.checks => <<f, TRUE>> \in p.checks
  <2>1. <<p.cmd, FALSE>> \in q.checks
    BY <1>0, <1>2
  <2>2. <<p.cmd, FALSE>>[2] = FALSE
    OBVIOUS
  <2>3. ~AllPass(q)
    BY <2>1, <2>2 DEF AllPass
  <2>4. ASSUME NEW f, <<f, TRUE>> \in q.checks PROVE <<f, TRUE>> \in p.checks
    <3>1. <<f, TRUE>> # <<p.cmd, FALSE>>
      OBVIOUS
    <3> QED BY <1>0, <1>2, <2>4, <3>1
  <2> QED BY <2>3, <2>4
<1>4. OutputOK(q) /\ PlanOK(q)
  BY <1>2 DEF OutputOK, PlanOK
<1>5. PollOK(q)
  BY <1>2, <1>3 DEF PollOK, AllPhases, SessionPhases
<1>6. \A left : VerifyOK(q, left)
  <2>1. p.op = "verify" /\ q.flags = {} => ~Right
    BY <1>2 DEF Right
  <2> HIDE DEF Right
  <2> QED BY <1>2, <1>3, <2>1 DEF VerifyOK
<1>7. SessionEnds(p, how, {}) =
        IF p.op \in {"verify", "poll"} THEN Continues(q, {p.cmd} \cup {"core show version"})
        ELSE IF how = "oserror" THEN Answers(q, "500", "none")
        ELSE IF p.op = "ami_check" THEN Answers(q, "not ok", "error")
        ELSE Answers(q, "502", "none")
  <2>1. q = Finds(Over(p, p.outs), p.cmd, FALSE)
    BY <1>0, <1>1, FindsAdds DEF Ended
  <2>2. how # "ok"
    OBVIOUS
  <2> QED BY <2>1, <2>2 DEF SessionEnds, Over
<1>8. CASE p.op \in {"verify", "poll"}
  <2>1. PICK past : past = {p.cmd} \cup {"core show version"}
    OBVIOUS
  <2>2. SessionEnds(p, how, {}) = Continues(q, past)
    BY <1>7, <1>8, <2>1
  <2>3. q.op # "ami_check"
    BY <1>2, <1>8
  <2> QED BY <1>2, <1>4, <1>5, <1>6, <2>2, <2>3, ContinuesOK
<1>9. CASE p.op \notin {"verify", "poll"} /\ how = "oserror"
  <2>1. SessionEnds(p, how, {}) = Answers(q, "500", "none")
    BY <1>7, <1>9
  <2> QED BY <1>2, <1>4, <1>5, <1>6, <2>1, AnswersOK
<1>10. CASE p.op \notin {"verify", "poll"} /\ how # "oserror" /\ p.op = "ami_check"
  <2>1. SessionEnds(p, how, {}) = Answers(q, "not ok", "error")
    BY <1>7, <1>10
  <2>2. q.flags = {} => target.ami = "bad" \/ ~pbx.ami \/ ~pbx.asterisk
    BY <1>2, <1>10
  <2> QED BY <1>2, <1>4, <1>5, <1>6, <2>1, <2>2, AnswersOK
<1>11. CASE p.op \notin {"verify", "poll"} /\ how # "oserror" /\ p.op # "ami_check"
  <2>1. SessionEnds(p, how, {}) = Answers(q, "502", "none")
    BY <1>7, <1>11
  <2> QED BY <1>2, <1>4, <1>5, <1>6, <2>1, AnswersOK
<1> QED BY <1>8, <1>9, <1>10, <1>11

\* A session that was logged in, and its command answered.
LEMMA SessionServes ==
    ASSUME NEW p \in Probe, p.cmd \in SessionPhases, p.answer = "none", NEW got \in SUBSET Blocks,
           PlanOK(p), OutputOK(p), PollOK(p), VerifyOK(p, p.plan), target.ami = "good",
           "moved" \notin p.flags => pbx.ami /\ pbx.asterisk,
           p.cmd # "ami login" =>
             /\ got = {p.cmd} \/ p.flags \cap {"late", "event", "hung"} # {}
             /\ got \subseteq {p.cmd, "Events", "event"}
    PROVE  ProbeOK(SessionEnds(p, "ok", got))
<1>0. PICK outs : outs = IF p.cmd # "ami login" THEN p.outs \cup {<<p.cmd, got>>} ELSE p.outs
  OBVIOUS
<1>1a. PICK c : c = <<p.cmd, TRUE>>
  OBVIOUS
<1>1. PICK q : q = Ended(p, outs, c)
  OBVIOUS
<1>2. /\ q \in Probe /\ q.conn = "none" /\ q.owed = <<>> /\ q.inbox = {}
      /\ q.op = p.op /\ q.plan = p.plan /\ q.flags = p.flags /\ q.leaks = p.leaks
      /\ q.answer = p.answer /\ q.checks = p.checks \cup {c}
      /\ q.outs = outs
  <2>1. outs \in SUBSET (AmiCommands \X SUBSET Blocks)
    <3>1. CASE p.cmd # "ami login"
      <4>1. p.cmd \in AmiCommands
        BY <3>1 DEF SessionPhases
      <4>2. <<p.cmd, got>> \in AmiCommands \X SUBSET Blocks
        BY <4>1
      <4> QED BY <1>0, <3>1, <4>2 DEF Probe
    <3>2. CASE p.cmd = "ami login"
      BY <1>0, <3>2 DEF Probe
    <3> QED BY <3>1, <3>2
  <2>2. p \in Probe /\ c \in Check
    BY <1>1a DEF Check, AllPhases
  <2> QED BY ONLY <1>1, <2>1, <2>2, EndedIs
<1>3. PICK past : past = {p.cmd} \cup IF p.op \notin {"verify", "poll"} /\ p.cmd = "pjsip show endpoints"
                                         /\ pbx.pjsip /\ p.cmd \in got
                                      THEN {"sip show peers"} ELSE {}
  OBVIOUS
<1>4. SessionEnds(p, "ok", got) = Continues(q, past)
  <2>1. CASE p.op \in {"verify", "poll"}
    BY <1>0, <1>1a, <1>1, <1>3, <2>1 DEF SessionEnds, Over, Ended, Finds, Adds
  <2>2. CASE p.op \notin {"verify", "poll"}
    BY <1>0, <1>1a, <1>1, <1>3, <2>2 DEF SessionEnds, Over, Ended, Finds, Adds
  <2> QED BY <2>1, <2>2
<1>5. AllPass(q) <=> AllPass(p)
  <2>1. <<p.cmd, TRUE>>[2] = TRUE
    OBVIOUS
  <2> QED BY <1>1a, <1>2, <2>1 DEF AllPass
<1>6. \A f : <<f, TRUE>> \in q.checks <=> <<f, TRUE>> \in p.checks \/ f = p.cmd
  BY <1>1a, <1>2
<1>7. OutputOK(q)
  <2>1. ASSUME NEW o \in q.outs
        PROVE  /\ o[2] = {o[1]} \/ q.flags \cap {"late", "event", "hung"} # {}
               /\ o[2] \subseteq {o[1], "Events", "event"}
    <3>1. CASE o \in p.outs
      BY <1>0, <1>2, <3>1 DEF OutputOK
    <3>2. CASE o \notin p.outs
      <4>1. p.cmd # "ami login" /\ o = <<p.cmd, got>>
        BY <1>0, <1>2, <3>2
      <4>2. o[1] = p.cmd /\ o[2] = got
        BY <4>1
      <4> QED BY <1>2, <4>1, <4>2
    <3> QED BY <3>1, <3>2
  <2> QED BY <1>2, <2>1 DEF OutputOK
<1>8. PollOK(q)
  <2>1. p.cmd \notin {"ssh port", "asterisk", "snapshot"}
    BY DEF SessionPhases, AmiCommands
  <2> QED BY <1>2, <1>6, <2>1 DEF PollOK
<1>9. VerifyOK(q, q.plan \ past)
  <2>1. p.op = "verify" => past = {p.cmd}
    BY <1>3
  <2>2. p.cmd \notin {"ssh key", "ssh password", "ssh port", "key login", "password login", "ami port"}
    BY DEF SessionPhases, AmiCommands
  <2>3. \A f \in {"ssh key", "ssh password"} : <<f, TRUE>> \in p.checks => <<f, TRUE>> \in q.checks
    BY <1>6
  <2>4. ASSUME NEW f, f \notin q.plan \ past, p.op = "verify" PROVE f \notin p.plan \/ f = p.cmd
    BY <1>2, <2>1, <2>4
  <2> HIDE DEF AllPass, Right
  <2>5. CASE p.op # "verify"
    BY <1>2, <2>5 DEF VerifyOK
  <2>6. CASE p.op = "verify"
    <3> DEFINE left == q.plan \ past
    <3>1. \A f \in {"ssh key", "ssh password", "ssh port", "key login", "password login", "ami port"} :
            f \notin left => f \notin p.plan
      BY <2>2, <2>4, <2>6
    <3>2. q.flags = {} /\ Right => AllPass(q)
      BY <1>2, <1>5, <2>6 DEF VerifyOK
    <3>3. q.op = "verify" /\ q.flags = p.flags
      BY <1>2, <2>6
    <3> HIDE DEF left
    <3>4. VerifyOK(q, left)
      BY <1>5, <2>3, <2>6, <3>1, <3>2, <3>3 DEF VerifyOK
    <3> QED BY <3>4 DEF left
  <2> QED BY <2>5, <2>6
<1>10. q.op = "ami_check" => "core show uptime" \in q.plan \ past \/ target.ami = "good"
  OBVIOUS
<1>11. PlanOK(q)
  BY <1>2 DEF PlanOK
<1>12. ProbeOK(Continues(q, past))
  BY <1>2, <1>7, <1>8, <1>9, <1>10, <1>11, ContinuesOK
<1> QED BY <1>4, <1>12

\* Once logged in.
LEMMA LoggedInOK ==
    ASSUME NEW p \in Probe, p.pc = "events", p.cmd \in SessionPhases, p.plan # {}, p.answer = "none",
           PlanOK(p), OutputOK(p), PollOK(p), VerifyOK(p, p.plan), CheckOK(p), target.ami = "good",
           "moved" \notin p.flags => pbx.ami /\ pbx.asterisk,
           p.conn # "none", p.inbox = {}, p.owed \in {<<>>, <<"Events">>},
           p.owed = <<"Events">> => p.flags \cap {"late", "event", "hung"} # {},
           p.conn = "eof" => "hung" \in p.flags, p.conn = "reset" => p.flags # {}
    PROVE  ProbeOK(LoggedIn(p))
<1>1. CASE p.cmd = "ami login"
  <2>1. LoggedIn(p) = SessionEnds(p, "ok", {})
    BY <1>1 DEF LoggedIn
  <2>2. {} \in SUBSET Blocks
    OBVIOUS
  <2> QED BY <1>1, <2>1, <2>2, SessionServes
<1>2. CASE p.cmd # "ami login"
  <2>1. p.cmd \in AmiCommands
    BY <1>2 DEF SessionPhases
  <2>2. PICK owed : owed = Append(p.owed, p.cmd)
    OBVIOUS
  <2>3. PICK q : q = [p EXCEPT !.pc = "reply", !.owed = owed]
    OBVIOUS
  <2>4. LoggedIn(p) = q
    BY <1>2, <2>2, <2>3 DEF LoggedIn
  <2>5. /\ owed \in Seq(AmiCommands \cup {"Login", "Events"})
        /\ owed = <<p.cmd>> \/ (owed = <<"Events", p.cmd>> /\ p.owed = <<"Events">>)
    <3>1. p.owed \in Seq(AmiCommands \cup {"Login", "Events"})
      BY DEF Probe
    <3>2. owed \in Seq(AmiCommands \cup {"Login", "Events"})
      BY <2>1, <2>2, <3>1
    <3>3. Append(<<>>, p.cmd) = <<p.cmd>> /\ Append(<<"Events">>, p.cmd) = <<"Events", p.cmd>>
      BY AppendTwo
    <3> QED BY <2>2, <3>2, <3>3
  <2>6. /\ q \in Probe /\ q.pc = "reply" /\ q.owed = owed /\ Like(q, p) /\ q.checks = p.checks
        /\ q.plan = p.plan /\ q.cmd = p.cmd /\ q.conn = p.conn /\ q.inbox = {} /\ q.flags = p.flags
        /\ q.answer = "none"
    <3>1. q \in Probe
      BY <2>3, <2>5 DEF Probe
    <3>2. /\ q.pc = "reply" /\ q.owed = owed /\ q.checks = p.checks
          /\ q.plan = p.plan /\ q.cmd = p.cmd /\ q.conn = p.conn /\ q.inbox = p.inbox /\ q.flags = p.flags
          /\ q.answer = p.answer /\ q.op = p.op /\ q.outs = p.outs /\ q.leaks = p.leaks
      BY <2>3 DEF Probe
    <3> QED BY <3>1, <3>2 DEF Like
  <2>7. OutputOK(q) /\ PollOK(q) /\ VerifyOK(q, q.plan)
    BY <2>6, MoreFlags
  <2>8. CheckOK(q) /\ PlanOK(q)
    BY <2>6 DEF CheckOK, PlanOK, Like
  <2>9. LineOK(q)
    <3>1. owed \in {<<p.cmd>>, <<"Events", p.cmd>>}
      BY <2>5
    <3>2. owed = <<"Events", p.cmd>> => q.flags \cap {"late", "event", "hung"} # {}
      <4>1. <<p.cmd>> # <<"Events", p.cmd>>
        OBVIOUS
      <4> QED BY <2>5, <2>6, <4>1
    <3>3. owed \in {<<>>, <<p.cmd>>, <<"Events", p.cmd>>}
      BY <3>1
    <3>4. "moved" \notin q.flags => pbx.ami /\ pbx.asterisk
      BY <2>6
    <3> HIDE DEF Like
    <3> QED BY <2>1, <2>6, <3>2, <3>3, <3>4 DEF LineOK
  <2> QED BY <2>4, <2>6, <2>7, <2>8, <2>9 DEF ProbeOK
<1> QED BY <1>1, <1>2

LEMMA MarkedIs ==
    ASSUME NEW p, NEW ok, NEW truth
    PROVE  /\ ok = truth => Marked(p, ok, truth) = p
           /\ ok # truth => Marked(p, ok, truth) = Slowed(p)
BY DEF Marked, Slowed

\* One check of the request: q is what is known after it.
ChecksTo(q, p, c) == q = Adds(p, c) \/ q = Slowed(Adds(p, c))

LEMMA CheckedIs ==
    ASSUME NEW p \in Probe, NEW c \in Check, NEW q, ChecksTo(q, p, c)
    PROVE  /\ q \in Probe /\ Like(q, p) /\ q.checks = p.checks \cup {c}
           /\ q.plan = p.plan /\ q.pc = p.pc /\ q.cmd = p.cmd /\ q.conn = p.conn
           /\ q.owed = p.owed /\ q.inbox = p.inbox /\ q.answer = p.answer
           /\ "moved" \in q.flags <=> "moved" \in p.flags
<1>1. PICK x : x = Adds(p, c)
  OBVIOUS
<1>2. /\ x \in Probe /\ Like(x, p) /\ x.checks = p.checks \cup {c}
      /\ x.plan = p.plan /\ x.pc = p.pc /\ x.cmd = p.cmd /\ x.conn = p.conn
      /\ x.owed = p.owed /\ x.inbox = p.inbox /\ x.answer = p.answer /\ x.flags = p.flags
  BY <1>1, AddsIs DEF Like
<1>3. CASE q = x
  BY <1>2, <1>3
<1>4. CASE q = Slowed(x)
  <2>1. Like(q, x)
    BY <1>2, <1>4, SlowedIs
  <2> QED BY <1>2, <1>4, <2>1, SlowedIs DEF Like
<1> QED BY <1>1, <1>3, <1>4 DEF ChecksTo

\* What holds of a request between two steps of its plan.
LEMMA PlannedIs ==
    ASSUME ProbeInv, probe.pc = "plan"
    PROVE  /\ probe \in Probe /\ probe.conn = "none" /\ probe.owed = <<>> /\ probe.inbox = {}
           /\ probe.answer = "none" /\ PlanOK(probe) /\ OutputOK(probe) /\ PollOK(probe)
           /\ VerifyOK(probe, probe.plan)
           /\ probe.op = "ami_check" => "core show uptime" \in probe.plan \/ target.ami = "good"
BY DEF ProbeInv, ProbeOK, LineOK, CheckOK

\* The request goes on after a check: what verify_target has left is less by that check.
LEMMA CheckedOK ==
    ASSUME ProbeInv, probe.pc = "plan", NEW f \in AllPhases, NEW past, NEW c, c = <<f, TRUE>> \/ c = <<f, FALSE>>,
           NEW q, ChecksTo(q, probe, c),
           c = <<f, FALSE>> => q.flags # {} \/ ~Right,
           c = <<f, TRUE>> =>
             /\ probe.op = "verify" => past \subseteq {f}
             /\ f \in {"ssh key", "ssh password"} \/ VerifyOK(probe, probe.plan \ {f})
             /\ probe.op = "poll" /\ "moved" \notin probe.flags =>
                  /\ f = "ssh port" => pbx.ssh
                  /\ f = "ami login" => pbx.ami /\ target.ami = "good"
                  /\ f = "snapshot" => target.keyright \/ target.pwd = "good"
    PROVE  VerifyOK(q, q.plan \ past) /\ PollOK(q) /\ OutputOK(q) /\ PlanOK(q)
<1>1. probe \in Probe /\ c \in Check /\ ChecksTo(q, probe, c)
  <2>1. <<f, TRUE>> \in Check /\ <<f, FALSE>> \in Check
    BY DEF Check
  <2>2. c \in Check
    BY <2>1
  <2> QED BY <2>2, PlannedIs
<1>2. /\ q \in Probe /\ Like(q, probe) /\ q.checks = probe.checks \cup {c} /\ q.plan = probe.plan
      /\ "moved" \in q.flags <=> "moved" \in probe.flags
  BY ONLY <1>1, CheckedIs
<1>3. /\ <<f, TRUE>> # <<f, FALSE>>
      /\ AllPass(q) <=> AllPass(probe) /\ c = <<f, TRUE>>
      /\ \A g : <<g, TRUE>> \in q.checks <=> <<g, TRUE>> \in probe.checks \/ (g = f /\ c = <<f, TRUE>>)
  <2>1. <<f, TRUE>> # <<f, FALSE>> /\ <<f, TRUE>>[2] = TRUE /\ <<f, FALSE>>[2] = FALSE
    OBVIOUS
  <2>2. AllPass(q) <=> AllPass(probe) /\ c = <<f, TRUE>>
    <3>1. AllPass(q) <=> AllPass(probe) /\ c[2]
      BY ONLY <1>2 DEF AllPass
    <3> QED BY <2>1, <3>1
  <2>3. ASSUME NEW g PROVE <<g, TRUE>> \in q.checks <=> <<g, TRUE>> \in probe.checks \/ (g = f /\ c = <<f, TRUE>>)
    <3>1. <<g, TRUE>> # <<f, FALSE>> /\ (<<g, TRUE>> = <<f, TRUE>> => g = f)
      OBVIOUS
    <3> QED BY <1>2, <3>1
  <2> QED BY <2>1, <2>2, <2>3
<1>4. PollOK(q)
  <2>1. PollOK(probe) /\ (q.op = "poll" => probe.op = "poll")
    BY <1>2, PlannedIs DEF Like
  <2>2. f # "asterisk"
    BY DEF AllPhases, SessionPhases, AmiCommands
  <2> QED BY <1>2, <1>3, <2>1, <2>2 DEF PollOK
<1>5. OutputOK(q)
  BY <1>1, <1>2, PlannedIs, MoreFlags
<1>6. PlanOK(q)
  BY <1>2, PlannedIs DEF PlanOK, Like
<1>7. ASSUME q.op = "verify" PROVE VerifyOK(q, q.plan \ past)
  <2>1. PICK left : left = q.plan \ past
    OBVIOUS
  <2>2. VerifyOK(probe, probe.plan) /\ probe.op = "verify"
    BY <1>2, <1>7, PlannedIs DEF Like
  <2>3. q.flags = {} /\ Right => AllPass(q)
    <3> SUFFICES ASSUME q.flags = {}, Right PROVE AllPass(q)
      OBVIOUS
    <3>1. probe.flags = {} /\ c = <<f, TRUE>>
      BY <1>1, <1>2, <1>3 DEF Like, Probe
    <3>2. AllPass(probe)
      BY <2>2, <3>1 DEF VerifyOK
    <3> QED BY <1>3, <3>1, <3>2
  <2> HIDE DEF AllPass, Right
  <2>4. CASE c = <<f, FALSE>>
    BY <1>2, <1>3, <1>7, <2>1, <2>3, <2>4 DEF VerifyOK
  <2>5. CASE c = <<f, TRUE>> /\ f \in {"ssh key", "ssh password"}
    <3>1. \A g : g \notin left => g \notin probe.plan \/ g = f
      BY <1>2, <2>1, <2>2, <2>5
    <3>2. <<f, TRUE>> \in q.checks /\ probe.checks \subseteq q.checks
      BY <1>2, <2>5
    <3>3. VerifyOK(q, left)
      BY <1>2, <1>3, <1>7, <2>2, <2>3, <2>5, <3>1, <3>2 DEF VerifyOK
    <3> QED BY <2>1, <3>3
  <2>6. CASE c = <<f, TRUE>> /\ f \notin {"ssh key", "ssh password"}
    <3>1. VerifyOK(probe, probe.plan \ {f})
      BY <2>6
    <3>2. PICK less : less = probe.plan \ {f}
      OBVIOUS
    <3>3. \A g : g \notin left => g \notin less
      BY <1>2, <2>1, <2>2, <2>6, <3>2
    <3>4. probe.checks \subseteq q.checks
      BY <1>2
    <3>5. VerifyOK(probe, less)
      BY <3>1, <3>2
    <3>6. VerifyOK(q, left)
      BY <1>2, <1>3, <1>7, <2>2, <2>3, <3>3, <3>4, <3>5 DEF VerifyOK
    <3> QED BY <2>1, <3>6
  <2> QED BY <2>4, <2>5, <2>6
<1>8. q.op # "verify" => VerifyOK(q, q.plan \ past)
  BY DEF VerifyOK
<1> QED BY <1>4, <1>5, <1>6, <1>7, <1>8

\* The same, to the next step of the plan or the answer.
LEMMA CheckContinues ==
    ASSUME ProbeInv, probe.pc = "plan", NEW f \in AllPhases, NEW past, NEW c, c = <<f, TRUE>> \/ c = <<f, FALSE>>,
           NEW q, ChecksTo(q, probe, c),
           c = <<f, FALSE>> => q.flags # {} \/ ~Right,
           c = <<f, TRUE>> =>
             /\ probe.op = "verify" => past \subseteq {f}
             /\ f \in {"ssh key", "ssh password"} \/ VerifyOK(probe, probe.plan \ {f})
             /\ probe.op = "poll" /\ "moved" \notin probe.flags =>
                  /\ f = "ssh port" => pbx.ssh
                  /\ f = "ami login" => pbx.ami /\ target.ami = "good"
                  /\ f = "snapshot" => target.keyright \/ target.pwd = "good",
           probe.op = "ami_check" => "core show uptime" \notin past
    PROVE  ProbeOK(Continues(q, past))
<1>1. VerifyOK(q, q.plan \ past) /\ PollOK(q) /\ OutputOK(q) /\ PlanOK(q)
  BY CheckedOK
<1>2. probe \in Probe /\ c \in Check /\ ChecksTo(q, probe, c)
  <2>1. <<f, TRUE>> \in Check /\ <<f, FALSE>> \in Check
    BY DEF Check
  <2>2. c \in Check
    BY <2>1
  <2> QED BY <2>2, PlannedIs
<1>3. /\ q \in Probe /\ Like(q, probe) /\ q.plan = probe.plan /\ q.conn = probe.conn
      /\ q.owed = probe.owed /\ q.inbox = probe.inbox /\ q.answer = probe.answer
  BY ONLY <1>2, CheckedIs
<1>4. q.op = "ami_check" => "core show uptime" \in q.plan \ past \/ target.ami = "good"
  BY <1>3, PlannedIs DEF Like
<1>5. q.conn = "none" /\ q.owed = <<>> /\ q.inbox = {} /\ q.answer = "none"
  BY <1>3, PlannedIs
<1> QED BY ONLY <1>1, <1>3, <1>4, <1>5, ContinuesOK

\* A step without a check of its own.
LEMMA PlanContinues ==
    ASSUME ProbeInv, probe.pc = "plan", NEW past, VerifyOK(probe, probe.plan \ past),
           probe.op = "ami_check" => "core show uptime" \notin past
    PROVE  ProbeOK(Continues(probe, past))
<1>1. /\ probe \in Probe /\ probe.conn = "none" /\ probe.owed = <<>> /\ probe.inbox = {}
      /\ probe.answer = "none" /\ PlanOK(probe) /\ OutputOK(probe) /\ PollOK(probe)
      /\ VerifyOK(probe, probe.plan \ past)
      /\ probe.op = "ami_check" => "core show uptime" \in probe.plan \ past \/ target.ami = "good"
  BY PlannedIs
<1> QED BY ONLY <1>1, ContinuesOK

LEMMA NoProbeIs ==
    /\ NoProbe \in Probe
    /\ NoProbe.op = "none" /\ NoProbe.pc = "idle" /\ NoProbe.plan = {} /\ NoProbe.cmd = "none"
    /\ NoProbe.conn = "none" /\ NoProbe.owed = <<>> /\ NoProbe.inbox = {} /\ NoProbe.leaks = 0
    /\ NoProbe.flags = {} /\ NoProbe.outs = {} /\ NoProbe.checks = {} /\ NoProbe.answer = "none"
<1>1. <<>> \in Seq(AmiCommands \cup {"Login", "Events"})
  OBVIOUS
<1>2. NoProbe \in Probe
  BY <1>1 DEF NoProbe, Probe
<1> QED BY <1>2 DEF NoProbe

\* Before a request comes.
LEMMA IdleOK == ProbeOK(NoProbe)
<1>1. LineOK(NoProbe)
  BY NoProbeIs DEF LineOK
<1>2. OutputOK(NoProbe)
  BY NoProbeIs DEF OutputOK
<1>3. VerifyOK(NoProbe, NoProbe.plan) /\ PollOK(NoProbe) /\ CheckOK(NoProbe) /\ PlanOK(NoProbe)
  BY NoProbeIs DEF VerifyOK, PollOK, CheckOK, PlanOK
<1> QED BY <1>1, <1>2, <1>3, NoProbeIs DEF ProbeOK

LEMMA StartsOK ==
    ASSUME ProbeInv, NEW op \in Requests, ProbeStarts(op)
    PROVE  ProbeOK(probe')
<1>1. PICK u : u = [NoProbe EXCEPT !.op = op, !.pc = "plan", !.plan = Phases(op)]
  OBVIOUS
<1>2. probe' = u
  BY <1>1 DEF ProbeStarts
<1>3. Phases(op) \subseteq AllPhases /\ Phases(op) # {}
  BY PlansAre
<1>4. u \in Probe
  <2>1. PICK x : x = [NoProbe EXCEPT !.op = op, !.pc = "plan"]
    OBVIOUS
  <2>2. x \in Probe
    BY <2>1, NoProbeIs DEF Probe
  <2>3. u = [x EXCEPT !.plan = Phases(op)]
    BY <1>1, <2>1
  <2> QED BY <1>3, <2>2, <2>3 DEF Probe
<1>5. /\ u.op = op /\ u.pc = "plan" /\ u.plan = Phases(op) /\ u.cmd = "none" /\ u.conn = "none"
      /\ u.owed = <<>> /\ u.inbox = {} /\ u.leaks = 0 /\ u.flags = {} /\ u.outs = {} /\ u.checks = {}
      /\ u.answer = "none"
  <2>1. /\ u.op = op /\ u.pc = "plan" /\ u.plan = Phases(op) /\ u.cmd = NoProbe.cmd /\ u.conn = NoProbe.conn
        /\ u.owed = NoProbe.owed /\ u.inbox = NoProbe.inbox /\ u.leaks = NoProbe.leaks
        /\ u.flags = NoProbe.flags /\ u.outs = NoProbe.outs /\ u.checks = NoProbe.checks
        /\ u.answer = NoProbe.answer
    BY <1>1, NoProbeIs DEF Probe
  <2> QED BY <2>1, NoProbeIs
<1>6. VerifyOK(u, u.plan)
  <2>1. CASE op = "verify"
    <3>1. {"ssh key", "ssh password", "ssh port", "key login", "password login", "ami port",
           "ami login"} \subseteq u.plan
      BY <1>5, <2>1, PlansAre
    <3>2. AllPass(u)
      BY <1>5 DEF AllPass
    <3> HIDE DEF AllPass, Right
    <3> QED BY <3>1, <3>2 DEF VerifyOK
  <2>2. CASE op # "verify"
    BY <1>5, <2>2 DEF VerifyOK
  <2> QED BY <2>1, <2>2
<1>7. OutputOK(u) /\ PollOK(u) /\ LineOK(u)
  BY <1>5 DEF OutputOK, PollOK, LineOK
<1>8. CheckOK(u) /\ PlanOK(u)
  BY <1>5, PlansAre DEF CheckOK, PlanOK
<1> QED BY <1>2, <1>3, <1>4, <1>5, <1>6, <1>7, <1>8 DEF ProbeOK

\* What the request asks of the node or of the vault.
LEMMA OutcomeIs ==
    ASSUME NEW truth, NEW ok \in Outcomes(truth)
    PROVE  ok = truth \/ ok = FALSE
BY DEF Outcomes

LEMMA FetchesOK ==
    ASSUME ProbeInv, NEW phase \in {"ami secret", "ssh key", "ssh password"}, NEW there,
           ProbeFetches(phase, there), phase = "ami secret" => there,
           phase = "ssh key" => (there <=> target.key # "none"),
           phase = "ssh password" => (there <=> target.pwd # "none")
    PROVE  ProbeOK(probe')
<1>1. probe.pc = "plan" /\ phase \in AllPhases
  BY DEF ProbeFetches, Doing, AllPhases
<1>2. PICK ok \in Outcomes(TRUE) :
        /\ there \/ ok
        /\ LET p == Marked(IF there THEN Finds(probe, phase, ok) ELSE probe, ok, TRUE) IN
           probe' = IF ok THEN Continues(p, {phase})
                    ELSE IF p.op \in {"verify", "poll"}
                    THEN Continues(p, {phase} \cup IF phase = "ami secret"
                                                   THEN {"ami login", "core show version"} ELSE {})
                    ELSE Answers(p, "502", IF p.op = "ami_check" THEN "error" ELSE "none")
  BY DEF ProbeFetches
<1>3. ok = TRUE \/ ok = FALSE
  BY <1>2, OutcomeIs
<1>4. probe.op = "ami_check" => "core show uptime" \notin {phase}
  OBVIOUS
<1>5. CASE ok = TRUE /\ there
  <2>1. PICK q : q = Adds(probe, <<phase, TRUE>>)
    OBVIOUS
  <2>2. probe' = Continues(q, {phase})
    BY <1>2, <1>5, <2>1, FindsAdds DEF Marked
  <2>3. phase = "ami secret" => VerifyOK(probe, probe.plan \ {phase})
    BY PlannedIs, <1>1 DEF VerifyOK
  <2>4. phase \notin {"ssh port", "ami login", "snapshot"}
    OBVIOUS
  <2>5. <<phase, TRUE>> # <<phase, FALSE>> /\ ChecksTo(q, probe, <<phase, TRUE>>)
    BY <2>1 DEF ChecksTo
  <2> QED BY <1>1, <1>4, <2>2, <2>3, <2>4, <2>5, CheckContinues
<1>6. CASE ok = TRUE /\ ~there
  <2>1. probe' = Continues(probe, {phase})
    BY <1>2, <1>6 DEF Marked
  <2>2. VerifyOK(probe, probe.plan \ {phase})
    <3>1. VerifyOK(probe, probe.plan)
      BY <1>1, PlannedIs
    <3>2. /\ phase = "ssh key" \/ phase = "ssh password"
          /\ phase = "ssh key" => target.key = "none"
          /\ phase = "ssh password" => target.pwd = "none"
      BY <1>6
    <3> HIDE DEF AllPass, Right
    <3>3. CASE phase = "ssh key"
      BY <3>1, <3>2, <3>3 DEF VerifyOK
    <3>4. CASE phase = "ssh password"
      BY <3>1, <3>2, <3>4 DEF VerifyOK
    <3> QED BY <3>2, <3>3, <3>4
  <2> QED BY <1>1, <1>4, <2>1, <2>2, PlanContinues
<1>7. CASE ok = FALSE
  <2>1. PICK q : q = Slowed(Adds(probe, <<phase, FALSE>>))
    OBVIOUS
  <2>2. ChecksTo(q, probe, <<phase, FALSE>>) /\ <<phase, FALSE>> \in Check /\ probe \in Probe
    BY <1>1, <2>1, PlannedIs DEF ChecksTo, Check
  <2>3. Marked(IF there THEN Finds(probe, phase, ok) ELSE probe, ok, TRUE) = q
    BY <1>2, <1>7, <2>1, FindsAdds DEF Marked, Slowed
  <2>4. q.flags # {}
    <3>1. Adds(probe, <<phase, FALSE>>) \in Probe
      BY <2>2, AddsIs
    <3> QED BY <2>1, <3>1, SlowedIs
  <2>5. /\ q \in Probe /\ Like(q, probe) /\ q.plan = probe.plan /\ q.conn = "none"
        /\ q.owed = <<>> /\ q.inbox = {}
    BY <1>1, <2>2, PlannedIs, CheckedIs
  <2>6. PICK past : past = {phase} \cup IF phase = "ami secret"
                                        THEN {"ami login", "core show version"} ELSE {}
    OBVIOUS
  <2>7. probe' = IF q.op \in {"verify", "poll"} THEN Continues(q, past)
                 ELSE Answers(q, "502", IF q.op = "ami_check" THEN "error" ELSE "none")
    BY <1>2, <1>7, <2>3, <2>6
  <2>8. <<phase, FALSE>> # <<phase, TRUE>>
    OBVIOUS
  <2>9. CASE q.op \in {"verify", "poll"}
    <3>1. probe' = Continues(q, past) /\ probe.op # "ami_check"
      BY <2>5, <2>7, <2>9 DEF Like
    <3> QED BY <1>1, <2>2, <2>4, <2>8, <3>1, CheckContinues
  <2>10. CASE q.op \notin {"verify", "poll"}
    <3>1. PICK audit \in {"none", "success", "error"} : probe' = Answers(q, "502", audit)
      BY <2>7, <2>10
    <3>2. VerifyOK(q, {})
      BY <2>10 DEF VerifyOK
    <3>3. PollOK(q) /\ OutputOK(q)
      BY <2>5, <2>10, <1>1, PlannedIs, MoreFlags DEF PollOK
    <3> QED BY <2>5, <3>1, <3>2, <3>3, AnswersOK
  <2> QED BY <2>9, <2>10
<1> QED BY <1>3, <1>5, <1>6, <1>7

LEMMA PollPlanIs == "core show uptime" \notin Phases("poll")
<1>1. ProbePlan("poll") = PollPlan
  BY DEF ProbePlan, Diagnostics, Statuses
<1>2. ASSUME NEW n \in DOMAIN PollPlan PROVE PollPlan[n] # "core show uptime"
  <2>1. n \in {1, 2, 3, 4, 5, 6}
    BY DEF PollPlan
  <2>2. /\ PollPlan[1] = "ssh port" /\ PollPlan[2] = "ssh key" /\ PollPlan[3] = "ssh password"
        /\ PollPlan[4] = "snapshot" /\ PollPlan[5] = "ami secret" /\ PollPlan[6] = "ami login"
    BY DEF PollPlan
  <2> QED BY <2>1, <2>2
<1> QED BY <1>1, <1>2 DEF Phases

\* ok is what a port says: where it says so it is open.
LEMMA PortOK ==
    ASSUME ProbeInv, NEW f \in {"ssh port", "ami port"}, Doing(f), NEW truth, NEW ok \in Outcomes(truth),
           truth = TRUE \/ truth = FALSE,
           f = "ssh port" => truth = pbx.ssh,
           f = "ami port" => truth = (pbx.ami /\ pbx.asterisk),
           NEW past, ok = TRUE => past = {f}, "core show uptime" \in past => probe.op = "poll" 
    PROVE  ProbeOK(Continues(Marked(Finds(probe, f, ok), ok, truth), past))
<1>1. probe.pc = "plan" /\ f \in AllPhases
  BY DEF Doing, AllPhases, SessionPhases, AmiCommands
<1>2. (ok = truth \/ ok = FALSE) /\ (ok = TRUE \/ ok = FALSE)
  BY OutcomeIs
<1>3. PICK c : c = <<f, ok>>
  OBVIOUS
<1>4. PICK q : q = Marked(Finds(probe, f, ok), ok, truth)
  OBVIOUS
<1>5. ChecksTo(q, probe, c)
  BY <1>3, <1>4, FindsAdds, MarkedIs DEF ChecksTo
<1>6. CASE ok = TRUE
  <2>1. c = <<f, TRUE>> /\ c # <<f, FALSE>>
    BY <1>3, <1>6
  <2>2. truth = TRUE
    BY <1>2, <1>6
  <2>3. VerifyOK(probe, probe.plan \ {f})
    <3>1. VerifyOK(probe, probe.plan)
      BY <1>1, PlannedIs
    <3> HIDE DEF AllPass, Right
    <3>2. CASE f = "ssh port"
      <4>1. pbx.ssh
        BY <2>2, <3>2
      <4> QED BY <3>1, <3>2, <4>1 DEF VerifyOK
    <3>3. CASE f = "ami port"
      <4>1. pbx.ami /\ pbx.asterisk
        BY <2>2, <3>3
      <4> QED BY <3>1, <3>3, <4>1 DEF VerifyOK
    <3> QED BY <3>2, <3>3
  <2>4. f = "ssh port" => pbx.ssh
    BY <2>2
  <2>5. past = {f} /\ f \notin {"ami login", "snapshot", "core show uptime"}
    BY <1>6
  <2> QED BY <1>1, <1>4, <1>5, <2>1, <2>3, <2>4, <2>5, CheckContinues
<1>7. CASE ok = FALSE
  <2>1. c = <<f, FALSE>> /\ c # <<f, TRUE>>
    BY <1>3, <1>7
  <2>2. q.flags # {} \/ ~Right
    <3>1. CASE truth = TRUE
      <4>1. q = Slowed(Adds(probe, c))
        <5>1. Finds(probe, f, ok) = Adds(probe, c)
          BY <1>3, FindsAdds
        <5>2. q = Marked(Adds(probe, c), FALSE, TRUE)
          BY <1>4, <1>7, <3>1, <5>1
        <5> QED BY <5>2 DEF Marked, Slowed
      <4>2. Adds(probe, c) \in Probe
        BY <1>1, <2>1, PlannedIs, AddsIs DEF Check
      <4> QED BY <4>1, <4>2, SlowedIs
    <3>2. CASE truth = FALSE
      BY <3>2 DEF Right
    <3> QED BY <3>1, <3>2
  <2>3. probe.op = "ami_check" => "core show uptime" \notin past
    OBVIOUS
  <2> HIDE DEF Right
  <2> QED BY <1>1, <1>4, <1>5, <2>1, <2>2, <2>3, CheckContinues
<1> QED BY <1>2, <1>6, <1>7

LEMMA ChecksPortsOK ==
    ASSUME ProbeInv, ChecksSshPort \/ ChecksAmiPort
    PROVE  ProbeOK(probe')
<1>1. pbx.ssh \in BOOLEAN /\ pbx.ami \in BOOLEAN /\ pbx.asterisk \in BOOLEAN
  BY DEF ProbeInv, Node
<1>2. CASE ChecksSshPort
  <2>1. PICK ok \in Outcomes(pbx.ssh) :
          probe' = Continues(Marked(Finds(probe, "ssh port", ok), ok, pbx.ssh),
                             IF ok THEN {"ssh port"}
                             ELSE IF probe.op = "verify" THEN {"ssh port", "key login", "password login"}
                             ELSE Phases("poll"))
    BY <1>2 DEF ChecksSshPort
  <2>2. PICK past : past = IF ok THEN {"ssh port"}
                           ELSE IF probe.op = "verify" THEN {"ssh port", "key login", "password login"}
                           ELSE Phases("poll")
    OBVIOUS
  <2>3. "core show uptime" \notin past
    BY <2>2, PollPlanIs
  <2>4. PICK truth : truth = pbx.ssh /\ (truth = TRUE \/ truth = FALSE)
    BY <1>1
  <2>5. Doing("ssh port")
    BY <1>2 DEF ChecksSshPort
  <2>6. probe' = Continues(Marked(Finds(probe, "ssh port", ok), ok, truth), past)
    BY <2>1, <2>2, <2>4
  <2>7. ok = TRUE => past = {"ssh port"}
    BY <2>2
  <2> QED BY <2>1, <2>3, <2>4, <2>5, <2>6, <2>7, PortOK
<1>3. CASE ChecksAmiPort
  <2>1. PICK truth : truth = (pbx.ami /\ pbx.asterisk) /\ (truth = TRUE \/ truth = FALSE)
    BY <1>1
  <2>2. PICK ok \in Outcomes(truth) :
          probe' = Continues(Marked(Finds(probe, "ami port", ok), ok, truth),
                             {"ami port"} \cup IF ok THEN {} ELSE {"ami login", "core show version"})
    BY <1>3, <2>1 DEF ChecksAmiPort
  <2>3. PICK past : past = {"ami port"} \cup IF ok THEN {} ELSE {"ami login", "core show version"}
    OBVIOUS
  <2>4. "core show uptime" \notin past /\ (ok = TRUE => past = {"ami port"})
    BY <2>3
  <2>5. Doing("ami port")
    BY <1>3 DEF ChecksAmiPort
  <2>6. probe' = Continues(Marked(Finds(probe, "ami port", ok), ok, truth), past)
    BY <2>2, <2>3
  <2> QED BY <2>1, <2>4, <2>5, <2>6, PortOK
<1> QED BY <1>2, <1>3

\* What the poll has seen of Asterisk.
LEMMA SnapshotOK ==
    ASSUME ProbeInv, probe.pc = "plan", "snapshot" \in probe.plan, NEW p \in Probe, Like(p, probe),
           p.plan = probe.plan, p.conn = "none", p.owed = <<>>, p.inbox = {}, p.answer = "none",
           PollOK(p), OutputOK(p), PlanOK(p), NEW up, up = TRUE \/ up = FALSE, up => pbx.asterisk
    PROVE  ProbeOK(Continues(Finds(p, "asterisk", up),
                             {"snapshot"} \cup IF up THEN {} ELSE {"ami secret", "ami login"}))
<1>1. PICK past : past = {"snapshot"} \cup IF up THEN {} ELSE {"ami secret", "ami login"}
  OBVIOUS
<1>2. PICK c : c = <<"asterisk", up>>
  OBVIOUS
<1>3. PICK q : q = Adds(p, c)
  OBVIOUS
<1>4. Finds(p, "asterisk", up) = q
  BY <1>2, <1>3, FindsAdds
<1>5. c \in Check
  <2>1. <<"asterisk", TRUE>> \in Check /\ <<"asterisk", FALSE>> \in Check
    BY DEF Check
  <2> QED BY <1>2, <2>1
<1>6. /\ q \in Probe /\ Like(q, p) /\ q.plan = p.plan /\ q.conn = "none" /\ q.owed = <<>>
      /\ q.inbox = {} /\ q.answer = "none" /\ q.checks = p.checks \cup {c} /\ q.flags = p.flags
  BY <1>3, <1>5, AddsIs DEF Like
<1>7. q.op # "verify" /\ q.op = probe.op
  BY <1>6, PlannedIs DEF Like, PlanOK
<1>8. OutputOK(q) /\ PlanOK(q) /\ VerifyOK(q, q.plan \ past)
  BY <1>6, <1>7, MoreFlags DEF PlanOK, VerifyOK
<1>9. PollOK(q)
  <2>1. q.op = p.op
    BY <1>6 DEF Like
  <2>2. c # <<"ssh port", TRUE>> /\ c # <<"snapshot", TRUE>> /\ c # <<"ami login", TRUE>>
    BY <1>2
  <2>3. c = <<"asterisk", TRUE>> => pbx.asterisk
    BY <1>2
  <2> QED BY <1>6, <2>1, <2>2, <2>3 DEF PollOK
<1>10. "core show uptime" \notin past
  BY <1>1
<1>11. q.op = "ami_check" => "core show uptime" \in q.plan \ past \/ target.ami = "good"
  BY <1>6, <1>7, <1>10, PlannedIs
<1>12. ProbeOK(Continues(q, past))
  BY ONLY <1>6, <1>8, <1>9, <1>11, ContinuesOK
<1> QED BY <1>1, <1>4, <1>12

LEMMA Boolean == ASSUME NEW x, NEW S PROVE (x \in S) \in BOOLEAN
OBVIOUS

\* What SSH login shows: it is let in only with the right credential.
LEMMA LoginsOK ==
    ASSUME ProbeInv, NEW phase \in {"key login", "password login", "snapshot"}, LogsInBySsh(phase)
    PROVE  ProbeOK(probe')
<1> DEFINE key == IF phase # "password login" /\ Has(probe, "ssh key") THEN target.key ELSE "none"
           pwd == IF phase # "key login" /\ Has(probe, "ssh password") THEN target.pwd ELSE "none"
           login == ssh_login(key, pwd)
<1>1. Doing(phase) /\ probe.pc = "plan" /\ phase \in probe.plan /\ phase \in AllPhases
  BY DEF LogsInBySsh, Doing, AllPhases
<1> DEFINE none == key = "none" /\ pwd = "none"
<1>2. PICK ok \in Outcomes(TRUE), ran \in {SshCommands, SshCommands \ {"pgrep"}, SshCommands \ {"contacts"}} :
        LET snap == IF ok THEN node_snapshot(key, pwd, ran) ELSE [ssh_ok |-> FALSE, shown |-> {}]
            up == "pgrep" \in snap.shown
            p == Marked(IF none THEN probe ELSE Finds(probe, phase, snap.ssh_ok), ok, TRUE) IN
        /\ none => ok
        /\ phase # "snapshot" => ran = SshCommands
        /\ Costs(ok, TRUE)
        /\ probe' = IF phase # "snapshot" THEN Continues(p, {phase})
                    ELSE Continues(Finds(p, "asterisk", up),
                                   {phase} \cup IF up THEN {} ELSE {"ami secret", "ami login"})
  BY Zenon DEF LogsInBySsh
<1>3. ok = TRUE \/ ok = FALSE
  BY OutcomeIs
<1>4. PICK snap : snap = IF ok THEN node_snapshot(key, pwd, ran) ELSE [ssh_ok |-> FALSE, shown |-> {}]
  OBVIOUS
<1>5. PICK p : p = Marked(IF key = "none" /\ pwd = "none" THEN probe
                          ELSE Finds(probe, phase, snap.ssh_ok), ok, TRUE)
  OBVIOUS
<1>6. PICK up \in BOOLEAN : up = ("pgrep" \in snap.shown)
  <2>1. PICK shown : shown = snap.shown
    OBVIOUS
  <2>2. ("pgrep" \in shown) \in BOOLEAN
    BY ONLY Boolean
  <2> QED BY <2>1, <2>2
<1>7. /\ key = "none" /\ pwd = "none" => ok
      /\ probe' = IF phase # "snapshot" THEN Continues(p, {phase})
                  ELSE Continues(Finds(p, "asterisk", up),
                                 {phase} \cup IF up THEN {} ELSE {"ami secret", "ami login"})
  BY <1>2, <1>4, <1>5, <1>6
<1>8. /\ snap.ssh_ok => ok /\ ssh_accepts(login)
      /\ ok /\ ssh_accepts(login) => snap.ssh_ok
      /\ up => pbx.asterisk
      /\ snap.ssh_ok \in BOOLEAN
  <2>1. CASE ok = TRUE
    <3>1. snap = [ssh_ok |-> ssh_accepts(login),
                  shown |-> IF ssh_accepts(login) THEN system_metrics(ran) \cup asterisk_status(ran) ELSE {}]
      BY <1>4, <2>1 DEF node_snapshot
    <3>2. ssh_accepts(login) \in BOOLEAN /\ snap.ssh_ok = ssh_accepts(login)
      BY <3>1 DEF ssh_accepts
    <3>3. "pgrep" \in snap.shown => pbx.asterisk
      <4>1. "pgrep" \in snap.shown => "pgrep" \in asterisk_status(ran)
        BY <3>1 DEF system_metrics
      <4> QED BY <4>1 DEF asterisk_status
    <3> QED BY <1>6, <2>1, <3>2, <3>3
  <2>2. CASE ok = FALSE
    <3>1. snap.ssh_ok = FALSE /\ snap.shown = {}
      BY <1>4, <2>2
    <3> QED BY <1>6, <2>2, <3>1
  <2> QED BY <1>3, <2>1, <2>2
<1>9. ssh_accepts(login) <=>
        /\ pbx.ssh
        /\ \/ key # "none" /\ sanitize_ssh_key(key) = "pem" /\ target.keyright
           \/ /\ ~(key # "none" /\ sanitize_ssh_key(key) \in {"raised", "pem"})
              /\ pwd # "none" /\ target.pwd = "good"
  BY DEF ssh_accepts, ssh_login
<1>12. PICK c : /\ c = <<phase, snap.ssh_ok>>
                /\ \/ snap.ssh_ok = TRUE /\ c = <<phase, TRUE>>
                   \/ snap.ssh_ok = FALSE /\ c = <<phase, FALSE>>
  <2>1. CASE snap.ssh_ok = TRUE
    BY <2>1
  <2>2. CASE snap.ssh_ok = FALSE
    BY <2>2
  <2> QED BY <1>8, <2>1, <2>2
<1>13. <<phase, TRUE>> # <<phase, FALSE>>
  OBVIOUS
<1>10. CASE key = "none" /\ pwd = "none"
  <2>1. ok = TRUE /\ p = probe
    BY <1>3, <1>5, <1>7, <1>10 DEF Marked
  <2>2. ~ssh_accepts(login) /\ snap.ssh_ok = FALSE
    BY <1>8, <1>9, <1>10
  <2>3. phase # "snapshot" => VerifyOK(probe, probe.plan \ {phase})
    <3> SUFFICES ASSUME phase # "snapshot", probe.op = "verify" PROVE VerifyOK(probe, probe.plan \ {phase})
      BY DEF VerifyOK
    <3>1. VerifyOK(probe, probe.plan)
      BY <1>1, PlannedIs
    <3>2. /\ phase = "key login" => "ssh key" \notin probe.plan
          /\ phase = "password login" => "ssh password" \notin probe.plan
      BY <1>1, VerifyOrder
    <3>3. /\ phase = "key login" => target.key = "none" \/ <<"ssh key", TRUE>> \notin probe.checks
          /\ phase = "password login" => target.pwd = "none" \/ <<"ssh password", TRUE>> \notin probe.checks
      BY <1>10 DEF Has
    <3> HIDE DEF AllPass, Right, key, pwd
    <3>4. CASE phase = "key login"
      BY <3>1, <3>2, <3>3, <3>4 DEF VerifyOK
    <3>5. CASE phase = "password login"
      BY <3>1, <3>2, <3>3, <3>5 DEF VerifyOK
    <3> QED BY <3>4, <3>5
  <2>4. CASE phase # "snapshot"
    <3>1. probe' = Continues(probe, {phase})
      BY <1>7, <2>1, <2>4
    <3>2. "core show uptime" \notin {phase}
      OBVIOUS
    <3> QED BY <1>1, <2>3, <2>4, <3>1, <3>2, PlanContinues
  <2>5. CASE phase = "snapshot"
    <3>1. /\ p \in Probe /\ Like(p, probe) /\ p.plan = probe.plan /\ p.conn = "none" /\ p.owed = <<>>
          /\ p.inbox = {} /\ p.answer = "none" /\ PollOK(p) /\ OutputOK(p) /\ PlanOK(p)
      BY <1>1, <2>1, PlannedIs DEF Like
    <3>2. up = TRUE \/ up = FALSE
      OBVIOUS
    <3> HIDE DEF key, pwd, login
    <3> QED BY <1>1, <1>7, <1>8, <2>5, <3>1, <3>2, SnapshotOK
  <2> QED BY <2>4, <2>5
<1>11. CASE ~(key = "none" /\ pwd = "none")
  <2>1. ChecksTo(p, probe, c)
    BY <1>5, <1>11, <1>12, FindsAdds, MarkedIs DEF ChecksTo
  <2>2. c = <<phase, TRUE>> \/ c = <<phase, FALSE>>
    BY <1>8, <1>12
  <2>3. ASSUME c = <<phase, FALSE>>, phase # "snapshot" PROVE p.flags # {} \/ ~Right
    <3>1. snap.ssh_ok = FALSE
      BY <1>12, <1>13, <2>3
    <3>2. CASE ok = FALSE
      <4>1. Marked(Adds(probe, <<phase, FALSE>>), ok, TRUE) = Slowed(Adds(probe, <<phase, FALSE>>))
        BY <3>2 DEF Marked, Slowed
      <4>2. p = Slowed(Adds(probe, <<phase, FALSE>>))
        BY <1>5, <1>11, <3>1, <4>1, FindsAdds
      <4>3. Adds(probe, <<phase, FALSE>>) \in Probe
        BY <1>1, PlannedIs, AddsIs DEF Check
      <4> QED BY <4>2, <4>3, SlowedIs
    <3>3. CASE ok = TRUE
      <4>1. ~ssh_accepts(login)
        BY <1>8, <3>1, <3>3
      <4>2. phase = "key login" => pwd = "none" /\ key = target.key /\ target.key # "none"
        BY <1>11
      <4>3. phase = "password login" => key = "none" /\ pwd = target.pwd /\ target.pwd # "none"
        BY <1>11
      <4>4. target.pwd \in {"none", "good", "bad"}
        BY DEF ProbeInv, Credential
      <4> HIDE DEF key, pwd, login
      <4> QED BY <1>9, <2>3, <4>1, <4>2, <4>3, <4>4 DEF Right
    <3> QED BY <1>3, <3>2, <3>3
  <2>4. ASSUME c = <<phase, TRUE>>
        PROVE  /\ phase = "key login" => target.keyright /\ sanitize_ssh_key(target.key) = "pem"
               /\ phase = "password login" => target.pwd = "good"
               /\ phase = "snapshot" => target.keyright \/ target.pwd = "good"
    <3>1. ssh_accepts(login)
      BY <1>8, <1>12, <1>13, <2>4
    <3>2. phase = "key login" => pwd = "none" /\ key = target.key
      BY <1>11
    <3>3. phase = "password login" => key = "none"
      BY <1>11
    <3> HIDE DEF key, pwd, login
    <3> QED BY <1>9, <3>1, <3>2, <3>3
  <2>5. ASSUME c = <<phase, TRUE>>, phase # "snapshot" PROVE VerifyOK(probe, probe.plan \ {phase})
    <3>1. VerifyOK(probe, probe.plan)
      BY <1>1, PlannedIs
    <3> HIDE DEF AllPass, Right, key, pwd, login
    <3>2. CASE phase = "key login"
      BY <2>4, <2>5, <3>1, <3>2 DEF VerifyOK
    <3>3. CASE phase = "password login"
      BY <2>4, <2>5, <3>1, <3>3 DEF VerifyOK
    <3> QED BY <2>5, <3>2, <3>3
  <2>6. <<phase, TRUE>> # <<phase, FALSE>>
    OBVIOUS
  <2>7. CASE phase # "snapshot"
    <3>1. probe' = Continues(p, {phase})
      BY <1>7, <2>7
    <3>2. phase \notin {"ssh port", "ami login", "snapshot", "core show uptime"}
      BY <2>7
    <3> HIDE DEF key, pwd, login
    <3> QED BY <1>1, <2>1, <2>2, <2>3, <2>5, <2>6, <2>7, <3>1, <3>2, CheckContinues
  <2>8. CASE phase = "snapshot"
    <3>1. probe.op # "verify"
      BY <1>1, <2>8, PlannedIs DEF PlanOK
    <3>2. probe \in Probe /\ c \in Check
      <4>1. <<phase, TRUE>> \in Check /\ <<phase, FALSE>> \in Check
        BY <1>1 DEF Check
      <4> QED BY <1>1, <2>2, <4>1, PlannedIs
    <3> HIDE DEF key, pwd, login
    <3>3. /\ p \in Probe /\ Like(p, probe) /\ p.checks = probe.checks \cup {c} /\ p.plan = probe.plan
          /\ p.conn = probe.conn /\ p.owed = probe.owed /\ p.inbox = probe.inbox /\ p.answer = probe.answer
          /\ "moved" \in p.flags <=> "moved" \in probe.flags
      <4>1. p \in Probe /\ Like(p, probe) /\ p.checks = probe.checks \cup {c} /\ p.plan = probe.plan
        BY ONLY <2>1, <3>2, CheckedIs
      <4>2. p.conn = probe.conn /\ p.owed = probe.owed /\ p.inbox = probe.inbox /\ p.answer = probe.answer
        BY ONLY <2>1, <3>2, CheckedIs
      <4>3. "moved" \in p.flags <=> "moved" \in probe.flags
        BY ONLY <2>1, <3>2, CheckedIs
      <4> QED BY <4>1, <4>2, <4>3
    <3>4. PollOK(p)
      <4>1. PollOK(probe) /\ (p.op = "poll" => probe.op = "poll")
        BY <1>1, <3>3, PlannedIs DEF Like
      <4>2. c # <<"ssh port", TRUE>> /\ c # <<"asterisk", TRUE>> /\ c # <<"ami login", TRUE>>
        <5>1. \A b, d : <<"snapshot", b>> # <<"ssh port", d>> /\ <<"snapshot", b>> # <<"asterisk", d>>
                         /\ <<"snapshot", b>> # <<"ami login", d>>
          OBVIOUS
        <5> QED BY <2>2, <2>8, <5>1
      <4>3. c = <<"snapshot", TRUE>> => target.keyright \/ target.pwd = "good"
        BY <2>4, <2>8
      <4> QED BY <3>3, <4>1, <4>2, <4>3 DEF PollOK
    <3>5. OutputOK(p) /\ PlanOK(p)
      BY <1>1, <3>2, <3>3, PlannedIs, MoreFlags DEF PlanOK, Like
    <3>6. p.conn = "none" /\ p.owed = <<>> /\ p.inbox = {} /\ p.answer = "none"
      BY <1>1, <3>3, PlannedIs
    <3>7. up = TRUE \/ up = FALSE
      OBVIOUS
    <3> QED BY <1>1, <1>7, <1>8, <2>8, <3>3, <3>4, <3>5, <3>6, <3>7, SnapshotOK
  <2> QED BY <2>7, <2>8
<1> QED BY <1>10, <1>11

(* The session *)

\* What holds of a request while its session is open.
LEMMA SessionIs ==
    ASSUME ProbeInv, InSession
    PROVE  /\ probe \in Probe /\ probe.cmd \in SessionPhases /\ probe.plan # {} /\ probe.answer = "none"
           /\ PlanOK(probe) /\ OutputOK(probe) /\ PollOK(probe) /\ VerifyOK(probe, probe.plan)
           /\ CheckOK(probe) /\ LineOK(probe) /\ probe.conn # "none"
           /\ "moved" \notin probe.flags => pbx.ami /\ pbx.asterisk
BY DEF ProbeInv, ProbeOK, LineOK, InSession

\* p, which is where the request is but for its line, keeps what does not depend on the line.
LEMMA LineStep ==
    ASSUME NEW p \in Probe, ProbeOK(p), NEW q \in Probe, Like(q, p), q.checks = p.checks, q.plan = p.plan,
           q.answer = p.answer, p.pc \notin {"idle", "done"}, q.pc \notin {"idle", "done"}, LineOK(q)
    PROVE  ProbeOK(q)
<1>1. OutputOK(q) /\ PollOK(q) /\ VerifyOK(q, q.plan)
  BY MoreFlags DEF ProbeOK
<1>2. CheckOK(q) /\ PlanOK(q)
  BY DEF ProbeOK, CheckOK, PlanOK, Like
<1> QED BY <1>1, <1>2 DEF ProbeOK

LEMMA AmiConnectsOK ==
    ASSUME ProbeInv, AmiConnects
    PROVE  ProbeOK(probe')
<1>1. PICK truth \in BOOLEAN : truth = (pbx.ami /\ pbx.asterisk)
  BY DEF ProbeInv, Node
<1>2. PICK cmd \in AmiCommands \cup {"ami login"}, ok \in Outcomes(truth) :
        LET p == [Marked(probe, ok, truth) EXCEPT !.cmd = cmd] IN
        /\ Doing(cmd)
        /\ Costs(ok, truth)
        /\ probe' = IF ok THEN [p EXCEPT !.pc = "banner", !.conn = "open"] ELSE SessionEnds(p, "amierror", {})
        /\ UNCHANGED <<pbx, target, changes>>
  <2>1. \E cmd \in AmiCommands \cup {"ami login"}, ok \in Outcomes(pbx.ami /\ pbx.asterisk) :
           LET p == [Marked(probe, ok, pbx.ami /\ pbx.asterisk) EXCEPT !.cmd = cmd] IN
           /\ Doing(cmd)
           /\ Costs(ok, pbx.ami /\ pbx.asterisk)
           /\ probe' = IF ok THEN [p EXCEPT !.pc = "banner", !.conn = "open"] ELSE SessionEnds(p, "amierror", {})
           /\ UNCHANGED <<pbx, target, changes>>
    BY Zenon DEF AmiConnects
  <2> QED BY <1>1, <2>1, Zenon
<1>3. /\ probe.pc = "plan" /\ probe.plan # {} /\ cmd \in SessionPhases
      /\ probe \in Probe /\ probe.conn = "none" /\ probe.owed = <<>> /\ probe.inbox = {}
      /\ probe.answer = "none" /\ PlanOK(probe) /\ OutputOK(probe) /\ PollOK(probe)
      /\ VerifyOK(probe, probe.plan) /\ CheckOK(probe)
  BY <1>2, PlannedIs DEF Doing, SessionPhases, ProbeInv, ProbeOK
<1>4. (ok = truth \/ ok = FALSE) /\ (ok = TRUE \/ ok = FALSE)
  BY <1>1, <1>2, OutcomeIs
<1>5. PICK m : m = Marked(probe, ok, truth)
  OBVIOUS
<1>6. /\ m \in Probe /\ Like(m, probe) /\ m.checks = probe.checks /\ m.pc = probe.pc
      /\ m.plan = probe.plan /\ m.conn = "none" /\ m.owed = <<>> /\ m.inbox = {} /\ m.answer = "none"
      /\ m.flags = {} => ok = truth
  <2>1. CASE ok = truth
    <3>1. m = probe
      BY <1>5, <2>1, MarkedIs
    <3> QED BY <1>3, <2>1, <3>1 DEF Like
  <2>2. CASE ok # truth
    <3>1. m = Slowed(probe)
      BY <1>5, <2>2, MarkedIs
    <3> QED BY <1>3, <3>1, SlowedIs
  <2> QED BY <2>1, <2>2
<1>7. PICK p : p = [m EXCEPT !.cmd = cmd]
  OBVIOUS
<1>8. /\ p \in Probe /\ p.cmd = cmd /\ Like(p, probe) /\ p.checks = probe.checks /\ p.pc = probe.pc
      /\ p.plan = probe.plan /\ p.conn = "none" /\ p.owed = <<>> /\ p.inbox = {} /\ p.answer = "none"
      /\ p.flags = m.flags
  <2>1. p \in Probe
    BY <1>3, <1>6, <1>7 DEF Probe
  <2>2. /\ p.cmd = cmd /\ p.checks = m.checks /\ p.pc = m.pc /\ p.op = m.op /\ p.outs = m.outs
        /\ p.leaks = m.leaks
        /\ p.plan = m.plan /\ p.conn = m.conn /\ p.owed = m.owed /\ p.inbox = m.inbox
        /\ p.answer = m.answer /\ p.flags = m.flags
    BY <1>6, <1>7 DEF Probe
  <2> QED BY <1>6, <2>1, <2>2 DEF Like
<1>9. probe' = IF ok THEN [p EXCEPT !.pc = "banner", !.conn = "open"] ELSE SessionEnds(p, "amierror", {})
  BY <1>2, <1>5, <1>7
<1>10. PlanOK(p) /\ OutputOK(p) /\ PollOK(p) /\ VerifyOK(p, p.plan)
  BY <1>3, <1>8, MoreFlags DEF PlanOK, Like
<1>11. CASE ok = TRUE
  <2>1. PICK q : q = [p EXCEPT !.pc = "banner", !.conn = "open"]
    OBVIOUS
  <2>2. probe' = q
    BY <1>9, <1>11, <2>1
  <2>3. /\ q \in Probe /\ q.pc = "banner" /\ q.conn = "open" /\ q.cmd = cmd /\ Like(q, p)
        /\ q.checks = p.checks /\ q.plan = p.plan /\ q.owed = <<>> /\ q.inbox = {} /\ q.answer = "none"
    <3>1. q \in Probe
      BY <1>8, <2>1 DEF Probe
    <3>2. /\ q.pc = "banner" /\ q.conn = "open" /\ q.cmd = p.cmd /\ q.op = p.op /\ q.outs = p.outs
          /\ q.leaks = p.leaks /\ q.flags = p.flags /\ q.checks = p.checks /\ q.plan = p.plan
          /\ q.owed = p.owed /\ q.inbox = p.inbox /\ q.answer = p.answer
      BY <1>8, <2>1 DEF Probe
    <3> QED BY <1>8, <3>1, <3>2 DEF Like
  <2>4. pbx.ami /\ pbx.asterisk
    BY <1>1, <1>4, <1>11
  <2>5. LineOK(q)
    BY <1>3, <2>3, <2>4 DEF LineOK
  <2>6. OutputOK(q) /\ PollOK(q) /\ VerifyOK(q, q.plan)
    BY <1>8, <1>10, <2>3, MoreFlags
  <2>7. CheckOK(q) /\ PlanOK(q)
    BY <1>3, <1>8, <2>3 DEF CheckOK, PlanOK, Like
  <2> QED BY <1>3, <1>8, <2>2, <2>3, <2>5, <2>6, <2>7 DEF ProbeOK
<1>12. CASE ok = FALSE
  <2>1. probe' = SessionEnds(p, "amierror", {})
    BY <1>9, <1>12
  <2>2. p.flags = {} => ~pbx.ami \/ ~pbx.asterisk
    BY <1>1, <1>6, <1>8, <1>12
  <2>3. "amierror" \in {"amierror", "oserror"}
    OBVIOUS
  <2> QED BY <1>3, <1>8, <1>10, <2>1, <2>2, <2>3, SessionFails
<1> QED BY <1>4, <1>11, <1>12

LEMMA ReadsBannerOK ==
    ASSUME ProbeInv, ReadsBanner
    PROVE  ProbeOK(probe')
<1>1. PICK q : q = [probe EXCEPT !.pc = "login", !.owed = <<"Login">>]
  OBVIOUS
<1>2. probe' = q /\ InSession /\ probe.pc = "banner" /\ ProbeOK(probe)
  BY <1>1 DEF ReadsBanner, InSession, ProbeInv
<1>3. /\ q \in Probe /\ q.pc = "login" /\ q.owed = <<"Login">>
      /\ q.conn = probe.conn /\ q.cmd = probe.cmd /\ q.op = probe.op /\ q.outs = probe.outs
      /\ q.leaks = probe.leaks /\ q.flags = probe.flags /\ q.checks = probe.checks /\ q.plan = probe.plan
      /\ q.inbox = probe.inbox /\ q.answer = probe.answer
  <2>1. <<"Login">> \in Seq(AmiCommands \cup {"Login", "Events"})
    OBVIOUS
  <2>2. probe \in Probe
    BY <1>2, SessionIs
  <2> QED BY <1>1, <2>1, <2>2 DEF Probe
<1>4. LineOK(q)
  BY <1>2, <1>3, SessionIs DEF LineOK
<1> QED BY <1>2, <1>3, <1>4, SessionIs, LineStep DEF Like

LEMMA ReadsLoginOK ==
    ASSUME ProbeInv, ReadsLogin
    PROVE  ProbeOK(probe')
<1>1. InSession /\ probe.pc = "login" /\ ProbeOK(probe)
  BY DEF ReadsLogin, InSession, ProbeInv
<1>2. CASE "Login accepted" \in probe.inbox
  <2>1. PICK q : q = [probe EXCEPT !.pc = "events", !.inbox = {}, !.owed = <<"Events">>]
    OBVIOUS
  <2>2. probe.owed = <<>> /\ target.ami = "good"
    BY <1>1, <1>2, SessionIs DEF LineOK
  <2>3. probe' = q
    BY <1>2, <2>1, <2>2, AppendTwo DEF ReadsLogin
  <2>4. /\ q \in Probe /\ q.pc = "events" /\ q.owed = <<"Events">>
        /\ q.conn = probe.conn /\ q.cmd = probe.cmd /\ q.op = probe.op /\ q.outs = probe.outs
        /\ q.leaks = probe.leaks /\ q.flags = probe.flags /\ q.checks = probe.checks /\ q.plan = probe.plan
        /\ q.inbox = {} /\ q.answer = probe.answer
    <3>1. <<"Events">> \in Seq(AmiCommands \cup {"Login", "Events"})
      OBVIOUS
    <3>2. probe \in Probe
      BY <1>1, SessionIs
    <3>3. PICK x : x = [probe EXCEPT !.pc = "events", !.inbox = {}]
      OBVIOUS
    <3>4. x \in Probe
      BY <3>2, <3>3 DEF Probe
    <3>5. q = [x EXCEPT !.owed = <<"Events">>]
      BY <2>1, <3>3
    <3>6. q \in Probe
      BY <3>1, <3>4, <3>5 DEF Probe
    <3>7. /\ q.pc = "events" /\ q.owed = <<"Events">>
          /\ q.conn = probe.conn /\ q.cmd = probe.cmd /\ q.op = probe.op /\ q.outs = probe.outs
          /\ q.leaks = probe.leaks /\ q.flags = probe.flags /\ q.checks = probe.checks /\ q.plan = probe.plan
          /\ q.inbox = {} /\ q.answer = probe.answer
      BY <2>1, <3>2 DEF Probe
    <3> QED BY <3>6, <3>7
  <2>5. LineOK(q)
    BY <1>1, <2>2, <2>4, SessionIs DEF LineOK
  <2> QED BY <1>1, <2>3, <2>4, <2>5, SessionIs, LineStep DEF Like
<1>3. CASE "Login accepted" \notin probe.inbox
  <2>1. probe' = SessionEnds(probe, "amierror", {})
    BY <1>3 DEF ReadsLogin
  <2>2. probe.flags = {} => target.ami = "bad"
    BY <1>1, <1>3, SessionIs DEF ReadsLogin, Readable, LineOK
  <2>3. "amierror" \in {"amierror", "oserror"}
    OBVIOUS
  <2> QED BY <1>1, <2>1, <2>2, <2>3, SessionIs, SessionFails
<1> QED BY <1>2, <1>3

LEMMA ReadsCommandOK ==
    ASSUME ProbeInv, ReadsCommand
    PROVE  ProbeOK(probe')
<1>1. InSession /\ probe.pc = "reply" /\ probe' = SessionEnds(probe, "ok", probe.inbox)
  BY DEF ReadsCommand, InSession
<1>2. /\ target.ami = "good" /\ probe.cmd \in AmiCommands
      /\ probe.inbox \subseteq {"event", "Events", probe.cmd}
  BY <1>1, SessionIs DEF LineOK
<1>3. probe.inbox = {probe.cmd} \/ probe.flags \cap {"late", "event", "hung"} # {}
  BY <1>1, <1>2, SessionIs DEF ReadsCommand, LineOK
<1>4. probe.inbox \in SUBSET Blocks
  BY <1>1, SessionIs DEF Probe
<1> QED BY <1>1, <1>2, <1>3, <1>4, SessionIs, SessionServes

LEMMA TailTwo ==
    ASSUME NEW x, NEW y
    PROVE  Head(<<x, y>>) = x /\ Tail(<<x, y>>) = <<y>>
<1> DEFINE S == {x, y}
<1>1. Head(<<x, y>>) = x
  OBVIOUS
<1>2. Tail(<<x, y>>) \in Seq(S) /\ <<y>> \in Seq(S) /\ Len(<<y>>) = 1 /\ Len(Tail(<<x, y>>)) = 1
  OBVIOUS
<1>3. Tail(<<x, y>>)[1] = y /\ <<y>>[1] = y
  OBVIOUS
<1>4. \A i \in 1..1 : Tail(<<x, y>>)[i] = <<y>>[i]
  BY <1>3
<1> QED BY <1>1, <1>2, <1>4, SeqEqual

LEMMA Ones == \A a, b, d : (<<a>> = <<b>> => a = b) /\ <<a>> # <<b, d>>
<1> TAKE a, b, d
<1>1. <<a>>[1] = a /\ <<b>>[1] = b /\ Len(<<a>>) = 1 /\ Len(<<b, d>>) = 2
  OBVIOUS
<1>2. Len(<<a>>) # Len(<<b, d>>)
  BY <1>1
<1> QED BY <1>1, <1>2

LEMMA ReadsEventsOK ==
    ASSUME ProbeInv, ReadsEvents
    PROVE  ProbeOK(probe')
<1>1. PICK p : p = [probe EXCEPT !.inbox = {}]
  OBVIOUS
<1>2. InSession /\ probe.pc = "events" /\ probe' = LoggedIn(p)
  BY <1>1 DEF ReadsEvents, InSession
<1>3. /\ p \in Probe /\ p.pc = "events" /\ p.owed = probe.owed
      /\ p.conn = probe.conn /\ p.cmd = probe.cmd /\ Like(p, probe)
      /\ p.flags = probe.flags /\ p.checks = probe.checks /\ p.plan = probe.plan
      /\ p.inbox = {} /\ p.answer = probe.answer
  <2>1. probe \in Probe
    BY <1>2, SessionIs
  <2> QED BY <1>1, <1>2, <2>1 DEF Probe, Like
<1>4. /\ target.ami = "good" /\ probe.inbox \subseteq {"event", "Events"}
      /\ probe.owed = <<>> \/ (probe.owed = <<"Events">> /\ "Events" \notin probe.inbox)
      /\ "event" \in probe.inbox => "event" \in probe.flags
      /\ probe.conn = "eof" => "hung" \in probe.flags
      /\ probe.conn = "reset" => probe.flags # {}
  BY <1>2, SessionIs DEF LineOK
<1>5. /\ p.owed \in {<<>>, <<"Events">>}
      /\ p.owed = <<"Events">> => p.flags \cap {"late", "event", "hung"} # {}
  <2>1. <<"Events">> # <<>>
    OBVIOUS
  <2>2. probe.inbox # {} \/ probe.conn = "eof"
    BY DEF ReadsEvents, Readable
  <2>3. CASE probe.inbox # {} /\ probe.owed = <<"Events">>
    <3>1. "Events" \notin probe.inbox
      BY <1>4, <2>1, <2>3
    <3>2. "event" \in probe.flags
      BY <1>4, <2>3, <3>1
    <3> QED BY <1>3, <1>4, <3>2
  <2>4. CASE probe.conn = "eof"
    BY <1>3, <1>4, <2>4
  <2>5. CASE probe.owed = <<>>
    BY <1>3, <2>1, <2>5
  <2> QED BY <1>4, <2>2, <2>3, <2>4, <2>5
<1>6. PlanOK(p) /\ OutputOK(p) /\ PollOK(p) /\ VerifyOK(p, p.plan) /\ CheckOK(p)
  BY <1>2, <1>3, SessionIs, MoreFlags DEF PlanOK, CheckOK, Like
<1>7. /\ p.cmd \in SessionPhases /\ p.plan # {} /\ p.answer = "none" /\ p.conn # "none"
      /\ "moved" \notin p.flags => pbx.ami /\ pbx.asterisk
      /\ p.conn = "eof" => "hung" \in p.flags
      /\ p.conn = "reset" => p.flags # {}
  BY <1>2, <1>3, <1>4, SessionIs
<1> QED BY ONLY <1>2, <1>3, <1>4, <1>5, <1>6, <1>7, LoggedInOK

LEMMA TimesOutOK ==
    ASSUME ProbeInv, SessionTimesOut
    PROVE  ProbeOK(probe')
<1>1. InSession /\ probe.conn = "open" /\ Silent
  BY DEF SessionTimesOut
<1>2. probe' = SessionGivesUp(Slowed(probe))
  BY DEF SessionTimesOut, Slowed
<1>3. PICK s : s = Slowed(probe)
  OBVIOUS
<1>4. /\ s \in Probe /\ Like(s, probe) /\ "slow" \in s.flags /\ s.checks = probe.checks
      /\ s.pc = probe.pc /\ s.plan = probe.plan /\ s.cmd = probe.cmd /\ s.conn = probe.conn
      /\ s.owed = probe.owed /\ s.inbox = probe.inbox /\ s.answer = probe.answer
      /\ "moved" \in s.flags <=> "moved" \in probe.flags
  BY <1>1, <1>3, SessionIs, SlowedIs
<1>5. PlanOK(s) /\ OutputOK(s) /\ PollOK(s) /\ VerifyOK(s, s.plan) /\ CheckOK(s)
  BY <1>1, <1>4, SessionIs, MoreFlags DEF PlanOK, CheckOK, Like
<1>6. s.cmd \in SessionPhases /\ s.plan # {} /\ s.answer = "none" /\ "amierror" \in {"amierror", "oserror"}
  BY <1>1, <1>4, SessionIs
<1>7. CASE probe.pc = "events"
  <2>1. PICK p : p = [s EXCEPT !.flags = s.flags \cup {"late"}]
    OBVIOUS
  <2>2. probe' = LoggedIn(p)
    BY <1>2, <1>3, <1>4, <1>7, <2>1 DEF SessionGivesUp
  <2>3. /\ p \in Probe /\ Like(p, s) /\ p.pc = s.pc /\ p.owed = s.owed /\ p.conn = s.conn /\ p.cmd = s.cmd
        /\ p.flags = s.flags \cup {"late"} /\ p.checks = s.checks /\ p.plan = s.plan
        /\ p.inbox = s.inbox /\ p.answer = s.answer
    <3>1. p \in Probe
      BY <1>4, <2>1 DEF Probe
    <3>2. /\ p.pc = s.pc /\ p.owed = s.owed /\ p.conn = s.conn /\ p.cmd = s.cmd
          /\ p.op = s.op /\ p.outs = s.outs /\ p.leaks = s.leaks
          /\ p.flags = s.flags \cup {"late"} /\ p.checks = s.checks /\ p.plan = s.plan
          /\ p.inbox = s.inbox /\ p.answer = s.answer
      BY <1>4, <2>1 DEF Probe
    <3> QED BY <3>1, <3>2 DEF Like
  <2>4. PlanOK(p) /\ OutputOK(p) /\ PollOK(p) /\ VerifyOK(p, p.plan) /\ CheckOK(p)
    BY <1>4, <1>5, <2>3, MoreFlags DEF PlanOK, CheckOK, Like
  <2>5. target.ami = "good" /\ probe.owed \in {<<>>, <<"Events">>}
    BY <1>1, <1>7, SessionIs DEF LineOK
  <2>6. /\ p.pc = "events" /\ p.cmd \in SessionPhases /\ p.plan # {} /\ p.answer = "none"
        /\ p.conn = "open" /\ p.inbox = {} /\ p.owed \in {<<>>, <<"Events">>}
        /\ "moved" \notin p.flags => pbx.ami /\ pbx.asterisk
        /\ p.flags \cap {"late", "event", "hung"} # {}
    BY <1>1, <1>4, <1>6, <1>7, <2>3, <2>5, SessionIs DEF Silent
  <2> QED BY <2>2, <2>3, <2>4, <2>5, <2>6, LoggedInOK
<1>8. CASE probe.pc = "login"
  <2>1. PICK p : p = [s EXCEPT !.leaks = s.leaks + 1, !.flags = s.flags \cup {"deaf"}]
    OBVIOUS
  <2>2. probe' = SessionEnds(p, "amierror", {})
    BY <1>2, <1>3, <1>4, <1>8, <2>1 DEF SessionGivesUp
  <2>3. /\ p \in Probe /\ p.op = s.op /\ p.outs = s.outs /\ p.cmd = s.cmd
        /\ p.flags = s.flags \cup {"deaf"} /\ p.checks = s.checks /\ p.plan = s.plan /\ p.answer = s.answer
    <3>1. s.leaks + 1 \in Nat
      <4>1. s.leaks \in Nat
        BY <1>4 DEF Probe
      <4> QED BY <4>1
    <3>2. p \in Probe
      BY <1>4, <2>1, <3>1 DEF Probe
    <3>3. /\ p.op = s.op /\ p.outs = s.outs /\ p.cmd = s.cmd
          /\ p.flags = s.flags \cup {"deaf"} /\ p.checks = s.checks /\ p.plan = s.plan /\ p.answer = s.answer
      BY <1>4, <2>1 DEF Probe
    <3> QED BY <3>2, <3>3
  <2>4. PlanOK(p) /\ OutputOK(p) /\ PollOK(p)
    BY <1>5, <2>3 DEF PlanOK, OutputOK, PollOK
  <2> QED BY <1>6, <2>2, <2>3, <2>4, SessionFails
<1>9. CASE probe.pc \notin {"events", "login"}
  <2>1. probe' = SessionEnds(s, "amierror", {})
    BY <1>2, <1>3, <1>4, <1>9 DEF SessionGivesUp
  <2> QED BY <1>4, <1>5, <1>6, <2>1, SessionFails
<1> QED BY <1>7, <1>8, <1>9

LEMMA BreaksOK ==
    ASSUME ProbeInv, SessionBreaks
    PROVE  ProbeOK(probe')
<1>1. InSession /\ probe.flags # {}
  BY SessionIs DEF SessionBreaks, LineOK
<1>2. PICK how \in {"amierror", "oserror"} : probe' = SessionEnds(probe, how, {})
  BY DEF SessionBreaks
<1> QED BY <1>1, <1>2, SessionIs, SessionFails

(* The node *)

LEMMA NodeRepliesOK ==
    ASSUME ProbeInv, NodeReplies
    PROVE  ProbeOK(probe')
<1>1. PICK new : new = IF Head(probe.owed) # "Login" THEN Head(probe.owed)
                       ELSE IF target.ami = "good" THEN "Login accepted" ELSE "Login refused"
  OBVIOUS
<1>2. PICK q : q = [probe EXCEPT !.owed = Tail(probe.owed), !.inbox = probe.inbox \cup {new}]
  OBVIOUS
<1>3. probe' = q
  BY <1>1, <1>2 DEF NodeReplies
<1>4. probe.conn = "open" /\ probe.owed # <<>> /\ ProbeOK(probe) /\ probe \in Probe
  BY DEF NodeReplies, ProbeInv, ProbeOK
<1>5. InSession
  BY <1>4 DEF InSession, ProbeOK, LineOK, Probe
<1>6. probe.owed \in Seq(AmiCommands \cup {"Login", "Events"})
  BY <1>4 DEF Probe
<1>7. \/ probe.pc = "login" /\ probe.owed = <<"Login">> /\ probe.inbox = {}
      \/ probe.pc = "events" /\ probe.owed = <<"Events">>
      \/ probe.pc = "reply" /\ probe.cmd \in AmiCommands /\ probe.owed \in {<<probe.cmd>>, <<"Events", probe.cmd>>}
  BY <1>4, <1>5 DEF InSession, ProbeOK, LineOK
<1>8. /\ new \in Blocks
      /\ probe.owed = <<"Login">> => Tail(probe.owed) = <<>> /\ new \in {"Login accepted", "Login refused"}
                                     /\ (new = "Login accepted" <=> target.ami = "good")
      /\ probe.owed = <<"Events">> => Tail(probe.owed) = <<>> /\ new = "Events"
      /\ probe.owed = <<probe.cmd>> /\ probe.pc = "reply" => Tail(probe.owed) = <<>> /\ new = probe.cmd
      /\ probe.owed = <<"Events", probe.cmd>> => Tail(probe.owed) = <<probe.cmd>> /\ new = "Events"
  <2>1. \A a : Head(<<a>>) = a /\ Tail(<<a>>) = <<>>
    OBVIOUS
  <2>2. \A a, b : Head(<<a, b>>) = a /\ Tail(<<a, b>>) = <<b>>
    BY TailTwo
  <2>8. \A a, b, d : (<<a>> = <<b>> => a = b) /\ <<a>> # <<b, d>>
    BY Ones
  <2>3. "Login" \notin AmiCommands /\ AmiCommands \subseteq Blocks /\ "Events" \in Blocks
        /\ "Login accepted" \in Blocks /\ "Login refused" \in Blocks
    BY DEF AmiCommands, Blocks
  <2>4. CASE probe.owed = <<"Login">>
    <3>1. new \in {"Login accepted", "Login refused"} /\ (new = "Login accepted" <=> target.ami = "good")
          /\ Tail(probe.owed) = <<>>
      BY <1>1, <2>1, <2>4
    <3>2. probe.owed # <<"Events">> /\ probe.owed # <<"Events", probe.cmd>>
          /\ (probe.owed = <<probe.cmd>> => probe.pc # "reply")
      BY <1>7, <2>3, <2>4, <2>8
    <3> QED BY <2>3, <3>1, <3>2
  <2>5. CASE probe.owed = <<"Events">>
    <3>1. new = "Events" /\ Tail(probe.owed) = <<>>
      BY <1>1, <2>1, <2>5
    <3>2. probe.owed # <<"Login">> /\ probe.owed # <<"Events", probe.cmd>>
          /\ (probe.owed = <<probe.cmd>> => probe.cmd = "Events")
      BY <2>5
    <3> QED BY <2>3, <3>1, <3>2
  <2>6. CASE probe.owed = <<probe.cmd>> /\ probe.pc = "reply"
    <3>1. probe.cmd \in AmiCommands
      BY <1>7, <2>6
    <3>2. new = probe.cmd /\ Tail(probe.owed) = <<>>
      BY <1>1, <2>1, <2>3, <2>6, <3>1
    <3>3. probe.owed # <<"Login">> /\ probe.owed # <<"Events", probe.cmd>> /\ "Events" \notin AmiCommands
          /\ (probe.owed = <<"Events">> => probe.cmd = "Events")
      BY <2>3, <2>6, <2>8, <3>1 DEF AmiCommands
    <3> QED BY <2>3, <3>1, <3>2, <3>3
  <2>7. CASE probe.owed = <<"Events", probe.cmd>>
    <3>1. new = "Events" /\ Tail(probe.owed) = <<probe.cmd>>
      BY <1>1, <2>2, <2>7
    <3>2. probe.owed # <<"Login">> /\ probe.owed # <<"Events">> /\ probe.owed # <<probe.cmd>>
      BY <2>7
    <3> QED BY <2>3, <3>1, <3>2
  <2> QED BY <1>7, <2>4, <2>5, <2>6, <2>7
<1>9. /\ q \in Probe /\ Like(q, probe) /\ q.pc = probe.pc /\ q.cmd = probe.cmd /\ q.conn = "open"
      /\ q.checks = probe.checks /\ q.plan = probe.plan /\ q.answer = probe.answer /\ q.flags = probe.flags
      /\ q.owed = Tail(probe.owed) /\ q.inbox = probe.inbox \cup {new}
  <2>1. Tail(probe.owed) \in Seq(AmiCommands \cup {"Login", "Events"})
    BY <1>4, <1>6
  <2>2. PICK x : x = [probe EXCEPT !.owed = Tail(probe.owed)]
    OBVIOUS
  <2>3. x \in Probe
    BY <1>4, <2>1, <2>2 DEF Probe
  <2>4. q = [x EXCEPT !.inbox = probe.inbox \cup {new}] /\ probe.inbox \cup {new} \in SUBSET Blocks
    BY <1>2, <1>4, <1>8, <2>2 DEF Probe
  <2>5. q \in Probe
    BY <2>3, <2>4 DEF Probe
  <2>6. /\ q.op = probe.op /\ q.outs = probe.outs /\ q.leaks = probe.leaks
        /\ q.pc = probe.pc /\ q.cmd = probe.cmd /\ q.conn = probe.conn
        /\ q.checks = probe.checks /\ q.plan = probe.plan /\ q.answer = probe.answer /\ q.flags = probe.flags
        /\ q.owed = Tail(probe.owed) /\ q.inbox = probe.inbox \cup {new}
    BY <1>2, <1>4 DEF Probe
  <2> QED BY <1>4, <2>5, <2>6 DEF Like
<1>10. LineOK(q)
  <2>1. target.ami \in {"good", "bad"}
    BY DEF ProbeInv, Credential
  <2>2. LineOK(probe)
    BY <1>4 DEF ProbeOK
  <2>3. "Events" \notin AmiCommands /\ "event" \notin AmiCommands
    BY DEF AmiCommands
  <2>4. CASE probe.pc = "login" /\ probe.owed = <<"Login">> /\ probe.inbox = {}
    <3>1. /\ q.pc = "login" /\ q.owed = <<>> /\ q.inbox = {new}
          /\ new \in {"Login accepted", "Login refused"} /\ (new = "Login accepted" <=> target.ami = "good")
      BY <1>8, <1>9, <2>4
    <3> QED BY <1>9, <2>1, <2>2, <2>4, <3>1 DEF LineOK
  <2>5. CASE probe.pc = "events" /\ probe.owed = <<"Events">>
    <3>1. q.pc = "events" /\ q.owed = <<>> /\ q.inbox = probe.inbox \cup {"Events"}
      BY <1>8, <1>9, <2>5
    <3> QED BY <1>9, <2>2, <2>5, <3>1 DEF LineOK
  <2>6. CASE probe.pc = "reply" /\ probe.cmd \in AmiCommands /\ probe.owed = <<probe.cmd>>
    <3>1. q.pc = "reply" /\ q.owed = <<>> /\ q.inbox = probe.inbox \cup {q.cmd}
      BY <1>8, <1>9, <2>6
    <3> QED BY <1>9, <2>2, <2>3, <2>6, <3>1 DEF LineOK
  <2>7. CASE probe.pc = "reply" /\ probe.cmd \in AmiCommands /\ probe.owed = <<"Events", probe.cmd>>
    <3>1. q.pc = "reply" /\ q.owed = <<q.cmd>> /\ q.inbox = probe.inbox \cup {"Events"}
      BY <1>8, <1>9, <2>7
    <3> QED BY <1>9, <2>2, <2>3, <2>7, <3>1 DEF LineOK
  <2> QED BY <1>7, <2>4, <2>5, <2>6, <2>7
<1> QED BY <1>3, <1>4, <1>5, <1>9, <1>10, LineStep DEF InSession

LEMMA NodeSendsEventOK ==
    ASSUME ProbeInv, NodeSendsEvent
    PROVE  ProbeOK(probe')
<1>1. PICK q : q = [probe EXCEPT !.inbox = probe.inbox \cup {"event"}, !.flags = probe.flags \cup {"event"}]
  OBVIOUS
<1>2. probe' = q /\ probe.conn = "open" /\ ProbeOK(probe) /\ probe \in Probe
  BY <1>1 DEF NodeSendsEvent, ProbeInv, ProbeOK
<1>3. InSession
  BY <1>2 DEF InSession, ProbeOK, LineOK, Probe
<1>4. /\ q \in Probe /\ Like(q, probe) /\ q.pc = probe.pc /\ q.cmd = probe.cmd /\ q.conn = "open"
      /\ q.checks = probe.checks /\ q.plan = probe.plan /\ q.answer = probe.answer
      /\ q.flags = probe.flags \cup {"event"}
      /\ q.owed = probe.owed /\ q.inbox = probe.inbox \cup {"event"}
  <2>1. "event" \in Blocks
    BY DEF Blocks
  <2>2. q \in Probe
    BY <1>1, <1>2, <2>1 DEF Probe
  <2>3. /\ q.op = probe.op /\ q.outs = probe.outs /\ q.leaks = probe.leaks
        /\ q.pc = probe.pc /\ q.cmd = probe.cmd /\ q.conn = probe.conn
        /\ q.checks = probe.checks /\ q.plan = probe.plan /\ q.answer = probe.answer
        /\ q.flags = probe.flags \cup {"event"}
        /\ q.owed = probe.owed /\ q.inbox = probe.inbox \cup {"event"}
    BY <1>1, <1>2 DEF Probe
  <2> QED BY <1>2, <2>2, <2>3 DEF Like
<1>5. LineOK(q)
  <2>1. LineOK(probe)
    BY <1>2 DEF ProbeOK
  <2>2. \/ probe.pc = "login" /\ "Login accepted" \in probe.inbox
        \/ \E n \in DOMAIN probe.owed : probe.owed[n] = "Events"
    BY DEF NodeSendsEvent
  <2>3. probe.owed # <<>> \/ (probe.pc = "login" /\ "Login accepted" \in probe.inbox)
    <3>1. probe.owed = <<>> => DOMAIN probe.owed = {}
      OBVIOUS
    <3> QED BY <2>2, <3>1
  <2>4. probe.owed # <<"Login">> \/ (probe.pc = "login" /\ "Login accepted" \in probe.inbox)
    <3>1. ASSUME probe.owed = <<"Login">>, NEW n \in DOMAIN probe.owed PROVE probe.owed[n] # "Events"
      BY <3>1
    <3> QED BY <2>2, <3>1
  <2>5. CASE probe.pc = "login"
    <3>1. "Login accepted" \in probe.inbox
      BY <2>1, <2>3, <2>4, <2>5 DEF LineOK
    <3> QED BY <1>4, <2>1, <2>5, <3>1 DEF LineOK
  <2>6. CASE probe.pc \in {"events", "reply"}
    BY <1>4, <2>1, <2>6 DEF LineOK
  <2>7. CASE probe.pc = "banner"
    BY <2>1, <2>3, <2>7 DEF LineOK
  <2> QED BY <1>3, <2>5, <2>6, <2>7 DEF InSession
<1> QED BY <1>2, <1>3, <1>4, <1>5, LineStep DEF InSession

LEMMA NodeHangsUpOK ==
    ASSUME ProbeInv, NEW how \in {"eof", "reset"}, NodeHangsUp(how)
    PROVE  ProbeOK(probe')
<1>1. PICK q : q = [probe EXCEPT !.conn = how, !.owed = <<>>, !.flags = probe.flags \cup {"slow", "hung"}]
  OBVIOUS
<1>2. probe' = q /\ probe.conn = "open" /\ ProbeOK(probe) /\ probe \in Probe
  BY <1>1 DEF NodeHangsUp, ProbeInv, ProbeOK
<1>3. InSession
  BY <1>2 DEF InSession, ProbeOK, LineOK, Probe
<1>4. /\ q \in Probe /\ Like(q, probe) /\ q.pc = probe.pc /\ q.cmd = probe.cmd /\ q.conn = how
      /\ q.checks = probe.checks /\ q.plan = probe.plan /\ q.answer = probe.answer
      /\ q.flags = probe.flags \cup {"slow", "hung"}
      /\ q.owed = <<>> /\ q.inbox = probe.inbox
  <2>1. <<>> \in Seq(AmiCommands \cup {"Login", "Events"})
    OBVIOUS
  <2>2. PICK x : x = [probe EXCEPT !.conn = how, !.owed = <<>>]
    OBVIOUS
  <2>3. x \in Probe
    BY <1>2, <2>1, <2>2 DEF Probe
  <2>4. q = [x EXCEPT !.flags = probe.flags \cup {"slow", "hung"}]
    BY <1>1, <2>2
  <2>5. probe.flags \cup {"slow", "hung"} \in SUBSET {"slow", "late", "deaf", "event", "hung", "moved"}
    BY <1>2 DEF Probe
  <2>6. q \in Probe
    BY <2>3, <2>4, <2>5 DEF Probe
  <2>7. /\ q.op = probe.op /\ q.outs = probe.outs /\ q.leaks = probe.leaks
        /\ q.pc = probe.pc /\ q.cmd = probe.cmd /\ q.conn = how
        /\ q.checks = probe.checks /\ q.plan = probe.plan /\ q.answer = probe.answer
        /\ q.flags = probe.flags \cup {"slow", "hung"}
        /\ q.owed = <<>> /\ q.inbox = probe.inbox
    BY <1>1, <1>2 DEF Probe
  <2> QED BY <1>2, <2>6, <2>7 DEF Like
<1>5. LineOK(q)
  <2>1. LineOK(probe)
    BY <1>2 DEF ProbeOK
  <2>2. how # "none"
    OBVIOUS
  <2> QED BY <1>3, <1>4, <2>1, <2>2 DEF LineOK, InSession
<1> QED BY <1>2, <1>3, <1>4, <1>5, LineStep DEF InSession

\* The node moves: what a request finds from now on is not promised.
LEMMA NodeMovesOK ==
    ASSUME ProbeInv, NEW what \in {"ssh", "ami", "asterisk"}, NodeChanges(what)
    PROVE  ProbeInv'
<1>1. pbx' \in Node
  <2>1. pbx \in Node /\ pbx' = [pbx EXCEPT ![what] = ~@]
    BY DEF ProbeInv, NodeChanges
  <2>2. pbx' = [pbx EXCEPT ![what] = ~pbx[what]]
    BY <2>1
  <2>3. CASE what = "ssh"
    BY <2>1, <2>2, <2>3 DEF Node
  <2>4. CASE what = "ami"
    BY <2>1, <2>2, <2>4 DEF Node
  <2>5. CASE what = "asterisk"
    BY <2>1, <2>2, <2>5 DEF Node
  <2> QED BY <2>3, <2>4, <2>5
<1>2. target' = target /\ target \in Credential /\ ProbeOK(probe) /\ probe \in Probe
  BY DEF ProbeInv, NodeChanges, ProbeOK
<1>3. PICK flags : flags = IF probe.pc = "idle" THEN probe.flags ELSE probe.flags \cup {"moved"}
  OBVIOUS
<1>4. PICK conn : conn = IF what = "asterisk" /\ probe.conn = "open" THEN "reset" ELSE probe.conn
  OBVIOUS
<1>5. PICK q : q = [probe EXCEPT !.flags = flags, !.conn = conn]
  OBVIOUS
<1>6. probe' = q /\ probe.pc # "done"
  BY <1>3, <1>4, <1>5 DEF NodeChanges
<1>7. /\ flags \in SUBSET {"slow", "late", "deaf", "event", "hung", "moved"}
      /\ conn \in {"none", "open", "eof", "reset"}
  BY <1>2, <1>3, <1>4 DEF Probe
<1>8. /\ q \in Probe /\ q.pc = probe.pc /\ q.cmd = probe.cmd /\ q.conn = conn /\ q.flags = flags
      /\ q.checks = probe.checks /\ q.plan = probe.plan /\ q.answer = probe.answer
      /\ q.op = probe.op /\ q.outs = probe.outs /\ q.leaks = probe.leaks
      /\ q.owed = probe.owed /\ q.inbox = probe.inbox
  <2>1. q \in Probe
    BY <1>2, <1>5, <1>7 DEF Probe
  <2>2. /\ q.pc = probe.pc /\ q.cmd = probe.cmd /\ q.conn = conn /\ q.flags = flags
        /\ q.checks = probe.checks /\ q.plan = probe.plan /\ q.answer = probe.answer
        /\ q.op = probe.op /\ q.outs = probe.outs /\ q.leaks = probe.leaks
        /\ q.owed = probe.owed /\ q.inbox = probe.inbox
    BY <1>2, <1>5 DEF Probe
  <2> QED BY <2>1, <2>2
<1>9. CASE probe.pc = "idle"
  <2>1. probe = NoProbe
    BY <1>2, <1>9 DEF ProbeOK
  <2>2. flags = probe.flags /\ conn = probe.conn
    <3>1. probe.conn = "none"
      BY <2>1, NoProbeIs
    <3> QED BY <1>3, <1>4, <1>9, <3>1
  <2>3. q = NoProbe
    <3>1. [probe EXCEPT !.flags = probe.flags, !.conn = probe.conn] = probe
      BY <1>2 DEF Probe
    <3> QED BY <1>5, <2>1, <2>2, <3>1
  <2>4. ProbeOK(NoProbe)'
    BY IdleOK, PTL
  <2> QED BY <1>1, <1>2, <1>6, <2>3, <2>4 DEF ProbeInv
<1>10. CASE probe.pc # "idle"
  <2>1. "moved" \in flags /\ probe.flags \subseteq flags
    BY <1>3, <1>10
  <2>2. /\ PlanOK(q) /\ (q.pc \in {"idle", "done"} <=> q.plan = {}) /\ q.pc \notin {"idle", "done"}
        /\ q.answer = "none"
    BY <1>2, <1>6, <1>8, <1>10 DEF PlanOK, ProbeOK
  <2>3. OutputOK(q)
    BY <1>2, <1>8, <2>1, MoreFlags DEF ProbeOK, Like
  <2>4. VerifyOK(q, q.plan)' /\ PollOK(q)'
    BY <1>6, <1>8, <2>1 DEF VerifyOK, PollOK
  <2>5. CheckOK(q)'
    BY <1>2, <1>8, <2>2 DEF CheckOK, ProbeOK
  <2>6. LineOK(q)'
    BY <1>2, <1>4, <1>8, <2>1 DEF LineOK, ProbeOK
  <2> QED BY <1>1, <1>2, <1>6, <1>8, <2>2, <2>3, <2>4, <2>5, <2>6 DEF ProbeInv, ProbeOK, PlanOK, OutputOK
<1> QED BY <1>9, <1>10

\* Every other step leaves the node and the target as they are.
LEMMA SameNode ==
    ASSUME ProbeInv, pbx' = pbx, target' = target, ProbeOK(probe')
    PROVE  ProbeInv'
<1>1. LineOK(probe)'
  BY DEF ProbeOK, LineOK
<1>2. VerifyOK(probe, probe.plan)'
  BY DEF ProbeOK, VerifyOK, AllPass, Right
<1>3. PollOK(probe)' /\ CheckOK(probe)'
  BY DEF ProbeOK, PollOK, CheckOK
<1>4. OutputOK(probe)' /\ PlanOK(probe)'
  BY DEF ProbeOK, OutputOK, PlanOK
<1>5. /\ probe' \in Probe
      /\ probe'.pc \in {"idle", "done"} <=> probe'.plan = {}
      /\ probe'.pc = "idle" => probe' = NoProbe
      /\ probe'.pc # "done" => probe'.answer = "none"
  BY DEF ProbeOK
<1> QED BY <1>1, <1>2, <1>3, <1>4, <1>5 DEF ProbeInv, ProbeOK

LEMMA ProbeSteps ==
    ASSUME ProbeInv, [ProbeNext]_probeVars
    PROVE  ProbeInv'
<1>1. ASSUME NEW op \in Requests, ProbeStarts(op) PROVE ProbeInv'
  BY <1>1, StartsOK, SameNode DEF ProbeStarts
<1>2. CASE FetchesAmiSecret
  <2>1. ProbeOK(probe')
    BY <1>2, FetchesOK DEF FetchesAmiSecret
  <2> QED BY <1>2, <2>1, SameNode DEF FetchesAmiSecret, ProbeFetches
<1>3. CASE FetchesSshKey
  <2>1. ProbeOK(probe')
    BY <1>3, FetchesOK DEF FetchesSshKey
  <2> QED BY <1>3, <2>1, SameNode DEF FetchesSshKey, ProbeFetches
<1>4. CASE FetchesSshPassword
  <2>1. ProbeOK(probe')
    BY <1>4, FetchesOK DEF FetchesSshPassword
  <2> QED BY <1>4, <2>1, SameNode DEF FetchesSshPassword, ProbeFetches
<1>5. CASE ChecksSshPort \/ ChecksAmiPort
  BY <1>5, ChecksPortsOK, SameNode DEF ChecksSshPort, ChecksAmiPort
<1>6. ASSUME NEW phase \in {"key login", "password login", "snapshot"}, LogsInBySsh(phase) PROVE ProbeInv'
  BY <1>6, LoginsOK, SameNode DEF LogsInBySsh
<1>7. CASE AmiConnects
  BY <1>7, AmiConnectsOK, SameNode DEF AmiConnects
<1>8. CASE ReadsBanner
  BY <1>8, ReadsBannerOK, SameNode DEF ReadsBanner
<1>9. CASE ReadsLogin
  BY <1>9, ReadsLoginOK, SameNode DEF ReadsLogin
<1>10. CASE ReadsEvents
  BY <1>10, ReadsEventsOK, SameNode DEF ReadsEvents
<1>11. CASE ReadsCommand
  BY <1>11, ReadsCommandOK, SameNode DEF ReadsCommand
<1>12. CASE SessionTimesOut
  BY <1>12, TimesOutOK, SameNode DEF SessionTimesOut
<1>13. CASE SessionBreaks
  BY <1>13, BreaksOK, SameNode DEF SessionBreaks
<1>14. CASE NodeReplies
  BY <1>14, NodeRepliesOK, SameNode DEF NodeReplies
<1>15. CASE NodeSendsEvent
  BY <1>15, NodeSendsEventOK, SameNode DEF NodeSendsEvent
<1>16. ASSUME NEW how \in {"eof", "reset"}, NodeHangsUp(how) PROVE ProbeInv'
  BY <1>16, NodeHangsUpOK, SameNode DEF NodeHangsUp
<1>17. ASSUME NEW what \in {"ssh", "ami", "asterisk"}, NodeChanges(what) PROVE ProbeInv'
  BY <1>17, NodeMovesOK
<1>18. CASE UNCHANGED probeVars
  <2>1. ProbeOK(probe')
    BY <1>18 DEF probeVars, ProbeInv
  <2> QED BY <1>18, <2>1, SameNode DEF probeVars
<1> QED
  BY <1>1, <1>2, <1>3, <1>4, <1>5, <1>6, <1>7, <1>8, <1>9, <1>10, <1>11, <1>12, <1>13, <1>14, <1>15,
     <1>16, <1>17, <1>18 DEF ProbeNext, Requests

\* The invariant says more than the property: where the checks of a verification have all
\* passed, nothing is left to do when it has answered.
LEMMA ProbeInvTruth == ProbeInv => ProbesAreTrue
<1> SUFFICES ASSUME ProbeInv PROVE ProbesAreTrue
  OBVIOUS
<1>1. OutputIsOwn /\ NothingLeftOpen
  BY DEF ProbeInv, ProbeOK, OutputOK, OutputIsOwn, NothingLeftOpen
<1>2. ProbeOK(probe) /\ (probe.pc = "done" => probe.plan = {})
  BY DEF ProbeInv, ProbeOK
<1>3. VerifyIsTrue
  <2> SUFFICES ASSUME Done("verify")
               PROVE  (AllPass(probe) => Right) /\ (probe.flags = {} /\ Right => AllPass(probe))
    BY DEF VerifyIsTrue, AllPass, Right
  <2>1. VerifyOK(probe, {}) /\ probe.op = "verify" /\ "moved" \notin probe.flags
    BY <1>2 DEF Done, ProbeOK
  <2>2. AllPass(probe) => Right
    BY <2>1 DEF VerifyOK, Right
  <2> QED BY <2>1, <2>2 DEF VerifyOK
<1>4. FindingsAreTrue
  BY <1>2 DEF FindingsAreTrue, Done, Has, ProbeOK, PollOK, CheckOK
<1> QED BY <1>1, <1>3, <1>4 DEF ProbesAreTrue

\* What the PBX agent tells those who wait about a node is so: the output of a command is
\* the node's reply to it, connections are closed, a verification whose checks all pass
\* means that every credential is right and a right target fails none of them unless
\* something was slow, and the fleet page and ami_check do not report what is not there.
\* For every set of credentials and any number of slow answers and changes of the node.
THEOREM PbxProbesAreTrue == AgentSpec => []ProbesAreTrue
<1>1. AgentInit => ProbeInv
  <2> SUFFICES ASSUME AgentInit PROVE ProbeInv
    OBVIOUS
  <2>1. pbx \in Node /\ target \in Credential /\ probe = NoProbe
    BY ProbeAssumption DEF AgentInit, ProbeInit, Node
  <2> QED BY <2>1, IdleOK DEF ProbeInv
<1>2. ProbeInv /\ [AgentNext]_<<looking, vars, probeVars>> => ProbeInv'
  <2>1. [AgentNext]_<<looking, vars, probeVars>> => [ProbeNext]_probeVars
    BY DEF AgentNext
  <2> QED BY <2>1, ProbeSteps
<1> QED BY <1>1, <1>2, ProbeInvTruth, PTL DEF AgentSpec

==============================================================================
