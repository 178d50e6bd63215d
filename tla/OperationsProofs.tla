-------------------------- MODULE OperationsProofs --------------------------
(* Proofs about Notifications, for any sets of requests, keys and channels, and *)
(* about the safety of every part of Operations, for any hosts, agents,         *)
(* mailboxes, readers and requests at the same time.                            *)
EXTENDS Notifications, Operations, SequenceTheorems, FiniteSetTheorems, WellFoundedInduction,
        TLAPS

(***************************************************************************)
(* Notifications: a successful send is never repeated by its dispatch, the  *)
(* delivery rows tell the truth, and an idempotency key buys one job.       *)
(***************************************************************************)

Task == [pc : {"off", "try", "record", "done"}, attempt : 0..MaxAttempts,
         result : {"none", "ok", "fail"}]

\* One channel of one job: its coroutine t, a successful sends, s "sent" and f
\* "failed" rows after d dispatches.  A coroutine still in its loop has not sent in
\* this dispatch, one that has yet to write its row has not written it, and a result
\* "ok" is a send no row tells of yet.
DeliveryOK(t, a, s, f, d) ==
    /\ a <= d /\ s <= a /\ s + f <= d
    /\ t.pc = "try" => a < d
    /\ t.pc \in {"try", "record"} => s + f < d
    /\ t.pc = "record" /\ t.result = "ok" => s < a

DeliveryInv ==
    \A j \in Requests, c \in Channels :
        /\ DeliveryOK(task[j][c], acked[j][c], sentRows[j][c], failedRows[j][c], dispatched[j])
        /\ sentRows[j][c] + failedRows[j][c] > 0 => Committed(j)

\* A request has a committed row exactly when it was accepted, and the UNIQUE
\* constraint holds over the committed rows.
RowInv ==
    /\ \A r \in Requests : Committed(r) <=> req[r].pc = "accepted"
    /\ OneJobPerKey

Inv == TypeOK /\ DeliveryInv /\ RowInv

------------------------------------------------------------------------------
\* Setting one cell of a table job -> channel -> value.
LEMMA CellSet ==
    ASSUME NEW S, NEW f \in [Requests -> [Channels -> S]], NEW j \in Requests, NEW c \in Channels,
           NEW v \in S, NEW g, g = [f EXCEPT ![j][c] = v]
    PROVE  /\ g \in [Requests -> [Channels -> S]]
           /\ g[j][c] = v
           /\ \A k \in Requests, d \in Channels : k # j \/ d # c => g[k][d] = f[k][d]
OBVIOUS

LEMMA TaskType == TypeOK => task \in [Requests -> [Channels -> Task]]
BY DEF TypeOK, Task

\* What a failed turn of the retry loop leaves: another turn, or a result to record
\* that is not a success.
LEMMA AttemptFailedType ==
    ASSUME NEW t \in Task, NEW left \in {"none", "fail"}
    PROVE  /\ AttemptFailed(t, left) \in Task
           /\ \/ AttemptFailed(t, left).pc = "try"
              \/ AttemptFailed(t, left).pc = "record" /\ AttemptFailed(t, left).result = left
<1>0. MaxAttempts \in Nat /\ t.attempt \in 0..MaxAttempts
  BY NotificationsAssumption DEF Task
<1>1. CASE t.attempt < MaxAttempts
  <2>1. t.attempt + 1 \in 0..MaxAttempts
    BY <1>0, <1>1
  <2> QED BY <1>1, <2>1 DEF AttemptFailed, Task
<1>2. CASE ~(t.attempt < MaxAttempts)
  BY <1>2 DEF AttemptFailed, Task
<1> QED BY <1>1, <1>2

\* A step of one coroutine, which may also count a send or a row.
LEMMA DeliveryStep ==
    ASSUME Inv, NEW j \in Requests, NEW c \in Channels, NEW t \in Task,
           NEW a \in Nat, NEW s \in Nat, NEW f \in Nat,
           task' = [task EXCEPT ![j][c] = t], acked' = [acked EXCEPT ![j][c] = a],
           sentRows' = [sentRows EXCEPT ![j][c] = s], failedRows' = [failedRows EXCEPT ![j][c] = f],
           posted' \in [Requests -> [Channels -> Nat]], mishaps' \in Nat,
           UNCHANGED <<req, row, fin, dispatched>>,
           DeliveryOK(t, a, s, f, dispatched[j]),
           s + f > 0 => Committed(j)
    PROVE  Inv'
<1>1. /\ task \in [Requests -> [Channels -> Task]] /\ acked \in [Requests -> [Channels -> Nat]]
      /\ sentRows \in [Requests -> [Channels -> Nat]] /\ failedRows \in [Requests -> [Channels -> Nat]]
  BY TaskType DEF Inv, TypeOK
<1>2. /\ task' \in [Requests -> [Channels -> Task]] /\ task'[j][c] = t
      /\ \A k \in Requests, d \in Channels : k # j \/ d # c => task'[k][d] = task[k][d]
  BY <1>1, CellSet
<1>3. /\ acked' \in [Requests -> [Channels -> Nat]] /\ acked'[j][c] = a
      /\ \A k \in Requests, d \in Channels : k # j \/ d # c => acked'[k][d] = acked[k][d]
  BY <1>1, CellSet
<1>4. /\ sentRows' \in [Requests -> [Channels -> Nat]] /\ sentRows'[j][c] = s
      /\ \A k \in Requests, d \in Channels : k # j \/ d # c => sentRows'[k][d] = sentRows[k][d]
  BY <1>1, CellSet
<1>5. /\ failedRows' \in [Requests -> [Channels -> Nat]] /\ failedRows'[j][c] = f
      /\ \A k \in Requests, d \in Channels : k # j \/ d # c => failedRows'[k][d] = failedRows[k][d]
  BY <1>1, CellSet
<1>6. TypeOK'
  BY <1>2, <1>3, <1>4, <1>5 DEF Inv, TypeOK, Task
<1>7. DeliveryInv'
  <2> SUFFICES ASSUME NEW k \in Requests, NEW d \in Channels
               PROVE  /\ DeliveryOK(task'[k][d], acked'[k][d], sentRows'[k][d], failedRows'[k][d], dispatched'[k])
                      /\ sentRows'[k][d] + failedRows'[k][d] > 0 => Committed(k)'
    BY DEF DeliveryInv
  <2>1. Committed(k)' <=> Committed(k)
    BY DEF Committed
  <2>2. CASE k = j /\ d = c
    BY <1>2, <1>3, <1>4, <1>5, <2>1, <2>2
  <2>3. CASE k # j \/ d # c
    BY <1>2, <1>3, <1>4, <1>5, <2>1, <2>3 DEF Inv, DeliveryInv
  <2> QED BY <2>2, <2>3
<1>8. RowInv'
  BY DEF Inv, RowInv, OneJobPerKey, Committed
<1> QED BY <1>6, <1>7, <1>8 DEF Inv

\* A cell written with its own value is not written.
LEMMA CellKept ==
    ASSUME NEW S, NEW f \in [Requests -> [Channels -> S]], NEW j \in Requests, NEW c \in Channels
    PROVE  f = [f EXCEPT ![j][c] = f[j][c]]
OBVIOUS

\* The counts of one channel.
LEMMA Counts ==
    ASSUME Inv, NEW j \in Requests, NEW c \in Channels
    PROVE  /\ task[j][c] \in Task /\ acked[j][c] \in Nat /\ sentRows[j][c] \in Nat
           /\ failedRows[j][c] \in Nat /\ dispatched[j] \in Nat
           /\ DeliveryOK(task[j][c], acked[j][c], sentRows[j][c], failedRows[j][c], dispatched[j])
           /\ sentRows[j][c] + failedRows[j][c] > 0 => Committed(j)
<1>1. /\ task \in [Requests -> [Channels -> Task]] /\ acked \in [Requests -> [Channels -> Nat]]
      /\ sentRows \in [Requests -> [Channels -> Nat]] /\ failedRows \in [Requests -> [Channels -> Nat]]
      /\ dispatched \in [Requests -> Nat]
  BY TaskType DEF Inv, TypeOK
<1> QED BY <1>1 DEF Inv, DeliveryInv

LEMMA CountsKept ==
    ASSUME Inv, NEW j \in Requests, NEW c \in Channels
    PROVE  /\ acked = [acked EXCEPT ![j][c] = acked[j][c]]
           /\ sentRows = [sentRows EXCEPT ![j][c] = sentRows[j][c]]
           /\ failedRows = [failedRows EXCEPT ![j][c] = failedRows[j][c]]
<1>1. /\ acked \in [Requests -> [Channels -> Nat]] /\ sentRows \in [Requests -> [Channels -> Nat]]
      /\ failedRows \in [Requests -> [Channels -> Nat]]
  BY DEF Inv, TypeOK
<1> QED BY <1>1, CellKept

LEMMA PostedType ==
    ASSUME Inv, NEW j \in Requests, NEW c \in Channels, NEW n \in Nat,
           posted' = [posted EXCEPT ![j][c] = @ + n]
    PROVE  posted' \in [Requests -> [Channels -> Nat]]
BY DEF Inv, TypeOK

LEMMA BuildRaisesInv ==
    ASSUME Inv, NEW j \in Requests, NEW c \in Channels, build_channel_raises(j, c)
    PROVE  Inv'
<1>1. PICK t : t = AttemptFailed(task[j][c], "none")
  OBVIOUS
<1>2. task[j][c].pc = "try" /\ task' = [task EXCEPT ![j][c] = t]
  BY <1>1 DEF build_channel_raises
<1>3. /\ UNCHANGED <<req, row, fin, dispatched>> /\ acked' = [acked EXCEPT ![j][c] = acked[j][c]]
      /\ sentRows' = [sentRows EXCEPT ![j][c] = sentRows[j][c]]
      /\ failedRows' = [failedRows EXCEPT ![j][c] = failedRows[j][c]]
      /\ posted' \in [Requests -> [Channels -> Nat]] /\ mishaps' \in Nat
  BY CountsKept DEF build_channel_raises, Inv, TypeOK
<1>4. t \in Task /\ (t.pc = "try" \/ (t.pc = "record" /\ t.result = "none"))
  <2>1. task[j][c] \in Task
    BY Counts
  <2> QED BY <1>1, <2>1, AttemptFailedType
<1>5. DeliveryOK(t, acked[j][c], sentRows[j][c], failedRows[j][c], dispatched[j])
  BY <1>2, <1>4, Counts DEF DeliveryOK
<1> QED BY <1>2, <1>3, <1>4, <1>5, Counts, DeliveryStep

LEMMA SendFailsInv ==
    ASSUME Inv, NEW j \in Requests, NEW c \in Channels, send_returns_failure(j, c)
    PROVE  Inv'
<1>1. PICK t : t = AttemptFailed(task[j][c], "fail")
  OBVIOUS
<1>2. task[j][c].pc = "try" /\ task' = [task EXCEPT ![j][c] = t]
  BY <1>1 DEF send_returns_failure
<1>3. posted' \in [Requests -> [Channels -> Nat]]
  <2>1. PICK n \in 0..MaxPosts : posted' = [posted EXCEPT ![j][c] = @ + n]
    BY DEF send_returns_failure
  <2>2. n \in Nat
    BY NotificationsAssumption
  <2> QED BY <2>1, <2>2, PostedType
<1>4. /\ UNCHANGED <<req, row, fin, dispatched>> /\ acked' = [acked EXCEPT ![j][c] = acked[j][c]]
      /\ sentRows' = [sentRows EXCEPT ![j][c] = sentRows[j][c]]
      /\ failedRows' = [failedRows EXCEPT ![j][c] = failedRows[j][c]]
      /\ mishaps' \in Nat
  BY CountsKept DEF send_returns_failure, Inv, TypeOK
<1>5. t \in Task /\ (t.pc = "try" \/ (t.pc = "record" /\ t.result = "fail"))
  <2>1. task[j][c] \in Task
    BY Counts
  <2> QED BY <1>1, <2>1, AttemptFailedType
<1>6. DeliveryOK(t, acked[j][c], sentRows[j][c], failedRows[j][c], dispatched[j])
  BY <1>2, <1>5, Counts DEF DeliveryOK
<1> QED BY <1>2, <1>3, <1>4, <1>5, <1>6, Counts, DeliveryStep

LEMMA SendSucceedsInv ==
    ASSUME Inv, NEW j \in Requests, NEW c \in Channels, send_returns_success(j, c)
    PROVE  Inv'
<1>1. PICK t : t = [task[j][c] EXCEPT !.pc = "record", !.result = "ok"]
  OBVIOUS
<1>2. task[j][c] \in Task /\ task[j][c].pc = "try"
  BY Counts DEF send_returns_success
<1>3. t \in Task /\ t.pc = "record" /\ t.result = "ok"
  BY <1>1, <1>2 DEF Task
<1>4. task' = [task EXCEPT ![j][c] = t]
  BY <1>1 DEF send_returns_success
<1>5. acked' = [acked EXCEPT ![j][c] = acked[j][c] + 1]
  BY DEF send_returns_success
<1>6. posted' \in [Requests -> [Channels -> Nat]]
  <2>1. PICK n \in 1..MaxPosts : posted' = [posted EXCEPT ![j][c] = @ + n]
    BY DEF send_returns_success
  <2>2. n \in Nat
    BY NotificationsAssumption
  <2> QED BY <2>1, <2>2, PostedType
<1>7. /\ UNCHANGED <<req, row, fin, dispatched>> /\ sentRows' = [sentRows EXCEPT ![j][c] = sentRows[j][c]]
      /\ failedRows' = [failedRows EXCEPT ![j][c] = failedRows[j][c]]
      /\ mishaps' \in Nat
  BY CountsKept DEF send_returns_success, Inv, TypeOK
<1>8. DeliveryOK(t, acked[j][c] + 1, sentRows[j][c], failedRows[j][c], dispatched[j])
  BY <1>2, <1>3, Counts DEF DeliveryOK
<1>9. acked[j][c] + 1 \in Nat
  BY Counts
<1> QED BY <1>3, <1>4, <1>5, <1>6, <1>7, <1>8, <1>9, Counts, DeliveryStep

\* The coroutine that ends.
LEMMA EndedTask ==
    ASSUME NEW u \in Task, NEW t, t = [u EXCEPT !.pc = "done"]
    PROVE  t \in Task /\ t.pc = "done"
BY DEF Task

LEMMA RecordInv ==
    ASSUME Inv, NEW j \in Requests, NEW c \in Channels, record_delivery(j, c)
    PROVE  Inv'
<1>1. PICK t : t = [task[j][c] EXCEPT !.pc = "done"]
  OBVIOUS
<1>2. PICK s : s = IF Committed(j) /\ task[j][c].result = "ok" THEN sentRows[j][c] + 1 ELSE sentRows[j][c]
  OBVIOUS
<1>3. PICK f : f = IF Committed(j) /\ task[j][c].result = "fail" THEN failedRows[j][c] + 1 ELSE failedRows[j][c]
  OBVIOUS
<1>4. /\ task' = [task EXCEPT ![j][c] = t] /\ task[j][c].pc = "record"
      /\ sentRows' = [sentRows EXCEPT ![j][c] = s]
      /\ failedRows' = [failedRows EXCEPT ![j][c] = f]
  BY <1>1, <1>2, <1>3 DEF record_delivery
<1>5. t \in Task /\ t.pc = "done"
  BY <1>1, EndedTask, Counts
<1>6. s \in Nat /\ f \in Nat /\ (s + f > 0 => Committed(j))
  BY <1>2, <1>3, Counts
<1>7. DeliveryOK(t, acked[j][c], s, f, dispatched[j])
  BY <1>2, <1>3, <1>4, <1>5, Counts DEF DeliveryOK
<1>8. /\ UNCHANGED <<req, row, fin, dispatched>> /\ acked' = [acked EXCEPT ![j][c] = acked[j][c]]
      /\ posted' \in [Requests -> [Channels -> Nat]] /\ mishaps' \in Nat
  BY CountsKept DEF record_delivery, Inv, TypeOK
<1> QED BY <1>4, <1>5, <1>6, <1>7, <1>8, Counts, DeliveryStep

LEMMA BookkeepingFailsInv ==
    ASSUME Inv, NEW j \in Requests, NEW c \in Channels, bookkeeping_fails(j, c)
    PROVE  Inv'
<1>1. PICK t : t = [task[j][c] EXCEPT !.pc = "done"]
  OBVIOUS
<1>2. task' = [task EXCEPT ![j][c] = t]
  BY <1>1 DEF bookkeeping_fails
<1>3. t \in Task /\ t.pc = "done"
  BY <1>1, EndedTask, Counts
<1>4. DeliveryOK(t, acked[j][c], sentRows[j][c], failedRows[j][c], dispatched[j])
  BY <1>3, Counts DEF DeliveryOK
<1>5. /\ UNCHANGED <<req, row, fin, dispatched>> /\ acked' = [acked EXCEPT ![j][c] = acked[j][c]]
      /\ sentRows' = [sentRows EXCEPT ![j][c] = sentRows[j][c]]
      /\ failedRows' = [failedRows EXCEPT ![j][c] = failedRows[j][c]]
      /\ posted' \in [Requests -> [Channels -> Nat]] /\ mishaps' \in Nat
  BY CountsKept DEF bookkeeping_fails, Inv, TypeOK
<1> QED BY <1>2, <1>3, <1>4, <1>5, Counts, DeliveryStep

------------------------------------------------------------------------------
\* Jobs and requests

Row == [status : Statuses, fresh : BOOLEAN]

RequestRecord == [key : Keys, pc : {"new", "checked", "commit", "accepted", "dedup", "rejected", "error", "lost"},
            job : Requests]

LEMMA StatusSet ==
    ASSUME Inv, NEW j \in Requests, NEW s \in Statuses \ {"none"}, set_job_status(j, s)
    PROVE  row' \in [Requests -> Row] /\ \A k \in Requests : Committed(k)' <=> Committed(k)
<1>1. row \in [Requests -> Row]
  BY DEF Inv, TypeOK, Row
<1> QED BY <1>1 DEF set_job_status, Committed, Row, Statuses

\* A step that leaves the coroutines and their counts alone and takes no row away.
LEMMA DeliveryKept ==
    ASSUME Inv, UNCHANGED <<task, acked, sentRows, failedRows, dispatched>>,
           \A k \in Requests : Committed(k) => Committed(k)'
    PROVE  DeliveryInv'
BY DEF Inv, DeliveryInv

\* A dispatch starts its coroutines afresh: whatever an earlier one has sent is
\* within the earlier count.
LEMMA DispatchKept ==
    ASSUME Inv, NEW j \in Requests, NEW cs, dispatch_job(j, cs), UNCHANGED <<acked, sentRows, failedRows>>,
           \A k \in Requests : Committed(k) => Committed(k)'
    PROVE  /\ task' \in [Requests -> [Channels -> Task]] /\ fin' \in [Requests -> {"off", "wait", "done"}]
           /\ dispatched' \in [Requests -> Nat] /\ DeliveryInv'
<1>1. PICK ts : ts = [c \in Channels |-> IF c \in cs THEN [pc |-> "try", attempt |-> 1, result |-> "none"] ELSE Idle]
  OBVIOUS
<1>2. ts \in [Channels -> Task]
  BY <1>1, NotificationsAssumption DEF Idle, Task
<1>3. task' = [task EXCEPT ![j] = ts]
  BY <1>1 DEF dispatch_job
<1>4. task \in [Requests -> [Channels -> Task]]
  BY TaskType DEF Inv
<1>5. /\ task' \in [Requests -> [Channels -> Task]] /\ task'[j] = ts
      /\ \A k \in Requests : k # j => task'[k] = task[k]
  BY <1>2, <1>3, <1>4
<1>6. fin' \in [Requests -> {"off", "wait", "done"}]
  BY DEF Inv, TypeOK, dispatch_job
<1>7. /\ dispatched' \in [Requests -> Nat] /\ dispatched'[j] = dispatched[j] + 1
      /\ \A k \in Requests : k # j => dispatched'[k] = dispatched[k]
  BY DEF Inv, TypeOK, dispatch_job
<1>8. DeliveryInv'
  <2> SUFFICES ASSUME NEW k \in Requests, NEW d \in Channels
               PROVE  /\ DeliveryOK(task'[k][d], acked'[k][d], sentRows'[k][d], failedRows'[k][d], dispatched'[k])
                      /\ sentRows'[k][d] + failedRows'[k][d] > 0 => Committed(k)'
    BY DEF DeliveryInv
  <2>1. sentRows'[k][d] + failedRows'[k][d] > 0 => Committed(k)'
    BY Counts
  <2>2. CASE k = j
    <3>1. /\ acked[k][d] \in Nat /\ sentRows[k][d] \in Nat /\ failedRows[k][d] \in Nat /\ dispatched[k] \in Nat
          /\ acked[k][d] <= dispatched[k] /\ sentRows[k][d] <= acked[k][d]
          /\ sentRows[k][d] + failedRows[k][d] <= dispatched[k]
      BY Counts DEF DeliveryOK
    <3>2. task'[k][d] = IF d \in cs THEN [pc |-> "try", attempt |-> 1, result |-> "none"] ELSE Idle
      BY <1>1, <1>5, <2>2
    <3>3. task'[k][d].pc # "record"
      BY <3>2 DEF Idle
    <3>4. dispatched'[k] = dispatched[k] + 1
      BY <1>7, <2>2
    <3> QED BY <2>1, <3>1, <3>3, <3>4 DEF DeliveryOK
  <2>3. CASE k # j
    BY <1>5, <1>7, <2>1, <2>3, Counts
  <2> QED BY <2>2, <2>3
<1> QED BY <1>5, <1>6, <1>7, <1>8

\* A request that moves on without becoming accepted.
LEMMA RequestMoves ==
    ASSUME Inv, NEW r \in Requests, NEW q \in RequestRecord, req' = [req EXCEPT ![r] = q], q.key = req[r].key,
           req[r].pc # "accepted", q.pc # "accepted", \A k \in Requests : Committed(k)' <=> Committed(k)
    PROVE  req' \in [Requests -> RequestRecord] /\ RowInv'
<1>1. req \in [Requests -> RequestRecord]
  BY DEF Inv, TypeOK, RequestRecord
<1>2. /\ req' \in [Requests -> RequestRecord] /\ req'[r] = q
      /\ \A k \in Requests : k # r => req'[k] = req[k]
  BY <1>1
<1>3. \A k \in Requests : req'[k].pc = "accepted" <=> req[k].pc = "accepted"
  BY <1>2
<1>4. \A k \in Requests : req'[k].key = req[k].key
  BY <1>2
<1> QED BY <1>2, <1>3, <1>4 DEF Inv, RowInv, OneJobPerKey

\* ... with nothing else changing.
LEMMA RequestOnly ==
    ASSUME Inv, NEW r \in Requests, NEW q \in RequestRecord, req' = [req EXCEPT ![r] = q], q.key = req[r].key,
           req[r].pc # "accepted", q.pc # "accepted", mishaps' \in Nat,
           UNCHANGED <<row, task, fin, sentRows, failedRows, acked, posted, dispatched>>
    PROVE  Inv'
<1>1. \A k \in Requests : Committed(k)' <=> Committed(k)
  BY DEF Committed
<1>2. req' \in [Requests -> RequestRecord] /\ RowInv'
  BY <1>1, RequestMoves
<1>3. DeliveryInv'
  BY <1>1, DeliveryKept
<1>4. TypeOK'
  BY <1>2 DEF Inv, TypeOK, RequestRecord
<1> QED BY <1>2, <1>3, <1>4 DEF Inv

LEMMA HandleInv ==
    ASSUME Inv, NEW r \in Requests, Handle(r)
    PROVE  Inv'
<1>0. req[r] \in RequestRecord /\ mishaps \in Nat
  BY DEF Inv, TypeOK, RequestRecord
<1>1. CASE notify_check(r)
  <2>0. /\ req[r].pc = "new" /\ mishaps' \in Nat
        /\ UNCHANGED <<row, task, fin, sentRows, failedRows, acked, posted, dispatched>>
    BY <1>0, <1>1 DEF notify_check
  <2>1. CASE get_job_by_idempotency_key(req[r].key) # {}
    <3>1. PICK j \in get_job_by_idempotency_key(req[r].key) : req' = [req EXCEPT ![r].pc = "dedup", ![r].job = j]
      BY <1>1, <2>1 DEF notify_check
    <3>2. j \in Requests
      BY DEF get_job_by_idempotency_key
    <3>3. PICK q : q = [req[r] EXCEPT !.pc = "dedup", !.job = j]
      OBVIOUS
    <3>4. q \in RequestRecord /\ q.key = req[r].key /\ q.pc = "dedup"
      BY <1>0, <3>2, <3>3 DEF RequestRecord
    <3>5. req' = [req EXCEPT ![r] = q]
      BY <3>1, <3>3
    <3> QED BY <2>0, <3>4, <3>5, RequestOnly
  <2>2. CASE get_job_by_idempotency_key(req[r].key) = {}
    <3>1. PICK q : q = [req[r] EXCEPT !.pc = "checked"]
      OBVIOUS
    <3>2. q \in RequestRecord /\ q.key = req[r].key /\ q.pc = "checked"
      BY <1>0, <3>1 DEF RequestRecord
    <3>3. req' = [req EXCEPT ![r] = q]
      BY <1>1, <2>2, <3>1 DEF notify_check
    <3> QED BY <2>0, <3>2, <3>3, RequestOnly
  <2> QED BY <2>1, <2>2
<1>2. CASE notify_reject(r)
  <2>1. PICK q : q = [req[r] EXCEPT !.pc = "rejected"]
    OBVIOUS
  <2>2. q \in RequestRecord /\ q.key = req[r].key /\ q.pc = "rejected"
    BY <1>0, <2>1 DEF RequestRecord
  <2>3. req' = [req EXCEPT ![r] = q]
    BY <1>2, <2>1 DEF notify_reject
  <2>4. /\ req[r].pc = "checked" /\ mishaps' \in Nat
        /\ UNCHANGED <<row, task, fin, sentRows, failedRows, acked, posted, dispatched>>
    BY <1>0, <1>2 DEF notify_reject
  <2> QED BY <2>2, <2>3, <2>4, RequestOnly
<1>3. CASE notify_dispatch(r)
  <2>1. PICK q : q = [req[r] EXCEPT !.pc = "commit"]
    OBVIOUS
  <2>2. q \in RequestRecord /\ q.key = req[r].key /\ q.pc = "commit"
    BY <1>0, <2>1 DEF RequestRecord
  <2>3. req' = [req EXCEPT ![r] = q] /\ req[r].pc = "checked"
    BY <1>3, <2>1 DEF notify_dispatch
  <2>4. PICK cs : dispatch_job(r, cs)
    BY <1>3 DEF notify_dispatch
  <2>5. UNCHANGED <<row, sentRows, failedRows, acked, posted, mishaps>>
    BY <1>3 DEF notify_dispatch
  <2>6. \A k \in Requests : Committed(k)' <=> Committed(k)
    BY <2>5 DEF Committed
  <2>7. req' \in [Requests -> RequestRecord] /\ RowInv'
    BY <2>2, <2>3, <2>6, RequestMoves
  <2>8. /\ task' \in [Requests -> [Channels -> Task]] /\ fin' \in [Requests -> {"off", "wait", "done"}]
        /\ dispatched' \in [Requests -> Nat] /\ DeliveryInv'
    BY <2>4, <2>5, <2>6, DispatchKept
  <2>9. TypeOK'
    BY <2>5, <2>7, <2>8 DEF Inv, TypeOK, RequestRecord, Task
  <2> QED BY <2>7, <2>8, <2>9 DEF Inv
<1>4. CASE notify_commit(r) /\ KeyIsFree(req[r].key)
  <2>1. PICK q : q = [req[r] EXCEPT !.pc = "accepted"]
    OBVIOUS
  <2>2. q \in RequestRecord /\ q.key = req[r].key /\ q.pc = "accepted"
    BY <1>0, <2>1 DEF RequestRecord
  <2>3. /\ req' = [req EXCEPT ![r] = q] /\ req[r].pc = "commit"
        /\ row' = [row EXCEPT ![r] = [status |-> "pending", fresh |-> TRUE]]
        /\ UNCHANGED <<task, fin, sentRows, failedRows, acked, posted, dispatched, mishaps>>
    BY <1>4, <2>1 DEF notify_commit
  <2>4. /\ req' \in [Requests -> RequestRecord] /\ req'[r] = q
        /\ \A k \in Requests : k # r => req'[k] = req[k]
    BY <2>2, <2>3 DEF Inv, TypeOK, RequestRecord
  <2>5. row' \in [Requests -> Row] /\ \A k \in Requests : Committed(k)' <=> (k = r \/ Committed(k))
    BY <2>3 DEF Inv, TypeOK, Row, Statuses, Committed
  <2>6. RowInv'
    <3>1. \A k \in Requests : Committed(k)' <=> req'[k].pc = "accepted"
      BY <2>2, <2>4, <2>5 DEF Inv, RowInv
    <3>2. \A k \in Requests : req[k].pc = "accepted" => req[k].key # q.key
      BY <1>4, <2>2 DEF KeyIsFree, Inv, RowInv
    <3>3. OneJobPerKey'
      BY <2>2, <2>4, <3>2 DEF OneJobPerKey, Inv, RowInv
    <3> QED BY <3>1, <3>3 DEF RowInv
  <2>7. DeliveryInv'
    BY <2>3, <2>5, DeliveryKept
  <2>8. TypeOK'
    BY <2>3, <2>4, <2>5 DEF Inv, TypeOK, RequestRecord, Row
  <2> QED BY <2>6, <2>7, <2>8 DEF Inv
<1>5. CASE (notify_commit(r) /\ ~KeyIsFree(req[r].key)) \/ notify_commit_fails(r)
  <2>1. PICK q : q = [req[r] EXCEPT !.pc = "error"]
    OBVIOUS
  <2>2. q \in RequestRecord /\ q.key = req[r].key /\ q.pc = "error"
    BY <1>0, <2>1 DEF RequestRecord
  <2>3. /\ req' = [req EXCEPT ![r] = q] /\ req[r].pc = "commit" /\ mishaps' \in Nat
        /\ UNCHANGED <<row, task, fin, sentRows, failedRows, acked, posted, dispatched>>
    BY <1>0, <1>5, <2>1 DEF notify_commit, notify_commit_fails
  <2> QED BY <2>2, <2>3, RequestOnly
<1> QED BY <1>1, <1>2, <1>3, <1>4, <1>5 DEF Handle

\* A step that changes statuses and finalizers.
LEMMA StatusOnly ==
    ASSUME Inv, row' \in [Requests -> Row], \A k \in Requests : Committed(k)' <=> Committed(k),
           fin' \in [Requests -> {"off", "wait", "done"}], mishaps' \in Nat,
           UNCHANGED <<req, task, sentRows, failedRows, acked, posted, dispatched>>
    PROVE  Inv'
<1>1. TypeOK'
  BY DEF Inv, TypeOK, Row
<1>2. DeliveryInv'
  BY DeliveryKept
<1>3. RowInv'
  BY DEF Inv, RowInv, OneJobPerKey
<1> QED BY <1>1, <1>2, <1>3 DEF Inv

LEMMA FinalizeInv ==
    ASSUME Inv, NEW j \in Requests, _finalize(j) \/ finalize_fails(j)
    PROVE  Inv'
<1>1. /\ fin' \in [Requests -> {"off", "wait", "done"}] /\ mishaps' \in Nat
      /\ UNCHANGED <<req, task, sentRows, failedRows, acked, posted, dispatched>>
  <2>1. fin' = [fin EXCEPT ![j] = "done"] /\ mishaps' \in {mishaps, mishaps + 1}
        /\ UNCHANGED <<req, task, sentRows, failedRows, acked, posted, dispatched>>
    BY DEF _finalize, finalize_fails
  <2> QED BY <2>1 DEF Inv, TypeOK
<1>2. row' \in [Requests -> Row] /\ \A k \in Requests : Committed(k)' <=> Committed(k)
  <2>1. CASE _finalize(j)
    <3>1. set_job_status(j, "succeeded") /\ "succeeded" \in Statuses \ {"none"}
      BY <2>1 DEF _finalize, Statuses
    <3> QED BY <3>1, StatusSet
  <2>2. CASE finalize_fails(j)
    BY <2>2 DEF finalize_fails, Inv, TypeOK, Row, Committed
  <2> QED BY <2>1, <2>2
<1> QED BY <1>1, <1>2, StatusOnly

LEMMA ExpireInv ==
    ASSUME Inv, NEW j \in Requests, expire(j)
    PROVE  Inv'
<1>1. row' \in [Requests -> Row] /\ \A k \in Requests : Committed(k)' <=> Committed(k)
  BY DEF expire, Inv, TypeOK, Row, Committed
<1>2. /\ fin' \in [Requests -> {"off", "wait", "done"}] /\ mishaps' \in Nat
      /\ UNCHANGED <<req, task, sentRows, failedRows, acked, posted, dispatched>>
  BY DEF expire, Inv, TypeOK
<1> QED BY <1>1, <1>2, StatusOnly

LEMMA ReplayInv ==
    ASSUME Inv, NEW j \in Requests, replay_job(j)
    PROVE  Inv'
<1>1. CASE row[j].status \in {"failed", "partial"} /\ j \notin Sensitive
  <2>1. PICK cs : dispatch_job(j, cs)
    BY <1>1 DEF replay_job
  <2>2. set_job_status(j, "pending") /\ "pending" \in Statuses \ {"none"}
    BY <1>1 DEF replay_job, Statuses
  <2>3. UNCHANGED <<req, sentRows, failedRows, acked, posted, mishaps>>
    BY DEF replay_job
  <2>4. row' \in [Requests -> Row] /\ \A k \in Requests : Committed(k)' <=> Committed(k)
    BY <2>2, StatusSet
  <2>5. /\ task' \in [Requests -> [Channels -> Task]] /\ fin' \in [Requests -> {"off", "wait", "done"}]
        /\ dispatched' \in [Requests -> Nat] /\ DeliveryInv'
    BY <2>1, <2>3, <2>4, DispatchKept
  <2>6. TypeOK'
    BY <2>3, <2>4, <2>5 DEF Inv, TypeOK, Row, Task
  <2>7. RowInv'
    BY <2>3, <2>4 DEF Inv, RowInv, OneJobPerKey
  <2> QED BY <2>5, <2>6, <2>7 DEF Inv
<1>2. CASE ~(row[j].status \in {"failed", "partial"} /\ j \notin Sensitive)
  <2>1. UNCHANGED vars
    BY <1>2 DEF replay_job, vars
  <2> QED BY <2>1 DEF vars, Inv, TypeOK, DeliveryInv, RowInv, OneJobPerKey, Committed
<1> QED BY <1>1, <1>2

LEMMA CrashInv ==
    ASSUME Inv, crash
    PROVE  Inv'
<1>0. UNCHANGED <<row, sentRows, failedRows, acked, posted, dispatched>> /\ mishaps' \in Nat
  BY DEF crash, Inv, TypeOK
<1>1. req' \in [Requests -> RequestRecord]
      /\ \A k \in Requests : req'[k].key = req[k].key /\ (req'[k].pc = "accepted" <=> req[k].pc = "accepted")
  <2>1. req \in [Requests -> RequestRecord]
    BY DEF Inv, TypeOK, RequestRecord
  <2>2. req' = [r \in Requests |-> IF req[r].pc \in {"checked", "commit"} THEN [req[r] EXCEPT !.pc = "lost"]
                                   ELSE req[r]]
    BY DEF crash
  <2> QED BY <2>1, <2>2 DEF RequestRecord
<1>2. /\ task' \in [Requests -> [Channels -> Task]] /\ fin' \in [Requests -> {"off", "wait", "done"}]
      /\ \A k \in Requests, c \in Channels : task'[k][c].pc = "off"
  BY NotificationsAssumption DEF crash, Idle, Task
<1>3. \A k \in Requests : Committed(k)' <=> Committed(k)
  BY <1>0 DEF Committed
<1>4. TypeOK'
  BY <1>0, <1>1, <1>2 DEF Inv, TypeOK, RequestRecord, Task
<1>5. DeliveryInv'
  BY <1>0, <1>2, <1>3 DEF Inv, DeliveryInv, DeliveryOK
<1>6. RowInv'
  BY <1>1, <1>3 DEF Inv, RowInv, OneJobPerKey
<1> QED BY <1>4, <1>5, <1>6 DEF Inv

------------------------------------------------------------------------------
\* The inductive invariant: types, the count of every channel's sends and rows
\* against its dispatches, and committed rows that are unique by key.
THEOREM NotificationsInvariant == Spec => []Inv
<1>1. Init => Inv
  <2> SUFFICES ASSUME Init PROVE Inv
    OBVIOUS
  <2>1. TypeOK
    BY NotificationsAssumption DEF Init, TypeOK, Zero, Idle, NoRow, Statuses
  <2>2. DeliveryInv
    <3>1. \A j \in Requests, c \in Channels :
            /\ task[j][c].pc = "off" /\ acked[j][c] = 0 /\ sentRows[j][c] = 0 /\ failedRows[j][c] = 0
            /\ dispatched[j] = 0
      BY DEF Init, Zero, Idle
    <3> QED BY <3>1 DEF DeliveryInv, DeliveryOK
  <2>3. RowInv
    <3>1. \A r \in Requests : req[r].pc = "new" /\ row[r].status = "none"
      BY DEF Init, NoRow
    <3> QED BY <3>1 DEF RowInv, OneJobPerKey, Committed
  <2> QED BY <2>1, <2>2, <2>3 DEF Inv
<1>2. Inv /\ [Next]_vars => Inv'
  <2> SUFFICES ASSUME Inv, [Next]_vars PROVE Inv'
    OBVIOUS
  <2>1. CASE UNCHANGED vars
    BY <2>1 DEF vars, Inv, TypeOK, DeliveryInv, RowInv, OneJobPerKey, Committed
  <2>2. ASSUME NEW r \in Requests, Handle(r) PROVE Inv'
    BY <2>2, HandleInv
  <2>3. ASSUME NEW r \in Requests, NEW c \in Channels, Deliver(r, c) PROVE Inv'
    BY <2>3, BuildRaisesInv, SendFailsInv, SendSucceedsInv, RecordInv, BookkeepingFailsInv DEF Deliver
  <2>4. ASSUME NEW r \in Requests, _finalize(r) \/ finalize_fails(r) \/ replay_job(r) \/ expire(r) PROVE Inv'
    BY <2>4, FinalizeInv, ReplayInv, ExpireInv
  <2>5. CASE crash
    BY <2>5, CrashInv
  <2> QED BY <2>1, <2>2, <2>3, <2>4, <2>5 DEF Next
<1> QED BY <1>1, <1>2, PTL DEF Spec

\* However coroutines, requests, replays and crashes interleave, a channel sees no
\* more successful sends than dispatches, and none while its retry loop is turning.
THEOREM NotificationsNeverResend == Spec => []NeverResend
<1>1. Inv => NeverResend
  BY DEF Inv, DeliveryInv, DeliveryOK, NeverResend
<1> QED BY <1>1, NotificationsInvariant, PTL

\* Delivery rows never claim a send that did not happen, never tell twice of one
\* dispatch, never point to a job that is not there; a key buys one job.
THEOREM NotificationsTablesAreTrue == Spec => []TablesAreTrue
<1>1. Inv => TablesAreTrue
  BY DEF Inv, DeliveryInv, DeliveryOK, RowInv, TablesAreTrue, DeliveryRowsTrue
<1> QED BY <1>1, NotificationsInvariant, PTL

(***************************************************************************)
(* Nagios: the host files and the status cache.                             *)
(***************************************************************************)

Names == {CfgName[h] : h \in Hosts} \cup Nat
FileNames == Seq(Names)
Contents == [host : Hosts \cup {"none"}, ok : BOOLEAN]
Orders == [pc : {"check", "find", "backup", "write", "validate", "undo", "drop",
                 "drop after undo", "reload"},
           op : {"add", "edit", "delete"}, host : Hosts, ok : BOOLEAN,
           file : FileNames, backup : FileNames, was : Contents]

Reads(F, f) == IF f \in DOMAIN F THEN F[f] ELSE NoFile
Wanted(q, ok) == IF q.op = "delete" THEN NoFile ELSE HostConfig(q.host, ok)
Mine(q) == IF q.pc = "idle" THEN {} ELSE {q.file, q.backup} \ {<<>>}
Clean(q, sp) == q.file \notin sp /\ q.backup \notin sp

\* What a request knows of its file and its copy while nobody has met it there.
KnowsFiles(q, F) ==
    LET f == q.file
        b == q.backup
        copied == b \in DOMAIN F /\ F[b] = q.was IN
    /\ q.pc = "backup" => f \in DOMAIN F
    /\ q.pc = "write" => Reads(F, f) = q.was
    /\ q.pc = "validate" => Reads(F, f) = Wanted(q, q.ok) /\ (q.op # "delete" => f \in DOMAIN F)
    /\ q.pc \in {"write", "validate", "undo"} /\ q.op # "add" => copied
    /\ q.pc \in {"drop", "reload"} /\ Len(f) = 1 => Reads(F, f) = Wanted(q, TRUE)
    /\ q.pc = "drop after undo" => Reads(F, f) = q.was

Knows(q, F, sp) ==
    /\ q.pc \in {"check", "find"} <=> q.file = <<>>
    /\ q.file = <<>> => q.backup = <<>> /\ q.was = NoFile
    /\ q.pc \in {"find", "backup", "drop", "drop after undo"} => q.op # "add"
    /\ q.op = "add" \/ q.pc = "backup" => q.backup = <<>> /\ q.was = NoFile
    /\ q.op # "add" /\ q.pc \notin {"check", "find", "backup"} =>
           q.backup # <<>> /\ q.backup # q.file
    /\ q.file # <<>> /\ Clean(q, sp) => KnowsFiles(q, F)

FilesOK(F) == DOMAIN F \subseteq FileNames \ {<<>>} /\ \A f \in DOMAIN F : F[f] \in Contents

\* Two requests hold the same file only when it counts as spoiled.
OrdersOK(R, F, sp) ==
    /\ DOMAIN R = Reqs /\ R = [r \in Reqs |-> R[r]]
    /\ \A r \in Reqs : R[r] = NoRequest \/ (R[r] \in Orders /\ Knows(R[r], F, sp))
    /\ \A r, s \in Reqs : r # s => Mine(R[r]) \cap Mine(R[s]) \subseteq sp

CacheOK ==
    /\ cache \in [valid : BOOLEAN, knows : BOOLEAN]
    /\ overtaken \in BOOLEAN /\ fetch \subseteq BOOLEAN
    /\ ~overtaken => (cache.valid => cache.knows) /\ FALSE \notin fetch

NagiosInv ==
    /\ FilesOK(files) /\ OrdersOK(hostReq, files, spoiled) /\ CacheOK
    /\ sec \in Nat /\ <<>> \notin spoiled

-----------------------------------------------------------------------------

LEMMA OrderTyped ==
    ASSUME NagiosInv, NEW r \in Reqs, hostReq[r].pc # "idle"
    PROVE  hostReq[r] \in Orders /\ Knows(hostReq[r], files, spoiled)
BY DEF NagiosInv, OrdersOK, NoRequest

LEMMA HoldsMine == ASSUME NEW r \in Reqs PROVE Holds(r) = Mine(hostReq[r])
BY DEF Holds, Active, Mine

\* The files F2 has outside W are those F has.
Same(F, F2, W) ==
    \A g : g \notin W => /\ g \in DOMAIN F2 <=> g \in DOMAIN F
                         /\ g \in DOMAIN F => F2[g] = F[g]

LEMMA KnowsStays ==
    ASSUME NEW q \in Orders, NEW F, NEW F2, NEW W, NEW sp, NEW sp2,
           Knows(q, F, sp), sp \subseteq sp2, <<>> \notin sp2, Same(F, F2, W),
           Mine(q) \cap W \subseteq sp2, <<>> \notin W
    PROVE  Knows(q, F2, sp2)
<1>1. SUFFICES ASSUME q.file # <<>>, Clean(q, sp2) PROVE KnowsFiles(q, F2)
    BY DEF Knows
<1>2. q.pc # "idle" /\ q.file \in Mine(q) /\ (q.backup # <<>> => q.backup \in Mine(q))
    BY <1>1 DEF Mine, Orders
<1>3. q.file \notin W /\ q.backup \notin W
    BY <1>1, <1>2 DEF Clean
<1>4. KnowsFiles(q, F)
    BY <1>1 DEF Knows, Clean
<1>5. Reads(F2, q.file) = Reads(F, q.file) /\ (q.file \in DOMAIN F => q.file \in DOMAIN F2)
    BY <1>3 DEF Same, Reads
<1>6. q.backup \in DOMAIN F => q.backup \in DOMAIN F2 /\ F2[q.backup] = F[q.backup]
    BY <1>3 DEF Same
<1>7. QED
    BY <1>4, <1>5, <1>6 DEF KnowsFiles

\* A step of request s that changes files of its own, or that it takes with Meets.
LEMMA OneOrder ==
    ASSUME NagiosInv, NEW s \in Reqs, NEW q, NEW W, <<>> \notin W,
           q = NoRequest \/ (q \in Orders /\ Knows(q, files', spoiled')),
           hostReq' = [hostReq EXCEPT ![s] = q],
           spoiled \subseteq spoiled', <<>> \notin spoiled', Same(files, files', W),
           \A r \in Reqs \ {s} : Mine(hostReq[r]) \cap (W \cup Mine(q)) \subseteq spoiled'
    PROVE  OrdersOK(hostReq', files', spoiled')
<1>1. /\ DOMAIN hostReq' = Reqs /\ hostReq' = [r \in Reqs |-> hostReq'[r]]
      /\ hostReq'[s] = q /\ \A r \in Reqs \ {s} : hostReq'[r] = hostReq[r]
    BY DEF NagiosInv, OrdersOK
<1>2. ASSUME NEW r \in Reqs
      PROVE  hostReq'[r] = NoRequest \/ (hostReq'[r] \in Orders /\ Knows(hostReq'[r], files', spoiled'))
    <2>1. CASE r = s
        BY <1>1, <2>1
    <2>2. CASE r # s /\ hostReq[r] # NoRequest
        <3>1. hostReq[r] \in Orders /\ Knows(hostReq[r], files, spoiled)
            BY <2>2 DEF NagiosInv, OrdersOK
        <3>2. Mine(hostReq[r]) \cap W \subseteq spoiled'
            BY <2>2
        <3>3. QED BY <1>1, <2>2, <3>1, <3>2, KnowsStays
    <2>3. QED BY <1>1, <2>1, <2>2
<1>3. ASSUME NEW r \in Reqs, NEW t \in Reqs, r # t
      PROVE  Mine(hostReq'[r]) \cap Mine(hostReq'[t]) \subseteq spoiled'
    <2>1. CASE r = s
        BY <1>1, <1>3, <2>1
    <2>2. CASE t = s
        BY <1>1, <1>3, <2>2
    <2>3. CASE r # s /\ t # s
        BY <1>1, <1>3, <2>3 DEF NagiosInv, OrdersOK
    <2>4. QED BY <2>1, <2>2, <2>3
<1>4. QED BY <1>1, <1>2, <1>3 DEF OrdersOK

\* Taking files spoils them for whoever has them.
LEMMA MeetsOK ==
    ASSUME NagiosInv, NEW s \in Reqs, NEW fs, Meets(s, fs), <<>> \notin fs
    PROVE  /\ spoiled \subseteq spoiled' /\ <<>> \notin spoiled'
           /\ \A r \in Reqs \ {s} : Mine(hostReq[r]) \cap fs \subseteq spoiled'
           /\ fs \cap spoiled' = {} => fs \cap spoiled = {}
<1>1. spoiled' = spoiled \cup UNION {fs \cup Holds(r) : r \in {r \in Reqs \ {s} : Holds(r) \cap fs # {}}}
    BY DEF Meets
<1>2. \A r \in Reqs : Holds(r) = Mine(hostReq[r]) /\ <<>> \notin Holds(r)
    BY HoldsMine DEF Mine
<1>3. spoiled \subseteq spoiled' /\ <<>> \notin spoiled'
    BY <1>1, <1>2 DEF NagiosInv
<1>4. ASSUME NEW r \in Reqs \ {s} PROVE Mine(hostReq[r]) \cap fs \subseteq spoiled'
    BY <1>1, <1>2
<1>5. QED BY <1>3, <1>4

-----------------------------------------------------------------------------
(* The steps of a request *)

NagiosRest == UNCHANGED <<cache, fetch, overtaken, sec>>

LEMMA StepAssembled ==
    ASSUME NagiosInv, NagiosRest, FilesOK(files'), OrdersOK(hostReq', files', spoiled'),
           <<>> \notin spoiled'
    PROVE  NagiosInv'
BY DEF NagiosInv, NagiosRest, CacheOK

\* A step that changes neither files nor what is held.
LEMMA QuietStep ==
    ASSUME NagiosInv, NagiosRest, NEW s \in Reqs, UNCHANGED <<files, spoiled>>, NEW q,
           hostReq' = [hostReq EXCEPT ![s] = q],
           q = NoRequest \/ (q \in Orders /\ Knows(q, files, spoiled)),
           Mine(q) \subseteq Mine(hostReq[s])
    PROVE  NagiosInv'
<1>1. Same(files, files', {})
    BY DEF Same
<1>2. \A r \in Reqs \ {s} : Mine(hostReq[r]) \cap ({} \cup Mine(q)) \subseteq spoiled'
    BY DEF NagiosInv, OrdersOK
<1>3. OrdersOK(hostReq', files', spoiled')
    BY <1>1, <1>2, OneOrder DEF NagiosInv
<1>4. QED BY <1>3, StepAssembled DEF NagiosInv

LEMMA RequestStep ==
    ASSUME NagiosInv, NEW s \in Reqs, NEW op \in {"add", "edit", "delete"}, NEW h \in Hosts,
           NEW ok \in BOOLEAN, Request(s, op, h, ok)
    PROVE  NagiosInv'
<1> DEFINE q == [pc |-> "check", op |-> op, host |-> h, ok |-> ok,
                 file |-> <<>>, backup |-> <<>>, was |-> NoFile]
<1>1. NagiosRest /\ UNCHANGED <<files, spoiled>> /\ hostReq' = [hostReq EXCEPT ![s] = q]
    BY DEF Request, NagiosRest
<1>2. q \in Orders
    <2>1. NoFile \in Contents /\ <<>> \in FileNames
        BY DEF NoFile, Contents, FileNames
    <2>2. QED BY <2>1 DEF Orders
<1>3. Knows(q, files, spoiled) /\ Mine(q) = {}
    BY DEF Knows, Mine
<1> HIDE DEF q
<1>4. QED BY <1>1, <1>2, <1>3, QuietStep

\* A request that takes a file of the directory, or makes a name for a new one.
LEMMA TakesFile ==
    ASSUME NagiosInv, NagiosRest, NEW s \in Reqs, UNCHANGED files,
           hostReq[s].pc \in {"check", "find"}, NEW f \in FileNames \ {<<>>}, Meets(s, {f}),
           NEW pc \in {"backup", "write"},
           hostReq' = [hostReq EXCEPT ![s].pc = pc, ![s].file = f],
           pc = "backup" => f \in DOMAIN files /\ hostReq[s].op # "add",
           pc = "write" => f \notin DOMAIN files /\ hostReq[s].op = "add"
    PROVE  NagiosInv'
<1>1. hostReq[s] \in Orders /\ Knows(hostReq[s], files, spoiled)
    BY OrderTyped
<1>2. hostReq[s].file = <<>> /\ hostReq[s].backup = <<>> /\ hostReq[s].was = NoFile
    BY <1>1 DEF Knows
<1> DEFINE q == [hostReq[s] EXCEPT !.pc = pc, !.file = f]
<1>3. hostReq' = [hostReq EXCEPT ![s] = q]
    BY <1>1 DEF NagiosInv, OrdersOK
<1>4. /\ q \in Orders /\ q.pc = pc /\ q.file = f /\ q.backup = <<>> /\ q.was = NoFile
      /\ q.op = hostReq[s].op
    BY <1>1, <1>2 DEF Orders
<1> HIDE DEF q
<1>5. Knows(q, files, spoiled')
    BY <1>4 DEF Knows, KnowsFiles, Reads
<1>6. Mine(q) = {f}
    BY <1>4 DEF Mine
<1>7. /\ spoiled \subseteq spoiled' /\ <<>> \notin spoiled'
      /\ \A r \in Reqs \ {s} : Mine(hostReq[r]) \cap ({} \cup Mine(q)) \subseteq spoiled'
    BY <1>6, MeetsOK
<1>8. Same(files, files', {})
    BY DEF Same
<1>9. OrdersOK(hostReq', files', spoiled')
    BY <1>3, <1>4, <1>5, <1>7, <1>8, OneOrder
<1>10. QED BY <1>7, <1>9, StepAssembled DEF NagiosInv

LEMMA EndsQuietly ==
    ASSUME NagiosInv, NagiosRest, NEW s \in Reqs, UNCHANGED <<files, spoiled>>, Ends(s)
    PROVE  NagiosInv'
<1>1. Mine(NoRequest) = {}
    BY DEF Mine, NoRequest
<1>2. QED BY <1>1, QuietStep DEF Ends

LEMMA CheckStep == ASSUME NagiosInv, NEW s \in Reqs, Check(s) PROVE NagiosInv'
<1> DEFINE f == CfgFile(hostReq[s].host)
           new == hostReq[s].op = "add"
<1>1. NagiosRest /\ UNCHANGED files /\ hostReq[s].pc = "check"
    BY DEF Check, NagiosRest
<1>2. hostReq[s] \in Orders /\ Knows(hostReq[s], files, spoiled)
    BY <1>1, OrderTyped
<1>3. f \in FileNames \ {<<>>}
    <2>1. hostReq[s].host \in Hosts
        BY <1>2 DEF Orders
    <2>2. CfgName[hostReq[s].host] \in Names
        BY <2>1 DEF Names
    <2>3. QED BY <2>2 DEF CfgFile, FileNames
<1>4. CASE f \in DOMAIN files /\ new
    <2>1. Ends(s) /\ UNCHANGED spoiled
        BY <1>4 DEF Check
    <2>2. QED BY <1>1, <2>1, EndsQuietly
<1>5. CASE f \notin DOMAIN files /\ ~new
    <2>1. hostReq' = [hostReq EXCEPT ![s].pc = "find"] /\ UNCHANGED spoiled
        BY <1>5 DEF Check, Go
    <2> DEFINE q == [hostReq[s] EXCEPT !.pc = "find"]
    <2>2. hostReq' = [hostReq EXCEPT ![s] = q]
        BY <1>2, <2>1 DEF NagiosInv, OrdersOK
    <2>3. /\ q \in Orders /\ q.pc = "find" /\ q.file = hostReq[s].file /\ q.backup = hostReq[s].backup
          /\ q.was = hostReq[s].was /\ q.op = hostReq[s].op
        BY <1>2 DEF Orders
    <2> HIDE DEF q
    <2>4. Knows(q, files, spoiled) /\ Mine(q) \subseteq Mine(hostReq[s])
        BY <1>1, <1>2, <1>5, <2>3 DEF Knows, Mine
    <2>5. QED BY <1>1, <2>1, <2>2, <2>3, <2>4, QuietStep
<1>6. CASE ~(f \in DOMAIN files /\ new) /\ ~(f \notin DOMAIN files /\ ~new)
    <2>1. /\ hostReq' = [hostReq EXCEPT ![s].pc = IF new THEN "write" ELSE "backup", ![s].file = f]
          /\ Meets(s, {f})
        BY <1>6 DEF Check
    <2> DEFINE pc == IF new THEN "write" ELSE "backup"
    <2>2. /\ pc \in {"backup", "write"}
          /\ pc = "backup" => f \in DOMAIN files /\ hostReq[s].op # "add"
          /\ pc = "write" => f \notin DOMAIN files /\ hostReq[s].op = "add"
        BY <1>6
    <2> HIDE DEF pc, f
    <2>3. QED BY <1>1, <1>3, <2>1, <2>2, TakesFile DEF pc
<1>7. QED BY <1>4, <1>5, <1>6

LEMMA FindStep == ASSUME NagiosInv, NEW s \in Reqs, Find(s) PROVE NagiosInv'
<1>1. NagiosRest /\ UNCHANGED files /\ hostReq[s].pc = "find"
    BY DEF Find, NagiosRest
<1>2. hostReq[s] \in Orders /\ Knows(hostReq[s], files, spoiled)
    BY <1>1, OrderTyped
<1>3. CASE Ends(s) /\ UNCHANGED spoiled
    BY <1>1, <1>3, EndsQuietly
<1>4. ASSUME NEW f \in Found(hostReq[s].host),
             hostReq' = [hostReq EXCEPT ![s].pc = "backup", ![s].file = f], Meets(s, {f})
      PROVE  NagiosInv'
    <2>1. f \in DOMAIN files /\ f \in FileNames \ {<<>>}
        BY <1>4 DEF Found, NagiosInv, FilesOK
    <2>2. hostReq[s].op # "add"
        BY <1>1, <1>2 DEF Knows
    <2>3. QED BY <1>1, <1>4, <2>1, <2>2, TakesFile
<1>5. QED BY <1>3, <1>4 DEF Find

\* A step of a request that has its file, which changes files of its own.
LEMMA OwnStep ==
    ASSUME NagiosInv, NagiosRest, NEW s \in Reqs, NEW q, NEW W,
           hostReq' = [hostReq EXCEPT ![s] = q], UNCHANGED spoiled, FilesOK(files'),
           q = NoRequest \/ (q \in Orders /\ Knows(q, files', spoiled)),
           Mine(q) \subseteq Mine(hostReq[s]), W \subseteq Mine(hostReq[s]), Same(files, files', W)
    PROVE  NagiosInv'
<1>1. <<>> \notin W
    BY DEF Mine
<1>2. \A r \in Reqs \ {s} : Mine(hostReq[r]) \cap (W \cup Mine(q)) \subseteq spoiled'
    BY DEF NagiosInv, OrdersOK
<1>3. OrdersOK(hostReq', files', spoiled')
    BY <1>1, <1>2, OneOrder DEF NagiosInv
<1>4. QED BY <1>3, StepAssembled DEF NagiosInv

\* The same when the request only goes on to another step.
LEMMA GoesOn ==
    ASSUME NagiosInv, NEW s \in Reqs,
           NEW pc \in {"find", "validate", "undo", "drop", "drop after undo", "reload"},
           Go(s, pc), hostReq[s].pc # "idle"
    PROVE  \E q \in Orders :
               /\ hostReq' = [hostReq EXCEPT ![s] = q] /\ q.pc = pc /\ q.op = hostReq[s].op
               /\ q.host = hostReq[s].host /\ q.ok = hostReq[s].ok /\ q.file = hostReq[s].file
               /\ q.backup = hostReq[s].backup /\ q.was = hostReq[s].was
               /\ Mine(q) = Mine(hostReq[s])
<1> DEFINE q == [hostReq[s] EXCEPT !.pc = pc]
<1>1. hostReq[s] \in Orders
    BY OrderTyped
<1>2. hostReq' = [hostReq EXCEPT ![s] = q]
    BY <1>1 DEF Go, NagiosInv, OrdersOK
<1>3. /\ q \in Orders /\ q.pc = pc /\ q.op = hostReq[s].op
      /\ q.host = hostReq[s].host /\ q.ok = hostReq[s].ok /\ q.file = hostReq[s].file
      /\ q.backup = hostReq[s].backup /\ q.was = hostReq[s].was
    BY <1>1 DEF Orders
<1> HIDE DEF q
<1>4. Mine(q) = Mine(hostReq[s])
    BY <1>3 DEF Mine
<1>5. QED BY <1>2, <1>3, <1>4

LEMMA WrittenOK ==
    ASSUME FilesOK(files), NEW f \in FileNames \ {<<>>}, NEW c \in Contents
    PROVE  /\ FilesOK(Written(f, c)) /\ Same(files, Written(f, c), {f})
           /\ f \in DOMAIN Written(f, c) /\ Written(f, c)[f] = c
BY DEF FilesOK, Written, Same

LEMMA RemovedOK ==
    ASSUME FilesOK(files), NEW f
    PROVE  /\ FilesOK(Removed(f)) /\ Same(files, Removed(f), {f})
           /\ f \notin DOMAIN Removed(f)
BY DEF FilesOK, Removed, Same

LEMMA KeepCopyStep == ASSUME NagiosInv, NEW s \in Reqs, KeepCopy(s) PROVE NagiosInv'
<1> DEFINE f == hostReq[s].file
           b == BackupOf(f, sec)
           q == [hostReq[s] EXCEPT !.pc = "write", !.backup = b, !.was = At(f)]
<1>1. /\ NagiosRest /\ hostReq[s].pc = "backup"
      /\ files' = Copied(f, b) /\ Meets(s, {f, b})
    BY DEF KeepCopy, NagiosRest
<1>2. hostReq[s] \in Orders /\ Knows(hostReq[s], files, spoiled)
    BY <1>1, OrderTyped
<1>3. f \in FileNames \ {<<>>} /\ hostReq[s].op # "add"
    BY <1>1, <1>2 DEF Knows, Orders
<1>4. b \in FileNames \ {<<>>} /\ b # f
    <2>1. sec \in Names /\ f \in Seq(Names)
        BY <1>3 DEF NagiosInv, Names, FileNames
    <2>2. b = Append(f, sec) /\ b \in Seq(Names) /\ Len(b) = Len(f) + 1 /\ Len(f) \in Nat
        BY <2>1 DEF BackupOf
    <2>3. QED BY <2>2 DEF FileNames
<1>5. At(f) \in Contents /\ At(f) = Reads(files, f)
    BY DEF At, Reads, NoFile, Contents, NagiosInv, FilesOK
<1> HIDE DEF b
<1>6. hostReq' = [hostReq EXCEPT ![s] = q]
    BY <1>2 DEF KeepCopy, NagiosInv, OrdersOK, b
<1>7. /\ q \in Orders /\ q.pc = "write" /\ q.op = hostReq[s].op /\ q.file = f /\ q.backup = b
      /\ q.was = At(f)
    BY <1>2, <1>4, <1>5 DEF Orders
<1> HIDE DEF q
<1>8. Mine(q) = {f, b}
    BY <1>3, <1>4, <1>7 DEF Mine
<1>9. /\ spoiled \subseteq spoiled' /\ <<>> \notin spoiled'
      /\ \A r \in Reqs \ {s} : Mine(hostReq[r]) \cap ({b} \cup Mine(q)) \subseteq spoiled'
    BY <1>1, <1>3, <1>4, <1>8, MeetsOK
<1>10. /\ FilesOK(files') /\ Same(files, files', {b})
       /\ f \in DOMAIN files => b \in DOMAIN files' /\ files'[b] = files[f]
    <2>1. CASE f \in DOMAIN files
        <3>1. files[f] \in Contents /\ files' = Written(b, files[f])
            BY <1>1, <2>1 DEF Copied, NagiosInv, FilesOK
        <3>2. QED BY <1>4, <3>1, WrittenOK DEF NagiosInv
    <2>2. CASE f \notin DOMAIN files
        <3>1. files' = files
            BY <1>1, <2>2 DEF Copied
        <3>2. QED BY <2>2, <3>1 DEF Same, NagiosInv
    <2>3. QED BY <2>1, <2>2
<1>11. Knows(q, files', spoiled')
    <2>1. SUFFICES ASSUME Clean(q, spoiled') PROVE KnowsFiles(q, files')
        BY <1>3, <1>4, <1>7 DEF Knows
    <2>2. f \in DOMAIN files
        <3>1. hostReq[s].backup = <<>> /\ Clean(hostReq[s], spoiled)
            BY <1>1, <1>2, <1>7, <1>9, <2>1 DEF Clean, Knows, NagiosInv
        <3>2. QED BY <1>1, <1>2, <1>3, <3>1 DEF Knows, KnowsFiles
    <2>3. files'[f] = files[f] /\ f \in DOMAIN files'
        BY <1>4, <1>10, <2>2 DEF Same
    <2>4. At(f) = files[f]
        BY <2>2 DEF At
    <2>5. QED BY <1>7, <1>10, <2>2, <2>3, <2>4 DEF KnowsFiles, Reads
<1>12. OrdersOK(hostReq', files', spoiled')
    BY <1>4, <1>6, <1>7, <1>9, <1>10, <1>11, OneOrder
<1>13. QED BY <1>1, <1>9, <1>10, <1>12, StepAssembled

LEMMA ChangeStep == ASSUME NagiosInv, NEW s \in Reqs, Change(s) PROVE NagiosInv'
<1> DEFINE f == hostReq[s].file
<1>1. /\ NagiosRest /\ UNCHANGED spoiled /\ hostReq[s].pc = "write" /\ Go(s, "validate")
      /\ files' = IF hostReq[s].op = "delete" THEN Removed(f)
                  ELSE Written(f, HostConfig(hostReq[s].host, hostReq[s].ok))
    BY DEF Change, NagiosRest
<1>2. hostReq[s] \in Orders /\ Knows(hostReq[s], files, spoiled)
    BY <1>1, OrderTyped
<1>3. f \in FileNames \ {<<>>} /\ f \in Mine(hostReq[s])
    BY <1>1, <1>2 DEF Knows, Orders, Mine
<1>4. HostConfig(hostReq[s].host, hostReq[s].ok) \in Contents
    BY <1>2 DEF HostConfig, Contents, Orders
<1>5. /\ FilesOK(files') /\ Same(files, files', {f})
      /\ Reads(files', f) = Wanted(hostReq[s], hostReq[s].ok)
      /\ hostReq[s].op # "delete" => f \in DOMAIN files'
    <2>1. CASE hostReq[s].op = "delete"
        BY <1>1, <2>1, RemovedOK DEF NagiosInv, Reads, Wanted
    <2>2. CASE hostReq[s].op # "delete"
        BY <1>1, <1>3, <1>4, <2>2, WrittenOK DEF NagiosInv, Reads, Wanted
    <2>3. QED BY <2>1, <2>2
<1>6. PICK q \in Orders :
          /\ hostReq' = [hostReq EXCEPT ![s] = q] /\ q.pc = "validate" /\ q.op = hostReq[s].op
          /\ q.host = hostReq[s].host /\ q.ok = hostReq[s].ok /\ q.file = hostReq[s].file
          /\ q.backup = hostReq[s].backup /\ q.was = hostReq[s].was /\ Mine(q) = Mine(hostReq[s])
    BY <1>1, GoesOn
<1>7. Knows(q, files', spoiled)
    <2>1. SUFFICES ASSUME Clean(q, spoiled) PROVE KnowsFiles(q, files')
        BY <1>1, <1>2, <1>6 DEF Knows
    <2>2. KnowsFiles(hostReq[s], files)
        BY <1>2, <1>3, <1>6, <2>1 DEF Knows, Clean
    <2>3. q.op # "add" => q.backup \in DOMAIN files' /\ files'[q.backup] = q.was
        BY <1>1, <1>2, <1>5, <1>6, <2>2 DEF Knows, KnowsFiles, Same
    <2>4. Reads(files', q.file) = Wanted(q, q.ok)
        BY <1>5, <1>6 DEF Wanted
    <2>5. q.op # "delete" => q.file \in DOMAIN files'
        BY <1>5, <1>6
    <2>6. QED BY <1>6, <2>3, <2>4, <2>5 DEF KnowsFiles
<1>8. QED BY <1>1, <1>3, <1>5, <1>6, <1>7, OwnStep

\* What passes the validation is a configuration Nagios accepts.
LEMMA ValidFile ==
    ASSUME Valid, NEW f \in DOMAIN files, Len(f) = 1
    PROVE  files[f].ok
BY DEF Valid, Live

LEMMA ValidateStep == ASSUME NagiosInv, NEW s \in Reqs, Validate(s) PROVE NagiosInv'
<1> DEFINE pc == IF ~Valid THEN "undo" ELSE IF hostReq[s].op = "edit" THEN "drop" ELSE "reload"
<1>1. NagiosRest /\ UNCHANGED <<files, spoiled>> /\ hostReq[s].pc = "validate" /\ Go(s, pc)
    BY DEF Validate, NagiosRest
<1>2. hostReq[s] \in Orders /\ Knows(hostReq[s], files, spoiled)
    BY <1>1, OrderTyped
<1>3. /\ pc \in {"find", "validate", "undo", "drop", "drop after undo", "reload"}
      /\ pc \in {"undo", "drop", "reload"} /\ (pc # "undo" => Valid)
      /\ pc = "drop" => hostReq[s].op # "add"
    <2>1. CASE ~Valid
        <3>1. pc = "undo"
            BY ONLY <2>1, Zenon
        <3>2. QED BY ONLY <2>1, <3>1
    <2>2. CASE Valid /\ hostReq[s].op = "edit"
        <3>1. pc = "drop"
            BY ONLY <2>2, Zenon
        <3>2. QED BY ONLY <2>2, <3>1
    <2>3. CASE Valid /\ hostReq[s].op # "edit"
        <3>1. pc = "reload"
            BY ONLY <2>3, Zenon
        <3>2. QED BY ONLY <2>3, <3>1
    <2>4. QED BY ONLY <2>1, <2>2, <2>3
<1> HIDE DEF pc
<1>4. PICK q \in Orders :
          /\ hostReq' = [hostReq EXCEPT ![s] = q] /\ q.pc = pc /\ q.op = hostReq[s].op
          /\ q.host = hostReq[s].host /\ q.ok = hostReq[s].ok /\ q.file = hostReq[s].file
          /\ q.backup = hostReq[s].backup /\ q.was = hostReq[s].was /\ Mine(q) = Mine(hostReq[s])
    BY <1>1, <1>3, GoesOn
<1>5. Knows(q, files, spoiled)
    <2>1. SUFFICES ASSUME Clean(q, spoiled) PROVE KnowsFiles(q, files)
        BY <1>1, <1>2, <1>3, <1>4 DEF Knows
    <2>2. KnowsFiles(hostReq[s], files)
        BY <1>1, <1>2, <1>4, <2>1 DEF Knows, Clean
    <2>3. Reads(files, q.file) = Wanted(q, q.ok)
        BY <1>1, <1>4, <2>2 DEF KnowsFiles, Wanted
    <2>4. ASSUME pc # "undo", Len(q.file) = 1 PROVE Reads(files, q.file) = Wanted(q, TRUE)
        <3>1. CASE q.op = "delete"
            BY <2>3, <3>1 DEF Wanted
        <3>2. CASE q.op # "delete"
            <4>1. q.file \in DOMAIN files /\ files[q.file] = HostConfig(q.host, q.ok)
                BY <1>1, <1>4, <2>2, <2>3, <3>2 DEF KnowsFiles, Wanted, Reads
            <4>2. HostConfig(q.host, q.ok).ok
                BY <1>3, <2>4, <4>1, ValidFile
            <4>3. q.ok
                BY <4>2, Zenon DEF HostConfig
            <4>4. q.ok \in BOOLEAN
                BY DEF Orders
            <4>5. q.ok = TRUE
                BY <4>3, <4>4, Zenon
            <4>6. QED BY <2>3, <4>5
        <3>3. QED BY <3>1, <3>2
    <2>5. QED BY <1>1, <1>3, <1>4, <2>2, <2>4 DEF KnowsFiles
<1>6. Same(files, files', {})
    BY <1>1 DEF Same
<1>7. QED BY <1>1, <1>4, <1>5, <1>6, QuietStep

LEMMA CopiedOK ==
    ASSUME FilesOK(files), NEW g, NEW f \in FileNames \ {<<>>}
    PROVE  /\ FilesOK(Copied(g, f)) /\ Same(files, Copied(g, f), {f})
           /\ g \in DOMAIN files => /\ f \in DOMAIN Copied(g, f)
                                    /\ Copied(g, f)[f] = files[g]
<1>1. CASE g \in DOMAIN files
    <2>1. files[g] \in Contents /\ Copied(g, f) = Written(f, files[g])
        BY <1>1 DEF Copied, FilesOK
    <2>2. QED BY <2>1, WrittenOK
<1>2. CASE g \notin DOMAIN files
    BY <1>2 DEF Copied, Same
<1>3. QED BY <1>1, <1>2

LEMMA UndoStep == ASSUME NagiosInv, NEW s \in Reqs, Undo(s) PROVE NagiosInv'
<1> DEFINE f == hostReq[s].file
           b == hostReq[s].backup
<1>1. NagiosRest /\ UNCHANGED spoiled /\ hostReq[s].pc = "undo"
    BY DEF Undo, NagiosRest
<1>2. hostReq[s] \in Orders /\ Knows(hostReq[s], files, spoiled)
    BY <1>1, OrderTyped
<1>3. f \in FileNames \ {<<>>} /\ f \in Mine(hostReq[s])
    BY <1>1, <1>2 DEF Knows, Orders, Mine
<1>4. CASE hostReq[s].op = "add"
    <2>1. files' = Removed(f) /\ hostReq' = [hostReq EXCEPT ![s] = NoRequest]
        BY <1>4 DEF Undo, Ends
    <2>2. FilesOK(files') /\ Same(files, files', {f})
        BY <2>1, RemovedOK DEF NagiosInv
    <2>3. Mine(NoRequest) = {}
        BY DEF Mine, NoRequest
    <2>4. QED BY <1>1, <1>3, <2>1, <2>2, <2>3, OwnStep
<1>5. CASE hostReq[s].op # "add"
    <2>1. files' = Copied(b, f) /\ Go(s, "drop after undo")
        BY <1>5 DEF Undo
    <2>2. /\ FilesOK(files') /\ Same(files, files', {f})
          /\ b \in DOMAIN files => f \in DOMAIN files' /\ files'[f] = files[b]
        BY <1>3, <2>1, CopiedOK DEF NagiosInv
    <2>3. PICK q \in Orders :
              /\ hostReq' = [hostReq EXCEPT ![s] = q] /\ q.pc = "drop after undo" /\ q.op = hostReq[s].op
              /\ q.host = hostReq[s].host /\ q.ok = hostReq[s].ok /\ q.file = hostReq[s].file
              /\ q.backup = hostReq[s].backup /\ q.was = hostReq[s].was /\ Mine(q) = Mine(hostReq[s])
        BY <1>1, <2>1, GoesOn
    <2>4. Knows(q, files', spoiled)
        <3>1. SUFFICES ASSUME Clean(q, spoiled) PROVE KnowsFiles(q, files')
            BY <1>1, <1>2, <1>5, <2>3 DEF Knows
        <3>2. KnowsFiles(hostReq[s], files)
            BY <1>2, <1>3, <2>3, <3>1 DEF Knows, Clean
        <3>3. b \in DOMAIN files /\ files[b] = q.was
            BY <1>1, <1>5, <2>3, <3>2 DEF KnowsFiles
        <3>4. QED BY <2>2, <2>3, <3>3 DEF KnowsFiles, Reads
    <2>5. QED BY <1>1, <1>3, <2>2, <2>3, <2>4, OwnStep
<1>6. QED BY <1>4, <1>5

LEMMA DropCopyStep == ASSUME NagiosInv, NEW s \in Reqs, DropCopy(s) PROVE NagiosInv'
<1> DEFINE b == hostReq[s].backup
<1>1. /\ NagiosRest /\ UNCHANGED spoiled /\ hostReq[s].pc \in {"drop", "drop after undo"}
      /\ files' = Removed(b)
    BY DEF DropCopy, NagiosRest
<1>2. hostReq[s] \in Orders /\ Knows(hostReq[s], files, spoiled)
    BY <1>1, OrderTyped
<1>3. b \in Mine(hostReq[s]) /\ b # hostReq[s].file
    BY <1>1, <1>2 DEF Knows, Mine
<1>4. FilesOK(files') /\ Same(files, files', {b})
    BY <1>1, RemovedOK DEF NagiosInv
<1>5. CASE hostReq[s].pc = "drop"
    <2>1. Go(s, "reload")
        BY <1>5 DEF DropCopy
    <2>2. PICK q \in Orders :
              /\ hostReq' = [hostReq EXCEPT ![s] = q] /\ q.pc = "reload" /\ q.op = hostReq[s].op
              /\ q.host = hostReq[s].host /\ q.ok = hostReq[s].ok /\ q.file = hostReq[s].file
              /\ q.backup = hostReq[s].backup /\ q.was = hostReq[s].was /\ Mine(q) = Mine(hostReq[s])
        BY <1>1, <2>1, GoesOn
    <2>3. Knows(q, files', spoiled)
        <3>1. SUFFICES ASSUME Clean(q, spoiled) PROVE KnowsFiles(q, files')
            BY <1>2, <1>5, <2>2 DEF Knows
        <3>2. KnowsFiles(hostReq[s], files)
            BY <1>2, <1>5, <2>2, <3>1 DEF Knows, Clean
        <3>3. Reads(files', q.file) = Reads(files, q.file)
            BY <1>3, <1>4, <2>2 DEF Same, Reads
        <3>4. Len(q.file) = 1 => Reads(files, q.file) = Wanted(q, TRUE)
            BY <1>5, <2>2, <3>2 DEF KnowsFiles, Wanted
        <3>5. QED BY <2>2, <3>3, <3>4 DEF KnowsFiles
    <2>4. QED BY <1>1, <1>3, <1>4, <2>2, <2>3, OwnStep
<1>6. CASE hostReq[s].pc = "drop after undo"
    <2>1. hostReq' = [hostReq EXCEPT ![s] = NoRequest]
        BY <1>6 DEF DropCopy, Ends
    <2>2. Mine(NoRequest) = {}
        BY DEF Mine, NoRequest
    <2>3. QED BY <1>1, <1>3, <1>4, <2>1, <2>2, OwnStep
<1>7. QED BY <1>1, <1>5, <1>6

\* A request that ends without changing files, whatever becomes of the cache.
LEMMA LeavesOrders ==
    ASSUME NagiosInv, NEW s \in Reqs, Ends(s), UNCHANGED files,
           spoiled \subseteq spoiled', <<>> \notin spoiled'
    PROVE  FilesOK(files') /\ OrdersOK(hostReq', files', spoiled')
<1>1. hostReq' = [hostReq EXCEPT ![s] = NoRequest] /\ Mine(NoRequest) = {}
    BY DEF Ends, Mine, NoRequest
<1>2. Same(files, files', {})
    BY DEF Same
<1>3. \A r \in Reqs \ {s} : Mine(hostReq[r]) \cap ({} \cup Mine(NoRequest)) \subseteq spoiled'
    BY <1>1
<1>4. OrdersOK(hostReq', files', spoiled')
    BY <1>1, <1>2, <1>3, OneOrder
<1>5. QED BY <1>4 DEF NagiosInv

LEMMA ReloadStep == ASSUME NagiosInv, NEW s \in Reqs, Reload(s) PROVE NagiosInv'
<1>1. /\ Ends(s) /\ UNCHANGED <<files, sec, spoiled>>
      /\ cache' = [valid |-> FALSE, knows |-> FALSE] /\ fetch' = {FALSE : k \in fetch}
      /\ overtaken' = (overtaken \/ fetch # {})
    BY DEF Reload
<1>2. FilesOK(files') /\ OrdersOK(hostReq', files', spoiled')
    BY <1>1, LeavesOrders DEF NagiosInv
<1>3. overtaken' \in BOOLEAN /\ (~overtaken' => fetch = {})
    BY <1>1
<1>4. cache' \in [valid : BOOLEAN, knows : BOOLEAN] /\ ~cache'.valid
    BY <1>1
<1>5. fetch' \subseteq BOOLEAN /\ (fetch = {} => fetch' = {})
    BY <1>1
<1>6. CacheOK'
    BY <1>3, <1>4, <1>5 DEF CacheOK
<1>7. QED BY <1>1, <1>2, <1>6 DEF NagiosInv

LEMMA SshFailsStep == ASSUME NagiosInv, NEW s \in Reqs, SshFails(s) PROVE NagiosInv'
<1>1. NagiosRest /\ Ends(s) /\ UNCHANGED files /\ spoiled' = spoiled \cup Holds(s)
    BY DEF SshFails, NagiosRest
<1>2. spoiled \subseteq spoiled' /\ <<>> \notin spoiled'
    BY <1>1 DEF NagiosInv, Holds
<1>3. QED BY <1>1, <1>2, LeavesOrders, StepAssembled

LEMMA AgentRestartsStep == ASSUME NagiosInv, AgentRestarts PROVE NagiosInv'
<1>1. /\ UNCHANGED <<files, sec, overtaken>> /\ hostReq' = [r \in Reqs |-> NoRequest]
      /\ cache' = [valid |-> FALSE, knows |-> TRUE] /\ fetch' = {}
      /\ spoiled' = spoiled \cup UNION {Holds(r) : r \in Reqs}
    BY DEF AgentRestarts
<1>2. <<>> \notin spoiled'
    BY <1>1 DEF NagiosInv, Holds
<1>3. OrdersOK(hostReq', files', spoiled')
    BY <1>1 DEF OrdersOK, Mine, NoRequest
<1>4. CacheOK'
    BY <1>1 DEF CacheOK, NagiosInv
<1>5. QED BY <1>1, <1>2, <1>3, <1>4 DEF NagiosInv

LEMMA CacheSteps ==
    ASSUME NagiosInv, UNCHANGED <<files, hostReq, spoiled>>,
           Second \/ FetchStatus \/ RefreshCache \/ CacheExpires
    PROVE  NagiosInv'
<1>1. CASE Second
    <2>1. sec' \in Nat /\ UNCHANGED <<cache, fetch, overtaken>>
        BY <1>1 DEF Second, NagiosInv
    <2>2. CacheOK'
        BY <2>1 DEF NagiosInv, CacheOK
    <2>3. QED BY <2>1, <2>2 DEF NagiosInv
<1>2. CASE FetchStatus
    <2>1. UNCHANGED <<overtaken, sec, cache>> /\ fetch' = fetch \cup {TRUE}
        BY <1>2 DEF FetchStatus
    <2>2. CacheOK'
        BY <2>1 DEF NagiosInv, CacheOK
    <2>3. QED BY <2>1, <2>2 DEF NagiosInv
<1>3. CASE RefreshCache
    <2>1. PICK k \in fetch : cache' = [valid |-> TRUE, knows |-> k] /\ fetch' = fetch \ {k}
        BY <1>3 DEF RefreshCache
    <2>2. UNCHANGED <<overtaken, sec>>
        BY <1>3 DEF RefreshCache
    <2>3. k \in BOOLEAN /\ (~overtaken => k # FALSE)
        BY DEF NagiosInv, CacheOK
    <2>4. cache' \in [valid : BOOLEAN, knows : BOOLEAN] /\ cache'.knows = k
        BY <2>1, <2>3
    <2>5. ~overtaken => cache'.knows
        BY <2>3, <2>4
    <2>6. CacheOK'
        BY <2>1, <2>2, <2>4, <2>5 DEF NagiosInv, CacheOK
    <2>7. QED BY <2>2, <2>6 DEF NagiosInv
<1>4. CASE CacheExpires
    <2>1. UNCHANGED <<overtaken, sec, fetch>> /\ cache' = [cache EXCEPT !.valid = FALSE]
        BY <1>4 DEF CacheExpires
    <2>2. cache' \in [valid : BOOLEAN, knows : BOOLEAN] /\ ~cache'.valid
        BY <2>1 DEF NagiosInv, CacheOK
    <2>3. CacheOK'
        BY <2>1, <2>2 DEF NagiosInv, CacheOK
    <2>4. QED BY <2>1, <2>3 DEF NagiosInv
<1>5. QED BY <1>1, <1>2, <1>3, <1>4

LEMMA NagiosInitial == ASSUME NagiosInit PROVE NagiosInv
<1>1. PICK H \in SUBSET Hosts :
          files = [f \in {CfgFile(h) : h \in H} |->
                      HostConfig(CHOOSE h \in H : CfgFile(h) = f, TRUE)]
    BY DEF NagiosInit
<1>2. ASSUME NEW f \in DOMAIN files
      PROVE  f \in FileNames \ {<<>>} /\ files[f] \in Contents
    <2>1. PICK h \in H : f = CfgFile(h)
        BY <1>1, <1>2
    <2>2. CfgName[h] \in Names
        BY <1>1, <2>1 DEF Names
    <2>3. f \in FileNames \ {<<>>}
        BY <2>1, <2>2 DEF CfgFile, FileNames
    <2>4. files[f] = HostConfig(CHOOSE g \in H : CfgFile(g) = f, TRUE)
        BY <1>1, <1>2
    <2>5. (CHOOSE g \in H : CfgFile(g) = f) \in Hosts
        BY <2>1
    <2>6. QED BY <2>3, <2>4, <2>5 DEF HostConfig, Contents
<1>3. FilesOK(files)
    BY <1>2 DEF FilesOK
<1>4. OrdersOK(hostReq, files, spoiled)
    BY DEF NagiosInit, OrdersOK, Mine, NoRequest
<1>5. CacheOK
    BY DEF NagiosInit, CacheOK
<1>6. QED BY <1>3, <1>4, <1>5 DEF NagiosInit, NagiosInv

LEMMA NagiosKept == ASSUME NagiosInv, [NagiosNext]_nagiosVars PROVE NagiosInv'
<1>1. CASE UNCHANGED nagiosVars
    BY <1>1 DEF nagiosVars, NagiosInv, OrdersOK, CacheOK
<1>2. ASSUME NEW r \in Reqs, NEW h \in Hosts, NEW ok \in BOOLEAN,
             \/ \E op \in {"add", "edit"} : Request(r, op, h, ok)
             \/ ok /\ Request(r, "delete", h, ok)
      PROVE  NagiosInv'
    BY <1>2, RequestStep
<1>3. ASSUME NEW r \in Reqs, Steps(r) PROVE NagiosInv'
    BY <1>3, CheckStep, FindStep, KeepCopyStep, ChangeStep, ValidateStep, UndoStep,
       DropCopyStep, ReloadStep, SshFailsStep DEF Steps
<1>4. CASE AgentRestarts
    BY <1>4, AgentRestartsStep
<1>5. CASE Second \/ FetchStatus \/ RefreshCache \/ CacheExpires
    <2>1. UNCHANGED <<files, hostReq, spoiled>>
        BY <1>5 DEF Second, FetchStatus, RefreshCache, CacheExpires
    <2>2. QED BY <1>5, <2>1, CacheSteps
<1>6. QED BY <1>1, <1>2, <1>3, <1>4, <1>5 DEF NagiosNext

LEMMA FaultsCounted ==
    ASSUME faults \in Nat, [NagiosNext]_nagiosVars PROVE faults' \in Nat
<1>1. ASSUME NEW r \in Reqs, Steps(r) PROVE faults' \in Nat
    <2>1. faults' = faults \/ faults' = faults + 1
        BY <1>1 DEF Steps, Check, Find, KeepCopy, Change, Validate, Undo, DropCopy, Reload, SshFails
    <2>2. QED BY <2>1
<1>2. CASE AgentRestarts
    BY <1>2 DEF AgentRestarts
<1>3. CASE Second \/ FetchStatus \/ RefreshCache \/ CacheExpires
    BY <1>3 DEF Second, FetchStatus, RefreshCache, CacheExpires
<1>4. ASSUME NEW r, NEW op, NEW h, NEW ok, Request(r, op, h, ok) PROVE faults' \in Nat
    BY <1>4 DEF Request
<1>5. CASE UNCHANGED nagiosVars
    BY <1>5 DEF nagiosVars
<1>6. QED BY <1>1, <1>2, <1>3, <1>4, <1>5 DEF NagiosNext

LEMMA OthersKeep ==
    ASSUME NagiosInv, NEW r \in Reqs, NEW s \in Reqs, r # s, Steps(s)
    PROVE  hostReq'[r] = hostReq[r]
<1> USE DEF NagiosInv, OrdersOK
<1>1. CASE Check(s)
    BY <1>1 DEF Check, Go, Ends
<1>2. CASE Find(s)
    BY <1>2 DEF Find, Go, Ends
<1>3. CASE KeepCopy(s) \/ Change(s) \/ Validate(s)
    BY <1>3 DEF KeepCopy, Change, Validate, Go
<1>4. CASE Undo(s)
    BY <1>4 DEF Undo, Go, Ends
<1>5. CASE DropCopy(s)
    BY <1>5 DEF DropCopy, Go, Ends
<1>6. CASE Reload(s) \/ SshFails(s)
    BY <1>6 DEF Reload, SshFails, Ends
<1>7. QED BY <1>1, <1>2, <1>3, <1>4, <1>5, <1>6 DEF Steps

\* The steps that answer a request which has its file.
LEMMA AnswerSteps ==
    ASSUME NagiosInv, faults \in Nat, [NagiosNext]_nagiosVars, NEW r \in Reqs,
           Active(r), hostReq'[r] = NoRequest, faults' = faults, hostReq[r].file # <<>>
    PROVE  \/ Undo(r) /\ hostReq[r].op = "add"
           \/ DropCopy(r) /\ hostReq[r].pc = "drop after undo"
           \/ Reload(r)
<1>1. hostReq[r].pc # "idle" /\ hostReq[r] \in Orders /\ Knows(hostReq[r], files, spoiled)
    BY OrderTyped DEF Active
<1>2. hostReq'[r] # hostReq[r] /\ hostReq'[r].pc = "idle"
    BY <1>1 DEF NoRequest
<1>3. ~UNCHANGED nagiosVars
    BY <1>2 DEF nagiosVars
<1>4. ~(AgentRestarts \/ Second \/ FetchStatus \/ RefreshCache \/ CacheExpires)
    <2>1. ~AgentRestarts
        BY DEF AgentRestarts
    <2>2. QED BY <1>2, <2>1 DEF Second, FetchStatus, RefreshCache, CacheExpires
<1>5. ASSUME NEW s \in Reqs, NEW h \in Hosts, NEW ok \in BOOLEAN, NEW op,
             Request(s, op, h, ok)
      PROVE  FALSE
    <2>1. s # r
        BY <1>5 DEF Request
    <2>2. QED BY <1>2, <1>5, <2>1 DEF Request, NagiosInv, OrdersOK
<1>6. PICK s \in Reqs : Steps(s)
    BY <1>3, <1>4, <1>5 DEF NagiosNext
<1>7. Steps(r)
    BY <1>2, <1>6, OthersKeep
<1>8. ~Check(r) /\ ~Find(r)
    BY <1>1 DEF Check, Find, Knows
<1>9. DOMAIN hostReq = Reqs
    BY DEF NagiosInv, OrdersOK
<1>10. ~KeepCopy(r)
    BY <1>1, <1>2, <1>9 DEF KeepCopy, Orders
<1>11. ASSUME NEW pc, Go(r, pc) PROVE pc = "idle"
    BY <1>1, <1>2, <1>9, <1>11 DEF Go, Orders
<1>12. ~Change(r)
    BY <1>11 DEF Change
<1>13. ~Validate(r)
    BY <1>11 DEF Validate
<1>14. ~SshFails(r)
    BY DEF SshFails
<1>15. Undo(r) => hostReq[r].op = "add"
    BY <1>11 DEF Undo
<1>16. DropCopy(r) => hostReq[r].pc = "drop after undo"
    BY <1>11 DEF DropCopy
<1>17. QED BY <1>7, <1>8, <1>10, <1>12, <1>13, <1>14, <1>15, <1>16 DEF Steps

LEMMA AnswersFit ==
    ASSUME NagiosInv, faults \in Nat, [NagiosNext]_nagiosVars, NEW r \in Reqs
    PROVE  AnswerIsTrue(r)
<1> DEFINE f == hostReq[r].file
           b == hostReq[r].backup
<1>1. SUFFICES ASSUME Active(r), hostReq'[r] = NoRequest, faults' = faults, f # <<>>,
                      f \notin spoiled, b \notin spoiled
               PROVE  IF hostReq[r].pc = "reload"
                      THEN Len(f) = 1 => Reads(files', f) = Wanted(hostReq[r], TRUE)
                      ELSE Reads(files', f) = hostReq[r].was
    BY DEF AnswerIsTrue, Reads, Wanted
<1>2. hostReq[r].pc # "idle" /\ hostReq[r] \in Orders /\ Knows(hostReq[r], files, spoiled)
    BY <1>1, OrderTyped DEF Active
<1>3. KnowsFiles(hostReq[r], files)
    BY <1>1, <1>2 DEF Knows, Clean
<1>4. CASE Undo(r) /\ hostReq[r].op = "add"
    <2>1. hostReq[r].was = NoFile /\ hostReq[r].pc = "undo" /\ files' = Removed(f)
        BY <1>2, <1>4 DEF Knows, Undo
    <2>2. QED BY <2>1 DEF Removed, Reads
<1>5. CASE DropCopy(r) /\ hostReq[r].pc = "drop after undo"
    <2>1. files' = Removed(b) /\ b # f
        BY <1>2, <1>5 DEF Knows, DropCopy
    <2>2. Reads(files', f) = Reads(files, f)
        BY <2>1 DEF Removed, Reads
    <2>3. Reads(files, f) = hostReq[r].was
        BY <1>3, <1>5 DEF KnowsFiles
    <2>4. QED BY <1>5, <2>2, <2>3
<1>6. CASE Reload(r)
    BY <1>3, <1>6 DEF Reload, KnowsFiles
<1>7. QED BY <1>1, <1>4, <1>5, <1>6, AnswerSteps

-----------------------------------------------------------------------------
(* Operations runs one of its parts *)

LEMMA NagiosAlone == ASSUME [OperationsNext]_operationsVars PROVE [NagiosNext]_nagiosVars
BY DEF OperationsNext, operationsVars, NagiosPart, RegistryPart, CredentialPart, ListPart, OfMail,
       SendPart, ReadingPart, SentPart

\* What Nagios was told is in its configuration, and a valid cache of its status
\* knows every answered change unless a refresh was overtaken by one
\* (monitoring_agent/client/__init__.py, api/nagios.py).
THEOREM NagiosStaysTrue == OperationsSpec => NagiosIsTrue
<1> DEFINE Kept == NagiosInv /\ faults \in Nat
<1>1. OperationsInit => Kept
    <2>1. OperationsInit => NagiosInit
        BY DEF OperationsInit
    <2>2. NagiosInit => faults \in Nat
        BY DEF NagiosInit
    <2>3. QED BY <2>1, <2>2, NagiosInitial
<1>2. Kept /\ [OperationsNext]_operationsVars => Kept'
    BY NagiosAlone, NagiosKept, FaultsCounted
<1>3. Kept => CacheKnowsChanges
    BY DEF NagiosInv, CacheOK, CacheKnowsChanges
<1>4. Kept /\ [OperationsNext]_operationsVars => [\A r \in Reqs : AnswerIsTrue(r)]_nagiosVars
    BY NagiosAlone, AnswersFit
<1> HIDE DEF Kept
<1>5. QED BY <1>1, <1>2, <1>3, <1>4, PTL DEF OperationsSpec, NagiosIsTrue, AnswersAreTrue

(***************************************************************************)
(* The agent registry: seeding and resolving.                               *)
(***************************************************************************)

DeploymentRow == [tenant : Tenants \cup {Global}, by : {"seed", "operator"}]

Seeds(d) == {n \in DOMAIN d : d[n].by = "seed"}
AtMostOne(S) == \A m, n \in S : m = n

\* nexus_api works on an agent of its list; it makes a deployment only when it has
\* found none, and nobody else makes one for the seed.
Listing(x) == x = [pc |-> "list", left |-> x.left, ages |-> x.ages]

SeedKnows ==
    /\ api.pc = "list" => Listing(api)
    /\ api.pc \in {"agent", "look", "deploy"} =>
           /\ api = [pc |-> api.pc, n |-> api.n] /\ api.n \in DOMAIN SeedList
           /\ api.pc = "deploy" /\ SeedList[api.n] \notin blind =>
                  Seeds(deps[SeedList[api.n]]) = {}

RegistryInv ==
    /\ deps \in [Agents -> Seq(DeploymentRow)]
    /\ SeedKnows
    /\ \A a \in Agents : a \notin blind => AtMostOne(Seeds(deps[a]))

-----------------------------------------------------------------------------

LEMMA SeedListAgents == ASSUME NEW n \in DOMAIN SeedList PROVE SeedList[n] \in Agents
BY RegistryAssumption

LEMMA Prepended ==
    ASSUME NEW s \in Seq(DeploymentRow), NEW d \in DeploymentRow
    PROVE  /\ <<d>> \o s \in Seq(DeploymentRow)
           /\ d.by # "seed" => Seeds(<<d>> \o s) = {n + 1 : n \in Seeds(s)}
           /\ Seeds(s) = {} => Seeds(<<d>> \o s) \subseteq {1}
<1> DEFINE t == <<d>> \o s
<1>1. /\ t \in Seq(DeploymentRow) /\ Len(t) = Len(s) + 1 /\ t[1] = d
      /\ \A n \in 1..Len(s) : t[n + 1] = s[n]
    OBVIOUS
<1>2. DOMAIN t = 1..(Len(s) + 1) /\ DOMAIN s = 1..Len(s) /\ Len(s) \in Nat
    BY <1>1
<1> HIDE DEF t
<1>3. ASSUME NEW n \in DOMAIN t, n # 1 PROVE n - 1 \in DOMAIN s /\ t[n] = s[n - 1]
    <2>1. n - 1 \in 1..Len(s) /\ (n - 1) + 1 = n
        BY <1>2, <1>3
    <2>2. QED BY <1>1, <1>2, <2>1
<1>4. ASSUME d.by # "seed" PROVE Seeds(t) = {n + 1 : n \in Seeds(s)}
    <2>1. ASSUME NEW n \in Seeds(t) PROVE n \in {k + 1 : k \in Seeds(s)}
        <3>1. n \in DOMAIN t /\ n # 1 /\ n \in Int
            BY <1>1, <1>2, <1>4, <2>1 DEF Seeds
        <3>2. n - 1 \in Seeds(s)
            BY <1>3, <2>1, <3>1 DEF Seeds
        <3>3. QED BY <3>1, <3>2
    <2>2. ASSUME NEW n \in Seeds(s) PROVE n + 1 \in Seeds(t)
        <3>1. n \in 1..Len(s) /\ s[n].by = "seed"
            BY <1>2 DEF Seeds
        <3>2. n + 1 \in DOMAIN t /\ t[n + 1] = s[n]
            BY <1>1, <1>2, <3>1
        <3>3. QED BY <3>1, <3>2 DEF Seeds
    <2>3. QED BY <2>1, <2>2
<1>5. ASSUME Seeds(s) = {}, NEW n \in Seeds(t) PROVE n = 1
    BY <1>3, <1>5 DEF Seeds
<1>6. QED BY <1>1, <1>4, <1>5 DEF t

\* What a step does to the deployments of one agent.
LEMMA OperatorDeploys ==
    ASSUME RegistryInv, NEW a \in Agents, NEW d \in DeploymentRow, d.by = "operator",
           CreateDeployment(a, d), UNCHANGED <<api, blind>>
    PROVE  RegistryInv'
<1>1. /\ deps' = [deps EXCEPT ![a] = <<d>> \o deps[a]] /\ deps[a] \in Seq(DeploymentRow)
    BY DEF CreateDeployment, RegistryInv
<1>2. /\ deps' \in [Agents -> Seq(DeploymentRow)]
      /\ Seeds(deps'[a]) = {n + 1 : n \in Seeds(deps[a])}
      /\ \A b \in Agents \ {a} : deps'[b] = deps[b]
    BY <1>1, Prepended DEF RegistryInv
<1>3. AtMostOne(Seeds(deps[a])) => AtMostOne(Seeds(deps'[a]))
    BY <1>2 DEF AtMostOne
<1>4. Seeds(deps[a]) = {} => Seeds(deps'[a]) = {}
    BY <1>2
<1>5. SeedKnows'
    BY <1>2, <1>4, SeedListAgents DEF RegistryInv, SeedKnows
<1>6. QED BY <1>2, <1>3, <1>5 DEF RegistryInv

LEMMA PatchKeeps ==
    ASSUME RegistryInv, NEW a \in Agents, NEW n, NEW t \in Tenants \cup {Global},
           PatchDeployment(a, n, t)
    PROVE  RegistryInv'
<1> DEFINE s == deps[a]
           deployment == [s[n] EXCEPT !.tenant = t]
           s2 == [s EXCEPT ![n] = deployment]
<1>1. n \in DOMAIN s /\ s \in Seq(DeploymentRow) /\ UNCHANGED <<api, blind>>
    BY DEF PatchDeployment, RegistryInv
<1>2. deps' = [deps EXCEPT ![a] = s2]
    BY DEF PatchDeployment, RegistryInv
<1>3. s[n] \in DeploymentRow
    BY <1>1
<1>4. deployment \in DeploymentRow /\ deployment.by = s[n].by
    BY <1>3 DEF DeploymentRow
<1> HIDE DEF deployment
<1>5. s2 \in Seq(DeploymentRow) /\ DOMAIN s2 = DOMAIN s
    BY <1>1, <1>4
<1>6. \A k \in DOMAIN s : s2[k].by = s[k].by
    BY <1>1, <1>4
<1>7. Seeds(s2) = Seeds(s)
    BY <1>5, <1>6 DEF Seeds
<1> HIDE DEF s2
<1>8. /\ deps' \in [Agents -> Seq(DeploymentRow)] /\ deps'[a] = s2
      /\ \A b \in Agents \ {a} : deps'[b] = deps[b]
    BY <1>2, <1>5 DEF RegistryInv
<1>9. \A b \in Agents : Seeds(deps'[b]) = Seeds(deps[b])
    BY <1>7, <1>8
<1>10. SeedKnows'
    BY <1>1, <1>9, SeedListAgents DEF RegistryInv, SeedKnows
<1>11. QED BY <1>1, <1>8, <1>9, <1>10 DEF RegistryInv

LEMMA SeedDeploys ==
    ASSUME RegistryInv, api.pc = "deploy", UNCHANGED blind,
           CreateDeployment(SeedList[api.n], Deployment(Global, "seed"))
    PROVE  /\ deps' \in [Agents -> Seq(DeploymentRow)]
           /\ \A a \in Agents : a \notin blind' => AtMostOne(Seeds(deps'[a]))
<1> DEFINE a == SeedList[api.n]
           d == Deployment(Global, "seed")
<1>1. /\ a \in Agents /\ (a \notin blind => Seeds(deps[a]) = {})
      /\ d \in DeploymentRow /\ deps[a] \in Seq(DeploymentRow)
    BY SeedListAgents DEF RegistryInv, SeedKnows, Deployment, DeploymentRow
<1> HIDE DEF a, d
<1>2. deps' = [deps EXCEPT ![a] = <<d>> \o deps[a]]
    BY DEF CreateDeployment, a, d
<1>3. /\ deps' \in [Agents -> Seq(DeploymentRow)]
      /\ Seeds(deps[a]) = {} => Seeds(deps'[a]) \subseteq {1}
      /\ \A b \in Agents \ {a} : deps'[b] = deps[b]
    BY <1>1, <1>2, Prepended DEF RegistryInv
<1>4. ASSUME NEW b \in Agents, b \notin blind PROVE AtMostOne(Seeds(deps'[b]))
    <2>1. CASE b = a
        BY <1>1, <1>3, <1>4, <2>1 DEF AtMostOne
    <2>2. CASE b # a
        BY <1>3, <1>4, <2>2 DEF RegistryInv
    <2>3. QED BY <2>1, <2>2
<1>5. QED BY <1>3, <1>4

\* The list is worked through, or given up for the monitor.
LEMMA NextAgentOK ==
    ASSUME SeedKnows, api.pc \in {"agent", "look", "deploy"}
    PROVE  After = Sleeping \/ (After = Seeding(api.n + 1) /\ api.n + 1 \in DOMAIN SeedList)
<1>1. api.n \in 1..Len(SeedList) /\ Len(SeedList) \in Nat /\ DOMAIN SeedList = 1..Len(SeedList)
    BY RegistryAssumption DEF SeedKnows
<1>2. api.n # Len(SeedList) => api.n + 1 \in 1..Len(SeedList)
    BY <1>1
<1>3. QED BY <1>1, <1>2 DEF After

LEMMA ApiGoes ==
    ASSUME NEW x, api' = x,
           \/ x = Sleeping
           \/ x = Begin
           \/ \E n \in DOMAIN SeedList : x = Seeding(n) \/ x = [pc |-> "look", n |-> n]
           \/ x.pc = "sleep" \/ Listing(x)
    PROVE  SeedKnows'
<1>1. Begin = Sleeping \/ (1 \in DOMAIN SeedList /\ Begin = Seeding(1))
    BY RegistryAssumption DEF Begin
<1>2. CASE Listing(x)
    <2>1. x.pc = "list"
        BY <1>2 DEF Listing
    <2>2. QED BY <1>2, <2>1 DEF SeedKnows
<1>3. CASE ~Listing(x)
    <2>1. \/ x = Sleeping \/ x.pc = "sleep"
          \/ \E n \in DOMAIN SeedList : x = Seeding(n) \/ x = [pc |-> "look", n |-> n]
        BY <1>1, <1>3
    <2>2. QED BY <2>1 DEF SeedKnows, Sleeping, Seeding
<1>4. QED BY <1>2, <1>3

LEMMA SeedSteps ==
    ASSUME RegistryInv, SeedAgent \/ SeedLook \/ SeedDeploy \/ SeedRefused \/ SeedFails
    PROVE  RegistryInv'
<1> DEFINE a == SeedList[api.n]
<1>1. api.pc \in {"agent", "look", "deploy"}
    BY DEF SeedAgent, SeedLook, SeedDeploy, SeedRefused, SeedFails
<1>2. /\ api = [pc |-> api.pc, n |-> api.n] /\ api.n \in DOMAIN SeedList /\ a \in Agents
      /\ After = Sleeping \/ (After = Seeding(api.n + 1) /\ api.n + 1 \in DOMAIN SeedList)
    BY <1>1, NextAgentOK, SeedListAgents DEF RegistryInv, SeedKnows
<1>3. ASSUME UNCHANGED <<deps, blind>>, SeedKnows' PROVE RegistryInv'
    BY <1>3 DEF RegistryInv
<1>4. CASE SeedAgent
    <2>1. api' = [pc |-> "look", n |-> api.n]
        BY <1>2, <1>4 DEF SeedAgent
    <2>2. QED BY <1>2, <1>3, <1>4, <2>1, ApiGoes DEF SeedAgent
<1>5. CASE SeedLook
    <2>1. CASE deps[a] = <<>>
        <3>1. api' = [pc |-> "deploy", n |-> api.n] /\ UNCHANGED <<deps, blind>>
            BY <1>2, <1>5, <2>1 DEF SeedLook
        <3>2. Seeds(deps[a]) = {}
            BY <2>1 DEF Seeds
        <3>3. SeedKnows'
            BY <1>2, <3>1, <3>2 DEF SeedKnows
        <3>4. QED BY <1>3, <3>1, <3>3
    <2>2. CASE deps[a] # <<>>
        <3>1. api' = After /\ UNCHANGED <<deps, blind>>
            BY <1>5, <2>2 DEF SeedLook
        <3>2. QED BY <1>2, <1>3, <3>1, ApiGoes
    <2>3. QED BY <2>1, <2>2
<1>6. CASE SeedDeploy
    <2>1. api' = After /\ UNCHANGED blind /\ api.pc = "deploy"
          /\ CreateDeployment(SeedList[api.n], Deployment(Global, "seed"))
        BY <1>6 DEF SeedDeploy
    <2>2. SeedKnows'
        BY <1>2, <2>1, ApiGoes
    <2>3. QED BY <2>1, <2>2, SeedDeploys DEF RegistryInv
<1>7. CASE SeedRefused
    <2>1. CASE api.pc = "look"
        <3>1. /\ api' = [pc |-> "deploy", n |-> api.n] /\ UNCHANGED deps
              /\ blind' = blind \cup {a}
            BY <1>2, <1>7, <2>1 DEF SeedRefused
        <3>2. SeedKnows'
            BY <1>2, <3>1 DEF SeedKnows
        <3>3. QED BY <3>1, <3>2 DEF RegistryInv
    <2>2. CASE api.pc # "look"
        <3>1. /\ UNCHANGED <<deps, blind>>
              /\ api' = [pc |-> "look", n |-> api.n] \/ api' = After
            BY <1>2, <1>7, <2>2 DEF SeedRefused
        <3>2. SeedKnows'
            BY <1>2, <3>1, ApiGoes
        <3>3. QED BY <1>3, <3>1, <3>2
    <2>3. QED BY <2>1, <2>2
<1>8. CASE SeedFails
    <2>1. api' = Sleeping /\ UNCHANGED blind
        BY <1>8 DEF SeedFails
    <2>2. SeedKnows'
        BY <2>1, ApiGoes
    <2>3. \/ UNCHANGED deps
          \/ api.pc = "deploy" /\ CreateDeployment(SeedList[api.n], Deployment(Global, "seed"))
        BY <1>8 DEF SeedFails
    <2>4. QED BY <1>3, <2>1, <2>2, <2>3, SeedDeploys DEF RegistryInv
<1>9. QED BY <1>4, <1>5, <1>6, <1>7, <1>8

LEMMA RegistryKept == ASSUME RegistryInv, [RegistryNext]_registryVars PROVE RegistryInv'
<1>1. ASSUME UNCHANGED <<deps, blind, api>> PROVE RegistryInv'
    BY <1>1 DEF RegistryInv, SeedKnows
<1>2. ASSUME UNCHANGED <<deps, blind>>, api'.pc = "sleep" \/ Listing(api') PROVE RegistryInv'
    BY <1>2, ApiGoes DEF RegistryInv
<1>3. ASSUME NEW a \in Agents, Starts(a) \/ Stops(a) \/ Register(a) \/ PatchAgent(a)
      PROVE  RegistryInv'
    BY <1>1, <1>3 DEF Starts, Stops, Register, PatchAgent
<1>4. ASSUME NEW a \in Agents, NEW t \in Tenants \cup {Global}, Deploy(a, t) PROVE RegistryInv'
    BY <1>4, OperatorDeploys DEF Deploy, Deployment, DeploymentRow
<1>5. ASSUME NEW arrived, Minute(arrived) PROVE RegistryInv'
    <2>1. UNCHANGED <<deps, blind>> /\ api' = Tick
        BY <1>5 DEF Minute
    <2>2. CASE api' = api
        BY <1>1, <2>1, <2>2
    <2>3. CASE api' # api
        <3>1. api.pc = "sleep" /\ api' = [api EXCEPT !.left = @ - 1]
            BY <2>1, <2>3 DEF Tick
        <3>2. api'.pc = "sleep"
            BY <3>1
        <3>3. QED BY <1>2, <2>1, <3>2
    <2>4. QED BY <2>2, <2>3
<1>6. CASE ApiRestarts
    <2>1. UNCHANGED <<deps, blind>> /\ api' = Begin
        BY <1>6 DEF ApiRestarts
    <2>2. SeedKnows'
        BY <2>1, ApiGoes
    <2>3. QED BY <2>1, <2>2 DEF RegistryInv
<1>7. CASE MonitorReads \/ MonitorFails \/ MonitorLooks
    <2>1. UNCHANGED <<deps, blind>>
        BY <1>7 DEF MonitorReads, MonitorFails, MonitorLooks
    <2>2. CASE MonitorReads \/ MonitorFails
        BY <1>2, <2>1, <2>2 DEF MonitorReads, MonitorFails, Sleeping, Listing
    <2>3. CASE MonitorLooks
        <3>1. /\ api.pc = "list"
              /\ api' = Sleeping \/ \E a \in api.left : api' = [api EXCEPT !.left = @ \ {a}]
            BY <2>3 DEF MonitorLooks
        <3>2. Listing(api)
            BY <3>1 DEF RegistryInv, SeedKnows
        <3>3. api'.pc = "sleep" \/ Listing(api')
            BY <3>1, <3>2 DEF Sleeping, Listing
        <3>4. QED BY <1>2, <2>1, <3>3
    <2>4. QED BY <1>7, <2>2, <2>3
<1>8. CASE UNCHANGED registryVars
    BY <1>1, <1>8 DEF registryVars
<1>9. QED BY <1>3, <1>4, <1>5, <1>6, <1>7, <1>8, PatchKeeps, SeedSteps DEF RegistryNext, ApiSteps

LEMMA RegistryInitial == ASSUME RegistryInit PROVE RegistryInv
<1>1. deps = [a \in Agents |-> <<>>] /\ api = Begin
    BY DEF RegistryInit
<1>2. Begin = Sleeping \/ (1 \in DOMAIN SeedList /\ Begin = Seeding(1))
    BY RegistryAssumption DEF Begin
<1>3. SeedKnows
    BY <1>1, <1>2 DEF SeedKnows, Sleeping, Seeding
<1>4. \A a \in Agents : Seeds(deps[a]) = {}
    BY <1>1 DEF Seeds
<1>5. QED BY <1>1, <1>3, <1>4 DEF RegistryInv, AtMostOne

\* A finite set of numbers has a least and a greatest element.
LEMMA Extremes ==
    ASSUME NEW S, IsFiniteSet(S), S # {}, S \subseteq Int
    PROVE  /\ \E n \in S : \A m \in S : m <= n
           /\ \E n \in S : \A m \in S : n <= m
<1>1. IsWellFoundedOn(StrictSubsetOrdering(S), SUBSET S)
    BY FS_StrictSubsetOrderingWellFounded, FS_FiniteSubsetsOfFinite
<1>2. \E n \in S : \A m \in S : m <= n
    <2> DEFINE Above(n) == {m \in S : m > n}
               T == {Above(n) : n \in S}
    <2>1. T \subseteq SUBSET S /\ T # {}
        OBVIOUS
    <2>2. PICK X \in T : \A Y \in T : ~(<<Y, X>> \in StrictSubsetOrdering(S))
        BY ONLY <1>1, <2>1, WFMin
    <2>3. PICK n \in S : X = Above(n)
        OBVIOUS
    <2>4. ASSUME NEW m \in S, m > n PROVE FALSE
        <3>1. m \in Int /\ n \in Int /\ \A k \in S : k \in Int
            OBVIOUS
        <3>2. ASSUME NEW k \in S, k > m PROVE k > n
            BY <2>4, <3>1, <3>2
        <3>3. ~(m > m)
            BY <3>1
        <3>4. Above(m) \subseteq Above(n) /\ m \in Above(n) /\ m \notin Above(m)
            BY ONLY <2>4, <3>2, <3>3, Zenon
        <3>5. <<Above(m), X>> \in StrictSubsetOrdering(S)
            BY <2>3, <3>4 DEF StrictSubsetOrdering
        <3>6. QED BY <2>2, <3>5
    <2>5. QED BY <2>4
<1>3. \E n \in S : \A m \in S : n <= m
    <2> DEFINE Below(n) == {m \in S : m < n}
               T == {Below(n) : n \in S}
    <2>1. T \subseteq SUBSET S /\ T # {}
        OBVIOUS
    <2>2. PICK X \in T : \A Y \in T : ~(<<Y, X>> \in StrictSubsetOrdering(S))
        BY ONLY <1>1, <2>1, WFMin
    <2>3. PICK n \in S : X = Below(n)
        OBVIOUS
    <2>4. ASSUME NEW m \in S, m < n PROVE FALSE
        <3>1. m \in Int /\ n \in Int /\ \A k \in S : k \in Int
            OBVIOUS
        <3>2. ASSUME NEW k \in S, k < m PROVE k < n
            BY <2>4, <3>1, <3>2
        <3>3. ~(m < m)
            BY <3>1
        <3>4. Below(m) \subseteq Below(n) /\ m \in Below(n) /\ m \notin Below(m)
            BY ONLY <2>4, <3>2, <3>3, Zenon
        <3>5. <<Below(m), X>> \in StrictSubsetOrdering(S)
            BY <2>3, <3>4 DEF StrictSubsetOrdering
        <3>6. QED BY <2>2, <3>5
    <2>5. QED BY <2>4
<1>4. QED BY <1>2, <1>3

LEMMA SeedsCounted == ASSUME RegistryInv PROVE SeedMakesOne
<1>1. SUFFICES ASSUME NEW a \in Agents, a \notin blind PROVE Cardinality(Seeds(deps[a])) <= 1
    BY DEF SeedMakesOne, Seeds
<1>2. AtMostOne(Seeds(deps[a]))
    BY <1>1 DEF RegistryInv
<1>3. CASE Seeds(deps[a]) = {}
    BY <1>3, FS_EmptySet
<1>4. CASE Seeds(deps[a]) # {}
    <2>1. PICK n \in Seeds(deps[a]) : Seeds(deps[a]) = {n}
        BY <1>2, <1>4 DEF AtMostOne
    <2>2. Cardinality({n}) = 1
        BY FS_Singleton
    <2>3. QED BY <2>1, <2>2
<1>5. QED BY <1>3, <1>4

LEMMA OwnResolved == ASSUME RegistryInv PROVE ResolvesOwn
<1>1. SUFFICES ASSUME NEW a \in Agents, NEW t \in Tenants \cup {Global},
                      \E n \in DOMAIN deps[a] : deps[a][n].tenant = t,
                      Resolve(a, t) # Nothing
               PROVE  Resolve(a, t).tenant = t
    BY DEF ResolvesOwn
<1> DEFINE own == {n \in DOMAIN deps[a] : deps[a][n].tenant = t}
           k == CHOOSE n \in own : \A m \in own : m <= n
<1>2. deps[a] \in Seq(DeploymentRow)
    BY DEF RegistryInv
<1>3. own # {} /\ own \subseteq 1..Len(deps[a]) /\ Len(deps[a]) \in Nat
    BY <1>1, <1>2
<1>4. IsFiniteSet(own)
    <2>1. IsFiniteSet(1..Len(deps[a]))
        BY <1>3, FS_Interval
    <2> HIDE DEF own
    <2>2. QED BY <1>3, <2>1, FS_Subset
<1>5. \E n \in own : \A m \in own : m <= n
    <2>1. own \subseteq Int
        BY <1>3
    <2> HIDE DEF own
    <2>2. QED BY <1>3, <1>4, <2>1, Extremes
<1>6. k \in own
    BY <1>5
<1>7. Resolve(a, t) = deps[a][k]
    <2>1. ~(a \in off \/ deps[a] = <<>>)
        BY <1>1 DEF Resolve
    <2>2. QED BY <1>3, <2>1 DEF Resolve
<1>8. QED BY <1>6, <1>7

(***************************************************************************)
(* Mail that is sent.                                                       *)
(***************************************************************************)

Message(pc, c, u, ok) == [pc |-> pc, copies |-> c, unheard |-> u, ok |-> ok]

\* What the mail server took of a message, and whether nexus heard of it.
MessageFits(pc, c, u, ok) ==
    /\ pc \in {"idle", "smtp", "keep", "bridge", "done"} /\ c \in Nat
    /\ u \in BOOLEAN /\ ok \in BOOLEAN
    /\ pc \in {"idle", "smtp"} => c = 0
    /\ pc = "keep" => c > 0
    /\ pc = "bridge" => c <= 1 /\ (c = 1 => u = TRUE)
    /\ pc # "done" => ok = FALSE
    /\ ok = TRUE => c > 0
    /\ c > 1 => u = TRUE
    /\ pc = "done" /\ c = 1 /\ ok = FALSE => u = TRUE

SentSoFar(m) ==
    /\ m = Message(m.pc, m.copies, m.unheard, m.ok)
    /\ MessageFits(m.pc, m.copies, m.unheard, m.ok)

LEMMA MessageOK ==
    ASSUME NEW pc, NEW c, NEW u, NEW ok, MessageFits(pc, c, u, ok)
    PROVE  SentSoFar(Message(pc, c, u, ok))
<1> DEFINE m == Message(pc, c, u, ok)
<1>1. m.pc = pc /\ m.copies = c /\ m.unheard = u /\ m.ok = ok
    BY DEF Message
<1> HIDE DEF m
<1>2. SentSoFar(m)
    BY <1>1 DEF SentSoFar, m
<1>3. QED BY <1>2 DEF m

LEMMA MessageForm ==
    ASSUME SentSoFar(sending)
    PROVE  /\ sending = Message(sending.pc, sending.copies, sending.unheard, sending.ok)
           /\ sending.copies \in Nat /\ sending.unheard \in BOOLEAN /\ sending.ok \in BOOLEAN
BY DEF SentSoFar, MessageFits

LEMMA TakenForm ==
    ASSUME SentSoFar(sending), NEW b \in BOOLEAN, NEW pc
    PROVE  \E u \in BOOLEAN :
               /\ u = TRUE <=> (sending.unheard = TRUE \/ b = TRUE)
               /\ [Taken(b) EXCEPT !.pc = pc] = Message(pc, sending.copies + 1, u, sending.ok)
<1>1. PICK u \in BOOLEAN : u = (sending.unheard \/ b)
    BY MessageForm
<1>2. u = TRUE <=> (sending.unheard = TRUE \/ b = TRUE)
    <2>1. sending.unheard \in BOOLEAN
        BY MessageForm
    <2>2. QED BY <1>1, <2>1, Zenon
<1>3. Taken(b) = [sending EXCEPT !.copies = sending.copies + 1, !.unheard = u]
    BY <1>1, Zenon DEF Taken
<1> DEFINE c == sending.copies
           v == sending.unheard
           k == sending.ok
<1>4. sending = [pc |-> sending.pc, copies |-> c, unheard |-> v, ok |-> k]
    BY MessageForm DEF Message
<1> HIDE DEF c, v, k
<1>5. [sending EXCEPT !.copies = c + 1] =
          [pc |-> sending.pc, copies |-> c + 1, unheard |-> v, ok |-> k]
    BY ONLY <1>4
<1>6. Taken(b) = [[sending EXCEPT !.copies = c + 1] EXCEPT !.unheard = u]
    BY ONLY <1>3, <1>4 DEF c
<1>7. Taken(b) = [pc |-> sending.pc, copies |-> c + 1, unheard |-> u, ok |-> k]
    BY ONLY <1>5, <1>6
<1>8. [Taken(b) EXCEPT !.pc = pc] = [pc |-> pc, copies |-> c + 1, unheard |-> u, ok |-> k]
    BY ONLY <1>7
<1>9. QED BY <1>2, <1>8 DEF Message, c, k

LEMMA SendingKept == ASSUME SentSoFar(sending), [SendNext]_sending PROVE SentSoFar(sending')
<1> DEFINE c == sending.copies
           u == sending.unheard
           ok == sending.ok
<1>1. sending = Message(sending.pc, c, u, ok) /\ c \in Nat /\ u \in BOOLEAN /\ ok \in BOOLEAN
    BY MessageForm
<1>2. CASE SendRequest
    <2>1. sending.pc = "idle" /\ sending' = Message("smtp", c, u, ok)
        BY <1>1, <1>2 DEF SendRequest, Message
    <2>2. c = 0 /\ ok = FALSE
        BY <2>1 DEF SentSoFar, MessageFits
    <2> HIDE DEF c, u, ok
    <2>3. MessageFits("smtp", c, u, ok)
        BY <1>1, <2>1, <2>2 DEF MessageFits
    <2>4. QED BY <2>1, <2>3, MessageOK
<1>3. CASE SendSmtp
    <2>1. sending.pc = "smtp" /\ c = 0 /\ ok = FALSE
        BY <1>3 DEF SendSmtp, SentSoFar, MessageFits
    <2>2. CASE sending' = [Taken(FALSE) EXCEPT !.pc = "keep"]
        <3>1. PICK w \in BOOLEAN : (w = TRUE <=> u = TRUE) /\ sending' = Message("keep", c + 1, w, ok)
            BY <2>2, TakenForm
        <3> HIDE DEF c, u, ok
        <3>2. MessageFits("keep", c + 1, w, ok)
            BY <1>1, <2>1, <3>1 DEF MessageFits
        <3>3. QED BY <3>1, <3>2, MessageOK
    <2>3. CASE sending' = [sending EXCEPT !.pc = "bridge"]
        <3>1. sending' = Message("bridge", c, u, ok)
            BY <1>1, <2>3 DEF Message
        <3> HIDE DEF c, u, ok
        <3>2. MessageFits("bridge", c, u, ok)
            BY <1>1, <2>1, <3>1 DEF MessageFits
        <3>3. QED BY <3>1, <3>2, MessageOK
    <2>4. CASE sending' = [Taken(TRUE) EXCEPT !.pc = "bridge"]
        <3>1. PICK w \in BOOLEAN : w = TRUE /\ sending' = Message("bridge", c + 1, w, ok)
            BY <2>4, TakenForm
        <3> HIDE DEF c, u, ok
        <3>2. MessageFits("bridge", c + 1, w, ok)
            BY <1>1, <2>1, <3>1 DEF MessageFits
        <3>3. QED BY <3>1, <3>2, MessageOK
    <2>5. QED BY <1>3, <2>2, <2>3, <2>4 DEF SendSmtp
<1>4. CASE SaveToSentFolder
    <2>1. sending.pc = "keep" /\ c > 0 /\ (c > 1 => u = TRUE)
        BY <1>4 DEF SaveToSentFolder, SentSoFar, MessageFits
    <2>2. sending' = Message("done", c, u, TRUE)
        BY <1>1, <1>4 DEF SaveToSentFolder, Message
    <2> HIDE DEF c, u, ok
    <2>3. MessageFits("done", c, u, TRUE)
        BY <1>1, <2>1, <2>2 DEF MessageFits
    <2>4. QED BY <2>2, <2>3, MessageOK
<1>5. CASE SendViaBridge
    <2>1. sending.pc = "bridge" /\ c <= 1 /\ (c = 1 => u = TRUE) /\ ok = FALSE
        BY <1>5 DEF SendViaBridge, SentSoFar, MessageFits
    <2>2. CASE sending' = [Taken(FALSE) EXCEPT !.pc = "keep"]
        <3>1. PICK w \in BOOLEAN : (w = TRUE <=> u = TRUE) /\ sending' = Message("keep", c + 1, w, ok)
            BY <2>2, TakenForm
        <3> HIDE DEF c, u, ok
        <3>2. MessageFits("keep", c + 1, w, ok)
            BY <1>1, <2>1, <3>1 DEF MessageFits
        <3>3. QED BY <3>1, <3>2, MessageOK
    <2>3. CASE sending' = [sending EXCEPT !.pc = "done"]
        <3>1. sending' = Message("done", c, u, ok)
            BY <1>1, <2>3 DEF Message
        <3> HIDE DEF c, u, ok
        <3>2. MessageFits("done", c, u, ok)
            BY <1>1, <2>1, <3>1 DEF MessageFits
        <3>3. QED BY <3>1, <3>2, MessageOK
    <2>4. CASE sending' = [Taken(TRUE) EXCEPT !.pc = "done"]
        <3>1. PICK w \in BOOLEAN : w = TRUE /\ sending' = Message("done", c + 1, w, ok)
            BY <2>4, TakenForm
        <3> HIDE DEF c, u, ok
        <3>2. MessageFits("done", c + 1, w, ok)
            BY <1>1, <2>1, <3>1 DEF MessageFits
        <3>3. QED BY <3>1, <3>2, MessageOK
    <2>5. QED BY <1>5, <2>2, <2>3, <2>4 DEF SendViaBridge
<1>6. CASE UNCHANGED sending
    BY <1>6
<1>7. QED BY <1>2, <1>3, <1>4, <1>5, <1>6 DEF SendNext

(***************************************************************************)
(* Mailbox credentials.                                                     *)
(***************************************************************************)

Boxes == [Mailboxes -> [there : BOOLEAN, active : BOOLEAN, pw : Nat]]
CredentialOrder ==
    [pc : {"look", "store", "resolve", "check", "write", "reply"}, m : Mailboxes,
     act : {"create", "reset"}, pw : Nat, got : Nat, known : BOOLEAN, made : BOOLEAN,
     heard : BOOLEAN, ok : BOOLEAN, alone : BOOLEAN]

\* What a request nobody ran beside knows of the vault S and the mail server's table B.
OrderKnows(q, B, S) ==
    /\ q.pc \in {"look", "store", "resolve", "check", "write"} => ~q.ok /\ ~q.made
    /\ q.alone /\ q.pc \notin {"look", "store"} => S[AliasOf[q.m]] = q.pw
    /\ q.alone /\ q.pc \in {"check", "write", "reply"} => q.got = q.pw
    /\ q.alone /\ q.pc = "reply" /\ q.ok /\ (q.act = "reset" \/ q.made) => B[q.m].pw = q.pw

\* No two requests for one alias are both alone; credential requests come in their
\* own part of Operations.
CredentialInv ==
    /\ box \in Boxes /\ stored \in [Vaults -> Nat] /\ issued \in Nat
    /\ DOMAIN order = MailReqs /\ order = [q \in MailReqs |-> order[q]]
    /\ \A q \in MailReqs :
           order[q] = NoOrder \/ (order[q] \in CredentialOrder /\ OrderKnows(order[q], box, stored))
    /\ \A p, q \in MailReqs :
           p # q /\ Open(p) /\ Open(q) /\ AliasOf[order[p].m] = AliasOf[order[q].m] =>
               ~order[p].alone

-----------------------------------------------------------------------------

LEMMA OpenTyped ==
    ASSUME CredentialInv, NEW q \in MailReqs, order[q].pc # "idle"
    PROVE  /\ order[q] \in CredentialOrder /\ OrderKnows(order[q], box, stored)
           /\ AliasOf[order[q].m] \in Vaults /\ order[q].m \in Mailboxes
BY DEF CredentialInv, NoOrder, CredentialOrder, Vaults

\* A step of request q, which becomes o; it changes the vault and the table at most
\* where its own alias and mailbox are.
LEMMA OrderGoes ==
    ASSUME CredentialInv, NEW q \in MailReqs, Open(q), UNCHANGED issued, NEW o,
           order' = [order EXCEPT ![q] = o],
           box' \in Boxes, stored' \in [Vaults -> Nat],
           o = NoOrder \/ /\ o \in CredentialOrder /\ OrderKnows(o, box', stored')
                          /\ o.m = order[q].m /\ (o.alone => order[q].alone),
           \A m \in Mailboxes : m # order[q].m => box'[m] = box[m],
           \A k \in Vaults : k # AliasOf[order[q].m] => stored'[k] = stored[k]
    PROVE  CredentialInv'
<1>1. /\ DOMAIN order' = MailReqs /\ order' = [p \in MailReqs |-> order'[p]] /\ order'[q] = o
      /\ \A p \in MailReqs \ {q} : order'[p] = order[p]
    BY DEF CredentialInv
<1>2. ASSUME NEW p \in MailReqs
      PROVE  \/ order'[p] = NoOrder
             \/ order'[p] \in CredentialOrder /\ OrderKnows(order'[p], box', stored')
    <2>1. CASE p = q
        BY <1>1, <2>1
    <2>2. CASE p # q /\ order[p] = NoOrder
        BY <1>1, <2>2
    <2>3. CASE p # q /\ order[p] # NoOrder
        <3>1. order[p] \in CredentialOrder /\ OrderKnows(order[p], box, stored) /\ Open(p)
            BY <2>3 DEF CredentialInv, CredentialOrder, Open
        <3>2. AliasOf[order[p].m] \in Vaults /\ order[p].m \in Mailboxes
            BY <3>1, OpenTyped DEF Open
        <3>3. CASE order[p].alone
            <4>1. AliasOf[order[p].m] # AliasOf[order[q].m] /\ order[p].m # order[q].m
                BY <2>3, <3>1, <3>3 DEF CredentialInv
            <4>2. stored'[AliasOf[order[p].m]] = stored[AliasOf[order[p].m]]
                  /\ box'[order[p].m] = box[order[p].m]
                BY <3>2, <4>1
            <4>3. QED BY <1>1, <2>3, <3>1, <4>2 DEF OrderKnows
        <3>4. CASE ~order[p].alone
            BY <1>1, <2>3, <3>1, <3>4 DEF OrderKnows
        <3>5. QED BY <3>3, <3>4
    <2>4. QED BY <2>1, <2>2, <2>3
<1>3. ASSUME NEW p \in MailReqs, NEW r \in MailReqs, p # r, Open(p)', Open(r)',
             AliasOf[order'[p].m] = AliasOf[order'[r].m]
      PROVE  ~order'[p].alone
    <2>1. Open(p) /\ Open(r)
        BY <1>1, <1>3 DEF Open
    <2>2. order'[p].m = order[p].m /\ order'[r].m = order[r].m
        BY <1>1, <1>3 DEF Open, NoOrder
    <2>3. ~order[p].alone
        BY <1>3, <2>1, <2>2 DEF CredentialInv
    <2>4. CASE p = q
        BY <1>1, <1>3, <2>3, <2>4 DEF Open, NoOrder
    <2>5. CASE p # q
        BY <1>1, <2>3, <2>5
    <2>6. QED BY <2>4, <2>5
<1>4. QED BY <1>1, <1>2, <1>3 DEF CredentialInv

\* A request that only goes on.
LEMMA OrderMoves ==
    ASSUME CredentialInv, NEW q \in MailReqs, Open(q), NEW o, order' = [order EXCEPT ![q] = o],
           UNCHANGED <<box, stored, issued>>,
           o = NoOrder \/ /\ o \in CredentialOrder /\ OrderKnows(o, box, stored)
                          /\ o.m = order[q].m /\ (o.alone => order[q].alone)
    PROVE  CredentialInv'
<1>1. box' \in Boxes /\ stored' \in [Vaults -> Nat]
    BY DEF CredentialInv
<1>2. QED BY <1>1, OrderGoes

LEMMA OrderCloses ==
    ASSUME CredentialInv, NEW q \in MailReqs, Open(q), Closed(q), UNCHANGED <<box, stored, issued>>
    PROVE  CredentialInv'
BY OrderMoves DEF Closed

LEMMA ProvisionKept ==
    ASSUME CredentialInv, NEW q \in MailReqs, NEW m \in Mailboxes, NEW act \in {"create", "reset"},
           Provision(q, m, act)
    PROVE  CredentialInv'
<1> DEFINE met == {p \in MailReqs \ {q} : Open(p) /\ AliasOf[order[p].m] = AliasOf[m]}
           Left(p) == IF p \in met THEN [order[p] EXCEPT !.alone = FALSE] ELSE order[p]
<1>1. PICK b \in BOOLEAN : b = (met = {})
    OBVIOUS
<1> DEFINE new == [pc |-> "look", m |-> m, act |-> act, pw |-> issued + 1, got |-> 0,
                   known |-> FALSE, made |-> FALSE, heard |-> TRUE, ok |-> FALSE, alone |-> b]
<1>2. /\ ~Open(q) /\ issued' = issued + 1 /\ UNCHANGED <<box, stored>>
      /\ order' = [p \in MailReqs |-> IF p = q THEN new ELSE Left(p)]
    BY <1>1 DEF Provision, listVars
<1>3. new \in CredentialOrder /\ OrderKnows(new, box, stored) /\ new.m = m
    BY DEF CredentialOrder, OrderKnows, CredentialInv
<1>4. new.alone <=> met = {}
    BY <1>1, Zenon
<1> HIDE DEF new
<1>5. ASSUME NEW p \in MailReqs \ {q}, order[p] # NoOrder
      PROVE  /\ Open(p) /\ Left(p) \in CredentialOrder /\ OrderKnows(Left(p), box, stored)
             /\ Left(p).m = order[p].m /\ (Left(p).alone => order[p].alone /\ p \notin met)
    <2>1. order[p] \in CredentialOrder /\ OrderKnows(order[p], box, stored) /\ Open(p)
        BY <1>5 DEF CredentialInv, Open, CredentialOrder
    <2>2. CASE p \in met
        <3> DEFINE o == [order[p] EXCEPT !.alone = FALSE]
        <3>1. /\ o \in CredentialOrder /\ ~o.alone /\ o.m = order[p].m /\ o.pc = order[p].pc
              /\ o.ok = order[p].ok /\ o.made = order[p].made
            BY <2>1 DEF CredentialOrder
        <3>2. Left(p) = o
            BY <2>2
        <3> HIDE DEF o
        <3>3. OrderKnows(o, box, stored)
            BY <2>1, <3>1 DEF OrderKnows
        <3>4. QED BY <2>1, <3>1, <3>2, <3>3
    <2>3. CASE p \notin met
        BY <2>1, <2>3
    <2>4. QED BY <2>2, <2>3
<1>6. ASSUME NEW p \in MailReqs \ {q}, order[p] = NoOrder PROVE Left(p) = NoOrder /\ ~Open(p)
    <2>1. p \notin met
        BY <1>6 DEF Open, NoOrder
    <2>2. QED BY <1>6, <2>1 DEF Open, NoOrder
<1>7. /\ DOMAIN order' = MailReqs /\ order' = [p \in MailReqs |-> order'[p]]
      /\ order'[q] = new /\ \A p \in MailReqs \ {q} : order'[p] = Left(p)
    BY <1>2
<1>8. ASSUME NEW p \in MailReqs, NEW r \in MailReqs, p # r, Open(p)', Open(r)',
             AliasOf[order'[p].m] = AliasOf[order'[r].m], order'[p].alone
      PROVE  FALSE
    <2>1. CASE p = q
        <3>1. r # q /\ order'[r] = Left(r)
            BY <1>7, <1>8, <2>1
        <3>2. order[r] # NoOrder
            BY <1>6, <1>8, <3>1 DEF Open, NoOrder
        <3>3. Open(r) /\ Left(r).m = order[r].m
            BY <1>5, <3>1, <3>2
        <3>4. r \in met
            BY <1>3, <1>7, <1>8, <2>1, <3>1, <3>3
        <3>5. QED BY <1>4, <1>7, <1>8, <2>1, <3>4
    <2>2. CASE r = q
        <3>1. p # q /\ order'[p] = Left(p)
            BY <1>7, <1>8, <2>2
        <3>2. order[p] # NoOrder
            BY <1>6, <1>8, <3>1 DEF Open, NoOrder
        <3>3. Open(p) /\ Left(p).m = order[p].m /\ p \notin met
            BY <1>5, <1>8, <3>1, <3>2
        <3>4. p \in met
            BY <1>3, <1>7, <1>8, <2>2, <3>1, <3>3
        <3>5. QED BY <3>3, <3>4
    <2>3. CASE p # q /\ r # q
        <3>1. order'[p] = Left(p) /\ order'[r] = Left(r)
            BY <1>7, <2>3
        <3>2. order[p] # NoOrder /\ order[r] # NoOrder
            BY <1>6, <1>8, <2>3, <3>1 DEF Open, NoOrder
        <3>3. /\ Open(p) /\ Left(p).m = order[p].m /\ order[p].alone
              /\ Open(r) /\ Left(r).m = order[r].m
            BY <1>5, <1>8, <2>3, <3>1, <3>2
        <3> HIDE DEF met, Left
        <3>4. QED BY <1>8, <3>1, <3>3 DEF CredentialInv
    <2>4. QED BY <2>1, <2>2, <2>3
<1>9. ASSUME NEW p \in MailReqs
      PROVE  \/ order'[p] = NoOrder
             \/ order'[p] \in CredentialOrder /\ OrderKnows(order'[p], box', stored')
    <2>1. CASE p = q
        BY <1>2, <1>3, <1>7, <2>1
    <2>2. CASE p # q
        BY <1>2, <1>5, <1>6, <1>7, <2>2
    <2>3. QED BY <2>1, <2>2
<1>10. issued' \in Nat
    BY <1>2 DEF CredentialInv
<1> HIDE DEF met, Left
<1>11. QED BY <1>2, <1>7, <1>8, <1>9, <1>10 DEF CredentialInv

LEMMA LookKept == ASSUME CredentialInv, NEW q \in MailReqs, LookInVault(q) PROVE CredentialInv'
<1>1. /\ order[q].pc = "look" /\ UNCHANGED <<box, stored, issued>>
      /\ order' = [order EXCEPT ![q].pc = "store", ![q].known = stored[AliasOf[order[q].m]] # 0]
    BY DEF LookInVault
<1>2. /\ order[q] \in CredentialOrder /\ OrderKnows(order[q], box, stored) /\ Open(q)
    BY <1>1, OpenTyped DEF Open
<1>3. PICK b \in BOOLEAN : b = (stored[AliasOf[order[q].m]] # 0)
    OBVIOUS
<1> DEFINE o == [order[q] EXCEPT !.pc = "store", !.known = b]
<1>4. order' = [order EXCEPT ![q] = o]
    BY <1>1, <1>3 DEF CredentialInv
<1>5. /\ o \in CredentialOrder /\ o.pc = "store" /\ o.m = order[q].m /\ o.alone = order[q].alone
      /\ o.ok = order[q].ok /\ o.made = order[q].made
    BY <1>2 DEF CredentialOrder
<1> HIDE DEF o
<1>6. OrderKnows(o, box, stored)
    BY <1>1, <1>2, <1>5 DEF OrderKnows
<1>7. QED BY <1>1, <1>2, <1>4, <1>5, <1>6, OrderMoves

\* The secret is stored, and the request goes on or, its answer lost, ends.
LEMMA StoredKept ==
    ASSUME CredentialInv, NEW q \in MailReqs, order[q].pc = "store", UNCHANGED <<box, issued>>,
           To(q, "resolve") \/ Closed(q),
           stored' = [stored EXCEPT ![AliasOf[order[q].m]] = order[q].pw]
    PROVE  CredentialInv'
<1>1. /\ order[q] \in CredentialOrder /\ OrderKnows(order[q], box, stored) /\ Open(q)
      /\ AliasOf[order[q].m] \in Vaults
    BY OpenTyped DEF Open
<1>2. /\ box' \in Boxes /\ stored' \in [Vaults -> Nat]
      /\ \A m \in Mailboxes : m # order[q].m => box'[m] = box[m]
      /\ \A k \in Vaults : k # AliasOf[order[q].m] => stored'[k] = stored[k]
      /\ stored'[AliasOf[order[q].m]] = order[q].pw
    BY <1>1 DEF CredentialInv, CredentialOrder
<1>3. CASE Closed(q)
    BY <1>1, <1>2, <1>3, OrderGoes DEF Closed
<1>4. CASE To(q, "resolve")
    <2> DEFINE o == [order[q] EXCEPT !.pc = "resolve"]
    <2>1. order' = [order EXCEPT ![q] = o]
        BY <1>4 DEF To, CredentialInv
    <2>2. /\ o \in CredentialOrder /\ o.pc = "resolve" /\ o.m = order[q].m
          /\ o.alone = order[q].alone /\ o.ok = order[q].ok /\ o.made = order[q].made
          /\ o.pw = order[q].pw
        BY <1>1 DEF CredentialOrder
    <2> HIDE DEF o
    <2>3. OrderKnows(o, box', stored')
        BY <1>1, <1>2, <2>2 DEF OrderKnows
    <2>4. QED BY <1>1, <1>2, <2>1, <2>2, <2>3, OrderGoes
<1>5. QED BY <1>3, <1>4

LEMMA StoreKept ==
    ASSUME CredentialInv, NEW q \in MailReqs, StoreInVault(q) \/ StoreLost(q)
    PROVE  CredentialInv'
<1>1. order[q].pc = "store" /\ UNCHANGED <<box, issued>> /\ Open(q)
    BY DEF StoreInVault, StoreLost, Open
<1>2. CASE StoreInVault(q) /\ StoreRefused(q)
    BY <1>1, <1>2, OrderCloses DEF StoreInVault
<1>3. CASE StoreInVault(q) /\ ~StoreRefused(q)
    BY <1>1, <1>3, StoredKept DEF StoreInVault
<1>4. CASE StoreLost(q)
    BY <1>1, <1>4, StoredKept DEF StoreLost
<1>5. QED BY <1>2, <1>3, <1>4

LEMMA ResolveKept ==
    ASSUME CredentialInv, NEW q \in MailReqs, ResolvePassword(q) PROVE CredentialInv'
<1> DEFINE got == stored[AliasOf[order[q].m]]
           o == [order[q] EXCEPT !.pc = "check", !.got = got]
<1>1. order[q].pc = "resolve" /\ UNCHANGED <<box, stored, issued>>
    BY DEF ResolvePassword
<1>2. /\ order[q] \in CredentialOrder /\ OrderKnows(order[q], box, stored) /\ Open(q)
      /\ got \in Nat
    BY <1>1, OpenTyped DEF Open, CredentialInv
<1>3. order' = [order EXCEPT ![q] = o]
    BY DEF ResolvePassword, CredentialInv
<1>4. /\ o \in CredentialOrder /\ o.pc = "check" /\ o.m = order[q].m /\ o.alone = order[q].alone
      /\ o.ok = order[q].ok /\ o.made = order[q].made /\ o.pw = order[q].pw /\ o.got = got
    BY <1>2 DEF CredentialOrder
<1> HIDE DEF o
<1>5. OrderKnows(o, box, stored)
    BY <1>1, <1>2, <1>4 DEF OrderKnows
<1>6. QED BY <1>1, <1>2, <1>3, <1>4, <1>5, OrderMoves

LEMMA ChecksKept == ASSUME CredentialInv, NEW q \in MailReqs, ScriptChecks(q) PROVE CredentialInv'
<1> DEFINE there == box[order[q].m].there
<1>1. order[q].pc = "check" /\ UNCHANGED <<box, stored, issued>>
    BY DEF ScriptChecks
<1>2. /\ order[q] \in CredentialOrder /\ OrderKnows(order[q], box, stored) /\ Open(q)
      /\ there \in BOOLEAN
    BY <1>1, OpenTyped DEF Open, CredentialInv, Boxes
<1>3. PICK ok \in BOOLEAN : ok = (there /\ order[q].act = "create")
    OBVIOUS
<1>4. PICK pc \in {"write", "reply"} :
          pc = IF there = (order[q].act = "reset") THEN "write" ELSE "reply"
    OBVIOUS
<1> DEFINE o == [order[q] EXCEPT !.pc = pc, !.ok = ok]
<1>5. order' = [order EXCEPT ![q].pc = pc, ![q].ok = ok]
    BY <1>3, <1>4, Zenon DEF ScriptChecks
<1>6. order' = [order EXCEPT ![q] = o]
    BY <1>5 DEF CredentialInv
<1>7. order[q].act = "create" \/ order[q].act = "reset"
    BY <1>2 DEF CredentialOrder
<1>8. (ok => order[q].act = "create") /\ (pc = "write" => ~ok)
    <2>1. ok => order[q].act = "create"
        BY ONLY <1>3, Zenon
    <2>2. ASSUME pc = "write", ok PROVE FALSE
        <3>1. there = (order[q].act = "reset")
            BY ONLY <1>4, <2>2
        <3>2. there
            BY ONLY <1>3, <2>2, Zenon
        <3>3. order[q].act = "reset"
            BY ONLY <3>1, <3>2, Zenon
        <3>4. QED BY <2>1, <2>2, <3>3
    <2>3. QED BY <2>1, <2>2
<1>9. /\ o \in CredentialOrder /\ o.pc = pc /\ o.m = order[q].m /\ o.alone = order[q].alone
      /\ o.ok = ok /\ o.made = order[q].made /\ o.pw = order[q].pw /\ o.got = order[q].got
      /\ o.act = order[q].act
    BY <1>2 DEF CredentialOrder
<1> HIDE DEF o
<1>10. OrderKnows(o, box, stored)
    BY <1>1, <1>2, <1>8, <1>9 DEF OrderKnows
<1>11. QED BY <1>1, <1>2, <1>6, <1>9, <1>10, OrderMoves

\* The scripts write the mailbox: it is inserted, or its password is set.
LEMMA WritesKept ==
    ASSUME CredentialInv, NEW q \in MailReqs, order[q].pc = "write", UNCHANGED <<stored, issued>>,
           NEW b \in [there : BOOLEAN, active : BOOLEAN, pw : Nat], b.pw = order[q].got,
           box' = [box EXCEPT ![order[q].m] = b],
           NEW made \in BOOLEAN, NEW ok \in BOOLEAN,
           order' = [order EXCEPT ![q] = [order[q] EXCEPT !.pc = "reply", !.ok = ok, !.made = made]]
    PROVE  CredentialInv'
<1> DEFINE o == [order[q] EXCEPT !.pc = "reply", !.ok = ok, !.made = made]
<1>1. /\ order[q] \in CredentialOrder /\ OrderKnows(order[q], box, stored) /\ Open(q)
      /\ order[q].m \in Mailboxes
    BY OpenTyped DEF Open
<1>2. /\ box' \in Boxes /\ stored' \in [Vaults -> Nat]
      /\ \A m \in Mailboxes : m # order[q].m => box'[m] = box[m]
      /\ \A k \in Vaults : k # AliasOf[order[q].m] => stored'[k] = stored[k]
      /\ box'[order[q].m].pw = order[q].got
    BY <1>1 DEF CredentialInv, Boxes
<1>3. /\ o \in CredentialOrder /\ o.pc = "reply" /\ o.m = order[q].m /\ o.alone = order[q].alone
      /\ o.pw = order[q].pw /\ o.got = order[q].got
    BY <1>1 DEF CredentialOrder
<1> HIDE DEF o
<1>4. OrderKnows(o, box', stored')
    BY <1>1, <1>2, <1>3 DEF OrderKnows
<1>5. order' = [order EXCEPT ![q] = o]
    BY DEF o
<1>6. QED BY <1>1, <1>2, <1>3, <1>4, <1>5, OrderGoes

LEMMA InsertKept ==
    ASSUME CredentialInv, NEW q \in MailReqs, InsertMailbox(q) \/ ScriptStops(q)
    PROVE  CredentialInv'
<1> DEFINE m == order[q].m
           b == [there |-> TRUE, active |-> TRUE, pw |-> order[q].got]
<1>1. order[q].pc = "write" /\ UNCHANGED <<stored, issued>>
    BY DEF InsertMailbox, ScriptStops
<1>2. /\ order[q] \in CredentialOrder /\ OrderKnows(order[q], box, stored) /\ Open(q)
    BY <1>1, OpenTyped DEF Open
<1>3. b \in [there : BOOLEAN, active : BOOLEAN, pw : Nat] /\ b.pw = order[q].got
    BY <1>2 DEF CredentialOrder
<1>4. CASE InsertMailbox(q) /\ box[m].there
    <2> DEFINE o == [order[q] EXCEPT !.pc = "reply"]
    <2>1. order' = [order EXCEPT ![q] = o] /\ UNCHANGED <<box, stored, issued>>
        BY <1>4 DEF InsertMailbox, To, CredentialInv
    <2>2. /\ o \in CredentialOrder /\ o.pc = "reply" /\ o.m = order[q].m /\ o.alone = order[q].alone
          /\ o.ok = order[q].ok /\ o.pw = order[q].pw /\ o.got = order[q].got
        BY <1>2 DEF CredentialOrder
    <2> HIDE DEF o
    <2>3. OrderKnows(o, box, stored)
        BY <1>1, <1>2, <2>2 DEF OrderKnows
    <2>4. QED BY <1>2, <2>1, <2>2, <2>3, OrderMoves
<1>5. CASE InsertMailbox(q) /\ ~box[m].there
    <2>1. /\ box' = [box EXCEPT ![order[q].m] = b]
          /\ order' = [order EXCEPT ![q].pc = "reply", ![q].ok = TRUE, ![q].made = TRUE]
        BY <1>5 DEF InsertMailbox
    <2>2. order' = [order EXCEPT ![q] = [order[q] EXCEPT !.pc = "reply", !.ok = TRUE, !.made = TRUE]]
        BY <2>1 DEF CredentialInv
    <2> HIDE DEF b
    <2>3. QED BY <1>1, <1>3, <2>1, <2>2, WritesKept
<1>6. CASE ScriptStops(q)
    <2>1. /\ box' = [box EXCEPT ![order[q].m] = b]
          /\ order' = [order EXCEPT ![q].pc = "reply"]
        BY <1>6 DEF ScriptStops, To
    <2>2. order[q].ok \in BOOLEAN /\ order[q].made \in BOOLEAN
        BY <1>2 DEF CredentialOrder
    <2>3. order' = [order EXCEPT ![q] = [order[q] EXCEPT !.pc = "reply", !.ok = order[q].ok,
                                                         !.made = order[q].made]]
        <3>1. [order[q] EXCEPT !.pc = "reply"] =
                  [order[q] EXCEPT !.pc = "reply", !.ok = order[q].ok, !.made = order[q].made]
            BY <1>2 DEF CredentialOrder
        <3>2. order' = [order EXCEPT ![q] = [order[q] EXCEPT !.pc = "reply"]]
            BY <2>1 DEF CredentialInv
        <3>3. QED BY <3>1, <3>2
    <2> HIDE DEF b
    <2>4. QED BY <1>1, <1>3, <2>1, <2>2, <2>3, WritesKept
<1>7. QED BY <1>4, <1>5, <1>6

LEMMA UpdateKept == ASSUME CredentialInv, NEW q \in MailReqs, UpdatePassword(q) PROVE CredentialInv'
<1> DEFINE b == [box[order[q].m] EXCEPT !.pw = order[q].got]
<1>1. order[q].pc = "write" /\ UNCHANGED <<stored, issued>>
    BY DEF UpdatePassword
<1>2. /\ order[q] \in CredentialOrder /\ order[q].m \in Mailboxes
    BY <1>1, OpenTyped DEF Open
<1>3. b \in [there : BOOLEAN, active : BOOLEAN, pw : Nat] /\ b.pw = order[q].got
    BY <1>2 DEF CredentialOrder, CredentialInv, Boxes
<1>4. box' = [box EXCEPT ![order[q].m] = b]
    BY <1>2 DEF UpdatePassword, WithPassword, CredentialInv, Boxes
<1>5. order[q].made \in BOOLEAN
    BY <1>2 DEF CredentialOrder
<1>6. order' = [order EXCEPT ![q] = [order[q] EXCEPT !.pc = "reply", !.ok = TRUE,
                                                     !.made = order[q].made]]
    <2>1. [order[q] EXCEPT !.pc = "reply", !.ok = TRUE] =
              [order[q] EXCEPT !.pc = "reply", !.ok = TRUE, !.made = order[q].made]
        BY <1>2 DEF CredentialOrder
    <2>2. order' = [order EXCEPT ![q] = [order[q] EXCEPT !.pc = "reply", !.ok = TRUE]]
        BY DEF UpdatePassword, CredentialInv
    <2>3. QED BY <2>1, <2>2
<1> HIDE DEF b
<1>7. QED BY <1>1, <1>3, <1>4, <1>5, <1>6, WritesKept

\* An order whose user no longer waits.
LEMMA Unheard ==
    ASSUME NEW o \in CredentialOrder, NEW B, NEW S, OrderKnows(o, B, S)
    PROVE  LET u == [o EXCEPT !.heard = FALSE] IN
           /\ u \in CredentialOrder /\ OrderKnows(u, B, S) /\ u.m = o.m /\ u.alone = o.alone
           /\ u.pc = o.pc
<1> DEFINE u == [o EXCEPT !.heard = FALSE]
<1>1. /\ u \in CredentialOrder /\ u.m = o.m /\ u.alone = o.alone /\ u.pc = o.pc /\ u.ok = o.ok
      /\ u.made = o.made /\ u.pw = o.pw /\ u.got = o.got /\ u.act = o.act
    BY DEF CredentialOrder
<1> HIDE DEF u
<1>2. OrderKnows(u, B, S)
    BY <1>1 DEF OrderKnows
<1>3. QED BY <1>1, <1>2 DEF u

LEMMA OrderStepsKept ==
    ASSUME CredentialInv, NEW q \in MailReqs, OrderSteps(q) \/ OrderFaults(q)
    PROVE  CredentialInv'
<1>1. CASE AnswerOrder(q) \/ CallFails(q)
    BY <1>1, OrderCloses DEF AnswerOrder, CallFails, Open
<1>2. CASE GivesUp(q)
    <2> DEFINE o == [order[q] EXCEPT !.heard = FALSE]
    <2>1. Open(q) /\ UNCHANGED <<box, stored, issued>>
        BY <1>2 DEF GivesUp, Open
    <2>2. order[q] \in CredentialOrder /\ OrderKnows(order[q], box, stored)
        BY <2>1, OpenTyped DEF Open
    <2>3. order' = [order EXCEPT ![q] = o]
        BY <1>2 DEF GivesUp, CredentialInv
    <2>4. o \in CredentialOrder /\ OrderKnows(o, box, stored) /\ o.m = order[q].m
          /\ o.alone = order[q].alone
        BY <2>2, Unheard
    <2> HIDE DEF o
    <2>5. QED BY <2>1, <2>3, <2>4, OrderMoves
<1>3. QED BY <1>1, <1>2, LookKept, StoreKept, ResolveKept, ChecksKept, InsertKept, UpdateKept
          DEF OrderSteps, OrderFaults

LEMMA DisableKept ==
    ASSUME CredentialInv, NEW m \in Mailboxes, DisableMailbox(m)
    PROVE  CredentialInv'
<1>1. /\ issued' = issued + 1 /\ UNCHANGED <<stored, order>>
      /\ box' = [box EXCEPT ![m].active = FALSE]
    BY DEF DisableMailbox
<1>2. box' \in Boxes /\ \A k \in Mailboxes : box'[k].pw = box[k].pw
    BY <1>1 DEF CredentialInv, Boxes
<1>3. ASSUME NEW q \in MailReqs
      PROVE  \/ order[q] = NoOrder
             \/ order[q] \in CredentialOrder /\ OrderKnows(order[q], box', stored)
    <2>1. CASE order[q] = NoOrder
        BY <2>1
    <2>2. CASE order[q] \in CredentialOrder /\ OrderKnows(order[q], box, stored)
        <3>1. order[q].m \in Mailboxes
            BY <2>2 DEF CredentialOrder
        <3>2. QED BY <1>2, <2>2, <3>1 DEF OrderKnows
    <2>3. QED BY <2>1, <2>2 DEF CredentialInv
<1>4. ASSUME NEW p \in MailReqs, NEW q \in MailReqs, p # q, Open(p)', Open(q)',
             AliasOf[order'[p].m] = AliasOf[order'[q].m]
      PROVE  ~order'[p].alone
    BY <1>1, <1>4 DEF CredentialInv, Open
<1>5. issued' \in Nat /\ stored' \in [Vaults -> Nat] /\ DOMAIN order' = MailReqs
      /\ order' = [q \in MailReqs |-> order'[q]]
    BY <1>1 DEF CredentialInv
<1>6. QED BY <1>1, <1>2, <1>3, <1>4, <1>5 DEF CredentialInv

\* A restart of the agent closes some requests and silences others.
LEMMA RestartKept == ASSUME CredentialInv, EmailAgentRestarts PROVE CredentialInv'
<1> DEFINE Left(q) == CASE order[q].pc = "resolve" -> NoOrder
                        [] order[q].pc \in {"check", "write", "reply"} -> [order[q] EXCEPT !.heard = FALSE]
                        [] OTHER -> order[q]
<1>1. order' = [q \in MailReqs |-> Left(q)] /\ UNCHANGED <<box, stored, issued>>
    BY DEF EmailAgentRestarts
<1>2. ASSUME NEW q \in MailReqs
      PROVE  \/ Left(q) = NoOrder
             \/ /\ Open(q) /\ Left(q) \in CredentialOrder /\ OrderKnows(Left(q), box, stored)
                /\ Left(q).m = order[q].m /\ Left(q).alone = order[q].alone
    <2>1. CASE order[q].pc = "resolve"
        BY <2>1
    <2>2. CASE order[q].pc \in {"check", "write", "reply"}
        <3>1. order[q] \in CredentialOrder /\ OrderKnows(order[q], box, stored) /\ Open(q)
            BY <2>2, OpenTyped DEF Open
        <3>2. Left(q) = [order[q] EXCEPT !.heard = FALSE]
            BY <2>2
        <3>3. QED BY <3>1, <3>2, Unheard
    <2>3. CASE order[q].pc \notin {"resolve", "check", "write", "reply"}
        <3>1. Left(q) = order[q]
            BY <2>3
        <3>2. CASE order[q] = NoOrder
            BY <3>1, <3>2
        <3>3. CASE order[q] # NoOrder
            <4>1. order[q] \in CredentialOrder /\ OrderKnows(order[q], box, stored)
                BY <3>3 DEF CredentialInv
            <4>2. Open(q)
                BY <4>1 DEF Open, CredentialOrder
            <4>3. QED BY <3>1, <4>1, <4>2
        <3>4. QED BY <3>2, <3>3
    <2>4. QED BY <2>1, <2>2, <2>3
<1> HIDE DEF Left
<1>3. \A q \in MailReqs : order'[q] = Left(q)
    BY <1>1
<1>4. DOMAIN order' = MailReqs /\ order' = [q \in MailReqs |-> order'[q]]
    BY <1>1
<1>5. ASSUME NEW q \in MailReqs
      PROVE  \/ order'[q] = NoOrder
             \/ order'[q] \in CredentialOrder /\ OrderKnows(order'[q], box', stored')
    BY <1>1, <1>2, <1>3
<1>6. ASSUME NEW p \in MailReqs, NEW q \in MailReqs, p # q, Open(p)', Open(q)',
             AliasOf[order'[p].m] = AliasOf[order'[q].m]
      PROVE  ~order'[p].alone
    <2>1. Left(p) # NoOrder /\ Left(q) # NoOrder
        BY <1>3, <1>6 DEF Open, NoOrder
    <2>2. QED BY <1>2, <1>3, <1>6, <2>1 DEF CredentialInv
<1>7. QED BY <1>1, <1>4, <1>5, <1>6 DEF CredentialInv

LEMMA CredentialKept == ASSUME CredentialInv, CredentialNext PROVE CredentialInv'
BY ProvisionKept, OrderStepsKept, DisableKept, RestartKept DEF CredentialNext

LEMMA CredentialStays ==
    ASSUME CredentialInv, UNCHANGED <<provisionVars, issued>> PROVE CredentialInv'
BY DEF CredentialInv, provisionVars, Open

\* The list is explored with no request on its way.
LEMMA ListLeavesOrders ==
    ASSUME CredentialInv, \A q \in MailReqs : ~Open(q), ListNext
    PROVE  CredentialInv' /\ \A q \in MailReqs : ~Open(q)'
<1>1. CASE EmailAgentRestarts
    <2>1. \A q \in MailReqs : order'[q].pc = "idle"
        BY <1>1 DEF EmailAgentRestarts, Open, NoOrder
    <2>2. QED BY <1>1, <2>1, RestartKept DEF Open
<1>2. CASE \E m \in Mailboxes : MailboxAppears(m)
    <2>1. PICK m \in Mailboxes : MailboxAppears(m)
        BY <1>2
    <2>2. /\ issued' = issued + 1 /\ UNCHANGED <<stored, order>>
          /\ box' = [box EXCEPT ![m] = [there |-> TRUE, active |-> TRUE, pw |-> issued + 1]]
        BY <2>1 DEF MailboxAppears
    <2>3. box' \in Boxes /\ issued' \in Nat
        BY <2>2 DEF CredentialInv, Boxes
    <2>4. \A q \in MailReqs : order[q] = NoOrder
        BY DEF CredentialInv, Open, CredentialOrder
    <2>5. QED BY <2>2, <2>3, <2>4 DEF CredentialInv, Open, NoOrder
<1>3. CASE TriggerRefresh
    BY <1>3 DEF TriggerRefresh, CredentialInv, provisionVars, Open
<1>4. CASE UNCHANGED <<provisionVars, issued>>
    BY <1>4, CredentialStays DEF provisionVars, Open
<1>5. QED
    BY <1>1, <1>2, <1>3, <1>4
    DEF ListNext, ListReads, RefreshSteps, ReadList, LoadBegins, LoadEnds, ListExpires,
        BackgroundStarts, BatchStats, SaveStats, RefreshFails

LEMMA CredentialInitial == ASSUME MailInit PROVE CredentialInv /\ \A q \in MailReqs : ~Open(q)
BY DEF MailInit, CredentialInv, Boxes, NoOrder, Open

LEMMA PasswordsSet == ASSUME CredentialInv PROVE OkMeansSet
<1> SUFFICES ASSUME NEW q \in MailReqs, Open(q), order[q].pc = "reply", order[q].ok,
                    order[q].alone, order[q].act = "reset" \/ order[q].made
             PROVE  /\ box[order[q].m].pw = order[q].pw
                    /\ stored[AliasOf[order[q].m]] = order[q].pw
    BY DEF OkMeansSet
<1>1. OrderKnows(order[q], box, stored)
    BY OpenTyped DEF Open
<1>2. QED BY <1>1 DEF OrderKnows

LEMMA MailSentInitial == ASSUME SendInit PROVE SentSoFar(sending)
<1>1. MessageFits("idle", 0, FALSE, FALSE)
    BY DEF MessageFits
<1>2. SentSoFar(Message("idle", 0, FALSE, FALSE))
    BY <1>1, MessageOK
<1>3. QED BY <1>2 DEF SendInit, Message

LEMMA MailSent == ASSUME SentSoFar(sending) PROVE SendsAreTrue
BY DEF SentSoFar, MessageFits, SendsAreTrue

(***************************************************************************)
(* The statistics of sent mail.                                             *)
(***************************************************************************)

Runs == {"bg", "manual"}
Underway == \E k \in Runs : sentRun[k].pc \in {"ask", "save"}

\* What a read has taken from the table and has not put into the cache yet is in the
\* table still, which never loses a row.
SentInv ==
    /\ sent = [loaded |-> sent.loaded, of |-> sent.of, fresh |-> sent.fresh,
               refreshing |-> sent.refreshing]
    /\ sentRun = [k \in Runs |-> sentRun[k]]
    /\ \A k \in Runs : sentRun[k] = [pc |-> sentRun[k].pc, got |-> sentRun[k].got]
    /\ sent.of \subseteq sentTable /\ sentLoads.rows \subseteq sentTable
    /\ sent.refreshing = TRUE => Underway

LEMMA SentInitial == ASSUME SentInit PROVE SentInv
BY DEF SentInit, SentInv, NoSent, NoRun, Runs

LEMMA SentReadsKept ==
    ASSUME SentInv, \/ \E x \in Senders : SenderChanges(x)
                    \/ ReadSent \/ SentLoadBegins \/ SentLoadEnds \/ SentExpires \/ SentRestarts
    PROVE  SentInv'
<1>1. CASE \/ \E x \in Senders : SenderChanges(x)
           \/ ReadSent
           \/ SentLoadBegins
    BY <1>1 DEF SentInv, Underway, SenderChanges, ReadSent, SentLoadBegins
<1>2. CASE SentLoadEnds
    <2>1. sentLoads'.rows = {} /\ UNCHANGED <<sentTable, sentRun>>
        BY <1>2 DEF SentLoadEnds
    <2>2. CASE UNCHANGED sent
        BY <2>1, <2>2 DEF SentInv, Underway
    <2>3. CASE sent' = [sent EXCEPT !.loaded = TRUE, !.of = sentLoads.rows, !.fresh = TRUE]
        BY <2>1, <2>3 DEF SentInv, Underway
    <2>4. QED BY <1>2, <2>2, <2>3 DEF SentLoadEnds
<1>3. CASE SentExpires
    BY <1>3 DEF SentInv, Underway, SentExpires
<1>4. CASE SentRestarts
    BY <1>4 DEF SentInv, Underway, SentRestarts, NoSent, NoRun, Runs
<1>5. QED BY <1>1, <1>2, <1>3, <1>4

LEMMA SentRunsKept ==
    ASSUME SentInv, \/ SentBackground \/ SentRefresh
                    \/ \E k \in Runs : AskSent(k) \/ SaveSent(k) \/ SentFails(k)
    PROVE  SentInv'
<1>1. ASSUME NEW k \in Runs, sentRun' = [sentRun EXCEPT ![k].pc = "ask"],
             sent' = [sent EXCEPT !.refreshing = TRUE], UNCHANGED <<sentTable, sentLoads>>
      PROVE  SentInv'
    <2>1. sentRun'[k] = [pc |-> "ask", got |-> sentRun[k].got]
        BY <1>1 DEF SentInv
    <2>2. \A j \in Runs : j # k => sentRun'[j] = sentRun[j]
        BY <1>1 DEF SentInv
    <2>3. sentRun' = [j \in Runs |-> sentRun'[j]]
        BY <1>1 DEF SentInv
    <2>4. Underway'
        BY <2>1 DEF Underway
    <2>5. \A j \in Runs : sentRun'[j] = [pc |-> sentRun'[j].pc, got |-> sentRun'[j].got]
        BY <2>1, <2>2 DEF SentInv
    <2>6. QED BY <1>1, <2>3, <2>4, <2>5 DEF SentInv
<1>2. CASE SentBackground
    <2>1. CASE UNCHANGED <<sent, sentRun>>
        BY <1>2, <2>1 DEF SentInv, Underway, SentBackground
    <2>2. CASE sentRun' = [sentRun EXCEPT !["bg"].pc = "ask"] /\ sent' = [sent EXCEPT !.refreshing = TRUE]
        BY <1>1, <1>2, <2>2 DEF SentBackground, Runs
    <2>3. QED BY <1>2, <2>1, <2>2 DEF SentBackground
<1>3. CASE SentRefresh
    BY <1>1, <1>3 DEF SentRefresh, Runs
<1>4. ASSUME NEW k \in Runs, AskSent(k) PROVE SentInv'
    <2>1. UNCHANGED <<sent, sentTable, sentLoads>>
          /\ sentRun' = [sentRun EXCEPT ![k] = [pc |-> "save", got |-> senders]]
        BY <1>4 DEF AskSent
    <2>2. sentRun' = [j \in Runs |-> sentRun'[j]]
          /\ sentRun'[k] = [pc |-> "save", got |-> senders]
          /\ \A j \in Runs : j # k => sentRun'[j] = sentRun[j]
        BY <2>1 DEF SentInv
    <2>3. Underway'
        BY <2>2 DEF Underway
    <2>4. QED BY <2>1, <2>2, <2>3 DEF SentInv
<1>5. ASSUME NEW k \in Runs, SaveSent(k) \/ SentFails(k) PROVE SentInv'
    <2>1. sentRun' = [j \in Runs |-> sentRun'[j]]
          /\ sentRun'[k] = [pc |-> "idle", got |-> {}]
          /\ \A j \in Runs : j # k => sentRun'[j] = sentRun[j]
        BY <1>5 DEF SaveSent, SentFails, SentInv, NoRun
    <2>2. \A j \in Runs : sentRun'[j] = [pc |-> sentRun'[j].pc, got |-> sentRun'[j].got]
        BY <2>1 DEF SentInv
    <2>3. CASE SaveSent(k)
        <3>1. /\ sentTable' = sentTable \cup sentRun[k].got /\ UNCHANGED sentLoads
              /\ sent' = [loaded |-> TRUE, of |-> sentRun[k].got, fresh |-> TRUE, refreshing |-> FALSE]
            BY <2>3 DEF SaveSent
        <3>2. QED BY <2>1, <2>2, <3>1 DEF SentInv
    <2>4. CASE SentFails(k)
        <3>1. sent' = [sent EXCEPT !.refreshing = FALSE] /\ UNCHANGED <<sentTable, sentLoads>>
            BY <2>4 DEF SentFails
        <3>2. QED BY <2>1, <2>2, <3>1 DEF SentInv
    <2>5. QED BY <1>5, <2>3, <2>4
<1>6. QED BY <1>2, <1>3, <1>4, <1>5

LEMMA SentKept == ASSUME SentInv, [SentNext]_sentVars PROVE SentInv'
<1>1. CASE UNCHANGED sentVars
    BY <1>1 DEF sentVars, SentInv, Underway
<1>2. QED BY <1>1, SentReadsKept, SentRunsKept DEF SentNext, Runs

LEMMA SentRefreshed == ASSUME SentInv PROVE SentIsRefreshed
<1>1. ASSUME sent.refreshing PROVE Underway
    <2>1. CASE sent.refreshing = TRUE
        BY <2>1 DEF SentInv
    <2>2. QED BY <1>1, <2>1
<1>2. QED BY <1>1 DEF SentInv, SentIsRefreshed, Underway, Runs

(***************************************************************************)
(* Mail that is read.                                                       *)
(***************************************************************************)

\* A set of natural numbers has a least element.
LEMMA Least ==
    ASSUME NEW S, S # {}, S \subseteq Nat PROVE \E n \in S : \A m \in S : n <= m
<1>1. PICK k \in S : TRUE
    OBVIOUS
<1> DEFINE T == {m \in S : m <= k}
<1>2. IsFiniteSet(0..k)
    BY FS_Interval
<1>3. T \subseteq 0..k /\ k \in T /\ T \subseteq Int
    <2>1. k \in Nat /\ \A m \in S : m \in Nat
        OBVIOUS
    <2>2. \A m \in T : m \in Nat /\ m \in 0..k
        BY <2>1
    <2>3. k <= k
        BY <2>1
    <2>4. k \in T
        BY <2>3
    <2> HIDE DEF T
    <2>5. \A m \in T : m \in Int
        BY <2>2
    <2>6. QED BY <2>2, <2>4, <2>5
<1>4. IsFiniteSet(T)
    BY <1>2, <1>3, FS_Subset
<1>5. PICK n \in T : \A m \in T : n <= m
    BY <1>3, <1>4, Extremes
<1>6. QED BY <1>5

Versions == [Fields -> Nat]
ReaderRecord ==
    [api : {"none", "imap", "doveadm", "queue"}, op : {"none", "list", "open", "attachment", "queue"},
     pc : {"idle", "host", "pem", "usePem", "useHost", "run", "done"}, ref : Nat, of : Nat,
     low : Nat, again : BOOLEAN, got : Versions, used : Versions, since : Versions,
     floor : Versions, answer : Nat]
Going(q) == q.pc \notin {"idle", "done"}

\* A sequence number whose place no deletion has reached is that of the message listed.
Listed(ref, of, low, F) == ref < low => ref \in DOMAIN F /\ F[ref] = of

PageShows(p, F) ==
    /\ p = [by |-> p.by, entries |-> p.entries, low |-> p.low] /\ p.low \in Nat
    /\ \A e \in p.entries :
           /\ e = <<e[1], e[2]>> /\ e[1] \in Nat /\ e[2] \in Nat
           /\ IF p.by = "imap" THEN Listed(e[1], e[2], p.low, F) ELSE e[1] = e[2]

Opens(q, F) ==
    q.op \in {"open", "attachment"} =>
        /\ Going(q) => IF q.api = "imap" THEN Listed(q.ref, q.of, q.low, F) ELSE q.ref = q.of
        /\ q.pc = "done" => q.answer \in {0, q.of} \/ (q.api = "imap" /\ q.low <= q.ref)

\* What a request knows of the vault's versions V and the module's credentials C: those
\* it has read are at least as recent as its start, those it uses as the first start of
\* the requests it ran beside.
Connects(q, V, C) ==
    Going(q) =>
        /\ q.api \in {"imap", "doveadm", "queue"}
        /\ \A f \in Fields : q.since[f] <= V[f]
        /\ q.pc = "pem" => q.got["host"] >= q.since["host"]
        /\ q.pc \in {"usePem", "useHost"} =>
               q.api # "imap" /\ \A f \in Fields : C[q.api][f] >= q.floor[f]
        /\ q.pc = "useHost" => q.used["pem"] >= q.floor["pem"]
        /\ q.pc = "run" => \A f \in Fields : q.used[f] >= q.floor[f]

ReadingInv ==
    /\ folder \in Seq(Nat) /\ received \in Nat /\ secret \in Versions
    /\ creds \in [{"doveadm", "queue"} -> Versions] /\ reader \in [Readers -> ReaderRecord]
    /\ PageShows(page, folder)
    /\ \A r \in Readers : Opens(reader[r], folder) /\ Connects(reader[r], secret, creds)
    /\ \A r, s \in Readers : Going(reader[r]) /\ Going(reader[s]) =>
           \A f \in Fields : reader[r].floor[f] <= reader[s].since[f]

LEMMA IdleReaderOK ==
    /\ Version0 \in Versions /\ NoPlace \in Nat
    /\ IdleReader \in ReaderRecord /\ ~Going(IdleReader) /\ IdleReader.op = "none"
<1>1. Version0 \in Versions
    BY DEF Version0, Versions
<1>2. NoPlace \in Nat
    BY ReadingAssumption DEF NoPlace
<1> HIDE DEF NoPlace
<1>3. QED BY <1>1, <1>2 DEF IdleReader, ReaderRecord, Going

LEMMA ReadingInitial == ASSUME ReadingInit PROVE ReadingInv
<1>1. Version0 \in Versions
    BY IdleReaderOK
<1>2. NoPlace \in Nat
    BY IdleReaderOK
<1>3. IdleReader \in ReaderRecord /\ ~Going(IdleReader) /\ IdleReader.op = "none"
    BY IdleReaderOK
<1>4. PageShows(NoPage, <<>>)
    <2> HIDE DEF NoPlace
    <2>1. QED BY <1>2 DEF PageShows, NoPage
<1>5. <<>> \in Seq(Nat)
    OBVIOUS
<1>6. \A r \in Readers : Opens(IdleReader, folder) /\ Connects(IdleReader, secret, creds)
    BY <1>3 DEF Opens, Connects
<1>7. QED BY <1>1, <1>3, <1>4, <1>5, <1>6 DEF ReadingInit, ReadingInv

\* A step of request r, which becomes o.
LEMMA ReaderGoes ==
    ASSUME ReadingInv, NEW r \in Readers, NEW o \in ReaderRecord, reader' = [reader EXCEPT ![r] = o],
           UNCHANGED <<folder, received, secret>>, PageShows(page', folder),
           creds' \in [{"doveadm", "queue"} -> Versions],
           Opens(o, folder), Connects(o, secret, creds'),
           Going(o) => /\ Going(reader[r]) /\ o.since = reader[r].since
                       /\ o.floor = reader[r].floor,
           \A s \in Readers \ {r} : Connects(reader[s], secret, creds')
    PROVE  ReadingInv'
<1>1. reader' \in [Readers -> ReaderRecord] /\ reader'[r] = o
      /\ \A s \in Readers \ {r} : reader'[s] = reader[s]
    BY DEF ReadingInv
<1>2. \A s \in Readers : Opens(reader'[s], folder) /\ Connects(reader'[s], secret, creds')
    BY <1>1 DEF ReadingInv
<1>3. \A s \in Readers : Going(reader'[s]) =>
          /\ Going(reader[s]) /\ reader'[s].since = reader[s].since
          /\ reader'[s].floor = reader[s].floor
    BY <1>1
<1>4. \A p, s \in Readers : Going(reader'[p]) /\ Going(reader'[s]) =>
          \A f \in Fields : reader'[p].floor[f] <= reader'[s].since[f]
    BY <1>3 DEF ReadingInv
<1>5. QED BY <1>1, <1>2, <1>4 DEF ReadingInv

\* ... that leaves the page and the module's credentials alone.
LEMMA ReaderMoves ==
    ASSUME ReadingInv, NEW r \in Readers, NEW o \in ReaderRecord, reader' = [reader EXCEPT ![r] = o],
           UNCHANGED <<folder, received, secret, page, creds>>,
           Opens(o, folder), Connects(o, secret, creds),
           Going(o) => /\ Going(reader[r]) /\ o.since = reader[r].since
                       /\ o.floor = reader[r].floor
    PROVE  ReadingInv'
<1>1. /\ PageShows(page', folder) /\ creds' \in [{"doveadm", "queue"} -> Versions]
      /\ Connects(o, secret, creds')
      /\ \A s \in Readers \ {r} : Connects(reader[s], secret, creds')
    BY DEF ReadingInv
<1>2. QED BY <1>1, ReaderGoes

LEMMA ArrivesKept == ASSUME ReadingInv, MessageArrives PROVE ReadingInv'
<1>1. /\ folder' = Append(folder, received + 1) /\ received' = received + 1
      /\ UNCHANGED <<page, secret, creds, reader>> /\ folder \in Seq(Nat) /\ received \in Nat
    BY DEF MessageArrives, ReadingInv
<1>2. /\ folder' \in Seq(Nat) /\ received' \in Nat
      /\ \A k \in DOMAIN folder : k \in DOMAIN folder' /\ folder'[k] = folder[k]
    BY <1>1
<1>3. \A ref, of, low : Listed(ref, of, low, folder) => Listed(ref, of, low, folder')
    BY <1>2 DEF Listed
<1>4. PageShows(page, folder')
    BY <1>3 DEF ReadingInv, PageShows
<1>5. \A r \in Readers : Opens(reader[r], folder')
    BY <1>3 DEF ReadingInv, Opens
<1>6. QED BY <1>1, <1>2, <1>4, <1>5 DEF ReadingInv

\* What a deletion does to the messages before its place: nothing.
LEMMA BeforeThePlace ==
    ASSUME NEW s \in Seq(Nat), NEW n \in DOMAIN s
    PROVE  LET t == SubSeq(s, 1, n - 1) \o SubSeq(s, n + 1, Len(s)) IN
           /\ t \in Seq(Nat)
           /\ \A k \in Nat : k < n /\ k \in DOMAIN s => k \in DOMAIN t /\ t[k] = s[k]
<1> DEFINE a == SubSeq(s, 1, n - 1)
           b == SubSeq(s, n + 1, Len(s))
<1>1. n \in Int /\ Len(s) \in Nat /\ DOMAIN s = 1..Len(s) /\ 1 <= n /\ n <= Len(s)
      /\ \A i \in 1..Len(s) : s[i] \in Nat
    OBVIOUS
<1>2. /\ a \in Seq(Nat) /\ Len(a) = n - 1 /\ \A i \in 1..(n - 1) : a[i] = s[i]
    <2>1. \A i \in 1..(n - 1) : s[i] \in Nat
        BY <1>1
    <2>2. a \in Seq(Nat) /\ Len(a) = (IF 1 <= n - 1 THEN (n - 1) - 1 + 1 ELSE 0)
          /\ \A i \in 1..((n - 1) - 1 + 1) : a[i] = s[1 + i - 1]
        BY <1>1, <2>1, SubSeqProperties
    <2> HIDE DEF a
    <2>3. QED BY <1>1, <2>2
<1>3. b \in Seq(Nat)
    <2>1. \A i \in (n + 1)..Len(s) : s[i] \in Nat
        BY <1>1
    <2>2. QED BY <1>1, <2>1, SubSeqProperties
<1> HIDE DEF a, b
<1>4. /\ a \o b \in Seq(Nat) /\ Len(a \o b) = Len(a) + Len(b)
      /\ \A i \in 1..(Len(a) + Len(b)) : (a \o b)[i] = IF i <= Len(a) THEN a[i] ELSE b[i - Len(a)]
    BY ONLY <1>2, <1>3, ConcatProperties
<1>5. ASSUME NEW k \in Nat, k < n, k \in DOMAIN s
      PROVE  k \in DOMAIN (a \o b) /\ (a \o b)[k] = s[k]
    <2>1. Len(b) \in Nat /\ DOMAIN (a \o b) = 1..Len(a \o b)
        BY <1>3, <1>4
    <2>2. k \in 1..(n - 1)
        BY <1>1, <1>5
    <2>3. k \in 1..(Len(a) + Len(b)) /\ k <= Len(a)
        BY <1>1, <1>2, <2>1, <2>2
    <2>4. (a \o b)[k] = a[k]
        BY <1>4, <2>3
    <2>5. QED BY <1>2, <1>4, <2>1, <2>2, <2>3, <2>4
<1>6. QED BY <1>4, <1>5 DEF a, b

LEMMA ExpungeKept == ASSUME ReadingInv, NEW n \in DOMAIN folder, Expunge(n) PROVE ReadingInv'
<1> DEFINE Low(low) == IF n < low THEN n ELSE low
           Left(q) == IF Going(q) /\ n < q.low THEN [q EXCEPT !.low = n] ELSE q
<1>1. /\ folder' = SubSeq(folder, 1, n - 1) \o SubSeq(folder, n + 1, Len(folder))
      /\ page' = [page EXCEPT !.low = Low(page.low)]
      /\ reader' = [r \in Readers |-> Left(reader[r])]
      /\ UNCHANGED <<received, secret, creds>>
    BY DEF Expunge, Busy, Going
<1>2. n \in Nat /\ folder \in Seq(Nat)
    BY DEF ReadingInv
<1>3. /\ folder' \in Seq(Nat)
      /\ \A k \in Nat : k < n /\ k \in DOMAIN folder => k \in DOMAIN folder' /\ folder'[k] = folder[k]
    BY <1>1, <1>2, BeforeThePlace
<1>4. ASSUME NEW ref \in Nat, NEW of, NEW low \in Nat, Listed(ref, of, low, folder)
      PROVE  Listed(ref, of, Low(low), folder')
    <2>1. ASSUME ref < Low(low) PROVE ref < low /\ ref < n
        BY <1>2, <2>1
    <2>2. QED BY <1>3, <1>4, <2>1 DEF Listed
<1>5. \A low \in Nat : Low(low) \in Nat /\ Low(low) <= low
    BY <1>2
<1> HIDE DEF Low
<1>6. PageShows(page', folder')
    <2>1. page = [by |-> page.by, entries |-> page.entries, low |-> page.low] /\ page.low \in Nat
        BY DEF ReadingInv, PageShows
    <2>2. page' = [by |-> page.by, entries |-> page.entries, low |-> Low(page.low)]
        BY <1>1, <2>1
    <2>3. \A e \in page.entries : e = <<e[1], e[2]>> /\ e[1] \in Nat /\ e[2] \in Nat
              /\ IF page.by = "imap" THEN Listed(e[1], e[2], page.low, folder) ELSE e[1] = e[2]
        BY DEF ReadingInv, PageShows
    <2>4. \A e \in page.entries :
              IF page.by = "imap" THEN Listed(e[1], e[2], Low(page.low), folder') ELSE e[1] = e[2]
        BY <1>4, <2>1, <2>3
    <2>5. QED BY <1>5, <2>1, <2>2, <2>3, <2>4 DEF PageShows
<1>7. ASSUME NEW r \in Readers
      PROVE  /\ reader'[r] \in ReaderRecord
             /\ Opens(reader'[r], folder') /\ Connects(reader'[r], secret, creds)
             /\ Going(reader'[r]) => /\ Going(reader[r]) /\ reader'[r].floor = reader[r].floor
                                     /\ reader'[r].since = reader[r].since
    <2> DEFINE q == reader[r]
    <2>1. q \in ReaderRecord /\ Opens(q, folder) /\ Connects(q, secret, creds) /\ reader'[r] = Left(q)
        BY <1>1 DEF ReadingInv
    <2>2. q.ref \in Nat /\ q.low \in Nat
        BY <2>1 DEF ReaderRecord
    <2> HIDE DEF q
    <2>3. CASE ~Going(q)
        <3>1. reader'[r] = q
            BY <2>1, <2>3
        <3>2. QED BY <2>1, <2>3, <3>1 DEF Opens, q
    <2>4. CASE Going(q) /\ n < q.low
        <3>1. reader'[r] = [q EXCEPT !.low = n]
            BY <2>1, <2>4
        <3> DEFINE o == [q EXCEPT !.low = n]
        <3>2. /\ o \in ReaderRecord /\ o.op = q.op /\ o.pc = q.pc /\ o.api = q.api /\ o.ref = q.ref
              /\ o.of = q.of /\ o.low = n /\ o.got = q.got /\ o.used = q.used
              /\ o.since = q.since /\ o.floor = q.floor /\ o.answer = q.answer
            BY <1>2, <2>1 DEF ReaderRecord
        <3> HIDE DEF o
        <3>3. Low(q.low) = n
            BY <2>4 DEF Low
        <3>4. q.pc # "done" /\ Going(o)
            BY <2>4, <3>2 DEF Going
        <3>5. Opens(o, folder')
            BY <1>4, <2>1, <2>2, <2>4, <3>2, <3>3, <3>4 DEF Opens
        <3>6. Connects(o, secret, creds)
            BY <2>1, <2>4, <3>2 DEF Connects
        <3>7. QED BY <2>4, <3>1, <3>2, <3>5, <3>6 DEF o, q
    <2>5. CASE Going(q) /\ ~(n < q.low)
        <3>1. reader'[r] = q
            BY <2>1, <2>5
        <3>2. Low(q.low) = q.low
            BY <2>5 DEF Low
        <3>3. Opens(q, folder')
            BY <1>4, <2>1, <2>2, <2>5, <3>2 DEF Opens, Going
        <3>4. QED BY <2>1, <3>1, <3>3 DEF q
    <2>6. QED BY <2>3, <2>4, <2>5
<1>8. reader' \in [Readers -> ReaderRecord]
    BY <1>1, <1>7
<1>9. \A r, s \in Readers : Going(reader'[r]) /\ Going(reader'[s]) =>
          \A f \in Fields : reader'[r].floor[f] <= reader'[s].since[f]
    BY <1>7 DEF ReadingInv
<1>10. QED BY <1>1, <1>3, <1>6, <1>7, <1>8, <1>9 DEF ReadingInv

LEMMA SecretKept == ASSUME ReadingInv, NEW f \in Fields, SecretChanges(f) PROVE ReadingInv'
<1>1. secret' = [secret EXCEPT ![f] = secret[f] + 1] /\ UNCHANGED <<folder, received, page, creds, reader>>
    BY DEF SecretChanges
<1>2. secret' \in Versions /\ \A g \in Fields : secret[g] \in Nat /\ secret'[g] >= secret[g]
    BY <1>1 DEF ReadingInv, Versions
<1>3. ASSUME NEW r \in Readers PROVE Connects(reader[r], secret', creds)
    <2>1. Connects(reader[r], secret, creds) /\ reader[r].since \in Versions
        BY DEF ReadingInv, ReaderRecord
    <2>2. \A g \in Fields : reader[r].since[g] \in Nat
        BY <2>1 DEF Versions
    <2>3. Going(reader[r]) => \A g \in Fields : reader[r].since[g] <= secret'[g]
        <3>1. \A a, b, c \in Nat : a <= b /\ c >= b => a <= c
            OBVIOUS
        <3>2. \A g \in Fields : secret'[g] \in Nat
            BY <1>2 DEF Versions
        <3>3. QED BY <1>2, <2>1, <2>2, <3>1, <3>2 DEF Connects
    <2>4. QED BY <2>1, <2>3 DEF Connects
<1>4. QED BY <1>1, <1>2, <1>3 DEF ReadingInv

LEMMA ReadingStays ==
    ASSUME ReadingInv, UNCHANGED <<folder, received, page, secret, creds, reader>> PROVE ReadingInv'
BY DEF ReadingInv

LEMMA FloorIsLowest ==
    ASSUME ReadingInv
    PROVE  /\ Floor \in Versions
           /\ \A f \in Fields : Floor[f] <= secret[f]
           /\ \A s \in Readers, f \in Fields : Going(reader[s]) => Floor[f] <= reader[s].since[f]
<1> DEFINE Seen(f) == {secret[f]} \cup {reader[r].since[f] : r \in {x \in Readers : Busy(x)}}
           Lowest(f) == CHOOSE v \in Seen(f) : \A w \in Seen(f) : v <= w
<1>1. Floor = [f \in Fields |-> Lowest(f)]
    BY DEF Floor
<1>2. ASSUME NEW f \in Fields
      PROVE  Lowest(f) \in Seen(f) /\ Seen(f) \subseteq Nat /\ \A w \in Seen(f) : Lowest(f) <= w
    <2>1. secret[f] \in Nat
        BY DEF ReadingInv, Versions
    <2>2. \A r \in Readers : reader[r].since[f] \in Nat
        BY DEF ReadingInv, ReaderRecord, Versions
    <2>3. Seen(f) \subseteq Nat /\ Seen(f) # {}
        BY <2>1, <2>2
    <2> HIDE DEF Seen
    <2>4. \E v \in Seen(f) : \A w \in Seen(f) : v <= w
        BY <2>3, Least
    <2>5. QED BY <2>3, <2>4
<1>3. \A f \in Fields : secret[f] \in Seen(f)
          /\ \A s \in Readers : Going(reader[s]) => reader[s].since[f] \in Seen(f)
    BY DEF Busy, Going
<1> HIDE DEF Seen, Lowest
<1>4. \A f \in Fields : Floor[f] = Lowest(f) /\ Lowest(f) \in Nat
    BY <1>1, <1>2
<1>5. Floor \in Versions
    BY <1>1, <1>4 DEF Versions
<1>6. QED BY <1>2, <1>3, <1>4, <1>5

LEMMA StartsKept ==
    ASSUME ReadingInv, NEW r \in Readers, NEW via \in {"imap", "doveadm", "queue"},
           NEW op \in {"list", "open", "attachment", "queue"}, NEW entry,
           entry = <<0, 0>> \/ entry \in page.entries, ReadStarts(r, via, op, entry)
    PROVE  ReadingInv'
<1>1. PICK again \in BOOLEAN : again = (op = "attachment")
    OBVIOUS
<1> DEFINE a == [IdleReader EXCEPT !.api = via, !.op = op, !.pc = "host"]
           b == [a EXCEPT !.ref = entry[1], !.of = entry[2], !.low = page.low]
           o == [b EXCEPT !.again = again, !.since = secret, !.floor = Floor]
<1>2. /\ ~Going(reader[r]) /\ reader' = [reader EXCEPT ![r] = o]
      /\ op \in {"open", "attachment"} => page.by = via /\ entry \in page.entries
      /\ UNCHANGED <<folder, received, page, secret, creds>>
    <2> HIDE DEF Floor
    <2>1. [IdleReader EXCEPT !.api = via, !.op = op, !.pc = "host", !.ref = entry[1],
                             !.of = entry[2], !.low = page.low, !.again = op = "attachment",
                             !.since = secret, !.floor = Floor] = o
        BY <1>1, Zenon
    <2> HIDE DEF o
    <2>2. QED BY <2>1 DEF ReadStarts, Busy, Going
<1>3. entry[1] \in Nat /\ entry[2] \in Nat /\ page.low \in Nat
    BY DEF ReadingInv, PageShows
<1>4. /\ Floor \in Versions /\ \A f \in Fields : Floor[f] <= secret[f]
      /\ \A s \in Readers, f \in Fields : Going(reader[s]) => Floor[f] <= reader[s].since[f]
    BY FloorIsLowest
<1>5. secret \in Versions
    BY DEF ReadingInv
<1> HIDE DEF Floor, a, b, o
<1>6. /\ o \in ReaderRecord /\ Going(o) /\ o.op = op /\ o.api = via /\ o.pc = "host"
      /\ o.ref = entry[1] /\ o.of = entry[2] /\ o.low = page.low /\ o.since = secret
      /\ o.floor = Floor
    <2>1. a \in ReaderRecord /\ a.api = via /\ a.op = op /\ a.pc = "host"
        BY IdleReaderOK DEF ReaderRecord, a
    <2>2. /\ b \in ReaderRecord /\ b.api = via /\ b.op = op /\ b.pc = "host"
          /\ b.ref = entry[1] /\ b.of = entry[2] /\ b.low = page.low
        BY <1>3, <2>1 DEF ReaderRecord, b
    <2>3. /\ o \in ReaderRecord /\ o.api = via /\ o.op = op /\ o.pc = "host"
          /\ o.ref = entry[1] /\ o.of = entry[2] /\ o.low = page.low
          /\ o.since = secret /\ o.floor = Floor
        BY <1>4, <1>5, <2>2 DEF ReaderRecord, o
    <2>4. QED BY <2>3 DEF Going
<1>7. Opens(o, folder)
    <2>1. CASE op \in {"open", "attachment"}
        <3>1. page.by = via
              /\ IF page.by = "imap" THEN Listed(entry[1], entry[2], page.low, folder)
                                     ELSE entry[1] = entry[2]
            BY <1>2, <2>1 DEF ReadingInv, PageShows
        <3>2. QED BY <1>6, <3>1 DEF Opens
    <2>2. CASE op \notin {"open", "attachment"}
        BY <1>6, <2>2 DEF Opens
    <2>3. QED BY <2>1, <2>2
<1>8. Connects(o, secret, creds)
    <2>1. \A f \in Fields : secret[f] <= secret[f]
        BY <1>5 DEF Versions
    <2>2. QED BY <1>6, <2>1 DEF Connects
<1>9. reader' \in [Readers -> ReaderRecord] /\ reader'[r] = o
      /\ \A s \in Readers \ {r} : reader'[s] = reader[s]
    BY <1>2, <1>6 DEF ReadingInv
<1>10. ASSUME NEW p \in Readers, NEW s \in Readers, Going(reader'[p]), Going(reader'[s]),
              NEW f \in Fields
       PROVE  reader'[p].floor[f] <= reader'[s].since[f]
    <2>1. CASE p = r /\ s = r
        BY <1>4, <1>6, <1>9, <2>1
    <2>2. CASE p = r /\ s # r
        BY <1>4, <1>6, <1>9, <1>10, <2>2
    <2>3. CASE p # r /\ s # r
        BY <1>9, <1>10, <2>3 DEF ReadingInv
    <2>4. CASE p # r /\ s = r
        <3>1. reader[p].floor[f] <= reader[p].since[f] /\ reader[p].since[f] <= secret[f]
            BY <1>9, <1>10, <2>4 DEF ReadingInv, Connects
        <3>2. reader[p].floor[f] \in Nat /\ reader[p].since[f] \in Nat /\ secret[f] \in Nat
            BY <1>5 DEF ReadingInv, ReaderRecord, Versions
        <3>3. reader[p].floor[f] <= secret[f]
            BY <3>1, <3>2
        <3>4. QED BY <1>6, <1>9, <2>4, <3>3
    <2>5. QED BY <2>1, <2>2, <2>3, <2>4
<1>11. \A s \in Readers : Opens(reader'[s], folder) /\ Connects(reader'[s], secret, creds)
    BY <1>7, <1>8, <1>9 DEF ReadingInv
<1>12. QED BY <1>2, <1>9, <1>10, <1>11 DEF ReadingInv

LEMMA CacheAnswersKept ==
    ASSUME ReadingInv, NEW r \in Readers, AnswersFromCache(r)
    PROVE  ReadingInv'
<1> DEFINE q == reader[r]
           o == [q EXCEPT !.pc = "done", !.used = q.floor]
<1>1. q \in ReaderRecord /\ q.op = "queue"
    BY DEF AnswersFromCache, ReadingInv
<1>2. reader' = [reader EXCEPT ![r] = o] /\ UNCHANGED <<folder, received, secret, page, creds>>
    BY DEF AnswersFromCache, ReadingInv
<1> HIDE DEF q
<1>3. o \in ReaderRecord /\ o.op = "queue" /\ o.pc = "done"
    BY <1>1 DEF ReaderRecord
<1> HIDE DEF o
<1>4. Opens(o, folder) /\ Connects(o, secret, creds) /\ ~Going(o)
    BY <1>3 DEF Opens, Connects, Going
<1>5. QED BY <1>2, <1>3, <1>4, ReaderMoves

LEMMA HostReadKept == ASSUME ReadingInv, NEW r \in Readers, ReadsHost(r) PROVE ReadingInv'
<1> DEFINE q == reader[r]
           g == [q.got EXCEPT !["host"] = secret["host"]]
           o == [q EXCEPT !.pc = "pem", !.got = g]
<1>1. q \in ReaderRecord /\ Opens(q, folder) /\ Connects(q, secret, creds) /\ q.pc = "host" /\ Going(q)
    BY DEF ReadsHost, ReadingInv, Going
<1>2. reader' = [reader EXCEPT ![r] = o] /\ UNCHANGED <<folder, received, secret, page, creds>>
    <2>1. reader' = [reader EXCEPT ![r].pc = "pem", ![r].got["host"] = secret["host"]]
        BY DEF ReadsHost
    <2> DEFINE p == [q EXCEPT !.pc = "pem"]
               f == [reader EXCEPT ![r] = p]
    <2>2. reader' = [f EXCEPT ![r] = [f[r] EXCEPT !.got = [f[r].got EXCEPT !["host"] = secret["host"]]]]
        BY <2>1, Zenon
    <2>3. f[r] = p /\ p.got = q.got
        BY <1>1 DEF ReadingInv, ReaderRecord
    <2>4. reader' = [f EXCEPT ![r] = [p EXCEPT !.got = g]]
        BY <2>2, <2>3, Zenon
    <2> HIDE DEF p
    <2>5. reader' = [reader EXCEPT ![r] = [p EXCEPT !.got = g]]
        BY <2>4 DEF ReadingInv
    <2>6. QED BY <2>5 DEF ReadsHost, p
<1>3. secret \in Versions /\ q.got \in Versions /\ q.since \in Versions
    BY <1>1 DEF ReadingInv, ReaderRecord
<1>4. g \in Versions /\ g["host"] = secret["host"]
    BY <1>3 DEF Versions, Fields
<1> HIDE DEF g
<1>5. /\ o \in ReaderRecord /\ o.op = q.op /\ o.pc = "pem" /\ o.api = q.api /\ o.ref = q.ref
      /\ o.of = q.of /\ o.low = q.low /\ o.got = g /\ o.since = q.since /\ o.floor = q.floor
    BY <1>1, <1>4 DEF ReaderRecord
<1> HIDE DEF o, q
<1>6. Opens(o, folder)
    BY <1>1, <1>5 DEF Opens, Going
<1>7. g["host"] >= q.since["host"]
    <2>1. q.since["host"] <= secret["host"] /\ q.since["host"] \in Nat /\ secret["host"] \in Nat
        BY <1>1, <1>3 DEF Connects, Fields, Versions
    <2>2. QED BY <1>4, <2>1
<1>8. Connects(o, secret, creds)
    BY <1>1, <1>5, <1>7 DEF Connects, Going
<1>9. QED BY <1>1, <1>2, <1>5, <1>6, <1>8, ReaderMoves DEF q

\* A connection that takes one of its secrets from the module's credentials.
LEMMA SecretUsedKept ==
    ASSUME ReadingInv, NEW r \in Readers, UsesPem(r) \/ UsesHost(r)
    PROVE  ReadingInv'
<1> DEFINE q == reader[r]
<1>1. /\ q \in ReaderRecord /\ Opens(q, folder) /\ Connects(q, secret, creds) /\ Going(q)
      /\ q.pc \in {"usePem", "useHost"}
    BY DEF UsesPem, UsesHost, ReadingInv, Going
<1>2. /\ q.api \in {"doveadm", "queue"} /\ q.used \in Versions /\ creds[q.api] \in Versions
      /\ \A f \in Fields : creds[q.api][f] >= q.floor[f]
    <2>1. q.api \in {"doveadm", "queue"} /\ \A f \in Fields : creds[q.api][f] >= q.floor[f]
        BY <1>1 DEF Connects
    <2>2. QED BY <1>1, <2>1 DEF ReadingInv, ReaderRecord
<1>3. ASSUME NEW pc \in {"useHost", "run"}, NEW u \in Versions,
             reader' = [reader EXCEPT ![r] = [q EXCEPT !.pc = pc, !.used = u]],
             UNCHANGED <<folder, received, secret, page, creds>>,
             u["pem"] >= q.floor["pem"], pc = "run" => u["host"] >= q.floor["host"]
      PROVE  ReadingInv'
    <2> DEFINE o == [q EXCEPT !.pc = pc, !.used = u]
    <2>1. /\ o \in ReaderRecord /\ o.op = q.op /\ o.pc = pc /\ o.api = q.api /\ o.ref = q.ref
          /\ o.of = q.of /\ o.low = q.low /\ o.used = u /\ o.since = q.since /\ o.floor = q.floor
        BY <1>1, <1>3 DEF ReaderRecord
    <2>2. reader' = [reader EXCEPT ![r] = o]
        BY <1>3
    <2> HIDE DEF o, q
    <2>3. Opens(o, folder)
        BY <1>1, <1>3, <2>1 DEF Opens, Going
    <2>4. Connects(o, secret, creds)
        BY <1>1, <1>2, <1>3, <2>1 DEF Connects, Going, Fields
    <2>5. QED BY <1>1, <1>3, <2>1, <2>2, <2>3, <2>4, ReaderMoves DEF q
<1>4. CASE UsesPem(r)
    <2> DEFINE u == [q.used EXCEPT !["pem"] = creds[q.api]["pem"]]
    <2>1. /\ reader' = [reader EXCEPT ![r] = [q EXCEPT !.pc = "useHost", !.used = u]]
          /\ UNCHANGED <<folder, received, secret, page, creds>>
        BY <1>4 DEF UsesPem, ReadingInv
    <2>2. u \in Versions /\ u["pem"] = creds[q.api]["pem"]
        BY <1>2 DEF Versions, Fields
    <2>3. u["pem"] >= q.floor["pem"]
        BY <1>2, <2>2 DEF Fields
    <2> HIDE DEF u, q
    <2>4. QED BY <1>3, <2>1, <2>2, <2>3
<1>5. CASE UsesHost(r)
    <2> DEFINE u == [q.used EXCEPT !["host"] = creds[q.api]["host"]]
    <2>1. /\ reader' = [reader EXCEPT ![r] = [q EXCEPT !.pc = "run", !.used = u]]
          /\ UNCHANGED <<folder, received, secret, page, creds>> /\ q.pc = "useHost"
        BY <1>5 DEF UsesHost, ReadingInv
    <2>2. u \in Versions /\ u["host"] = creds[q.api]["host"] /\ u["pem"] = q.used["pem"]
        BY <1>2 DEF Versions, Fields
    <2>3. u["host"] >= q.floor["host"] /\ u["pem"] >= q.floor["pem"]
        BY <1>1, <1>2, <2>1, <2>2 DEF Fields, Connects
    <2> HIDE DEF u, q
    <2>4. QED BY <1>3, <2>1, <2>2, <2>3
<1>6. QED BY <1>4, <1>5

\* What request r has read becomes the credentials of its connection, or of its module:
\* nothing older than the start of any request under way is put there.
LEMMA PemReadKept == ASSUME ReadingInv, NEW r \in Readers, ReadsPem(r) PROVE ReadingInv'
<1> DEFINE q == reader[r]
           g == [q.got EXCEPT !["pem"] = secret["pem"]]
<1>1. /\ q \in ReaderRecord /\ Opens(q, folder) /\ Connects(q, secret, creds) /\ Going(q)
      /\ q.pc = "pem" /\ q.api \in {"imap", "doveadm", "queue"}
    BY DEF ReadsPem, ReadingInv, Going, Connects
<1>2. secret \in Versions /\ q.got \in Versions /\ q.since \in Versions /\ q.floor \in Versions
    BY <1>1 DEF ReadingInv, ReaderRecord
<1>3. g \in Versions /\ g["host"] = q.got["host"] /\ g["pem"] = secret["pem"]
    BY <1>2 DEF Versions, Fields
<1>4. \A f \in Fields : q.since[f] <= g[f]
    <2>1. q.since["pem"] <= secret["pem"] /\ q.got["host"] >= q.since["host"]
        BY <1>1 DEF Connects, Fields
    <2>2. \A f \in Fields : q.since[f] \in Nat /\ g[f] \in Nat
        BY <1>2, <1>3 DEF Versions
    <2>3. q.since["pem"] <= g["pem"] /\ q.since["host"] <= g["host"]
        BY <1>3, <2>1, <2>2 DEF Fields
    <2>4. QED BY <2>3 DEF Fields
<1>5. ASSUME NEW s \in Readers, Going(reader[s]), NEW f \in Fields
      PROVE  g[f] >= reader[s].floor[f]
    <2>1. reader[s].floor[f] <= q.since[f] /\ q.since[f] <= g[f]
        BY <1>1, <1>4, <1>5 DEF ReadingInv
    <2>2. reader[s].floor \in Versions
        BY DEF ReadingInv, ReaderRecord
    <2>3. reader[s].floor[f] \in Nat /\ q.since[f] \in Nat /\ g[f] \in Nat
        BY <1>2, <1>3, <2>2 DEF Versions
    <2>4. QED BY <2>1, <2>3
<1>6. UNCHANGED <<folder, received, secret, page>>
    BY DEF ReadsPem
<1>7. CASE q.api = "imap"
    <2> DEFINE o == [q EXCEPT !.pc = "run", !.got = g, !.used = g]
    <2>1. UNCHANGED creds /\ reader' = [reader EXCEPT ![r] = o]
        BY <1>7 DEF ReadsPem, ReadingInv
    <2>2. /\ o \in ReaderRecord /\ o.op = q.op /\ o.pc = "run" /\ o.api = q.api /\ o.ref = q.ref
          /\ o.of = q.of /\ o.low = q.low /\ o.used = g /\ o.since = q.since /\ o.floor = q.floor
        BY <1>1, <1>3 DEF ReaderRecord
    <2> HIDE DEF o, g
    <2>3. \A f \in Fields : g[f] >= q.floor[f]
        BY <1>1, <1>5
    <2> HIDE DEF q
    <2>4. Opens(o, folder)
        BY <1>1, <2>2 DEF Opens, Going
    <2>5. Connects(o, secret, creds)
        BY <1>1, <2>2, <2>3 DEF Connects, Going
    <2>6. QED BY <1>1, <1>6, <2>1, <2>2, <2>4, <2>5, ReaderMoves DEF q
<1>8. CASE q.api # "imap"
    <2> DEFINE o == [q EXCEPT !.pc = "usePem", !.got = g]
    <2>1. creds' = [creds EXCEPT ![q.api] = g] /\ reader' = [reader EXCEPT ![r] = o]
        BY <1>8 DEF ReadsPem, ReadingInv, SetsCreds
    <2>2. /\ o \in ReaderRecord /\ o.op = q.op /\ o.pc = "usePem" /\ o.api = q.api /\ o.ref = q.ref
          /\ o.of = q.of /\ o.low = q.low /\ o.since = q.since /\ o.floor = q.floor
        BY <1>1, <1>3 DEF ReaderRecord
    <2> HIDE DEF o, g
    <2>3. /\ creds' \in [{"doveadm", "queue"} -> Versions] /\ creds'[q.api] = g
          /\ \A a \in {"doveadm", "queue"} : a # q.api => creds'[a] = creds[a]
        BY <1>1, <1>3, <1>8, <2>1 DEF ReadingInv
    <2>4. ASSUME NEW s \in Readers, Connects(reader[s], secret, creds)
          PROVE  Connects(reader[s], secret, creds')
        <3>1. CASE Going(reader[s]) /\ reader[s].pc \in {"usePem", "useHost"} /\ reader[s].api = q.api
            BY <1>5, <2>3, <2>4, <3>1 DEF Connects
        <3>2. CASE Going(reader[s]) /\ reader[s].pc \in {"usePem", "useHost"} /\ reader[s].api # q.api
            BY <2>3, <2>4, <3>2 DEF Connects
        <3>3. CASE ~(Going(reader[s]) /\ reader[s].pc \in {"usePem", "useHost"})
            BY <2>4, <3>3 DEF Connects
        <3>4. QED BY <3>1, <3>2, <3>3
    <2>5. \A s \in Readers \ {r} : Connects(reader[s], secret, creds')
        BY <2>4 DEF ReadingInv
    <2>6. \A f \in Fields : g[f] >= q.floor[f]
        BY <1>1, <1>5
    <2>7. PageShows(page', folder)
        BY <1>6 DEF ReadingInv
    <2> HIDE DEF q
    <2>8. Opens(o, folder)
        BY <1>1, <2>2 DEF Opens, Going
    <2>9. Connects(o, secret, creds')
        BY <1>1, <1>8, <2>2, <2>3, <2>6 DEF Connects, Going
    <2>10. QED BY <1>1, <1>6, <2>1, <2>2, <2>3, <2>5, <2>7, <2>8, <2>9, ReaderGoes DEF q
<1>9. QED BY <1>7, <1>8

LEMMA ListsOK ==
    ASSUME folder \in Seq(Nat)
    PROVE  /\ \A e \in sync_search : e = <<e[1], e[2]>> /\ e[1] \in Nat /\ e[2] \in Nat
                  /\ e[1] \in DOMAIN folder /\ folder[e[1]] = e[2]
           /\ \A e \in sync_list_messages : e = <<e[1], e[2]>> /\ e[1] \in Nat /\ e[2] \in Nat
                  /\ e[1] = e[2]
<1>1. \A n \in DOMAIN folder : n \in Nat /\ folder[n] \in Nat
    OBVIOUS
<1> DEFINE s == Last(folder, PageLength)
<1>2. s \in Seq(Nat)
    <2> DEFINE m == (IF Len(folder) > PageLength THEN Len(folder) - PageLength ELSE 0) + 1
    <2>1. m \in Int /\ m >= 1 /\ Len(folder) \in Int
        BY ReadingAssumption
    <2>2. s = SubSeq(folder, m, Len(folder))
        BY DEF Last
    <2> HIDE DEF m, s
    <2>3. \A i \in m..Len(folder) : folder[i] \in Nat
        BY <2>1
    <2>4. QED BY <2>1, <2>2, <2>3, SubSeqProperties
<1>3. sync_list_messages = {<<uid, uid>> : uid \in {s[k] : k \in DOMAIN s}}
    BY DEF sync_list_messages
<1> HIDE DEF s
<1>4. \A k \in DOMAIN s : s[k] \in Nat
    BY <1>2
<1>5. QED BY <1>1, <1>3, <1>4 DEF sync_search

LEMMA RunsListKept == ASSUME ReadingInv, NEW r \in Readers, RunsList(r) PROVE ReadingInv'
<1> DEFINE q == reader[r]
           o == [q EXCEPT !.pc = "done"]
           es == IF q.api = "imap" THEN sync_search ELSE sync_list_messages
<1>1. /\ q \in ReaderRecord /\ q.op = "list" /\ UNCHANGED <<folder, received, secret, creds>>
      /\ page' = [by |-> q.api, low |-> NoPlace, entries |-> es]
      /\ reader' = [reader EXCEPT ![r] = o]
    BY DEF RunsList, ReadingInv
<1>2. /\ \A e \in es : e = <<e[1], e[2]>> /\ e[1] \in Nat /\ e[2] \in Nat
      /\ \A e \in es : IF q.api = "imap" THEN Listed(e[1], e[2], NoPlace, folder) ELSE e[1] = e[2]
    <2>1. folder \in Seq(Nat)
        BY DEF ReadingInv
    <2> HIDE DEF q
    <2>2. CASE q.api = "imap"
        <3>1. es = sync_search
            BY <2>2
        <3> HIDE DEF es
        <3>2. QED BY <2>1, <2>2, <3>1, ListsOK DEF Listed
    <2>3. CASE q.api # "imap"
        <3>1. es = sync_list_messages
            BY <2>3
        <3> HIDE DEF es
        <3>2. QED BY <2>1, <2>3, <3>1, ListsOK
    <2>4. QED BY <2>2, <2>3
<1> HIDE DEF es, q
<1>3. /\ page'.by = q.api /\ page'.low = NoPlace /\ page'.entries = es /\ NoPlace \in Nat
      /\ page' = [by |-> q.api, entries |-> es, low |-> NoPlace]
    BY <1>1, IdleReaderOK
<1>4. PageShows(page', folder)
    <2> HIDE DEF NoPlace
    <2>1. QED BY <1>2, <1>3 DEF PageShows
<1>5. o \in ReaderRecord /\ o.op = "list" /\ o.pc = "done"
    BY <1>1 DEF ReaderRecord
<1> HIDE DEF o
<1>6. Opens(o, folder) /\ Connects(o, secret, creds) /\ ~Going(o)
    BY <1>5 DEF Opens, Connects, Going
<1>7. /\ creds' \in [{"doveadm", "queue"} -> Versions] /\ Connects(o, secret, creds')
      /\ \A s \in Readers \ {r} : Connects(reader[s], secret, creds')
    BY <1>1, <1>6 DEF ReadingInv
<1>8. QED BY <1>1, <1>4, <1>5, <1>6, <1>7, ReaderGoes

LEMMA RunsFetchKept == ASSUME ReadingInv, NEW r \in Readers, RunsFetch(r) PROVE ReadingInv'
<1> DEFINE q == reader[r]
           m == IF q.api = "imap" THEN sync_fetch(q.ref) ELSE sync_fetch_message(q.ref)
<1>1. /\ q \in ReaderRecord /\ Opens(q, folder) /\ Connects(q, secret, creds) /\ Going(q)
      /\ q.op \in {"open", "attachment"}
      /\ UNCHANGED <<folder, received, secret, page, creds>>
    BY DEF RunsFetch, ReadingInv, Going
<1>2. /\ m \in Nat
      /\ m \in {0, q.of} \/ (q.api = "imap" /\ q.low <= q.ref)
    <2>1. q.ref \in Nat /\ q.low \in Nat /\ folder \in Seq(Nat)
        BY <1>1 DEF ReaderRecord, ReadingInv
    <2>2. CASE q.api = "imap"
        <3>1. Listed(q.ref, q.of, q.low, folder) /\ m = sync_fetch(q.ref)
            BY <1>1, <2>2 DEF Opens
        <3> HIDE DEF m, q
        <3>2. CASE q.ref \in DOMAIN folder
            BY <2>1, <2>2, <3>1, <3>2 DEF Listed, sync_fetch
        <3>3. CASE q.ref \notin DOMAIN folder
            BY <3>1, <3>3 DEF sync_fetch
        <3>4. QED BY <3>2, <3>3
    <2>3. CASE q.api # "imap"
        <3>1. q.ref = q.of /\ m = sync_fetch_message(q.ref)
            BY <1>1, <2>3 DEF Opens
        <3> HIDE DEF m, q
        <3>2. QED BY <2>1, <3>1 DEF sync_fetch_message
    <2>4. QED BY <2>2, <2>3
<1>3. \/ reader' = [reader EXCEPT ![r].pc = "host", ![r].again = FALSE]
      \/ reader' = [reader EXCEPT ![r].pc = "done", ![r].answer = m]
    BY DEF RunsFetch
<1> HIDE DEF m
<1>4. CASE reader' = [reader EXCEPT ![r].pc = "host", ![r].again = FALSE]
    <2> DEFINE o == [q EXCEPT !.pc = "host", !.again = FALSE]
    <2>1. reader' = [reader EXCEPT ![r] = o]
        BY <1>4 DEF ReadingInv
    <2>2. /\ o \in ReaderRecord /\ o.op = q.op /\ o.pc = "host" /\ o.api = q.api /\ o.ref = q.ref
          /\ o.of = q.of /\ o.low = q.low /\ o.since = q.since /\ o.floor = q.floor
        BY <1>1 DEF ReaderRecord
    <2> HIDE DEF o, q
    <2>3. Opens(o, folder) /\ Connects(o, secret, creds)
        BY <1>1, <2>2 DEF Opens, Connects, Going
    <2>4. QED BY <1>1, <2>1, <2>2, <2>3, ReaderMoves DEF q
<1>5. CASE reader' = [reader EXCEPT ![r].pc = "done", ![r].answer = m]
    <2> DEFINE o == [q EXCEPT !.pc = "done", !.answer = m]
    <2>1. reader' = [reader EXCEPT ![r] = o]
        BY <1>5 DEF ReadingInv
    <2>2. /\ o \in ReaderRecord /\ o.op = q.op /\ o.pc = "done" /\ o.api = q.api /\ o.ref = q.ref
          /\ o.of = q.of /\ o.low = q.low /\ o.answer = m
        BY <1>1, <1>2 DEF ReaderRecord
    <2> HIDE DEF o, q
    <2>3. Opens(o, folder) /\ Connects(o, secret, creds) /\ ~Going(o)
        BY <1>2, <2>2 DEF Opens, Connects, Going
    <2>4. QED BY <1>1, <2>1, <2>2, <2>3, ReaderMoves
<1>6. QED BY <1>3, <1>4, <1>5

LEMMA RunsQueueKept == ASSUME ReadingInv, NEW r \in Readers, RunsQueue(r) PROVE ReadingInv'
<1> DEFINE o == [reader[r] EXCEPT !.pc = "done"]
<1>1. /\ reader[r] \in ReaderRecord /\ reader[r].op = "queue"
      /\ reader' = [reader EXCEPT ![r] = o] /\ UNCHANGED <<folder, received, secret, page, creds>>
    BY DEF RunsQueue, ReadingInv
<1>2. o \in ReaderRecord /\ o.op = "queue" /\ o.pc = "done"
    BY <1>1 DEF ReaderRecord
<1> HIDE DEF o
<1>3. Opens(o, folder) /\ Connects(o, secret, creds) /\ ~Going(o)
    BY <1>2 DEF Opens, Connects, Going
<1>4. QED BY <1>1, <1>2, <1>3, ReaderMoves

LEMMA ReadFailsKept == ASSUME ReadingInv, NEW r \in Readers, ReadFails(r) PROVE ReadingInv'
<1>1. reader' = [reader EXCEPT ![r] = IdleReader] /\ UNCHANGED <<folder, received, secret, page, creds>>
    BY DEF ReadFails
<1>2. IdleReader \in ReaderRecord /\ ~Going(IdleReader) /\ IdleReader.op = "none"
    BY IdleReaderOK
<1>3. Opens(IdleReader, folder) /\ Connects(IdleReader, secret, creds)
    BY <1>2 DEF Opens, Connects
<1> HIDE DEF IdleReader
<1>4. QED BY <1>1, <1>2, <1>3, ReaderMoves

LEMMA ReadingKept == ASSUME ReadingInv, [ReadingNext]_readingVars PROVE ReadingInv'
<1>1. CASE UNCHANGED readingVars \/ QueueExpires
    BY <1>1, ReadingStays DEF readingVars, QueueExpires
<1>2. ASSUME NEW r \in Readers, NEW via \in {"imap", "doveadm"},
             \/ ReadStarts(r, via, "list", <<0, 0>>)
             \/ \E entry \in page.entries :
                    ReadStarts(r, via, "open", entry) \/ ReadStarts(r, via, "attachment", entry)
      PROVE  ReadingInv'
    BY <1>2, StartsKept
<1>3. ASSUME NEW r \in Readers, ReadStarts(r, "queue", "queue", <<0, 0>>) PROVE ReadingInv'
    BY <1>3, StartsKept
<1>4. ASSUME NEW r \in Readers,
             \/ AnswersFromCache(r) \/ ReadsHost(r) \/ ReadsPem(r) \/ UsesPem(r) \/ UsesHost(r)
             \/ RunsList(r) \/ RunsFetch(r) \/ RunsQueue(r) \/ ReadFails(r)
      PROVE  ReadingInv'
    BY <1>4, CacheAnswersKept, HostReadKept, PemReadKept, SecretUsedKept, RunsListKept,
       RunsFetchKept, RunsQueueKept, ReadFailsKept
<1>5. QED BY <1>1, <1>2, <1>3, <1>4, ArrivesKept, ExpungeKept, SecretKept DEF ReadingNext

LEMMA RightMailOpened == ASSUME ReadingInv PROVE OpensWhatWasListed /\ CredsAreRecent
<1>1. ASSUME NEW r \in Readers, reader[r].pc = "done", reader[r].op \in {"open", "attachment"}
      PROVE  \/ reader[r].answer \in {0, reader[r].of}
             \/ reader[r].api = "imap" /\ reader[r].low <= reader[r].ref
    BY <1>1 DEF ReadingInv, Opens
<1>2. ASSUME NEW r \in Readers, NEW f \in Fields, reader[r].pc = "run"
      PROVE  reader[r].used[f] >= reader[r].floor[f]
    BY <1>2 DEF ReadingInv, Connects, Going
<1>3. QED BY <1>1, <1>2 DEF OpensWhatWasListed, CredsAreRecent

-----------------------------------------------------------------------------
(* The registry and mail in a behaviour of Operations *)

OrdersRest == \A q \in MailReqs : ~Open(q)

RegistryAndMailInv ==
    /\ RegistryInv /\ SentSoFar(sending) /\ ReadingInv /\ SentInv
    /\ CredentialInv /\ (part # "credentials" => OrdersRest)

LEMMA PartsAlone ==
    ASSUME [OperationsNext]_operationsVars
    PROVE  /\ [RegistryNext]_registryVars /\ [SendNext]_sending
           /\ [ReadingNext]_readingVars /\ [SentNext]_sentVars
           /\ UNCHANGED part
           /\ \/ part = "credentials" /\ CredentialNext
              \/ part = "list" /\ ListNext
              \/ UNCHANGED mailVars
BY DEF OperationsNext, operationsVars, NagiosPart, RegistryPart, CredentialPart, ListPart, OfMail,
       SendPart, ReadingPart, SentPart, mailPartVars

\* One deployment for the seed, a tenant's own agent, a password set where it is said
\* to be, mail that was taken and mail that was meant (nexus_api/main.py, brain/
\* credentials.py, email_agent/services).
THEOREM RegistryAndMailStayTrue == OperationsSpec => []RegistryAndMailAreTrue
<1>1. OperationsInit => RegistryAndMailInv
    BY RegistryInitial, MailSentInitial, ReadingInitial, SentInitial, CredentialInitial
    DEF OperationsInit, RegistryAndMailInv, OrdersRest
<1>2. RegistryAndMailInv /\ [OperationsNext]_operationsVars => RegistryAndMailInv'
    <2> SUFFICES ASSUME RegistryAndMailInv, [OperationsNext]_operationsVars
                 PROVE  RegistryAndMailInv'
        OBVIOUS
    <2>1. RegistryInv' /\ SentSoFar(sending)' /\ ReadingInv' /\ SentInv'
        <3>1. RegistryInv'
            BY PartsAlone, RegistryKept DEF RegistryAndMailInv
        <3>2. SentSoFar(sending')
            BY PartsAlone, SendingKept DEF RegistryAndMailInv
        <3>3. ReadingInv' /\ SentInv'
            BY PartsAlone, ReadingKept, SentKept DEF RegistryAndMailInv
        <3>4. QED BY <3>1, <3>2, <3>3
    <2>2. CredentialInv' /\ (part # "credentials" => OrdersRest')
        <3>1. CASE part = "credentials" /\ CredentialNext
            BY <3>1, CredentialKept DEF RegistryAndMailInv
        <3>2. CASE part = "list" /\ ListNext
            BY <3>2, ListLeavesOrders DEF RegistryAndMailInv, OrdersRest
        <3>3. CASE UNCHANGED mailVars
            <4>1. CredentialInv'
                BY <3>3, CredentialStays DEF RegistryAndMailInv, mailVars, provisionVars
            <4>2. OrdersRest => OrdersRest'
                BY <3>3 DEF OrdersRest, mailVars, Open
            <4>3. QED BY <4>1, <4>2 DEF RegistryAndMailInv
        <3>4. QED BY <3>1, <3>2, <3>3, PartsAlone
    <2>3. part' = part
        BY PartsAlone
    <2>4. QED BY <2>1, <2>2, <2>3 DEF RegistryAndMailInv
<1>3. RegistryAndMailInv => RegistryAndMailAreTrue
    BY SeedsCounted, OwnResolved, PasswordsSet, MailSent, RightMailOpened, SentRefreshed
    DEF RegistryAndMailInv, RegistryAndMailAreTrue, MailAnswersAreTrue, MailIsRead
<1>4. QED BY <1>1, <1>2, <1>3, PTL DEF OperationsSpec
=============================================================================
