--------------------------- MODULE PlatformProofs ---------------------------
(* Proofs about what every part of the platform stands on: the event bus    *)
(* (EventBus), sign-in (Access), and backup and restore (Backup), for every *)
(* value of their constants.                                                *)
EXTENDS EventBus, Access, Backup, FiniteSetTheorems, TLAPS

(***************************************************************************)
(* The event bus.                                                           *)
(***************************************************************************)

\* A consumer that is about to acknowledge holds the evidence that it may:
\* the handler returned, or the dead-letter copy exists.  Without this the
\* loss invariant is not inductive.
AckJustified ==
    \A c \in Consumers : \A i \in Ids :
        Current(c, i) =>
            /\ pc[c] = "ack" => handled[i] > 0
            /\ pc[c] = "dlq_add" => delivered[i] >= MAX_DELIVERY_ATTEMPTS
            /\ pc[c] = "dlq_ack" => dlq[i] > 0

\* The group's cursor never runs ahead of the stream, nor behind a delivery;
\* before the group exists nobody reads.
CursorInStream ==
    /\ last <= len
    /\ \A i \in Ids : delivered[i] > 0 \/ i \in pel => i <= last
    /\ group \/ (last = 0 /\ \A c \in Consumers : pc[c] = "down")

Inv ==
    /\ TypeOK
    /\ CursorInStream
    /\ AckJustified
    /\ NoSilentLoss
    /\ DeadLetterThreshold

-----------------------------------------------------------------------------

\* A consumer works on one entry at a time.
LEMMA CurrentUnique ==
    ASSUME NEW c \in Consumers, NEW i \in Ids, NEW k \in Ids, Current(c, i), Current(c, k)
    PROVE  i = k
<1>1. i \in Int /\ k \in Int
  BY BusAssumption DEF Ids
<1> QED BY <1>1 DEF Current

\* COUNT takes a prefix: what lies below a selected entry is selected too.
LEMMA FirstOfPrefix ==
    ASSUME NEW S \in SUBSET Ids, NEW n \in Nat,
           NEW m \in FirstOf(S, n), NEW i \in S, i <= m
    PROVE  i \in FirstOf(S, n)
<1> DEFINE L(k) == {j \in S : j < k}
<1>1. IsFiniteSet(Ids)
  BY FS_Interval, BusAssumption DEF Ids
<1>2. IsFiniteSet(L(m)) /\ IsFiniteSet(L(i))
  <2>1. L(m) \subseteq Ids /\ L(i) \subseteq Ids
    OBVIOUS
  <2> QED BY <1>1, <2>1, FS_Subset
<1>3. L(i) \subseteq L(m)
  <2>1. i \in Int /\ m \in Int /\ \A j \in S : j \in Int
    BY BusAssumption DEF FirstOf, Ids
  <2>2. \A j \in S : j < i => j < m
    BY <2>1
  <2> QED BY <2>2
<1>4. Cardinality(L(i)) <= Cardinality(L(m))
  BY <1>2, <1>3, FS_Subset
<1>5. Cardinality(L(i)) \in Nat /\ Cardinality(L(m)) \in Nat
  BY <1>2, FS_CardinalityType
<1>6. Cardinality(L(m)) < n
  BY DEF FirstOf
<1>7. Cardinality(L(i)) < n
  BY <1>4, <1>5, <1>6
<1> QED BY <1>7 DEF FirstOf

\* An XREADGROUP leaves nothing behind its new cursor: every entry between the
\* old and the new last-delivered-id that is in the stream became pending.
LEMMA ReadGroupCovers ==
    ASSUME TypeOK, CursorInStream, ReadGroup(Unread)
    PROVE  /\ last' \in 0..MaxEvents
           /\ last' <= len
           /\ pel' \subseteq Ids
           /\ idle' \subseteq pel'
           /\ delivered' \in [Ids -> Nat]
           /\ \A i \in Ids : delivered'[i] >= delivered[i]
           /\ \A i \in Ids : delivered'[i] > 0 \/ i \in pel' => i <= last'
           /\ \A i \in 1..len : i > last' \/ i <= last \/ i \in pel' \/ i < first
<1>1. Unread \subseteq Ids /\ \A i \in Unread : i <= len /\ i > last
  BY DEF Unread, FirstOf
<1>2. last' \in 0..MaxEvents /\ last' <= len
  BY <1>1, BusAssumption DEF TypeOK, CursorInStream, ReadGroup, Ids
<1>3. delivered' \in [Ids -> Nat] /\ \A i \in Ids : delivered'[i] >= delivered[i]
  BY DEF TypeOK, ReadGroup
<1>4. pel' \subseteq Ids /\ idle' \subseteq pel'
  BY <1>1 DEF TypeOK, ReadGroup
<1>5. ASSUME NEW i \in 1..len, i <= last', i > last, i >= first
      PROVE  i \in pel'
  <2> DEFINE S == {k \in Ids : k > last /\ k >= first /\ k <= len}
  <2>1. i \in S
    BY <1>5, BusAssumption DEF TypeOK, Ids
  <2>2. PICK m \in Unread : last' = m
    BY <1>5, BusAssumption DEF TypeOK, ReadGroup
  <2>3. i \in FirstOf(S, BATCH_SIZE)
    BY <1>5, <2>1, <2>2, FirstOfPrefix, BusAssumption DEF Unread
  <2> QED BY <2>3 DEF ReadGroup, Unread
<1>6. last' >= last /\ \A i \in Unread : i <= last'
  BY <1>1, BusAssumption DEF TypeOK, ReadGroup, Ids
<1>7. ASSUME NEW i \in Ids, delivered'[i] > 0 \/ i \in pel'
      PROVE  i <= last'
  <2>1. CASE i \in Unread
    BY <1>6, <2>1
  <2>2. CASE i \notin Unread
    <3>1. delivered[i] > 0 \/ i \in pel
      BY <1>7, <2>2 DEF TypeOK, ReadGroup
    <3> QED BY <1>2, <1>6, <3>1, BusAssumption DEF CursorInStream, TypeOK, Ids
  <2> QED BY <2>1, <2>2
<1> QED BY <1>2, <1>3, <1>4, <1>5, <1>7, BusAssumption DEF TypeOK, Ids

-----------------------------------------------------------------------------

\* Every step keeps the state well typed.
LEMMA TypeStep ==
    ASSUME TypeOK, CursorInStream, [Next]_vars
    PROVE  TypeOK'
<1> USE BusAssumption
<1>1. CASE publish
  BY <1>1 DEF TypeOK, publish, Ids
<1>2. ASSUME NEW c \in Consumers, subscribe(c)
      PROVE  TypeOK'
  BY <1>2 DEF TypeOK, subscribe, stream, Steps, Ids
<1>3. ASSUME NEW c \in Consumers, Work(c)
      PROVE  TypeOK'
  <2>1. CASE poll(c)
    <3>1. Unread \subseteq Ids
      BY DEF Unread, FirstOf
    <3>2. ReadGroup(Unread)
      BY <2>1 DEF poll
    <3>3. len' = len /\ first' = first /\ group' = group /\ dlq' = dlq
      BY <3>2 DEF ReadGroup, stream
    <3> QED BY <2>1, <3>1, <3>2, <3>3, ReadGroupCovers
            DEF TypeOK, poll, Receive, Steps
  <2>2. CASE claim(c)
    BY <2>2 DEF TypeOK, claim, AutoClaim, Receive, Claimable, FirstOf, stream, Steps
  <2>3. ASSUME NEW i \in Ids, handle(c, i)
        PROVE  TypeOK'
    BY <2>3 DEF TypeOK, handle, redis, Steps
  <2>4. ASSUME NEW i \in Ids, handle_fails(c, i)
        PROVE  TypeOK'
    BY <2>4 DEF TypeOK, handle_fails, redis, Steps
  <2>5. ASSUME NEW i \in Ids, xack(c, i)
        PROVE  TypeOK'
    BY <2>5 DEF TypeOK, xack, Ack, Finish, NextPhase, stream, Steps
  <2>6. ASSUME NEW i \in Ids, maybe_dlq(c, i)
        PROVE  TypeOK'
    BY <2>6 DEF TypeOK, maybe_dlq, Finish, NextPhase, redis, Steps
  <2>7. ASSUME NEW i \in Ids, dlq_add(c, i)
        PROVE  TypeOK'
    BY <2>7 DEF TypeOK, dlq_add, stream, Steps
  <2>8. ASSUME NEW i \in Ids, dlq_ack(c, i)
        PROVE  TypeOK'
    BY <2>8 DEF TypeOK, dlq_ack, Ack, Finish, NextPhase, stream, Steps
  <2> QED BY <1>3, <2>1, <2>2, <2>3, <2>4, <2>5, <2>6, <2>7, <2>8 DEF Work
<1>4. ASSUME NEW c \in Consumers, Faults(c)
      PROVE  TypeOK'
  <2>1. CASE poll_fails(c)
    <3>1. mishaps' \in Nat
      BY <2>1 DEF TypeOK, poll_fails, Mishap
    <3>2. CASE ReadGroup(Unread)
      <4>1. len' = len /\ first' = first /\ group' = group /\ dlq' = dlq
        BY <3>2 DEF ReadGroup, stream
      <4> QED BY <2>1, <3>1, <3>2, <4>1, ReadGroupCovers DEF TypeOK, poll_fails
    <3>3. CASE UNCHANGED redis
      BY <2>1, <3>1, <3>3 DEF TypeOK, poll_fails, redis
    <3> QED BY <2>1, <3>2, <3>3 DEF poll_fails
  <2>2. CASE claim_fails(c)
    <3>1. mishaps' \in Nat /\ pc' \in [Consumers -> Steps]
      BY <2>2 DEF TypeOK, claim_fails, Mishap, Steps
    <3>2. CASE AutoClaim(Claimable)
      BY <2>2, <3>1, <3>2 DEF TypeOK, claim_fails, AutoClaim, Claimable, FirstOf, stream
    <3>3. CASE UNCHANGED redis
      BY <2>2, <3>1, <3>3 DEF TypeOK, claim_fails, redis
    <3> QED BY <2>2, <3>2, <3>3 DEF claim_fails
  <2>3. CASE crash(c)
    BY <2>3 DEF TypeOK, crash, Mishap, redis, Steps
  <2>4. ASSUME NEW i \in Ids, xack_fails(c, i)
        PROVE  TypeOK'
    BY <2>4 DEF TypeOK, xack_fails, Ack, Mishap, stream, Steps
  <2>5. ASSUME NEW i \in Ids, dlq_fails(c, i)
        PROVE  TypeOK'
    <3>1. batch' \in [Consumers -> SUBSET Ids] /\ pc' \in [Consumers -> Steps]
      BY <2>5 DEF TypeOK, dlq_fails, Finish, NextPhase, Steps
    <3>2. mishaps' \in Nat
      BY <2>5 DEF TypeOK, dlq_fails, Mishap
    <3>3. pel' \subseteq Ids /\ idle' \subseteq pel' /\ dlq' \in [Ids -> Nat]
      BY <2>5 DEF TypeOK, dlq_fails, Ack
    <3> QED BY <2>5, <3>1, <3>2, <3>3 DEF TypeOK, dlq_fails, stream
  <2> QED BY <1>4, <2>1, <2>2, <2>3, <2>4, <2>5 DEF Faults
<1>5. ASSUME NEW i \in Ids, elapse(i)
      PROVE  TypeOK'
  BY <1>5 DEF TypeOK, elapse, Mishap, stream
<1>6. CASE UNCHANGED vars
  BY <1>6 DEF TypeOK, vars
<1> QED BY <1>1, <1>2, <1>3, <1>4, <1>5, <1>6 DEF Next

-----------------------------------------------------------------------------

\* Every step keeps the safety part of the invariant.
LEMMA SafetyStep ==
    ASSUME Inv, TypeOK', [Next]_vars
    PROVE  CursorInStream' /\ AckJustified' /\ NoSilentLoss' /\ DeadLetterThreshold'
<1> USE BusAssumption
<1> DEFINE Goal == CursorInStream' /\ AckJustified' /\ NoSilentLoss' /\ DeadLetterThreshold'
<1> USE DEF Inv
<1>1. CASE publish
  <2>1. len' = len + 1 /\ last' = last /\ first' >= first
    BY <1>1 DEF TypeOK, publish
  <2>2. CursorInStream' /\ NoSilentLoss'
    BY <1>1, <2>1 DEF TypeOK, publish, CursorInStream, NoSilentLoss
  <2>3. AckJustified' /\ DeadLetterThreshold'
    BY <1>1 DEF publish, AckJustified, DeadLetterThreshold, Current
  <2> QED BY <2>2, <2>3
<1>2. ASSUME NEW c \in Consumers, subscribe(c)
      PROVE  Goal
  <2>1. CursorInStream' /\ NoSilentLoss' /\ DeadLetterThreshold'
    <3>1. last' \in 0..MaxEvents /\ last' <= last
      BY <1>2 DEF TypeOK, subscribe
    <3>2. CursorInStream'
      BY <1>2, <3>1 DEF TypeOK, subscribe, stream, CursorInStream
    <3>3. NoSilentLoss' /\ DeadLetterThreshold'
      BY <1>2, <3>1 DEF TypeOK, subscribe, stream, NoSilentLoss, DeadLetterThreshold
    <3> QED BY <3>2, <3>3
  <2>2. AckJustified'
    BY <1>2 DEF TypeOK, subscribe, AckJustified, Current
  <2> QED BY <2>1, <2>2
<1>3. ASSUME NEW c \in Consumers, Work(c)
      PROVE  Goal
  <2>1. CASE poll(c)
    <3>1. ReadGroup(Unread)
      BY <2>1 DEF poll
    <3>2. len' = len /\ first' = first /\ dlq' = dlq /\ handled' = handled /\ pel \subseteq pel'
      BY <2>1 DEF poll, ReadGroup, stream
    <3>3. CursorInStream' /\ DeadLetterThreshold'
      <4>1. group' = group /\ group
        BY <2>1, <3>1 DEF poll, ReadGroup, CursorInStream
      <4>2. CursorInStream'
        BY <3>1, <3>2, <4>1, ReadGroupCovers DEF CursorInStream
      <4>3. DeadLetterThreshold'
        BY <3>1, <3>2, ReadGroupCovers DEF TypeOK, DeadLetterThreshold
      <4> QED BY <4>2, <4>3
    <3>4. NoSilentLoss'
      <4>1. ASSUME NEW i \in 1..len
            PROVE  i > last' \/ i \in pel' \/ handled[i] > 0 \/ dlq[i] > 0 \/ i < first
        BY <3>1, <3>2, ReadGroupCovers DEF TypeOK, NoSilentLoss
      <4> QED BY <3>2, <4>1 DEF NoSilentLoss
    <3>5. AckJustified'
      BY <2>1, <3>1, <3>2, ReadGroupCovers DEF TypeOK, poll, Receive, AckJustified, Current
    <3> QED BY <3>3, <3>4, <3>5
  <2>2. CASE claim(c)
    <3>1. \A i \in Ids : delivered'[i] >= delivered[i]
      BY <2>2 DEF TypeOK, claim, AutoClaim
    <3>2. CursorInStream' /\ NoSilentLoss' /\ DeadLetterThreshold'
      <4>1. Claimable \subseteq pel
        BY DEF TypeOK, Claimable, FirstOf
      <4>2. \A i \in Ids : delivered'[i] > 0 \/ i \in pel' => delivered[i] > 0 \/ i \in pel
        BY <2>2, <4>1 DEF TypeOK, claim, AutoClaim
      <4>3. group' = group /\ group /\ last' = last /\ len' = len
        BY <2>2 DEF claim, AutoClaim, stream, CursorInStream
      <4>4. CursorInStream'
        BY <4>2, <4>3 DEF CursorInStream
      <4>5. NoSilentLoss' /\ DeadLetterThreshold'
        BY <2>2, <3>1 DEF TypeOK, claim, AutoClaim, stream, NoSilentLoss,
                          DeadLetterThreshold
      <4> QED BY <4>4, <4>5
    <3>3. AckJustified'
      BY <2>2, <3>1 DEF TypeOK, claim, AutoClaim, Receive, AckJustified, Current
    <3> QED BY <3>2, <3>3
  <2>3. ASSUME NEW i \in Ids, handle(c, i)
        PROVE  Goal
    <3>1. \A k \in Ids : handled'[k] >= handled[k] /\ handled'[i] > 0
      BY <2>3 DEF TypeOK, handle
    <3>2. CursorInStream' /\ NoSilentLoss' /\ DeadLetterThreshold'
      BY <2>3, <3>1 DEF TypeOK, handle, redis, Ids, CursorInStream, NoSilentLoss,
                        DeadLetterThreshold
    <3>3. AckJustified'
      <4> SUFFICES ASSUME NEW d \in Consumers, NEW k \in Ids, Current(d, k)'
                   PROVE  /\ pc'[d] = "ack" => handled'[k] > 0
                          /\ pc'[d] = "dlq_add" => delivered'[k] >= MAX_DELIVERY_ATTEMPTS
                          /\ pc'[d] = "dlq_ack" => dlq'[k] > 0
        BY DEF AckJustified
      <4>1. Current(d, k) /\ Current(c, i)
        BY <2>3 DEF handle, Current
      <4>2. CASE d = c
        BY <2>3, <3>1, <4>1, <4>2, CurrentUnique DEF TypeOK, handle
      <4>3. CASE d # c
        BY <2>3, <3>1, <4>1, <4>3 DEF TypeOK, handle, redis, AckJustified
      <4> QED BY <4>2, <4>3
    <3> QED BY <3>2, <3>3
  <2>4. ASSUME NEW i \in Ids, handle_fails(c, i)
        PROVE  Goal
    BY <2>4 DEF TypeOK, handle_fails, redis, CursorInStream, AckJustified, NoSilentLoss,
                DeadLetterThreshold, Current
  <2>5. ASSUME NEW i \in Ids, xack(c, i)
        PROVE  Goal
    <3>1. handled[i] > 0
      BY <2>5 DEF xack, AckJustified
    <3>2. CursorInStream' /\ NoSilentLoss' /\ DeadLetterThreshold'
      BY <2>5, <3>1 DEF TypeOK, xack, Ack, stream, CursorInStream, NoSilentLoss,
                        DeadLetterThreshold
    <3>3. AckJustified'
      BY <2>5 DEF TypeOK, xack, Finish, NextPhase, AckJustified, Current
    <3> QED BY <3>2, <3>3
  <2>6. ASSUME NEW i \in Ids, maybe_dlq(c, i)
        PROVE  Goal
    <3>1. CursorInStream' /\ NoSilentLoss' /\ DeadLetterThreshold'
      BY <2>6 DEF maybe_dlq, redis, CursorInStream, NoSilentLoss, DeadLetterThreshold
    <3>2. AckJustified'
      <4> SUFFICES ASSUME NEW d \in Consumers, NEW k \in Ids, Current(d, k)'
                   PROVE  /\ pc'[d] = "ack" => handled'[k] > 0
                          /\ pc'[d] = "dlq_add" => delivered'[k] >= MAX_DELIVERY_ATTEMPTS
                          /\ pc'[d] = "dlq_ack" => dlq'[k] > 0
        BY DEF AckJustified
      <4>1. CASE d = c /\ Exhausted(i)
        <5>1. Current(c, k) /\ Current(c, i)
          BY <2>6, <4>1 DEF maybe_dlq, Current
        <5>2. k = i
          BY <5>1, CurrentUnique
        <5> QED BY <2>6, <4>1, <5>2 DEF TypeOK, maybe_dlq, redis, Exhausted
      <4>2. CASE d = c /\ ~Exhausted(i)
        BY <2>6, <4>2 DEF TypeOK, maybe_dlq, Finish, NextPhase
      <4>3. CASE d # c
        BY <2>6, <4>3 DEF TypeOK, maybe_dlq, Finish, redis, AckJustified, Current
      <4> QED BY <4>1, <4>2, <4>3
    <3> QED BY <3>1, <3>2
  <2>7. ASSUME NEW i \in Ids, dlq_add(c, i)
        PROVE  Goal
    <3>1. delivered[i] >= MAX_DELIVERY_ATTEMPTS
      BY <2>7 DEF dlq_add, AckJustified
    <3>2. CursorInStream' /\ NoSilentLoss' /\ DeadLetterThreshold'
      BY <2>7, <3>1 DEF TypeOK, dlq_add, stream, Ids, CursorInStream, NoSilentLoss,
                        DeadLetterThreshold
    <3>3. AckJustified'
      <4> SUFFICES ASSUME NEW d \in Consumers, NEW k \in Ids, Current(d, k)'
                   PROVE  /\ pc'[d] = "ack" => handled'[k] > 0
                          /\ pc'[d] = "dlq_add" => delivered'[k] >= MAX_DELIVERY_ATTEMPTS
                          /\ pc'[d] = "dlq_ack" => dlq'[k] > 0
        BY DEF AckJustified
      <4>1. Current(d, k) /\ Current(c, i)
        BY <2>7 DEF dlq_add, Current
      <4>2. dlq'[i] > 0 /\ dlq'[k] >= dlq[k]
        BY <2>7 DEF TypeOK, dlq_add
      <4>3. CASE d = c
        BY <2>7, <4>1, <4>2, <4>3, CurrentUnique DEF TypeOK, dlq_add
      <4>4. CASE d # c
        BY <2>7, <4>1, <4>2, <4>4 DEF TypeOK, dlq_add, AckJustified
      <4> QED BY <4>3, <4>4
    <3> QED BY <3>2, <3>3
  <2>8. ASSUME NEW i \in Ids, dlq_ack(c, i)
        PROVE  Goal
    <3>1. dlq[i] > 0
      BY <2>8 DEF dlq_ack, AckJustified
    <3>2. CursorInStream' /\ NoSilentLoss' /\ DeadLetterThreshold'
      BY <2>8, <3>1 DEF TypeOK, dlq_ack, Ack, stream, CursorInStream, NoSilentLoss,
                        DeadLetterThreshold
    <3>3. AckJustified'
      BY <2>8 DEF TypeOK, dlq_ack, Finish, NextPhase, AckJustified, Current
    <3> QED BY <3>2, <3>3
  <2> QED BY <1>3, <2>1, <2>2, <2>3, <2>4, <2>5, <2>6, <2>7, <2>8 DEF Work
<1>4. ASSUME NEW c \in Consumers, Faults(c)
      PROVE  Goal
  <2>1. CASE poll_fails(c)
    <3>1. CASE ReadGroup(Unread)
      <4>1. len' = len /\ first' = first /\ dlq' = dlq /\ handled' = handled /\ pel \subseteq pel'
        BY <2>1, <3>1 DEF poll_fails, ReadGroup, stream
      <4>2. CursorInStream' /\ DeadLetterThreshold'
        <5>1. group' = group /\ group
          BY <2>1, <3>1 DEF poll_fails, ReadGroup, CursorInStream
        <5>2. CursorInStream'
          BY <3>1, <4>1, <5>1, ReadGroupCovers DEF CursorInStream
        <5>3. DeadLetterThreshold'
          BY <3>1, <4>1, ReadGroupCovers DEF TypeOK, DeadLetterThreshold
        <5> QED BY <5>2, <5>3
      <4>3. NoSilentLoss'
        <5>1. ASSUME NEW i \in 1..len
              PROVE  i > last' \/ i \in pel' \/ handled[i] > 0 \/ dlq[i] > 0 \/ i < first
          BY <3>1, <4>1, ReadGroupCovers DEF TypeOK, NoSilentLoss
        <5> QED BY <4>1, <5>1 DEF NoSilentLoss
      <4>4. AckJustified'
        BY <2>1, <3>1, <4>1, ReadGroupCovers DEF TypeOK, poll_fails, AckJustified, Current
      <4> QED BY <4>2, <4>3, <4>4
    <3>2. CASE UNCHANGED redis
      BY <2>1, <3>2 DEF poll_fails, redis, CursorInStream, AckJustified, NoSilentLoss,
                        DeadLetterThreshold, Current
    <3> QED BY <2>1, <3>1, <3>2 DEF poll_fails
  <2>2. CASE claim_fails(c)
    <3>1. \A i \in Ids : delivered'[i] >= delivered[i]
      BY <2>2 DEF TypeOK, claim_fails, AutoClaim, redis
    <3>2. CursorInStream' /\ NoSilentLoss' /\ DeadLetterThreshold'
      <4>1. Claimable \subseteq pel
        BY DEF TypeOK, Claimable, FirstOf
      <4>2. \A i \in Ids : delivered'[i] > 0 \/ i \in pel' => delivered[i] > 0 \/ i \in pel
        BY <2>2, <4>1 DEF TypeOK, claim_fails, AutoClaim, redis
      <4>3. group' = group /\ group /\ last' = last /\ len' = len
        BY <2>2 DEF claim_fails, AutoClaim, stream, CursorInStream, redis
      <4>4. CursorInStream'
        BY <4>2, <4>3 DEF CursorInStream
      <4>5. NoSilentLoss' /\ DeadLetterThreshold'
        BY <2>2, <3>1 DEF TypeOK, claim_fails, AutoClaim, stream, NoSilentLoss,
                          DeadLetterThreshold, redis
      <4> QED BY <4>4, <4>5
    <3>3. AckJustified'
      BY <2>2, <3>1 DEF TypeOK, claim_fails, AutoClaim, redis, AckJustified, Current
    <3> QED BY <3>2, <3>3
  <2>3. CASE crash(c)
    BY <2>3 DEF TypeOK, crash, redis, CursorInStream, AckJustified, NoSilentLoss,
                DeadLetterThreshold, Current
  <2>4. ASSUME NEW i \in Ids, xack_fails(c, i)
        PROVE  Goal
    <3>1. handled[i] > 0
      BY <2>4 DEF xack_fails, AckJustified
    <3>2. CursorInStream' /\ NoSilentLoss' /\ DeadLetterThreshold'
      BY <2>4, <3>1 DEF TypeOK, xack_fails, Ack, stream, CursorInStream, NoSilentLoss,
                        DeadLetterThreshold
    <3>3. AckJustified'
      BY <2>4 DEF TypeOK, xack_fails, AckJustified, Current
    <3> QED BY <3>2, <3>3
  <2>5. ASSUME NEW i \in Ids, dlq_fails(c, i)
        PROVE  Goal
    <3>1. /\ pc[c] = "dlq_add" => delivered[i] >= MAX_DELIVERY_ATTEMPTS
          /\ pc[c] = "dlq_ack" => dlq[i] > 0
      BY <2>5 DEF dlq_fails, AckJustified
    <3>2. \A k \in Ids : /\ dlq'[k] >= dlq[k]
                         /\ k \in pel /\ k \notin pel' => dlq'[k] > 0
                         /\ dlq'[k] > 0 => dlq[k] > 0 \/ delivered[k] >= MAX_DELIVERY_ATTEMPTS
      BY <2>5, <3>1 DEF TypeOK, dlq_fails, Ack
    <3>3. CursorInStream' /\ DeadLetterThreshold'
      <4>1. group' = group /\ group /\ pel' \subseteq pel
        BY <2>5 DEF dlq_fails, Ack, CursorInStream
      <4>2. CursorInStream'
        BY <2>5, <4>1 DEF dlq_fails, stream, CursorInStream
      <4>3. DeadLetterThreshold'
        BY <2>5, <3>2 DEF TypeOK, dlq_fails, DeadLetterThreshold
      <4> QED BY <4>2, <4>3
    <3>4. NoSilentLoss'
      BY <2>5, <3>2 DEF TypeOK, dlq_fails, stream, NoSilentLoss, Ids
    <3>5. AckJustified'
      BY <2>5, <3>2 DEF TypeOK, dlq_fails, Finish, NextPhase, AckJustified, Current
    <3> QED BY <3>3, <3>4, <3>5
  <2> QED BY <1>4, <2>1, <2>2, <2>3, <2>4, <2>5 DEF Faults
<1>5. ASSUME NEW i \in Ids, elapse(i)
      PROVE  Goal
  BY <1>5 DEF elapse, stream, CursorInStream, AckJustified, NoSilentLoss,
              DeadLetterThreshold, Current
<1>6. CASE UNCHANGED vars
  BY <1>6 DEF vars, CursorInStream, AckJustified, NoSilentLoss, DeadLetterThreshold, Current
<1> QED BY <1>1, <1>2, <1>3, <1>4, <1>5, <1>6 DEF Next

-----------------------------------------------------------------------------

\* The inductive invariant holds in every reachable state of the bus.
THEOREM BusInvariant == Spec => []Inv
<1>1. Init => Inv
  <2> SUFFICES ASSUME Init PROVE Inv
    OBVIOUS
  <2>1. TypeOK
    <3>1. 0 \in 0..MaxEvents /\ 1 \in 1..(MaxEvents + 1)
      BY BusAssumption
    <3> QED BY <3>1 DEF Init, TypeOK, Steps
  <2>2. CursorInStream /\ NoSilentLoss
    BY DEF Init, CursorInStream, NoSilentLoss
  <2>3. AckJustified /\ DeadLetterThreshold
    BY DEF Init, AckJustified, DeadLetterThreshold, Current
  <2> QED BY <2>1, <2>2, <2>3 DEF Inv
<1>2. Inv /\ [Next]_vars => Inv'
  BY TypeStep, SafetyStep DEF Inv
<1> QED BY <1>1, <1>2, PTL DEF Spec

\* The state of the bus is always well typed.
THEOREM BusTypeOK == Spec => []TypeOK
BY BusInvariant, PTL DEF Inv

\* At-least-once delivery of everything that was not trimmed, for any number
\* of consumers, crashes, Redis errors and slow handlers.
THEOREM BusNoSilentLoss == Spec => []NoSilentLoss
BY BusInvariant, PTL DEF Inv

\* Nothing is dead-lettered before MAX_DELIVERY_ATTEMPTS deliveries.
THEOREM BusDeadLetterThreshold == Spec => []DeadLetterThreshold
BY BusInvariant, PTL DEF Inv

\* An acknowledged entry never becomes pending again.
THEOREM BusAckIsFinal == Spec => AckIsFinal
<1>1. Inv /\ [Next]_vars
        => [\A i \in Ids : delivered[i] > 0 /\ i \notin pel => i \notin pel']_vars
  <2> SUFFICES ASSUME Inv, Next, NEW i \in Ids, delivered[i] > 0, i \notin pel
               PROVE  i \notin pel'
    BY DEF vars
  <2>1. i \notin Unread
    BY BusAssumption DEF Inv, CursorInStream, TypeOK, Unread, FirstOf, Ids
  <2>2. ASSUME NEW c \in Consumers, Work(c)
        PROVE  i \notin pel'
    BY <2>1, <2>2 DEF Work, poll, ReadGroup, claim, AutoClaim, handle, handle_fails, xack,
                      maybe_dlq, dlq_add, dlq_ack, Ack, redis
  <2>3. ASSUME NEW c \in Consumers, Faults(c)
        PROVE  i \notin pel'
    BY <2>1, <2>3 DEF Faults, poll_fails, ReadGroup, claim_fails, AutoClaim, crash,
                      xack_fails, dlq_fails, Ack, redis
  <2> QED BY <2>2, <2>3 DEF Next, publish, subscribe, elapse
<1> QED BY <1>1, BusInvariant, PTL DEF Spec, AckIsFinal

(***************************************************************************)
(* Sign-in, users and the limiter.                                          *)
(***************************************************************************)

\* The columns of table users, and the pair a sign-in is answered with.
Columns == {"email", "role", "perms", "pw", "rt"}

SessionPair == [access : AccessToken, refresh : Token]

\* Columns of a user that an update may name, with values they may have.
ColumnsOK(set) ==
    /\ set = [f \in DOMAIN set |-> set[f]]
    /\ DOMAIN set \subseteq Columns
    /\ "email" \in DOMAIN set => set["email"] \in Emails
    /\ "role" \in DOMAIN set => set["role"] \in Roles
    /\ "perms" \in DOMAIN set => set["perms"] \in {NULL, "none", "manage"}
    /\ "pw" \in DOMAIN set => set["pw"] \in 0..MaxOps
    /\ "rt" \in DOMAIN set => set["rt"] \in Token \cup {NULL}

LEMMA UpdatedRow ==
    ASSUME NEW row \in Row, NEW set, ColumnsOK(set)
    PROVE  Updated(row, set) \in Row
<1>1. DOMAIN row = Columns
  BY DEF Row, Columns
<1>2. /\ row["email"] \in Emails /\ row["role"] \in Roles
      /\ row["perms"] \in {NULL, "none", "manage"}
      /\ row["pw"] \in 0..MaxOps /\ row["rt"] \in Token \cup {NULL}
  BY DEF Row
<1> QED BY <1>1, <1>2 DEF Updated, ColumnsOK, Columns, Row

LEMMA UpdatedFields ==
    ASSUME NEW row \in Row, NEW set
    PROVE  \A f \in Columns : Updated(row, set)[f] = IF f \in DOMAIN set THEN set[f] ELSE row[f]
  BY DEF Updated, Columns, Row

LEMMA ChangedColumns ==
    ASSUME NEW new \in Row, NEW row \in Row
    PROVE  ColumnsOK(Changed(new, row))
<1>1. DOMAIN row = Columns
  BY DEF Row, Columns
<1>2. DOMAIN Changed(new, row) \subseteq Columns
  BY <1>1 DEF Changed
<1>3. \A f \in DOMAIN Changed(new, row) : Changed(new, row)[f] = new[f]
  BY DEF Changed
<1>4. /\ new["email"] \in Emails /\ new["role"] \in Roles
      /\ new["perms"] \in {NULL, "none", "manage"}
      /\ new["pw"] \in 0..MaxOps /\ new["rt"] \in Token \cup {NULL}
  BY DEF Row
<1>5. Changed(new, row) = [f \in DOMAIN Changed(new, row) |-> Changed(new, row)[f]]
  BY DEF Changed
<1> QED BY <1>2, <1>3, <1>4, <1>5 DEF ColumnsOK

LEMMA EditedRow ==
    ASSUME NEW row \in Row, NEW e \in Emails \cup {NULL}, NEW role \in Roles \cup {NULL},
           NEW p \in (0..MaxOps) \cup {NULL}
    PROVE  /\ Edited(row, e, role, p) \in Row
           /\ Edited(row, e, role, p).pw = IF p = NULL THEN row.pw ELSE p
           /\ Edited(row, e, role, p).rt = IF p = NULL THEN row.rt ELSE NULL
  BY DEF Edited, Row

-----------------------------------------------------------------------------

Values(t) == IF t = "key" THEN 0..MaxOps ELSE SUBSET Clients

\* A refresh token is honoured, or its session was ended by a later commit;
\* R is the table of users, D the tokens retired so far.
Lives(t, R, D) ==
    t \in D \/ \E u \in Users : R[u] # NULL /\ R[u].email = t.sub /\ R[u].rt = t

\* Sign-in or renewal: L are the users whose session is loose.
SessionRequest(q, R, L) ==
    /\ q.op \in {"login", "refresh"}
    /\ q.tbl = "users" /\ q.id \in Users /\ R[q.id] \in Row /\ q.seen \in Row
    /\ q.pair \in SessionPair /\ q.pair.refresh.sub = q.seen.email
    /\ q.set = [rt |-> q.pair.refresh]
    /\ q.op = "login" => q.seen.pw = R[q.id].pw \/ q.id \in L
    /\ q.op = "refresh" => q.origin = R[q.id].pw \/ q.id \in L

\* A change of a user's row: it may clear the session, never set one, and a
\* new password comes with a cleared session, except by a mailed link.
ChangeRequest(q, R) ==
    /\ q.op \in {"logout", "link", "edit", "reset", "perms"}
    /\ q.tbl = "users" /\ q.id \in Users /\ R[q.id] \in Row /\ q.seen \in Row
    /\ q.pair = NULL /\ ColumnsOK(q.set)
    /\ "rt" \in DOMAIN q.set => q.set["rt"] = NULL
    /\ "pw" \in DOMAIN q.set =>
          \/ q.op = "link"
          \/ q.op \in {"edit", "reset"}
             /\ ("rt" \in DOMAIN q.set \/ q.seen.rt = NULL)

CreateRequest(q, R) ==
    /\ q.op = "create"
    /\ q.tbl = "users" /\ q.id \in Users /\ R[q.id] = NULL
    /\ q.pair = NULL /\ q.set \in Row /\ q.set.rt = NULL

ItemRequest(q) ==
    /\ q.op \in {"create", "toggle", "rotate", "delete"}
    /\ q.tbl \in {"key", "ip"} /\ q.pair = NULL
    /\ q.op = "create" => q.set \in Item(Values(q.tbl))
    /\ q.op \in {"toggle", "rotate"} =>
          /\ DOMAIN q.set \subseteq {"active", "value"}
          /\ "active" \in DOMAIN q.set => q.set["active"] \in BOOLEAN
          /\ "value" \in DOMAIN q.set => q.set["value"] \in Values(q.tbl)

AnswerOK(q, R, D) ==
    /\ q.op = "answer"
    /\ \/ q.pair = NULL
       \/ q.pair \in SessionPair /\ Lives(q.pair.refresh, R, D)

RequestOK(q, R, L, D) ==
    \/ q.op = "idle"
    \/ SessionRequest(q, R, L)
    \/ ChangeRequest(q, R)
    \/ CreateRequest(q, R)
    \/ ItemRequest(q)
    \/ AnswerOK(q, R, D)

RequestsOK == \A r \in Requests : RequestOK(req[r], rows, loose, retired)

\* Two requests never insert the same user.
CreatesOnce ==
    \A r, s \in Requests : req[r].op = "create" /\ req[r].tbl = "users"
        /\ req[s].op = "create" /\ req[s].tbl = "users"
        /\ req[r].id = req[s].id => r = s

\* A stored session goes back to the password of now, or is known not to.
SessionsRooted ==
    \A u \in Users : rows[u] # NULL /\ rows[u].rt # NULL =>
        root[u] = rows[u].pw \/ u \in loose

LinksOK == \A l \in links : l.user \in Users /\ rows[l.user] \in Row

\* What clients hold has its type and lives.
SessionsOK ==
    /\ tab = [c \in Clients |-> tab[c]] /\ held = [c \in Clients |-> held[c]]
    /\ \A c \in Clients : /\ tab[c] \in AccessToken \cup {NULL}
                          /\ held[c] \in Token \cup {NULL}
                          /\ held[c] # NULL => Lives(held[c], rows, retired)

ItemsOK ==
    /\ items = [t \in {"key", "ip"} |-> items[t]]
    /\ items["key"] \in Item(0..MaxOps) \cup {NULL}
    /\ items["ip"] \in Item(SUBSET Clients) \cup {NULL}

CallsOK ==
    /\ hits = [c \in Clients |-> hits[c]] /\ calls = [c \in Clients |-> calls[c]]
    /\ \A c \in Clients : hits[c] \subseteq calls[c]

RequestsWell ==
    /\ req = [r \in Requests |-> req[r]]
    /\ RequestsOK
    /\ CreatesOnce

UsersOK ==
    /\ rows \in [Users -> Row \cup {NULL}]
    /\ \A u, v \in Users : rows[u] # NULL /\ rows[v] # NULL
         /\ rows[u].email = rows[v].email => u = v
    /\ root = [u \in Users |-> root[u]]
    /\ SessionsRooted
    /\ LinksOK

CountersOK == now \in 0..MaxTime /\ ops \in 0..MaxOps

AccessInv == SessionsOK /\ ItemsOK /\ CallsOK /\ RequestsWell /\ UsersOK /\ CountersOK

-----------------------------------------------------------------------------

LEMMA LivesToken ==
    ASSUME NEW t \in Token
    PROVE  Lives(t, rows, retired) <=>
             \/ t \in retired
             \/ \E u \in WithEmail(t.sub) : rows[u].rt = t
  BY DEF Lives, WithEmail

LEMMA NullIsNoRow == NULL \notin Row
  BY AccessAssumption

\* A request stays as it should be when the tables grow by a commit that
\* keeps its user and every session, and its user's password or is known.
LEMMA RequestStays ==
    ASSUME NEW q, NEW R, NEW L, NEW D, NEW R2, NEW L2, NEW D2,
           RequestOK(q, R, L, D),
           \A u \in Users : R[u] \in Row => R2[u] \in Row,
           \A t \in Token : Lives(t, R, D) => Lives(t, R2, D2),
           CreateRequest(q, R) => R2[q.id] = NULL,
           SessionRequest(q, R, L) =>
              /\ q.id \in L => q.id \in L2
              /\ R2[q.id].pw = R[q.id].pw \/ q.id \in L2
    PROVE  RequestOK(q, R2, L2, D2)
<1>1. CASE q.op = "idle"
  BY <1>1 DEF RequestOK
<1>2. CASE SessionRequest(q, R, L)
  <2>1. SessionRequest(q, R2, L2)
    BY <1>2 DEF SessionRequest
  <2> QED BY <2>1 DEF RequestOK
<1>3. CASE ChangeRequest(q, R)
  <2>1. ChangeRequest(q, R2)
    BY <1>3 DEF ChangeRequest
  <2> QED BY <2>1 DEF RequestOK
<1>4. CASE CreateRequest(q, R)
  <2>1. CreateRequest(q, R2)
    BY <1>4 DEF CreateRequest
  <2> QED BY <2>1 DEF RequestOK
<1>5. CASE ItemRequest(q)
  BY <1>5 DEF RequestOK
<1>6. CASE AnswerOK(q, R, D)
  <2>1. AnswerOK(q, R2, D2)
    BY <1>6 DEF AnswerOK, SessionPair
  <2> QED BY <2>1 DEF RequestOK
<1> QED BY <1>1, <1>2, <1>3, <1>4, <1>5, <1>6 DEF RequestOK

\* What the operation of a request says about the rest of it.
LEMMA OpOfRequest ==
    ASSUME NEW q, NEW R, NEW L, NEW D, RequestOK(q, R, L, D)
    PROVE  /\ q.op \in {"idle", "answer", "login", "refresh", "logout", "link",
                        "create", "edit", "reset", "perms", "toggle", "rotate", "delete"}
           /\ q.op = "answer" => AnswerOK(q, R, D)
           /\ q.op \in {"login", "refresh"} => SessionRequest(q, R, L)
           /\ q.op \in {"logout", "link", "edit", "reset", "perms"} =>
                 ChangeRequest(q, R)
           /\ q.op = "create" /\ q.tbl = "users" => CreateRequest(q, R)
           /\ q.op \in {"create", "toggle", "rotate", "delete"} /\ q.tbl # "users"
                 => ItemRequest(q)
           /\ q.op \notin {"idle", "answer"} /\ q.tbl # "users" => ItemRequest(q)
           /\ q.op \notin {"idle", "answer"} /\ q.tbl = "users" =>
                 \/ SessionRequest(q, R, L)
                 \/ ChangeRequest(q, R)
                 \/ CreateRequest(q, R)
  BY DEF RequestOK, SessionRequest, ChangeRequest, CreateRequest, ItemRequest, AnswerOK

\* The invariant has what the runs check, and the types.
LEMMA InvChecked ==
    ASSUME AccessInv
    PROVE  AccessTypeOK /\ SessionFollowsPassword /\ IssuedTokenLives
<1>1. \A r \in Requests : req[r].op \in {"idle", "answer", "login", "refresh",
         "logout", "link", "create", "edit", "reset", "perms", "toggle",
         "rotate", "delete"}
  BY OpOfRequest DEF AccessInv, RequestsWell, RequestsOK
<1>2. \A c \in Clients : held[c] \in Token =>
        (Lives(held[c], rows, retired) <=>
             \/ held[c] \in retired
             \/ \E u \in WithEmail(held[c].sub) : rows[u].rt = held[c])
  BY LivesToken
<1>3. AccessTypeOK
  BY <1>1 DEF AccessInv, AccessTypeOK, SessionsOK, ItemsOK, CallsOK, UsersOK, CountersOK
<1>4. IssuedTokenLives
  BY <1>2 DEF AccessInv, IssuedTokenLives, SessionsOK
<1>5. SessionFollowsPassword
  BY <1>3 DEF AccessInv, UsersOK, SessionsRooted, SessionFollowsPassword
<1> QED BY <1>3, <1>4, <1>5

\* A step of one request that leaves the users and the histories alone.
LEMMA QuietStep ==
    ASSUME AccessInv, UNCHANGED <<rows, root, loose, retired>>,
           NEW r \in Requests, NEW q, req' = [req EXCEPT ![r] = q],
           RequestOK(q, rows, loose, retired),
           q.op = "create" /\ q.tbl = "users" =>
              \A s \in Requests : ~(req[s].op = "create" /\ req[s].tbl = "users"
                                    /\ req[s].id = q.id)
    PROVE  RequestsWell'
<1>1. /\ req' = [s \in Requests |-> req'[s]]
      /\ \A s \in Requests : req'[s] = IF s = r THEN q ELSE req[s]
  BY DEF AccessInv, RequestsWell
<1>2. RequestsOK'
  BY <1>1 DEF RequestsOK, AccessInv, RequestsWell
<1>3. CreatesOnce'
  BY <1>1 DEF CreatesOnce, AccessInv, RequestsWell
<1> QED BY <1>1, <1>2, <1>3 DEF RequestsWell

LEMMA UsersStay ==
    ASSUME AccessInv, UNCHANGED <<rows, root, loose, retired, links>>
    PROVE  UsersOK'
  BY DEF AccessInv, UsersOK, SessionsRooted, LinksOK

LEMMA SessionsStay ==
    ASSUME AccessInv, UNCHANGED <<rows, retired, tab, held>>
    PROVE  SessionsOK'
  BY DEF AccessInv, SessionsOK

LEMMA ItemsStay ==
    ASSUME AccessInv, UNCHANGED items
    PROVE  ItemsOK'
  BY DEF AccessInv, ItemsOK

LEMMA CallsStay ==
    ASSUME AccessInv, UNCHANGED <<hits, calls>>
    PROVE  CallsOK'
  BY DEF AccessInv, CallsOK

LEMMA CallsCounted ==
    ASSUME AccessInv, NEW c \in Clients, CountCall(c)
    PROVE  CallsOK'
  BY DEF AccessInv, CallsOK, CountCall, Recent

LEMMA Counters ==
    ASSUME AccessInv, UNCHANGED now, ops' = ops \/ (ops < MaxOps /\ ops' = ops + 1)
    PROVE  CountersOK'
  BY AccessAssumption DEF AccessInv, CountersOK

\* A request that a handler starts: only it, the number of requests and
\* perhaps the limiter change.
LEMMA StartKeeps ==
    ASSUME AccessInv, NEW r \in Requests, NEW c \in Clients, NEW q,
           Free(r), Start(r, q), CountCall(c) \/ UNCHANGED <<hits, calls>>,
           UNCHANGED <<now, rows, items, links, tab, held, root, loose, retired>>,
           RequestOK(q, rows, loose, retired),
           q.op = "create" /\ q.tbl = "users" =>
              \A s \in Requests : ~(req[s].op = "create" /\ req[s].tbl = "users"
                                    /\ req[s].id = q.id)
    PROVE  AccessInv'
<1>1. RequestsWell'
  BY QuietStep DEF Start
<1>2. UsersOK' /\ SessionsOK' /\ ItemsOK' /\ CallsOK'
  BY UsersStay, SessionsStay, ItemsStay, CallsStay, CallsCounted
<1>3. CountersOK'
  BY Counters DEF Free, Start
<1> QED BY <1>1, <1>2, <1>3 DEF AccessInv

\* A call that is counted and answered at once.
LEMMA AnsweredKeeps ==
    ASSUME AccessInv, NEW c \in Clients, CountCall(c), ops < MaxOps, ops' = ops + 1,
           UNCHANGED <<now, rows, items, req, links, tab, held, root, loose, retired>>
    PROVE  AccessInv'
<1>1. RequestsWell'
  BY DEF RequestsWell, RequestsOK, CreatesOnce, AccessInv
<1>2. UsersOK' /\ SessionsOK' /\ ItemsOK' /\ CallsOK'
  BY UsersStay, SessionsStay, ItemsStay, CallsCounted
<1>3. CountersOK'
  BY Counters
<1> QED BY <1>1, <1>2, <1>3 DEF AccessInv

-----------------------------------------------------------------------------
(* The requests the handlers start.                                         *)

LEMMA TokensMade ==
    ASSUME AccessInv, NEW row \in Row
    PROVE  NewAccess(row) \in AccessToken /\ NewRefresh(row) \in Token
<1>1. Effective(row) \in {"none", "manage"}
  BY DEF Effective, Row
<1>2. row.email \in Emails /\ row.role \in Roles /\ now \in 0..MaxTime
  BY DEF Row, AccessInv, CountersOK
<1>3. NewAccess(row) \in AccessToken
  BY <1>1, <1>2 DEF NewAccess, AccessToken
<1>4. NewRefresh(row) \in Token
  BY <1>2 DEF NewRefresh, Token
<1> QED BY <1>3, <1>4

LEMMA PendingFields ==
    ASSUME NEW op, NEW c, NEW tbl, NEW id, NEW set, NEW seen
    PROVE  LET q == Pending(op, c, tbl, id, set, seen)
           IN  /\ q.op = op /\ q.client = c /\ q.tbl = tbl /\ q.id = id
               /\ q.set = set /\ q.seen = seen /\ q.pair = NULL
               /\ tbl = "users" => q.origin = root[id]
  BY DEF Pending

LEMMA NewSessionFields ==
    ASSUME NEW op, NEW c, NEW u
    PROVE  LET q == NewSession(op, c, u)
           IN  /\ q.op = op /\ q.client = c /\ q.tbl = "users" /\ q.id = u
               /\ q.set = [rt |-> NewRefresh(rows[u])] /\ q.seen = rows[u]
               /\ q.pair = [access |-> NewAccess(rows[u]), refresh |-> NewRefresh(rows[u])]
               /\ q.origin = root[u]
  BY DEF NewSession, Pending

\* A sign-in sees the password of now; a renewal is made with a session that
\* goes back to it, or is known not to.
LEMMA SessionStarts ==
    ASSUME AccessInv, NEW u \in Users, rows[u] \in Row, NEW c \in Clients,
           NEW op \in {"login", "refresh"}, op = "refresh" => rows[u].rt # NULL
    PROVE  /\ RequestOK(NewSession(op, c, u), rows, loose, retired)
           /\ NewSession(op, c, u).op = op
<1> DEFINE q == NewSession(op, c, u)
<1>1. /\ q.op = op /\ q.tbl = "users" /\ q.id = u
      /\ q.set = [rt |-> NewRefresh(rows[u])] /\ q.seen = rows[u]
      /\ q.pair = [access |-> NewAccess(rows[u]), refresh |-> NewRefresh(rows[u])]
      /\ q.origin = root[u]
  BY NewSessionFields
<1>2. NewAccess(rows[u]) \in AccessToken /\ NewRefresh(rows[u]) \in Token
  BY TokensMade
<1>3. NewRefresh(rows[u]).sub = rows[u].email
  BY DEF NewRefresh
<1>4. op = "refresh" => root[u] = rows[u].pw \/ u \in loose
  BY NullIsNoRow DEF AccessInv, UsersOK, SessionsRooted
<1> HIDE DEF q
<1>5. SessionRequest(q, rows, loose)
  BY <1>1, <1>2, <1>3, <1>4 DEF SessionRequest, SessionPair
<1>6. RequestOK(q, rows, loose, retired)
  BY <1>5 DEF RequestOK
<1> QED BY <1>1, <1>6 DEF q

\* A change of a user's row that is about to be committed.
LEMMA ChangeStarts ==
    ASSUME AccessInv, NEW u \in Users, rows[u] \in Row, NEW c \in Clients,
           NEW op \in {"logout", "link", "edit", "reset", "perms"},
           NEW set, ColumnsOK(set),
           "rt" \in DOMAIN set => set["rt"] = NULL,
           "pw" \in DOMAIN set =>
             \/ op = "link"
             \/ op \in {"edit", "reset"}
                /\ ("rt" \in DOMAIN set \/ rows[u].rt = NULL)
    PROVE  /\ RequestOK(Pending(op, c, "users", u, set, rows[u]), rows, loose, retired)
           /\ Pending(op, c, "users", u, set, rows[u]).op = op
<1> DEFINE q == Pending(op, c, "users", u, set, rows[u])
<1>1. /\ q.op = op /\ q.tbl = "users" /\ q.id = u
      /\ q.set = set /\ q.seen = rows[u] /\ q.pair = NULL
  BY PendingFields
<1> HIDE DEF q
<1>2. ChangeRequest(q, rows)
  BY <1>1 DEF ChangeRequest
<1>3. RequestOK(q, rows, loose, retired)
  BY <1>2 DEF RequestOK
<1> QED BY <1>1, <1>3 DEF q

\* A request on an API key or allow-list entry.
LEMMA ItemStarts ==
    ASSUME NEW c \in Clients, NEW t \in {"key", "ip"}, NEW id, NEW set, NEW seen,
           NEW op \in {"create", "toggle", "rotate", "delete"},
           op = "create" => set \in Item(Values(t)),
           op \in {"toggle", "rotate"} =>
              /\ DOMAIN set \subseteq {"active", "value"}
              /\ "active" \in DOMAIN set => set["active"] \in BOOLEAN
              /\ "value" \in DOMAIN set => set["value"] \in Values(t)
    PROVE  /\ RequestOK(Pending(op, c, t, id, set, seen), rows, loose, retired)
           /\ Pending(op, c, t, id, set, seen).tbl = t
<1> DEFINE q == Pending(op, c, t, id, set, seen)
<1>1. /\ q.op = op /\ q.tbl = t /\ q.set = set /\ q.pair = NULL
  BY PendingFields
<1> HIDE DEF q
<1>2. ItemRequest(q)
  BY <1>1 DEF ItemRequest
<1>3. RequestOK(q, rows, loose, retired)
  BY <1>2 DEF RequestOK
<1> QED BY <1>1, <1>3 DEF q

-----------------------------------------------------------------------------
(* One lemma per handler.                                                   *)

LEMMA WithEmailRows ==
    ASSUME AccessInv, NEW e, NEW u \in WithEmail(e)
    PROVE  u \in Users /\ rows[u] \in Row /\ rows[u].email = e
  BY DEF WithEmail, AccessInv, UsersOK

LEMMA LoginStep ==
    ASSUME AccessInv, NEW r \in Requests, NEW c \in Clients, NEW e \in Emails,
           NEW p \in 0..MaxOps, Login(r, c, e, p)
    PROVE  AccessInv'
<1>1. /\ Free(r) /\ CountCall(c)
      /\ UNCHANGED <<now, rows, items, links, tab, held, root, loose, retired>>
  BY DEF Login
<1>2. CASE \E u \in WithEmail(e) : Start(r, NewSession("login", c, u))
  <2>1. PICK u \in WithEmail(e) : Start(r, NewSession("login", c, u))
    BY <1>2
  <2>2. u \in Users /\ rows[u] \in Row
    BY WithEmailRows
  <2>3. /\ RequestOK(NewSession("login", c, u), rows, loose, retired)
        /\ NewSession("login", c, u).op = "login"
    BY <2>2, SessionStarts
  <2> QED BY <1>1, <2>1, <2>3, StartKeeps
<1>3. CASE ops' = ops + 1 /\ UNCHANGED req
  BY <1>1, <1>3, AnsweredKeeps DEF Free
<1> QED BY <1>2, <1>3 DEF Login

LEMMA RefreshStep ==
    ASSUME AccessInv, NEW r \in Requests, NEW c \in Clients, Refresh(r, c)
    PROVE  AccessInv'
<1>1. /\ Free(r) /\ CountCall(c)
      /\ UNCHANGED <<now, rows, items, links, tab, held, root, loose, retired>>
  BY DEF Refresh
<1>2. CASE \E u \in WithEmail(held[c].sub) :
              rows[u].rt = held[c] /\ Start(r, NewSession("refresh", c, u))
  <2>1. PICK u \in WithEmail(held[c].sub) :
              rows[u].rt = held[c] /\ Start(r, NewSession("refresh", c, u))
    BY <1>2
  <2>2. u \in Users /\ rows[u] \in Row /\ rows[u].rt # NULL
    BY <2>1, WithEmailRows DEF Refresh
  <2>3. /\ RequestOK(NewSession("refresh", c, u), rows, loose, retired)
        /\ NewSession("refresh", c, u).op = "refresh"
    BY <2>2, SessionStarts
  <2> QED BY <1>1, <2>1, <2>3, StartKeeps
<1>3. CASE ops' = ops + 1 /\ UNCHANGED req
  BY <1>1, <1>3, AnsweredKeeps DEF Free
<1> QED BY <1>2, <1>3 DEF Refresh

LEMMA LogoutStep ==
    ASSUME AccessInv, NEW r \in Requests, NEW c \in Clients, Logout(r, c)
    PROVE  AccessInv'
<1> DEFINE set(u) == Changed([rows[u] EXCEPT !.rt = NULL], rows[u])
<1>1. /\ Free(r) /\ UNCHANGED <<hits, calls>>
      /\ UNCHANGED <<now, rows, items, links, tab, held, root, loose, retired>>
  BY DEF Logout, history
<1>2. PICK u \in CurrentUser(tab[c]) : Start(r, Pending("logout", c, "users", u, set(u), rows[u]))
  BY DEF Logout
<1>3. u \in Users /\ rows[u] \in Row
  BY WithEmailRows DEF CurrentUser
<1>4. [rows[u] EXCEPT !.rt = NULL] \in Row
  BY <1>3 DEF Row
<1>5. ColumnsOK(set(u))
  BY <1>3, <1>4, ChangedColumns
<1>6. ("rt" \in DOMAIN set(u) => set(u)["rt"] = NULL) /\ "pw" \notin DOMAIN set(u)
  BY <1>3 DEF Changed, Row
<1> HIDE DEF set
<1>7. /\ RequestOK(Pending("logout", c, "users", u, set(u), rows[u]), rows, loose, retired)
      /\ Pending("logout", c, "users", u, set(u), rows[u]).op = "logout"
  BY <1>3, <1>5, <1>6, ChangeStarts
<1> QED BY <1>1, <1>2, <1>7, StartKeeps

LEMMA ForgotStep ==
    ASSUME AccessInv, NEW c \in Clients, NEW e \in Emails, Forgot(c, e)
    PROVE  AccessInv'
<1>1. RequestsWell'
  BY DEF RequestsWell, RequestsOK, CreatesOnce, AccessInv, Forgot
<1>2. SessionsOK' /\ ItemsOK' /\ CallsOK'
  BY SessionsStay, ItemsStay, CallsCounted DEF Forgot
<1>3. CountersOK'
  BY Counters DEF Forgot
<1>4. LinksOK'
  <2>1. CASE UNCHANGED links
    BY <2>1 DEF Forgot, LinksOK, AccessInv, UsersOK
  <2>2. CASE \E u \in WithEmail(e) : links' = links \cup {[user |-> u, at |-> now]}
    <3>1. PICK u \in WithEmail(e) : links' = links \cup {[user |-> u, at |-> now]}
      BY <2>2
    <3>2. u \in Users /\ rows[u] \in Row
      BY WithEmailRows
    <3> QED BY <3>1, <3>2 DEF Forgot, LinksOK, AccessInv, UsersOK
  <2> QED BY <2>1, <2>2 DEF Forgot
<1>5. UsersOK'
  BY <1>4 DEF UsersOK, SessionsRooted, AccessInv, Forgot
<1> QED BY <1>1, <1>2, <1>3, <1>5 DEF AccessInv

LEMMA ResetByLinkStep ==
    ASSUME AccessInv, NEW r \in Requests, NEW c \in Clients, NEW l \in links,
           ResetByLink(r, c, l)
    PROVE  AccessInv'
<1> DEFINE set == [pw |-> ops + 1]
           q == Pending("link", c, "users", l.user, set, rows[l.user])
<1>1. /\ Free(r) /\ CountCall(c) /\ Start(r, q)
      /\ UNCHANGED <<now, rows, items, links, tab, held, root, loose, retired>>
  BY DEF ResetByLink
<1>2. l.user \in Users /\ rows[l.user] \in Row
  BY DEF AccessInv, UsersOK, LinksOK
<1>3. ops + 1 \in 0..MaxOps
  BY <1>1, AccessAssumption DEF Free, AccessInv, CountersOK
<1>4. ColumnsOK(set) /\ "rt" \notin DOMAIN set
  BY <1>3 DEF ColumnsOK, Columns
<1> HIDE DEF set
<1>5. RequestOK(q, rows, loose, retired) /\ q.op = "link"
  BY <1>2, <1>4, ChangeStarts
<1> QED BY <1>1, <1>5, StartKeeps

LEMMA RefusedStep ==
    ASSUME AccessInv, NEW r \in Requests, NEW c \in Clients,
           NEW t \in {"users", "key", "ip"}, Refused(r, c, t)
    PROVE  AccessInv'
<1> DEFINE q == Answer(c, Verdict(c, t), NULL)
<1>1. /\ Free(r) /\ Start(r, q) /\ UNCHANGED <<hits, calls>>
      /\ UNCHANGED <<now, rows, items, links, tab, held, root, loose, retired>>
  BY DEF Refused, history
<1>2. RequestOK(q, rows, loose, retired) /\ q.op \in {"idle", "answer"}
  BY DEF Answer, Idle, RequestOK, AnswerOK
<1> HIDE DEF q
<1> QED BY <1>1, <1>2, StartKeeps

\* What every call of the portal that goes through leaves alone.
LEMMA PermittedKeeps ==
    ASSUME NEW r, NEW c, NEW t, Permitted(r, c, t)
    PROVE  /\ Free(r) /\ UNCHANGED <<hits, calls>>
           /\ UNCHANGED <<now, rows, items, links, tab, held, root, loose, retired>>
  BY DEF Permitted, history

LEMMA CreateUserStep ==
    ASSUME AccessInv, NEW r \in Requests, NEW c \in Clients, NEW u \in Users,
           NEW e \in Emails, NEW role \in Roles, CreateUser(r, c, u, e, role)
    PROVE  AccessInv'
<1> DEFINE new == [email |-> e, role |-> role, perms |-> NULL, pw |-> ops + 1, rt |-> NULL]
           q == Pending("create", c, "users", u, new, NULL)
<1>1. /\ Free(r) /\ Start(r, q) /\ UNCHANGED <<hits, calls>>
      /\ UNCHANGED <<now, rows, items, links, tab, held, root, loose, retired>>
  BY PermittedKeeps DEF CreateUser
<1>2. rows[u] = NULL /\ ~Creating("users", u)
  BY DEF CreateUser
<1>3. ops + 1 \in 0..MaxOps
  BY <1>1, AccessAssumption DEF Free, AccessInv, CountersOK
<1>4. new \in Row /\ new.rt = NULL
  BY <1>3 DEF Row
<1>5. q.op = "create" /\ q.tbl = "users" /\ q.id = u /\ q.set = new /\ q.pair = NULL
  BY PendingFields
<1> HIDE DEF q, new
<1>6. CreateRequest(q, rows)
  BY <1>2, <1>4, <1>5 DEF CreateRequest
<1>7. RequestOK(q, rows, loose, retired)
  BY <1>6 DEF RequestOK
<1>8. \A s \in Requests : ~(req[s].op = "create" /\ req[s].tbl = "users" /\ req[s].id = q.id)
  BY <1>2, <1>5 DEF Creating
<1> QED BY <1>1, <1>7, <1>8, StartKeeps

LEMMA UpdateUserStep ==
    ASSUME AccessInv, NEW r \in Requests, NEW c \in Clients, NEW u \in Users,
           NEW e \in Emails \cup {NULL}, NEW role \in Roles \cup {NULL}, NEW pw,
           UpdateUser(r, c, u, e, role, pw)
    PROVE  AccessInv'
<1> DEFINE new == Edited(rows[u], e, role, pw)
           set == Changed(new, rows[u])
           q == Pending("edit", c, "users", u, set, rows[u])
<1>1. /\ Free(r) /\ Start(r, q) /\ UNCHANGED <<hits, calls>>
      /\ UNCHANGED <<now, rows, items, links, tab, held, root, loose, retired>>
  BY PermittedKeeps DEF UpdateUser
<1>2. rows[u] \in Row
  BY DEF UpdateUser, AccessInv, UsersOK
<1>3. ops + 1 \in 0..MaxOps
  BY <1>1, AccessAssumption DEF Free, AccessInv, CountersOK
<1>4. pw \in (0..MaxOps) \cup {NULL}
  BY <1>3 DEF UpdateUser
<1>5. /\ new \in Row
      /\ new.pw = IF pw = NULL THEN rows[u].pw ELSE pw
      /\ new.rt = IF pw = NULL THEN rows[u].rt ELSE NULL
  BY <1>2, <1>4, EditedRow
<1> HIDE DEF new
<1>6. ColumnsOK(set)
  BY <1>2, <1>5, ChangedColumns
<1>7. /\ "rt" \in DOMAIN set => set["rt"] = NULL
      /\ "pw" \in DOMAIN set => "rt" \in DOMAIN set \/ rows[u].rt = NULL
  BY <1>2, <1>5 DEF Changed, Row
<1> HIDE DEF set
<1>8. RequestOK(q, rows, loose, retired) /\ q.op = "edit"
  BY <1>2, <1>6, <1>7, ChangeStarts
<1> QED BY <1>1, <1>8, StartKeeps

LEMMA AdminResetStep ==
    ASSUME AccessInv, NEW r \in Requests, NEW c \in Clients, NEW u \in Users,
           AdminReset(r, c, u)
    PROVE  AccessInv'
<1> DEFINE new == ResetRow(rows[u], ops + 1)
           set == Changed(new, rows[u])
           q == Pending("reset", c, "users", u, set, rows[u])
<1>1. /\ Free(r) /\ Start(r, q) /\ UNCHANGED <<hits, calls>>
      /\ UNCHANGED <<now, rows, items, links, tab, held, root, loose, retired>>
  BY PermittedKeeps DEF AdminReset
<1>2. rows[u] \in Row
  BY DEF AdminReset, AccessInv, UsersOK
<1>3. ops + 1 \in 0..MaxOps
  BY <1>1, AccessAssumption DEF Free, AccessInv, CountersOK
<1>4. new \in Row /\ new.rt = NULL
  BY <1>2, <1>3 DEF ResetRow, Row
<1> HIDE DEF new
<1>5. ColumnsOK(set)
  BY <1>2, <1>4, ChangedColumns
<1>6. /\ "rt" \in DOMAIN set => set["rt"] = NULL
      /\ "rt" \in DOMAIN set \/ rows[u].rt = NULL
  BY <1>2, <1>4 DEF Changed, Row
<1> HIDE DEF set
<1>7. RequestOK(q, rows, loose, retired) /\ q.op = "reset"
  BY <1>2, <1>5, <1>6, ChangeStarts
<1> QED BY <1>1, <1>7, StartKeeps

LEMMA SetPermissionsStep ==
    ASSUME AccessInv, NEW r \in Requests, NEW c \in Clients, NEW u \in Users,
           NEW level \in {"none", "manage"}, SetPermissions(r, c, u, level)
    PROVE  AccessInv'
<1> DEFINE new == [rows[u] EXCEPT !.perms = level]
           set == Changed(new, rows[u])
           q == Pending("perms", c, "users", u, set, rows[u])
<1>1. /\ Free(r) /\ Start(r, q) /\ UNCHANGED <<hits, calls>>
      /\ UNCHANGED <<now, rows, items, links, tab, held, root, loose, retired>>
  BY PermittedKeeps DEF SetPermissions
<1>2. rows[u] \in Row
  BY DEF SetPermissions, AccessInv, UsersOK
<1>3. new \in Row /\ new.rt = rows[u].rt /\ new.pw = rows[u].pw
  BY <1>2 DEF Row
<1> HIDE DEF new
<1>4. ColumnsOK(set)
  BY <1>2, <1>3, ChangedColumns
<1>5. "rt" \notin DOMAIN set /\ "pw" \notin DOMAIN set
  BY <1>2, <1>3 DEF Changed, Row
<1> HIDE DEF set
<1>6. RequestOK(q, rows, loose, retired) /\ q.op = "perms"
  BY <1>2, <1>4, <1>5, ChangeStarts
<1> QED BY <1>1, <1>6, StartKeeps

LEMMA CreateItemStep ==
    ASSUME AccessInv, NEW r \in Requests, NEW c \in Clients, NEW t \in {"key", "ip"},
           NEW v, v \in Values(t), CreateItem(r, c, t, v)
    PROVE  AccessInv'
<1> DEFINE new == [id |-> ops, active |-> TRUE, value |-> v]
           q == Pending("create", c, t, ops, new, NULL)
<1>1. /\ Free(r) /\ Start(r, q) /\ UNCHANGED <<hits, calls>>
      /\ UNCHANGED <<now, rows, items, links, tab, held, root, loose, retired>>
  BY PermittedKeeps DEF CreateItem
<1>2. new \in Item(Values(t))
  BY DEF Item, AccessInv, CountersOK
<1> HIDE DEF new
<1>3. RequestOK(q, rows, loose, retired) /\ q.tbl = t
  BY <1>2, ItemStarts
<1> QED BY <1>1, <1>3, StartKeeps

LEMMA ToggleItemStep ==
    ASSUME AccessInv, NEW r \in Requests, NEW c \in Clients, NEW t \in {"key", "ip"},
           ToggleItem(r, c, t)
    PROVE  AccessInv'
<1> DEFINE set == [active |-> ~items[t].active]
           q == Pending("toggle", c, t, items[t].id, set, items[t])
<1>1. /\ Free(r) /\ Start(r, q) /\ UNCHANGED <<hits, calls>>
      /\ UNCHANGED <<now, rows, items, links, tab, held, root, loose, retired>>
  BY PermittedKeeps DEF ToggleItem
<1>2. DOMAIN set = {"active"} /\ set["active"] \in BOOLEAN
  OBVIOUS
<1> HIDE DEF set
<1>3. RequestOK(q, rows, loose, retired) /\ q.tbl = t
  BY <1>2, ItemStarts
<1> QED BY <1>1, <1>3, StartKeeps

LEMMA RotateKeyStep ==
    ASSUME AccessInv, NEW r \in Requests, NEW c \in Clients, RotateKey(r, c)
    PROVE  AccessInv'
<1> DEFINE set == [value |-> ops]
           q == Pending("rotate", c, "key", items["key"].id, set, items["key"])
<1>1. /\ Free(r) /\ Start(r, q) /\ UNCHANGED <<hits, calls>>
      /\ UNCHANGED <<now, rows, items, links, tab, held, root, loose, retired>>
  BY PermittedKeeps DEF RotateKey
<1>2. DOMAIN set = {"value"} /\ set["value"] \in Values("key")
  BY DEF Values, AccessInv, CountersOK
<1> HIDE DEF set
<1>3. RequestOK(q, rows, loose, retired) /\ q.tbl = "key"
  BY <1>2, ItemStarts
<1> QED BY <1>1, <1>3, StartKeeps

LEMMA DeleteItemStep ==
    ASSUME AccessInv, NEW r \in Requests, NEW c \in Clients, NEW t \in {"key", "ip"},
           DeleteItem(r, c, t)
    PROVE  AccessInv'
<1> DEFINE set == [f \in {} |-> NULL]
           q == Pending("delete", c, t, items[t].id, set, items[t])
<1>1. /\ Free(r) /\ Start(r, q) /\ UNCHANGED <<hits, calls>>
      /\ UNCHANGED <<now, rows, items, links, tab, held, root, loose, retired>>
  BY PermittedKeeps DEF DeleteItem
<1> HIDE DEF set
<1>2. RequestOK(q, rows, loose, retired) /\ q.tbl = t
  BY ItemStarts
<1> QED BY <1>1, <1>2, StartKeeps

-----------------------------------------------------------------------------
(* Commits and answers.                                                     *)

\* What a commit on the row of user u has to respect; w is the new row and a
\* what the request becomes.
LEMMA CommitKeeps ==
    ASSUME AccessInv, NEW r \in Requests, NEW u \in Users, NEW w \in Row, NEW a,
           rows' = [rows EXCEPT ![u] = w],
           WithEmail(w.email) \subseteq {u},
           retired \subseteq retired',
           \A t \in Token : Lives(t, rows, retired) => Lives(t, rows', retired'),
           root' = [v \in Users |-> root'[v]],
           w.rt # NULL => root'[u] = w.pw \/ u \in loose',
           \A v \in Users : v # u => root'[v] = root[v] /\ (v \in loose' <=> v \in loose),
           \A s \in Requests \ {r} : /\ SessionRequest(req[s], rows, loose) /\ req[s].id = u =>
                                          /\ u \in loose => u \in loose'
                                          /\ w.pw = rows[u].pw \/ u \in loose'
                                     /\ CreateRequest(req[s], rows) => req[s].id # u,
           req' = [req EXCEPT ![r] = a], a.op \in {"idle", "answer"},
           RequestOK(a, rows', loose', retired'),
           UNCHANGED <<now, items, hits, links, tab, held, ops, calls>>
    PROVE  AccessInv'
<1>1. /\ rows' \in [Users -> Row \cup {NULL}]
      /\ \A v \in Users : rows'[v] = IF v = u THEN w ELSE rows[v]
      /\ \A v \in Users : rows[v] \in Row => rows'[v] \in Row
  BY DEF AccessInv, UsersOK
<1>2. ItemsOK' /\ CallsOK'
  BY ItemsStay, CallsStay
<1>3. CountersOK'
  BY Counters
<1>4. SessionsOK'
  BY DEF AccessInv, SessionsOK
<1>5. /\ req' = [s \in Requests |-> req'[s]]
      /\ \A s \in Requests : req'[s] = IF s = r THEN a ELSE req[s]
  BY DEF AccessInv, RequestsWell
<1>6. ASSUME NEW s \in Requests, s # r
      PROVE  RequestOK(req[s], rows', loose', retired')
  <2>1. RequestOK(req[s], rows, loose, retired)
    BY DEF AccessInv, RequestsWell, RequestsOK
  <2>2. CreateRequest(req[s], rows) => rows'[req[s].id] = NULL
    BY <1>1, <1>6 DEF CreateRequest
  <2>3. SessionRequest(req[s], rows, loose) =>
              /\ req[s].id \in loose => req[s].id \in loose'
              /\ rows'[req[s].id].pw = rows[req[s].id].pw \/ req[s].id \in loose'
    BY <1>1, <1>6 DEF SessionRequest
  <2> QED BY ONLY <1>1, <2>1, <2>2, <2>3, RequestStays,
                  \A t \in Token : Lives(t, rows, retired) => Lives(t, rows', retired')
<1>7. RequestsOK'
  BY <1>5, <1>6 DEF RequestsOK
<1>8. CreatesOnce'
  BY <1>5 DEF CreatesOnce, AccessInv, RequestsWell
<1>9. \A x, y \in Users : rows'[x] # NULL /\ rows'[y] # NULL
         /\ rows'[x].email = rows'[y].email => x = y
  BY <1>1 DEF WithEmail, AccessInv, UsersOK
<1>10. SessionsRooted'
  BY <1>1 DEF SessionsRooted, AccessInv, UsersOK
<1>11. LinksOK'
  BY <1>1 DEF LinksOK, AccessInv, UsersOK
<1>12. UsersOK'
  BY <1>1, <1>9, <1>10, <1>11 DEF UsersOK
<1>13. RequestsWell'
  BY <1>5, <1>7, <1>8 DEF RequestsWell
<1> QED BY <1>2, <1>3, <1>4, <1>12, <1>13 DEF AccessInv

\* A token of a row survives a commit that keeps the row's token and address,
\* or puts the token it replaces among the retired ones.
LEMMA TokensLive ==
    ASSUME AccessInv, NEW u \in Users, NEW w,
           rows' = [rows EXCEPT ![u] = w],
           w # NULL,
           retired \subseteq retired',
           \/ rows[u] = NULL
           \/ w.rt = rows[u].rt /\ w.email = rows[u].email
           \/ {rows[u].rt} \ {NULL} \subseteq retired'
    PROVE  \A t \in Token : Lives(t, rows, retired) => Lives(t, rows', retired')
<1>1. \A v \in Users : rows'[v] = IF v = u THEN w ELSE rows[v]
  BY DEF AccessInv, UsersOK
<1>2. NULL \notin Token
  BY AccessAssumption
<1> QED BY <1>1, <1>2 DEF Lives

\* What the request becomes with its answer.
LEMMA AnswerIs ==
    ASSUME NEW c, NEW code \in {200, 500}, NEW pair, NEW R, NEW L, NEW D,
           \/ pair = NULL
           \/ pair \in SessionPair /\ Lives(pair.refresh, R, D)
    PROVE  /\ Answer(c, code, pair).op \in {"idle", "answer"}
           /\ RequestOK(Answer(c, code, pair), R, L, D)
  BY DEF Answer, Idle, RequestOK, AnswerOK

\* What every commit on the users that succeeds does.
LEMMA CommitParts ==
    ASSUME AccessInv, NEW r \in Requests, CommitUser(r), EmailFree(req[r])
    PROVE  /\ rows' = [rows EXCEPT ![req[r].id] =
                          IF req[r].op = "create" THEN req[r].set
                          ELSE Write(rows[req[r].id], req[r])]
           /\ Remember(r, req[r])
           /\ req' = [req EXCEPT ![r] = Answer(req[r].client, 200, req[r].pair)]
           /\ UNCHANGED <<now, items, hits, links, tab, held, ops, calls>>
<1>1. Reply(r, 200)
  BY DEF CommitUser
<1>2. req' = [req EXCEPT ![r] = Answer(req[r].client, 200, req[r].pair)]
  BY <1>1 DEF Reply, AccessInv, RequestsWell
<1>3. Remember(r, req[r])
  BY DEF CommitUser
<1>4. UNCHANGED <<now, items, hits, links, tab, held, ops, calls>>
  BY <1>3 DEF CommitUser, Remember
<1>5. rows' = [rows EXCEPT ![req[r].id] =
                          IF req[r].op = "create" THEN req[r].set
                          ELSE Write(rows[req[r].id], req[r])]
  BY DEF CommitUser
<1> QED BY <1>2, <1>3, <1>4, <1>5

LEMMA CommitCreate ==
    ASSUME AccessInv, NEW r \in Requests, CommitUser(r), EmailFree(req[r]),
           CreateRequest(req[r], rows)
    PROVE  AccessInv'
<1> DEFINE q == req[r]  u == q.id  w == q.set  a == Answer(q.client, 200, q.pair)
<1>1. /\ rows' = [rows EXCEPT ![u] = w] /\ Remember(r, q)
      /\ req' = [req EXCEPT ![r] = a]
      /\ UNCHANGED <<now, items, hits, links, tab, held, ops, calls>>
  BY CommitParts DEF CreateRequest
<1>2. u \in Users /\ w \in Row /\ w.rt = NULL /\ rows[u] = NULL /\ q.pair = NULL
      /\ q.op = "create" /\ q.tbl = "users"
  BY DEF CreateRequest
<1>3. /\ root' = root /\ loose' = loose /\ retired \subseteq retired'
  BY <1>1, <1>2 DEF Remember
<1>4. WithEmail(w.email) \subseteq {u}
  BY <1>2 DEF EmailFree, Row
<1>5. \A t \in Token : Lives(t, rows, retired) => Lives(t, rows', retired')
  BY <1>1, <1>2, <1>3, TokensLive, NullIsNoRow
<1>6. \A s \in Requests \ {r} : /\ SessionRequest(req[s], rows, loose) => req[s].id # u
                                /\ CreateRequest(req[s], rows) => req[s].id # u
  BY <1>2, NullIsNoRow DEF SessionRequest, CreateRequest, CreatesOnce, AccessInv, RequestsWell
<1>7. a.op \in {"idle", "answer"} /\ RequestOK(a, rows', loose', retired')
  BY <1>2, AnswerIs
<1>8. root' = [v \in Users |-> root'[v]]
  BY <1>3 DEF AccessInv, UsersOK
<1> HIDE DEF a, q, u, w
<1> QED BY ONLY AccessInv, r \in Requests, <1>1, <1>2, <1>3, <1>4, <1>5, <1>6, <1>7, <1>8, CommitKeeps

LEMMA CommitSession ==
    ASSUME AccessInv, NEW r \in Requests, CommitUser(r), EmailFree(req[r]),
           SessionRequest(req[r], rows, loose)
    PROVE  AccessInv'
<1> DEFINE q == req[r]  u == q.id  w == Write(rows[u], q)
           a == Answer(q.client, 200, q.pair)
<1>1. /\ rows' = [rows EXCEPT ![u] = w] /\ Remember(r, q)
      /\ req' = [req EXCEPT ![r] = a]
      /\ UNCHANGED <<now, items, hits, links, tab, held, ops, calls>>
  BY CommitParts DEF SessionRequest
<1>2. /\ u \in Users /\ rows[u] \in Row /\ q.op \in {"login", "refresh"}
      /\ q.set = [rt |-> q.pair.refresh] /\ q.pair \in SessionPair
      /\ q.pair.refresh \in Token /\ q.pair.refresh.sub = q.seen.email
      /\ q.op = "login" => q.seen.pw = rows[u].pw \/ u \in loose
      /\ q.op = "refresh" => q.origin = rows[u].pw \/ u \in loose
  BY DEF SessionRequest, SessionPair
<1>3. DOMAIN q.set = {"rt"} /\ q.set["rt"] = q.pair.refresh
  BY <1>2
<1>4. ColumnsOK(q.set)
  BY <1>2, <1>3 DEF ColumnsOK, Columns
<1>5. /\ w \in Row /\ w.rt = q.pair.refresh /\ w.pw = rows[u].pw /\ w.email = rows[u].email
  BY <1>2, <1>3, <1>4, UpdatedRow, UpdatedFields DEF Write, Columns
<1>6. /\ retired \subseteq retired' /\ {rows[u].rt} \ {NULL} \subseteq retired'
      /\ q.pair # NULL /\ q.seen.email # rows[u].email => q.pair.refresh \in retired'
  BY <1>1, <1>2, <1>3 DEF Remember
<1>7. \A v \in Users : rows'[v] = IF v = u THEN w ELSE rows[v]
  BY <1>1 DEF AccessInv, UsersOK
<1>8. w # NULL /\ WithEmail(w.email) \subseteq {u}
  BY <1>2, <1>5, NullIsNoRow DEF WithEmail, AccessInv, UsersOK
<1>9. \A t \in Token : Lives(t, rows, retired) => Lives(t, rows', retired')
  BY ONLY AccessInv, <1>1, <1>2, <1>6, <1>8, TokensLive
<1>10. q.pair = NULL \/ Lives(q.pair.refresh, rows', retired')
  BY <1>2, <1>5, <1>6, <1>7, <1>8 DEF Lives
<1>11. a.op \in {"idle", "answer"} /\ RequestOK(a, rows', loose', retired')
  BY <1>2, <1>10, AnswerIs
<1>12. /\ root' = [root EXCEPT ![u] = IF q.op = "login" THEN q.seen.pw ELSE q.origin]
       /\ loose' \in {loose, loose \ {u}}
       /\ loose' = loose \/ (~Renewing(r, u) /\ q.op = "login" /\ q.seen.pw = rows[u].pw)
  BY <1>1, <1>2 DEF Remember
<1>13. /\ root' = [v \in Users |-> root'[v]]
       /\ \A v \in Users : root'[v] = IF v # u THEN root[v]
                             ELSE IF q.op = "login" THEN q.seen.pw ELSE q.origin
  BY <1>12 DEF AccessInv, UsersOK
<1>14. \A v \in Users : v # u => root'[v] = root[v] /\ (v \in loose' <=> v \in loose)
  BY <1>12, <1>13
<1>15. root'[u] = w.pw \/ u \in loose'
  BY <1>2, <1>5, <1>12, <1>13
<1>16. \A s \in Requests \ {r} :
          /\ SessionRequest(req[s], rows, loose) /\ req[s].id = u =>
               /\ u \in loose => u \in loose'
               /\ w.pw = rows[u].pw \/ u \in loose'
          /\ CreateRequest(req[s], rows) => req[s].id # u
  BY <1>2, <1>5, <1>12, NullIsNoRow DEF SessionRequest, CreateRequest, Renewing
<1> HIDE DEF a, q, u, w
<1> QED BY ONLY AccessInv, r \in Requests, <1>1, <1>2, <1>5, <1>6, <1>8, <1>9, <1>11, <1>13,
               <1>14, <1>15, <1>16, CommitKeeps

LEMMA CommitChange ==
    ASSUME AccessInv, NEW r \in Requests, CommitUser(r), EmailFree(req[r]),
           ChangeRequest(req[r], rows)
    PROVE  AccessInv'
<1> DEFINE q == req[r]  u == q.id  w == Write(rows[u], q)
           a == Answer(q.client, 200, q.pair)
<1>1. /\ rows' = [rows EXCEPT ![u] = w] /\ Remember(r, q)
      /\ req' = [req EXCEPT ![r] = a]
      /\ UNCHANGED <<now, items, hits, links, tab, held, ops, calls>>
  BY CommitParts DEF ChangeRequest
<1>2. /\ u \in Users /\ rows[u] \in Row
      /\ q.op \in {"logout", "link", "edit", "reset", "perms"}
      /\ q.pair = NULL /\ ColumnsOK(q.set) /\ q.seen \in Row
      /\ "rt" \in DOMAIN q.set => q.set["rt"] = NULL
      /\ "pw" \in DOMAIN q.set =>
          \/ q.op = "link"
          \/ q.op \in {"edit", "reset"} /\ ("rt" \in DOMAIN q.set \/ q.seen.rt = NULL)
  BY DEF ChangeRequest
<1>3. /\ w \in Row
      /\ w.rt = IF "rt" \in DOMAIN q.set THEN NULL ELSE rows[u].rt
      /\ w.pw = IF "pw" \in DOMAIN q.set THEN q.set["pw"] ELSE rows[u].pw
      /\ w.email = IF "email" \in DOMAIN q.set THEN q.set["email"] ELSE rows[u].email
  BY <1>2, UpdatedRow, UpdatedFields DEF Write, Columns
<1>4. /\ retired \subseteq retired'
      /\ "rt" \in DOMAIN q.set \/ "email" \in DOMAIN q.set =>
            {rows[u].rt} \ {NULL} \subseteq retired'
  BY <1>1, <1>2 DEF Remember
<1>5. w # NULL /\ WithEmail(w.email) \subseteq {u}
  BY <1>2, <1>3, NullIsNoRow DEF EmailFree, WithEmail, AccessInv, UsersOK
<1>6. \A t \in Token : Lives(t, rows, retired) => Lives(t, rows', retired')
  <2>1. \/ w.rt = rows[u].rt /\ w.email = rows[u].email
        \/ {rows[u].rt} \ {NULL} \subseteq retired'
    BY <1>3, <1>4
  <2> QED BY ONLY AccessInv, <1>1, <1>2, <1>4, <1>5, <2>1, TokensLive
<1>7. a.op \in {"idle", "answer"} /\ RequestOK(a, rows', loose', retired')
  BY <1>2, AnswerIs
<1>8. /\ root' = root /\ loose' \in {loose, loose \cup {u}}
      /\ "pw" \in DOMAIN q.set /\ q.op # "link" /\ rows[u].rt # q.seen.rt => u \in loose'
      /\ "pw" \in DOMAIN q.set /\ q.op # "link" /\ Renewing(r, u) => u \in loose'
      /\ q.op = "link" => u \in loose'
  BY <1>1, <1>2 DEF Remember
<1>9. /\ root' = [v \in Users |-> root'[v]]
      /\ \A v \in Users : v # u => root'[v] = root[v] /\ (v \in loose' <=> v \in loose)
      /\ u \in loose => u \in loose'
  BY <1>8 DEF AccessInv, UsersOK
<1>10. w.rt # NULL => root'[u] = w.pw \/ u \in loose'
  <2>1. rows[u].rt # NULL => root[u] = rows[u].pw \/ u \in loose
    BY <1>2, NullIsNoRow DEF AccessInv, UsersOK, SessionsRooted
  <2> QED BY <1>2, <1>3, <1>8, <1>9, <2>1
<1>11. \A s \in Requests \ {r} :
          /\ SessionRequest(req[s], rows, loose) /\ req[s].id = u =>
               /\ u \in loose => u \in loose'
               /\ w.pw = rows[u].pw \/ u \in loose'
          /\ CreateRequest(req[s], rows) => req[s].id # u
  BY <1>2, <1>3, <1>8, <1>9, NullIsNoRow DEF SessionRequest, CreateRequest, Renewing
<1> HIDE DEF a, q, u, w
<1> QED BY ONLY AccessInv, r \in Requests, <1>1, <1>2, <1>3, <1>4, <1>5, <1>6, <1>7, <1>9,
               <1>10, <1>11, CommitKeeps

\* A worker's request becomes an answer and nothing else of the users changes.
LEMMA AnswerKeeps ==
    ASSUME AccessInv, NEW r \in Requests, NEW a, req' = [req EXCEPT ![r] = a],
           a.op \in {"idle", "answer"}, RequestOK(a, rows, loose, retired),
           ItemsOK',
           UNCHANGED <<now, rows, hits, links, tab, held, ops, calls, root, loose, retired>>
    PROVE  AccessInv'
<1>1. RequestsWell'
  BY QuietStep
<1>2. UsersOK' /\ SessionsOK' /\ CallsOK'
  BY UsersStay, SessionsStay, CallsStay
<1>3. CountersOK'
  BY Counters
<1> QED BY <1>1, <1>2, <1>3 DEF AccessInv

LEMMA CommitUserStep ==
    ASSUME AccessInv, NEW r \in Requests, CommitUser(r)
    PROVE  AccessInv'
<1>1. CASE EmailFree(req[r])
  <2>1. RequestOK(req[r], rows, loose, retired)
    BY DEF AccessInv, RequestsWell, RequestsOK
  <2>2. \/ SessionRequest(req[r], rows, loose)
        \/ ChangeRequest(req[r], rows)
        \/ CreateRequest(req[r], rows)
    BY <2>1, OpOfRequest DEF CommitUser
  <2> QED BY <1>1, <2>2, CommitSession, CommitChange, CommitCreate
<1>2. CASE ~EmailFree(req[r])
  <2>1. Reply(r, 500) /\ UNCHANGED <<rows, history>>
        /\ UNCHANGED <<now, items, hits, links, tab, held, ops>>
    BY <1>2 DEF CommitUser
  <2>2. req' = [req EXCEPT ![r] = Answer(req[r].client, 500, NULL)]
    BY <2>1 DEF Reply, AccessInv, RequestsWell
  <2>3. /\ Answer(req[r].client, 500, NULL).op \in {"idle", "answer"}
        /\ RequestOK(Answer(req[r].client, 500, NULL), rows, loose, retired)
    BY AnswerIs
  <2>4. ItemsOK'
    BY <2>1, ItemsStay
  <2> QED BY <2>1, <2>2, <2>3, <2>4, AnswerKeeps DEF history
<1> QED BY <1>1, <1>2

LEMMA CommitItemStep ==
    ASSUME AccessInv, NEW r \in Requests, CommitItem(r)
    PROVE  AccessInv'
<1> DEFINE q == req[r]  t == q.tbl  cur == items[t]
<1>1. RequestOK(q, rows, loose, retired)
  BY DEF AccessInv, RequestsWell, RequestsOK
<1>2. t \in {"key", "ip"} /\ q.op \notin {"idle", "answer"} /\ t # "users"
  BY DEF CommitItem
<1>3. ItemRequest(q)
  BY <1>1, <1>2, OpOfRequest
<1>4. \E code \in {200, 500} : Reply(r, code)
  BY DEF CommitItem
<1>5. PICK code \in {200, 500} :
         req' = [req EXCEPT ![r] = Answer(q.client, code, NULL)]
  BY <1>3, <1>4 DEF Reply, AccessInv, RequestsWell, ItemRequest
<1>6. UNCHANGED <<now, rows, hits, links, tab, held, ops, calls, root, loose, retired>>
  BY DEF CommitItem, history
<1>7. /\ Answer(q.client, code, NULL).op \in {"idle", "answer"}
      /\ RequestOK(Answer(q.client, code, NULL), rows, loose, retired)
  BY AnswerIs
<1>8. \A k \in {"key", "ip"} : items[k] \in Item(Values(k)) \cup {NULL}
  BY DEF AccessInv, ItemsOK, Values
<1>9. \/ items' = items
      \/ items' = [items EXCEPT ![t] = NULL]
      \/ q.op = "create" /\ items' = [items EXCEPT ![t] = q.set]
      \/ /\ q.op \in {"toggle", "rotate"} /\ cur # NULL
         /\ items' = [items EXCEPT ![t] = Updated(cur, q.set)]
  <2>1. CASE q.op = "create"
    BY <2>1 DEF CommitItem
  <2>2. CASE q.op = "delete"
    BY <2>2 DEF CommitItem
  <2>3. CASE q.op \in {"toggle", "rotate"}
    BY <2>3 DEF CommitItem
  <2> QED BY <1>3, <2>1, <2>2, <2>3 DEF ItemRequest
<1>10. cur # NULL /\ q.op \in {"toggle", "rotate"} => Updated(cur, q.set) \in Item(Values(t))
  <2> SUFFICES ASSUME cur # NULL, q.op \in {"toggle", "rotate"}
               PROVE  Updated(cur, q.set) \in Item(Values(t))
    OBVIOUS
  <2>1. cur \in Item(Values(t))
    BY <1>2, <1>8
  <2>2. /\ DOMAIN q.set \subseteq {"active", "value"}
        /\ "active" \in DOMAIN q.set => q.set["active"] \in BOOLEAN
        /\ "value" \in DOMAIN q.set => q.set["value"] \in Values(t)
    BY <1>3 DEF ItemRequest
  <2>3. DOMAIN cur = {"id", "active", "value"} /\ cur["id"] \in 0..MaxOps
        /\ cur["active"] \in BOOLEAN /\ cur["value"] \in Values(t)
    BY <2>1 DEF Item
  <2> HIDE DEF q, t, cur
  <2> QED BY <2>2, <2>3 DEF Updated, Item
<1>11. q.op = "create" => q.set \in Item(Values(t))
  BY <1>3 DEF ItemRequest
<1>12. PICK new \in Item(Values(t)) \cup {NULL} :
          items' = items \/ items' = [items EXCEPT ![t] = new]
  BY <1>9, <1>10, <1>11
<1>13. ItemsOK'
  BY <1>2, <1>12 DEF ItemsOK, AccessInv, Values
<1> QED BY <1>5, <1>6, <1>7, <1>13, AnswerKeeps

LEMMA IdleIs ==
    ASSUME NEW R, NEW L, NEW D
    PROVE  Idle.op = "idle" /\ RequestOK(Idle, R, L, D)
  BY DEF Idle, RequestOK

LEMMA ReceiveStep ==
    ASSUME AccessInv, NEW r \in Requests, ReceiveAnswer(r)
    PROVE  AccessInv'
<1>1. /\ req[r].op = "answer" /\ req' = [req EXCEPT ![r] = Idle]
      /\ UNCHANGED <<now, rows, items, hits, links, ops, calls, root, loose, retired>>
  BY DEF ReceiveAnswer, history
<1>2. RequestsWell'
  BY <1>1, QuietStep, IdleIs
<1>3. UsersOK' /\ ItemsOK' /\ CallsOK'
  BY <1>1, UsersStay, ItemsStay, CallsStay
<1>4. CountersOK'
  BY <1>1, Counters
<1>5. AnswerOK(req[r], rows, retired)
  BY <1>1, OpOfRequest DEF AccessInv, RequestsWell, RequestsOK
<1>6. SessionsOK'
  BY <1>1, <1>5 DEF ReceiveAnswer, AnswerOK, SessionPair, SessionsOK, AccessInv
<1> QED BY <1>2, <1>3, <1>4, <1>6 DEF AccessInv

LEMMA LoseAnswerStep ==
    ASSUME AccessInv, NEW r \in Requests, LoseAnswer(r)
    PROVE  AccessInv'
<1>1. /\ req' = [req EXCEPT ![r] = Idle]
      /\ UNCHANGED <<now, rows, items, hits, links, tab, held, ops,
                     calls, root, loose, retired>>
  BY DEF LoseAnswer, history
<1>2. ItemsOK'
  BY <1>1, ItemsStay
<1> QED BY <1>1, <1>2, AnswerKeeps, IdleIs

LEMMA SignOutStep ==
    ASSUME AccessInv, NEW c \in Clients, SignOut(c)
    PROVE  AccessInv'
<1>1. /\ tab' = [tab EXCEPT ![c] = NULL]
      /\ UNCHANGED <<now, rows, items, req, hits, links, held, ops,
                     calls, root, loose, retired>>
  BY DEF SignOut, history
<1>2. RequestsWell'
  BY <1>1 DEF RequestsWell, RequestsOK, CreatesOnce, AccessInv
<1>3. UsersOK' /\ ItemsOK' /\ CallsOK'
  BY <1>1, UsersStay, ItemsStay, CallsStay
<1>4. CountersOK'
  BY <1>1, Counters
<1>5. SessionsOK'
  BY <1>1 DEF SessionsOK, AccessInv
<1> QED BY <1>2, <1>3, <1>4, <1>5 DEF AccessInv

LEMMA RestartStep ==
    ASSUME AccessInv, Restart
    PROVE  AccessInv'
<1>1. RequestsWell'
  BY IdleIs DEF Restart, RequestsWell, RequestsOK, CreatesOnce
<1>2. UsersOK' /\ SessionsOK' /\ ItemsOK'
  BY UsersStay, SessionsStay, ItemsStay DEF Restart
<1>3. CallsOK'
  BY DEF Restart, CallsOK
<1>4. CountersOK'
  BY Counters DEF Restart
<1> QED BY <1>1, <1>2, <1>3, <1>4 DEF AccessInv

LEMMA TickStep ==
    ASSUME AccessInv, Tick
    PROVE  AccessInv'
<1>1. RequestsWell'
  BY DEF Tick, history, RequestsWell, RequestsOK, CreatesOnce, AccessInv
<1>2. UsersOK' /\ SessionsOK' /\ ItemsOK' /\ CallsOK'
  BY UsersStay, SessionsStay, ItemsStay, CallsStay DEF Tick, history
<1>3. CountersOK'
  BY AccessAssumption DEF Tick, history, CountersOK, AccessInv
<1> QED BY <1>1, <1>2, <1>3 DEF AccessInv

-----------------------------------------------------------------------------

LEMMA InitInv == AccessInit => AccessInv
<1> SUFFICES ASSUME AccessInit PROVE AccessInv
  OBVIOUS
<1>1. PICK admin \in Users, second \in Users, e \in Emails, f \in Emails, c \in Clients :
         LET row(mail, role, rt) == [email |-> mail, role |-> role,
                                     perms |-> NULL, pw |-> 0, rt |-> rt]
             session == [sub |-> e, at |-> 0]
         IN /\ e # f
            /\ rows = [u \in Users |->
                         IF u = admin THEN row(e, "admin", session)
                         ELSE IF u = second THEN row(f, "operator", NULL)
                         ELSE NULL]
            /\ tab = [d \in Clients |->
                        IF d = c THEN NewAccess(row(e, "admin", session))
                        ELSE NULL]
            /\ held = [d \in Clients |-> IF d = c THEN session ELSE NULL]
  BY Zenon DEF AccessInit
<1> DEFINE session == [sub |-> e, at |-> 0]
           one == [email |-> e, role |-> "admin", perms |-> NULL, pw |-> 0, rt |-> session]
           two == [email |-> f, role |-> "operator", perms |-> NULL, pw |-> 0, rt |-> NULL]
<1>2. /\ e # f
      /\ rows = [u \in Users |-> IF u = admin THEN one
                                 ELSE IF u = second THEN two ELSE NULL]
      /\ tab = [d \in Clients |-> IF d = c THEN NewAccess(one) ELSE NULL]
      /\ held = [d \in Clients |-> IF d = c THEN session ELSE NULL]
  BY <1>1
<1>3. 0 \in 0..MaxTime /\ 0 \in 0..MaxOps
  BY AccessAssumption
<1>4. session \in Token /\ session.sub = e
  BY <1>3 DEF Token
<1>5. one \in Row /\ one.rt = session /\ one.email = e /\ one.pw = 0
  BY <1>3, <1>4, AccessAssumption DEF Row
<1>6. two \in Row /\ two.rt = NULL /\ two.email = f
  BY <1>3, AccessAssumption DEF Row
<1>7. now = 0 /\ ops = 0 /\ links = {} /\ loose = {} /\ retired = {}
      /\ req = [r \in Requests |-> Idle] /\ root = [u \in Users |-> 0]
      /\ items = [t \in {"key", "ip"} |-> NULL]
      /\ hits = [d \in Clients |-> {}] /\ calls = [d \in Clients |-> {}]
  BY DEF AccessInit
<1>8. NewAccess(one) \in AccessToken
  <2>1. Effective(one) = "manage" /\ one.role = "admin" /\ "admin" \in Roles
    BY AccessAssumption DEF Effective
  <2> QED BY <1>3, <1>5, <1>7, <2>1 DEF NewAccess, AccessToken
<1> HIDE DEF session, one, two
<1>9. Lives(session, rows, retired)
  BY <1>2, <1>4, <1>5, NullIsNoRow DEF Lives
<1>10. SessionsOK
  BY <1>2, <1>4, <1>8, <1>9 DEF SessionsOK
<1>11. ItemsOK /\ CallsOK /\ CountersOK
  BY <1>3, <1>7 DEF ItemsOK, CallsOK, CountersOK
<1>12. RequestsWell
  BY <1>7, IdleIs DEF RequestsWell, RequestsOK, CreatesOnce
<1>13. UsersOK
  <2>1. \A u \in Users : rows[u] = IF u = admin THEN one
                                  ELSE IF u = second THEN two ELSE NULL
    BY <1>2
  <2>2. rows \in [Users -> Row \cup {NULL}]
    BY <1>2, <1>5, <1>6
  <2>3. \A u, v \in Users : rows[u] # NULL /\ rows[v] # NULL
         /\ rows[u].email = rows[v].email => u = v
    BY <1>2, <1>5, <1>6, <2>1
  <2>4. root = [u \in Users |-> root[u]] /\ LinksOK
    BY <1>7 DEF LinksOK
  <2>5. SessionsRooted
    <3>1. \A u \in Users : root[u] = 0
      BY <1>7
    <3>2. \A u \in Users : rows[u] # NULL /\ rows[u].rt # NULL => rows[u].pw = 0
      BY <1>5, <1>6, <2>1
    <3> QED BY <3>1, <3>2 DEF SessionsRooted
  <2> QED BY <2>2, <2>3, <2>4, <2>5 DEF UsersOK
<1> QED BY <1>10, <1>11, <1>12, <1>13 DEF AccessInv

LEMMA StepInv == AccessInv /\ [AccessNext]_accessVars => AccessInv'
<1> SUFFICES ASSUME AccessInv, [AccessNext]_accessVars PROVE AccessInv'
  OBVIOUS
<1>1. CASE UNCHANGED accessVars
  <2>1. RequestsWell'
    BY <1>1 DEF accessVars, RequestsWell, RequestsOK, CreatesOnce, AccessInv
  <2>2. UsersOK' /\ SessionsOK' /\ ItemsOK' /\ CallsOK' /\ CountersOK'
    BY <1>1, UsersStay, SessionsStay, ItemsStay, CallsStay, Counters DEF accessVars
  <2> QED BY <2>1, <2>2 DEF AccessInv
<1>2. ASSUME NEW r \in Requests, NEW c \in Clients,
             \/ \E e \in Emails, p \in 0..MaxOps : Login(r, c, e, p)
             \/ Refresh(r, c)
             \/ Logout(r, c)
             \/ \E l \in links : ResetByLink(r, c, l)
             \/ \E t \in {"users", "key", "ip"} : Refused(r, c, t)
      PROVE  AccessInv'
  BY <1>2, LoginStep, RefreshStep, LogoutStep, ResetByLinkStep, RefusedStep
<1>3. ASSUME NEW r \in Requests, NEW c \in Clients, NEW u \in Users,
             \/ \E e \in Emails, role \in Roles : CreateUser(r, c, u, e, role)
             \/ \E e \in Emails \cup {NULL}, pw \in {NULL, ops + 1} :
                    UpdateUser(r, c, u, e, NULL, pw)
             \/ \E role \in Roles : UpdateUser(r, c, u, NULL, role, NULL)
             \/ AdminReset(r, c, u)
             \/ \E level \in {"none", "manage"} : SetPermissions(r, c, u, level)
      PROVE  AccessInv'
  BY <1>3, CreateUserStep, UpdateUserStep, AdminResetStep, SetPermissionsStep
<1>4. ASSUME NEW r \in Requests, NEW c \in Clients,
             \/ CreateItem(r, c, "key", ops)
             \/ \E v \in SUBSET Clients \ {{}} : CreateItem(r, c, "ip", v)
             \/ \E t \in {"key", "ip"} : ToggleItem(r, c, t) \/ DeleteItem(r, c, t)
             \/ RotateKey(r, c)
      PROVE  AccessInv'
  <2>1. ops \in Values("key") /\ \A v \in SUBSET Clients \ {{}} : v \in Values("ip")
    BY DEF Values, AccessInv, CountersOK
  <2> QED BY <1>4, <2>1, CreateItemStep, ToggleItemStep, DeleteItemStep, RotateKeyStep
<1>5. ASSUME NEW r \in Requests,
             CommitUser(r) \/ CommitItem(r) \/ ReceiveAnswer(r) \/ LoseAnswer(r)
      PROVE  AccessInv'
  BY <1>5, CommitUserStep, CommitItemStep, ReceiveStep, LoseAnswerStep
<1>6. ASSUME NEW c \in Clients, SignOut(c) \/ \E e \in Emails : Forgot(c, e)
      PROVE  AccessInv'
  BY <1>6, SignOutStep, ForgotStep
<1>7. CASE Restart \/ Tick
  BY <1>7, RestartStep, TickStep
<1> QED BY <1>1, <1>2, <1>3, <1>4, <1>5, <1>6, <1>7 DEF AccessNext

\* The inductive invariant holds in every behaviour of Access.
THEOREM AccessInvariant == AccessSpec => []AccessInv
<1>1. AccessInit => AccessInv
  BY InitInv
<1>2. AccessInv /\ [AccessNext]_accessVars => AccessInv'
  BY StepInv
<1> QED BY <1>1, <1>2, PTL DEF AccessSpec

\* A session does not outlive the password it was made with, unless a sign-in
\* overlapped the change or a mailed link made it (users.py, auth.py).
THEOREM SessionsFollowPasswords == AccessSpec => []SessionFollowsPassword
<1>1. AccessInv => SessionFollowsPassword
  BY InvChecked
<1> QED BY <1>1, AccessInvariant, PTL

\* A refresh token a client was answered with is honoured until a later commit
\* for the same user (auth.py login_for_access_token, refresh_access_token).
THEOREM IssuedTokensLive == AccessSpec => []IssuedTokenLives
<1>1. AccessInv => IssuedTokenLives
  BY InvChecked
<1> QED BY <1>1, AccessInvariant, PTL

-----------------------------------------------------------------------------
(* The limiter.                                                             *)

InWindow(S, t) == {h \in S : h.at \in t..(t + Window - 1)}

\* The limiter still has every call of the last Window ticks: what it forgot
\* is too old to share a window with a call made now.
LimiterInv ==
    /\ now \in Nat
    /\ hits = [c \in Clients |-> hits[c]] /\ calls = [c \in Clients |-> calls[c]]
    /\ \A c \in Clients :
         /\ hits[c] \subseteq calls[c] /\ IsFiniteSet(calls[c])
         /\ \A h \in calls[c] : h.at \in Nat /\ h.at <= now
         /\ \A h \in calls[c] : now - h.at < Window => h \in hits[c]
    /\ SignInLimit

LEMMA WindowNat == Window \in Nat /\ Limit \in Nat /\ MaxTime \in Nat
  BY AccessAssumption

\* A call that is let through: the calls of every window around it are calls
\* the limiter has counted.
LEMMA CallCounted ==
    ASSUME LimiterInv, NEW c \in Clients, CountCall(c), UNCHANGED now
    PROVE  LimiterInv'
<1>1. PICK call : /\ call.at = now
                  /\ WithinLimit(c)
                  /\ hits' = [hits EXCEPT ![c] = Recent(c) \cup {call}]
                  /\ calls' = [calls EXCEPT ![c] = calls[c] \cup {call}]
  BY DEF CountCall
<1>2. /\ hits' = [d \in Clients |-> hits'[d]] /\ calls' = [d \in Clients |-> calls'[d]]
      /\ \A d \in Clients : hits'[d] = IF d = c THEN Recent(c) \cup {call} ELSE hits[d]
      /\ \A d \in Clients : calls'[d] = IF d = c THEN calls[c] \cup {call} ELSE calls[d]
  BY <1>1 DEF LimiterInv
<1>3. IsFiniteSet(calls[c]) /\ IsFiniteSet(calls[c] \cup {call})
  BY FS_AddElement DEF LimiterInv
<1>4. \A d \in Clients :
         /\ hits'[d] \subseteq calls'[d] /\ IsFiniteSet(calls'[d])
         /\ \A h \in calls'[d] : h.at \in Nat /\ h.at <= now
         /\ \A h \in calls'[d] : now - h.at < Window => h \in hits'[d]
  BY <1>1, <1>2, <1>3 DEF LimiterInv, Recent
<1>5. IsFiniteSet(Recent(c)) /\ Cardinality(Recent(c)) < Limit /\ Cardinality(Recent(c)) \in Nat
  <2>1. Recent(c) \in SUBSET calls[c]
    BY DEF Recent, LimiterInv
  <2>2. IsFiniteSet(Recent(c))
    BY <1>3, <2>1, FS_Subset
  <2> QED BY <1>1, <2>2, FS_CardinalityType DEF WithinLimit
<1>6. ASSUME NEW t \in 0..MaxTime
      PROVE  Cardinality(InWindow(calls[c] \cup {call}, t)) <= Limit
  <2>1. CASE now \in t..(t + Window - 1)
    <3>1. InWindow(calls[c], t) \subseteq Recent(c)
      <4> SUFFICES ASSUME NEW h \in calls[c], h.at \in t..(t + Window - 1)
                   PROVE  h \in Recent(c)
        BY DEF InWindow
      <4>1. now - h.at < Window
        BY <2>1, WindowNat DEF LimiterInv
      <4> QED BY <4>1 DEF Recent, LimiterInv
    <3>2. InWindow(calls[c] \cup {call}, t) = InWindow(calls[c], t) \cup {call}
      BY <1>1, <2>1 DEF InWindow
    <3>3. /\ IsFiniteSet(InWindow(calls[c], t))
          /\ Cardinality(InWindow(calls[c], t)) <= Cardinality(Recent(c))
      BY <1>5, <3>1, FS_Subset
    <3>4. Cardinality(InWindow(calls[c], t)) \in Nat
      BY <3>3, FS_CardinalityType
    <3>5. Cardinality(InWindow(calls[c], t) \cup {call})
             <= Cardinality(InWindow(calls[c], t)) + 1
      BY <3>3, <3>4, FS_AddElement
    <3>6. Cardinality(InWindow(calls[c], t) \cup {call}) \in Nat
      BY <3>3, FS_AddElement, FS_CardinalityType
    <3>7. Cardinality(InWindow(calls[c] \cup {call}, t))
            = Cardinality(InWindow(calls[c], t) \cup {call})
      BY Zenon, <3>2
    <3> QED BY <1>5, <3>3, <3>4, <3>5, <3>6, <3>7, WindowNat
  <2>2. CASE now \notin t..(t + Window - 1)
    <3>1. InWindow(calls[c] \cup {call}, t) = InWindow(calls[c], t)
      BY <1>1, <2>2 DEF InWindow
    <3> QED BY <3>1 DEF LimiterInv, SignInLimit, InWindow
  <2> QED BY <2>1, <2>2
<1>7. \A d \in Clients : \A t \in 0..MaxTime : Cardinality(InWindow(calls'[d], t)) <= Limit
  <2>1. \A d \in Clients : \A t \in 0..MaxTime : Cardinality(InWindow(calls[d], t)) <= Limit
    BY DEF LimiterInv, SignInLimit, InWindow
  <2> QED BY <1>2, <1>6, <2>1
<1>8. SignInLimit'
  BY <1>7 DEF SignInLimit, InWindow
<1> QED BY <1>2, <1>4, <1>8 DEF LimiterInv

LEMMA LimiterQuiet ==
    ASSUME LimiterInv, UNCHANGED <<now, hits, calls>>
    PROVE  LimiterInv'
  BY DEF LimiterInv, SignInLimit

LEMMA LimiterTick ==
    ASSUME LimiterInv, Tick
    PROVE  LimiterInv'
<1>1. now' = now + 1 /\ UNCHANGED <<hits, calls>>
  BY DEF Tick, history
<1>2. \A c \in Clients : \A h \in calls[c] :
         h.at <= now' /\ (now' - h.at < Window => now - h.at < Window)
  BY <1>1, WindowNat DEF LimiterInv
<1> QED BY <1>1, <1>2 DEF LimiterInv, SignInLimit

LEMMA LimiterRestart ==
    ASSUME LimiterInv, Restart
    PROVE  LimiterInv'
<1>1. /\ hits' = [c \in Clients |-> {}] /\ calls' = [c \in Clients |-> {}] /\ now' = now
  BY DEF Restart
<1>2. \A c \in Clients : hits'[c] = {} /\ calls'[c] = {}
  BY <1>1
<1>3. \A t : InWindow({}, t) = {}
  BY DEF InWindow
<1>4. SignInLimit'
  BY <1>2, <1>3, WindowNat, FS_EmptySet DEF SignInLimit, InWindow
<1> QED BY <1>1, <1>2, <1>4, FS_EmptySet DEF LimiterInv

\* Every step counts one call, restarts, ticks, or leaves the limiter alone.
LEMMA LimiterStep ==
    ASSUME [AccessNext]_accessVars
    PROVE  \/ \E c \in Clients : CountCall(c) /\ UNCHANGED now
           \/ UNCHANGED <<now, hits, calls>>
           \/ Restart
           \/ Tick
<1> DEFINE Fine == \/ \E c \in Clients : CountCall(c) /\ UNCHANGED now
                   \/ UNCHANGED <<now, hits, calls>>
<1>1. CASE UNCHANGED accessVars
  BY <1>1 DEF accessVars
<1>2. ASSUME NEW r \in Requests, NEW c \in Clients,
             \/ \E e \in Emails, p \in 0..MaxOps : Login(r, c, e, p)
             \/ Refresh(r, c)
             \/ Logout(r, c)
             \/ \E l \in links : ResetByLink(r, c, l)
             \/ \E t \in {"users", "key", "ip"} : Refused(r, c, t)
      PROVE  Fine
  BY <1>2 DEF Login, Refresh, Logout, ResetByLink, Refused, history
<1>3. ASSUME NEW r, NEW c, NEW t, Permitted(r, c, t)
      PROVE  Fine
  BY <1>3 DEF Permitted, history
<1>4. ASSUME NEW r \in Requests, NEW c \in Clients, NEW u \in Users,
             \/ \E e \in Emails, role \in Roles : CreateUser(r, c, u, e, role)
             \/ \E e \in Emails \cup {NULL}, pw \in {NULL, ops + 1} :
                    UpdateUser(r, c, u, e, NULL, pw)
             \/ \E role \in Roles : UpdateUser(r, c, u, NULL, role, NULL)
             \/ AdminReset(r, c, u)
             \/ \E level \in {"none", "manage"} : SetPermissions(r, c, u, level)
      PROVE  Fine
  <2>1. Permitted(r, c, "users")
    BY <1>4 DEF CreateUser, UpdateUser, AdminReset, SetPermissions
  <2> QED BY <1>3, <2>1
<1>5. ASSUME NEW r \in Requests, NEW c \in Clients,
             \/ CreateItem(r, c, "key", ops)
             \/ \E v \in SUBSET Clients \ {{}} : CreateItem(r, c, "ip", v)
             \/ \E t \in {"key", "ip"} : ToggleItem(r, c, t) \/ DeleteItem(r, c, t)
             \/ RotateKey(r, c)
      PROVE  Fine
  <2>1. \E t : Permitted(r, c, t)
    BY <1>5 DEF CreateItem, ToggleItem, DeleteItem, RotateKey
  <2> QED BY <1>3, <2>1
<1>6. ASSUME NEW r \in Requests, CommitUser(r)
      PROVE  Fine
  BY <1>6 DEF CommitUser, Remember, history
<1>7. ASSUME NEW r \in Requests, CommitItem(r) \/ ReceiveAnswer(r) \/ LoseAnswer(r)
      PROVE  Fine
  BY <1>7 DEF CommitItem, ReceiveAnswer, LoseAnswer, history
<1>8. ASSUME NEW c \in Clients, SignOut(c) \/ \E e \in Emails : Forgot(c, e)
      PROVE  Fine
  BY <1>8 DEF SignOut, Forgot, history
<1> QED BY <1>1, <1>2, <1>4, <1>5, <1>6, <1>7, <1>8 DEF AccessNext

LEMMA LimiterInit == AccessInit => LimiterInv
<1> SUFFICES ASSUME AccessInit PROVE LimiterInv
  OBVIOUS
<1>1. /\ now = 0 /\ hits = [c \in Clients |-> {}] /\ calls = [c \in Clients |-> {}]
  BY DEF AccessInit
<1>2. \A c \in Clients : hits[c] = {} /\ calls[c] = {}
  BY <1>1
<1>3. \A t : InWindow({}, t) = {}
  BY DEF InWindow
<1>4. SignInLimit
  BY <1>2, <1>3, WindowNat, FS_EmptySet DEF SignInLimit, InWindow
<1> QED BY <1>1, <1>2, <1>4, FS_EmptySet DEF LimiterInv

\* No address gets more than Limit sign-in calls through in any Window ticks,
\* for every Limit and Window (auth.py check_rate_limit).
THEOREM SignInsLimited == AccessSpec => []SignInLimit
<1>1. AccessInit => LimiterInv
  BY LimiterInit
<1>2. LimiterInv /\ [AccessNext]_accessVars => LimiterInv'
  BY LimiterStep, CallCounted, LimiterQuiet, LimiterTick, LimiterRestart
<1>3. LimiterInv => SignInLimit
  BY DEF LimiterInv
<1> QED BY <1>1, <1>2, <1>3, PTL DEF AccessSpec

-----------------------------------------------------------------------------
(***************************************************************************)
(* Backup and restore.                                                      *)
(***************************************************************************)

Restores == {"restore", "upload"}
Making == {"count", "dump"}
Begun(q) == q.pc # "free"

\* What a request of each kind carries at each point of its handler.
RequestShape(q) ==
    /\ q.pc = "free" <=> q.op = "none"
    /\ q.op = "restore" => q.from \in File /\ q.chosen \in File
    /\ q.op = "upload" => q.asked \in Stored
    /\ q.op \in Restores => q.enc = FALSE
    /\ q.pc \in {"read", "psql"} => q.op \in Restores
    /\ q.pc \in Busy => q.ok = FALSE
    /\ q.pc \in Making => q.safety = FALSE
    /\ q.pc = "psql" => q.read \in Stored

Numbered(R) == \A a, b \in Reqs : (a < b /\ Begun(R[b])) => Begun(R[a])

\* An encrypted file has a master key; a file was made by a request.
KeysSealed(D) == \A f \in File : (D[f] # None /\ f.enc) => D[f].key \in Keys

FilesMade(D, R) ==
    \A f \in File : D[f] # None =>
        \E o \in Reqs : Begun(R[o]) /\ R[o].minute = f.minute /\ R[o].loc = f.loc

\* No other request has used the minute of r or a later one.
NewestIn(R, r) == \A o \in Reqs : (o # r /\ Begun(R[o])) => R[o].minute < R[r].minute

\* The safety backup on its way: the dump of the request is its own, and from
\* its archiving on the file holds it.
SafetyWay(q, D, W, H) ==
    /\ q.pc = "dump" => W[<<q.loc, q.minute>>] = q.snap
    /\ ((q.pc = "notify" \/ q.safety) /\ FileOf(q) \notin H)
       => D[FileOf(q)] = [data |-> q.snap, key |-> None]

SafetyComing(R, D, W, H) ==
    \A r \in Reqs :
        (R[r].op \in Restores /\ NewestIn(R, r)) => SafetyWay(R[r], D, W, H)

\* The chosen file stays as it was, or goes, until it is read.
ChosenAlone(R, r) ==
    /\ R[r].op = "restore" /\ R[r].from = R[r].chosen /\ R[r].calm
    /\ \A o \in Reqs : (Begun(R[o]) /\ R[o].minute = R[r].from.minute) => o < r

ChosenWay(q, D) ==
    /\ q.pc \in {"count", "dump", "notify", "read"} => D[q.from] \in {q.asked, None}
    /\ q.read # None => q.read = q.asked

ChoiceKept(R, D) ==
    \A r \in Reqs : ChosenAlone(R, r) =>
        /\ \A o \in Reqs : R[o].pc \in Making => R[o].minute # R[r].from.minute
        /\ ChosenWay(R[r], D)

\* The restores a page has asked for and not heard of.
Asking(R, p) == {r \in Reqs : R[r].op = "restore" /\ R[r].by = p /\ R[r].pc \notin {"free", "seen"}}

\* A page that has closed no modal early waits for one restore at most, with
\* the modal of its file open; a restore it shows is over.
PageTold(R, x, p) ==
    /\ x.shown # None => R[x.shown].pc = "seen" /\ R[x.shown].op = "restore"
    /\ x.restore = "done" => /\ x.shown # None /\ R[x.shown].ok
                             /\ x.early \/ R[x.shown].chosen = x.file
    /\ x.early \/ \A r \in Asking(R, p) :
           /\ x.restore = "running" /\ x.file = R[r].chosen
           /\ \A o \in Asking(R, p) : o = r

PageFollows(R, P) == \A p \in Pages : PageTold(R, P[p], p)

ProgressFollows(R, b, x) ==
    /\ Active(b) => \E r \in Reqs : R[r].pc \in Making
    /\ Active(x) => \E r \in Reqs : R[r].op \in Restores /\ R[r].ok = FALSE

BackupInv ==
    /\ BackupTypeOK
    /\ \A r \in Reqs : RequestShape(request[r])
    /\ Numbered(request)
    /\ KeysSealed(fs) /\ FilesMade(fs, request)
    /\ SafetyComing(request, fs, raw, byHand)
    /\ ChoiceKept(request, fs)
    /\ PageFollows(request, page)
    /\ ProgressFollows(request, bProg, rProg)

\* How the record of a request moves on: what it was asked stays, and a
\* restore reads the file it found.
Coming == {"count", "dump", "notify", "read"}

Moves(q, s, D) ==
    /\ Begun(q) /\ Begun(s)
    /\ s.op = q.op /\ s.by = q.by /\ s.loc = q.loc /\ s.minute = q.minute /\ s.enc = q.enc
    /\ s.chosen = q.chosen /\ s.from = q.from /\ s.asked = q.asked /\ s.calm = q.calm
    /\ s.pc \in Making => q.pc \in Making
    /\ s.pc \in Coming => q.pc \in Coming
    /\ \/ s.read = q.read
       \/ q.op # "restore"
       \/ q.pc = "read" /\ s.read = D[q.from]

\* Moves that make no dump or safety backup.
Quiet(q, s) ==
    /\ s.pc = "dump" => q.pc = "dump"
    /\ s.snap = q.snap
    /\ (s.pc = "notify" \/ s.safety) => (q.pc = "notify" \/ q.safety)

\* Moves that no page sees.
Unseen(q, s) ==
    /\ s.pc = "seen" <=> q.pc = "seen"
    /\ q.pc = "seen" => s.ok = q.ok

Moved(R, S, D) == \A o \in Reqs : S[o] = R[o] \/ Moves(R[o], S[o], D)

\* A move of one request or of all keeps their shapes and numbers.
LEMMA MovedKeeps ==
    ASSUME NEW R, NEW S, NEW D, Moved(R, S, D),
           Numbered(R), FilesMade(D, R)
    PROVE  Numbered(S) /\ FilesMade(D, S)
<1>1. \A o \in Reqs : Begun(S[o]) <=> Begun(R[o])
    BY DEF Moved, Moves
<1>2. \A o \in Reqs : Begun(R[o]) => S[o].minute = R[o].minute /\ S[o].loc = R[o].loc
    BY DEF Moved, Moves
<1>3. Numbered(S)
    BY <1>1 DEF Numbered
<1>4. FilesMade(D, S)
    <2>1. SUFFICES ASSUME NEW f \in File, D[f] # None
                   PROVE  \E o \in Reqs : Begun(S[o]) /\ S[o].minute = f.minute /\ S[o].loc = f.loc
        BY DEF FilesMade
    <2>2. PICK o \in Reqs : Begun(R[o]) /\ R[o].minute = f.minute /\ R[o].loc = f.loc
        BY <2>1 DEF FilesMade
    <2>3. QED BY <1>1, <1>2, <2>2
<1>5. QED BY <1>3, <1>4

\* The chosen file stays: only a backup under way writes files, those of its
\* own minute.
LEMMA ChoiceMoves ==
    ASSUME NEW R, NEW S, NEW D, NEW E, Moved(R, S, D), ChoiceKept(R, D),
           \A r \in Reqs : R[r].op = "restore" => R[r].from \in File,
           \A f \in File : \/ E[f] = D[f] \/ E[f] = None
                           \/ \E o \in Reqs : R[o].pc \in Making /\ R[o].minute = f.minute
    PROVE  ChoiceKept(S, E)
<1>1. SUFFICES ASSUME NEW r \in Reqs, ChosenAlone(S, r)
               PROVE  /\ \A o \in Reqs : S[o].pc \in Making => S[o].minute # S[r].from.minute
                      /\ ChosenWay(S[r], E)
    BY DEF ChoiceKept
<1>2. /\ S[r].op = R[r].op /\ S[r].from = R[r].from /\ S[r].chosen = R[r].chosen
      /\ S[r].calm = R[r].calm /\ S[r].asked = R[r].asked
    BY DEF Moved, Moves
<1>3. \A o \in Reqs : Begun(R[o]) => Begun(S[o]) /\ S[o].minute = R[o].minute
    BY DEF Moved, Moves
<1>4. ChosenAlone(R, r)
    BY <1>1, <1>2, <1>3 DEF ChosenAlone
<1>5. /\ \A o \in Reqs : R[o].pc \in Making => R[o].minute # R[r].from.minute
      /\ ChosenWay(R[r], D)
    BY <1>4 DEF ChoiceKept
<1>6. \A o \in Reqs : S[o].pc \in Making => R[o].pc \in Making /\ S[o].minute = R[o].minute
    BY DEF Moved, Moves
<1>7. \A o \in Reqs : S[o].pc \in Making => S[o].minute # S[r].from.minute
    BY <1>2, <1>5, <1>6
<1>8. R[r].from \in File
    BY <1>4 DEF ChosenAlone
<1>9. E[R[r].from] = D[R[r].from] \/ E[R[r].from] = None
    BY <1>5, <1>8
<1>10. S[r].pc \in Coming => R[r].pc \in Coming
    BY DEF Moved, Moves
<1>11. S[r].pc \in Coming => E[S[r].from] \in {S[r].asked, None}
    BY <1>2, <1>5, <1>9, <1>10 DEF ChosenWay, Coming
<1>12. S[r].read # None => S[r].read = S[r].asked
    <2>1. CASE S[r].read = R[r].read
        BY <2>1, <1>2, <1>5 DEF ChosenWay
    <2>2. CASE R[r].pc = "read" /\ S[r].read = D[R[r].from]
        BY <2>2, <1>2, <1>5 DEF ChosenWay
    <2>3. R[r].op = "restore"
        BY <1>4 DEF ChosenAlone
    <2>4. QED BY <2>1, <2>2, <2>3 DEF Moved, Moves
<1>13. QED BY <1>7, <1>11, <1>12 DEF ChosenWay, Coming

\* Quiet moves leave the safety backups where they are.
LEMMA SafetyMoves ==
    ASSUME NEW R, NEW S, NEW D, NEW W, NEW H, Moved(R, S, D), SafetyComing(R, D, W, H),
           \A o \in Reqs : R[o].op \in Restores => S[o] = R[o] \/ Quiet(R[o], S[o])
    PROVE  SafetyComing(S, D, W, H)
<1>1. SUFFICES ASSUME NEW r \in Reqs, S[r].op \in Restores, NewestIn(S, r)
               PROVE  SafetyWay(S[r], D, W, H)
    BY DEF SafetyComing
<1>2. /\ S[r].op = R[r].op /\ S[r].loc = R[r].loc /\ S[r].minute = R[r].minute
      /\ S[r].enc = R[r].enc
    BY DEF Moved, Moves
<1>3. \A o \in Reqs : Begun(R[o]) => Begun(S[o]) /\ S[o].minute = R[o].minute
    BY DEF Moved, Moves
<1>4. NewestIn(R, r)
    BY <1>1, <1>2, <1>3 DEF NewestIn
<1>5. SafetyWay(R[r], D, W, H)
    BY <1>1, <1>2, <1>4 DEF SafetyComing
<1>6. S[r] = R[r] \/ Quiet(R[r], S[r])
    BY <1>1, <1>2
<1>7. FileOf(S[r]) = FileOf(R[r])
    BY <1>2 DEF FileOf
<1>8. QED BY <1>2, <1>5, <1>6, <1>7 DEF SafetyWay, Quiet

\* A page that does nothing waits and shows what it did.
LEMMA PageMoves ==
    ASSUME NEW R, NEW S, NEW D, NEW P, Moved(R, S, D), PageFollows(R, P),
           P \in [Pages -> Page],
           \A o \in Reqs : S[o] = R[o] \/ Unseen(R[o], S[o])
    PROVE  PageFollows(S, P)
<1>1. \A p \in Pages : \A r \in Asking(S, p) : r \in Asking(R, p) /\ S[r].chosen = R[r].chosen
    BY DEF Moved, Moves, Asking, Unseen, Begun
<1>2. \A r \in Reqs : R[r].pc = "seen" =>
          /\ S[r].pc = "seen" /\ S[r].op = R[r].op
          /\ S[r].ok = R[r].ok /\ S[r].chosen = R[r].chosen
    BY DEF Moved, Moves, Unseen
<1>3. \A p \in Pages : P[p].shown \in Reqs \cup {None}
    BY DEF Page
<1>4. SUFFICES ASSUME NEW p \in Pages
               PROVE /\ P[p].shown # None => S[P[p].shown].pc = "seen" /\ S[P[p].shown].op = "restore"
                     /\ P[p].restore = "done" => /\ P[p].shown # None /\ S[P[p].shown].ok
                                                 /\ P[p].early \/ S[P[p].shown].chosen = P[p].file
                     /\ P[p].early \/ \A r \in Asking(S, p) :
                            /\ P[p].restore = "running" /\ P[p].file = S[r].chosen
                            /\ \A o \in Asking(S, p) : o = r
    BY DEF PageFollows, PageTold
<1>5. /\ P[p].shown # None => R[P[p].shown].pc = "seen" /\ R[P[p].shown].op = "restore"
      /\ P[p].restore = "done" => /\ P[p].shown # None /\ R[P[p].shown].ok
                                  /\ P[p].early \/ R[P[p].shown].chosen = P[p].file
      /\ P[p].early \/ \A r \in Asking(R, p) :
             /\ P[p].restore = "running" /\ P[p].file = R[r].chosen
             /\ \A o \in Asking(R, p) : o = r
    BY DEF PageFollows, PageTold
<1>6. P[p].shown # None => P[p].shown \in Reqs
    BY <1>3
<1>7. QED BY <1>1, <1>2, <1>5, <1>6

\* What an action leaves of the requests, whatever it does to files and pages.
RequestsFollow ==
    /\ request' \in [Reqs -> Request]
    /\ \A o \in Reqs : RequestShape(request'[o])
    /\ Moved(request, request', fs)
    /\ \A o \in Reqs : request'[o] = request[o] \/ Unseen(request[o], request'[o])

AllQuiet ==
    \A o \in Reqs : request[o].op \in Restores
                    => request'[o] = request[o] \/ Quiet(request[o], request'[o])

LEMMA RequestsSame ==
    ASSUME BackupInv, request' = request PROVE RequestsFollow /\ AllQuiet
BY DEF BackupInv, BackupTypeOK, RequestsFollow, AllQuiet, Moved

LEMMA OneFollows ==
    ASSUME BackupInv, NEW r \in Reqs, NEW s \in Request, Step(r, s), RequestShape(s),
           Moves(request[r], s, fs), Unseen(request[r], s)
    PROVE  /\ RequestsFollow
           /\ request'[r] = s /\ \A o \in Reqs \ {r} : request'[o] = request[o]
<1>1. request \in [Reqs -> Request]
    BY DEF BackupInv, BackupTypeOK
<1>2. request' = [request EXCEPT ![r] = s]
    BY DEF Step
<1>3. request'[r] = s /\ \A o \in Reqs \ {r} : request'[o] = request[o]
    BY <1>1, <1>2
<1>4. request' \in [Reqs -> Request]
    BY <1>1, <1>2
<1>5. \A o \in Reqs : RequestShape(request'[o])
    BY <1>3 DEF BackupInv
<1>6. QED BY <1>3, <1>4, <1>5 DEF RequestsFollow, Moved

LEMMA QuietOne ==
    ASSUME NEW r \in Reqs, request[r].op \in Restores => Quiet(request[r], request'[r]),
           \A o \in Reqs \ {r} : request'[o] = request[o]
    PROVE  AllQuiet
BY DEF AllQuiet

\* The fields of a record that has a shape.
LEMMA RequestTyped ==
    ASSUME BackupInv, NEW r \in Reqs PROVE request[r] \in Request /\ RequestShape(request[r])
BY DEF BackupInv, BackupTypeOK

LEMMA FailFollows ==
    ASSUME BackupInv, NEW r \in Reqs, request[r].pc \in {"read", "psql"},
           Step(r, Fail(request[r]))
    PROVE  /\ RequestsFollow /\ AllQuiet
           /\ request'[r].op \in Restores /\ request'[r].ok = FALSE
           /\ \A o \in Reqs : request[o].pc \in Making => request'[o].pc \in Making
<1> DEFINE q == request[r]
<1> DEFINE s == Fail(q)
<1>1. q \in Request /\ RequestShape(q)
    BY RequestTyped
<1>2. s \in Request
    BY <1>1 DEF Fail, Request
<1>3. RequestShape(s) /\ s.op \in Restores /\ s.ok = FALSE
    BY <1>1 DEF RequestShape, Fail, Request, Restores, Busy, Making
<1>4. Moves(q, s, fs) /\ Unseen(q, s) /\ Quiet(q, s)
    BY <1>1 DEF Moves, Unseen, Quiet, Fail, Request, Begun, Making, Coming
<1> HIDE DEF s
<1>5. /\ RequestsFollow
      /\ request'[r] = s /\ \A o \in Reqs \ {r} : request'[o] = request[o]
    BY <1>2, <1>3, <1>4, OneFollows DEF s
<1>6. AllQuiet
    BY <1>4, <1>5, QuietOne
<1>7. QED BY <1>3, <1>5, <1>6 DEF Making

LEMMA AfterBackupFollows ==
    ASSUME BackupInv, NEW r \in Reqs, NEW good \in BOOLEAN,
           \/ request[r].pc = "dump" /\ good = FALSE
           \/ request[r].pc = "notify",
           Step(r, AfterBackup(request[r], good))
    PROVE  RequestsFollow /\ AllQuiet
           /\ (\A o \in Reqs \ {r} : request'[o] = request[o])
           /\ request'[r].op = request[r].op
           /\ (request[r].op \in Restores => request'[r].ok = FALSE)
           /\ request'[r].pc \notin Making
           /\ (request[r].op \in Restores => request'[r].pc = "read" /\ request'[r].safety = good)
<1> DEFINE q == request[r]
<1> DEFINE s == AfterBackup(q, good)
<1>1. q \in Request /\ RequestShape(q)
    BY RequestTyped
<1>2. s \in Request
    <2>1. CASE q.op = "backup"
        <3>1. s = [q EXCEPT !.pc = "answered", !.ok = good]
            BY <2>1 DEF AfterBackup
        <3>2. QED BY <1>1, <3>1 DEF Request
    <2>2. CASE q.op # "backup"
        <3>1. s = [q EXCEPT !.pc = "read", !.safety = good]
            BY <2>2 DEF AfterBackup
        <3>2. QED BY <1>1, <3>1 DEF Request, Busy
    <2>3. QED BY <2>1, <2>2
<1>0. q.op \in Restores <=> q.op # "backup"
    <2>1. q.op \in {"none", "backup", "restore", "upload"}
        BY <1>1 DEF Request
    <2>2. q.op # "none"
        BY <1>1 DEF RequestShape
    <2>3. QED BY <2>1, <2>2 DEF Restores
<1>3. RequestShape(s) /\ s.op = q.op /\ (q.op \in Restores => s.ok = FALSE) /\ s.pc \notin Making
      /\ (q.op \in Restores => s.pc = "read" /\ s.safety = good)
    BY <1>0, <1>1 DEF RequestShape, AfterBackup, Request, Restores, Busy, Making
<1>4. Moves(q, s, fs) /\ Unseen(q, s) /\ (q.op \in Restores => Quiet(q, s))
    <2>1. /\ s.op = q.op /\ s.by = q.by /\ s.loc = q.loc /\ s.minute = q.minute /\ s.enc = q.enc
          /\ s.chosen = q.chosen /\ s.from = q.from /\ s.asked = q.asked /\ s.calm = q.calm
          /\ s.read = q.read /\ s.snap = q.snap
        BY <1>1 DEF AfterBackup, Request
    <2>2. s.pc = "answered" \/ (s.pc = "read" /\ s.safety = good)
        BY <1>1 DEF AfterBackup, Request
    <2>3. Moves(q, s, fs)
        BY <2>1, <2>2 DEF Moves, Begun, Making, Coming
    <2>4. Unseen(q, s)
        BY <2>2 DEF Unseen
    <2>5. q.op \in Restores => Quiet(q, s)
        BY <1>3, <2>1, <2>2 DEF Quiet
    <2>6. QED BY <2>3, <2>4, <2>5
<1> HIDE DEF s
<1>5. /\ RequestsFollow
      /\ request'[r] = s /\ \A o \in Reqs \ {r} : request'[o] = request[o]
    BY <1>2, <1>3, <1>4, OneFollows DEF s
<1>6. AllQuiet
    BY <1>4, <1>5, QuietOne
<1>7. QED BY <1>3, <1>5, <1>6

\* A quiet step that leaves the files alone.
LEMMA BackupQuietStep ==
    ASSUME BackupInv, RequestsFollow, AllQuiet,
           fs' = fs, raw' = raw, byHand' = byHand, page' = page \/ PageFollows(request', page'),
           ProgressFollows(request', bProg', rProg'), BackupTypeOK'
    PROVE  BackupInv'
<1>1. Numbered(request') /\ FilesMade(fs, request')
    BY MovedKeeps DEF BackupInv, RequestsFollow
<1>2. \A f \in File : fs[f] = fs[f] \/ fs[f] = None
                      \/ \E o \in Reqs : request[o].pc \in Making /\ request[o].minute = f.minute
    OBVIOUS
<1>3. \A r \in Reqs : request[r].op = "restore" => request[r].from \in File
    BY DEF BackupInv, RequestShape
<1>4. ChoiceKept(request', fs)
    BY <1>2, <1>3, ChoiceMoves DEF BackupInv, RequestsFollow
<1>5. SafetyComing(request', fs, raw, byHand)
    BY SafetyMoves DEF BackupInv, RequestsFollow, AllQuiet
<1>6. PageFollows(request', page')
    BY PageMoves DEF BackupInv, BackupTypeOK, RequestsFollow
<1>7. KeysSealed(fs)
    BY DEF BackupInv
<1>8. \A r \in Reqs : RequestShape(request'[r])
    BY DEF RequestsFollow
<1> QED BY <1>1, <1>4, <1>5, <1>6, <1>7, <1>8 DEF BackupInv

LEMMA DumpFailsStep ==
    ASSUME BackupInv, NEW r \in Reqs, DumpFails(r) PROVE BackupInv'
<1>1. /\ request[r].pc = "dump" /\ Step(r, AfterBackup(request[r], FALSE)) /\ bProg' = "error"
      /\ UNCHANGED <<db, masterKey, fs, raw, cfg, clock, rProg, page, outside, byHand>>
    BY DEF DumpFails, disk
<1>2. /\ RequestsFollow /\ AllQuiet /\ (\A o \in Reqs \ {r} : request'[o] = request[o])
      /\ request'[r].op = request[r].op
      /\ (request[r].op \in Restores => request'[r].ok = FALSE)
    BY <1>1, AfterBackupFollows
<1>3. BackupTypeOK'
    BY <1>1, <1>2 DEF BackupInv, BackupTypeOK, RequestsFollow
<1>4. ProgressFollows(request', bProg', rProg')
    BY <1>1, <1>2 DEF BackupInv, ProgressFollows, Active
<1> QED BY <1>1, <1>2, <1>3, <1>4, BackupQuietStep

LEMMA NotifiedStep ==
    ASSUME BackupInv, NEW r \in Reqs, Notified(r) PROVE BackupInv'
<1>1. /\ request[r].pc = "notify" /\ Step(r, AfterBackup(request[r], TRUE))
      /\ UNCHANGED <<db, masterKey, fs, raw, cfg, clock, bProg, rProg, page, outside, byHand>>
    BY DEF Notified, disk
<1>2. /\ RequestsFollow /\ AllQuiet /\ (\A o \in Reqs \ {r} : request'[o] = request[o])
      /\ request'[r].op = request[r].op
      /\ (request[r].op \in Restores => request'[r].ok = FALSE)
    BY <1>1, AfterBackupFollows
<1>3. BackupTypeOK'
    BY <1>1, <1>2 DEF BackupInv, BackupTypeOK, RequestsFollow
<1>4. ProgressFollows(request', bProg', rProg')
    BY <1>1, <1>2 DEF BackupInv, ProgressFollows, Making
<1> QED BY <1>1, <1>2, <1>3, <1>4, BackupQuietStep

\* The failures of a restore after its safety backup.
LEMMA FailStep ==
    ASSUME BackupInv, NEW r \in Reqs, request[r].pc \in {"read", "psql"},
           Step(r, Fail(request[r])), UNCHANGED <<db, disk, clock, bProg, page, outside, byHand>>,
           masterKey' \in Keys,
           rProg' \in {"idle", "decrypting", "decompressing", "restoring", "done", "error"}
    PROVE  BackupInv'
<1>1. /\ RequestsFollow /\ AllQuiet
      /\ request'[r].op \in Restores /\ request'[r].ok = FALSE
      /\ \A o \in Reqs : request[o].pc \in Making => request'[o].pc \in Making
    BY FailFollows
<1>2. BackupTypeOK'
    BY <1>1 DEF BackupInv, BackupTypeOK, RequestsFollow, disk
<1>3. ProgressFollows(request', bProg', rProg')
    BY <1>1 DEF BackupInv, ProgressFollows
<1> QED BY <1>1, <1>2, <1>3, BackupQuietStep DEF disk

\* What a restore reads is a stored file, and an encrypted one has its key.
LEMMA SourceStored ==
    ASSUME BackupInv, NEW r \in Reqs, request[r].pc = "read", Source(request[r]) # None
    PROVE  Source(request[r]) \in Stored /\ KeyInstalled(request[r]) \in Keys
<1>1. request[r] \in Request /\ RequestShape(request[r])
    BY RequestTyped
<1>2. CASE request[r].op = "upload"
    <2>1. Source(request[r]) = request[r].asked /\ request[r].asked \in Stored
        BY <1>1, <1>2 DEF Source, RequestShape
    <2>2. request[r].asked.key \in Keys \cup {None}
        BY <2>1 DEF Stored
    <2>3. QED BY <1>2, <2>1, <2>2 DEF KeyInstalled, Encrypted, BackupInv, BackupTypeOK
<1>3. CASE request[r].op # "upload"
    <2>1. request[r].from \in File
        BY <1>1, <1>3 DEF RequestShape, Restores
    <2>2. Source(request[r]) = fs[request[r].from]
        BY <1>3 DEF Source
    <2>3. fs[request[r].from] \in Stored
        BY <2>1, <2>2 DEF BackupInv, BackupTypeOK
    <2>4. request[r].from.enc => fs[request[r].from].key \in Keys
        BY <2>1, <2>2 DEF BackupInv, KeysSealed
    <2>5. QED BY <1>3, <2>2, <2>3, <2>4 DEF KeyInstalled, Encrypted, BackupInv, BackupTypeOK
<1>4. QED BY <1>2, <1>3

LEMMA RestoreFails ==
    ASSUME BackupInv, NEW r \in Reqs,
           WrongPassword(r) \/ ReadRaises(r) \/ PsqlNotStarted(r) \/ PsqlFails(r)
    PROVE  BackupInv'
<1>1. masterKey \in Keys
      /\ rProg \in {"idle", "decrypting", "decompressing", "restoring", "done", "error"}
    BY DEF BackupInv, BackupTypeOK
<1>2. CASE WrongPassword(r)
    BY <1>1, <1>2, FailStep DEF WrongPassword
<1>3. CASE ReadRaises(r)
    BY <1>1, <1>3, FailStep DEF ReadRaises
<1>4. CASE PsqlNotStarted(r)
    BY <1>1, <1>4, SourceStored, FailStep DEF PsqlNotStarted
<1>5. CASE PsqlFails(r)
    BY <1>1, <1>5, FailStep DEF PsqlFails
<1>6. QED BY <1>2, <1>3, <1>4, <1>5

LEMMA PsqlSucceedsStep ==
    ASSUME BackupInv, NEW r \in Reqs, PsqlSucceeds(r) PROVE BackupInv'
<1> DEFINE q == request[r]
<1> DEFINE s == [q EXCEPT !.pc = "answered", !.ok = TRUE]
<1>1. /\ q.pc = "psql" /\ rProg' = "done" /\ Step(r, s)
      /\ db' \in {Mixed} \cup (IF q.alone THEN {q.read.data} ELSE {})
      /\ UNCHANGED <<masterKey, fs, raw, cfg, clock, bProg, page, outside, byHand>>
    BY DEF PsqlSucceeds, disk
<1>2. q \in Request /\ RequestShape(q)
    BY RequestTyped
<1>3. s \in Request
    BY <1>2 DEF Request
<1>4. RequestShape(s)
    BY <1>1, <1>2 DEF RequestShape, Request, Restores, Busy, Making
<1>5. Moves(q, s, fs) /\ Unseen(q, s) /\ Quiet(q, s)
    BY <1>1, <1>2 DEF Moves, Unseen, Quiet, Request, Begun, Making, Coming
<1> HIDE DEF s
<1>6. /\ RequestsFollow
      /\ request'[r] = s /\ \A o \in Reqs \ {r} : request'[o] = request[o]
    BY <1>1, <1>3, <1>4, <1>5, OneFollows
<1>7. AllQuiet
    BY <1>5, <1>6, QuietOne
<1>8. db' \in Dumps
    BY <1>1, <1>2 DEF RequestShape, Stored, Dumps
<1>9. BackupTypeOK'
    BY <1>1, <1>6, <1>8 DEF BackupInv, BackupTypeOK, RequestsFollow
<1>10. ProgressFollows(request', bProg', rProg')
    BY <1>1, <1>6 DEF BackupInv, ProgressFollows, Active, Making
<1> QED BY <1>1, <1>6, <1>7, <1>9, <1>10, BackupQuietStep

LEMMA BeginPsqlStep ==
    ASSUME BackupInv, NEW r \in Reqs, BeginPsql(r) PROVE BackupInv'
<1> DEFINE q == request[r]
<1> DEFINE s == [q EXCEPT !.pc = "psql", !.read = Source(q), !.alone = Psqls = {}]
<1> DEFINE t(i) == [request[i] EXCEPT !.alone = @ /\ request[i].pc # "psql",
                                      !.killed = @ \/ Terminated(q, i)]
<1>1. /\ q.pc = "read" /\ Source(q) # None
      /\ masterKey' = KeyInstalled(q) /\ db' = Mixed
      /\ request' = [i \in Reqs |-> IF i = r THEN s ELSE t(i)]
      /\ rProg' = "restoring"
      /\ UNCHANGED <<fs, raw, cfg, clock, bProg, page, outside, byHand>>
    BY DEF BeginPsql, disk
<1>2. Source(q) \in Stored /\ KeyInstalled(q) \in Keys
    BY <1>1, SourceStored
<1>3. q \in Request /\ RequestShape(q)
    BY RequestTyped
<1>0. PICK b \in BOOLEAN : b = (Psqls = {})
    BY Zenon
<1>4. /\ s = [q EXCEPT !.pc = "psql", !.read = Source(q), !.alone = b]
      /\ s \in Request /\ s.op \in Restores /\ s.ok = FALSE
    <2>1. s = [q EXCEPT !.pc = "psql", !.read = Source(q), !.alone = b]
        BY Zenon, <1>0
    <2> HIDE DEF s
    <2>2. s \in Request /\ s.op = q.op /\ s.ok = q.ok
        BY <1>2, <1>3, <2>1 DEF Request, Busy
    <2>3. QED BY <1>1, <1>3, <2>1, <2>2 DEF RequestShape, Busy
<1> HIDE DEF s
<1>5. RequestShape(s)
    BY <1>1, <1>2, <1>3, <1>4 DEF RequestShape, Request, Restores, Busy, Making
<1>6. q.op # "upload" => Source(q) = fs[q.from]
    BY DEF Source
<1>7. Moves(q, s, fs) /\ Unseen(q, s) /\ Quiet(q, s)
    BY <1>1, <1>3, <1>4, <1>6 DEF Moves, Unseen, Quiet, Request, Begun, Making, Coming
<1>8. ASSUME NEW i \in Reqs
      PROVE  /\ t(i) \in Request /\ RequestShape(t(i))
             /\ t(i) = request[i] \/ (Moves(request[i], t(i), fs) /\ Unseen(request[i], t(i)))
             /\ Quiet(request[i], t(i))
             /\ t(i).pc = request[i].pc
    <2>1. request[i] \in Request /\ RequestShape(request[i])
        BY RequestTyped
    <2>0. PICK b1 \in BOOLEAN, b2 \in BOOLEAN :
              /\ b1 = (request[i].alone /\ request[i].pc # "psql")
              /\ b2 = (request[i].killed \/ Terminated(q, i))
        BY Zenon
    <2>9. t(i) = [request[i] EXCEPT !.alone = b1, !.killed = b2]
        <3>1. t(i) = [request[i] EXCEPT !.alone = (request[i].alone /\ request[i].pc # "psql"),
                                        !.killed = (request[i].killed \/ Terminated(q, i))]
            BY <2>1 DEF Request
        <3>2. QED BY Zenon, <3>1, <2>0
    <2>10. (request[i].pc = "free") => b2 = request[i].killed /\ b1 = request[i].alone
        BY <2>0, <2>1 DEF Terminated, Request
    <2> HIDE DEF t
    <2>2. t(i) \in Request
        BY <2>1, <2>9 DEF Request
    <2>3. /\ t(i).pc = request[i].pc /\ t(i).op = request[i].op /\ t(i).by = request[i].by
          /\ t(i).loc = request[i].loc /\ t(i).minute = request[i].minute
          /\ t(i).enc = request[i].enc /\ t(i).chosen = request[i].chosen
          /\ t(i).from = request[i].from /\ t(i).asked = request[i].asked
          /\ t(i).calm = request[i].calm /\ t(i).read = request[i].read
          /\ t(i).snap = request[i].snap /\ t(i).safety = request[i].safety
          /\ t(i).ok = request[i].ok
        BY <2>1, <2>9 DEF Request
    <2>4. RequestShape(t(i))
        BY <2>1, <2>3 DEF RequestShape
    <2>5. CASE ~Begun(request[i])
        <3>1. t(i) = [request[i] EXCEPT !.alone = request[i].alone, !.killed = request[i].killed]
            BY <2>5, <2>9, <2>10 DEF Begun
        <3>2. t(i) = request[i]
            BY <2>1, <3>1 DEF Request
        <3>3. QED BY <2>2, <2>3, <2>4, <3>2 DEF Quiet
    <2>6. CASE Begun(request[i])
        <3>1. Moves(request[i], t(i), fs) /\ Unseen(request[i], t(i)) /\ Quiet(request[i], t(i))
            BY <2>3, <2>6 DEF Moves, Unseen, Quiet, Begun
        <3>2. QED BY <2>2, <2>3, <2>4, <3>1
    <2>7. QED BY <2>5, <2>6
<1> HIDE DEF t
<1>9. request'[r] = s /\ \A i \in Reqs \ {r} : request'[i] = t(i)
    BY <1>1
<1>10. request' \in [Reqs -> Request]
    <2>1. \A i \in Reqs : (IF i = r THEN s ELSE t(i)) \in Request
        BY <1>4, <1>8
    <2>2. QED BY <1>1, <2>1
<1>11. RequestsFollow
    <2>1. \A i \in Reqs : RequestShape(request'[i])
        BY <1>5, <1>8, <1>9
    <2>2. Moved(request, request', fs)
        BY <1>7, <1>8, <1>9 DEF Moved
    <2>3. \A i \in Reqs : request'[i] = request[i] \/ Unseen(request[i], request'[i])
        BY <1>7, <1>8, <1>9
    <2>4. QED BY <1>10, <2>1, <2>2, <2>3 DEF RequestsFollow
<1>12. AllQuiet
    BY <1>7, <1>8, <1>9 DEF AllQuiet
<1>13. BackupTypeOK'
    BY <1>1, <1>2, <1>10 DEF BackupInv, BackupTypeOK, Dumps
<1>15. \A i \in Reqs : request[i].pc \in Making => request'[i].pc \in Making
    BY <1>1, <1>8, <1>9 DEF Making
<1>16. ProgressFollows(request', bProg', rProg')
    BY <1>1, <1>4, <1>9, <1>15 DEF BackupInv, ProgressFollows
<1> QED BY <1>1, <1>11, <1>12, <1>13, <1>16, BackupQuietStep

LEMMA CrashStep ==
    ASSUME BackupInv, Crash PROVE BackupInv'
<1> DEFINE t(i) == IF request[i].pc \in Busy THEN [request[i] EXCEPT !.pc = "lost"] ELSE request[i]
<1>1. /\ request' = [i \in Reqs |-> t(i)]
      /\ bProg' = "idle" /\ rProg' = "idle" /\ outside < MaxOutside /\ outside' = outside + 1
      /\ UNCHANGED <<db, masterKey, fs, raw, cfg, clock, page, byHand>>
    BY DEF Crash, disk, Outside
<1>2. ASSUME NEW i \in Reqs
      PROVE  /\ t(i) \in Request /\ RequestShape(t(i))
             /\ t(i) = request[i] \/ (Moves(request[i], t(i), fs) /\ Unseen(request[i], t(i)))
             /\ Quiet(request[i], t(i))
    <2>1. request[i] \in Request /\ RequestShape(request[i])
        BY RequestTyped
    <2>2. CASE request[i].pc \in Busy
        <3>1. t(i) = [request[i] EXCEPT !.pc = "lost"]
            BY <2>2
        <3>2. t(i) \in Request
            BY <2>1, <3>1 DEF Request
        <3>3. RequestShape(t(i))
            BY <2>1, <2>2, <3>1 DEF RequestShape, Request, Restores, Busy, Making
        <3>4. Moves(request[i], t(i), fs) /\ Unseen(request[i], t(i)) /\ Quiet(request[i], t(i))
            BY <2>1, <2>2, <3>1 DEF Moves, Unseen, Quiet, Request, Begun, Making, Coming, Busy
        <3>5. QED BY <3>2, <3>3, <3>4
    <2>3. CASE request[i].pc \notin Busy
        BY <2>1, <2>3 DEF Quiet
    <2>4. QED BY <2>2, <2>3
<1> HIDE DEF t
<1>3. \A i \in Reqs : request'[i] = t(i)
    BY <1>1
<1>4. request' \in [Reqs -> Request]
    BY <1>1, <1>2
<1>5. RequestsFollow
    BY <1>2, <1>3, <1>4 DEF RequestsFollow, Moved
<1>6. AllQuiet
    BY <1>2, <1>3 DEF AllQuiet
<1>7. BackupTypeOK'
    BY <1>1, <1>4, BackupAssumption DEF BackupInv, BackupTypeOK
<1>8. ProgressFollows(request', bProg', rProg')
    BY <1>1 DEF ProgressFollows, Active
<1> QED BY <1>1, <1>5, <1>6, <1>7, <1>8, BackupQuietStep

\* Pages that agree in what a restore shows follow the same requests.
LEMMA PagesAlike ==
    ASSUME NEW S, NEW P, NEW Q, PageFollows(S, P),
           \A p \in Pages : /\ Q[p].restore = P[p].restore /\ Q[p].file = P[p].file
                            /\ Q[p].shown = P[p].shown /\ Q[p].early = P[p].early
    PROVE  PageFollows(S, Q)
BY DEF PageFollows, PageTold

\* A request that no page waits for as a restore is answered.
LEMMA ForgottenFollows ==
    ASSUME NEW R, NEW S, NEW P \in [Pages -> Page], NEW r \in Reqs, PageFollows(R, P),
           R[r].pc # "seen", S[r].pc = "seen", S[r].op = R[r].op, S[r].by = R[r].by,
           \A o \in Reqs \ {r} : S[o] = R[o]
    PROVE  PageFollows(S, P)
<1>1. \A p \in Pages : \A o \in Asking(S, p) : o \in Asking(R, p) /\ S[o] = R[o]
    BY DEF Asking
<1>2. \A p \in Pages : P[p].shown \in Reqs \cup {None}
    BY DEF Page
<1>3. \A p \in Pages : P[p].shown # None => S[P[p].shown] = R[P[p].shown]
    BY <1>2 DEF PageFollows, PageTold
<1>4. QED BY <1>1, <1>3 DEF PageFollows, PageTold

\* A restore is answered and its page shows it.
LEMMA ShownFollows ==
    ASSUME NEW R, NEW S, NEW P \in [Pages -> Page], NEW Q, NEW r \in Reqs, PageFollows(R, P),
           R[r] \in Request, R[r].op = "restore", R[r].by \in Pages,
           R[r].pc \in {"answered", "lost"},
           S[r].pc = "seen", S[r].op = R[r].op, S[r].by = R[r].by, S[r].chosen = R[r].chosen,
           S[r].ok = R[r].ok, \A o \in Reqs \ {r} : S[o] = R[o],
           NEW x \in {"done", "error"}, x = "done" => R[r].ok,
           Q = [P EXCEPT ![R[r].by].restore = x, ![R[r].by].shown = r]
    PROVE  PageFollows(S, Q) /\ Q \in [Pages -> Page]
<1> DEFINE p == R[r].by
<1>1. PageFollows(S, P)
    BY ForgottenFollows
<1>2. /\ Q \in [Pages -> Page]
      /\ \A i \in Pages \ {p} : Q[i] = P[i]
      /\ Q[p].restore = x /\ Q[p].shown = r
      /\ Q[p].file = P[p].file /\ Q[p].early = P[p].early
    <2> HIDE DEF p
    <2>1. p \in Pages /\ P[p] \in Page /\ Q = [P EXCEPT ![p].restore = x, ![p].shown = r]
        BY DEF p
    <2> DEFINE y == [P[p] EXCEPT !.restore = x, !.shown = r]
    <2>2. /\ y \in Page /\ y.restore = x /\ y.shown = r
          /\ y.file = P[p].file /\ y.early = P[p].early
        BY <2>1 DEF Page
    <2>3. Q = [P EXCEPT ![p] = y]
        BY <2>1
    <2> HIDE DEF y
    <2>4. QED BY <2>1, <2>2, <2>3
<1>3. r \in Asking(R, p)
    BY DEF Asking
<1>4. Q[p].early \/ (P[p].file = R[r].chosen /\ \A o \in Asking(R, p) : o = r)
    BY <1>2, <1>3 DEF PageFollows, PageTold
<1>5. \A o \in Asking(S, p) : o \in Asking(R, p) /\ o # r
    BY DEF Asking
<1>6. r # None
    BY NoneAssumption
<1>7. PageTold(S, Q[p], p)
    <2>1. PICK y : y = Q[p]
        OBVIOUS
    <2>2. S[y.shown].pc = "seen" /\ S[y.shown].op = "restore"
        BY <1>2, <2>1
    <2>3. y.restore = "done" => S[y.shown].ok
        BY <1>2, <2>1
    <2>4. y.shown # None /\ (y.early \/ S[y.shown].chosen = y.file)
        BY <1>2, <1>4, <1>6, <2>1
    <2>5. y.early \/ \A o \in Asking(S, p) : FALSE
        BY <1>2, <1>4, <1>5, <2>1
    <2>6. PageTold(S, y, p)
        BY <2>2, <2>3, <2>4, <2>5 DEF PageTold
    <2>7. QED BY <2>1, <2>6
<1>8. \A i \in Pages \ {p} : PageTold(S, Q[i], i)
    BY <1>1, <1>2 DEF PageFollows
<1>9. QED BY <1>2, <1>7, <1>8 DEF PageFollows

\* The answer reaches the page: the restore is no longer asked for, and the
\* modal shows it, under its own file unless a modal was closed early.
LEMMA ResponseStep ==
    ASSUME BackupInv, NEW r \in Reqs, Response(r) PROVE BackupInv'
<1> DEFINE q == request[r]
<1> DEFINE s == [q EXCEPT !.pc = "seen", !.killed = FALSE, !.right = TRUE, !.alone = TRUE]
<1>1. /\ q.pc \in {"answered", "lost"} /\ Step(r, s)
      /\ page' = IF q.by = None THEN page
                 ELSE CASE q.op = "backup" -> [page EXCEPT ![q.by].backup = "idle"]
                        [] q.op = "upload" -> [page EXCEPT ![q.by].upload = "idle"]
                        [] q.op = "restore" ->
                             [page EXCEPT ![q.by].restore = IF q.ok THEN "done" ELSE "error",
                                          ![q.by].shown = r]
      /\ UNCHANGED <<db, masterKey, fs, raw, cfg, clock, bProg, rProg, outside, byHand>>
    BY DEF Response, disk
<1>2. q \in Request /\ RequestShape(q)
    BY RequestTyped
<1>3. s \in Request
    BY <1>2 DEF Request
<1>4. /\ s.pc = "seen" /\ s.op = q.op /\ s.by = q.by /\ s.loc = q.loc /\ s.minute = q.minute
      /\ s.enc = q.enc /\ s.chosen = q.chosen /\ s.from = q.from /\ s.asked = q.asked
      /\ s.calm = q.calm /\ s.read = q.read /\ s.snap = q.snap /\ s.safety = q.safety /\ s.ok = q.ok
    BY <1>2 DEF Request
<1>5. RequestShape(s)
    BY <1>1, <1>2, <1>4 DEF RequestShape, Busy, Making
<1>6. Moves(q, s, fs) /\ Quiet(q, s)
    BY <1>1, <1>4 DEF Moves, Quiet, Begun, Making, Coming
<1> HIDE DEF s
<1>7. request \in [Reqs -> Request] /\ page \in [Pages -> Page]
    BY DEF BackupInv, BackupTypeOK
<1>8. request' = [request EXCEPT ![r] = s]
    BY <1>1 DEF Step
<1>9. /\ request' \in [Reqs -> Request]
      /\ request'[r] = s /\ \A o \in Reqs \ {r} : request'[o] = request[o]
    BY <1>3, <1>7, <1>8
<1>10. Moved(request, request', fs) /\ AllQuiet
    BY <1>6, <1>9 DEF Moved, AllQuiet
<1>11. PageFollows(request', page') /\ page' \in [Pages -> Page]
    <2>1. CASE q.op = "restore" /\ q.by \in Pages
        <3> DEFINE x == IF q.ok THEN "done" ELSE "error"
        <3>1. page' = [page EXCEPT ![q.by].restore = x, ![q.by].shown = r]
            <4>1. q.by # None /\ q.op # "backup" /\ q.op # "upload"
                BY <2>1, NoneAssumption
            <4> DEFINE A == [page EXCEPT ![q.by].backup = "idle"]
            <4> DEFINE B == [page EXCEPT ![q.by].upload = "idle"]
            <4> DEFINE C == [page EXCEPT ![q.by].restore = x, ![q.by].shown = r]
            <4>2. page' = IF q.by = None THEN page
                          ELSE CASE q.op = "backup" -> A [] q.op = "upload" -> B
                                 [] q.op = "restore" -> C
                BY Zenon, <1>1
            <4> HIDE DEF A, B, C
            <4>3. page' = C
                BY <2>1, <4>1, <4>2
            <4>4. QED BY <4>3 DEF C
        <3>2. x \in {"done", "error"} /\ (x = "done" => q.ok)
            OBVIOUS
        <3> HIDE DEF x
        <3>3. q.pc \in {"answered", "lost"} /\ PageFollows(request, page)
            BY <1>1 DEF BackupInv
        <3>4. QED
            BY ONLY <1>2, <1>4, <1>7, <1>9, <2>1, <3>1, <3>2, <3>3, r \in Reqs, ShownFollows
    <2>2. CASE ~(q.op = "restore" /\ q.by \in Pages)
        <3>1. \/ page' = page
              \/ q.by \in Pages /\ page' = [page EXCEPT ![q.by].backup = "idle"]
              \/ q.by \in Pages /\ page' = [page EXCEPT ![q.by].upload = "idle"]
            <4>1. q.by \in Pages \cup {None}
                BY <1>2 DEF Request
            <4>2. CASE q.by = None
                BY <1>1, <4>2
            <4>3. CASE q.by # None /\ q.op = "backup"
                BY <1>1, <4>1, <4>3
            <4>4. CASE q.by # None /\ q.op = "upload"
                BY <1>1, <4>1, <4>4
            <4>5. q.op \in {"none", "backup", "upload", "restore"} /\ q.op # "none"
                BY <1>1, <1>2 DEF Request, RequestShape
            <4>6. QED BY <2>2, <4>1, <4>2, <4>3, <4>4, <4>5
        <3>2. page' \in [Pages -> Page]
            BY <1>7, <3>1 DEF Page
        <3>3. \A p \in Pages : /\ page'[p].restore = page[p].restore /\ page'[p].file = page[p].file
                                /\ page'[p].shown = page[p].shown /\ page'[p].early = page[p].early
            BY <1>7, <3>1 DEF Page
        <3>4. \A p \in Pages : r \notin Asking(request, p)
            BY <2>2 DEF Asking
        <3>5. PageFollows(request', page)
            BY <1>1, <1>4, <1>7, <1>9, <3>4, ForgottenFollows DEF BackupInv
        <3>6. PageFollows(request', page')
            BY <3>3, <3>5, PagesAlike
        <3>7. QED BY <3>2, <3>6
    <2>3. QED BY <2>1, <2>2
<1>12. Numbered(request') /\ FilesMade(fs, request')
    BY <1>10, MovedKeeps DEF BackupInv
<1>13. ChoiceKept(request', fs)
    <2>1. \A x \in Reqs : request[x].op = "restore" => request[x].from \in File
        BY DEF BackupInv, RequestShape
    <2>2. \A f \in File : fs[f] = fs[f] \/ fs[f] = None
                      \/ \E o \in Reqs : request[o].pc \in Making /\ request[o].minute = f.minute
        OBVIOUS
    <2>3. QED BY <1>10, <2>1, <2>2, ChoiceMoves DEF BackupInv
<1>14. SafetyComing(request', fs, raw, byHand)
    BY <1>10, SafetyMoves DEF BackupInv, AllQuiet
<1>15. \A o \in Reqs : RequestShape(request'[o])
    BY <1>5, <1>9 DEF BackupInv
<1>16. ProgressFollows(request', bProg', rProg')
    BY <1>1, <1>4, <1>9 DEF BackupInv, ProgressFollows, Making
<1>17. BackupTypeOK'
    BY <1>1, <1>9, <1>11 DEF BackupInv, BackupTypeOK
<1> QED BY <1>1, <1>11, <1>12, <1>13, <1>14, <1>15, <1>16, <1>17 DEF BackupInv

\* Rotation only removes, and it never removes a plain file that is the newest
\* of all.
LEMMA RotateRemoves ==
    ASSUME NEW D, NEW max
    PROVE  \A f \in File : Rotate(D, max)[f] = D[f] \/ Rotate(D, max)[f] = None
BY DEF Rotate

LEMMA RotateTyped ==
    ASSUME NEW D \in [File -> Stored \cup {None}], NEW max
    PROVE  Rotate(D, max) \in [File -> Stored \cup {None}]
<1> DEFINE gone == {[f EXCEPT !.loc = Root] : f \in OverLimit(D, max)}
<1>1. Rotate(D, max) = [f \in File |-> IF f \in gone THEN None ELSE D[f]]
    BY DEF Rotate
<1> HIDE DEF gone
<1>2. QED BY <1>1

LEMMA RotateSparesNewest ==
    ASSUME NEW D, NEW max \in Limits, NEW g \in File, g.enc = FALSE,
           \A f \in File : D[f] # None => \/ f.minute < g.minute
                                          \/ f.minute = g.minute /\ f.loc = g.loc
    PROVE  Rotate(D, max)[g] = D[g]
<1>1. SUFFICES ASSUME NEW f \in OverLimit(D, max), g = [f EXCEPT !.loc = Root] PROVE FALSE
    BY DEF Rotate
<1>2. /\ f \in File /\ D[f] # None
      /\ Cardinality({h \in File : D[h] # None /\ Before(h, f)}) >= max
    BY DEF OverLimit
<1>3. f.minute = g.minute /\ f.enc = FALSE
    BY <1>1, <1>2 DEF File
<1>4. \A h \in File : h.minute \in Int
    BY DEF File, Minutes
<1>5. f.loc = g.loc
    BY <1>2, <1>3, <1>4
<1>6. ASSUME NEW h \in File, D[h] # None, Before(h, f) PROVE FALSE
    <2>1. h.minute < g.minute \/ (h.minute = g.minute /\ h.loc = g.loc)
        BY <1>6
    <2>2. CASE h.minute < g.minute
        BY <1>3, <1>4, <1>6, <2>2 DEF Before
    <2>3. CASE h.minute = g.minute /\ h.loc = g.loc
        BY <1>3, <1>4, <1>5, <1>6, <2>3 DEF Before
    <2>4. QED BY <2>1, <2>2, <2>3
<1>7. {h \in File : D[h] # None /\ Before(h, f)} = {}
    BY <1>6
<1>8. Cardinality({h \in File : D[h] # None /\ Before(h, f)}) = 0
    BY Zenon, <1>7, FS_EmptySet
<1>9. max \in Nat \ {0}
    BY BackupAssumption
<1>10. QED BY <1>2, <1>8, <1>9

\* A step of a request or of the directory that writes no file but those of an
\* unfinished backup's name.
LEMMA BackupFilesStep ==
    ASSUME BackupInv, RequestsFollow, page' = page,
           \A f \in File : \/ fs'[f] = fs[f] \/ fs'[f] = None
                           \/ \E o \in Reqs : /\ request[o].pc \in Making
                                              /\ request[o].minute = f.minute
                                              /\ request[o].loc = f.loc,
           KeysSealed(fs'), SafetyComing(request', fs', raw', byHand'),
           ProgressFollows(request', bProg', rProg'), BackupTypeOK'
    PROVE  BackupInv'
<1>1. Numbered(request') /\ FilesMade(fs, request')
    BY MovedKeeps DEF BackupInv, RequestsFollow
<1>2. FilesMade(fs', request')
    <2>1. \A o \in Reqs : request[o].pc \in Making =>
              Begun(request'[o]) /\ request'[o].minute = request[o].minute
                                 /\ request'[o].loc = request[o].loc
        BY DEF RequestsFollow, Moved, Moves, Begun, Making
    <2>2. QED BY <1>1, <2>1 DEF FilesMade
<1>3. \A r \in Reqs : request[r].op = "restore" => request[r].from \in File
    BY DEF BackupInv, RequestShape
<1>4. ChoiceKept(request', fs')
    <2>1. \A f \in File : \/ fs'[f] = fs[f] \/ fs'[f] = None
                          \/ \E o \in Reqs : request[o].pc \in Making /\ request[o].minute = f.minute
        OBVIOUS
    <2>2. QED BY <1>3, <2>1, ChoiceMoves DEF BackupInv, RequestsFollow
<1>5. PageFollows(request', page')
    BY PageMoves DEF BackupInv, BackupTypeOK, RequestsFollow
<1>6. \A r \in Reqs : RequestShape(request'[r])
    BY DEF RequestsFollow
<1> QED BY <1>1, <1>2, <1>4, <1>5, <1>6 DEF BackupInv

\* What is known of a request that is the newest after a step and of the others.
LEMMA NewestBefore ==
    ASSUME BackupInv, RequestsFollow, NEW x \in Reqs,
           request'[x].op \in Restores, NewestIn(request', x)
    PROVE  /\ request[x].op \in Restores /\ Begun(request[x]) /\ request[x].enc = FALSE
           /\ SafetyWay(request[x], fs, raw, byHand)
           /\ FileOf(request'[x]) = FileOf(request[x]) /\ FileOf(request[x]) \in File
           /\ \A o \in Reqs : (o # x /\ Begun(request[o])) => request[o].minute < request[x].minute
           /\ \A f \in File : fs[f] # None => \/ f.minute < request[x].minute
                                              \/ f.minute = request[x].minute /\ f.loc = request[x].loc
<1>1. request[x] \in Request /\ RequestShape(request[x])
    BY RequestTyped
<1>2. request'[x] = request[x] \/ Moves(request[x], request'[x], fs)
    BY DEF RequestsFollow, Moved
<1>3. /\ request'[x].op = request[x].op /\ request'[x].minute = request[x].minute
      /\ FileOf(request'[x]) = FileOf(request[x])
    BY <1>2 DEF Moves, FileOf
<1>4. \A o \in Reqs : Begun(request[o]) =>
          Begun(request'[o]) /\ request'[o].minute = request[o].minute
    BY DEF RequestsFollow, Moved, Moves
<1>5. NewestIn(request, x)
    BY <1>3, <1>4 DEF NewestIn
<1>6. SafetyWay(request[x], fs, raw, byHand)
    BY <1>3, <1>5 DEF BackupInv, SafetyComing
<1>7. Begun(request[x]) /\ request[x].enc = FALSE
    BY <1>1, <1>3 DEF RequestShape, Begun, Restores
<1>8. FileOf(request[x]) \in File
    BY <1>1 DEF FileOf, File, Request
<1>9. \A f \in File : fs[f] # None => \/ f.minute < request[x].minute
                                      \/ f.minute = request[x].minute /\ f.loc = request[x].loc
    BY <1>5 DEF BackupInv, FilesMade, NewestIn
<1>10. QED BY <1>3, <1>5, <1>6, <1>7, <1>8, <1>9 DEF NewestIn

LEMMA BeginDumpStep ==
    ASSUME BackupInv, NEW r \in Reqs, BeginDump(r) PROVE BackupInv'
<1> DEFINE q == request[r]
<1> DEFINE s == [q EXCEPT !.pc = "dump", !.snap = db]
<1> DEFINE shared == \E o \in Reqs \ {r} : /\ request[o].pc = "dump" /\ request[o].loc = q.loc
                                           /\ request[o].minute = q.minute
<1>1. /\ q.pc = "count" /\ Step(r, s) /\ bProg' = "dumping"
      /\ raw' = [raw EXCEPT ![<<q.loc, q.minute>>] = IF shared THEN Mixed ELSE db]
      /\ UNCHANGED <<db, masterKey, fs, cfg, clock, rProg, page, outside, byHand>>
    BY DEF BeginDump
<1>2. q \in Request /\ RequestShape(q) /\ db \in Dumps
    BY RequestTyped DEF BackupInv, BackupTypeOK
<1>3. s \in Request
    BY <1>2 DEF Request, Busy
<1>4. RequestShape(s) /\ s.ok = q.ok
    BY <1>1, <1>2 DEF RequestShape, Request, Restores, Busy, Making
<1>5. Moves(q, s, fs) /\ Unseen(q, s)
    BY <1>1, <1>2 DEF Moves, Unseen, Request, Begun, Making, Coming
<1>6. s.loc = q.loc /\ s.minute = q.minute /\ s.pc = "dump" /\ s.snap = db /\ s.safety = FALSE
      /\ s.op = q.op
    BY <1>1, <1>2 DEF Request, RequestShape, Making
<1> HIDE DEF s
<1>7. /\ RequestsFollow
      /\ request'[r] = s /\ \A o \in Reqs \ {r} : request'[o] = request[o]
    BY <1>1, <1>3, <1>4, <1>5, OneFollows
<1>8. raw \in [Locs \X Minutes -> Dumps \cup {None}] /\ q.loc \in Locs /\ q.minute \in Minutes
    BY <1>2 DEF BackupInv, BackupTypeOK, Request
<1> DEFINE dump == IF shared THEN Mixed ELSE db
<1>9. dump \in Dumps /\ (~shared => dump = db)
    BY <1>2 DEF Dumps
<1> HIDE DEF dump
<1>10. /\ raw' = [raw EXCEPT ![<<q.loc, q.minute>>] = dump]
       /\ raw' \in [Locs \X Minutes -> Dumps \cup {None}]
    <2>1. raw' = [raw EXCEPT ![<<q.loc, q.minute>>] = dump]
        BY <1>1 DEF dump
    <2>2. QED BY <1>8, <1>9, <2>1
<1>11. SafetyComing(request', fs', raw', byHand')
    <2>1. SUFFICES ASSUME NEW x \in Reqs, request'[x].op \in Restores, NewestIn(request', x)
                   PROVE  SafetyWay(request'[x], fs, raw', byHand)
        BY <1>1 DEF SafetyComing
    <2>2. /\ SafetyWay(request[x], fs, raw, byHand)
          /\ \A o \in Reqs : (o # x /\ Begun(request[o])) => request[o].minute < request[x].minute
        BY <1>7, <2>1, NewestBefore
    <2>3. \A o \in Reqs : request[o].minute \in Int
        BY RequestTyped DEF Request, Minutes
    <2>4. CASE x = r
        <3>1. ~shared
            BY <2>2, <2>3, <2>4 DEF Begun
        <3>2. raw'[<<s.loc, s.minute>>] = s.snap
            BY <1>6, <1>8, <1>9, <1>10, <3>1
        <3>3. QED BY <1>6, <1>7, <2>4, <3>2 DEF SafetyWay
    <2>5. CASE x # r
        <3>1. request'[x] = request[x] /\ q.minute < request[x].minute
            BY <1>1, <1>7, <2>2, <2>5 DEF Begun
        <3>2. request[x].loc \in Locs /\ request[x].minute \in Minutes
            BY RequestTyped DEF Request
        <3>3. raw'[<<request[x].loc, request[x].minute>>] = raw[<<request[x].loc, request[x].minute>>]
            BY <1>8, <1>10, <2>3, <3>1, <3>2
        <3>4. QED BY <2>2, <3>1, <3>3 DEF SafetyWay
    <2>6. QED BY <2>4, <2>5
<1>12. ProgressFollows(request', bProg', rProg')
    <2>1. request'[r].pc \in Making
        BY <1>6, <1>7 DEF Making
    <2>2. QED BY <1>1, <1>4, <1>6, <1>7, <2>1 DEF BackupInv, ProgressFollows
<1>13. BackupTypeOK'
    BY <1>1, <1>7, <1>10 DEF BackupInv, BackupTypeOK, RequestsFollow
<1>14. KeysSealed(fs')
    BY <1>1 DEF BackupInv
<1> QED BY <1>1, <1>7, <1>11, <1>12, <1>13, <1>14, BackupFilesStep

\* The files of a directory are of the minutes of requests before x, or x's own
\* name: so it is before a step, and for what an archiving request writes.
LEMMA SafetyByRotation ==
    ASSUME BackupInv, RequestsFollow, NEW x \in Reqs, NEW r \in Reqs, NEW D, NEW max \in Limits,
           request'[x].op \in Restores, NewestIn(request', x), Begun(request[r]),
           \A f \in File : \/ D[f] = fs[f] \/ D[f] = None
                           \/ f.minute = request[r].minute /\ f.loc = request[r].loc
    PROVE  Rotate(D, max)[FileOf(request[x])] = D[FileOf(request[x])]
<1> DEFINE g == FileOf(request[x])
<1>1. /\ request[x].enc = FALSE /\ g \in File
      /\ \A o \in Reqs : (o # x /\ Begun(request[o])) => request[o].minute < request[x].minute
      /\ \A f \in File : fs[f] # None => \/ f.minute < request[x].minute
                                         \/ f.minute = request[x].minute /\ f.loc = request[x].loc
    BY NewestBefore
<1>2. g.minute = request[x].minute /\ g.loc = request[x].loc /\ g.enc = FALSE
    BY <1>1 DEF FileOf
<1> HIDE DEF g
<1>3. \A f \in File : D[f] # None => \/ f.minute < g.minute
                                     \/ f.minute = g.minute /\ f.loc = g.loc
    <2>1. request[r].minute < request[x].minute \/ r = x
        BY <1>1
    <2>2. QED BY <1>1, <1>2, <2>1
<1>4. Rotate(D, max)[g] = D[g]
    BY <1>1, <1>2, <1>3, RotateSparesNewest
<1>5. QED BY <1>4 DEF g

LEMMA GzFile ==
    ASSUME NEW q, q.loc \in Locs, q.minute \in Minutes, q.enc \in BOOLEAN
    PROVE  /\ FileOf(q) \in File /\ FileOf(q).minute = q.minute /\ FileOf(q).loc = q.loc
           /\ FileOf(q).enc = q.enc
           /\ GzOf(q) \in File /\ GzOf(q).minute = q.minute /\ GzOf(q).loc = q.loc
           /\ GzOf(q).enc = FALSE
           /\ q.enc = FALSE => GzOf(q) = FileOf(q)
<1>1. PICK f : f = FileOf(q)
    OBVIOUS
<1>2. f \in File /\ f.minute = q.minute /\ f.loc = q.loc /\ f.enc = q.enc
    BY <1>1 DEF FileOf, File
<1>3. PICK g : g = [f EXCEPT !.enc = FALSE]
    OBVIOUS
<1>4. g \in File /\ g.minute = f.minute /\ g.loc = f.loc /\ g.enc = FALSE
    BY <1>2, <1>3 DEF File
<1>5. f.enc = FALSE => g = f
    BY <1>2, <1>4 DEF File
<1>6. GzOf(q) = g
    BY Zenon, <1>1, <1>3 DEF GzOf
<1>7. QED BY <1>1, <1>2, <1>4, <1>5, <1>6

LEMMA NamedFiles ==
    ASSUME NEW f \in File PROVE Named(f) \subseteq File /\ \A g \in Named(f) : Exists(g)
<1>1. \A l \in Locs : [f EXCEPT !.loc = l] \in File
    BY DEF File
<1>2. Root \in Locs
    BY DEF Locs
<1>3. [f EXCEPT !.loc = Root] \in File
    BY <1>1, <1>2
<1>4. {[f EXCEPT !.loc = l] : l \in Locs} \subseteq File
    BY <1>1
<1> HIDE DEF File
<1>5. QED BY <1>3, <1>4 DEF Named

LEMMA ArchiveStep ==
    ASSUME BackupInv, NEW r \in Reqs, Archive(r) PROVE BackupInv'
<1> DEFINE q == request[r]
<1> DEFINE s == [q EXCEPT !.pc = "notify"]
<1> DEFINE dump == raw[<<q.loc, q.minute>>]
<1> DEFINE plain == [fs EXCEPT ![GzOf(q)] = [data |-> dump, key |-> None]]
<1> DEFINE final == IF q.enc THEN [plain EXCEPT ![FileOf(q)] = Sealed(dump), ![GzOf(q)] = None]
                    ELSE plain
<1>1. /\ q.pc = "dump" /\ dump # None /\ Step(r, s) /\ bProg' = "done"
      /\ fs' = Rotate(final, cfg.max)
      /\ raw' = [raw EXCEPT ![<<q.loc, q.minute>>] = None]
      /\ UNCHANGED <<db, masterKey, cfg, clock, rProg, page, outside, byHand>>
    BY DEF Archive
<1>2. q \in Request /\ RequestShape(q)
    BY RequestTyped
<1>3. s \in Request
    BY <1>2 DEF Request, Busy
<1>4. RequestShape(s) /\ s.ok = q.ok /\ s.op = q.op
    BY <1>1, <1>2 DEF RequestShape, Request, Restores, Busy, Making
<1>5. Moves(q, s, fs) /\ Unseen(q, s)
    BY <1>1, <1>2 DEF Moves, Unseen, Request, Begun, Making, Coming
<1>6. s.loc = q.loc /\ s.minute = q.minute /\ s.pc = "notify" /\ s.snap = q.snap
    BY <1>2 DEF Request
<1> HIDE DEF s
<1>7. /\ RequestsFollow
      /\ request'[r] = s /\ \A o \in Reqs \ {r} : request'[o] = request[o]
    BY <1>1, <1>3, <1>4, <1>5, OneFollows
<1>8. /\ raw \in [Locs \X Minutes -> Dumps \cup {None}] /\ q.loc \in Locs /\ q.minute \in Minutes
      /\ q.enc \in BOOLEAN /\ fs \in [File -> Stored \cup {None}] /\ masterKey \in Keys
      /\ cfg.max \in Limits
    BY <1>2 DEF BackupInv, BackupTypeOK, Request
<1>9. raw' \in [Locs \X Minutes -> Dumps \cup {None}]
    BY <1>1, <1>8
<1>10. dump \in Dumps
    BY <1>1, <1>8
<1>11. /\ FileOf(q) \in File /\ FileOf(q).minute = q.minute /\ FileOf(q).loc = q.loc
       /\ FileOf(q).enc = q.enc
       /\ GzOf(q) \in File /\ GzOf(q).minute = q.minute /\ GzOf(q).loc = q.loc
       /\ GzOf(q).enc = FALSE
       /\ q.enc = FALSE => GzOf(q) = FileOf(q)
    BY <1>8, GzFile
<1> HIDE DEF dump
<1>12. /\ plain \in [File -> Stored \cup {None}]
       /\ plain[GzOf(q)] = [data |-> dump, key |-> None]
       /\ \A f \in File : f # GzOf(q) => plain[f] = fs[f]
    <2>1. [data |-> dump, key |-> None] \in Stored
        BY <1>10 DEF Stored
    <2>2. QED BY <1>8, <1>11, <2>1
<1> HIDE DEF plain
<1>13. Sealed(dump) \in Stored /\ Sealed(dump).key \in Keys
    BY <1>8, <1>10 DEF Sealed, Stored
<1>14. /\ final \in [File -> Stored \cup {None}]
       /\ \A f \in File : \/ final[f] = fs[f] \/ final[f] = None
                          \/ f.minute = q.minute /\ f.loc = q.loc
       /\ KeysSealed(final)
       /\ q.enc = FALSE => final[FileOf(q)] = [data |-> dump, key |-> None]
       /\ \A f \in File : f.minute # q.minute => final[f] = fs[f]
    <2>1. CASE q.enc = FALSE
        <3>1. final = plain
            BY <2>1
        <3>2. KeysSealed(plain)
            BY <1>11, <1>12 DEF BackupInv, KeysSealed
        <3>3. QED BY <1>11, <1>12, <2>1, <3>1, <3>2
    <2>2. CASE q.enc = TRUE
        <3>1. final = [plain EXCEPT ![FileOf(q)] = Sealed(dump), ![GzOf(q)] = None]
            BY <2>2
        <3> HIDE DEF final
        <3>2. FileOf(q) # GzOf(q)
            BY <1>11, <2>2
        <3>3. /\ final \in [File -> Stored \cup {None}]
              /\ final[FileOf(q)] = Sealed(dump) /\ final[GzOf(q)] = None
              /\ \A f \in File : (f # FileOf(q) /\ f # GzOf(q)) => final[f] = fs[f]
            BY <1>11, <1>12, <1>13, <3>1, <3>2
        <3>4. KeysSealed(final)
            BY <1>13, <3>3 DEF BackupInv, KeysSealed
        <3>5. QED BY <1>11, <2>2, <3>3, <3>4
    <2>3. QED BY <1>8, <2>1, <2>2
<1> HIDE DEF final
<1>15. /\ fs' \in [File -> Stored \cup {None}]
       /\ \A f \in File : fs'[f] = final[f] \/ fs'[f] = None
    BY <1>1, <1>14, RotateTyped, RotateRemoves
<1>16. KeysSealed(fs')
    BY <1>14, <1>15 DEF KeysSealed
<1>17. SafetyComing(request', fs', raw', byHand')
    <2>1. SUFFICES ASSUME NEW x \in Reqs, request'[x].op \in Restores, NewestIn(request', x)
                   PROVE  SafetyWay(request'[x], fs', raw', byHand)
        BY <1>1 DEF SafetyComing
    <2>2. /\ SafetyWay(request[x], fs, raw, byHand)
          /\ FileOf(request'[x]) = FileOf(request[x]) /\ FileOf(request[x]) \in File
          /\ request[x].enc = FALSE
          /\ \A o \in Reqs : (o # x /\ Begun(request[o])) => request[o].minute < request[x].minute
        BY <1>7, <2>1, NewestBefore
    <2>3. \A o \in Reqs : request[o].minute \in Int
        BY RequestTyped DEF Request, Minutes
    <2>4. fs'[FileOf(request[x])] = final[FileOf(request[x])]
        <3>1. Begun(request[r])
            BY <1>1 DEF Begun
        <3>2. QED BY <1>1, <1>7, <1>8, <1>14, <2>1, <3>1, SafetyByRotation
    <2>5. CASE x = r
        <3>1. dump = q.snap
            BY <1>1, <2>2, <2>5 DEF SafetyWay, dump
        <3>2. fs'[FileOf(s)] = [data |-> s.snap, key |-> None]
            BY <1>6, <1>7, <1>14, <2>2, <2>4, <2>5, <3>1
        <3>3. QED BY <1>6, <1>7, <2>5, <3>2 DEF SafetyWay
    <2>6. CASE x # r
        <3>1. request'[x] = request[x] /\ q.minute < request[x].minute
            BY <1>1, <1>7, <2>2, <2>6 DEF Begun
        <3>2. request[x].loc \in Locs /\ request[x].minute \in Minutes
            BY RequestTyped DEF Request
        <3>3. raw'[<<request[x].loc, request[x].minute>>] = raw[<<request[x].loc, request[x].minute>>]
            BY <1>1, <1>8, <2>3, <3>1, <3>2
        <3>4. FileOf(request[x]).minute = request[x].minute
            BY DEF FileOf
        <3>5. fs'[FileOf(request[x])] = fs[FileOf(request[x])]
            BY <1>14, <2>2, <2>3, <2>4, <3>1, <3>4
        <3>6. QED BY <2>2, <3>1, <3>3, <3>5 DEF SafetyWay
    <2>7. QED BY <2>5, <2>6
<1>18. ProgressFollows(request', bProg', rProg')
    BY <1>1, <1>4, <1>7 DEF BackupInv, ProgressFollows, Active
<1>19. BackupTypeOK'
    BY <1>1, <1>7, <1>9, <1>15 DEF BackupInv, BackupTypeOK, RequestsFollow
<1>20. q.pc \in Making
    BY <1>1 DEF Making
<1>21. \A f \in File : \/ fs'[f] = fs[f] \/ fs'[f] = None
                       \/ \E o \in Reqs : /\ request[o].pc \in Making
                                          /\ request[o].minute = f.minute
                                          /\ request[o].loc = f.loc
    BY <1>14, <1>15, <1>20
<1> QED BY <1>1, <1>7, <1>16, <1>17, <1>18, <1>19, <1>21, BackupFilesStep

LEMMA ArchiveRaisesStep ==
    ASSUME BackupInv, NEW r \in Reqs, ArchiveRaises(r) PROVE BackupInv'
<1> DEFINE q == request[r]
<1>1. /\ q.pc = "dump" /\ Step(r, AfterBackup(q, FALSE)) /\ bProg' = "error"
      /\ fs' = [fs EXCEPT ![GzOf(q)] = None, ![FileOf(q)] = None]
      /\ raw' = [raw EXCEPT ![<<q.loc, q.minute>>] = None]
      /\ UNCHANGED <<db, masterKey, cfg, clock, rProg, page, outside, byHand>>
    BY DEF ArchiveRaises
<1>2. /\ RequestsFollow /\ AllQuiet /\ (\A o \in Reqs \ {r} : request'[o] = request[o])
      /\ request'[r].op = q.op
      /\ (q.op \in Restores => request'[r].ok = FALSE)
      /\ (q.op \in Restores => request'[r].pc = "read" /\ request'[r].safety = FALSE)
    BY <1>1, AfterBackupFollows
<1>3. q \in Request
    BY RequestTyped
<1>4. /\ raw \in [Locs \X Minutes -> Dumps \cup {None}] /\ q.loc \in Locs /\ q.minute \in Minutes
      /\ q.enc \in BOOLEAN /\ fs \in [File -> Stored \cup {None}]
    BY <1>3 DEF BackupInv, BackupTypeOK, Request
<1>5. /\ FileOf(q) \in File /\ FileOf(q).minute = q.minute
      /\ GzOf(q) \in File /\ GzOf(q).minute = q.minute
    BY <1>4, GzFile
<1>6. /\ fs' \in [File -> Stored \cup {None}] /\ raw' \in [Locs \X Minutes -> Dumps \cup {None}]
      /\ \A f \in File : fs'[f] = fs[f] \/ fs'[f] = None
      /\ \A f \in File : f.minute # q.minute => fs'[f] = fs[f]
    BY <1>1, <1>4, <1>5
<1>7. SafetyComing(request', fs', raw', byHand')
    <2>1. SUFFICES ASSUME NEW x \in Reqs, request'[x].op \in Restores, NewestIn(request', x)
                   PROVE  SafetyWay(request'[x], fs', raw', byHand)
        BY <1>1 DEF SafetyComing
    <2>2. /\ SafetyWay(request[x], fs, raw, byHand) /\ request[x].op \in Restores
          /\ FileOf(request[x]) \in File
          /\ \A o \in Reqs : (o # x /\ Begun(request[o])) => request[o].minute < request[x].minute
        BY <1>2, <2>1, NewestBefore
    <2>3. CASE x = r
        BY <1>2, <2>2, <2>3 DEF SafetyWay
    <2>4. CASE x # r
        <3>1. request'[x] = request[x] /\ q.minute < request[x].minute
            BY <1>1, <1>2, <2>2, <2>4 DEF Begun
        <3>2. request[x].loc \in Locs /\ request[x].minute \in Int /\ q.minute \in Int
              /\ request[x].minute \in Minutes
            BY RequestTyped DEF Request, Minutes
        <3>3. raw'[<<request[x].loc, request[x].minute>>] = raw[<<request[x].loc, request[x].minute>>]
            BY <1>1, <1>4, <3>1, <3>2
        <3>4. FileOf(request[x]).minute = request[x].minute
            BY DEF FileOf
        <3>5. fs'[FileOf(request[x])] = fs[FileOf(request[x])]
            BY <1>6, <2>2, <3>1, <3>2, <3>4
        <3>6. QED BY <2>2, <3>1, <3>3, <3>5 DEF SafetyWay
    <2>5. QED BY <2>3, <2>4
<1>8. KeysSealed(fs')
    BY <1>6 DEF BackupInv, KeysSealed
<1>9. ProgressFollows(request', bProg', rProg')
    BY <1>1, <1>2 DEF BackupInv, ProgressFollows, Active
<1>10. BackupTypeOK'
    BY <1>1, <1>2, <1>6 DEF BackupInv, BackupTypeOK, RequestsFollow
<1> QED BY <1>1, <1>2, <1>6, <1>7, <1>8, <1>9, <1>10, BackupFilesStep

LEMMA DeleteStep ==
    ASSUME BackupInv, NEW f \in Listed, delete_backup(f) PROVE BackupInv'
<1>1. PICK g \in (IF Exists(f) THEN {f} ELSE Named(f)) :
          /\ Outside
          /\ fs' = [fs EXCEPT ![g] = None] /\ byHand' = byHand \cup {g}
          /\ UNCHANGED <<db, masterKey, raw, cfg, clock, request, bProg, rProg, page>>
    BY Zenon DEF delete_backup
<1>2. g \in File
    BY <1>1, NamedFiles DEF Listed
<1>3. fs \in [File -> Stored \cup {None}] /\ byHand \subseteq File
    BY DEF BackupInv, BackupTypeOK
<1>4. /\ fs' \in [File -> Stored \cup {None}] /\ byHand' \subseteq File
      /\ fs'[g] = None /\ \A i \in File : i # g => fs'[i] = fs[i]
    BY <1>1, <1>2, <1>3
<1>5. RequestsFollow
    BY <1>1, RequestsSame
<1>6. SafetyComing(request', fs', raw', byHand')
    <2>1. SUFFICES ASSUME NEW x \in Reqs, request'[x].op \in Restores, NewestIn(request', x)
                   PROVE  SafetyWay(request[x], fs', raw, byHand')
        BY <1>1 DEF SafetyComing
    <2>2. SafetyWay(request[x], fs, raw, byHand) /\ FileOf(request[x]) \in File
        BY <1>5, <2>1, NewestBefore
    <2>3. QED BY <1>1, <1>4, <2>2 DEF SafetyWay
<1>7. KeysSealed(fs')
    BY <1>4 DEF BackupInv, KeysSealed
<1>8. ProgressFollows(request', bProg', rProg')
    BY <1>1 DEF BackupInv
<1>9. BackupTypeOK'
    BY <1>1, <1>4, BackupAssumption DEF BackupInv, BackupTypeOK, Outside
<1>10. \A i \in File : fs'[i] = fs[i] \/ fs'[i] = None
    BY <1>4
<1> QED BY <1>1, <1>5, <1>6, <1>7, <1>8, <1>9, <1>10, BackupFilesStep

LEMMA ConfigStep ==
    ASSUME BackupInv, NEW m \in Limits, NEW l \in Locs, update_config(m, l) PROVE BackupInv'
<1>1. /\ outside < MaxOutside /\ outside' = outside + 1
      /\ cfg' = [max |-> m, loc |-> l] /\ fs' = Rotate(fs, m)
      /\ UNCHANGED <<db, masterKey, raw, clock, request, bProg, rProg, page, byHand>>
    BY DEF update_config, Outside
<1>2. fs \in [File -> Stored \cup {None}]
    BY DEF BackupInv, BackupTypeOK
<1>3. /\ fs' \in [File -> Stored \cup {None}]
      /\ \A i \in File : fs'[i] = fs[i] \/ fs'[i] = None
    BY <1>1, <1>2, RotateTyped, RotateRemoves
<1>4. RequestsFollow
    BY <1>1, RequestsSame
<1>5. SafetyComing(request', fs', raw', byHand')
    <2>1. SUFFICES ASSUME NEW x \in Reqs, request'[x].op \in Restores, NewestIn(request', x)
                   PROVE  SafetyWay(request[x], fs', raw, byHand)
        BY <1>1 DEF SafetyComing
    <2>2. SafetyWay(request[x], fs, raw, byHand) /\ Begun(request[x])
        BY <1>4, <2>1, NewestBefore
    <2>3. fs'[FileOf(request[x])] = fs[FileOf(request[x])]
        BY <1>1, <1>4, <2>1, <2>2, SafetyByRotation
    <2>4. QED BY <2>2, <2>3 DEF SafetyWay
<1>6. KeysSealed(fs')
    BY <1>3 DEF BackupInv, KeysSealed
<1>7. ProgressFollows(request', bProg', rProg')
    BY <1>1 DEF BackupInv
<1>8. BackupTypeOK'
    BY <1>1, <1>3, BackupAssumption DEF BackupInv, BackupTypeOK
<1> QED BY <1>1, <1>3, <1>4, <1>5, <1>6, <1>7, <1>8, BackupFilesStep

\* A request arrives: its number follows those of the requests before it, its
\* minute is the clock's.
LEMMA BeginFields ==
    ASSUME BackupInv, NEW r \in Reqs, NEW q \in Request, Begin(r, q)
    PROVE  /\ request' \in [Reqs -> Request] /\ bProg' = "counting"
           /\ request[r].pc = "free" /\ \A o \in Reqs : o < r => Begun(request[o])
           /\ \A o \in Reqs \ {r} : request'[o] = request[o]
           /\ request'[r].pc = "count"
           /\ request'[r].op = q.op /\ request'[r].by = q.by /\ request'[r].enc = q.enc
           /\ request'[r].chosen = q.chosen /\ request'[r].from = q.from
           /\ request'[r].asked = q.asked /\ request'[r].calm = q.calm
           /\ request'[r].read = q.read /\ request'[r].safety = q.safety
           /\ request'[r].ok = q.ok
<1> DEFINE l == IF q.loc = Root THEN cfg.loc ELSE q.loc
<1> DEFINE s == [q EXCEPT !.pc = "count", !.minute = clock, !.loc = l]
<1>1. NextReq(r) /\ Step(r, s) /\ bProg' = "counting"
    BY DEF Begin
<1>2. clock \in Minutes /\ cfg.loc \in Locs /\ request \in [Reqs -> Request]
    BY DEF BackupInv, BackupTypeOK
<1>3. l \in Locs
    BY <1>2 DEF Request
<1> HIDE DEF l
<1>4. /\ s \in Request /\ s.pc = "count"
      /\ s.op = q.op /\ s.by = q.by /\ s.enc = q.enc /\ s.chosen = q.chosen /\ s.from = q.from
      /\ s.asked = q.asked /\ s.calm = q.calm /\ s.read = q.read /\ s.safety = q.safety
      /\ s.ok = q.ok
    BY <1>2, <1>3 DEF Request, Busy
<1> HIDE DEF s
<1>5. request' = [request EXCEPT ![r] = s]
    BY <1>1 DEF Step
<1>6. request' \in [Reqs -> Request] /\ request'[r] = s
      /\ \A o \in Reqs \ {r} : request'[o] = request[o]
    BY <1>2, <1>4, <1>5
<1>7. request[r].pc = "free" /\ \A o \in Reqs : o < r => Begun(request[o])
    BY <1>1 DEF NextReq, Begun
<1>8. QED BY <1>1, <1>4, <1>6, <1>7

\* What the three endpoints ask for.
Fresh(q) ==
    /\ q \in Request /\ q.op # "none"
    /\ q.safety = FALSE /\ q.ok = FALSE /\ q.read = None
    /\ q.op = "restore" => /\ q.from \in File /\ q.chosen \in File
                           /\ (q.from = q.chosen /\ q.calm) =>
                                  /\ q.asked = fs[q.from]
                                  /\ \A o \in Reqs : request[o].pc \in Making
                                                     => request[o].minute # q.from.minute
    /\ q.op = "upload" => q.asked \in Stored
    /\ q.op \in Restores => q.enc = FALSE

LEMMA BeginKeeps ==
    ASSUME BackupInv, NEW r \in Reqs, NEW q, Fresh(q), Begin(r, q),
           UNCHANGED <<db, masterKey, disk, clock, rProg, outside, byHand>>,
           page' \in [Pages -> Page], PageFollows(request', page')
    PROVE  BackupInv'
<1>1. /\ request' \in [Reqs -> Request] /\ bProg' = "counting"
      /\ request[r].pc = "free" /\ \A o \in Reqs : o < r => Begun(request[o])
      /\ \A o \in Reqs \ {r} : request'[o] = request[o]
      /\ request'[r].pc = "count"
      /\ request'[r].op = q.op /\ request'[r].by = q.by /\ request'[r].enc = q.enc
      /\ request'[r].chosen = q.chosen /\ request'[r].from = q.from
      /\ request'[r].asked = q.asked /\ request'[r].calm = q.calm
      /\ request'[r].read = q.read /\ request'[r].safety = q.safety
      /\ request'[r].ok = q.ok
    BY BeginFields DEF Fresh
<1> DEFINE s == request'[r]
<1>2. UNCHANGED <<db, masterKey, fs, raw, cfg, clock, rProg, outside, byHand>>
    BY DEF disk
<1>3. RequestShape(s)
    BY <1>1 DEF Fresh, RequestShape, Busy, Making, Restores
<1>4. \A o \in Reqs : RequestShape(request'[o])
    BY <1>1, <1>3 DEF BackupInv
<1>5. ~Begun(request[r]) /\ request[r].op = "none" /\ Begun(s)
    BY <1>1, RequestTyped DEF Begun, RequestShape
<1>6. \A o \in Reqs : Begun(request[o]) => o # r /\ request'[o] = request[o]
    BY <1>1, <1>5
<1>7. Numbered(request')
    BY <1>1, <1>5, <1>6 DEF BackupInv, Numbered
<1>8. FilesMade(fs, request')
    BY <1>6 DEF BackupInv, FilesMade
<1>9. SafetyComing(request', fs, raw, byHand)
    <2>1. SUFFICES ASSUME NEW x \in Reqs, request'[x].op \in Restores, NewestIn(request', x)
                   PROVE  SafetyWay(request'[x], fs, raw, byHand)
        BY DEF SafetyComing
    <2>2. CASE x = r
        BY <1>1, <2>2 DEF SafetyWay, Fresh
    <2>3. CASE x # r
        <3>1. NewestIn(request, x)
            BY <1>1, <1>6, <2>1, <2>3 DEF NewestIn
        <3>2. QED BY <1>1, <2>1, <2>3, <3>1 DEF BackupInv, SafetyComing
    <2>4. QED BY <2>2, <2>3
<1>10. ChoiceKept(request', fs)
    <2>1. SUFFICES ASSUME NEW x \in Reqs, ChosenAlone(request', x)
                   PROVE  /\ \A o \in Reqs : request'[o].pc \in Making
                                             => request'[o].minute # request'[x].from.minute
                          /\ ChosenWay(request'[x], fs)
        BY DEF ChoiceKept
    <2>2. CASE x = r
        <3>1. /\ s.from = s.chosen /\ s.calm /\ s.op = "restore"
              /\ s.minute = s.from.minute => r < r
            BY <1>5, <2>1, <2>2 DEF ChosenAlone
        <3>2. /\ s.asked = fs[s.from]
              /\ \A o \in Reqs : request[o].pc \in Making => request[o].minute # s.from.minute
            BY <1>1, <3>1 DEF Fresh
        <3>3. s.minute # s.from.minute
            BY <3>1 DEF Reqs
        <3>4. QED BY <1>1, <2>2, <3>2, <3>3 DEF ChosenWay, Fresh
    <2>3. CASE x # r
        <3>1. request'[x] = request[x]
            BY <1>1, <2>3
        <3>2. ChosenAlone(request, x)
            BY <1>6, <2>1, <3>1 DEF ChosenAlone
        <3>3. /\ \A o \in Reqs : request[o].pc \in Making
                                 => request[o].minute # request[x].from.minute
              /\ ChosenWay(request[x], fs)
            BY <3>2 DEF BackupInv, ChoiceKept
        <3>4. Begun(request[x])
            BY <3>2, RequestTyped DEF ChosenAlone, RequestShape, Begun
        <3>5. ~(r < x)
            BY <1>5, <3>4 DEF BackupInv, Numbered
        <3>6. s.minute # request[x].from.minute
            BY <1>5, <2>1, <3>1, <3>5 DEF ChosenAlone
        <3>7. QED BY <1>1, <3>1, <3>3, <3>6
    <2>4. QED BY <2>2, <2>3
<1>11. ProgressFollows(request', bProg', rProg)
    <2>1. s.pc \in Making
        BY <1>1 DEF Making
    <2>2. ASSUME Active(rProg) PROVE \E o \in Reqs : request'[o].op \in Restores /\ request'[o].ok = FALSE
        <3>1. PICK o \in Reqs : request[o].op \in Restores /\ request[o].ok = FALSE
            BY <2>2 DEF BackupInv, ProgressFollows
        <3>2. o # r
            BY <1>5, <3>1 DEF Restores
        <3>3. QED BY <1>1, <3>1, <3>2
    <2>3. QED BY <2>1, <2>2 DEF ProgressFollows
<1>12. KeysSealed(fs)
    BY DEF BackupInv
<1>13. BackupTypeOK'
    BY <1>1, <1>2 DEF BackupInv, BackupTypeOK
<1>14. QED BY <1>2, <1>4, <1>7, <1>8, <1>9, <1>10, <1>11, <1>12, <1>13 DEF BackupInv

\* A request that is no restore is no page's restore.
LEMMA BeginsUnseen ==
    ASSUME BackupInv, NEW r \in Reqs, NEW q \in Request, Begin(r, q), q.op # "restore",
           NEW Q, \A p \in Pages : /\ Q[p].restore = page[p].restore /\ Q[p].file = page[p].file
                                   /\ Q[p].shown = page[p].shown /\ Q[p].early = page[p].early
    PROVE  PageFollows(request', Q)
<1>1. /\ request[r].pc = "free" /\ request'[r].op # "restore"
      /\ \A o \in Reqs \ {r} : request'[o] = request[o]
    BY BeginFields
<1>2. \A p \in Pages : \A o \in Asking(request', p) : o \in Asking(request, p) /\ request'[o] = request[o]
    BY <1>1 DEF Asking
<1>3. \A p \in Pages : page[p].shown \in Reqs \cup {None}
    BY DEF BackupInv, BackupTypeOK, Page
<1>4. PageFollows(request, page)
    BY DEF BackupInv
<1>5. \A p \in Pages : page[p].shown # None => request'[page[p].shown] = request[page[p].shown]
    BY <1>1, <1>3, <1>4 DEF PageFollows, PageTold
<1>6. PageFollows(request', page)
    BY <1>2, <1>4, <1>5 DEF PageFollows, PageTold
<1>7. QED BY <1>6, PagesAlike

LEMMA RunFresh ==
    ASSUME BackupInv, NEW p \in Pages \cup {None}, NEW l \in Locs, NEW e \in BOOLEAN
    PROVE  Fresh(run_backup(p, l, e)) /\ run_backup(p, l, e).op # "restore"
<1> DEFINE q == run_backup(p, l, e)
<1>1. q = [NoRequest EXCEPT !.op = "backup", !.by = p, !.loc = l, !.enc = e]
    BY DEF run_backup
<1>2. NoRequest \in Request
    <2>1. Root \in Locs /\ 1 \in Minutes
        BY BackupAssumption DEF Locs, Minutes
    <2>2. QED BY <2>1 DEF NoRequest, Request
<1>3. q \in Request /\ q.op = "backup"
    <2> HIDE DEF q
    <2>1. PICK z : z = [NoRequest EXCEPT !.op = "backup", !.by = p]
        OBVIOUS
    <2>2. z \in Request /\ z.op = "backup"
        BY <1>2, <2>1 DEF Request
    <2>3. q = [z EXCEPT !.loc = l, !.enc = e]
        BY <1>1, <2>1
    <2>4. QED BY <2>2, <2>3 DEF Request
<1>4. q.safety = FALSE /\ q.ok = FALSE /\ q.read = None
    BY <1>1 DEF NoRequest
<1>5. QED BY <1>3, <1>4 DEF Fresh, Restores

LEMMA NoRequestTyped == NoRequest \in Request
<1>1. Root \in Locs /\ 1 \in Minutes
    BY BackupAssumption DEF Locs, Minutes
<1>2. QED BY <1>1 DEF NoRequest, Request

LEMMA RestoreFresh ==
    ASSUME BackupInv, NEW p \in Pages, NEW f \in File, NEW g \in Named(f), NEW right \in BOOLEAN
    PROVE  LET q == restore_backup(p, f, g, right)
           IN  Fresh(q) /\ q.op = "restore" /\ q.by = p /\ q.chosen = f
<1> DEFINE q == restore_backup(p, f, g, right)
<1>1. PICK calm \in BOOLEAN :
          calm = (\A o \in Reqs : request[o].minute = g.minute
                                  => request[o].pc \notin {"count", "dump"})
    BY Zenon
<1>2. g \in File /\ fs[f] \in Stored \cup {None}
    BY NamedFiles DEF BackupInv, BackupTypeOK
<1>3. PICK z : z = [NoRequest EXCEPT !.op = "restore", !.by = p, !.chosen = f]
    OBVIOUS
<1>4. z \in Request /\ z.op = "restore" /\ z.by = p /\ z.chosen = f
    BY <1>3, NoRequestTyped DEF Request
<1>5. z.safety = FALSE /\ z.ok = FALSE /\ z.read = None /\ z.enc = FALSE
    BY <1>3 DEF NoRequest
<1>6. PICK y : y = [z EXCEPT !.from = g, !.asked = fs[f]]
    OBVIOUS
<1>7. /\ y \in Request /\ y.op = z.op /\ y.by = z.by /\ y.chosen = z.chosen
      /\ y.safety = z.safety /\ y.ok = z.ok /\ y.read = z.read /\ y.enc = z.enc
      /\ y.from = g /\ y.asked = fs[f]
    BY <1>2, <1>4, <1>6 DEF Request
<1>8. q = [y EXCEPT !.right = right, !.calm = calm]
    BY Zenon, <1>1, <1>3, <1>6 DEF restore_backup
<1> HIDE DEF q
<1>9. /\ q \in Request /\ q.op = y.op /\ q.by = y.by /\ q.chosen = y.chosen
      /\ q.safety = y.safety /\ q.ok = y.ok /\ q.read = y.read /\ q.enc = y.enc
      /\ q.from = g /\ q.asked = fs[f] /\ q.calm = calm
    BY <1>7, <1>8 DEF Request
<1>10. q.calm => \A o \in Reqs : request[o].pc \in Making => request[o].minute # q.from.minute
    BY <1>1, <1>9 DEF Making
<1>11. Fresh(q)
    BY <1>2, <1>4, <1>5, <1>7, <1>9, <1>10 DEF Fresh, Restores
<1>12. QED BY <1>4, <1>7, <1>9, <1>11 DEF q

LEMMA UploadFresh ==
    ASSUME BackupInv, NEW p \in Pages, NEW e \in BOOLEAN, NEW right \in BOOLEAN
    PROVE  Fresh(upload_and_restore(p, e, right)) /\ upload_and_restore(p, e, right).op # "restore"
<1> DEFINE q == upload_and_restore(p, e, right)
<1>1. PICK a : a = [data |-> [ver |-> 0, key |-> "foreign"],
                    key |-> IF e THEN "foreign" ELSE None]
    OBVIOUS
<1>2. a \in Stored
    <2>1. [ver |-> 0, key |-> "foreign"] \in Dumps
        BY BackupAssumption DEF Dumps, States, Keys
    <2>2. (IF e THEN "foreign" ELSE None) \in Keys \cup {None}
        BY DEF Keys
    <2>3. QED BY <1>1, <2>1, <2>2 DEF Stored
<1>3. PICK z : z = [NoRequest EXCEPT !.op = "upload", !.by = p]
    OBVIOUS
<1>4. z \in Request /\ z.op = "upload"
    BY <1>3, NoRequestTyped DEF Request
<1>5. z.safety = FALSE /\ z.ok = FALSE /\ z.read = None /\ z.enc = FALSE
    BY <1>3 DEF NoRequest
<1>6. q = [z EXCEPT !.right = right, !.asked = a]
    BY Zenon, <1>1, <1>3 DEF upload_and_restore
<1> HIDE DEF q
<1>7. /\ q \in Request /\ q.op = z.op /\ q.asked = a
      /\ q.safety = z.safety /\ q.ok = z.ok /\ q.read = z.read /\ q.enc = z.enc
    BY <1>2, <1>4, <1>6 DEF Request
<1>8. QED BY <1>2, <1>4, <1>5, <1>7 DEF Fresh, Restores, q

LEMMA RunStep ==
    ASSUME BackupInv, NEW p \in Pages, NEW r \in Reqs, NEW l \in Locs, NEW e \in BOOLEAN,
           triggerBackup(p, r, l, e)
    PROVE  BackupInv'
<1>1. /\ Begin(r, run_backup(p, l, e)) /\ page' = [page EXCEPT ![p].backup = "running"]
      /\ UNCHANGED <<db, masterKey, disk, clock, rProg, outside, byHand>>
    BY DEF triggerBackup
<1>2. Fresh(run_backup(p, l, e)) /\ run_backup(p, l, e).op # "restore"
    BY RunFresh
<1>3. page \in [Pages -> Page]
    BY DEF BackupInv, BackupTypeOK
<1>4. /\ page' \in [Pages -> Page]
      /\ \A i \in Pages : /\ page'[i].restore = page[i].restore /\ page'[i].file = page[i].file
                          /\ page'[i].shown = page[i].shown /\ page'[i].early = page[i].early
    BY <1>1, <1>3 DEF Page
<1>5. PageFollows(request', page')
    BY <1>1, <1>2, <1>4, BeginsUnseen DEF Fresh
<1>6. QED BY <1>1, <1>2, <1>4, <1>5, BeginKeeps

LEMMA OtherStep ==
    ASSUME BackupInv, NEW r \in Reqs, OtherBackup(r) PROVE BackupInv'
<1>1. /\ Begin(r, run_backup(None, Root, FALSE)) /\ page' = page
      /\ UNCHANGED <<db, masterKey, disk, clock, rProg, outside, byHand>>
    BY DEF OtherBackup
<1>2. Fresh(run_backup(None, Root, FALSE)) /\ run_backup(None, Root, FALSE).op # "restore"
    <2>1. None \in Pages \cup {None} /\ Root \in Locs /\ FALSE \in BOOLEAN
        BY DEF Locs
    <2>2. QED BY <2>1, RunFresh
<1>3. page' \in [Pages -> Page]
    BY <1>1 DEF BackupInv, BackupTypeOK
<1>4. PageFollows(request', page')
    BY <1>1, <1>2, BeginsUnseen DEF Fresh
<1>5. QED BY <1>1, <1>2, <1>3, <1>4, BeginKeeps

LEMMA UploadStep ==
    ASSUME BackupInv, NEW p \in Pages, NEW r \in Reqs, NEW e \in BOOLEAN, NEW right \in BOOLEAN,
           uploadRestore(p, r, e, right)
    PROVE  BackupInv'
<1>1. /\ Begin(r, upload_and_restore(p, e, right)) /\ page' = [page EXCEPT ![p].upload = "running"]
      /\ UNCHANGED <<db, masterKey, disk, clock, rProg, outside, byHand>>
    BY DEF uploadRestore
<1>2. Fresh(upload_and_restore(p, e, right)) /\ upload_and_restore(p, e, right).op # "restore"
    BY UploadFresh
<1>3. page \in [Pages -> Page]
    BY DEF BackupInv, BackupTypeOK
<1>4. /\ page' \in [Pages -> Page]
      /\ \A i \in Pages : /\ page'[i].restore = page[i].restore /\ page'[i].file = page[i].file
                          /\ page'[i].shown = page[i].shown /\ page'[i].early = page[i].early
    BY <1>1, <1>3 DEF Page
<1>5. PageFollows(request', page')
    BY <1>1, <1>2, <1>4, BeginsUnseen DEF Fresh
<1>6. QED BY <1>1, <1>2, <1>4, <1>5, BeginKeeps

LEMMA RestoreStep ==
    ASSUME BackupInv, NEW p \in Pages, NEW r \in Reqs, NEW right \in BOOLEAN,
           handleRestore(p, r, right)
    PROVE  BackupInv'
<1>1. /\ page[p].file # None /\ page[p].restore = "confirm"
      /\ page' = [page EXCEPT ![p].restore = "running"]
      /\ UNCHANGED <<db, masterKey, disk, clock, rProg, outside, byHand>>
    BY DEF handleRestore
<1>2. page \in [Pages -> Page] /\ page[p].file \in File
    BY <1>1 DEF BackupInv, BackupTypeOK, Page
<1>3. PICK g \in Named(page[p].file) : Begin(r, restore_backup(p, page[p].file, g, right))
    BY DEF handleRestore
<1> DEFINE q == restore_backup(p, page[p].file, g, right)
<1>4. Fresh(q) /\ q.op = "restore" /\ q.by = p /\ q.chosen = page[p].file
    BY <1>2, RestoreFresh
<1>5. Begin(r, q)
    BY <1>3
<1> HIDE DEF q
<1>6. /\ request[r].pc = "free" /\ request'[r].op = "restore" /\ request'[r].by = p
      /\ request'[r].chosen = page[p].file
      /\ \A o \in Reqs \ {r} : request'[o] = request[o]
    BY <1>4, <1>5, BeginFields DEF Fresh
<1>7. /\ page' \in [Pages -> Page]
      /\ \A i \in Pages \ {p} : page'[i] = page[i]
      /\ page'[p].restore = "running" /\ page'[p].file = page[p].file
      /\ page'[p].shown = page[p].shown /\ page'[p].early = page[p].early
    BY <1>1, <1>2 DEF Page
<1>8. PageFollows(request', page')
    <2>1. PageFollows(request, page)
        BY DEF BackupInv
    <2>2. \A i \in Pages : page[i].shown # None => request'[page[i].shown] = request[page[i].shown]
        <3>1. \A i \in Pages : page[i].shown \in Reqs \cup {None}
            BY <1>2 DEF Page
        <3>2. QED BY <1>6, <2>1, <3>1 DEF PageFollows, PageTold
    <2>3. \A i \in Pages \ {p} : \A o \in Asking(request', i) :
              o \in Asking(request, i) /\ request'[o] = request[o]
        BY <1>6 DEF Asking
    <2>4. \A o \in Asking(request', p) : o = r \/ (o \in Asking(request, p) /\ request'[o] = request[o])
        BY <1>6 DEF Asking
    <2>5. page[p].early \/ Asking(request, p) = {}
        BY <1>1, <2>1 DEF PageFollows, PageTold
    <2>6. page'[p].early \/ \A o \in Asking(request', p) :
              /\ page'[p].restore = "running" /\ page'[p].file = request'[o].chosen
              /\ \A i \in Asking(request', p) : i = o
        BY <1>6, <1>7, <2>4, <2>5
    <2>7. QED BY <1>7, <2>1, <2>2, <2>3, <2>6 DEF PageFollows, PageTold
<1>9. QED BY <1>1, <1>4, <1>5, <1>7, <1>8, BeginKeeps

\* Steps of the page alone, and of what is around.
LEMMA PageStep ==
    ASSUME BackupInv, UNCHANGED <<db, masterKey, disk, clock, request, bProg, rProg, outside, byHand>>,
           page' \in [Pages -> Page], PageFollows(request, page')
    PROVE  BackupInv'
<1>1. UNCHANGED <<db, masterKey, fs, raw, cfg, clock, request, bProg, rProg, outside, byHand>>
    BY DEF disk
<1>2. BackupTypeOK'
    BY <1>1 DEF BackupInv, BackupTypeOK
<1>3. PageFollows(request', page')
    BY <1>1
<1>4. ProgressFollows(request', bProg', rProg')
    BY <1>1 DEF BackupInv
<1>5. RequestsFollow /\ AllQuiet
    BY <1>1, RequestsSame
<1>6. QED BY <1>1, <1>2, <1>3, <1>4, <1>5, BackupQuietStep

LEMMA OpenStep ==
    ASSUME BackupInv, NEW p \in Pages, NEW f \in File, openRestoreModal(p, f) PROVE BackupInv'
<1>1. /\ page[p].file = None /\ page' = [page EXCEPT ![p].file = f]
      /\ UNCHANGED <<db, masterKey, disk, clock, request, bProg, rProg, outside, byHand>>
    BY DEF openRestoreModal, Uncovered
<1>2. page \in [Pages -> Page] /\ PageFollows(request, page)
    BY DEF BackupInv, BackupTypeOK
<1>3. /\ page' \in [Pages -> Page]
      /\ \A i \in Pages \ {p} : page'[i] = page[i]
      /\ page'[p].restore = page[p].restore /\ page'[p].file = f
      /\ page'[p].shown = page[p].shown /\ page'[p].early = page[p].early
    BY <1>1, <1>2 DEF Page
<1>4. \A i \in Pages : page[i].shown \in Reqs \cup {None}
    BY <1>2 DEF Page
<1>5. \A o \in Asking(request, p) : request[o].chosen \in File
    BY RequestTyped DEF Asking, RequestShape
<1>6. page[p].early \/ Asking(request, p) = {}
    BY <1>1, <1>2, <1>5, NoneAssumption DEF PageFollows, PageTold
<1>7. page[p].restore = "done" => page[p].early
    <2>1. SUFFICES ASSUME page[p].restore = "done", ~page[p].early PROVE FALSE
        OBVIOUS
    <2>2. /\ page[p].shown \in Reqs /\ request[page[p].shown].chosen = None
        BY <1>1, <1>2, <1>4, <2>1 DEF PageFollows, PageTold
    <2>3. request[page[p].shown].op = "restore"
        BY <1>2, <2>1 DEF PageFollows, PageTold
    <2>4. QED BY <2>2, <2>3, RequestTyped, NoneAssumption DEF RequestShape
<1>8. PageFollows(request, page')
    BY <1>2, <1>3, <1>6, <1>7 DEF PageFollows, PageTold
<1>9. QED BY <1>1, <1>3, <1>8, PageStep

LEMMA CloseStep ==
    ASSUME BackupInv, NEW p \in Pages, closeRestoreModal(p) PROVE BackupInv'
<1> DEFINE was == page[p].early \/ page[p].restore = "running"
<1>1. /\ page' = [page EXCEPT ![p].file = None, ![p].restore = "confirm", ![p].shown = None,
                              ![p].early = @ \/ page[p].restore = "running"]
      /\ UNCHANGED <<db, masterKey, disk, clock, request, bProg, rProg, outside, byHand>>
    BY DEF closeRestoreModal
<1>2. page \in [Pages -> Page] /\ PageFollows(request, page)
    BY DEF BackupInv, BackupTypeOK
<1>3. PICK e \in BOOLEAN : e = was
    BY Zenon
<1>4. page' = [page EXCEPT ![p].file = None, ![p].restore = "confirm", ![p].shown = None,
                           ![p].early = e]
    <2>1. page' = [page EXCEPT ![p].file = None, ![p].restore = "confirm", ![p].shown = None,
                               ![p].early = was]
        BY <1>1, <1>2 DEF Page
    <2>2. QED BY Zenon, <1>3, <2>1
<1>5. /\ page' \in [Pages -> Page]
      /\ \A i \in Pages \ {p} : page'[i] = page[i]
      /\ page'[p].restore = "confirm" /\ page'[p].shown = None /\ page'[p].early = e
    <2>1. PICK z : z = [page[p] EXCEPT !.file = None, !.restore = "confirm"]
        OBVIOUS
    <2>2. z \in Page /\ z.restore = "confirm"
        BY <1>2, <2>1 DEF Page
    <2>3. PICK y : y = [z EXCEPT !.shown = None, !.early = e]
        OBVIOUS
    <2>4. y \in Page /\ y.restore = "confirm" /\ y.shown = None /\ y.early = e
        BY <2>2, <2>3 DEF Page
    <2>5. page' = [page EXCEPT ![p] = y]
        BY <1>2, <1>4, <2>1, <2>3
    <2>6. QED BY <1>2, <2>4, <2>5
<1>6. e \/ Asking(request, p) = {}
    BY <1>2, <1>3 DEF PageFollows, PageTold
<1>7. PageFollows(request, page')
    BY <1>2, <1>5, <1>6 DEF PageFollows, PageTold
<1>8. QED BY <1>1, <1>5, <1>7, PageStep

LEMMA NotFoundStep ==
    ASSUME BackupInv, NEW p \in Pages, restoreNotFound(p) PROVE BackupInv'
<1>1. /\ page[p].restore = "confirm"
      /\ page' = [page EXCEPT ![p].restore = "error", ![p].shown = None]
      /\ UNCHANGED <<db, masterKey, disk, clock, request, bProg, rProg, outside, byHand>>
    BY DEF restoreNotFound
<1>2. page \in [Pages -> Page] /\ PageFollows(request, page)
    BY DEF BackupInv, BackupTypeOK
<1>3. /\ page' \in [Pages -> Page]
      /\ \A i \in Pages \ {p} : page'[i] = page[i]
      /\ page'[p].restore = "error" /\ page'[p].shown = None /\ page'[p].early = page[p].early
    BY <1>1, <1>2 DEF Page
<1>4. page[p].early \/ Asking(request, p) = {}
    BY <1>1, <1>2 DEF PageFollows, PageTold
<1>5. PageFollows(request, page')
    BY <1>2, <1>3, <1>4 DEF PageFollows, PageTold
<1>6. QED BY <1>1, <1>3, <1>5, PageStep

LEMMA AroundStep ==
    ASSUME BackupInv, DatabaseWrite \/ ClockTicks \/ UNCHANGED backupVars PROVE BackupInv'
<1>1. UNCHANGED <<masterKey, fs, raw, cfg, request, bProg, rProg, page, outside, byHand>>
    BY DEF DatabaseWrite, ClockTicks, disk, backupVars
<1>2. db' \in Dumps /\ clock' \in Minutes
    <2>1. db \in Dumps /\ clock \in Minutes
        BY DEF BackupInv, BackupTypeOK
    <2>2. CASE DatabaseWrite
        <3>1. db \in States /\ db.ver < MaxWrites /\ db' = [db EXCEPT !.ver = @ + 1] /\ clock' = clock
            BY <2>1, <2>2 DEF DatabaseWrite, Dumps
        <3>2. db' \in States
            BY <3>1, BackupAssumption DEF States
        <3>3. QED BY <2>1, <3>1, <3>2 DEF Dumps
    <2>3. CASE ClockTicks
        BY <2>1, <2>3, BackupAssumption DEF ClockTicks, Minutes
    <2>4. CASE UNCHANGED backupVars
        BY <2>1, <2>4 DEF backupVars
    <2>5. QED BY <2>2, <2>3, <2>4
<1>3. BackupTypeOK'
    BY <1>1, <1>2 DEF BackupInv, BackupTypeOK
<1>4. ProgressFollows(request', bProg', rProg')
    BY <1>1 DEF BackupInv
<1>5. RequestsFollow /\ AllQuiet
    BY <1>1, RequestsSame
<1>6. QED BY <1>1, <1>3, <1>4, <1>5, BackupQuietStep

LEMMA BackupInitInv == BackupInit => BackupInv
<1> SUFFICES ASSUME BackupInit PROVE BackupInv
    OBVIOUS
<1>1. /\ fs = [f \in File |-> None] /\ request = [r \in Reqs |-> NoRequest]
      /\ raw = [p \in Locs \X Minutes |-> None] /\ page = [p \in Pages |-> Closed]
      /\ db = [ver |-> 0, key |-> "home"] /\ masterKey = "home"
      /\ cfg \in [max : Limits, loc : {Root}] /\ clock = 1
      /\ bProg = "idle" /\ rProg = "idle" /\ outside = 0 /\ byHand = {}
    BY DEF BackupInit
<1>2. \A r \in Reqs : request[r] = NoRequest
    BY <1>1
<1>3. NoRequest.op = "none" /\ NoRequest.pc = "free"
    BY DEF NoRequest
<1>4. RequestShape(NoRequest)
    BY <1>3 DEF RequestShape, Restores, Busy, Making
<1>5. \A r \in Reqs : request[r].op = "none" /\ ~Begun(request[r])
    BY <1>2, <1>3 DEF Begun
<1>6. \A f \in File : fs[f] = None
    BY <1>1
<1>7. Closed \in Page /\ Closed.shown = None /\ Closed.restore = "confirm"
    BY DEF Closed, Page
<1>8. BackupTypeOK
    <2>1. db \in Dumps /\ masterKey \in Keys
        BY <1>1, BackupAssumption DEF Dumps, States, Keys
    <2>2. fs \in [File -> Stored \cup {None}]
        BY <1>1
    <2>3. raw \in [Locs \X Minutes -> Dumps \cup {None}]
        BY <1>1
    <2>4. cfg \in [max : Limits, loc : Locs] /\ clock \in Minutes
        <3>1. Root \in Locs /\ 1 \in Minutes
            BY BackupAssumption DEF Locs, Minutes
        <3>2. QED BY <1>1, <3>1
    <2>5. request \in [Reqs -> Request]
        BY <1>1, NoRequestTyped
    <2>6. page \in [Pages -> Page]
        BY <1>1, <1>7
    <2>7. outside \in 0..MaxOutside
        BY <1>1, BackupAssumption
    <2>8. QED BY <1>1, <2>1, <2>2, <2>3, <2>4, <2>5, <2>6, <2>7 DEF BackupTypeOK
<1>9. \A r \in Reqs : RequestShape(request[r])
    BY <1>2, <1>4
<1>10. Numbered(request) /\ KeysSealed(fs) /\ FilesMade(fs, request)
    BY <1>5, <1>6 DEF Numbered, KeysSealed, FilesMade
<1>11. SafetyComing(request, fs, raw, byHand) /\ ChoiceKept(request, fs)
    BY <1>5 DEF SafetyComing, ChoiceKept, ChosenAlone, Restores
<1>12. PageFollows(request, page)
    <2>1. \A p \in Pages : page[p] = Closed /\ Asking(request, p) = {}
        BY <1>1, <1>5 DEF Asking
    <2>2. QED BY <1>7, <2>1 DEF PageFollows, PageTold
<1>13. ProgressFollows(request, bProg, rProg)
    BY <1>1 DEF ProgressFollows, Active
<1> QED BY <1>8, <1>9, <1>10, <1>11, <1>12, <1>13 DEF BackupInv

LEMMA BackupStepInv == BackupInv /\ [BackupNext]_backupVars => BackupInv'
<1> SUFFICES ASSUME BackupInv, [BackupNext]_backupVars PROVE BackupInv'
    OBVIOUS
<1>1. ASSUME NEW r \in Reqs, Handle(r) PROVE BackupInv'
    BY <1>1, BeginDumpStep, DumpFailsStep, ArchiveStep, ArchiveRaisesStep, NotifiedStep,
       RestoreFails, BeginPsqlStep, PsqlSucceedsStep DEF Handle
<1>2. ASSUME NEW r \in Reqs, Response(r) \/ OtherBackup(r) PROVE BackupInv'
    BY <1>2, ResponseStep, OtherStep
<1>3. ASSUME NEW p \in Pages, NEW r \in Reqs, NEW l \in Locs, NEW e \in BOOLEAN,
             triggerBackup(p, r, l, e)
      PROVE  BackupInv'
    BY <1>3, RunStep
<1>4. ASSUME NEW p \in Pages, NEW r \in Reqs, NEW e \in BOOLEAN, handleRestore(p, r, e)
      PROVE  BackupInv'
    BY <1>4, RestoreStep
<1>5. ASSUME NEW p \in Pages, NEW r \in Reqs, NEW e \in BOOLEAN, NEW right \in BOOLEAN,
             uploadRestore(p, r, e, right)
      PROVE  BackupInv'
    BY <1>5, UploadStep
<1>6. ASSUME NEW p \in Pages, NEW f \in File, openRestoreModal(p, f) PROVE BackupInv'
    BY <1>6, OpenStep
<1>7. ASSUME NEW p \in Pages, closeRestoreModal(p) \/ restoreNotFound(p) PROVE BackupInv'
    BY <1>7, CloseStep, NotFoundStep
<1>8. ASSUME NEW f \in Listed, delete_backup(f) PROVE BackupInv'
    BY <1>8, DeleteStep
<1>9. ASSUME NEW m \in Limits, NEW l \in Locs, update_config(m, l) PROVE BackupInv'
    BY <1>9, ConfigStep
<1>10. CASE DatabaseWrite \/ ClockTicks \/ UNCHANGED backupVars
    BY <1>10, AroundStep
<1>11. CASE Crash
    BY <1>11, CrashStep
<1>12. QED BY <1>1, <1>2, <1>3, <1>4, <1>5, <1>6, <1>7, <1>8, <1>9, <1>10, <1>11 DEF BackupNext

\* The inductive invariant of backup and restore: the way of each safety backup
\* and of each chosen file from the request on, what pages wait for, and who
\* is behind a progress that is active.
THEOREM BackupInvariant == BackupSpec => []BackupInv
<1>1. QED BY BackupInitInv, BackupStepInv, PTL DEF BackupSpec

\* For any number of requests, pages, directories and minutes a restore keeps
\* its safety backup and reads what was chosen.
THEOREM RestoresAreSafe == BackupSpec => []RestoreIsSafe
<1>1. BackupInv => SafetyKept
    <2>1. SUFFICES ASSUME BackupInv, NEW r \in Reqs,
                          request[r].op \in Restores, request[r].safety,
                          \A o \in Others(r) : request[o].minute < request[r].minute,
                          FileOf(request[r]) \notin byHand
                   PROVE  fs[FileOf(request[r])] = [data |-> request[r].snap, key |-> None]
        BY DEF SafetyKept, Restores
    <2>2. NewestIn(request, r)
        BY <2>1 DEF NewestIn, Others, Begun
    <2>3. SafetyWay(request[r], fs, raw, byHand)
        BY <2>1, <2>2 DEF BackupInv, SafetyComing
    <2>4. QED BY <2>1, <2>3 DEF SafetyWay
<1>2. BackupInv => RestoreReadsChosen
    <2>1. SUFFICES ASSUME BackupInv, NEW r \in Reqs,
                          request[r].op = "restore", request[r].read # None,
                          request[r].from = request[r].chosen, request[r].calm,
                          \A o \in Reqs : (request[o].pc # "free"
                                           /\ request[o].minute = request[r].from.minute) => o < r
                   PROVE  request[r].read = request[r].asked
        BY DEF RestoreReadsChosen
    <2>2. ChosenAlone(request, r)
        BY <2>1 DEF ChosenAlone, Begun
    <2>3. ChosenWay(request[r], fs)
        BY <2>1, <2>2 DEF BackupInv, ChoiceKept
    <2>4. QED BY <2>1, <2>3 DEF ChosenWay
<1>3. BackupInv => BackupTypeOK
    BY DEF BackupInv
<1>4. BackupInv => RestoreIsSafe
    BY <1>1, <1>2, <1>3 DEF RestoreIsSafe
<1>5. QED BY BackupInvariant, <1>4, PTL

\* For any number of requests and pages a modal that says "done" is right, and
\* a progress that is active has a request behind it.
THEOREM PagesAreTold == BackupSpec => []PagesTellTruth
<1>1. BackupInv => DoneModalTellsTruth
    BY DEF BackupInv, PageFollows, PageTold, DoneModalTellsTruth
<1>2. BackupInv => ProgressSettles
    BY Zenon DEF BackupInv, ProgressFollows, ProgressSettles, Making, Restores
<1>3. BackupInv => PagesTellTruth
    BY <1>1, <1>2 DEF PagesTellTruth
<1>4. QED BY BackupInvariant, <1>3, PTL

\* The directories in the order they are scanned, and the files: finitely many.
LEMMA PlaceTyped == \A l \in Locs : Place[l] \in Int
<1> DEFINE s == SetToSeq(Subdirs)
<1> DEFINE n == Cardinality(Subdirs)
<1>1. n \in Nat /\ ExistsBijection(1..n, Subdirs)
    BY BackupAssumption, FS_CardinalityType
<1>2. \E f \in [1..n -> Subdirs] : IsInjective(f)
    BY <1>1 DEF ExistsBijection, Bijection, Injection
<1>3. s \in [1..n -> Subdirs] /\ IsInjective(s)
    BY <1>2 DEF SetToSeq
<1>4. s \in Injection(1..n, Subdirs)
    BY <1>3 DEF Injection
<1>5. Cardinality(1..n) = n
    BY <1>1, FS_Interval
<1>6. s \in Surjection(1..n, Subdirs)
    BY <1>4, <1>5, BackupAssumption, FS_Injection
<1>7. \A l \in Subdirs : \E i \in 1..n : s[i] = l
    BY <1>6 DEF Surjection
<1> HIDE DEF s, n
<1>8. s \in Seq(Subdirs) /\ Len(s) = n
    BY <1>1, <1>3
<1>9. DOMAIN Scanned = 1..(n + 1) /\ Scanned[1] = Root /\ \A i \in 1..n : Scanned[i + 1] = s[i]
    BY <1>1, <1>8 DEF Scanned, s
<1>10. \A l \in Locs : \E i \in DOMAIN Scanned : Scanned[i] = l
    BY <1>1, <1>7, <1>9 DEF Locs
<1>11. \A l \in Locs : Place[l] \in DOMAIN Scanned
    BY <1>10 DEF Place
<1>12. QED BY <1>1, <1>9, <1>11

LEMMA FilesFinite == IsFiniteSet(File)
<1> DEFINE T == (Locs \X Minutes) \X {0, 1}
<1> DEFINE f == [x \in File |-> <<<<x.loc, x.minute>>, IF x.enc THEN 1 ELSE 0>>]
<1>1. IsFiniteSet(Locs)
    BY BackupAssumption, FS_Singleton, FS_Union DEF Locs
<1>2. IsFiniteSet(Minutes)
    BY BackupAssumption, FS_Interval DEF Minutes
<1>3. IsFiniteSet({0, 1})
    <2>1. IsFiniteSet({0} \cup {1})
        BY FS_Singleton, FS_AddElement
    <2>2. {0} \cup {1} = {0, 1}
        OBVIOUS
    <2>3. QED BY <2>1, <2>2
<1>4. IsFiniteSet(Locs \X Minutes)
    BY <1>1, <1>2, FS_Product
<1>5. IsFiniteSet(T)
    BY <1>3, <1>4, FS_Product
<1>6. f \in [File -> T]
    BY DEF File
<1>7. \A x, y \in File : f[x] = f[y] => x = y
    <2>1. SUFFICES ASSUME NEW x \in File, NEW y \in File, f[x] = f[y] PROVE x = y
        OBVIOUS
    <2>2. x.loc = y.loc /\ x.minute = y.minute /\ (IF x.enc THEN 1 ELSE 0) = (IF y.enc THEN 1 ELSE 0)
        BY <2>1
    <2>3. x.enc = y.enc
        BY <2>2 DEF File
    <2>4. QED BY <2>2, <2>3 DEF File
<1> HIDE DEF f, T
<1>8. f \in Injection(File, T)
    BY <1>6, <1>7 DEF Injection, IsInjective
<1>9. QED BY <1>5, <1>8, FS_Injection

LEMMA BeforeStrict ==
    /\ \A f \in File : ~Before(f, f)
    /\ \A f, g, h \in File : Before(f, g) /\ Before(g, h) => Before(f, h)
<1>1. \A f \in File : /\ f.minute \in Int /\ f.loc \in Locs /\ Place[f.loc] \in Int
                      /\ f.enc \in BOOLEAN
    BY PlaceTyped DEF File, Minutes
<1>2. ASSUME NEW f \in File PROVE ~Before(f, f)
    BY <1>1 DEF Before
<1>3. ASSUME NEW f \in File, NEW g \in File, NEW h \in File, Before(f, g), Before(g, h)
      PROVE  Before(f, h)
    BY <1>1, <1>3 DEF Before
<1>4. QED BY <1>2, <1>3

\* The files that are listed before a name.
Newer(D, f) == {g \in File : D[g] # None /\ Before(g, f)}

\* Of files over the limit there is one with no smaller set of newer files.
LEMMA LeastNewer ==
    ASSUME NEW D, NEW M \in SUBSET File, M # {}
    PROVE  \E m \in M : \A k \in M : ~(Newer(D, k) \subseteq Newer(D, m) /\ Newer(D, k) # Newer(D, m))
<1> DEFINE A == {Newer(D, m) : m \in M}
<1>1. IsWellFoundedOn(StrictSubsetOrdering(File), SUBSET File)
    BY FilesFinite, FS_StrictSubsetOrderingWellFounded, FS_FiniteSubsetsOfFinite
<1>2. A \subseteq SUBSET File /\ A # {}
    BY DEF Newer
<1>3. PICK a \in A : \A b \in A : <<b, a>> \notin StrictSubsetOrdering(File)
    BY <1>1, <1>2, WFMin
<1>4. \A b \in A : ~(b \subseteq a /\ b # a)
    BY <1>2, <1>3 DEF StrictSubsetOrdering
<1>5. PICK m \in M : a = Newer(D, m)
    OBVIOUS
<1>6. \A k \in M : Newer(D, k) \in A
    OBVIOUS
<1> HIDE DEF A
<1>7. \A k \in M : ~(Newer(D, k) \subseteq Newer(D, m) /\ Newer(D, k) # Newer(D, m))
    BY <1>4, <1>5, <1>6
<1>8. QED BY <1>7

\* What a removed file tells: as many newer files are kept as the limit says,
\* or the name is kept in another directory.
LEMMA RotationKeeps ==
    ASSUME NEW D, NEW max \in Limits, NEW f \in File,
           D[f] # None, Rotate(D, max)[f] = None
    PROVE  \/ Cardinality({g \in File : Rotate(D, max)[g] # None /\ Before(g, f)}) >= max
           \/ \E g \in File : Rotate(D, max)[g] # None /\ g.loc # f.loc /\ g.minute = f.minute
<1> DEFINE E == Rotate(D, max)
<1> DEFINE Over == OverLimit(D, max)
<1> DEFINE Rooted(k, g) == g = [k EXCEPT !.loc = Root]
<1>1. \A g \in File : E[g] = IF \E k \in Over : Rooted(k, g) THEN None ELSE D[g]
    BY DEF Rotate
<1>2. \A k \in Over : k \in File /\ D[k] # None
    BY DEF OverLimit
<1>3. \A k, g \in File : Rooted(k, g) =>
          /\ g.loc = Root /\ g.minute = k.minute /\ g.enc = k.enc
          /\ k # g => k.loc # Root
    BY DEF File
<1>4. \A k \in Over, g \in File : (Rooted(k, g) /\ k # g) => E[k] # None
    BY <1>1, <1>2, <1>3
<1>5. \A m \in Over : Cardinality(Newer(D, m)) >= max
    BY DEF OverLimit, Newer
<1>6. \A g \in File : g \in Over => E[g] = None \/ g.loc # Root
    <2>1. \A g \in File : g.loc = Root => Rooted(g, g)
        BY DEF File
    <2>2. QED BY <1>1, <2>1
<1>7. PICK h \in Over : Rooted(h, f)
    BY <1>1
<1> HIDE DEF E, Over, Rooted
<1>8. CASE h # f
    BY <1>2, <1>3, <1>4, <1>7, <1>8 DEF E
<1>9. ASSUME h = f,
             ~ \E g \in File : E[g] # None /\ g.loc # f.loc /\ g.minute = f.minute
      PROVE  Cardinality({g \in File : E[g] # None /\ Before(g, f)}) >= max
    <2> DEFINE M == {m \in Over : m = f \/ Before(m, f)}
    <2> DEFINE S == {g \in File : E[g] # None /\ Before(g, f)}
    <2>1. f \in M /\ f.loc = Root
        BY <1>2, <1>3, <1>7, <1>9
    <2>2. PICK m \in M : \A k \in M : ~(Newer(D, k) \subseteq Newer(D, m) /\ Newer(D, k) # Newer(D, m))
        BY <1>2, <2>1, LeastNewer
    <2> DEFINE T == Newer(D, m)
    <2>3. m \in File /\ m \in Over
        BY <1>2, <2>2
    <2>4. \A g \in T : g \in File /\ D[g] # None /\ Before(g, m) /\ Before(g, f)
        BY <2>2, <2>3, BeforeStrict DEF Newer
    <2>5. \A g \in T : g \notin Over
        <3>1. SUFFICES ASSUME NEW g \in T, g \in Over PROVE FALSE
            OBVIOUS
        <3>2. g \in M
            BY <2>4, <3>1
        <3>3. Newer(D, g) \subseteq Newer(D, m)
            BY <2>3, <2>4, BeforeStrict DEF Newer
        <3>4. g \in Newer(D, m) /\ g \notin Newer(D, g)
            BY <2>4, BeforeStrict DEF Newer
        <3>5. QED BY <2>2, <3>2, <3>3, <3>4
    <2>6. \A g \in T : E[g] = None => \E k \in Over : Rooted(k, g)
        BY <1>1, <2>4
    <2>7. ASSUME NEW g \in T, NEW k \in Over, Rooted(k, g) PROVE k \in S
        <3>1. /\ g.loc = Root /\ g.minute = k.minute /\ k.loc # Root /\ E[k] # None /\ k \in File
            BY <1>2, <1>3, <1>4, <2>4, <2>5, <2>7
        <3>2. g.minute > f.minute \/ g.minute = f.minute
            BY <2>4 DEF Before
        <3>3. g.minute # f.minute
            BY <1>9, <2>1, <3>1
        <3>4. Before(k, f)
            BY <3>1, <3>2, <3>3 DEF Before
        <3>5. QED BY <3>1, <3>4
    <2> DEFINE keep == [g \in T |-> IF E[g] # None THEN g ELSE CHOOSE k \in Over : Rooted(k, g)]
    <2>8. \A g \in T : /\ E[g] # None => keep[g] = g
                       /\ E[g] = None => keep[g] \in Over /\ Rooted(keep[g], g)
        BY <2>6
    <2>9. keep \in [T -> S]
        <3>1. \A g \in T : keep[g] \in S
            BY <2>4, <2>7, <2>8
        <3>2. QED BY <3>1
    <2> HIDE DEF keep, S, M, T
    <2>10. \A a, b \in T : keep[a] = keep[b] => a = b
        BY <2>5, <2>8 DEF Rooted
    <2>11. keep \in Injection(T, S)
        BY <2>9, <2>10 DEF Injection, IsInjective
    <2>12. IsFiniteSet(S)
        BY FilesFinite, FS_Subset DEF S
    <2>13. /\ Cardinality(T) <= Cardinality(S) /\ IsFiniteSet(T)
        BY <2>11, <2>12, FS_Injection
    <2>14. Cardinality(T) \in Nat /\ Cardinality(S) \in Nat
        BY <2>12, <2>13, FS_CardinalityType
    <2>15. Cardinality(T) >= max
        BY <1>5, <2>3 DEF T
    <2>16. max \in Nat
        BY BackupAssumption
    <2>17. Cardinality(S) >= max
        BY <2>13, <2>14, <2>15, <2>16
    <2>18. QED BY <2>17 DEF S
<1>10. QED BY <1>8, <1>9 DEF E

LEMMA AfterBackupPc ==
    ASSUME NEW q \in Request, NEW good PROVE AfterBackup(q, good).pc # "notify"
<1>1. CASE q.op = "backup"
    <2>1. AfterBackup(q, good) = [q EXCEPT !.pc = "answered", !.ok = good]
        BY <1>1 DEF AfterBackup
    <2>2. QED BY <2>1 DEF Request
<1>2. CASE q.op # "backup"
    <2>1. AfterBackup(q, good) = [q EXCEPT !.pc = "read", !.safety = good]
        BY <1>2 DEF AfterBackup
    <2>2. QED BY <2>1 DEF Request
<1>3. QED BY <1>1, <1>2

\* Only the archiving of a backup takes a request from its dump to the notice.
LEMMA OthersNotify ==
    ASSUME BackupInv, NEW r \in Reqs, request[r].pc = "dump", request'[r].pc = "notify",
           BackupNext
    PROVE  Archive(r)
<1>1. request \in [Reqs -> Request] /\ request[r] \in Request
    BY RequestTyped DEF BackupInv, BackupTypeOK
<1>2. ASSUME NEW i \in Reqs, NEW q, Step(i, q), i # r PROVE FALSE
    BY <1>1, <1>2 DEF Step
<1>3. ASSUME NEW q, Step(r, q) PROVE q.pc = "notify"
    BY <1>1, <1>3 DEF Step
<1>4. request' # request
    OBVIOUS
<1>5. ASSUME NEW i \in Reqs, NEW q, Begin(i, q) PROVE FALSE
    BY <1>2, <1>5 DEF Begin, NextReq
<1>6. ASSUME NEW i \in Reqs, Handle(i) PROVE Archive(r)
    <2>1. CASE BeginDump(i)
        BY <1>2, <2>1 DEF BeginDump
    <2>2. CASE DumpFails(i)
        <3>1. i = r
            BY <1>2, <2>2 DEF DumpFails
        <3>2. AfterBackup(request[r], FALSE).pc = "notify"
            BY <1>3, <2>2, <3>1 DEF DumpFails
        <3>3. QED BY <1>1, <3>2, AfterBackupPc
    <2>3. CASE Archive(i)
        <3>1. i = r
            BY <1>2, <2>3 DEF Archive
        <3>2. QED BY <2>3, <3>1
    <2>4. CASE ArchiveRaises(i)
        <3>1. i = r
            BY <1>2, <2>4 DEF ArchiveRaises
        <3>2. AfterBackup(request[r], FALSE).pc = "notify"
            BY <1>3, <2>4, <3>1 DEF ArchiveRaises
        <3>3. QED BY <1>1, <3>2, AfterBackupPc
    <2>5. CASE Notified(i)
        BY <1>2, <2>5 DEF Notified
    <2>6. CASE WrongPassword(i)
        BY <1>2, <2>6 DEF WrongPassword
    <2>7. CASE ReadRaises(i)
        BY <1>2, <2>7 DEF ReadRaises
    <2>8. CASE BeginPsql(i)
        <3>1. i # r
            BY <2>8 DEF BeginPsql
        <3>2. request'[r] = [request[r] EXCEPT
                                 !.alone = @ /\ request[r].pc # "psql",
                                 !.killed = @ \/ Terminated(request[i], r)]
            BY <2>8, <3>1 DEF BeginPsql
        <3>3. request'[r].pc = request[r].pc
            BY <1>1, <3>2 DEF Request
        <3>4. QED BY <3>3
    <2>9. CASE PsqlNotStarted(i)
        BY <1>2, <2>9 DEF PsqlNotStarted
    <2>10. CASE PsqlSucceeds(i)
        BY <1>2, <2>10 DEF PsqlSucceeds
    <2>11. CASE PsqlFails(i)
        BY <1>2, <2>11 DEF PsqlFails
    <2>12. QED BY <1>6, <2>1, <2>2, <2>3, <2>4, <2>5, <2>6, <2>7, <2>8, <2>9, <2>10, <2>11 DEF Handle
<1>7. ASSUME NEW i \in Reqs, Response(i) PROVE FALSE
    <2>1. i = r
        BY <1>2, <1>7 DEF Response
    <2>2. QED BY <1>7, <2>1 DEF Response
<1>8. ASSUME NEW p \in Pages, NEW i \in Reqs, NEW l \in Locs, NEW e \in BOOLEAN,
             triggerBackup(p, i, l, e)
      PROVE  FALSE
    BY <1>5, <1>8 DEF triggerBackup
<1>9. ASSUME NEW i \in Reqs, OtherBackup(i) PROVE FALSE
    BY <1>5, <1>9 DEF OtherBackup
<1>10. ASSUME NEW p \in Pages, NEW i \in Reqs, NEW e \in BOOLEAN, handleRestore(p, i, e)
       PROVE  FALSE
    BY <1>5, <1>10 DEF handleRestore
<1>11. ASSUME NEW p \in Pages, NEW i \in Reqs, NEW e \in BOOLEAN, NEW right \in BOOLEAN,
              uploadRestore(p, i, e, right)
       PROVE  FALSE
    BY <1>5, <1>11 DEF uploadRestore
<1>12. ASSUME NEW p \in Pages, NEW f \in File, openRestoreModal(p, f) PROVE FALSE
    BY <1>4, <1>12 DEF openRestoreModal
<1>13. ASSUME NEW p \in Pages, closeRestoreModal(p) \/ restoreNotFound(p) PROVE FALSE
    BY <1>4, <1>13 DEF closeRestoreModal, restoreNotFound
<1>14. ASSUME NEW f \in Listed, delete_backup(f) PROVE FALSE
    BY <1>4, <1>14 DEF delete_backup
<1>15. ASSUME NEW m \in Limits, NEW l \in Locs, update_config(m, l) PROVE FALSE
    BY <1>4, <1>15 DEF update_config
<1>16. ~DatabaseWrite /\ ~ClockTicks
    BY <1>4 DEF DatabaseWrite, ClockTicks
<1>17. ASSUME Crash PROVE FALSE
    <2>1. request'[r] = [request[r] EXCEPT !.pc = "lost"]
        BY <1>17 DEF Crash, Busy
    <2>2. QED BY <1>1, <2>1 DEF Request
<1>18. QED
    BY <1>6, <1>7, <1>8, <1>9, <1>10, <1>11, <1>12, <1>13, <1>14, <1>15, <1>16, <1>17
       DEF BackupNext

\* The configuration changes only with the request for it.
LEMMA OthersConfigure ==
    ASSUME BackupNext, cfg' # cfg
    PROVE  \E m \in Limits, l \in Locs : update_config(m, l)
<1>1. ASSUME NEW r \in Reqs, Handle(r) PROVE FALSE
    BY <1>1 DEF Handle, BeginDump, DumpFails, Archive, ArchiveRaises, Notified, WrongPassword,
       ReadRaises, BeginPsql, PsqlNotStarted, PsqlSucceeds, PsqlFails, disk
<1>2. ASSUME NEW r \in Reqs, Response(r) \/ OtherBackup(r) PROVE FALSE
    BY <1>2 DEF Response, OtherBackup, disk
<1>3. ASSUME NEW p \in Pages, NEW r \in Reqs, NEW l \in Locs, NEW e \in BOOLEAN,
             triggerBackup(p, r, l, e)
      PROVE  FALSE
    BY <1>3 DEF triggerBackup, disk
<1>4. ASSUME NEW p \in Pages, NEW r \in Reqs, NEW e \in BOOLEAN, handleRestore(p, r, e)
      PROVE  FALSE
    BY <1>4 DEF handleRestore, disk
<1>5. ASSUME NEW p \in Pages, NEW r \in Reqs, NEW e \in BOOLEAN, NEW right \in BOOLEAN,
             uploadRestore(p, r, e, right)
      PROVE  FALSE
    BY <1>5 DEF uploadRestore, disk
<1>6. ASSUME NEW p \in Pages, NEW f \in File, openRestoreModal(p, f) PROVE FALSE
    BY <1>6 DEF openRestoreModal, disk
<1>7. ASSUME NEW p \in Pages, closeRestoreModal(p) \/ restoreNotFound(p) PROVE FALSE
    BY <1>7 DEF closeRestoreModal, restoreNotFound, disk
<1>8. ASSUME NEW f \in Listed, delete_backup(f) PROVE FALSE
    BY <1>8 DEF delete_backup
<1>9. ~DatabaseWrite /\ ~ClockTicks /\ ~Crash
    BY DEF DatabaseWrite, ClockTicks, Crash, disk
<1>10. QED BY <1>1, <1>2, <1>3, <1>4, <1>5, <1>6, <1>7, <1>8, <1>9 DEF BackupNext

\* For any number of directories and files a rotation keeps as many newer files
\* as the limit says before the one it removes.
THEOREM RotationsKeepNewest == BackupSpec => RotationKeepsNewest
<1> DEFINE Told(f) ==
        \/ Cardinality({g \in File : fs'[g] # None /\ Before(g, f)}) >= cfg'.max
        \/ \E g \in File : fs'[g] # None /\ g.loc # f.loc /\ g.minute = f.minute
        \/ \E r \in Reqs : request'[r].pc = "notify" /\ request[r].enc /\ GzOf(request[r]) = f
<1>1. ASSUME BackupInv, NEW r \in Reqs, Archive(r), NEW f \in File, fs[f] # None, fs'[f] = None
      PROVE  Told(f)
    <2> DEFINE q == request[r]
    <2> DEFINE dump == raw[<<q.loc, q.minute>>]
    <2> DEFINE plain == [fs EXCEPT ![GzOf(q)] = [data |-> dump, key |-> None]]
    <2> DEFINE final == IF q.enc THEN [plain EXCEPT ![FileOf(q)] = Sealed(dump), ![GzOf(q)] = None]
                        ELSE plain
    <2>1. /\ fs' = Rotate(final, cfg.max) /\ cfg' = cfg
          /\ Step(r, [q EXCEPT !.pc = "notify"])
        BY <1>1 DEF Archive
    <2>2. cfg.max \in Limits /\ fs \in [File -> Stored \cup {None}] /\ q \in Request
          /\ request \in [Reqs -> Request]
        BY <1>1, RequestTyped DEF BackupInv, BackupTypeOK
    <2>3. CASE final[f] # None
        <3> HIDE DEF final
        <3>1. \/ Cardinality({g \in File : fs'[g] # None /\ Before(g, f)}) >= cfg.max
              \/ \E g \in File : fs'[g] # None /\ g.loc # f.loc /\ g.minute = f.minute
            BY <1>1, <2>1, <2>2, <2>3, RotationKeeps
        <3>2. QED BY <2>1, <3>1
    <2>4. CASE final[f] = None
        <3>1. q.enc /\ f = GzOf(q)
            <4>1. GzOf(q) \in File /\ FileOf(q) \in File
                BY <2>2, GzFile DEF Request
            <4>2. dump \in Dumps
                <5>1. dump # None /\ q.loc \in Locs /\ q.minute \in Minutes
                    BY <1>1, <2>2 DEF Archive, Request
                <5>2. QED BY <1>1, <5>1 DEF BackupInv, BackupTypeOK
            <4> HIDE DEF dump
            <4>3. [data |-> dump, key |-> None] # None /\ Sealed(dump) # None
                <5>1. [data |-> dump, key |-> None] \in Stored
                    BY <4>2 DEF Stored
                <5>2. Sealed(dump) \in Stored
                    BY <1>1, <4>2 DEF Sealed, Stored, BackupInv, BackupTypeOK
                <5>3. QED BY <5>1, <5>2, NoneAssumption
            <4>4. plain[f] # None
                BY <1>1, <2>2, <4>1, <4>3
            <4>5. plain \in [File -> Stored \cup {None}]
                <5>1. [data |-> dump, key |-> None] \in Stored
                    BY <4>2 DEF Stored
                <5>2. QED BY <2>2, <4>1, <5>1
            <4> HIDE DEF plain
            <4>6. q.enc
                BY <2>4, <4>4
            <4>7. final = [plain EXCEPT ![FileOf(q)] = Sealed(dump), ![GzOf(q)] = None]
                BY <4>6
            <4> HIDE DEF final
            <4>8. QED BY <2>4, <4>1, <4>3, <4>4, <4>5, <4>6, <4>7
        <3>2. request'[r].pc = "notify"
            BY <2>1, <2>2 DEF Step, Request
        <3>3. QED BY <3>1, <3>2
    <2>5. QED BY <2>3, <2>4
<1>2. ASSUME BackupInv, NEW m \in Limits, NEW l \in Locs, update_config(m, l),
             NEW f \in File, fs[f] # None, fs'[f] = None
      PROVE  Told(f)
    <2>1. fs' = Rotate(fs, m) /\ cfg' = [max |-> m, loc |-> l]
        BY <1>2 DEF update_config
    <2>2. \/ Cardinality({g \in File : fs'[g] # None /\ Before(g, f)}) >= m
          \/ \E g \in File : fs'[g] # None /\ g.loc # f.loc /\ g.minute = f.minute
        BY <1>2, <2>1, RotationKeeps
    <2>3. QED BY <2>1, <2>2
<1> DEFINE Kept ==
        (cfg' # cfg \/ \E r \in Reqs : request[r].pc = "dump" /\ request'[r].pc = "notify")
        => \A f \in File : (fs[f] # None /\ fs'[f] = None) => Told(f)
<1>3. ASSUME BackupInv, BackupNext PROVE Kept
    <2>1. SUFFICES ASSUME cfg' # cfg \/ \E r \in Reqs : /\ request[r].pc = "dump"
                                                        /\ request'[r].pc = "notify",
                          NEW f \in File, fs[f] # None, fs'[f] = None
                   PROVE  Told(f)
        OBVIOUS
    <2> HIDE DEF Told
    <2>2. CASE cfg' # cfg
        BY <1>2, <1>3, <2>1, <2>2, OthersConfigure
    <2>3. ASSUME NEW r \in Reqs, request[r].pc = "dump", request'[r].pc = "notify" PROVE Told(f)
        BY <1>1, <1>3, <2>1, <2>3, OthersNotify
    <2>4. QED BY <2>1, <2>2, <2>3
<1>4. BackupInv /\ [BackupNext]_backupVars => [Kept]_backupVars
    BY <1>3
<1>5. QED BY BackupInvariant, <1>4, PTL DEF BackupSpec, RotationKeepsNewest

=============================================================================
