------------------------------ MODULE EventBus ------------------------------
(***************************************************************************)
(* The Redis Streams event bus of packages/shared/events/transport.py: one *)
(* stream, one consumer group and the processes that run `subscribe` on    *)
(* it.  A process may crash (or have its task cancelled) at every await,   *)
(* every Redis call may fail before or after it took effect, and a handler *)
(* may outlive the idle threshold, after which XAUTOCLAIM hands its entry  *)
(* to another consumer.                                                    *)
(*                                                                         *)
(* Redis itself (streams, groups, the pending entries list) is external    *)
(* and is modelled by the commands the code issues.  Entry ids are the     *)
(* positions 1, 2, ... in which XADD assigned them.  The name of the       *)
(* consumer that owns a pending entry is left out: no call of the code     *)
(* depends on it.                                                          *)
(***************************************************************************)
EXTENDS Integers, FiniteSets

CONSTANTS
    Consumers,              \* processes that run the subscribe loop
    MAX_DELIVERY_ATTEMPTS,  \* deliveries before an entry is dead-lettered
    BATCH_SIZE,             \* entries per XREADGROUP / XAUTOCLAIM
    STREAM_MAXLEN,          \* approximate length XADD trims the stream to
    MaxEvents,              \* bound: entries ever published
    MaxMishaps              \* bound: crashes, Redis errors and slow handlers

ASSUME BusAssumption ==
    /\ MAX_DELIVERY_ATTEMPTS \in Nat \ {0}
    /\ BATCH_SIZE \in Nat \ {0}
    /\ STREAM_MAXLEN \in Nat \ {0}
    /\ MaxEvents \in Nat
    /\ MaxMishaps \in Nat

VARIABLES
    len,        \* entries ever added to the stream
    first,      \* the lowest id that trimming has left in the stream
    group,      \* does the consumer group exist?
    last,       \* the group's last-delivered-id
    pel,        \* the group's pending entries list
    idle,       \* pending entries idle for more than CLAIM_IDLE_MS
    delivered,  \* times_delivered of an entry (kept after it is acknowledged)
    handled,    \* how often the handler returned normally for an entry
    dlq,        \* copies of an entry in the dead-letter stream
    pc,         \* where each consumer is in the subscribe loop
    batch,      \* entries of its current reply a consumer has yet to finish
    phase,      \* does the current batch come from a poll or from a claim?
    mishaps     \* crashes, Redis errors and slow handlers so far

stream == <<len, first>>
redis == <<len, first, group, last, pel, idle, delivered, dlq>>
vars == <<len, first, group, last, pel, idle, delivered, handled, dlq,
          pc, batch, phase, mishaps>>

Ids == 1..MaxEvents

Steps == {"down", "poll", "claim", "handle", "ack", "check", "dlq_add", "dlq_ack"}

TypeOK ==
    /\ len \in 0..MaxEvents
    /\ first \in 1..(MaxEvents + 1)
    /\ group \in BOOLEAN
    /\ last \in 0..MaxEvents
    /\ pel \subseteq Ids
    /\ idle \subseteq pel
    /\ delivered \in [Ids -> Nat]
    /\ handled \in [Ids -> Nat]
    /\ dlq \in [Ids -> Nat]
    /\ pc \in [Consumers -> Steps]
    /\ batch \in [Consumers -> SUBSET Ids]
    /\ phase \in [Consumers -> {"poll", "claim"}]
    /\ mishaps \in Nat

Init ==
    /\ len = 0
    /\ first = 1
    /\ group = FALSE
    /\ last = 0
    /\ pel = {}
    /\ idle = {}
    /\ delivered = [i \in Ids |-> 0]
    /\ handled = [i \in Ids |-> 0]
    /\ dlq = [i \in Ids |-> 0]
    /\ pc = [c \in Consumers |-> "down"]
    /\ batch = [c \in Consumers |-> {}]
    /\ phase = [c \in Consumers |-> "poll"]
    /\ mishaps = 0

-----------------------------------------------------------------------------
(* Helpers *)

\* The first n members of S in id order: the COUNT argument of Redis.
FirstOf(S, n) == {i \in S : Cardinality({j \in S : j < i}) < n}

\* The entry consumer c works on: replies are processed in id order.
Current(c, i) == i \in batch[c] /\ \A j \in batch[c] : i <= j

\* A crash, a failing Redis call or a slow handler uses up one mishap.
Mishap == mishaps < MaxMishaps /\ mishaps' = mishaps + 1

\* Where the loop continues after a reply has been worked off.
NextPhase(c) == IF phase[c] = "poll" THEN "claim" ELSE "poll"

\* Consumer c is done with entry i: next entry of the reply, or next phase.
Finish(c, i) ==
    /\ batch' = [batch EXCEPT ![c] = @ \ {i}]
    /\ pc' = [pc EXCEPT ![c] = IF batch[c] = {i} THEN NextPhase(c) ELSE "handle"]

\* A reply with the entries S arrives at c in phase p.
Receive(c, p, S) ==
    /\ batch' = [batch EXCEPT ![c] = S]
    /\ phase' = [phase EXCEPT ![c] = p]
    /\ pc' = [pc EXCEPT ![c] = IF S # {} THEN "handle"
                               ELSE IF p = "poll" THEN "claim" ELSE "poll"]

\* XACK took effect in Redis.
Ack(i) == /\ pel' = pel \ {i}
          /\ idle' = idle \ {i}

-----------------------------------------------------------------------------
(* Producers *)

\* publish: XADD with MAXLEN ~.  Approximate trimming drops any number of
\* the oldest entries as long as STREAM_MAXLEN are left.
publish ==
    /\ len < MaxEvents
    /\ len' = len + 1
    /\ \E f \in first..(MaxEvents + 1) :
          /\ f = first \/ f <= len' + 1 - STREAM_MAXLEN
          /\ first' = f
    /\ UNCHANGED <<group, last, pel, idle, delivered, handled, dlq, pc, batch,
                   phase, mishaps>>

-----------------------------------------------------------------------------
(* Consumers *)

\* Variant: the group is destroyed and created again at every start.
SubscribeResets(c) ==
    /\ pc[c] = "down"
    /\ group' = TRUE
    /\ last' = 0
    /\ pc' = [pc EXCEPT ![c] = "poll"]
    /\ UNCHANGED <<stream, pel, idle, delivered, handled, dlq, batch, phase, mishaps>>

\* Variant: the group is created at "$" instead of "0".
SubscribeAtEnd(c) ==
    /\ pc[c] = "down"
    /\ group' = TRUE
    /\ last' = IF group THEN last ELSE len
    /\ pc' = [pc EXCEPT ![c] = "poll"]
    /\ UNCHANGED <<stream, pel, idle, delivered, handled, dlq, batch, phase, mishaps>>

\* subscribe with an exact event type: the key always resolves, the group is
\* created at id 0 unless it exists (BUSYGROUP), and the loop starts.
subscribe(c) ==
    /\ pc[c] = "down"
    /\ group' = TRUE
    /\ last' = IF group THEN last ELSE 0
    /\ pc' = [pc EXCEPT ![c] = "poll"]
    /\ UNCHANGED <<stream, pel, idle, delivered, handled, dlq, batch, phase, mishaps>>

\* What XREADGROUP ">" returns: unread entries that are still in the stream.
Unread == FirstOf({i \in Ids : i > last /\ i >= first /\ i <= len}, BATCH_SIZE)

\* XREADGROUP took effect in Redis: the entries S are pending, delivered once.
ReadGroup(S) ==
    /\ pel' = pel \cup S
    /\ \/ S = {} /\ UNCHANGED last
       \/ \E m \in S : (\A j \in S : j <= m) /\ last' = m
    /\ delivered' = [i \in Ids |-> IF i \in S THEN delivered[i] + 1 ELSE delivered[i]]
    /\ UNCHANGED <<stream, group, idle, dlq>>

poll(c) ==
    /\ pc[c] = "poll"
    /\ ReadGroup(Unread)
    /\ Receive(c, "poll", Unread)
    /\ UNCHANGED <<handled, mishaps>>

\* XREADGROUP raises in the client; Redis may have executed it.  The loop
\* sleeps a second and polls again.
poll_fails(c) ==
    /\ pc[c] = "poll"
    /\ Mishap
    /\ ReadGroup(Unread) \/ UNCHANGED redis
    /\ UNCHANGED <<handled, pc, batch, phase>>

\* What XAUTOCLAIM scans: idle entries, and entries trimmed from the stream.
Claimable == FirstOf(idle \cup {i \in pel : i < first}, BATCH_SIZE)

\* XAUTOCLAIM took effect: trimmed entries leave the PEL, the others are
\* delivered once more and their idle time starts again.
AutoClaim(S) ==
    /\ pel' = pel \ {i \in S : i < first}
    /\ idle' = idle \ S
    /\ delivered' = [i \in Ids |-> IF i \in S /\ i >= first THEN delivered[i] + 1
                                   ELSE delivered[i]]
    /\ UNCHANGED <<stream, group, last, dlq>>

claim(c) ==
    /\ pc[c] = "claim"
    /\ AutoClaim(Claimable)
    /\ Receive(c, "claim", {i \in Claimable : i >= first})
    /\ UNCHANGED <<handled, mishaps>>

\* XAUTOCLAIM raises: the exception is dropped and the loop polls again.
claim_fails(c) ==
    /\ pc[c] = "claim"
    /\ Mishap
    /\ AutoClaim(Claimable) \/ UNCHANGED redis
    /\ pc' = [pc EXCEPT ![c] = "poll"]
    /\ UNCHANGED <<handled, batch, phase>>

\* The handler returns.
handle(c, i) ==
    /\ pc[c] = "handle" /\ Current(c, i)
    /\ handled' = [handled EXCEPT ![i] = @ + 1]
    /\ pc' = [pc EXCEPT ![c] = "ack"]
    /\ UNCHANGED <<redis, batch, phase, mishaps>>

\* The entry cannot be parsed, or the handler raises.
handle_fails(c, i) ==
    /\ pc[c] = "handle" /\ Current(c, i)
    /\ pc' = [pc EXCEPT ![c] = "check"]
    /\ UNCHANGED <<redis, handled, batch, phase, mishaps>>

\* XACK after the handler returned.
xack(c, i) ==
    /\ pc[c] = "ack" /\ Current(c, i)
    /\ Ack(i)
    /\ Finish(c, i)
    /\ UNCHANGED <<stream, group, last, delivered, handled, dlq, phase, mishaps>>

\* XACK raises: the except clause treats it like a failed handler.
xack_fails(c, i) ==
    /\ pc[c] = "ack" /\ Current(c, i)
    /\ Mishap
    /\ Ack(i) \/ UNCHANGED <<pel, idle>>
    /\ pc' = [pc EXCEPT ![c] = "check"]
    /\ UNCHANGED <<stream, group, last, delivered, handled, dlq, batch, phase>>

\* Variant: the threshold of _maybe_dlq off by one.
ExhaustedEarly(i) == i \in pel /\ delivered[i] >= MAX_DELIVERY_ATTEMPTS - 1

\* XPENDING reports entry i with its delivery attempts used up.
Exhausted(i) == i \in pel /\ delivered[i] >= MAX_DELIVERY_ATTEMPTS

\* _maybe_dlq: decide with XPENDING whether the entry is to be dead-lettered.
maybe_dlq(c, i) ==
    /\ pc[c] = "check" /\ Current(c, i)
    /\ \/ /\ Exhausted(i)
          /\ pc' = [pc EXCEPT ![c] = "dlq_add"]
          /\ UNCHANGED batch
       \/ /\ ~Exhausted(i)
          /\ Finish(c, i)
    /\ UNCHANGED <<redis, handled, phase, mishaps>>

\* _maybe_dlq: XADD to the dead-letter stream, before the entry is acked.
dlq_add(c, i) ==
    /\ pc[c] = "dlq_add" /\ Current(c, i)
    /\ dlq' = [dlq EXCEPT ![i] = @ + 1]
    /\ pc' = [pc EXCEPT ![c] = "dlq_ack"]
    /\ UNCHANGED <<stream, group, last, pel, idle, delivered, handled, batch,
                   phase, mishaps>>

\* _maybe_dlq: XACK of the dead-lettered entry.
dlq_ack(c, i) ==
    /\ pc[c] = "dlq_ack" /\ Current(c, i)
    /\ Ack(i)
    /\ Finish(c, i)
    /\ UNCHANGED <<stream, group, last, delivered, handled, dlq, phase, mishaps>>

\* Variant: an entry is acked although its XADD to the dead-letter stream failed.
AckOnDlqError(c, i) ==
    /\ pc[c] \in {"check", "dlq_add", "dlq_ack"} /\ Current(c, i)
    /\ Mishap
    /\ UNCHANGED dlq
    /\ Ack(i)
    /\ Finish(c, i)
    /\ UNCHANGED <<stream, group, last, delivered, handled, phase>>

\* A Redis call of _maybe_dlq raises (whether or not Redis executed it): the
\* exception is logged, the entry stays as it is, the loop goes on.
dlq_fails(c, i) ==
    /\ pc[c] \in {"check", "dlq_add", "dlq_ack"} /\ Current(c, i)
    /\ Mishap
    /\ \/ UNCHANGED <<pel, idle, dlq>>
       \/ /\ pc[c] = "dlq_add"
          /\ dlq' = [dlq EXCEPT ![i] = @ + 1]
          /\ UNCHANGED <<pel, idle>>
       \/ /\ pc[c] = "dlq_ack"
          /\ Ack(i)
          /\ UNCHANGED dlq
    /\ Finish(c, i)
    /\ UNCHANGED <<stream, group, last, delivered, handled, phase>>

-----------------------------------------------------------------------------
(* Environment *)

\* The process dies or its task is cancelled; what it held in memory is gone.
crash(c) ==
    /\ pc[c] # "down"
    /\ Mishap
    /\ pc' = [pc EXCEPT ![c] = "down"]
    /\ batch' = [batch EXCEPT ![c] = {}]
    /\ UNCHANGED <<redis, handled, phase>>

Held(i) == \E c \in Consumers : i \in batch[c]

\* CLAIM_IDLE_MS pass since the last delivery of a pending entry.  That this
\* happens while a consumer still has the entry in hand is a mishap.
elapse(i) ==
    /\ i \in pel \ idle
    /\ IF Held(i) THEN Mishap ELSE UNCHANGED mishaps
    /\ idle' = idle \cup {i}
    /\ UNCHANGED <<stream, group, last, pel, delivered, handled, dlq, pc, batch, phase>>

-----------------------------------------------------------------------------

\* What a consumer does when nothing goes wrong; the handler's own outcome
\* is the environment's choice.
Work(c) ==
    \/ poll(c)
    \/ claim(c)
    \/ \E i \in Ids : \/ handle(c, i) \/ handle_fails(c, i) \/ xack(c, i)
                      \/ maybe_dlq(c, i) \/ dlq_add(c, i) \/ dlq_ack(c, i)

Faults(c) ==
    \/ poll_fails(c)
    \/ claim_fails(c)
    \/ crash(c)
    \/ \E i \in Ids : xack_fails(c, i) \/ dlq_fails(c, i)

Next ==
    \/ publish
    \/ \E c \in Consumers : subscribe(c) \/ Work(c) \/ Faults(c)
    \/ \E i \in Ids : elapse(i)

Spec == Init /\ [][Next]_vars

\* The subscribe loop keeps running, a stopped process is restarted (the
\* compose files restart containers), handlers return and time passes.
Fairness ==
    /\ \A c \in Consumers : WF_vars(Work(c)) /\ WF_vars(subscribe(c))
    /\ \A i \in Ids : WF_vars(elapse(i))

FairSpec == Spec /\ Fairness

-----------------------------------------------------------------------------
(* Properties *)

\* At-least-once delivery (the promise in the header of transport.py, for
\* what trimming leaves): an entry that was read and is no longer pending
\* was either handled or put into the dead-letter stream, whatever crashed
\* or failed on the way, unless MAXLEN trimming removed it.
NoSilentLoss ==
    \A i \in 1..len :
        \/ i > last
        \/ i \in pel
        \/ handled[i] > 0
        \/ dlq[i] > 0
        \/ i < first

\* _maybe_dlq dead-letters an entry only once it has been delivered
\* MAX_DELIVERY_ATTEMPTS times.
DeadLetterThreshold ==
    \A i \in Ids : dlq[i] > 0 => delivered[i] >= MAX_DELIVERY_ATTEMPTS

\* Once a delivered entry has left the PEL it is never pending again: neither
\* a restart that creates the group anew (BUSYGROUP is tolerated for this
\* reason), nor a claim, nor a late XACK of a slow consumer brings it back.
AckIsFinal ==
    [][\A i \in Ids : delivered[i] > 0 /\ i \notin pel => i \notin pel']_vars

\* Every published event is handled or dead-lettered, unless it was trimmed, and
\* no failed message sits in the PEL forever (_claim_pending).
EventuallySettled ==
    \A i \in Ids :
        /\ i <= len ~> (handled[i] > 0 \/ dlq[i] > 0 \/ i < first)
        /\ i \in pel ~> i \notin pel
=============================================================================
