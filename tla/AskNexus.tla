------------------------------ MODULE AskNexus ------------------------------
(* Asking the knowledge base (routers/kb.py): search_kb, ask_nexus with its    *)
(* rate limit in Redis, submit_ask_feedback, and the events they emit          *)
(* (shared/events), each one published on the bus and then written to the      *)
(* request's session.                                                          *)
(*                                                                             *)
(* A session's rows are seen by others, and last, only once committed; nobody  *)
(* commits at the end of a request.  A statement that fails leaves a session   *)
(* in which everything fails from then on, though emit_event passes over its   *)
(* own failure.  Every request is made once.  Left out: personas, which only   *)
(* the worker's dispatch passes on; texts, scores and times; a document stands *)
(* for its chunks.                                                             *)
EXTENDS Integers, FiniteSets

CONSTANTS
    AskReqs,      \* requests
    Askers,       \* users, and agents
    RoleOf,       \* "operator" (and admin), "reader" or "agent"
    Library,      \* documents
    NamespaceOf,  \* their namespaces; "global" is one everybody may read
    RateLimit,    \* ASK_RATE_LIMIT
    TopK,         \* documents found at most
    MaxAskFaults  \* bound: failed calls and restarts of nexus_api

ASSUME AskAssumption ==
    /\ RoleOf \in [Askers -> {"operator", "reader", "agent"}] /\ DOMAIN NamespaceOf = Library
    /\ IsFiniteSet(Library) /\ RateLimit \in Nat /\ TopK \in Nat /\ MaxAskFaults \in Nat

VARIABLES
    indexed,    \* documents whose ingest_status is ready
    limit,      \* Redis: the counter of each user, and whether it has a time to live
    asking,     \* the requests
    kept,       \* committed rows: <<request, row>>
    published,  \* the bus: <<request, event>>
    askFaults,
    through,    \* history: requests let past the limit in this window
    stuck       \* history: users whose counter was never given its time to live

askVars == <<indexed, limit, asking, kept, published, askFaults, through, stuck>>

\* ev: the event being emitted; rows: what the session has not committed; dead: the
\* session has failed; seen: history, documents that were ready while the request ran
NoAsk == [op |-> "none", who |-> "none", ns |-> {}, pc |-> "idle", ev |-> "none", rows |-> {}, dead |-> FALSE,
          cited |-> {}, answer |-> "none", seen |-> {}]
NoLimit == [count |-> 0, ttl |-> FALSE]
Namespaces == {NamespaceOf[d] : d \in Library}

AskInit ==
    /\ indexed = {} /\ limit = [u \in Askers |-> NoLimit]
    /\ asking = [r \in AskReqs |-> NoAsk] /\ kept = {} /\ published = {}
    /\ askFaults = 0 /\ through = [u \in Askers |-> 0] /\ stuck = {}

Set(r, q) == asking' = [asking EXCEPT ![r] = q]
Goes(q, pc) == [q EXCEPT !.pc = pc]
Emits(q, ev) == [q EXCEPT !.pc = "publish", !.ev = ev]
\* the session is closed with the answer; what it has not committed is gone
Replies(q, answer) == [q EXCEPT !.pc = "done", !.rows = {}, !.answer = answer]
Fault == askFaults < MaxAskFaults /\ askFaults' = askFaults + 1
Running(q) == q.pc \notin {"idle", "done"}

\* the worker's side: a document gets ready, or is no longer
LibraryChanges(d) ==
    /\ indexed' = IF d \in indexed THEN indexed \ {d} ELSE indexed \cup {d}
    /\ asking' = [r \in AskReqs |-> [asking[r] EXCEPT !.seen = IF Running(asking[r]) THEN @ \cup indexed' ELSE @]]
    /\ UNCHANGED <<limit, kept, published, askFaults, through, stuck>>

\* a request comes; agents only search
Asks(r, op, u, ns) ==
    /\ asking[r].pc = "idle" /\ (RoleOf[u] = "agent" => op = "search")
    /\ Set(r, [NoAsk EXCEPT !.op = op, !.who = u, !.ns = ns, !.seen = indexed,
                            !.pc = CASE op = "ask" -> "incr" [] op = "search" -> "retrieve" [] op = "feedback" -> "commit",
                            !.rows = IF op = "feedback" THEN {"feedback"} ELSE {}])
    /\ UNCHANGED <<indexed, limit, kept, published, askFaults, through, stuck>>

(* ---------------- _check_rate_limit ---------------- *)

Judged(r, count) == Emits(asking[r], IF count > RateLimit THEN "limited" ELSE "requested")

\* INCR; the first one is followed by EXPIRE
Increments(r) ==
    LET u == asking[r].who
        count == limit[u].count + 1 IN
    /\ asking[r].pc = "incr"
    /\ limit' = [limit EXCEPT ![u].count = count]
    /\ through' = [through EXCEPT ![u] = IF count > RateLimit THEN @ ELSE @ + 1]
    /\ Set(r, IF count = 1 THEN Goes(asking[r], "expire") ELSE Judged(r, count))
    /\ UNCHANGED <<indexed, kept, published, askFaults, stuck>>

Expires(r) ==
    /\ asking[r].pc = "expire"
    /\ limit' = [limit EXCEPT ![asking[r].who].ttl = TRUE]
    /\ Set(r, Judged(r, 1))
    /\ UNCHANGED <<indexed, kept, published, askFaults, through, stuck>>

\* Redis fails: 500
LimiterFails(r) ==
    /\ asking[r].pc \in {"incr", "expire"} /\ Fault
    /\ Set(r, Replies(asking[r], "500"))
    /\ stuck' = IF asking[r].pc = "expire" THEN stuck \cup {asking[r].who} ELSE stuck
    /\ UNCHANGED <<indexed, limit, kept, published, through>>

\* the window of a user has passed
WindowEnds(u) ==
    /\ limit[u].ttl
    /\ limit' = [limit EXCEPT ![u] = NoLimit] /\ through' = [through EXCEPT ![u] = 0]
    /\ UNCHANGED <<indexed, asking, kept, published, askFaults, stuck>>

(* ---------------- emit_event ---------------- *)

\* inside ask_nexus' try an exception becomes ask.failed, elsewhere an error
InTry(q) == q.op = "ask" /\ (q.pc = "retrieve" \/ q.ev \in {"retrieved", "responded"})
Raises(q) == IF InTry(q) THEN Emits(q, "failed") ELSE Replies(q, "500")

\* bus.publish
Publishes(r) ==
    /\ asking[r].pc = "publish"
    /\ published' = published \cup {<<r, asking[r].ev>>}
    /\ Set(r, Goes(asking[r], "persist"))
    /\ UNCHANGED <<indexed, limit, kept, askFaults, through, stuck>>

\* ... raises, though the event may have been taken
PublishFails(r) ==
    /\ asking[r].pc = "publish" /\ Fault
    /\ published' \in {published, published \cup {<<r, asking[r].ev>>}}
    /\ Set(r, Raises(asking[r]))
    /\ UNCHANGED <<indexed, limit, kept, through, stuck>>

\* what follows the event
Proceeds(q) ==
    CASE q.ev = "limited" -> Goes(q, "commit")
      [] q.ev = "requested" -> Goes(q, "retrieve")
      [] q.ev = "retrieved" -> Goes(q, "synthesize")
      [] q.ev \in {"responded", "received"} -> Replies(q, "ok")
      [] q.ev = "failed" -> Replies(q, "500")

\* persist_event: the row is flushed; a session that has failed refuses it
Persists(r) ==
    /\ asking[r].pc = "persist"
    /\ Set(r, Proceeds([asking[r] EXCEPT !.rows = IF asking[r].dead THEN @ ELSE @ \cup {asking[r].ev}]))
    /\ UNCHANGED <<indexed, limit, kept, published, askFaults, through, stuck>>

\* Variant: a flush that fails costs its own row only.
LosesItsRow(q) == q
\* a statement that fails costs everything the session has not committed
LosesSession(q) == [q EXCEPT !.rows = {}, !.dead = TRUE]

\* ... fails, which is passed over
PersistFails(r) ==
    /\ asking[r].pc = "persist" /\ ~asking[r].dead /\ Fault
    /\ Set(r, Proceeds(LosesSession(asking[r])))
    /\ UNCHANGED <<indexed, limit, kept, published, through, stuck>>

(* ---------------- search and answer ---------------- *)

\* enforce_rag_policy, without a persona
enforce_rag_policy(u, ns) == IF RoleOf[u] = "operator" THEN ns ELSE {"global"}

\* the access log is added and the nearest ready documents of the namespaces are found
Retrieves(r) ==
    LET q == asking[r]
        near == {d \in indexed : NamespaceOf[d] \in enforce_rag_policy(q.who, q.ns)} IN
    /\ q.pc = "retrieve" /\ ~q.dead
    /\ \E found \in SUBSET near :
         /\ Cardinality(found) = IF Cardinality(near) < TopK THEN Cardinality(near) ELSE TopK
         /\ LET p == [q EXCEPT !.cited = found, !.rows = @ \cup {"access"}] IN
            Set(r, IF q.op = "ask" THEN Emits(p, "retrieved") ELSE Goes(p, "commit"))
    /\ UNCHANGED <<indexed, limit, kept, published, askFaults, through, stuck>>

\* the answer is the model's, or made of excerpts when there is none or it fails: only
\* making the model's client can raise
Synthesizes(r) ==
    /\ asking[r].pc = "synthesize"
    /\ Set(r, Goes(asking[r], "commit"))
    /\ UNCHANGED <<indexed, limit, kept, published, askFaults, through, stuck>>

\* db.commit; a session that has failed raises
Commits(r) ==
    LET q == asking[r] IN
    /\ q.pc = "commit" /\ ~q.dead
    /\ kept' = kept \cup {<<r, x>> : x \in q.rows}
    /\ LET p == [q EXCEPT !.rows = {}] IN
       Set(r, CASE q.op = "search" -> Replies(p, "ok")
                [] q.op = "feedback" -> Emits(p, "received")
                [] q.ev = "limited" -> Replies(p, "429")
                [] OTHER -> Emits(p, "responded"))
    /\ UNCHANGED <<indexed, limit, published, askFaults, through, stuck>>

\* what is asked of a session that has failed
SessionRefuses(r) ==
    /\ asking[r].pc \in {"retrieve", "commit"} /\ asking[r].dead
    /\ Set(r, Raises(asking[r]))
    /\ UNCHANGED <<indexed, limit, kept, published, askFaults, through, stuck>>

\* the database, the embedding or the model's client fails; a commit may have been done
AskFails(r) ==
    /\ asking[r].pc \in {"retrieve", "synthesize", "commit"} /\ ~asking[r].dead /\ Fault
    /\ \/ UNCHANGED kept
       \/ asking[r].pc = "commit" /\ kept' = kept \cup {<<r, x>> : x \in asking[r].rows}
    /\ Set(r, Raises(LosesSession(asking[r])))
    /\ UNCHANGED <<indexed, limit, published, through, stuck>>

\* nexus_api stops with everything under way
AskApiStops ==
    /\ Fault
    /\ stuck' = stuck \cup {asking[r].who : r \in {x \in AskReqs : asking[x].pc = "expire"}}
    /\ asking' = [r \in AskReqs |-> IF Running(asking[r]) THEN Replies(asking[r], "lost") ELSE asking[r]]
    /\ UNCHANGED <<indexed, limit, kept, published, through>>

AskNext ==
    \/ \E d \in Library : LibraryChanges(d)
    \/ \E u \in Askers : WindowEnds(u)
    \/ AskApiStops
    \/ \E r \in AskReqs :
         \/ \E op \in {"ask", "search", "feedback"}, u \in Askers, ns \in SUBSET Namespaces : Asks(r, op, u, ns)
         \/ Increments(r) \/ Expires(r) \/ LimiterFails(r)
         \/ Publishes(r) \/ PublishFails(r) \/ Persists(r) \/ PersistFails(r)
         \/ Retrieves(r) \/ Synthesizes(r) \/ Commits(r) \/ SessionRefuses(r) \/ AskFails(r)

(* ---------------- properties ---------------- *)

Kept(r) == {k[2] : k \in {x \in kept : x[1] = r}}
OnBus(r) == {e[2] : e \in {x \in published : x[1] = r}}
Owed(q) == CASE q.answer = "429" -> {"limited"}
             [] q.answer # "429" /\ q.op = "ask" -> {"access", "requested", "retrieved"}
             [] q.answer # "429" /\ q.op = "search" -> {"access"}
             [] OTHER -> {"feedback"}

\* Who was answered, or refused by the limit, is in the tables, though the failure of an
\* event's row is passed over (events/api.py:95); who was answered with an error left
\* either all of these rows or none; an event in the tables was published.
AnswersAreKept ==
    \A r \in AskReqs :
        /\ asking[r].answer \in {"ok", "429"} => Owed(asking[r]) \subseteq Kept(r)
        /\ Kept(r) \cap {"access", "feedback"} # {} => Owed(asking[r]) \subseteq Kept(r)
        /\ Kept(r) \ {"access", "feedback"} \subseteq OnBus(r)

\* ask.responded and ask.feedback_received tell of what is committed.
EventsFollowCommit ==
    \A r \in AskReqs : OnBus(r) \cap {"responded", "received"} # {} => Owed(asking[r]) \subseteq Kept(r)

\* No more requests than the limit pass in a window, and a counter that will never be
\* reset is one whose EXPIRE was lost (kb.py:599).
LimitHolds ==
    \A u \in Askers :
        /\ through[u] <= RateLimit
        /\ limit[u].count > 0 /\ ~limit[u].ttl =>
               u \in stuck \/ \E r \in AskReqs : asking[r].who = u /\ asking[r].pc = "expire"

\* A citation is of a document that was ready while the request ran, in a namespace its
\* user may read.
CitesAreAllowed ==
    \A r \in AskReqs : \A d \in asking[r].cited :
        /\ d \in asking[r].seen
        /\ RoleOf[asking[r].who] # "operator" => NamespaceOf[d] = "global"

\* Whoever asks is limited, answered from what is theirs to read, and accounted for.
AsksAreAccounted == AnswersAreKept /\ EventsFollowCommit /\ LimitHolds /\ CitesAreAllowed
=============================================================================
