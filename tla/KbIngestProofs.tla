--------------------------- MODULE KbIngestProofs ---------------------------
(* Proofs about KbIngest for any set of documents: what search reads is whole, *)
(* and no document waits for a job that does not exist; and about AskNexus for *)
(* any requests, users and faults: whoever asks is limited, answered from what *)
(* is theirs to read, and accounted for.                                       *)
EXTENDS KnowledgeBase, SequenceTheorems, TLAPS

absent(d) == doc[d].ingest_status = "absent"

Queued(d) == \E n \in DOMAIN queue : queue[n].doc = d

\* A job for d is on its way to the worker.
Sent(d) == Queued(d) \/ \E send \in unsent : send.job.doc = d

\* A ready document has the chunks of its version, one that is gone has none.
IndexInv ==
    \A d \in Docs :
        /\ doc[d].ingest_status = "ready" => /\ chunks[d] = {doc[d].version}
                                             /\ doc[d].embedding \/ doc[d].given
        /\ ~exists(d) => chunks[d] = {}

\* The id of a URL ingest has no row, and no second job, until the fetch inserts it.
UrlInv ==
    /\ \A send \in unsent :
         /\ send.job.kind = "url" => /\ send.call = 0 /\ absent(send.job.doc)
                                     /\ ~Queued(send.job.doc) /\ worker.doc # send.job.doc
         /\ send.job.kind = "embed" => ~absent(send.job.doc)
    /\ \A n \in DOMAIN queue : queue[n].kind = "url" =>
         /\ absent(queue[n].doc) /\ worker.doc # queue[n].doc
         /\ \A m \in DOMAIN queue : queue[m].doc = queue[n].doc => m = n
    /\ worker.pc = "fetch" => absent(worker.doc) /\ ~Queued(worker.doc)

\* What the worker holds: a document while in a job, the metadata of its row as it
\* loaded them; what startup has flushed it has enqueued.
WorkerInv ==
    /\ InJob <=> worker.doc \in Docs
    /\ worker.pc # "recover" => worker.stuck = {} /\ worker.flushed = {}
    /\ \A d \in worker.flushed : Queued(d) /\ ~absent(d)
    /\ worker.pc \in {"extract", "index"} => worker.loaded.ingest_status = "processing"
    /\ worker.pc \in {"loaded", "extract", "index"} /\ exists(worker.doc)
         => /\ doc[worker.doc].given = worker.loaded.given
            /\ doc[worker.doc].embedding = worker.loaded.embedding

\* Where a document in "processing" or "uploaded" can be as long as nothing was lost.
FoundInv ==
    losses = 0 =>
    /\ worker.pc = "loaded" => worker.loaded.ingest_status # "processing"
    /\ \A d \in Docs : doc[d].ingest_status = "processing" =>
         \/ worker.pc \in {"extract", "index"} /\ worker.doc = d
         \/ worker.pc \in {"down", "startup"}
         \/ worker.pc = "recover" /\ d \in worker.stuck
    /\ \A d \in Docs : doc[d].ingest_status = "uploaded" =>
         Sent(d) \/ (worker.pc \in {"load", "loaded"} /\ worker.doc = d)

Inv == TypeOK /\ IndexInv /\ UrlInv /\ WorkerInv /\ FoundInv

Workers == [pc : Steps, doc : Docs \cup {NoDoc}, loaded : Rows, stuck : SUBSET Docs, flushed : SUBSET Docs]

Busy == {"fetch", "load", "loaded", "extract", "index"}

-----------------------------------------------------------------------------
\* Helpers

LEMMA OffFields ==
    ASSUME NEW step \in Steps
    PROVE  /\ Off(step) \in Workers /\ Off(step).pc = step /\ Off(step).doc = NoDoc
           /\ Off(step).stuck = {} /\ Off(step).flushed = {} /\ Off(step).loaded = NoRow
BY DEF Off, Workers, NoRow, Rows, Statuses, Live

LEMMA AppendJob ==
    ASSUME queue \in Seq(Jobs), NEW j \in Jobs, queue' = Append(queue, j)
    PROVE  /\ queue' \in Seq(Jobs)
           /\ DOMAIN queue' = DOMAIN queue \cup {Len(queue) + 1} /\ Len(queue) + 1 \notin DOMAIN queue
           /\ queue'[Len(queue) + 1] = j
           /\ \A n \in DOMAIN queue : queue'[n] = queue[n]
           /\ \A d : Queued(d)' <=> (Queued(d) \/ j.doc = d)
<1>1. /\ queue' \in Seq(Jobs) /\ Len(queue') = Len(queue) + 1 /\ Len(queue) \in Nat
      /\ \A n \in 1..Len(queue) : queue'[n] = queue[n]
      /\ queue'[Len(queue) + 1] = j
  BY AppendProperties, LenProperties
<1>2. DOMAIN queue = 1..Len(queue) /\ DOMAIN queue' = 1..(Len(queue) + 1)
  BY <1>1, LenProperties
<1>3. DOMAIN queue' = DOMAIN queue \cup {Len(queue) + 1} /\ Len(queue) + 1 \notin DOMAIN queue
  BY <1>1, <1>2
<1>4. \A n \in DOMAIN queue : queue'[n] = queue[n]
  BY <1>1, <1>2
<1>5. \A d : Queued(d)' <=> (Queued(d) \/ j.doc = d)
  BY <1>1, <1>3, <1>4 DEF Queued
<1> QED BY <1>1, <1>3, <1>4, <1>5

LEMMA TailJobs ==
    ASSUME queue \in Seq(Jobs), queue # <<>>, queue' = Tail(queue)
    PROVE  /\ queue' \in Seq(Jobs) /\ 1 \in DOMAIN queue /\ Head(queue) = queue[1] /\ queue[1] \in Jobs
           /\ \A n \in DOMAIN queue' : n + 1 \in DOMAIN queue /\ n + 1 # 1 /\ queue'[n] = queue[n + 1]
           /\ \A n \in DOMAIN queue' : n \in Nat
           /\ \A d : Queued(d) <=> (Queued(d)' \/ queue[1].doc = d)
<1>1. /\ Len(queue) \in Nat \ {0} /\ Head(queue) = queue[1] /\ queue' \in Seq(Jobs)
      /\ Len(queue') = Len(queue) - 1
      /\ \A n \in 1..Len(queue') : queue'[n] = queue[n + 1]
  BY HeadTailProperties, LenProperties, EmptySeq
<1>2. DOMAIN queue = 1..Len(queue) /\ DOMAIN queue' = 1..Len(queue')
  BY <1>1, LenProperties
<1>3. 1 \in DOMAIN queue /\ queue[1] \in Jobs
  BY <1>1, <1>2, ElementOfSeq
<1>4. \A n \in DOMAIN queue' : n \in Nat /\ n + 1 \in DOMAIN queue /\ n + 1 # 1 /\ queue'[n] = queue[n + 1]
  BY <1>1, <1>2
<1>5. \A d : Queued(d) <=> (Queued(d)' \/ queue[1].doc = d)
  <2>1. ASSUME NEW n \in DOMAIN queue, n # 1 PROVE n - 1 \in DOMAIN queue' /\ queue'[n - 1] = queue[n]
    BY <1>1, <1>2, <2>1
  <2>2. ASSUME NEW d, Queued(d), queue[1].doc # d PROVE Queued(d)'
    <3>1. PICK n \in DOMAIN queue : queue[n].doc = d
      BY <2>2 DEF Queued
    <3>2. n - 1 \in DOMAIN queue' /\ queue'[n - 1] = queue[n]
      BY <2>1, <2>2, <3>1
    <3> QED BY <3>1, <3>2 DEF Queued
  <2>3. ASSUME NEW d, Queued(d)' PROVE Queued(d)
    BY <1>4, <2>3 DEF Queued
  <2>4. ASSUME NEW d, queue[1].doc = d PROVE Queued(d)
    BY <1>3, <2>4 DEF Queued
  <2> QED BY <2>2, <2>3, <2>4
<1> QED BY <1>1, <1>3, <1>4, <1>5

LEMMA SendType ==
    ASSUME NEW kind \in {"embed", "url"}, NEW d \in Docs, NEW n \in 0..MaxReingests
    PROVE  /\ Send(kind, d, n) \in Sends /\ Send(kind, d, n).job \in Jobs
           /\ Send(kind, d, n).job.kind = kind /\ Send(kind, d, n).job.doc = d /\ Send(kind, d, n).call = n
BY DEF Send, Sends, Jobs

LEMMA UnsentType == TypeOK => \A send \in unsent : send \in Sends /\ send.job \in Jobs /\ send.job.doc \in Docs
                                                  /\ send.job.kind \in {"embed", "url"}
BY DEF TypeOK, Sends, Jobs

LEMMA QueueType == TypeOK => \A n \in DOMAIN queue : queue[n] \in Jobs /\ queue[n].doc \in Docs
                                                    /\ queue[n].kind \in {"embed", "url"}
<1>1. TypeOK => queue \in Seq(Jobs)
  BY DEF TypeOK
<1>2. queue \in Seq(Jobs) => \A n \in DOMAIN queue : queue[n] \in Jobs
  BY LenProperties, ElementOfSeq
<1> QED BY <1>1, <1>2 DEF Jobs

LEMMA RowType == TypeOK => \A d \in Docs : doc[d] \in Rows
BY DEF TypeOK

LEMMA UrlSend ==
    ASSUME NEW send \in Sends, send.job.kind = "url", send.call = 0
    PROVE  send = Send("url", send.job.doc, 0)
BY DEF Sends, Jobs, Send

-----------------------------------------------------------------------------
\* The handlers of the API

\* A change of the table and of the pending sends by a handler.  Rows of documents
\* that some URL ingest is to create are not touched.
LEMMA HandlerStep ==
    ASSUME Inv, NEW d \in Docs, NEW x \in Rows, doc' = [doc EXCEPT ![d] = x],
           x.ingest_status # "absent", ~absent(d) \/ fresh(d),
           x.ingest_status # "ready", x.ingest_status # "processing",
           \/ x.ingest_status \in Live /\ chunks' = chunks
           \/ chunks' = [chunks EXCEPT ![d] = {}],
           ~fresh(d) /\ x.ingest_status \in Live => x.given = doc[d].given /\ x.embedding = doc[d].embedding,
           ~fresh(d) /\ x.ingest_status \in Live => exists(d),
           unsent \subseteq unsent', unsent' \subseteq Sends,
           \A send \in unsent' \ unsent : send.job.kind = "embed" /\ send.job.doc = d,
           x.ingest_status = "uploaded" => \E send \in unsent' : send.job.doc = d,
           deleting' \in [Docs -> SUBSET (SUBSET Nat)], reingests' \in 0..MaxReingests,
           UNCHANGED <<queue, worker, crashes, losses>>
    PROVE  Inv'
<1>1. doc' \in [Docs -> Rows] /\ doc'[d] = x /\ \A e \in Docs : e # d => doc'[e] = doc[e]
  BY DEF Inv, TypeOK
<1>2. /\ chunks' \in [Docs -> SUBSET Nat] /\ \A e \in Docs : e # d => chunks'[e] = chunks[e]
      /\ x.ingest_status \notin Live => chunks'[d] = {}
  BY DEF Inv, TypeOK
<1>3. TypeOK'
  BY <1>1, <1>2 DEF Inv, TypeOK
<1>4. IndexInv'
  BY <1>1, <1>2 DEF Inv, IndexInv, exists, Live
<1>5. \A e : Queued(e)' <=> Queued(e)
  BY DEF Queued
<1>6. \A e \in Docs : absent(e) /\ e # d => absent(e)'
  BY <1>1 DEF absent
<1>7. \A e \in Docs : ~absent(e) => ~absent(e)'
  BY <1>1 DEF absent
<1>8. UrlInv'
  <2>1. ASSUME NEW send \in unsent'
        PROVE  /\ send.job.kind = "url" => /\ send.call = 0 /\ absent(send.job.doc)'
                                           /\ ~Queued(send.job.doc)' /\ worker'.doc # send.job.doc
               /\ send.job.kind = "embed" => ~absent(send.job.doc)'
    <3>1. CASE send \in unsent
      <4>1. send \in Sends /\ send.job.doc \in Docs
        BY <3>1, UnsentType DEF Inv
      <4>2. /\ send.job.kind = "url" => /\ send.call = 0 /\ absent(send.job.doc)
                                        /\ ~Queued(send.job.doc) /\ worker.doc # send.job.doc
            /\ send.job.kind = "embed" => ~absent(send.job.doc)
        BY <3>1 DEF Inv, UrlInv
      <4>3. send.job.kind = "url" => send.job.doc # d
        <5>1. send.job.kind = "url" => send = Send("url", send.job.doc, 0)
          BY <4>1, <4>2, UrlSend
        <5> QED BY <3>1, <4>2, <5>1 DEF fresh
      <4> QED BY <1>5, <1>6, <1>7, <4>1, <4>2, <4>3
    <3>2. CASE send \notin unsent
      <4>1. send.job.kind = "embed" /\ send.job.doc = d
        BY <2>1, <3>2
      <4> QED BY <1>1, <4>1 DEF absent
    <3> QED BY <3>1, <3>2
  <2>2. ASSUME NEW n \in DOMAIN queue', queue'[n].kind = "url"
        PROVE  /\ absent(queue[n].doc)' /\ worker'.doc # queue'[n].doc
               /\ \A m \in DOMAIN queue' : queue'[m].doc = queue'[n].doc => m = n
    <3>1. /\ absent(queue[n].doc) /\ worker.doc # queue[n].doc /\ queue[n].doc \in Docs
          /\ \A m \in DOMAIN queue : queue[m].doc = queue[n].doc => m = n
      BY <2>2, QueueType DEF Inv, UrlInv
    <3>2. queue[n].doc # d
      BY <3>1, <2>2 DEF fresh
    <3>3. absent(queue[n].doc)'
      BY <1>1, <3>1, <3>2 DEF absent
    <3> QED BY <3>1, <3>3
  <2>3. worker'.pc = "fetch" => absent(worker.doc)' /\ ~Queued(worker.doc)'
    <3>1. worker.pc = "fetch" => worker.doc \in Docs /\ absent(worker.doc) /\ ~Queued(worker.doc)
      BY DEF Inv, WorkerInv, InJob, UrlInv
    <3>2. worker.pc = "fetch" => worker.doc # d
      BY <3>1 DEF fresh
    <3>3. worker.pc = "fetch" => absent(worker.doc)'
      BY <1>1, <3>1, <3>2 DEF absent
    <3>4. worker.pc = "fetch" => ~Queued(worker.doc)'
      BY <3>1 DEF Queued
    <3> QED BY <3>3, <3>4
  <2> QED BY <2>1, <2>2, <2>3 DEF UrlInv
<1>9. WorkerInv'
  <2>1. InJob' <=> worker'.doc \in Docs
    BY DEF Inv, WorkerInv, InJob
  <2>2. \A e \in worker'.flushed : Queued(e)' /\ ~absent(e)'
    BY <1>5, <1>7 DEF Inv, WorkerInv, TypeOK
  <2>3. worker.pc \in {"loaded", "extract", "index"} /\ exists(worker.doc)'
         => /\ doc'[worker.doc].given = worker.loaded.given
            /\ doc'[worker.doc].embedding = worker.loaded.embedding
    <3>1. CASE worker.doc = d
      <4>1. ~fresh(d)
        BY <3>1 DEF fresh
      <4> QED BY <1>1, <3>1, <4>1 DEF Inv, WorkerInv, exists
    <3>2. CASE worker.doc # d /\ worker.pc \in {"loaded", "extract", "index"}
      <4>1. worker.doc \in Docs
        BY <3>2 DEF Inv, WorkerInv, InJob
      <4>2. doc'[worker.doc] = doc[worker.doc]
        BY <1>1, <3>2, <4>1
      <4> QED BY <4>2 DEF Inv, WorkerInv, exists
    <3> QED BY <3>1, <3>2
  <2> QED BY <2>1, <2>2, <2>3 DEF Inv, WorkerInv
<1>10. FoundInv'
  <2>1. \A e : Sent(e) => Sent(e)'
    BY <1>5 DEF Sent
  <2>2. x.ingest_status = "uploaded" => Sent(d)'
    BY DEF Sent
  <2> QED BY <1>1, <2>1, <2>2 DEF Inv, FoundInv
<1> QED BY <1>3, <1>4, <1>8, <1>9, <1>10 DEF Inv

LEMMA CreateInv ==
    ASSUME Inv, NEW d \in Docs, NEW checksum \in BOOLEAN, NEW given \in BOOLEAN,
           create_document(d, checksum, given)
    PROVE  Inv'
<1>1. PICK x : x = [ingest_status |-> "uploaded", checksum |-> checksum,
                    version |-> 1, given |-> given, embedding |-> FALSE]
  OBVIOUS
<1>2. x \in Rows /\ x.ingest_status = "uploaded" /\ x.ingest_status \in Live
  BY <1>1 DEF Rows, Statuses, Live
<1>3. /\ doc' = [doc EXCEPT ![d] = x] /\ fresh(d) /\ unsent' = unsent \cup {Send("embed", d, 0)}
      /\ UNCHANGED <<chunks, queue, deleting, worker, reingests, crashes, losses>>
  BY <1>1 DEF create_document, insert_document
<1>4. PICK send : send = Send("embed", d, 0)
  OBVIOUS
<1>5. send \in Sends /\ send.job.kind = "embed" /\ send.job.doc = d
  <2>1. 0 \in 0..MaxReingests
    BY KbAssumption
  <2> QED BY <1>4, <2>1, SendType
<1>6. unsent' = unsent \cup {send}
  BY <1>3, <1>4
<1>7. /\ unsent \subseteq unsent' /\ unsent' \subseteq Sends
      /\ \A y \in unsent' \ unsent : y.job.kind = "embed" /\ y.job.doc = d
      /\ \E y \in unsent' : y.job.doc = d
  BY <1>5, <1>6 DEF Inv, TypeOK
<1>8. deleting' \in [Docs -> SUBSET (SUBSET Nat)] /\ reingests' \in 0..MaxReingests /\ chunks' = chunks
  BY <1>3 DEF Inv, TypeOK
<1> QED BY <1>2, <1>3, <1>7, <1>8, HandlerStep

LEMMA ReingestInv ==
    ASSUME Inv, NEW d \in Docs, reingest_document(d)
    PROVE  Inv'
<1>0. doc[d] \in Rows /\ exists(d) /\ doc[d].ingest_status \in Live
  BY RowType DEF Inv, reingest_document, exists
<1>1. PICK x : x = [doc[d] EXCEPT !.ingest_status = "uploaded", !.checksum = FALSE]
  OBVIOUS
<1>2. /\ x \in Rows /\ x.ingest_status = "uploaded" /\ x.ingest_status \in Live
      /\ x.given = doc[d].given /\ x.embedding = doc[d].embedding
  BY <1>0, <1>1 DEF Rows, Statuses, Live
<1>3. /\ doc' = [doc EXCEPT ![d] = x] /\ unsent' = unsent \cup {Send("embed", d, reingests')}
      /\ reingests' = reingests + 1 /\ reingests < MaxReingests
      /\ UNCHANGED <<chunks, queue, deleting, worker, crashes, losses>>
  BY <1>1 DEF reingest_document
<1>4. reingests' \in 0..MaxReingests
  BY <1>3, KbAssumption DEF Inv, TypeOK
<1>5. PICK send : send = Send("embed", d, reingests')
  OBVIOUS
<1>6. send \in Sends /\ send.job.kind = "embed" /\ send.job.doc = d
  BY <1>4, <1>5, SendType
<1>7. unsent' = unsent \cup {send}
  BY <1>3, <1>5
<1>8. /\ unsent \subseteq unsent' /\ unsent' \subseteq Sends
      /\ \A y \in unsent' \ unsent : y.job.kind = "embed" /\ y.job.doc = d
      /\ \E y \in unsent' : y.job.doc = d
  BY <1>6, <1>7 DEF Inv, TypeOK
<1>9. deleting' \in [Docs -> SUBSET (SUBSET Nat)] /\ chunks' = chunks
  BY <1>3 DEF Inv, TypeOK
<1>10. ~absent(d)
  BY <1>0 DEF absent, Live
<1> QED BY <1>0, <1>2, <1>3, <1>4, <1>8, <1>9, <1>10, HandlerStep

LEMMA DeleteInv ==
    ASSUME Inv, NEW d \in Docs, NEW seen, delete_document(d, seen)
    PROVE  Inv'
<1>1. /\ deleting' \in [Docs -> SUBSET (SUBSET Nat)]
      /\ UNCHANGED <<queue, unsent, worker, reingests, crashes, losses>>
  BY DEF delete_document, Inv, TypeOK
<1>2. CASE exists(d) /\ chunks[d] \subseteq seen
  <2>1. PICK x : x = [NoRow EXCEPT !.ingest_status = "deleted"]
    OBVIOUS
  <2>2. x \in Rows /\ x.ingest_status = "deleted" /\ x.ingest_status \notin Live
    BY <2>1 DEF NoRow, Rows, Statuses, Live
  <2>3. doc' = [doc EXCEPT ![d] = x] /\ chunks' = [chunks EXCEPT ![d] = {}]
    BY <1>2, <2>1 DEF delete_document
  <2>4. ~absent(d)
    BY <1>2 DEF absent, exists, Live
  <2>5. unsent \subseteq unsent' /\ unsent' \subseteq Sends /\ \A y \in unsent' \ unsent : FALSE
    BY <1>1 DEF Inv, TypeOK
  <2>6. reingests' \in 0..MaxReingests
    BY <1>1 DEF Inv, TypeOK
  <2> QED BY <1>1, <2>2, <2>3, <2>4, <2>5, <2>6, HandlerStep
<1>3. CASE ~(exists(d) /\ chunks[d] \subseteq seen)
  <2>1. UNCHANGED <<doc, chunks>>
    BY <1>3 DEF delete_document
  <2> QED BY <1>1, <2>1 DEF Inv, TypeOK, IndexInv, UrlInv, WorkerInv, FoundInv, InJob, Queued, Sent, absent, exists
<1> QED BY <1>2, <1>3

LEMMA DeleteBeginInv ==
    ASSUME Inv, NEW d \in Docs, delete_begin(d)
    PROVE  Inv'
<1>1. /\ deleting' \in [Docs -> SUBSET (SUBSET Nat)]
      /\ UNCHANGED <<doc, chunks, queue, unsent, worker, reingests, crashes, losses>>
  BY DEF delete_begin, Inv, TypeOK
<1> QED BY <1>1 DEF Inv, TypeOK, IndexInv, UrlInv, WorkerInv, FoundInv, InJob, Queued, Sent, absent, exists

\* Steps of a handler after or before the row: the pending sends change, and a
\* send that is lost is counted.
LEMMA SendsStep ==
    ASSUME Inv, UNCHANGED <<doc, chunks, queue, deleting, worker, reingests, crashes>>,
           unsent' \subseteq Sends, losses' \in 0..MaxLosses,
           (unsent \subseteq unsent' /\ losses' = losses) \/ losses' # 0,
           \A send \in unsent' \ unsent : /\ send.job.kind = "url" /\ send.call = 0 /\ absent(send.job.doc)
                                          /\ ~Queued(send.job.doc) /\ worker.doc # send.job.doc
    PROVE  Inv'
<1>1. TypeOK' /\ IndexInv' /\ WorkerInv'
  BY DEF Inv, TypeOK, IndexInv, WorkerInv, InJob, Queued, absent, exists
<1>2. \A d : (Queued(d)' <=> Queued(d)) /\ (absent(d)' <=> absent(d))
  BY DEF Queued, absent
<1>3. UrlInv'
  BY <1>2 DEF Inv, UrlInv
<1>4. FoundInv'
  <2>1. CASE losses' # 0
    BY <2>1 DEF FoundInv
  <2>2. CASE unsent \subseteq unsent' /\ losses' = losses
    <3>1. \A d : Sent(d) => Sent(d)'
      BY <1>2, <2>2 DEF Sent
    <3> QED BY <2>2, <3>1 DEF Inv, FoundInv
  <2> QED BY <2>1, <2>2
<1> QED BY <1>1, <1>3, <1>4 DEF Inv

LEMMA FromUrlInv ==
    ASSUME Inv, NEW d \in Docs, ingest_from_url(d)
    PROVE  Inv'
<1>1. /\ UNCHANGED <<doc, chunks, queue, deleting, worker, reingests, crashes, losses>> /\ fresh(d)
      /\ unsent' = unsent \cup {Send("url", d, 0)}
  BY DEF ingest_from_url
<1>2. absent(d) /\ ~Queued(d) /\ worker.doc # d
  BY <1>1 DEF fresh, absent, Queued
<1>3. PICK send : send = Send("url", d, 0)
  OBVIOUS
<1>4. send \in Sends /\ send.job.kind = "url" /\ send.job.doc = d /\ send.call = 0
  <2>1. 0 \in 0..MaxReingests
    BY KbAssumption
  <2> QED BY <1>3, <2>1, SendType
<1>5. unsent' = unsent \cup {send}
  BY <1>1, <1>3
<1>6. unsent' \subseteq Sends /\ unsent \subseteq unsent' /\ losses' \in 0..MaxLosses
  BY <1>1, <1>4, <1>5 DEF Inv, TypeOK
<1>7. \A y \in unsent' \ unsent : /\ y.job.kind = "url" /\ y.call = 0 /\ absent(y.job.doc)
                                  /\ ~Queued(y.job.doc) /\ worker.doc # y.job.doc
  BY <1>2, <1>4, <1>5
<1> QED BY <1>1, <1>6, <1>7, SendsStep

LEMMA EnqueueFailsInv ==
    ASSUME Inv, NEW send, enqueue_fails(send)
    PROVE  Inv'
<1>1. /\ UNCHANGED <<doc, chunks, queue, deleting, worker, reingests, crashes>>
      /\ unsent' \subseteq unsent /\ losses' = losses + 1 /\ losses < MaxLosses
  BY DEF enqueue_fails
<1>2. unsent' \subseteq Sends /\ losses' \in 0..MaxLosses /\ losses' # 0
  BY <1>1, KbAssumption DEF Inv, TypeOK
<1>3. \A y \in unsent' \ unsent : FALSE
  BY <1>1
<1> QED BY <1>1, <1>2, <1>3, SendsStep

LEMMA EnqueueInv ==
    ASSUME Inv, NEW send, enqueue(send)
    PROVE  Inv'
<1>1. /\ send \in unsent /\ unsent' = unsent \ {send} /\ queue' = Append(queue, send.job)
      /\ UNCHANGED <<doc, chunks, deleting, worker, reingests, crashes, losses>>
  BY DEF enqueue
<1>2. send \in Sends /\ send.job \in Jobs /\ send.job.doc \in Docs /\ send.job.kind \in {"embed", "url"}
  BY <1>1, UnsentType DEF Inv
<1>3. PICK j : j = send.job
  OBVIOUS
<1>4. queue \in Seq(Jobs) /\ j \in Jobs /\ queue' = Append(queue, j)
  BY <1>1, <1>2, <1>3 DEF Inv, TypeOK
<1>5. /\ queue' \in Seq(Jobs)
      /\ DOMAIN queue' = DOMAIN queue \cup {Len(queue) + 1} /\ Len(queue) + 1 \notin DOMAIN queue
      /\ queue'[Len(queue) + 1] = j
      /\ \A n \in DOMAIN queue : queue'[n] = queue[n]
      /\ \A d : Queued(d)' <=> (Queued(d) \/ j.doc = d)
  BY <1>4, AppendJob
<1>6. TypeOK'
  BY <1>1, <1>5 DEF Inv, TypeOK
<1>7. IndexInv'
  BY <1>1 DEF Inv, IndexInv, exists
<1>8. \A d : absent(d)' <=> absent(d)
  BY <1>1 DEF absent
<1>9. UrlInv'
  <2>1. /\ j.kind = "url" => send.call = 0 /\ absent(j.doc) /\ ~Queued(j.doc) /\ worker.doc # j.doc
        /\ j.kind = "embed" => ~absent(j.doc)
    BY <1>1, <1>3 DEF Inv, UrlInv
  <2>2. ASSUME NEW y \in unsent'
        PROVE  /\ y.job.kind = "url" => /\ y.call = 0 /\ absent(y.job.doc)'
                                        /\ ~Queued(y.job.doc)' /\ worker'.doc # y.job.doc
               /\ y.job.kind = "embed" => ~absent(y.job.doc)'
    <3>1. /\ y \in unsent /\ y # send /\ y \in Sends /\ y.job.kind \in {"embed", "url"}
      BY <1>1, UnsentType DEF Inv
    <3>2. /\ y.job.kind = "url" => /\ y.call = 0 /\ absent(y.job.doc)
                                   /\ ~Queued(y.job.doc) /\ worker.doc # y.job.doc
          /\ y.job.kind = "embed" => ~absent(y.job.doc)
      BY <3>1 DEF Inv, UrlInv
    <3>3. ASSUME y.job.kind = "url" PROVE y.job.doc # j.doc
      <4>1. CASE j.kind = "embed"
        BY <2>1, <3>2, <3>3, <4>1
      <4>2. CASE j.kind = "url"
        <5>1. y = Send("url", y.job.doc, 0)
          BY <3>1, <3>2, <3>3, UrlSend
        <5>2. send = Send("url", j.doc, 0)
          BY <1>2, <1>3, <2>1, <4>2, UrlSend
        <5> QED BY <3>1, <5>1, <5>2
      <4> QED BY <1>2, <1>3, <4>1, <4>2
    <3> QED BY <1>1, <1>5, <1>8, <3>2, <3>3
  <2>3. ASSUME NEW n \in DOMAIN queue', queue'[n].kind = "url"
        PROVE  /\ absent(queue'[n].doc) /\ worker.doc # queue'[n].doc
               /\ \A m \in DOMAIN queue' : queue'[m].doc = queue'[n].doc => m = n
    <3>1. CASE n \in DOMAIN queue
      <4>1. /\ absent(queue[n].doc) /\ worker.doc # queue[n].doc /\ queue'[n] = queue[n]
            /\ \A m \in DOMAIN queue : queue[m].doc = queue[n].doc => m = n
        BY <1>5, <2>3, <3>1 DEF Inv, UrlInv
      <4>2. Queued(queue[n].doc)
        BY <3>1 DEF Queued
      <4>3. j.doc # queue[n].doc
        BY <1>2, <1>3, <2>1, <4>1, <4>2
      <4> QED BY <1>5, <4>1, <4>3
    <3>2. CASE n = Len(queue) + 1
      <4>1. queue'[n] = j /\ j.kind = "url"
        BY <1>5, <2>3, <3>2
      <4>2. \A m \in DOMAIN queue : queue[m].doc # j.doc
        BY <2>1, <4>1 DEF Queued
      <4> QED BY <1>5, <2>1, <3>2, <4>1, <4>2
    <3> QED BY <1>5, <3>1, <3>2
  <2>4. \A n \in DOMAIN queue' : queue'[n].kind = "url" => absent(queue[n].doc)'
    BY <1>1, <2>3 DEF absent
  <2>5. worker.pc = "fetch" => absent(worker.doc)' /\ ~Queued(worker.doc)'
    <3>1. worker.pc = "fetch" => absent(worker.doc) /\ ~Queued(worker.doc)
      BY DEF Inv, UrlInv
    <3>2. worker.pc = "fetch" => worker.doc # j.doc
      BY <1>2, <1>3, <2>1, <3>1
    <3>3. worker.pc = "fetch" => absent(worker.doc)'
      BY <1>1, <3>1 DEF absent
    <3>4. worker.pc = "fetch" => ~Queued(worker.doc)'
      <4>1. worker.pc = "fetch" => \A n \in DOMAIN queue' : queue'[n].doc # worker.doc
        BY <1>5, <3>1, <3>2 DEF Queued
      <4> QED BY <1>1, <4>1 DEF Queued
    <3> QED BY <3>3, <3>4
  <2> QED BY <1>1, <2>2, <2>3, <2>4, <2>5 DEF UrlInv
<1>10. WorkerInv'
  <2>1. \A e \in worker.flushed : Queued(e)' /\ ~absent(e)'
    BY <1>5, <1>8 DEF Inv, WorkerInv
  <2> QED BY <1>1, <2>1 DEF Inv, WorkerInv, InJob, exists
<1>11. FoundInv'
  <2>1. \A d : Sent(d) => Sent(d)'
    BY <1>1, <1>3, <1>5 DEF Sent
  <2> QED BY <1>1, <2>1 DEF Inv, FoundInv
<1> QED BY <1>6, <1>7, <1>9, <1>10, <1>11 DEF Inv

-----------------------------------------------------------------------------
\* The worker

LEMMA WorkerType == TypeOK => worker \in Workers
BY DEF TypeOK, Workers

\* A step of the worker that touches no table and no queue and takes up no document.
LEMMA WorkerStep ==
    ASSUME Inv, UNCHANGED <<doc, chunks, queue, unsent, deleting, reingests>>,
           worker' \in Workers, worker'.pc # "fetch", worker'.doc \in {worker.doc, NoDoc},
           crashes' \in 0..MaxCrashes, losses' \in 0..MaxLosses, WorkerInv', FoundInv'
    PROVE  Inv'
<1>1. TypeOK'
  BY DEF Inv, TypeOK, Workers
<1>2. IndexInv'
  BY DEF Inv, IndexInv, exists
<1>3. UrlInv'
  <2>1. \A d : (Queued(d)' <=> Queued(d)) /\ (absent(d)' <=> absent(d))
    BY DEF Queued, absent
  <2>2. \A send \in unsent : send.job.doc # NoDoc
    BY UnsentType, KbAssumption DEF Inv
  <2>3. \A n \in DOMAIN queue : queue[n].doc # NoDoc
    BY QueueType, KbAssumption DEF Inv
  <2>4. \A n \in DOMAIN queue : absent(queue[n].doc) => absent(queue[n].doc)'
    BY DEF absent
  <2> QED BY <2>1, <2>2, <2>3, <2>4 DEF Inv, UrlInv
<1> QED BY <1>1, <1>2, <1>3 DEF Inv

\* The worker drops everything.
LEMMA OffInv ==
    ASSUME NEW step \in Steps, step \notin Busy, worker' = Off(step)
    PROVE  /\ worker' \in Workers /\ worker'.pc = step /\ worker'.doc = NoDoc /\ WorkerInv'
           /\ worker'.stuck = {} /\ worker'.flushed = {}
<1>1. PICK w : w = Off(step)
  OBVIOUS
<1>2. w \in Workers /\ w.pc = step /\ w.doc = NoDoc /\ w.stuck = {} /\ w.flushed = {}
  BY <1>1, OffFields
<1>3. worker' = w
  BY <1>1
<1>4. WorkerInv'
  BY <1>2, <1>3, KbAssumption DEF WorkerInv, InJob, Busy
<1> QED BY <1>2, <1>3, <1>4

\* With nothing lost: where documents are when the worker is in a given step.
LEMMA OffStep ==
    ASSUME Inv, NEW step \in Steps, step \notin Busy, worker' = Off(step),
           UNCHANGED <<doc, chunks, queue, unsent, deleting, reingests>>,
           crashes' \in 0..MaxCrashes, losses' \in 0..MaxLosses,
           losses' = 0 => /\ losses = 0
                          /\ \/ step \in {"down", "startup"}
                             \/ \A d \in Docs : doc[d].ingest_status # "processing"
                          /\ \A d \in Docs : doc[d].ingest_status = "uploaded" => Sent(d)
    PROVE  Inv'
<1>1. /\ worker' \in Workers /\ worker'.pc = step /\ worker'.doc = NoDoc /\ WorkerInv'
      /\ worker'.stuck = {} /\ worker'.flushed = {}
  BY OffInv
<1>2. \A d : Sent(d)' <=> Sent(d)
  BY DEF Sent, Queued
<1>3. FoundInv'
  BY <1>1, <1>2 DEF FoundInv, Busy
<1>4. worker'.pc # "fetch" /\ worker'.doc \in {worker.doc, NoDoc}
  BY <1>1 DEF Busy
<1> QED BY <1>1, <1>3, <1>4, WorkerStep

LEMMA RestartInv ==
    ASSUME Inv, restart
    PROVE  Inv'
<1>1. /\ worker.pc = "down" /\ worker' = Off("startup")
      /\ UNCHANGED <<doc, chunks, queue, unsent, deleting, reingests, crashes, losses>>
  BY DEF restart
<1>2. crashes' \in 0..MaxCrashes /\ losses' \in 0..MaxLosses
  BY <1>1 DEF Inv, TypeOK
<1>3. losses = 0 => \A d \in Docs : doc[d].ingest_status = "uploaded" => Sent(d)
  BY <1>1 DEF Inv, FoundInv
<1>4. "startup" \in Steps /\ "startup" \notin Busy
  BY DEF Steps, Busy
<1> QED BY <1>1, <1>2, <1>3, <1>4, OffStep

LEMMA DiesInv ==
    ASSUME Inv, worker_dies \/ worker_dies_early
    PROVE  Inv'
<1>1. /\ worker' = Off("down") /\ UNCHANGED <<doc, chunks, queue, unsent, deleting, reingests>>
      /\ \/ /\ worker.pc \in {"startup", "recover", "idle", "extract", "index"}
            /\ crashes < MaxCrashes /\ crashes' = crashes + 1 /\ losses' = losses
         \/ losses < MaxLosses /\ losses' = losses + 1 /\ crashes' = crashes
  BY DEF worker_dies, worker_dies_early
<1>2. crashes' \in 0..MaxCrashes /\ losses' \in 0..MaxLosses /\ losses \in Nat
  BY <1>1, KbAssumption DEF Inv, TypeOK
<1>3. losses' = 0 => losses = 0 /\ \A d \in Docs : doc[d].ingest_status = "uploaded" => Sent(d)
  BY <1>1, <1>2 DEF Inv, FoundInv
<1>4. "down" \in Steps /\ "down" \notin Busy
  BY DEF Steps, Busy
<1> QED BY <1>1, <1>2, <1>3, <1>4, OffStep

LEMMA JobLostInv ==
    ASSUME Inv, job_lost
    PROVE  Inv'
<1>1. /\ worker' = Off("idle") /\ UNCHANGED <<doc, chunks, queue, unsent, deleting, reingests, crashes>>
      /\ losses < MaxLosses /\ losses' = losses + 1
  BY DEF job_lost
<1>2. crashes' \in 0..MaxCrashes /\ losses' \in 0..MaxLosses /\ losses' # 0
  BY <1>1, KbAssumption DEF Inv, TypeOK
<1>3. "idle" \in Steps /\ "idle" \notin Busy
  BY DEF Steps, Busy
<1> QED BY <1>1, <1>2, <1>3, OffStep

LEMMA StartupSelectInv ==
    ASSUME Inv, startup_select
    PROVE  Inv'
<1>1. PICK w : w = [Off("recover") EXCEPT !.stuck = {d \in Docs : doc[d].ingest_status = "processing"}]
  OBVIOUS
<1>2. /\ worker.pc = "startup" /\ worker' = w
      /\ UNCHANGED <<doc, chunks, queue, unsent, deleting, reingests, crashes, losses>>
  BY <1>1 DEF startup_select
<1>3. /\ w \in Workers /\ w.pc = "recover" /\ w.doc = NoDoc /\ w.flushed = {}
      /\ w.stuck = {d \in Docs : doc[d].ingest_status = "processing"}
  <2>1. "recover" \in Steps
    BY DEF Steps
  <2>2. /\ Off("recover") \in Workers /\ Off("recover").pc = "recover" /\ Off("recover").doc = NoDoc
        /\ Off("recover").flushed = {}
    BY <2>1, OffFields
  <2> QED BY <1>1, <2>2 DEF Workers
<1>4. WorkerInv'
  BY <1>2, <1>3, KbAssumption DEF WorkerInv, InJob
<1>5. \A d : Sent(d)' <=> Sent(d)
  BY <1>2 DEF Sent, Queued
<1>6. FoundInv'
  BY <1>2, <1>3, <1>5 DEF Inv, FoundInv
<1>7. crashes' \in 0..MaxCrashes /\ losses' \in 0..MaxLosses
  BY <1>2 DEF Inv, TypeOK
<1> QED BY <1>2, <1>3, <1>4, <1>6, <1>7, WorkerStep

LEMMA StartupRecoverInv ==
    ASSUME Inv, NEW d \in Docs, startup_recover(d)
    PROVE  Inv'
<1>1. /\ worker.pc = "recover" /\ d \in worker.stuck
      /\ UNCHANGED <<doc, chunks, unsent, deleting, reingests, crashes, losses>>
  BY DEF startup_recover
<1>2. crashes' \in 0..MaxCrashes /\ losses' \in 0..MaxLosses
  BY <1>1 DEF Inv, TypeOK
<1>3. CASE ~exists(d)
  <2>1. worker' = Off("down") /\ queue' = queue
    BY <1>3 DEF startup_recover
  <2>2. losses = 0 => \A e \in Docs : doc[e].ingest_status = "uploaded" => Sent(e)
    BY <1>1 DEF Inv, FoundInv
  <2>3. "down" \in Steps /\ "down" \notin Busy
    BY DEF Steps, Busy
  <2> QED BY <1>1, <1>2, <2>1, <2>2, <2>3, OffStep
<1>4. CASE exists(d)
  <2>1. PICK j : j = [kind |-> "embed", doc |-> d]
    OBVIOUS
  <2>2. j \in Jobs /\ j.doc = d /\ j.kind = "embed"
    BY <2>1 DEF Jobs
  <2>3. queue \in Seq(Jobs) /\ queue' = Append(queue, j)
    BY <1>4, <2>1 DEF startup_recover, Inv, TypeOK
  <2>4. /\ queue' \in Seq(Jobs)
        /\ DOMAIN queue' = DOMAIN queue \cup {Len(queue) + 1} /\ Len(queue) + 1 \notin DOMAIN queue
        /\ queue'[Len(queue) + 1] = j
        /\ \A n \in DOMAIN queue : queue'[n] = queue[n]
        /\ \A e : Queued(e)' <=> (Queued(e) \/ j.doc = e)
    BY <2>2, <2>3, AppendJob
  <2>5. PICK w : w = [worker EXCEPT !.flushed = @ \cup {d}]
    OBVIOUS
  <2>6. /\ w \in Workers /\ w.pc = "recover" /\ w.doc = worker.doc /\ w.flushed = worker.flushed \cup {d}
        /\ w.stuck = worker.stuck
    <3>1. worker \in Workers
      BY WorkerType DEF Inv
    <3> QED BY <1>1, <2>5, <3>1 DEF Workers
  <2>7. worker' = w
    BY <1>4, <2>5 DEF startup_recover
  <2>8. ~absent(d)
    BY <1>4 DEF exists, absent, Live
  <2>9. \A e : absent(e)' <=> absent(e)
    BY <1>1 DEF absent
  <2>10. TypeOK' /\ IndexInv'
    BY <1>1, <2>4, <2>6, <2>7 DEF Inv, TypeOK, Workers, IndexInv, exists
  <2>11. UrlInv'
    <3>1. ASSUME NEW y \in unsent'
          PROVE  /\ y.job.kind = "url" => /\ y.call = 0 /\ absent(y.job.doc)'
                                          /\ ~Queued(y.job.doc)' /\ worker'.doc # y.job.doc
                 /\ y.job.kind = "embed" => ~absent(y.job.doc)'
      <4>1. /\ y.job.kind = "url" => /\ y.call = 0 /\ absent(y.job.doc)
                                     /\ ~Queued(y.job.doc) /\ worker.doc # y.job.doc
            /\ y.job.kind = "embed" => ~absent(y.job.doc)
        BY <1>1 DEF Inv, UrlInv
      <4> QED BY <2>2, <2>4, <2>6, <2>7, <2>8, <2>9, <4>1
    <3>2. ASSUME NEW n \in DOMAIN queue', queue'[n].kind = "url"
          PROVE  /\ absent(queue'[n].doc) /\ worker'.doc # queue'[n].doc
                 /\ \A m \in DOMAIN queue' : queue'[m].doc = queue'[n].doc => m = n
      <4>1. n \in DOMAIN queue
        BY <2>2, <2>4, <3>2
      <4>2. /\ absent(queue[n].doc) /\ worker.doc # queue[n].doc /\ queue'[n] = queue[n]
            /\ \A m \in DOMAIN queue : queue[m].doc = queue[n].doc => m = n
        BY <2>4, <3>2, <4>1 DEF Inv, UrlInv
      <4>3. j.doc # queue[n].doc
        BY <2>2, <2>8, <4>2
      <4> QED BY <2>4, <2>6, <2>7, <4>2, <4>3
    <3>3. \A n \in DOMAIN queue' : queue'[n].kind = "url" => absent(queue[n].doc)'
      BY <1>1, <3>2 DEF absent
    <3>4. worker'.pc # "fetch"
      BY <2>6, <2>7
    <3> QED BY <3>1, <3>2, <3>3, <3>4 DEF UrlInv
  <2>12. WorkerInv'
    <3>1. \A e \in w.flushed : Queued(e)' /\ ~absent(e)'
      BY <2>2, <2>4, <2>6, <2>8, <2>9 DEF Inv, WorkerInv
    <3>2. w.doc \notin Docs
      BY <1>1, <2>6 DEF Inv, WorkerInv, InJob
    <3> QED BY <2>6, <2>7, <3>1, <3>2 DEF WorkerInv, InJob
  <2>13. FoundInv'
    <3>1. \A e : Sent(e) => Sent(e)'
      BY <1>1, <2>4 DEF Sent
    <3> QED BY <1>1, <2>6, <2>7, <3>1 DEF Inv, FoundInv
  <2> QED BY <2>10, <2>11, <2>12, <2>13 DEF Inv
<1> QED BY <1>3, <1>4

LEMMA StartupCommitInv ==
    ASSUME Inv, startup_commit
    PROVE  Inv'
<1>1. /\ worker.pc = "recover" /\ worker.flushed = worker.stuck /\ worker' = Off("idle")
      /\ doc' = [d \in Docs |-> IF d \in worker.stuck THEN [doc[d] EXCEPT !.ingest_status = "uploaded"] ELSE doc[d]]
      /\ UNCHANGED <<chunks, queue, unsent, deleting, reingests, crashes, losses>>
  BY DEF startup_commit
<1>2. "idle" \in Steps /\ "idle" \notin Busy
  BY DEF Steps, Busy
<1>3. /\ worker' \in Workers /\ worker'.pc = "idle" /\ worker'.doc = NoDoc /\ WorkerInv'
      /\ worker'.stuck = {} /\ worker'.flushed = {}
  BY <1>1, <1>2, OffInv
<1>4. /\ doc' \in [Docs -> Rows]
      /\ \A d \in Docs : d \in worker.stuck => doc'[d].ingest_status = "uploaded"
      /\ \A d \in Docs : d \notin worker.stuck => doc'[d] = doc[d]
  <2>1. doc \in [Docs -> Rows]
    BY DEF Inv, TypeOK
  <2> QED BY <1>1, <2>1 DEF Rows, Statuses, Live
<1>5. TypeOK' /\ IndexInv'
  BY <1>1, <1>3, <1>4 DEF Inv, TypeOK, Workers, IndexInv, exists, Live
<1>6. \A d : Queued(d)' <=> Queued(d)
  BY <1>1 DEF Queued
<1>7. \A d \in Docs : absent(d)' <=> absent(d)
  <2>1. \A d \in worker.stuck : ~absent(d)
    BY <1>1 DEF Inv, WorkerInv
  <2> QED BY <1>4, <2>1 DEF absent
<1>8. UrlInv'
  <2>1. \A send \in unsent : send.job.doc \in Docs /\ send.job.doc # NoDoc
    BY UnsentType, KbAssumption DEF Inv
  <2>2. \A n \in DOMAIN queue : queue[n].doc \in Docs /\ queue[n].doc # NoDoc
    BY QueueType, KbAssumption DEF Inv
  <2>3. \A n \in DOMAIN queue : absent(queue[n].doc) => absent(queue[n].doc)'
    <3>1. ASSUME NEW n \in DOMAIN queue, absent(queue[n].doc) PROVE absent(queue[n].doc)'
      <4>1. PICK e \in Docs : e = queue[n].doc
        BY <2>2
      <4>2. doc'[e].ingest_status = "absent"
        BY <1>7, <3>1, <4>1 DEF absent
      <4>3. queue'[n].doc = e
        BY <1>1, <4>1
      <4> QED BY <4>2, <4>3 DEF absent
    <3> QED BY <3>1
  <2> QED BY <1>1, <1>3, <1>6, <1>7, <2>1, <2>2, <2>3 DEF Inv, UrlInv
<1>9. FoundInv'
  <2>1. \A d : Sent(d)' <=> Sent(d)
    BY <1>1, <1>6 DEF Sent
  <2>2. \A d \in worker.stuck : Sent(d)
    BY <1>1 DEF Inv, WorkerInv, Sent
  <2> QED BY <1>1, <1>3, <1>4, <2>1, <2>2 DEF Inv, FoundInv
<1> QED BY <1>3, <1>5, <1>8, <1>9 DEF Inv

LEMMA DequeueInv ==
    ASSUME Inv, dequeue
    PROVE  Inv'
<1>0. /\ worker.pc = "idle" /\ queue # <<>> /\ queue' = Tail(queue) /\ queue \in Seq(Jobs)
      /\ UNCHANGED <<doc, chunks, unsent, deleting, reingests, crashes, losses>>
  BY DEF dequeue, Inv, TypeOK
<1>1. /\ queue' \in Seq(Jobs) /\ 1 \in DOMAIN queue /\ Head(queue) = queue[1] /\ queue[1] \in Jobs
      /\ \A n \in DOMAIN queue' : n + 1 \in DOMAIN queue /\ n + 1 # 1 /\ queue'[n] = queue[n + 1]
      /\ \A n \in DOMAIN queue' : n \in Nat
      /\ \A d : Queued(d) <=> (Queued(d)' \/ queue[1].doc = d)
  BY <1>0, TailJobs
<1>2. PICK j \in Jobs : j = queue[1] /\ j = Head(queue)
  BY <1>1
<1>3. PICK step : step = IF j.kind = "url" THEN "fetch" ELSE "load"
  OBVIOUS
<1>4. PICK w : w = [Off(step) EXCEPT !.doc = j.doc]
  OBVIOUS
<1>5. worker' = w
  BY <1>2, <1>3, <1>4 DEF dequeue
<1>6. j.doc \in Docs /\ j.kind \in {"embed", "url"}
  BY DEF Jobs
<1>7. w \in Workers /\ w.pc = step /\ w.doc = j.doc /\ w.stuck = {} /\ w.flushed = {}
  <2>1. step \in Steps
    BY <1>3 DEF Steps
  <2>2. /\ Off(step) \in Workers /\ Off(step).pc = step /\ Off(step).stuck = {} /\ Off(step).flushed = {}
    BY <2>1, OffFields
  <2> QED BY <1>4, <1>6, <2>2 DEF Workers
<1>8. TypeOK' /\ IndexInv'
  BY <1>0, <1>1, <1>5, <1>7 DEF Inv, TypeOK, Workers, IndexInv, exists
<1>9. \A d : absent(d)' <=> absent(d)
  BY <1>0 DEF absent
<1>10. Queued(j.doc)
  BY <1>1, <1>2 DEF Queued
<1>11. UrlInv'
  <2>1. ASSUME NEW y \in unsent'
        PROVE  /\ y.job.kind = "url" => /\ y.call = 0 /\ absent(y.job.doc)'
                                        /\ ~Queued(y.job.doc)' /\ worker'.doc # y.job.doc
               /\ y.job.kind = "embed" => ~absent(y.job.doc)'
    <3>1. /\ y.job.kind = "url" => /\ y.call = 0 /\ absent(y.job.doc) /\ ~Queued(y.job.doc)
          /\ y.job.kind = "embed" => ~absent(y.job.doc)
      BY <1>0 DEF Inv, UrlInv
    <3> QED BY <1>1, <1>5, <1>7, <1>9, <1>10, <3>1
  <2>2. ASSUME NEW n \in DOMAIN queue', queue'[n].kind = "url"
        PROVE  /\ absent(queue'[n].doc) /\ worker'.doc # queue'[n].doc
               /\ \A m \in DOMAIN queue' : queue'[m].doc = queue'[n].doc => m = n
    <3>1. n + 1 \in DOMAIN queue /\ n + 1 # 1 /\ queue'[n] = queue[n + 1] /\ n \in Nat
      BY <1>1
    <3>2. /\ absent(queue[n + 1].doc)
          /\ \A m \in DOMAIN queue : queue[m].doc = queue[n + 1].doc => m = n + 1
      BY <2>2, <3>1 DEF Inv, UrlInv
    <3>3. j.doc # queue'[n].doc
      BY <1>1, <1>2, <3>1, <3>2
    <3>4. ASSUME NEW m \in DOMAIN queue', queue'[m].doc = queue'[n].doc PROVE m = n
      <4>1. m + 1 \in DOMAIN queue /\ queue'[m] = queue[m + 1] /\ m \in Nat
        BY <1>1
      <4>2. m + 1 = n + 1
        BY <3>1, <3>2, <3>4, <4>1
      <4> QED BY <3>1, <4>1, <4>2
    <3> QED BY <1>5, <1>7, <3>1, <3>2, <3>3, <3>4
  <2>3. \A n \in DOMAIN queue' : queue'[n].kind = "url" => absent(queue[n].doc)'
    BY <1>0, <2>2 DEF absent
  <2>4. worker'.pc = "fetch" => absent(worker.doc)' /\ ~Queued(worker.doc)'
    <3>1. ASSUME worker'.pc = "fetch" PROVE absent(j.doc) /\ \A n \in DOMAIN queue' : queue'[n].doc # j.doc
      <4>1. j.kind = "url"
        BY <1>3, <1>5, <1>7, <3>1
      <4>2. absent(j.doc) /\ \A m \in DOMAIN queue : queue[m].doc = j.doc => m = 1
        BY <1>1, <1>2, <4>1 DEF Inv, UrlInv
      <4> QED BY <1>1, <4>2
    <3> QED BY <1>0, <1>5, <1>7, <3>1 DEF absent, Queued
  <2> QED BY <2>1, <2>2, <2>3, <2>4 DEF UrlInv
<1>12. WorkerInv'
  BY <1>3, <1>5, <1>6, <1>7 DEF WorkerInv, InJob
<1>13. FoundInv'
  <2>1. ASSUME losses = 0, NEW d \in Docs, doc[d].ingest_status = "uploaded"
        PROVE  Sent(d)' \/ (w.pc = "load" /\ w.doc = d)
    <3>1. Sent(d)
      BY <1>0, <2>1 DEF Inv, FoundInv
    <3>2. CASE j.doc = d
      <4>1. j.kind # "url"
        BY <1>1, <1>2, <2>1, <3>2 DEF Inv, UrlInv, absent
      <4> QED BY <1>3, <1>7, <3>2, <4>1
    <3>3. CASE j.doc # d
      BY <1>0, <1>1, <1>2, <3>1, <3>3 DEF Sent
    <3> QED BY <3>2, <3>3
  <2>2. ASSUME losses = 0, NEW d \in Docs PROVE doc[d].ingest_status # "processing"
    BY <1>0, <2>2 DEF Inv, FoundInv
  <2>3. w.pc # "loaded"
    BY <1>3, <1>7
  <2> QED BY <1>0, <1>5, <2>1, <2>2, <2>3 DEF FoundInv
<1> QED BY <1>8, <1>11, <1>12, <1>13 DEF Inv

\* The worker writes the row of its document.
LEMMA RowWritten ==
    ASSUME Inv, worker.doc \in Docs, NEW x \in Rows, x.ingest_status \in Live,
           doc' = [doc EXCEPT ![worker.doc] = x], ~absent(worker.doc) \/ worker.pc = "fetch",
           \/ /\ chunks' = chunks
              /\ x.ingest_status = "ready" =>
                   /\ doc[worker.doc].ingest_status = "ready" /\ x.version = doc[worker.doc].version
                   /\ x.embedding = doc[worker.doc].embedding /\ x.given = doc[worker.doc].given
           \/ chunks' = [chunks EXCEPT ![worker.doc] = {x.version}] /\ (x.embedding \/ x.given),
           worker' \in Workers, worker'.pc # "fetch", worker'.doc \in {worker.doc, NoDoc},
           UNCHANGED <<queue, unsent, deleting, reingests, crashes, losses>>, WorkerInv', FoundInv'
    PROVE  Inv'
<1>1. doc' \in [Docs -> Rows] /\ doc'[worker.doc] = x /\ \A e \in Docs : e # worker.doc => doc'[e] = doc[e]
  BY DEF Inv, TypeOK
<1>2. x.version \in Nat
  BY DEF Rows
<1>3. /\ chunks' \in [Docs -> SUBSET Nat] /\ \A e \in Docs : e # worker.doc => chunks'[e] = chunks[e]
  BY <1>2 DEF Inv, TypeOK
<1>4. TypeOK'
  BY <1>1, <1>3 DEF Inv, TypeOK, Workers
<1>5. IndexInv'
  <2>1. x.ingest_status = "ready" => chunks'[worker.doc] = {x.version} /\ (x.embedding \/ x.given)
    BY DEF Inv, TypeOK, IndexInv
  <2> QED BY <1>1, <1>3, <2>1 DEF Inv, IndexInv, exists
<1>6. UrlInv'
  <2>1. x.ingest_status # "absent"
    BY DEF Live
  <2>2. \A d : Queued(d)' <=> Queued(d)
    BY DEF Queued
  <2>3. ASSUME NEW y \in unsent'
        PROVE  /\ y.job.kind = "url" => /\ y.call = 0 /\ absent(y.job.doc)'
                                        /\ ~Queued(y.job.doc)' /\ worker'.doc # y.job.doc
               /\ y.job.kind = "embed" => ~absent(y.job.doc)'
    <3>1. /\ y.job.kind = "url" => /\ y.call = 0 /\ absent(y.job.doc)
                                   /\ ~Queued(y.job.doc) /\ worker.doc # y.job.doc
          /\ y.job.kind = "embed" => ~absent(y.job.doc)
          /\ y.job.doc \in Docs /\ y.job.doc # NoDoc
      BY UnsentType, KbAssumption DEF Inv, UrlInv
    <3>2. y.job.doc # worker.doc => (absent(y.job.doc)' <=> absent(y.job.doc))
      BY <1>1, <3>1 DEF absent
    <3>3. y.job.doc = worker.doc => ~absent(y.job.doc)'
      BY <1>1, <2>1 DEF absent
    <3> QED BY <2>2, <3>1, <3>2, <3>3
  <2>4. ASSUME NEW n \in DOMAIN queue, queue[n].kind = "url"
        PROVE  /\ absent(queue[n].doc)' /\ worker'.doc # queue[n].doc
               /\ \A m \in DOMAIN queue : queue[m].doc = queue[n].doc => m = n
    <3>1. /\ absent(queue[n].doc) /\ worker.doc # queue[n].doc /\ queue[n].doc \in Docs /\ queue[n].doc # NoDoc
          /\ \A m \in DOMAIN queue : queue[m].doc = queue[n].doc => m = n
      BY <2>4, QueueType, KbAssumption DEF Inv, UrlInv
    <3>2. doc'[queue[n].doc] = doc[queue[n].doc]
      BY <1>1, <3>1
    <3> QED BY <3>1, <3>2 DEF absent
  <2> QED BY <2>3, <2>4 DEF UrlInv
<1> QED BY <1>4, <1>5, <1>6 DEF Inv

LEMMA IngestUrlInv ==
    ASSUME Inv, ingest_url
    PROVE  Inv'
<1>0. /\ worker.pc = "fetch" /\ worker.doc \in Docs /\ absent(worker.doc)
      /\ UNCHANGED <<chunks, queue, unsent, deleting, reingests, crashes, losses>>
  BY DEF ingest_url, Inv, WorkerInv, InJob, UrlInv
<1>1. CASE worker' = Off("idle") /\ UNCHANGED doc
  <2>1. crashes' \in 0..MaxCrashes /\ losses' \in 0..MaxLosses
    BY <1>0 DEF Inv, TypeOK
  <2>2. losses' = 0 => /\ losses = 0
                       /\ \A d \in Docs : doc[d].ingest_status # "processing"
                       /\ \A d \in Docs : doc[d].ingest_status = "uploaded" => Sent(d)
    BY <1>0 DEF Inv, FoundInv
  <2>3. "idle" \in Steps /\ "idle" \notin Busy
    BY DEF Steps, Busy
  <2> QED BY <1>0, <1>1, <2>1, <2>2, <2>3, OffStep
<1>2. CASE insert_document(worker.doc, FALSE, TRUE) /\ worker' = [worker EXCEPT !.pc = "load"]
  <2>1. PICK x : x = [ingest_status |-> "uploaded", checksum |-> FALSE,
                      version |-> 1, given |-> TRUE, embedding |-> FALSE]
    OBVIOUS
  <2>2. x \in Rows /\ x.ingest_status = "uploaded" /\ x.ingest_status \in Live /\ x.ingest_status # "ready"
    BY <2>1 DEF Rows, Statuses, Live
  <2>3. doc' = [doc EXCEPT ![worker.doc] = x] /\ chunks' = chunks
    BY <1>0, <1>2, <2>1 DEF insert_document
  <2>4. /\ worker' \in Workers /\ worker'.pc = "load" /\ worker'.doc = worker.doc
        /\ worker'.stuck = {} /\ worker'.flushed = {}
    <3>1. worker \in Workers /\ worker.stuck = {} /\ worker.flushed = {}
      BY <1>0, WorkerType DEF Inv, WorkerInv
    <3> QED BY <1>2, <3>1 DEF Workers, Steps
  <2>5. WorkerInv'
    BY <1>0, <2>4 DEF WorkerInv, InJob
  <2>6. FoundInv'
    <3>1. \A d : Sent(d)' <=> Sent(d)
      BY <1>0 DEF Sent, Queued
    <3>2. \A d \in Docs : d # worker.doc => doc'[d] = doc[d]
      BY <2>3 DEF Inv, TypeOK
    <3>3. doc'[worker.doc] = x
      BY <1>0, <2>3 DEF Inv, TypeOK
    <3> QED BY <1>0, <2>2, <2>4, <3>1, <3>2, <3>3 DEF Inv, FoundInv
  <2> QED BY <1>0, <2>2, <2>3, <2>4, <2>5, <2>6, RowWritten
<1> QED BY <1>1, <1>2 DEF ingest_url

LEMMA EmbedLoadInv ==
    ASSUME Inv, embed_load
    PROVE  Inv'
<1>0. /\ worker.pc = "load" /\ worker.doc \in Docs /\ worker \in Workers
      /\ UNCHANGED <<doc, chunks, queue, unsent, deleting, reingests, crashes, losses>>
      /\ crashes' \in 0..MaxCrashes /\ losses' \in 0..MaxLosses
  BY WorkerType DEF embed_load, Inv, WorkerInv, InJob, TypeOK
<1>1. CASE ~exists(worker.doc)
  <2>1. worker' = Off("idle")
    BY <1>1 DEF embed_load
  <2>2. doc[worker.doc].ingest_status # "uploaded"
    BY <1>1 DEF exists, Live
  <2>3. losses' = 0 => /\ losses = 0
                       /\ \A d \in Docs : doc[d].ingest_status # "processing"
                       /\ \A d \in Docs : doc[d].ingest_status = "uploaded" => Sent(d)
    BY <1>0, <2>2 DEF Inv, FoundInv
  <2>4. "idle" \in Steps /\ "idle" \notin Busy
    BY DEF Steps, Busy
  <2> QED BY <1>0, <2>1, <2>3, <2>4, OffStep
<1>2. CASE exists(worker.doc)
  <2>1. PICK x \in Rows : x = doc[worker.doc]
    BY <1>0, RowType DEF Inv
  <2>2. worker' = [worker EXCEPT !.pc = "loaded", !.loaded = x]
    BY <1>2, <2>1 DEF embed_load
  <2>3. /\ worker' \in Workers /\ worker'.pc = "loaded" /\ worker'.doc = worker.doc /\ worker'.loaded = x
        /\ worker'.stuck = {} /\ worker'.flushed = {}
    <3>1. worker.stuck = {} /\ worker.flushed = {}
      BY <1>0 DEF Inv, WorkerInv
    <3> QED BY <1>0, <2>2, <3>1 DEF Workers, Steps
  <2>4. WorkerInv'
    BY <1>0, <2>1, <2>3 DEF WorkerInv, InJob
  <2>5. FoundInv'
    <3>1. \A d : Sent(d)' <=> Sent(d)
      BY <1>0 DEF Sent, Queued
    <3> QED BY <1>0, <2>1, <2>3, <3>1 DEF Inv, FoundInv
  <2> QED BY <1>0, <2>3, <2>4, <2>5, WorkerStep
<1> QED BY <1>1, <1>2

\* The row after the session's UPDATE.
LEMMA WriteRow ==
    ASSUME Inv, worker.doc \in Docs, exists(worker.doc), NEW loaded \in Rows, NEW dirty \in Rows, NEW next,
           write(loaded, dirty, next)
    PROVE  \E x \in Rows :
             /\ doc' = [doc EXCEPT ![worker.doc] = x] /\ worker' = next
             /\ x.ingest_status = IF dirty.ingest_status # loaded.ingest_status THEN dirty.ingest_status
                                  ELSE doc[worker.doc].ingest_status
             /\ x.version = IF dirty.version # loaded.version THEN dirty.version ELSE doc[worker.doc].version
             /\ x.given = IF dirty.given # loaded.given THEN dirty.given ELSE doc[worker.doc].given
             /\ x.embedding = IF dirty.embedding # loaded.embedding THEN dirty.embedding
                              ELSE doc[worker.doc].embedding
<1>0. doc[worker.doc] \in Rows
  BY RowType DEF Inv
<1>1. PICK st \in Statuses : st = IF dirty.ingest_status # loaded.ingest_status THEN dirty.ingest_status
                                  ELSE doc[worker.doc].ingest_status
  BY <1>0 DEF Rows
<1>2. PICK ck \in BOOLEAN : ck = IF dirty.checksum # loaded.checksum THEN dirty.checksum ELSE doc[worker.doc].checksum
  BY <1>0 DEF Rows
<1>3. PICK v \in Nat : v = IF dirty.version # loaded.version THEN dirty.version ELSE doc[worker.doc].version
  BY <1>0 DEF Rows
<1>4. PICK g \in BOOLEAN : g = IF dirty.given # loaded.given THEN dirty.given ELSE doc[worker.doc].given
  BY <1>0 DEF Rows
<1>5. PICK em \in BOOLEAN : em = IF dirty.embedding # loaded.embedding THEN dirty.embedding
                                 ELSE doc[worker.doc].embedding
  BY <1>0 DEF Rows
<1>6. PICK x : x = [ingest_status |-> st, checksum |-> ck, version |-> v, given |-> g, embedding |-> em]
  OBVIOUS
<1>7. x \in Rows /\ x.ingest_status = st /\ x.version = v /\ x.given = g /\ x.embedding = em
  BY <1>6 DEF Rows
<1>8. doc' = [doc EXCEPT ![worker.doc] = x] /\ worker' = next
  BY <1>1, <1>2, <1>3, <1>4, <1>5, <1>6 DEF write
<1> QED BY <1>1, <1>3, <1>4, <1>5, <1>7, <1>8

\* The row is gone: the job ends there.
LEMMA WriteGone ==
    ASSUME Inv, ~exists(worker.doc), worker.pc \in {"loaded", "extract", "index"},
           NEW loaded, NEW dirty, NEW next, write(loaded, dirty, next),
           UNCHANGED <<chunks, queue, unsent, deleting, reingests, crashes, losses>>
    PROVE  Inv'
<1>1. worker' = Off("idle") /\ doc' = doc
  BY DEF write
<1>2. crashes' \in 0..MaxCrashes /\ losses' \in 0..MaxLosses
  BY DEF Inv, TypeOK
<1>3. doc[worker.doc].ingest_status \notin {"uploaded", "processing"}
  BY DEF exists, Live
<1>4. losses' = 0 => /\ losses = 0
                     /\ \A d \in Docs : doc[d].ingest_status # "processing"
                     /\ \A d \in Docs : doc[d].ingest_status = "uploaded" => Sent(d)
  BY <1>3 DEF Inv, FoundInv
<1>5. "idle" \in Steps /\ "idle" \notin Busy
  BY DEF Steps, Busy
<1> QED BY <1>1, <1>2, <1>4, <1>5, OffStep

LEMMA JobFacts ==
    ASSUME Inv, worker.pc \in {"loaded", "extract", "index"}
    PROVE  /\ worker \in Workers /\ worker.doc \in Docs /\ worker.loaded \in Rows
           /\ worker.stuck = {} /\ worker.flushed = {}
           /\ worker.pc # "loaded" => worker.loaded.ingest_status = "processing"
           /\ exists(worker.doc) => /\ doc[worker.doc].given = worker.loaded.given
                                    /\ doc[worker.doc].embedding = worker.loaded.embedding
<1>1. worker \in Workers
  BY WorkerType DEF Inv
<1> QED BY <1>1 DEF Inv, WorkerInv, InJob, Workers

\* The document's job ends with its status written.
LEMMA JobEnds ==
    ASSUME Inv, worker.pc \in {"extract", "index"}, exists(worker.doc), NEW x \in Rows,
           doc' = [doc EXCEPT ![worker.doc] = x], x.ingest_status \in {"ready", "failed"},
           \/ chunks' = chunks /\ x.ingest_status = "failed"
           \/ chunks' = [chunks EXCEPT ![worker.doc] = {x.version}] /\ (x.embedding \/ x.given),
           worker' = Off("idle"), UNCHANGED <<queue, unsent, deleting, reingests, crashes, losses>>
    PROVE  Inv'
<1>1. "idle" \in Steps /\ "idle" \notin Busy
  BY DEF Steps, Busy
<1>2. worker' \in Workers /\ worker'.pc = "idle" /\ worker'.doc = NoDoc /\ WorkerInv'
  BY <1>1, OffInv
<1>3. worker.doc \in Docs
  BY JobFacts
<1>4. FoundInv'
  <2>1. \A d : Sent(d)' <=> Sent(d)
    BY DEF Sent, Queued
  <2>2. doc'[worker.doc] = x /\ \A d \in Docs : d # worker.doc => doc'[d] = doc[d]
    BY <1>3 DEF Inv, TypeOK
  <2> QED BY <1>2, <2>1, <2>2 DEF Inv, FoundInv
<1>5. ~absent(worker.doc) /\ x.ingest_status \in Live
  BY DEF exists, absent, Live
<1>6. worker'.pc # "fetch" /\ worker'.doc \in {worker.doc, NoDoc}
  BY <1>2
<1> QED BY <1>2, <1>3, <1>4, <1>5, <1>6, RowWritten

LEMMA MarkInv ==
    ASSUME Inv, mark_processing
    PROVE  Inv'
<1>0. /\ worker.pc = "loaded"
      /\ UNCHANGED <<chunks, queue, unsent, deleting, reingests, crashes, losses>>
  BY DEF mark_processing
<1>1. PICK loaded : loaded = worker.loaded
  OBVIOUS
<1>2. PICK dirty : dirty = [loaded EXCEPT !.ingest_status = "processing"]
  OBVIOUS
<1>3. PICK next : next = [worker EXCEPT !.pc = "extract", !.loaded = dirty]
  OBVIOUS
<1>4. write(loaded, dirty, next)
  BY <1>1, <1>2, <1>3 DEF mark_processing
<1>5. /\ worker \in Workers /\ worker.doc \in Docs /\ loaded \in Rows
      /\ worker.stuck = {} /\ worker.flushed = {}
      /\ exists(worker.doc) => /\ doc[worker.doc].given = loaded.given
                               /\ doc[worker.doc].embedding = loaded.embedding
  BY <1>0, <1>1, JobFacts
<1>6. /\ dirty \in Rows /\ dirty.ingest_status = "processing" /\ dirty.version = loaded.version
      /\ dirty.given = loaded.given /\ dirty.embedding = loaded.embedding
  BY <1>2, <1>5 DEF Rows, Statuses, Live
<1>7. CASE ~exists(worker.doc)
  BY <1>0, <1>4, <1>7, WriteGone
<1>8. CASE exists(worker.doc)
  <2>1. PICK x \in Rows :
             /\ doc' = [doc EXCEPT ![worker.doc] = x] /\ worker' = next
             /\ x.ingest_status = IF dirty.ingest_status # loaded.ingest_status THEN dirty.ingest_status
                                  ELSE doc[worker.doc].ingest_status
             /\ x.version = IF dirty.version # loaded.version THEN dirty.version ELSE doc[worker.doc].version
             /\ x.given = IF dirty.given # loaded.given THEN dirty.given ELSE doc[worker.doc].given
             /\ x.embedding = IF dirty.embedding # loaded.embedding THEN dirty.embedding
                              ELSE doc[worker.doc].embedding
    BY <1>4, <1>5, <1>6, <1>8, WriteRow
  <2>2. /\ x.version = doc[worker.doc].version /\ x.given = doc[worker.doc].given
        /\ x.embedding = doc[worker.doc].embedding
        /\ x.ingest_status \in {"processing", doc[worker.doc].ingest_status}
        /\ loaded.ingest_status # "processing" => x.ingest_status = "processing"
    BY <1>6, <2>1
  <2>3. x.ingest_status \in Live
    BY <1>8, <2>2 DEF exists, Live
  <2>4. /\ next \in Workers /\ next.pc = "extract" /\ next.doc = worker.doc /\ next.loaded = dirty
        /\ next.stuck = {} /\ next.flushed = {}
    BY <1>3, <1>5, <1>6 DEF Workers, Steps
  <2>5. doc'[worker.doc] = x /\ \A d \in Docs : d # worker.doc => doc'[d] = doc[d]
    BY <1>5, <2>1 DEF Inv, TypeOK
  <2>6. WorkerInv'
    BY <1>5, <1>6, <1>8, <2>1, <2>2, <2>4, <2>5 DEF WorkerInv, InJob
  <2>7. FoundInv'
    <3>1. \A d : Sent(d)' <=> Sent(d)
      BY <1>0 DEF Sent, Queued
    <3>2. losses = 0 => x.ingest_status = "processing"
      BY <1>0, <1>1, <2>2 DEF Inv, FoundInv
    <3> QED BY <1>0, <2>1, <2>4, <2>5, <3>1, <3>2 DEF Inv, FoundInv
  <2>8. ~absent(worker.doc)
    BY <1>8 DEF exists, absent, Live
  <2>9. worker' \in Workers /\ worker'.pc # "fetch" /\ worker'.doc \in {worker.doc, NoDoc}
    BY <2>1, <2>4
  <2>10. /\ chunks' = chunks
         /\ x.ingest_status = "ready" =>
                   /\ doc[worker.doc].ingest_status = "ready" /\ x.version = doc[worker.doc].version
                   /\ x.embedding = doc[worker.doc].embedding /\ x.given = doc[worker.doc].given
    BY <1>0, <2>2
  <2> QED BY <1>0, <1>5, <2>1, <2>3, <2>6, <2>7, <2>8, <2>9, <2>10, RowWritten
<1> QED BY <1>7, <1>8

LEMMA ExtractInv ==
    ASSUME Inv, extract_and_embed
    PROVE  Inv'
<1>0. /\ worker.pc = "extract"
      /\ UNCHANGED <<doc, chunks, queue, unsent, deleting, reingests, crashes, losses>>
      /\ crashes' \in 0..MaxCrashes /\ losses' \in 0..MaxLosses
  BY DEF extract_and_embed, Inv, TypeOK
<1>1. /\ worker \in Workers /\ worker.doc \in Docs /\ worker.loaded.ingest_status = "processing"
      /\ worker.stuck = {} /\ worker.flushed = {}
  BY <1>0, JobFacts
<1>2. worker' = [worker EXCEPT !.pc = "index"]
  BY <1>1 DEF extract_and_embed, unchanged
<1>3. /\ worker' \in Workers /\ worker'.pc = "index" /\ worker'.doc = worker.doc
      /\ worker'.loaded = worker.loaded /\ worker'.stuck = {} /\ worker'.flushed = {}
  BY <1>1, <1>2 DEF Workers, Steps
<1>4. WorkerInv'
  BY <1>0, <1>1, <1>3 DEF Inv, WorkerInv, InJob, exists
<1>5. FoundInv'
  <2>1. \A d : Sent(d)' <=> Sent(d)
    BY <1>0 DEF Sent, Queued
  <2> QED BY <1>0, <1>3, <2>1 DEF Inv, FoundInv
<1> QED BY <1>0, <1>3, <1>4, <1>5, WorkerStep

LEMMA FailedInv ==
    ASSUME Inv, ingest_failed
    PROVE  Inv'
<1>0. /\ worker.pc \in {"extract", "index"}
      /\ UNCHANGED <<chunks, queue, unsent, deleting, reingests, crashes, losses>>
  BY DEF ingest_failed
<1>1. PICK loaded : loaded = worker.loaded
  OBVIOUS
<1>2. PICK dirty : dirty = [loaded EXCEPT !.ingest_status = "failed", !.checksum = @ \/ worker.pc = "index"]
  OBVIOUS
<1>3. write(loaded, dirty, Off("idle"))
  BY <1>1, <1>2 DEF ingest_failed
<1>4. worker.doc \in Docs /\ loaded \in Rows /\ loaded.ingest_status = "processing"
  BY <1>0, <1>1, JobFacts
<1>5. dirty \in Rows /\ dirty.ingest_status = "failed"
  BY <1>2, <1>4 DEF Rows, Statuses, Live
<1>6. CASE ~exists(worker.doc)
  BY <1>0, <1>3, <1>6, WriteGone
<1>7. CASE exists(worker.doc)
  <2>1. PICK x \in Rows : /\ doc' = [doc EXCEPT ![worker.doc] = x] /\ worker' = Off("idle")
                          /\ x.ingest_status = IF dirty.ingest_status # loaded.ingest_status
                                               THEN dirty.ingest_status ELSE doc[worker.doc].ingest_status
    BY <1>3, <1>4, <1>5, <1>7, WriteRow
  <2>2. x.ingest_status = "failed"
    BY <1>4, <1>5, <2>1
  <2> QED BY <1>0, <1>7, <2>1, <2>2, JobEnds
<1> QED BY <1>6, <1>7

LEMMA IndexDocumentInv ==
    ASSUME Inv, index_document
    PROVE  Inv'
<1>0. worker.pc = "index" /\ UNCHANGED <<queue, unsent, deleting, reingests, crashes, losses>>
  BY DEF index_document
<1>1. PICK loaded : loaded = worker.loaded
  OBVIOUS
<1>2. /\ worker.doc \in Docs /\ loaded \in Rows /\ loaded.ingest_status = "processing"
      /\ exists(worker.doc) => /\ doc[worker.doc].given = loaded.given
                               /\ doc[worker.doc].embedding = loaded.embedding
  BY <1>0, <1>1, JobFacts
<1>3. PICK version \in Nat : version = loaded.version + 1 /\ version # loaded.version
  BY <1>2 DEF Rows
<1>4. PICK meta : meta = record_meta(loaded)
  OBVIOUS
<1>5. /\ meta \in Rows /\ meta.given = loaded.given
      /\ meta.embedding = IF loaded.given \/ loaded.embedding THEN loaded.embedding ELSE TRUE
  BY <1>2, <1>4 DEF record_meta, Rows
<1>6. PICK dirty : dirty = [meta EXCEPT !.ingest_status = "ready", !.checksum = TRUE, !.version = version]
  OBVIOUS
<1>7. /\ dirty \in Rows /\ dirty.ingest_status = "ready" /\ dirty.version = version
      /\ dirty.given = meta.given /\ dirty.embedding = meta.embedding
  BY <1>5, <1>6 DEF Rows, Statuses, Live
<1>8. /\ write(loaded, dirty, Off("idle"))
      /\ chunks' = IF exists(worker.doc) THEN replace_chunks(worker.doc, version) ELSE chunks
  BY <1>1, <1>3, <1>4, <1>6 DEF index_document
<1>9. CASE ~exists(worker.doc)
  BY <1>0, <1>8, <1>9, WriteGone
<1>10. CASE exists(worker.doc)
  <2>1. PICK x \in Rows :
             /\ doc' = [doc EXCEPT ![worker.doc] = x] /\ worker' = Off("idle")
             /\ x.ingest_status = IF dirty.ingest_status # loaded.ingest_status THEN dirty.ingest_status
                                  ELSE doc[worker.doc].ingest_status
             /\ x.version = IF dirty.version # loaded.version THEN dirty.version ELSE doc[worker.doc].version
             /\ x.given = IF dirty.given # loaded.given THEN dirty.given ELSE doc[worker.doc].given
             /\ x.embedding = IF dirty.embedding # loaded.embedding THEN dirty.embedding
                              ELSE doc[worker.doc].embedding
    BY <1>2, <1>7, <1>8, <1>10, WriteRow
  <2>2. x.ingest_status = "ready" /\ x.version = version
    BY <1>2, <1>3, <1>7, <2>1
  <2>3. x.embedding \/ x.given
    <3>1. x.given = loaded.given /\ loaded.given \in BOOLEAN /\ loaded.embedding \in BOOLEAN
      BY <1>2, <1>5, <1>7, <1>10, <2>1 DEF Rows
    <3>2. CASE loaded.given
      BY <3>1, <3>2
    <3>3. CASE ~loaded.given /\ loaded.embedding
      BY <1>2, <1>5, <1>7, <1>10, <2>1, <3>1, <3>3
    <3>4. CASE ~loaded.given /\ ~loaded.embedding
      BY <1>5, <1>7, <2>1, <3>1, <3>4
    <3> QED BY <3>1, <3>2, <3>3, <3>4
  <2>4. chunks' = [chunks EXCEPT ![worker.doc] = {x.version}]
    BY <1>8, <1>10, <2>2 DEF replace_chunks
  <2> QED BY <1>0, <1>10, <2>1, <2>2, <2>3, <2>4, JobEnds
<1> QED BY <1>9, <1>10

-----------------------------------------------------------------------------
\* The inductive invariant: index and rows agree, a URL ingest owns its id, the
\* worker's copy of a row and what startup has enqueued, and where every document
\* is that is not settled.
THEOREM KbInvariant == Spec => []Inv
<1>1. Init => Inv
  <2> SUFFICES ASSUME Init PROVE Inv
    OBVIOUS
  <2>1. /\ worker \in Workers /\ worker.pc = "startup" /\ worker.doc = NoDoc /\ worker.stuck = {}
        /\ worker.flushed = {}
    <3>1. "startup" \in Steps
      BY DEF Steps
    <3> QED BY <3>1, OffFields DEF Init
  <2>2. NoRow \in Rows /\ NoRow.ingest_status = "absent"
    BY DEF NoRow, Rows, Statuses, Live
  <2>3. doc \in [Docs -> Rows] /\ \A d \in Docs : doc[d].ingest_status = "absent"
    BY <2>2 DEF Init
  <2>4. queue \in Seq(Jobs) /\ DOMAIN queue = {}
    <3>1. queue = <<>>
      BY DEF Init
    <3> QED BY <3>1, EmptySeq
  <2>5. TypeOK
    BY <2>1, <2>3, <2>4, KbAssumption DEF Init, TypeOK, Workers
  <2>6. IndexInv
    BY <2>3 DEF Init, IndexInv
  <2>7. UrlInv
    BY <2>1, <2>4 DEF Init, UrlInv
  <2>8. WorkerInv
    BY <2>1, KbAssumption DEF WorkerInv, InJob
  <2>9. FoundInv
    BY <2>1, <2>3 DEF FoundInv
  <2> QED BY <2>5, <2>6, <2>7, <2>8, <2>9 DEF Inv
<1>2. Inv /\ [Next]_vars => Inv'
  <2> SUFFICES ASSUME Inv, [Next]_vars PROVE Inv'
    OBVIOUS
  <2>1. CASE UNCHANGED vars
    BY <2>1 DEF vars, Inv, TypeOK, IndexInv, UrlInv, WorkerInv, FoundInv, InJob, Queued, Sent, absent, exists
  <2>2. ASSUME NEW d \in Docs, create_document_text(d) \/ upload_document(d) \/ ingest_from_email(d) PROVE Inv'
    <3>1. \E checksum, given \in BOOLEAN : create_document(d, checksum, given)
      BY <2>2 DEF create_document_text, upload_document, ingest_from_email
    <3> QED BY <3>1, CreateInv
  <2>3. ASSUME NEW d \in Docs, ingest_from_url(d) \/ reingest_document(d) \/ delete_begin(d) PROVE Inv'
    BY <2>3, FromUrlInv, ReingestInv, DeleteBeginInv
  <2>4. ASSUME NEW send \in Sends, enqueue(send) \/ enqueue_fails(send) PROVE Inv'
    BY <2>4, EnqueueInv, EnqueueFailsInv
  <2>5. ASSUME NEW d \in Docs, NEW seen \in deleting[d], delete_document(d, seen) PROVE Inv'
    BY <2>5, DeleteInv
  <2>6. CASE Startup
    <3>1. ASSUME NEW d \in Docs, startup_recover(d) PROVE Inv'
      BY <3>1, StartupRecoverInv
    <3> QED BY <2>6, <3>1, StartupSelectInv, StartupCommitInv, RestartInv DEF Startup
  <2>7. CASE worker_dies \/ worker_dies_early \/ ingest_failed \/ job_lost
    BY <2>7, DiesInv, FailedInv, JobLostInv
  <2>8. CASE Work
    BY <2>8, DequeueInv, IngestUrlInv, EmbedLoadInv, MarkInv, ExtractInv, IndexDocumentInv DEF Work
  <2> QED BY <2>1, <2>2, <2>3, <2>4, <2>5, <2>6, <2>7, <2>8 DEF Next
<1> QED BY <1>1, <1>2, PTL DEF Spec

\* Searches see whole documents of their current version whatever uploads, deletes,
\* reingests and worker deaths interleave, and unless a job was lost outside the
\* window that startup.py repairs no document is left without one.
THEOREM KbIndexIsWhole == Spec => []IndexIsWhole
<1>1. Inv => IndexIsWhole
  <2> SUFFICES ASSUME Inv PROVE IndexIsWhole
    OBVIOUS
  <2>1. SearchIsWhole
    <3>1. \A d \in Docs : doc[d].ingest_status = "ready" => <<d, doc[d].version>> \in search
      <4> SUFFICES ASSUME NEW d \in Docs, doc[d].ingest_status = "ready" PROVE <<d, doc[d].version>> \in search
        OBVIOUS
      <4>1. doc[d].version \in chunks[d]
        BY DEF Inv, IndexInv
      <4>2. <<d, doc[d].version>> \in {<<d, g>> : g \in chunks[d]}
        BY <4>1
      <4>3. d \in {e \in Docs : doc[e].ingest_status = "ready"}
        OBVIOUS
      <4> QED BY <4>2, <4>3, Zenon DEF search
    <3>2. ASSUME NEW hit \in search PROVE hit[2] = doc[hit[1]].version
      <4>1. PICK d \in Docs, g \in Nat : /\ doc[d].ingest_status = "ready" /\ hit = <<d, g>>
                                       /\ g \in chunks[d]
        BY <3>2 DEF search, Inv, TypeOK
      <4>2. g = doc[d].version /\ hit[1] = d /\ hit[2] = g
        BY <4>1 DEF Inv, IndexInv
      <4> QED BY <4>2
    <3>3. \A d \in Docs : ~exists(d) => chunks[d] = {}
      BY DEF Inv, IndexInv
    <3> QED BY <3>1, <3>2, <3>3 DEF SearchIsWhole
  <2>2. NoDocumentForgotten
    <3>1. \A d : Sent(d) => Waiting(d)
      BY DEF Sent, Queued, Waiting
    <3>2. \A d : worker.doc = d => Waiting(d)
      BY DEF Waiting
    <3> QED BY <3>1, <3>2 DEF Inv, FoundInv, NoDocumentForgotten
  <2>3. TypeOK /\ \A d \in Docs : doc[d].ingest_status = "ready" => doc[d].embedding \/ doc[d].given
    BY DEF Inv, IndexInv
  <2> QED BY <2>1, <2>2, <2>3 DEF IndexIsWhole
<1> QED BY <1>1, KbInvariant, PTL

\* The knowledge base as the run has it, with those who ask it beside the ingest, keeps the
\* index whole.
THEOREM BaseIndexIsWhole == BaseSpec => []IndexIsWhole
<1>1. BaseInit => Init
  BY DEF BaseInit
<1>2. [BaseNext]_baseVars => [Next]_vars
  BY DEF BaseNext, Ingesting, Inquiring, baseVars
<1> QED
  BY <1>1, <1>2, KbIndexIsWhole, PTL DEF BaseSpec, Spec

(* ---------------- those who ask ---------------- *)

AskReq ==
    [op : {"none", "ask", "search", "feedback"}, who : Askers \cup {"none"}, ns : SUBSET Namespaces,
     pc : {"idle", "incr", "expire", "publish", "persist", "retrieve", "synthesize", "commit", "done"},
     ev : {"none", "limited", "requested", "retrieved", "responded", "received", "failed"},
     rows : SUBSET {"access", "feedback", "limited", "requested", "retrieved", "responded", "received", "failed"},
     dead : BOOLEAN, cited : SUBSET Library,
     answer : {"none", "ok", "429", "500", "lost"}, seen : SUBSET Library]

AskType ==
    /\ indexed \subseteq Library
    /\ limit \in [Askers -> [count : Nat, ttl : BOOLEAN]]
    /\ through \in [Askers -> Nat]
    /\ asking \in [AskReqs -> AskReq]

Told == {"responded", "received"}
Asked == {"access", "requested", "retrieved"}

\* What holds of a request q, its rows K and its events B at any time.
Accounted(q, K, B) ==
    /\ q.answer \in {"ok", "429"} \/ K \cap {"access", "feedback"} # {} \/ B \cap Told # {} => Owed(q) \subseteq K
    /\ K \ {"access", "feedback"} \subseteq B

\* The session holds these rows and their events are published, unless it has failed.
Holds(q, B, rows) == q.dead \/ (q.rows = rows /\ rows \ {"access", "feedback"} \subseteq B)

\* Nothing is committed yet, and nobody was told that it is.
Open(K, B) == K = {} /\ B \cap Told = {}

\* What a request knows on its way, stage by stage.
OnWay(q, K, B) ==
    /\ q.pc = "idle" => q = NoAsk /\ K = {} /\ B = {}
    /\ q.pc \notin {"idle", "done"} => q.op # "none" /\ q.who \in Askers /\ q.answer = "none"
    /\ q.pc \in {"incr", "expire"} => q.op = "ask" /\ q.ev = "none" /\ Open(K, B) /\ Holds(q, B, {}) /\ ~q.dead
    /\ q.pc \in {"publish", "persist"} =>
         /\ q.ev # "none"
         /\ q.ev \in {"limited", "requested", "retrieved"} => q.op = "ask" /\ Open(K, B)
         /\ q.ev \in {"limited", "requested"} => Holds(q, B, {})
         /\ q.ev = "retrieved" => Holds(q, B, {"access", "requested"})
         /\ q.ev = "responded" => q.op = "ask" /\ Asked \subseteq K
         /\ q.ev = "received" => q.op = "feedback" /\ "feedback" \in K
         /\ q.pc = "persist" => q.ev \in B
    /\ q.pc = "retrieve" =>
         /\ Open(K, B)
         /\ \/ q.op = "search" /\ q.ev = "none" /\ Holds(q, B, {})
            \/ q.op = "ask" /\ q.ev = "requested" /\ Holds(q, B, {"requested"})
    /\ q.pc = "synthesize" => q.op = "ask" /\ q.ev = "retrieved" /\ Open(K, B) /\ Holds(q, B, Asked)
    /\ q.pc = "commit" =>
         /\ Open(K, B)
         /\ \/ q.op = "search" /\ q.ev = "none" /\ Holds(q, B, {"access"})
            \/ q.op = "feedback" /\ q.ev = "none" /\ Holds(q, B, {"feedback"})
            \/ q.op = "ask" /\ q.ev = "limited" /\ Holds(q, B, {"limited"})
            \/ q.op = "ask" /\ q.ev = "retrieved" /\ Holds(q, B, Asked)

\* What a request has cited it has seen ready, and may read.
CitesOK(q) ==
    /\ Running(q) => indexed \subseteq q.seen
    /\ \A d \in q.cited : d \in q.seen /\ (RoleOf[q.who] # "operator" => NamespaceOf[d] = "global")

AskOK(q, K, B) == Accounted(q, K, B) /\ OnWay(q, K, B) /\ CitesOK(q)

AsksInv == \A r \in AskReqs : AskOK(asking[r], Kept(r), OnBus(r))

LimitInv ==
    /\ \A u \in Askers : through[u] <= limit[u].count
    /\ LimitHolds

AskInv == AskType /\ AsksInv /\ LimitInv

\* Rows committed and events published are those of one request.
LEMMA RequestsGrow ==
  ASSUME NEW r, NEW ks, NEW bs,
         kept' = kept \cup {<<r, x>> : x \in ks}, published' = published \cup {<<r, x>> : x \in bs}
  PROVE  /\ Kept(r)' = Kept(r) \cup ks /\ OnBus(r)' = OnBus(r) \cup bs
         /\ \A s : s # r => Kept(s)' = Kept(s) /\ OnBus(s)' = OnBus(s)
<1>1. \A k \in kept' : k[1] = r => k \in kept \/ k[2] \in ks
  OBVIOUS
<1>2. \A x \in ks : <<r, x>> \in kept' /\ <<r, x>>[1] = r /\ <<r, x>>[2] = x
  OBVIOUS
<1>3. \A k \in kept : k \in kept'
  OBVIOUS
<1>4. Kept(r)' = Kept(r) \cup ks
  BY <1>1, <1>2, <1>3 DEF Kept
<1>5. \A k \in published' : k[1] = r => k \in published \/ k[2] \in bs
  OBVIOUS
<1>6. \A x \in bs : <<r, x>> \in published' /\ <<r, x>>[1] = r /\ <<r, x>>[2] = x
  OBVIOUS
<1>7. \A k \in published : k \in published'
  OBVIOUS
<1>8. OnBus(r)' = OnBus(r) \cup bs
  BY <1>5, <1>6, <1>7 DEF OnBus
<1>9. ASSUME NEW s, s # r
      PROVE  Kept(s)' = Kept(s) /\ OnBus(s)' = OnBus(s)
  <2>1. \A k : k[1] = s => (k \in kept' <=> k \in kept) /\ (k \in published' <=> k \in published)
    BY <1>9
  <2> QED BY <2>1 DEF Kept, OnBus
<1> QED BY <1>4, <1>8, <1>9

\* A step of one request, with what it commits and publishes.
LEMMA AskMoves ==
  ASSUME AskInv, NEW r \in AskReqs, NEW p \in AskReq, NEW ks, NEW bs,
         asking' = [asking EXCEPT ![r] = p], UNCHANGED indexed,
         kept' = kept \cup {<<r, x>> : x \in ks}, published' = published \cup {<<r, x>> : x \in bs},
         AskOK(p, Kept(r) \cup ks, OnBus(r) \cup bs)
  PROVE  AsksInv' /\ asking' \in [AskReqs -> AskReq]
<1>1. asking' \in [AskReqs -> AskReq] /\ asking'[r] = p /\ \A s \in AskReqs : s # r => asking'[s] = asking[s]
  BY DEF AskInv, AskType
<1>2. ASSUME NEW s \in AskReqs
      PROVE  AskOK(asking[s], Kept(s), OnBus(s))'
  <2>1. CASE s = r
    <3>1. /\ Accounted(asking'[s], Kept(s)', OnBus(s)') /\ OnWay(asking'[s], Kept(s)', OnBus(s)')
          /\ CitesOK(p)
      BY <1>1, <2>1, RequestsGrow DEF AskOK
    <3>2. CitesOK(asking[s])'
      BY <1>1, <2>1, <3>1 DEF CitesOK
    <3> QED BY <3>1, <3>2 DEF AskOK
  <2>2. CASE s # r
    <3>1. /\ Accounted(asking'[s], Kept(s)', OnBus(s)') /\ OnWay(asking'[s], Kept(s)', OnBus(s)')
          /\ CitesOK(asking[s])
      <4>1. asking'[s] = asking[s] /\ Kept(s)' = Kept(s) /\ OnBus(s)' = OnBus(s)
        BY <1>1, <2>2, RequestsGrow
      <4>2. AskOK(asking[s], Kept(s), OnBus(s))
        BY DEF AskInv, AsksInv
      <4> QED BY <4>1, <4>2 DEF AskOK
    <3>2. CitesOK(asking[s])'
      BY <1>1, <2>2, <3>1 DEF CitesOK
    <3> QED BY <3>1, <3>2 DEF AskOK
  <2> QED BY <2>1, <2>2
<1> QED BY <1>1, <1>2 DEF AsksInv

\* ... that neither counts nor waits to give the counter its time to live.
LEMMA AskOnly ==
  ASSUME AskInv, NEW r \in AskReqs, NEW p \in AskReq, NEW ks, NEW bs,
         asking' = [asking EXCEPT ![r] = p], asking[r].pc # "expire",
         UNCHANGED <<indexed, limit, through, stuck>>,
         kept' = kept \cup {<<r, x>> : x \in ks}, published' = published \cup {<<r, x>> : x \in bs},
         AskOK(p, Kept(r) \cup ks, OnBus(r) \cup bs)
  PROVE  AskInv'
<1>1. AsksInv' /\ asking' \in [AskReqs -> AskReq]
  BY AskMoves
<1>2. \A s \in AskReqs : asking[s].pc = "expire" => asking'[s] = asking[s]
  BY DEF AskInv, AskType
<1>3. LimitInv'
  BY <1>2 DEF AskInv, LimitInv, LimitHolds
<1>4. AskType'
  BY <1>1 DEF AskInv, AskType
<1> QED BY <1>1, <1>3, <1>4 DEF AskInv

\* The same for steps that commit and publish nothing.
LEMMA AskQuiet ==
  ASSUME AskInv, NEW r \in AskReqs, NEW p \in AskReq,
         asking' = [asking EXCEPT ![r] = p], UNCHANGED <<indexed, kept, published>>,
         AskOK(p, Kept(r), OnBus(r))
  PROVE  /\ AsksInv' /\ asking' \in [AskReqs -> AskReq]
         /\ asking[r].pc # "expire" /\ UNCHANGED <<limit, through, stuck>> => AskInv'
<1>1. kept' = kept \cup {<<r, x>> : x \in {}} /\ published' = published \cup {<<r, x>> : x \in {}}
  OBVIOUS
<1>2. Kept(r) \cup {} = Kept(r) /\ OnBus(r) \cup {} = OnBus(r)
  OBVIOUS
<1>3. AskOK(p, Kept(r) \cup {}, OnBus(r) \cup {})
  BY <1>2
<1>4. AsksInv' /\ asking' \in [AskReqs -> AskReq]
  BY <1>1, <1>3, AskMoves
<1>5. asking[r].pc # "expire" /\ UNCHANGED <<limit, through, stuck>> => AskInv'
  BY <1>1, <1>3, AskOnly
<1> QED BY <1>4, <1>5

\* An error answer promises nothing.
LEMMA RepliesOK ==
  ASSUME NEW q \in AskReq, NEW K, NEW B, NEW answer \in {"500", "lost"},
         Accounted(q, K, B), CitesOK(q), q.answer = "none"
  PROVE  Replies(q, answer) \in AskReq /\ AskOK(Replies(q, answer), K, B)
<1> DEFINE p == Replies(q, answer)
<1>1. /\ p \in AskReq /\ p.pc = "done" /\ p.answer = answer /\ p.op = q.op /\ p.cited = q.cited
      /\ p.seen = q.seen /\ p.who = q.who
  BY DEF Replies, AskReq
<1> HIDE DEF p
<1>2. Owed(p) = Owed(q)
  BY <1>1 DEF Owed
<1>3. Accounted(p, K, B)
  BY <1>1, <1>2 DEF Accounted
<1>4. OnWay(p, K, B)
  BY <1>1 DEF OnWay
<1>5. CitesOK(p)
  BY <1>1 DEF CitesOK, Running
<1> QED BY <1>1, <1>3, <1>4, <1>5 DEF AskOK, p

\* What is raised ends the request, or makes it emit ask.failed.
LEMMA RaisesOK ==
  ASSUME NEW q \in AskReq, NEW K, NEW B, Running(q),
         Accounted(q, K, B), CitesOK(q), q.answer = "none", q.op # "none", q.who \in Askers
  PROVE  Raises(q) \in AskReq /\ AskOK(Raises(q), K, B) /\ Raises(q).who = q.who
<1>1. CASE InTry(q)
  <2> DEFINE p == Emits(q, "failed")
  <2>1. /\ p \in AskReq /\ p.pc = "publish" /\ p.ev = "failed" /\ p.answer = "none" /\ p.op = q.op
        /\ p.cited = q.cited /\ p.seen = q.seen /\ p.who = q.who
    BY DEF Emits, AskReq
  <2> HIDE DEF p
  <2>2. Accounted(p, K, B)
    BY <2>1 DEF Accounted, Owed
  <2>3. OnWay(p, K, B)
    BY <2>1 DEF OnWay
  <2>4. CitesOK(p)
    BY <2>1 DEF CitesOK, Running
  <2> QED BY <1>1, <2>1, <2>2, <2>3, <2>4 DEF Raises, AskOK, p
<1>2. CASE ~InTry(q)
  BY <1>2, RepliesOK DEF Raises, Replies, AskReq
<1> QED BY <1>1, <1>2

\* What a step of a request needs to know of it.
LEMMA AskAt ==
  ASSUME AskInv, NEW r \in AskReqs
  PROVE  /\ asking[r] \in AskReq /\ Accounted(asking[r], Kept(r), OnBus(r))
         /\ OnWay(asking[r], Kept(r), OnBus(r)) /\ CitesOK(asking[r])
  BY DEF AskInv, AskType, AsksInv, AskOK

LEMMA AsksStep ==
  ASSUME AskInv, NEW r \in AskReqs, NEW op \in {"ask", "search", "feedback"}, NEW u \in Askers,
         NEW ns \in SUBSET Namespaces, Asks(r, op, u, ns)
  PROVE  AskInv'
<1> PICK p : p = [NoAsk EXCEPT !.op = op, !.who = u, !.ns = ns, !.seen = indexed,
                      !.pc = CASE op = "ask" -> "incr" [] op = "search" -> "retrieve" [] op = "feedback" -> "commit",
                      !.rows = IF op = "feedback" THEN {"feedback"} ELSE {}]
  OBVIOUS
<1>1. asking' = [asking EXCEPT ![r] = p] /\ asking[r].pc = "idle"
  BY DEF Asks, Set
<1>2. indexed \subseteq Library
  BY DEF AskInv, AskType
<1>3. /\ p \in AskReq /\ p.op = op /\ p.who = u /\ p.seen = indexed /\ p.cited = {} /\ p.ev = "none" /\ ~p.dead
      /\ p.answer = "none"
      /\ op = "ask" => p.pc = "incr" /\ p.rows = {}
      /\ op = "search" => p.pc = "retrieve" /\ p.rows = {}
      /\ op = "feedback" => p.pc = "commit" /\ p.rows = {"feedback"}
  BY <1>2 DEF NoAsk, AskReq
<1>4. Kept(r) = {} /\ OnBus(r) = {}
  BY <1>1, AskAt DEF OnWay
<1>5. Accounted(p, {}, {})
  BY <1>3 DEF Accounted
<1>6. OnWay(p, {}, {})
  BY <1>3 DEF OnWay, Open, Holds
<1>7. CitesOK(p)
  BY <1>3 DEF CitesOK
<1>8. AskOK(p, Kept(r), OnBus(r))
  BY <1>4, <1>5, <1>6, <1>7 DEF AskOK
<1>9. UNCHANGED <<indexed, kept, published, limit, through, stuck>>
  BY DEF Asks
<1> QED BY <1>1, <1>3, <1>8, <1>9, AskQuiet

\* Having counted, a request goes on to its first event.
LEMMA JudgedOK ==
  ASSUME AskInv, NEW r \in AskReqs, NEW count \in Nat, asking[r].pc \in {"incr", "expire"}
  PROVE  /\ Judged(r, count) \in AskReq /\ AskOK(Judged(r, count), Kept(r), OnBus(r))
         /\ Judged(r, count).pc = "publish" /\ Judged(r, count).who = asking[r].who
<1> PICK p : p = Judged(r, count)
  OBVIOUS
<1> PICK q : q = asking[r]
  OBVIOUS
<1>1. q \in AskReq /\ Accounted(q, Kept(r), OnBus(r)) /\ OnWay(q, Kept(r), OnBus(r)) /\ CitesOK(q)
  BY AskAt
<1>2. /\ p \in AskReq /\ p.pc = "publish" /\ p.ev \in {"limited", "requested"} /\ p.op = q.op /\ p.who = q.who
      /\ p.seen = q.seen /\ p.cited = q.cited /\ p.answer = q.answer /\ p.rows = q.rows /\ p.dead = q.dead
  <2> PICK ev : ev = IF count > RateLimit THEN "limited" ELSE "requested"
    OBVIOUS
  <2>1. p = [q EXCEPT !.pc = "publish", !.ev = ev] /\ ev \in {"limited", "requested"}
    BY DEF Judged, Emits
  <2> QED BY <1>1, <2>1 DEF AskReq
<1>3. Accounted(p, Kept(r), OnBus(r))
  BY <1>1, <1>2 DEF Accounted, Owed
<1>4. OnWay(p, Kept(r), OnBus(r))
  BY <1>1, <1>2 DEF OnWay, Holds
<1>5. CitesOK(p)
  BY <1>1, <1>2 DEF CitesOK, Running
<1> QED BY <1>2, <1>3, <1>4, <1>5 DEF AskOK

LEMMA IncrementsStep ==
  ASSUME AskInv, NEW r \in AskReqs, Increments(r)
  PROVE  AskInv'
<1> PICK u : u = asking[r].who
  OBVIOUS
<1> PICK q : q = asking[r]
  OBVIOUS
<1> PICK count : count = limit[u].count + 1
  OBVIOUS
<1> PICK p : p = IF count = 1 THEN Goes(q, "expire") ELSE Judged(r, count)
  OBVIOUS
<1>1. q \in AskReq /\ Accounted(q, Kept(r), OnBus(r)) /\ OnWay(q, Kept(r), OnBus(r)) /\ CitesOK(q)
  BY AskAt
<1>2. /\ q.pc = "incr" /\ u \in Askers /\ asking' = [asking EXCEPT ![r] = p]
      /\ limit' = [limit EXCEPT ![u].count = count]
      /\ through' = [through EXCEPT ![u] = IF count > RateLimit THEN @ ELSE @ + 1]
      /\ UNCHANGED <<indexed, kept, published, stuck>>
  BY <1>1 DEF Increments, Set, OnWay
<1>3. limit[u] \in [count : Nat, ttl : BOOLEAN] /\ through[u] \in Nat /\ count \in Nat \ {0}
  BY <1>2 DEF AskInv, AskType
<1>4. p \in AskReq /\ AskOK(p, Kept(r), OnBus(r)) /\ p.who = u /\ (count = 1 => p.pc = "expire")
  <2>1. CASE count = 1
    <3>1. /\ p \in AskReq /\ p.pc = "expire" /\ p.ev = q.ev /\ p.op = q.op /\ p.who = q.who
          /\ p.seen = q.seen /\ p.cited = q.cited /\ p.answer = q.answer /\ p.rows = q.rows /\ p.dead = q.dead
      BY <1>1, <2>1 DEF Goes, AskReq
    <3>2. Accounted(p, Kept(r), OnBus(r))
      BY <1>1, <3>1 DEF Accounted, Owed
    <3>3. OnWay(p, Kept(r), OnBus(r))
      BY <1>1, <1>2, <3>1 DEF OnWay, Holds
    <3>4. CitesOK(p)
      BY <1>1, <1>2, <3>1 DEF CitesOK, Running
    <3> QED BY <3>1, <3>2, <3>3, <3>4 DEF AskOK
  <2>2. CASE count # 1
    BY <1>2, <1>3, <2>2, JudgedOK
  <2> QED BY <2>1, <2>2
<1>5. AsksInv' /\ asking' \in [AskReqs -> AskReq]
  BY <1>2, <1>4, AskQuiet
<1>6. /\ limit' \in [Askers -> [count : Nat, ttl : BOOLEAN]] /\ through' \in [Askers -> Nat]
      /\ limit'[u].count = count /\ limit'[u].ttl = limit[u].ttl
      /\ \A v \in Askers : v # u => limit'[v] = limit[v] /\ through'[v] = through[v]
      /\ through'[u] = IF count > RateLimit THEN through[u] ELSE through[u] + 1
  BY <1>2, <1>3 DEF AskInv, AskType
<1>7. LimitInv'
  <2>1. \A v \in Askers : through'[v] <= limit'[v].count /\ through'[v] <= RateLimit
    <3>1. through[u] <= limit[u].count /\ through[u] <= RateLimit
      BY <1>2 DEF AskInv, LimitInv, LimitHolds
    <3>2. through'[u] <= limit'[u].count /\ through'[u] <= RateLimit
      BY <1>3, <1>6, <3>1, AskAssumption
    <3> QED BY <1>6, <3>2 DEF AskInv, LimitInv, LimitHolds
  <2>2. ASSUME NEW v \in Askers, limit'[v].count > 0, ~limit'[v].ttl
        PROVE  v \in stuck' \/ \E s \in AskReqs : asking'[s].who = v /\ asking'[s].pc = "expire"
    <3>1. asking'[r] = p /\ \A s \in AskReqs : s # r => asking'[s] = asking[s]
      BY <1>2 DEF AskInv, AskType
    <3>2. CASE v = u /\ count = 1
      BY <1>4, <3>1, <3>2
    <3>3. CASE ~(v = u /\ count = 1)
      <4>1. limit[v].count > 0 /\ ~limit[v].ttl
        BY <1>3, <1>6, <2>2, <3>3
      <4>2. v \in stuck \/ \E s \in AskReqs : asking[s].who = v /\ asking[s].pc = "expire"
        BY <4>1 DEF AskInv, LimitInv, LimitHolds
      <4> QED BY <1>2, <3>1, <4>2
    <3> QED BY <3>2, <3>3
  <2> QED BY <2>1, <2>2 DEF LimitInv, LimitHolds
<1> QED BY <1>2, <1>5, <1>6, <1>7 DEF AskInv, AskType

\* A request leaves EXPIRE: the counter has its time to live, or is noted as stuck.
LEMMA ExpireEnds ==
  ASSUME AskInv, NEW r \in AskReqs, NEW p \in AskReq, asking[r].pc \in {"incr", "expire"},
         asking' = [asking EXCEPT ![r] = p], AskOK(p, Kept(r), OnBus(r)),
         UNCHANGED <<indexed, kept, published, through>>,
         \/ /\ UNCHANGED limit
            /\ stuck' = IF asking[r].pc = "expire" THEN stuck \cup {asking[r].who} ELSE stuck
         \/ limit' = [limit EXCEPT ![asking[r].who].ttl = TRUE] /\ UNCHANGED stuck
  PROVE  AskInv'
<1> PICK u : u = asking[r].who
  OBVIOUS
<1>1. AsksInv' /\ asking' \in [AskReqs -> AskReq]
  BY AskQuiet
<1>2. u \in Askers
  BY AskAt DEF OnWay
<1>3. /\ limit' \in [Askers -> [count : Nat, ttl : BOOLEAN]]
      /\ \A v \in Askers : limit'[v].count = limit[v].count
      /\ \A v \in Askers : v # u => limit'[v] = limit[v]
      /\ asking[r].pc = "expire" => u \in stuck' \/ limit'[u].ttl
      /\ limit[u].ttl => limit'[u].ttl
      /\ stuck \subseteq stuck'
  <2>1. CASE UNCHANGED limit
    BY <1>2, <2>1 DEF AskInv, AskType
  <2>2. CASE limit' = [limit EXCEPT ![u].ttl = TRUE] /\ UNCHANGED stuck
    <3>1. \A v \in Askers : limit[v] \in [count : Nat, ttl : BOOLEAN]
      BY DEF AskInv, AskType
    <3>2. limit' = [limit EXCEPT ![u] = [limit[u] EXCEPT !.ttl = TRUE]]
      BY <2>2
    <3>3. [limit[u] EXCEPT !.ttl = TRUE] \in [count : Nat, ttl : BOOLEAN]
      BY <1>2, <3>1
    <3>4. limit' \in [Askers -> [count : Nat, ttl : BOOLEAN]] /\ limit'[u] = [limit[u] EXCEPT !.ttl = TRUE]
      BY <1>2, <3>2, <3>3 DEF AskInv, AskType
    <3>5. \A v \in Askers : v # u => limit'[v] = limit[v]
      BY <3>2 DEF AskInv, AskType
    <3>6. limit'[u].count = limit[u].count /\ limit'[u].ttl
      BY <1>2, <3>1, <3>4
    <3> QED BY <1>2, <2>2, <3>4, <3>5, <3>6
  <2> QED BY <2>1, <2>2
<1>4. LimitInv'
  <2>1. ASSUME NEW v \in Askers, limit'[v].count > 0, ~limit'[v].ttl
        PROVE  v \in stuck' \/ \E s \in AskReqs : asking'[s].who = v /\ asking'[s].pc = "expire"
    <3>1. limit[v].count > 0 /\ ~limit[v].ttl
      BY <1>3, <2>1
    <3>2. v \in stuck \/ \E s \in AskReqs : asking[s].who = v /\ asking[s].pc = "expire"
      BY <3>1 DEF AskInv, LimitInv, LimitHolds
    <3>3. ASSUME NEW s \in AskReqs, asking[s].who = v, asking[s].pc = "expire", s # r
          PROVE  asking'[s].who = v /\ asking'[s].pc = "expire"
      BY <3>3 DEF AskInv, AskType
    <3> QED BY <1>3, <2>1, <3>2, <3>3
  <2> QED BY <1>3, <2>1 DEF AskInv, LimitInv, LimitHolds
<1> QED BY <1>1, <1>3, <1>4 DEF AskInv, AskType

LEMMA ExpiresStep ==
  ASSUME AskInv, NEW r \in AskReqs, Expires(r) \/ LimiterFails(r)
  PROVE  AskInv'
<1>1. CASE Expires(r)
  BY <1>1, JudgedOK, ExpireEnds DEF Expires, Set
<1>2. CASE LimiterFails(r)
  <2>1. asking[r].answer = "none"
    BY <1>2, AskAt DEF LimiterFails, OnWay
  <2>2. Replies(asking[r], "500") \in AskReq /\ AskOK(Replies(asking[r], "500"), Kept(r), OnBus(r))
    BY <2>1, AskAt, RepliesOK
  <2> QED BY <1>2, <2>2, ExpireEnds DEF LimiterFails, Set
<1> QED BY <1>1, <1>2

\* What a request is after its event and its row, or without its row.
LEMMA ProceedsOK ==
  ASSUME NEW q \in AskReq, NEW K, NEW B, q.pc = "persist",
         Accounted(q, K, B), OnWay(q, K, B), CitesOK(q),
         NEW p \in AskReq, p = LosesSession(q) \/ p = [q EXCEPT !.rows = IF q.dead THEN @ ELSE @ \cup {q.ev}]
  PROVE  Proceeds(p) \in AskReq /\ AskOK(Proceeds(p), K, B)
<1> PICK z : z = Proceeds(p)
  OBVIOUS
<1>1. /\ p.pc = "persist" /\ p.ev = q.ev /\ p.op = q.op /\ p.who = q.who /\ p.seen = q.seen
      /\ p.cited = q.cited /\ p.answer = q.answer
      /\ p.dead \/ (~q.dead /\ p.rows = q.rows \cup {q.ev})
  BY DEF LosesSession, AskReq
<1>2. q.ev # "none" /\ q.ev \in B /\ q.answer = "none"
  BY DEF OnWay
<1>3. CASE q.ev \in {"limited", "requested", "retrieved"}
  <2>1. /\ z \in AskReq /\ z.ev = q.ev /\ z.op = q.op /\ z.who = q.who /\ z.seen = q.seen
        /\ z.cited = q.cited /\ z.answer = q.answer /\ z.dead = p.dead /\ z.rows = p.rows
        /\ q.ev = "limited" => z.pc = "commit"
        /\ q.ev = "requested" => z.pc = "retrieve"
        /\ q.ev = "retrieved" => z.pc = "synthesize"
    BY <1>1, <1>3 DEF Proceeds, Goes, AskReq
  <2>2. Accounted(z, K, B)
    BY <2>1 DEF Accounted, Owed
  <2>3. q.op = "ask" /\ Open(K, B) /\ q.who \in Askers
    BY <1>3 DEF OnWay
  <2>4. /\ q.ev = "limited" => Holds(z, B, {"limited"})
        /\ q.ev = "requested" => Holds(z, B, {"requested"})
        /\ q.ev = "retrieved" => Holds(z, B, Asked)
    BY <1>1, <1>2, <2>1 DEF OnWay, Holds, Asked
  <2>5. OnWay(z, K, B)
    BY <1>2, <1>3, <2>1, <2>3, <2>4 DEF OnWay
  <2>6. CitesOK(z)
    BY <2>1 DEF CitesOK, Running
  <2> QED BY <2>1, <2>2, <2>5, <2>6 DEF AskOK
<1>4. CASE q.ev \in {"responded", "received"}
  <2>1. /\ z \in AskReq /\ z.pc = "done" /\ z.op = q.op /\ z.who = q.who /\ z.seen = q.seen
        /\ z.cited = q.cited /\ z.answer = "ok"
    BY <1>1, <1>4 DEF Proceeds, Replies, AskReq
  <2>2. Owed(z) \subseteq K
    BY <1>4, <2>1 DEF OnWay, Owed, Asked
  <2>3. Accounted(z, K, B)
    BY <2>2 DEF Accounted
  <2>4. OnWay(z, K, B)
    BY <2>1 DEF OnWay
  <2>5. CitesOK(z)
    BY <2>1 DEF CitesOK, Running
  <2> QED BY <2>1, <2>3, <2>4, <2>5 DEF AskOK
<1>5. CASE q.ev = "failed"
  <2>1. z = Replies(p, "500")
    BY <1>1, <1>5 DEF Proceeds
  <2>2. Accounted(p, K, B)
    BY <1>1 DEF Accounted, Owed
  <2>3. CitesOK(p)
    BY <1>1 DEF CitesOK, Running
  <2> QED BY <1>1, <1>2, <2>1, <2>2, <2>3, RepliesOK
<1> QED BY <1>2, <1>3, <1>4, <1>5 DEF AskReq

LEMMA PersistsStep ==
  ASSUME AskInv, NEW r \in AskReqs, Persists(r) \/ PersistFails(r)
  PROVE  AskInv'
<1> PICK q : q = asking[r]
  OBVIOUS
<1>1. q \in AskReq /\ Accounted(q, Kept(r), OnBus(r)) /\ OnWay(q, Kept(r), OnBus(r)) /\ CitesOK(q)
  BY AskAt
<1>2. CASE Persists(r)
  <2> PICK p : p = [q EXCEPT !.rows = IF q.dead THEN @ ELSE @ \cup {q.ev}]
    OBVIOUS
  <2>1. q.pc = "persist" /\ q.ev # "none"
    BY <1>1, <1>2 DEF Persists, OnWay
  <2>2. p \in AskReq
    BY <1>1, <2>1 DEF AskReq
  <2>3. Proceeds(p) \in AskReq /\ AskOK(Proceeds(p), Kept(r), OnBus(r))
    BY <1>1, <2>1, <2>2, ProceedsOK
  <2> QED BY <1>2, <2>1, <2>3, AskQuiet DEF Persists, Set
<1>3. CASE PersistFails(r)
  <2> PICK p : p = LosesSession(q)
    OBVIOUS
  <2>1. q.pc = "persist"
    BY <1>3 DEF PersistFails
  <2>2. p \in AskReq
    BY <1>1 DEF LosesSession, AskReq
  <2>3. Proceeds(p) \in AskReq /\ AskOK(Proceeds(p), Kept(r), OnBus(r))
    BY <1>1, <2>1, <2>2, ProceedsOK
  <2> QED BY <1>3, <2>1, <2>3, AskQuiet DEF PersistFails, Set
<1> QED BY <1>2, <1>3

\* An event on the bus costs nothing that was accounted for.
LEMMA MorePublished ==
  ASSUME NEW q \in AskReq, NEW K, NEW B, NEW bs \in SUBSET {q.ev}, q.pc = "publish",
         Accounted(q, K, B), OnWay(q, K, B)
  PROVE  Accounted(q, K, B \cup bs)
<1>1. q.ev \in Told => Owed(q) \subseteq K
  BY DEF OnWay, Owed, Told, Asked
<1>2. bs \cap Told # {} => q.ev \in Told
  OBVIOUS
<1> QED BY <1>1, <1>2 DEF Accounted

LEMMA PublishesStep ==
  ASSUME AskInv, NEW r \in AskReqs, Publishes(r) \/ PublishFails(r)
  PROVE  AskInv'
<1> PICK q : q = asking[r]
  OBVIOUS
<1>1. q \in AskReq /\ Accounted(q, Kept(r), OnBus(r)) /\ OnWay(q, Kept(r), OnBus(r)) /\ CitesOK(q)
  BY AskAt
<1>2. q.pc = "publish" /\ q.op # "none" /\ q.who \in Askers /\ q.answer = "none"
  BY <1>1 DEF Publishes, PublishFails, OnWay
<1>3. UNCHANGED <<indexed, kept, limit, through, stuck>>
  BY DEF Publishes, PublishFails
<1>4. kept' = kept \cup {<<r, x>> : x \in {}} /\ Kept(r) \cup {} = Kept(r)
  BY <1>3
<1>5. CASE Publishes(r)
  <2> PICK p : p = Goes(q, "persist")
    OBVIOUS
  <2> PICK B : B = OnBus(r) \cup {q.ev}
    OBVIOUS
  <2>1. /\ p \in AskReq /\ p.pc = "persist" /\ p.ev = q.ev /\ p.op = q.op /\ p.who = q.who /\ p.seen = q.seen
        /\ p.cited = q.cited /\ p.answer = q.answer /\ p.dead = q.dead /\ p.rows = q.rows
    BY <1>1 DEF Goes, AskReq
  <2>2. Accounted(q, Kept(r), B)
    BY <1>1, <1>2, MorePublished
  <2>3. Accounted(p, Kept(r), B)
    BY <2>1, <2>2 DEF Accounted, Owed
  <2>4. \A rows : Holds(q, OnBus(r), rows) => Holds(p, B, rows)
    BY <2>1 DEF Holds
  <2>5. q.ev \notin Told /\ Open(Kept(r), OnBus(r)) => Open(Kept(r), B)
    BY DEF Open
  <2>6. OnWay(p, Kept(r), B)
    BY <1>1, <1>2, <2>1, <2>4, <2>5 DEF OnWay, Told
  <2>7. CitesOK(p)
    BY <1>1, <1>2, <2>1 DEF CitesOK, Running
  <2>8. AskOK(p, Kept(r) \cup {}, OnBus(r) \cup {q.ev})
    BY <1>4, <2>3, <2>6, <2>7 DEF AskOK
  <2>9. asking' = [asking EXCEPT ![r] = p] /\ published' = published \cup {<<r, x>> : x \in {q.ev}}
    BY <1>5 DEF Publishes, Set
  <2> QED BY <1>2, <1>3, <1>4, <2>1, <2>8, <2>9, AskOnly
<1>6. CASE PublishFails(r)
  <2>1. PICK bs \in SUBSET {q.ev} : published' = published \cup {<<r, x>> : x \in bs}
    <3>1. CASE published' = published
      <4>1. published' = published \cup {<<r, x>> : x \in {}}
        BY <3>1
      <4> QED BY <4>1
    <3>2. CASE published' = published \cup {<<r, q.ev>>}
      <4>1. published' = published \cup {<<r, x>> : x \in {q.ev}}
        BY <3>2
      <4> QED BY <4>1
    <3> QED BY <1>6, <3>1, <3>2 DEF PublishFails
  <2>2. Accounted(q, Kept(r), OnBus(r) \cup bs)
    BY <1>1, <1>2, MorePublished
  <2>3. Raises(q) \in AskReq /\ AskOK(Raises(q), Kept(r), OnBus(r) \cup bs)
    BY <1>1, <1>2, <2>2, RaisesOK DEF Running
  <2>4. asking' = [asking EXCEPT ![r] = Raises(q)]
    BY <1>6 DEF PublishFails, Set
  <2>5. AskOK(Raises(q), Kept(r) \cup {}, OnBus(r) \cup bs)
    BY <1>4, <2>3
  <2> QED BY <1>2, <1>3, <1>4, <2>1, <2>3, <2>4, <2>5, AskOnly
<1> QED BY <1>5, <1>6

\* A request that has found what it will cite.
Cites(q, found) ==
    IF q.op = "ask" THEN Emits([q EXCEPT !.cited = found, !.rows = @ \cup {"access"}], "retrieved")
    ELSE Goes([q EXCEPT !.cited = found, !.rows = @ \cup {"access"}], "commit")

LEMMA CitedFields ==
  ASSUME NEW q \in AskReq, NEW found \in SUBSET Library, NEW p, p = Cites(q, found)
  PROVE  /\ p \in AskReq /\ p.op = q.op /\ p.who = q.who /\ p.seen = q.seen /\ p.cited = found
         /\ p.answer = q.answer /\ p.dead = q.dead /\ p.rows = q.rows \cup {"access"}
         /\ q.op = "ask" => p.pc = "publish" /\ p.ev = "retrieved"
         /\ q.op # "ask" => p.pc = "commit" /\ p.ev = q.ev
<1> PICK rows : rows = q.rows \cup {"access"}
  OBVIOUS
<1>1. rows \in SUBSET {"access", "feedback", "limited", "requested", "retrieved", "responded", "received", "failed"}
  BY DEF AskReq
<1>2. CASE q.op = "ask"
  <2>1. p = [q EXCEPT !.cited = found, !.rows = rows, !.pc = "publish", !.ev = "retrieved"]
    BY <1>2 DEF Cites, Emits, AskReq
  <2> QED BY <1>1, <1>2, <2>1 DEF AskReq
<1>3. CASE q.op # "ask"
  <2>1. p = [q EXCEPT !.cited = found, !.rows = rows, !.pc = "commit"]
    BY <1>3 DEF Cites, Goes, AskReq
  <2> QED BY <1>1, <1>3, <2>1 DEF AskReq
<1> QED BY <1>2, <1>3

LEMMA RetrievesStep ==
  ASSUME AskInv, NEW r \in AskReqs, Retrieves(r)
  PROVE  AskInv'
<1> PICK q : q = asking[r]
  OBVIOUS
<1> DEFINE near == {d \in indexed : NamespaceOf[d] \in enforce_rag_policy(q.who, q.ns)}
<1>1. q \in AskReq /\ Accounted(q, Kept(r), OnBus(r)) /\ OnWay(q, Kept(r), OnBus(r)) /\ CitesOK(q)
  BY AskAt
<1>2. PICK found \in SUBSET near :
         Set(r, Cites(q, found))
  BY DEF Retrieves, Cites
<1>3. q.pc = "retrieve" /\ ~q.dead /\ UNCHANGED <<indexed, limit, kept, published, through, stuck>>
  BY DEF Retrieves
<1>4. q.answer = "none" /\ q.who \in Askers /\ q.op # "none"
  BY <1>1, <1>3 DEF OnWay
<1> PICK p : p = Cites(q, found)
  OBVIOUS
<1>5. asking' = [asking EXCEPT ![r] = p]
  BY <1>2 DEF Set
<1>6. indexed \subseteq q.seen /\ found \subseteq indexed /\ found \subseteq Library
  BY <1>1, <1>3 DEF CitesOK, Running, AskInv, AskType
<1>7. /\ p \in AskReq /\ p.op = q.op /\ p.who = q.who /\ p.seen = q.seen /\ p.cited = found
      /\ p.answer = q.answer /\ p.dead = q.dead /\ p.rows = q.rows \cup {"access"}
      /\ q.op = "ask" => p.pc = "publish" /\ p.ev = "retrieved"
      /\ q.op # "ask" => p.pc = "commit" /\ p.ev = q.ev
  <2>1. found \in SUBSET Library
    BY <1>6
  <2> QED BY <1>1, <2>1, CitedFields
<1>8. Accounted(p, Kept(r), OnBus(r))
  BY <1>1, <1>7 DEF Accounted, Owed
<1>9. /\ Open(Kept(r), OnBus(r))
      /\ q.op = "search" => q.ev = "none" /\ Holds(p, OnBus(r), {"access"})
      /\ q.op = "ask" => Holds(p, OnBus(r), {"access", "requested"})
      /\ q.op \in {"search", "ask"}
  BY <1>1, <1>3, <1>7 DEF OnWay, Holds
<1>10. OnWay(p, Kept(r), OnBus(r))
  BY <1>4, <1>7, <1>9 DEF OnWay
<1>11. \A d \in found : RoleOf[q.who] # "operator" => NamespaceOf[d] = "global"
  BY DEF enforce_rag_policy
<1>12. CitesOK(p)
  BY <1>6, <1>7, <1>11 DEF CitesOK
<1> QED BY <1>3, <1>5, <1>7, <1>8, <1>10, <1>12, AskQuiet DEF AskOK

LEMMA SynthesizesStep ==
  ASSUME AskInv, NEW r \in AskReqs, Synthesizes(r)
  PROVE  AskInv'
<1> PICK q : q = asking[r]
  OBVIOUS
<1> PICK p : p = Goes(q, "commit")
  OBVIOUS
<1>1. q \in AskReq /\ Accounted(q, Kept(r), OnBus(r)) /\ OnWay(q, Kept(r), OnBus(r)) /\ CitesOK(q)
  BY AskAt
<1>2. /\ q.pc = "synthesize" /\ UNCHANGED <<indexed, limit, kept, published, through, stuck>>
      /\ asking' = [asking EXCEPT ![r] = p]
  BY DEF Synthesizes, Set
<1>3. /\ p \in AskReq /\ p.pc = "commit" /\ p.ev = q.ev /\ p.op = q.op /\ p.who = q.who /\ p.seen = q.seen
      /\ p.cited = q.cited /\ p.answer = q.answer /\ p.dead = q.dead /\ p.rows = q.rows
  BY <1>1 DEF Goes, AskReq
<1>4. Accounted(p, Kept(r), OnBus(r))
  BY <1>1, <1>3 DEF Accounted, Owed
<1>5. OnWay(p, Kept(r), OnBus(r))
  BY <1>1, <1>2, <1>3 DEF OnWay, Holds
<1>6. CitesOK(p)
  BY <1>1, <1>2, <1>3 DEF CitesOK, Running
<1> QED BY <1>2, <1>3, <1>4, <1>5, <1>6, AskQuiet DEF AskOK

\* What is committed is what the stage promises.
LEMMA RowsCommitted ==
  ASSUME NEW q \in AskReq, NEW K, NEW B, q.pc = "commit", ~q.dead,
         Accounted(q, K, B), OnWay(q, K, B)
  PROVE  /\ K = {} /\ B \cap Told = {} /\ q.rows \ {"access", "feedback"} \subseteq B
         /\ \/ q.op = "search" /\ q.rows = {"access"} /\ q.ev = "none"
            \/ q.op = "feedback" /\ q.rows = {"feedback"} /\ q.ev = "none"
            \/ q.op = "ask" /\ q.rows = {"limited"} /\ q.ev = "limited"
            \/ q.op = "ask" /\ q.rows = Asked /\ q.ev = "retrieved"
         /\ Accounted(q, K \cup q.rows, B)
<1>1. Open(K, B) /\ q.answer = "none"
  BY DEF OnWay
<1>2. /\ q.rows \ {"access", "feedback"} \subseteq B
      /\ \/ q.op = "search" /\ q.rows = {"access"} /\ q.ev = "none"
         \/ q.op = "feedback" /\ q.rows = {"feedback"} /\ q.ev = "none"
         \/ q.op = "ask" /\ q.rows = {"limited"} /\ q.ev = "limited"
         \/ q.op = "ask" /\ q.rows = Asked /\ q.ev = "retrieved"
  BY DEF OnWay, Holds
<1>3. K = {} /\ B \cap Told = {}
  BY <1>1 DEF Open
<1>4. q.rows \cap {"access", "feedback"} # {} => Owed(q) \subseteq q.rows
  BY <1>1, <1>2 DEF Owed, Asked
<1>5. Accounted(q, q.rows, B)
  BY <1>1, <1>2, <1>3, <1>4 DEF Accounted
<1>6. K \cup q.rows = q.rows
  BY <1>3
<1> QED BY <1>2, <1>3, <1>5, <1>6

LEMMA CommitsStep ==
  ASSUME AskInv, NEW r \in AskReqs, Commits(r)
  PROVE  AskInv'
<1> PICK q : q = asking[r]
  OBVIOUS
<1> PICK K : K = Kept(r) \cup q.rows
  OBVIOUS
<1> PICK p : p = CASE q.op = "search" -> Replies([q EXCEPT !.rows = {}], "ok")
                   [] q.op = "feedback" -> Emits([q EXCEPT !.rows = {}], "received")
                   [] q.ev = "limited" -> Replies([q EXCEPT !.rows = {}], "429")
                   [] OTHER -> Emits([q EXCEPT !.rows = {}], "responded")
  OBVIOUS
<1>1. q \in AskReq /\ Accounted(q, Kept(r), OnBus(r)) /\ OnWay(q, Kept(r), OnBus(r)) /\ CitesOK(q)
  BY AskAt
<1>2. /\ q.pc = "commit" /\ ~q.dead /\ UNCHANGED <<indexed, limit, published, through, stuck>>
      /\ kept' = kept \cup {<<r, x>> : x \in q.rows} /\ asking' = [asking EXCEPT ![r] = p]
  BY DEF Commits, Set
<1>3. /\ OnBus(r) \cap Told = {} /\ Accounted(q, K, OnBus(r)) /\ K = q.rows
      /\ \/ q.op = "search" /\ q.rows = {"access"} /\ q.ev = "none"
         \/ q.op = "feedback" /\ q.rows = {"feedback"} /\ q.ev = "none"
         \/ q.op = "ask" /\ q.rows = {"limited"} /\ q.ev = "limited"
         \/ q.op = "ask" /\ q.rows = Asked /\ q.ev = "retrieved"
  BY <1>1, <1>2, RowsCommitted
<1>4. q.answer = "none" /\ q.who \in Askers
  BY <1>1, <1>2 DEF OnWay
<1>5. /\ p \in AskReq /\ p.op = q.op /\ p.who = q.who /\ p.seen = q.seen /\ p.cited = q.cited
      /\ p.rows = {} /\ p.dead = q.dead
      /\ q.op = "search" => p.pc = "done" /\ p.answer = "ok"
      /\ q.op = "feedback" => p.pc = "publish" /\ p.ev = "received" /\ p.answer = q.answer
      /\ q.op = "ask" /\ q.ev = "limited" => p.pc = "done" /\ p.answer = "429"
      /\ q.op = "ask" /\ q.ev = "retrieved" => p.pc = "publish" /\ p.ev = "responded" /\ p.answer = q.answer
  BY <1>1, <1>3 DEF Replies, Emits, AskReq
<1>6. Owed(p) \subseteq K
  <2>1. CASE q.op = "search"
    BY <1>3, <1>5, <2>1 DEF Owed
  <2>2. CASE q.op = "feedback"
    BY <1>3, <1>4, <1>5, <2>2 DEF Owed
  <2>3. CASE q.op = "ask" /\ q.ev = "limited"
    <3>1. p.answer = "429" /\ K = {"limited"}
      BY <1>3, <1>5, <2>3
    <3> QED BY <3>1 DEF Owed
  <2>4. CASE q.op = "ask" /\ q.ev = "retrieved"
    BY <1>3, <1>4, <1>5, <2>4 DEF Owed, Asked
  <2> QED BY <1>3, <2>1, <2>2, <2>3, <2>4
<1>7. Accounted(p, K, OnBus(r))
  BY <1>3, <1>6 DEF Accounted
<1>8. OnWay(p, K, OnBus(r))
  BY <1>3, <1>4, <1>5 DEF OnWay
<1>9. CitesOK(p)
  BY <1>1, <1>2, <1>5 DEF CitesOK, Running
<1>10. published' = published \cup {<<r, x>> : x \in {}} /\ OnBus(r) \cup {} = OnBus(r)
  BY <1>2
<1>11. AskOK(p, Kept(r) \cup q.rows, OnBus(r) \cup {})
  BY <1>7, <1>8, <1>9, <1>10 DEF AskOK
<1> QED BY <1>2, <1>5, <1>10, <1>11, AskOnly

LEMMA AskFailsStep ==
  ASSUME AskInv, NEW r \in AskReqs, SessionRefuses(r) \/ AskFails(r)
  PROVE  AskInv'
<1> PICK q : q = asking[r]
  OBVIOUS
<1>1. q \in AskReq /\ Accounted(q, Kept(r), OnBus(r)) /\ OnWay(q, Kept(r), OnBus(r)) /\ CitesOK(q)
  BY AskAt
<1>2. /\ q.pc \in {"retrieve", "synthesize", "commit"}
      /\ UNCHANGED <<indexed, limit, published, through, stuck>>
  BY DEF SessionRefuses, AskFails
<1>3. q.answer = "none" /\ q.who \in Askers /\ q.op # "none"
  BY <1>1, <1>2 DEF OnWay
<1>4. CASE SessionRefuses(r)
  <2>1. Raises(q) \in AskReq /\ AskOK(Raises(q), Kept(r), OnBus(r))
    BY <1>1, <1>2, <1>3, RaisesOK DEF Running
  <2>2. asking' = [asking EXCEPT ![r] = Raises(q)] /\ UNCHANGED kept
    BY <1>4 DEF SessionRefuses, Set
  <2> QED BY <1>2, <2>1, <2>2, AskQuiet
<1>5. CASE AskFails(r)
  <2> PICK p : p = LosesSession(q)
    OBVIOUS
  <2>1. /\ p \in AskReq /\ p.pc = q.pc /\ p.ev = q.ev /\ p.op = q.op /\ p.who = q.who /\ p.seen = q.seen
        /\ p.cited = q.cited /\ p.answer = q.answer
    BY <1>1 DEF LosesSession, AskReq
  <2>2. PICK ks : kept' = kept \cup {<<r, x>> : x \in ks} /\ Accounted(q, Kept(r) \cup ks, OnBus(r))
    <3>1. CASE UNCHANGED kept
      <4>1. kept' = kept \cup {<<r, x>> : x \in {}} /\ Kept(r) \cup {} = Kept(r)
        BY <3>1
      <4> QED BY <1>1, <4>1
    <3>2. CASE q.pc = "commit" /\ kept' = kept \cup {<<r, x>> : x \in q.rows}
      <4>1. ~q.dead
        BY <1>5 DEF AskFails
      <4>2. Accounted(q, Kept(r) \cup q.rows, OnBus(r))
        BY <1>1, <3>2, <4>1, RowsCommitted
      <4> QED BY <3>2, <4>2
    <3> QED BY <1>5, <3>1, <3>2 DEF AskFails
  <2>3. Accounted(p, Kept(r) \cup ks, OnBus(r))
    BY <2>1, <2>2 DEF Accounted, Owed
  <2>4. CitesOK(p)
    BY <1>1, <2>1 DEF CitesOK, Running
  <2>5. Raises(p) \in AskReq /\ AskOK(Raises(p), Kept(r) \cup ks, OnBus(r))
    BY <1>2, <1>3, <2>1, <2>3, <2>4, RaisesOK DEF Running
  <2>6. published' = published \cup {<<r, x>> : x \in {}} /\ OnBus(r) \cup {} = OnBus(r)
    BY <1>2
  <2>7. AskOK(Raises(p), Kept(r) \cup ks, OnBus(r) \cup {})
    BY <2>5, <2>6
  <2>8. asking' = [asking EXCEPT ![r] = Raises(p)]
    BY <1>5 DEF AskFails, Set
  <2> QED BY <1>2, <2>2, <2>5, <2>6, <2>7, <2>8, AskOnly
<1> QED BY <1>4, <1>5

LEMMA LibraryStep ==
  ASSUME AskInv, NEW d \in Library, LibraryChanges(d)
  PROVE  AskInv'
<1>1. /\ indexed' \subseteq Library
      /\ asking' = [r \in AskReqs |-> [asking[r] EXCEPT !.seen = IF Running(asking[r]) THEN @ \cup indexed' ELSE @]]
      /\ UNCHANGED <<limit, kept, published, through, stuck>>
  BY DEF LibraryChanges, AskInv, AskType
<1>2. ASSUME NEW r \in AskReqs
      PROVE  /\ asking'[r] \in AskReq /\ AskOK(asking[r], Kept(r), OnBus(r))'
             /\ asking'[r].pc = asking[r].pc /\ asking'[r].who = asking[r].who
  <2> PICK q : q = asking[r]
    OBVIOUS
  <2> PICK p : p = asking'[r]
    OBVIOUS
  <2>1. q \in AskReq /\ Accounted(q, Kept(r), OnBus(r)) /\ OnWay(q, Kept(r), OnBus(r)) /\ CitesOK(q)
    BY AskAt
  <2>2. p = [q EXCEPT !.seen = IF Running(q) THEN q.seen \cup indexed' ELSE q.seen]
    BY <1>1
  <2>3. /\ p \in AskReq /\ p.pc = q.pc /\ p.ev = q.ev /\ p.op = q.op /\ p.who = q.who
        /\ p.cited = q.cited /\ p.answer = q.answer /\ p.dead = q.dead /\ p.rows = q.rows
        /\ q.seen \subseteq p.seen /\ (Running(q) => indexed' \subseteq p.seen)
        /\ (~Running(q) => p = q)
    <3>1. CASE Running(q)
      BY <1>1, <2>1, <2>2, <3>1 DEF AskReq
    <3>2. CASE ~Running(q)
      BY <2>1, <2>2, <3>2 DEF AskReq
    <3> QED BY <3>1, <3>2
  <2>4. Accounted(p, Kept(r), OnBus(r))
    BY <2>1, <2>3 DEF Accounted, Owed
  <2>5. OnWay(p, Kept(r), OnBus(r))
    <3>1. CASE q.pc = "idle"
      BY <2>1, <2>3, <3>1 DEF OnWay, Running
    <3>2. CASE q.pc # "idle"
      BY <2>1, <2>3, <3>2 DEF OnWay, Holds
    <3> QED BY <3>1, <3>2
  <2>6. CitesOK(asking[r])'
    BY <2>1, <2>3 DEF CitesOK, Running
  <2>7. Kept(r)' = Kept(r) /\ OnBus(r)' = OnBus(r)
    BY <1>1 DEF Kept, OnBus
  <2> QED BY <2>3, <2>4, <2>5, <2>6, <2>7 DEF AskOK
<1>3. AsksInv'
  BY <1>2 DEF AsksInv
<1>4. AskType'
  BY <1>1, <1>2 DEF AskInv, AskType
<1>5. LimitInv'
  <2>1. ASSUME NEW u \in Askers, limit[u].count > 0, ~limit[u].ttl
        PROVE  u \in stuck' \/ \E r \in AskReqs : asking'[r].who = u /\ asking'[r].pc = "expire"
    <3>1. u \in stuck \/ \E r \in AskReqs : asking[r].who = u /\ asking[r].pc = "expire"
      BY <2>1 DEF AskInv, LimitInv, LimitHolds
    <3> QED BY <1>1, <1>2, <3>1
  <2> QED BY <1>1, <2>1 DEF AskInv, LimitInv, LimitHolds
<1> QED BY <1>3, <1>4, <1>5 DEF AskInv

LEMMA WindowStep ==
  ASSUME AskInv, NEW u \in Askers, WindowEnds(u)
  PROVE  AskInv'
<1>1. /\ limit' = [limit EXCEPT ![u] = NoLimit] /\ through' = [through EXCEPT ![u] = 0]
      /\ UNCHANGED <<indexed, asking, kept, published, stuck>>
  BY DEF WindowEnds
<1>2. /\ limit' \in [Askers -> [count : Nat, ttl : BOOLEAN]] /\ through' \in [Askers -> Nat]
      /\ limit'[u].count = 0 /\ through'[u] = 0
      /\ \A v \in Askers : v # u => limit'[v] = limit[v] /\ through'[v] = through[v]
  BY <1>1 DEF AskInv, AskType, NoLimit
<1>3. LimitInv'
  BY <1>1, <1>2, AskAssumption DEF AskInv, LimitInv, LimitHolds
<1>4. AsksInv'
  BY <1>1 DEF AskInv, AsksInv, AskOK, CitesOK, Kept, OnBus
<1>5. AskType'
  BY <1>1, <1>2 DEF AskInv, AskType
<1> QED BY <1>3, <1>4, <1>5 DEF AskInv

LEMMA StopStep ==
  ASSUME AskInv, AskApiStops
  PROVE  AskInv'
<1>1. /\ stuck' = stuck \cup {asking[r].who : r \in {x \in AskReqs : asking[x].pc = "expire"}}
      /\ asking' = [r \in AskReqs |-> IF Running(asking[r]) THEN Replies(asking[r], "lost") ELSE asking[r]]
      /\ UNCHANGED <<indexed, limit, kept, published, through>>
  BY DEF AskApiStops
<1>2. ASSUME NEW r \in AskReqs
      PROVE  asking'[r] \in AskReq /\ AskOK(asking[r], Kept(r), OnBus(r))'
  <2>1. /\ asking[r] \in AskReq /\ Accounted(asking[r], Kept(r), OnBus(r))
        /\ OnWay(asking[r], Kept(r), OnBus(r)) /\ CitesOK(asking[r])
    BY AskAt
  <2>2. asking'[r] \in AskReq /\ AskOK(asking'[r], Kept(r), OnBus(r))
    <3>1. CASE Running(asking[r])
      <4>1. asking[r].answer = "none"
        BY <2>1, <3>1 DEF OnWay, Running
      <4>2. asking'[r] = Replies(asking[r], "lost")
        BY <1>1, <3>1
      <4> QED BY <2>1, <4>1, <4>2, RepliesOK
    <3>2. CASE ~Running(asking[r])
      BY <1>1, <2>1, <3>2 DEF AskOK
    <3> QED BY <3>1, <3>2
  <2>3. Kept(r)' = Kept(r) /\ OnBus(r)' = OnBus(r)
    BY <1>1 DEF Kept, OnBus
  <2>4. CitesOK(asking[r])'
    BY <1>1, <2>2 DEF AskOK, CitesOK
  <2> QED BY <2>2, <2>3, <2>4 DEF AskOK
<1>3. AsksInv'
  BY <1>2 DEF AsksInv
<1>4. AskType'
  BY <1>1, <1>2 DEF AskInv, AskType
<1>5. LimitInv'
  <2>1. ASSUME NEW u \in Askers, limit[u].count > 0, ~limit[u].ttl
        PROVE  u \in stuck'
    BY <1>1, <2>1 DEF AskInv, LimitInv, LimitHolds
  <2> QED BY <1>1, <2>1 DEF AskInv, LimitInv, LimitHolds
<1> QED BY <1>3, <1>4, <1>5 DEF AskInv

LEMMA AskStarts == AskInit => AskInv
<1> SUFFICES ASSUME AskInit PROVE AskInv
  OBVIOUS
<1>1. NoAsk \in AskReq
  BY DEF NoAsk, AskReq
<1>2. AskType
  BY <1>1 DEF AskInit, AskType, NoLimit
<1>3. ASSUME NEW r \in AskReqs
      PROVE  AskOK(asking[r], Kept(r), OnBus(r))
  <2>1. asking[r] = NoAsk /\ Kept(r) = {} /\ OnBus(r) = {}
    BY DEF AskInit, Kept, OnBus
  <2>2. Accounted(NoAsk, {}, {})
    BY DEF Accounted, NoAsk
  <2>3. OnWay(NoAsk, {}, {}) /\ CitesOK(NoAsk)
    BY DEF OnWay, NoAsk, CitesOK, Running
  <2> QED BY <2>1, <2>2, <2>3 DEF AskOK
<1>4. LimitInv
  BY AskAssumption DEF AskInit, LimitInv, LimitHolds, NoLimit
<1> QED BY <1>2, <1>3, <1>4 DEF AskInv, AsksInv

LEMMA AskStep == AskInv /\ [AskNext]_askVars => AskInv'
<1> SUFFICES ASSUME AskInv, [AskNext]_askVars PROVE AskInv'
  OBVIOUS
<1>1. CASE UNCHANGED askVars
  BY <1>1 DEF askVars, AskInv, AskType, AsksInv, AskOK, CitesOK, Kept, OnBus, LimitInv, LimitHolds
<1>2. ASSUME NEW d \in Library, LibraryChanges(d)
      PROVE  AskInv'
  BY <1>2, LibraryStep
<1>3. ASSUME NEW u \in Askers, WindowEnds(u)
      PROVE  AskInv'
  BY <1>3, WindowStep
<1>4. CASE AskApiStops
  BY <1>4, StopStep
<1>5. ASSUME NEW r \in AskReqs, NEW op \in {"ask", "search", "feedback"}, NEW u \in Askers,
             NEW ns \in SUBSET Namespaces, Asks(r, op, u, ns)
      PROVE  AskInv'
  BY <1>5, AsksStep
<1>6. ASSUME NEW r \in AskReqs,
             \/ Increments(r) \/ Expires(r) \/ LimiterFails(r)
             \/ Publishes(r) \/ PublishFails(r) \/ Persists(r) \/ PersistFails(r)
             \/ Retrieves(r) \/ Synthesizes(r) \/ Commits(r) \/ SessionRefuses(r) \/ AskFails(r)
      PROVE  AskInv'
  BY <1>6, IncrementsStep, ExpiresStep, PublishesStep, PersistsStep, RetrievesStep, SynthesizesStep,
     CommitsStep, AskFailsStep
<1> QED BY <1>1, <1>2, <1>3, <1>4, <1>5, <1>6 DEF AskNext

\* Whoever asks the knowledge base, however requests, documents, windows, failures and
\* restarts interleave (kb.py, shared/events): no more pass than the limit, and a counter
\* without end is one whose EXPIRE was lost; who is answered is in the tables; what is
\* told as an event is committed; citations were ready and may be read.
THEOREM BaseAsksAreAccounted == BaseSpec => []AsksAreAccounted
<1>1. BaseInit => AskInv
  BY AskStarts DEF BaseInit
<1>2. AskInv /\ [BaseNext]_baseVars => AskInv'
  <2>1. [BaseNext]_baseVars => [AskNext]_askVars
    BY DEF BaseNext, Ingesting, Inquiring, baseVars
  <2> QED BY <2>1, AskStep
<1>3. AskInv => AsksAreAccounted
  <2> SUFFICES ASSUME AskInv PROVE AsksAreAccounted
    OBVIOUS
  <2>1. \A r \in AskReqs : Accounted(asking[r], Kept(r), OnBus(r)) /\ CitesOK(asking[r])
    BY AskAt
  <2>2. AnswersAreKept
    BY <2>1 DEF AnswersAreKept, Accounted
  <2>3. EventsFollowCommit
    BY <2>1 DEF EventsFollowCommit, Accounted, Told
  <2>4. LimitHolds
    BY DEF AskInv, LimitInv
  <2>5. CitesAreAllowed
    BY <2>1 DEF CitesAreAllowed, CitesOK
  <2> QED BY <2>2, <2>3, <2>4, <2>5 DEF AsksAreAccounted
<1> QED BY <1>1, <1>2, <1>3, PTL DEF BaseSpec
=============================================================================
