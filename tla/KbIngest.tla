------------------------------ MODULE KbIngest ------------------------------
(* The knowledge base: nexus_api/routers/kb.py puts documents in and enqueues *)
(* jobs; one RQ worker (nexus_worker/jobs.py) embeds them; the worker's       *)
(* container runs startup.py before it serves the queue, also after a crash.  *)
(*                                                                            *)
(* The worker keeps the document it loaded as an ORM object while the API     *)
(* goes on changing the row; a commit writes the columns the worker changed.  *)
(* A generation of chunks, with their embeddings, is named by the version     *)
(* that the ingest commits.  Column checksum is reduced to whether it is the  *)
(* hash of the document's extracted text; the API stores the hash of the raw  *)
(* bytes, which is the same for plain text and another one for a PDF.         *)
(* Events, which never block the pipeline, are left out.                      *)
EXTENDS Integers, Sequences, FiniteSets

CONSTANTS
    Docs,         \* ids of kb_documents
    NoDoc,
    MaxReingests, \* bound: calls of the reingest endpoint
    MaxCrashes,   \* bound: deaths of the worker's container
    MaxLosses     \* bound: lost enqueues, lost jobs and index errors

ASSUME KbAssumption ==
    /\ NoDoc \notin Docs
    /\ MaxReingests \in Nat /\ MaxCrashes \in Nat /\ MaxLosses \in Nat

VARIABLES
    doc,       \* id -> committed kb_documents row
    chunks,    \* id -> generations of committed chunks and embeddings
    queue,     \* the RQ queue nexus_tasks
    unsent,    \* jobs the API's handlers have still to enqueue
    deleting,  \* id -> the chunks each delete in progress has seen
    worker,    \* the worker: its step, its job's document, what it loaded
    reingests, crashes, losses

vars == <<doc, chunks, queue, unsent, deleting, worker, reingests, crashes, losses>>

Live == {"uploaded", "processing", "ready", "failed"}

Statuses == Live \cup {"absent", "deleted"}

\* meta_data: what the caller put in, and what the pipeline records.
Rows == [ingest_status : Statuses, checksum : BOOLEAN, version : Nat,
         given : BOOLEAN, embedding : BOOLEAN]

NoRow == [ingest_status |-> "absent", checksum |-> FALSE, version |-> 1,
          given |-> FALSE, embedding |-> FALSE]

Jobs == [kind : {"embed", "url"}, doc : Docs]

\* A handler's job; call tells the reingest calls apart.
Sends == [job : Jobs, call : 0..MaxReingests]

Send(kind, d, call) == [job |-> [kind |-> kind, doc |-> d], call |-> call]

Steps == {"down", "startup", "recover", "idle", "fetch", "load", "loaded", "extract", "index"}

Off(step) == [pc |-> step, doc |-> NoDoc, loaded |-> NoRow, stuck |-> {}, flushed |-> {}]

TypeOK ==
    /\ doc \in [Docs -> Rows]
    /\ chunks \in [Docs -> SUBSET Nat]
    /\ queue \in Seq(Jobs)
    /\ unsent \subseteq Sends
    /\ deleting \in [Docs -> SUBSET (SUBSET Nat)]
    /\ worker \in [pc : Steps, doc : Docs \cup {NoDoc}, loaded : Rows,
                   stuck : SUBSET Docs, flushed : SUBSET Docs]
    /\ reingests \in 0..MaxReingests
    /\ crashes \in 0..MaxCrashes
    /\ losses \in 0..MaxLosses

Init ==
    /\ doc = [d \in Docs |-> NoRow]
    /\ chunks = [d \in Docs |-> {}]
    /\ queue = <<>>
    /\ unsent = {}
    /\ deleting = [d \in Docs |-> {}]
    /\ worker = Off("startup")
    /\ reingests = 0
    /\ crashes = 0
    /\ losses = 0

exists(d) == doc[d].ingest_status \in Live

\* Row d is locked by an UPDATE that startup.py has flushed and not committed.
locked(d) == d \in worker.flushed

-----------------------------------------------------------------------------
(* routers/kb.py                                                              *)

\* A new row; the bytes are stored first, the job is enqueued after the commit.
insert_document(d, checksum, given) ==
    doc' = [doc EXCEPT ![d] = [ingest_status |-> "uploaded", checksum |-> checksum,
                               version |-> 1, given |-> given, embedding |-> FALSE]]

\* A new id, which no URL ingest on its way has been given either.
fresh(d) ==
    /\ doc[d].ingest_status = "absent"
    /\ \A n \in DOMAIN queue : queue[n].doc # d
    /\ Send("url", d, 0) \notin unsent
    /\ worker.doc # d

create_document(d, checksum, given) ==
    /\ fresh(d)
    /\ insert_document(d, checksum, given)
    /\ unsent' = unsent \cup {Send("embed", d, 0)}
    /\ UNCHANGED <<chunks, queue, deleting, worker, reingests, crashes, losses>>

create_document_text(d) == \E given \in BOOLEAN : create_document(d, TRUE, given)

upload_document(d) == \E checksum \in BOOLEAN : create_document(d, checksum, FALSE)

ingest_from_email(d) == create_document(d, TRUE, TRUE)

\* The worker will create the row; d is the id it will get.
ingest_from_url(d) ==
    /\ fresh(d)
    /\ unsent' = unsent \cup {Send("url", d, 0)}
    /\ UNCHANGED <<doc, chunks, queue, deleting, worker, reingests, crashes, losses>>

reingest_document(d) ==
    /\ exists(d)
    /\ ~locked(d)
    /\ reingests < MaxReingests
    /\ reingests' = reingests + 1
    /\ doc' = [doc EXCEPT ![d] = [@ EXCEPT !.ingest_status = "uploaded", !.checksum = FALSE]]
    /\ unsent' = unsent \cup {Send("embed", d, reingests')}
    /\ UNCHANGED <<chunks, queue, deleting, worker, crashes, losses>>

\* task_queue.enqueue at the end of the handler.
enqueue(send) ==
    /\ send \in unsent
    /\ unsent' = unsent \ {send}
    /\ queue' = Append(queue, send.job)
    /\ UNCHANGED <<doc, chunks, deleting, worker, reingests, crashes, losses>>

\* Redis is unreachable, or the API dies, after the row is committed.
enqueue_fails(send) ==
    /\ send \in unsent
    /\ losses < MaxLosses
    /\ losses' = losses + 1
    /\ unsent' = unsent \ {send}
    /\ UNCHANGED <<doc, chunks, queue, deleting, worker, reingests, crashes>>

\* delete_document reads the chunk ids first ...
delete_begin(d) ==
    /\ exists(d)
    /\ deleting' = [deleting EXCEPT ![d] = @ \cup {chunks[d]}]
    /\ UNCHANGED <<doc, chunks, queue, unsent, worker, reingests, crashes, losses>>

\* ... and then deletes their embeddings, the chunks and the row.  A foreign key
\* refuses it (500, rolled back) when an ingest has put in other chunks since, and
\* a row that is gone already makes the flush raise.
delete_document(d, seen) ==
    /\ seen \in deleting[d]
    /\ ~locked(d)
    /\ deleting' = [deleting EXCEPT ![d] = @ \ {seen}]
    /\ IF exists(d) /\ chunks[d] \subseteq seen
       THEN /\ doc' = [doc EXCEPT ![d] = [NoRow EXCEPT !.ingest_status = "deleted"]]
            /\ chunks' = [chunks EXCEPT ![d] = {}]
       ELSE UNCHANGED <<doc, chunks>>
    /\ UNCHANGED <<queue, unsent, worker, reingests, crashes, losses>>

-----------------------------------------------------------------------------
(* nexus_worker/startup.py                                                    *)

\* Variant: the query finds nothing.
startup_selects_none ==
    /\ worker.pc = "startup"
    /\ worker' = Off("recover")
    /\ UNCHANGED <<doc, chunks, queue, unsent, deleting, reingests, crashes, losses>>

startup_select ==
    /\ worker.pc = "startup"
    /\ worker' = [Off("recover") EXCEPT
                    !.stuck = {d \in Docs : doc[d].ingest_status = "processing"}]
    /\ UNCHANGED <<doc, chunks, queue, unsent, deleting, reingests, crashes, losses>>

\* Variant: the status is reset and no job enqueued.
startup_resets(d) ==
    /\ worker.pc = "recover"
    /\ d \in worker.stuck \ worker.flushed
    /\ worker' = IF exists(d) THEN [worker EXCEPT !.flushed = @ \cup {d}] ELSE Off("down")
    /\ UNCHANGED <<doc, chunks, queue, unsent, deleting, reingests, crashes, losses>>

\* One stuck document: its UPDATE is flushed, then its job is enqueued.  If the
\* row is gone the flush raises, the script fails and the container restarts.
startup_recover(d) ==
    /\ worker.pc = "recover"
    /\ d \in worker.stuck \ worker.flushed
    /\ IF exists(d)
       THEN /\ worker' = [worker EXCEPT !.flushed = @ \cup {d}]
            /\ queue' = Append(queue, [kind |-> "embed", doc |-> d])
       ELSE /\ worker' = Off("down")
            /\ UNCHANGED queue
    /\ UNCHANGED <<doc, chunks, unsent, deleting, reingests, crashes, losses>>

startup_commit ==
    /\ worker.pc = "recover"
    /\ worker.flushed = worker.stuck
    /\ doc' = [d \in Docs |-> IF d \in worker.stuck
                              THEN [doc[d] EXCEPT !.ingest_status = "uploaded"] ELSE doc[d]]
    /\ worker' = Off("idle")
    /\ UNCHANGED <<chunks, queue, unsent, deleting, reingests, crashes, losses>>

\* restart: unless-stopped
restart ==
    /\ worker.pc = "down"
    /\ worker' = Off("startup")
    /\ UNCHANGED <<doc, chunks, queue, unsent, deleting, reingests, crashes, losses>>

\* The container dies; a job in progress is not put back on the queue.
worker_dies ==
    /\ worker.pc \in {"startup", "recover", "idle", "extract", "index"}
    /\ crashes < MaxCrashes
    /\ crashes' = crashes + 1
    /\ worker' = Off("down")
    /\ UNCHANGED <<doc, chunks, queue, unsent, deleting, reingests, losses>>

\* It dies with a job taken off the queue and no trace of it in the row yet: for
\* recover_stuck_documents there is nothing to find.
worker_dies_early ==
    /\ worker.pc \in {"fetch", "load", "loaded"}
    /\ losses < MaxLosses
    /\ losses' = losses + 1
    /\ worker' = Off("down")
    /\ UNCHANGED <<doc, chunks, queue, unsent, deleting, reingests, crashes>>

-----------------------------------------------------------------------------
(* nexus_worker/jobs.py                                                       *)

InJob == worker.pc \in {"fetch", "load", "loaded", "extract", "index"}

dequeue ==
    /\ worker.pc = "idle"
    /\ queue # <<>>
    /\ queue' = Tail(queue)
    /\ worker' = [Off(IF Head(queue).kind = "url" THEN "fetch" ELSE "load")
                    EXCEPT !.doc = Head(queue).doc]
    /\ UNCHANGED <<doc, chunks, unsent, deleting, reingests, crashes, losses>>

\* _ingest_url: fetch, store, insert, and go on to embed without the queue.
ingest_url ==
    /\ worker.pc = "fetch"
    /\ \/ /\ insert_document(worker.doc, FALSE, TRUE)
          /\ worker' = [worker EXCEPT !.pc = "load"]
       \/ /\ worker' = Off("idle")         \* the fetch or the store failed
          /\ UNCHANGED doc
    /\ UNCHANGED <<chunks, queue, unsent, deleting, reingests, crashes, losses>>

embed_load ==
    /\ worker.pc = "load"
    /\ worker' = IF exists(worker.doc)
                 THEN [worker EXCEPT !.pc = "loaded", !.loaded = doc[worker.doc]]
                 ELSE Off("idle")
    /\ UNCHANGED <<doc, chunks, queue, unsent, deleting, reingests, crashes, losses>>

\* The session's UPDATE of the document: the columns that differ from the loaded
\* ones; a row that is gone makes it raise, and the job ends there.
write(loaded, dirty, next) ==
    LET d == worker.doc
        column(new, old, now) == IF new # old THEN new ELSE now
    IN  IF exists(d)
        THEN /\ doc' = [doc EXCEPT ![d] =
                   [ingest_status |-> column(dirty.ingest_status, loaded.ingest_status, doc[d].ingest_status),
                    checksum |-> column(dirty.checksum, loaded.checksum, doc[d].checksum),
                    version |-> column(dirty.version, loaded.version, doc[d].version),
                    given |-> column(dirty.given, loaded.given, doc[d].given),
                    embedding |-> column(dirty.embedding, loaded.embedding, doc[d].embedding)]]
             /\ worker' = next
        ELSE /\ worker' = Off("idle")
             /\ UNCHANGED doc

mark_processing ==
    /\ worker.pc = "loaded"
    /\ LET dirty == [worker.loaded EXCEPT !.ingest_status = "processing"]
       IN  write(worker.loaded, dirty, [worker EXCEPT !.pc = "extract", !.loaded = dirty])
    /\ UNCHANGED <<chunks, queue, unsent, deleting, reingests, crashes, losses>>

\* The dedup test, on the loaded object.
unchanged(loaded) == loaded.checksum /\ loaded.ingest_status = "ready"

\* Extraction, chunking and embedding touch no table.
extract_and_embed ==
    /\ worker.pc = "extract"
    /\ worker' = IF unchanged(worker.loaded) THEN Off("idle") ELSE [worker EXCEPT !.pc = "index"]
    /\ UNCHANGED <<doc, chunks, queue, unsent, deleting, reingests, crashes, losses>>

\* An exception before any statement of the index stage; the handler commits
\* "failed", and the new checksum if it was computed.
ingest_failed ==
    /\ worker.pc \in {"extract", "index"}
    /\ LET dirty == [worker.loaded EXCEPT !.ingest_status = "failed",
                       !.checksum = @ \/ worker.pc = "index"]
       IN  write(worker.loaded, dirty, Off("idle"))
    /\ UNCHANGED <<chunks, queue, unsent, deleting, reingests, crashes, losses>>

\* Delete the document's chunks and embeddings, insert the new ones.
replace_chunks(d, version) == [chunks EXCEPT ![d] = {version}]

\* doc.meta_data is a plain JSON column: assigning {} to an empty one is seen by
\* the session, a change inside the existing dictionary is not.
record_meta(loaded) ==
    IF loaded.given \/ loaded.embedding THEN loaded ELSE [loaded EXCEPT !.embedding = TRUE]

\* Index and commit, in one transaction.  A row deleted by now breaks the foreign
\* key; the handler's own commit then fails too, and nothing is written.
index_document ==
    /\ worker.pc = "index"
    /\ LET version == worker.loaded.version + 1
           dirty == [record_meta(worker.loaded) EXCEPT
                       !.ingest_status = "ready", !.checksum = TRUE, !.version = version]
       IN  /\ write(worker.loaded, dirty, Off("idle"))
           /\ chunks' = IF exists(worker.doc) THEN replace_chunks(worker.doc, version) ELSE chunks
    /\ UNCHANGED <<queue, unsent, deleting, reingests, crashes, losses>>

\* A statement of the index stage fails: the session refuses the handler's commit
\* as well.  Or the process that runs the job is killed.  The worker lives on.
job_lost ==
    /\ InJob
    /\ losses < MaxLosses
    /\ losses' = losses + 1
    /\ worker' = Off("idle")
    /\ UNCHANGED <<doc, chunks, queue, unsent, deleting, reingests, crashes>>

Work == \/ dequeue \/ ingest_url \/ embed_load \/ mark_processing
        \/ extract_and_embed \/ index_document

Startup == startup_select \/ (\E d \in Docs : startup_recover(d)) \/ startup_commit \/ restart

Next ==
    \/ \E d \in Docs : create_document_text(d)
    \/ \E d \in Docs : upload_document(d)
    \/ \E d \in Docs : ingest_from_email(d)
    \/ \E d \in Docs : ingest_from_url(d)
    \/ \E d \in Docs : reingest_document(d)
    \/ \E send \in Sends : enqueue(send)
    \/ \E send \in Sends : enqueue_fails(send)
    \/ \E d \in Docs : delete_begin(d)
    \/ \E d \in Docs : \E seen \in deleting[d] : delete_document(d, seen)
    \/ Startup
    \/ worker_dies
    \/ worker_dies_early
    \/ Work
    \/ ingest_failed
    \/ job_lost

Spec == Init /\ [][Next]_vars

\* The worker and its supervisor keep going, and a handler that has committed
\* goes on to its enqueue.
FairSpec == Spec /\ WF_vars(Work) /\ WF_vars(Startup) /\ \A send \in Sends : WF_vars(enqueue(send))

-----------------------------------------------------------------------------
(* Properties                                                                 *)

\* What search_kb, internal_kb_search and ask_nexus read: chunks of the documents
\* that are ready.
search == UNION {{<<d, g>> : g \in chunks[d]} : d \in {e \in Docs : doc[e].ingest_status = "ready"}}

\* Search never mixes two ingests of a document, never misses one that is ready,
\* and never returns a chunk of an older version or of a deleted document.
SearchIsWhole ==
    /\ \A d \in Docs : doc[d].ingest_status = "ready" => <<d, doc[d].version>> \in search
    /\ \A hit \in search : hit[2] = doc[hit[1]].version
    /\ \A d \in Docs : ~exists(d) => chunks[d] = {}

Waiting(d) ==
    \/ \E n \in DOMAIN queue : queue[n].doc = d
    \/ \E send \in unsent : send.job.doc = d
    \/ worker.doc = d

\* No document is forgotten: one that is not yet ready or failed has a job, or its
\* job was lost on the way; and after any number of crashes of the worker a
\* document left in "processing" is still found by recover_stuck_documents.
NoDocumentForgotten ==
    \A d \in Docs :
        /\ doc[d].ingest_status = "processing" /\ losses = 0
             => Waiting(d) \/ worker.pc \in {"down", "startup"} \/ d \in worker.stuck
        /\ doc[d].ingest_status = "uploaded" /\ losses = 0 => Waiting(d)

Settled(d) == doc[d].ingest_status \in {"ready", "failed", "deleted"}

\* Every ingest that was asked for ends, whatever crashes of the worker interrupt
\* it, unless the job was lost outside the recoverable window.
IngestEnds ==
    \A d \in Docs : doc[d].ingest_status \in {"uploaded", "processing"} ~> Settled(d) \/ losses > 0

\* The document table, the index and the queue agree: searches see whole documents,
\* nothing waits for a job that does not exist, and a document that is ready names
\* the model its embeddings come from unless it was uploaded with metadata of its own,
\* which the assignment into the loaded dictionary leaves as they are.
IndexIsWhole ==
    /\ TypeOK /\ SearchIsWhole /\ NoDocumentForgotten
    /\ \A d \in Docs : doc[d].ingest_status = "ready" => doc[d].embedding \/ doc[d].given
=============================================================================
