----------------------------- MODULE MailReading -----------------------------
(* Reading mail with the e-mail agent: the ingest mailbox over IMAP            *)
(* (services/imap.py, api/inbox.py), any mailbox with doveadm over SSH         *)
(* (services/admin_imap.py, api/mailbox.py), the queue of the mail server      *)
(* (services/server_stats.py) and the statistics of sent mail                  *)
(* (services/sent_stats.py).                                                   *)
(*                                                                             *)
(* One folder, whose messages are numbers in the order of their arrival; a     *)
(* user lists it and opens what the list shows.  Before it can connect, a      *)
(* request reads secrets from the vault one after the other; those for SSH go  *)
(* into a global of the module, which a thread then reads field by field.  Of  *)
(* the four secrets two are kept, host and pem, each as the number of times it *)
(* has been changed.  Left out: the text of messages, flags (the answer of     *)
(* mark_read does not depend on what doveadm did), the numbers of a statistic. *)
EXTENDS Integers, Sequences, FiniteSets

CONSTANTS
    Readers,          \* requests under way at the same time, at most
    PageLength,       \* the limit of a list
    Senders,          \* senders of mail
    MaxMessages,      \* bound: messages that arrive
    MaxReads,         \* bound: requests
    MaxReadFaults,    \* bound: failed calls, changes of secrets, expunged messages, restarts
    MaxSentWaits      \* bound: refreshes waiting for the lock

ASSUME ReadingAssumption ==
    /\ IsFiniteSet(Readers) /\ IsFiniteSet(Senders) /\ PageLength \in Nat \ {0}
    /\ MaxMessages \in Nat /\ MaxReads \in Nat /\ MaxReadFaults \in Nat /\ MaxSentWaits \in Nat

VARIABLES
    folder,      \* the messages of the folder, in order
    received,     \* messages that arrived so far
    page,        \* what the user's list shows
    secret,      \* the vault: host and pem
    creds,       \* _ssh_creds of admin_imap and of server_stats
    reader,      \* the requests
    queued,      \* _server_cache: is there a value not older than its TTL
    reads, readFaults

readingVars == <<folder, received, page, secret, creds, reader, queued, reads, readFaults>>

Fields == {"host", "pem"}
Version0 == [f \in Fields |-> 0]

\* low: history, the lowest place a message was expunged from since the list was made
NoPlace == MaxMessages + 1
NoPage == [by |-> "none", entries |-> {}, low |-> NoPlace]

\* api: "imap", "doveadm" or "queue"; ref: what the message is asked for by; of: the
\* message the list showed there; used: the credentials of the connection; since, floor:
\* history, the vault's versions when it started and the oldest of a request it met
IdleReader == [api |-> "none", op |-> "none", pc |-> "idle", ref |-> 0, of |-> 0, low |-> NoPlace, again |-> FALSE,
               got |-> Version0, used |-> Version0, since |-> Version0, floor |-> Version0,
               answer |-> 0]

ReadingInit ==
    /\ folder = <<>> /\ received = 0 /\ page = NoPage
    /\ secret = Version0 /\ creds = [k \in {"doveadm", "queue"} |-> Version0]
    /\ reader = [r \in Readers |-> IdleReader]
    /\ queued = FALSE /\ reads = 0 /\ readFaults = 0

Busy(r) == reader[r].pc \notin {"idle", "done"}

(* ---------------- the mail server and the vault: external ---------------- *)

MessageArrives ==
    /\ received < MaxMessages
    /\ received' = received + 1 /\ folder' = Append(folder, received + 1)
    /\ UNCHANGED <<page, secret, creds, reader, queued, reads, readFaults>>

\* a mail client deletes a message
Expunge(n) ==
    /\ n \in DOMAIN folder /\ readFaults < MaxReadFaults
    /\ readFaults' = readFaults + 1
    /\ folder' = SubSeq(folder, 1, n - 1) \o SubSeq(folder, n + 1, Len(folder))
    /\ page' = [page EXCEPT !.low = IF n < @ THEN n ELSE @]
    /\ reader' = [r \in Readers |-> IF Busy(r) /\ n < reader[r].low THEN [reader[r] EXCEPT !.low = n] ELSE reader[r]]
    /\ UNCHANGED <<received, secret, creds, queued, reads>>

SecretChanges(f) ==
    /\ readFaults < MaxReadFaults /\ readFaults' = readFaults + 1
    /\ secret' = [secret EXCEPT ![f] = @ + 1]
    /\ UNCHANGED <<folder, received, page, creds, reader, queued, reads>>

(* ---------------- a request ---------------- *)


\* the oldest versions a request under way may have seen
Floor ==
    [f \in Fields |->
        LET seen == {secret[f]} \cup {reader[r].since[f] : r \in {x \in Readers : Busy(x)}}
        IN  CHOOSE v \in seen : \A w \in seen : v <= w]

\* a request comes: list_messages, search_inbox; or, for an entry of the page,
\* get_message, get_message_raw, get_attachment
ReadStarts(r, api, op, entry) ==
    /\ ~Busy(r) /\ reads < MaxReads
    /\ op \in {"open", "attachment"} => page.by = api /\ entry \in page.entries
    /\ op = "attachment" => api = "doveadm"
    /\ (op = "queue") = (api = "queue")
    /\ reads' = reads + 1
    /\ reader' = [reader EXCEPT ![r] =
                    [IdleReader EXCEPT !.api = api, !.op = op, !.pc = "host", !.ref = entry[1], !.of = entry[2], !.low = page.low,
                                       !.again = op = "attachment", !.since = secret, !.floor = Floor]]
    /\ UNCHANGED <<folder, received, page, secret, creds, queued, readFaults>>

\* get_server_stats: the value of the last 30 s
AnswersFromCache(r) ==
    /\ reader[r].pc = "host" /\ reader[r].op = "queue" /\ queued
    /\ reader' = [reader EXCEPT ![r].pc = "done", ![r].used = reader[r].floor]
    /\ UNCHANGED <<folder, received, page, secret, creds, queued, reads, readFaults>>

\* vault.get_secret, for the first of the secrets
ReadsHost(r) ==
    /\ reader[r].pc = "host" /\ ~(reader[r].op = "queue" /\ queued)
    /\ reader' = [reader EXCEPT ![r].pc = "pem", ![r].got["host"] = secret["host"]]
    /\ UNCHANGED <<folder, received, page, secret, creds, queued, reads, readFaults>>

\* Variant: the credentials read at the start are used for ever.
KeepsCreds(api, got) == creds[api]
\* _ssh_creds = await _resolve_ssh_creds()
SetsCreds(api, got) == got

\* ... and the last, with which the global is set; IMAP has its own copy
ReadsPem(r) ==
    LET q == reader[r]
        got == [q.got EXCEPT !["pem"] = secret["pem"]] IN
    /\ q.pc = "pem"
    /\ IF q.api = "imap"
       THEN /\ reader' = [reader EXCEPT ![r].pc = "run", ![r].got = got, ![r].used = got]
            /\ UNCHANGED creds
       ELSE /\ reader' = [reader EXCEPT ![r].pc = "usePem", ![r].got = got]
            /\ creds' = [creds EXCEPT ![q.api] = SetsCreds(q.api, got)]
    /\ UNCHANGED <<folder, received, page, secret, queued, reads, readFaults>>

\* _build_ssh, in a thread: the key first
UsesPem(r) ==
    /\ reader[r].pc = "usePem"
    /\ reader' = [reader EXCEPT ![r].pc = "useHost", ![r].used["pem"] = creds[reader[r].api]["pem"]]
    /\ UNCHANGED <<folder, received, page, secret, creds, queued, reads, readFaults>>

\* ... then the host
UsesHost(r) ==
    /\ reader[r].pc = "useHost"
    /\ reader' = [reader EXCEPT ![r].pc = "run", ![r].used["host"] = creds[reader[r].api]["host"]]
    /\ UNCHANGED <<folder, received, page, secret, creds, queued, reads, readFaults>>

Last(s, n) == SubSeq(s, (IF Len(s) > n THEN Len(s) - n ELSE 0) + 1, Len(s))

\* _sync_search: the last sequence numbers of the folder
sync_search == {<<n, folder[n]>> : n \in {k \in DOMAIN folder : k > Len(folder) - PageLength}}
\* _sync_list_messages: the highest UIDs
sync_list_messages == {<<uid, uid>> : uid \in {Last(folder, PageLength)[k] : k \in DOMAIN Last(folder, PageLength)}}

\* _sync_list_messages, _sync_search: the user's page is the answer
RunsList(r) ==
    /\ reader[r].pc = "run" /\ reader[r].op = "list"
    /\ page' = [by |-> reader[r].api, low |-> NoPlace,
                entries |-> IF reader[r].api = "imap" THEN sync_search ELSE sync_list_messages]
    /\ reader' = [reader EXCEPT ![r].pc = "done"]
    /\ UNCHANGED <<folder, received, secret, creds, queued, reads, readFaults>>

\* _sync_fetch, by sequence number
sync_fetch(ref) == IF ref \in DOMAIN folder THEN folder[ref] ELSE 0
\* _sync_fetch_message, by UID
sync_fetch_message(ref) == IF \E n \in DOMAIN folder : folder[n] = ref THEN ref ELSE 0

\* the message is fetched, 404 when it is not there; fetch_attachment fetches it twice,
\* reading the secrets again in between
RunsFetch(r) ==
    LET q == reader[r]
        m == IF q.api = "imap" THEN sync_fetch(q.ref) ELSE sync_fetch_message(q.ref) IN
    /\ q.pc = "run" /\ q.op \in {"open", "attachment"}
    /\ reader' = IF q.again /\ m # 0 THEN [reader EXCEPT ![r].pc = "host", ![r].again = FALSE]
                 ELSE [reader EXCEPT ![r].pc = "done", ![r].answer = m]
    /\ UNCHANGED <<folder, received, page, secret, creds, queued, reads, readFaults>>

\* _sync_get_server_stats
RunsQueue(r) ==
    /\ reader[r].pc = "run" /\ reader[r].op = "queue"
    /\ queued' = TRUE
    /\ reader' = [reader EXCEPT ![r].pc = "done"]
    /\ UNCHANGED <<folder, received, page, secret, creds, reads, readFaults>>

QueueExpires ==
    /\ queued /\ queued' = FALSE
    /\ UNCHANGED <<folder, received, page, secret, creds, reader, reads, readFaults>>

\* the vault, the connection or the command fails: 500
ReadFails(r) ==
    /\ Busy(r) /\ readFaults < MaxReadFaults
    /\ readFaults' = readFaults + 1
    /\ reader' = [reader EXCEPT ![r] = IdleReader]
    /\ UNCHANGED <<folder, received, page, secret, creds, queued, reads>>

ReadingNext ==
    \/ MessageArrives \/ (\E n \in DOMAIN folder : Expunge(n)) \/ (\E f \in Fields : SecretChanges(f))
    \/ QueueExpires
    \/ \E r \in Readers :
         \/ \E api \in {"imap", "doveadm"} :
              \/ ReadStarts(r, api, "list", <<0, 0>>)
              \/ \E entry \in page.entries : ReadStarts(r, api, "open", entry) \/ ReadStarts(r, api, "attachment", entry)
         \/ ReadStarts(r, "queue", "queue", <<0, 0>>)
         \/ AnswersFromCache(r) \/ ReadsHost(r) \/ ReadsPem(r) \/ UsesPem(r) \/ UsesHost(r)
         \/ RunsList(r) \/ RunsFetch(r) \/ RunsQueue(r) \/ ReadFails(r)

(* ---------------- statistics of sent mail ---------------- *)

\* senders: those the mail server's log of the last 24 hours has; sentTable:
\* sent_stat_snapshots; sent: _sent_cache, _sent_cache_ts and _refreshing; sentLoads: rows
\* a read got that found no cache; sentRun: refreshes in the background ("bg", under
\* _refresh_lock) and asked for ("manual"); sentWaits: those waiting for the lock
VARIABLES senders, sentTable, sent, sentLoads, sentRun, sentWaits, sentFaults

sentVars == <<senders, sentTable, sent, sentLoads, sentRun, sentWaits, sentFaults>>

NoSent == [loaded |-> FALSE, of |-> {}, fresh |-> FALSE, refreshing |-> FALSE]
NoRun == [pc |-> "idle", got |-> {}]

SentInit ==
    /\ senders = {} /\ sentTable = {} /\ sent = NoSent /\ sentLoads = [on |-> FALSE, rows |-> {}]
    /\ sentRun = [k \in {"bg", "manual"} |-> NoRun] /\ sentWaits = 0 /\ sentFaults = 0

\* a sender sends, or has not sent for a day
SenderChanges(x) ==
    /\ senders' = IF x \in senders THEN senders \ {x} ELSE senders \cup {x}
    /\ UNCHANGED <<sentTable, sent, sentLoads, sentRun, sentWaits, sentFaults>>

\* a task for _background_refresh is made unless the flag is up
SentWakes == IF sent.refreshing \/ sentWaits = MaxSentWaits THEN sentWaits ELSE sentWaits + 1

\* get_sent_stats_cached: with a cache
ReadSent ==
    /\ sent.loaded /\ ~sent.fresh
    /\ sentWaits' = SentWakes
    /\ UNCHANGED <<senders, sentTable, sent, sentLoads, sentRun, sentFaults>>

\* ... without one the table is read first
SentLoadBegins ==
    /\ ~sent.loaded /\ ~sentLoads.on
    /\ sentLoads' = [on |-> TRUE, rows |-> sentTable]
    /\ UNCHANGED <<senders, sentTable, sent, sentRun, sentWaits, sentFaults>>

\* ... and what it had, if anything, is the cache, though a refresh may have set it since
SentLoadEnds ==
    /\ sentLoads.on
    /\ sentLoads' = [on |-> FALSE, rows |-> {}]
    /\ IF sentLoads.rows # {}
       THEN /\ sent' = [sent EXCEPT !.loaded = TRUE, !.of = sentLoads.rows, !.fresh = TRUE]
            /\ UNCHANGED sentWaits
       ELSE sentWaits' = SentWakes /\ UNCHANGED sent
    /\ UNCHANGED <<senders, sentTable, sentRun, sentFaults>>

SentExpires ==
    /\ sent.fresh /\ sent' = [sent EXCEPT !.fresh = FALSE]
    /\ UNCHANGED <<senders, sentTable, sentLoads, sentRun, sentWaits, sentFaults>>

\* _background_refresh takes the lock, and returns if a refresh is under way
SentBackground ==
    /\ sentWaits > 0 /\ sentRun["bg"].pc = "idle"
    /\ sentWaits' = sentWaits - 1
    /\ IF sent.refreshing THEN UNCHANGED <<sent, sentRun>>
       ELSE sentRun' = [sentRun EXCEPT !["bg"].pc = "ask"] /\ sent' = [sent EXCEPT !.refreshing = TRUE]
    /\ UNCHANGED <<senders, sentTable, sentLoads, sentFaults>>

\* the button of the page
SentRefresh ==
    /\ sentRun["manual"].pc = "idle"
    /\ sentRun' = [sentRun EXCEPT !["manual"].pc = "ask"] /\ sent' = [sent EXCEPT !.refreshing = TRUE]
    /\ UNCHANGED <<senders, sentTable, sentLoads, sentWaits, sentFaults>>

\* batch_sent_stats over the bridge
AskSent(k) ==
    /\ sentRun[k].pc = "ask"
    /\ sentRun' = [sentRun EXCEPT ![k] = [pc |-> "save", got |-> senders]]
    /\ UNCHANGED <<senders, sentTable, sent, sentLoads, sentWaits, sentFaults>>

\* the rows are inserted or updated, none is removed; then the cache and the flag
SaveSent(k) ==
    /\ sentRun[k].pc = "save"
    /\ sentTable' = sentTable \cup sentRun[k].got
    /\ sent' = [loaded |-> TRUE, of |-> sentRun[k].got, fresh |-> TRUE, refreshing |-> FALSE]
    /\ sentRun' = [sentRun EXCEPT ![k] = NoRun]
    /\ UNCHANGED <<senders, sentLoads, sentWaits, sentFaults>>

\* the bridge, its answer or the database fails
SentFails(k) ==
    /\ sentRun[k].pc \in {"ask", "save"} /\ sentFaults < MaxReadFaults
    /\ sentFaults' = sentFaults + 1
    /\ sent' = [sent EXCEPT !.refreshing = FALSE]
    /\ sentRun' = [sentRun EXCEPT ![k] = NoRun]
    /\ UNCHANGED <<senders, sentTable, sentLoads, sentWaits>>

SentRestarts ==
    /\ sentFaults < MaxReadFaults /\ sentFaults' = sentFaults + 1
    /\ sent' = NoSent /\ sentLoads' = [on |-> FALSE, rows |-> {}]
    /\ sentRun' = [k \in {"bg", "manual"} |-> NoRun] /\ sentWaits' = 0
    /\ UNCHANGED <<senders, sentTable>>

SentNext ==
    \/ \E x \in Senders : SenderChanges(x)
    \/ ReadSent \/ SentLoadBegins \/ SentLoadEnds \/ SentExpires \/ SentRestarts
    \/ SentBackground \/ SentRefresh
    \/ \E k \in {"bg", "manual"} : AskSent(k) \/ SaveSent(k) \/ SentFails(k)

(* ---------------- properties ---------------- *)

\* What is opened from a list is the message the list showed, or nothing.  A list made
\* over IMAP keeps sequence numbers (imap.py:161), so there it may be another one, but
\* only when a message at its place or before was deleted since the list was made.
OpensWhatWasListed ==
    \A r \in Readers :
        reader[r].pc = "done" /\ reader[r].op \in {"open", "attachment"} =>
            \/ reader[r].answer \in {0, reader[r].of}
            \/ reader[r].api = "imap" /\ reader[r].low <= reader[r].ref

\* A connection uses no secret older than what the vault had when the first of the
\* requests it ran beside began, though those requests replace the credentials it reads
\* (admin_imap.py:25).
CredsAreRecent ==
    \A r \in Readers : \A f \in Fields : reader[r].pc = "run" => reader[r].used[f] >= reader[r].floor[f]

\* The flag that keeps refreshes away is up only while one is under way, whatever
\* failed, overlapped or was lost in a restart; and a sender the page shows is in the
\* table, which keeps those who have not sent for a day (sent_stats.py:137, 165).
SentIsRefreshed ==
    /\ sent.refreshing => \E k \in {"bg", "manual"} : sentRun[k].pc \in {"ask", "save"}
    /\ sent.of \subseteq sentTable

\* What users who read mail are shown is what they asked for.
MailIsRead == OpensWhatWasListed /\ CredsAreRecent /\ SentIsRefreshed
=============================================================================
