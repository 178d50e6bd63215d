------------------------------- MODULE Backup -------------------------------
(* Backup and restore: the admin router (nexus_api/routers/backup.py), the    *)
(* file encryption it uses (shared/backup_crypto.py) and the portal page that *)
(* drives it (pages/BackupRestore.tsx).                                       *)
(*                                                                            *)
(* A handler runs without interruption between two awaits: a request counts   *)
(* tables, dumps, archives (compress, encrypt, rotate), notifies, and for a   *)
(* restore then reads the chosen file and runs psql.  Files are named after   *)
(* the minute they were begun in.  The state of the database is the write it  *)
(* has reached and the master key its secrets were sealed under; Mixed is a   *)
(* database or a dump that is no state the database ever had.                 *)
(* A psql that outlives its timeout is taken to end with it.                  *)
(* Left out: the host directory of the volume, downloads, the wording of      *)
(* progress, the page's own time limit on an upload, and inputs that the page *)
(* cannot send.                                                               *)
EXTENDS Integers, FiniteSets, Sequences, SequencesExt

CONSTANTS
    Pages,      \* browsers with the page open
    Root,       \* BACKUP_DIR itself
    Subdirs,    \* its subdirectories
    None,
    Mixed,
    Limits,     \* values max_backups is given
    MaxReq,     \* bound: requests
    MaxMinute,  \* bound: the clock
    MaxWrites,  \* bound: changes of the database
    MaxOutside  \* bound: restarts, deletions, changes of the configuration

ASSUME BackupAssumption ==
    /\ Root \notin Subdirs /\ IsFiniteSet(Subdirs)
    /\ Limits \subseteq Nat \ {0} /\ Limits # {}
    /\ MaxReq \in Nat /\ MaxMinute \in Nat \ {0} /\ MaxWrites \in Nat /\ MaxOutside \in Nat

VARIABLES
    db,        \* the database
    masterKey, \* NEXUS_MASTER_KEY of .env
    fs,        \* the backup files
    raw,       \* the .tmp_ files pg_dump writes
    cfg,       \* .backup_config.json: max_backups, default_location
    clock,     \* the minute of the clock
    request,   \* requests, numbered as they arrive
    bProg,     \* stage of _backup_progress
    rProg,     \* stage of _restore_progress
    page,      \* the state of each page
    outside,   \* counts restarts, deletions, changes of the configuration
    byHand     \* history: files deleted on request

disk == <<fs, raw, cfg>>
backupVars == <<db, masterKey, disk, clock, request, bProg, rProg, page, outside, byHand>>

Reqs == 1..MaxReq
Minutes == 1..MaxMinute
Locs == {Root} \cup Subdirs
Keys == {"home", "foreign"}
States == [ver : 0..MaxWrites, key : Keys]
Dumps == States \cup {Mixed}

\* BackupInfo: what a name and its directory tell of a file
File == [loc : Locs, minute : Minutes, enc : BOOLEAN]

\* What a file holds; only an encrypted one carries a master key.
Stored == [data : Dumps, key : Keys \cup {None}]

ASSUME NoneAssumption ==
    None \notin Pages /\ None \notin File /\ None \notin Stored /\ None \notin Reqs

NoRequest == [op |-> "none", pc |-> "free", by |-> None, loc |-> Root, minute |-> 1, enc |-> FALSE,
              snap |-> None, killed |-> FALSE, chosen |-> None, from |-> None, asked |-> None,
              calm |-> TRUE, right |-> TRUE, read |-> None, alone |-> TRUE, safety |-> FALSE,
              ok |-> FALSE]

Closed == [backup |-> "idle", upload |-> "idle", restore |-> "confirm", file |-> None,
           shown |-> None, early |-> FALSE]

Busy == {"count", "dump", "notify", "read", "psql"}

\* _set_progress, _set_restore_progress: "active" for every other stage
Active(stage) == stage \notin {"idle", "done", "error"}

Request == [op : {"none", "backup", "restore", "upload"},
            pc : Busy \cup {"free", "answered", "seen", "lost"}, by : Pages \cup {None},
            loc : Locs, minute : Minutes, enc : BOOLEAN, snap : Dumps \cup {None},
            killed : BOOLEAN, chosen : File \cup {None}, from : File \cup {None},
            asked : Stored \cup {None}, calm : BOOLEAN, right : BOOLEAN,
            read : Stored \cup {None}, alone : BOOLEAN, safety : BOOLEAN, ok : BOOLEAN]

Page == [backup : {"idle", "running"}, upload : {"idle", "running"},
         restore : {"confirm", "running", "done", "error"},
         file : File \cup {None}, shown : Reqs \cup {None}, early : BOOLEAN]

BackupTypeOK ==
    /\ db \in Dumps /\ masterKey \in Keys
    /\ fs \in [File -> Stored \cup {None}]
    /\ raw \in [Locs \X Minutes -> Dumps \cup {None}]
    /\ cfg \in [max : Limits, loc : Locs]
    /\ clock \in Minutes
    /\ request \in [Reqs -> Request]
    /\ bProg \in {"idle", "counting", "dumping", "done", "error"}
    /\ rProg \in {"idle", "decrypting", "decompressing", "restoring", "done", "error"}
    /\ page \in [Pages -> Page]
    /\ outside \in 0..MaxOutside /\ byHand \subseteq File

BackupInit ==
    /\ db = [ver |-> 0, key |-> "home"] /\ masterKey = "home"
    /\ fs = [f \in File |-> None]
    /\ raw = [p \in Locs \X Minutes |-> None]
    /\ cfg \in [max : Limits, loc : {Root}]
    /\ clock = 1
    /\ request = [r \in Reqs |-> NoRequest]
    /\ bProg = "idle" /\ rProg = "idle"
    /\ page = [p \in Pages |-> Closed]
    /\ outside = 0 /\ byHand = {}

------------------------------------------------------------------------------
\* The directory

\* The file a backup request makes, and its base file without ".enc".
FileOf(q) == [loc |-> q.loc, minute |-> q.minute, enc |-> q.enc]
GzOf(q) == [FileOf(q) EXCEPT !.enc = FALSE]

Exists(f) == fs[f] # None

\* The order in which the directories are scanned.
Scanned == <<Root>> \o SetToSeq(Subdirs)
Place == [l \in Locs |-> CHOOSE n \in DOMAIN Scanned : Scanned[n] = l]

\* _list_backups: newest minute first; the sort is stable, and a directory is
\* scanned for plain files before encrypted ones.
Before(f, g) ==
    \/ f.minute > g.minute
    \/ f.minute = g.minute /\ f.loc # g.loc /\ Place[f.loc] < Place[g.loc]
    \/ f.minute = g.minute /\ f.loc = g.loc /\ ~f.enc /\ g.enc

\* Variant: the list is cut one entry too early.
OverLimitShort(d, max) ==
    {f \in File : d[f] # None /\ Cardinality({g \in File : d[g] # None /\ Before(g, f)}) >= max - 1}

\* backups[max_backups:]
OverLimit(d, max) ==
    {f \in File : d[f] # None /\ Cardinality({g \in File : d[g] # None /\ Before(g, f)}) >= max}

\* _enforce_retention: the file removed is the one of that name in the root.
Rotate(d, max) ==
    LET gone == {[f EXCEPT !.loc = Root] : f \in OverLimit(d, max)}
    IN  [f \in File |-> IF f \in gone THEN None ELSE d[f]]

\* The files a name may mean: the root's, else any subdirectory's.
Named(f) ==
    LET same == {[f EXCEPT !.loc = l] : l \in Locs}
        inRoot == [f EXCEPT !.loc = Root]
    IN  IF Exists(inRoot) THEN {inRoot} ELSE {g \in same : Exists(g)}

------------------------------------------------------------------------------
\* Requests: _create_backup

NextReq(r) == request[r].pc = "free" /\ \A q \in Reqs : q < r => request[q].pc # "free"

Step(r, q) == request' = [request EXCEPT ![r] = q]

\* A failed or finished _create_backup: the answer of /run, or the safety
\* backup of a restore, which goes on either way.
AfterBackup(q, good) ==
    IF q.op = "backup" THEN [q EXCEPT !.pc = "answered", !.ok = good]
    ELSE [q EXCEPT !.pc = "read", !.safety = good]

\* What every request starts with: name the file, count the tables.
Begin(r, q) ==
    /\ NextReq(r)
    /\ Step(r, [q EXCEPT !.pc = "count", !.minute = clock,
                         !.loc = IF q.loc = Root THEN cfg.loc ELSE q.loc])
    /\ bProg' = "counting"

\* The three endpoints that make a backup; the root is what no subdirectory is
\* sent for.  A restore looks its file up by name before the safety backup;
\* "calm" (history) is that no unfinished backup of that minute may write it.
run_backup(p, loc, enc) == [NoRequest EXCEPT !.op = "backup", !.by = p, !.loc = loc, !.enc = enc]

restore_backup(p, f, g, right) ==
    [NoRequest EXCEPT !.op = "restore", !.by = p, !.chosen = f, !.from = g, !.asked = fs[f],
                      !.right = right,
                      !.calm = \A o \in Reqs : request[o].minute = g.minute
                                               => request[o].pc \notin {"count", "dump"}]

\* A file made elsewhere, saved under a name of its own.
upload_and_restore(p, enc, right) ==
    [NoRequest EXCEPT !.op = "upload", !.by = p, !.right = right,
                      !.asked = [data |-> [ver |-> 0, key |-> "foreign"],
                                 key |-> IF enc THEN "foreign" ELSE None]]

\* pg_dump opens its file and takes its snapshot.  A file that another dump is
\* still writing is truncated under it, and both go on writing.
BeginDump(r) ==
    /\ request[r].pc = "count"
    /\ raw' = [raw EXCEPT ![<<request[r].loc, request[r].minute>>] =
                   IF \E q \in Reqs \ {r} : /\ request[q].pc = "dump" /\ request[q].loc = request[r].loc
                                            /\ request[q].minute = request[r].minute
                   THEN Mixed ELSE db]
    /\ Step(r, [request[r] EXCEPT !.pc = "dump", !.snap = db])
    /\ bProg' = "dumping"
    /\ UNCHANGED <<db, masterKey, fs, cfg, clock, rProg, page, outside, byHand>>

\* pg_dump exits with an error, as when its session is terminated.
DumpFails(r) ==
    /\ request[r].pc = "dump"
    /\ Step(r, AfterBackup(request[r], FALSE))
    /\ bProg' = "error"
    /\ UNCHANGED <<db, masterKey, disk, clock, rProg, page, outside, byHand>>

\* encrypt_backup: the master key in force goes into the file.
Sealed(dump) == [data |-> dump, key |-> masterKey]

\* Compress, encrypt, rotate; no await in between.
Archive(r) ==
    LET q == request[r]
        dump == raw[<<q.loc, q.minute>>]
        plain == [fs EXCEPT ![GzOf(q)] = [data |-> dump, key |-> None]]
        final == IF q.enc THEN [plain EXCEPT ![FileOf(q)] = Sealed(dump),
                                             ![GzOf(q)] = None]
                 ELSE plain
    IN  /\ q.pc = "dump" /\ ~q.killed /\ dump # None
        /\ fs' = Rotate(final, cfg.max)
        /\ raw' = [raw EXCEPT ![<<q.loc, q.minute>>] = None]
        /\ Step(r, [q EXCEPT !.pc = "notify"])
        /\ bProg' = "done"
        /\ UNCHANGED <<db, masterKey, cfg, clock, rProg, page, outside, byHand>>

\* Anything of the above raises (a full disk, the dump gone): the files of that
\* name are removed, also the ones another request of that minute has made.
ArchiveRaises(r) ==
    LET q == request[r] IN
    /\ q.pc = "dump" /\ ~q.killed
    /\ fs' = [fs EXCEPT ![GzOf(q)] = None, ![FileOf(q)] = None]
    /\ raw' = [raw EXCEPT ![<<q.loc, q.minute>>] = None]
    /\ Step(r, AfterBackup(q, FALSE))
    /\ bProg' = "error"
    /\ UNCHANGED <<db, masterKey, cfg, clock, rProg, page, outside, byHand>>

\* The notifications of retention and backup are sent, failures ignored.
Notified(r) ==
    /\ request[r].pc = "notify"
    /\ Step(r, AfterBackup(request[r], TRUE))
    /\ UNCHANGED <<db, masterKey, disk, clock, bProg, rProg, page, outside, byHand>>

------------------------------------------------------------------------------
\* Requests: restore_backup and upload_and_restore, after the safety backup

Fail(q) == [q EXCEPT !.pc = "answered", !.ok = FALSE]

\* Variant: the path has been reused for the safety backup.
SourceReused(q) ==
    IF q.op = "upload" THEN q.asked
    ELSE IF q.safety /\ ~q.from.enc THEN fs[FileOf(q)] ELSE fs[q.from]

\* What the request restores from: the file it found, if it is still there, or
\* the upload, which is its own.
Source(q) == IF q.op = "upload" THEN q.asked ELSE fs[q.from]

Encrypted(q) == IF q.op = "upload" THEN q.asked.key # None ELSE q.from.enc

\* decrypt_backup: the file is authenticated under the password.
Opens(q) == Encrypted(q) => q.right

\* Terminated before psql starts: every other session on the database.
Terminated(q, i) == q.op = "upload" /\ request[i].pc \in {"dump", "psql"}

\* _write_env_value("NEXUS_MASTER_KEY", ...), before psql is started
KeyInstalled(q) == IF Encrypted(q) THEN Source(q).key ELSE masterKey

\* A password that is refused; only restore_backup reports it as progress.
WrongPassword(r) ==
    LET q == request[r] IN
    /\ q.pc = "read" /\ Source(q) # None /\ ~Opens(q)
    /\ rProg' = IF q.op = "restore" THEN "error" ELSE "decrypting"
    /\ Step(r, Fail(q))
    /\ UNCHANGED <<db, masterKey, disk, clock, bProg, page, outside, byHand>>

\* The file has gone, or it or its dump cannot be read or written: the handler
\* of the exception leaves the progress as it is.
ReadRaises(r) ==
    /\ request[r].pc = "read"
    /\ rProg' = IF Encrypted(request[r]) THEN "decrypting" ELSE "decompressing"
    /\ Step(r, Fail(request[r]))
    /\ UNCHANGED <<db, masterKey, disk, clock, bProg, page, outside, byHand>>

Psqls == {r \in Reqs : request[r].pc = "psql"}

\* Decrypt, install the master key of the file, run psql.  An upload first
\* terminates every other session, and with them the dumps and restores.
BeginPsql(r) ==
    LET q == request[r] IN
    /\ q.pc = "read" /\ Source(q) # None /\ Opens(q)
    /\ masterKey' = KeyInstalled(q)
    /\ db' = Mixed
    /\ request' = [i \in Reqs |->
           IF i = r THEN [q EXCEPT !.pc = "psql", !.read = Source(q), !.alone = Psqls = {}]
           ELSE [request[i] EXCEPT
                   !.alone = @ /\ request[i].pc # "psql",
                   !.killed = @ \/ Terminated(q, i)]]
    /\ rProg' = "restoring"
    /\ UNCHANGED <<disk, clock, bProg, page, outside, byHand>>

\* Everything up to psql has worked and psql does not start, or the sessions
\* cannot be terminated: the master key is the file's already.
PsqlNotStarted(r) ==
    LET q == request[r] IN
    /\ q.pc = "read" /\ Source(q) # None /\ Opens(q)
    /\ masterKey' = KeyInstalled(q)
    /\ rProg' = "restoring"
    /\ Step(r, Fail(q))
    /\ UNCHANGED <<db, disk, clock, bProg, page, outside, byHand>>

\* psql exits with 0.  It runs without ON_ERROR_STOP, so statements may have
\* failed; writes of other sessions and another psql mix in.
PsqlSucceeds(r) ==
    LET q == request[r] IN
    /\ q.pc = "psql" /\ ~q.killed
    /\ db' \in {Mixed} \cup (IF q.alone THEN {q.read.data} ELSE {})
    /\ rProg' = "done"
    /\ Step(r, [q EXCEPT !.pc = "answered", !.ok = TRUE])
    /\ UNCHANGED <<masterKey, disk, clock, bProg, page, outside, byHand>>

\* psql exits with an error or runs out of time.  A restore reports only the
\* first as progress and an upload only the second.
PsqlFails(r) ==
    /\ request[r].pc = "psql"
    /\ rProg' \in {"error", rProg}
    /\ Step(r, Fail(request[r]))
    /\ UNCHANGED <<db, masterKey, disk, clock, bProg, page, outside, byHand>>

------------------------------------------------------------------------------
\* Other endpoints

Outside == outside < MaxOutside /\ outside' = outside + 1

\* Files a page may still list.
Listed == {f \in File : Exists(f) \/ \E r \in Reqs : request[r].pc # "free" /\ FileOf(request[r]) = f}

\* delete_backup: in the directory given, else wherever the name is found
delete_backup(f) ==
    \E g \in (IF Exists(f) THEN {f} ELSE Named(f)) :
        /\ Outside
        /\ fs' = [fs EXCEPT ![g] = None]
        /\ byHand' = byHand \cup {g}
        /\ UNCHANGED <<db, masterKey, raw, cfg, clock, request, bProg, rProg, page>>

update_config(max, loc) ==
    /\ Outside
    /\ cfg' = [max |-> max, loc |-> loc]
    /\ fs' = Rotate(fs, max)
    /\ UNCHANGED <<db, masterKey, raw, clock, request, bProg, rProg, page, byHand>>

------------------------------------------------------------------------------
\* The page.  Modals cover the page: nothing else is opened while one is.

Uncovered(p) == page[p].backup = "idle" /\ page[p].upload = "idle" /\ page[p].file = None

triggerBackup(p, r, loc, enc) ==
    /\ Uncovered(p)
    /\ Begin(r, run_backup(p, loc, enc))
    /\ page' = [page EXCEPT ![p].backup = "running"]
    /\ UNCHANGED <<db, masterKey, disk, clock, rProg, outside, byHand>>

\* A backup asked for from elsewhere (a client of the API without a body).
OtherBackup(r) ==
    /\ Begin(r, run_backup(None, Root, FALSE))
    /\ UNCHANGED <<db, masterKey, disk, clock, rProg, page, outside, byHand>>

\* setRestoreModal: the step of an earlier restore is still there.
openRestoreModal(p, f) ==
    /\ Uncovered(p) /\ Exists(f)
    /\ page' = [page EXCEPT ![p].file = f]
    /\ UNCHANGED <<db, masterKey, disk, clock, request, bProg, rProg, outside, byHand>>

\* The page sends the name of the file without its directory.
handleRestore(p, r, right) ==
    LET f == page[p].file IN
    /\ f # None /\ page[p].restore = "confirm"
    /\ (right \/ f.enc)
    /\ \E g \in Named(f) : Begin(r, restore_backup(p, f, g, right))
    /\ page' = [page EXCEPT ![p].restore = "running"]
    /\ UNCHANGED <<db, masterKey, disk, clock, rProg, outside, byHand>>

\* 404: no file of that name is left.
restoreNotFound(p) ==
    /\ page[p].file # None /\ page[p].restore = "confirm" /\ Named(page[p].file) = {}
    /\ page' = [page EXCEPT ![p].restore = "error", ![p].shown = None]
    /\ UNCHANGED <<db, masterKey, disk, clock, request, bProg, rProg, outside, byHand>>

\* Possible at every step, also while the restore runs.
closeRestoreModal(p) ==
    /\ page[p].file # None
    /\ page' = [page EXCEPT ![p].file = None, ![p].restore = "confirm", ![p].shown = None,
                            ![p].early = @ \/ page[p].restore = "running"]
    /\ UNCHANGED <<db, masterKey, disk, clock, request, bProg, rProg, outside, byHand>>

\* "Upload & Restore"
uploadRestore(p, r, enc, right) ==
    /\ Uncovered(p) /\ (right \/ enc)
    /\ Begin(r, upload_and_restore(p, enc, right))
    /\ page' = [page EXCEPT ![p].upload = "running"]
    /\ UNCHANGED <<db, masterKey, disk, clock, rProg, outside, byHand>>

\* Variant: a failed restore is shown as done.
ResponseAlwaysDone(r) ==
    LET q == request[r] IN
    /\ q.pc \in {"answered", "lost"}
    /\ page' = IF q.by = None THEN page
                ELSE CASE q.op = "backup" -> [page EXCEPT ![q.by].backup = "idle"]
                       [] q.op = "upload" -> [page EXCEPT ![q.by].upload = "idle"]
                       [] q.op = "restore" ->
                            [page EXCEPT ![q.by].restore = "done",
                                         ![q.by].shown = r]
    /\ Step(r, [q EXCEPT !.pc = "seen", !.killed = FALSE, !.right = TRUE, !.alone = TRUE])
    /\ UNCHANGED <<db, masterKey, disk, clock, bProg, rProg, outside, byHand>>

\* The answer, or the broken connection, reaches the page that asked.  The
\* modals of a backup and an upload show it and can be closed from then on.
Response(r) ==
    LET q == request[r] IN
    /\ q.pc \in {"answered", "lost"}
    /\ page' = IF q.by = None THEN page
                ELSE CASE q.op = "backup" -> [page EXCEPT ![q.by].backup = "idle"]
                       [] q.op = "upload" -> [page EXCEPT ![q.by].upload = "idle"]
                       [] q.op = "restore" ->
                            [page EXCEPT ![q.by].restore = IF q.ok THEN "done" ELSE "error",
                                         ![q.by].shown = r]
    /\ Step(r, [q EXCEPT !.pc = "seen", !.killed = FALSE, !.right = TRUE, !.alone = TRUE])
    /\ UNCHANGED <<db, masterKey, disk, clock, bProg, rProg, outside, byHand>>

------------------------------------------------------------------------------
\* The environment

\* Anything else that changes the database.
DatabaseWrite ==
    /\ db # Mixed /\ db.ver < MaxWrites
    /\ db' = [db EXCEPT !.ver = @ + 1]
    /\ UNCHANGED <<masterKey, disk, clock, request, bProg, rProg, page, outside, byHand>>

ClockTicks ==
    /\ clock < MaxMinute
    /\ clock' = clock + 1
    /\ UNCHANGED <<db, masterKey, disk, request, bProg, rProg, page, outside, byHand>>

\* The container restarts: the progress is as in the module, files stay.
Crash ==
    /\ Outside /\ \E r \in Reqs : request[r].pc \in Busy
    /\ request' = [r \in Reqs |-> IF request[r].pc \in Busy THEN [request[r] EXCEPT !.pc = "lost"] ELSE request[r]]
    /\ bProg' = "idle" /\ rProg' = "idle"
    /\ UNCHANGED <<db, masterKey, disk, clock, page, byHand>>

Handle(r) ==
    \/ BeginDump(r) \/ DumpFails(r) \/ Archive(r) \/ ArchiveRaises(r) \/ Notified(r)
    \/ WrongPassword(r) \/ ReadRaises(r) \/ BeginPsql(r) \/ PsqlNotStarted(r)
    \/ PsqlSucceeds(r) \/ PsqlFails(r)

BackupNext ==
    \/ \E r \in Reqs : Handle(r) \/ Response(r)
    \/ \E p \in Pages, r \in Reqs, l \in Locs, e \in BOOLEAN : triggerBackup(p, r, l, e)
    \/ \E r \in Reqs : OtherBackup(r)
    \/ \E p \in Pages, r \in Reqs, e \in BOOLEAN : handleRestore(p, r, e)
    \/ \E p \in Pages, r \in Reqs, e, right \in BOOLEAN : uploadRestore(p, r, e, right)
    \/ \E p \in Pages, f \in File : openRestoreModal(p, f)
    \/ \E p \in Pages : closeRestoreModal(p) \/ restoreNotFound(p)
    \/ \E f \in Listed : delete_backup(f)
    \/ \E m \in Limits, l \in Locs : update_config(m, l)
    \/ DatabaseWrite \/ ClockTicks \/ Crash

BackupSpec == BackupInit /\ [][BackupNext]_backupVars

------------------------------------------------------------------------------
\* Properties

Others(r) == {q \in Reqs \ {r} : request[q].pc # "free"}

\* "Your data is safe - a safety backup was created" (BackupRestore.tsx): once a
\* restore has made its safety backup the file holds the database as it was
\* dumped before the restore, whatever else happens, unless another request has
\* used the same minute or a later one or somebody has deleted the file.
SafetyKept ==
    \A r \in Reqs :
        LET q == request[r] IN
        (/\ q.op \in {"restore", "upload"} /\ q.safety
         /\ \A o \in Others(r) : request[o].minute < q.minute
         /\ FileOf(q) \notin byHand)
        => fs[FileOf(q)] = [data |-> q.snap, key |-> None]

\* What psql is fed is what the chosen file held when the restore was asked
\* for, although the safety backup and its rotation come in between: unless the
\* name means a file of another directory, or a request that was not finished
\* by then, the restore itself included, writes files of the same minute.
RestoreReadsChosen ==
    \A r \in Reqs :
        LET q == request[r] IN
        (/\ q.op = "restore" /\ q.read # None /\ q.from = q.chosen /\ q.calm
         /\ \A o \in Reqs : (request[o].pc # "free" /\ request[o].minute = q.from.minute) => o < r)
        => q.read = q.asked

\* Rotation removes only files that max_backups newer ones are kept before, or
\* whose name some subdirectory has too (the directory is not looked at).
RotationKeepsNewest ==
    [][(cfg' # cfg \/ \E r \in Reqs : request[r].pc = "dump" /\ request'[r].pc = "notify") =>
        \A f \in File : (fs[f] # None /\ fs'[f] = None)
        => \/ Cardinality({g \in File : fs'[g] # None /\ Before(g, f)}) >= cfg'.max
           \/ \E g \in File : fs'[g] # None /\ g.loc # f.loc /\ g.minute = f.minute
           \/ \E r \in Reqs : request'[r].pc = "notify" /\ request[r].enc /\ GzOf(request[r]) = f]_backupVars

\* A restore modal that says "done" stands for a successful restore, and for
\* one of the file the modal was opened for unless the page has closed the
\* modal of a restore that was still running.
DoneModalTellsTruth ==
    \A p \in Pages :
        page[p].restore = "done" =>
            /\ page[p].shown # None /\ request[page[p].shown].ok
            /\ page[p].early \/ request[page[p].shown].chosen = page[p].file

\* With nothing under way the backup progress is not left active, and the
\* restore progress only when a restore has ended without an answer of psql.
ProgressSettles ==
    /\ (\A r \in Reqs : request[r].pc \notin {"count", "dump"}) => ~Active(bProg)
    /\ (Active(rProg) /\ Psqls = {}) =>
           \E r \in Reqs : request[r].op \in {"restore", "upload"} /\ ~request[r].ok

\* A restore loses nothing: the safety backup stays, and what is restored is what
\* was chosen; and the state has its types.
RestoreIsSafe == BackupTypeOK /\ SafetyKept /\ RestoreReadsChosen

\* What the pages show of a restore or a backup is so, and comes to an end.
PagesTellTruth == DoneModalTellsTruth /\ ProgressSettles
=============================================================================
