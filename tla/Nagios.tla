------------------------------- MODULE Nagios -------------------------------
(* The monitoring agent's management of the Nagios server's host files         *)
(* (monitoring_agent/client/__init__.py, api/nagios.py) and its cache of       *)
(* Nagios' status file.                                                        *)
(*                                                                             *)
(* Every request is a series of commands run over SSH on the Nagios server,    *)
(* each one a step that another request's commands may come before or after;   *)
(* a command whose connection fails ends its request where it is.  The server  *)
(* holds one directory: the .cfg files Nagios reads and the backup copies the  *)
(* requests make of them, which Nagios does not read but grep does.            *)
(* Left out: aliases, addresses, groups and services (a file's contents are    *)
(* the host it defines and whether Nagios accepts it), and what the status     *)
(* file says of the hosts.                                                     *)
EXTENDS Integers, FiniteSets, Sequences

CONSTANTS
    Hosts,       \* host names
    Mentions,    \* <<x, y>>: a definition of host x matches a search for host y
    CfgName,     \* the file name made of each host name
    Needed,      \* hosts that configuration outside the directory refers to
    Reqs,        \* requests in progress at the same time, at most
    MaxSeconds,  \* bound: seconds told apart in backup names
    MaxRequests, MaxFaults

ASSUME NagiosAssumption ==
    /\ IsFiniteSet(Hosts) /\ Needed \subseteq Hosts
    /\ Mentions \subseteq Hosts \X Hosts /\ \A h \in Hosts : <<h, h>> \in Mentions
    /\ DOMAIN CfgName = Hosts
    /\ MaxSeconds \in Nat /\ MaxRequests \in Nat /\ MaxFaults \in Nat

VARIABLES
    files,    \* the directory: contents by file
    hostReq,      \* the requests in progress
    sec,      \* the clock, in seconds
    cache,    \* _cache and _cache_ts: valid, and whether it knows of every change
    fetch,    \* refreshes under way that have read the status file: the same of what they read
    started, faults,
    spoiled,  \* history: files two requests met on, or a request was cut off on
    overtaken \* history: a change was answered while a refresh was under way

nagiosVars == <<files, hostReq, sec, cache, fetch, started, faults, spoiled, overtaken>>

(* ---------------- the directory ---------------- *)

\* _cfg_filename: a file is its name followed by the seconds of its backup suffixes
CfgFile(h) == <<CfgName[h]>>
BackupOf(f, s) == Append(f, s)

\* generate_host_config
HostConfig(h, ok) == [host |-> h, ok |-> ok]

\* what a file that is not there reads as
NoFile == [host |-> "none", ok |-> FALSE]
At(f) == IF f \in DOMAIN files THEN files[f] ELSE NoFile

\* echo > f, rm -f f, cp f g
Written(f, c) == [g \in DOMAIN files \cup {f} |-> IF g = f THEN c ELSE files[g]]
Removed(f) == [g \in DOMAIN files \ {f} |-> files[g]]
Copied(f, g) == IF f \in DOMAIN files THEN Written(g, files[f]) ELSE files

Live == {f \in DOMAIN files : Len(f) = 1}

\* validate_config
Valid ==
    /\ \A f \in Live : files[f].ok
    /\ \A h \in Needed : \E f \in Live : files[f].host = h

\* grep -rl 'host_name.*h' | head -1 answers one of these
Found(h) == {f \in DOMAIN files : <<files[f].host, h>> \in Mentions}

(* ---------------- requests ---------------- *)

NoRequest == [pc |-> "idle"]
Active(r) == hostReq[r].pc # "idle"
\* the files a request has taken; <<>> is none
Holds(r) == IF Active(r) THEN {hostReq[r].file, hostReq[r].backup} \ {<<>>} ELSE {}

Go(r, pc) == hostReq' = [hostReq EXCEPT ![r].pc = pc]
Ends(r) == hostReq' = [hostReq EXCEPT ![r] = NoRequest]

NagiosInit ==
    /\ files \in {[f \in {CfgFile(h) : h \in H} |->
                      HostConfig(CHOOSE h \in H : CfgFile(h) = f, TRUE)]
                     : H \in {H \in SUBSET Hosts : Needed \subseteq H}}
    /\ hostReq = [r \in Reqs |-> NoRequest] /\ sec = 0
    /\ cache = [valid |-> FALSE, knows |-> TRUE] /\ fetch = {}
    /\ started = 0 /\ faults = 0 /\ spoiled = {} /\ overtaken = FALSE

\* nagios_create_host, nagios_update_host, nagios_delete_host: what it is asked for
\* Nagios accepts, or not
Request(r, op, h, ok) ==
    /\ ~Active(r) /\ started < MaxRequests
    /\ started' = started + 1
    /\ hostReq' = [hostReq EXCEPT ![r] = [pc |-> "check", op |-> op, host |-> h, ok |-> ok,
                                  file |-> <<>>, backup |-> <<>>, was |-> NoFile]]
    /\ UNCHANGED <<files, sec, cache, fetch, faults, spoiled, overtaken>>

\* request r takes the files fs: the ones another request has taken are spoiled, and
\* so is what that one has taken
Meets(r, fs) ==
    spoiled' = spoiled \cup
        UNION {fs \cup Holds(s) : s \in {s \in Reqs \ {r} : Holds(s) \cap fs # {}}}

\* test -f: add_host wants a new file, edit_host and delete_host the host's own one,
\* which else they search for
Check(r) ==
    LET f == CfgFile(hostReq[r].host)
        new == hostReq[r].op = "add" IN
    /\ hostReq[r].pc = "check"
    /\ CASE f \in DOMAIN files /\ new -> Ends(r) /\ UNCHANGED spoiled
         [] f \notin DOMAIN files /\ ~new -> Go(r, "find") /\ UNCHANGED spoiled
         [] OTHER -> /\ hostReq' = [hostReq EXCEPT ![r].pc = IF new THEN "write" ELSE "backup",
                                                   ![r].file = f]
                     /\ Meets(r, {f})
    /\ UNCHANGED <<files, sec, cache, fetch, started, faults, overtaken>>

Find(r) ==
    /\ hostReq[r].pc = "find"
    /\ \/ /\ Found(hostReq[r].host) = {}
          /\ Ends(r) /\ UNCHANGED spoiled
       \/ \E f \in Found(hostReq[r].host) :
            /\ hostReq' = [hostReq EXCEPT ![r].pc = "backup", ![r].file = f]
            /\ Meets(r, {f})
    /\ UNCHANGED <<files, sec, cache, fetch, started, faults, overtaken>>

\* cp cfg_file backup_file
KeepCopy(r) ==
    LET f == hostReq[r].file
        b == BackupOf(f, sec) IN
    /\ hostReq[r].pc = "backup"
    /\ hostReq' = [hostReq EXCEPT ![r].pc = "write", ![r].backup = b, ![r].was = At(f)]
    /\ files' = Copied(f, b)
    /\ Meets(r, {f, b})
    /\ UNCHANGED <<sec, cache, fetch, started, faults, overtaken>>

\* the new contents are written over the file; delete_host removes it
Change(r) ==
    LET f == hostReq[r].file IN
    /\ hostReq[r].pc = "write"
    /\ files' = IF hostReq[r].op = "delete" THEN Removed(f)
                ELSE Written(f, HostConfig(hostReq[r].host, hostReq[r].ok))
    /\ Go(r, "validate")
    /\ UNCHANGED <<sec, cache, fetch, started, faults, spoiled, overtaken>>

\* the whole configuration is validated, other requests' files with it
Validate(r) ==
    /\ hostReq[r].pc = "validate"
    /\ Go(r, IF ~Valid THEN "undo" ELSE IF hostReq[r].op = "edit" THEN "drop" ELSE "reload")
    /\ UNCHANGED <<files, sec, cache, fetch, started, faults, spoiled, overtaken>>

\* Variant: the backup is removed before it is copied back.
UndoAfterDrop(r) ==
    /\ hostReq[r].pc = "undo"
    /\ files' = Removed(IF hostReq[r].op = "add" THEN hostReq[r].file ELSE hostReq[r].backup)
    /\ IF hostReq[r].op = "add" THEN Ends(r) ELSE Go(r, "drop after undo")
    /\ UNCHANGED <<sec, cache, fetch, started, faults, spoiled, overtaken>>

\* rollback: rm -f of the new file, or cp of the backup over it
Undo(r) ==
    /\ hostReq[r].pc = "undo"
    /\ IF hostReq[r].op = "add"
       THEN files' = Removed(hostReq[r].file) /\ Ends(r)
       ELSE files' = Copied(hostReq[r].backup, hostReq[r].file) /\ Go(r, "drop after undo")
    /\ UNCHANGED <<sec, cache, fetch, started, faults, spoiled, overtaken>>

\* rm -f backup_file, by edit_host on success and by both after a rollback
DropCopy(r) ==
    /\ hostReq[r].pc \in {"drop", "drop after undo"}
    /\ files' = Removed(hostReq[r].backup)
    /\ IF hostReq[r].pc = "drop" THEN Go(r, "reload") ELSE Ends(r)
    /\ UNCHANGED <<sec, cache, fetch, started, faults, spoiled, overtaken>>

\* reload_nagios, whose failure is only reported; the cache is invalidated and the
\* request answered.  What was read before is older than this change
Reload(r) ==
    /\ hostReq[r].pc = "reload"
    /\ Ends(r)
    /\ cache' = [valid |-> FALSE, knows |-> FALSE]
    /\ fetch' = {FALSE : k \in fetch}
    /\ overtaken' = (overtaken \/ fetch # {})
    /\ UNCHANGED <<files, sec, started, faults, spoiled>>

\* _ssh_run raises: the request is answered with an error
SshFails(r) ==
    /\ Active(r) /\ faults < MaxFaults
    /\ faults' = faults + 1
    /\ spoiled' = spoiled \cup Holds(r)
    /\ Ends(r)
    /\ UNCHANGED <<files, sec, cache, fetch, started, overtaken>>

\* the agent stops and is started again: its requests are cut off, the cache is empty
AgentRestarts ==
    /\ faults < MaxFaults
    /\ faults' = faults + 1
    /\ spoiled' = spoiled \cup UNION {Holds(r) : r \in Reqs}
    /\ hostReq' = [r \in Reqs |-> NoRequest]
    /\ cache' = [valid |-> FALSE, knows |-> TRUE] /\ fetch' = {}
    /\ UNCHANGED <<files, sec, started, overtaken>>

Second ==
    /\ sec < MaxSeconds /\ sec' = sec + 1
    /\ UNCHANGED <<files, hostReq, cache, fetch, started, faults, spoiled, overtaken>>

(* ---------------- the status cache ---------------- *)

\* get_data: a read that finds no valid cache reads the status file
FetchStatus ==
    /\ ~cache.valid
    /\ fetch' = fetch \cup {TRUE}
    /\ UNCHANGED <<files, hostReq, sec, cache, started, faults, spoiled, overtaken>>

\* refresh_cache: what was read becomes the cache, valid from now on
RefreshCache ==
    /\ \E k \in fetch : cache' = [valid |-> TRUE, knows |-> k] /\ fetch' = fetch \ {k}
    /\ UNCHANGED <<files, hostReq, sec, started, faults, spoiled, overtaken>>

\* CACHE_TTL is over
CacheExpires ==
    /\ cache.valid
    /\ cache' = [cache EXCEPT !.valid = FALSE]
    /\ UNCHANGED <<files, hostReq, sec, fetch, started, faults, spoiled, overtaken>>

Steps(r) == Check(r) \/ Find(r) \/ KeepCopy(r) \/ Change(r) \/ Validate(r)
            \/ Undo(r) \/ DropCopy(r) \/ Reload(r) \/ SshFails(r)

NagiosNext ==
    \/ \E r \in Reqs : \/ \E h \in Hosts, ok \in BOOLEAN :
                             \/ \E op \in {"add", "edit"} : Request(r, op, h, ok)
                             \/ ok /\ Request(r, "delete", h, ok)
                       \/ Steps(r)
    \/ AgentRestarts \/ Second \/ FetchStatus \/ RefreshCache \/ CacheExpires

(* ---------------- properties ---------------- *)

\* A request that rolls back leaves its file as it found it, and one that is
\* answered with success leaves there what it was asked to put there and Nagios
\* accepts, unless another request met it on the file: although the validation of
\* each request fails for another one's mistakes as well.  Of a request that took a
\* deleted host's backup for its file, which Nagios does not read, only the rollback
\* is promised.
AnswerIsTrue(r) ==
    LET f == hostReq[r].file
        now == IF f \in DOMAIN files' THEN files'[f] ELSE NoFile IN
    Active(r) /\ hostReq'[r] = NoRequest /\ faults' = faults /\ f # <<>>
            /\ f \notin spoiled /\ hostReq[r].backup \notin spoiled =>
        IF hostReq[r].pc = "reload"
        THEN Len(f) = 1 => now = IF hostReq[r].op = "delete" THEN NoFile
                                 ELSE HostConfig(hostReq[r].host, TRUE)
        ELSE now = hostReq[r].was

AnswersAreTrue == [][\A r \in Reqs : AnswerIsTrue(r)]_nagiosVars

\* A valid cache was read after the last change that was answered, unless a
\* refresh was under way when a change was answered.
CacheKnowsChanges == cache.valid /\ ~overtaken => cache.knows
=============================================================================
