------------------------------ MODULE PbxProbe ------------------------------
(* What the PBX agent finds out about a node while somebody waits:             *)
(* verify_target (api/targets.py), diagnostics (api/diagnostics.py), status    *)
(* queries (api/status.py) and the poll of a node for the fleet page           *)
(* (api/fleet.py), over the manager interface, AMI (adapters/ami.py), and SSH  *)
(* (adapters/ssh_system.py).                                                   *)
(*                                                                             *)
(* One request is modelled: requests share nothing but the node.  Its plan is  *)
(* what it still has to do, in the order of its kind; a command in the plan is *)
(* a whole AMI session, whose replies the node sends in its own time, in the   *)
(* order of the actions.                                                       *)
(* A read takes everything that has come.  Of a reply only the action it       *)
(* answers is kept.  Left out: mock mode, the numbers read off the output, the *)
(* wording of results.                                                         *)
EXTENDS Integers, Sequences, FiniteSets

CONSTANTS
    Credentials,    \* the credentials a target may have, see Credential
    MaxSlow,        \* bound: answers that fail or come too late
    MaxNodeChanges  \* bound: times the node changes

\* the private key as it was pasted; "pem" and "base64" are those paramiko can read
KeyForms == {"none", "pem", "base64", "pem other", "text", "ppk", "ppk other"}

\* ami, key, pwd: what is in the vault under the target's aliases; keyright: the node
\* knows the key
Credential == [ami: {"good", "bad"}, key: KeyForms, keyright: BOOLEAN, pwd: {"none", "good", "bad"}]

ASSUME ProbeAssumption ==
    /\ Credentials \subseteq Credential /\ Credentials # {}
    /\ MaxSlow \in Nat /\ MaxNodeChanges \in Nat

VARIABLES
    pbx,      \* the node: what runs on it; pjsip: it has PJSIP endpoints
    target,   \* the credentials of the target
    probe,    \* the request
    slow, changes

probeVars == <<pbx, target, probe, slow, changes>>

(* ---------------- SSH ---------------- *)

\* _convert_ppk_to_openssh: RSA and Ed25519 without a passphrase
convert_ppk_to_openssh(form) == IF form = "ppk" THEN "pem" ELSE "raised"

\* sanitize_ssh_key: headers are put around bare base64; what it does not recognise
\* it returns as it is
sanitize_ssh_key(form) ==
    CASE form \in {"ppk", "ppk other"} -> convert_ppk_to_openssh(form)
      [] form = "base64" -> "pem"
      [] OTHER -> form

\* _get_ssh_client: a key that cannot be converted raises, one that cannot be read
\* gives way to a password
ssh_login(key, pwd) ==
    IF key # "none" /\ sanitize_ssh_key(key) = "raised" THEN "raised"
    ELSE IF key # "none" /\ sanitize_ssh_key(key) = "pem" THEN "key"
    ELSE IF pwd # "none" THEN "password"
    ELSE "raised"

\* ssh.connect
ssh_accepts(how) ==
    /\ pbx.ssh
    /\ \/ how = "key" /\ target.keyright
       \/ how = "password" /\ target.pwd = "good"

SshCommands == {"cpu", "ram", "disk", "pgrep", "version", "channels", "contacts", "peers", "uptime", "cdr"}

\* _parse_system_metrics: what is shown, of the commands that answered
system_metrics(ran) == ran \cap {"cpu", "ram", "disk"}

\* _parse_asterisk_status: nothing more is asked when pgrep does not find Asterisk, and
\* a command that fails costs its own figure only
asterisk_status(ran) ==
    IF "pgrep" \in ran /\ pbx.asterisk THEN ran \ {"cpu", "ram", "disk"} ELSE {}

\* collect_node_snapshot
node_snapshot(key, pwd, ran) ==
    LET ok == ssh_accepts(ssh_login(key, pwd)) IN
    [ssh_ok |-> ok,
     shown |-> IF ok THEN system_metrics(ran) \cup asterisk_status(ran) ELSE {}]

(* ---------------- requests ---------------- *)

Diagnostics == {"ping", "ami_check", "version"}
Statuses == {"peers", "registrations", "channels", "uptime"}

\* api/diagnostics.py
DiagnosticPlan(op) ==
    CASE op = "ping" -> <<"ami port">>
      [] op = "ami_check" -> <<"ami secret", "core show uptime">>
      [] op = "version" -> <<"ami secret", "core show version", "core show uptime">>

\* api/status.py; status_peers asks again when it finds no endpoint
StatusPlan(op) ==
    CASE op = "peers" -> <<"ami secret", "pjsip show endpoints", "sip show peers">>
      [] op = "registrations" -> <<"ami secret", "pjsip show registrations">>
      [] op = "channels" -> <<"ami secret", "core show channels concise">>
      [] op = "uptime" -> <<"ami secret", "core show uptime">>

\* verify_target
VerifyPlan == <<"ami secret", "ssh key", "ssh password", "ssh port", "key login", "password login",
                "ami port", "ami login", "core show version">>

\* _poll_single_target
PollPlan == <<"ssh port", "ssh key", "ssh password", "snapshot", "ami secret", "ami login">>

ProbePlan(op) ==
    CASE op = "verify" -> VerifyPlan
      [] op = "poll" -> PollPlan
      [] op \in Diagnostics -> DiagnosticPlan(op)
      [] op \in Statuses -> StatusPlan(op)

Phases(op) == {ProbePlan(op)[n] : n \in DOMAIN ProbePlan(op)}
Place(op, phase) == CHOOSE n \in DOMAIN ProbePlan(op) : ProbePlan(op)[n] = phase

\* cmd: the command of an AMI session; conn: its connection; owed: actions the node has
\* not answered; inbox: what was not read yet; leaks: connections left open; flags:
\* history of what went wrong; outs: what each command returned; checks: what was found;
\* audit: pbx_audit_events
NoProbe == [op |-> "none", pc |-> "idle", plan |-> {}, cmd |-> "none", conn |-> "none", owed |-> <<>>,
            inbox |-> {}, leaks |-> 0, flags |-> {}, outs |-> {}, checks |-> {}, audit |-> "none",
            answer |-> "none"]

\* a request comes
ProbeStarts(op) ==
    /\ probe.pc = "idle"
    /\ probe' = [NoProbe EXCEPT !.op = op, !.pc = "plan", !.plan = Phases(op)]
    /\ UNCHANGED <<pbx, target, slow, changes>>

\* what the request asks may fail or come too late even when the node is right
Outcomes(truth) == {truth} \cup (IF slow < MaxSlow THEN {FALSE} ELSE {})
Costs(ok, truth) == slow' = IF ok = truth THEN slow ELSE slow + 1
Marked(p, ok, truth) == IF ok = truth THEN p ELSE [p EXCEPT !.flags = @ \cup {"slow"}]

\* phase is the next of the plan
Doing(phase) ==
    /\ probe.pc = "plan" /\ phase \in probe.plan
    /\ \A other \in probe.plan : Place(probe.op, phase) <= Place(probe.op, other)

Finds(p, phase, ok) == [p EXCEPT !.checks = @ \cup {<<phase, ok>>}]
Has(p, phase) == <<phase, TRUE>> \in p.checks

Answers(p, answer, audit) ==
    [p EXCEPT !.pc = "done", !.plan = {}, !.answer = answer, !.audit = audit]

\* the phases of past are done or have no point any more; when no other is left, the answer
Continues(p, past) ==
    IF p.plan \ past # {} THEN [p EXCEPT !.pc = "plan", !.plan = @ \ past]
    ELSE Answers(p, "ok", IF p.op \in Diagnostics THEN "success" ELSE "none")

\* fetch_secret, for the aliases the target has
ProbeFetches(phase, there) ==
    /\ Doing(phase)
    /\ \E ok \in Outcomes(TRUE) :
         /\ there \/ ok
         /\ Costs(ok, TRUE)
         /\ LET p == Marked(IF there THEN Finds(probe, phase, ok) ELSE probe, ok, TRUE) IN
            probe' = IF ok THEN Continues(p, {phase})
                     ELSE IF p.op \in {"verify", "poll"}
                     THEN Continues(p, {phase} \cup IF phase = "ami secret"
                                                    THEN {"ami login", "core show version"} ELSE {})
                     ELSE Answers(p, "502", IF p.op = "ami_check" THEN "error" ELSE "none")
    /\ UNCHANGED <<pbx, target, changes>>

FetchesAmiSecret == ProbeFetches("ami secret", TRUE)
FetchesSshKey == ProbeFetches("ssh key", target.key # "none")
FetchesSshPassword == ProbeFetches("ssh password", target.pwd # "none")

\* check_ssh_connectivity
ChecksSshPort ==
    /\ Doing("ssh port")
    /\ \E ok \in Outcomes(pbx.ssh) :
         /\ Costs(ok, pbx.ssh)
         /\ probe' = Continues(Marked(Finds(probe, "ssh port", ok), ok, pbx.ssh),
                               IF ok THEN {"ssh port"}
                               ELSE IF probe.op = "verify" THEN {"ssh port", "key login", "password login"}
                               ELSE Phases("poll"))
    /\ UNCHANGED <<pbx, target, changes>>

\* collect_node_snapshot, by verify_target with one of the credentials and by the poll
\* with both, those that could be read
LogsInBySsh(phase) ==
    LET key == IF phase # "password login" /\ Has(probe, "ssh key") THEN target.key ELSE "none"
        pwd == IF phase # "key login" /\ Has(probe, "ssh password") THEN target.pwd ELSE "none"
        none == key = "none" /\ pwd = "none" IN
    /\ Doing(phase)
    /\ \E ok \in Outcomes(TRUE), ran \in {SshCommands, SshCommands \ {"pgrep"}, SshCommands \ {"contacts"}} :
         LET snap == IF ok THEN node_snapshot(key, pwd, ran) ELSE [ssh_ok |-> FALSE, shown |-> {}]
             up == "pgrep" \in snap.shown
             p == Marked(IF none THEN probe ELSE Finds(probe, phase, snap.ssh_ok), ok, TRUE) IN
         /\ none => ok
         /\ phase # "snapshot" => ran = SshCommands
         /\ Costs(ok, TRUE)
         /\ probe' = IF phase # "snapshot" THEN Continues(p, {phase})
                     ELSE Continues(Finds(p, "asterisk", up),
                                    {phase} \cup IF up THEN {} ELSE {"ami secret", "ami login"})
    /\ UNCHANGED <<pbx, target, changes>>

\* ami.check_connectivity
ChecksAmiPort ==
    LET truth == pbx.ami /\ pbx.asterisk IN
    /\ Doing("ami port")
    /\ \E ok \in Outcomes(truth) :
         /\ Costs(ok, truth)
         /\ probe' = Continues(Marked(Finds(probe, "ami port", ok), ok, truth),
                               {"ami port"} \cup IF ok THEN {} ELSE {"ami login", "core show version"})
    /\ UNCHANGED <<pbx, target, changes>>

(* ---------------- an AMI session ---------------- *)

AmiCommands == {"core show uptime", "core show version", "core show channels concise",
                "pjsip show endpoints", "pjsip show registrations", "sip show peers"}
InSession == probe.pc \in {"banner", "login", "events", "reply"}

\* the session has ended, how being "ok" or the error it raised; got is what was read.
\* ami_check answers what it found, every other request passes errors on.
SessionEnds(p, how, got) ==
    LET ok == how = "ok"
        q == Finds([p EXCEPT !.cmd = "none", !.conn = "none", !.owed = <<>>, !.inbox = {},
                             !.outs = IF ok /\ p.cmd # "ami login" THEN @ \cup {<<p.cmd, got>>} ELSE @],
                   p.cmd, ok)
        found == p.cmd = "pjsip show endpoints" /\ pbx.pjsip /\ p.cmd \in got IN
    IF p.op \in {"verify", "poll"} THEN Continues(q, {p.cmd} \cup IF ok THEN {} ELSE {"core show version"})
    ELSE IF ok THEN Continues(q, {p.cmd} \cup IF found THEN {"sip show peers"} ELSE {})
    ELSE IF how = "oserror" THEN Answers(q, "500", "none")
    ELSE IF p.op = "ami_check" THEN Answers(q, "not ok", "error")
    ELSE Answers(q, "502", "none")

\* _ami_connect: the connection is made, or not
AmiConnects ==
    LET truth == pbx.ami /\ pbx.asterisk IN
    \E cmd \in AmiCommands \cup {"ami login"}, ok \in Outcomes(truth) :
        LET p == [Marked(probe, ok, truth) EXCEPT !.cmd = cmd] IN
        /\ Doing(cmd)
        /\ Costs(ok, truth)
        /\ probe' = IF ok THEN [p EXCEPT !.pc = "banner", !.conn = "open"] ELSE SessionEnds(p, "amierror", {})
        /\ UNCHANGED <<pbx, target, changes>>

\* the banner is read, or the end of the stream, and Login sent
ReadsBanner ==
    /\ probe.pc = "banner" /\ probe.conn \in {"open", "eof"}
    /\ probe' = [probe EXCEPT !.pc = "login", !.owed = <<"Login">>]
    /\ UNCHANGED <<pbx, target, slow, changes>>

\* a block has come that ends the read, or the stream has ended
Readable == probe.conn \in {"open", "eof"} /\ (probe.inbox # {} \/ probe.conn = "eof")

\* the reply to Login: the connection is closed unless it is accepted
ReadsLogin ==
    /\ probe.pc = "login" /\ Readable
    /\ probe' = IF "Login accepted" \in probe.inbox
                THEN [probe EXCEPT !.pc = "events", !.inbox = {}, !.owed = Append(@, "Events")]
                ELSE SessionEnds(probe, "amierror", {})
    /\ UNCHANGED <<pbx, target, slow, changes>>

\* check_ami_login logs off here; a command is sent
LoggedIn(p) ==
    IF p.cmd = "ami login" THEN SessionEnds(p, "ok", {})
    ELSE [p EXCEPT !.pc = "reply", !.owed = Append(@, p.cmd)]

\* Variant: the command is sent without waiting for the reply to Events.
ReadsEventsAtOnce ==
    /\ probe.pc = "events"
    /\ probe' = LoggedIn([probe EXCEPT !.inbox = {}])
    /\ UNCHANGED <<pbx, target, slow, changes>>

\* the reply to Events, or whatever came in its place, is read and dropped
ReadsEvents ==
    /\ probe.pc = "events" /\ Readable
    /\ probe' = LoggedIn([probe EXCEPT !.inbox = {}])
    /\ UNCHANGED <<pbx, target, slow, changes>>

\* _read_command_output: all there is once any reply is among it
ReadsCommand ==
    /\ probe.pc = "reply" /\ probe.conn \in {"open", "eof"}
    /\ probe.inbox \ {"event"} # {} \/ probe.conn = "eof"
    /\ probe' = SessionEnds(probe, "ok", probe.inbox)
    /\ UNCHANGED <<pbx, target, slow, changes>>

\* nothing has come in time that ends the read
Silent == IF probe.pc = "reply" THEN probe.inbox \subseteq {"event"} ELSE probe.inbox = {}

\* without the banner the connection is closed, without the reply to Login it is not;
\* the one to Events is not needed; a command is logged off
SessionGivesUp(p) ==
    CASE p.pc = "events" -> LoggedIn([p EXCEPT !.flags = @ \cup {"late"}])
      [] p.pc = "login" -> SessionEnds([p EXCEPT !.leaks = @ + 1, !.flags = @ \cup {"deaf"}], "amierror", {})
      [] OTHER -> SessionEnds(p, "amierror", {})

SessionTimesOut ==
    /\ InSession /\ probe.conn = "open" /\ Silent /\ slow < MaxSlow
    /\ slow' = slow + 1
    /\ probe' = SessionGivesUp([probe EXCEPT !.flags = @ \cup {"slow"}])
    /\ UNCHANGED <<pbx, target, changes>>

\* a read or a write fails with an OSError, which only check_ami_login and verify_target
\* catch; there is no connection any more
SessionBreaks ==
    /\ InSession /\ probe.conn = "reset"
    /\ probe' = SessionEnds(probe, IF probe.cmd = "ami login" THEN "amierror" ELSE "oserror", {})
    /\ UNCHANGED <<pbx, target, slow, changes>>

(* ---------------- the node ---------------- *)

\* it answers the first action it has not answered
NodeReplies ==
    /\ probe.conn = "open" /\ probe.owed # <<>>
    /\ probe' = [probe EXCEPT !.owed = Tail(@),
                              !.inbox = @ \cup {IF Head(probe.owed) # "Login" THEN Head(probe.owed)
                                                ELSE IF target.ami = "good" THEN "Login accepted"
                                                ELSE "Login refused"}]
    /\ UNCHANGED <<pbx, target, slow, changes>>

\* until it has turned them off it may send an event
NodeSendsEvent ==
    /\ probe.conn = "open" /\ slow < MaxSlow
    /\ \/ probe.pc = "login" /\ "Login accepted" \in probe.inbox
       \/ \E n \in DOMAIN probe.owed : probe.owed[n] = "Events"
    /\ slow' = slow + 1
    /\ probe' = [probe EXCEPT !.inbox = @ \cup {"event"}, !.flags = @ \cup {"event"}]
    /\ UNCHANGED <<pbx, target, changes>>

\* the node closes the connection, or breaks it off
NodeHangsUp(how) ==
    /\ probe.conn = "open" /\ slow < MaxSlow
    /\ slow' = slow + 1
    /\ probe' = [probe EXCEPT !.conn = how, !.owed = <<>>, !.flags = @ \cup {"slow", "hung"}]
    /\ UNCHANGED <<pbx, target, changes>>

\* something on the node starts or stops; a connection does not survive Asterisk
NodeChanges(what) ==
    /\ probe.pc # "done" /\ changes < MaxNodeChanges
    /\ changes' = changes + 1
    /\ pbx' = [pbx EXCEPT ![what] = ~@]
    /\ probe' = [probe EXCEPT !.flags = IF probe.pc = "idle" THEN @ ELSE @ \cup {"moved"},
                              !.conn = IF what = "asterisk" /\ @ = "open" THEN "reset" ELSE @]
    /\ UNCHANGED <<target, slow>>

ProbeInit ==
    /\ pbx \in [ssh: {TRUE}, ami: {TRUE}, asterisk: {TRUE}, pjsip: BOOLEAN]
    /\ target \in Credentials
    /\ probe = NoProbe /\ slow = 0 /\ changes = 0

ProbeNext ==
    \/ \E op \in Diagnostics \cup Statuses \cup {"verify", "poll"} : ProbeStarts(op)
    \/ FetchesAmiSecret \/ FetchesSshKey \/ FetchesSshPassword
    \/ ChecksSshPort \/ ChecksAmiPort
    \/ \E phase \in {"key login", "password login", "snapshot"} : LogsInBySsh(phase)
    \/ AmiConnects \/ ReadsBanner \/ ReadsLogin \/ ReadsEvents \/ ReadsCommand
    \/ SessionTimesOut \/ SessionBreaks
    \/ NodeReplies \/ NodeSendsEvent \/ \E how \in {"eof", "reset"} : NodeHangsUp(how)
    \/ \E p \in {"ssh", "ami", "asterisk"} : NodeChanges(p)

(* ---------------- properties ---------------- *)

\* What a command returns is the node's reply to it and nothing else, unless the reply
\* to Events was late, an event came in its place or the node hung up; even then it is
\* never another command's reply (ami.py:127, 158).
OutputIsOwn ==
    \A o \in probe.outs :
        /\ o[2] = {o[1]} \/ probe.flags \cap {"late", "event", "hung"} # {}
        /\ o[2] \subseteq {o[1], "Events", "event"}

\* No connection is left open, except one on which the reply to Login never came.
NothingLeftOpen == probe.leaks > 0 => "deaf" \in probe.flags

Done(op) == probe.op = op /\ probe.pc = "done" /\ "moved" \notin probe.flags

\* Where the node did not change in the meantime: a target all of whose checks passed
\* has credentials the node accepts, each of them, and one whose credentials are right
\* passes all of them unless something was slow (targets.py:363).
VerifyIsTrue ==
    LET right == /\ pbx.ssh /\ pbx.ami /\ pbx.asterisk /\ target.ami = "good"
                 /\ target.key # "none" => target.keyright /\ sanitize_ssh_key(target.key) = "pem"
                 /\ target.pwd # "bad" IN
    Done("verify") =>
        /\ (\A c \in probe.checks : c[2]) => right
        /\ right /\ probe.flags = {} => \A c \in probe.checks : c[2]

\* What the fleet page shows of a node that did not change is so (fleet.py:72), and
\* ami_check tells the right secret from the wrong one (diagnostics.py:81).
FindingsAreTrue ==
    /\ Done("poll") =>
         /\ Has(probe, "ssh port") => pbx.ssh
         /\ Has(probe, "asterisk") => pbx.asterisk
         /\ Has(probe, "ami login") => pbx.ami /\ target.ami = "good"
         /\ Has(probe, "snapshot") => target.keyright \/ target.pwd = "good"
    /\ Done("ami_check") =>
         /\ probe.answer = "ok" => target.ami = "good"
         /\ probe.answer = "not ok" /\ probe.flags = {} => target.ami = "bad" \/ ~pbx.ami \/ ~pbx.asterisk

\* What the PBX agent says of a node is true of it.
ProbesAreTrue == OutputIsOwn /\ NothingLeftOpen /\ VerifyIsTrue /\ FindingsAreTrue
=============================================================================
