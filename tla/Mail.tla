-------------------------------- MODULE Mail --------------------------------
(* Mailboxes: the Brain's credential route (nexus_api/brain/credentials.py),   *)
(* which puts a password in the vault and has the e-mail agent apply it, the   *)
(* agent's SSH bridge and the scripts it runs on the mail server               *)
(* (scripts/_deploy_mail_bridge.py), the agent's list of mailboxes             *)
(* (services/mailbox_stats.py), and sending (services/smtp.py).                *)
(*                                                                             *)
(* A password is the number of the request that brought it; 0 is none.  The    *)
(* Brain, the vault, the agent and a script answer one another over            *)
(* connections that may fail at any of their steps; whoever was called may go  *)
(* on when the caller has given up.  Left out: mail aliases and the numbers of *)
(* a snapshot; reading mail and sent-mail statistics are in MailReading.       *)
EXTENDS Integers, FiniteSets

CONSTANTS
    Mailboxes,     \* addresses
    AliasOf,       \* the vault alias made of each address
    MailReqs,      \* credential requests in progress at the same time, at most
    MaxMailOps,    \* bound: requests to the mail server
    MaxMailFaults, \* bound: failed connections, restarts of the agent
    MaxWaiting     \* bound: refreshes waiting for the lock

ASSUME MailAssumption ==
    /\ IsFiniteSet(Mailboxes) /\ DOMAIN AliasOf = Mailboxes
    /\ MaxMailOps \in Nat /\ MaxMailFaults \in Nat /\ MaxWaiting \in Nat \ {0}

VARIABLES
    box,       \* the mail server's table: is the mailbox there, active, its password
    stored,    \* the vault: password by alias
    order,     \* credential requests
    issued,    \* requests made
    mailFaults,
    list,      \* _bulk_cache, _bulk_cache_ts, _refreshing: loaded, its addresses, not older than the TTL, being refreshed
    snapshots, \* mailbox_stat_snapshots
    loading,   \* a read that found no cache: the rows it got
    refresh,   \* refresh_stats in the background ("bg") and asked for by a user ("manual")
    waiting    \* background refreshes that have not taken the lock

mailVars == <<box, stored, order, issued, mailFaults, list, snapshots, loading, refresh, waiting>>
provisionVars == <<box, stored, order>>
listVars == <<list, snapshots, loading, refresh, waiting>>

Vaults == {AliasOf[m] : m \in Mailboxes}
There == {m \in Mailboxes : box[m].there}

(* ---------------- credential requests ---------------- *)

NoOrder == [pc |-> "idle"]
Open(q) == order[q].pc # "idle"

Fault == mailFaults < MaxMailFaults /\ mailFaults' = mailFaults + 1
NoFault == UNCHANGED mailFaults

MailInit ==
    /\ box = [m \in Mailboxes |-> [there |-> FALSE, active |-> FALSE, pw |-> 0]]
    /\ stored = [k \in Vaults |-> 0]
    /\ order = [q \in MailReqs |-> NoOrder]
    /\ issued = 0 /\ mailFaults = 0
    /\ list = [loaded |-> FALSE, of |-> {}, fresh |-> FALSE, refreshing |-> FALSE]
    /\ snapshots = {}
    /\ loading = [on |-> FALSE, rows |-> {}]
    /\ refresh = [k \in {"bg", "manual"} |-> [pc |-> "idle", got |-> {}]]
    /\ waiting = 0

\* email_mailbox_credential: a user creates a mailbox or resets its password
Provision(q, m, act) ==
    /\ ~Open(q) /\ issued < MaxMailOps
    /\ issued' = issued + 1
    /\ LET met == {p \in MailReqs \ {q} : Open(p) /\ AliasOf[order[p].m] = AliasOf[m]}
           new == [pc |-> "look", m |-> m, act |-> act, pw |-> issued + 1, got |-> 0,
                   known |-> FALSE, made |-> FALSE, heard |-> TRUE, ok |-> FALSE, alone |-> met = {}]
       IN  order' = [p \in MailReqs |->
                        IF p = q THEN new
                        ELSE IF p \in met THEN [order[p] EXCEPT !.alone = FALSE] ELSE order[p]]
    /\ NoFault /\ UNCHANGED <<box, stored, listVars>>

To(q, pc) == order' = [order EXCEPT ![q].pc = pc]
Closed(q) == order' = [order EXCEPT ![q] = NoOrder]

\* store_credential_in_vault: is there a secret of that alias?
LookInVault(q) ==
    /\ order[q].pc = "look"
    /\ order' = [order EXCEPT ![q].pc = "store", ![q].known = stored[AliasOf[order[q].m]] # 0]
    /\ NoFault /\ UNCHANGED <<box, stored, issued, listVars>>

\* ... it is rotated, or created: an alias that has appeared since is refused
StoreRefused(q) == ~order[q].known /\ stored[AliasOf[order[q].m]] # 0

StoreInVault(q) ==
    /\ order[q].pc = "store"
    /\ IF StoreRefused(q)
       THEN Closed(q) /\ UNCHANGED stored
       ELSE To(q, "resolve") /\ stored' = [stored EXCEPT ![AliasOf[order[q].m]] = order[q].pw]
    /\ NoFault /\ UNCHANGED <<box, issued, listVars>>

\* _resolve_password: the agent reads the secret of that alias
ResolvePassword(q) ==
    /\ order[q].pc = "resolve"
    /\ order' = [order EXCEPT ![q].pc = "check", ![q].got = stored[AliasOf[order[q].m]]]
    /\ NoFault /\ UNCHANGED <<box, stored, issued, listVars>>

\* create_mailbox, set_password (scripts): is the mailbox there?
ScriptChecks(q) ==
    /\ order[q].pc = "check"
    /\ LET there == box[order[q].m].there
       IN  order' = [order EXCEPT
               ![q].pc = IF there = (order[q].act = "reset") THEN "write" ELSE "reply",
               ![q].ok = there /\ order[q].act = "create"]   \* already_exists
    /\ NoFault /\ UNCHANGED <<box, stored, issued, listVars>>

\* ... INSERT INTO mailbox: a second one of the same key fails
InsertMailbox(q) ==
    /\ order[q].pc = "write" /\ order[q].act = "create"
    /\ LET m == order[q].m
       IN  IF box[m].there
           THEN To(q, "reply") /\ UNCHANGED box
           ELSE /\ box' = [box EXCEPT ![m] = [there |-> TRUE, active |-> TRUE, pw |-> order[q].got]]
                /\ order' = [order EXCEPT ![q].pc = "reply", ![q].ok = TRUE, ![q].made = TRUE]
    /\ NoFault /\ UNCHANGED <<stored, issued, listVars>>

\* UPDATE mailbox SET password
WithPassword(m, pw) == [box EXCEPT ![m].pw = pw]

UpdatePassword(q) ==
    /\ order[q].pc = "write" /\ order[q].act = "reset"
    /\ box' = WithPassword(order[q].m, order[q].got)
    /\ order' = [order EXCEPT ![q].pc = "reply", ![q].ok = TRUE]
    /\ NoFault /\ UNCHANGED <<stored, issued, listVars>>

\* The answer travels back: AdminResponse, then EmailCredentialResponse
AnswerOrder(q) ==
    /\ order[q].pc = "reply"
    /\ Closed(q)
    /\ NoFault /\ UNCHANGED <<box, stored, issued, listVars>>

\* A connection of the Brain to the vault, of the agent to the vault or of the
\* bridge to the mail server fails before its request is taken
CallFails(q) ==
    /\ order[q].pc \in {"look", "store", "resolve", "check"}
    /\ Closed(q)
    /\ Fault /\ UNCHANGED <<box, stored, issued, listVars>>

\* The vault's answer is lost: the password is stored and the request ends
StoreLost(q) ==
    /\ order[q].pc = "store" /\ ~StoreRefused(q)
    /\ stored' = [stored EXCEPT ![AliasOf[order[q].m]] = order[q].pw]
    /\ Closed(q)
    /\ Fault /\ UNCHANGED <<box, issued, listVars>>

\* The Brain gives up after 30 s, or the bridge after 15: the user is told of a
\* failure and the agent, or the script, goes on
GivesUp(q) ==
    /\ order[q].pc \in {"resolve", "check", "write", "reply"} /\ order[q].heard
    /\ order' = [order EXCEPT ![q].heard = FALSE]
    /\ Fault /\ UNCHANGED <<box, stored, issued, listVars>>

\* create_mailbox (script), stopped by set -e after the mailbox' row is in
ScriptStops(q) ==
    /\ order[q].pc = "write" /\ order[q].act = "create" /\ ~box[order[q].m].there
    /\ box' = [box EXCEPT ![order[q].m] = [there |-> TRUE, active |-> TRUE, pw |-> order[q].got]]
    /\ To(q, "reply")
    /\ Fault /\ UNCHANGED <<stored, issued, listVars>>

\* disable_mailbox: api and script
DisableMailbox(m) ==
    /\ issued < MaxMailOps /\ issued' = issued + 1
    /\ box[m].there /\ box[m].active
    /\ box' = [box EXCEPT ![m].active = FALSE]
    /\ NoFault /\ UNCHANGED <<stored, order, listVars>>

(* ---------------- the list of mailboxes ---------------- *)

\* get_bulk_stats_cached starts a refresh unless one is on
Wakes == IF list.refreshing \/ waiting >= MaxWaiting THEN waiting ELSE waiting + 1

\* get_bulk_stats_cached, with a cache
ReadList ==
    /\ list.loaded /\ ~list.fresh
    /\ waiting' = Wakes
    /\ NoFault /\ UNCHANGED <<provisionVars, issued, list, snapshots, loading, refresh>>

\* ... without one it asks the table first
LoadBegins ==
    /\ ~list.loaded /\ ~loading.on
    /\ loading' = [on |-> TRUE, rows |-> snapshots]
    /\ NoFault /\ UNCHANGED <<provisionVars, issued, list, snapshots, refresh, waiting>>

LoadEnds ==
    /\ loading.on
    /\ loading' = [on |-> FALSE, rows |-> {}]
    /\ IF loading.rows # {}
       THEN list' = [list EXCEPT !.loaded = TRUE, !.of = loading.rows, !.fresh = TRUE] /\ UNCHANGED waiting
       ELSE waiting' = Wakes /\ UNCHANGED list
    /\ NoFault /\ UNCHANGED <<provisionVars, issued, snapshots, refresh>>

\* the time to live of the cache is over
ListExpires ==
    /\ list.fresh /\ list' = [list EXCEPT !.fresh = FALSE]
    /\ NoFault /\ UNCHANGED <<provisionVars, issued, snapshots, loading, refresh, waiting>>

\* _background_refresh takes the lock, and returns if a refresh is on
BackgroundStarts ==
    /\ waiting > 0 /\ refresh["bg"].pc = "idle"
    /\ waiting' = waiting - 1
    /\ IF list.refreshing
       THEN UNCHANGED <<list, refresh>>
       ELSE /\ refresh' = [refresh EXCEPT !["bg"].pc = "ask"]
            /\ list' = [list EXCEPT !.refreshing = TRUE]
    /\ NoFault /\ UNCHANGED <<provisionVars, issued, snapshots, loading>>

\* trigger_refresh: the button of the page
TriggerRefresh ==
    /\ issued < MaxMailOps /\ issued' = issued + 1
    /\ refresh["manual"].pc = "idle"
    /\ refresh' = [refresh EXCEPT !["manual"].pc = "ask"]
    /\ list' = [list EXCEPT !.refreshing = TRUE]
    /\ NoFault /\ UNCHANGED <<provisionVars, snapshots, loading, waiting>>

\* batch_mailbox_stats: the mailboxes there are
BatchStats(k) ==
    /\ refresh[k].pc = "ask"
    /\ refresh' = [refresh EXCEPT ![k] = [pc |-> "save", got |-> There]]
    /\ NoFault /\ UNCHANGED <<provisionVars, issued, list, snapshots, loading, waiting>>

\* refresh_stats: the rows are inserted or updated, none removed; then the cache
SaveStats(k) ==
    /\ refresh[k].pc = "save"
    /\ snapshots' = snapshots \cup refresh[k].got
    /\ list' = [loaded |-> TRUE, of |-> refresh[k].got, fresh |-> TRUE, refreshing |-> FALSE]
    /\ refresh' = [refresh EXCEPT ![k] = [pc |-> "idle", got |-> {}]]
    /\ NoFault /\ UNCHANGED <<provisionVars, issued, loading, waiting>>

\* Variant: a refresh that fails leaves the flag up.
FlagKept == list

\* finally: _refreshing = False
FlagCleared == [list EXCEPT !.refreshing = FALSE]

\* ... the bridge, the script or the database fails
RefreshFails(k) ==
    /\ refresh[k].pc # "idle"
    /\ list' = FlagCleared
    /\ refresh' = [refresh EXCEPT ![k] = [pc |-> "idle", got |-> {}]]
    /\ Fault /\ UNCHANGED <<provisionVars, issued, snapshots, loading, waiting>>

\* The e-mail agent restarts: what it was doing is gone, a script it has started goes on
EmailAgentRestarts ==
    /\ order' = [q \in MailReqs |->
                    CASE order[q].pc = "resolve" -> NoOrder
                      [] order[q].pc \in {"check", "write", "reply"} -> [order[q] EXCEPT !.heard = FALSE]
                      [] OTHER -> order[q]]
    /\ list' = [loaded |-> FALSE, of |-> {}, fresh |-> FALSE, refreshing |-> FALSE]
    /\ loading' = [on |-> FALSE, rows |-> {}]
    /\ refresh' = [k \in {"bg", "manual"} |-> [pc |-> "idle", got |-> {}]]
    /\ waiting' = 0
    /\ Fault /\ UNCHANGED <<box, stored, issued, snapshots>>

OrderSteps(q) ==
    \/ LookInVault(q) \/ StoreInVault(q) \/ ResolvePassword(q) \/ ScriptChecks(q)
    \/ InsertMailbox(q) \/ UpdatePassword(q) \/ AnswerOrder(q)

OrderFaults(q) == CallFails(q) \/ StoreLost(q) \/ GivesUp(q) \/ ScriptStops(q)

RefreshSteps == BackgroundStarts \/ \E k \in {"bg", "manual"} : BatchStats(k) \/ SaveStats(k)
ListReads == ReadList \/ LoadBegins \/ LoadEnds

\* create_mailbox (api) as the list sees it: of all the steps of its request only
\* the INSERT changes what a refresh collects
MailboxAppears(m) ==
    /\ issued < MaxMailOps /\ issued' = issued + 1
    /\ ~box[m].there
    /\ box' = [box EXCEPT ![m] = [there |-> TRUE, active |-> TRUE, pw |-> issued + 1]]
    /\ NoFault /\ UNCHANGED <<stored, order, listVars>>

\* The list reads nothing of the credential requests but which mailboxes are
\* there, and they read nothing of it: each of the two is explored by itself.
CredentialNext ==
    \/ \E q \in MailReqs :
        \/ \E m \in Mailboxes, act \in {"create", "reset"} : Provision(q, m, act)
        \/ OrderSteps(q) \/ OrderFaults(q)
    \/ \E m \in Mailboxes : DisableMailbox(m)
    \/ EmailAgentRestarts

ListNext ==
    \/ \E m \in Mailboxes : MailboxAppears(m)
    \/ ListReads \/ ListExpires \/ RefreshSteps \/ TriggerRefresh
    \/ \E k \in {"bg", "manual"} : RefreshFails(k)
    \/ EmailAgentRestarts

(* ---------------- sending ---------------- *)

VARIABLE sending   \* a message: where it is, copies the mail server took, was an acceptance not heard of

SendInit == sending = [pc |-> "idle", copies |-> 0, unheard |-> FALSE, ok |-> FALSE]

\* send_email (api)
SendRequest ==
    /\ sending.pc = "idle"
    /\ sending' = [sending EXCEPT !.pc = "smtp"]

Taken(unheard) == [sending EXCEPT !.copies = @ + 1, !.unheard = @ \/ unheard]

\* aiosmtplib.send: the server takes the message, and says so; or the connection,
\* the sign-in or the 15 s fail before or after it has taken it
SendSmtp ==
    /\ sending.pc = "smtp"
    /\ sending' \in {[Taken(FALSE) EXCEPT !.pc = "keep"],
                     [sending EXCEPT !.pc = "bridge"],
                     [Taken(TRUE) EXCEPT !.pc = "bridge"]}

\* _save_to_sent_folder swallows its failures; the message is answered "ok"
SaveToSentFolder ==
    /\ sending.pc = "keep"
    /\ sending' = [sending EXCEPT !.pc = "done", !.ok = TRUE]

\* _send_via_bridge: sendmail takes it, ends with an error, or the connection fails
\* before or after that
SendViaBridge ==
    /\ sending.pc = "bridge"
    /\ sending' \in {[Taken(FALSE) EXCEPT !.pc = "keep"],
                     [sending EXCEPT !.pc = "done"],
                     [Taken(TRUE) EXCEPT !.pc = "done"]}

SendNext == SendRequest \/ SendSmtp \/ SaveToSentFolder \/ SendViaBridge

(* ---------------- properties ---------------- *)

\* A message answered "ok" was taken by the mail server; it was taken twice, or
\* taken and answered as failed, only when the server's acceptance was not heard
\* of: the copy in the Sent folder is no cause (smtp.py:79).
SendsAreTrue ==
    sending.pc = "done" =>
        /\ sending.ok => sending.copies > 0
        /\ (sending.copies > 1 \/ (sending.copies = 1 /\ ~sending.ok)) => sending.unheard

\* A reset, or the creation of a mailbox that was not there, that is about to be
\* answered "ok" to a user still waiting, and that no other request for the same
\* vault alias ran beside (the late script of one given up on included), has left
\* the user's password both in the vault and on the mail server, whatever failed
\* before (credentials.py:213, _deploy_mail_bridge.py:268).
OkMeansSet ==
    \A q \in MailReqs :
        (Open(q) /\ order[q].pc = "reply" /\ order[q].ok /\ order[q].heard /\ order[q].alone
                /\ (order[q].act = "reset" \/ order[q].made))
            => /\ box[order[q].m].pw = order[q].pw
               /\ stored[AliasOf[order[q].m]] = order[q].pw

\* What the users of the e-mail agent are told is so.
MailAnswersAreTrue == OkMeansSet /\ SendsAreTrue
=============================================================================
