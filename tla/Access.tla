------------------------------- MODULE Access -------------------------------
(***************************************************************************)
(* Sign-in, users, sessions, API keys and the IP allow-list of nexus_api    *)
(* (routers/auth.py, users.py, ip_allowlist.py, dependencies.py, the        *)
(* request middleware of main.py) and the session store of the portal       *)
(* (authStore.ts, client.ts, Login.tsx).                                    *)
(*                                                                          *)
(* A handler reads its row, computes, and commits: another request may      *)
(* commit in between.  The ORM's UPDATE names only the columns the handler  *)
(* changed, so a request carries the columns it will write ("set") and what *)
(* it read ("seen").  A password is the number of the request that chose it; *)
(* a JWT has no serial number, only its subject and the second it was made, *)
(* so two refresh tokens of one user made in the same second are one token. *)
(* Left out: is_active and module levels other than the allow-list's,       *)
(* which no guard modelled here reads, and the texts of mails and alerts.   *)
(***************************************************************************)
EXTENDS Integers, FiniteSets

CONSTANTS Users, Emails, Roles, Clients, Requests, NULL,
          Limit, Window, AccessTtl, ResetTtl,
          MaxTime, MaxOps

VARIABLES
    now,     \* the clock, in ticks of one second
    rows,    \* table users
    items,   \* tables api_keys and ip_allowlist, one row each
    req,     \* the request each worker of the API is handling
    hits,    \* _rate_limits: the counted calls, per address
    links,   \* password-reset links that were mailed
    tab,     \* access token in the portal's store, per client
    held,    \* refresh token the client was last answered with
    ops,     \* number of requests made (bounded by MaxOps)
    calls,   \* history: every call the limiter let through since the start
    root,    \* history: password the stored refresh token goes back to
    loose,   \* history: users with a session a password change overlapped
    retired  \* history: refresh tokens replaced, cleared, or of an old address

accessVars == <<now, rows, items, req, hits, links, tab, held, ops,
                calls, root, loose, retired>>

history == <<calls, root, loose, retired>>

Token == [sub : Emails, at : 0..MaxTime]

AccessToken == [sub : Emails, at : 0..MaxTime, role : Roles,
                level : {"none", "manage"}]

Row == [email : Emails, role : Roles, perms : {NULL, "none", "manage"},
        pw : 0..MaxOps, rt : Token \cup {NULL}]

ASSUME AccessAssumption ==
    /\ {"admin", "operator"} \subseteq Roles
    /\ Roles \subseteq {"admin", "operator", "reader"}
    /\ {Limit, Window, AccessTtl, ResetTtl, MaxTime, MaxOps} \subseteq Nat
    /\ NULL \notin Users \cup Emails \cup Clients \cup Row \cup Token

\* ApiKey, whose value is the number of the request that made the key, and
\* IpAllowlistEntry, whose value is the set of clients in its network.
Item(values) == [id : 0..MaxOps, active : BOOLEAN, value : values]

Idle == [op |-> "idle"]

-----------------------------------------------------------------------------
(* Who may do what.                                                         *)

\* get_effective_permissions: an administrator has everything, others what
\* was set for them, or else their role's default (none, for the allow-list).
Effective(row) == IF row.role = "admin" THEN "manage"
                  ELSE IF row.perms # NULL THEN row.perms ELSE "none"

\* create_access_token: role and permissions are copied into the token.
NewAccess(row) == [sub |-> row.email, at |-> now, role |-> row.role,
                   level |-> Effective(row)]

\* create_refresh_token.
NewRefresh(row) == [sub |-> row.email, at |-> now]

Expired(tok) == now - tok.at >= AccessTtl

\* The rows with this address: none or one.
WithEmail(e) == {u \in Users : rows[u] # NULL /\ rows[u].email = e}

\* get_current_user: the user whose address the token names now.
CurrentUser(tok) == IF tok = NULL \/ Expired(tok) THEN {}
                    ELSE WithEmail(tok.sub)

\* request_middleware: with no active entry everyone is let in.
IpAllowed(c) == items["ip"] # NULL /\ items["ip"].active =>
                    c \in items["ip"].value

\* The calls of an address the limiter still counts.
Recent(c) == {h \in hits[c] : now - h.at < Window}

\* Variant: the limit is compared after the call was let through.
WithinLimitLate(c) == Cardinality(Recent(c)) <= Limit

\* check_rate_limit: 15 calls a minute per address, kept in memory.
WithinLimit(c) == Cardinality(Recent(c)) < Limit

\* The code's list of times, as a set: the calls of one second are numbered.
CountCall(c) ==
    LET call == [at |-> now,
                 no |-> Cardinality({h \in Recent(c) : h.at = now})]
    IN /\ WithinLimit(c)
       /\ hits' = [hits EXCEPT ![c] = Recent(c) \cup {call}]
       /\ calls' = [calls EXCEPT ![c] = @ \cup {call}]

-----------------------------------------------------------------------------
(* Requests.                                                                *)

Free(r) == req[r].op = "idle" /\ ops < MaxOps

\* A request has read what it needs; the commit is still to come.
Start(r, q) == /\ req' = [req EXCEPT ![r] = q]
               /\ ops' = ops + 1

Pending(op, c, tbl, id, set, seen) ==
    [op |-> op, client |-> c, tbl |-> tbl, id |-> id, set |-> set,
     seen |-> seen, pair |-> NULL,
     origin |-> IF tbl = "users" THEN root[id] ELSE NULL]

\* The response interceptor of client.ts.
SignsOut(code) == code = 401

\* An answer on its way to the client.  Only a pair of tokens and a 401 change
\* anything there; with any other answer the request is over.
Answer(c, code, pair) ==
    IF pair = NULL /\ ~SignsOut(code) THEN Idle
    ELSE [op |-> "answer", client |-> c, pair |-> pair]

\* The columns a handler changed, with their new values: what the ORM writes.
Changed(new, seen) ==
    [f \in {g \in DOMAIN seen : new[g] # seen[g]} |-> new[f]]

\* UPDATE: the columns of set over the row as it is now.
Updated(row, set) ==
    [f \in DOMAIN row |-> IF f \in DOMAIN set THEN set[f] ELSE row[f]]

\* A pair of tokens is made; the refresh token is to be stored and answered.
NewSession(op, c, u) ==
    [Pending(op, c, "users", u, [rt |-> NewRefresh(rows[u])], rows[u])
       EXCEPT !.pair = [access |-> NewAccess(rows[u]),
                        refresh |-> NewRefresh(rows[u])]]

\* login_for_access_token, up to its commit.  A wrong address or password is
\* answered to the sign-in page, which does not use the portal's client.
Login(r, c, e, p) ==
    /\ Free(r) /\ IpAllowed(c)
    /\ CountCall(c)
    /\ \/ \E u \in WithEmail(e) : /\ p = rows[u].pw
                                  /\ Start(r, NewSession("login", c, u))
       \/ /\ \A u \in WithEmail(e) : p # rows[u].pw
          /\ ops' = ops + 1
          /\ UNCHANGED req
    /\ UNCHANGED <<now, rows, items, links, tab, held, root, loose, retired>>

\* refresh_access_token, up to its commit.
Refresh(r, c) ==
    /\ Free(r) /\ IpAllowed(c) /\ held[c] # NULL
    /\ CountCall(c)
    /\ \/ \E u \in WithEmail(held[c].sub) :
            /\ rows[u].rt = held[c]
            /\ Start(r, NewSession("refresh", c, u))
       \/ /\ \A u \in WithEmail(held[c].sub) : rows[u].rt # held[c]
          /\ ops' = ops + 1
          /\ UNCHANGED req
    /\ UNCHANGED <<now, rows, items, links, tab, held, root, loose, retired>>

\* logout, called with the access token.
Logout(r, c) ==
    /\ Free(r) /\ IpAllowed(c)
    /\ \E u \in CurrentUser(tab[c]) :
         Start(r, Pending("logout", c, "users", u,
                          Changed([rows[u] EXCEPT !.rt = NULL], rows[u]), rows[u]))
    /\ UNCHANGED <<now, rows, items, hits, links, tab, held>>
    /\ UNCHANGED history

\* forgot_password: the mail may fail; the answer is the same.
Forgot(c, e) ==
    /\ ops < MaxOps /\ IpAllowed(c)
    /\ CountCall(c)
    /\ ops' = ops + 1
    /\ \/ \E u \in WithEmail(e) : links' = links \cup {[user |-> u, at |-> now]}
       \/ UNCHANGED links
    /\ UNCHANGED <<now, rows, items, req, tab, held, root, loose, retired>>

\* reset_password with a mailed link: only the password is written.
ResetByLink(r, c, l) ==
    /\ Free(r) /\ IpAllowed(c)
    /\ CountCall(c)
    /\ now - l.at < ResetTtl
    /\ Start(r, Pending("link", c, "users", l.user, [pw |-> ops + 1],
                        rows[l.user]))
    /\ UNCHANGED <<now, rows, items, links, tab, held, root, loose, retired>>

-----------------------------------------------------------------------------
(* Calls from the portal, with the access token of its store.               *)

IsAdmin(row) == row.role = "admin"                         \* RequireRole
MayKeys(row) == row.role \in {"admin", "operator"}
MayIp(row) == row.role = "admin" \/ Effective(row) = "manage"

\* What the routes of a table ask for.
May(t, row) == CASE t = "users" -> IsAdmin(row)
                 [] t = "key" -> MayKeys(row)
                 [] t = "ip" -> MayIp(row)

\* The allow-list, the token and then the permission decide.
Verdict(c, t) ==
    IF ~IpAllowed(c) THEN 403
    ELSE IF CurrentUser(tab[c]) = {} THEN 401
    ELSE IF \E u \in CurrentUser(tab[c]) : May(t, rows[u]) THEN 200 ELSE 403

\* A call that is refused: nothing is written and the refusal is answered.
Refused(r, c, t) ==
    /\ Free(r) /\ tab[c] # NULL
    /\ Verdict(c, t) # 200
    /\ Start(r, Answer(c, Verdict(c, t), NULL))
    /\ UNCHANGED <<now, rows, items, hits, links, tab, held>>
    /\ UNCHANGED history

Permitted(r, c, t) ==
    /\ Free(r) /\ tab[c] # NULL
    /\ Verdict(c, t) = 200
    /\ UNCHANGED <<now, rows, items, hits, links, tab, held>>
    /\ UNCHANGED history

\* A row being inserted under this id (ids are given out once; one key and
\* one allow-list entry at a time is a bound of the model).
Creating(t, id) == \E s \in Requests :
                       req[s].op = "create" /\ req[s].tbl = t /\ req[s].id = id

\* create_user: the address is looked up, then inserted.
CreateUser(r, c, u, e, role) ==
    /\ Permitted(r, c, "users")
    /\ rows[u] = NULL /\ WithEmail(e) = {}
    /\ ~Creating("users", u)
    /\ Start(r, Pending("create", c, "users", u,
                        [email |-> e, role |-> role, perms |-> NULL,
                         pw |-> ops + 1, rt |-> NULL], NULL))

\* The row update_user makes of this one; a new password ends the session.
Edited(row, e, role, p) ==
    [row EXCEPT !.email = IF e = NULL THEN @ ELSE e,
                !.role = IF role = NULL THEN @ ELSE role,
                !.pw = IF p = NULL THEN @ ELSE p,
                !.rt = IF p = NULL THEN @ ELSE NULL]

\* update_user: the address may not be another user's.
UpdateUser(r, c, u, e, role, pw) ==
    /\ Permitted(r, c, "users")
    /\ rows[u] # NULL
    /\ e # NULL => WithEmail(e) \subseteq {u}
    /\ pw \in {NULL, ops + 1}
    /\ Start(r, Pending("edit", c, "users", u,
                        Changed(Edited(rows[u], e, role, pw), rows[u]),
                        rows[u]))

\* Variant: an administrator's reset leaves the session alone.
ResetRowKeeps(row, p) == [row EXCEPT !.pw = p]

\* The row of users.reset_password ("Invalidate any active sessions").
ResetRow(row, p) == [row EXCEPT !.pw = p, !.rt = NULL]

\* users.reset_password.
AdminReset(r, c, u) ==
    /\ Permitted(r, c, "users")
    /\ rows[u] # NULL
    /\ Start(r, Pending("reset", c, "users", u,
                        Changed(ResetRow(rows[u], ops + 1), rows[u]),
                        rows[u]))

\* update_user_permissions.
SetPermissions(r, c, u, level) ==
    /\ Permitted(r, c, "users")
    /\ rows[u] # NULL
    /\ Start(r, Pending("perms", c, "users", u,
                        Changed([rows[u] EXCEPT !.perms = level], rows[u]),
                        rows[u]))

\* create_api_key, create_ip_allowlist_entry.
CreateItem(r, c, t, v) ==
    /\ Permitted(r, c, t)
    /\ items[t] = NULL /\ \A id \in 0..MaxOps : ~Creating(t, id)
    /\ Start(r, Pending("create", c, t, ops,
                        [id |-> ops, active |-> TRUE, value |-> v], NULL))

\* toggle_api_key, toggle_ip_entry: the flag that was read is turned over.
ToggleItem(r, c, t) ==
    /\ Permitted(r, c, t)
    /\ items[t] # NULL
    /\ Start(r, Pending("toggle", c, t, items[t].id,
                        [active |-> ~items[t].active], items[t]))

\* rotate_api_key.
RotateKey(r, c) ==
    /\ Permitted(r, c, "key")
    /\ items["key"] # NULL
    /\ Start(r, Pending("rotate", c, "key", items["key"].id, [value |-> ops],
                        items["key"]))

\* revoke_api_key, delete_ip_allowlist_entry.
DeleteItem(r, c, t) ==
    /\ Permitted(r, c, t)
    /\ items[t] # NULL
    /\ Start(r, Pending("delete", c, t, items[t].id, [f \in {} |-> NULL],
                        items[t]))

-----------------------------------------------------------------------------
(* Commits and answers.                                                     *)

Reply(r, code) ==
    req' = [req EXCEPT ![r] = Answer(@.client, code,
                                     IF code = 200 THEN @.pair ELSE NULL)]

\* The unique index on users.email.
EmailFree(q) == "email" \in DOMAIN q.set =>
                    WithEmail(q.set.email) \subseteq {q.id}

\* Another session of the user is being made or renewed.
Renewing(r, u) == \E s \in Requests \ {r} :
                      req[s].op \in {"login", "refresh"} /\ req[s].id = u

\* What a commit that writes user q.id does to the histories: a password
\* change that overlaps a sign-in or a renewal, or that a mailed link makes,
\* leaves a session from before it.
Remember(r, q) ==
    LET u == q.id
    IN /\ root' = CASE q.op = "login" -> [root EXCEPT ![u] = q.seen.pw]
                    [] q.op = "refresh" -> [root EXCEPT ![u] = q.origin]
                    [] OTHER -> root
       /\ loose' = CASE \/ q.op = "link"
                        \/ /\ q.op \in {"reset", "edit"} /\ "pw" \in DOMAIN q.set
                           /\ rows[u].rt # q.seen.rt \/ Renewing(r, u) ->
                          loose \cup {u}
                     [] q.op = "login" /\ ~Renewing(r, u)
                        /\ q.seen.pw = rows[u].pw -> loose \ {u}
                     [] OTHER -> loose
       /\ retired' = retired
            \cup (IF DOMAIN q.set \cap {"rt", "email"} # {} /\ q.op # "create"
                  THEN {rows[u].rt} \ {NULL} ELSE {})
            \cup (IF q.pair # NULL /\ q.seen.email # rows[u].email
                  THEN {q.pair.refresh} ELSE {})
       /\ UNCHANGED calls

\* Variant: the new refresh token is answered but its hash is not stored.
WriteForgets(row, q) ==
    IF q.op = "refresh" THEN row ELSE Updated(row, q.set)

\* UPDATE users, with the columns of the request.
Write(row, q) == Updated(row, q.set)

\* db.commit of a request on table users.
CommitUser(r) ==
    LET q == req[r]
    IN /\ q.op \notin {"idle", "answer"} /\ q.tbl = "users"
       /\ IF EmailFree(q)
            THEN /\ rows' = [rows EXCEPT ![q.id] =
                               IF q.op = "create" THEN q.set ELSE Write(@, q)]
                 /\ Remember(r, q)
                 /\ Reply(r, 200)
            ELSE /\ Reply(r, 500)
                 /\ UNCHANGED <<rows, history>>
       /\ UNCHANGED <<now, items, hits, links, tab, held, ops>>

\* db.commit of a request on an API key or allow-list entry.  A row that is
\* gone fails the update; the answers to a created key or entry cannot be
\* built, although the row is in.
CommitItem(r) ==
    LET q == req[r]
        cur == items[q.tbl]
        there == cur # NULL /\ cur.id = q.id
    IN /\ q.op \notin {"idle", "answer"} /\ q.tbl \in {"key", "ip"}
       /\ CASE q.op = "create" ->
                 /\ items' = [items EXCEPT ![q.tbl] = q.set]
                 /\ Reply(r, 500)
            [] q.op = "delete" ->
                 /\ items' = IF there THEN [items EXCEPT ![q.tbl] = NULL]
                             ELSE items
                 /\ Reply(r, 200)
            [] OTHER ->
                 /\ items' = IF there
                             THEN [items EXCEPT ![q.tbl] = Updated(@, q.set)]
                             ELSE items
                 /\ Reply(r, IF there THEN 200 ELSE 500)
       /\ UNCHANGED <<now, rows, hits, links, tab, held, ops>>
       /\ UNCHANGED history

\* The answer arrives: a sign-in sets the store (setToken), a 401 clears it
\* (logout), whatever token the store has come to hold by then.
ReceiveAnswer(r) ==
    LET q == req[r]
    IN /\ q.op = "answer"
       /\ req' = [req EXCEPT ![r] = Idle]
       /\ tab' = [tab EXCEPT ![q.client] =
                     IF q.pair # NULL THEN q.pair.access ELSE NULL]
       /\ held' = [held EXCEPT ![q.client] =
                     IF q.pair # NULL THEN q.pair.refresh ELSE @]
       /\ UNCHANGED <<now, rows, items, hits, links, ops>>
       /\ UNCHANGED history

\* The answer is lost: the client went away or the connection broke.
LoseAnswer(r) ==
    /\ req[r].op = "answer"
    /\ req' = [req EXCEPT ![r] = Idle]
    /\ UNCHANGED <<now, rows, items, hits, links, tab, held, ops>>
    /\ UNCHANGED history

\* The user signs out of the portal: the store is cleared, the API not told.
SignOut(c) ==
    /\ tab[c] # NULL
    /\ tab' = [tab EXCEPT ![c] = NULL]
    /\ UNCHANGED <<now, rows, items, req, hits, links, held, ops>>
    /\ UNCHANGED history

\* nexus_api restarts: requests are cut off, the limiter starts anew.
Restart ==
    /\ ops < MaxOps
    /\ ops' = ops + 1
    /\ req' = [r \in Requests |-> Idle]
    /\ hits' = [c \in Clients |-> {}]
    /\ calls' = [c \in Clients |-> {}]
    /\ UNCHANGED <<now, rows, items, links, tab, held, root, loose, retired>>

Tick == /\ now < MaxTime
        /\ now' = now + 1
        /\ UNCHANGED <<rows, items, req, hits, links, tab, held, ops>>
        /\ UNCHANGED history

-----------------------------------------------------------------------------
\* An administrator, signed in, and perhaps a second user who is not.
AccessInit ==
    /\ now = 0
    /\ \E admin, second \in Users, e, f \in Emails, c \in Clients :
         LET row(mail, role, rt) == [email |-> mail, role |-> role,
                                     perms |-> NULL, pw |-> 0, rt |-> rt]
             session == [sub |-> e, at |-> 0]
         IN /\ e # f
            /\ rows = [u \in Users |->
                         IF u = admin THEN row(e, "admin", session)
                         ELSE IF u = second THEN row(f, "operator", NULL)
                         ELSE NULL]
            /\ tab = [d \in Clients |->
                        IF d = c THEN NewAccess(row(e, "admin", session))
                        ELSE NULL]
            /\ held = [d \in Clients |-> IF d = c THEN session ELSE NULL]
    /\ items = [t \in {"key", "ip"} |-> NULL]
    /\ req = [r \in Requests |-> Idle]
    /\ hits = [c \in Clients |-> {}]
    /\ links = {}
    /\ ops = 0
    /\ calls = [c \in Clients |-> {}]
    /\ root = [u \in Users |-> 0]
    /\ loose = {}
    /\ retired = {}

\* An edit of a user brings an address, a password or both, or a role.
AccessNext ==
    \/ \E r \in Requests, c \in Clients :
         \/ \E e \in Emails, p \in 0..MaxOps : Login(r, c, e, p)
         \/ Refresh(r, c)
         \/ Logout(r, c)
         \/ \E l \in links : ResetByLink(r, c, l)
         \/ \E t \in {"users", "key", "ip"} : Refused(r, c, t)
         \/ \E u \in Users :
              \/ \E e \in Emails, role \in Roles : CreateUser(r, c, u, e, role)
              \/ \E e \in Emails \cup {NULL}, pw \in {NULL, ops + 1} :
                    UpdateUser(r, c, u, e, NULL, pw)
              \/ \E role \in Roles : UpdateUser(r, c, u, NULL, role, NULL)
              \/ AdminReset(r, c, u)
              \/ \E level \in {"none", "manage"} : SetPermissions(r, c, u, level)
         \/ CreateItem(r, c, "key", ops)
         \/ \E v \in SUBSET Clients \ {{}} : CreateItem(r, c, "ip", v)
         \/ \E t \in {"key", "ip"} : ToggleItem(r, c, t) \/ DeleteItem(r, c, t)
         \/ RotateKey(r, c)
    \/ \E r \in Requests : CommitUser(r) \/ CommitItem(r) \/ ReceiveAnswer(r)
                           \/ LoseAnswer(r)
    \/ \E c \in Clients : SignOut(c) \/ \E e \in Emails : Forgot(c, e)
    \/ Restart
    \/ Tick

AccessSpec == AccessInit /\ [][AccessNext]_accessVars

-----------------------------------------------------------------------------
AccessTypeOK ==
    /\ now \in 0..MaxTime
    /\ rows \in [Users -> Row \cup {NULL}]
    /\ items["key"] \in Item(0..MaxOps) \cup {NULL}
    /\ items["ip"] \in Item(SUBSET Clients) \cup {NULL}
    /\ \A r \in Requests : req[r].op \in {"idle", "answer", "login", "refresh",
         "logout", "link", "create", "edit", "reset", "perms", "toggle",
         "rotate", "delete"}
    /\ \A c \in Clients : /\ hits[c] \subseteq calls[c]
                          /\ tab[c] \in AccessToken \cup {NULL}
                          /\ held[c] \in Token \cup {NULL}
    /\ ops \in 0..MaxOps
    /\ \A u, v \in Users : rows[u] # NULL /\ rows[v] # NULL
         /\ rows[u].email = rows[v].email => u = v

\* An administrator's password change ends the user's session: a refresh
\* token that is still honoured goes back to a sign-in with the password the
\* user has now, unless a sign-in or renewal overlapped the change or the
\* password was changed through a mailed link, which keeps the session
\* (users.py reset_password, update_user; auth.py refresh_access_token).  And the
\* state has its types, one user per address among them.
SessionFollowsPassword ==
    /\ AccessTypeOK
    /\ \A u \in Users : rows[u] # NULL /\ rows[u].rt # NULL =>
         root[u] = rows[u].pw \/ u \in loose

\* The refresh token a client was answered with is honoured until a later
\* commit for the same user replaces or clears it, or the user is renamed
\* (auth.py login_for_access_token, refresh_access_token).
IssuedTokenLives ==
    \A c \in Clients : held[c] # NULL =>
        \/ held[c] \in retired
        \/ \E u \in WithEmail(held[c].sub) : rows[u].rt = held[c]

\* However calls are spread over time, no address gets more than Limit
\* sign-in calls through within any stretch of Window ticks, between two
\* starts of the process (auth.py check_rate_limit).
SignInLimit ==
    \A c \in Clients : \A t \in 0..MaxTime :
        Cardinality({h \in calls[c] : h.at \in t..(t + Window - 1)}) <= Limit
=============================================================================
