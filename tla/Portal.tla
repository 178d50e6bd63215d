-------------------------------- MODULE Portal --------------------------------
(***************************************************************************)
(* How a page of the portal lives with its requests: TanStack Query keeps  *)
(* one copy of every answer, a mutation's onSuccess invalidates keys,      *)
(* closes views and shows secrets, and the user opens, closes and submits  *)
(* while calls are under way.  The pages themselves are in PortalPages.    *)
(* Of a copy only its age counts: "fresh" when it has seen every change,   *)
(* "behind" when the page is responsible for asking again, "excused" when  *)
(* the page cannot know that it is behind.                                 *)
(***************************************************************************)
EXTENDS PortalPages, Sequences

CONSTANTS Records,    \* rows of the page's table
          MaxOps,     \* mutations the user submits
          MaxFaults   \* requests that fail on the way

ASSUME PortalAssumption ==
  /\ Records \cap {"list", "jobs", "detail", "new", "none"} = {}
  /\ MaxOps \in Nat /\ MaxFaults \in Nat

VARIABLES page,       \* the page that is open
          copy,       \* per slot: the copy on show
          fetch,      \* per slot: the query's request
          view,       \* dialog, the record it is for, the record of the drawer
          reqs,       \* mutations that are not over
          ops,        \* mutations submitted so far
          due,        \* slots a setTimeout will invalidate
          result,     \* secrets on show, by the place they are shown in
          armed,      \* places whose countdown is running
          faults,
          stray       \* a revealed key survived its drawer

portalVars == <<page, copy, fetch, view, reqs, ops, due, result, armed, faults, stray>>

NewRec == "new"
NoRec  == "none"
Homes  == {"drawer", "dialog", "modal"}
Slots  == {"list", "jobs"} \cup Records
NoView == [dialog |-> "none", rec |-> NoRec, drawer |-> NoRec]

\* A mutation: "sent", "done" on the server, "over" once answered; "job" while
\* what it queued has not run; "gone" when the modal it came from was closed.
Request(op, rec) == [op |-> op, rec |-> rec, st |-> "sent", job |-> FALSE, gone |-> FALSE]

P == PageOf(page)
Ids == DOMAIN reqs
OpOf(i) == P.ops[reqs[i].op]
InFlight(op) == \E i \in Ids : reqs[i].op = op /\ reqs[i].st # "over"

\* The slots some keys stand for when the record is r.
SlotsOf(keys, r) ==
  (keys \ {"detail"}) \cup (IF "detail" \in keys /\ r \in Records THEN {r} ELSE {})
\* The page observes its tables, and the detail of the record in the drawer.
Observed == SlotsOf(P.queries.asks, view.drawer)
Polled   == SlotsOf(P.queries.polls, view.drawer)

\* Variant: an invalidation joins the request under way.
InvalidateJoins(f, slots) ==
  [s \in Slots |-> IF s \in slots \cap Observed /\ f[s] = "idle" THEN "fresh" ELSE f[s]]
\* invalidateQueries restarts the request of an observed query; a query nobody
\* observes is only marked, and is asked again when it is observed.
Invalidate(f, slots) ==
  [s \in Slots |-> IF s \in slots \cap Observed THEN "fresh" ELSE f[s]]
\* A query that becomes observed is asked again, unless its request is under way.
Observe(f, slots) ==
  [s \in Slots |-> IF s \in slots /\ f[s] = "idle" THEN "fresh" ELSE f[s]]

\* A change on the server: copies on show, and those answers on their way that
\* were read before it, are old.
Age(slots, how) ==
  /\ copy' = [s \in Slots |-> IF s \in slots /\ copy[s] # "excused" THEN how ELSE copy[s]]
  /\ \E read \in SUBSET {s \in slots : fetch[s] = "fresh"} :
       fetch' = [s \in Slots |-> IF s \in read THEN "old" ELSE fetch[s]]
\* The page is not told of a change these slots have missed.
Excuse(slots) ==
  [s \in Slots |-> IF s \in slots /\ copy[s] = "behind" THEN "excused" ELSE copy[s]]

\* A request is forgotten when it has been answered and its job has run.
Without(i) == SubSeq(reqs, 1, i - 1) \o SubSeq(reqs, i + 1, Len(reqs))
Finish(i, q) == IF q.st = "over" /\ ~q.job THEN Without(i) ELSE [reqs EXCEPT ![i] = q]

\* Closing a modal unmounts it: the answer to what it submitted finds its state
\* gone.
Unmounted ==
  [i \in Ids |-> IF reqs[i].op = view.dialog THEN [reqs[i] EXCEPT !.gone = TRUE] ELSE reqs[i]]

PortalInit ==
  /\ page \in Pages
  /\ copy = [s \in Slots |-> "fresh"]
  /\ fetch = [s \in Slots |-> "idle"]
  /\ view = NoView
  /\ reqs = <<>>
  /\ ops = 0
  /\ due = {}
  /\ result = [h \in Homes |-> NoRec]
  /\ armed = {}
  /\ faults = 0
  /\ stray = FALSE

-----------------------------------------------------------------------------
(* The user *)

\* Where a button is offered for a record: the header has none to offer, a row
\* is out of reach under a drawer, a drawer offers its own record.
Offered(what, r) ==
  \/ what \in P.header /\ r = NewRec /\ view.drawer = NoRec
  \/ what \in P.row /\ r \in Records /\ view.drawer = NoRec
  \/ what \in P.drawer /\ r \in Records /\ r = view.drawer

OpenDialog ==
  /\ view.dialog = "none"
  /\ \E d \in P.dialogs, r \in Records \cup {NewRec} :
       /\ Offered(d, r)
       /\ view' = [view EXCEPT !.dialog = d, !.rec = r]
       /\ result' = IF P.ops[d].shows = "drawer"
                    THEN [result EXCEPT !["drawer"] = NoRec] ELSE result
       /\ stray' = (stray /\ result'["drawer"] # NoRec)
  /\ UNCHANGED <<page, copy, fetch, reqs, ops, due, armed, faults>>

\* Cancel is not blocked while the request is under way; the reveal modal
\* forgets the value it shows.
CloseDialog ==
  /\ view.dialog # "none"
  /\ view' = [view EXCEPT !.dialog = "none", !.rec = NoRec]
  /\ result' = [result EXCEPT !["dialog"] = NoRec]
  /\ armed' = armed \ {"dialog"}
  /\ reqs' = Unmounted
  /\ UNCHANGED <<page, copy, fetch, ops, due, faults, stray>>

OpenDrawer ==
  /\ "drawer" \in P.row /\ view = NoView
  /\ \E r \in Records :
       /\ view' = [view EXCEPT !.drawer = r]
       /\ fetch' = Observe(fetch, SlotsOf(P.queries.asks \cap {"detail"}, r))
  /\ UNCHANGED <<page, copy, reqs, ops, due, result, armed, faults, stray>>

\* Variant: every drawer closes by forgetting its record only.
CloseDrawerOnly ==
  /\ view.drawer # NoRec
  /\ view' = NoView
  /\ UNCHANGED <<page, copy, fetch, reqs, ops, due, result, armed, faults, stray>>
\* Closing the drawer of the services page also closes its forms and forgets
\* the revealed key and its countdown.
CloseDrawer ==
  /\ view.drawer # NoRec
  /\ IF "clears" \in P.drawer
     THEN /\ result' = [result EXCEPT !["drawer"] = NoRec]
          /\ armed' = armed \ {"drawer"}
          /\ stray' = FALSE
     ELSE /\ view.dialog = "none"
          /\ UNCHANGED <<result, armed, stray>>
  /\ view' = NoView
  /\ UNCHANGED <<page, copy, fetch, reqs, ops, due, faults>>

\* Done in the modal that shows a new key once.
CloseModal ==
  /\ result["modal"] # NoRec
  /\ result' = [result EXCEPT !["modal"] = NoRec]
  /\ UNCHANGED <<page, copy, fetch, view, reqs, ops, due, armed, faults, stray>>

\* A dialog's button and the buttons with loading= are blocked by their own
\* call, whichever record that call is for.
Submit ==
  /\ ops < MaxOps
  /\ \E op \in DOMAIN P.ops, r \in Records \cup {NewRec} :
       /\ IF op \in P.dialogs
          THEN view.dialog = op /\ view.rec = r
          ELSE view.dialog = "none" /\ Offered(op, r)
       /\ (op \in P.dialogs \cup P.blocks) => ~InFlight(op)
       /\ reqs' = Append(reqs, Request(op, r))
       /\ view' = IF P.ops[op].eager
                  THEN [view EXCEPT !.dialog = "none", !.rec = NoRec] ELSE view
  /\ ops' = ops + 1
  /\ UNCHANGED <<page, copy, fetch, due, result, armed, faults, stray>>

Refresh ==
  /\ view.dialog = "none"
  /\ \E s \in P.queries.reload : fetch[s] = "idle" /\ copy[s] # "fresh"
  /\ fetch' = Invalidate(fetch, P.queries.reload)
  /\ UNCHANGED <<page, copy, view, reqs, ops, due, result, armed, faults, stray>>

-----------------------------------------------------------------------------
(* The server, its jobs, and what can happen to a request *)

Serve(i) ==
  /\ reqs[i].st = "sent"
  /\ Age(SlotsOf(OpOf(i).alters, reqs[i].rec), "behind")
  /\ reqs' = [reqs EXCEPT ![i].st = "done", ![i].job = (OpOf(i).later # {})]
  /\ UNCHANGED <<page, view, ops, due, result, armed, faults, stray>>

\* The call is refused, or never arrives: onError only shows a message.
Refused(i) ==
  /\ reqs[i].st = "sent"
  /\ reqs' = Without(i)
  /\ UNCHANGED <<page, copy, fetch, view, ops, due, result, armed, faults, stray>>

\* The job the call queued; it may run before the answer is read or long after.
JobRuns(i) ==
  /\ reqs[i].job
  /\ Age(SlotsOf(OpOf(i).later, reqs[i].rec),
         IF reqs[i].st = "over" THEN "excused" ELSE "behind")
  /\ reqs' = Finish(i, [reqs[i] EXCEPT !.job = FALSE])
  /\ UNCHANGED <<page, view, ops, due, result, armed, faults, stray>>

-----------------------------------------------------------------------------
(* Answers *)

\* What onSuccess invalidates: the query keyed by a record is the one of the
\* record selected when the answer is read.
Refreshed(op) == SlotsOf(op.refreshes, view.drawer)

\* The views onSuccess closes, whichever record they are now open for.
Closed(op) ==
  [dialog |-> IF view.dialog \in op.closes THEN "none" ELSE view.dialog,
   rec    |-> IF view.dialog \in op.closes THEN NoRec ELSE view.rec,
   drawer |-> IF "drawer" \in op.closes THEN NoRec ELSE view.drawer]

\* The secret an answer brings: a modal mounted for one secret is gone with its
\* state once it was closed, the drawer's state belongs to the page.
Shown(op, q) ==
  IF op.shows = "none" \/ (op.shows = "dialog" /\ q.gone)
  THEN result ELSE [result EXCEPT ![op.shows] = q.rec]

\* Both count down, the modal unless it is gone.
Countdown(op, q) ==
  IF op.shows = "drawer" \/ (op.shows = "dialog" /\ ~q.gone)
  THEN armed \cup {op.shows} ELSE armed

Success(i) ==
  LET op == OpOf(i) IN
    /\ reqs[i].st = "done"
    /\ view' = Closed(op)
    /\ fetch' = Invalidate(fetch, Refreshed(op))
    /\ due' = due \cup SlotsOf(op.delayed, view.drawer)
    /\ result' = Shown(op, reqs[i])
    /\ armed' = Countdown(op, reqs[i])
    /\ stray' = \/ op.shows = "drawer" /\ reqs[i].rec # view.drawer
                \/ op.shows # "drawer" /\ stray
                \/ "drawer" \in op.closes /\ result["drawer"] # NoRec
    /\ copy' = Excuse(SlotsOf((op.alters \cup op.later) \cap {"detail"}, reqs[i].rec)
                        \ {view.drawer})
    /\ reqs' = Finish(i, [reqs[i] EXCEPT !.st = "over"])
    /\ UNCHANGED <<page, ops, faults>>

\* The call took effect and still ends in onError: the answer is lost, or a
\* later step of the call failed.
AnswerLost(i) ==
  /\ faults < MaxFaults /\ reqs[i].st = "done"
  /\ faults' = faults + 1
  /\ copy' = Excuse(SlotsOf(OpOf(i).alters \cup OpOf(i).later, reqs[i].rec))
  /\ reqs' = Finish(i, [reqs[i] EXCEPT !.st = "over"])
  /\ UNCHANGED <<page, fetch, view, ops, due, result, armed, stray>>

TimerFires ==
  /\ due # {}
  /\ fetch' = Invalidate(fetch, due)
  /\ due' = {}
  /\ UNCHANGED <<page, copy, view, reqs, ops, result, armed, faults, stray>>

\* The countdown of a revealed secret ends.
Hide(h) ==
  /\ h \in armed
  /\ armed' = armed \ {h}
  /\ result' = [result EXCEPT ![h] = NoRec]
  /\ view' = IF h = "dialog" THEN [view EXCEPT !.dialog = "none", !.rec = NoRec] ELSE view
  /\ stray' = (stray /\ h # "drawer")
  /\ UNCHANGED <<page, copy, fetch, reqs, ops, due, faults>>

-----------------------------------------------------------------------------
(* Queries *)

\* refetchInterval: only while the query is observed, and not on top of a
\* request under way.  A poll that finds nothing new is not a step.
Poll(s) ==
  /\ s \in Polled /\ fetch[s] = "idle" /\ copy[s] # "fresh"
  /\ fetch' = [fetch EXCEPT ![s] = "fresh"]
  /\ UNCHANGED <<page, copy, view, reqs, ops, due, result, armed, faults, stray>>

FetchArrives(s) ==
  /\ fetch[s] # "idle"
  /\ copy' = [copy EXCEPT ![s] = IF fetch[s] = "fresh" THEN "fresh" ELSE @]
  /\ fetch' = [fetch EXCEPT ![s] = "idle"]
  /\ UNCHANGED <<page, view, reqs, ops, due, result, armed, faults, stray>>

\* The request and its one retry fail; the old copy stays on show.
FetchFails(s) ==
  /\ faults < MaxFaults /\ fetch[s] # "idle"
  /\ faults' = faults + 1
  /\ fetch' = [fetch EXCEPT ![s] = "idle"]
  /\ copy' = Excuse({s})
  /\ UNCHANGED <<page, view, reqs, ops, due, result, armed, stray>>

PortalNext ==
  \/ OpenDialog \/ CloseDialog \/ OpenDrawer \/ CloseDrawer \/ CloseModal
  \/ Submit \/ Refresh \/ TimerFires
  \/ \E i \in Ids : Serve(i) \/ Refused(i) \/ JobRuns(i) \/ Success(i) \/ AnswerLost(i)
  \/ \E h \in Homes : Hide(h)
  \/ \E s \in Slots : Poll(s) \/ FetchArrives(s) \/ FetchFails(s)

PortalSpec == PortalInit /\ [][PortalNext]_portalVars

-----------------------------------------------------------------------------
(* Properties *)

\* Every variable has its type: a copy that is fresh has no older answer on its
\* way, and a page never has more under way than its user submitted.
PortalTypeOK ==
  /\ page \in Pages
  /\ copy \in [Slots -> {"fresh", "behind", "excused"}]
  /\ fetch \in [Slots -> {"idle", "fresh", "old"}]
  /\ \A s \in Slots : fetch[s] = "old" => copy[s] # "fresh"
  /\ view \in [dialog : P.dialogs \cup {"none"}, rec : Records \cup {NewRec, NoRec},
               drawer : Records \cup {NoRec}]
  /\ ops \in 0..MaxOps /\ Len(reqs) <= ops
  /\ \A i \in Ids : reqs[i] \in
       [op : DOMAIN P.ops, rec : Records \cup {NewRec}, st : {"sent", "done", "over"},
        job : BOOLEAN, gone : BOOLEAN]
  /\ due \subseteq Slots /\ armed \subseteq Homes
  /\ result \in [Homes -> Records \cup {NewRec, NoRec}]
  /\ faults \in 0..MaxFaults /\ stray \in BOOLEAN

\* On every page, for every table the user looks at: when it is behind the
\* server because of what he did, somebody still owes its refresh: a request on
\* its way that was not read before the change, a success that has not been
\* handled, a timeout, or the page's timer.  Left out are changes the page
\* cannot know of: made by a job after the answer, in a call whose answer was
\* lost or that could not be read again, or to a drawer that has been left.
\* And the state has its types.
RefreshIsOwed ==
  /\ PortalTypeOK
  /\ \A s \in Observed :
       copy[s] = "behind" =>
         \/ s \in Polled \cup due
         \/ fetch[s] = "fresh"
         \/ \E i \in Ids : /\ reqs[i].st = "done"
                           /\ s \in SlotsOf(OpOf(i).refreshes \cup OpOf(i).delayed, view.drawer)

\* A key revealed in the drawer is the key of the service the drawer shows,
\* unless it was requested for a drawer that has been left since, or the
\* success of another operation closed the drawer over it.
ResultStaysHome ==
  (result["drawer"] # NoRec /\ view.drawer # NoRec /\ result["drawer"] # view.drawer) => stray

\* A revealed secret never stays on the screen by itself: whatever is opened,
\* closed or answered meanwhile, its countdown is running.
RevealIsTimed == \A h \in {"drawer", "dialog"} : result[h] # NoRec => h \in armed

\* What a reveal has answered is shown where it was asked for, and not for long
\* (IntegrationsServices.tsx, Secrets.tsx).
RevealsAreSafe == ResultStaysHome /\ RevealIsTimed

=============================================================================
