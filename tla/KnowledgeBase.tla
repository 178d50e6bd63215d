---------------------------- MODULE KnowledgeBase ----------------------------
(* The knowledge base: documents on their way into the index (KbIngest), and   *)
(* those who ask it (AskNexus).  Who asks reads, in one statement, which       *)
(* documents are ready and writes nothing of theirs, so a behaviour is one of  *)
(* either, the other at rest.                                                  *)
EXTENDS KbIngest, AskNexus

VARIABLE inquiry    \* it is those who ask that are looked at

baseVars == <<inquiry, vars, askVars>>

BaseInit == inquiry \in BOOLEAN /\ Init /\ AskInit

Ingesting(A) == ~inquiry /\ A /\ UNCHANGED <<inquiry, askVars>>
Inquiring == inquiry /\ AskNext /\ UNCHANGED <<inquiry, vars>>

BaseNext == Ingesting(Next) \/ Inquiring

\* The worker and its supervisor keep going, and a handler that has committed goes on to
\* its enqueue.
BaseSpec ==
    /\ BaseInit /\ [][BaseNext]_baseVars
    /\ WF_baseVars(Ingesting(Work)) /\ WF_baseVars(Ingesting(Startup))
    /\ \A send \in Sends : WF_baseVars(Ingesting(enqueue(send)))
=============================================================================
