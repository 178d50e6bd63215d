----------------------------- MODULE Operations -----------------------------
(* What nexus operates from outside: the Nagios server's configuration         *)
(* (Nagios), the agents' heartbeats (AgentRegistry), the mail server's         *)
(* mailboxes and the mail sent through it (Mail), mail that is read and the    *)
(* statistics of sent mail (MailReading).  They share neither state nor calls, *)
(* so no order of steps of one and steps of another matters: a behaviour of    *)
(* Operations is a behaviour of one of them, the others at rest.               *)
EXTENDS Nagios, AgentRegistry, Mail, MailReading

VARIABLE part    \* the one that runs

mailPartVars == <<mailVars, sending, readingVars, sentVars>>
operationsVars == <<part, nagiosVars, registryVars, mailPartVars>>

OperationsInit ==
    /\ part \in {"nagios", "registry", "credentials", "list", "sending", "reading", "sent"}
    /\ NagiosInit /\ RegistryInit /\ MailInit /\ SendInit /\ ReadingInit /\ SentInit

NagiosPart ==
    part = "nagios" /\ NagiosNext /\ UNCHANGED <<part, registryVars, mailPartVars>>
RegistryPart(A) ==
    part = "registry" /\ A /\ UNCHANGED <<part, nagiosVars, mailPartVars>>
OfMail(p, A) ==
    part = p /\ A /\ UNCHANGED <<part, nagiosVars, registryVars>>
CredentialPart == OfMail("credentials", CredentialNext /\ UNCHANGED <<sending, readingVars, sentVars>>)
ListPart(A) == OfMail("list", A /\ UNCHANGED <<sending, readingVars, sentVars>>)
SendPart == OfMail("sending", SendNext /\ UNCHANGED <<mailVars, readingVars, sentVars>>)
ReadingPart == OfMail("reading", ReadingNext /\ UNCHANGED <<mailVars, sending, sentVars>>)
SentPart == OfMail("sent", SentNext /\ UNCHANGED <<mailVars, sending, readingVars>>)

OperationsNext ==
    \/ NagiosPart \/ RegistryPart(RegistryNext) \/ CredentialPart \/ ListPart(ListNext) \/ SendPart
    \/ ReadingPart \/ SentPart

\* Time passes, nexus_api, an asyncio program that awaits nothing without a
\* timeout here, goes on, and so do the e-mail agent's refreshes; the portal's
\* page asks for the list every minute.
OperationsFairness ==
    /\ WF_operationsVars(RegistryPart(\E arrived \in SUBSET up : Minute(arrived)))
    /\ WF_operationsVars(RegistryPart(ApiSteps))
    /\ WF_operationsVars(ListPart(ListExpires))
    /\ WF_operationsVars(ListPart(ListReads))
    /\ WF_operationsVars(ListPart(BackgroundStarts))
    /\ \A k \in {"bg", "manual"} : WF_operationsVars(ListPart(BatchStats(k) \/ SaveStats(k)))

OperationsSpec == OperationsInit /\ [][OperationsNext]_operationsVars /\ OperationsFairness

\* Once requests and failures end, the list the pages show is that of the mail
\* server's mailboxes, whatever refreshes overtook one another, failed or were
\* lost in a restart (mailbox_stats.py:69).
ListSettles == part = "list" => <>[](list.loaded /\ list.of = There)

\* What Nagios was told is in its configuration, and the page's cache, when it is
\* valid, knows every change made through nexus (api/nagios.py).
NagiosIsTrue == AnswersAreTrue /\ []CacheKnowsChanges

\* Agents have one deployment of the seed's and are resolved to their own; what users of
\* mail are answered and shown is what happened.
RegistryAndMailAreTrue ==
    SeedMakesOne /\ ResolvesOwn /\ MailAnswersAreTrue /\ MailIsRead

\* What is told of agents and the list of mailboxes settle.
RegistryAndListSettle == NoticesSettle /\ ListSettles
=============================================================================
