----------------------------- MODULE JobLedger ------------------------------
(* What an agent that does jobs for others promises of each of them: it is    *)
(* tried a bounded number of times, each try reaches the system outside at    *)
(* most once, "succeeded" is only said of a job that has reached it, "failed" *)
(* only when no try is left, and what has been said is not taken back.  A job *)
(* that is being tried may be left there, as by a crash.  The server agent    *)
(* (ServerJobs) and the PBX agent (Pbx) are shown to implement this.          *)
EXTENDS Integers

CONSTANTS
    Jobs,
    MaxTries

VARIABLE
    ledger   \* of each job: what its record says, how often it has been taken up
             \* (tries) and how often it has reached the system outside (acts)

Init == ledger = [j \in Jobs |-> [status |-> "absent", tries |-> 0, acts |-> 0]]

Says(j, from, to) == ledger[j].status = from /\ ledger' = [ledger EXCEPT ![j].status = to]

Submit(j) == Says(j, "absent", "pending")

Take(j) ==
    /\ ledger[j].status = "pending" /\ ledger[j].tries < MaxTries
    /\ ledger' = [ledger EXCEPT ![j].status = "running", ![j].tries = @ + 1]

Act(j) ==
    /\ ledger[j].status = "running" /\ ledger[j].acts < ledger[j].tries
    /\ ledger' = [ledger EXCEPT ![j].acts = @ + 1]

Succeed(j) == ledger[j].acts > 0 /\ Says(j, "running", "succeeded")
PutBack(j) == ledger[j].tries < MaxTries /\ Says(j, "running", "pending")
Fail(j) == ledger[j].tries = MaxTries /\ Says(j, "running", "failed")

Next == \E j \in Jobs : Submit(j) \/ Take(j) \/ Act(j) \/ Succeed(j) \/ PutBack(j) \/ Fail(j)

Spec == Init /\ [][Next]_ledger
=============================================================================
