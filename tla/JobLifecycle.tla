---------------------------- MODULE JobLifecycle ----------------------------
(***************************************************************************)
(* What the queue promises about one job: the transition relation that     *)
(* internal/queue/statemachine_test.go writes down as legalTransitions,    *)
(* with the attempt counter it moves.  Terminal statuses are absorbing.    *)
(***************************************************************************)
EXTENDS Naturals

CONSTANT Jobs

VARIABLES
    status,   \* of each job, "absent" before it is enqueued
    attempt,  \* the attempt it is at
    budget    \* the attempts it may make, fixed when it is enqueued

jobVars == <<status, attempt, budget>>

TerminalStatuses == {"succeeded", "skipped", "failed", "timed_out", "dead"}

Init ==
    /\ status = [j \in Jobs |-> "absent"]
    /\ attempt = [j \in Jobs |-> 0]
    /\ budget = [j \in Jobs |-> 0]

evEnqueue(j) ==
    /\ status[j] = "absent"
    /\ status' = [status EXCEPT ![j] = "queued"]
    /\ attempt' = [attempt EXCEPT ![j] = 1]
    /\ budget'[j] \in Nat \ {0}
    /\ budget' = [budget EXCEPT ![j] = budget'[j]]

evDequeue(j) ==
    /\ status[j] = "queued"
    /\ attempt[j] <= budget[j]
    /\ status' = [status EXCEPT ![j] = "running"]
    /\ UNCHANGED <<attempt, budget>>

evComplete(j) ==
    /\ status[j] = "running"
    /\ \E s \in TerminalStatuses : status' = [status EXCEPT ![j] = s]
    /\ UNCHANGED <<attempt, budget>>

evRecoverRequeue(j) ==
    /\ status[j] = "running"
    /\ attempt[j] < budget[j]
    /\ status' = [status EXCEPT ![j] = "queued"]
    /\ attempt' = [attempt EXCEPT ![j] = @ + 1]
    /\ UNCHANGED budget

\* Only a job that has used its attempts dies in recovery.
evRecoverDead(j) ==
    /\ status[j] = "running"
    /\ attempt[j] >= budget[j]
    /\ status' = [status EXCEPT ![j] = "dead"]
    /\ attempt' = [attempt EXCEPT ![j] = @ + 1]
    /\ UNCHANGED budget

Next == \E j \in Jobs : \/ evEnqueue(j) \/ evDequeue(j) \/ evComplete(j)
                        \/ evRecoverRequeue(j) \/ evRecoverDead(j)

Spec == Init /\ [][Next]_jobVars
=============================================================================
