------------------------------ MODULE JobQueue ------------------------------
(***************************************************************************)
(* The SQLite-backed work queue of internal/queue: the tables job_queue,   *)
(* job_transitions, job_attempts and job_log, and the operations that      *)
(* write them.  The database has one connection, so every transaction and  *)
(* every lone statement is atomic; each operator below is the body of one  *)
(* transaction (or one query) and its callers, in Dispatcher, decide what  *)
(* can happen between two of them.                                         *)
(*                                                                         *)
(* Data kept: a job id is its rowid, so created_at order is id order; a    *)
(* target stands for a (plugin, command) pair; times are kept only as the  *)
(* comparisons the queries make of them (due, recent, completed).          *)
(***************************************************************************)
EXTENDS Integers, Sequences, FiniteSets

CONSTANTS
    MaxJobs,     \* bound: rows job_queue can hold in this instance
    Plugins,     \* plugin names
    Targets,     \* (plugin, command) pairs
    PluginOf,    \* [Targets -> Plugins]
    MaxAttempts, \* [Targets -> Nat \ {0}], config.MaxAttemptsForPlugin
    Keys,        \* dedupe keys
    NoKey        \* a NULL dedupe_key

JobIds == 1 .. MaxJobs
NoJob == 0

ASSUME MaxJobsAssumption == MaxJobs \in Nat
ASSUME TargetsAssumption ==
    /\ Targets # {}
    /\ PluginOf \in [Targets -> Plugins]
    /\ MaxAttempts \in [Targets -> Nat \ {0}]
ASSUME NoKeyAssumption == NoKey \notin Keys

VARIABLES
    row,       \* job_queue, one record per id; status "absent" is no row
    trans,     \* job_transitions, the log of each job in order
    attempts,  \* job_attempts, the attempt numbers recorded for each job
    jobLog     \* job_log, the attempt numbers logged for each job

storeVars == <<row, trans, attempts, jobLog>>

Terminal == {"succeeded", "skipped", "failed", "timed_out", "dead"}
Status == {"queued", "running"} \cup Terminal

\* What submitted_by tells apart: the hook chain is walked through "hook".
Submitters == {"client", "route", "hook"}

Row == [status: Status \cup {"absent"},
        target: Targets,
        key: Keys \cup {NoKey},
        attempt: Nat,
        parent: JobIds \cup {NoJob},
        src: Nat,            \* source_event_id, 0 for NULL
        by: Submitters,
        ctx: BOOLEAN,        \* event_context_id IS NOT NULL
        due: BOOLEAN,        \* next_retry_at is NULL or has passed
        completed: BOOLEAN,  \* completed_at IS NOT NULL
        recent: BOOLEAN]     \* completed_at is within the dedupe window

Present(j) == row[j].status # "absent"
Outstanding(j) == row[j].status \in {"queued", "running"}
IsTerminal(j) == row[j].status \in Terminal

NoRow(t) == [status |-> "absent", target |-> t, key |-> NoKey, attempt |-> 0,
             parent |-> NoJob, src |-> 0, by |-> "client", ctx |-> FALSE,
             due |-> TRUE, completed |-> FALSE, recent |-> FALSE]

NewRow(t, k, parent, src, by, ctx) ==
    [status |-> "queued", target |-> t, key |-> k, attempt |-> 1,
     parent |-> parent, src |-> src, by |-> by, ctx |-> ctx,
     due |-> TRUE, completed |-> FALSE, recent |-> FALSE]

StoreTypeOK ==
    /\ row \in [JobIds -> Row]
    /\ trans \in [JobIds -> Seq([from: Status \cup {"absent"}, to: Status])]
    /\ attempts \in [JobIds -> SUBSET Nat]
    /\ jobLog \in [JobIds -> SUBSET Nat]

StoreInit ==
    /\ row = [j \in JobIds |-> NoRow(CHOOSE t \in Targets : TRUE)]
    /\ trans = [j \in JobIds |-> <<>>]
    /\ attempts = [j \in JobIds |-> {}]
    /\ jobLog = [j \in JobIds |-> {}]

-----------------------------------------------------------------------------
(* Queries *)

SameKeyAndTarget(j, t, k) == row[j].key = k /\ row[j].target = t

findOutstandingByDedupeKey(t, k) ==
    \E j \in JobIds : SameKeyAndTarget(j, t, k) /\ Outstanding(j)

findRecentSucceededByDedupeKey(t, k) ==
    \E j \in JobIds : /\ SameKeyAndTarget(j, t, k)
                      /\ row[j].status = "succeeded"
                      /\ row[j].recent

RunningCountsByPlugin(p) ==
    Cardinality({j \in JobIds : /\ row[j].status = "running"
                                /\ PluginOf[row[j].target] = p})

CountOutstandingJobs(t) ==
    Cardinality({j \in JobIds : row[j].target = t /\ Outstanding(j)})

\* Mutant: the NOT EXISTS clause on running keys is left out.
Eligible_IgnoresKeys(skip) ==
    {j \in JobIds : /\ row[j].status = "queued"
                    /\ row[j].due
                    /\ PluginOf[row[j].target] \notin skip}

\* The WHERE clause of DequeueEligible, its explicit key filter empty.
Eligible(skip) ==
    {j \in JobIds :
        /\ row[j].status = "queued"
        /\ row[j].due
        /\ PluginOf[row[j].target] \notin skip
        /\ \/ row[j].key = NoKey
           \/ \A r \in JobIds : ~ /\ row[r].status = "running"
                                  /\ SameKeyAndTarget(r, row[j].target, row[j].key)}

-----------------------------------------------------------------------------
(* Transactions *)

\* Mutant: from and to in the wrong order.
recordJobTransition_Swapped(j, to) == Append(trans[j], [from |-> to, to |-> row[j].status])

\* job_transitions gets a row only when the status really changes.
recordJobTransition(j, to) ==
    IF row[j].status = to
    THEN trans[j]
    ELSE Append(trans[j], [from |-> row[j].status, to |-> to])

\* The unique index on (parent_job_id, source_event_id, plugin, command);
\* SQLite never equates two NULL parents and skips rows without a source.
SourceEventConflict(t, parent, src) ==
    /\ parent # NoJob
    /\ src # 0
    /\ \E j \in JobIds : /\ Present(j)
                         /\ row[j].parent = parent
                         /\ row[j].src = src
                         /\ row[j].target = t

\* The insert of Enqueue, after its dedupe lookups, into the next rowid.
InsertJob(j, t, k, parent, src, by, ctx) ==
    /\ ~Present(j)
    /\ \A i \in JobIds : i < j => Present(i)
    /\ ~SourceEventConflict(t, parent, src)
    /\ row' = [row EXCEPT ![j] = NewRow(t, k, parent, src, by, ctx)]
    /\ trans' = [trans EXCEPT ![j] = recordJobTransition(j, "queued")]
    /\ UNCHANGED <<attempts, jobLog>>

\* Claims the oldest eligible row and records its attempt; a number already
\* in job_attempts breaks UNIQUE(job_id, attempt) and rolls the claim back.
DequeueEligible(j, skip) ==
    /\ j \in Eligible(skip)
    /\ \A i \in Eligible(skip) : j <= i
    /\ row[j].attempt \notin attempts[j]
    /\ row' = [row EXCEPT ![j].status = "running"]
    /\ trans' = [trans EXCEPT ![j] = recordJobTransition(j, "running")]
    /\ attempts' = [attempts EXCEPT ![j] = @ \cup {row[j].attempt}]
    /\ UNCHANGED jobLog

\* Mutant: the transition is not recorded.
UpdateJobForRecovery_Unrecorded(j, newStatus, newAttempt, due) ==
    /\ Present(j)
    /\ row' = [row EXCEPT ![j].status = newStatus,
                          ![j].attempt = newAttempt,
                          ![j].due = due]
    /\ UNCHANGED <<trans, attempts, jobLog>>

\* Writes whatever it is given over whatever the row holds; completed_at
\* keeps its value.
UpdateJobForRecovery(j, newStatus, newAttempt, due) ==
    /\ Present(j)
    /\ row' = [row EXCEPT ![j].status = newStatus,
                          ![j].attempt = newAttempt,
                          ![j].due = due]
    /\ trans' = [trans EXCEPT ![j] = recordJobTransition(j, newStatus)]
    /\ UNCHANGED <<attempts, jobLog>>

\* Completes the row whatever its status; job_log's id is (job, attempt) and
\* a second insert of the same id is ignored.
CompleteWithResult(j, status) ==
    /\ Present(j)
    /\ status \in Terminal
    /\ row' = [row EXCEPT ![j].status = status,
                          ![j].completed = TRUE,
                          ![j].recent = (status = "succeeded")]
    /\ trans' = [trans EXCEPT ![j] = recordJobTransition(j, status)]
    /\ jobLog' = [jobLog EXCEPT ![j] = @ \cup {row[j].attempt}]
    /\ UNCHANGED attempts

\* Mutant: the cancel also logs an outcome for the job.
CancelOutstandingJobs_Logs(t) ==
    LET cancelled == {j \in JobIds : row[j].target = t /\ Outstanding(j)}
    IN  /\ row' = [j \in JobIds |->
                     IF j \in cancelled
                     THEN [row[j] EXCEPT !.status = "dead", !.completed = TRUE]
                     ELSE row[j]]
        /\ trans' = [j \in JobIds |->
                       IF j \in cancelled THEN recordJobTransition(j, "dead")
                                          ELSE trans[j]]
        /\ jobLog' = [j \in JobIds |-> jobLog[j] \cup
                        IF j \in cancelled THEN {row[j].attempt} ELSE {}]
        /\ UNCHANGED attempts

\* Every queued or running job of the target becomes dead in one
\* transaction; nothing is written to job_log.
CancelOutstandingJobs(t) ==
    LET cancelled == {j \in JobIds : row[j].target = t /\ Outstanding(j)}
    IN  /\ row' = [j \in JobIds |->
                     IF j \in cancelled
                     THEN [row[j] EXCEPT !.status = "dead", !.completed = TRUE]
                     ELSE row[j]]
        /\ trans' = [j \in JobIds |->
                       IF j \in cancelled THEN recordJobTransition(j, "dead")
                                          ELSE trans[j]]
        /\ UNCHANGED <<attempts, jobLog>>

\* Time: a retry's next_retry_at passes; a success leaves the dedupe window.
RetryBecomesDue(j) ==
    /\ row[j].status = "queued"
    /\ ~row[j].due
    /\ row' = [row EXCEPT ![j].due = TRUE]
    /\ UNCHANGED <<trans, attempts, jobLog>>

DedupeWindowExpires(j) ==
    /\ row[j].key # NoKey
    /\ row[j].recent
    /\ row' = [row EXCEPT ![j].recent = FALSE]
    /\ UNCHANGED <<trans, attempts, jobLog>>
=============================================================================
