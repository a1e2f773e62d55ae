----------------------------- MODULE Dispatcher -----------------------------
(***************************************************************************)
(* The job lifecycle of a running gateway: producers that enqueue, the     *)
(* dispatch loop and its workers (internal/dispatch), the scheduler's      *)
(* crash recovery and its if_running = cancel policy (internal/scheduler), *)
(* and the process around them: start, graceful stop, config reload and    *)
(* crash (cmd/ductile).  All of them write the one store of JobQueue.      *)
(*                                                                         *)
(* A worker's writes go through the runtime's context.  Stop and reload    *)
(* cancel that context first, so a worker that outlives it (live = FALSE)  *)
(* finishes its plugin and then fails every write.                         *)
(***************************************************************************)
EXTENDS JobQueue

CONSTANTS
    Workers,        \* worker goroutines, live ones and those of an old runtime
    MaxWorkers,     \* service.max_workers
    Parallelism,    \* [Plugins -> Nat \ {0}], pluginParallelism
    Routes,         \* [Targets -> SUBSET Targets], what a job's events reach
    EventKey,       \* [Targets -> Keys \cup {NoKey}], dedupe_key of its events
    StableEventId,  \* the plugin names its events, or each run gets new ids
    HookTargets,    \* [Targets -> [Terminal -> SUBSET Targets]], on-hook pipelines
    HookMaxDepth,   \* service.hook_max_depth
    CancelTargets,  \* targets with a schedule whose if_running is cancel
    Clients,        \* API, webhook, relay and scheduler producers
    Requests,       \* what they may enqueue
    MaxRequests,    \* bound: requests made in a behaviour
    MaxRestarts,    \* bound: stops, reloads and crashes
    MaxFaults       \* bound: store writes that fail with a live context

Request == [target: Targets, key: Keys \cup {NoKey},
            override: BOOLEAN,  \* DedupeTTL set, as the scheduler does
            ctx: BOOLEAN]       \* starts a pipeline, so it has a context

ASSUME DispatcherAssumption ==
    /\ MaxWorkers \in Nat \ {0}
    /\ Parallelism \in [Plugins -> Nat \ {0}]
    /\ Routes \in [Targets -> SUBSET Targets]
    /\ EventKey \in [Targets -> Keys \cup {NoKey}]
    /\ StableEventId \in BOOLEAN
    /\ HookTargets \in [Targets -> [Terminal -> SUBSET Targets]]
    /\ HookMaxDepth \in Nat \ {0}
    /\ CancelTargets \subseteq Targets
    /\ Requests \subseteq Request
    /\ MaxRequests \in Nat /\ MaxRestarts \in Nat /\ MaxFaults \in Nat

VARIABLES
    phase,     \* of the current runtime: "down", "recovering", "up", "stopping"
    rec,       \* recoverOrphanedJobs: where it is and what it has left
    wk,        \* the workers
    lanes,     \* fillWorkers between its count and its claim
    client,    \* the producers, between a dedupe lookup and the insert
    requests,  \* requests made so far
    restarts,  \* stops, reloads and crashes so far
    lost       \* jobs whose last write failed, and how many writes have

vars == <<storeVars, phase, rec, wk, lanes, client, requests, restarts, lost>>

WorkerState == [pc: {"idle", "exec", "route", "lookup", "insert", "hook"},
                job: JobIds \cup {NoJob},
                attempt: Nat,             \* job.Attempt as dequeued
                live: BOOLEAN,            \* its context is not cancelled
                todo: SUBSET Targets,     \* dispatches left
                next: Targets,            \* the dispatch in hand
                out: Terminal]            \* how the job will be completed

AnyTarget == CHOOSE t \in Targets : TRUE
Idle == [pc |-> "idle", job |-> NoJob, attempt |-> 0, live |-> FALSE,
         todo |-> {}, next |-> AnyTarget, out |-> "failed"]

Recovery == [pc: {"scan", "complete", "hook"}, orphans: SUBSET JobIds,
             todo: SUBSET Targets]
NoRecovery == [pc |-> "scan", orphans |-> {}, todo |-> {}]

ClientState == [pc: {"idle", "outstanding", "recent", "insert"}, req: Request]
NoRequest == [target |-> AnyTarget, key |-> NoKey, override |-> FALSE,
              ctx |-> FALSE]
IdleClient == [pc |-> "idle", req |-> NoRequest]

TypeOK ==
    /\ StoreTypeOK
    /\ phase \in {"down", "recovering", "up", "stopping"}
    /\ rec \in Recovery
    /\ wk \in [Workers -> WorkerState]
    /\ lanes \in [counted: BOOLEAN, skip: SUBSET Plugins]
    /\ client \in [Clients -> ClientState]
    /\ requests \in Nat /\ restarts \in Nat
    /\ lost \in [jobs: SUBSET JobIds, writes: Nat]

Uncounted == [counted |-> FALSE, skip |-> {}]

Init ==
    /\ StoreInit
    /\ phase = "down"
    /\ rec = NoRecovery
    /\ wk = [w \in Workers |-> Idle]
    /\ lanes = Uncounted
    /\ client = [c \in Clients |-> IdleClient]
    /\ requests = 0 /\ restarts = 0
    /\ lost = [jobs |-> {}, writes |-> 0]

-----------------------------------------------------------------------------
(* Producers: Enqueue as its callers see it.  The lookups and the insert   *)
(* are separate statements.                                                *)

ClientRequest(c) ==
    /\ phase = "up"
    /\ client[c].pc = "idle"
    /\ requests < MaxRequests
    /\ requests' = requests + 1
    /\ \E r \in Requests :
         client' = [client EXCEPT ![c] =
            [pc |-> IF r.key = NoKey THEN "insert"
                    ELSE IF r.override THEN "outstanding" ELSE "recent",
             req |-> r]]
    /\ UNCHANGED <<storeVars, phase, rec, wk, lanes, restarts, lost>>

\* A lookup that finds a match ends the call with DedupeDropError.
ClientLookup(c) ==
    /\ \/ /\ client[c].pc = "outstanding"
          /\ client' = [client EXCEPT ![c] =
               IF findOutstandingByDedupeKey(@.req.target, @.req.key)
               THEN IdleClient ELSE [@ EXCEPT !.pc = "recent"]]
       \/ /\ client[c].pc = "recent"
          /\ client' = [client EXCEPT ![c] =
               IF findRecentSucceededByDedupeKey(@.req.target, @.req.key)
               THEN IdleClient ELSE [@ EXCEPT !.pc = "insert"]]
    /\ UNCHANGED <<storeVars, phase, rec, wk, lanes, requests, restarts, lost>>

ClientInsert(c) ==
    /\ client[c].pc = "insert"
    /\ \E j \in JobIds : InsertJob(j, client[c].req.target, client[c].req.key,
                                   NoJob, 0, "client", client[c].req.ctx)
    /\ client' = [client EXCEPT ![c] = IdleClient]
    /\ UNCHANGED <<phase, rec, wk, lanes, requests, restarts, lost>>

\* canSchedule with if_running = cancel: a due schedule finds work in flight.
SchedulerCancel(t) ==
    /\ phase = "up"
    /\ t \in CancelTargets
    /\ CountOutstandingJobs(t) > 0
    /\ CancelOutstandingJobs(t)
    /\ UNCHANGED <<phase, rec, wk, lanes, client, requests, restarts, lost>>

-----------------------------------------------------------------------------
(* The dispatch loop                                                       *)

Active == {w \in Workers : wk[w].live}

\* fillWorkers counts the running rows of each plugin ...
CountLanes ==
    /\ phase = "up"
    /\ ~lanes.counted
    /\ Cardinality(Active) < MaxWorkers
    /\ lanes' = [counted |-> TRUE,
                 skip |-> {p \in Plugins : RunningCountsByPlugin(p) >= Parallelism[p]}]
    /\ UNCHANGED <<storeVars, phase, rec, wk, client, requests, restarts, lost>>

\* ... and claims with that count, for a new worker goroutine.
StartWorker(w, j) ==
    /\ phase = "up"
    /\ lanes.counted
    /\ wk[w].pc = "idle"
    /\ DequeueEligible(j, lanes.skip)
    /\ wk' = [wk EXCEPT ![w] = [Idle EXCEPT !.pc = "exec", !.job = j,
                                            !.attempt = row[j].attempt,
                                            !.live = TRUE]]
    /\ lanes' = Uncounted
    /\ UNCHANGED <<phase, rec, client, requests, restarts, lost>>

NoEligibleWork ==
    /\ phase = "up"
    /\ lanes.counted
    /\ Eligible(lanes.skip) = {}
    /\ lanes' = Uncounted
    /\ UNCHANGED <<storeVars, phase, rec, wk, client, requests, restarts, lost>>

-----------------------------------------------------------------------------
(* A worker: executeJob.  A step that ends in a store write is one action  *)
(* with it: a crash or a cancel between the plugin's outcome and the write *)
(* is the same as one before the outcome.                                  *)

JobOf(w) == wk[w].job
TargetOf(w) == row[JobOf(w)].target
Running(w, pc) == wk[w].live /\ wk[w].pc = pc

restUnchanged == UNCHANGED <<phase, rec, lanes, client, requests, restarts>>

\* completeJob, its write succeeding; the goroutine ends.
completeJob(w, status) ==
    /\ CompleteWithResult(JobOf(w), status)
    /\ wk' = [wk EXCEPT ![w] = Idle]
    /\ UNCHANGED lost

\* Preflight error, unknown plugin or command, state, payload, secret
\* composition, privilege drop, with-remap or state-update failure.
WorkerAbort(w) ==
    /\ Running(w, "exec")
    /\ completeJob(w, "failed")
    /\ restUnchanged

\* Mutant: the retry keeps its attempt number.
WorkerRetry_SameAttempt(w) ==
    /\ Running(w, "exec")
    /\ wk[w].attempt < MaxAttempts[TargetOf(w)]
    /\ UpdateJobForRecovery(JobOf(w), "queued", wk[w].attempt, FALSE)
    /\ wk' = [wk EXCEPT ![w] = Idle]
    /\ UNCHANGED lost
    /\ restUnchanged

\* failOrRetry, retryable with attempts left.
WorkerRetry(w) ==
    /\ Running(w, "exec")
    /\ wk[w].attempt < MaxAttempts[TargetOf(w)]
    /\ UpdateJobForRecovery(JobOf(w), "queued", wk[w].attempt + 1, FALSE)
    /\ wk' = [wk EXCEPT ![w] = Idle]
    /\ UNCHANGED lost
    /\ restUnchanged

\* The same when the retry cannot be stored: the job is completed instead.
WorkerRetryFails(w) ==
    /\ Running(w, "exec")
    /\ lost.writes < MaxFaults
    /\ wk[w].attempt < MaxAttempts[TargetOf(w)]
    /\ \E status \in {"failed", "timed_out"} : CompleteWithResult(JobOf(w), status)
    /\ wk' = [wk EXCEPT ![w] = Idle]
    /\ lost' = [lost EXCEPT !.writes = @ + 1]
    /\ restUnchanged

\* hookChainDepth: how many hook jobs lead to j through parent_job_id.
hookChainDepth(j) ==
    LET depth[i \in JobIds] == IF row[i].by = "hook" /\ row[i].parent \in JobIds
                               THEN 1 + depth[row[i].parent] ELSE 0
    IN  depth[j]

\* maybeFireHooks up to its enqueues: the on-hook dispatches for a signal.
hookDispatches(j, status) ==
    IF row[j].ctx \/ hookChainDepth(j) + 1 > HookMaxDepth
    THEN {} ELSE HookTargets[row[j].target][status]

\* failOrRetry, not retryable or attempts exhausted.
WorkerGiveUp(w) ==
    /\ Running(w, "exec")
    /\ \E status \in {"failed", "timed_out"} :
         wk' = [wk EXCEPT ![w].pc = "hook", ![w].out = status,
                          ![w].todo = hookDispatches(JobOf(w), status)]
    /\ UNCHANGED <<storeVars, lost>>
    /\ restUnchanged

\* Mutant: the row is completed before its events are routed.
WorkerSucceed_CompletesFirst(w) ==
    /\ Running(w, "exec")
    /\ CompleteWithResult(JobOf(w), "succeeded")
    /\ wk' = [wk EXCEPT ![w].pc = "route", ![w].out = "succeeded",
                        ![w].todo = Routes[TargetOf(w)]]
    /\ UNCHANGED lost
    /\ restUnchanged

\* The plugin answered ok (or core.switch chose), or the step's condition is
\* false and its successors are routed in its place.
WorkerSucceed(w) ==
    /\ Running(w, "exec")
    /\ \E status \in {"succeeded"} \cup (IF row[JobOf(w)].ctx THEN {"skipped"} ELSE {}) :
         wk' = [wk EXCEPT ![w].pc = "route", ![w].out = status,
                          ![w].todo = Routes[TargetOf(w)]]
    /\ UNCHANGED <<storeVars, lost>>
    /\ restUnchanged

\* routeEvents, one dispatch: the admitter's look at the queue ...
RouteAdmit(w) ==
    /\ Running(w, "route")
    /\ \E t \in wk[w].todo :
         LET key == EventKey[TargetOf(w)]
             replay == /\ key # NoKey
                       /\ \/ findOutstandingByDedupeKey(t, key)
                          \/ findRecentSucceededByDedupeKey(t, key)
         IN wk' = [wk EXCEPT ![w].todo = @ \ {t}, ![w].next = t,
                             ![w].pc = IF replay THEN "route"
                                       ELSE IF key = NoKey THEN "insert" ELSE "lookup"]
    /\ UNCHANGED <<storeVars, lost>>
    /\ restUnchanged

\* ... the lookup of Enqueue, which sees recent successes only ...
RouteLookup(w) ==
    /\ Running(w, "lookup")
    /\ wk' = [wk EXCEPT ![w].pc =
                IF findRecentSucceededByDedupeKey(wk[w].next, EventKey[TargetOf(w)])
                THEN "route" ELSE "insert"]
    /\ UNCHANGED <<storeVars, lost>>
    /\ restUnchanged

\* A skipped step passes its own event on; otherwise the plugin named the
\* event, or this execution gave it an id nothing else has.
sourceEventID(w) ==
    IF StableEventId \/ wk[w].out = "skipped" THEN 1 ELSE wk[w].attempt + 1

\* ... and its insert, which the source-event index may refuse.
RouteInsert(w) ==
    /\ Running(w, "insert")
    /\ \/ /\ \E j \in JobIds : InsertJob(j, wk[w].next, EventKey[TargetOf(w)], JobOf(w),
                                         sourceEventID(w), "route", TRUE)
       \/ /\ SourceEventConflict(wk[w].next, JobOf(w), sourceEventID(w))
          /\ UNCHANGED storeVars
    /\ wk' = [wk EXCEPT ![w].pc = "route"]
    /\ UNCHANGED lost
    /\ restUnchanged

\* A routing error fails the job; children already enqueued stay.
RouteFail(w) ==
    /\ wk[w].live
    /\ wk[w].pc \in {"route", "lookup", "insert"}
    /\ completeJob(w, "failed")
    /\ restUnchanged

\* Mutant: routing stops before its last dispatch.
RouteDone_Early(w) ==
    /\ Running(w, "route")
    /\ wk' = [wk EXCEPT ![w].pc = "hook", ![w].todo = {}]
    /\ UNCHANGED <<storeVars, lost>>
    /\ restUnchanged

RouteDone(w) ==
    /\ Running(w, "route")
    /\ wk[w].todo = {}
    /\ wk' = [wk EXCEPT ![w].pc = "hook",
                        ![w].todo = IF wk[w].out = "succeeded"
                                    THEN hookDispatches(JobOf(w), "succeeded") ELSE {}]
    /\ UNCHANGED <<storeVars, lost>>
    /\ restUnchanged

\* maybeFireHooks, one enqueue; one that fails is logged and passed over.
HookEnqueue(w) ==
    /\ Running(w, "hook")
    /\ \E t \in wk[w].todo :
         /\ \/ /\ \E j \in JobIds : InsertJob(j, t, NoKey, JobOf(w), 0, "hook", FALSE)
               /\ UNCHANGED lost
            \/ /\ lost.writes < MaxFaults
               /\ lost' = [lost EXCEPT !.writes = @ + 1]
               /\ UNCHANGED storeVars
         /\ wk' = [wk EXCEPT ![w].todo = @ \ {t}]
    /\ restUnchanged

WorkerFinish(w) ==
    /\ Running(w, "hook")
    /\ wk[w].todo = {}
    /\ completeJob(w, wk[w].out)
    /\ restUnchanged

\* The final write fails; completeJob only logs it.
CompletionFails(w) ==
    /\ wk[w].live
    /\ wk[w].pc # "idle"
    /\ lost.writes < MaxFaults
    /\ wk' = [wk EXCEPT ![w] = Idle]
    /\ lost' = [jobs |-> lost.jobs \cup {JobOf(w)}, writes |-> lost.writes + 1]
    /\ UNCHANGED storeVars
    /\ restUnchanged

\* A worker of a cancelled context ends with nothing written.
WorkerAbandon(w) ==
    /\ wk[w].pc # "idle"
    /\ ~wk[w].live
    /\ wk' = [wk EXCEPT ![w] = Idle]
    /\ UNCHANGED <<storeVars, lost>>
    /\ restUnchanged

-----------------------------------------------------------------------------
(* Recovery: recoverOrphanedJobs, before the dispatch loop starts.         *)

runtimeUnchanged == UNCHANGED <<phase, wk, lanes, client, requests, restarts>>

\* The orphan in hand: FindJobsByStatus lists the running rows oldest first.
Orphan(j) ==
    /\ phase = "recovering"
    /\ j \in rec.orphans
    /\ \A i \in rec.orphans : j <= i

\* Mutant: the guard compares the attempt before its increment.
RecoverRequeue_OffByOne(j) ==
    /\ Orphan(j) /\ rec.pc = "scan"
    /\ row[j].attempt <= MaxAttempts[row[j].target]
    /\ UpdateJobForRecovery(j, "queued", row[j].attempt + 1, TRUE)
    /\ rec' = [rec EXCEPT !.orphans = @ \ {j}]
    /\ lost' = [lost EXCEPT !.jobs = @ \ {j}]
    /\ runtimeUnchanged

\* Mutant: the interrupted attempt is not counted.
RecoverRequeue_SameAttempt(j) ==
    /\ Orphan(j) /\ rec.pc = "scan"
    /\ row[j].attempt + 1 <= MaxAttempts[row[j].target]
    /\ UpdateJobForRecovery(j, "queued", row[j].attempt, TRUE)
    /\ rec' = [rec EXCEPT !.orphans = @ \ {j}]
    /\ lost' = [lost EXCEPT !.jobs = @ \ {j}]
    /\ runtimeUnchanged

RecoverRequeue(j) ==
    /\ Orphan(j) /\ rec.pc = "scan"
    /\ row[j].attempt + 1 <= MaxAttempts[row[j].target]
    /\ UpdateJobForRecovery(j, "queued", row[j].attempt + 1, TRUE)
    /\ rec' = [rec EXCEPT !.orphans = @ \ {j}]
    /\ lost' = [lost EXCEPT !.jobs = @ \ {j}]
    /\ runtimeUnchanged

\* Out of attempts: dead first, completed in a second transaction.
RecoverDead(j) ==
    /\ Orphan(j) /\ rec.pc = "scan"
    /\ row[j].attempt + 1 > MaxAttempts[row[j].target]
    /\ UpdateJobForRecovery(j, "dead", row[j].attempt + 1, TRUE)
    /\ rec' = [rec EXCEPT !.pc = "complete"]
    /\ lost' = [lost EXCEPT !.jobs = @ \ {j}]
    /\ runtimeUnchanged

RecoverComplete(j) ==
    /\ Orphan(j) /\ rec.pc = "complete"
    /\ CompleteWithResult(j, "dead")
    /\ rec' = [rec EXCEPT !.pc = "hook", !.todo = hookDispatches(j, "dead")]
    /\ UNCHANGED lost
    /\ runtimeUnchanged

RecoverHook(j) ==
    /\ Orphan(j) /\ rec.pc = "hook"
    /\ \/ \E t \in rec.todo :
            /\ \E i \in JobIds : InsertJob(i, t, NoKey, j, 0, "hook", FALSE)
            /\ rec' = [rec EXCEPT !.todo = @ \ {t}]
       \/ /\ rec.todo = {}
          /\ rec' = [rec EXCEPT !.pc = "scan", !.orphans = @ \ {j}]
          /\ UNCHANGED storeVars
    /\ UNCHANGED lost
    /\ runtimeUnchanged

\* A failed write is logged and recovery goes on: the orphan stays running,
\* or dead without a completion.
RecoverFails(j) ==
    /\ Orphan(j)
    /\ lost.writes < MaxFaults
    /\ \/ /\ rec.pc = "scan"
          /\ rec' = [rec EXCEPT !.orphans = @ \ {j}]
          /\ lost' = [jobs |-> lost.jobs \cup {j}, writes |-> lost.writes + 1]
       \/ /\ rec.pc = "complete"
          /\ rec' = [rec EXCEPT !.pc = "hook", !.todo = hookDispatches(j, "dead")]
          /\ lost' = [lost EXCEPT !.writes = @ + 1]
       \/ /\ rec.pc = "hook"
          /\ \E t \in rec.todo : rec' = [rec EXCEPT !.todo = @ \ {t}]
          /\ lost' = [lost EXCEPT !.writes = @ + 1]
    /\ UNCHANGED storeVars
    /\ runtimeUnchanged

RecoverDone ==
    /\ phase = "recovering"
    /\ rec = NoRecovery
    /\ phase' = "up"
    /\ UNCHANGED <<storeVars, rec, wk, lanes, client, requests, restarts, lost>>

-----------------------------------------------------------------------------
(* The process: buildRuntime, runtimeState.Stop, Reload, and a crash.      *)

\* Mutant: no recovery pass.
StartRecovery_Skipped ==
    /\ phase' = "recovering"
    /\ rec' = NoRecovery

StartRecovery ==
    /\ phase' = "recovering"
    /\ rec' = [NoRecovery EXCEPT !.orphans =
                 {j \in JobIds : row[j].status = "running"}]

Start ==
    /\ phase = "down"
    /\ StartRecovery
    /\ UNCHANGED <<storeVars, wk, lanes, client, requests, restarts, lost>>

\* Mutant: the workers' context is not derived from the runtime's.
CancelContext_KeepsWorkers ==
    /\ restarts < MaxRestarts
    /\ restarts' = restarts + 1
    /\ lanes' = Uncounted
    /\ client' = [c \in Clients |-> IdleClient]
    /\ UNCHANGED <<storeVars, wk, requests, lost>>

\* Cancelling the context: workers, loop and requests lose it at once.
CancelContext ==
    /\ restarts < MaxRestarts
    /\ restarts' = restarts + 1
    /\ wk' = [w \in Workers |-> [wk[w] EXCEPT !.live = FALSE]]
    /\ lanes' = Uncounted
    /\ client' = [c \in Clients |-> IdleClient]
    /\ UNCHANGED <<storeVars, requests, lost>>

StopBegin ==
    /\ phase = "up"
    /\ CancelContext
    /\ phase' = "stopping"
    /\ UNCHANGED rec

\* wg.Wait returns once every worker has.
StopEnd ==
    /\ phase = "stopping"
    /\ \A w \in Workers : wk[w].pc = "idle"
    /\ phase' = "down"
    /\ UNCHANGED <<storeVars, rec, wk, lanes, client, requests, restarts, lost>>

\* Reload waits for the listeners of the old runtime, not for its workers.
Reload ==
    /\ phase = "up"
    /\ CancelContext
    /\ StartRecovery

Crash ==
    /\ phase # "down"
    /\ restarts < MaxRestarts
    /\ restarts' = restarts + 1
    /\ phase' = "down"
    /\ rec' = NoRecovery
    /\ wk' = [w \in Workers |-> Idle]
    /\ lanes' = Uncounted
    /\ client' = [c \in Clients |-> IdleClient]
    /\ UNCHANGED <<storeVars, requests, lost>>

\* Time passes in the store whatever the process does.
Clock ==
    /\ \E j \in JobIds : RetryBecomesDue(j) \/ DedupeWindowExpires(j)
    /\ UNCHANGED <<phase, rec, wk, lanes, client, requests, restarts, lost>>

-----------------------------------------------------------------------------

ClientStep(c) == ClientRequest(c) \/ ClientLookup(c) \/ ClientInsert(c)

LoopStep == CountLanes \/ NoEligibleWork \/ \E w \in Workers, j \in JobIds : StartWorker(w, j)

WorkerStep(w) ==
    \/ WorkerAbort(w) \/ WorkerRetry(w) \/ WorkerRetryFails(w) \/ WorkerGiveUp(w)
    \/ WorkerSucceed(w) \/ RouteAdmit(w) \/ RouteLookup(w) \/ RouteInsert(w)
    \/ RouteFail(w) \/ RouteDone(w) \/ HookEnqueue(w) \/ WorkerFinish(w)
    \/ CompletionFails(w) \/ WorkerAbandon(w)

RecoveryStep ==
    \/ \E j \in JobIds : \/ RecoverRequeue(j) \/ RecoverDead(j) \/ RecoverComplete(j)
                         \/ RecoverHook(j) \/ RecoverFails(j)
    \/ RecoverDone

Next ==
    \/ \E c \in Clients : ClientStep(c)
    \/ \E t \in Targets : SchedulerCancel(t)
    \/ LoopStep
    \/ \E w \in Workers : WorkerStep(w)
    \/ RecoveryStep
    \/ Start \/ StopBegin \/ StopEnd \/ Reload \/ Crash
    \/ Clock

Spec == Init /\ [][Next]_vars

\* The loop's ticker, the workers (every plugin ends or is killed at its
\* timeout), recovery, the clock and a supervisor that restarts the process
\* go on; producers, cancels, stops and crashes need not happen.
FairSpec ==
    /\ Spec
    /\ WF_vars(LoopStep)
    /\ \A w \in Workers : WF_vars(WorkerStep(w))
    /\ WF_vars(RecoveryStep)
    /\ WF_vars(Clock)
    /\ WF_vars(Start) /\ WF_vars(StopEnd)

-----------------------------------------------------------------------------
(* Properties                                                              *)

ChainTo(log, status) ==
    /\ status = "absent" <=> log = <<>>
    /\ log # <<>> => log[1].from = "absent" /\ log[Len(log)].to = status
    /\ \A i \in 1 .. Len(log) - 1 : log[i].to = log[i + 1].from

\* GetJobLineage's two comparisons and more: every job's transition log is
\* an unbroken chain from its insertion to the status job_queue caches.
LineageMatches == \A j \in JobIds : ChainTo(trans[j], row[j].status)

\* Never two goroutines of the running gateway on one job, whatever cancels,
\* retries, lost writes and restarts came before.
OneLiveWorkerPerJob ==
    \A v, w \in Workers :
        wk[v].live /\ wk[w].live /\ wk[v].job = wk[w].job => v = w

\* A queued job can be claimed: its attempt number is not yet in
\* job_attempts, so the claim at the head of the queue cannot be rolled back
\* by UNIQUE(job_id, attempt) tick after tick.
ClaimNeverWedges ==
    \A j \in JobIds : row[j].status = "queued" => row[j].attempt \notin attempts[j]

\* No plugin runs more often than max_attempts for a job, across worker
\* retries and crash recoveries together.
AttemptBudget ==
    \A j \in JobIds : Present(j) =>
        /\ attempts[j] \subseteq 1 .. MaxAttempts[row[j].target]
        /\ row[j].attempt > MaxAttempts[row[j].target] => row[j].status = "dead"

\* job_log holds at most one outcome per job, and a job with one is done:
\* neither queued nor running, and no live worker is left to write again.
OneOutcomePerJob ==
    \A j \in JobIds : jobLog[j] # {} =>
        /\ \E n \in jobLog[j] : jobLog[j] = {n}
        /\ IsTerminal(j)
        /\ \A w \in Workers : wk[w].live => wk[w].job # j

\* While the gateway is up every running row has the live worker that
\* claimed its attempt, unless a store write failed: recovery leaves none
\* behind and no path of executeJob drops one.
RunningIsOwned ==
    phase = "up" =>
        \A j \in JobIds \ lost.jobs :
            row[j].status = "running" =>
                \E w \in Workers : /\ wk[w].live
                                   /\ wk[w].job = j
                                   /\ wk[w].attempt = row[j].attempt

\* Per-plugin parallelism, of rows: the count fillWorkers took before its
\* claim is still an upper bound when the claim is made.
ParallelismOfRows ==
    \A p \in Plugins : RunningCountsByPlugin(p) <= Parallelism[p]

\* Jobs with one dedupe key and one target run one at a time.
KeysSerialised ==
    \A i, j \in JobIds :
        /\ row[i].status = "running" /\ row[j].status = "running"
        /\ row[i].key # NoKey
        /\ SameKeyAndTarget(i, row[j].target, row[j].key)
        => i = j

\* No lost messages: a job is recorded as succeeded only after every
\* dispatch of its events is a row of the queue, or was dropped because a row
\* with its dedupe key was there.
SucceededHasChildren ==
    \A j \in JobIds : row[j].status = "succeeded" =>
        \A t \in Routes[row[j].target] :
            \E c \in JobIds :
                /\ Present(c)
                /\ row[c].target = t
                /\ \/ row[c].parent = j
                   \/ /\ EventKey[row[j].target] # NoKey
                      /\ row[c].key = EventKey[row[j].target]

\* Each job follows the relation of statemachine_test.go: every step of the
\* gateway is a legal step of one job's lifecycle or leaves all of them alone.
\* (Without if_running = cancel.)
Lifecycle == INSTANCE JobLifecycle WITH
    Jobs <- JobIds,
    status <- [j \in JobIds |-> row[j].status],
    attempt <- [j \in JobIds |-> row[j].attempt],
    budget <- [j \in JobIds |-> IF Present(j) THEN MaxAttempts[row[j].target] ELSE 0]

FollowsLifecycle == Lifecycle!Spec

\* statemachine_test.go's relation: a terminal status is absorbing.
TerminalIsAbsorbing ==
    [][\A j \in JobIds : IsTerminal(j) => row'[j].status = row[j].status]_vars

\* A tree that looks complete stays so: a terminal job gets no more children
\* but the hook jobs of crash recovery.  WaitForJobTree relies on it.
TerminalTreeIsClosed ==
    [][\A j, c \in JobIds :
         /\ IsTerminal(j)
         /\ ~Present(c) /\ row'[c].status # "absent" /\ row'[c].parent = j
         => phase = "recovering" /\ row'[c].by = "hook"]_vars

\* A hook job is at most hook_max_depth hooks away from a job that is none.
HookChainBounded ==
    \A j \in JobIds : Present(j) => hookChainDepth(j) <= HookMaxDepth

\* With one producer per key (the scheduler's keys are its own) and the TTL
\* override it sets, two jobs of one key and target are never outstanding
\* together, however retries and restarts interleave with its enqueues.
OneOutstandingPerKey ==
    \A i, j \in JobIds :
        /\ Outstanding(i) /\ Outstanding(j)
        /\ row[i].key # NoKey
        /\ SameKeyAndTarget(i, row[j].target, row[j].key)
        => i = j

\* Work is neither lost nor doubled between the queue, its workers and a
\* restart: what runs is owned, what succeeded has its successors, and a key
\* has one job outstanding.
WorkAccounted == RunningIsOwned /\ SucceededHasChildren /\ OneOutstandingPerKey

\* The lanes of fillWorkers and Eligible hold while several workers claim:
\* a key runs once at a time, a plugin at most its parallelism.
LanesKept == KeysSerialised /\ ParallelismOfRows

\* ARCHITECTURE.md 11.3: "In-flight jobs continue with existing config
\* snapshot": what a worker is executing is what its row says is running.
InFlightJobsContinue ==
    \A w \in Workers : wk[w].pc # "idle" =>
        /\ row[wk[w].job].status = "running"
        /\ row[wk[w].job].attempt = wk[w].attempt

\* At-least-once: every job that was enqueued is eventually done for good,
\* unless a completion could not be stored: its row then counts as running,
\* and the jobs of its plugin may wait behind it until the next start.  So
\* does the chain of hooks: a hook pipeline that runs its own plugin again
\* stops at hook_max_depth.
EveryJobEnds ==
    /\ \A j \in JobIds : Present(j) ~> (lost.jobs # {} \/ [](IsTerminal(j)))
    /\ []HookChainBounded
=============================================================================
