---------------------------- MODULE JobTreeWait -----------------------------
(***************************************************************************)
(* What is seen of jobs from outside while they run: the synchronous       *)
(* trigger of internal/api, WaitForJobTree and notifyCompletion of         *)
(* internal/dispatch, and the event streams of EventHub.  Jobs are those   *)
(* of Dispatcher, cut down to the steps of completeJob: publish, write the *)
(* row, notify.  Of the events only those of completed jobs are kept.      *)
(***************************************************************************)
EXTENDS EventHub

CONSTANTS
    Jobs,            \* the jobs of this instance
    NoJob,
    Parent,          \* [Jobs -> Jobs \cup {NoJob}], parent_job_id
    MaxSync,         \* api.max_concurrent_sync
    Scenarios        \* which streams connect, which requests come, which of them
                     \* do not wait, and a bound on retries, completions that
                     \* cannot be stored, reads that fail and cancels by a
                     \* schedule's if_running, together

Roots == {j \in Jobs : Parent[j] = NoJob}

ASSUME TreeAssumption ==
    /\ IsFiniteSet(Jobs) /\ NoJob \notin Jobs
    /\ Parent \in [Jobs -> Jobs \cup {NoJob}]
    /\ MaxSync \in Nat
    /\ Scenarios \subseteq [online: SUBSET Streams, requests: SUBSET Roots,
                      async: SUBSET Roots, events: Nat]

VARIABLES
    scene,        \* the scenario
    status,       \* job_queue, its terminal statuses taken together
    worker,       \* the goroutine executing a job
    event,        \* the id its completion event took
    completions,  \* Dispatcher.completions: the channel of each waiter
    wait,         \* the synchronous requests, one per root
    sem,          \* slots of syncSemaphore in use
    bounded       \* the bounded events so far, and the jobs that were cancelled

treeVars == <<scene, status, worker, event, completions, wait, sem, bounded>>
vars == <<hubVars, treeVars>>

Waiter == [pc: {"none", "enqueued", "register", "read", "confirm", "wait",
                "returned", "timeout", "failed", "rejected", "accepted"},
           tree: SUBSET Jobs]    \* the last tree read

TypeOK ==
    /\ HubTypeOK
    /\ scene \in Scenarios
    /\ status \in [Jobs -> {"absent", "queued", "running", "done"}]
    /\ worker \in [Jobs -> {"none", "exec", "publish", "write", "notify"}]
    /\ event \in [Jobs -> Nat]
    /\ completions \in [Roots -> {"none", "empty", "full"}]
    /\ wait \in [Roots -> Waiter]
    /\ sem \in 0 .. MaxSync
    /\ bounded \in [count: Nat, cancelled: SUBSET Jobs]

Init ==
    /\ HubInit
    /\ scene \in Scenarios
    /\ status = [j \in Jobs |-> "absent"]
    /\ worker = [j \in Jobs |-> "none"]
    /\ event = [j \in Jobs |-> 0]
    /\ completions = [r \in Roots |-> "none"]
    /\ wait = [r \in Roots |-> [pc |-> "none", tree |-> {}]]
    /\ sem = 0
    /\ bounded = [count |-> 0, cancelled |-> {}]

\* GetJobTree, a recursive query over parent_job_id: the rows of the job and of
\* its descendants, the least set with the job that is closed under children.
Closed(S, r) == r \in S /\ \A k \in Jobs : Parent[k] \in S => k \in S
Descendants == [r \in Roots |-> {j \in Jobs : \A S \in SUBSET Jobs : Closed(S, r) => j \in S}]
GetJobTree(r) == {j \in Descendants[r] : status[j] # "absent"}

jobTreeComplete(tree) == \A j \in tree : status[j] = "done"

-----------------------------------------------------------------------------
(* Workers *)

Claim(j) ==
    /\ status[j] = "queued"
    /\ status' = [status EXCEPT ![j] = "running"]
    /\ worker' = [worker EXCEPT ![j] = "exec"]
    /\ UNCHANGED <<scene, hubVars, event, completions, wait, sem, bounded>>

\* Mutant: the child is enqueued when the job is already done.
RouteChild_Late(j) ==
    /\ worker[Parent[j]] = "notify"
    /\ status[j] = "absent"
    /\ status' = [status EXCEPT ![j] = "queued"]
    /\ UNCHANGED <<scene, hubVars, worker, event, completions, wait, sem, bounded>>

\* routeEvents: a child row, while the job is still running.
RouteChild(j) ==
    /\ worker[Parent[j]] = "exec"
    /\ status[j] = "absent"
    /\ status' = [status EXCEPT ![j] = "queued"]
    /\ UNCHANGED <<scene, hubVars, worker, event, completions, wait, sem, bounded>>

\* failOrRetry: back to the queue, with no notification.
Retry(j) ==
    /\ worker[j] = "exec"
    /\ bounded.count < scene.events
    /\ bounded' = [bounded EXCEPT !.count = @ + 1]
    /\ status' = [status EXCEPT ![j] = "queued"]
    /\ worker' = [worker EXCEPT ![j] = "none"]
    /\ UNCHANGED <<scene, hubVars, event, completions, wait, sem>>

\* completeJob: Publish takes an id ...
PublishID(j) ==
    /\ worker[j] = "exec"
    /\ nextID' = nextID + 1
    /\ event' = [event EXCEPT ![j] = nextID + 1]
    /\ worker' = [worker EXCEPT ![j] = "publish"]
    /\ UNCHANGED <<scene, hub, pushed, stream, status, completions, wait, sem, bounded>>

\* (or none, for a skipped step) ...
CompleteSkipped(j) ==
    /\ worker[j] = "exec"
    /\ worker' = [worker EXCEPT ![j] = "write"]
    /\ UNCHANGED <<scene, hubVars, status, event, completions, wait, sem, bounded>>

\* ... and pushes, ...
PublishPush(j) ==
    /\ worker[j] = "publish"
    /\ Publish(event[j])
    /\ worker' = [worker EXCEPT ![j] = "write"]
    /\ UNCHANGED <<scene, nextID, status, event, completions, wait, sem, bounded>>

\* ... the row is written, or the failure to do so logged, ...
CompleteWithResult(j) ==
    /\ worker[j] = "write"
    /\ \/ /\ status' = [status EXCEPT ![j] = "done"]
          /\ UNCHANGED bounded
       \/ /\ bounded.count < scene.events
          /\ bounded' = [bounded EXCEPT !.count = @ + 1]
          /\ UNCHANGED status
    /\ worker' = [worker EXCEPT ![j] = "notify"]
    /\ UNCHANGED <<scene, hubVars, event, completions, wait, sem>>

\* Mutant: only who waits for this very job is notified.
notifyCompletion_OwnWaiter(j) ==
    /\ worker[j] = "notify"
    /\ completions' = [r \in Roots |-> IF completions[r] = "none" \/ r # j
                                      THEN completions[r] ELSE "full"]
    /\ worker' = [worker EXCEPT ![j] = "none"]
    /\ UNCHANGED <<scene, hubVars, status, event, wait, sem, bounded>>

\* ... and every waiter gets a notification, if it has none pending.
notifyCompletion(j) ==
    /\ worker[j] = "notify"
    /\ completions' = [r \in Roots |-> IF completions[r] = "none" THEN "none" ELSE "full"]
    /\ worker' = [worker EXCEPT ![j] = "none"]
    /\ UNCHANGED <<scene, hubVars, status, event, wait, sem, bounded>>

\* CancelOutstandingJobs of a schedule of the same command: nobody is told.
CancelOutstanding(j) ==
    /\ status[j] \in {"queued", "running"}
    /\ bounded.count < scene.events
    /\ bounded' = [count |-> bounded.count + 1, cancelled |-> bounded.cancelled \cup {j}]
    /\ status' = [status EXCEPT ![j] = "done"]
    /\ UNCHANGED <<scene, hubVars, worker, event, completions, wait, sem>>

WorkerStep(j) ==
    \/ Claim(j) \/ PublishID(j) \/ CompleteSkipped(j) \/ PublishPush(j)
    \/ CompleteWithResult(j) \/ notifyCompletion(j)

-----------------------------------------------------------------------------
(* The synchronous trigger, one request per root *)

\* handlePipelineTrigger enqueues before it looks for a slot; an asynchronous
\* request ends here.
TriggerPipeline(r) ==
    /\ r \in scene.requests
    /\ wait[r].pc = "none"
    /\ status' = [status EXCEPT ![r] = "queued"]
    /\ wait' = [wait EXCEPT ![r].pc = IF r \in scene.async THEN "accepted" ELSE "enqueued"]
    /\ UNCHANGED <<scene, hubVars, worker, event, completions, sem, bounded>>

\* A free slot of syncSemaphore, or 503 with the job left in the queue.
AcquireSlot(r) ==
    /\ wait[r].pc = "enqueued"
    /\ IF sem < MaxSync
       THEN sem' = sem + 1 /\ wait' = [wait EXCEPT ![r].pc = "register"]
       ELSE wait' = [wait EXCEPT ![r].pc = "rejected"] /\ UNCHANGED sem
    /\ UNCHANGED <<scene, hubVars, status, worker, event, completions, bounded>>

\* WaitForJobTree: the channel is there before the first look.
RegisterWaiter(r) ==
    /\ wait[r].pc = "register"
    /\ completions' = [completions EXCEPT ![r] = "empty"]
    /\ wait' = [wait EXCEPT ![r].pc = "read"]
    /\ UNCHANGED <<scene, hubVars, status, worker, event, sem, bounded>>

\* settledJobTree: a first read ...
ReadTree(r) ==
    /\ wait[r].pc = "read"
    /\ LET tree == GetJobTree(r)
       IN wait' = [wait EXCEPT ![r] =
            [pc |-> IF jobTreeComplete(tree) THEN "confirm" ELSE "wait", tree |-> tree]]
    /\ UNCHANGED <<scene, hubVars, status, worker, event, completions, sem, bounded>>

\* The deferred clean-up of WaitForJobTree and of the handler.
Leave(r, pc, tree) ==
    /\ wait' = [wait EXCEPT ![r] = [pc |-> pc, tree |-> tree]]
    /\ completions' = [completions EXCEPT ![r] = "none"]
    /\ sem' = sem - 1

\* ... and a second one, that must be complete too and as large.
ConfirmTree(r) ==
    LET tree == GetJobTree(r)
        settled == jobTreeComplete(tree) /\ Cardinality(tree) = Cardinality(wait[r].tree)
    IN  /\ wait[r].pc = "confirm"
        /\ IF settled THEN Leave(r, "returned", tree)
           ELSE /\ wait' = [wait EXCEPT ![r] = [pc |-> "wait", tree |-> tree]]
                /\ UNCHANGED <<completions, sem>>
        /\ UNCHANGED <<scene, hubVars, status, worker, event, bounded>>

Woken(r) ==
    /\ wait[r].pc = "wait"
    /\ completions[r] = "full"
    /\ completions' = [completions EXCEPT ![r] = "empty"]
    /\ wait' = [wait EXCEPT ![r].pc = "read"]
    /\ UNCHANGED <<scene, hubVars, status, worker, event, sem, bounded>>

\* The timer, or the client has gone.
WaitTimesOut(r) ==
    /\ wait[r].pc = "wait"
    /\ Leave(r, "timeout", wait[r].tree)
    /\ UNCHANGED <<scene, hubVars, status, worker, event, bounded>>

\* A read of the tree fails: the wait ends with the error.
WaitFails(r) ==
    /\ wait[r].pc \in {"read", "confirm"}
    /\ bounded.count < scene.events
    /\ bounded' = [bounded EXCEPT !.count = @ + 1]
    /\ Leave(r, "failed", wait[r].tree)
    /\ UNCHANGED <<scene, hubVars, status, worker, event>>

WaiterStep(r) ==
    \/ AcquireSlot(r) \/ RegisterWaiter(r) \/ ReadTree(r) \/ ConfirmTree(r) \/ Woken(r)

Observe(s) == StreamStep(s) /\ UNCHANGED treeVars

Next ==
    \/ \E j \in Jobs : \/ WorkerStep(j) \/ Retry(j) \/ CancelOutstanding(j)
                       \/ (j \notin Roots /\ RouteChild(j))
    \/ \E r \in Roots : TriggerPipeline(r) \/ WaiterStep(r) \/ WaitTimesOut(r)
                        \/ WaitFails(r)
    \/ \E s \in scene.online : Observe(s)

\* Workers and waiters go on; clients of a stream may stop reading, and the
\* timer of a wait need not fire.
Spec ==
    /\ Init /\ [][Next]_vars
    /\ \A j \in Jobs : WF_vars(WorkerStep(j))
    /\ \A r \in Roots : WF_vars(WaiterStep(r))

-----------------------------------------------------------------------------
(* Properties *)

Waiting(r) == wait[r].pc \in {"register", "read", "confirm", "wait"}
Undisturbed(r) == \A j \in GetJobTree(r) : j \notin bounded.cancelled

\* The answer of a synchronous pipeline is the whole tree: every job in it is
\* done, and none joins it later.
WholeTree ==
    \A r \in Roots : wait[r].pc = "returned" /\ Undisturbed(r) =>
        /\ wait[r].tree = GetJobTree(r)
        /\ jobTreeComplete(wait[r].tree)

\* Every path out of the handler gives its slot back, and every waiter that
\* could be notified is one that waits.
SlotsBalance ==
    /\ sem = Cardinality({r \in Roots : Waiting(r)})
    /\ \A r \in Roots : completions[r] # "none" => Waiting(r)

\* A synchronous request that leaves, by whichever way, leaves with a whole
\* answer and without its slot and its channel.
AnswersWhole == TypeOK /\ WholeTree /\ SlotsBalance

\* No lost wake-up: a wait whose tree is complete ends, without the help of
\* its timer, although notifications go to all waiters and are merged.
WokenUp ==
    \A r \in Roots :
        Waiting(r) /\ jobTreeComplete(GetJobTree(r)) /\ Undisturbed(r) ~> ~Waiting(r)

\* ARCHITECTURE.md: slow subscribers "can never block core workers": a worker
\* that has begun to publish ends even if no client reads its stream.
StreamsNeverBlock ==
    \A j \in Jobs : worker[j] = "publish" ~> worker[j] = "none"
=============================================================================
