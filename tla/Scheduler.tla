----------------------------- MODULE Scheduler ------------------------------
(***************************************************************************)
(* The scheduler of internal/scheduler for one (plugin, command): its      *)
(* schedule entries, the circuit breaker they share, start-up catch-up and *)
(* the tick.  One goroutine does all of it, one store statement after the  *)
(* other, while workers finish jobs, time passes, the operator resets the  *)
(* breaker from another process and the gateway crashes or reloads.        *)
(*                                                                         *)
(* A job is kept as what the scheduler reads of it; how it runs is         *)
(* Dispatcher's subject.  The enqueue is one step here: each key has this  *)
(* goroutine as its only producer.  Times are whole ticks of a clock.      *)
(***************************************************************************)
EXTENDS Integers, Sequences, FiniteSets, FiniteSetsExt

CONSTANTS
    Schedules,       \* schedule ids
    Configurations,  \* the configurations the gateway may run with
    MaxTime,         \* bound: the clock
    MaxJobs,         \* bound: jobs of this plugin and command
    TickInterval     \* service.tick_interval

JobIds == 1 .. MaxJobs
Nil == -1
Time == 0 .. MaxTime
Moment == Nat \union {Nil}  \* a time that may be NULL

\* What a configuration says of the schedules of the command and its breaker.
\* "every" runs at an interval, "cron" matches the multiples of it, and
\* "oneshot" runs at it.
Configuration ==
    [order: Seq(Schedules),                               \* as a tick visits them
     kind: [Schedules -> {"every", "cron", "oneshot"}],
     interval: [Schedules -> Nat \ {0}],
     jitter: Nat,                                         \* largest jitter of an interval
     ifRunning: [Schedules -> {"skip", "queue", "cancel"}],
     maxOutstanding: Nat \ {0},                           \* max_outstanding_polls
     windowed: SUBSET Schedules,                          \* with not_on or only_between
     catchUp: [Schedules -> {"skip", "run_once", "run_all"}],
     catchUpMax: Nat \ {0},                               \* catchUpRunAllMax
     threshold: Nat \ {0},
     resetAfter: Nat,
     \* bounds: the last time and job, crashes and reloads, store statements
     \* that fail, manual resets of the breaker
     until: Time, jobs: JobIds, crashes: Nat, faults: Nat, resets: Nat]

ASSUME SchedulerAssumption ==
    /\ MaxTime \in Nat /\ MaxJobs \in Nat /\ TickInterval \in Nat
    /\ \A c \in Configurations : c \in Configuration /\ c.order # <<>>

VARIABLES
    conf,    \* the configuration
    now,     \* the clock
    entry,   \* schedule_entries
    brk,     \* circuit_breakers, the row of this plugin and command
    noted,   \* circuit_breaker_transitions of it: to_state of the last row
    job,     \* its jobs in job_queue
    sch,     \* the scheduler goroutine
    cli,     \* an operator's "system reset" between its statements
    used     \* how often each bounded event has happened

vars == <<conf, now, entry, brk, noted, job, sch, cli, used>>

Entry == [status: {"active", "exhausted"}, lastFired: Moment, lastSuccess: 0 .. MaxJobs,
          lastSuccessAt: Moment, nextRun: Int]
NewEntry == [status |-> "active", lastFired |-> Nil, lastSuccess |-> 0,
             lastSuccessAt |-> Nil, nextRun |-> Nil]

CircuitState == {"closed", "open", "half_open"}
Breaker == [state: CircuitState, failures: Nat, openedAt: Moment, lastJob: 0 .. MaxJobs]
NewBreaker == [state |-> "closed", failures |-> 0, openedAt |-> Nil, lastJob |-> 0]

JobRow == [status: {"absent", "outstanding", "succeeded", "failed", "dead"},
           sched: Schedules,
           slot: Int,       \* the missed run it stands in for, Nil for a tick's job
           done: Moment,    \* completed_at
           held: BOOLEAN,   \* dead, and the worker it was cancelled under goes on
           counted: Nat]    \* history: times reconcileCircuitBreaker counted it
NoRow == [status |-> "absent", sched |-> conf.order[1], slot |-> Nil, done |-> Nil,
          held |-> FALSE, counted |-> 0]

Stages == {"down", "catchup", "slots", "caught", "idle", "load", "breaker", "reconciled",
           "due", "gate", "halfopen", "opened", "policy", "enqueue", "fired", "hit"}
\* A CommandResult: job, whether it succeeded, completed_at.
Result == [id: 0 .. MaxJobs, ok: BOOLEAN, at: Moment]
NoResult == [id |-> 0, ok |-> FALSE, at |-> Nil]

Goroutine == [pc: Stages,
              i: 1 .. Len(conf.order),  \* the schedule in hand
              es: Entry,           \* entryState, as loaded and modified
              cb: Breaker,         \* the breaker row as last read or written
              from: CircuitState,  \* its state before
              latest: Result,      \* latestCompleted
              at: Moment,          \* runStartupCatchUp's now
              k: Nat]              \* the catch-up run in hand
Stopped == [pc |-> "down", i |-> 1, es |-> NewEntry, cb |-> NewBreaker,
            from |-> "closed", latest |-> NoResult, at |-> Nil, k |-> 0]

TypeOK ==
    /\ conf \in Configurations
    /\ now \in Time
    /\ entry \in [Schedules -> Entry]
    /\ brk \in Breaker
    /\ noted \in CircuitState
    /\ job \in [JobIds -> JobRow]
    /\ sch \in Goroutine
    /\ cli \in {"idle", "write", "record"}
    /\ used \in [crashes: Nat, faults: Nat, resets: Nat]

Init ==
    /\ conf \in Configurations
    /\ now = 0
    /\ entry = [s \in Schedules |-> NewEntry]
    /\ brk = NewBreaker
    /\ noted = "closed"
    /\ job = [j \in JobIds |-> NoRow]
    /\ sch = Stopped
    /\ cli = "idle"
    /\ used = [crashes |-> 0, faults |-> 0, resets |-> 0]

-----------------------------------------------------------------------------
(* Queries *)

Present(j) == job[j].status # "absent"
Outstanding(j) == job[j].status = "outstanding"
outstandingForPolicy == Cardinality({j \in JobIds : Outstanding(j)})

Completed == {j \in JobIds : /\ job[j].status \in {"succeeded", "failed", "dead"}
                             /\ job[j].done # Nil}

\* The latest by completed_at and then rowid, 0 if there is none.
LatestCompletedCommandResult ==
    IF Completed = {} THEN 0
    ELSE CHOOSE j \in Completed : \A i \in Completed :
           \/ job[i].done < job[j].done
           \/ job[i].done = job[j].done /\ i <= j

DedupeHit(s, slot, ttl) ==
    \E j \in JobIds : /\ job[j].sched = s /\ job[j].slot = slot
                      /\ \/ Outstanding(j)
                         \/ /\ job[j].status = "succeeded"
                            /\ ttl > 0 /\ job[j].done >= now - ttl

-----------------------------------------------------------------------------
(* The goroutine's control *)

S == conf.order[sch.i]
At(pc) == sch.pc = pc
Goto(pc) == sch' = [sch EXCEPT !.pc = pc]

\* This schedule is finished with: the next one, or the end of the pass.
NextFrom(load, end) ==
    IF sch.i = Len(conf.order) THEN [Stopped EXCEPT !.pc = end]
    ELSE [Stopped EXCEPT !.pc = load, !.i = sch.i + 1, !.at = sch.at]
Skip == sch' = NextFrom("load", "idle")

Insert(s, slot) ==
    \E j \in JobIds :
        /\ ~Present(j) /\ j <= conf.jobs
        /\ \A i \in JobIds : i < j => Present(i)
        /\ job' = [job EXCEPT ![j] = [NoRow EXCEPT
                     !.status = "outstanding", !.sched = s, !.slot = slot]]

UpsertScheduleEntryState(es) == entry' = [entry EXCEPT ![S] = es]
RecordCircuitBreakerTransition(to) == noted' = to

-----------------------------------------------------------------------------
(* Start-up: catch-up *)

Start ==
    /\ At("down")
    /\ sch' = [Stopped EXCEPT !.pc = "catchup", !.at = now]
    /\ UNCHANGED <<conf, now, entry, brk, noted, job, cli, used>>

\* Mutant: an interval that has just elapsed is not yet missed.
countMissedRuns_OffByOne(last, at, interval) ==
    IF at <= last + interval THEN 0 ELSE (at - last - interval) \div interval

countMissedRuns(last, at, interval) ==
    IF at < last + interval THEN 0 ELSE (at - last - interval) \div interval + 1

\* last_fired_at, or failing that last_success_at.
FiredOf(es) == IF es.lastFired # Nil THEN es.lastFired ELSE es.lastSuccessAt
ToRun(es) == IF conf.catchUp[S] = "run_once" THEN 1
             ELSE Min({countMissedRuns(FiredOf(es), sch.at, conf.interval[S]), conf.catchUpMax})

CatchUpLoad ==
    /\ At("catchup")
    /\ IF /\ conf.kind[S] = "every" /\ conf.catchUp[S] # "skip"
          /\ FiredOf(entry[S]) # Nil
          /\ countMissedRuns(FiredOf(entry[S]), sch.at, conf.interval[S]) > 0
       THEN sch' = [sch EXCEPT !.pc = "slots", !.k = 1,
                               !.es = [entry[S] EXCEPT !.lastFired = FiredOf(entry[S])]]
       ELSE sch' = NextFrom("catchup", "idle")
    /\ UNCHANGED <<conf, now, entry, brk, noted, job, cli, used>>

CatchUpSlot == sch.es.lastFired + conf.interval[S] * sch.k

NextSlot == sch' = IF sch.k = ToRun(sch.es) THEN [sch EXCEPT !.pc = "caught"]
                   ELSE [sch EXCEPT !.k = @ + 1]

CatchUpEnqueue ==
    /\ At("slots")
    /\ IF DedupeHit(S, CatchUpSlot, conf.interval[S]) THEN UNCHANGED job ELSE Insert(S, CatchUpSlot)
    /\ NextSlot
    /\ UNCHANGED <<conf, now, entry, brk, noted, cli, used>>

\* An enqueue that fails is logged and its slot passed over.
CatchUpEnqueueFails ==
    /\ At("slots")
    /\ used.faults < conf.faults
    /\ used' = [used EXCEPT !.faults = @ + 1]
    /\ NextSlot
    /\ UNCHANGED <<conf, now, entry, brk, noted, job, cli>>

CatchUpPersist ==
    LET fired == IF conf.catchUp[S] = "run_once" THEN sch.at
                 ELSE sch.es.lastFired + conf.interval[S] * ToRun(sch.es)
        stale == sch.es.nextRun = Nil \/ sch.es.nextRun < fired
    IN  /\ At("caught")
        /\ UpsertScheduleEntryState([sch.es EXCEPT
             !.lastFired = fired,
             !.nextRun = IF stale THEN fired + conf.interval[S] ELSE @])
        /\ sch' = NextFrom("catchup", "idle")
        /\ UNCHANGED <<conf, now, brk, noted, job, cli, used>>

-----------------------------------------------------------------------------
(* The tick: processSchedule *)

TickBegin ==
    /\ At("idle")
    /\ Goto("load")
    /\ UNCHANGED <<conf, now, entry, brk, noted, job, cli, used>>

LoadEntry ==
    /\ At("load")
    /\ IF entry[S].status = "exhausted" THEN Skip
       ELSE sch' = [sch EXCEPT !.pc = "breaker", !.es = entry[S], !.cb = brk]
    /\ UNCHANGED <<conf, now, entry, brk, noted, job, cli, used>>

\* What a result the breaker has not seen makes of it.
Reconciled(cb, j) ==
    IF job[j].status = "succeeded" THEN [NewBreaker EXCEPT !.lastJob = j]
    ELSE LET n == cb.failures + 1
             open == n >= conf.threshold
         IN  [state |-> IF open THEN "open" ELSE "closed", failures |-> n,
              openedAt |-> IF open THEN job[j].done ELSE Nil, lastJob |-> j]

\* Mutant: the result is counted and not remembered.
reconcileCircuitBreaker_Forgets ==
    LET j == LatestCompletedCommandResult
        new == [Reconciled(sch.cb, j) EXCEPT !.lastJob = 0]
    IN  /\ At("breaker")
        /\ IF j = 0 \/ j = sch.cb.lastJob
           THEN Goto("due") /\ UNCHANGED <<brk, job>>
           ELSE /\ brk' = new
                /\ job' = [job EXCEPT ![j].counted = @ + 1]
                /\ sch' = [sch EXCEPT !.pc = "reconciled", !.cb = new, !.from = sch.cb.state]
        /\ UNCHANGED <<conf, now, entry, noted, cli, used>>

\* reconcileCircuitBreaker: the latest result against the breaker row as it
\* was read before; the upsert writes the whole row.
reconcileCircuitBreaker ==
    LET j == LatestCompletedCommandResult
        new == Reconciled(sch.cb, j)
        latest == IF j = 0 THEN NoResult
                  ELSE [id |-> j, ok |-> job[j].status = "succeeded", at |-> job[j].done]
    IN  /\ At("breaker")
        /\ IF j = 0 \/ j = sch.cb.lastJob
           THEN /\ sch' = [sch EXCEPT !.pc = "due", !.latest = latest]
                /\ UNCHANGED <<brk, job>>
           ELSE /\ brk' = new
                /\ job' = [job EXCEPT ![j].counted = @ + 1]
                /\ sch' = [sch EXCEPT !.pc = "reconciled", !.latest = latest,
                                      !.cb = new, !.from = sch.cb.state]
        /\ UNCHANGED <<conf, now, entry, noted, cli, used>>

\* Its transition, a statement of its own.
RecordReconciled ==
    /\ At("reconciled")
    /\ IF sch.cb.state = sch.from THEN UNCHANGED noted
       ELSE RecordCircuitBreakerTransition(sch.cb.state)
    /\ Goto("due")
    /\ UNCHANGED <<conf, now, entry, brk, job, cli, used>>

\* Every: a success not seen before sets the next run, jitter included.
DueEvery ==
    /\ conf.kind[S] = "every"
    /\ \E d \in 0 .. conf.jitter :
         LET seen == sch.latest.id = 0 \/ ~sch.latest.ok \/ sch.latest.id = sch.es.lastSuccess
             es == IF seen THEN sch.es
                   ELSE [sch.es EXCEPT !.lastSuccess = sch.latest.id,
                                       !.lastSuccessAt = sch.latest.at,
                                       !.nextRun = sch.latest.at + conf.interval[S] + d]
         IN  /\ UpsertScheduleEntryState(es)
             /\ IF es.nextRun # Nil /\ now < es.nextRun THEN Skip
                ELSE sch' = [sch EXCEPT !.pc = "gate", !.es = es]

\* The next multiple of the period strictly after t.
NextAfter(t) == conf.interval[S] * (t \div conf.interval[S] + 1)

\* Cron: with no next run yet a matching slot is due at once, unwritten.
DueCron ==
    /\ conf.kind[S] = "cron"
    /\ IF sch.es.nextRun = Nil
       THEN IF now % conf.interval[S] = 0 THEN Goto("gate") /\ UNCHANGED entry
            ELSE /\ UpsertScheduleEntryState([sch.es EXCEPT !.nextRun = NextAfter(now - 1)])
                 /\ Skip
       ELSE /\ IF now < sch.es.nextRun THEN Skip ELSE Goto("gate")
            /\ UNCHANGED entry

\* One-shot: its time is written before it is compared.
DueOneShot ==
    /\ conf.kind[S] = "oneshot"
    /\ LET es == IF sch.es.nextRun = Nil THEN [sch.es EXCEPT !.nextRun = conf.interval[S]] ELSE sch.es
       IN  /\ UpsertScheduleEntryState(es)
           /\ IF now < es.nextRun THEN Skip ELSE sch' = [sch EXCEPT !.pc = "gate", !.es = es]

Due ==
    /\ At("due")
    /\ DueEvery \/ DueCron \/ DueOneShot
    /\ UNCHANGED <<conf, now, brk, noted, job, cli, used>>

\* scheduleConstraintsAllowAt: the day or the time window forbids the run.
ConstraintsDeny ==
    /\ At("gate")
    /\ S \in conf.windowed
    /\ Skip
    /\ UNCHANGED <<conf, now, entry, brk, noted, job, cli, used>>

\* Mutant: an open circuit is half opened at once.
canSchedule_NoCooldown ==
    /\ At("gate")
    /\ IF brk.state = "open" THEN sch' = [sch EXCEPT !.pc = "halfopen", !.cb = brk]
       ELSE Goto("policy")
    /\ UNCHANGED <<conf, now, entry, brk, noted, job, cli, used>>

\* canSchedule: the breaker is read again.
canSchedule ==
    /\ At("gate")
    /\ IF brk.state # "open" THEN Goto("policy")
       ELSE IF brk.openedAt = Nil \/ now >= brk.openedAt + conf.resetAfter
            THEN sch' = [sch EXCEPT !.pc = "halfopen", !.cb = brk]
            ELSE Skip
    /\ UNCHANGED <<conf, now, entry, brk, noted, job, cli, used>>

\* ... and written back whole.
HalfOpen ==
    /\ At("halfopen")
    /\ brk' = [sch.cb EXCEPT !.state = "half_open"]
    /\ Goto("opened")
    /\ UNCHANGED <<conf, now, entry, noted, job, cli, used>>

RecordHalfOpen ==
    /\ At("opened")
    /\ RecordCircuitBreakerTransition("half_open")
    /\ Goto("policy")
    /\ UNCHANGED <<conf, now, entry, brk, job, cli, used>>

\* Mutant: the queue policy lets one more in.
Policy_OffByOne ==
    /\ At("policy")
    /\ CASE conf.ifRunning[S] = "skip" /\ outstandingForPolicy > 0 -> Skip /\ UNCHANGED job
         [] conf.ifRunning[S] = "queue" /\ outstandingForPolicy > conf.maxOutstanding -> Skip /\ UNCHANGED job
         [] OTHER -> Goto("enqueue") /\ UNCHANGED job
    /\ UNCHANGED <<conf, now, entry, brk, noted, cli, used>>

\* if_running.  A cancelled job's worker goes on.
Policy ==
    /\ At("policy")
    /\ CASE conf.ifRunning[S] = "skip" /\ outstandingForPolicy > 0 -> Skip /\ UNCHANGED job
         [] conf.ifRunning[S] = "queue" /\ outstandingForPolicy >= conf.maxOutstanding -> Skip /\ UNCHANGED job
         [] conf.ifRunning[S] = "cancel" ->
              /\ \E running \in SUBSET {j \in JobIds : Outstanding(j)} :
                   job' = [j \in JobIds |-> IF Outstanding(j)
                             THEN [job[j] EXCEPT !.status = "dead", !.done = now,
                                                 !.held = (j \in running)]
                             ELSE job[j]]
              /\ Goto("enqueue")
         [] OTHER -> Goto("enqueue") /\ UNCHANGED job
    /\ UNCHANGED <<conf, now, entry, brk, noted, cli, used>>

DedupeTTL == IF conf.kind[S] = "every" THEN conf.interval[S] ELSE TickInterval

enqueueScheduledJob ==
    /\ At("enqueue")
    /\ IF DedupeHit(S, Nil, DedupeTTL) THEN Goto("hit") /\ UNCHANGED job
       ELSE Insert(S, Nil) /\ Goto("fired")
    /\ UNCHANGED <<conf, now, entry, brk, noted, cli, used>>

\* Mutant: a one-shot is not exhausted.
PersistFired_StaysActive ==
    /\ At("fired") \/ At("hit")
    /\ LET es == [sch.es EXCEPT !.lastFired = now]
       IN UpsertScheduleEntryState(
            IF conf.kind[S] = "cron" THEN [es EXCEPT !.nextRun = NextAfter(now)]
            ELSE [es EXCEPT !.nextRun = Nil])
    /\ Skip
    /\ UNCHANGED <<conf, now, brk, noted, job, cli, used>>

\* The row after the enqueue.  An interval schedule keeps its next run until
\* a success moves it, unless the enqueue was a duplicate.
PersistFired ==
    /\ At("fired") \/ At("hit")
    /\ \E d \in 0 .. conf.jitter :
         LET es == [sch.es EXCEPT !.lastFired = now]
         IN UpsertScheduleEntryState(
              CASE conf.kind[S] = "oneshot" -> [es EXCEPT !.status = "exhausted", !.nextRun = Nil]
                [] conf.kind[S] = "cron" -> [es EXCEPT !.nextRun = NextAfter(now)]
                [] conf.kind[S] = "every" /\ At("hit") -> [es EXCEPT !.nextRun = now + conf.interval[S] + d]
                [] OTHER -> es)
    /\ Skip
    /\ UNCHANGED <<conf, now, brk, noted, job, cli, used>>

\* A statement of processSchedule fails: the schedule is left for this tick.
StatementFails ==
    /\ sch.pc \in Stages \ {"down", "catchup", "slots", "caught", "idle"}
    /\ used.faults < conf.faults
    /\ used' = [used EXCEPT !.faults = @ + 1]
    /\ Skip
    /\ UNCHANGED <<conf, now, entry, brk, noted, job, cli>>

\* Bound: with every row of the instance used an enqueue fails.
TableFull ==
    /\ \A j \in 1 .. conf.jobs : Present(j)
    /\ \/ At("enqueue") /\ Skip
       \/ At("slots") /\ sch' = Stopped
    /\ UNCHANGED <<conf, now, entry, brk, noted, job, cli, used>>

SchedulerStep ==
    \/ Start \/ CatchUpLoad \/ CatchUpEnqueue \/ CatchUpEnqueueFails \/ CatchUpPersist
    \/ TickBegin \/ LoadEntry \/ reconcileCircuitBreaker \/ RecordReconciled \/ Due
    \/ ConstraintsDeny \/ canSchedule \/ HalfOpen \/ RecordHalfOpen \/ Policy \/ enqueueScheduledJob
    \/ PersistFired \/ StatementFails \/ TableFull

-----------------------------------------------------------------------------
(* Around it *)

\* A worker completes a job, whatever its row says by then.
Finish(j) ==
    /\ Outstanding(j) \/ job[j].held
    /\ \E status \in {"succeeded", "failed"} :
         job' = [job EXCEPT ![j].status = status, ![j].done = now, ![j].held = FALSE]
    /\ UNCHANGED <<conf, now, entry, brk, noted, sch, cli, used>>

\* "ductile system reset": read, upsert and record, from another process.
ResetRead ==
    /\ cli = "idle"
    /\ used.resets < conf.resets
    /\ used' = [used EXCEPT !.resets = @ + 1]
    /\ cli' = "write"
    /\ UNCHANGED <<conf, now, entry, brk, noted, job, sch>>

ResetWrite ==
    /\ cli = "write"
    /\ brk' = NewBreaker
    /\ cli' = "record"
    /\ UNCHANGED <<conf, now, entry, noted, job, sch, used>>

ResetRecord ==
    /\ cli = "record"
    /\ RecordCircuitBreakerTransition("closed")
    /\ cli' = "idle"
    /\ UNCHANGED <<conf, now, entry, brk, job, sch, used>>

\* A crash or a reload; recovery requeues what was running, workers are gone.
Crash ==
    /\ ~At("down")
    /\ used.crashes < conf.crashes
    /\ used' = [used EXCEPT !.crashes = @ + 1]
    /\ sch' = Stopped
    /\ job' = [j \in JobIds |-> [job[j] EXCEPT !.held = FALSE]]
    /\ UNCHANGED <<conf, now, entry, brk, noted, cli>>

Clock ==
    /\ now < conf.until
    /\ now' = now + 1
    /\ UNCHANGED <<conf, entry, brk, noted, job, sch, cli, used>>

Next ==
    \/ SchedulerStep
    \/ \E j \in JobIds : Finish(j)
    \/ ResetRead \/ ResetWrite \/ ResetRecord
    \/ Crash \/ Clock

Spec == Init /\ [][Next]_vars

-----------------------------------------------------------------------------
(* Properties *)

\* The whole-row upserts of the tick and of a concurrent reset never mix:
\* the circuit is closed exactly while its count is below the threshold, and
\* one that is not has the time its cooldown is measured from.
BreakerConsistent ==
    /\ brk.state = "closed" <=> brk.failures < conf.threshold
    /\ brk.state # "closed" => brk.openedAt # Nil

\* No tick enqueues while the circuit is open; in a half-open circuit the
\* cooldown has passed.
TicksRespectBreaker ==
    \A j \in JobIds : ~Present(j) /\ job'[j].status # "absent" /\ job'[j].slot = Nil
         => /\ brk.state # "open"
            /\ brk.state = "half_open" => now >= brk.openedAt + conf.resetAfter

\* One result moves the breaker once, whatever order results, failing
\* statements and restarts come in, unless the breaker was reset or jobs are
\* cancelled under their workers, which give them a second result.
CountedOnce ==
    used.resets = 0 /\ (\A s \in Schedules : conf.ifRunning[s] # "cancel") =>
        \A j \in JobIds : job[j].counted <= 1

\* The poll guard: without catch-up there are never more than
\* max_outstanding_polls jobs queued or running, though other steps come
\* between its count and the insert, and schedules share it.
PollGuard ==
    (\A s \in Schedules : conf.catchUp[s] = "skip") =>
        outstandingForPolicy <= conf.maxOutstanding

\* An interval schedule never fires within its interval of its own last
\* success, even when a later failure hides that success from
\* LatestCompletedCommandResult.
SpacedAfterSuccess ==
    \A i, j \in JobIds :
         /\ ~Present(j) /\ job'[j].status # "absent" /\ job'[j].slot = Nil
         /\ conf.kind[job'[j].sched] = "every"
         /\ job[i].status = "succeeded" /\ job[i].slot = Nil /\ job[i].sched = job'[j].sched
         => now > job[i].done + conf.interval[job[i].sched]

\* A tick fires only when it may: neither into an open circuit, nor within an
\* interval of the last success, whatever came between its reads and its enqueue.
TicksInTime == [][TicksRespectBreaker /\ SpacedAfterSuccess]_vars

FiredBy(s) == Cardinality({j \in JobIds : Present(j) /\ job[j].sched = s /\ job[j].slot = Nil})
Interruptions == used.crashes + used.faults

\* A one-shot fires once, and once more for each crash or failed write that
\* may have hit between its enqueue and its exhaustion.
OneShotFires ==
    \A s \in Schedules : conf.kind[s] = "oneshot" => FiredBy(s) <= 1 + Interruptions

\* A cron schedule fires at most once per matching slot, late runs included,
\* plus once for each interruption between its enqueue and its advance.
CronFiresPerSlot ==
    \A s \in Schedules : conf.kind[s] = "cron" =>
        FiredBy(s) <= now \div conf.interval[s] + 1 + Interruptions

\* No schedule fires more often than its kind allows, interruptions counted.
FiresPerSlot == OneShotFires /\ CronFiresPerSlot

\* When catch-up moves last_fired_at on, every interval it passes over has
\* its job, whatever earlier start-ups did before they were interrupted, and
\* short of the limit no interval that had elapsed is left.  (A failing
\* enqueue loses its interval.)
CatchUpComplete ==
    [][At("caught") /\ entry' # entry /\ conf.catchUp[S] = "run_all" /\ used.faults = 0 =>
         /\ \A k \in 1 .. ToRun(sch.es) :
              \E j \in JobIds : /\ Present(j) /\ job[j].sched = S
                                /\ job[j].slot = sch.es.lastFired + k * conf.interval[S]
         /\ \/ ToRun(sch.es) = conf.catchUpMax
            \/ sch.at < entry'[S].lastFired + conf.interval[S]]_vars

\* The row of circuit_breakers and the last row of its transitions agree
\* between ticks, as long as no crash, failed statement or reset fell between
\* the two writes.
HistoryMatchesState ==
    At("idle") /\ Interruptions + used.resets = 0 => brk.state = noted

\* The breaker of a plugin accounts for its results: its row is consistent,
\* has counted each result once and is what its history says, although ticks,
\* resets from another process, failing statements and crashes interleave.
BreakerAccounts == TypeOK /\ BreakerConsistent /\ CountedOnce /\ HistoryMatchesState

\* SCHEDULER.md: "Scheduler-originated polls respect the circuit breaker".
PollsRespectBreaker ==
    [][\A j \in JobIds : ~Present(j) /\ job'[j].status # "absent" => brk.state # "open"]_vars
=============================================================================
