---------------------------- MODULE MCScheduler -----------------------------
(***************************************************************************)
(* Small instances of Scheduler: two schedules a and b of one command.     *)
(***************************************************************************)
EXTENDS Scheduler, TLC

CONSTANTS a, b

All(x) == [s \in Schedules |-> x]

Base == [order |-> <<a>>, kind |-> All("every"), interval |-> All(2), jitter |-> 0,
         ifRunning |-> All("skip"), maxOutstanding |-> 1, windowed |-> {},
         catchUp |-> All("skip"), catchUpMax |-> 2, threshold |-> 2, resetAfter |-> 2,
         until |-> 4, jobs |-> 3, crashes |-> 0, faults |-> 0, resets |-> 0]

\* A breaker that may be reset by hand while a tick is in progress.
Reset == [Base EXCEPT !.resets = 1, !.faults = 1, !.windowed = {a}]

\* Two schedules that share the poll guard, and a crash.
Shared == [Base EXCEPT !.order = <<a, b>>, !.ifRunning = All("queue"),
                       !.crashes = 1, !.until = 3]

\* A circuit that opens and closes again several times, with jitter.
Cycles == [Base EXCEPT !.threshold = 1, !.resetAfter = 1, !.jitter = 1, !.until = 6]

\* A cron schedule and a one-shot that cancel each other's work.
Slots == [Base EXCEPT !.order = <<a, b>>, !.kind = a :> "cron" @@ b :> "oneshot",
                      !.ifRunning = All("cancel"), !.threshold = 5,
                      !.crashes = 1, !.until = 3]

\* run_all through two restarts.
Missed == [Base EXCEPT !.interval = All(1), !.catchUp = All("run_all"),
                       !.crashes = 2, !.until = 3]

\* run_once, with an enqueue that may fail.
Once == [Base EXCEPT !.catchUp = All("run_once"), !.crashes = 1, !.faults = 1, !.jobs = 2]

MCConfigurations == {Reset, Shared, Cycles, Slots, Missed, Once}

OpenCircuit == {[Base EXCEPT !.catchUp = All("run_once"), !.crashes = 1, !.threshold = 1,
                             !.resetAfter = 6, !.until = 5]}
=============================================================================
