--------------------------- MODULE SchedulerProofs --------------------------
(***************************************************************************)
(* Proofs about Scheduler, for any schedules, configurations, clock and    *)
(* number of jobs, crashes, failing statements and resets: the breaker     *)
(* accounts for the results of its plugin, the poll guard holds, no        *)
(* schedule fires more often than its kind allows, no tick fires too early *)
(* and catch-up passes over no run.                                        *)
(***************************************************************************)
EXTENDS Scheduler, FiniteSetTheorems, TLAPS

-----------------------------------------------------------------------------
\* The latest result.

\* The order of the results: by completed_at and then rowid.
UpTo(i, j) == job[i].done < job[j].done \/ (job[i].done = job[j].done /\ i <= j)
Later(j) == {i \in Completed : ~UpTo(i, j)}

\* A result that no other is later than exists, since there are finitely many:
\* one with the fewest later results.
LEMMA LatestExists ==
  ASSUME TypeOK, Completed # {}
  PROVE  \E j \in Completed : \A i \in Completed : UpTo(i, j)
<1>1. /\ Completed \subseteq JobIds /\ JobIds \subseteq Int
      /\ \A j \in JobIds : job[j].done \in Int
  BY SchedulerAssumption, SMTT(60) DEF TypeOK, JobRow, Completed, JobIds, Moment, Nil
<1>2. IsFiniteSet(JobIds)
  BY SchedulerAssumption, FS_Interval DEF JobIds
<1>3. IsFiniteSet(Completed)
  BY <1>1, <1>2, FS_Subset
<1>4. PICK F : F = {Later(j) : j \in Completed}
  OBVIOUS
<1>5. F # {} /\ F \subseteq SUBSET Completed
  BY <1>4 DEF Later
<1>6. IsWellFoundedOn(StrictSubsetOrdering(Completed), SUBSET Completed)
  BY <1>3, FS_FiniteSubsetsOfFinite, FS_StrictSubsetOrderingWellFounded
<1>7. PICK X \in F : \A Y \in F : ~(<<Y, X>> \in StrictSubsetOrdering(Completed))
  BY <1>5, <1>6, WFMin
<1>8. PICK j \in Completed : X = Later(j)
  BY <1>4
<1>9. ASSUME NEW i \in Completed, ~UpTo(i, j) PROVE FALSE
  <2>1. \A k \in Completed : ~UpTo(k, i) => ~UpTo(k, j)
    BY <1>1, <1>8, <1>9 DEF UpTo
  <2>2. i \in Later(j) /\ i \notin Later(i)
    BY <1>1, <1>9 DEF Later, UpTo
  <2>3. Later(i) \subseteq Later(j) /\ Later(i) # Later(j)
    BY <2>1, <2>2 DEF Later
  <2>4. Later(i) \in F
    BY <1>4
  <2>5. \A A, B \in SUBSET Completed :
          A \subseteq B /\ A # B => <<A, B>> \in StrictSubsetOrdering(Completed)
    BY DEF StrictSubsetOrdering
  <2> QED BY <1>5, <1>7, <1>8, <2>3, <2>4, <2>5
<1> QED BY <1>9

\* What LatestCompletedCommandResult returns.
LEMMA LatestFacts ==
  ASSUME TypeOK, NEW j, j = LatestCompletedCommandResult
  PROVE  /\ Completed = {} => j = 0
         /\ Completed # {} => /\ j \in Completed /\ j \in JobIds /\ j # 0
                              /\ job[j].done \in Moment /\ job[j].done # Nil
                              /\ \A i \in Completed : UpTo(i, j)
<1>1. CASE Completed = {}
  BY <1>1 DEF LatestCompletedCommandResult
<1>2. CASE Completed # {}
  <2>1. \E m \in Completed : \A i \in Completed : UpTo(i, m)
    BY <1>2, LatestExists
  <2>2. j = CHOOSE m \in Completed : \A i \in Completed : UpTo(i, m)
    BY <1>2 DEF LatestCompletedCommandResult, UpTo
  <2>3. j \in Completed /\ \A i \in Completed : UpTo(i, j)
    BY <2>1, <2>2
  <2>4. j \in JobIds /\ job[j].done # Nil
    BY <2>3 DEF Completed
  <2>5. j # 0 /\ job[j].done \in Moment
    BY <2>4 DEF TypeOK, JobRow, JobIds
  <2> QED BY <1>2, <2>3, <2>4, <2>5
<1> QED BY <1>1, <1>2

-----------------------------------------------------------------------------
\* Types.

\* What is known of the configuration in use.
LEMMA ConfFacts ==
  ASSUME conf \in Configurations
  PROVE  /\ Len(conf.order) \in Nat /\ 1 \in 1 .. Len(conf.order)
         /\ \A i \in 1 .. Len(conf.order) : conf.order[i] \in Schedules
         /\ \A s \in Schedules : /\ conf.interval[s] \in Nat \ {0}
                                 /\ conf.kind[s] \in {"every", "cron", "oneshot"}
                                 /\ conf.ifRunning[s] \in {"skip", "queue", "cancel"}
                                 /\ conf.catchUp[s] \in {"skip", "run_once", "run_all"}
         /\ conf.jitter \in Nat /\ conf.maxOutstanding \in Nat \ {0}
         /\ conf.catchUpMax \in Nat \ {0} /\ conf.threshold \in Nat \ {0} /\ conf.resetAfter \in Nat
         /\ conf.until \in Time /\ conf.jobs \in JobIds
         /\ conf.crashes \in Nat /\ conf.faults \in Nat /\ conf.resets \in Nat
<1>1. conf \in Configuration /\ conf.order # <<>>
  BY SchedulerAssumption
<1>2. conf.order \in Seq(Schedules)
  BY <1>1 DEF Configuration
<1>3. Len(conf.order) \in Nat /\ Len(conf.order) # 0
  BY <1>1, <1>2
<1>4. \A i \in 1 .. Len(conf.order) : conf.order[i] \in Schedules
  BY <1>2
<1> QED BY <1>1, <1>3, <1>4 DEF Configuration

\* The schedule in hand.
LEMMA InHand == ASSUME TypeOK PROVE S \in Schedules /\ sch.i \in 1 .. Len(conf.order)
BY ConfFacts DEF TypeOK, Goroutine, S

\* The numbers an action computes with.
LEMMA NumberTypes ==
  ASSUME TypeOK
  PROVE  /\ sch.es.lastFired \in Int /\ sch.es.nextRun \in Int /\ sch.es.lastSuccessAt \in Int
         /\ sch.es.lastFired \in Moment /\ now \in Moment /\ sch.at \in Moment
         /\ sch.es.lastSuccess \in 0 .. MaxJobs
         /\ conf.interval[S] \in Nat \ {0} /\ conf.interval[S] \in Int
         /\ sch.k \in Nat /\ sch.at \in Int /\ now \in Nat /\ now \in Int
<1>1. sch.es \in Entry /\ sch.k \in Nat /\ sch.at \in Moment
  BY DEF TypeOK, Goroutine
<1>2. conf.interval[S] \in Nat \ {0}
  BY InHand, ConfFacts DEF TypeOK
<1>3. now \in Nat
  BY SchedulerAssumption DEF TypeOK, Time
<1>4. \A x \in Moment : x \in Int
  BY DEF Moment, Nil
<1>5. now \in Moment
  BY <1>3 DEF Moment
<1>6. /\ sch.es.lastFired \in Moment /\ sch.es.nextRun \in Int /\ sch.es.lastSuccessAt \in Moment
      /\ sch.es.lastSuccess \in 0 .. MaxJobs
  BY <1>1 DEF Entry
<1>7. sch.es.lastFired \in Int /\ sch.es.lastSuccessAt \in Int /\ sch.at \in Int
  BY <1>1, <1>4, <1>6
<1>8. conf.interval[S] \in Int /\ now \in Int
  BY <1>2, <1>3
<1> QED BY <1>1, <1>2, <1>3, <1>5, <1>6, <1>7, <1>8

\* The goroutine's values.
LEMMA NewTypes ==
  ASSUME TypeOK
  PROVE  NewEntry \in Entry /\ NewBreaker \in Breaker /\ NoResult \in Result /\ NoRow \in JobRow
<1>1. 0 \in 0 .. MaxJobs
  BY SchedulerAssumption
<1>2. conf.order[1] \in Schedules
  BY ConfFacts DEF TypeOK
<1> QED BY <1>1, <1>2 DEF NewEntry, Entry, NewBreaker, Breaker, CircuitState, NoResult, Result,
                          NoRow, JobRow, Nil, Moment

\* A goroutine put together from its parts.
Gor(p, i, e, c, f, l, a, k) ==
  [pc |-> p, i |-> i, es |-> e, cb |-> c, from |-> f, latest |-> l, at |-> a, k |-> k]

\* Its type.
LEMMA MadeType ==
  ASSUME NEW p \in Stages, NEW i \in 1 .. Len(conf.order), NEW e \in Entry, NEW c \in Breaker,
         NEW f \in CircuitState, NEW l \in Result, NEW a \in Moment, NEW k \in Nat
  PROVE  Gor(p, i, e, c, f, l, a, k) \in Goroutine
BY DEF Goroutine, Gor

\* Its parts.
LEMMA MadeParts ==
  ASSUME NEW p, NEW i, NEW e, NEW c, NEW f, NEW l, NEW a, NEW k, NEW g, g = Gor(p, i, e, c, f, l, a, k)
  PROVE  g.pc = p /\ g.i = i /\ g.es = e /\ g.cb = c /\ g.from = f /\ g.latest = l /\ g.at = a /\ g.k = k
BY DEF Gor

\* The parts of the goroutine.
LEMMA PartTypes ==
  ASSUME TypeOK
  PROVE  /\ sch.pc \in Stages /\ sch.i \in 1 .. Len(conf.order) /\ sch.es \in Entry /\ sch.cb \in Breaker
         /\ sch.from \in CircuitState /\ sch.latest \in Result /\ sch.at \in Moment /\ sch.k \in Nat
         /\ sch = Gor(sch.pc, sch.i, sch.es, sch.cb, sch.from, sch.latest, sch.at, sch.k)
BY DEF TypeOK, Goroutine, Gor

\* The start of a schedule.
Begun(p, i, a) == Gor(p, i, NewEntry, NewBreaker, "closed", NoResult, a, 0)

\* A schedule that is begun is well formed.
LEMMA BegunType ==
  ASSUME TypeOK, NEW p \in Stages, NEW i \in 1 .. Len(conf.order), NEW a \in Moment
  PROVE  Begun(p, i, a) \in Goroutine
<1>1. "closed" \in CircuitState /\ 0 \in Nat
  BY DEF CircuitState
<1> QED BY <1>1, NewTypes, MadeType DEF Begun

\* The next schedule, or the end of the pass.
LEMMA NextFromType ==
  ASSUME TypeOK, NEW p \in Stages, NEW q \in Stages
  PROVE  /\ NextFrom(p, q) \in Goroutine
         /\ \/ NextFrom(p, q) = Begun(q, 1, Nil)
            \/ /\ sch.i + 1 \in 1 .. Len(conf.order)
               /\ NextFrom(p, q) = Begun(p, sch.i + 1, sch.at)
<1>0. Stopped = Gor("down", 1, NewEntry, NewBreaker, "closed", NoResult, Nil, 0)
  BY DEF Stopped, Gor
<1>a. PICK g, d, o, e, c, f, l, n, k : /\ g = Stopped /\ d = "down" /\ o = 1 /\ e = NewEntry /\ c = NewBreaker
                                       /\ f = "closed" /\ l = NoResult /\ n = Nil /\ k = 0
  OBVIOUS
<1>b. g = Gor(d, o, e, c, f, l, n, k)
  BY <1>0, <1>a
<1>1. ASSUME NEW h, h = [g EXCEPT !.pc = q] PROVE h = Begun(q, 1, Nil)
  <2>1. h = Gor(q, o, e, c, f, l, n, k)
    BY <1>b, <1>1 DEF Gor
  <2> QED BY <1>a, <2>1 DEF Begun
<1>2. ASSUME NEW h, NEW y, NEW z, h = [g EXCEPT !.pc = p, !.i = y, !.at = z] PROVE h = Begun(p, y, z)
  <2>1. h = Gor(p, y, e, c, f, l, z, k)
    BY <1>b, <1>2 DEF Gor
  <2> QED BY <1>a, <2>1 DEF Begun
<1>3. sch.i # Len(conf.order) => sch.i + 1 \in 1 .. Len(conf.order)
  <2>1. sch.i \in 1 .. Len(conf.order) /\ Len(conf.order) \in Nat
    BY InHand, ConfFacts DEF TypeOK
  <2> QED BY <2>1
<1>4. Begun(q, 1, Nil) \in Goroutine
  BY BegunType, ConfFacts DEF TypeOK, Nil, Moment
<1>5. sch.i # Len(conf.order) => Begun(p, sch.i + 1, sch.at) \in Goroutine
  BY <1>3, BegunType, PartTypes
<1>6. PICK h, i, a : h = NextFrom(p, q) /\ i = sch.i + 1 /\ a = sch.at
  OBVIOUS
<1>7. IF sch.i = Len(conf.order) THEN h = [g EXCEPT !.pc = q]
      ELSE h = [g EXCEPT !.pc = p, !.i = i, !.at = a]
  BY <1>a, <1>6 DEF NextFrom
<1>8. CASE sch.i = Len(conf.order)
  BY <1>1, <1>4, <1>6, <1>7, <1>8
<1>9. CASE sch.i # Len(conf.order)
  <2>1. h = Begun(p, i, a)
    BY <1>2, <1>7, <1>9
  <2> QED BY <1>3, <1>5, <1>6, <1>9, <2>1
<1> QED BY <1>8, <1>9

\* A goroutine that only moves on.
LEMMA GotoType ==
  ASSUME TypeOK, NEW q \in Stages, Goto(q)
  PROVE  /\ sch' \in Goroutine /\ sch'.pc = q
         /\ sch'.i = sch.i /\ sch'.es = sch.es /\ sch'.cb = sch.cb /\ sch'.from = sch.from
         /\ sch'.latest = sch.latest /\ sch'.at = sch.at /\ sch'.k = sch.k
<1>1. sch' = [sch EXCEPT !.pc = q]
  BY DEF Goto
<1>2. sch' = Gor(q, sch.i, sch.es, sch.cb, sch.from, sch.latest, sch.at, sch.k)
  BY <1>1, PartTypes DEF Gor
<1> QED BY <1>2, PartTypes, MadeType, MadeParts

\* A goroutine that goes to the next schedule, or ends the pass at q.
LEMMA NextType ==
  ASSUME TypeOK, NEW p \in Stages, NEW q \in Stages, sch' = NextFrom(p, q)
  PROVE  /\ sch' \in Goroutine
         /\ sch'.es = NewEntry /\ sch'.cb = NewBreaker /\ sch'.latest = NoResult /\ sch'.k = 0
         /\ \/ sch'.pc = q
            \/ sch'.pc = p /\ sch'.at = sch.at
<1>1. PICK x, i, a : sch' = Begun(x, i, a) /\ (x = q \/ (x = p /\ a = sch.at))
  BY NextFromType
<1>2. PICK e, c, l, f : e = NewEntry /\ c = NewBreaker /\ l = NoResult /\ f = "closed"
  OBVIOUS
<1>3. sch' = Gor(x, i, e, c, f, l, a, 0)
  BY <1>1, <1>2 DEF Begun
<1>4. sch'.pc = x /\ sch'.es = e /\ sch'.cb = c /\ sch'.latest = l /\ sch'.k = 0 /\ sch'.at = a
  BY <1>3, MadeParts
<1> QED BY <1>1, <1>2, <1>4, NextFromType

\* The stages.
LEMMA StageNames ==
  /\ "down" \in Stages /\ "catchup" \in Stages /\ "slots" \in Stages /\ "caught" \in Stages
  /\ "idle" \in Stages /\ "load" \in Stages /\ "breaker" \in Stages /\ "reconciled" \in Stages
  /\ "due" \in Stages /\ "gate" \in Stages /\ "halfopen" \in Stages /\ "opened" \in Stages
  /\ "policy" \in Stages /\ "enqueue" \in Stages /\ "fired" \in Stages /\ "hit" \in Stages
BY DEF Stages

\* The goroutine stopped.
LEMMA StoppedType ==
  ASSUME TypeOK
  PROVE  /\ Stopped \in Goroutine /\ Stopped.pc = "down" /\ Stopped.es = NewEntry
         /\ Stopped.cb = NewBreaker /\ Stopped.latest = NoResult /\ Stopped.k = 0
<1>1. Stopped = Begun("down", 1, Nil)
  BY DEF Stopped, Begun, Gor
<1>2. Begun("down", 1, Nil) \in Goroutine
  BY BegunType, StageNames, ConfFacts DEF TypeOK, Nil, Moment
<1>3. /\ Stopped.pc = "down" /\ Stopped.es = NewEntry
      /\ Stopped.cb = NewBreaker /\ Stopped.latest = NoResult /\ Stopped.k = 0
  BY DEF Stopped
<1>4. Stopped \in Goroutine
  BY <1>1, <1>2, Zenon
<1> QED BY <1>3, <1>4, Zenon

\* A row inserted.
NewRow(s, t) == [status |-> "outstanding", sched |-> s, slot |-> t, done |-> Nil,
                 held |-> FALSE, counted |-> 0]
Added(s, t) == \E j \in JobIds : /\ job[j].status = "absent" /\ job'[j] = NewRow(s, t)
                                 /\ \A i \in JobIds : i # j => job'[i] = job[i]

\* Insert adds one row.
LEMMA InsertEffect ==
  ASSUME TypeOK, NEW s \in Schedules, NEW t \in Int, Insert(s, t)
  PROVE  job' \in [JobIds -> JobRow] /\ Added(s, t)
<1>1. PICK j \in JobIds :
        /\ ~Present(j)
        /\ job' = [job EXCEPT ![j] = [NoRow EXCEPT !.status = "outstanding", !.sched = s, !.slot = t]]
  BY DEF Insert
<1>2. PICK r : r = [NoRow EXCEPT !.status = "outstanding", !.sched = s, !.slot = t]
  OBVIOUS
<1>3. r = NewRow(s, t)
  BY <1>2 DEF NoRow, NewRow
<1>4. r \in JobRow
  BY <1>3 DEF JobRow, Nil, NewRow, Moment
<1>5. job' = [job EXCEPT ![j] = r] /\ job \in [JobIds -> JobRow]
  BY <1>1, <1>2 DEF TypeOK
<1>6. job' \in [JobIds -> JobRow] /\ job'[j] = r /\ \A i \in JobIds : i # j => job'[i] = job[i]
  BY <1>4, <1>5
<1>7. job[j].status = "absent"
  BY <1>1 DEF Present
<1> QED BY <1>3, <1>6, <1>7 DEF Added

\* How the types of the parts make up the type of the next state.
LEMMA TypeFromParts ==
  ASSUME TypeOK, conf' = conf, now' \in Time, entry' \in [Schedules -> Entry], brk' \in Breaker,
         noted' \in CircuitState, job' \in [JobIds -> JobRow], sch' \in Goroutine,
         cli' \in {"idle", "write", "record"}, used' \in [crashes: Nat, faults: Nat, resets: Nat]
  PROVE  TypeOK'
BY DEF TypeOK, Goroutine

\* A step that changes only the goroutine.
LEMMA OnlyMoves ==
  ASSUME TypeOK, sch' \in Goroutine, UNCHANGED <<conf, now, entry, brk, noted, job, cli, used>>
  PROVE  TypeOK'
BY DEF TypeOK, Goroutine

\* A write to the entry in hand.
LEMMA UpsertType ==
  ASSUME TypeOK, NEW e \in Entry, UpsertScheduleEntryState(e)
  PROVE  entry' \in [Schedules -> Entry] /\ entry' = [entry EXCEPT ![S] = e] /\ entry'[S] = e
         /\ \A s \in Schedules : s # S => entry'[s] = entry[s]
BY InHand DEF UpsertScheduleEntryState, TypeOK

\* The intervals catch-up counts.
LEMMA MissedType ==
  ASSUME NEW l \in Int, NEW a \in Int, NEW v \in Nat \ {0}
  PROVE  countMissedRuns(l, a, v) \in Nat
<1>1. \A x \in Int : x \div v \in Int /\ (x >= 0 => x \div v >= 0)
  OBVIOUS
<1> QED BY <1>1 DEF countMissedRuns

\* The runs catch-up does.
LEMMA ToRunType ==
  ASSUME TypeOK, NEW e \in Entry
  PROVE  /\ ToRun(e) \in Nat
         /\ conf.catchUp[S] # "run_once" =>
              LET m == countMissedRuns(FiredOf(e), sch.at, conf.interval[S])
              IN  ToRun(e) = IF m <= conf.catchUpMax THEN m ELSE conf.catchUpMax
<1>1. FiredOf(e) \in Int /\ sch.at \in Int /\ conf.interval[S] \in Nat \ {0}
  <2>1. FiredOf(e) \in Moment
    BY DEF FiredOf, Entry
  <2>2. \A x \in Moment : x \in Int
    BY DEF Moment, Nil
  <2> QED BY <2>1, <2>2, NumberTypes
<1>2. PICK m : m = countMissedRuns(FiredOf(e), sch.at, conf.interval[S]) /\ m \in Nat
  BY <1>1, MissedType
<1>3. PICK c : c = conf.catchUpMax /\ c \in Nat
  BY ConfFacts DEF TypeOK
<1>4. PICK n : n = Min({m, c})
  OBVIOUS
<1>5. n = IF m <= c THEN m ELSE c
  BY <1>2, <1>3, <1>4 DEF Min
<1> QED BY <1>2, <1>3, <1>4, <1>5 DEF ToRun

\* The entry as catch-up loads it, and as it writes it.
LEMMA EntryTypes ==
  ASSUME TypeOK, NEW e \in Entry
  PROVE  /\ FiredOf(e) \in Moment /\ FiredOf(e) \in Int
         /\ \A m \in Int : [e EXCEPT !.nextRun = m] \in Entry
         /\ \A n \in Moment : /\ [e EXCEPT !.lastFired = n] \in Entry
                              /\ \A m \in Int : [e EXCEPT !.lastFired = n, !.nextRun = m] \in Entry
<1>1. FiredOf(e) \in Moment
  BY DEF Entry, FiredOf
<1>2. \A x \in Moment : x \in Int
  BY DEF Moment, Nil
<1>3. /\ \A m \in Int : [e EXCEPT !.nextRun = m] \in Entry
      /\ \A n \in Moment : /\ [e EXCEPT !.lastFired = n] \in Entry
                           /\ \A m \in Int : [e EXCEPT !.lastFired = n, !.nextRun = m] \in Entry
  BY DEF Entry
<1> QED BY <1>1, <1>2, <1>3

-----------------------------------------------------------------------------
\* What each action does, and that it keeps the types.

\* Everything but the goroutine and the rows named.
Rest == <<conf, now, entry, brk, noted, job, cli, used>>

\* Start begins the catch-up pass.
LEMMA StartEffect == ASSUME TypeOK, Start PROVE TypeOK' /\ sch'.pc = "catchup" /\ UNCHANGED Rest
<1>1. sch' = [Stopped EXCEPT !.pc = "catchup", !.at = now] /\ UNCHANGED Rest
  BY DEF Start, Rest
<1>2. PICK e, c, l, f : e = NewEntry /\ c = NewBreaker /\ l = NoResult /\ f = "closed"
  OBVIOUS
<1>3. sch' = Gor("catchup", 1, e, c, f, l, now, 0)
  BY <1>1, <1>2 DEF Stopped, Gor
<1>4. sch' = Begun("catchup", 1, now) /\ now \in Moment
  BY <1>2, <1>3, NumberTypes DEF Begun
<1>5. sch' \in Goroutine
  BY <1>4, BegunType, StageNames, ConfFacts DEF TypeOK
<1>6. sch'.pc = "catchup"
  BY <1>3, MadeParts
<1> QED BY <1>1, <1>5, <1>6, OnlyMoves DEF Rest

\* CatchUpLoad takes up a schedule with missed runs, or goes on to the next.
LEMMA CatchUpLoadEffect ==
  ASSUME TypeOK, CatchUpLoad
  PROVE  /\ TypeOK' /\ UNCHANGED Rest /\ sch.pc = "catchup"
         /\ \/ /\ conf.kind[S] = "every" /\ conf.catchUp[S] # "skip"
               /\ sch'.pc = "slots" /\ sch'.k = 1 /\ sch'.i = sch.i /\ sch'.at = sch.at
               /\ FiredOf(entry[S]) \in Int /\ FiredOf(entry[S]) # Nil
               /\ countMissedRuns(FiredOf(entry[S]), sch.at, conf.interval[S]) > 0
               /\ sch'.es = [entry[S] EXCEPT !.lastFired = FiredOf(entry[S])]
            \/ sch'.pc \in {"catchup", "idle"}
<1>1. UNCHANGED Rest /\ sch.pc = "catchup"
  BY DEF CatchUpLoad, Rest, At
<1>2. entry[S] \in Entry
  BY InHand DEF TypeOK
<1>3. PICK e : e = [entry[S] EXCEPT !.lastFired = FiredOf(entry[S])] /\ e \in Entry
  BY <1>2, EntryTypes
<1>4. CASE sch' = NextFrom("catchup", "idle")
  BY <1>1, <1>4, NextType, StageNames, OnlyMoves DEF Rest
<1>5. CASE /\ conf.kind[S] = "every" /\ conf.catchUp[S] # "skip"
           /\ FiredOf(entry[S]) # Nil
           /\ countMissedRuns(FiredOf(entry[S]), sch.at, conf.interval[S]) > 0
           /\ sch' = [sch EXCEPT !.pc = "slots", !.k = 1, !.es = e]
  <2>1. sch' = Gor("slots", sch.i, e, sch.cb, sch.from, sch.latest, sch.at, 1)
    BY <1>5, PartTypes DEF Gor
  <2>2. sch' \in Goroutine
    BY <1>3, <2>1, PartTypes, MadeType, StageNames
  <2>3. sch'.pc = "slots" /\ sch'.k = 1 /\ sch'.i = sch.i /\ sch'.at = sch.at /\ sch'.es = e
    BY <2>1, MadeParts
  <2>4. TypeOK'
    BY <1>1, <2>2, OnlyMoves DEF Rest
  <2>5. FiredOf(entry[S]) \in Int
    BY <1>2, EntryTypes
  <2> QED BY <1>1, <1>3, <1>5, <2>3, <2>4, <2>5
<1> QED BY <1>3, <1>4, <1>5 DEF CatchUpLoad

\* The next run of catch-up.
LEMMA NextSlotEffect ==
  ASSUME TypeOK, sch.pc = "slots", NextSlot
  PROVE  /\ sch' \in Goroutine /\ sch'.i = sch.i /\ sch'.es = sch.es /\ sch'.at = sch.at
         /\ \/ sch.k = ToRun(sch.es) /\ sch'.pc = "caught" /\ sch'.k = sch.k
            \/ sch.k # ToRun(sch.es) /\ sch'.pc = "slots" /\ sch'.k = sch.k + 1
<1>1. CASE sch.k = ToRun(sch.es)
  BY <1>1, GotoType, StageNames DEF NextSlot, Goto
<1>2. CASE sch.k # ToRun(sch.es)
  <2>1. PICK n : n = sch.k + 1 /\ n \in Nat
    BY PartTypes
  <2>2. sch' = [sch EXCEPT !.k = n]
    BY <1>2, <2>1 DEF NextSlot
  <2>3. sch' = Gor("slots", sch.i, sch.es, sch.cb, sch.from, sch.latest, sch.at, n)
    BY <2>2, PartTypes DEF Gor
  <2>4. sch'.pc = "slots" /\ sch'.k = n /\ sch'.i = sch.i /\ sch'.at = sch.at /\ sch'.es = sch.es
    BY <2>3, MadeParts
  <2>5. sch' \in Goroutine
    BY <2>1, <2>3, PartTypes, MadeType, StageNames
  <2> QED BY <1>2, <2>1, <2>4, <2>5
<1> QED BY <1>1, <1>2

\* CatchUpEnqueue finds the job of the run in hand or adds it.
LEMMA CatchUpEnqueueEffect ==
  ASSUME TypeOK, CatchUpEnqueue
  PROVE  /\ TypeOK' /\ UNCHANGED <<conf, now, entry, brk, noted, cli, used>>
         /\ sch.pc = "slots" /\ NextSlot /\ CatchUpSlot \in Int
         /\ \/ DedupeHit(S, CatchUpSlot, conf.interval[S]) /\ job' = job
            \/ Added(S, CatchUpSlot)
<1>1. /\ UNCHANGED <<conf, now, entry, brk, noted, cli, used>> /\ sch.pc = "slots" /\ NextSlot
      /\ IF DedupeHit(S, CatchUpSlot, conf.interval[S]) THEN UNCHANGED job ELSE Insert(S, CatchUpSlot)
  BY DEF CatchUpEnqueue, At
<1>2. sch.es.lastFired \in Int /\ conf.interval[S] \in Int /\ sch.k \in Int
  BY NumberTypes
<1>3. CatchUpSlot \in Int
  BY <1>2 DEF CatchUpSlot
<1>4. sch' \in Goroutine
  BY <1>1, NextSlotEffect
<1>5. /\ job' \in [JobIds -> JobRow]
      /\ \/ DedupeHit(S, CatchUpSlot, conf.interval[S]) /\ job' = job
         \/ Added(S, CatchUpSlot)
  <2>1. CASE DedupeHit(S, CatchUpSlot, conf.interval[S])
    BY <1>1, <2>1 DEF TypeOK
  <2>2. CASE Insert(S, CatchUpSlot)
    BY <1>3, <2>2, InHand, InsertEffect
  <2> QED BY <1>1, <2>1, <2>2
<1>6. TypeOK'
  BY <1>1, <1>4, <1>5, TypeFromParts DEF TypeOK
<1> QED BY <1>1, <1>3, <1>5, <1>6

\* The count of an interruption or a reset goes up by one.
LEMMA UsedTypes ==
  ASSUME TypeOK
  PROVE  /\ used.crashes \in Nat /\ used.faults \in Nat /\ used.resets \in Nat
         /\ \A u : u = [used EXCEPT !.faults = @ + 1] =>
              /\ u \in [crashes: Nat, faults: Nat, resets: Nat]
              /\ u.faults = used.faults + 1 /\ u.crashes = used.crashes /\ u.resets = used.resets
         /\ \A u : u = [used EXCEPT !.crashes = @ + 1] =>
              /\ u \in [crashes: Nat, faults: Nat, resets: Nat]
              /\ u.faults = used.faults /\ u.crashes = used.crashes + 1 /\ u.resets = used.resets
         /\ \A u : u = [used EXCEPT !.resets = @ + 1] =>
              /\ u \in [crashes: Nat, faults: Nat, resets: Nat]
              /\ u.faults = used.faults /\ u.crashes = used.crashes /\ u.resets = used.resets + 1
BY DEF TypeOK

\* CatchUpEnqueueFails passes the run in hand over.
LEMMA CatchUpEnqueueFailsEffect ==
  ASSUME TypeOK, CatchUpEnqueueFails
  PROVE  /\ TypeOK' /\ UNCHANGED <<conf, now, entry, brk, noted, job, cli>>
         /\ sch.pc = "slots" /\ NextSlot /\ used'.faults = used.faults + 1
         /\ used'.crashes = used.crashes /\ used'.resets = used.resets
<1>1. /\ UNCHANGED <<conf, now, entry, brk, noted, job, cli>> /\ sch.pc = "slots" /\ NextSlot
      /\ used' = [used EXCEPT !.faults = @ + 1]
  BY DEF CatchUpEnqueueFails, At
<1>2. /\ used' \in [crashes: Nat, faults: Nat, resets: Nat]
      /\ used'.faults = used.faults + 1 /\ used'.crashes = used.crashes /\ used'.resets = used.resets
  BY <1>1, UsedTypes
<1>3. sch' \in Goroutine
  BY <1>1, NextSlotEffect
<1>4. TypeOK'
  BY <1>1, <1>2, <1>3, TypeFromParts DEF TypeOK
<1> QED BY <1>1, <1>2, <1>4

\* CatchUpPersist moves last_fired_at on.
LEMMA CatchUpPersistEffect ==
  ASSUME TypeOK, CatchUpPersist
  PROVE  /\ TypeOK' /\ UNCHANGED <<conf, now, brk, noted, job, cli, used>>
         /\ sch.pc = "caught" /\ sch'.pc \in {"catchup", "idle"}
         /\ \A s \in Schedules : s # S => entry'[s] = entry[s]
         /\ conf.catchUp[S] # "run_once" =>
              entry'[S].lastFired = sch.es.lastFired + conf.interval[S] * ToRun(sch.es)
<1>1. PICK fired : fired = IF conf.catchUp[S] = "run_once" THEN sch.at
                           ELSE sch.es.lastFired + conf.interval[S] * ToRun(sch.es)
  OBVIOUS
<1>2. PICK n : n = IF sch.es.nextRun = Nil \/ sch.es.nextRun < fired
                   THEN fired + conf.interval[S] ELSE sch.es.nextRun
  OBVIOUS
<1>3. /\ UNCHANGED <<conf, now, brk, noted, job, cli, used>> /\ sch.pc = "caught"
      /\ sch' = NextFrom("catchup", "idle")
      /\ UpsertScheduleEntryState([sch.es EXCEPT !.lastFired = fired, !.nextRun = n])
  BY <1>1, <1>2 DEF CatchUpPersist, At
<1>4. sch.es.lastFired \in Int /\ sch.es.nextRun \in Int /\ conf.interval[S] \in Int /\ sch.at \in Int
      /\ ToRun(sch.es) \in Int
  BY NumberTypes, PartTypes, ToRunType
<1>5. fired \in Moment /\ fired \in Int
  <2>1. PICK x, y : x = conf.interval[S] /\ y = ToRun(sch.es) /\ x \in Nat /\ y \in Nat
    BY NumberTypes, PartTypes, ToRunType
  <2>2. x * y \in Nat
    BY <2>1
  <2>3. PICK z : z = x * y /\ z \in Nat
    BY <2>2
  <2>4. fired = IF conf.catchUp[S] = "run_once" THEN sch.at ELSE sch.es.lastFired + z
    BY <1>1, <2>1, <2>3
  <2> QED BY <2>3, <2>4, NumberTypes DEF Moment, Nil
<1>6. n \in Int
  BY <1>2, <1>4, <1>5
<1>7. PICK e : e = [sch.es EXCEPT !.lastFired = fired, !.nextRun = n]
  OBVIOUS
<1>8. e \in Entry /\ e.lastFired = fired
  <2>1. sch.es \in Entry
    BY PartTypes
  <2>2. e \in Entry
    BY <1>5, <1>6, <1>7, <2>1, EntryTypes
  <2>3. e.lastFired = fired
    BY <1>7, <2>1 DEF Entry
  <2> QED BY <2>2, <2>3
<1>9. /\ entry' \in [Schedules -> Entry] /\ entry'[S] = e
      /\ \A s \in Schedules : s # S => entry'[s] = entry[s]
  BY <1>3, <1>7, <1>8, UpsertType
<1>10. sch' \in Goroutine /\ sch'.pc \in {"catchup", "idle"}
  BY <1>3, NextType, StageNames
<1>11. TypeOK'
  BY <1>3, <1>9, <1>10, TypeFromParts DEF TypeOK
<1> QED BY <1>1, <1>3, <1>8, <1>9, <1>10, <1>11

\* TickBegin begins a tick.
LEMMA TickBeginEffect == ASSUME TypeOK, TickBegin
                         PROVE  TypeOK' /\ UNCHANGED Rest /\ sch.pc = "idle" /\ sch'.pc = "load"
<1>1. UNCHANGED Rest /\ sch.pc = "idle" /\ Goto("load")
  BY DEF TickBegin, Rest, At
<1> QED BY <1>1, GotoType, StageNames, OnlyMoves DEF Rest

\* LoadEntry reads the entry and the breaker's row.
LEMMA LoadEntryEffect ==
  ASSUME TypeOK, LoadEntry
  PROVE  /\ TypeOK' /\ UNCHANGED Rest /\ sch.pc = "load"
         /\ \/ /\ entry[S].status = "active" /\ sch'.pc = "breaker" /\ sch'.i = sch.i
               /\ sch'.es = entry[S] /\ sch'.cb = brk
            \/ sch'.pc \in {"load", "idle"}
<1>1. UNCHANGED Rest /\ sch.pc = "load"
  BY DEF LoadEntry, Rest, At
<1>2. CASE sch' = NextFrom("load", "idle")
  BY <1>1, <1>2, NextType, StageNames, OnlyMoves DEF Rest
<1>3. CASE entry[S].status # "exhausted" /\ sch' = [sch EXCEPT !.pc = "breaker", !.es = entry[S], !.cb = brk]
  <2>1. PICK e, b : e = entry[S] /\ b = brk
    OBVIOUS
  <2>2. e \in Entry /\ b \in Breaker
    BY <2>1, InHand DEF TypeOK
  <2>3. sch' = [sch EXCEPT !.pc = "breaker", !.es = e, !.cb = b]
    BY <1>3, <2>1
  <2>4. sch' = Gor("breaker", sch.i, e, b, sch.from, sch.latest, sch.at, sch.k)
    BY <2>3, PartTypes DEF Gor
  <2>5. sch' \in Goroutine
    BY <2>2, <2>4, PartTypes, MadeType, StageNames
  <2>6. sch'.pc = "breaker" /\ sch'.i = sch.i /\ sch'.es = e /\ sch'.cb = b
    BY <2>4, MadeParts
  <2>7. TypeOK'
    BY <1>1, <2>5, OnlyMoves DEF Rest
  <2>8. entry[S].status = "active"
    BY <1>3, <2>1, <2>2 DEF Entry
  <2> QED BY <1>1, <2>1, <2>6, <2>7, <2>8
<1> QED BY <1>2, <1>3 DEF LoadEntry, Skip

\* The breaker a result makes.
LEMMA ReconciledFacts ==
  ASSUME TypeOK, NEW c \in Breaker, NEW j \in JobIds, job[j].done \in Moment, job[j].done # Nil
  PROVE  /\ Reconciled(c, j) \in Breaker /\ Reconciled(c, j).lastJob = j
         /\ Reconciled(c, j).state = "closed" <=> Reconciled(c, j).failures < conf.threshold
         /\ Reconciled(c, j).state \in {"closed", "open"}
         /\ Reconciled(c, j).state # "closed" => Reconciled(c, j).openedAt # Nil
<1>1. PICK r, d, h : r = Reconciled(c, j) /\ d = job[j].done /\ h = conf.threshold
  OBVIOUS
<1>2. d \in Moment /\ d # Nil /\ h \in Nat \ {0} /\ j \in 0 .. MaxJobs /\ c.failures \in Nat /\ c.failures + 1 \in Nat
  <2>1. j \in 0 .. MaxJobs
    BY SchedulerAssumption DEF JobIds
  <2>2. c.failures \in Nat
    BY DEF Breaker
  <2>3. conf.threshold \in Nat \ {0}
    BY ConfFacts DEF TypeOK
  <2> QED BY <1>1, <2>1, <2>2, <2>3
<1>3. CASE job[j].status = "succeeded"
  <2>1. r = [state |-> "closed", failures |-> 0, openedAt |-> Nil, lastJob |-> j]
    BY <1>1, <1>3 DEF Reconciled, NewBreaker
  <2> QED BY <1>1, <1>2, <2>1 DEF Breaker, CircuitState, Nil, Moment
<1>4. CASE job[j].status # "succeeded" /\ c.failures + 1 >= h
  <2>1. r = [state |-> "open", failures |-> c.failures + 1, openedAt |-> d, lastJob |-> j]
    BY <1>1, <1>4 DEF Reconciled
  <2> QED BY <1>1, <1>2, <1>4, <2>1 DEF Breaker, CircuitState, Nil, Moment
<1>5. CASE job[j].status # "succeeded" /\ ~(c.failures + 1 >= h)
  <2>1. r = [state |-> "closed", failures |-> c.failures + 1, openedAt |-> Nil, lastJob |-> j]
    BY <1>1, <1>5 DEF Reconciled
  <2> QED BY <1>1, <1>2, <1>5, <2>1 DEF Breaker, CircuitState, Nil, Moment
<1> QED BY <1>3, <1>4, <1>5

\* One more count of a result.
Counted(j) == /\ job'[j].counted = job[j].counted + 1
              /\ job'[j].status = job[j].status /\ job'[j].sched = job[j].sched
              /\ job'[j].slot = job[j].slot /\ job'[j].done = job[j].done /\ job'[j].held = job[j].held
              /\ \A i \in JobIds : i # j => job'[i] = job[i]

\* The breaker's row moved by result j.
MovedBy(j) == /\ j \in Completed /\ j \in JobIds /\ j # sch.cb.lastJob
              /\ job[j].done \in Moment /\ job[j].done # Nil /\ \A i \in Completed : UpTo(i, j)
              /\ brk' = Reconciled(sch.cb, j) /\ sch'.cb = brk' /\ sch'.from = sch.cb.state
              /\ sch'.pc = "reconciled" /\ Counted(j)

\* reconcileCircuitBreaker finds nothing new, or one result moves the breaker.
LEMMA reconcileEffect ==
  ASSUME TypeOK, reconcileCircuitBreaker
  PROVE  /\ TypeOK' /\ UNCHANGED <<conf, now, entry, noted, cli, used>>
         /\ sch.pc = "breaker" /\ sch'.i = sch.i /\ sch'.es = sch.es
         /\ \/ sch'.pc = "due" /\ UNCHANGED <<brk, job>>
            \/ \E j \in JobIds : MovedBy(j)
<1>1. PICK j : j = LatestCompletedCommandResult
  OBVIOUS
<1>2. PICK new, l, st : /\ new = Reconciled(sch.cb, j) /\ st = sch.cb.state
                        /\ l = IF j = 0 THEN NoResult
                               ELSE [id |-> j, ok |-> job[j].status = "succeeded", at |-> job[j].done]
  OBVIOUS
<1>3. /\ sch.pc = "breaker" /\ UNCHANGED <<conf, now, entry, noted, cli, used>>
      /\ IF j = 0 \/ j = sch.cb.lastJob
         THEN sch' = [sch EXCEPT !.pc = "due", !.latest = l] /\ UNCHANGED <<brk, job>>
         ELSE /\ brk' = new /\ job' = [job EXCEPT ![j].counted = @ + 1]
              /\ sch' = [sch EXCEPT !.pc = "reconciled", !.latest = l, !.cb = new, !.from = st]
  BY <1>1, <1>2 DEF reconcileCircuitBreaker, At
<1>4. j # 0 => /\ j \in Completed /\ j \in JobIds /\ job[j].done \in Moment /\ job[j].done # Nil
               /\ \A i \in Completed : UpTo(i, j)
  BY <1>1, LatestFacts
<1>5. l \in Result
  <2>1. CASE j = 0
    BY <1>2, <2>1, NewTypes
  <2>2. CASE j # 0
    <3>1. j \in 0 .. MaxJobs
      BY <1>4, <2>2, SchedulerAssumption DEF JobIds
    <3> QED BY <1>2, <1>4, <2>2, <3>1 DEF Result
  <2> QED BY <2>1, <2>2
<1>6. CASE j = 0 \/ j = sch.cb.lastJob
  <2>1. sch' = Gor("due", sch.i, sch.es, sch.cb, sch.from, l, sch.at, sch.k)
    BY <1>3, <1>6, PartTypes DEF Gor
  <2>2. sch' \in Goroutine
    BY <1>5, <2>1, PartTypes, MadeType, StageNames
  <2>3. sch'.pc = "due" /\ sch'.i = sch.i /\ sch'.es = sch.es
    BY <2>1, MadeParts
  <2>4. TypeOK'
    BY <1>3, <1>6, <2>2, OnlyMoves
  <2> QED BY <1>3, <1>6, <2>3, <2>4
<1>7. CASE ~(j = 0 \/ j = sch.cb.lastJob)
  <2>1. sch' = Gor("reconciled", sch.i, sch.es, new, st, l, sch.at, sch.k)
    BY <1>3, <1>7, PartTypes DEF Gor
  <2>2. sch.cb \in Breaker /\ new \in Breaker
    BY <1>2, <1>4, <1>7, PartTypes, ReconciledFacts
  <2>3. st \in CircuitState
    BY <1>2, <2>2 DEF Breaker
  <2>4. sch' \in Goroutine
    BY <1>5, <2>1, <2>2, <2>3, PartTypes, MadeType, StageNames
  <2>5. sch'.pc = "reconciled" /\ sch'.i = sch.i /\ sch'.es = sch.es /\ sch'.cb = new /\ sch'.from = st
    BY <2>1, MadeParts
  <2>6. job[j] \in JobRow /\ job[j].counted \in Nat /\ job \in [JobIds -> JobRow]
    BY <1>4, <1>7 DEF TypeOK, JobRow
  <2>7. PICK r : r = [job[j] EXCEPT !.counted = @ + 1]
    OBVIOUS
  <2>8. /\ r \in JobRow /\ r.counted = job[j].counted + 1
        /\ r.status = job[j].status /\ r.sched = job[j].sched
        /\ r.slot = job[j].slot /\ r.done = job[j].done /\ r.held = job[j].held
    BY <2>6, <2>7 DEF JobRow
  <2>9. job' = [job EXCEPT ![j] = r]
    BY <1>3, <1>7, <2>7
  <2>10. job' \in [JobIds -> JobRow] /\ job'[j] = r /\ \A i \in JobIds : i # j => job'[i] = job[i]
    BY <1>4, <1>7, <2>6, <2>8, <2>9
  <2>11. Counted(j)
    BY <2>8, <2>10 DEF Counted
  <2>12. TypeOK'
    BY <1>3, <1>7, <2>2, <2>4, <2>10, TypeFromParts DEF TypeOK
  <2>13. MovedBy(j)
    BY <1>2, <1>3, <1>4, <1>7, <2>5, <2>11 DEF MovedBy
  <2> QED BY <1>3, <1>4, <1>7, <2>5, <2>12, <2>13
<1> QED BY <1>6, <1>7

\* RecordReconciled notes a change of state.
LEMMA RecordReconciledEffect ==
  ASSUME TypeOK, RecordReconciled
  PROVE  /\ TypeOK' /\ UNCHANGED <<conf, now, entry, brk, job, cli, used>>
         /\ sch.pc = "reconciled" /\ sch'.pc = "due" /\ sch'.i = sch.i /\ sch'.es = sch.es
         /\ noted' = IF sch.cb.state = sch.from THEN noted ELSE sch.cb.state
<1>1. /\ UNCHANGED <<conf, now, entry, brk, job, cli, used>> /\ sch.pc = "reconciled" /\ Goto("due")
      /\ noted' = IF sch.cb.state = sch.from THEN noted ELSE sch.cb.state
  BY DEF RecordReconciled, At, RecordCircuitBreakerTransition
<1>2. sch' \in Goroutine /\ sch'.pc = "due" /\ sch'.i = sch.i /\ sch'.es = sch.es
  BY <1>1, GotoType, StageNames
<1>3. sch.cb.state \in CircuitState
  BY PartTypes DEF Breaker
<1>4. TypeOK'
  BY <1>1, <1>2, <1>3, TypeFromParts DEF TypeOK
<1> QED BY <1>1, <1>2, <1>4

\* The next match of a cron schedule.
LEMMA NextAfterType == ASSUME TypeOK, NEW t \in Int PROVE NextAfter(t) \in Int
<1>1. PICK v : v = conf.interval[S] /\ v \in Nat \ {0} /\ v \in Int
  BY NumberTypes
<1>2. t \div v \in Int
  BY <1>1
<1>3. PICK q : q = t \div v /\ q \in Int
  BY <1>2
<1>4. v * (q + 1) \in Int
  BY <1>1, <1>3
<1> QED BY <1>1, <1>3, <1>4 DEF NextAfter

\* The goroutine leaves the schedule in hand.
Leaves == sch'.pc \in {"load", "idle"}

\* It goes on with it.
GoesTo(p) == sch'.pc = p /\ sch'.i = sch.i

\* Skip leaves it.
LEMMA SkipEffect == ASSUME TypeOK, Skip PROVE sch' \in Goroutine /\ Leaves
BY NextType, StageNames DEF Skip, Leaves

\* An entry written and taken along.
Writes(e) == /\ e \in Entry /\ entry'[S] = e /\ \A s \in Schedules : s # S => entry'[s] = entry[s]
             /\ \/ Leaves
                \/ GoesTo("gate") /\ sch'.es = e

\* A goroutine that takes an entry to the gate.
LEMMA GateType ==
  ASSUME TypeOK, NEW e \in Entry, sch' = [sch EXCEPT !.pc = "gate", !.es = e]
  PROVE  sch' \in Goroutine /\ GoesTo("gate") /\ sch'.es = e
<1>1. sch' = Gor("gate", sch.i, e, sch.cb, sch.from, sch.latest, sch.at, sch.k)
  BY PartTypes DEF Gor
<1>2. sch' \in Goroutine
  BY <1>1, PartTypes, MadeType, StageNames
<1> QED BY <1>1, <1>2, MadeParts DEF GoesTo

\* DueEvery writes the entry, with a new success or as it was.
LEMMA DueEveryEffect ==
  ASSUME TypeOK, DueEvery
  PROVE  /\ sch' \in Goroutine /\ entry' \in [Schedules -> Entry] /\ conf.kind[S] = "every"
         /\ \E e \in Entry : Writes(e) /\ e.status = sch.es.status
<1>0. PICK d \in 0 .. conf.jitter : \E e :
        /\ conf.kind[S] = "every"
        /\ \/ e = sch.es
           \/ e = [sch.es EXCEPT !.lastSuccess = sch.latest.id, !.lastSuccessAt = sch.latest.at,
                                 !.nextRun = sch.latest.at + conf.interval[S] + d]
        /\ UpsertScheduleEntryState(e)
        /\ IF e.nextRun # Nil /\ now < e.nextRun THEN Skip ELSE sch' = [sch EXCEPT !.pc = "gate", !.es = e]
  BY DEF DueEvery
<1>1. PICK e :
        /\ conf.kind[S] = "every"
        /\ \/ e = sch.es
           \/ e = [sch.es EXCEPT !.lastSuccess = sch.latest.id, !.lastSuccessAt = sch.latest.at,
                                 !.nextRun = sch.latest.at + conf.interval[S] + d]
        /\ UpsertScheduleEntryState(e)
        /\ IF e.nextRun # Nil /\ now < e.nextRun THEN Skip ELSE sch' = [sch EXCEPT !.pc = "gate", !.es = e]
  BY <1>0
<1>2. /\ sch.es \in Entry /\ sch.latest.id \in 0 .. MaxJobs
      /\ sch.latest.at \in Moment /\ sch.latest.at \in Int
  <2>1. \A x \in Moment : x \in Int
    BY DEF Moment, Nil
  <2> QED BY <2>1, PartTypes DEF Result
<1>3. sch.latest.at + conf.interval[S] + d \in Int
  <2>1. conf.jitter \in Nat
    BY ConfFacts DEF TypeOK
  <2> QED BY <1>2, <2>1, NumberTypes
<1>4. e \in Entry
  <2>1. e = sch.es => e \in Entry
    BY <1>2
  <2>2. e = [sch.es EXCEPT !.lastSuccess = sch.latest.id, !.lastSuccessAt = sch.latest.at,
                           !.nextRun = sch.latest.at + conf.interval[S] + d] => e \in Entry
    BY <1>2, <1>3 DEF Entry
  <2> QED BY <1>1, <2>1, <2>2
<1>5. e.status = sch.es.status
  BY <1>1, <1>2 DEF Entry
<1>6. /\ entry' \in [Schedules -> Entry] /\ entry'[S] = e
      /\ \A s \in Schedules : s # S => entry'[s] = entry[s]
  BY <1>1, <1>4, UpsertType
<1>7. sch' \in Goroutine /\ (Leaves \/ (GoesTo("gate") /\ sch'.es = e))
  BY <1>1, <1>4, SkipEffect, GateType
<1> QED BY <1>1, <1>4, <1>5, <1>6, <1>7 DEF Writes

\* DueOneShot writes the entry with its time.
LEMMA DueOneShotEffect ==
  ASSUME TypeOK, DueOneShot
  PROVE  /\ sch' \in Goroutine /\ entry' \in [Schedules -> Entry] /\ conf.kind[S] = "oneshot"
         /\ \E e \in Entry : Writes(e) /\ e.status = sch.es.status
<1>1. PICK e :
        /\ conf.kind[S] = "oneshot"
        /\ e = sch.es \/ e = [sch.es EXCEPT !.nextRun = conf.interval[S]]
        /\ UpsertScheduleEntryState(e)
        /\ IF now < e.nextRun THEN Skip ELSE sch' = [sch EXCEPT !.pc = "gate", !.es = e]
  BY DEF DueOneShot
<1>2. sch.es \in Entry
  BY PartTypes
<1>4. e \in Entry
  <2>1. e = sch.es => e \in Entry
    BY <1>2
  <2>2. e = [sch.es EXCEPT !.nextRun = conf.interval[S]] => e \in Entry
    BY <1>2, NumberTypes DEF Entry
  <2> QED BY <1>1, <2>1, <2>2
<1>5. e.status = sch.es.status
  BY <1>1, <1>2 DEF Entry
<1>6. /\ entry' \in [Schedules -> Entry] /\ entry'[S] = e
      /\ \A s \in Schedules : s # S => entry'[s] = entry[s]
  BY <1>1, <1>4, UpsertType
<1>7. sch' \in Goroutine /\ (Leaves \/ (GoesTo("gate") /\ sch'.es = e))
  BY <1>1, <1>4, SkipEffect, GateType
<1> QED BY <1>1, <1>4, <1>5, <1>6, <1>7 DEF Writes

\* DueCron sets the first match, or compares.
LEMMA DueCronEffect ==
  ASSUME TypeOK, DueCron
  PROVE  /\ sch' \in Goroutine /\ entry' \in [Schedules -> Entry] /\ conf.kind[S] = "cron"
         /\ \/ /\ sch.es.nextRun = Nil /\ now % conf.interval[S] # 0 /\ Leaves
               /\ \E e \in Entry : Writes(e) /\ e.status = sch.es.status /\ e.nextRun = NextAfter(now - 1)
            \/ entry' = entry /\ Leaves
            \/ /\ entry' = entry /\ GoesTo("gate") /\ sch'.es = sch.es
               /\ sch.es.nextRun = Nil \/ sch.es.nextRun <= now
<1>0. conf.kind[S] = "cron" /\ entry \in [Schedules -> Entry]
  BY DEF DueCron, TypeOK
<1>1. Goto("gate") => sch' \in Goroutine /\ GoesTo("gate") /\ sch'.es = sch.es
  BY GotoType, StageNames DEF GoesTo
<1>2. CASE sch.es.nextRun = Nil /\ now % conf.interval[S] # 0
  <2>1. PICK e : e = [sch.es EXCEPT !.nextRun = NextAfter(now - 1)]
    OBVIOUS
  <2>2. UpsertScheduleEntryState(e) /\ Skip
    BY <1>2, <2>1 DEF DueCron
  <2>3. NextAfter(now - 1) \in Int
    BY NumberTypes, NextAfterType
  <2>4. sch.es \in Entry
    BY PartTypes
  <2>5. e \in Entry
    BY <2>1, <2>3, <2>4, EntryTypes
  <2>6. e.status = sch.es.status /\ e.nextRun = NextAfter(now - 1)
    BY <2>1, <2>4 DEF Entry
  <2>7. /\ entry' \in [Schedules -> Entry] /\ entry'[S] = e
        /\ \A s \in Schedules : s # S => entry'[s] = entry[s]
    BY <2>2, <2>5, UpsertType
  <2> QED BY <1>0, <1>2, <2>2, <2>5, <2>6, <2>7, SkipEffect DEF Writes
<1>3. CASE sch.es.nextRun = Nil /\ now % conf.interval[S] = 0
  <2>1. Goto("gate") /\ entry' = entry
    BY <1>3 DEF DueCron
  <2> QED BY <1>0, <1>1, <1>3, <2>1
<1>4. CASE sch.es.nextRun # Nil
  <2>1. entry' = entry /\ IF now < sch.es.nextRun THEN Skip ELSE Goto("gate")
    BY <1>4 DEF DueCron
  <2>2. ~(now < sch.es.nextRun) => sch.es.nextRun <= now
    BY NumberTypes
  <2> QED BY <1>0, <1>1, <1>4, <2>1, <2>2, SkipEffect
<1> QED BY <1>2, <1>3, <1>4

\* Due, all three kinds.
LEMMA DueEffect ==
  ASSUME TypeOK, Due
  PROVE  /\ TypeOK' /\ UNCHANGED <<conf, now, brk, noted, job, cli, used>> /\ sch.pc = "due"
         /\ DueEvery \/ DueCron \/ DueOneShot
<1>1. /\ UNCHANGED <<conf, now, brk, noted, job, cli, used>> /\ sch.pc = "due"
      /\ DueEvery \/ DueCron \/ DueOneShot
  BY DEF Due, At
<1>2. sch' \in Goroutine /\ entry' \in [Schedules -> Entry]
  BY <1>1, DueEveryEffect, DueCronEffect, DueOneShotEffect
<1>3. TypeOK'
  BY <1>1, <1>2, TypeFromParts DEF TypeOK
<1> QED BY <1>1, <1>3

\* ConstraintsDeny leaves the schedule.
LEMMA ConstraintsDenyEffect ==
  ASSUME TypeOK, ConstraintsDeny PROVE TypeOK' /\ UNCHANGED Rest /\ sch.pc = "gate" /\ Leaves
<1>1. UNCHANGED Rest /\ sch.pc = "gate" /\ Skip
  BY DEF ConstraintsDeny, Rest, At
<1> QED BY <1>1, SkipEffect, OnlyMoves DEF Rest

\* canSchedule lets the schedule pass, takes the breaker's row to be half
\* opened, or leaves it.
LEMMA canScheduleEffect ==
  ASSUME TypeOK, canSchedule
  PROVE  /\ TypeOK' /\ UNCHANGED Rest /\ sch.pc = "gate"
         /\ \/ brk.state # "open" /\ GoesTo("policy") /\ sch'.es = sch.es
            \/ /\ brk.state = "open" /\ (brk.openedAt = Nil \/ now >= brk.openedAt + conf.resetAfter)
               /\ GoesTo("halfopen") /\ sch'.es = sch.es /\ sch'.cb = brk
            \/ Leaves
<1>1. UNCHANGED Rest /\ sch.pc = "gate"
  BY DEF canSchedule, Rest, At
<1>2. CASE brk.state # "open" /\ Goto("policy")
  BY <1>1, <1>2, GotoType, StageNames, OnlyMoves DEF Rest, GoesTo
<1>3. CASE Skip
  BY <1>1, <1>3, SkipEffect, OnlyMoves DEF Rest
<1>4. CASE /\ brk.state = "open" /\ (brk.openedAt = Nil \/ now >= brk.openedAt + conf.resetAfter)
           /\ sch' = [sch EXCEPT !.pc = "halfopen", !.cb = brk]
  <2>1. PICK b : b = brk /\ b \in Breaker
    BY DEF TypeOK
  <2>2. sch' = Gor("halfopen", sch.i, sch.es, b, sch.from, sch.latest, sch.at, sch.k)
    BY <1>4, <2>1, PartTypes DEF Gor
  <2>3. sch' \in Goroutine
    BY <2>1, <2>2, PartTypes, MadeType, StageNames
  <2>4. GoesTo("halfopen") /\ sch'.es = sch.es /\ sch'.cb = b
    BY <2>2, MadeParts DEF GoesTo
  <2>5. TypeOK'
    BY <1>1, <2>3, OnlyMoves DEF Rest
  <2> QED BY <1>1, <1>4, <2>1, <2>4, <2>5
<1> QED BY <1>2, <1>3, <1>4 DEF canSchedule

\* HalfOpen writes back the row it took along.
LEMMA HalfOpenEffect ==
  ASSUME TypeOK, HalfOpen
  PROVE  /\ TypeOK' /\ UNCHANGED <<conf, now, entry, noted, job, cli, used>>
         /\ sch.pc = "halfopen" /\ GoesTo("opened") /\ sch'.es = sch.es
         /\ brk'.state = "half_open" /\ brk'.failures = sch.cb.failures
         /\ brk'.openedAt = sch.cb.openedAt /\ brk'.lastJob = sch.cb.lastJob
<1>1. /\ UNCHANGED <<conf, now, entry, noted, job, cli, used>> /\ sch.pc = "halfopen" /\ Goto("opened")
      /\ brk' = [sch.cb EXCEPT !.state = "half_open"]
  BY DEF HalfOpen, At
<1>2. sch' \in Goroutine /\ GoesTo("opened") /\ sch'.es = sch.es
  BY <1>1, GotoType, StageNames DEF GoesTo
<1>3. sch.cb \in Breaker
  BY PartTypes
<1>4. /\ brk' \in Breaker /\ brk'.state = "half_open" /\ brk'.failures = sch.cb.failures
      /\ brk'.openedAt = sch.cb.openedAt /\ brk'.lastJob = sch.cb.lastJob
  BY <1>1, <1>3 DEF Breaker, CircuitState
<1>5. TypeOK'
  BY <1>1, <1>2, <1>4, TypeFromParts DEF TypeOK
<1> QED BY <1>1, <1>2, <1>4, <1>5

\* RecordHalfOpen notes it.
LEMMA RecordHalfOpenEffect ==
  ASSUME TypeOK, RecordHalfOpen
  PROVE  /\ TypeOK' /\ UNCHANGED <<conf, now, entry, brk, job, cli, used>> /\ noted' = "half_open"
         /\ sch.pc = "opened" /\ GoesTo("policy") /\ sch'.es = sch.es
<1>1. /\ UNCHANGED <<conf, now, entry, brk, job, cli, used>> /\ noted' = "half_open"
      /\ sch.pc = "opened" /\ Goto("policy")
  BY DEF RecordHalfOpen, RecordCircuitBreakerTransition, At
<1>2. sch' \in Goroutine /\ GoesTo("policy") /\ sch'.es = sch.es
  BY <1>1, GotoType, StageNames DEF GoesTo
<1>3. noted' \in CircuitState
  BY <1>1 DEF CircuitState
<1>4. TypeOK'
  BY <1>1, <1>2, <1>3, TypeFromParts DEF TypeOK
<1> QED BY <1>1, <1>2, <1>4

\* The number of jobs outstanding.
LEMMA OutstandingType == outstandingForPolicy \in Nat /\ IsFiniteSet({j \in JobIds : Outstanding(j)})
<1>1. IsFiniteSet(JobIds)
  BY SchedulerAssumption, FS_Interval DEF JobIds
<1>2. IsFiniteSet({j \in JobIds : Outstanding(j)})
  BY <1>1, FS_Subset
<1> QED BY <1>2, FS_CardinalityType DEF outstandingForPolicy

\* Every job outstanding cancelled.
CancelsAll ==
  \A j \in JobIds :
    IF Outstanding(j)
    THEN /\ job'[j].status = "dead" /\ job'[j].done = now /\ job'[j].held \in BOOLEAN
         /\ job'[j].sched = job[j].sched /\ job'[j].slot = job[j].slot /\ job'[j].counted = job[j].counted
    ELSE job'[j] = job[j]

\* Policy leaves the schedule, goes on with room for one more, or cancels.
LEMMA PolicyEffect ==
  ASSUME TypeOK, Policy
  PROVE  /\ TypeOK' /\ UNCHANGED <<conf, now, entry, brk, noted, cli, used>> /\ sch.pc = "policy"
         /\ \/ Leaves /\ job' = job
            \/ /\ GoesTo("enqueue") /\ sch'.es = sch.es /\ job' = job
               /\ outstandingForPolicy < conf.maxOutstanding
            \/ GoesTo("enqueue") /\ sch'.es = sch.es /\ conf.ifRunning[S] = "cancel" /\ CancelsAll
<1>1. UNCHANGED <<conf, now, entry, brk, noted, cli, used>> /\ sch.pc = "policy"
  BY DEF Policy, At
<1>2. conf.ifRunning[S] \in {"skip", "queue", "cancel"} /\ conf.maxOutstanding \in Nat \ {0}
  BY InHand, ConfFacts DEF TypeOK
<1>3. Goto("enqueue") => sch' \in Goroutine /\ GoesTo("enqueue") /\ sch'.es = sch.es
  BY GotoType, StageNames DEF GoesTo
<1>4. job \in [JobIds -> JobRow]
  BY DEF TypeOK
<1>5. CASE Skip /\ job' = job
  <2>1. TypeOK'
    BY <1>1, <1>5, SkipEffect, OnlyMoves
  <2> QED BY <1>1, <1>5, <2>1, SkipEffect
<1>6. CASE Goto("enqueue") /\ job' = job /\ outstandingForPolicy < conf.maxOutstanding
  <2>1. TypeOK'
    BY <1>1, <1>3, <1>6, OnlyMoves
  <2> QED BY <1>1, <1>3, <1>6, <2>1
<1>7. ASSUME conf.ifRunning[S] = "cancel", Goto("enqueue"), NEW running \in SUBSET {j \in JobIds : Outstanding(j)},
             job' = [j \in JobIds |-> IF Outstanding(j)
                       THEN [job[j] EXCEPT !.status = "dead", !.done = now, !.held = (j \in running)]
                       ELSE job[j]]
      PROVE  TypeOK' /\ CancelsAll
  <2>1. ASSUME NEW j \in JobIds, Outstanding(j)
        PROVE  /\ job'[j] \in JobRow
               /\ job'[j].status = "dead" /\ job'[j].done = now /\ job'[j].held \in BOOLEAN
               /\ job'[j].sched = job[j].sched /\ job'[j].slot = job[j].slot /\ job'[j].counted = job[j].counted
    <3>1. job'[j] = [job[j] EXCEPT !.status = "dead", !.done = now, !.held = (j \in running)]
      BY <1>7, <2>1
    <3>2. job[j] \in JobRow /\ now \in Moment /\ (j \in running) \in BOOLEAN
      BY <1>4, NumberTypes
    <3> QED BY <3>1, <3>2 DEF JobRow
  <2>2. \A j \in JobIds : ~Outstanding(j) => job'[j] = job[j] /\ job'[j] \in JobRow
    BY <1>4, <1>7
  <2>3. job' = [j \in JobIds |-> job'[j]]
    BY <1>7
  <2>4. job' \in [JobIds -> JobRow]
    BY <2>1, <2>2, <2>3
  <2>5. TypeOK'
    BY <1>1, <1>3, <1>7, <2>4, TypeFromParts DEF TypeOK
  <2> QED BY <2>1, <2>2, <2>5 DEF CancelsAll
<1>8. CASE conf.ifRunning[S] = "skip"
  <2>1. IF outstandingForPolicy > 0 THEN Skip /\ job' = job ELSE Goto("enqueue") /\ job' = job
    BY <1>8 DEF Policy
  <2>2. ~(outstandingForPolicy > 0) => outstandingForPolicy < conf.maxOutstanding
    BY <1>2, OutstandingType
  <2> QED BY <1>5, <1>6, <2>1, <2>2
<1>9. CASE conf.ifRunning[S] = "queue"
  <2>1. IF outstandingForPolicy >= conf.maxOutstanding THEN Skip /\ job' = job ELSE Goto("enqueue") /\ job' = job
    BY <1>9 DEF Policy
  <2>2. ~(outstandingForPolicy >= conf.maxOutstanding) => outstandingForPolicy < conf.maxOutstanding
    BY <1>2, OutstandingType, SMTT(60)
  <2> QED BY <1>5, <1>6, <2>1, <2>2, SMTT(60)
<1>10. CASE conf.ifRunning[S] = "cancel"
  <2>1. /\ Goto("enqueue")
        /\ \E running \in SUBSET {j \in JobIds : Outstanding(j)} :
             job' = [j \in JobIds |-> IF Outstanding(j)
                       THEN [job[j] EXCEPT !.status = "dead", !.done = now, !.held = (j \in running)]
                       ELSE job[j]]
    BY <1>10 DEF Policy
  <2> QED BY <1>1, <1>3, <1>7, <1>10, <2>1
<1> QED BY <1>2, <1>8, <1>9, <1>10

\* enqueueScheduledJob finds a job of its key or adds one.
LEMMA enqueueEffect ==
  ASSUME TypeOK, enqueueScheduledJob
  PROVE  /\ TypeOK' /\ UNCHANGED <<conf, now, entry, brk, noted, cli, used>> /\ sch.pc = "enqueue"
         /\ sch'.es = sch.es
         /\ \/ GoesTo("hit") /\ job' = job
            \/ GoesTo("fired") /\ ~DedupeHit(S, Nil, DedupeTTL) /\ Added(S, Nil)
<1>1. UNCHANGED <<conf, now, entry, brk, noted, cli, used>> /\ sch.pc = "enqueue"
  BY DEF enqueueScheduledJob, At
<1>2. CASE Goto("hit") /\ job' = job
  BY <1>1, <1>2, GotoType, StageNames, OnlyMoves DEF GoesTo
<1>3. CASE ~DedupeHit(S, Nil, DedupeTTL) /\ Insert(S, Nil) /\ Goto("fired")
  <2>1. sch' \in Goroutine /\ GoesTo("fired") /\ sch'.es = sch.es
    BY <1>3, GotoType, StageNames DEF GoesTo
  <2>2. Nil \in Int
    BY DEF Nil
  <2>3. job' \in [JobIds -> JobRow] /\ Added(S, Nil)
    BY <1>3, <2>2, InHand, InsertEffect
  <2>4. TypeOK'
    BY <1>1, <2>1, <2>3, TypeFromParts DEF TypeOK
  <2> QED BY <1>1, <1>3, <2>1, <2>3, <2>4
<1> QED BY <1>2, <1>3 DEF enqueueScheduledJob

\* PersistFired writes the entry of the schedule that fired.
LEMMA PersistFiredEffect ==
  ASSUME TypeOK, PersistFired
  PROVE  /\ TypeOK' /\ UNCHANGED <<conf, now, brk, noted, job, cli, used>>
         /\ sch.pc \in {"fired", "hit"} /\ Leaves
         /\ \A s \in Schedules : s # S => entry'[s] = entry[s]
         /\ conf.kind[S] = "oneshot" => entry'[S].status = "exhausted"
         /\ conf.kind[S] = "cron" => /\ entry'[S].nextRun = NextAfter(now)
                                     /\ entry'[S].status = sch.es.status
<1>1. /\ UNCHANGED <<conf, now, brk, noted, job, cli, used>>
      /\ sch.pc \in {"fired", "hit"} /\ Skip
  BY DEF PersistFired, At
<1> DEFINE es == [sch.es EXCEPT !.lastFired = now]
<1>2. PICK d \in 0 .. conf.jitter :
        UpsertScheduleEntryState(
             CASE conf.kind[S] = "oneshot" -> [es EXCEPT !.status = "exhausted", !.nextRun = Nil]
               [] conf.kind[S] = "cron" -> [es EXCEPT !.nextRun = NextAfter(now)]
               [] conf.kind[S] = "every" /\ At("hit") -> [es EXCEPT !.nextRun = now + conf.interval[S] + d]
               [] OTHER -> es)
  BY DEF PersistFired
<1>3. sch.es \in Entry /\ now \in Moment /\ NextAfter(now) \in Int /\ Nil \in Int
  BY PartTypes, NumberTypes, NextAfterType DEF Nil
<1>4. now + conf.interval[S] + d \in Int
  <2>1. conf.jitter \in Nat
    BY ConfFacts DEF TypeOK
  <2> QED BY <2>1, NumberTypes
<1>5. es \in Entry /\ es.status = sch.es.status
  BY <1>3 DEF Entry
<1> HIDE DEF es
<1>6. conf.kind[S] \in {"every", "cron", "oneshot"}
  BY InHand, ConfFacts DEF TypeOK
<1>7. PICK e : /\ UpsertScheduleEntryState(e)
               /\ e = CASE conf.kind[S] = "oneshot" -> [es EXCEPT !.status = "exhausted", !.nextRun = Nil]
                        [] conf.kind[S] = "cron" -> [es EXCEPT !.nextRun = NextAfter(now)]
                        [] conf.kind[S] = "every" /\ At("hit") -> [es EXCEPT !.nextRun = now + conf.interval[S] + d]
                        [] OTHER -> es
  BY <1>2
<1>8. /\ e \in Entry
      /\ conf.kind[S] = "oneshot" => e.status = "exhausted"
      /\ conf.kind[S] = "cron" => e.nextRun = NextAfter(now) /\ e.status = sch.es.status
  <2>1. CASE conf.kind[S] = "oneshot"
    <3>1. e = [es EXCEPT !.status = "exhausted", !.nextRun = Nil]
      BY <1>7, <2>1
    <3> QED BY <1>3, <1>5, <2>1, <3>1 DEF Entry
  <2>2. CASE conf.kind[S] = "cron"
    <3>1. e = [es EXCEPT !.nextRun = NextAfter(now)]
      BY <1>7, <2>2
    <3> QED BY <1>3, <1>5, <2>2, <3>1 DEF Entry
  <2>3. CASE conf.kind[S] = "every"
    <3>1. e = [es EXCEPT !.nextRun = now + conf.interval[S] + d] \/ e = es
      BY <1>7, <2>3
    <3>2. [es EXCEPT !.nextRun = now + conf.interval[S] + d] \in Entry
      BY <1>4, <1>5 DEF Entry
    <3> QED BY <1>5, <2>3, <3>1, <3>2
  <2> QED BY <1>6, <2>1, <2>2, <2>3
<1>9. /\ entry' \in [Schedules -> Entry] /\ entry'[S] = e
      /\ \A s \in Schedules : s # S => entry'[s] = entry[s]
  BY <1>7, <1>8, UpsertType
<1>10. sch' \in Goroutine /\ Leaves
  BY <1>1, SkipEffect
<1>11. TypeOK'
  BY <1>1, <1>9, <1>10, TypeFromParts DEF TypeOK
<1> QED BY <1>1, <1>8, <1>9, <1>10, <1>11

\* StatementFails leaves the schedule.
LEMMA StatementFailsEffect ==
  ASSUME TypeOK, StatementFails
  PROVE  /\ TypeOK' /\ UNCHANGED <<conf, now, entry, brk, noted, job, cli>> /\ Leaves
         /\ sch.pc \notin {"down", "catchup", "slots", "caught", "idle"}
         /\ used'.faults = used.faults + 1 /\ used'.crashes = used.crashes /\ used'.resets = used.resets
<1>1. /\ UNCHANGED <<conf, now, entry, brk, noted, job, cli>> /\ Skip
      /\ sch.pc \notin {"down", "catchup", "slots", "caught", "idle"}
      /\ used' = [used EXCEPT !.faults = @ + 1]
  BY DEF StatementFails
<1>2. /\ used' \in [crashes: Nat, faults: Nat, resets: Nat]
      /\ used'.faults = used.faults + 1 /\ used'.crashes = used.crashes /\ used'.resets = used.resets
  BY <1>1, UsedTypes
<1>3. sch' \in Goroutine /\ Leaves
  BY <1>1, SkipEffect
<1>4. TypeOK'
  BY <1>1, <1>2, <1>3, TypeFromParts DEF TypeOK
<1> QED BY <1>1, <1>2, <1>3, <1>4

\* TableFull leaves the schedule, or stops catch-up.
LEMMA TableFullEffect ==
  ASSUME TypeOK, TableFull
  PROVE  /\ TypeOK' /\ UNCHANGED Rest
         /\ \/ sch.pc = "enqueue" /\ Leaves
            \/ sch.pc = "slots" /\ sch'.pc = "down"
<1>1. UNCHANGED Rest
  BY DEF TableFull, Rest
<1>2. CASE sch.pc = "enqueue" /\ Skip
  BY <1>1, <1>2, SkipEffect, OnlyMoves DEF Rest
<1>3. CASE sch.pc = "slots" /\ sch' = Stopped
  <2>1. sch' \in Goroutine /\ sch'.pc = "down"
    BY <1>3, StoppedType
  <2> QED BY <1>1, <1>3, <2>1, OnlyMoves DEF Rest
<1> QED BY <1>2, <1>3 DEF TableFull, At

\* Finish gives a job its result.
LEMMA FinishEffect ==
  ASSUME TypeOK, NEW j \in JobIds, Finish(j)
  PROVE  /\ TypeOK' /\ UNCHANGED <<conf, now, entry, brk, noted, sch, cli, used>>
         /\ Outstanding(j) \/ job[j].held
         /\ job'[j].status \in {"succeeded", "failed"} /\ job'[j].done = now /\ job'[j].held = FALSE
         /\ job'[j].sched = job[j].sched /\ job'[j].slot = job[j].slot /\ job'[j].counted = job[j].counted
         /\ \A i \in JobIds : i # j => job'[i] = job[i]
<1>1. UNCHANGED <<conf, now, entry, brk, noted, sch, cli, used>> /\ (Outstanding(j) \/ job[j].held)
  BY DEF Finish
<1>2. PICK status \in {"succeeded", "failed"} :
        job' = [job EXCEPT ![j].status = status, ![j].done = now, ![j].held = FALSE]
  BY DEF Finish
<1>3. job[j] \in JobRow /\ job \in [JobIds -> JobRow] /\ now \in Moment
  BY NumberTypes DEF TypeOK
<1>4. PICK r : r = [job[j] EXCEPT !.status = status, !.done = now, !.held = FALSE]
  OBVIOUS
<1>5. /\ r \in JobRow /\ r.status \in {"succeeded", "failed"} /\ r.done = now /\ r.held = FALSE
      /\ r.sched = job[j].sched /\ r.slot = job[j].slot /\ r.counted = job[j].counted
  BY <1>2, <1>3, <1>4 DEF JobRow
<1>6. job' = [job EXCEPT ![j] = r]
  BY <1>2, <1>3, <1>4
<1>7. job' \in [JobIds -> JobRow] /\ job'[j] = r /\ \A i \in JobIds : i # j => job'[i] = job[i]
  BY <1>3, <1>5, <1>6
<1>8. TypeOK'
  <2>1. sch' \in Goroutine
    BY <1>1 DEF TypeOK
  <2> QED BY <1>1, <1>7, <2>1, TypeFromParts DEF TypeOK
<1> QED BY <1>1, <1>5, <1>7, <1>8

\* The statements of system reset.
LEMMA ResetEffect ==
  ASSUME TypeOK, ResetRead \/ ResetWrite \/ ResetRecord
  PROVE  /\ TypeOK' /\ UNCHANGED <<conf, now, entry, job, sch>>
         /\ used'.crashes = used.crashes /\ used'.faults = used.faults
         /\ \/ cli' # "idle" /\ used'.resets = used.resets + 1 /\ UNCHANGED <<brk, noted>>
            \/ cli # "idle" /\ cli' # "idle" /\ brk' = NewBreaker /\ UNCHANGED <<used, noted>>
            \/ cli # "idle" /\ noted' = "closed" /\ UNCHANGED <<used, brk>>
<1>1. sch \in Goroutine /\ NewBreaker \in Breaker /\ "closed" \in CircuitState
  BY NewTypes DEF TypeOK, CircuitState
<1>2. CASE ResetRead
  <2>1. /\ used' \in [crashes: Nat, faults: Nat, resets: Nat] /\ used'.resets = used.resets + 1
        /\ used'.crashes = used.crashes /\ used'.faults = used.faults
    BY <1>2, UsedTypes DEF ResetRead
  <2>2. UNCHANGED <<conf, now, entry, brk, noted, job, sch>> /\ cli' = "write"
    BY <1>2 DEF ResetRead
  <2>3. TypeOK'
    BY <1>1, <2>1, <2>2, TypeFromParts DEF TypeOK
  <2> QED BY <2>1, <2>2, <2>3
<1>3. CASE ResetWrite
  <2>1. UNCHANGED <<conf, now, entry, noted, job, sch, used>> /\ cli = "write" /\ cli' = "record" /\ brk' = NewBreaker
    BY <1>3 DEF ResetWrite
  <2>2. TypeOK'
    BY <1>1, <2>1, TypeFromParts DEF TypeOK
  <2> QED BY <2>1, <2>2
<1>4. CASE ResetRecord
  <2>1. UNCHANGED <<conf, now, entry, brk, job, sch, used>> /\ cli = "record" /\ cli' = "idle" /\ noted' = "closed"
    BY <1>4 DEF ResetRecord, RecordCircuitBreakerTransition
  <2>2. TypeOK'
    BY <1>1, <2>1, TypeFromParts DEF TypeOK
  <2> QED BY <2>1, <2>2
<1> QED BY <1>2, <1>3, <1>4

\* A crash stops the goroutine and the workers.
LEMMA CrashEffect ==
  ASSUME TypeOK, Crash
  PROVE  /\ TypeOK' /\ UNCHANGED <<conf, now, entry, brk, noted, cli>> /\ sch'.pc = "down"
         /\ used'.crashes = used.crashes + 1 /\ used'.faults = used.faults /\ used'.resets = used.resets
         /\ \A j \in JobIds : /\ job'[j].status = job[j].status /\ job'[j].sched = job[j].sched
                              /\ job'[j].slot = job[j].slot /\ job'[j].done = job[j].done
                              /\ job'[j].counted = job[j].counted /\ job'[j].held = FALSE
<1>1. /\ UNCHANGED <<conf, now, entry, brk, noted, cli>> /\ sch' = Stopped
      /\ used' = [used EXCEPT !.crashes = @ + 1]
      /\ job' = [j \in JobIds |-> [job[j] EXCEPT !.held = FALSE]]
  BY DEF Crash
<1>2. /\ used' \in [crashes: Nat, faults: Nat, resets: Nat]
      /\ used'.crashes = used.crashes + 1 /\ used'.faults = used.faults /\ used'.resets = used.resets
  BY <1>1, UsedTypes
<1>3. sch' \in Goroutine /\ sch'.pc = "down"
  BY <1>1, StoppedType
<1>4. ASSUME NEW j \in JobIds
      PROVE  /\ job'[j] \in JobRow /\ job'[j].status = job[j].status /\ job'[j].sched = job[j].sched
             /\ job'[j].slot = job[j].slot /\ job'[j].done = job[j].done
             /\ job'[j].counted = job[j].counted /\ job'[j].held = FALSE
  <2>1. job[j] \in JobRow
    BY DEF TypeOK
  <2>2. job'[j] = [job[j] EXCEPT !.held = FALSE]
    BY <1>1
  <2> QED BY <2>1, <2>2 DEF JobRow
<1>5. job' = [j \in JobIds |-> job'[j]]
  BY <1>1
<1>6. job' \in [JobIds -> JobRow]
  BY <1>4, <1>5
<1>7. TypeOK'
  BY <1>1, <1>2, <1>3, <1>6, TypeFromParts DEF TypeOK
<1> QED BY <1>1, <1>2, <1>3, <1>4, <1>7

\* Time passes.
LEMMA ClockEffect ==
  ASSUME TypeOK, Clock
  PROVE  /\ TypeOK' /\ UNCHANGED <<conf, entry, brk, noted, job, sch, cli, used>>
         /\ now \in Nat /\ now' = now + 1
<1>1. UNCHANGED <<conf, entry, brk, noted, job, sch, cli, used>> /\ now < conf.until /\ now' = now + 1
  BY DEF Clock
<1>2. now' \in Time
  BY <1>1, ConfFacts, SchedulerAssumption DEF TypeOK, Time
<1>3. sch' \in Goroutine
  BY <1>1 DEF TypeOK
<1>4. TypeOK'
  BY <1>1, <1>2, <1>3, TypeFromParts DEF TypeOK
<1> QED BY <1>1, <1>4, NumberTypes

\* Nothing happens.
LEMMA StutterType == ASSUME TypeOK, UNCHANGED vars PROVE TypeOK'
BY DEF TypeOK, vars, Goroutine

\* Every step keeps the types.
LEMMA TypeStep == ASSUME TypeOK, [Next]_vars PROVE TypeOK'
<1>1. CASE SchedulerStep
  BY <1>1, StartEffect, CatchUpLoadEffect, CatchUpEnqueueEffect, CatchUpEnqueueFailsEffect,
     CatchUpPersistEffect, TickBeginEffect, LoadEntryEffect, reconcileEffect, RecordReconciledEffect,
     DueEffect, ConstraintsDenyEffect, canScheduleEffect, HalfOpenEffect, RecordHalfOpenEffect,
     PolicyEffect, enqueueEffect, PersistFiredEffect, StatementFailsEffect, TableFullEffect
     DEF SchedulerStep
<1>2. CASE \E j \in JobIds : Finish(j)
  BY <1>2, FinishEffect
<1>3. CASE ResetRead \/ ResetWrite \/ ResetRecord
  BY <1>3, ResetEffect
<1>4. CASE Crash \/ Clock
  BY <1>4, CrashEffect, ClockEffect
<1>5. CASE UNCHANGED vars
  BY <1>5, StutterType
<1> QED BY <1>1, <1>2, <1>3, <1>4, <1>5 DEF Next

\* The types hold at the start.
LEMMA TypeInit == ASSUME Init PROVE TypeOK
<1>1. conf \in Configurations /\ now = 0 /\ entry = [s \in Schedules |-> NewEntry] /\ brk = NewBreaker
      /\ noted = "closed" /\ job = [j \in JobIds |-> NoRow] /\ sch = Stopped /\ cli = "idle"
      /\ used = [crashes |-> 0, faults |-> 0, resets |-> 0]
  BY DEF Init
<1>2. 0 \in Time /\ 0 \in 0 .. MaxJobs /\ "closed" \in CircuitState
  BY SchedulerAssumption DEF Time, CircuitState
<1>3. conf.order[1] \in Schedules /\ 1 \in 1 .. Len(conf.order)
  BY <1>1, ConfFacts
<1>4. NewEntry \in Entry /\ NewBreaker \in Breaker /\ NoResult \in Result /\ NoRow \in JobRow
  BY <1>2, <1>3 DEF NewEntry, Entry, NewBreaker, Breaker, CircuitState, NoResult, Result, NoRow, JobRow, Nil, Moment
<1>5. Stopped = Gor("down", 1, NewEntry, NewBreaker, "closed", NoResult, Nil, 0)
  BY DEF Stopped, Gor
<1>6. Stopped \in Goroutine
  BY <1>2, <1>3, <1>4, <1>5, StageNames, MadeType DEF Nil, Moment
<1>7. used \in [crashes: Nat, faults: Nat, resets: Nat]
  BY <1>1
<1> QED BY <1>1, <1>2, <1>4, <1>6, <1>7 DEF TypeOK

-----------------------------------------------------------------------------
\* The breaker.

NoCancel == \A s \in Schedules : conf.ifRunning[s] # "cancel"
Undisturbed == Interruptions + used.resets = 0

\* The row is consistent, so is the one about to be half opened, and no
\* schedule is past the gate while the circuit is open.
GateInv ==
  /\ BreakerConsistent
  /\ brk.state = "half_open" => now >= brk.openedAt + conf.resetAfter
  /\ sch.pc = "halfopen" => /\ ~(sch.cb.failures < conf.threshold) /\ sch.cb.openedAt # Nil
                            /\ now >= sch.cb.openedAt + conf.resetAfter
  /\ sch.pc \in {"opened", "policy", "enqueue"} => brk.state # "open"

\* Without a reset nobody writes the row while the goroutine holds it.
RowInv == used.resets = 0 => /\ cli = "idle"
                             /\ sch.pc \in {"breaker", "reconciled", "halfopen"} => sch.cb = brk

\* What was counted is no later than the result the row remembers.
CountInv ==
  used.resets = 0 /\ NoCancel =>
    \A j \in JobIds :
      /\ ~job[j].held /\ job[j].counted <= 1
      /\ job[j].counted # 0 => j \in Completed /\ brk.lastJob \in Completed /\ UpTo(j, brk.lastJob)

\* The history lags the row only between the two writes.
NoteInv ==
  Undisturbed =>
    /\ sch.pc \notin {"reconciled", "opened"} => brk.state = noted
    /\ sch.pc = "reconciled" => sch.from = noted
    /\ sch.pc = "opened" => brk.state = "half_open"

BreakerInv == GateInv /\ RowInv /\ CountInv /\ NoteInv

\* Nothing is counted, and no result that is there changes.
RowsKept ==
  /\ \A j \in JobIds : job'[j].counted = job[j].counted \/ job'[j].counted = 0
  /\ NoCancel /\ (\A j \in JobIds : ~job[j].held) =>
       \A j \in JobIds : ~job'[j].held /\ (j \in Completed => /\ job'[j].status = job[j].status
                                                              /\ job'[j].done = job[j].done)

\* The goroutine moves and the breaker is not concerned.
MovesQuietly ==
  \/ sch' = sch
  \/ /\ sch'.pc \notin {"halfopen", "opened", "reconciled"}
     /\ sch'.pc = "breaker" => sch'.cb = brk
     /\ sch'.pc \in {"policy", "enqueue"} => brk.state # "open"
     /\ sch.pc \in {"reconciled", "opened"} => ~Undisturbed'

\* Events are only ever added to.
UsedGrows == used'.crashes >= used.crashes /\ used'.faults >= used.faults /\ used'.resets >= used.resets

\* What only grows is zero before if it is zero after.
LEMMA WasUndisturbed ==
  ASSUME TypeOK, TypeOK', UsedGrows
  PROVE  (Undisturbed' => Undisturbed) /\ (used'.resets = 0 => used.resets = 0)
<1>1. /\ used.crashes \in Nat /\ used.faults \in Nat /\ used.resets \in Nat
      /\ used'.crashes \in Nat /\ used'.faults \in Nat /\ used'.resets \in Nat
  BY DEF TypeOK
<1> QED BY <1>1 DEF UsedGrows, Undisturbed, Interruptions

\* Results that are there stay, in their order.
LEMMA CompletedKept ==
  ASSUME TypeOK, \A j \in Completed : job'[j].status = job[j].status /\ job'[j].done = job[j].done
  PROVE  (\A j \in Completed : j \in Completed') /\ \A i, j \in Completed : UpTo(i, j) => UpTo(i, j)'
BY DEF Completed, UpTo

\* A step that does not concern the breaker.
LEMMA BreakerFrame ==
  ASSUME TypeOK, TypeOK', BreakerInv, UNCHANGED <<conf, brk, noted, cli>>, now' >= now,
         UsedGrows, RowsKept, MovesQuietly
  PROVE  BreakerInv'
<1>1. (Undisturbed' => Undisturbed) /\ (used'.resets = 0 => used.resets = 0)
  BY WasUndisturbed
<1>2. brk.openedAt \in Int /\ sch.cb.openedAt \in Int /\ conf.resetAfter \in Int /\ now \in Int /\ now' \in Int
  <2>1. sch.cb \in Breaker /\ brk \in Breaker
    BY PartTypes DEF TypeOK
  <2>2. now \in Time /\ now' \in Time
    BY DEF TypeOK
  <2>3. conf.resetAfter \in Nat
    BY ConfFacts DEF TypeOK
  <2> QED BY <2>1, <2>2, <2>3, SchedulerAssumption DEF Breaker, Time, Moment, Nil
<1>3. GateInv'
  <2>1. BreakerConsistent'
    BY DEF BreakerInv, GateInv, BreakerConsistent
  <2>2. brk.state = "half_open" => now' >= brk.openedAt + conf.resetAfter
    BY <1>2 DEF BreakerInv, GateInv
  <2>3. sch.pc = "halfopen" => now' >= sch.cb.openedAt + conf.resetAfter
    BY <1>2 DEF BreakerInv, GateInv
  <2> QED BY <2>1, <2>2, <2>3 DEF BreakerInv, GateInv, MovesQuietly
<1>4. RowInv'
  BY <1>1 DEF BreakerInv, RowInv, MovesQuietly
<1>5. CountInv'
  <2> SUFFICES ASSUME used'.resets = 0, NoCancel', NEW j \in JobIds
               PROVE  /\ ~job'[j].held /\ job'[j].counted <= 1
                      /\ job'[j].counted # 0 => /\ j \in Completed' /\ brk'.lastJob \in Completed'
                                                /\ UpTo(j, brk.lastJob)'
    BY DEF CountInv
  <2>1. NoCancel /\ used.resets = 0
    BY <1>1 DEF NoCancel
  <2>2. \A i \in JobIds : /\ ~job[i].held /\ job[i].counted <= 1
                          /\ job[i].counted # 0 => i \in Completed /\ brk.lastJob \in Completed /\ UpTo(i, brk.lastJob)
    BY <2>1 DEF BreakerInv, CountInv
  <2>3. \A i \in JobIds : ~job'[i].held /\ (i \in Completed => /\ job'[i].status = job[i].status
                                                               /\ job'[i].done = job[i].done)
    BY <2>1, <2>2 DEF RowsKept
  <2>4. Completed \subseteq JobIds
    BY DEF Completed
  <2>5. (\A i \in Completed : i \in Completed') /\ \A i, k \in Completed : UpTo(i, k) => UpTo(i, k)'
    BY <2>3, <2>4, CompletedKept
  <2>6. job'[j].counted = job[j].counted \/ job'[j].counted = 0
    BY DEF RowsKept
  <2>7. PICK m : m = brk.lastJob /\ m = brk'.lastJob
    OBVIOUS
  <2> QED BY <2>2, <2>3, <2>5, <2>6, <2>7
<1>6. NoteInv'
  BY <1>1 DEF BreakerInv, NoteInv, MovesQuietly
<1> QED BY <1>3, <1>4, <1>5, <1>6 DEF BreakerInv

\* Rows left alone, one row added, all cancelled, or none held.
LEMMA RowsKeptBy ==
  ASSUME TypeOK, conf' = conf
  PROVE  /\ job' = job => RowsKept
         /\ \A s, t : Added(s, t) => RowsKept
         /\ \A s \in Schedules : conf.ifRunning[s] = "cancel" /\ CancelsAll => RowsKept
<1>1. job' = job => RowsKept
  BY DEF RowsKept
<1>2. ASSUME NEW s, NEW t, Added(s, t) PROVE RowsKept
  <2>1. PICK j \in JobIds : /\ job[j].status = "absent" /\ job'[j] = NewRow(s, t)
                            /\ \A i \in JobIds : i # j => job'[i] = job[i]
    BY <1>2 DEF Added
  <2>2. job'[j].held = FALSE /\ job'[j].counted = 0
    BY <2>1 DEF NewRow
  <2>3. j \notin Completed
    BY <2>1 DEF Completed
  <2> QED BY <2>1, <2>2, <2>3 DEF RowsKept
<1>3. ASSUME NEW s \in Schedules, conf.ifRunning[s] = "cancel", CancelsAll PROVE RowsKept
  <2>1. ~NoCancel
    BY <1>3 DEF NoCancel
  <2>2. \A j \in JobIds : job'[j].counted = job[j].counted
    BY <1>3 DEF CancelsAll
  <2> QED BY <2>1, <2>2 DEF RowsKept
<1> QED BY <1>1, <1>2, <1>3

\* The events counted stay as they are, or one is added.
LEMMA UsedSame == ASSUME TypeOK, used' = used PROVE UsedGrows
BY UsedTypes DEF UsedGrows

\* One more interruption.
LEMMA UsedMore ==
  ASSUME TypeOK, TypeOK', used'.resets = used.resets,
         \/ used'.faults = used.faults + 1 /\ used'.crashes = used.crashes
         \/ used'.faults = used.faults /\ used'.crashes = used.crashes + 1
  PROVE  UsedGrows /\ ~Undisturbed'
<1>1. /\ used.crashes \in Nat /\ used.faults \in Nat /\ used.resets \in Nat
      /\ used'.crashes \in Nat /\ used'.faults \in Nat /\ used'.resets \in Nat
  BY DEF TypeOK
<1> QED BY <1>1 DEF UsedGrows, Undisturbed, Interruptions

\* A tick, step by step: catch-up and the steps that do not touch the breaker.
LEMMA BreakerQuiet ==
  ASSUME TypeOK, BreakerInv,
         \/ Start \/ CatchUpLoad \/ CatchUpEnqueue \/ CatchUpEnqueueFails \/ CatchUpPersist
         \/ TickBegin \/ LoadEntry \/ Due \/ ConstraintsDeny \/ Policy \/ enqueueScheduledJob
         \/ PersistFired \/ StatementFails \/ TableFull \/ Crash \/ Clock \/ UNCHANGED vars
  PROVE  BreakerInv'
<1>0. now \in Int /\ now >= now
  BY NumberTypes
<1>1. CASE Start
  <2>1. MovesQuietly
    BY <1>1, StartEffect DEF MovesQuietly, Start, At
  <2> QED BY <1>0, <1>1, <2>1, StartEffect, UsedSame, RowsKeptBy, BreakerFrame DEF Rest
<1>2. CASE CatchUpLoad
  <2>1. MovesQuietly
    BY <1>2, CatchUpLoadEffect DEF MovesQuietly
  <2> QED BY <1>0, <1>2, <2>1, CatchUpLoadEffect, UsedSame, RowsKeptBy, BreakerFrame DEF Rest
<1>3. CASE CatchUpEnqueue
  <2>1. sch'.pc \in {"caught", "slots"}
    BY <1>3, CatchUpEnqueueEffect, NextSlotEffect
  <2>2. MovesQuietly
    BY <1>3, <2>1, CatchUpEnqueueEffect DEF MovesQuietly
  <2>3. RowsKept
    BY <1>3, CatchUpEnqueueEffect, RowsKeptBy
  <2> QED BY <1>0, <1>3, <2>2, <2>3, CatchUpEnqueueEffect, UsedSame, BreakerFrame
<1>4. CASE CatchUpEnqueueFails
  <2>1. sch'.pc \in {"caught", "slots"}
    BY <1>4, CatchUpEnqueueFailsEffect, NextSlotEffect
  <2>2. MovesQuietly
    BY <1>4, <2>1, CatchUpEnqueueFailsEffect DEF MovesQuietly
  <2>3. UsedGrows
    BY <1>4, CatchUpEnqueueFailsEffect, UsedMore
  <2> QED BY <1>0, <1>4, <2>2, <2>3, CatchUpEnqueueFailsEffect, RowsKeptBy, BreakerFrame
<1>5. CASE CatchUpPersist
  <2>1. MovesQuietly
    BY <1>5, CatchUpPersistEffect DEF MovesQuietly
  <2> QED BY <1>0, <1>5, <2>1, CatchUpPersistEffect, UsedSame, RowsKeptBy, BreakerFrame
<1>6. CASE TickBegin
  <2>1. MovesQuietly
    BY <1>6, TickBeginEffect DEF MovesQuietly
  <2> QED BY <1>0, <1>6, <2>1, TickBeginEffect, UsedSame, RowsKeptBy, BreakerFrame DEF Rest
<1>7. CASE LoadEntry
  <2>1. MovesQuietly
    BY <1>7, LoadEntryEffect DEF MovesQuietly
  <2> QED BY <1>0, <1>7, <2>1, LoadEntryEffect, UsedSame, RowsKeptBy, BreakerFrame DEF Rest
<1>8. CASE Due
  <2>1. sch'.pc \in {"gate", "load", "idle"}
    BY <1>8, DueEffect, DueEveryEffect, DueCronEffect, DueOneShotEffect DEF Writes, Leaves, GoesTo
  <2>2. MovesQuietly
    BY <1>8, <2>1, DueEffect DEF MovesQuietly
  <2> QED BY <1>0, <1>8, <2>2, DueEffect, UsedSame, RowsKeptBy, BreakerFrame
<1>9. CASE ConstraintsDeny
  <2>1. MovesQuietly
    BY <1>9, ConstraintsDenyEffect DEF MovesQuietly, Leaves
  <2> QED BY <1>0, <1>9, <2>1, ConstraintsDenyEffect, UsedSame, RowsKeptBy, BreakerFrame DEF Rest
<1>10. CASE Policy
  <2>1. MovesQuietly
    BY <1>10, PolicyEffect DEF MovesQuietly, Leaves, GoesTo, BreakerInv, GateInv
  <2>2. RowsKept
    BY <1>10, PolicyEffect, RowsKeptBy, InHand
  <2> QED BY <1>0, <1>10, <2>1, <2>2, PolicyEffect, UsedSame, BreakerFrame
<1>11. CASE enqueueScheduledJob
  <2>1. MovesQuietly
    BY <1>11, enqueueEffect DEF MovesQuietly, GoesTo
  <2>2. RowsKept
    BY <1>11, enqueueEffect, RowsKeptBy
  <2> QED BY <1>0, <1>11, <2>1, <2>2, enqueueEffect, UsedSame, BreakerFrame
<1>12. CASE PersistFired
  <2>1. MovesQuietly
    BY <1>12, PersistFiredEffect DEF MovesQuietly, Leaves
  <2> QED BY <1>0, <1>12, <2>1, PersistFiredEffect, UsedSame, RowsKeptBy, BreakerFrame
<1>13. CASE StatementFails
  <2>1. UsedGrows /\ ~Undisturbed'
    BY <1>13, StatementFailsEffect, UsedMore
  <2>2. MovesQuietly
    BY <1>13, <2>1, StatementFailsEffect DEF MovesQuietly, Leaves
  <2> QED BY <1>0, <1>13, <2>1, <2>2, StatementFailsEffect, RowsKeptBy, BreakerFrame
<1>14. CASE TableFull
  <2>1. MovesQuietly
    BY <1>14, TableFullEffect DEF MovesQuietly, Leaves
  <2> QED BY <1>0, <1>14, <2>1, TableFullEffect, UsedSame, RowsKeptBy, BreakerFrame DEF Rest
<1>15. CASE Crash
  <2>1. UsedGrows /\ ~Undisturbed'
    BY <1>15, CrashEffect, UsedMore
  <2>2. MovesQuietly
    BY <1>15, <2>1, CrashEffect DEF MovesQuietly
  <2>3. RowsKept
    BY <1>15, CrashEffect DEF RowsKept, Completed
  <2> QED BY <1>0, <1>15, <2>1, <2>2, <2>3, CrashEffect, BreakerFrame
<1>16. CASE Clock
  <2>1. MovesQuietly
    BY <1>16, ClockEffect DEF MovesQuietly
  <2>2. now' >= now
    BY <1>16, ClockEffect
  <2> QED BY <1>16, <2>1, <2>2, ClockEffect, UsedSame, RowsKeptBy, BreakerFrame
<1>17. CASE UNCHANGED vars
  <2>1. MovesQuietly
    BY <1>17 DEF MovesQuietly, vars
  <2> QED BY <1>0, <1>17, <2>1, StutterType, UsedSame, RowsKeptBy, BreakerFrame DEF vars
<1> QED BY <1>1, <1>2, <1>3, <1>4, <1>5, <1>6, <1>7, <1>8, <1>9, <1>10, <1>11, <1>12, <1>13, <1>14,
           <1>15, <1>16, <1>17

\* A worker's result: without cancels its job was outstanding and never counted.
LEMMA BreakerFinish ==
  ASSUME TypeOK, BreakerInv, NEW j \in JobIds, Finish(j)
  PROVE  BreakerInv'
<1>0. now \in Int /\ now >= now
  BY NumberTypes
<1>1. RowsKept
  <2>1. \A i \in JobIds : job'[i].counted = job[i].counted
    BY FinishEffect
  <2>2. (\A i \in JobIds : ~job[i].held) => j \notin Completed
    BY FinishEffect DEF Completed, Outstanding
  <2>3. (\A i \in JobIds : ~job[i].held) => \A i \in JobIds : ~job'[i].held
    BY FinishEffect
  <2>4. \A i \in JobIds : i # j => job'[i] = job[i]
    BY FinishEffect
  <2> QED BY <2>1, <2>2, <2>3, <2>4 DEF RowsKept
<1>2. MovesQuietly
  BY FinishEffect DEF MovesQuietly
<1> QED BY <1>0, <1>1, <1>2, FinishEffect, UsedSame, BreakerFrame

\* The breaker is half opened only from the row that passed the gate.
LEMMA BreakerCanSchedule ==
  ASSUME TypeOK, BreakerInv, canSchedule
  PROVE  BreakerInv'
<1>0. now \in Int /\ now >= now
  BY NumberTypes
<1>1. /\ TypeOK' /\ UNCHANGED Rest /\ sch.pc = "gate"
      /\ \/ brk.state # "open" /\ GoesTo("policy")
         \/ /\ brk.state = "open" /\ (brk.openedAt = Nil \/ now >= brk.openedAt + conf.resetAfter)
            /\ GoesTo("halfopen") /\ sch'.cb = brk
         \/ Leaves
  BY canScheduleEffect
<1>2. CASE (brk.state # "open" /\ GoesTo("policy")) \/ Leaves
  <2>1. MovesQuietly
    BY <1>1, <1>2 DEF MovesQuietly, Leaves, GoesTo
  <2> QED BY <1>0, <1>1, <2>1, UsedSame, RowsKeptBy, BreakerFrame DEF Rest
<1>3. CASE /\ brk.state = "open" /\ (brk.openedAt = Nil \/ now >= brk.openedAt + conf.resetAfter)
           /\ GoesTo("halfopen") /\ sch'.cb = brk
  <2>1. UNCHANGED <<conf, now, brk, noted, job, cli, used>> /\ sch'.pc = "halfopen"
    BY <1>1, <1>3 DEF Rest, GoesTo
  <2>2. GateInv'
    BY <1>3, <2>1 DEF BreakerInv, GateInv, BreakerConsistent
  <2>3. RowInv'
    BY <1>3, <2>1 DEF BreakerInv, RowInv
  <2>4. CountInv'
    BY <2>1 DEF BreakerInv, CountInv, NoCancel, Completed, UpTo
  <2>5. NoteInv'
    BY <1>1, <2>1 DEF BreakerInv, NoteInv, Undisturbed, Interruptions
  <2> QED BY <2>2, <2>3, <2>4, <2>5 DEF BreakerInv
<1> QED BY <1>1, <1>2, <1>3

\* A row that remembers the same result.
LEMMA CountSame ==
  ASSUME CountInv, UNCHANGED <<conf, job, used>>, brk'.lastJob = brk.lastJob \/ used'.resets # 0
  PROVE  CountInv'
BY DEF CountInv, NoCancel, Completed, UpTo

\* The row is written back whole.
LEMMA BreakerHalfOpen ==
  ASSUME TypeOK, BreakerInv, HalfOpen
  PROVE  BreakerInv'
<1>1. /\ TypeOK' /\ UNCHANGED <<conf, now, entry, noted, job, cli, used>>
      /\ sch.pc = "halfopen" /\ sch'.pc = "opened"
      /\ brk'.state = "half_open" /\ brk'.failures = sch.cb.failures
      /\ brk'.openedAt = sch.cb.openedAt /\ brk'.lastJob = sch.cb.lastJob
  BY HalfOpenEffect DEF GoesTo
<1>2. GateInv'
  BY <1>1 DEF BreakerInv, GateInv, BreakerConsistent
<1>3. RowInv'
  BY <1>1 DEF BreakerInv, RowInv
<1>4. CountInv'
  BY <1>1, CountSame DEF BreakerInv, RowInv
<1>5. NoteInv'
  BY <1>1 DEF NoteInv
<1> QED BY <1>2, <1>3, <1>4, <1>5 DEF BreakerInv

\* The histories catch up.
LEMMA BreakerRecords ==
  ASSUME TypeOK, BreakerInv, RecordReconciled \/ RecordHalfOpen
  PROVE  BreakerInv'
<1>1. CASE RecordReconciled
  <2>1. /\ UNCHANGED <<conf, now, entry, brk, job, cli, used>> /\ sch.pc = "reconciled" /\ sch'.pc = "due"
        /\ noted' = IF sch.cb.state = sch.from THEN noted ELSE sch.cb.state
    BY <1>1, RecordReconciledEffect
  <2>2. GateInv' /\ RowInv'
    BY <2>1 DEF BreakerInv, GateInv, BreakerConsistent, RowInv
  <2>3. CountInv'
    BY <2>1, CountSame DEF BreakerInv
  <2>4. Undisturbed => used.resets = 0
    BY UsedTypes DEF Undisturbed, Interruptions
  <2>5. NoteInv'
    BY <2>1, <2>4 DEF BreakerInv, NoteInv, RowInv, Undisturbed, Interruptions
  <2> QED BY <2>2, <2>3, <2>5 DEF BreakerInv
<1>2. CASE RecordHalfOpen
  <2>1. /\ UNCHANGED <<conf, now, entry, brk, job, cli, used>> /\ sch.pc = "opened" /\ sch'.pc = "policy"
        /\ noted' = "half_open"
    BY <1>2, RecordHalfOpenEffect DEF GoesTo
  <2>2. GateInv' /\ RowInv'
    BY <2>1 DEF BreakerInv, GateInv, BreakerConsistent, RowInv
  <2>3. CountInv'
    BY <2>1, CountSame DEF BreakerInv
  <2>5. NoteInv'
    BY <2>1 DEF BreakerInv, NoteInv, Undisturbed, Interruptions
  <2> QED BY <2>2, <2>3, <2>5 DEF BreakerInv
<1> QED BY <1>1, <1>2

\* The operator's reset, before, between and after its statements.
LEMMA BreakerReset ==
  ASSUME TypeOK, BreakerInv, ResetRead \/ ResetWrite \/ ResetRecord
  PROVE  BreakerInv'
<1>1. /\ TypeOK' /\ UNCHANGED <<conf, now, entry, job, sch>>
      /\ \/ cli' # "idle" /\ used'.resets = used.resets + 1 /\ UNCHANGED <<brk, noted>>
         \/ cli # "idle" /\ brk' = NewBreaker /\ UNCHANGED <<used, noted>>
         \/ cli # "idle" /\ noted' = "closed" /\ UNCHANGED <<used, brk>>
  BY ResetEffect
<1>2. used'.resets # 0
  <2>1. used.resets \in Nat
    BY UsedTypes
  <2> QED BY <1>1, <2>1 DEF BreakerInv, RowInv
<1>3. /\ used'.crashes \in Nat /\ used'.faults \in Nat /\ used'.resets \in Nat
  BY <1>1 DEF TypeOK
<1>4. ~Undisturbed'
  BY <1>2, <1>3 DEF Undisturbed, Interruptions
<1>5. RowInv' /\ CountInv' /\ NoteInv'
  BY <1>2, <1>4 DEF RowInv, CountInv, NoteInv
<1>6. GateInv'
  <2>1. CASE brk' = brk
    BY <1>1, <2>1 DEF BreakerInv, GateInv, BreakerConsistent
  <2>2. CASE brk' = NewBreaker
    <3>1. brk'.state = "closed" /\ brk'.failures = 0
      BY <2>2 DEF NewBreaker
    <3>2. 0 < conf.threshold
      BY ConfFacts DEF TypeOK
    <3>3. BreakerConsistent'
      BY <1>1, <3>1, <3>2 DEF BreakerConsistent
    <3> QED BY <1>1, <3>1, <3>3 DEF BreakerInv, GateInv
  <2> QED BY <1>1, <2>1, <2>2
<1> QED BY <1>5, <1>6 DEF BreakerInv

\* A result is counted only if it is later than all that were.
LEMMA BreakerReconcile ==
  ASSUME TypeOK, BreakerInv, reconcileCircuitBreaker
  PROVE  BreakerInv'
<1>0. now \in Int /\ now >= now
  BY NumberTypes
<1>1. /\ TypeOK' /\ UNCHANGED <<conf, now, entry, noted, cli, used>> /\ sch.pc = "breaker"
      /\ \/ sch'.pc = "due" /\ UNCHANGED <<brk, job>>
         \/ \E j \in JobIds : MovedBy(j)
  BY reconcileEffect
<1>2. CASE sch'.pc = "due" /\ UNCHANGED <<brk, job>>
  <2>1. MovesQuietly
    BY <1>1, <1>2 DEF MovesQuietly
  <2> QED BY <1>0, <1>1, <1>2, <2>1, UsedSame, RowsKeptBy, BreakerFrame
<1>3. ASSUME NEW j \in JobIds, MovedBy(j) PROVE BreakerInv'
  <2>1. /\ j \in Completed /\ j # sch.cb.lastJob
        /\ job[j].done \in Moment /\ job[j].done # Nil /\ \A i \in Completed : UpTo(i, j)
        /\ brk' = Reconciled(sch.cb, j) /\ sch'.cb = brk' /\ sch'.from = sch.cb.state
        /\ sch'.pc = "reconciled" /\ Counted(j)
    BY <1>3 DEF MovedBy
  <2>2. /\ brk'.lastJob = j
        /\ brk'.state = "closed" <=> brk'.failures < conf.threshold
        /\ brk'.state \in {"closed", "open"}
        /\ brk'.state # "closed" => brk'.openedAt # Nil
    BY <2>1, PartTypes, ReconciledFacts
  <2>3. GateInv'
    <3>1. BreakerConsistent'
      BY <1>1, <2>2 DEF BreakerConsistent
    <3> QED BY <1>1, <2>1, <2>2, <3>1 DEF GateInv
  <2>4. RowInv'
    BY <1>1, <2>1 DEF BreakerInv, RowInv
  <2>5. CountInv'
    <3> SUFFICES ASSUME used'.resets = 0, NoCancel', NEW i \in JobIds
                 PROVE  /\ ~job'[i].held /\ job'[i].counted <= 1
                        /\ job'[i].counted # 0 => /\ i \in Completed' /\ brk'.lastJob \in Completed'
                                                  /\ UpTo(i, brk.lastJob)'
      BY DEF CountInv
    <3>1. NoCancel /\ used.resets = 0
      BY <1>1 DEF NoCancel
    <3>2. \A k \in JobIds : /\ ~job[k].held /\ job[k].counted <= 1
                            /\ job[k].counted # 0 => k \in Completed /\ brk.lastJob \in Completed /\ UpTo(k, brk.lastJob)
      BY <3>1 DEF BreakerInv, CountInv
    <3>3. sch.cb = brk
      BY <1>1, <3>1 DEF BreakerInv, RowInv
    <3>4. Completed \subseteq JobIds /\ JobIds \subseteq Int /\ \A k \in JobIds : job[k].done \in Int
      <4>1. \A x \in Moment : x \in Int
        BY DEF Moment, Nil
      <4>2. \A k \in JobIds : job[k].done \in Moment
        BY DEF TypeOK, JobRow
      <4> QED BY <4>1, <4>2 DEF Completed, JobIds
    <3>5. job[j].counted = 0
      <4>1. SUFFICES ASSUME job[j].counted # 0 PROVE FALSE
        OBVIOUS
      <4>2. PICK m : m = brk.lastJob
        OBVIOUS
      <4>3. m \in Completed /\ UpTo(j, m) /\ UpTo(m, j) /\ j # m
        BY <2>1, <3>2, <3>3, <4>1, <4>2
      <4> QED BY <3>4, <4>3 DEF UpTo
    <3>6. \A k \in JobIds : /\ job'[k].status = job[k].status /\ job'[k].done = job[k].done
                            /\ job'[k].held = job[k].held
      BY <2>1 DEF Counted
    <3>7. (\A k \in Completed : k \in Completed') /\ \A k, n \in Completed : UpTo(k, n) => UpTo(k, n)'
      BY <3>4, <3>6, CompletedKept
    <3>8. job'[j].counted = 1 /\ \A k \in JobIds : k # j => job'[k].counted = job[k].counted
      BY <2>1, <3>5 DEF Counted
    <3>9. /\ ~job'[i].held /\ job'[i].counted <= 1
          /\ job'[i].counted # 0 => i \in Completed
      BY <2>1, <3>2, <3>6, <3>8
    <3>10. job'[i].counted # 0 => i \in Completed' /\ j \in Completed' /\ UpTo(i, j)'
      BY <2>1, <3>7, <3>9
    <3>11. PICK m : m = brk'.lastJob /\ m = j
      BY <2>2
    <3>12. job'[i].counted # 0 => UpTo(i, brk.lastJob)'
      BY <3>10, <3>11 DEF UpTo
    <3> QED BY <3>9, <3>10, <3>11, <3>12
  <2>6. NoteInv'
    <3>1. Undisturbed => used.resets = 0
      BY UsedTypes DEF Undisturbed, Interruptions
    <3> QED BY <1>1, <2>1, <3>1 DEF BreakerInv, NoteInv, RowInv, Undisturbed, Interruptions
  <2> QED BY <2>3, <2>4, <2>5, <2>6 DEF BreakerInv
<1> QED BY <1>1, <1>2, <1>3

\* Every step keeps the breaker's invariant.
LEMMA BreakerStep == ASSUME TypeOK, BreakerInv, [Next]_vars PROVE BreakerInv'
<1>1. CASE SchedulerStep
  BY <1>1, BreakerQuiet, BreakerReconcile, BreakerRecords, BreakerCanSchedule, BreakerHalfOpen
     DEF SchedulerStep
<1>2. CASE \E j \in JobIds : Finish(j)
  BY <1>2, BreakerFinish
<1>3. CASE ResetRead \/ ResetWrite \/ ResetRecord
  BY <1>3, BreakerReset
<1>4. CASE Crash \/ Clock \/ UNCHANGED vars
  BY <1>4, BreakerQuiet
<1> QED BY <1>1, <1>2, <1>3, <1>4 DEF Next

\* It holds at the start.
LEMMA BreakerInit == ASSUME Init PROVE BreakerInv
<1>1. /\ conf \in Configurations /\ brk = NewBreaker /\ noted = "closed" /\ job = [j \in JobIds |-> NoRow]
      /\ sch = Stopped /\ cli = "idle"
  BY DEF Init
<1>2. sch.pc = "down" /\ brk.state = "closed" /\ brk.failures = 0
  BY <1>1 DEF Stopped, NewBreaker
<1>3. 0 < conf.threshold
  BY <1>1, ConfFacts
<1>4. GateInv
  BY <1>2, <1>3 DEF GateInv, BreakerConsistent
<1>5. \A j \in JobIds : job[j].held = FALSE /\ job[j].counted = 0
  BY <1>1 DEF NoRow
<1> QED BY <1>1, <1>2, <1>4, <1>5 DEF BreakerInv, RowInv, CountInv, NoteInv

\* The types and the breaker's invariant hold in every reachable state.
THEOREM BreakerInvariance == Spec => [](TypeOK /\ BreakerInv)
<1>1. Init => TypeOK /\ BreakerInv
  BY TypeInit, BreakerInit
<1>2. TypeOK /\ BreakerInv /\ [Next]_vars => (TypeOK /\ BreakerInv)'
  BY TypeStep, BreakerStep
<1> QED BY <1>1, <1>2, PTL DEF Spec

\* The breaker's row is consistent, has counted each result once and agrees
\* with its history, whatever interleaves with reconcileCircuitBreaker and
\* canSchedule, for every configuration.
THEOREM BreakerAccountsHold == Spec => []BreakerAccounts
<1>1. ASSUME TypeOK, BreakerInv PROVE BreakerAccounts
  <2>1. BreakerConsistent
    BY <1>1 DEF BreakerInv, GateInv
  <2>2. CountedOnce
    BY <1>1 DEF BreakerInv, CountInv, CountedOnce, NoCancel
  <2>3. HistoryMatchesState
    BY <1>1 DEF BreakerInv, NoteInv, HistoryMatchesState, Undisturbed, At
  <2> QED BY <1>1, <2>1, <2>2, <2>3 DEF BreakerAccounts
<1> QED BY <1>1, BreakerInvariance, PTL

-----------------------------------------------------------------------------
\* A tick fires only when it may.

\* Only a cancelled job has a worker that goes on.
HeldInv == \A j \in JobIds : job[j].held => job[j].status = "dead"

\* It is kept.
LEMMA HeldStep == ASSUME TypeOK, HeldInv, [Next]_vars PROVE HeldInv'
<1>0. job' = job => HeldInv'
  BY DEF HeldInv
<1>1. ASSUME NEW s, NEW t, Added(s, t) PROVE HeldInv'
  <2>1. PICK i \in JobIds : job'[i] = NewRow(s, t) /\ \A k \in JobIds : k # i => job'[k] = job[k]
    BY <1>1 DEF Added
  <2>2. job'[i].held = FALSE
    BY <2>1 DEF NewRow
  <2> QED BY <2>1, <2>2 DEF HeldInv
<1>2. CASE SchedulerStep
  <2>1. CASE CatchUpEnqueue
    BY <1>0, <1>1, <2>1, CatchUpEnqueueEffect
  <2>2. CASE enqueueScheduledJob
    BY <1>0, <1>1, <2>2, enqueueEffect
  <2>3. CASE reconcileCircuitBreaker
    <3>1. \A i \in JobIds : job'[i].status = job[i].status /\ job'[i].held = job[i].held
      BY <2>3, reconcileEffect DEF MovedBy, Counted
    <3> QED BY <3>1 DEF HeldInv
  <2>4. CASE Policy
    <3>1. CancelsAll => HeldInv'
      BY DEF CancelsAll, HeldInv
    <3> QED BY <1>0, <2>4, <3>1, PolicyEffect
  <2> QED BY <1>0, <1>2, <2>1, <2>2, <2>3, <2>4, StartEffect, CatchUpLoadEffect, CatchUpEnqueueFailsEffect,
             CatchUpPersistEffect, TickBeginEffect, LoadEntryEffect, RecordReconciledEffect,
             DueEffect, ConstraintsDenyEffect, canScheduleEffect, HalfOpenEffect, RecordHalfOpenEffect,
             PersistFiredEffect, StatementFailsEffect, TableFullEffect DEF SchedulerStep, Rest
<1>3. CASE \E i \in JobIds : Finish(i)
  BY <1>3, FinishEffect DEF HeldInv
<1>4. CASE ResetRead \/ ResetWrite \/ ResetRecord
  BY <1>0, <1>4, ResetEffect
<1>5. CASE Crash
  BY <1>5, CrashEffect DEF HeldInv
<1>6. CASE Clock \/ UNCHANGED vars
  BY <1>0, <1>6, ClockEffect DEF vars
<1> QED BY <1>2, <1>3, <1>4, <1>5, <1>6 DEF Next

\* A step that adds a row without a slot is a tick's enqueue, or catch-up's.
LEMMA NoTickRow ==
  ASSUME TypeOK, HeldInv, [Next]_vars, NEW j \in JobIds,
         ~Present(j), job'[j].status # "absent", job'[j].slot = Nil
  PROVE  enqueueScheduledJob \/ (sch.pc = "slots" /\ CatchUpSlot = Nil)
<1> USE DEF Present
<1>1. job' = job => FALSE
  OBVIOUS
<1>2. CASE SchedulerStep
  <2>1. CASE CatchUpEnqueue
    <3>1. Added(S, CatchUpSlot)
      BY <1>1, <2>1, CatchUpEnqueueEffect
    <3>2. PICK i \in JobIds : job'[i] = NewRow(S, CatchUpSlot) /\ \A k \in JobIds : k # i => job'[k] = job[k]
      BY <3>1 DEF Added
    <3>3. i = j
      BY <3>2
    <3>4. CatchUpSlot = Nil
      BY <3>2, <3>3 DEF NewRow
    <3> QED BY <2>1, <3>4, CatchUpEnqueueEffect
  <2>2. CASE reconcileCircuitBreaker
    <3>1. \A i \in JobIds : job'[i].status = job[i].status
      BY <2>2, reconcileEffect DEF MovedBy, Counted
    <3> QED BY <3>1
  <2>3. CASE Policy
    <3>1. CancelsAll => job'[j] = job[j]
      BY DEF CancelsAll, Outstanding
    <3> QED BY <1>1, <2>3, <3>1, PolicyEffect
  <2> QED BY <1>1, <1>2, <2>1, <2>2, <2>3, StartEffect, CatchUpLoadEffect, CatchUpEnqueueFailsEffect,
             CatchUpPersistEffect, TickBeginEffect, LoadEntryEffect, RecordReconciledEffect,
             DueEffect, ConstraintsDenyEffect, canScheduleEffect, HalfOpenEffect, RecordHalfOpenEffect,
             PersistFiredEffect, StatementFailsEffect, TableFullEffect DEF SchedulerStep, Rest
<1>3. CASE \E i \in JobIds : Finish(i)
  <2>1. PICK i \in JobIds : Finish(i)
    BY <1>3
  <2>2. i # j => job'[j] = job[j]
    BY <2>1, FinishEffect
  <2>3. i = j
    BY <2>2
  <2>4. job[j].held
    BY <2>1, <2>3, FinishEffect DEF Outstanding
  <2> QED BY <2>4 DEF HeldInv
<1>4. CASE ResetRead \/ ResetWrite \/ ResetRecord
  BY <1>1, <1>4, ResetEffect
<1>5. CASE Crash
  <2>1. job'[j].status = job[j].status
    BY <1>5, CrashEffect
  <2> QED BY <2>1
<1>6. CASE Clock \/ UNCHANGED vars
  BY <1>1, <1>6, ClockEffect DEF vars
<1> QED BY <1>2, <1>3, <1>4, <1>5, <1>6 DEF Next

-----------------------------------------------------------------------------
\* Catch-up.

\* A row that is there stays, with its schedule and its slot.
RowsStay == \A j \in JobIds : job[j].status # "absent" => /\ job'[j].status # "absent"
                                                          /\ job'[j].sched = job[j].sched
                                                          /\ job'[j].slot = job[j].slot

\* No step takes a row away.
LEMMA RowsStayStep == ASSUME TypeOK, [Next]_vars PROVE RowsStay
<1>0. job' = job => RowsStay
  BY DEF RowsStay
<1>1. ASSUME NEW s, NEW t, Added(s, t) PROVE RowsStay
  BY <1>1 DEF Added, RowsStay
<1>2. CASE SchedulerStep
  <2>1. CASE CatchUpEnqueue
    BY <1>0, <1>1, <2>1, CatchUpEnqueueEffect
  <2>2. CASE enqueueScheduledJob
    BY <1>0, <1>1, <2>2, enqueueEffect
  <2>3. CASE reconcileCircuitBreaker
    <3>1. \A i \in JobIds : /\ job'[i].status = job[i].status /\ job'[i].sched = job[i].sched
                            /\ job'[i].slot = job[i].slot
      BY <2>3, reconcileEffect DEF MovedBy, Counted
    <3> QED BY <3>1 DEF RowsStay
  <2>4. CASE Policy
    <3>1. CancelsAll => RowsStay
      BY DEF CancelsAll, RowsStay
    <3> QED BY <1>0, <2>4, <3>1, PolicyEffect
  <2> QED BY <1>0, <1>2, <2>1, <2>2, <2>3, <2>4, StartEffect, CatchUpLoadEffect, CatchUpEnqueueFailsEffect,
             CatchUpPersistEffect, TickBeginEffect, LoadEntryEffect, RecordReconciledEffect,
             DueEffect, ConstraintsDenyEffect, canScheduleEffect, HalfOpenEffect, RecordHalfOpenEffect,
             PersistFiredEffect, StatementFailsEffect, TableFullEffect DEF SchedulerStep, Rest
<1>3. CASE \E i \in JobIds : Finish(i)
  BY <1>3, FinishEffect DEF RowsStay
<1>4. CASE ResetRead \/ ResetWrite \/ ResetRecord
  BY <1>0, <1>4, ResetEffect
<1>5. CASE Crash
  BY <1>5, CrashEffect DEF RowsStay
<1>6. CASE Clock \/ UNCHANGED vars
  BY <1>0, <1>6, ClockEffect DEF vars
<1> QED BY <1>2, <1>3, <1>4, <1>5, <1>6 DEF Next

\* The job of a missed run is there.
HasRow(s, t) == \E j \in JobIds : job[j].status # "absent" /\ job[j].sched = s /\ job[j].slot = t

\* The runs catch-up is past.
Past == IF sch.pc = "caught" THEN sch.k ELSE sch.k - 1

\* Catch-up has a missed run in hand, and without a failing enqueue every run it
\* is past has its job.
CatchUpInv ==
  sch.pc \in {"slots", "caught"} =>
    /\ conf.kind[S] = "every" /\ conf.catchUp[S] # "skip" /\ sch.es.lastFired # Nil
    /\ countMissedRuns(sch.es.lastFired, sch.at, conf.interval[S]) > 0
    /\ sch.k >= 1 /\ sch.k <= ToRun(sch.es)
    /\ sch.pc = "caught" => sch.k = ToRun(sch.es)
    /\ used.faults = 0 => \A n \in 1 .. Past : HasRow(S, sch.es.lastFired + n * conf.interval[S])

\* Rows stay for good.
LEMMA HasRowStays == ASSUME RowsStay, NEW s, NEW t, HasRow(s, t) PROVE HasRow(s, t)'
BY DEF RowsStay, HasRow

\* Steps that leave the goroutine alone.
LEMMA CatchUpElsewhere ==
  ASSUME TypeOK, CatchUpInv, RowsStay, UNCHANGED <<conf, sch>>, used'.faults = used.faults
  PROVE  CatchUpInv'
<1>1. ASSUME sch.pc \in {"slots", "caught"} PROVE CatchUpInv'
  <2>1. S' = S /\ ToRun(sch.es)' = ToRun(sch.es) /\ Past' = Past
    BY DEF S, ToRun, FiredOf, Past
  <2>2. PICK l, v, s : l = sch.es.lastFired /\ v = conf.interval[S] /\ s = S
    OBVIOUS
  <2>3. used.faults = 0 => \A n \in 1 .. Past : HasRow(s, l + n * v)
    BY <1>1, <2>2 DEF CatchUpInv
  <2>4. used.faults = 0 => \A n \in 1 .. Past : HasRow(s, l + n * v)'
    BY <2>3, HasRowStays
  <2>5. used'.faults = 0 => \A n \in 1 .. Past' : HasRow(S, sch.es.lastFired + n * conf.interval[S])'
    BY <2>1, <2>2, <2>4 DEF HasRow
  <2>6. /\ conf.kind[S] = "every" /\ conf.catchUp[S] # "skip" /\ sch.es.lastFired # Nil
        /\ countMissedRuns(sch.es.lastFired, sch.at, conf.interval[S]) > 0
        /\ sch.k >= 1 /\ sch.k <= ToRun(sch.es)
        /\ sch.pc = "caught" => sch.k = ToRun(sch.es)
    BY <1>1 DEF CatchUpInv
  <2>7. countMissedRuns(sch.es.lastFired, sch.at, conf.interval[S])' =
          countMissedRuns(sch.es.lastFired, sch.at, conf.interval[S])
    BY <2>1 DEF countMissedRuns
  <2> QED BY <2>1, <2>5, <2>6, <2>7 DEF CatchUpInv
<1>2. CASE sch.pc \notin {"slots", "caught"}
  BY <1>2 DEF CatchUpInv
<1> QED BY <1>1, <1>2

\* The run in hand is passed, with its job or with a fault.
LEMMA CatchUpPasses ==
  ASSUME TypeOK, TypeOK', CatchUpInv, RowsStay, conf' = conf, sch.pc = "slots", NextSlot,
         NEW s, s = S, NEW c, c = CatchUpSlot, used'.faults = 0 => used.faults = 0 /\ HasRow(s, c)'
  PROVE  CatchUpInv'
<1>1. /\ sch'.i = sch.i /\ sch'.es = sch.es /\ sch'.at = sch.at
      /\ \/ sch.k = ToRun(sch.es) /\ sch'.pc = "caught" /\ sch'.k = sch.k
         \/ sch.k # ToRun(sch.es) /\ sch'.pc = "slots" /\ sch'.k = sch.k + 1
  BY NextSlotEffect
<1>2. S' = S /\ ToRun(sch.es)' = ToRun(sch.es)
  BY <1>1 DEF S, ToRun, FiredOf
<1>3. countMissedRuns(sch.es.lastFired, sch.at, conf.interval[S])' =
        countMissedRuns(sch.es.lastFired, sch.at, conf.interval[S])
  BY <1>1, <1>2 DEF countMissedRuns
<1>4. /\ conf.kind[S] = "every" /\ conf.catchUp[S] # "skip" /\ sch.es.lastFired # Nil
      /\ countMissedRuns(sch.es.lastFired, sch.at, conf.interval[S]) > 0
      /\ sch.k >= 1 /\ sch.k <= ToRun(sch.es)
      /\ used.faults = 0 => \A n \in 1 .. sch.k - 1 : HasRow(S, sch.es.lastFired + n * conf.interval[S])
  BY DEF CatchUpInv, Past
<1>5. PICK l, v, k, r : l = sch.es.lastFired /\ v = conf.interval[S] /\ k = sch.k /\ r = ToRun(sch.es)
  OBVIOUS
<1>6. k \in Nat /\ v \in Int /\ r \in Nat /\ l \in Int
  BY <1>5, NumberTypes, PartTypes, ToRunType
<1>7. c = l + k * v
  BY <1>5, <1>6 DEF CatchUpSlot
<1>8. used'.faults = 0 => \A n \in 1 .. k - 1 : HasRow(s, l + n * v)'
  BY <1>4, <1>5, HasRowStays
<1>9. used'.faults = 0 => HasRow(s, l + k * v)'
  BY <1>7
<1>10. used'.faults = 0 => \A n \in 1 .. k : HasRow(s, l + n * v)'
  BY <1>6, <1>8, <1>9
<1>11. Past' = k /\ sch'.k >= 1 /\ sch'.k <= r /\ (sch'.pc = "caught" => sch'.k = r)
  BY <1>1, <1>4, <1>5, <1>6 DEF Past
<1>12. used'.faults = 0 => \A n \in 1 .. Past' : HasRow(S, sch.es.lastFired + n * conf.interval[S])'
  BY <1>1, <1>2, <1>5, <1>10, <1>11 DEF HasRow
<1> QED BY <1>1, <1>2, <1>3, <1>4, <1>5, <1>11, <1>12 DEF CatchUpInv

\* Catch-up begins with the first missed run.
LEMMA CatchUpBegins ==
  ASSUME TypeOK, TypeOK', CatchUpLoad
  PROVE  CatchUpInv'
<1>1. CASE sch'.pc \in {"catchup", "idle"}
  BY <1>1 DEF CatchUpInv
<1>2. CASE /\ conf.kind[S] = "every" /\ conf.catchUp[S] # "skip"
           /\ sch'.pc = "slots" /\ sch'.k = 1 /\ sch'.i = sch.i /\ sch'.at = sch.at
           /\ FiredOf(entry[S]) \in Int /\ FiredOf(entry[S]) # Nil
           /\ countMissedRuns(FiredOf(entry[S]), sch.at, conf.interval[S]) > 0
           /\ sch'.es = [entry[S] EXCEPT !.lastFired = FiredOf(entry[S])]
  <2>1. UNCHANGED Rest
    BY CatchUpLoadEffect
  <2>2. S' = S /\ conf' = conf
    BY <1>2, <2>1 DEF S, Rest
  <2>3. PICK f : f = FiredOf(entry[S]) /\ f # Nil
    BY <1>2
  <2>4. sch'.es.lastFired = f
    <3>1. entry[S] \in Entry
      BY InHand DEF TypeOK
    <3> QED BY <1>2, <2>3, <3>1 DEF Entry
  <2>5. countMissedRuns(sch.es.lastFired, sch.at, conf.interval[S])' =
          countMissedRuns(f, sch.at, conf.interval[S])
    BY <1>2, <2>2, <2>4 DEF countMissedRuns
  <2>6. PICK m, c : /\ m = countMissedRuns(f, sch.at, conf.interval[S]) /\ m > 0
                    /\ c = conf.catchUpMax
    BY <1>2, <2>3
  <2>7. FiredOf(sch.es)' = f
    BY <2>3, <2>4 DEF FiredOf
  <2>8. m \in Nat /\ c \in Nat \ {0}
    <3>1. f \in Int
      BY <1>2, <2>3
    <3> QED BY <2>6, <3>1, MissedType, NumberTypes, ConfFacts DEF TypeOK
  <2>9. (ToRun(sch.es) >= 1)'
    <3>1. ToRun(sch.es)' = IF conf.catchUp[S] = "run_once" THEN 1 ELSE Min({m, c})
      BY <1>2, <2>2, <2>6, <2>7 DEF ToRun, countMissedRuns
    <3>2. PICK n : n = Min({m, c})
      OBVIOUS
    <3>3. n = IF m <= c THEN m ELSE c
      BY <2>8, <3>2 DEF Min
    <3> QED BY <2>6, <2>8, <3>1, <3>2, <3>3
  <2>10. Past' = 0
    BY <1>2 DEF Past
  <2> QED BY <1>2, <2>2, <2>3, <2>4, <2>5, <2>6, <2>9, <2>10 DEF CatchUpInv
<1> QED BY <1>1, <1>2, CatchUpLoadEffect

\* Every step keeps it.
LEMMA CatchUpStep == ASSUME TypeOK, CatchUpInv, [Next]_vars PROVE CatchUpInv'
<1>0. TypeOK' /\ RowsStay
  BY TypeStep, RowsStayStep
<1>1. sch'.pc \notin {"slots", "caught"} => CatchUpInv'
  BY DEF CatchUpInv
<1>2. CASE SchedulerStep
  <2>1. CASE CatchUpLoad
    BY <1>0, <2>1, CatchUpBegins
  <2>2. CASE CatchUpEnqueue
    <3>1. PICK s, c : s = S /\ c = CatchUpSlot
      OBVIOUS
    <3>2. HasRow(s, c)'
      <4>1. CASE DedupeHit(S, CatchUpSlot, conf.interval[S]) /\ job' = job
        BY <3>1, <4>1 DEF DedupeHit, Outstanding, HasRow
      <4>2. CASE Added(S, CatchUpSlot)
        <5>1. PICK i \in JobIds : job'[i] = NewRow(s, c)
          BY <3>1, <4>2 DEF Added
        <5> QED BY <5>1 DEF HasRow, NewRow
      <4> QED BY <2>2, <4>1, <4>2, CatchUpEnqueueEffect
    <3>3. conf' = conf /\ used' = used /\ sch.pc = "slots" /\ NextSlot
      BY <2>2, CatchUpEnqueueEffect
    <3> QED BY <1>0, <3>1, <3>2, <3>3, CatchUpPasses
  <2>3. CASE CatchUpEnqueueFails
    <3>1. PICK s, c : s = S /\ c = CatchUpSlot
      OBVIOUS
    <3>2. conf' = conf /\ used'.faults = used.faults + 1 /\ sch.pc = "slots" /\ NextSlot
      BY <2>3, CatchUpEnqueueFailsEffect
    <3>3. used'.faults # 0
      BY <3>2, UsedTypes
    <3> QED BY <1>0, <3>1, <3>2, <3>3, CatchUpPasses
  <2>4. CASE Due
    BY <1>1, <2>4, DueEffect, DueEveryEffect, DueCronEffect, DueOneShotEffect DEF Writes, Leaves, GoesTo
  <2>5. CASE reconcileCircuitBreaker
    BY <1>1, <2>5, reconcileEffect DEF MovedBy
  <2> QED BY <1>1, <1>2, <2>1, <2>2, <2>3, <2>4, <2>5, StartEffect,
             CatchUpPersistEffect, TickBeginEffect, LoadEntryEffect, RecordReconciledEffect,
             ConstraintsDenyEffect, canScheduleEffect, HalfOpenEffect, RecordHalfOpenEffect,
             PolicyEffect, enqueueEffect, PersistFiredEffect, StatementFailsEffect, TableFullEffect
             DEF SchedulerStep, Leaves, GoesTo
<1>3. CASE \E i \in JobIds : Finish(i)
  BY <1>0, <1>3, FinishEffect, CatchUpElsewhere
<1>4. CASE ResetRead \/ ResetWrite \/ ResetRecord
  BY <1>0, <1>4, ResetEffect, CatchUpElsewhere
<1>5. CASE Crash
  BY <1>1, <1>5, CrashEffect
<1>6. CASE Clock \/ UNCHANGED vars
  BY <1>0, <1>6, ClockEffect, CatchUpElsewhere DEF vars
<1> QED BY <1>2, <1>3, <1>4, <1>5, <1>6 DEF Next

\* The inductive invariant so far.
SchedulerInv == TypeOK /\ BreakerInv /\ HeldInv /\ CatchUpInv

\* It holds in every reachable state.
THEOREM SchedulerInvariance == Spec => []SchedulerInv
<1>1. Init => SchedulerInv
  <2>1. Init => HeldInv
    BY DEF Init, HeldInv, NoRow
  <2>2. Init => CatchUpInv
    BY DEF Init, CatchUpInv, Stopped
  <2> QED BY <2>1, <2>2, TypeInit, BreakerInit DEF SchedulerInv
<1>2. SchedulerInv /\ [Next]_vars => SchedulerInv'
  BY TypeStep, BreakerStep, HeldStep, CatchUpStep DEF SchedulerInv
<1> QED BY <1>1, <1>2, PTL DEF Spec

\* What division leaves.
LEMMA Divides ==
  ASSUME NEW x \in Int, NEW v \in Nat \ {0}
  PROVE  x \div v \in Int /\ v * (x \div v) <= x /\ x < v * (x \div v + 1)
<1>1. PICK q, m : q = x \div v /\ m = x % v
  OBVIOUS
<1>2. q \in Int /\ m \in 0 .. v - 1 /\ x = v * q + m
  BY <1>1
<1>3. PICK p : p = v * q /\ p \in Int
  BY <1>2
<1>4. v * (q + 1) = p + v
  BY <1>2, <1>3
<1> QED BY <1>1, <1>2, <1>3, <1>4

\* The entry of catch-up is written by CatchUpPersist alone.
LEMMA CaughtWrites ==
  ASSUME TypeOK, [Next]_vars, sch.pc = "caught", entry' # entry
  PROVE  CatchUpPersist
<1>1. CASE SchedulerStep
  BY <1>1, StartEffect, CatchUpLoadEffect, CatchUpEnqueueEffect, CatchUpEnqueueFailsEffect,
     TickBeginEffect, LoadEntryEffect, reconcileEffect, RecordReconciledEffect,
     DueEffect, ConstraintsDenyEffect, canScheduleEffect, HalfOpenEffect, RecordHalfOpenEffect,
     PolicyEffect, enqueueEffect, PersistFiredEffect, StatementFailsEffect, TableFullEffect
     DEF SchedulerStep, Rest
<1>2. CASE \E j \in JobIds : Finish(j)
  BY <1>2, FinishEffect
<1>3. CASE ResetRead \/ ResetWrite \/ ResetRecord
  BY <1>3, ResetEffect
<1>4. CASE Crash \/ Clock \/ UNCHANGED vars
  BY <1>4, CrashEffect, ClockEffect DEF vars
<1> QED BY <1>1, <1>2, <1>3, <1>4 DEF Next

\* When runStartupCatchUp moves last_fired_at on, every interval it passes over
\* has its job and short of the limit none that had elapsed is left, whatever
\* earlier start-ups did, for every interval, limit and number of restarts.
THEOREM CatchUpCompletes == Spec => CatchUpComplete
<1>1. ASSUME SchedulerInv, [Next]_vars, At("caught"), entry' # entry, conf.catchUp[S] = "run_all", used.faults = 0
      PROVE  /\ \A k \in 1 .. ToRun(sch.es) :
                  \E j \in JobIds : /\ Present(j) /\ job[j].sched = S
                                    /\ job[j].slot = sch.es.lastFired + k * conf.interval[S]
             /\ \/ ToRun(sch.es) = conf.catchUpMax
                \/ sch.at < entry'[S].lastFired + conf.interval[S]
  <2>1. TypeOK /\ CatchUpInv /\ sch.pc = "caught"
    BY <1>1 DEF SchedulerInv, At
  <2>2. \A k \in 1 .. ToRun(sch.es) : HasRow(S, sch.es.lastFired + k * conf.interval[S])
    BY <1>1, <2>1 DEF CatchUpInv, Past
  <2>3. CatchUpPersist
    BY <1>1, <2>1, CaughtWrites
  <2>4. PICK l, v, r, a, m, c : /\ l = sch.es.lastFired /\ v = conf.interval[S] /\ r = ToRun(sch.es) /\ a = sch.at
                                /\ m = countMissedRuns(l, a, v) /\ c = conf.catchUpMax
    OBVIOUS
  <2>5. entry'[S].lastFired = l + v * r
    BY <1>1, <2>1, <2>3, <2>4, CatchUpPersistEffect
  <2>6. FiredOf(sch.es) = l /\ m > 0
    BY <2>1, <2>4 DEF CatchUpInv, FiredOf
  <2>7. r = IF m <= c THEN m ELSE c
    BY <1>1, <2>1, <2>4, <2>6, PartTypes, ToRunType
  <2>8. l \in Int /\ a \in Int /\ v \in Nat \ {0} /\ c \in Int
    BY <2>1, <2>4, NumberTypes, ConfFacts DEF TypeOK
  <2>9. PICK q : q = (a - l - v) \div v /\ q \in Int /\ a - l - v < v * (q + 1)
    BY <2>8, Divides
  <2>10. m = q + 1
    BY <2>4, <2>6, <2>8, <2>9 DEF countMissedRuns
  <2>11. PICK z : z = v * m /\ z \in Int /\ a - l - v < z
    BY <2>8, <2>9, <2>10
  <2>12. r = c \/ (r = m /\ a < l + z + v)
    BY <2>7, <2>8, <2>9, <2>10, <2>11
  <2>13. \/ ToRun(sch.es) = conf.catchUpMax
         \/ sch.at < entry'[S].lastFired + conf.interval[S]
    BY <2>4, <2>5, <2>11, <2>12
  <2> QED BY <2>2, <2>13 DEF HasRow, Present
<1>2. SchedulerInv /\ [Next]_vars =>
        [At("caught") /\ entry' # entry /\ conf.catchUp[S] = "run_all" /\ used.faults = 0 =>
         /\ \A k \in 1 .. ToRun(sch.es) :
              \E j \in JobIds : /\ Present(j) /\ job[j].sched = S
                                /\ job[j].slot = sch.es.lastFired + k * conf.interval[S]
         /\ \/ ToRun(sch.es) = conf.catchUpMax
            \/ sch.at < entry'[S].lastFired + conf.interval[S]]_vars
  BY <1>1
<1> QED BY <1>2, SchedulerInvariance, PTL DEF Spec, CatchUpComplete

-----------------------------------------------------------------------------
\* Ticks in time.

\* No tick of enqueueScheduledJob fires into an open circuit, into a half-open
\* one before its cooldown is over, or within an interval of the last success,
\* whatever came between its reads and its enqueue.
THEOREM TicksFireInTime == Spec => TicksInTime
<1>1. ASSUME SchedulerInv, [Next]_vars, NEW j \in JobIds,
             ~Present(j), job'[j].status # "absent", job'[j].slot = Nil
      PROVE  /\ enqueueScheduledJob /\ TypeOK /\ BreakerInv /\ sch.pc = "enqueue"
             /\ ~DedupeHit(S, Nil, DedupeTTL) /\ job'[j].sched = S
  <2>1. TypeOK /\ BreakerInv /\ HeldInv /\ CatchUpInv
    BY <1>1 DEF SchedulerInv
  <2>2. ~(sch.pc = "slots" /\ CatchUpSlot = Nil)
    <3>1. SUFFICES ASSUME sch.pc = "slots" PROVE CatchUpSlot # Nil
      OBVIOUS
    <3>2. PICK l, v, k : l = sch.es.lastFired /\ v = conf.interval[S] /\ k = sch.k
      OBVIOUS
    <3>3. l \in Nat /\ v \in Nat \ {0} /\ k \in Nat \ {0}
      BY <2>1, <3>1, <3>2, NumberTypes DEF CatchUpInv, Moment
    <3>4. v * k \in Nat
      BY <3>3
    <3>5. CatchUpSlot = l + v * k
      BY <3>2 DEF CatchUpSlot
    <3> QED BY <3>3, <3>4, <3>5 DEF Nil
  <2>3. enqueueScheduledJob
    BY <1>1, <2>1, <2>2, NoTickRow
  <2>4. ~DedupeHit(S, Nil, DedupeTTL) /\ Added(S, Nil) /\ sch.pc = "enqueue"
    BY <1>1, <2>1, <2>3, enqueueEffect DEF Present
  <2>5. PICK i \in JobIds : job'[i] = NewRow(S, Nil) /\ \A k \in JobIds : k # i => job'[k] = job[k]
    BY <2>4 DEF Added
  <2>6. i = j
    BY <1>1, <2>5 DEF Present
  <2>7. job'[j].sched = S
    BY <2>5, <2>6 DEF NewRow
  <2> QED BY <2>1, <2>3, <2>4, <2>7
<1>2. ASSUME SchedulerInv, [Next]_vars PROVE TicksRespectBreaker
  <2>1. SUFFICES ASSUME NEW j \in JobIds, ~Present(j), job'[j].status # "absent", job'[j].slot = Nil
                 PROVE  /\ brk.state # "open"
                        /\ brk.state = "half_open" => now >= brk.openedAt + conf.resetAfter
    BY DEF TicksRespectBreaker
  <2>2. BreakerInv /\ sch.pc = "enqueue"
    BY <1>1, <1>2, <2>1
  <2> QED BY <2>2 DEF BreakerInv, GateInv
<1>3. ASSUME SchedulerInv, [Next]_vars PROVE SpacedAfterSuccess
  <2>1. SUFFICES ASSUME NEW i \in JobIds, NEW j \in JobIds,
                        ~Present(j), job'[j].status # "absent", job'[j].slot = Nil,
                        conf.kind[job'[j].sched] = "every",
                        job[i].status = "succeeded", job[i].slot = Nil, job[i].sched = job'[j].sched
                 PROVE  now > job[i].done + conf.interval[job[i].sched]
    BY DEF SpacedAfterSuccess
  <2>2. TypeOK /\ ~DedupeHit(S, Nil, DedupeTTL) /\ job'[j].sched = S
    BY <1>1, <1>3, <2>1
  <2>3. DedupeTTL = conf.interval[S]
    BY <2>1, <2>2 DEF DedupeTTL
  <2>4. PICK v, d : v = conf.interval[S] /\ d = job[i].done
    OBVIOUS
  <2>5. v \in Nat \ {0} /\ d \in Int /\ now \in Int
    <3>1. job[i].done \in Moment
      BY <2>2 DEF TypeOK, JobRow
    <3> QED BY <2>2, <2>4, <3>1, NumberTypes DEF Moment, Nil
  <2>6. ~(v > 0 /\ d >= now - v)
    BY <2>1, <2>2, <2>3, <2>4 DEF DedupeHit
  <2>7. now > d + v
    BY <2>5, <2>6
  <2> QED BY <2>1, <2>2, <2>4, <2>7
<1>4. SchedulerInv /\ [Next]_vars => [TicksRespectBreaker /\ SpacedAfterSuccess]_vars
  BY <1>2, <1>3
<1> QED BY <1>4, SchedulerInvariance, PTL DEF Spec, TicksInTime

-----------------------------------------------------------------------------
\* The poll guard.

\* No job becomes outstanding.
NoneMore == \A j \in JobIds : job'[j].status = "outstanding" => job[j].status = "outstanding"

\* How many jobs are outstanding after a step.
LEMMA OutstandingAfter ==
  /\ outstandingForPolicy \in Nat /\ outstandingForPolicy' \in Nat
  /\ NoneMore => outstandingForPolicy' <= outstandingForPolicy
  /\ (\A j \in JobIds : job'[j].status # "outstanding") => outstandingForPolicy' = 0
  /\ \A s, t : Added(s, t) => outstandingForPolicy' = outstandingForPolicy + 1
<1>1. PICK O, P : /\ O = {j \in JobIds : job[j].status = "outstanding"}
                  /\ P = {j \in JobIds : job'[j].status = "outstanding"}
  OBVIOUS
<1>2. outstandingForPolicy = Cardinality(O) /\ outstandingForPolicy' = Cardinality(P)
  BY <1>1 DEF outstandingForPolicy, Outstanding
<1>3. IsFiniteSet(JobIds)
  BY SchedulerAssumption, FS_Interval DEF JobIds
<1>4. IsFiniteSet(O) /\ IsFiniteSet(P)
  BY <1>1, <1>3, FS_Subset
<1>5. Cardinality(O) \in Nat /\ Cardinality(P) \in Nat
  BY <1>4, FS_CardinalityType
<1>6. NoneMore => Cardinality(P) <= Cardinality(O)
  <2>1. NoneMore => P \in SUBSET O
    BY <1>1 DEF NoneMore
  <2> QED BY <1>4, <2>1, FS_Subset
<1>7. (\A j \in JobIds : job'[j].status # "outstanding") => Cardinality(P) = 0
  <2>1. (\A j \in JobIds : job'[j].status # "outstanding") => P = {}
    BY <1>1
  <2> QED BY <2>1, FS_EmptySet
<1>8. ASSUME NEW s, NEW t, Added(s, t) PROVE Cardinality(P) = Cardinality(O) + 1
  <2>1. PICK i \in JobIds : /\ job[i].status = "absent" /\ job'[i] = NewRow(s, t)
                            /\ \A k \in JobIds : k # i => job'[k] = job[k]
    BY <1>8 DEF Added
  <2>2. job'[i].status = "outstanding"
    BY <2>1 DEF NewRow
  <2>3. i \notin O /\ P = O \cup {i}
    BY <1>1, <2>1, <2>2
  <2> QED BY <1>4, <2>3, FS_AddElement
<1> QED BY <1>2, <1>5, <1>6, <1>7, <1>8

\* Without catch-up: no run of it is in hand, the guard holds, and between the
\* count of the policy and the insert there is room for one more.
GuardInv ==
  (\A s \in Schedules : conf.catchUp[s] = "skip") =>
    /\ sch.pc \notin {"slots", "caught"}
    /\ outstandingForPolicy <= conf.maxOutstanding
    /\ sch.pc = "enqueue" => outstandingForPolicy < conf.maxOutstanding

\* A step under which no job becomes outstanding and that does not come to the
\* enqueue or to catch-up keeps it.
LEMMA GuardFrame ==
  ASSUME TypeOK, GuardInv, NoneMore, conf' = conf,
         sch'.pc \notin {"slots", "caught", "enqueue"} \/ sch'.pc = sch.pc
  PROVE  GuardInv'
<1>1. conf.maxOutstanding \in Nat
  BY ConfFacts DEF TypeOK
<1> QED BY <1>1, OutstandingAfter DEF GuardInv

\* Every step keeps it.
LEMMA GuardStep == ASSUME TypeOK, GuardInv, [Next]_vars PROVE GuardInv'
<1>0. job' = job => NoneMore
  BY DEF NoneMore
<1>1. conf.maxOutstanding \in Nat \ {0}
  BY ConfFacts DEF TypeOK
<1>2. CASE SchedulerStep
  <2>1. CASE CatchUpLoad
    <3>1. CASE sch'.pc \in {"catchup", "idle"}
      BY <1>0, <2>1, <3>1, CatchUpLoadEffect, GuardFrame DEF Rest
    <3>2. CASE conf.catchUp[S] # "skip"
      BY <2>1, <3>2, CatchUpLoadEffect, InHand DEF GuardInv, Rest
    <3> QED BY <2>1, <3>1, <3>2, CatchUpLoadEffect
  <2>2. CASE CatchUpEnqueue
    BY <2>2, CatchUpEnqueueEffect DEF GuardInv
  <2>3. CASE CatchUpEnqueueFails
    BY <2>3, CatchUpEnqueueFailsEffect DEF GuardInv
  <2>4. CASE Due
    <3>1. sch'.pc \in {"load", "idle", "gate"}
      BY <2>4, DueEffect, DueEveryEffect, DueCronEffect, DueOneShotEffect DEF Writes, Leaves, GoesTo
    <3> QED BY <1>0, <2>4, <3>1, DueEffect, GuardFrame
  <2>5. CASE reconcileCircuitBreaker
    <3>1. NoneMore /\ sch'.pc \in {"due", "reconciled"}
      BY <1>0, <2>5, reconcileEffect DEF MovedBy, Counted, NoneMore
    <3> QED BY <2>5, <3>1, reconcileEffect, GuardFrame
  <2>6. CASE Policy
    <3>1. CASE Leaves /\ job' = job
      BY <1>0, <2>6, <3>1, PolicyEffect, GuardFrame DEF Leaves
    <3>2. CASE GoesTo("enqueue") /\ job' = job /\ outstandingForPolicy < conf.maxOutstanding
      <4>1. outstandingForPolicy' = outstandingForPolicy
        BY <3>2 DEF outstandingForPolicy, Outstanding
      <4> QED BY <1>1, <2>6, <3>2, <4>1, PolicyEffect, OutstandingAfter DEF GuardInv, GoesTo
    <3>3. CASE GoesTo("enqueue") /\ CancelsAll
      <4>1. \A j \in JobIds : job'[j].status # "outstanding"
        BY <3>3 DEF CancelsAll, Outstanding
      <4> QED BY <1>1, <2>6, <3>3, <4>1, PolicyEffect, OutstandingAfter DEF GuardInv, GoesTo
    <3> QED BY <2>6, <3>1, <3>2, <3>3, PolicyEffect
  <2>7. CASE enqueueScheduledJob
    <3>1. CASE GoesTo("hit") /\ job' = job
      BY <1>0, <2>7, <3>1, enqueueEffect, GuardFrame DEF GoesTo
    <3>2. CASE GoesTo("fired") /\ Added(S, Nil)
      <4>1. outstandingForPolicy' = outstandingForPolicy + 1
        BY <3>2, OutstandingAfter
      <4> QED BY <1>1, <2>7, <3>2, <4>1, enqueueEffect, OutstandingAfter DEF GuardInv, GoesTo
    <3> QED BY <2>7, <3>1, <3>2, enqueueEffect
  <2>8. ASSUME job' = job, conf' = conf,
               sch'.pc \in {"down", "catchup", "idle", "load", "breaker", "due", "halfopen", "opened", "policy"}
        PROVE  GuardInv'
    BY <1>0, <2>8, GuardFrame
  <2> QED BY <1>2, <2>1, <2>2, <2>3, <2>4, <2>5, <2>6, <2>7, <2>8, StartEffect,
             CatchUpPersistEffect, TickBeginEffect, LoadEntryEffect, RecordReconciledEffect,
             ConstraintsDenyEffect, canScheduleEffect, HalfOpenEffect, RecordHalfOpenEffect,
             PersistFiredEffect, StatementFailsEffect, TableFullEffect
             DEF SchedulerStep, Leaves, GoesTo, Rest
<1>3. CASE \E i \in JobIds : Finish(i)
  <2>1. NoneMore /\ conf' = conf /\ sch' = sch
    BY <1>3, FinishEffect DEF NoneMore
  <2> QED BY <2>1, GuardFrame
<1>4. CASE ResetRead \/ ResetWrite \/ ResetRecord
  BY <1>0, <1>4, ResetEffect, GuardFrame
<1>5. CASE Crash
  <2>1. NoneMore
    BY <1>5, CrashEffect DEF NoneMore
  <2> QED BY <1>5, <2>1, CrashEffect, GuardFrame
<1>6. CASE Clock \/ UNCHANGED vars
  BY <1>0, <1>6, ClockEffect, GuardFrame DEF vars
<1> QED BY <1>2, <1>3, <1>4, <1>5, <1>6 DEF Next

\* Without catch-up there are never more than max_outstanding_polls jobs queued
\* or running, whatever comes between the count and the insert and however many
\* schedules share the guard, for every limit.
THEOREM PollGuardHolds == Spec => []PollGuard
<1>1. Init => GuardInv
  <2> SUFFICES ASSUME Init PROVE GuardInv
    OBVIOUS
  <2>2. {j \in JobIds : Outstanding(j)} = {}
    BY DEF Init, Outstanding, NoRow
  <2>3. outstandingForPolicy = 0
    BY <2>2, FS_EmptySet DEF outstandingForPolicy
  <2>4. conf.maxOutstanding \in Nat \ {0} /\ sch.pc = "down"
    BY ConfFacts DEF Init, Stopped
  <2> QED BY <2>3, <2>4 DEF GuardInv
<1>2. TypeOK /\ GuardInv /\ [Next]_vars => GuardInv'
  BY GuardStep
<1>3. GuardInv => PollGuard
  BY DEF GuardInv, PollGuard
<1>4. SchedulerInv => TypeOK
  BY DEF SchedulerInv
<1> QED BY <1>1, <1>2, <1>3, <1>4, SchedulerInvariance, PTL DEF Spec

-----------------------------------------------------------------------------
\* No schedule fires more often than its kind allows.

\* The stages of processSchedule with an entry in hand, and those past Due.
Gated == {"gate", "halfopen", "opened", "policy", "enqueue", "fired", "hit"}
InTick == {"breaker", "reconciled", "due"} \union Gated

\* The entry in hand is the one stored, active and, past Due, due; catch-up
\* has to do with interval schedules only.
EntryInv ==
  /\ sch.pc \in InTick => sch.es = entry[S] /\ entry[S].status = "active"
  /\ sch.pc \in Gated /\ conf.kind[S] = "cron" => entry[S].nextRun = Nil \/ entry[S].nextRun <= now
  /\ sch.pc \in {"slots", "caught"} => conf.kind[S] = "every"

\* A step that leaves the tick and does not come to catch-up keeps it.
LEMMA EntryLeft ==
  ASSUME sch'.pc \in {"down", "catchup", "idle", "load"} PROVE EntryInv'
BY DEF EntryInv, InTick, Gated

\* So does one that goes on within the tick, or lets time pass.
LEMMA EntryGoesOn ==
  ASSUME TypeOK, TypeOK', EntryInv, conf' = conf, entry' = entry, sch'.i = sch.i, sch'.es = sch.es,
         now' = now \/ now' = now + 1,
         sch.pc \in InTick \/ sch'.pc \notin InTick,
         sch.pc \in Gated \/ sch'.pc \notin Gated,
         sch.pc \in {"slots", "caught"} \/ sch'.pc \notin {"slots", "caught"}
  PROVE  EntryInv'
<1>1. S \in Schedules /\ S' = S /\ now \in Int
  BY InHand, NumberTypes DEF S
<1>2. entry[S].nextRun \in Int
  BY <1>1 DEF TypeOK, Entry
<1>3. PICK s, n : s = S /\ n = entry[s].nextRun /\ n \in Int
  BY <1>1, <1>2
<1>4. entry'[S'] = entry[s] /\ conf'.kind[S'] = conf.kind[s]
  BY <1>1, <1>3
<1>5. n <= now => n <= now'
  BY <1>1, <1>3
<1> QED BY <1>3, <1>4, <1>5 DEF EntryInv

\* A step that stores the entry it takes to the gate.
LEMMA EntryWritten ==
  ASSUME TypeOK, EntryInv, sch.pc = "due", conf' = conf, conf.kind[S] # "cron",
         NEW e \in Entry, Writes(e), e.status = sch.es.status
  PROVE  EntryInv'
<1>1. CASE Leaves
  BY <1>1, EntryLeft DEF Leaves
<1>2. CASE GoesTo("gate") /\ sch'.es = e
  <2>1. S' = S /\ entry'[S] = e
    BY <1>2 DEF S, GoesTo, Writes
  <2>2. e.status = "active"
    BY DEF EntryInv, InTick
  <2>3. entry'[S'] = e /\ conf'.kind[S'] # "cron"
    BY <2>1
  <2> QED BY <1>2, <2>2, <2>3 DEF EntryInv, GoesTo
<1> QED BY <1>1, <1>2 DEF Writes

\* Every step keeps it.
LEMMA EntryStep == ASSUME TypeOK, EntryInv, [Next]_vars PROVE EntryInv'
<1>0. TypeOK'
  BY TypeStep
<1>1. CASE SchedulerStep
  <2>1. CASE CatchUpLoad
    <3>1. CASE sch'.pc \in {"catchup", "idle"}
      BY <3>1, EntryLeft
    <3>2. CASE conf.kind[S] = "every" /\ sch'.pc = "slots" /\ sch'.i = sch.i
      <4>1. conf' = conf /\ S' = S
        BY <2>1, <3>2, CatchUpLoadEffect DEF S, Rest
      <4>2. conf'.kind[S'] = "every"
        BY <3>2, <4>1
      <4> QED BY <3>2, <4>2 DEF EntryInv, InTick, Gated
    <3> QED BY <2>1, <3>1, <3>2, CatchUpLoadEffect
  <2>2. CASE LoadEntry
    <3>1. CASE sch'.pc \in {"load", "idle"}
      BY <3>1, EntryLeft
    <3>2. CASE entry[S].status = "active" /\ sch'.pc = "breaker" /\ sch'.i = sch.i /\ sch'.es = entry[S]
      <4>1. entry' = entry /\ S' = S
        BY <2>2, <3>2, LoadEntryEffect DEF S, Rest
      <4>2. entry'[S'] = entry[S]
        BY <4>1
      <4> QED BY <3>2, <4>2 DEF EntryInv, InTick, Gated
    <3> QED BY <2>2, <3>1, <3>2, LoadEntryEffect
  <2>3. CASE CatchUpEnqueue \/ CatchUpEnqueueFails
    BY <1>0, <2>3, CatchUpEnqueueEffect, CatchUpEnqueueFailsEffect, NextSlotEffect, EntryGoesOn DEF InTick, Gated
  <2>4. CASE reconcileCircuitBreaker
    <3>1. sch'.pc \in {"due", "reconciled"}
      BY <2>4, reconcileEffect DEF MovedBy
    <3> QED BY <1>0, <2>4, <3>1, reconcileEffect, EntryGoesOn DEF InTick, Gated
  <2>5. CASE RecordReconciled
    BY <1>0, <2>5, RecordReconciledEffect, EntryGoesOn DEF InTick, Gated
  <2>6. CASE Due
    <3>1. CASE DueEvery \/ DueOneShot
      BY <2>6, <3>1, DueEffect, DueEveryEffect, DueOneShotEffect, EntryWritten
    <3>2. CASE DueCron /\ Leaves
      BY <3>2, EntryLeft DEF Leaves
    <3>3. CASE /\ entry' = entry /\ GoesTo("gate") /\ sch'.es = sch.es
               /\ sch.es.nextRun = Nil \/ sch.es.nextRun <= now
      <4>1. conf' = conf /\ now' = now /\ sch.pc = "due"
        BY <2>6, DueEffect
      <4>2. S' = S
        BY <3>3, <4>1 DEF S, GoesTo
      <4>3. sch.es = entry[S] /\ entry[S].status = "active"
        BY <4>1 DEF EntryInv, InTick
      <4>4. entry'[S'] = sch.es
        BY <3>3, <4>2, <4>3
      <4> QED BY <3>3, <4>1, <4>3, <4>4 DEF EntryInv, GoesTo
    <3> QED BY <2>6, <3>1, <3>2, <3>3, DueEffect, DueCronEffect
  <2>7. CASE canSchedule \/ HalfOpen \/ RecordHalfOpen
    <3>1. CASE Leaves
      BY <3>1, EntryLeft DEF Leaves
    <3>2. CASE sch'.pc \in Gated /\ sch'.i = sch.i
      <4>1. sch.pc \in Gated /\ sch.pc \in InTick /\ sch'.pc \notin {"slots", "caught"} /\ sch'.es = sch.es
        BY <2>7, <3>2, canScheduleEffect, HalfOpenEffect, RecordHalfOpenEffect DEF Gated, InTick, Leaves
      <4> QED BY <1>0, <2>7, <3>2, <4>1, canScheduleEffect, HalfOpenEffect, RecordHalfOpenEffect, EntryGoesOn DEF Rest
    <3> QED BY <2>7, <3>1, <3>2, canScheduleEffect, HalfOpenEffect, RecordHalfOpenEffect DEF GoesTo, Gated
  <2>8. CASE Policy \/ enqueueScheduledJob
    <3>1. CASE Leaves
      BY <3>1, EntryLeft DEF Leaves
    <3>2. CASE sch'.pc \in Gated /\ sch'.i = sch.i
      <4>1. sch.pc \in Gated /\ sch.pc \in InTick /\ sch'.pc \notin {"slots", "caught"} /\ sch'.es = sch.es
        BY <2>8, <3>2, PolicyEffect, enqueueEffect DEF Gated, InTick, Leaves
      <4> QED BY <1>0, <2>8, <3>2, <4>1, PolicyEffect, enqueueEffect, EntryGoesOn
    <3> QED BY <2>8, <3>1, <3>2, PolicyEffect, enqueueEffect DEF GoesTo, Gated
  <2>9. ASSUME sch'.pc \in {"down", "catchup", "idle", "load"} PROVE EntryInv'
    BY <2>9, EntryLeft
  <2> QED BY <1>1, <2>1, <2>2, <2>3, <2>4, <2>5, <2>6, <2>7, <2>8, <2>9, StartEffect,
             CatchUpPersistEffect, TickBeginEffect, ConstraintsDenyEffect, PersistFiredEffect,
             StatementFailsEffect, TableFullEffect DEF SchedulerStep, Leaves
<1>2. CASE \E i \in JobIds : Finish(i)
  BY <1>0, <1>2, FinishEffect, EntryGoesOn
<1>3. CASE ResetRead \/ ResetWrite \/ ResetRecord
  BY <1>0, <1>3, ResetEffect, EntryGoesOn
<1>4. CASE Crash
  BY <1>4, CrashEffect, EntryLeft
<1>5. CASE Clock \/ UNCHANGED vars
  BY <1>0, <1>5, ClockEffect, EntryGoesOn DEF vars
<1> QED BY <1>1, <1>2, <1>3, <1>4, <1>5 DEF Next

\* A number of whole periods that have passed.
LEMMA FitsIn ==
  ASSUME NEW x \in Nat, NEW v \in Nat \ {0}, NEW q \in Nat, v * q <= x
  PROVE  q <= x \div v
<1>1. PICK d : d = x \div v /\ d \in Int /\ x < v * (d + 1)
  BY Divides
<1>2. ASSUME q >= d + 1 PROVE FALSE
  <2>1. PICK r \in Nat : q = d + 1 + r
    BY <1>1, <1>2
  <2>2. v * q = v * (d + 1) + v * r
    BY <1>1, <2>1
  <2>3. v * r \in Nat /\ v * (d + 1) \in Int
    BY <1>1, <2>1
  <2> QED BY <1>1, <2>2, <2>3
<1> QED BY <1>1, <1>2

\* The count of periods passed only grows.
LEMMA PeriodsGrow ==
  ASSUME NEW x \in Nat, NEW y \in Nat, x <= y, NEW v \in Nat \ {0}
  PROVE  x \div v \in Nat /\ y \div v \in Nat /\ x \div v <= y \div v
<1>1. x \div v \in Nat /\ y \div v \in Nat
  OBVIOUS
<1>2. PICK q : q = x \div v /\ q \in Nat /\ v * q <= x
  BY <1>1, Divides
<1>3. v * q <= y
  BY <1>2
<1> QED BY <1>1, <1>2, <1>3, FitsIn

\* How often a schedule has fired after a step.
LEMMA FiredAfter ==
  ASSUME NEW s
  PROVE  /\ FiredBy(s) \in Nat /\ FiredBy(s)' \in Nat
         /\ (\A j \in JobIds : /\ job'[j].status = "absent" <=> job[j].status = "absent"
                               /\ job'[j].sched = job[j].sched /\ job'[j].slot = job[j].slot)
              => FiredBy(s)' = FiredBy(s)
         /\ \A r, t : Added(r, t) /\ r # s => FiredBy(s)' = FiredBy(s)
         /\ \A r, t : Added(r, t) => FiredBy(s)' <= FiredBy(s) + 1
<1>1. PICK F, G : /\ F = {j \in JobIds : job[j].status # "absent" /\ job[j].sched = s /\ job[j].slot = Nil}
                  /\ G = {j \in JobIds : job'[j].status # "absent" /\ job'[j].sched = s /\ job'[j].slot = Nil}
  OBVIOUS
<1>2. FiredBy(s) = Cardinality(F) /\ FiredBy(s)' = Cardinality(G)
  BY <1>1 DEF FiredBy, Present
<1>3. IsFiniteSet(JobIds)
  BY SchedulerAssumption, FS_Interval DEF JobIds
<1>4. IsFiniteSet(F) /\ IsFiniteSet(G)
  BY <1>1, <1>3, FS_Subset
<1>5. Cardinality(F) \in Nat /\ Cardinality(G) \in Nat
  BY <1>4, FS_CardinalityType
<1>6. (\A j \in JobIds : /\ job'[j].status = "absent" <=> job[j].status = "absent"
                         /\ job'[j].sched = job[j].sched /\ job'[j].slot = job[j].slot)
        => G = F
  BY <1>1
<1>7. ASSUME NEW r, NEW t, Added(r, t)
      PROVE  /\ r # s => Cardinality(G) = Cardinality(F)
             /\ Cardinality(G) <= Cardinality(F) + 1
  <2>1. PICK i \in JobIds : /\ job[i].status = "absent" /\ job'[i] = NewRow(r, t)
                            /\ \A k \in JobIds : k # i => job'[k] = job[k]
    BY <1>7 DEF Added
  <2>2. job'[i].sched = r
    BY <2>1 DEF NewRow
  <2>3. i \notin F /\ (G = F \/ G = F \cup {i}) /\ (r # s => G = F)
    BY <1>1, <2>1, <2>2
  <2>4. Cardinality(F \cup {i}) = Cardinality(F) + 1
    BY <1>4, <2>3, FS_AddElement
  <2> QED BY <1>5, <2>3, <2>4
<1> QED BY <1>2, <1>5, <1>6, <1>7

\* The interruptions are counted.
LEMMA InterruptionType == ASSUME TypeOK PROVE Interruptions \in Nat
BY DEF TypeOK, Interruptions

\* 1 while the schedule has enqueued and not yet stored it.
Firing(s) == IF sch.pc = "fired" /\ S = s THEN 1 ELSE 0

\* A one-shot has fired at most once more than it was interrupted, and not
\* before it is exhausted unless it is just firing.
OneShotInv(s) ==
  FiredBy(s) <= Interruptions + (IF entry[s].status = "exhausted" THEN 1 ELSE Firing(s))

\* The next run of a cron schedule is slot q; for each slot before it the
\* schedule has fired at most once.
CronInv(s) ==
  \E q \in Nat : /\ \/ entry[s].nextRun = Nil /\ q = 0
                    \/ entry[s].nextRun = conf.interval[s] * q
                 /\ q <= now \div conf.interval[s] + 1
                 /\ FiredBy(s) <= q + Interruptions + Firing(s)

FireInv == \A s \in Schedules : /\ conf.kind[s] = "oneshot" => OneShotInv(s)
                                /\ conf.kind[s] = "cron" => CronInv(s)

\* Steps that keep what they say of schedule s: it does not fire, its entry
\* keeps what counts, and if it was firing it still is or was interrupted.
KeepsEntry(s) == /\ conf.kind[s] = "oneshot" => entry'[s].status = entry[s].status
                 /\ conf.kind[s] = "cron" => entry'[s].nextRun = entry[s].nextRun
NoFire(s) == /\ FiredBy(s)' = FiredBy(s)
             /\ \/ Interruptions' = Interruptions /\ (Firing(s) = 0 \/ sch' = sch)
                \/ Interruptions' = Interruptions + 1

\* They keep it.
LEMMA FireFrame ==
  ASSUME TypeOK, TypeOK', conf' = conf, now' = now \/ now' = now + 1, NEW s \in Schedules,
         KeepsEntry(s), NoFire(s),
         conf.kind[s] = "oneshot" => OneShotInv(s), conf.kind[s] = "cron" => CronInv(s)
  PROVE  /\ conf.kind[s] = "oneshot" => OneShotInv(s)'
         /\ conf.kind[s] = "cron" => CronInv(s)'
<1>1. /\ FiredBy(s) \in Nat /\ Interruptions \in Nat /\ Interruptions' \in Nat
      /\ Firing(s) \in {0, 1} /\ Firing(s)' \in {0, 1}
  BY FiredAfter, InterruptionType DEF Firing, TypeOK, Interruptions
<1>2. sch' = sch => Firing(s)' = Firing(s)
  BY DEF Firing, S
<1>3. ASSUME conf.kind[s] = "oneshot" PROVE OneShotInv(s)'
  BY <1>1, <1>2, <1>3 DEF KeepsEntry, NoFire, OneShotInv
<1>4. ASSUME conf.kind[s] = "cron" PROVE CronInv(s)'
  <2>1. PICK q \in Nat : /\ \/ entry[s].nextRun = Nil /\ q = 0
                            \/ entry[s].nextRun = conf.interval[s] * q
                         /\ q <= now \div conf.interval[s] + 1
                         /\ FiredBy(s) <= q + Interruptions + Firing(s)
    BY <1>4 DEF CronInv
  <2>2. FiredBy(s)' <= q + Interruptions' + Firing(s)'
    BY <1>1, <1>2, <2>1 DEF NoFire
  <2>3. /\ now \div conf.interval[s] \in Nat /\ now' \div conf.interval[s] \in Nat
        /\ now \div conf.interval[s] <= now' \div conf.interval[s]
    <3>1. now \in Nat
      BY NumberTypes
    <3>2. conf.interval[s] \in Nat \ {0}
      BY ConfFacts DEF TypeOK
    <3>3. now' \in Nat /\ now <= now'
      BY <3>1
    <3> QED BY <3>1, <3>2, <3>3, PeriodsGrow
  <2>4. PICK a, b \in Nat : a = now \div conf.interval[s] /\ b = now' \div conf.interval[s] /\ a <= b
    BY <2>3
  <2>5. q <= b + 1
    BY <2>1, <2>4
  <2>6. q <= now' \div conf'.interval[s] + 1
    BY <2>4, <2>5
  <2>7. \/ entry'[s].nextRun = Nil /\ q = 0
        \/ entry'[s].nextRun = conf'.interval[s] * q
    BY <1>4, <2>1 DEF KeepsEntry
  <2> QED BY <2>2, <2>6, <2>7 DEF CronInv
<1> QED BY <1>3, <1>4

\* Rows keep what a firing is counted by.
RowsSame == \A j \in JobIds : /\ job'[j].status = "absent" <=> job[j].status = "absent"
                              /\ job'[j].sched = job[j].sched /\ job'[j].slot = job[j].slot

\* A step that adds no row, stores nothing, and leaves "fired" only when
\* interrupted.
LEMMA FireQuiet ==
  ASSUME TypeOK, TypeOK', FireInv, conf' = conf, now' = now \/ now' = now + 1, RowsSame, entry' = entry,
         \/ Interruptions' = Interruptions /\ (sch.pc # "fired" \/ sch' = sch)
         \/ Interruptions' = Interruptions + 1
  PROVE  FireInv'
<1>1. ASSUME NEW s \in Schedules
      PROVE  /\ conf.kind[s] = "oneshot" => OneShotInv(s)'
             /\ conf.kind[s] = "cron" => CronInv(s)'
  <2>1. FiredBy(s)' = FiredBy(s)
    BY FiredAfter DEF RowsSame
  <2>2. sch.pc # "fired" => Firing(s) = 0
    BY DEF Firing
  <2>3. NoFire(s) /\ KeepsEntry(s)
    BY <2>1, <2>2 DEF NoFire, KeepsEntry
  <2> QED BY <2>3, FireFrame DEF FireInv
<1> QED BY <1>1 DEF FireInv

\* A step of the goroutine that only adds a row for the schedule in hand or
\* stores its entry: of the others nothing changes.
LEMMA FireOthers ==
  ASSUME TypeOK, TypeOK', FireInv, conf' = conf, now' = now, used' = used, NEW r \in Schedules, r = S,
         RowsSame \/ (\E t : Added(r, t)), \A s \in Schedules : s # r => entry'[s] = entry[s],
         conf.kind[r] = "oneshot" => OneShotInv(r)', conf.kind[r] = "cron" => CronInv(r)'
  PROVE  FireInv'
<1>1. ASSUME NEW s \in Schedules, s # r
      PROVE  /\ conf.kind[s] = "oneshot" => OneShotInv(s)'
             /\ conf.kind[s] = "cron" => CronInv(s)'
  <2>1. FiredBy(s)' = FiredBy(s)
    BY <1>1, FiredAfter DEF RowsSame
  <2>2. Firing(s) = 0 /\ Interruptions' = Interruptions
    BY <1>1 DEF Firing, Interruptions
  <2>3. NoFire(s) /\ KeepsEntry(s)
    BY <1>1, <2>1, <2>2 DEF NoFire, KeepsEntry
  <2> QED BY <2>3, FireFrame DEF FireInv
<1> QED BY <1>1 DEF FireInv

\* The numbers of the schedule in hand.
LEMMA FireNumbers ==
  ASSUME TypeOK, TypeOK', NEW s \in Schedules
  PROVE  /\ FiredBy(s) \in Nat /\ FiredBy(s)' \in Nat /\ Interruptions \in Nat
         /\ Firing(s) \in {0, 1} /\ Firing(s)' \in {0, 1}
         /\ sch'.pc # "fired" => Firing(s)' = 0
         /\ sch.pc # "fired" => Firing(s) = 0
         /\ used' = used => Interruptions' = Interruptions
         /\ now \in Nat /\ conf.interval[s] \in Nat \ {0} /\ now \div conf.interval[s] \in Nat
<1>1. FiredBy(s) \in Nat /\ FiredBy(s)' \in Nat
  BY FiredAfter
<1>2. Interruptions \in Nat
  BY InterruptionType
<1>3. now \in Nat /\ conf.interval[s] \in Nat \ {0}
  BY NumberTypes, ConfFacts DEF TypeOK
<1>4. now \div conf.interval[s] \in Nat
  BY <1>3, PeriodsGrow
<1>5. used' = used => Interruptions' = Interruptions
  BY DEF Interruptions
<1> QED BY <1>1, <1>2, <1>3, <1>4, <1>5 DEF Firing

\* Due moves a cron schedule's first run to the next slot, and stores what it
\* has for the others.
LEMMA FireDue == ASSUME TypeOK, TypeOK', EntryInv, FireInv, Due PROVE FireInv'
<1>1. PICK s \in Schedules : s = S
  BY InHand
<1>2. /\ conf' = conf /\ now' = now /\ used' = used /\ job' = job /\ sch.pc = "due"
      /\ sch.es = entry[s] /\ sch'.pc # "fired"
  <2>1. sch'.pc # "fired"
    BY DueEffect, DueEveryEffect, DueCronEffect, DueOneShotEffect DEF Writes, Leaves, GoesTo
  <2> QED BY <1>1, <2>1, DueEffect DEF EntryInv, InTick
<1>3. /\ RowsSame /\ Interruptions' = Interruptions /\ FiredBy(s)' = FiredBy(s)
      /\ Firing(s) = 0 /\ Firing(s)' = 0
  <2>1. RowsSame
    BY <1>2 DEF RowsSame
  <2> QED BY <1>2, <2>1, FireNumbers, FiredAfter DEF RowsSame
<1>4. ASSUME NEW e \in Entry, Writes(e), e.status = sch.es.status,
             conf.kind[s] = "cron" => CronInv(s)'
      PROVE  FireInv'
  <2>1. entry'[s] = e /\ \A r \in Schedules : r # s => entry'[r] = entry[r]
    BY <1>1, <1>4 DEF Writes
  <2>2. conf.kind[s] = "oneshot" => OneShotInv(s)'
    <3>1. conf.kind[s] = "oneshot" => OneShotInv(s)
      BY DEF FireInv
    <3> QED BY <1>2, <1>3, <1>4, <2>1, <3>1 DEF OneShotInv
  <2> QED BY <1>1, <1>2, <1>3, <1>4, <2>1, <2>2, FireOthers
<1>5. CASE DueEvery \/ DueOneShot
  <2>1. conf.kind[s] # "cron" /\ \E e \in Entry : Writes(e) /\ e.status = sch.es.status
    BY <1>1, <1>5, DueEveryEffect, DueOneShotEffect
  <2> QED BY <1>4, <2>1
<1>6. CASE entry' = entry
  BY <1>2, <1>3, <1>6, FireQuiet
<1>7. CASE DueCron /\ entry' # entry
  <2>1. PICK e \in Entry : /\ Writes(e) /\ e.status = sch.es.status /\ e.nextRun = NextAfter(now - 1)
                           /\ conf.kind[s] = "cron" /\ sch.es.nextRun = Nil
    BY <1>1, <1>7, DueCronEffect
  <2>2. PICK v, q : v = conf.interval[s] /\ q = (now - 1) \div v + 1
    OBVIOUS
  <2>3. v \in Nat \ {0} /\ now \in Nat
    BY <2>2, FireNumbers
  <2>4. q \in Nat /\ q <= now \div v + 1
    <3>1. CASE now = 0
      <4>1. (now - 1) \div v = -1
        <5>1. PICK d : d = (now - 1) \div v /\ d \in Int /\ v * d <= -1 /\ -1 < v * (d + 1)
          BY <2>3, <3>1, Divides
        <5>2. d < 0
          <6>1. ASSUME d >= 0 PROVE FALSE
            <7>1. v * d >= 0
              BY <2>3, <5>1, <6>1
            <7> QED BY <2>3, <5>1, <7>1
          <6> QED BY <5>1, <6>1
        <5>3. d >= -1
          <6>1. ASSUME d < -1 PROVE FALSE
            <7>1. PICK c \in Nat : d + 1 = 0 - c /\ c >= 1
              BY <5>1, <6>1
            <7>2. v * c \in Nat /\ v * c >= 1 /\ v * (0 - c) = 0 - v * c
              BY <2>3, <7>1
            <7> QED BY <5>1, <7>1, <7>2
          <6> QED BY <5>1, <6>1
        <5> QED BY <5>1, <5>2, <5>3
      <4>2. now \div v \in Nat
        BY <2>3, PeriodsGrow
      <4> QED BY <2>2, <4>1, <4>2
    <3>2. CASE now # 0
      <4>1. now - 1 \in Nat /\ now - 1 <= now
        BY <2>3, <3>2
      <4>2. (now - 1) \div v \in Nat /\ now \div v \in Nat /\ (now - 1) \div v <= now \div v
        BY <2>3, <4>1, PeriodsGrow
      <4> QED BY <2>2, <4>2
    <3> QED BY <3>1, <3>2
  <2>5. entry'[s].nextRun = conf.interval[s] * q
    BY <1>1, <2>1, <2>2 DEF NextAfter, Writes
  <2>6. PICK p \in Nat : /\ \/ entry[s].nextRun = Nil /\ p = 0
                            \/ entry[s].nextRun = conf.interval[s] * p
                         /\ FiredBy(s) <= p + Interruptions + Firing(s)
    BY <2>1 DEF FireInv, CronInv
  <2>7. p = 0
    <3>1. v * p \in Nat
      BY <2>3
    <3> QED BY <1>2, <2>1, <2>2, <2>6, <3>1 DEF Nil
  <2>8. FiredBy(s)' <= q + Interruptions' + Firing(s)'
    BY <1>3, <2>4, <2>6, <2>7, FireNumbers
  <2>9. CronInv(s)'
    BY <1>2, <2>2, <2>4, <2>5, <2>8 DEF CronInv
  <2> QED BY <1>4, <2>1, <2>9
<1> QED BY <1>5, <1>6, <1>7, DueEffect

\* enqueueScheduledJob begins to fire.
LEMMA FireEnqueue == ASSUME TypeOK, TypeOK', EntryInv, FireInv, enqueueScheduledJob PROVE FireInv'
<1>1. PICK s \in Schedules : s = S
  BY InHand
<1>2. /\ conf' = conf /\ now' = now /\ used' = used /\ entry' = entry /\ sch.pc = "enqueue"
      /\ entry[s].status = "active"
  BY <1>1, enqueueEffect DEF EntryInv, InTick, Gated
<1>3. CASE GoesTo("hit") /\ job' = job
  <2>1. RowsSame /\ Interruptions' = Interruptions
    BY <1>2, <1>3 DEF RowsSame, Interruptions
  <2> QED BY <1>2, <2>1, FireQuiet
<1>4. CASE GoesTo("fired") /\ Added(S, Nil)
  <2>1. FiredBy(s)' <= FiredBy(s) + 1 /\ \E t : Added(s, t)
    BY <1>1, <1>4, FiredAfter
  <2>2. Firing(s) = 0 /\ Firing(s)' = 1 /\ Interruptions' = Interruptions
    <3>1. S' = S
      BY <1>2, <1>4 DEF S, GoesTo
    <3> QED BY <1>1, <1>2, <1>4, <3>1 DEF Firing, GoesTo, Interruptions
  <2>3. conf.kind[s] = "oneshot" => OneShotInv(s)'
    <3>1. conf.kind[s] = "oneshot" => FiredBy(s) <= Interruptions
      BY <1>2, <2>2, FireNumbers DEF FireInv, OneShotInv
    <3> QED BY <1>2, <2>1, <2>2, <3>1, FireNumbers DEF OneShotInv
  <2>4. conf.kind[s] = "cron" => CronInv(s)'
    <3>1. SUFFICES ASSUME conf.kind[s] = "cron" PROVE CronInv(s)'
      OBVIOUS
    <3>2. PICK q \in Nat : /\ \/ entry[s].nextRun = Nil /\ q = 0
                              \/ entry[s].nextRun = conf.interval[s] * q
                           /\ q <= now \div conf.interval[s] + 1
                           /\ FiredBy(s) <= q + Interruptions + Firing(s)
      BY <3>1 DEF FireInv, CronInv
    <3>3. FiredBy(s)' <= q + Interruptions' + Firing(s)'
      BY <2>1, <2>2, <3>2, FireNumbers
    <3> QED BY <1>2, <3>2, <3>3 DEF CronInv
  <2> QED BY <1>1, <1>2, <2>1, <2>3, <2>4, FireOthers
<1> QED BY <1>3, <1>4, enqueueEffect

\* PersistFired ends it.
LEMMA FirePersist == ASSUME TypeOK, TypeOK', EntryInv, FireInv, PersistFired PROVE FireInv'
<1>1. PICK s \in Schedules : s = S
  BY InHand
<1>2. /\ conf' = conf /\ now' = now /\ used' = used /\ job' = job /\ sch'.pc # "fired"
      /\ sch.pc \in Gated /\ \A r \in Schedules : r # s => entry'[r] = entry[r]
  BY <1>1, PersistFiredEffect DEF Leaves, Gated
<1>3. /\ RowsSame /\ Interruptions' = Interruptions /\ FiredBy(s)' = FiredBy(s) /\ Firing(s)' = 0
  <2>1. RowsSame
    BY <1>2 DEF RowsSame
  <2> QED BY <1>2, <2>1, FireNumbers, FiredAfter DEF RowsSame
<1>4. conf.kind[s] = "oneshot" => OneShotInv(s)'
  <2>1. conf.kind[s] = "oneshot" => FiredBy(s) <= Interruptions + 1
    BY FireNumbers DEF FireInv, OneShotInv
  <2>2. conf.kind[s] = "oneshot" => entry'[s].status = "exhausted"
    BY <1>1, PersistFiredEffect
  <2> QED BY <1>3, <2>1, <2>2, FireNumbers DEF OneShotInv
<1>5. ASSUME conf.kind[s] = "cron" PROVE CronInv(s)'
  <2>1. PICK q \in Nat : /\ \/ entry[s].nextRun = Nil /\ q = 0
                            \/ entry[s].nextRun = conf.interval[s] * q
                         /\ FiredBy(s) <= q + Interruptions + Firing(s)
    BY <1>5 DEF FireInv, CronInv
  <2>2. entry[s].nextRun = Nil \/ entry[s].nextRun <= now
    BY <1>1, <1>2, <1>5 DEF EntryInv
  <2>3. q <= now \div conf.interval[s]
    <3>1. CASE q = 0
      BY <3>1, FireNumbers
    <3>2. CASE q # 0
      <4>1. conf.interval[s] * q \in Nat
        BY FireNumbers
      <4>2. conf.interval[s] * q <= now
        BY <2>1, <2>2, <3>2, <4>1 DEF Nil
      <4> QED BY <4>2, FireNumbers, FitsIn
    <3> QED BY <3>1, <3>2
  <2>4. entry'[s].nextRun = conf.interval[s] * (now \div conf.interval[s] + 1)
    BY <1>1, <1>5, PersistFiredEffect DEF NextAfter
  <2>5. PICK d \in Nat : d = now \div conf.interval[s]
    BY FireNumbers
  <2>6. FiredBy(s)' <= (d + 1) + Interruptions' + Firing(s)'
    BY <1>3, <2>1, <2>3, <2>5, FireNumbers
  <2>7. d + 1 \in Nat /\ d + 1 <= now' \div conf'.interval[s] + 1
    BY <1>2, <2>5
  <2> QED BY <1>2, <2>4, <2>5, <2>6, <2>7 DEF CronInv
<1> QED BY <1>1, <1>2, <1>3, <1>4, <1>5, FireOthers

\* Catch-up concerns interval schedules only.
LEMMA FireCatchUp ==
  ASSUME TypeOK, TypeOK', EntryInv, FireInv, CatchUpEnqueue \/ CatchUpPersist PROVE FireInv'
<1>1. PICK s \in Schedules : s = S
  BY InHand
<1>2. /\ conf' = conf /\ now' = now /\ used' = used /\ conf.kind[s] = "every"
      /\ \A r \in Schedules : r # s => entry'[r] = entry[r]
  BY <1>1, CatchUpEnqueueEffect, CatchUpPersistEffect DEF EntryInv
<1>3. RowsSame \/ \E t : Added(s, t)
  <2>1. job' = job => RowsSame
    BY DEF RowsSame
  <2> QED BY <1>1, <2>1, CatchUpEnqueueEffect, CatchUpPersistEffect
<1> QED BY <1>1, <1>2, <1>3, FireOthers

\* Every step keeps the accounts of the firings.
LEMMA FireStep == ASSUME TypeOK, HeldInv, EntryInv, FireInv, [Next]_vars PROVE FireInv'
<1>0. TypeOK' /\ (now' = now => now' = now \/ now' = now + 1) /\ (job' = job => RowsSame)
  BY TypeStep DEF RowsSame
<1>1. used' = used => Interruptions' = Interruptions
  BY DEF Interruptions
<1>2. ASSUME \/ used'.crashes = used.crashes + 1 /\ used'.faults = used.faults
             \/ used'.crashes = used.crashes /\ used'.faults = used.faults + 1
      PROVE  Interruptions' = Interruptions + 1
  BY <1>2, UsedTypes DEF Interruptions
<1>3. CASE SchedulerStep
  <2>1. CASE CatchUpEnqueue \/ CatchUpPersist
    BY <1>0, <2>1, FireCatchUp
  <2>2. CASE Due
    BY <1>0, <2>2, FireDue
  <2>3. CASE enqueueScheduledJob
    BY <1>0, <2>3, FireEnqueue
  <2>4. CASE PersistFired
    BY <1>0, <2>4, FirePersist
  <2>5. CASE reconcileCircuitBreaker
    <3>1. RowsSame
      BY <1>0, <2>5, reconcileEffect DEF MovedBy, Counted, RowsSame
    <3> QED BY <1>0, <1>1, <2>5, <3>1, reconcileEffect, FireQuiet
  <2>6. CASE Policy
    <3>1. CancelsAll => RowsSame
      BY DEF CancelsAll, RowsSame, Outstanding
    <3> QED BY <1>0, <1>1, <2>6, <3>1, PolicyEffect, FireQuiet
  <2>7. CASE CatchUpEnqueueFails
    BY <1>0, <1>2, <2>7, CatchUpEnqueueFailsEffect, FireQuiet
  <2>8. CASE StatementFails
    BY <1>0, <1>2, <2>8, StatementFailsEffect, FireQuiet
  <2>9. CASE Start
    <3>1. UNCHANGED Rest /\ sch.pc # "fired"
      BY <2>9, StartEffect DEF Start, At
    <3> QED BY <1>0, <1>1, <3>1, FireQuiet DEF Rest
  <2>10. ASSUME UNCHANGED <<conf, now, entry, job, used>>, sch.pc # "fired" PROVE FireInv'
    BY <1>0, <1>1, <2>10, FireQuiet
  <2> QED BY <1>3, <2>1, <2>2, <2>3, <2>4, <2>5, <2>6, <2>7, <2>8, <2>9, <2>10, CatchUpLoadEffect,
             TickBeginEffect, LoadEntryEffect, RecordReconciledEffect, ConstraintsDenyEffect,
             canScheduleEffect, HalfOpenEffect, RecordHalfOpenEffect, TableFullEffect DEF SchedulerStep, Rest
<1>4. CASE \E i \in JobIds : Finish(i)
  <2>1. PICK i \in JobIds : Finish(i)
    BY <1>4
  <2>2. RowsSame
    BY <2>1, FinishEffect DEF HeldInv, RowsSame, Outstanding
  <2> QED BY <1>0, <1>1, <2>1, <2>2, FinishEffect, FireQuiet
<1>5. CASE ResetRead \/ ResetWrite \/ ResetRecord
  <2>1. Interruptions' = Interruptions
    BY <1>5, ResetEffect DEF Interruptions
  <2> QED BY <1>0, <1>5, <2>1, ResetEffect, FireQuiet
<1>6. CASE Crash
  <2>1. RowsSame
    BY <1>6, CrashEffect DEF RowsSame
  <2> QED BY <1>0, <1>2, <1>6, <2>1, CrashEffect, FireQuiet
<1>7. CASE Clock \/ UNCHANGED vars
  BY <1>0, <1>1, <1>7, ClockEffect, FireQuiet DEF vars
<1> QED BY <1>3, <1>4, <1>5, <1>6, <1>7 DEF Next

\* In the initial states no schedule has fired.
LEMMA FireInit == ASSUME Init PROVE EntryInv /\ FireInv
<1>1. EntryInv
  BY DEF Init, EntryInv, Stopped, InTick, Gated
<1>2. ASSUME NEW s \in Schedules PROVE OneShotInv(s) /\ CronInv(s)
  <2>1. {j \in JobIds : Present(j) /\ job[j].sched = s /\ job[j].slot = Nil} = {}
    BY DEF Init, Present, NoRow
  <2>2. FiredBy(s) = 0
    BY <2>1, FS_EmptySet DEF FiredBy
  <2>3. Interruptions = 0 /\ Firing(s) = 0
    BY DEF Init, Interruptions, Firing, Stopped
  <2>4. entry[s].status = "active" /\ entry[s].nextRun = Nil
    BY DEF Init, NewEntry
  <2>5. 0 <= now \div conf.interval[s] + 1
    <3>1. TypeOK
      BY TypeInit
    <3>2. now \in Nat /\ conf.interval[s] \in Nat \ {0}
      BY <3>1, NumberTypes, ConfFacts DEF TypeOK
    <3>3. now \div conf.interval[s] \in Nat
      BY <3>2, PeriodsGrow
    <3> QED BY <3>3
  <2> QED BY <2>2, <2>3, <2>4, <2>5 DEF OneShotInv, CronInv
<1> QED BY <1>1, <1>2 DEF FireInv

\* A one-shot fires once and a cron schedule once per matching slot, late runs
\* included, plus once for each crash or failing write that may have come
\* between the enqueue and the row it is stored in; for every schedule, period,
\* clock and number of interruptions.
THEOREM FiresPerSlotHolds == Spec => []FiresPerSlot
<1>1. Init => EntryInv /\ FireInv
  BY FireInit
<1>2. SchedulerInv /\ EntryInv /\ FireInv /\ [Next]_vars => EntryInv' /\ FireInv'
  BY EntryStep, FireStep DEF SchedulerInv
<1>3. SchedulerInv /\ EntryInv /\ FireInv => FiresPerSlot
  <2>1. SUFFICES ASSUME SchedulerInv, EntryInv, FireInv, NEW s \in Schedules
                 PROVE  /\ conf.kind[s] = "oneshot" => FiredBy(s) <= 1 + Interruptions
                        /\ conf.kind[s] = "cron" => FiredBy(s) <= now \div conf.interval[s] + 1 + Interruptions
    BY DEF FiresPerSlot, OneShotFires, CronFiresPerSlot
  <2>2. /\ TypeOK /\ FiredBy(s) \in Nat /\ Interruptions \in Nat /\ Firing(s) \in {0, 1}
        /\ now \in Nat /\ conf.interval[s] \in Nat \ {0} /\ now \div conf.interval[s] \in Nat
    <3>1. TypeOK
      BY <2>1 DEF SchedulerInv
    <3>2. FiredBy(s) \in Nat /\ Interruptions \in Nat
      BY <3>1, FiredAfter, InterruptionType
    <3>3. now \in Nat /\ conf.interval[s] \in Nat \ {0}
      BY <3>1, NumberTypes, ConfFacts DEF TypeOK
    <3> QED BY <3>1, <3>2, <3>3, PeriodsGrow DEF Firing
  <2>3. conf.kind[s] = "oneshot" => FiredBy(s) <= 1 + Interruptions
    BY <2>1, <2>2 DEF FireInv, OneShotInv
  <2>4. ASSUME conf.kind[s] = "cron" PROVE FiredBy(s) <= now \div conf.interval[s] + 1 + Interruptions
    <3>1. PICK d \in Nat : d = now \div conf.interval[s]
      BY <2>2
    <3>2. PICK q \in Nat : /\ \/ entry[s].nextRun = Nil /\ q = 0
                              \/ entry[s].nextRun = conf.interval[s] * q
                           /\ q <= d + 1
                           /\ FiredBy(s) <= q + Interruptions + Firing(s)
      BY <2>1, <2>4, <3>1 DEF FireInv, CronInv
    <3>3. CASE Firing(s) = 0
      BY <2>2, <3>1, <3>2, <3>3
    <3>4. CASE Firing(s) = 1
      <4>1. entry[s].nextRun = Nil \/ entry[s].nextRun <= now
        BY <2>1, <2>4, <3>4 DEF Firing, EntryInv, Gated
      <4>2. q <= d
        <5>1. CASE q = 0
          BY <3>1, <5>1
        <5>2. CASE q # 0
          <6>1. conf.interval[s] * q \in Nat
            BY <2>2
          <6>2. conf.interval[s] * q <= now
            BY <3>2, <4>1, <5>2, <6>1 DEF Nil
          <6> QED BY <2>2, <3>1, <6>2, FitsIn
        <5> QED BY <5>1, <5>2
      <4> QED BY <2>2, <3>1, <3>2, <3>4, <4>2
    <3> QED BY <2>2, <3>3, <3>4
  <2> QED BY <2>3, <2>4
<1> QED BY <1>1, <1>2, <1>3, SchedulerInvariance, PTL DEF Spec
=============================================================================
