-------------------------- MODULE DispatcherProofs --------------------------
(***************************************************************************)
(* Safety of the job lifecycle for every number of jobs, workers, clients, *)
(* restarts and faults, every routing and hook table and every retry and   *)
(* parallelism setting.                                                    *)
(***************************************************************************)
EXTENDS Dispatcher, SequenceTheorems, FiniteSetTheorems, TLAPS

\* A worker's slot is idle or holds a job; a live worker of a running gateway
\* holds a job at the attempt it claimed, not yet logged, whose row is still
\* running or was cancelled under it.
LiveWorker(w) ==
    LET j == wk[w].job
    IN  /\ phase = "up"
        /\ j \in JobIds
        /\ wk[w].attempt = row[j].attempt
        /\ row[j].attempt \in attempts[j]
        /\ row[j].status \in {"running", "dead"}
        /\ jobLog[j] = {}

WorkerInv ==
    \A w \in Workers : /\ wk[w].live => wk[w].pc # "idle"
                       /\ wk[w].live => LiveWorker(w)

\* Attempts are numbered from one and recorded once each; only recovery moves
\* the number past the budget, and then the job is dead.
AttemptInv ==
    \A j \in JobIds :
        IF row[j].status = "absent"
        THEN attempts[j] = {} /\ jobLog[j] = {}
        ELSE /\ row[j].attempt >= 1
             /\ \A n \in attempts[j] : 1 <= n /\ n <= row[j].attempt
             /\ \A n \in attempts[j] : n <= MaxAttempts[row[j].target]
             /\ row[j].attempt > MaxAttempts[row[j].target] => row[j].status = "dead"
             /\ row[j].status = "queued" => row[j].attempt \notin attempts[j]

\* Recovery's list: the rows it has not reached are running, and the one in
\* hand is dead, not yet logged until its completion is written.
RecoveryInv ==
    /\ phase # "recovering" => rec = NoRecovery
    /\ \A j \in rec.orphans :
         IF rec.pc # "scan" /\ \A i \in rec.orphans : j <= i
         THEN /\ row[j].status = "dead"
              /\ rec.pc = "complete" => jobLog[j] = {}
         ELSE row[j].status = "running"

LifecycleInv ==
    /\ WorkerInv
    /\ OneLiveWorkerPerJob
    /\ AttemptInv
    /\ OneOutcomePerJob
    /\ RecoveryInv
    /\ LineageMatches

IInv == TypeOK /\ LifecycleInv

-----------------------------------------------------------------------------
(* What each transaction does to the store *)

USE MaxJobsAssumption, TargetsAssumption, NoKeyAssumption, DispatcherAssumption
USE DEF JobIds, NoJob

\* Nothing but job j is written.
OnlyJob(j) ==
    \A i \in JobIds \ {j} : /\ row'[i] = row[i]
                            /\ trans'[i] = trans[i]
                            /\ attempts'[i] = attempts[i]
                            /\ jobLog'[i] = jobLog[i]

\* The columns no update writes.
SameJob(j) ==
    /\ row'[j].target = row[j].target
    /\ row'[j].key = row[j].key
    /\ row'[j].parent = row[j].parent

\* A transition log grows by the status change it is told of, if there is one.
LEMMA TransitionType ==
    ASSUME StoreTypeOK, NEW j \in JobIds, NEW to \in Status
    PROVE  recordJobTransition(j, to) \in Seq([from: Status \cup {"absent"}, to: Status])
<1>1. row[j].status \in Status \cup {"absent"}
  BY DEF StoreTypeOK, Row
<1>2. trans[j] \in Seq([from: Status \cup {"absent"}, to: Status])
  BY DEF StoreTypeOK
<1>3. [from |-> row[j].status, to |-> to] \in [from: Status \cup {"absent"}, to: Status]
  BY <1>1
<1>4. Append(trans[j], [from |-> row[j].status, to |-> to])
         \in Seq([from: Status \cup {"absent"}, to: Status])
  BY <1>2, <1>3
<1> QED BY <1>2, <1>4 DEF recordJobTransition

\* Enqueue's insert: one absent row becomes a queued first attempt with its
\* first transition; every other row, and the other tables, keep their values.
LEMMA InsertJobEffect ==
    ASSUME StoreTypeOK, NEW j \in JobIds, NEW t \in Targets,
           NEW k \in Keys \cup {NoKey}, NEW parent \in JobIds \cup {NoJob},
           NEW src \in Nat, NEW by \in Submitters, NEW ctx \in BOOLEAN,
           InsertJob(j, t, k, parent, src, by, ctx)
    PROVE  /\ StoreTypeOK'
           /\ OnlyJob(j)
           /\ row[j].status = "absent"
           /\ row'[j].status = "queued" /\ row'[j].attempt = 1
           /\ row'[j].target = t /\ row'[j].key = k
           /\ row'[j].parent = parent /\ row'[j].by = by
           /\ trans'[j] = recordJobTransition(j, "queued")
           /\ attempts' = attempts /\ jobLog' = jobLog
<1> DEFINE new == NewRow(t, k, parent, src, by, ctx)
<1>1. /\ new \in Row
      /\ new.status = "queued" /\ new.attempt = 1 /\ new.target = t /\ new.key = k
      /\ new.parent = parent /\ new.by = by
  BY DEF NewRow, Row, Status, Terminal
<1>2. row' = [row EXCEPT ![j] = new]
  BY DEF InsertJob
<1>3. recordJobTransition(j, "queued") \in Seq([from: Status \cup {"absent"}, to: Status])
  BY TransitionType DEF Status
<1> HIDE DEF new
<1>4. row' \in [JobIds -> Row] /\ row'[j] = new /\ \A i \in JobIds \ {j} : row'[i] = row[i]
  BY <1>1, <1>2 DEF StoreTypeOK
<1>5. /\ trans' \in [JobIds -> Seq([from: Status \cup {"absent"}, to: Status])]
      /\ trans'[j] = recordJobTransition(j, "queued")
      /\ \A i \in JobIds \ {j} : trans'[i] = trans[i]
  BY <1>3 DEF StoreTypeOK, InsertJob
<1>6. attempts' = attempts /\ jobLog' = jobLog /\ row[j].status = "absent"
  BY DEF InsertJob, Present
<1> QED BY <1>1, <1>4, <1>5, <1>6 DEF StoreTypeOK, OnlyJob

\* DequeueEligible's claim: one queued row becomes running, its attempt is
\* recorded, its transition appended; nothing else changes.
LEMMA DequeueEffect ==
    ASSUME StoreTypeOK, NEW j \in JobIds, NEW skip, DequeueEligible(j, skip)
    PROVE  /\ StoreTypeOK'
           /\ OnlyJob(j) /\ SameJob(j)
           /\ row[j].status = "queued" /\ row[j].attempt \notin attempts[j]
           /\ row'[j].status = "running" /\ row'[j].attempt = row[j].attempt
           /\ trans'[j] = recordJobTransition(j, "running")
           /\ attempts'[j] = attempts[j] \cup {row[j].attempt}
           /\ jobLog' = jobLog
<1> DEFINE new == [row[j] EXCEPT !.status = "running"]
<1>1. row[j] \in Row
  BY DEF StoreTypeOK
<1>2. /\ new \in Row
      /\ new.status = "running" /\ new.attempt = row[j].attempt
      /\ new.target = row[j].target /\ new.key = row[j].key /\ new.parent = row[j].parent
  BY <1>1 DEF Row, Status
<1>3. row' = [row EXCEPT ![j] = new]
  BY DEF DequeueEligible
<1>4. recordJobTransition(j, "running") \in Seq([from: Status \cup {"absent"}, to: Status])
  BY TransitionType DEF Status
<1>5. row[j].attempt \in Nat
  BY <1>1 DEF Row
<1> HIDE DEF new
<1>6. row' \in [JobIds -> Row] /\ row'[j] = new /\ \A i \in JobIds \ {j} : row'[i] = row[i]
  BY <1>2, <1>3 DEF StoreTypeOK
<1>7. /\ trans' \in [JobIds -> Seq([from: Status \cup {"absent"}, to: Status])]
      /\ trans'[j] = recordJobTransition(j, "running")
      /\ \A i \in JobIds \ {j} : trans'[i] = trans[i]
  BY <1>4 DEF StoreTypeOK, DequeueEligible
<1>8. /\ attempts' \in [JobIds -> SUBSET Nat]
      /\ attempts'[j] = attempts[j] \cup {row[j].attempt}
      /\ \A i \in JobIds \ {j} : attempts'[i] = attempts[i]
  BY <1>5 DEF StoreTypeOK, DequeueEligible
<1>9. jobLog' = jobLog /\ row[j].status = "queued" /\ row[j].attempt \notin attempts[j]
  BY DEF DequeueEligible, Eligible
<1> QED BY <1>2, <1>6, <1>7, <1>8, <1>9 DEF StoreTypeOK, OnlyJob, SameJob

\* UpdateJobForRecovery: one row gets the status and attempt it is given and
\* the transition between the two statuses.
LEMMA UpdateEffect ==
    ASSUME StoreTypeOK, NEW j \in JobIds, NEW newStatus \in Status,
           NEW newAttempt \in Nat, NEW due \in BOOLEAN,
           UpdateJobForRecovery(j, newStatus, newAttempt, due)
    PROVE  /\ StoreTypeOK'
           /\ OnlyJob(j) /\ SameJob(j)
           /\ row'[j].status = newStatus /\ row'[j].attempt = newAttempt
           /\ trans'[j] = recordJobTransition(j, newStatus)
           /\ attempts' = attempts /\ jobLog' = jobLog
<1> DEFINE new == [row[j] EXCEPT !.status = newStatus, !.attempt = newAttempt, !.due = due]
<1>1. row[j] \in Row
  BY DEF StoreTypeOK
<1>2. /\ new \in Row
      /\ new.status = newStatus /\ new.attempt = newAttempt
      /\ new.target = row[j].target /\ new.key = row[j].key /\ new.parent = row[j].parent
  BY <1>1 DEF Row
<1>3. row' = [row EXCEPT ![j] = new]
  BY DEF UpdateJobForRecovery, StoreTypeOK
<1>4. recordJobTransition(j, newStatus) \in Seq([from: Status \cup {"absent"}, to: Status])
  BY TransitionType
<1> HIDE DEF new
<1>5. row' \in [JobIds -> Row] /\ row'[j] = new /\ \A i \in JobIds \ {j} : row'[i] = row[i]
  BY <1>2, <1>3 DEF StoreTypeOK
<1>6. /\ trans' \in [JobIds -> Seq([from: Status \cup {"absent"}, to: Status])]
      /\ trans'[j] = recordJobTransition(j, newStatus)
      /\ \A i \in JobIds \ {j} : trans'[i] = trans[i]
  BY <1>4 DEF StoreTypeOK, UpdateJobForRecovery
<1>7. attempts' = attempts /\ jobLog' = jobLog
  BY DEF UpdateJobForRecovery
<1> QED BY <1>2, <1>5, <1>6, <1>7 DEF StoreTypeOK, OnlyJob, SameJob

\* CompleteWithResult: one row gets a terminal status, keeps its attempt and
\* has that attempt added to job_log.
LEMMA CompleteEffect ==
    ASSUME StoreTypeOK, NEW j \in JobIds, NEW status, CompleteWithResult(j, status)
    PROVE  /\ StoreTypeOK'
           /\ OnlyJob(j) /\ SameJob(j)
           /\ status \in Terminal
           /\ row'[j].status = status /\ row'[j].attempt = row[j].attempt
           /\ trans'[j] = recordJobTransition(j, status)
           /\ attempts' = attempts
           /\ jobLog'[j] = jobLog[j] \cup {row[j].attempt}
<1> DEFINE new == [row[j] EXCEPT !.status = status, !.completed = TRUE,
                                 !.recent = (status = "succeeded")]
<1>1. row[j] \in Row /\ status \in Status /\ status \in Terminal
  BY DEF StoreTypeOK, CompleteWithResult, Status
<1>2. /\ new \in Row
      /\ new.status = status /\ new.attempt = row[j].attempt
      /\ new.target = row[j].target /\ new.key = row[j].key /\ new.parent = row[j].parent
  BY <1>1 DEF Row
<1>3. row' = [row EXCEPT ![j] = new]
  BY DEF CompleteWithResult, StoreTypeOK
<1>4. recordJobTransition(j, status) \in Seq([from: Status \cup {"absent"}, to: Status])
  BY <1>1, TransitionType
<1>5. row[j].attempt \in Nat
  BY <1>1 DEF Row
<1> HIDE DEF new
<1>6. row' \in [JobIds -> Row] /\ row'[j] = new /\ \A i \in JobIds \ {j} : row'[i] = row[i]
  BY <1>2, <1>3 DEF StoreTypeOK
<1>7. /\ trans' \in [JobIds -> Seq([from: Status \cup {"absent"}, to: Status])]
      /\ trans'[j] = recordJobTransition(j, status)
      /\ \A i \in JobIds \ {j} : trans'[i] = trans[i]
  BY <1>4 DEF StoreTypeOK, CompleteWithResult
<1>8. /\ jobLog' \in [JobIds -> SUBSET Nat]
      /\ jobLog'[j] = jobLog[j] \cup {row[j].attempt}
      /\ \A i \in JobIds \ {j} : jobLog'[i] = jobLog[i]
  BY <1>5 DEF StoreTypeOK, CompleteWithResult
<1>9. attempts' = attempts
  BY DEF CompleteWithResult
<1> QED BY <1>1, <1>2, <1>6, <1>7, <1>8, <1>9 DEF StoreTypeOK, OnlyJob, SameJob

\* A cancelled row keeps every column but its status and its completion time.
LEMMA CancelledRow ==
    ASSUME NEW x \in Row
    PROVE  LET y == [x EXCEPT !.status = "dead", !.completed = TRUE]
           IN  /\ y \in Row /\ y.status = "dead" /\ y.attempt = x.attempt
               /\ y.target = x.target /\ y.key = x.key /\ y.parent = x.parent
BY DEF Row, Status, Terminal

\* CancelOutstandingJobs: the outstanding rows of the target become dead, each
\* with its transition; attempts and job_log are left alone.
LEMMA CancelEffect ==
    ASSUME StoreTypeOK, NEW t \in Targets, CancelOutstandingJobs(t)
    PROVE  /\ StoreTypeOK'
           /\ attempts' = attempts /\ jobLog' = jobLog
           /\ \A j \in JobIds :
                \/ row'[j] = row[j] /\ trans'[j] = trans[j]
                \/ /\ SameJob(j)
                   /\ Outstanding(j)
                   /\ row'[j].status = "dead" /\ row'[j].attempt = row[j].attempt
                   /\ trans'[j] = recordJobTransition(j, "dead")
<1> DEFINE gone == {j \in JobIds : row[j].target = t /\ Outstanding(j)}
           new(j) == [row[j] EXCEPT !.status = "dead", !.completed = TRUE]
<1>1. \A j \in JobIds : row[j] \in Row
  BY DEF StoreTypeOK
<1>2. \A j \in JobIds :
        /\ new(j) \in Row
        /\ new(j).status = "dead" /\ new(j).attempt = row[j].attempt
        /\ new(j).target = row[j].target /\ new(j).key = row[j].key
        /\ new(j).parent = row[j].parent
  BY <1>1, CancelledRow
<1>3. \A j \in JobIds :
        recordJobTransition(j, "dead") \in Seq([from: Status \cup {"absent"}, to: Status])
  BY TransitionType DEF Status, Terminal
<1>4. /\ row' = [j \in JobIds |-> IF j \in gone THEN new(j) ELSE row[j]]
      /\ trans' = [j \in JobIds |-> IF j \in gone THEN recordJobTransition(j, "dead")
                                                  ELSE trans[j]]
      /\ attempts' = attempts /\ jobLog' = jobLog
  BY DEF CancelOutstandingJobs
<1>5. \A j \in gone : Outstanding(j)
  OBVIOUS
<1> HIDE DEF new, gone
<1>6. row' \in [JobIds -> Row]
  BY <1>1, <1>2, <1>4
<1>7. trans' \in [JobIds -> Seq([from: Status \cup {"absent"}, to: Status])]
  BY <1>3, <1>4 DEF StoreTypeOK
<1>8. StoreTypeOK'
  BY <1>4, <1>6, <1>7 DEF StoreTypeOK
<1>9. ASSUME NEW j \in JobIds
      PROVE  \/ row'[j] = row[j] /\ trans'[j] = trans[j]
             \/ /\ SameJob(j) /\ Outstanding(j)
                /\ row'[j].status = "dead" /\ row'[j].attempt = row[j].attempt
                /\ trans'[j] = recordJobTransition(j, "dead")
  <2>1. CASE j \in gone
    BY <2>1, <1>2, <1>4, <1>5 DEF SameJob
  <2>2. CASE j \notin gone
    BY <2>2, <1>4
  <2> QED BY <2>1, <2>2
<1> QED BY <1>4, <1>8, <1>9

\* Time changes neither a status nor an attempt.
LEMMA ClockEffect ==
    ASSUME StoreTypeOK, NEW j \in JobIds, RetryBecomesDue(j) \/ DedupeWindowExpires(j)
    PROVE  /\ StoreTypeOK'
           /\ \A i \in JobIds : /\ row'[i].status = row[i].status
                                /\ row'[i].attempt = row[i].attempt
                                /\ SameJob(i)
           /\ trans' = trans /\ attempts' = attempts /\ jobLog' = jobLog
<1>1. row[j] \in Row
  BY DEF StoreTypeOK
<1>2. PICK new \in Row : /\ row' = [row EXCEPT ![j] = new]
                         /\ new.status = row[j].status /\ new.attempt = row[j].attempt
                         /\ new.target = row[j].target /\ new.key = row[j].key
                         /\ new.parent = row[j].parent
  <2>1. CASE RetryBecomesDue(j)
    <3> DEFINE new == [row[j] EXCEPT !.due = TRUE]
    <3>1. /\ new \in Row
          /\ new.status = row[j].status /\ new.attempt = row[j].attempt
          /\ new.target = row[j].target /\ new.key = row[j].key
          /\ new.parent = row[j].parent
      BY <1>1 DEF Row
    <3>2. row' = [row EXCEPT ![j] = new]
      BY <2>1 DEF RetryBecomesDue
    <3> HIDE DEF new
    <3> QED BY <3>1, <3>2
  <2>2. CASE DedupeWindowExpires(j)
    <3> DEFINE new == [row[j] EXCEPT !.recent = FALSE]
    <3>1. /\ new \in Row
          /\ new.status = row[j].status /\ new.attempt = row[j].attempt
          /\ new.target = row[j].target /\ new.key = row[j].key
          /\ new.parent = row[j].parent
      BY <1>1 DEF Row
    <3>2. row' = [row EXCEPT ![j] = new]
      BY <2>2 DEF DedupeWindowExpires
    <3> HIDE DEF new
    <3> QED BY <3>1, <3>2
  <2> QED BY <2>1, <2>2
<1>3. trans' = trans /\ attempts' = attempts /\ jobLog' = jobLog
  BY DEF RetryBecomesDue, DedupeWindowExpires
<1>4. row' \in [JobIds -> Row] /\ row'[j] = new /\ \A i \in JobIds \ {j} : row'[i] = row[i]
  BY <1>2 DEF StoreTypeOK
<1> QED BY <1>2, <1>3, <1>4 DEF StoreTypeOK, SameJob

-----------------------------------------------------------------------------
(* The transition log *)

\* A chain that ends in a status is extended by a change of that status.
LEMMA ChainAppend ==
    ASSUME NEW S, NEW log \in Seq(S), NEW entry \in S,
           ChainTo(log, entry.from), entry.to # "absent"
    PROVE  ChainTo(Append(log, entry), entry.to)
<1> DEFINE new == Append(log, entry)
<1>1. /\ new # <<>> /\ Len(log) \in Nat /\ Len(new) = Len(log) + 1
      /\ new[Len(log) + 1] = entry
      /\ \A i \in 1 .. Len(log) : new[i] = log[i]
  <2>1. Len(log) \in Nat
    BY LenProperties
  <2> QED BY <2>1, AppendProperties
<1>2. log # <<>> <=> Len(log) >= 1
  BY <1>1, EmptySeq
<1> HIDE DEF new
<1>3. new[1].from = "absent"
  BY <1>1, <1>2 DEF ChainTo
<1>4. ASSUME NEW i \in 1 .. Len(new) - 1
      PROVE  new[i].to = new[i + 1].from
  <2>1. CASE i < Len(log)
    <3>1. log[i].to = log[i + 1].from
      <4>1. i \in 1 .. Len(log) - 1
        BY <2>1, <1>1
      <4> QED BY <4>1 DEF ChainTo
    <3>2. i \in 1 .. Len(log) /\ i + 1 \in 1 .. Len(log)
      BY <2>1, <1>1
    <3>3. new[i] = log[i] /\ new[i + 1] = log[i + 1]
      BY <3>2, <1>1
    <3> QED BY <3>1, <3>3
  <2>2. CASE i = Len(log)
    <3>1. log[i].to = entry.from
      BY <2>2, <1>1, <1>2 DEF ChainTo
    <3>2. new[i] = log[i] /\ new[i + 1] = entry
      BY <2>2, <1>1
    <3> QED BY <3>1, <3>2
  <2> QED BY <2>1, <2>2, <1>1
<1>5. ChainTo(new, entry.to)
  BY <1>1, <1>3, <1>4 DEF ChainTo
<1> QED BY <1>5 DEF new

\* A job's log stays a chain that ends in its status when its row and log are
\* left alone, or get a new status together.
LEMMA LineageStep ==
    ASSUME StoreTypeOK, NEW j \in JobIds, ChainTo(trans[j], row[j].status),
           \/ row'[j].status = row[j].status /\ trans'[j] = trans[j]
           \/ /\ row'[j].status \in Status
              /\ trans'[j] = recordJobTransition(j, row'[j].status)
    PROVE  ChainTo(trans'[j], row'[j].status)
<1> DEFINE S == [from: Status \cup {"absent"}, to: Status]
           entry == [from |-> row[j].status, to |-> row'[j].status]
<1>1. CASE row'[j].status = row[j].status /\ trans'[j] = trans[j]
  BY <1>1
<1>2. CASE /\ row'[j].status \in Status
           /\ trans'[j] = recordJobTransition(j, row'[j].status)
  <2>1. CASE row'[j].status = row[j].status
    <3>1. trans'[j] = trans[j]
      BY <1>2, <2>1 DEF recordJobTransition
    <3> QED BY <2>1, <3>1
  <2>2. CASE row'[j].status # row[j].status
    <3>1. trans'[j] = Append(trans[j], entry)
      BY <1>2, <2>2 DEF recordJobTransition
    <3>2. trans[j] \in Seq(S) /\ entry \in S
      BY <1>2 DEF StoreTypeOK, Row
    <3>3. entry.from = row[j].status /\ entry.to = row'[j].status
      OBVIOUS
    <3>4. row'[j].status # "absent"
      BY <1>2 DEF Status, Terminal
    <3> HIDE DEF S, entry
    <3>5. ChainTo(Append(trans[j], entry), entry.to)
      BY <3>2, <3>3, <3>4, ChainAppend
    <3> QED BY <3>1, <3>3, <3>5
  <2> QED BY <2>1, <2>2
<1> QED BY <1>1, <1>2

-----------------------------------------------------------------------------
(* Steps that change no status, insert a job, or end a worker's job *)

\* No worker takes or gives up a job.
SameHoldings ==
    \A w \in Workers : /\ wk'[w].job = wk[w].job
                       /\ wk'[w].attempt = wk[w].attempt
                       /\ wk'[w].live = wk[w].live
                       /\ wk[w].live => wk'[w].pc # "idle"

\* Recovery stays where it is.
SameRecovery ==
    /\ phase' = phase
    /\ rec'.pc = rec.pc /\ rec'.orphans = rec.orphans
    /\ phase # "recovering" => rec' = rec

\* A step that leaves statuses, attempts, logs and live workers alone keeps the
\* lifecycle invariant.
LEMMA QuietStep ==
    ASSUME IInv, SameHoldings, SameRecovery,
           \A j \in JobIds : /\ row'[j].status = row[j].status
                             /\ row'[j].attempt = row[j].attempt
                             /\ row'[j].target = row[j].target,
           trans' = trans, attempts' = attempts, jobLog' = jobLog
    PROVE  LifecycleInv'
<1> USE DEF IInv, LifecycleInv
<1>1. WorkerInv'
  <2> SUFFICES ASSUME NEW w \in Workers, wk'[w].live
               PROVE  wk'[w].pc # "idle" /\ LiveWorker(w)'
    BY DEF WorkerInv
  <2>1. wk[w].live /\ LiveWorker(w) /\ wk'[w].pc # "idle"
    BY DEF WorkerInv, SameHoldings
  <2> QED BY <2>1 DEF LiveWorker, SameHoldings, SameRecovery
<1>2. OneLiveWorkerPerJob'
  BY DEF OneLiveWorkerPerJob, SameHoldings
<1>3. AttemptInv'
  BY DEF AttemptInv
<1>4. OneOutcomePerJob'
  <2> SUFFICES ASSUME NEW j \in JobIds, jobLog[j] # {}
               PROVE  /\ \E n \in jobLog[j] : jobLog[j] = {n}
                      /\ row'[j].status \in Terminal
                      /\ \A w \in Workers : wk'[w].live => wk'[w].job # j
    BY DEF OneOutcomePerJob, IsTerminal
  <2>1. /\ \E n \in jobLog[j] : jobLog[j] = {n}
        /\ row[j].status \in Terminal
        /\ \A w \in Workers : wk[w].live => wk[w].job # j
    BY DEF OneOutcomePerJob, IsTerminal
  <2>2. \A w \in Workers : wk'[w].live => wk'[w].job # j
    BY <2>1 DEF SameHoldings
  <2> QED BY <2>1, <2>2
<1>5. RecoveryInv'
  BY DEF RecoveryInv, SameRecovery, TypeOK, Recovery
<1>6. LineageMatches'
  BY DEF LineageMatches
<1> QED BY <1>1, <1>2, <1>3, <1>4, <1>5, <1>6

\* A step whose only write is one insert keeps the lifecycle invariant.
LEMMA InsertStep ==
    ASSUME IInv, SameHoldings, SameRecovery, NEW j \in JobIds, OnlyJob(j),
           row[j].status = "absent",
           row'[j].status = "queued", row'[j].attempt = 1, row'[j].target \in Targets,
           trans'[j] = recordJobTransition(j, "queued"),
           attempts' = attempts, jobLog' = jobLog
    PROVE  LifecycleInv'
<1> USE DEF IInv, LifecycleInv
<1>1. WorkerInv'
  <2> SUFFICES ASSUME NEW w \in Workers, wk'[w].live
               PROVE  wk'[w].pc # "idle" /\ LiveWorker(w)'
    BY DEF WorkerInv
  <2>1. wk[w].live /\ LiveWorker(w) /\ wk'[w].pc # "idle"
    BY DEF WorkerInv, SameHoldings
  <2>2. wk[w].job \in JobIds \ {j}
    BY <2>1 DEF LiveWorker
  <2> QED BY <2>1, <2>2 DEF LiveWorker, OnlyJob, SameHoldings, SameRecovery
<1>2. OneLiveWorkerPerJob'
  BY DEF OneLiveWorkerPerJob, SameHoldings
<1>3. AttemptInv'
  <2> SUFFICES ASSUME NEW i \in JobIds
               PROVE  IF row'[i].status = "absent"
                      THEN attempts'[i] = {} /\ jobLog'[i] = {}
                      ELSE /\ row'[i].attempt >= 1
                           /\ \A n \in attempts'[i] : 1 <= n /\ n <= row'[i].attempt
                           /\ \A n \in attempts'[i] : n <= MaxAttempts[row'[i].target]
                           /\ row'[i].attempt > MaxAttempts[row'[i].target]
                                => row'[i].status = "dead"
                           /\ row'[i].status = "queued" => row'[i].attempt \notin attempts'[i]
    BY DEF AttemptInv
  <2>1. CASE i = j
    <3>1. attempts'[i] = {} /\ MaxAttempts[row'[i].target] \in Nat \ {0}
      BY <2>1 DEF AttemptInv
    <3> QED BY <2>1, <3>1
  <2>2. CASE i # j
    <3>1. row'[i] = row[i] /\ attempts'[i] = attempts[i] /\ jobLog'[i] = jobLog[i]
      BY <2>2 DEF OnlyJob
    <3> QED BY <3>1 DEF AttemptInv
  <2> QED BY <2>1, <2>2
<1>4. OneOutcomePerJob'
  <2>1. jobLog[j] = {}
    BY DEF AttemptInv
  <2> SUFFICES ASSUME NEW i \in JobIds, jobLog[i] # {}
               PROVE  /\ \E n \in jobLog[i] : jobLog[i] = {n}
                      /\ row'[i].status \in Terminal
                      /\ \A w \in Workers : wk'[w].live => wk'[w].job # i
    BY DEF OneOutcomePerJob, IsTerminal
  <2>2. row'[i] = row[i]
    BY <2>1 DEF OnlyJob
  <2>3. /\ \E n \in jobLog[i] : jobLog[i] = {n}
        /\ row[i].status \in Terminal
        /\ \A w \in Workers : wk[w].live => wk[w].job # i
    BY DEF OneOutcomePerJob, IsTerminal
  <2>4. \A w \in Workers : wk'[w].live => wk'[w].job # i
    BY <2>3 DEF SameHoldings
  <2> QED BY <2>2, <2>3, <2>4
<1>5. RecoveryInv'
  <2>1. j \notin rec.orphans
    BY DEF RecoveryInv
  <2>2. rec.orphans \subseteq JobIds
    BY DEF TypeOK, Recovery
  <2>3. \A i \in rec.orphans : row'[i] = row[i] /\ jobLog'[i] = jobLog[i]
    BY <2>1, <2>2 DEF OnlyJob
  <2> QED BY <2>3 DEF RecoveryInv, SameRecovery
<1>6. LineageMatches'
  <2> SUFFICES ASSUME NEW i \in JobIds PROVE ChainTo(trans'[i], row'[i].status)
    BY DEF LineageMatches
  <2>1. \/ row'[i].status = row[i].status /\ trans'[i] = trans[i]
        \/ row'[i].status \in Status /\ trans'[i] = recordJobTransition(i, row'[i].status)
    BY DEF OnlyJob, Status
  <2> QED BY <2>1, LineageStep DEF LineageMatches, TypeOK
<1> QED BY <1>1, <1>2, <1>3, <1>4, <1>5, <1>6

\* The last write of a worker: the job is queued for its next attempt, or
\* completed and logged.
LEMMA WorkerWriteStep ==
    ASSUME IInv, NEW w \in Workers, wk[w].live, wk' = [wk EXCEPT ![w] = Idle],
           phase' = phase, rec' = rec,
           OnlyJob(wk[w].job), SameJob(wk[w].job), attempts' = attempts,
           row'[wk[w].job].status \in Status,
           trans'[wk[w].job] = recordJobTransition(wk[w].job, row'[wk[w].job].status),
           \/ /\ row'[wk[w].job].status = "queued"
              /\ row[wk[w].job].attempt < MaxAttempts[row[wk[w].job].target]
              /\ row'[wk[w].job].attempt = row[wk[w].job].attempt + 1
              /\ jobLog' = jobLog
           \/ /\ row'[wk[w].job].status \in Terminal
              /\ row'[wk[w].job].attempt = row[wk[w].job].attempt
              /\ jobLog'[wk[w].job] = jobLog[wk[w].job] \cup {row[wk[w].job].attempt}
    PROVE  LifecycleInv'
<1> USE DEF IInv, LifecycleInv
<1> DEFINE j == wk[w].job
<1>1. /\ LiveWorker(w) /\ j \in JobIds
      /\ phase = "up" /\ rec = NoRecovery
      /\ jobLog[j] = {}
      /\ row[j].attempt \in attempts[j]
      /\ row[j].status \in {"running", "dead"}
  BY DEF WorkerInv, LiveWorker, RecoveryInv
<1>2. \A v \in Workers : wk'[v].live => /\ v # w
                                         /\ wk'[v] = wk[v]
                                         /\ wk[v].job \in JobIds \ {j}
  <2> SUFFICES ASSUME NEW v \in Workers, wk'[v].live
               PROVE  v # w /\ wk'[v] = wk[v] /\ wk[v].job \in JobIds \ {j}
    OBVIOUS
  <2>1. v # w /\ wk'[v] = wk[v]
    BY DEF TypeOK, Idle
  <2> QED BY <2>1 DEF OneLiveWorkerPerJob, WorkerInv, LiveWorker
<1> HIDE DEF j
<1>3. WorkerInv'
  <2> SUFFICES ASSUME NEW v \in Workers, wk'[v].live
               PROVE  wk'[v].pc # "idle" /\ LiveWorker(v)'
    BY DEF WorkerInv
  <2>1. wk'[v] = wk[v] /\ wk[v].job \in JobIds \ {j} /\ LiveWorker(v)
        /\ wk[v].pc # "idle"
    BY <1>2 DEF WorkerInv
  <2>2. /\ row'[wk[v].job] = row[wk[v].job]
        /\ attempts'[wk[v].job] = attempts[wk[v].job]
        /\ jobLog'[wk[v].job] = jobLog[wk[v].job]
    BY <2>1 DEF OnlyJob, j
  <2> QED BY <2>1, <2>2 DEF LiveWorker
<1>4. OneLiveWorkerPerJob'
  BY <1>2 DEF OneLiveWorkerPerJob
<1>5. AttemptInv'
  <2> SUFFICES ASSUME NEW i \in JobIds
               PROVE  IF row'[i].status = "absent"
                      THEN attempts'[i] = {} /\ jobLog'[i] = {}
                      ELSE /\ row'[i].attempt >= 1
                           /\ \A n \in attempts'[i] : 1 <= n /\ n <= row'[i].attempt
                           /\ \A n \in attempts'[i] : n <= MaxAttempts[row'[i].target]
                           /\ row'[i].attempt > MaxAttempts[row'[i].target]
                                => row'[i].status = "dead"
                           /\ row'[i].status = "queued" => row'[i].attempt \notin attempts'[i]
    BY DEF AttemptInv
  <2>1. CASE i = j
    <3>1. /\ row[j].attempt \in Nat /\ MaxAttempts[row[j].target] \in Nat
          /\ attempts[j] \subseteq Nat
      BY <1>1 DEF TypeOK, StoreTypeOK, Row
    <3>2. /\ row[j].attempt >= 1 /\ row[j].attempt <= MaxAttempts[row[j].target]
          /\ \A n \in attempts[j] : /\ 1 <= n /\ n <= row[j].attempt
                                    /\ n <= MaxAttempts[row[j].target]
      BY <1>1 DEF AttemptInv
    <3>3. /\ row'[j].status # "absent" /\ row'[j].target = row[j].target
          /\ attempts'[j] = attempts[j]
      BY DEF SameJob, Status, Terminal, j
    <3>4. CASE row'[j].status = "queued" /\ row'[j].attempt = row[j].attempt + 1
               /\ row[j].attempt < MaxAttempts[row[j].target]
      BY <2>1, <3>1, <3>2, <3>3, <3>4
    <3>5. CASE row'[j].status \in Terminal /\ row'[j].attempt = row[j].attempt
      BY <2>1, <3>1, <3>2, <3>3, <3>5 DEF Terminal
    <3> QED BY <3>4, <3>5 DEF j
  <2>2. CASE i # j
    <3>1. row'[i] = row[i] /\ attempts'[i] = attempts[i] /\ jobLog'[i] = jobLog[i]
      BY <2>2 DEF OnlyJob, j
    <3> QED BY <3>1 DEF AttemptInv
  <2> QED BY <2>1, <2>2
<1>6. OneOutcomePerJob'
  <2> SUFFICES ASSUME NEW i \in JobIds, jobLog'[i] # {}
               PROVE  /\ \E n \in jobLog'[i] : jobLog'[i] = {n}
                      /\ row'[i].status \in Terminal
                      /\ \A v \in Workers : wk'[v].live => wk'[v].job # i
    BY DEF OneOutcomePerJob, IsTerminal
  <2>1. CASE i = j
    <3>1. jobLog'[j] = {row[j].attempt} /\ row'[j].status \in Terminal
      BY <1>1, <2>1 DEF j
    <3> QED BY <2>1, <3>1, <1>2
  <2>2. CASE i # j
    <3>1. jobLog'[i] = jobLog[i] /\ row'[i] = row[i]
      BY <2>2 DEF OnlyJob, j
    <3> QED BY <3>1, <1>2 DEF OneOutcomePerJob, IsTerminal
  <2> QED BY <2>1, <2>2
<1>7. RecoveryInv'
  BY <1>1 DEF RecoveryInv, NoRecovery
<1>8. LineageMatches'
  <2> SUFFICES ASSUME NEW i \in JobIds PROVE ChainTo(trans'[i], row'[i].status)
    BY DEF LineageMatches
  <2>1. \/ row'[i].status = row[i].status /\ trans'[i] = trans[i]
        \/ row'[i].status \in Status /\ trans'[i] = recordJobTransition(i, row'[i].status)
    BY DEF OnlyJob, j
  <2> QED BY <2>1, LineageStep DEF LineageMatches, TypeOK
<1> QED BY <1>3, <1>4, <1>5, <1>6, <1>7, <1>8

-----------------------------------------------------------------------------
(* Every action preserves the invariant *)

\* maybeFireHooks dispatches to targets of the configuration only.
LEMMA HookDispatchesType ==
    ASSUME TypeOK, NEW j \in JobIds, NEW status \in Terminal
    PROVE  hookDispatches(j, status) \subseteq Targets
<1>1. row[j].target \in Targets
  BY DEF TypeOK, StoreTypeOK, Row
<1> QED BY <1>1 DEF hookDispatches

\* The steps of a producer (ClientRequest, ClientLookup, ClientInsert) keep the
\* inductive invariant.
LEMMA ClientSteps ==
    ASSUME IInv, NEW c \in Clients, ClientStep(c)
    PROVE  IInv'
<1> USE DEF IInv
<1>1. CASE ClientRequest(c)
  <2>1. TypeOK'
    <3>1. PICK r \in Requests :
            client' = [client EXCEPT ![c] =
              [pc |-> IF r.key = NoKey THEN "insert"
                      ELSE IF r.override THEN "outstanding" ELSE "recent",
               req |-> r]]
      BY <1>1 DEF ClientRequest
    <3>2. client' \in [Clients -> ClientState]
      BY <3>1 DEF TypeOK, ClientState
    <3>3. requests' \in Nat /\ UNCHANGED <<storeVars, phase, rec, wk, lanes, restarts, lost>>
      BY <1>1 DEF ClientRequest, TypeOK
    <3> QED BY <3>2, <3>3 DEF TypeOK, StoreTypeOK, storeVars
  <2>2. LifecycleInv'
    <3>1. SameHoldings /\ SameRecovery
      BY <1>1 DEF ClientRequest, SameHoldings, SameRecovery, LifecycleInv, WorkerInv
    <3> QED BY <1>1, <3>1, QuietStep DEF ClientRequest, storeVars
  <2> QED BY <2>1, <2>2
<1>2. CASE ClientLookup(c)
  <2>1. TypeOK'
    <3>1. client[c] \in ClientState /\ IdleClient \in ClientState
      BY DEF TypeOK, ClientState, IdleClient, NoRequest, Request, AnyTarget
    <3>2. [client[c] EXCEPT !.pc = "recent"] \in ClientState
          /\ [client[c] EXCEPT !.pc = "insert"] \in ClientState
      BY <3>1 DEF ClientState
    <3>3. client' \in [Clients -> ClientState]
      BY <1>2, <3>1, <3>2 DEF ClientLookup, TypeOK
    <3> QED BY <1>2, <3>3 DEF ClientLookup, TypeOK, StoreTypeOK, storeVars
  <2>2. LifecycleInv'
    <3>1. SameHoldings /\ SameRecovery
      BY <1>2 DEF ClientLookup, SameHoldings, SameRecovery, LifecycleInv, WorkerInv
    <3> QED BY <1>2, <3>1, QuietStep DEF ClientLookup, storeVars
  <2> QED BY <2>1, <2>2
<1>3. CASE ClientInsert(c)
  <2>1. PICK j \in JobIds : InsertJob(j, client[c].req.target, client[c].req.key,
                                      NoJob, 0, "client", client[c].req.ctx)
    BY <1>3 DEF ClientInsert
  <2>2. /\ client[c].req.target \in Targets /\ client[c].req.key \in Keys \cup {NoKey}
        /\ client[c].req.ctx \in BOOLEAN
    BY DEF TypeOK, ClientState, Request
  <2>3. /\ StoreTypeOK' /\ OnlyJob(j) /\ row[j].status = "absent"
        /\ row'[j].status = "queued" /\ row'[j].attempt = 1
        /\ row'[j].target = client[c].req.target
        /\ trans'[j] = recordJobTransition(j, "queued")
        /\ attempts' = attempts /\ jobLog' = jobLog
    BY <2>1, <2>2, InsertJobEffect DEF TypeOK, Submitters
  <2>4. TypeOK'
    <3>1. IdleClient \in ClientState
      BY DEF ClientState, IdleClient, NoRequest, Request, AnyTarget
    <3>2. client' \in [Clients -> ClientState]
      BY <1>3, <3>1 DEF ClientInsert, TypeOK
    <3> QED BY <1>3, <2>3, <3>2 DEF ClientInsert, TypeOK
  <2>5. SameHoldings /\ SameRecovery
    BY <1>3 DEF ClientInsert, SameHoldings, SameRecovery, LifecycleInv, WorkerInv
  <2> QED BY <2>2, <2>3, <2>4, <2>5, InsertStep
<1> QED BY <1>1, <1>2, <1>3 DEF ClientStep

\* if_running = cancel keeps the inductive invariant: it makes rows dead that a
\* live worker may still hold, which the invariant allows.
LEMMA CancelStep ==
    ASSUME IInv, NEW t \in Targets, SchedulerCancel(t)
    PROVE  IInv'
<1> USE DEF IInv, LifecycleInv
<1>1. /\ StoreTypeOK'
      /\ attempts' = attempts /\ jobLog' = jobLog
      /\ \A j \in JobIds :
           \/ row'[j] = row[j] /\ trans'[j] = trans[j]
           \/ /\ SameJob(j)
              /\ Outstanding(j)
              /\ row'[j].status = "dead" /\ row'[j].attempt = row[j].attempt
              /\ trans'[j] = recordJobTransition(j, "dead")
  BY CancelEffect DEF SchedulerCancel, TypeOK
<1>2. /\ phase = "up" /\ phase' = phase /\ wk' = wk /\ rec' = rec
      /\ rec = NoRecovery
  BY DEF SchedulerCancel, RecoveryInv
<1>3. TypeOK'
  BY <1>1 DEF SchedulerCancel, TypeOK
<1>4. WorkerInv'
  <2> SUFFICES ASSUME NEW w \in Workers, wk[w].live
               PROVE  wk'[w].pc # "idle" /\ LiveWorker(w)'
    BY <1>2 DEF WorkerInv
  <2>1. LiveWorker(w) /\ wk[w].pc # "idle" /\ wk[w].job \in JobIds
    BY DEF WorkerInv, LiveWorker
  <2> QED BY <1>1, <1>2, <2>1 DEF LiveWorker
<1>5. OneLiveWorkerPerJob'
  BY <1>2 DEF OneLiveWorkerPerJob
<1>6. AttemptInv'
  <2> SUFFICES ASSUME NEW i \in JobIds
               PROVE  IF row'[i].status = "absent"
                      THEN attempts[i] = {} /\ jobLog[i] = {}
                      ELSE /\ row'[i].attempt >= 1
                           /\ \A n \in attempts[i] : 1 <= n /\ n <= row'[i].attempt
                           /\ \A n \in attempts[i] : n <= MaxAttempts[row'[i].target]
                           /\ row'[i].attempt > MaxAttempts[row'[i].target]
                                => row'[i].status = "dead"
                           /\ row'[i].status = "queued" => row'[i].attempt \notin attempts[i]
    BY <1>1 DEF AttemptInv
  <2> QED BY <1>1 DEF AttemptInv, SameJob, Outstanding
<1>7. OneOutcomePerJob'
  <2> SUFFICES ASSUME NEW i \in JobIds, jobLog[i] # {}
               PROVE  /\ \E n \in jobLog[i] : jobLog[i] = {n}
                      /\ row'[i].status \in Terminal
                      /\ \A w \in Workers : wk[w].live => wk[w].job # i
    BY <1>1, <1>2 DEF OneOutcomePerJob, IsTerminal
  <2> QED BY <1>1 DEF OneOutcomePerJob, IsTerminal, Terminal
<1>8. RecoveryInv'
  BY <1>2 DEF RecoveryInv, NoRecovery
<1>9. LineageMatches'
  <2> SUFFICES ASSUME NEW i \in JobIds PROVE ChainTo(trans'[i], row'[i].status)
    BY DEF LineageMatches
  <2>1. \/ row'[i].status = row[i].status /\ trans'[i] = trans[i]
        \/ row'[i].status \in Status /\ trans'[i] = recordJobTransition(i, row'[i].status)
    BY <1>1 DEF Status, Terminal
  <2> QED BY <2>1, LineageStep DEF LineageMatches, TypeOK
<1> QED BY <1>3, <1>4, <1>5, <1>6, <1>7, <1>8, <1>9

\* The dispatch loop (fillWorkers) keeps the inductive invariant; its claim is
\* where a worker and an attempt number come into being.
LEMMA LoopSteps ==
    ASSUME IInv, LoopStep
    PROVE  IInv'
<1> USE DEF IInv
<1>1. CASE CountLanes
  <2>1. TypeOK'
    BY <1>1 DEF CountLanes, TypeOK, StoreTypeOK, storeVars
  <2>2. SameHoldings /\ SameRecovery
    BY <1>1 DEF CountLanes, SameHoldings, SameRecovery, LifecycleInv, WorkerInv
  <2> QED BY <1>1, <2>1, <2>2, QuietStep DEF CountLanes, storeVars
<1>2. CASE NoEligibleWork
  <2>1. TypeOK'
    BY <1>2 DEF NoEligibleWork, TypeOK, StoreTypeOK, storeVars, Uncounted
  <2>2. SameHoldings /\ SameRecovery
    BY <1>2 DEF NoEligibleWork, SameHoldings, SameRecovery, LifecycleInv, WorkerInv
  <2> QED BY <1>2, <2>1, <2>2, QuietStep DEF NoEligibleWork, storeVars
<1>3. ASSUME NEW w \in Workers, NEW j \in JobIds, StartWorker(w, j)
      PROVE  IInv'
  <2> USE DEF LifecycleInv
  <2> DEFINE new == [Idle EXCEPT !.pc = "exec", !.job = j,
                                 !.attempt = row[j].attempt, !.live = TRUE]
  <2>1. /\ StoreTypeOK' /\ OnlyJob(j) /\ SameJob(j)
        /\ row[j].status = "queued" /\ row[j].attempt \notin attempts[j]
        /\ row'[j].status = "running" /\ row'[j].attempt = row[j].attempt
        /\ trans'[j] = recordJobTransition(j, "running")
        /\ attempts'[j] = attempts[j] \cup {row[j].attempt}
        /\ jobLog' = jobLog
    BY <1>3, DequeueEffect DEF StartWorker, TypeOK
  <2>2. /\ new \in WorkerState
        /\ new.pc = "exec" /\ new.job = j /\ new.attempt = row[j].attempt /\ new.live = TRUE
    BY DEF Idle, WorkerState, AnyTarget, Terminal, TypeOK, StoreTypeOK, Row
  <2>3. wk' = [wk EXCEPT ![w] = new] /\ wk[w].pc = "idle"
    BY <1>3 DEF StartWorker
  <2> HIDE DEF new
  <2>4. wk'[w] = new /\ \A v \in Workers \ {w} : wk'[v] = wk[v]
    BY <2>3 DEF TypeOK
  <2>5. phase = "up" /\ phase' = phase /\ rec' = rec /\ rec = NoRecovery
    BY <1>3 DEF StartWorker, RecoveryInv
  <2>6. \A v \in Workers : wk[v].live => v # w /\ wk[v].job \in JobIds \ {j}
    BY <2>1, <2>3 DEF WorkerInv, LiveWorker
  <2>7. jobLog[j] = {}
    BY <2>1 DEF OneOutcomePerJob, IsTerminal, Terminal
  <2>8. TypeOK'
    BY <1>3, <2>1, <2>2, <2>3 DEF StartWorker, TypeOK, Uncounted
  <2>9. WorkerInv'
    <3> SUFFICES ASSUME NEW v \in Workers, wk'[v].live
                 PROVE  wk'[v].pc # "idle" /\ LiveWorker(v)'
      BY DEF WorkerInv
    <3>1. CASE v = w
      BY <3>1, <2>1, <2>2, <2>4, <2>5, <2>7 DEF LiveWorker
    <3>2. CASE v # w
      <4>1. wk'[v] = wk[v] /\ wk[v].job \in JobIds \ {j} /\ LiveWorker(v)
            /\ wk[v].pc # "idle"
        BY <3>2, <2>4, <2>6 DEF WorkerInv
      <4>2. /\ row'[wk[v].job] = row[wk[v].job]
            /\ attempts'[wk[v].job] = attempts[wk[v].job]
            /\ jobLog'[wk[v].job] = jobLog[wk[v].job]
        BY <2>1, <4>1 DEF OnlyJob
      <4> QED BY <2>5, <4>1, <4>2 DEF LiveWorker
    <3> QED BY <3>1, <3>2
  <2>10. OneLiveWorkerPerJob'
    <3> SUFFICES ASSUME NEW u \in Workers, NEW v \in Workers,
                        wk'[u].live, wk'[v].live, wk'[u].job = wk'[v].job
                 PROVE  u = v
      BY DEF OneLiveWorkerPerJob
    <3>1. ASSUME NEW x \in Workers, wk'[x].live
          PROVE  \/ x = w /\ wk'[x].job = j
                 \/ x # w /\ wk'[x] = wk[x] /\ wk[x].live /\ wk[x].job # j
      BY <3>1, <2>2, <2>4, <2>6
    <3> QED BY <3>1 DEF OneLiveWorkerPerJob
  <2>11. AttemptInv'
    <3> SUFFICES ASSUME NEW i \in JobIds
                 PROVE  IF row'[i].status = "absent"
                        THEN attempts'[i] = {} /\ jobLog'[i] = {}
                        ELSE /\ row'[i].attempt >= 1
                             /\ \A n \in attempts'[i] : 1 <= n /\ n <= row'[i].attempt
                             /\ \A n \in attempts'[i] : n <= MaxAttempts[row'[i].target]
                             /\ row'[i].attempt > MaxAttempts[row'[i].target]
                                  => row'[i].status = "dead"
                             /\ row'[i].status = "queued"
                                  => row'[i].attempt \notin attempts'[i]
      BY DEF AttemptInv
    <3>1. CASE i = j
      <4>1. row[j].attempt \in Nat /\ MaxAttempts[row[j].target] \in Nat
        BY DEF TypeOK, StoreTypeOK, Row
      <4> QED BY <3>1, <4>1, <2>1 DEF AttemptInv, SameJob
    <3>2. CASE i # j
      <4>1. row'[i] = row[i] /\ attempts'[i] = attempts[i] /\ jobLog'[i] = jobLog[i]
        BY <3>2, <2>1 DEF OnlyJob
      <4> QED BY <4>1 DEF AttemptInv
    <3> QED BY <3>1, <3>2
  <2>12. OneOutcomePerJob'
    <3> SUFFICES ASSUME NEW i \in JobIds, jobLog[i] # {}
                 PROVE  /\ \E n \in jobLog[i] : jobLog[i] = {n}
                        /\ row'[i].status \in Terminal
                        /\ \A v \in Workers : wk'[v].live => wk'[v].job # i
      BY <2>1 DEF OneOutcomePerJob, IsTerminal
    <3>1. i # j /\ row'[i] = row[i]
      BY <2>1, <2>7 DEF OnlyJob
    <3>2. /\ \E n \in jobLog[i] : jobLog[i] = {n}
          /\ row[i].status \in Terminal
          /\ \A v \in Workers : wk[v].live => wk[v].job # i
      BY DEF OneOutcomePerJob, IsTerminal
    <3>3. \A v \in Workers : wk'[v].live => wk'[v].job # i
      BY <3>1, <3>2, <2>2, <2>4
    <3> QED BY <3>1, <3>2, <3>3
  <2>13. RecoveryInv'
    BY <2>5 DEF RecoveryInv, NoRecovery
  <2>14. LineageMatches'
    <3> SUFFICES ASSUME NEW i \in JobIds PROVE ChainTo(trans'[i], row'[i].status)
      BY DEF LineageMatches
    <3>1. \/ row'[i].status = row[i].status /\ trans'[i] = trans[i]
          \/ row'[i].status \in Status /\ trans'[i] = recordJobTransition(i, row'[i].status)
      BY <2>1 DEF OnlyJob, Status
    <3> QED BY <3>1, LineageStep DEF LineageMatches, TypeOK
  <2> QED BY <2>8, <2>9, <2>10, <2>11, <2>12, <2>13, <2>14
<1> QED BY <1>1, <1>2, <1>3 DEF LoopStep

\* The record of failed writes keeps its type.
LEMMA FaultType ==
    ASSUME NEW S, NEW l \in [jobs: SUBSET S, writes: Nat]
    PROVE  [l EXCEPT !.writes = @ + 1] \in [jobs: SUBSET S, writes: Nat]
<1>1. l.writes + 1 \in Nat
  OBVIOUS
<1> QED BY <1>1

\* A worker that has ended has its type.
LEMMA IdleType == Idle \in WorkerState
BY DEF Idle, WorkerState, AnyTarget, Terminal

\* A worker's step that ends its job with a completion.
LEMMA CompletionStep ==
    ASSUME IInv, NEW w \in Workers, wk[w].live, NEW status,
           CompleteWithResult(wk[w].job, status),
           wk' = [wk EXCEPT ![w] = Idle], restUnchanged,
           lost' \in [jobs: SUBSET JobIds, writes: Nat]
    PROVE  IInv'
<1> USE DEF IInv
<1>1. wk[w].job \in JobIds
  BY DEF LifecycleInv, WorkerInv, LiveWorker
<1>2. /\ StoreTypeOK' /\ OnlyJob(wk[w].job) /\ SameJob(wk[w].job)
      /\ status \in Terminal
      /\ row'[wk[w].job].status = status
      /\ row'[wk[w].job].attempt = row[wk[w].job].attempt
      /\ trans'[wk[w].job] = recordJobTransition(wk[w].job, status)
      /\ attempts' = attempts
      /\ jobLog'[wk[w].job] = jobLog[wk[w].job] \cup {row[wk[w].job].attempt}
  BY <1>1, CompleteEffect DEF TypeOK
<1>3. TypeOK'
  BY <1>2, IdleType DEF TypeOK, restUnchanged
<1>4. LifecycleInv'
  <2>1. status \in Status
    BY <1>2 DEF Status
  <2> QED BY <1>2, <2>1, WorkerWriteStep DEF restUnchanged
<1> QED BY <1>3, <1>4

\* A worker's step that keeps its job and writes nothing.
LEMMA WorkerMoves ==
    ASSUME IInv, NEW w \in Workers, wk[w].live, NEW new \in WorkerState,
           new.job = wk[w].job, new.attempt = wk[w].attempt, new.live = wk[w].live,
           new.pc # "idle",
           wk' = [wk EXCEPT ![w] = new],
           UNCHANGED storeVars, restUnchanged,
           lost' \in [jobs: SUBSET JobIds, writes: Nat]
    PROVE  IInv'
<1> USE DEF IInv
<1>1. TypeOK'
  BY DEF TypeOK, StoreTypeOK, storeVars, restUnchanged
<1>2. SameHoldings
  BY DEF SameHoldings, TypeOK, LifecycleInv, WorkerInv
<1>3. SameRecovery
  BY DEF SameRecovery, restUnchanged
<1> QED BY <1>1, <1>2, <1>3, QuietStep DEF storeVars

\* A worker's step that enqueues one job.
LEMMA WorkerEnqueues ==
    ASSUME IInv, NEW w \in Workers, wk[w].live, NEW new \in WorkerState,
           new.job = wk[w].job, new.attempt = wk[w].attempt, new.live = wk[w].live,
           new.pc # "idle",
           wk' = [wk EXCEPT ![w] = new],
           NEW j \in JobIds, NEW t \in Targets, NEW k \in Keys \cup {NoKey},
           NEW src \in Nat, NEW by \in Submitters, NEW ctx \in BOOLEAN,
           InsertJob(j, t, k, wk[w].job, src, by, ctx),
           restUnchanged, lost' = lost
    PROVE  IInv'
<1> USE DEF IInv
<1>1. wk[w].job \in JobIds \cup {NoJob}
  BY DEF TypeOK, WorkerState
<1>2. /\ StoreTypeOK' /\ OnlyJob(j) /\ row[j].status = "absent"
      /\ row'[j].status = "queued" /\ row'[j].attempt = 1 /\ row'[j].target = t
      /\ trans'[j] = recordJobTransition(j, "queued")
      /\ attempts' = attempts /\ jobLog' = jobLog
  BY <1>1, InsertJobEffect DEF TypeOK
<1>3. TypeOK'
  BY <1>2 DEF TypeOK, restUnchanged
<1>4. SameHoldings
  BY DEF SameHoldings, TypeOK, LifecycleInv, WorkerInv
<1>5. SameRecovery
  BY DEF SameRecovery, restUnchanged
<1> QED BY <1>2, <1>3, <1>4, <1>5, InsertStep

\* Every step of executeJob keeps the inductive invariant, one case per action.
LEMMA WorkerSteps ==
    ASSUME IInv, NEW w \in Workers, WorkerStep(w)
    PROVE  IInv'
<1> USE DEF IInv, JobOf
<1> DEFINE j == wk[w].job
<1>0. /\ wk \in [Workers -> WorkerState] /\ wk[w] \in WorkerState
      /\ lost \in [jobs: SUBSET JobIds, writes: Nat]
      /\ lost.jobs \subseteq JobIds /\ lost.writes \in Nat
  BY DEF TypeOK
<1>a. wk[w].live => /\ j \in JobIds /\ wk[w].attempt = row[j].attempt
                    /\ row[j].target \in Targets /\ row[j].attempt \in Nat
  BY DEF LifecycleInv, WorkerInv, LiveWorker, TypeOK, StoreTypeOK, Row
<1>b. [lost EXCEPT !.writes = @ + 1] \in [jobs: SUBSET JobIds, writes: Nat]
  BY <1>0, FaultType
<1>1. CASE WorkerAbort(w)
  BY <1>1, <1>0, CompletionStep DEF WorkerAbort, Running, completeJob
<1>2. CASE WorkerRetry(w)
  <2>1. /\ wk[w].live /\ row[j].attempt < MaxAttempts[row[j].target]
        /\ UpdateJobForRecovery(j, "queued", row[j].attempt + 1, FALSE)
        /\ wk' = [wk EXCEPT ![w] = Idle] /\ UNCHANGED lost /\ restUnchanged
    BY <1>2, <1>a DEF WorkerRetry, Running, TargetOf
  <2>2. /\ StoreTypeOK' /\ OnlyJob(j) /\ SameJob(j)
        /\ row'[j].status = "queued" /\ row'[j].attempt = row[j].attempt + 1
        /\ trans'[j] = recordJobTransition(j, "queued")
        /\ attempts' = attempts /\ jobLog' = jobLog
    <3>1. row[j].attempt + 1 \in Nat /\ "queued" \in Status /\ StoreTypeOK
      BY <1>a, <2>1 DEF TypeOK, Status
    <3>2. j \in JobIds /\ UpdateJobForRecovery(j, "queued", row[j].attempt + 1, FALSE)
      BY <1>a, <2>1
    <3> HIDE DEF j
    <3> QED BY <3>1, <3>2, UpdateEffect
  <2>3. TypeOK'
    BY <2>1, <2>2, IdleType DEF TypeOK, restUnchanged
  <2>4. LifecycleInv'
    BY <2>1, <2>2, WorkerWriteStep DEF restUnchanged, Status
  <2> QED BY <2>3, <2>4
<1>3. CASE WorkerRetryFails(w)
  <2>1. PICK status \in {"failed", "timed_out"} : CompleteWithResult(j, status)
    BY <1>3 DEF WorkerRetryFails
  <2> QED BY <1>3, <1>b, <2>1, CompletionStep DEF WorkerRetryFails, Running
<1>4. CASE WorkerGiveUp(w)
  <2>1. PICK status \in {"failed", "timed_out"} :
          wk' = [wk EXCEPT ![w].pc = "hook", ![w].out = status,
                           ![w].todo = hookDispatches(j, status)]
    BY <1>4 DEF WorkerGiveUp
  <2> DEFINE new == [wk[w] EXCEPT !.pc = "hook", !.out = status,
                                  !.todo = hookDispatches(j, status)]
  <2>2. hookDispatches(j, status) \subseteq Targets
    BY <1>4, <1>a, HookDispatchesType DEF WorkerGiveUp, Running, Terminal
  <2>3. /\ new \in WorkerState /\ new.job = wk[w].job /\ new.attempt = wk[w].attempt
        /\ new.live = wk[w].live /\ new.pc # "idle"
    BY <1>0, <2>2 DEF WorkerState, Terminal
  <2>4. wk' = [wk EXCEPT ![w] = new]
    BY <1>0, <2>1
  <2> HIDE DEF new
  <2> QED BY <1>4, <1>0, <2>3, <2>4, WorkerMoves DEF WorkerGiveUp, Running
<1>5. CASE WorkerSucceed(w)
  <2>1. PICK status \in {"succeeded", "skipped"} :
          wk' = [wk EXCEPT ![w].pc = "route", ![w].out = status,
                           ![w].todo = Routes[TargetOf(w)]]
    BY <1>5 DEF WorkerSucceed
  <2> DEFINE new == [wk[w] EXCEPT !.pc = "route", !.out = status,
                                  !.todo = Routes[TargetOf(w)]]
  <2>2. Routes[TargetOf(w)] \subseteq Targets
    BY <1>5, <1>a DEF WorkerSucceed, Running, TargetOf
  <2>3. /\ new \in WorkerState /\ new.job = wk[w].job /\ new.attempt = wk[w].attempt
        /\ new.live = wk[w].live /\ new.pc # "idle"
    BY <1>0, <2>2 DEF WorkerState, Terminal
  <2>4. wk' = [wk EXCEPT ![w] = new]
    BY <1>0, <2>1
  <2> HIDE DEF new
  <2> QED BY <1>5, <1>0, <2>3, <2>4, WorkerMoves DEF WorkerSucceed, Running
<1>6. CASE RouteAdmit(w)
  <2>1. PICK t \in wk[w].todo, pc \in {"route", "insert", "lookup"} :
          wk' = [wk EXCEPT ![w].todo = @ \ {t}, ![w].next = t, ![w].pc = pc]
    BY <1>6 DEF RouteAdmit
  <2> DEFINE new == [wk[w] EXCEPT !.todo = @ \ {t}, !.next = t, !.pc = pc]
  <2>2. /\ new \in WorkerState /\ new.job = wk[w].job /\ new.attempt = wk[w].attempt
        /\ new.live = wk[w].live /\ new.pc # "idle"
    BY <1>0 DEF WorkerState
  <2>3. wk' = [wk EXCEPT ![w] = new]
    BY <1>0, <2>1
  <2> HIDE DEF new
  <2> QED BY <1>6, <1>0, <2>2, <2>3, WorkerMoves DEF RouteAdmit, Running
<1>7. CASE RouteLookup(w)
  <2>1. PICK pc \in {"route", "insert"} : wk' = [wk EXCEPT ![w].pc = pc]
    BY <1>7 DEF RouteLookup
  <2> DEFINE new == [wk[w] EXCEPT !.pc = pc]
  <2>2. /\ new \in WorkerState /\ new.job = wk[w].job /\ new.attempt = wk[w].attempt
        /\ new.live = wk[w].live /\ new.pc # "idle"
    BY <1>0 DEF WorkerState
  <2>3. wk' = [wk EXCEPT ![w] = new]
    BY <1>0, <2>1
  <2> HIDE DEF new
  <2> QED BY <1>7, <1>0, <2>2, <2>3, WorkerMoves DEF RouteLookup, Running
<1>8. CASE RouteInsert(w)
  <2> DEFINE new == [wk[w] EXCEPT !.pc = "route"]
  <2>1. /\ new \in WorkerState /\ new.job = wk[w].job /\ new.attempt = wk[w].attempt
        /\ new.live = wk[w].live /\ new.pc # "idle"
    BY <1>0 DEF WorkerState
  <2>2. wk' = [wk EXCEPT ![w] = new] /\ wk[w].live /\ restUnchanged /\ lost' = lost
    BY <1>8, <1>0 DEF RouteInsert, Running
  <2> HIDE DEF new
  <2>3. CASE UNCHANGED storeVars
    BY <1>0, <2>1, <2>2, <2>3, WorkerMoves
  <2>4. ASSUME NEW i \in JobIds,
               InsertJob(i, wk[w].next, EventKey[TargetOf(w)], wk[w].job,
                         sourceEventID(w), "route", TRUE)
        PROVE  IInv'
    <3>1. /\ wk[w].next \in Targets /\ EventKey[TargetOf(w)] \in Keys \cup {NoKey}
          /\ sourceEventID(w) \in Nat
      BY <1>0, <1>a, <2>2 DEF WorkerState, TargetOf, sourceEventID
    <3> QED BY <2>1, <2>2, <2>4, <3>1, WorkerEnqueues DEF Submitters
  <2> QED BY <1>8, <2>3, <2>4 DEF RouteInsert
<1>9. CASE RouteFail(w)
  BY <1>9, <1>0, CompletionStep DEF RouteFail, completeJob
<1>10. CASE RouteDone(w)
  <2>1. PICK todo \in {hookDispatches(j, "succeeded"), {}} :
          wk' = [wk EXCEPT ![w].pc = "hook", ![w].todo = todo]
    BY <1>10 DEF RouteDone
  <2> DEFINE new == [wk[w] EXCEPT !.pc = "hook", !.todo = todo]
  <2>2. todo \subseteq Targets
    BY <1>10, <1>a, <2>1, HookDispatchesType DEF RouteDone, Running, Terminal
  <2>3. /\ new \in WorkerState /\ new.job = wk[w].job /\ new.attempt = wk[w].attempt
        /\ new.live = wk[w].live /\ new.pc # "idle"
    BY <1>0, <2>2 DEF WorkerState
  <2>4. wk' = [wk EXCEPT ![w] = new]
    BY <1>0, <2>1
  <2> HIDE DEF new
  <2> QED BY <1>10, <1>0, <2>3, <2>4, WorkerMoves, ZenonT(60) DEF RouteDone, Running
<1>11. CASE HookEnqueue(w)
  <2>1. PICK t \in wk[w].todo :
          /\ \/ /\ \E i \in JobIds : InsertJob(i, t, NoKey, wk[w].job, 0, "hook", FALSE)
                /\ UNCHANGED lost
             \/ /\ lost' = [lost EXCEPT !.writes = @ + 1]
                /\ UNCHANGED storeVars
          /\ wk' = [wk EXCEPT ![w].todo = @ \ {t}]
    BY <1>11 DEF HookEnqueue
  <2> DEFINE new == [wk[w] EXCEPT !.todo = @ \ {t}]
  <2>2. /\ new \in WorkerState /\ new.job = wk[w].job /\ new.attempt = wk[w].attempt
        /\ new.live = wk[w].live /\ new.pc # "idle"
    BY <1>0, <1>11 DEF WorkerState, HookEnqueue, Running
  <2>3. wk' = [wk EXCEPT ![w] = new] /\ wk[w].live /\ restUnchanged /\ t \in Targets
    BY <1>11, <1>0, <2>1 DEF HookEnqueue, Running, WorkerState
  <2> HIDE DEF new
  <2>4. ASSUME NEW i \in JobIds, InsertJob(i, t, NoKey, wk[w].job, 0, "hook", FALSE),
               UNCHANGED lost
        PROVE  IInv'
    BY <2>2, <2>3, <2>4, WorkerEnqueues DEF Submitters
  <2>5. CASE UNCHANGED storeVars /\ lost' = [lost EXCEPT !.writes = @ + 1]
    BY <1>b, <2>2, <2>3, <2>5, WorkerMoves
  <2> QED BY <2>1, <2>4, <2>5
<1>12. CASE WorkerFinish(w)
  BY <1>12, <1>0, CompletionStep DEF WorkerFinish, Running, completeJob
<1>13. CASE CompletionFails(w) \/ WorkerAbandon(w)
  <2>1. /\ wk' = [wk EXCEPT ![w] = Idle] /\ UNCHANGED storeVars /\ restUnchanged
        /\ lost' \in [jobs: SUBSET JobIds, writes: Nat]
    BY <1>13, <1>0, <1>a DEF CompletionFails, WorkerAbandon
  <2>2. TypeOK'
    BY <2>1, IdleType DEF TypeOK, StoreTypeOK, storeVars, restUnchanged
  <2>3. wk'[w] = Idle /\ \A v \in Workers \ {w} : wk'[v] = wk[v]
    BY <1>0, <2>1
  <2>4. \A v \in Workers : wk'[v].live => wk'[v] = wk[v]
    BY <2>3 DEF Idle
  <2>5. WorkerInv'
    BY <2>1, <2>4 DEF LifecycleInv, WorkerInv, LiveWorker, storeVars, restUnchanged
  <2>6. OneLiveWorkerPerJob'
    BY <2>4 DEF LifecycleInv, OneLiveWorkerPerJob
  <2>7. OneOutcomePerJob'
    <3> SUFFICES ASSUME NEW i \in JobIds, jobLog[i] # {}
                 PROVE  /\ \E n \in jobLog[i] : jobLog[i] = {n}
                        /\ row[i].status \in Terminal
                        /\ \A v \in Workers : wk'[v].live => wk'[v].job # i
      BY <2>1 DEF OneOutcomePerJob, IsTerminal, storeVars
    <3>1. /\ \E n \in jobLog[i] : jobLog[i] = {n}
          /\ row[i].status \in Terminal
          /\ \A v \in Workers : wk[v].live => wk[v].job # i
      BY DEF LifecycleInv, OneOutcomePerJob, IsTerminal
    <3> QED BY <2>4, <3>1
  <2>8. AttemptInv' /\ RecoveryInv' /\ LineageMatches'
    BY <2>1 DEF LifecycleInv, AttemptInv, RecoveryInv, LineageMatches, storeVars,
                restUnchanged
  <2> QED BY <2>2, <2>5, <2>6, <2>7, <2>8 DEF LifecycleInv
<1> QED BY <1>1, <1>2, <1>3, <1>4, <1>5, <1>6, <1>7, <1>8, <1>9, <1>10, <1>11,
           <1>12, <1>13 DEF WorkerStep

\* No worker is live while orphans are recovered.
LEMMA NobodyLive ==
    ASSUME IInv, phase # "up", NEW w \in Workers
    PROVE  ~wk[w].live
BY DEF IInv, LifecycleInv, WorkerInv, LiveWorker

\* A write of recovery: the orphan is queued for its next attempt, or dies
\* past its budget, or, dead, is completed and logged.
LEMMA RecoveryWriteStep ==
    ASSUME IInv, phase = "recovering", wk' = wk, NEW j \in JobIds,
           OnlyJob(j), SameJob(j), attempts' = attempts, row'[j].status \in Status,
           trans'[j] = recordJobTransition(j, row'[j].status),
           \/ /\ row[j].status = "running" /\ row'[j].status = "queued"
              /\ row[j].attempt + 1 <= MaxAttempts[row[j].target]
              /\ row'[j].attempt = row[j].attempt + 1
              /\ jobLog' = jobLog
           \/ /\ row[j].status = "running" /\ row'[j].status = "dead"
              /\ row'[j].attempt = row[j].attempt + 1
              /\ jobLog' = jobLog
           \/ /\ row[j].status = "dead" /\ row'[j].status = "dead"
              /\ row'[j].attempt = row[j].attempt
              /\ jobLog[j] = {}
              /\ jobLog'[j] = jobLog[j] \cup {row[j].attempt}
    PROVE  WorkerInv' /\ OneLiveWorkerPerJob' /\ AttemptInv' /\ OneOutcomePerJob'
           /\ LineageMatches'
<1> USE DEF IInv, LifecycleInv
<1>1. \A w \in Workers : ~wk'[w].live
  BY NobodyLive
<1>2. WorkerInv' /\ OneLiveWorkerPerJob'
  BY <1>1 DEF WorkerInv, OneLiveWorkerPerJob
<1>3. AttemptInv'
  <2> SUFFICES ASSUME NEW i \in JobIds
               PROVE  IF row'[i].status = "absent"
                      THEN attempts'[i] = {} /\ jobLog'[i] = {}
                      ELSE /\ row'[i].attempt >= 1
                           /\ \A n \in attempts'[i] : 1 <= n /\ n <= row'[i].attempt
                           /\ \A n \in attempts'[i] : n <= MaxAttempts[row'[i].target]
                           /\ row'[i].attempt > MaxAttempts[row'[i].target]
                                => row'[i].status = "dead"
                           /\ row'[i].status = "queued" => row'[i].attempt \notin attempts'[i]
    BY DEF AttemptInv
  <2>1. CASE i = j
    <3>1. /\ row[j].attempt \in Nat /\ MaxAttempts[row[j].target] \in Nat
          /\ attempts[j] \subseteq Nat
      BY DEF TypeOK, StoreTypeOK, Row
    <3>2. /\ row[j].attempt >= 1
          /\ \A n \in attempts[j] : /\ 1 <= n /\ n <= row[j].attempt
                                    /\ n <= MaxAttempts[row[j].target]
      BY DEF AttemptInv
    <3>3. row'[j].target = row[j].target /\ attempts'[j] = attempts[j]
      BY DEF SameJob
    <3>4. CASE row'[j].status = "queued" /\ row'[j].attempt = row[j].attempt + 1
               /\ row[j].attempt + 1 <= MaxAttempts[row[j].target]
      BY <2>1, <3>1, <3>2, <3>3, <3>4
    <3>5. CASE row'[j].status = "dead"
               /\ row'[j].attempt \in {row[j].attempt, row[j].attempt + 1}
      BY <2>1, <3>1, <3>2, <3>3, <3>5
    <3> QED BY <3>4, <3>5
  <2>2. CASE i # j
    <3>1. row'[i] = row[i] /\ attempts'[i] = attempts[i] /\ jobLog'[i] = jobLog[i]
      BY <2>2 DEF OnlyJob
    <3> QED BY <3>1 DEF AttemptInv
  <2> QED BY <2>1, <2>2
<1>4. OneOutcomePerJob'
  <2> SUFFICES ASSUME NEW i \in JobIds, jobLog'[i] # {}
               PROVE  /\ \E n \in jobLog'[i] : jobLog'[i] = {n}
                      /\ row'[i].status \in Terminal
    BY <1>1 DEF OneOutcomePerJob, IsTerminal
  <2>1. CASE i = j
    <3>1. row[j].status = "running" => jobLog[j] = {}
      BY DEF OneOutcomePerJob, IsTerminal, Terminal
    <3>2. jobLog'[j] = {row[j].attempt} /\ row'[j].status = "dead"
      BY <2>1, <3>1
    <3> QED BY <2>1, <3>2 DEF Terminal
  <2>2. CASE i # j
    <3>1. jobLog'[i] = jobLog[i] /\ row'[i] = row[i]
      BY <2>2 DEF OnlyJob
    <3> QED BY <3>1 DEF OneOutcomePerJob, IsTerminal
  <2> QED BY <2>1, <2>2
<1>5. LineageMatches'
  <2> SUFFICES ASSUME NEW i \in JobIds PROVE ChainTo(trans'[i], row'[i].status)
    BY DEF LineageMatches
  <2>1. \/ row'[i].status = row[i].status /\ trans'[i] = trans[i]
        \/ row'[i].status \in Status /\ trans'[i] = recordJobTransition(i, row'[i].status)
    BY DEF OnlyJob
  <2> QED BY <2>1, LineageStep DEF LineageMatches, TypeOK
<1> QED BY <1>2, <1>3, <1>4, <1>5

\* Two orphans that are both the oldest are the same orphan.
LEMMA Antisymmetry ==
    ASSUME NEW i \in JobIds, NEW j \in JobIds, j <= i, i # j
    PROVE  ~ (i <= j)
OBVIOUS

\* Every step of recoverOrphanedJobs keeps the inductive invariant.
LEMMA RecoverySteps ==
    ASSUME IInv, RecoveryStep
    PROVE  IInv'
<1> USE DEF IInv, LifecycleInv
<1>0. /\ rec \in Recovery /\ rec.orphans \subseteq JobIds /\ rec.todo \subseteq Targets
      /\ lost \in [jobs: SUBSET JobIds, writes: Nat]
  BY DEF TypeOK, Recovery
<1>a. ASSUME NEW j \in JobIds
      PROVE  row[j].attempt + 1 \in Nat
  <2>1. row[j].attempt \in Nat
    BY DEF TypeOK, StoreTypeOK, Row
  <2> QED BY <2>1
<1>b. StoreTypeOK
  BY DEF TypeOK
<1>c. ASSUME NEW j \in JobIds, Orphan(j)
      PROVE  /\ phase = "recovering" /\ j \in rec.orphans /\ \A i \in rec.orphans : j <= i
             /\ rec.pc = "scan" => row[j].status = "running"
             /\ \A i \in rec.orphans \ {j} : /\ ~ \A k \in rec.orphans : i <= k
                                             /\ row[i].status = "running"
  <2>1. phase = "recovering" /\ j \in rec.orphans /\ \A i \in rec.orphans : j <= i
    BY <1>c DEF Orphan
  <2>2. ASSUME NEW i \in rec.orphans \ {j}
        PROVE  ~ (i <= j)
    <3>1. i \in JobIds /\ j <= i /\ i # j
      BY <1>0, <2>1
    <3> QED BY <3>1, Antisymmetry
  <2>3. \A i \in rec.orphans \ {j} : row[i].status = "running"
    BY <2>1, <2>2 DEF RecoveryInv
  <2>4. rec.pc = "scan" => row[j].status = "running"
    BY <2>1 DEF RecoveryInv
  <2> QED BY <2>1, <2>2, <2>3, <2>4
<1>1. ASSUME NEW j \in JobIds, RecoverRequeue(j)
      PROVE  IInv'
  <2>1. /\ phase = "recovering" /\ rec.pc = "scan" /\ j \in rec.orphans
        /\ row[j].status = "running"
        /\ UpdateJobForRecovery(j, "queued", row[j].attempt + 1, TRUE)
        /\ row[j].attempt + 1 <= MaxAttempts[row[j].target]
    BY <1>1, <1>c DEF RecoverRequeue
  <2>2. /\ StoreTypeOK' /\ OnlyJob(j) /\ SameJob(j)
        /\ row'[j].status = "queued" /\ row'[j].attempt = row[j].attempt + 1
        /\ trans'[j] = recordJobTransition(j, "queued")
        /\ attempts' = attempts /\ jobLog' = jobLog
    <3>1. "queued" \in Status
      BY DEF Status
    <3>2. row[j].attempt + 1 \in Nat /\ TRUE \in BOOLEAN
      BY <1>a
    <3>3. UpdateJobForRecovery(j, "queued", row[j].attempt + 1, TRUE)
      BY <2>1
    <3> QED BY <1>b, <3>1, <3>2, <3>3, UpdateEffect
  <2>3. /\ wk' = wk /\ phase' = phase
        /\ rec' = [rec EXCEPT !.orphans = @ \ {j}] /\ lost' = [lost EXCEPT !.jobs = @ \ {j}]
        /\ UNCHANGED <<lanes, client, requests, restarts>>
    BY <1>1 DEF RecoverRequeue, runtimeUnchanged
  <2>4. /\ rec' \in Recovery /\ lost' \in [jobs: SUBSET JobIds, writes: Nat]
        /\ rec'.orphans = rec.orphans \ {j} /\ rec'.pc = "scan"
    BY <1>0, <2>1, <2>3 DEF Recovery
  <2>5. TypeOK'
    BY <2>2, <2>3, <2>4 DEF TypeOK
  <2>6. RecoveryInv'
    <3>1. \A i \in rec'.orphans : row'[i] = row[i] /\ row[i].status = "running"
      BY <1>0, <2>1, <2>2, <2>4 DEF RecoveryInv, OnlyJob
    <3> QED BY <2>1, <2>3, <2>4, <3>1 DEF RecoveryInv
  <2>7. WorkerInv' /\ OneLiveWorkerPerJob' /\ AttemptInv' /\ OneOutcomePerJob'
        /\ LineageMatches'
    BY <2>1, <2>2, <2>3, RecoveryWriteStep DEF Status
  <2> QED BY <2>5, <2>6, <2>7
<1>2. ASSUME NEW j \in JobIds, RecoverDead(j)
      PROVE  IInv'
  <2>1. /\ phase = "recovering" /\ rec.pc = "scan" /\ j \in rec.orphans
        /\ \A i \in rec.orphans : j <= i
        /\ row[j].status = "running"
        /\ UpdateJobForRecovery(j, "dead", row[j].attempt + 1, TRUE)
    BY <1>2, <1>c DEF RecoverDead
  <2>2. /\ StoreTypeOK' /\ OnlyJob(j) /\ SameJob(j)
        /\ row'[j].status = "dead" /\ row'[j].attempt = row[j].attempt + 1
        /\ trans'[j] = recordJobTransition(j, "dead")
        /\ attempts' = attempts /\ jobLog' = jobLog
    <3>1. "dead" \in Status
      BY DEF Status, Terminal
    <3> QED BY <1>a, <1>b, <2>1, <3>1, UpdateEffect, ZenonT(60)
  <2>3. /\ wk' = wk /\ phase' = phase
        /\ rec' = [rec EXCEPT !.pc = "complete"] /\ lost' = [lost EXCEPT !.jobs = @ \ {j}]
        /\ UNCHANGED <<lanes, client, requests, restarts>>
    BY <1>2 DEF RecoverDead, runtimeUnchanged
  <2>4. /\ rec' \in Recovery /\ lost' \in [jobs: SUBSET JobIds, writes: Nat]
        /\ rec'.orphans = rec.orphans /\ rec'.pc = "complete"
    BY <1>0, <2>3 DEF Recovery
  <2>5. TypeOK'
    BY <2>2, <2>3, <2>4 DEF TypeOK
  <2>6. RecoveryInv'
    <3>1. jobLog[j] = {}
      BY <2>1 DEF OneOutcomePerJob, IsTerminal, Terminal
    <3>2. \A i \in rec.orphans \ {j} : /\ row'[i].status = "running"
                                       /\ ~ \A k \in rec.orphans : i <= k
      BY <1>0, <1>2, <1>c, <2>2 DEF RecoverDead, OnlyJob
    <3> QED BY <2>1, <2>2, <2>3, <2>4, <3>1, <3>2 DEF RecoveryInv
  <2>7. WorkerInv' /\ OneLiveWorkerPerJob' /\ AttemptInv' /\ OneOutcomePerJob'
        /\ LineageMatches'
    BY <2>1, <2>2, <2>3, RecoveryWriteStep DEF Status, Terminal
  <2> QED BY <2>5, <2>6, <2>7
<1>3. ASSUME NEW j \in JobIds, RecoverComplete(j)
      PROVE  IInv'
  <2>1. /\ phase = "recovering" /\ rec.pc = "complete" /\ j \in rec.orphans
        /\ \A i \in rec.orphans : j <= i
        /\ row[j].status = "dead" /\ jobLog[j] = {}
        /\ CompleteWithResult(j, "dead") /\ StoreTypeOK
    BY <1>3 DEF RecoverComplete, Orphan, RecoveryInv, TypeOK
  <2>2. /\ StoreTypeOK' /\ OnlyJob(j) /\ SameJob(j)
        /\ row'[j].status = "dead" /\ row'[j].attempt = row[j].attempt
        /\ trans'[j] = recordJobTransition(j, "dead")
        /\ attempts' = attempts
        /\ jobLog'[j] = jobLog[j] \cup {row[j].attempt}
    BY <2>1, CompleteEffect
  <2>3. /\ wk' = wk /\ phase' = phase
        /\ rec' = [rec EXCEPT !.pc = "hook", !.todo = hookDispatches(j, "dead")]
        /\ UNCHANGED <<lanes, client, requests, restarts, lost>>
    BY <1>3 DEF RecoverComplete, runtimeUnchanged
  <2>4. /\ rec' \in Recovery /\ rec'.orphans = rec.orphans /\ rec'.pc = "hook"
    <3>1. hookDispatches(j, "dead") \subseteq Targets
      BY HookDispatchesType DEF Terminal
    <3> QED BY <1>0, <2>3, <3>1 DEF Recovery
  <2>5. TypeOK'
    BY <2>2, <2>3, <2>4 DEF TypeOK
  <2>6. RecoveryInv'
    <3>1. \A i \in rec.orphans \ {j} : /\ row'[i].status = "running"
                                       /\ ~ \A k \in rec.orphans : i <= k
      <4>1. \A i \in rec.orphans \ {j} : /\ ~ \A k \in rec.orphans : i <= k
                                         /\ row[i].status = "running"
        BY <1>3, <1>c DEF RecoverComplete
      <4>2. \A i \in rec.orphans \ {j} : row'[i] = row[i]
        BY <1>0, <2>2 DEF OnlyJob
      <4> QED BY <4>1, <4>2
    <3> QED BY <2>1, <2>2, <2>3, <2>4, <3>1 DEF RecoveryInv
  <2>7. WorkerInv' /\ OneLiveWorkerPerJob' /\ AttemptInv' /\ OneOutcomePerJob'
        /\ LineageMatches'
    BY <2>1, <2>2, <2>3, RecoveryWriteStep DEF Status, Terminal
  <2> QED BY <2>5, <2>6, <2>7
<1>4. ASSUME NEW j \in JobIds, RecoverHook(j)
      PROVE  IInv'
  <2>1. /\ phase = "recovering" /\ rec.pc = "hook" /\ j \in rec.orphans
        /\ \A i \in rec.orphans : j <= i
        /\ phase' = phase /\ wk' = wk
        /\ UNCHANGED <<lanes, client, requests, restarts, lost>>
    BY <1>4 DEF RecoverHook, Orphan, runtimeUnchanged
  <2>2. ASSUME NEW t \in rec.todo, NEW i \in JobIds,
               InsertJob(i, t, NoKey, j, 0, "hook", FALSE),
               rec' = [rec EXCEPT !.todo = @ \ {t}]
        PROVE  IInv'
    <3>1. t \in Targets
      BY <1>0
    <3>2. /\ StoreTypeOK' /\ OnlyJob(i) /\ row[i].status = "absent"
          /\ row'[i].status = "queued" /\ row'[i].attempt = 1 /\ row'[i].target = t
          /\ trans'[i] = recordJobTransition(i, "queued")
          /\ attempts' = attempts /\ jobLog' = jobLog
      BY <2>2, <3>1, InsertJobEffect DEF TypeOK, Submitters
    <3>3. rec' \in Recovery /\ rec'.pc = rec.pc /\ rec'.orphans = rec.orphans
      BY <1>0, <2>2 DEF Recovery
    <3>4. TypeOK'
      BY <2>1, <3>2, <3>3 DEF TypeOK
    <3>5. SameHoldings /\ SameRecovery
      BY <2>1, <3>3 DEF SameHoldings, SameRecovery, WorkerInv
    <3> QED BY <3>1, <3>2, <3>4, <3>5, InsertStep
  <2>3. CASE /\ rec' = [rec EXCEPT !.pc = "scan", !.orphans = @ \ {j}]
             /\ UNCHANGED storeVars
    <3>1. rec' \in Recovery /\ rec'.pc = "scan" /\ rec'.orphans = rec.orphans \ {j}
      BY <1>0, <2>3 DEF Recovery
    <3>2. TypeOK'
      BY <2>1, <2>3, <3>1 DEF TypeOK, StoreTypeOK, storeVars
    <3>3. RecoveryInv'
      <4>1. \A i \in rec.orphans \ {j} : row[i].status = "running"
        BY <1>4, <1>c DEF RecoverHook
      <4> QED BY <2>1, <2>3, <3>1, <4>1 DEF RecoveryInv, storeVars
    <3>4. WorkerInv' /\ OneLiveWorkerPerJob' /\ AttemptInv' /\ OneOutcomePerJob'
          /\ LineageMatches'
      BY <2>1, <2>3 DEF WorkerInv, LiveWorker, OneLiveWorkerPerJob, AttemptInv,
                        OneOutcomePerJob, IsTerminal, LineageMatches, storeVars
    <3> QED BY <3>2, <3>3, <3>4
  <2> QED BY <1>4, <2>2, <2>3 DEF RecoverHook
<1>5. ASSUME NEW j \in JobIds, RecoverFails(j)
      PROVE  IInv'
  <2>1. /\ phase = "recovering" /\ j \in rec.orphans /\ \A i \in rec.orphans : j <= i
        /\ phase' = phase /\ wk' = wk /\ UNCHANGED storeVars
        /\ UNCHANGED <<lanes, client, requests, restarts>>
    BY <1>5 DEF RecoverFails, Orphan, runtimeUnchanged
  <2>2. \/ /\ rec.pc = "scan"
           /\ rec' = [rec EXCEPT !.orphans = @ \ {j}]
           /\ lost' = [jobs |-> lost.jobs \cup {j}, writes |-> lost.writes + 1]
        \/ /\ rec.pc = "complete"
           /\ rec' = [rec EXCEPT !.pc = "hook", !.todo = hookDispatches(j, "dead")]
           /\ lost' = [lost EXCEPT !.writes = @ + 1]
        \/ /\ rec.pc = "hook"
           /\ \E t \in rec.todo : rec' = [rec EXCEPT !.todo = @ \ {t}]
           /\ lost' = [lost EXCEPT !.writes = @ + 1]
    BY <1>5 DEF RecoverFails
  <2>3. lost' \in [jobs: SUBSET JobIds, writes: Nat]
    <3>1. [lost EXCEPT !.writes = @ + 1] \in [jobs: SUBSET JobIds, writes: Nat]
      BY <1>0, FaultType
    <3>2. lost.jobs \cup {j} \subseteq JobIds /\ lost.writes + 1 \in Nat
      BY <1>0
    <3> QED BY <2>2, <3>1, <3>2
  <2>4. /\ rec' \in Recovery
        /\ \/ rec.pc = "scan" /\ rec'.pc = "scan" /\ rec'.orphans = rec.orphans \ {j}
           \/ rec.pc # "scan" /\ rec'.pc = "hook" /\ rec'.orphans = rec.orphans
    <3>1. hookDispatches(j, "dead") \subseteq Targets
      BY HookDispatchesType DEF Terminal
    <3>2. CASE rec.pc = "scan" /\ rec' = [rec EXCEPT !.orphans = @ \ {j}]
      BY <1>0, <3>2 DEF Recovery
    <3>3. CASE rec.pc = "complete"
               /\ rec' = [rec EXCEPT !.pc = "hook", !.todo = hookDispatches(j, "dead")]
      BY <1>0, <3>1, <3>3 DEF Recovery
    <3>4. CASE rec.pc = "hook" /\ \E t \in rec.todo : rec' = [rec EXCEPT !.todo = @ \ {t}]
      <4>1. PICK t \in rec.todo : rec' = [rec EXCEPT !.todo = @ \ {t}]
        BY <3>4
      <4> QED BY <1>0, <3>4, <4>1 DEF Recovery
    <3> QED BY <2>2, <3>2, <3>3, <3>4
  <2>5. TypeOK'
    BY <2>1, <2>3, <2>4 DEF TypeOK, StoreTypeOK, storeVars
  <2>6. RecoveryInv'
    <3>1. \A i \in rec.orphans \ {j} : /\ ~ \A k \in rec.orphans : i <= k
                                       /\ row[i].status = "running"
      BY <1>5, <1>c DEF RecoverFails
    <3> QED BY <2>1, <2>4, <3>1 DEF RecoveryInv, storeVars
  <2>7. WorkerInv' /\ OneLiveWorkerPerJob' /\ AttemptInv' /\ OneOutcomePerJob'
        /\ LineageMatches'
    BY <2>1 DEF WorkerInv, LiveWorker, OneLiveWorkerPerJob, AttemptInv,
                OneOutcomePerJob, IsTerminal, LineageMatches, storeVars
  <2> QED BY <2>5, <2>6, <2>7
<1>6. CASE RecoverDone
  <2>1. TypeOK'
    BY <1>6 DEF RecoverDone, TypeOK, StoreTypeOK, storeVars
  <2>2. RecoveryInv' /\ AttemptInv' /\ OneOutcomePerJob' /\ LineageMatches'
        /\ OneLiveWorkerPerJob'
    BY <1>6 DEF RecoverDone, RecoveryInv, NoRecovery, AttemptInv, OneOutcomePerJob,
                IsTerminal, LineageMatches, OneLiveWorkerPerJob, storeVars
  <2>3. WorkerInv'
    BY <1>6, NobodyLive DEF RecoverDone, WorkerInv
  <2> QED BY <2>1, <2>2, <2>3
<1> QED BY <1>1, <1>2, <1>3, <1>4, <1>5, <1>6 DEF RecoveryStep

\* Start, stop, reload, crash and the clock keep the inductive invariant.
LEMMA ProcessSteps ==
    ASSUME IInv, Start \/ StopBegin \/ StopEnd \/ Reload \/ Crash \/ Clock
    PROVE  IInv'
<1> USE DEF IInv, LifecycleInv
<1>1. CASE Start \/ StopBegin \/ StopEnd \/ Reload \/ Crash
  <2>1. UNCHANGED storeVars /\ UNCHANGED <<requests, lost>> /\ restarts' \in Nat
    BY <1>1 DEF Start, StopBegin, StopEnd, Reload, Crash, CancelContext, StartRecovery,
                TypeOK
  <2>2. /\ lanes' \in [counted: BOOLEAN, skip: SUBSET Plugins]
        /\ client' \in [Clients -> ClientState]
        /\ phase' \in {"down", "recovering", "up", "stopping"}
    <3>1. IdleClient \in ClientState
      BY DEF ClientState, IdleClient, NoRequest, Request, AnyTarget
    <3>2. lanes' \in {lanes, Uncounted} /\ client' \in {client, [c \in Clients |-> IdleClient]}
      BY <1>1 DEF Start, StopBegin, StopEnd, Reload, Crash, CancelContext
    <3>3. phase' \in {"down", "recovering", "up", "stopping"}
      BY <1>1 DEF Start, StopBegin, StopEnd, Reload, Crash, StartRecovery
    <3>4. Uncounted \in [counted: BOOLEAN, skip: SUBSET Plugins]
      BY DEF Uncounted
    <3> QED BY <3>1, <3>2, <3>3, <3>4 DEF TypeOK
  <2>3. wk' \in [Workers -> WorkerState] /\ \A w \in Workers : ~wk'[w].live
    <3>1. CASE Start \/ StopEnd
      BY <3>1, NobodyLive DEF Start, StopEnd, TypeOK
    <3>2. CASE StopBegin \/ Reload
      <4>1. ASSUME NEW w \in Workers
            PROVE  /\ [wk[w] EXCEPT !.live = FALSE] \in WorkerState
                   /\ [wk[w] EXCEPT !.live = FALSE].live = FALSE
        <5>1. wk[w] \in WorkerState
          BY DEF TypeOK
        <5> QED BY <5>1 DEF WorkerState
      <4>2. wk' = [w \in Workers |-> [wk[w] EXCEPT !.live = FALSE]]
        BY <3>2 DEF StopBegin, Reload, CancelContext
      <4> QED BY <4>1, <4>2
    <3>3. CASE Crash
      BY <3>3, IdleType DEF Crash, Idle
    <3> QED BY <1>1, <3>1, <3>2, <3>3
  <2>4. /\ rec' \in Recovery
        /\ \/ rec' = NoRecovery
           \/ /\ phase' = "recovering" /\ rec'.pc = "scan"
              /\ rec'.orphans = {j \in JobIds : row[j].status = "running"}
    <3>1. NoRecovery \in Recovery
      BY DEF NoRecovery, Recovery
    <3>2. CASE StopBegin \/ StopEnd \/ Crash
      BY <3>1, <3>2 DEF StopBegin, StopEnd, Crash, RecoveryInv
    <3>3. CASE StartRecovery
      BY <3>3 DEF StartRecovery, NoRecovery, Recovery
    <3> QED BY <1>1, <3>2, <3>3 DEF Start, Reload
  <2>5. TypeOK'
    BY <2>1, <2>2, <2>3, <2>4 DEF TypeOK, StoreTypeOK, storeVars
  <2>6. WorkerInv' /\ OneLiveWorkerPerJob'
    BY <2>3 DEF WorkerInv, OneLiveWorkerPerJob
  <2>7. OneOutcomePerJob'
    BY <2>1, <2>3 DEF OneOutcomePerJob, IsTerminal, storeVars
  <2>8. RecoveryInv'
    BY <2>1, <2>4 DEF RecoveryInv, NoRecovery, storeVars
  <2>9. AttemptInv' /\ LineageMatches'
    BY <2>1 DEF AttemptInv, LineageMatches, storeVars
  <2> QED BY <2>5, <2>6, <2>7, <2>8, <2>9
<1>2. CASE Clock
  <2>1. PICK j \in JobIds : RetryBecomesDue(j) \/ DedupeWindowExpires(j)
    BY <1>2 DEF Clock
  <2>2. /\ StoreTypeOK'
        /\ \A i \in JobIds : /\ row'[i].status = row[i].status
                             /\ row'[i].attempt = row[i].attempt
                             /\ SameJob(i)
        /\ trans' = trans /\ attempts' = attempts /\ jobLog' = jobLog
    BY <2>1, ClockEffect DEF TypeOK
  <2>3. TypeOK'
    BY <1>2, <2>2 DEF Clock, TypeOK
  <2>4. SameHoldings /\ SameRecovery
    BY <1>2 DEF Clock, SameHoldings, SameRecovery, WorkerInv
  <2> QED BY <2>2, <2>3, <2>4, QuietStep DEF SameJob
<1> QED BY <1>1, <1>2

-----------------------------------------------------------------------------

\* The empty store and the stopped gateway satisfy the inductive invariant.
LEMMA IInvInit == Init => IInv
<1> SUFFICES ASSUME Init PROVE IInv
  OBVIOUS
<1> USE DEF Init, StoreInit
<1> DEFINE t0 == CHOOSE t \in Targets : TRUE
<1>1. t0 \in Targets
  OBVIOUS
<1>2. NoRow(t0) \in Row /\ NoRow(t0).status = "absent"
  BY <1>1 DEF NoRow, Row, Submitters
<1>3. row = [j \in JobIds |-> NoRow(t0)]
  OBVIOUS
<1> HIDE DEF t0
<1>4. StoreTypeOK
  <2>1. row \in [JobIds -> Row]
    BY <1>2, <1>3
  <2>2. <<>> \in Seq([from: Status \cup {"absent"}, to: Status])
    BY EmptySeq
  <2>3. trans \in [JobIds -> Seq([from: Status \cup {"absent"}, to: Status])]
    BY <2>2
  <2> QED BY <2>1, <2>3 DEF StoreTypeOK
<1>5. TypeOK
  <2>1. IdleClient \in ClientState
    BY DEF ClientState, IdleClient, NoRequest, Request, AnyTarget
  <2> QED BY <1>4, <2>1, IdleType DEF TypeOK, NoRecovery, Recovery, Uncounted
<1>6. WorkerInv /\ OneLiveWorkerPerJob
  BY DEF WorkerInv, OneLiveWorkerPerJob, Idle
<1>7. AttemptInv /\ OneOutcomePerJob
  BY <1>2, <1>3 DEF AttemptInv, OneOutcomePerJob
<1>8. RecoveryInv
  BY DEF RecoveryInv, NoRecovery
<1>9. LineageMatches
  BY <1>2, <1>3, EmptySeq DEF LineageMatches, ChainTo
<1> QED BY <1>5, <1>6, <1>7, <1>8, <1>9 DEF IInv, LifecycleInv

\* Every step of the gateway keeps the inductive invariant.
LEMMA IInvNext == IInv /\ [Next]_vars => IInv'
<1> SUFFICES ASSUME IInv, [Next]_vars PROVE IInv'
  OBVIOUS
<1>1. CASE Next
  BY <1>1, ClientSteps, CancelStep, LoopSteps, WorkerSteps, RecoverySteps, ProcessSteps
     DEF Next
<1>2. CASE UNCHANGED vars
  BY <1>2 DEF vars, storeVars, IInv, TypeOK, StoreTypeOK, LifecycleInv, WorkerInv,
              LiveWorker, OneLiveWorkerPerJob, AttemptInv, OneOutcomePerJob, IsTerminal,
              RecoveryInv, LineageMatches
<1> QED BY <1>1, <1>2

\* The inductive invariant: types, the claims of live workers, the numbering
\* of attempts, the outcome log, recovery's list and the transition log hold
\* together through every interleaving of Dispatcher.
THEOREM Invariance == Spec => []IInv
BY IInvInit, IInvNext, PTL DEF Spec

\* Every table and every piece of runtime state keeps its type.
THEOREM TypeCorrect == Spec => []TypeOK
BY Invariance, PTL DEF IInv

\* job_transitions is, for every job, an unbroken chain that ends in the
\* status job_queue caches.
THEOREM LineageCorrect == Spec => []LineageMatches
<1>1. IInv => LineageMatches
  BY DEF IInv, LifecycleInv
<1> QED BY <1>1, Invariance, PTL

\* No two goroutines of one runtime ever execute the same job.
THEOREM ExclusiveExecution == Spec => []OneLiveWorkerPerJob
<1>1. IInv => OneLiveWorkerPerJob
  BY DEF IInv, LifecycleInv
<1> QED BY <1>1, Invariance, PTL

\* A claim is never refused by UNIQUE(job_id, attempt).
THEOREM ClaimsSucceed == Spec => []ClaimNeverWedges
<1>1. IInv => ClaimNeverWedges
  BY DEF IInv, LifecycleInv, AttemptInv, ClaimNeverWedges
<1> QED BY <1>1, Invariance, PTL

\* Worker retries and crash recoveries together never execute a job more
\* often than its max_attempts.
THEOREM BudgetKept == Spec => []AttemptBudget
<1>1. IInv => AttemptBudget
  <2> SUFFICES ASSUME IInv, NEW j \in JobIds, row[j].status # "absent"
               PROVE  /\ attempts[j] \subseteq 1 .. MaxAttempts[row[j].target]
                      /\ row[j].attempt > MaxAttempts[row[j].target] => row[j].status = "dead"
    BY DEF AttemptBudget, Present
  <2>1. attempts[j] \subseteq Nat /\ MaxAttempts[row[j].target] \in Nat
    BY DEF IInv, TypeOK, StoreTypeOK, Row
  <2> QED BY <2>1 DEF IInv, LifecycleInv, AttemptInv
<1> QED BY <1>1, Invariance, PTL

\* A job gets at most one outcome in job_log, and gets it last.
THEOREM OutcomeIsFinal == Spec => []OneOutcomePerJob
<1>1. IInv => OneOutcomePerJob
  BY DEF IInv, LifecycleInv
<1> QED BY <1>1, Invariance, PTL

-----------------------------------------------------------------------------
(* What a step of the gateway does to the rows of job_queue, whoever takes *)
(* it: the properties below are proved from these six kinds of step.       *)

\* No status and no attempt number changes.
RowsKept == \A i \in JobIds : /\ row'[i].status = row[i].status
                              /\ row'[i].attempt = row[i].attempt
                              /\ SameJob(i)

\* One row is inserted: by a producer, by a live worker below its own job, or by
\* recovery for a hook.
Enqueued(i) ==
    /\ OnlyJob(i)
    /\ row[i].status = "absent" /\ row'[i].status = "queued" /\ row'[i].attempt = 1
    /\ row'[i].target \in Targets
    /\ \/ \E c \in Clients : /\ ClientInsert(c)
                             /\ row'[i].target = client[c].req.target
                             /\ row'[i].key = client[c].req.key
                             /\ row'[i].parent = NoJob
       \/ \E w \in Workers : /\ wk[w].live /\ row'[i].parent = wk[w].job
                             /\ row'[i].key \in {NoKey, EventKey[TargetOf(w)]}
       \/ phase = "recovering" /\ row'[i].by = "hook" /\ row'[i].key = NoKey

\* One row is claimed.
Claimed(i) ==
    /\ OnlyJob(i) /\ SameJob(i)
    /\ row[i].status = "queued" /\ row'[i].status = "running"
    /\ row'[i].attempt = row[i].attempt
    /\ \E w \in Workers : StartWorker(w, i)

\* The last write of worker w: its job is queued again, or completed.
Ended(w) ==
    /\ wk[w].live /\ OnlyJob(wk[w].job) /\ SameJob(wk[w].job)
    /\ wk' = [wk EXCEPT ![w] = Idle]
    /\ \/ /\ row'[wk[w].job].status = "queued"
          /\ row[wk[w].job].attempt < MaxAttempts[row[wk[w].job].target]
          /\ row'[wk[w].job].attempt = row[wk[w].job].attempt + 1
       \/ /\ row'[wk[w].job].status \in Terminal
          /\ row'[wk[w].job].attempt = row[wk[w].job].attempt
          /\ row'[wk[w].job].status = "succeeded" =>
               wk[w].pc = "hook" /\ wk[w].out = "succeeded"

\* A write of recovery to the orphan in hand.
Recovered(j) ==
    /\ OnlyJob(j) /\ SameJob(j) /\ phase = "recovering"
    /\ \/ /\ row[j].status = "running" /\ row'[j].status = "queued"
          /\ row[j].attempt < MaxAttempts[row[j].target]
          /\ row'[j].attempt = row[j].attempt + 1
       \/ /\ row[j].status = "running" /\ row'[j].status = "dead"
          /\ row[j].attempt >= MaxAttempts[row[j].target]
          /\ row'[j].attempt = row[j].attempt + 1
       \/ /\ row[j].status = "dead" /\ row'[j].status = "dead"
          /\ row'[j].attempt = row[j].attempt

\* Outstanding rows are cancelled.
Cancelled ==
    /\ CancelTargets # {}
    /\ \A i \in JobIds :
         /\ SameJob(i) /\ row'[i].attempt = row[i].attempt
         /\ \/ row'[i].status = row[i].status
            \/ Outstanding(i) /\ row'[i].status = "dead"

RowEffect ==
    \/ RowsKept
    \/ \E i \in JobIds : Enqueued(i) \/ Claimed(i) \/ Recovered(i)
    \/ \E w \in Workers : Ended(w)
    \/ Cancelled

\* A step that leaves the store alone leaves the rows alone.
LEMMA StoreKept == ASSUME UNCHANGED storeVars PROVE RowsKept
BY DEF storeVars, RowsKept, SameJob

\* The steps of executeJob that end in a write of its own job's row.
EndsJob(w) == WorkerAbort(w) \/ WorkerRetry(w) \/ WorkerRetryFails(w) \/ RouteFail(w) \/ WorkerFinish(w)

\* Each of them ends the worker and writes that row only.
LEMMA WorkerEnds ==
    ASSUME IInv, NEW w \in Workers, EndsJob(w)
    PROVE  Ended(w)
<1> DEFINE j == wk[w].job
<1>0. TypeOK /\ StoreTypeOK
  BY DEF IInv, TypeOK
<1>1. wk[w].live => /\ j \in JobIds /\ wk[w].attempt = row[j].attempt
                    /\ row[j].target \in Targets /\ row[j].attempt \in Nat
  BY DEF IInv, LifecycleInv, WorkerInv, LiveWorker, TypeOK, StoreTypeOK, Row
<1>2. wk[w] \in WorkerState
  BY <1>0 DEF TypeOK
<1>3. ASSUME NEW status, CompleteWithResult(j, status), wk[w].live, wk' = [wk EXCEPT ![w] = Idle],
             status = "succeeded" => wk[w].pc = "hook" /\ wk[w].out = "succeeded"
      PROVE  Ended(w)
  <2>1. /\ OnlyJob(j) /\ SameJob(j) /\ status \in Terminal
        /\ row'[j].status = status /\ row'[j].attempt = row[j].attempt
    <3>1. j \in JobIds
      BY <1>1, <1>3
    <3> HIDE DEF j
    <3> QED BY <1>0, <1>3, <3>1, CompleteEffect
  <2> QED BY <1>3, <2>1 DEF Ended
<1>4. CASE WorkerAbort(w) \/ RouteFail(w)
  BY <1>3, <1>4 DEF WorkerAbort, RouteFail, completeJob, Running, JobOf
<1>5. CASE WorkerRetryFails(w)
  BY <1>3, <1>5 DEF WorkerRetryFails, Running, JobOf
<1>6. CASE WorkerFinish(w)
  BY <1>3, <1>6 DEF WorkerFinish, completeJob, Running, JobOf
<1>7. CASE WorkerRetry(w)
  <2>1. /\ wk[w].live /\ row[j].attempt < MaxAttempts[row[j].target]
        /\ UpdateJobForRecovery(j, "queued", row[j].attempt + 1, FALSE)
        /\ wk' = [wk EXCEPT ![w] = Idle]
    BY <1>1, <1>7 DEF WorkerRetry, Running, TargetOf, JobOf
  <2>2. /\ OnlyJob(j) /\ SameJob(j)
        /\ row'[j].status = "queued" /\ row'[j].attempt = row[j].attempt + 1
    <3>1. row[j].attempt + 1 \in Nat /\ "queued" \in Status
      BY <1>1, <2>1 DEF Status
    <3>2. j \in JobIds /\ UpdateJobForRecovery(j, "queued", row[j].attempt + 1, FALSE)
      BY <1>1, <2>1
    <3> HIDE DEF j
    <3> QED BY <1>0, <3>1, <3>2, UpdateEffect
  <2> QED BY <2>1, <2>2 DEF Ended
<1> QED BY <1>4, <1>5, <1>6, <1>7 DEF EndsJob

\* Every step of a worker (executeJob) is one of the six.
LEMMA WorkerRowEffect ==
    ASSUME IInv, NEW w \in Workers, WorkerStep(w)
    PROVE  RowEffect
<1> DEFINE j == wk[w].job
<1>0. TypeOK /\ StoreTypeOK
  BY DEF IInv, TypeOK
<1>1. wk[w].live => /\ j \in JobIds /\ wk[w].attempt = row[j].attempt
                    /\ row[j].target \in Targets /\ row[j].attempt \in Nat
  BY DEF IInv, LifecycleInv, WorkerInv, LiveWorker, TypeOK, StoreTypeOK, Row
<1>2. wk[w] \in WorkerState
  BY <1>0 DEF TypeOK
<1>3. CASE EndsJob(w)
  BY <1>3, WorkerEnds DEF RowEffect
<1>8. ASSUME NEW i \in JobIds, NEW t \in Targets, NEW k \in {NoKey, EventKey[TargetOf(w)]}, k \in Keys \cup {NoKey},
             NEW src \in Nat, NEW by \in Submitters, NEW ctx \in BOOLEAN,
             InsertJob(i, t, k, j, src, by, ctx), wk[w].live
      PROVE  RowEffect
  <2>1. j \in JobIds \cup {NoJob}
    BY <1>1, <1>8
  <2>2. /\ OnlyJob(i) /\ row[i].status = "absent" /\ row'[i].status = "queued" /\ row'[i].attempt = 1
        /\ row'[i].target = t /\ row'[i].key = k /\ row'[i].parent = j
    <3>1. StoreTypeOK /\ k \in Keys \cup {NoKey} /\ InsertJob(i, t, k, j, src, by, ctx) /\ j \in JobIds \cup {NoJob}
      BY <1>0, <1>8, <2>1
    <3> HIDE DEF j
    <3> QED BY <3>1, InsertJobEffect
  <2> QED BY <1>8, <2>2 DEF RowEffect, Enqueued
<1>9. CASE RouteInsert(w)
  <2>1. /\ wk[w].next \in Targets /\ EventKey[TargetOf(w)] \in Keys \cup {NoKey} /\ wk[w].live
        /\ sourceEventID(w) \in Nat
    BY <1>1, <1>2, <1>9 DEF RouteInsert, Running, WorkerState, TargetOf, sourceEventID, JobOf
  <2>2. \/ \E i \in JobIds : InsertJob(i, wk[w].next, EventKey[TargetOf(w)], j, sourceEventID(w), "route", TRUE)
        \/ UNCHANGED storeVars
    BY <1>9 DEF RouteInsert, JobOf
  <2>3. "route" \in Submitters /\ TRUE \in BOOLEAN
    BY DEF Submitters
  <2> QED BY <1>8, <2>1, <2>2, <2>3, StoreKept DEF RowEffect
<1>10. CASE HookEnqueue(w)
  <2>1. PICK t \in wk[w].todo : (\E i \in JobIds : InsertJob(i, t, NoKey, j, 0, "hook", FALSE)) \/ UNCHANGED storeVars
    BY <1>10 DEF HookEnqueue, JobOf
  <2>2. t \in Targets /\ wk[w].live /\ "hook" \in Submitters /\ FALSE \in BOOLEAN
    BY <1>2, <1>10 DEF HookEnqueue, Running, WorkerState, Submitters
  <2> QED BY <1>8, <2>1, <2>2, StoreKept DEF RowEffect
<1>11. CASE UNCHANGED storeVars
  BY <1>11, StoreKept DEF RowEffect
<1> QED BY <1>3, <1>9, <1>10, <1>11
        DEF WorkerStep, EndsJob, WorkerGiveUp, WorkerSucceed, RouteAdmit, RouteLookup, RouteDone, CompletionFails, WorkerAbandon

\* Every step of recoverOrphanedJobs is one of the six.
LEMMA RecoveryRowEffect ==
    ASSUME IInv, RecoveryStep
    PROVE  RowEffect
<1>0. TypeOK /\ StoreTypeOK /\ RecoveryInv /\ rec.orphans \subseteq JobIds /\ rec.todo \subseteq Targets
  BY DEF IInv, LifecycleInv, TypeOK, Recovery
<1>1. ASSUME NEW j \in JobIds PROVE row[j].attempt \in Nat /\ MaxAttempts[row[j].target] \in Nat
  BY <1>0 DEF StoreTypeOK, Row
<1>2. ASSUME NEW j \in JobIds, Orphan(j)
      PROVE  /\ phase = "recovering"
             /\ rec.pc = "scan" => row[j].status = "running"
             /\ rec.pc # "scan" => row[j].status = "dead"
  BY <1>0, <1>2 DEF Orphan, RecoveryInv
<1>3. ASSUME NEW j \in JobIds, RecoverRequeue(j) PROVE RowEffect
  <2>1. /\ row[j].status = "running" /\ phase = "recovering" /\ row[j].attempt + 1 <= MaxAttempts[row[j].target]
        /\ UpdateJobForRecovery(j, "queued", row[j].attempt + 1, TRUE)
    BY <1>2, <1>3 DEF RecoverRequeue
  <2>2. row[j].attempt + 1 \in Nat /\ "queued" \in Status /\ TRUE \in BOOLEAN /\ row[j].attempt < MaxAttempts[row[j].target]
    BY <1>1, <2>1 DEF Status
  <2>3. /\ OnlyJob(j) /\ SameJob(j)
        /\ row'[j].status = "queued" /\ row'[j].attempt = row[j].attempt + 1
    BY <1>0, <2>1, <2>2, UpdateEffect
  <2> QED BY <2>1, <2>2, <2>3 DEF RowEffect, Recovered
<1>4. ASSUME NEW j \in JobIds, RecoverDead(j) PROVE RowEffect
  <2>1. /\ row[j].status = "running" /\ phase = "recovering" /\ row[j].attempt + 1 > MaxAttempts[row[j].target]
        /\ UpdateJobForRecovery(j, "dead", row[j].attempt + 1, TRUE)
    BY <1>2, <1>4 DEF RecoverDead
  <2>2. row[j].attempt + 1 \in Nat /\ "dead" \in Status /\ TRUE \in BOOLEAN /\ row[j].attempt >= MaxAttempts[row[j].target]
    BY <1>1, <2>1 DEF Status, Terminal
  <2>3. /\ OnlyJob(j) /\ SameJob(j)
        /\ row'[j].status = "dead" /\ row'[j].attempt = row[j].attempt + 1
    BY <1>0, <2>1, <2>2, UpdateEffect
  <2> QED BY <2>1, <2>2, <2>3 DEF RowEffect, Recovered
<1>5. ASSUME NEW j \in JobIds, RecoverComplete(j) PROVE RowEffect
  <2>1. row[j].status = "dead" /\ phase = "recovering" /\ CompleteWithResult(j, "dead")
    BY <1>2, <1>5 DEF RecoverComplete
  <2>2. /\ OnlyJob(j) /\ SameJob(j)
        /\ row'[j].status = "dead" /\ row'[j].attempt = row[j].attempt
    BY <1>0, <2>1, CompleteEffect
  <2> QED BY <2>1, <2>2 DEF RowEffect, Recovered
<1>6. ASSUME NEW j \in JobIds, RecoverHook(j) PROVE RowEffect
  <2>1. CASE UNCHANGED storeVars
    BY <2>1, StoreKept DEF RowEffect
  <2>2. ASSUME NEW t \in rec.todo, NEW i \in JobIds, InsertJob(i, t, NoKey, j, 0, "hook", FALSE)
        PROVE  RowEffect
    <3>1. t \in Targets /\ phase = "recovering" /\ j \in JobIds \cup {NoJob} /\ "hook" \in Submitters
          /\ NoKey \in Keys \cup {NoKey} /\ 0 \in Nat /\ FALSE \in BOOLEAN
      BY <1>0, <1>2, <1>6 DEF RecoverHook, Submitters
    <3>2. /\ OnlyJob(i) /\ row[i].status = "absent" /\ row'[i].status = "queued" /\ row'[i].attempt = 1
          /\ row'[i].target = t /\ row'[i].key = NoKey /\ row'[i].by = "hook"
      <4>1. PICK k, src, by, ctx : k = NoKey /\ src = 0 /\ by = "hook" /\ ctx = FALSE
        OBVIOUS
      <4>2. /\ StoreTypeOK /\ k \in Keys \cup {NoKey} /\ src \in Nat /\ by \in Submitters /\ ctx \in BOOLEAN
            /\ InsertJob(i, t, k, j, src, by, ctx)
        BY <1>0, <2>2, <3>1, <4>1
      <4>3. /\ OnlyJob(i) /\ row[i].status = "absent" /\ row'[i].status = "queued" /\ row'[i].attempt = 1
            /\ row'[i].target = t /\ row'[i].key = k /\ row'[i].by = by
        BY <3>1, <4>2, InsertJobEffect
      <4> QED BY <4>1, <4>3
    <3> QED BY <3>1, <3>2 DEF RowEffect, Enqueued
  <2> QED BY <1>6, <2>1, <2>2 DEF RecoverHook
<1>7. CASE UNCHANGED storeVars
  BY <1>7, StoreKept DEF RowEffect
<1> QED BY <1>3, <1>4, <1>5, <1>6, <1>7 DEF RecoveryStep, RecoverFails, RecoverDone

\* Every step of the gateway is one of the six.
LEMMA RowEffects == ASSUME IInv, [Next]_vars PROVE RowEffect
<1>0. TypeOK /\ StoreTypeOK
  BY DEF IInv, TypeOK
<1>1. CASE UNCHANGED storeVars
  BY <1>1, StoreKept DEF RowEffect
<1>2. ASSUME NEW c \in Clients, ClientInsert(c) PROVE RowEffect
  <2>1. PICK j \in JobIds : InsertJob(j, client[c].req.target, client[c].req.key,
                                      NoJob, 0, "client", client[c].req.ctx)
    BY <1>2 DEF ClientInsert
  <2>2. /\ client[c].req.target \in Targets /\ client[c].req.key \in Keys \cup {NoKey}
        /\ client[c].req.ctx \in BOOLEAN /\ "client" \in Submitters /\ NoJob \in JobIds \cup {NoJob} /\ 0 \in Nat
    BY <1>0 DEF TypeOK, ClientState, Request, Submitters
  <2>3. /\ OnlyJob(j) /\ row[j].status = "absent" /\ row'[j].status = "queued" /\ row'[j].attempt = 1
        /\ row'[j].target = client[c].req.target /\ row'[j].key = client[c].req.key /\ row'[j].parent = NoJob
    BY <1>0, <2>1, <2>2, InsertJobEffect
  <2> QED BY <1>2, <2>2, <2>3 DEF RowEffect, Enqueued
<1>3. ASSUME NEW t \in Targets, SchedulerCancel(t) PROVE RowEffect
  <2>1. t \in CancelTargets /\ CancelOutstandingJobs(t)
    BY <1>3 DEF SchedulerCancel
  <2>2. \A j \in JobIds : \/ row'[j] = row[j]
                          \/ /\ SameJob(j) /\ Outstanding(j)
                             /\ row'[j].status = "dead" /\ row'[j].attempt = row[j].attempt
    BY <1>0, <2>1, CancelEffect
  <2>3. Cancelled
    BY <2>1, <2>2 DEF Cancelled, SameJob
  <2> QED BY <2>3 DEF RowEffect
<1>4. ASSUME NEW w \in Workers, NEW j \in JobIds, StartWorker(w, j) PROVE RowEffect
  <2>1. /\ OnlyJob(j) /\ SameJob(j) /\ row[j].status = "queued"
        /\ row'[j].status = "running" /\ row'[j].attempt = row[j].attempt
    BY <1>0, <1>4, DequeueEffect DEF StartWorker
  <2> QED BY <1>4, <2>1 DEF RowEffect, Claimed
<1>5. CASE Clock
  <2>1. RowsKept
    BY <1>0, <1>5, ClockEffect DEF Clock, RowsKept
  <2> QED BY <2>1 DEF RowEffect
<1>6. ASSUME NEW c \in Clients, ClientStep(c) PROVE RowEffect
  BY <1>1, <1>2, <1>6 DEF ClientStep, ClientRequest, ClientLookup
<1>7. CASE LoopStep
  BY <1>1, <1>4, <1>7 DEF LoopStep, CountLanes, NoEligibleWork
<1>8. CASE Start \/ StopBegin \/ StopEnd \/ Reload \/ Crash
  BY <1>1, <1>8 DEF Start, StopBegin, StopEnd, Reload, Crash, CancelContext
<1>9. CASE UNCHANGED vars
  BY <1>1, <1>9 DEF vars
<1> QED BY <1>3, <1>5, <1>6, <1>7, <1>8, <1>9, WorkerRowEffect, RecoveryRowEffect DEF Next

-----------------------------------------------------------------------------
(* The lanes of fillWorkers *)

\* The rows of a plugin that run, and what fillWorkers may rely on between its count
\* and its claim: a plugin it does not skip still has room.
RunningOf(p) == {j \in JobIds : row[j].status = "running" /\ PluginOf[row[j].target] = p}
LanesInv ==
    /\ KeysSerialised
    /\ \A p \in Plugins : Cardinality(RunningOf(p)) <= Parallelism[p]
    /\ lanes.counted => \A p \in Plugins \ lanes.skip : Cardinality(RunningOf(p)) < Parallelism[p]

\* The running rows of a plugin can be counted.
LEMMA RunningFinite ==
    ASSUME NEW p
    PROVE  IsFiniteSet(RunningOf(p)) /\ Cardinality(RunningOf(p)) \in Nat
<1>1. IsFiniteSet(1 .. MaxJobs)
  BY FS_Interval
<1>2. RunningOf(p) \subseteq 1 .. MaxJobs
  BY DEF RunningOf
<1> QED BY <1>1, <1>2, FS_Subset, FS_CardinalityType

\* What the loop may do to its count.
LEMMA LanesChange ==
    ASSUME [Next]_vars
    PROVE  lanes' = lanes \/ lanes' = Uncounted \/ CountLanes
<1>1. CASE Next
  <2>1. ASSUME NEW c \in Clients, ClientStep(c) PROVE lanes' = lanes
    BY <2>1 DEF ClientStep, ClientRequest, ClientLookup, ClientInsert
  <2>2. ASSUME NEW t \in Targets, SchedulerCancel(t) PROVE lanes' = lanes
    BY <2>2 DEF SchedulerCancel
  <2>3. CASE LoopStep
    BY <2>3 DEF LoopStep, NoEligibleWork, StartWorker
  <2>4. ASSUME NEW w \in Workers, WorkerStep(w) PROVE lanes' = lanes
    BY <2>4 DEF WorkerStep, WorkerAbort, WorkerRetry, WorkerRetryFails, WorkerGiveUp, WorkerSucceed, RouteAdmit,
                RouteLookup, RouteInsert, RouteFail, RouteDone, HookEnqueue, WorkerFinish, CompletionFails,
                WorkerAbandon, restUnchanged
  <2>5. CASE RecoveryStep
    BY <2>5 DEF RecoveryStep, RecoverRequeue, RecoverDead, RecoverComplete, RecoverHook, RecoverFails, RecoverDone,
                runtimeUnchanged
  <2>6. CASE Start \/ StopBegin \/ StopEnd \/ Reload \/ Crash \/ Clock
    BY <2>6 DEF Start, StopBegin, StopEnd, Reload, Crash, Clock, CancelContext
  <2> QED BY <1>1, <2>1, <2>2, <2>3, <2>4, <2>5, <2>6 DEF Next
<1>2. CASE UNCHANGED vars
  BY <1>2 DEF vars
<1> QED BY <1>1, <1>2

\* Only a claim makes a row run, and no step changes its key or its target.
LEMMA RunningGrows ==
    ASSUME IInv, RowEffect, \A i \in JobIds : ~Claimed(i)
    PROVE  \A j \in JobIds : row'[j].status = "running" =>
             row[j].status = "running" /\ row'[j].target = row[j].target /\ row'[j].key = row[j].key
<1> SUFFICES ASSUME NEW j \in JobIds, row'[j].status = "running"
             PROVE  row[j].status = "running" /\ row'[j].target = row[j].target /\ row'[j].key = row[j].key
  OBVIOUS
<1>1. CASE RowsKept
  BY <1>1 DEF RowsKept, SameJob
<1>2. ASSUME NEW i \in JobIds, Enqueued(i) \/ Recovered(i)
      PROVE  row[j].status = "running" /\ row'[j].target = row[j].target /\ row'[j].key = row[j].key
  BY <1>2 DEF Enqueued, Recovered, OnlyJob
<1>3. ASSUME NEW w \in Workers, Ended(w)
      PROVE  row[j].status = "running" /\ row'[j].target = row[j].target /\ row'[j].key = row[j].key
  BY <1>3 DEF Ended, OnlyJob, Terminal
<1>4. CASE Cancelled
  BY <1>4 DEF Cancelled, SameJob, Outstanding
<1> QED BY <1>1, <1>2, <1>3, <1>4 DEF RowEffect

\* Every step keeps the lanes: only a claim makes a row run, and it was counted for.
LEMMA LanesNext == ASSUME IInv, LanesInv, [Next]_vars PROVE LanesInv'
<1>0. RowEffect /\ StoreTypeOK
  BY RowEffects DEF IInv, TypeOK
<1>1. \A p \in Plugins : Parallelism[p] \in Nat
  OBVIOUS
<1>2. \A p : IsFiniteSet(RunningOf(p)) /\ Cardinality(RunningOf(p)) \in Nat
  BY RunningFinite
<1>3. CASE \A i \in JobIds : ~Claimed(i)
  <2>1. \A j \in JobIds : row'[j].status = "running" =>
           row[j].status = "running" /\ row'[j].target = row[j].target /\ row'[j].key = row[j].key
    BY <1>0, <1>3, RunningGrows
  <2>2. KeysSerialised'
    BY <2>1 DEF LanesInv, KeysSerialised, SameKeyAndTarget
  <2>3. \A p : RunningOf(p)' \subseteq RunningOf(p)
    BY <2>1 DEF RunningOf
  <2>4. \A p : Cardinality(RunningOf(p)') \in Nat /\ Cardinality(RunningOf(p)') <= Cardinality(RunningOf(p))
    BY <1>2, <2>3, FS_Subset, FS_CardinalityType
  <2>5. \A p \in Plugins : Cardinality(RunningOf(p)') <= Parallelism[p]
    BY <1>1, <1>2, <2>4 DEF LanesInv
  <2>6. ASSUME lanes'.counted, NEW p \in Plugins \ lanes'.skip
        PROVE  Cardinality(RunningOf(p)') < Parallelism[p]
    <3>1. CASE lanes' = lanes
      BY <1>1, <1>2, <2>4, <2>6, <3>1 DEF LanesInv
    <3>2. CASE lanes' = Uncounted
      BY <2>6, <3>2 DEF Uncounted
    <3>3. CASE CountLanes
      <4>1. ~(RunningCountsByPlugin(p) >= Parallelism[p])
        BY <2>6, <3>3 DEF CountLanes
      <4>2. RunningCountsByPlugin(p) = Cardinality(RunningOf(p))
        BY DEF RunningCountsByPlugin, RunningOf
      <4> QED BY <1>1, <1>2, <2>4, <4>1, <4>2
    <3> QED BY <3>1, <3>2, <3>3, LanesChange
  <2> QED BY <2>2, <2>5, <2>6 DEF LanesInv
<1>4. ASSUME NEW i \in JobIds, Claimed(i) PROVE LanesInv'
  <2>1. PICK w \in Workers : StartWorker(w, i)
    BY <1>4 DEF Claimed
  <2>2. /\ OnlyJob(i) /\ SameJob(i) /\ row[i].status = "queued" /\ row'[i].status = "running"
    BY <1>4 DEF Claimed
  <2>3. /\ lanes.counted /\ lanes' = Uncounted /\ PluginOf[row[i].target] \notin lanes.skip
        /\ row[i].key = NoKey \/ \A r \in JobIds : ~ (row[r].status = "running" /\ SameKeyAndTarget(r, row[i].target, row[i].key))
    BY <2>1 DEF StartWorker, DequeueEligible, Eligible
  <2>4. PICK q : q = PluginOf[row[i].target]
    OBVIOUS
  <2>5. q \in Plugins
    BY <1>0, <2>4 DEF StoreTypeOK, Row
  <2>6. \A j \in JobIds \ {i} : row'[j] = row[j]
    BY <2>2 DEF OnlyJob
  <2>7. KeysSerialised'
    <3> SUFFICES ASSUME NEW j \in JobIds, NEW k \in JobIds, row'[j].status = "running", row'[k].status = "running",
                        row'[j].key # NoKey, row'[j].key = row'[k].key, row'[j].target = row'[k].target, j # k
                 PROVE  FALSE
      BY DEF KeysSerialised, SameKeyAndTarget
    <3>1. row'[i].key = row[i].key /\ row'[i].target = row[i].target
      BY <2>2 DEF SameJob
    <3>2. CASE j = i
      BY <2>3, <2>6, <3>1, <3>2 DEF SameKeyAndTarget
    <3>3. CASE k = i
      BY <2>3, <2>6, <3>1, <3>3 DEF SameKeyAndTarget
    <3>4. CASE j # i /\ k # i
      BY <2>6, <3>4 DEF LanesInv, KeysSerialised, SameKeyAndTarget
    <3> QED BY <3>2, <3>3, <3>4
  <2>8. ASSUME NEW p \in Plugins PROVE Cardinality(RunningOf(p)') <= Parallelism[p]
    <3>1. CASE p = q
      <4>1. RunningOf(p)' \subseteq RunningOf(p) \cup {i} /\ i \notin RunningOf(p)
        BY <2>2, <2>6 DEF RunningOf
      <4>2. Cardinality(RunningOf(p)) < Parallelism[p]
        BY <2>3, <2>4, <2>5, <3>1 DEF LanesInv
      <4>3. IsFiniteSet(RunningOf(p) \cup {i}) /\ Cardinality(RunningOf(p) \cup {i}) = Cardinality(RunningOf(p)) + 1
        BY <1>2, <4>1, FS_AddElement
      <4>4. Cardinality(RunningOf(p)') \in Nat /\ Cardinality(RunningOf(p)') <= Cardinality(RunningOf(p) \cup {i})
        BY <4>1, <4>3, FS_Subset, FS_CardinalityType
      <4> QED BY <1>1, <1>2, <4>2, <4>3, <4>4
    <3>2. CASE p # q
      <4>1. RunningOf(p)' \subseteq RunningOf(p)
        BY <2>2, <2>4, <2>6, <3>2 DEF RunningOf, SameJob
      <4>2. Cardinality(RunningOf(p)') \in Nat /\ Cardinality(RunningOf(p)') <= Cardinality(RunningOf(p))
        BY <1>2, <4>1, FS_Subset, FS_CardinalityType
      <4> QED BY <1>1, <1>2, <4>2 DEF LanesInv
    <3> QED BY <3>1, <3>2
  <2> QED BY <2>3, <2>7, <2>8 DEF LanesInv, Uncounted
<1> QED BY <1>3, <1>4

\* An empty queue fills no lane.
LEMMA LanesInit == Init => LanesInv
<1> SUFFICES ASSUME Init PROVE LanesInv
  OBVIOUS
<1>1. \A j \in JobIds : row[j].status = "absent"
  BY DEF Init, StoreInit, NoRow
<1>2. \A p : RunningOf(p) = {}
  BY <1>1 DEF RunningOf
<1>3. Cardinality({}) = 0
  BY FS_EmptySet
<1>4. KeysSerialised
  BY <1>1 DEF KeysSerialised
<1>5. ~lanes.counted
  BY DEF Init, Uncounted
<1>6. \A p \in Plugins : Parallelism[p] \in Nat
  OBVIOUS
<1>7. ASSUME NEW p \in Plugins PROVE Cardinality(RunningOf(p)) <= Parallelism[p]
  <2>1. Cardinality(RunningOf(p)) = 0
    BY <1>2, <1>3
  <2> QED BY <1>6, <2>1
<1> QED BY <1>4, <1>5, <1>7 DEF LanesInv

\* Jobs of one dedupe key and one target run one at a time and a plugin never runs more
\* jobs than its parallelism, although fillWorkers counts in one statement and claims in
\* another, for any number of workers, rows, plugins and keys.
THEOREM LanesHold == Spec => []LanesKept
<1>1. LanesInv => LanesKept
  <2>1. \A p : RunningCountsByPlugin(p) = Cardinality(RunningOf(p))
    BY DEF RunningCountsByPlugin, RunningOf
  <2> QED BY <2>1 DEF LanesInv, LanesKept, ParallelismOfRows
<1>2. IInv /\ LanesInv /\ [Next]_vars => LanesInv'
  BY LanesNext
<1> QED BY <1>1, <1>2, LanesInit, Invariance, PTL DEF Spec

-----------------------------------------------------------------------------
(* The lifecycle of a job, without if_running = cancel *)

\* What a live worker executes is running.
LiveRuns == \A w \in Workers : wk[w].live => row[wk[w].job].status = "running"

\* The other steps of executeJob move the worker on, with the same job and attempt.
MovesOn(v) == WorkerGiveUp(v) \/ WorkerSucceed(v) \/ RouteAdmit(v) \/ RouteLookup(v) \/ RouteInsert(v)
              \/ RouteDone(v) \/ HookEnqueue(v)

SameHold(v) == wk'[v].live = wk[v].live /\ wk'[v].job = wk[v].job /\ wk'[v].attempt = wk[v].attempt

\* They change neither what the worker holds nor any other worker.
LEMMA WorkerMovesOn ==
    ASSUME TypeOK, NEW v \in Workers, MovesOn(v)
    PROVE  /\ SameHold(v)
           /\ \A u \in Workers \ {v} : wk'[u] = wk[u]
<1>0. wk \in [Workers -> WorkerState] /\ wk[v] \in WorkerState
  BY DEF TypeOK
<1> DEFINE Goal == SameHold(v) /\ \A u \in Workers \ {v} : wk'[u] = wk[u]
           Holds(x) == x.live = wk[v].live /\ x.job = wk[v].job /\ x.attempt = wk[v].attempt
<1>1. ASSUME NEW x, wk' = [wk EXCEPT ![v] = x], Holds(x) PROVE Goal
  BY <1>0, <1>1 DEF SameHold
<1>2. \A p, o, t, n : /\ Holds([wk[v] EXCEPT !.pc = p, !.out = o, !.todo = t])
                      /\ Holds([wk[v] EXCEPT !.todo = t, !.next = n, !.pc = p])
                      /\ Holds([wk[v] EXCEPT !.pc = p, !.todo = t])
                      /\ Holds([wk[v] EXCEPT !.pc = p])
                      /\ Holds([wk[v] EXCEPT !.todo = t])
  BY <1>0, SMTT(60) DEF WorkerState
<1> HIDE DEF Holds
<1>5. CASE WorkerGiveUp(v)
  <2>1. PICK o, t : wk' = [wk EXCEPT ![v].pc = "hook", ![v].out = o, ![v].todo = t]
    BY <1>5 DEF WorkerGiveUp
  <2>2. wk' = [wk EXCEPT ![v] = [wk[v] EXCEPT !.pc = "hook", !.out = o, !.todo = t]]
    BY <1>0, <2>1
  <2> QED BY <1>1, <1>2, <2>2
<1>6. CASE WorkerSucceed(v)
  <2>1. PICK o, t : wk' = [wk EXCEPT ![v].pc = "route", ![v].out = o, ![v].todo = t]
    BY <1>6 DEF WorkerSucceed
  <2>2. wk' = [wk EXCEPT ![v] = [wk[v] EXCEPT !.pc = "route", !.out = o, !.todo = t]]
    BY <1>0, <2>1
  <2> QED BY <1>1, <1>2, <2>2
<1>7. CASE RouteAdmit(v)
  <2>1. PICK n \in wk[v].todo, p \in {"route", "insert", "lookup"} :
          wk' = [wk EXCEPT ![v].todo = @ \ {n}, ![v].next = n, ![v].pc = p]
    BY <1>7 DEF RouteAdmit
  <2>2. PICK t : t = wk[v].todo \ {n}
    OBVIOUS
  <2>3. wk' = [wk EXCEPT ![v] = [wk[v] EXCEPT !.todo = t, !.next = n, !.pc = p]]
    BY <1>0, <2>1, <2>2
  <2> QED BY <1>1, <1>2, <2>3
<1>8. CASE RouteLookup(v) \/ RouteInsert(v)
  <2>1. PICK p : wk' = [wk EXCEPT ![v] = [wk[v] EXCEPT !.pc = p]]
    BY <1>0, <1>8 DEF RouteLookup, RouteInsert
  <2> QED BY <1>1, <1>2, <2>1
<1>9. CASE RouteDone(v)
  <2>1. PICK p, t : wk' = [wk EXCEPT ![v] = [wk[v] EXCEPT !.pc = p, !.todo = t]]
    BY <1>0, <1>9, ZenonT(60) DEF RouteDone
  <2> QED BY <1>1, <1>2, <2>1
<1>10. CASE HookEnqueue(v)
  <2>1. PICK t : wk' = [wk EXCEPT ![v] = [wk[v] EXCEPT !.todo = t]]
    BY <1>0, <1>10 DEF HookEnqueue
  <2> QED BY <1>1, <1>2, <2>1
<1> QED BY <1>5, <1>6, <1>7, <1>8, <1>9, <1>10 DEF MovesOn

\* A worker gets a job from the loop's claim only.
LEMMA WorkersChange ==
    ASSUME TypeOK, [Next]_vars, NEW w \in Workers, wk'[w].live
    PROVE  \/ /\ wk[w].live /\ wk'[w].job = wk[w].job
              /\ wk'[w] = wk[w] \/ WorkerStep(w)
           \/ \E i \in JobIds : StartWorker(w, i)
<1>0. wk \in [Workers -> WorkerState] /\ ~Idle.live
  BY DEF TypeOK, Idle
<1>1. CASE UNCHANGED wk
  BY <1>1
<1>2. ASSUME NEW c \in Clients, ClientStep(c) PROVE UNCHANGED wk
  BY <1>2 DEF ClientStep, ClientRequest, ClientLookup, ClientInsert
<1>3. ASSUME NEW t \in Targets, SchedulerCancel(t) PROVE UNCHANGED wk
  BY <1>3 DEF SchedulerCancel
<1>4. ASSUME NEW v \in Workers, NEW i \in JobIds, StartWorker(v, i)
      PROVE  (wk[w].live /\ wk'[w] = wk[w]) \/ StartWorker(w, i)
  BY <1>0, <1>4 DEF StartWorker
<1>5. CASE LoopStep
  BY <1>1, <1>4, <1>5 DEF LoopStep, CountLanes, NoEligibleWork
<1>6. ASSUME NEW v \in Workers, WorkerStep(v)
      PROVE  wk[w].live /\ wk'[w].job = wk[w].job /\ (wk'[w] = wk[w] \/ v = w)
  <2>1. CASE wk' = [wk EXCEPT ![v] = Idle]
    BY <1>0, <2>1
  <2>2. CASE MovesOn(v)
    BY <2>2, WorkerMovesOn DEF SameHold
  <2> QED BY <1>6, <2>1, <2>2
          DEF WorkerStep, MovesOn, WorkerAbort, WorkerRetry, WorkerRetryFails, RouteFail, WorkerFinish, completeJob,
              CompletionFails, WorkerAbandon
<1>7. CASE RecoveryStep
  BY <1>1, <1>7 DEF RecoveryStep, RecoverRequeue, RecoverDead, RecoverComplete, RecoverHook, RecoverFails, RecoverDone,
                    runtimeUnchanged
<1>8. CASE StopBegin \/ Reload
  <2>1. wk'[w] = [wk[w] EXCEPT !.live = FALSE] /\ wk[w] \in WorkerState
    BY <1>0, <1>8 DEF StopBegin, Reload, CancelContext
  <2>2. ~wk'[w].live
    BY <2>1 DEF WorkerState
  <2> QED BY <2>2
<1>9. CASE Crash
  BY <1>0, <1>9 DEF Crash
<1>10. CASE Start \/ StopEnd \/ Clock \/ UNCHANGED vars
  BY <1>1, <1>10 DEF Start, StopEnd, Clock, vars
<1> QED BY <1>1, <1>2, <1>3, <1>5, <1>6, <1>7, <1>8, <1>9, <1>10 DEF Next

\* Without cancels only a worker's own last write takes its job out of running.
LEMMA LiveRunsNext ==
    ASSUME CancelTargets = {}, IInv, LiveRuns, [Next]_vars
    PROVE  LiveRuns'
<1> SUFFICES ASSUME NEW w \in Workers, wk'[w].live PROVE row'[wk'[w].job].status = "running"
  BY DEF LiveRuns
<1>0. TypeOK /\ RowEffect /\ StoreTypeOK
  BY RowEffects DEF IInv, TypeOK
<1>1. ASSUME NEW i \in JobIds, StartWorker(w, i) PROVE row'[wk'[w].job].status = "running"
  <2>1. wk'[w].job = i
    <3>1. wk'[w] = [Idle EXCEPT !.pc = "exec", !.job = i, !.attempt = row[i].attempt, !.live = TRUE]
      BY <1>0, <1>1 DEF StartWorker, TypeOK
    <3> QED BY <3>1 DEF Idle
  <2> QED BY <1>0, <1>1, <2>1, DequeueEffect DEF StartWorker
<1>2. CASE wk[w].live /\ wk'[w].job = wk[w].job
  <2>1. PICK j : j = wk[w].job
    OBVIOUS
  <2>2. j \in JobIds /\ row[j].status = "running" /\ phase = "up"
    BY <1>2, <2>1 DEF LiveRuns, IInv, LifecycleInv, WorkerInv, LiveWorker
  <2>3. row'[j].status = "running"
    <3>1. CASE RowsKept
      BY <2>2, <3>1 DEF RowsKept
    <3>2. ASSUME NEW i \in JobIds, Enqueued(i) \/ Claimed(i) \/ Recovered(i) PROVE row'[j].status = "running"
      BY <2>2, <3>2 DEF Enqueued, Claimed, Recovered, OnlyJob
    <3>3. ASSUME NEW v \in Workers, Ended(v) PROVE row'[j].status = "running"
      <4>1. v # w
        BY <1>0, <3>3 DEF Ended, TypeOK, Idle
      <4>2. wk[v].job # j
        BY <1>2, <2>1, <3>3, <4>1 DEF Ended, IInv, LifecycleInv, OneLiveWorkerPerJob
      <4> QED BY <2>2, <3>3, <4>2 DEF Ended, OnlyJob
    <3> QED BY <1>0, <3>1, <3>2, <3>3 DEF RowEffect, Cancelled
  <2> QED BY <1>2, <2>1, <2>3
<1> QED BY <1>0, <1>1, <1>2, WorkersChange

\* What the lifecycle sees of job_queue.
StatusOf == [j \in JobIds |-> row[j].status]
AttemptOf == [j \in JobIds |-> row[j].attempt]
BudgetOf == [j \in JobIds |-> IF Present(j) THEN MaxAttempts[row[j].target] ELSE 0]

\* When one row moves, what the lifecycle sees changes at that row only.
LEMMA OneRowMoves ==
    ASSUME NEW i \in JobIds, OnlyJob(i)
    PROVE  /\ StatusOf' = [StatusOf EXCEPT ![i] = row'[i].status]
           /\ AttemptOf' = [AttemptOf EXCEPT ![i] = row'[i].attempt]
           /\ BudgetOf' = [BudgetOf EXCEPT ![i] = BudgetOf'[i]]
           /\ StatusOf[i] = row[i].status /\ AttemptOf[i] = row[i].attempt
<1>1. \A j \in JobIds \ {i} : row'[j] = row[j]
  BY DEF OnlyJob
<1>2. StatusOf' = [StatusOf EXCEPT ![i] = row'[i].status]
  BY <1>1 DEF StatusOf
<1>3. AttemptOf' = [AttemptOf EXCEPT ![i] = row'[i].attempt]
  BY <1>1 DEF AttemptOf
<1>4. BudgetOf' = [BudgetOf EXCEPT ![i] = BudgetOf'[i]]
  BY <1>1 DEF BudgetOf, Present
<1>5. StatusOf[i] = row[i].status /\ AttemptOf[i] = row[i].attempt
  BY DEF StatusOf, AttemptOf
<1> QED BY <1>2, <1>3, <1>4, <1>5

\* A row that stays keeps its attempt, and its budget with its target.
LEMMA SameNumbers ==
    ASSUME NEW i \in JobIds, OnlyJob(i), SameJob(i), row[i].status # "absent", row'[i].status # "absent"
    PROVE  /\ BudgetOf' = BudgetOf /\ BudgetOf[i] = MaxAttempts[row[i].target]
           /\ row'[i].attempt = row[i].attempt => AttemptOf' = AttemptOf
<1>1. \A j \in JobIds : /\ j # i => row'[j] = row[j]
                        /\ row'[j].target = row[j].target
                        /\ row'[j].status # "absent" <=> row[j].status # "absent"
  BY DEF OnlyJob, SameJob
<1>2. BudgetOf' = BudgetOf /\ BudgetOf[i] = MaxAttempts[row[i].target]
  BY <1>1 DEF BudgetOf, Present
<1>3. row'[i].attempt = row[i].attempt => AttemptOf' = AttemptOf
  BY <1>1 DEF AttemptOf
<1> QED BY <1>2, <1>3

\* Every step of a gateway without if_running = cancel is a legal step of one job's
\* lifecycle or leaves all of them alone.
LEMMA LifecycleStep ==
    ASSUME CancelTargets = {}, IInv, LiveRuns, [Next]_vars
    PROVE  [Lifecycle!Next]_(Lifecycle!jobVars)
<1>0. RowEffect /\ StoreTypeOK /\ AttemptInv
  BY RowEffects DEF IInv, TypeOK, LifecycleInv
<1>1. ASSUME NEW i \in JobIds
      PROVE  row[i].attempt \in Nat /\ row[i].target \in Targets /\ MaxAttempts[row[i].target] \in Nat
  BY <1>0 DEF StoreTypeOK, Row
<1>2. CASE RowsKept
  <2>1. StatusOf' = StatusOf /\ AttemptOf' = AttemptOf /\ BudgetOf' = BudgetOf
    BY <1>2 DEF RowsKept, StatusOf, AttemptOf, BudgetOf, Present, SameJob
  <2> QED BY <2>1 DEF Lifecycle!jobVars, StatusOf, AttemptOf, BudgetOf
<1>3. ASSUME NEW i \in JobIds, Enqueued(i) PROVE Lifecycle!evEnqueue(i)
  <2>1. /\ StatusOf[i] = "absent" /\ StatusOf' = [StatusOf EXCEPT ![i] = "queued"]
        /\ AttemptOf' = [AttemptOf EXCEPT ![i] = 1]
        /\ BudgetOf' = [BudgetOf EXCEPT ![i] = BudgetOf'[i]]
    BY <1>3, OneRowMoves DEF Enqueued
  <2>2. BudgetOf'[i] \in Nat \ {0}
    BY <1>3 DEF Enqueued, BudgetOf, Present
  <2> QED BY <2>1, <2>2 DEF Lifecycle!evEnqueue, StatusOf, AttemptOf, BudgetOf
<1>4. ASSUME NEW i \in JobIds, Claimed(i) PROVE Lifecycle!evDequeue(i)
  <2>1. StatusOf[i] = "queued" /\ StatusOf' = [StatusOf EXCEPT ![i] = "running"] /\ AttemptOf[i] = row[i].attempt
    BY <1>4, OneRowMoves DEF Claimed
  <2>2. BudgetOf' = BudgetOf /\ BudgetOf[i] = MaxAttempts[row[i].target] /\ AttemptOf' = AttemptOf
    BY <1>4, SameNumbers DEF Claimed
  <2>3. row[i].attempt <= MaxAttempts[row[i].target]
    BY <1>0, <1>1, <1>4 DEF AttemptInv, Claimed
  <2> QED BY <2>1, <2>2, <2>3 DEF Lifecycle!evDequeue, StatusOf, AttemptOf, BudgetOf
<1>5. ASSUME NEW i \in JobIds, OnlyJob(i), SameJob(i), row[i].status = "running", row'[i].status = "queued",
             row[i].attempt < MaxAttempts[row[i].target], row'[i].attempt = row[i].attempt + 1
      PROVE  Lifecycle!evRecoverRequeue(i)
  <2>1. /\ StatusOf[i] = "running" /\ StatusOf' = [StatusOf EXCEPT ![i] = "queued"]
        /\ AttemptOf' = [AttemptOf EXCEPT ![i] = AttemptOf[i] + 1] /\ AttemptOf[i] = row[i].attempt
    BY <1>5, OneRowMoves
  <2>2. BudgetOf' = BudgetOf /\ BudgetOf[i] = MaxAttempts[row[i].target]
    BY <1>5, SameNumbers
  <2> QED BY <1>5, <2>1, <2>2 DEF Lifecycle!evRecoverRequeue, StatusOf, AttemptOf, BudgetOf
<1>6. ASSUME NEW i \in JobIds, OnlyJob(i), SameJob(i), row[i].status = "running", row'[i].status \in Terminal,
             row'[i].attempt = row[i].attempt
      PROVE  Lifecycle!evComplete(i)
  <2>1. StatusOf[i] = "running" /\ StatusOf' = [StatusOf EXCEPT ![i] = row'[i].status]
    BY <1>6, OneRowMoves
  <2>2. BudgetOf' = BudgetOf /\ AttemptOf' = AttemptOf
    BY <1>6, SameNumbers DEF Terminal
  <2>3. row'[i].status \in Lifecycle!TerminalStatuses
    BY <1>6 DEF Terminal, Lifecycle!TerminalStatuses
  <2> QED BY <2>1, <2>2, <2>3 DEF Lifecycle!evComplete, StatusOf, AttemptOf, BudgetOf
<1>7. ASSUME NEW i \in JobIds, OnlyJob(i), SameJob(i), row[i].status = "running", row'[i].status = "dead",
             row[i].attempt >= MaxAttempts[row[i].target], row'[i].attempt = row[i].attempt + 1
      PROVE  Lifecycle!evRecoverDead(i)
  <2>1. /\ StatusOf[i] = "running" /\ StatusOf' = [StatusOf EXCEPT ![i] = "dead"]
        /\ AttemptOf' = [AttemptOf EXCEPT ![i] = AttemptOf[i] + 1] /\ AttemptOf[i] = row[i].attempt
    BY <1>7, OneRowMoves
  <2>2. BudgetOf' = BudgetOf /\ BudgetOf[i] = MaxAttempts[row[i].target]
    BY <1>7, SameNumbers
  <2> QED BY <1>7, <2>1, <2>2 DEF Lifecycle!evRecoverDead, StatusOf, AttemptOf, BudgetOf
<1>8. ASSUME NEW i \in JobIds, OnlyJob(i), SameJob(i), row[i].status = "dead", row'[i].status = "dead",
             row'[i].attempt = row[i].attempt
      PROVE  RowsKept
  BY <1>8 DEF OnlyJob, SameJob, RowsKept
<1>9. ASSUME NEW w \in Workers, Ended(w) PROVE \E i \in JobIds : Lifecycle!evRecoverRequeue(i) \/ Lifecycle!evComplete(i)
  <2>1. PICK i : i = wk[w].job
    OBVIOUS
  <2>2. i \in JobIds /\ row[i].status = "running"
    BY <1>9, <2>1 DEF Ended, LiveRuns, IInv, LifecycleInv, WorkerInv, LiveWorker
  <2>3. /\ OnlyJob(i) /\ SameJob(i)
        /\ \/ /\ row'[i].status = "queued" /\ row[i].attempt < MaxAttempts[row[i].target]
              /\ row'[i].attempt = row[i].attempt + 1
           \/ row'[i].status \in Terminal /\ row'[i].attempt = row[i].attempt
    BY <1>9, <2>1 DEF Ended
  <2> QED BY <1>5, <1>6, <2>2, <2>3
<1>10. ASSUME NEW i \in JobIds, Recovered(i)
       PROVE  Lifecycle!evRecoverRequeue(i) \/ Lifecycle!evRecoverDead(i) \/ RowsKept
  BY <1>5, <1>7, <1>8, <1>10 DEF Recovered
<1> QED BY <1>0, <1>2, <1>3, <1>4, <1>9, <1>10 DEF RowEffect, Cancelled, Lifecycle!Next

\* The gateway starts where the lifecycle does, with no worker.
LEMMA LifecycleInit == ASSUME Init PROVE Lifecycle!Init /\ LiveRuns
<1>1. \A i \in JobIds : row[i].status = "absent" /\ row[i].attempt = 0
  BY DEF Init, StoreInit, NoRow
<1>2. Lifecycle!Init
  BY <1>1 DEF Lifecycle!Init, Present
<1>3. LiveRuns
  BY DEF Init, Idle, LiveRuns
<1> QED BY <1>2, <1>3

\* The gateway implements the lifecycle statemachine_test.go writes down: with no
\* if_running = cancel schedule every job goes absent, queued, running and back to
\* queued or on to one terminal status, with its attempts counted, through worker
\* retries, failed writes, crashes, reloads and recovery together.
THEOREM Refinement == ASSUME CancelTargets = {} PROVE Spec => FollowsLifecycle
<1>1. Init => Lifecycle!Init /\ LiveRuns
  BY LifecycleInit
<1>2. IInv /\ LiveRuns /\ [Next]_vars => LiveRuns'
  BY LiveRunsNext
<1>3. IInv /\ LiveRuns /\ [Next]_vars => [Lifecycle!Next]_(Lifecycle!jobVars)
  BY LifecycleStep
<1> QED BY <1>1, <1>2, <1>3, Invariance, PTL DEF Spec, FollowsLifecycle, Lifecycle!Spec

\* No write reaches a terminal row but the completion of one that is dead already.
LEMMA TerminalStep ==
    ASSUME CancelTargets = {}, IInv, LiveRuns, [Next]_vars, NEW j \in JobIds, IsTerminal(j)
    PROVE  row'[j].status = row[j].status
<1>0. RowEffect /\ row[j].status \notin {"absent", "queued", "running"}
  BY RowEffects DEF IsTerminal, Terminal
<1>1. CASE RowsKept
  BY <1>1 DEF RowsKept
<1>2. ASSUME NEW i \in JobIds, Enqueued(i) \/ Claimed(i) \/ Recovered(i) PROVE row'[j].status = row[j].status
  BY <1>0, <1>2 DEF Enqueued, Claimed, Recovered, OnlyJob
<1>3. ASSUME NEW w \in Workers, Ended(w) PROVE row'[j].status = row[j].status
  BY <1>0, <1>3 DEF Ended, OnlyJob, LiveRuns
<1> QED BY <1>0, <1>1, <1>2, <1>3 DEF RowEffect, Cancelled

\* A terminal status is absorbing, as statemachine_test.go says, as long as no schedule
\* cancels running work.
THEOREM TerminalAbsorbs == ASSUME CancelTargets = {} PROVE Spec => TerminalIsAbsorbing
<1> DEFINE Kept == \A j \in JobIds : IsTerminal(j) => row'[j].status = row[j].status
<1>1. IInv /\ LiveRuns /\ [Next]_vars => [Kept]_vars
  BY TerminalStep
<1>2. IInv /\ LiveRuns /\ [Next]_vars => LiveRuns'
  BY LiveRunsNext
<1>3. Init => LiveRuns
  BY LifecycleInit
<1> QED BY <1>1, <1>2, <1>3, Invariance, PTL DEF Spec, TerminalIsAbsorbing

\* A row is inserted below a running job, by a client, or for one of recovery's hooks.
LEMMA ChildStep ==
    ASSUME CancelTargets = {}, IInv, LiveRuns, [Next]_vars, NEW j \in JobIds, NEW c \in JobIds,
           IsTerminal(j), ~Present(c), row'[c].status # "absent", row'[c].parent = j
    PROVE  phase = "recovering" /\ row'[c].by = "hook"
<1>0. RowEffect /\ row[j].status \notin {"absent", "queued", "running"} /\ row[c].status = "absent"
  BY RowEffects DEF IsTerminal, Terminal, Present
<1>1. ~RowsKept /\ ~Cancelled
  BY <1>0 DEF RowsKept, Cancelled, Outstanding
<1>2. ASSUME NEW i \in JobIds, Claimed(i) \/ Recovered(i) PROVE FALSE
  BY <1>0, <1>2 DEF Claimed, Recovered, OnlyJob
<1>3. ASSUME NEW w \in Workers, Ended(w) PROVE FALSE
  BY <1>0, <1>3 DEF Ended, OnlyJob, LiveRuns
<1>4. ASSUME NEW i \in JobIds, Enqueued(i) PROVE phase = "recovering" /\ row'[c].by = "hook"
  <2>1. c = i
    BY <1>0, <1>4 DEF Enqueued, OnlyJob
  <2>2. j # NoJob
    OBVIOUS
  <2>3. ASSUME NEW w \in Workers, wk[w].live PROVE wk[w].job # j
    BY <1>0, <2>3 DEF LiveRuns
  <2> QED BY <1>4, <2>1, <2>2, <2>3 DEF Enqueued
<1> QED BY <1>0, <1>1, <1>2, <1>3, <1>4 DEF RowEffect

\* What WaitForJobTree relies on: a job tree that looks complete stays so, for no step
\* gives a terminal job a child but recovery's hooks, as long as no schedule cancels
\* running work.
THEOREM TreeStaysClosed == ASSUME CancelTargets = {} PROVE Spec => TerminalTreeIsClosed
<1> DEFINE Shut == \A j, c \in JobIds :
                     /\ IsTerminal(j)
                     /\ ~Present(c) /\ row'[c].status # "absent" /\ row'[c].parent = j
                     => phase = "recovering" /\ row'[c].by = "hook"
<1>1. IInv /\ LiveRuns /\ [Next]_vars => [Shut]_vars
  BY ChildStep
<1>2. IInv /\ LiveRuns /\ [Next]_vars => LiveRuns'
  BY LiveRunsNext
<1>3. Init => LiveRuns
  BY LifecycleInit
<1> QED BY <1>1, <1>2, <1>3, Invariance, PTL DEF Spec, TerminalTreeIsClosed

-----------------------------------------------------------------------------
(* What runs is owned *)

Owned(j) == \E w \in Workers : wk[w].live /\ wk[w].job = j /\ wk[w].attempt = row[j].attempt

\* RunningIsOwned speaks of a gateway that is up; until then the running rows are
\* those recovery has still to visit.
OwnedInv ==
    \A j \in JobIds \ lost.jobs : row[j].status = "running" =>
        /\ phase = "up" => Owned(j)
        /\ phase = "recovering" => j \in rec.orphans

\* A step that leaves the gateway in its phase, makes no row run and takes no worker
\* from a row that still runs.
LEMMA OwnedKept ==
    ASSUME OwnedInv, phase' = phase, rec' = rec, lost.jobs \subseteq lost'.jobs,
           \A j \in JobIds \ lost'.jobs : row'[j].status = "running" =>
              row[j].status = "running" /\ row'[j].attempt = row[j].attempt,
           \A j \in JobIds \ lost'.jobs, w \in Workers :
              row'[j].status = "running" /\ wk[w].live /\ wk[w].job = j => SameHold(w)
    PROVE  OwnedInv'
<1> SUFFICES ASSUME NEW j \in JobIds, j \notin lost'.jobs, row'[j].status = "running"
             PROVE  /\ phase' = "up" => Owned(j)'
                    /\ phase' = "recovering" => j \in rec'.orphans
  BY DEF OwnedInv
<1>1. row[j].status = "running" /\ row'[j].attempt = row[j].attempt /\ j \notin lost.jobs
  OBVIOUS
<1>2. phase = "recovering" => j \in rec.orphans
  BY <1>1 DEF OwnedInv
<1>3. ASSUME phase = "up" PROVE Owned(j)'
  <2>1. PICK w \in Workers : wk[w].live /\ wk[w].job = j /\ wk[w].attempt = row[j].attempt
    BY <1>1, <1>3 DEF OwnedInv, Owned
  <2>2. wk'[w].live /\ wk'[w].job = j /\ wk'[w].attempt = row'[j].attempt
    BY <1>1, <2>1 DEF SameHold
  <2> QED BY <2>2 DEF Owned
<1> QED BY <1>2, <1>3

\* A worker keeps its job, takes it out of running, or leaves it among the lost.
LEMMA WorkerOwned ==
    ASSUME IInv, OwnedInv, NEW w \in Workers, WorkerStep(w)
    PROVE  OwnedInv'
<1>0. /\ wk \in [Workers -> WorkerState] /\ TypeOK /\ lost.jobs \subseteq JobIds /\ lost.writes \in Nat
      /\ lost \in [jobs: SUBSET JobIds, writes: Nat]
  BY DEF IInv, TypeOK
<1>1. UNCHANGED <<phase, rec>>
  BY DEF WorkerStep, restUnchanged, WorkerAbort, WorkerRetry, WorkerRetryFails, WorkerGiveUp, WorkerSucceed, RouteAdmit,
         RouteLookup, RouteInsert, RouteFail, RouteDone, HookEnqueue, WorkerFinish, CompletionFails, WorkerAbandon
<1>2. [lost EXCEPT !.writes = @ + 1].jobs = lost.jobs
  BY <1>0
<1>3. CASE EndsJob(w)
  <2>1. lost'.jobs = lost.jobs
    BY <1>2, <1>3 DEF EndsJob, WorkerAbort, WorkerRetry, WorkerRetryFails, RouteFail, WorkerFinish, completeJob
  <2>2. Ended(w)
    BY <1>3, WorkerEnds
  <2>3. PICK i : i = wk[w].job
    OBVIOUS
  <2>4. OnlyJob(i) /\ row'[i].status # "running" /\ wk' = [wk EXCEPT ![w] = Idle]
    BY <2>2, <2>3 DEF Ended, Terminal
  <2>5. ASSUME NEW j \in JobIds, row'[j].status = "running"
        PROVE  /\ row[j].status = "running" /\ row'[j].attempt = row[j].attempt
               /\ \A v \in Workers : wk[v].live /\ wk[v].job = j => SameHold(v)
    <3>1. j # i
      BY <2>4, <2>5
    <3>2. row'[j] = row[j]
      BY <2>4, <3>1 DEF OnlyJob
    <3>3. \A v \in Workers \ {w} : wk'[v] = wk[v]
      BY <1>0, <2>4
    <3> QED BY <2>3, <2>5, <3>1, <3>2, <3>3 DEF SameHold
  <2> QED BY <1>1, <2>1, <2>5, OwnedKept
<1>4. CASE MovesOn(w)
  <2>1. lost'.jobs = lost.jobs
    BY <1>2, <1>4 DEF MovesOn, WorkerGiveUp, WorkerSucceed, RouteAdmit, RouteLookup, RouteInsert, RouteDone, HookEnqueue
  <2>2. \A v \in Workers : SameHold(v)
    BY <1>4, <1>0, WorkerMovesOn DEF SameHold
  <2>3. ASSUME NEW j \in JobIds, row'[j].status = "running"
        PROVE  row[j].status = "running" /\ row'[j].attempt = row[j].attempt
    <3>1. UNCHANGED storeVars \/ \E i \in JobIds : /\ \A k \in JobIds \ {i} : row'[k] = row[k]
                                                  /\ row'[i].status = "queued"
      <4>1. ASSUME NEW i \in JobIds, NEW t, NEW k, NEW p, NEW s, NEW b, NEW c, InsertJob(i, t, k, p, s, b, c)
            PROVE  (\A m \in JobIds \ {i} : row'[m] = row[m]) /\ row'[i].status = "queued"
        BY <1>0, <4>1 DEF InsertJob, NewRow, TypeOK, StoreTypeOK
      <4>2. CASE RouteInsert(w)
        BY <4>1, <4>2 DEF RouteInsert
      <4>3. CASE HookEnqueue(w)
        BY <4>1, <4>3 DEF HookEnqueue
      <4> QED BY <1>4, <4>2, <4>3 DEF MovesOn, WorkerGiveUp, WorkerSucceed, RouteAdmit, RouteLookup, RouteDone
    <3> QED BY <2>3, <3>1 DEF storeVars
  <2> QED BY <1>1, <2>1, <2>2, <2>3, OwnedKept
<1>5. CASE CompletionFails(w)
  <2>1. lost'.jobs = lost.jobs \cup {wk[w].job} /\ row' = row /\ wk' = [wk EXCEPT ![w] = Idle]
    BY <1>5 DEF CompletionFails, JobOf, storeVars
  <2>2. \A v \in Workers : wk[v].job \notin lost'.jobs => SameHold(v)
    BY <1>0, <2>1 DEF SameHold
  <2> QED BY <1>1, <2>1, <2>2, OwnedKept
<1>6. CASE WorkerAbandon(w)
  <2>1. lost' = lost /\ row' = row /\ wk' = [wk EXCEPT ![w] = Idle] /\ ~wk[w].live
    BY <1>6 DEF WorkerAbandon, storeVars
  <2>2. \A v \in Workers : wk[v].live => SameHold(v)
    BY <1>0, <2>1 DEF SameHold
  <2> QED BY <1>1, <2>1, <2>2, OwnedKept
<1> QED BY <1>3, <1>4, <1>5, <1>6 DEF WorkerStep, EndsJob, MovesOn

\* Recovery drops an orphan from its list only when it no longer runs, or is lost.
LEMMA RecoveryOwned ==
    ASSUME IInv, OwnedInv, RecoveryStep
    PROVE  OwnedInv'
<1>0. /\ TypeOK /\ StoreTypeOK /\ RecoveryInv /\ rec \in Recovery
      /\ lost \in [jobs: SUBSET JobIds, writes: Nat]
      /\ \A j \in JobIds : row[j] \in Row
  BY DEF IInv, LifecycleInv, TypeOK, StoreTypeOK
<1>1. ASSUME phase = "recovering", NEW j \in JobIds, j \notin lost.jobs, row[j].status = "running" PROVE j \in rec.orphans
  BY <1>1 DEF OwnedInv
<1>2. CASE RecoverDone
  <2>1. rec.orphans = {} /\ phase = "recovering" /\ row' = row /\ lost' = lost /\ rec' = rec /\ phase' = "up"
    BY <1>2 DEF RecoverDone, NoRecovery, storeVars
  <2> QED BY <1>1, <2>1 DEF OwnedInv
<1>3. ASSUME NEW j \in JobIds, Orphan(j), phase' = phase,
             \A i \in JobIds \ {j} : row'[i].status = "running" => row[i].status = "running",
             \A i \in lost.jobs : i \in lost'.jobs \/ i = j,
             \A i \in rec.orphans : i \in rec'.orphans \/ i = j,
             row'[j].status = "running" => j \in lost'.jobs \/ (row[j].status = "running" /\ j \in rec'.orphans)
      PROVE  OwnedInv'
  <2>1. phase' = "recovering"
    BY <1>3 DEF Orphan
  <2> SUFFICES ASSUME NEW i \in JobIds, i \notin lost'.jobs, row'[i].status = "running" PROVE i \in rec'.orphans
    BY <2>1 DEF OwnedInv
  <2>2. CASE i = j
    BY <1>3, <2>2
  <2>3. CASE i # j
    BY <1>1, <1>3, <2>1, <2>3
  <2> QED BY <2>2, <2>3
<1>4. ASSUME NEW j, NEW d PROVE /\ [lost EXCEPT !.jobs = @ \ {j}].jobs = lost.jobs \ {j}
                               /\ [lost EXCEPT !.writes = d].jobs = lost.jobs
  BY <1>0
<1>5. ASSUME NEW j, NEW p, NEW d
      PROVE  /\ [rec EXCEPT !.orphans = @ \ {j}].orphans = rec.orphans \ {j}
             /\ [rec EXCEPT !.pc = p, !.orphans = @ \ {j}].orphans = rec.orphans \ {j}
             /\ [rec EXCEPT !.pc = p].orphans = rec.orphans
             /\ [rec EXCEPT !.pc = p, !.todo = d].orphans = rec.orphans
             /\ [rec EXCEPT !.todo = d].orphans = rec.orphans
  BY <1>0 DEF Recovery
<1>6. ASSUME NEW j \in JobIds, RecoverRequeue(j) \/ RecoverDead(j) PROVE OwnedInv'
  <2>1. PICK s \in {"queued", "dead"}, d \in BOOLEAN : UpdateJobForRecovery(j, s, row[j].attempt + 1, d)
    BY <1>6 DEF RecoverRequeue, RecoverDead
  <2>2. OnlyJob(j) /\ row'[j].status = s
    <3>1. row[j].attempt + 1 \in Nat /\ s \in Status /\ StoreTypeOK
      BY <1>0 DEF Status, Terminal, Row
    <3> QED BY <2>1, <3>1, UpdateEffect
  <2>3. Orphan(j) /\ phase' = phase /\ lost' = [lost EXCEPT !.jobs = @ \ {j}]
    BY <1>6 DEF RecoverRequeue, RecoverDead, runtimeUnchanged
  <2>4. \A i \in rec.orphans : i \in rec'.orphans \/ i = j
    BY <1>5, <1>6 DEF RecoverRequeue, RecoverDead
  <2>5. lost'.jobs = lost.jobs \ {j}
    BY <1>4, <2>3
  <2> QED BY <1>3, <2>2, <2>3, <2>4, <2>5 DEF OnlyJob
<1>7. ASSUME NEW j \in JobIds, RecoverComplete(j) PROVE OwnedInv'
  <2>1. OnlyJob(j) /\ row'[j].status = "dead"
    BY <1>0, <1>7, CompleteEffect DEF RecoverComplete
  <2>2. Orphan(j) /\ phase' = phase /\ lost' = lost /\ rec'.orphans = rec.orphans
    BY <1>5, <1>7 DEF RecoverComplete, runtimeUnchanged
  <2> QED BY <1>3, <2>1, <2>2 DEF OnlyJob
<1>8. ASSUME NEW j \in JobIds, RecoverHook(j) PROVE OwnedInv'
  <2>1. Orphan(j) /\ phase' = phase /\ lost' = lost /\ \A i \in rec.orphans : i \in rec'.orphans \/ i = j
    <3>1. PICK d : rec' = [rec EXCEPT !.todo = d] \/ rec' = [rec EXCEPT !.pc = "scan", !.orphans = @ \ {j}]
      BY <1>8 DEF RecoverHook
    <3>2. rec'.orphans \in {rec.orphans, rec.orphans \ {j}}
      BY <1>0, <3>1 DEF Recovery
    <3>3. Orphan(j) /\ phase' = phase /\ lost' = lost
      BY <1>8 DEF RecoverHook, runtimeUnchanged
    <3> QED BY <3>2, <3>3
  <2>2. row[j].status = "dead"
    BY <1>0, <1>8, <2>1 DEF RecoverHook, Orphan, RecoveryInv
  <2>3. \A i \in JobIds : row'[i].status = "running" => row[i].status = "running"
    <3>1. ASSUME NEW i \in JobIds, NEW t, NEW k, NEW p, NEW s, NEW b, NEW c, InsertJob(i, t, k, p, s, b, c)
          PROVE  (\A m \in JobIds \ {i} : row'[m] = row[m]) /\ row'[i].status = "queued"
      BY <1>0, <3>1 DEF InsertJob, NewRow, StoreTypeOK
    <3>2. UNCHANGED row \/ \E i \in JobIds : /\ \A m \in JobIds \ {i} : row'[m] = row[m]
                                            /\ row'[i].status = "queued"
      BY <1>8, <3>1 DEF RecoverHook, storeVars
    <3> QED BY <3>2
  <2> QED BY <1>3, <2>1, <2>2, <2>3
<1>9. ASSUME NEW j \in JobIds, RecoverFails(j) PROVE OwnedInv'
  <2>1. Orphan(j) /\ phase' = phase /\ row' = row
    BY <1>9 DEF RecoverFails, runtimeUnchanged, storeVars
  <2>2. CASE rec.pc = "scan"
    <3>1. rec' = [rec EXCEPT !.orphans = @ \ {j}] /\ lost'.jobs = lost.jobs \cup {j}
      BY <1>9, <2>2 DEF RecoverFails
    <3>2. rec'.orphans = rec.orphans \ {j}
      BY <1>5, <3>1
    <3>3. /\ \A i \in lost.jobs : i \in lost'.jobs \/ i = j
          /\ \A i \in rec.orphans : i \in rec'.orphans \/ i = j
          /\ j \in lost'.jobs
      BY <3>1, <3>2
    <3>4. \A i \in JobIds \ {j} : row'[i].status = "running" => row[i].status = "running"
      BY <2>1
    <3>5. row'[j].status = "running" => j \in lost'.jobs \/ (row[j].status = "running" /\ j \in rec'.orphans)
      BY <3>3, Zenon
    <3> QED BY <1>3, <2>1, <3>3, <3>4, <3>5
  <2>3. CASE rec.pc # "scan"
    <3>1. rec'.orphans = rec.orphans
      <4>1. PICK d : rec' = [rec EXCEPT !.todo = d] \/ rec' = [rec EXCEPT !.pc = "hook", !.todo = d]
        BY <1>9, <2>3 DEF RecoverFails
      <4> QED BY <1>0, <4>1 DEF Recovery
    <3>2. lost'.jobs = lost.jobs
      BY <1>4, <1>9, <2>3 DEF RecoverFails
    <3>3. j \in rec.orphans
      BY <2>1 DEF Orphan
    <3> QED BY <1>3, <2>1, <3>1, <3>2, <3>3
  <2> QED BY <2>2, <2>3
<1> QED BY <1>2, <1>6, <1>7, <1>8, <1>9 DEF RecoveryStep

\* Every step keeps running rows owned.
LEMMA OwnedNext == ASSUME IInv, OwnedInv, [Next]_vars PROVE OwnedInv'
<1>0. TypeOK /\ StoreTypeOK /\ wk \in [Workers -> WorkerState]
  BY DEF IInv, TypeOK
<1>1. ASSUME UNCHANGED <<phase, rec, lost, wk>>,
             \A j \in JobIds : row'[j].status = "running" => row[j].status = "running" /\ row'[j].attempt = row[j].attempt
      PROVE  OwnedInv'
  BY <1>1, OwnedKept DEF SameHold
<1>2. CASE UNCHANGED <<row, phase, rec, lost, wk>>
  BY <1>1, <1>2
<1>3. ASSUME NEW c \in Clients, ClientStep(c) PROVE OwnedInv'
  <2>1. CASE ClientInsert(c)
    <3>1. PICK i \in JobIds : InsertJob(i, client[c].req.target, client[c].req.key, NoJob, 0, "client", client[c].req.ctx)
      BY <2>1 DEF ClientInsert
    <3>2. (\A m \in JobIds \ {i} : row'[m] = row[m]) /\ row'[i].status = "queued"
      BY <1>0, <3>1 DEF InsertJob, NewRow, StoreTypeOK
    <3> QED BY <1>1, <2>1, <3>2 DEF ClientInsert
  <2> QED BY <1>2, <1>3, <2>1 DEF ClientStep, ClientRequest, ClientLookup, storeVars
<1>4. ASSUME NEW t \in Targets, SchedulerCancel(t) PROVE OwnedInv'
  <2>1. \A j \in JobIds : row'[j].status = "running" => row'[j] = row[j]
    BY <1>0, <1>4, CancelEffect DEF SchedulerCancel
  <2> QED BY <1>1, <1>4, <2>1 DEF SchedulerCancel
<1>5. ASSUME NEW w \in Workers, NEW i \in JobIds, StartWorker(w, i) PROVE OwnedInv'
  <2>1. OnlyJob(i) /\ row'[i].attempt = row[i].attempt
    BY <1>0, <1>5, DequeueEffect DEF StartWorker
  <2>2. /\ UNCHANGED <<phase, rec, lost>> /\ phase = "up" /\ wk[w].pc = "idle"
        /\ wk' = [wk EXCEPT ![w] = [Idle EXCEPT !.pc = "exec", !.job = i, !.attempt = row[i].attempt, !.live = TRUE]]
    BY <1>5 DEF StartWorker
  <2>3. wk'[w].live /\ wk'[w].job = i /\ wk'[w].attempt = row'[i].attempt
    BY <1>0, <2>1, <2>2 DEF Idle
  <2>4. ~wk[w].live /\ \A v \in Workers \ {w} : wk'[v] = wk[v]
    BY <1>0, <2>2 DEF IInv, LifecycleInv, WorkerInv
  <2> SUFFICES ASSUME NEW j \in JobIds, j \notin lost.jobs, row'[j].status = "running" PROVE Owned(j)'
    BY <2>2 DEF OwnedInv
  <2>5. CASE j = i
    BY <2>3, <2>5 DEF Owned
  <2>6. CASE j # i
    <3>1. row'[j] = row[j]
      BY <2>1, <2>6 DEF OnlyJob
    <3>2. PICK v \in Workers : wk[v].live /\ wk[v].job = j /\ wk[v].attempt = row[j].attempt
      BY <2>2, <3>1 DEF OwnedInv, Owned
    <3>3. wk'[v] = wk[v]
      BY <2>4, <3>2
    <3> QED BY <3>1, <3>2, <3>3 DEF Owned
  <2> QED BY <2>5, <2>6
<1>6. CASE LoopStep
  BY <1>2, <1>5, <1>6 DEF LoopStep, CountLanes, NoEligibleWork, storeVars
<1>7. CASE Clock
  <2>1. \A j \in JobIds : row'[j].status = row[j].status /\ row'[j].attempt = row[j].attempt
    BY <1>0, <1>7, ClockEffect DEF Clock
  <2> QED BY <1>1, <1>7, <2>1 DEF Clock
<1>8. CASE Start \/ Reload
  <2>1. row' = row /\ phase' = "recovering" /\ rec'.orphans = {j \in JobIds : row[j].status = "running"}
    BY <1>8 DEF Start, Reload, StartRecovery, NoRecovery, CancelContext, storeVars
  <2> QED BY <2>1 DEF OwnedInv
<1>9. CASE StopBegin \/ StopEnd \/ Crash
  <2>1. phase' # "up" /\ phase' # "recovering"
    BY <1>9 DEF StopBegin, StopEnd, Crash
  <2> QED BY <2>1 DEF OwnedInv
<1>10. CASE UNCHANGED vars
  BY <1>2, <1>10 DEF vars, storeVars
<1> QED BY <1>3, <1>4, <1>6, <1>7, <1>8, <1>9, <1>10, WorkerOwned, RecoveryOwned DEF Next

\* A running row of a gateway that is up has the live worker that claimed its attempt,
\* whatever restarts, cancels and failed writes of other jobs came before.
THEOREM RunningOwned == Spec => []RunningIsOwned
<1>1. Init => OwnedInv
  BY DEF Init, StoreInit, NoRow, OwnedInv
<1>2. IInv /\ OwnedInv /\ [Next]_vars => OwnedInv'
  BY OwnedNext
<1>3. OwnedInv => RunningIsOwned
  BY DEF OwnedInv, Owned, RunningIsOwned
<1> QED BY <1>1, <1>2, <1>3, Invariance, PTL DEF Spec

-----------------------------------------------------------------------------
(* What succeeded has its successors *)

\* Job j's dispatch to t is a row, or a row with its dedupe key stands for it.
Dispatched(j, t) ==
    \E c \in JobIds : /\ Present(c)
                      /\ row[c].target = t
                      /\ \/ row[c].parent = j
                         \/ /\ EventKey[row[j].target] # NoKey
                            /\ row[c].key = EventKey[row[j].target]

\* What a worker has still to dispatch before it may record a success.
Owed(w) ==
    IF wk[w].pc = "route" THEN wk[w].todo
    ELSE IF wk[w].pc \in {"lookup", "insert"} THEN wk[w].todo \cup {wk[w].next}
    ELSE IF wk[w].pc = "hook" /\ wk[w].out = "succeeded" THEN {}
    ELSE Targets

ChildrenInv ==
    /\ SucceededHasChildren
    /\ \A w \in Workers : wk[w].live =>
         /\ wk[w].pc = "lookup" => EventKey[TargetOf(w)] # NoKey
         /\ \A t \in Routes[TargetOf(w)] \ Owed(w) : Dispatched(wk[w].job, t)

\* A row that is there stays, with its target, its key and its parent.
LEMMA RowsStay ==
    ASSUME IInv, [Next]_vars, NEW i \in JobIds, Present(i)
    PROVE  row'[i].status # "absent" /\ SameJob(i)
<1>0. RowEffect /\ row[i].status # "absent"
  BY RowEffects DEF Present
<1>1. ASSUME NEW w \in Workers, Ended(w) PROVE row'[i].status # "absent" /\ SameJob(i)
  BY <1>0, <1>1 DEF Ended, OnlyJob, SameJob, Terminal
<1>2. ASSUME NEW j \in JobIds, Enqueued(j) \/ Claimed(j) \/ Recovered(j)
      PROVE  row'[i].status # "absent" /\ SameJob(i)
  BY <1>0, <1>2 DEF Enqueued, Claimed, Recovered, OnlyJob, SameJob
<1>3. CASE RowsKept \/ Cancelled
  BY <1>0, <1>3 DEF RowsKept, Cancelled
<1> QED BY <1>0, <1>1, <1>2, <1>3 DEF RowEffect

\* A dispatch that was made stays made.
LEMMA DispatchedStays ==
    ASSUME IInv, [Next]_vars, NEW j \in JobIds, Present(j), NEW t, Dispatched(j, t)
    PROVE  Dispatched(j, t)'
<1>1. PICK c \in JobIds : /\ Present(c)
                          /\ row[c].target = t
                          /\ \/ row[c].parent = j
                             \/ EventKey[row[j].target] # NoKey /\ row[c].key = EventKey[row[j].target]
  BY DEF Dispatched
<1>2. row'[c].status # "absent" /\ SameJob(c) /\ SameJob(j)
  BY <1>1, RowsStay
<1> QED BY <1>1, <1>2 DEF Dispatched, SameJob, Present

\* The one write that records a success comes from a worker that owes nothing.
LEMMA SuccessStep ==
    ASSUME IInv, ChildrenInv, [Next]_vars, NEW j \in JobIds, row'[j].status = "succeeded"
    PROVE  /\ Present(j) /\ row'[j].target = row[j].target
           /\ \A t \in Routes[row[j].target] : Dispatched(j, t)
<1>0. RowEffect /\ TypeOK
  BY RowEffects DEF IInv
<1>1. ASSUME row[j].status = "succeeded" PROVE /\ Present(j) /\ row'[j].target = row[j].target
                                               /\ \A t \in Routes[row[j].target] : Dispatched(j, t)
  <2>1. Present(j)
    BY <1>1 DEF Present
  <2>2. row'[j].target = row[j].target
    BY <2>1, RowsStay DEF SameJob
  <2> QED BY <1>1, <2>1, <2>2 DEF ChildrenInv, SucceededHasChildren, Dispatched
<1>2. ASSUME row[j].status # "succeeded" PROVE \E w \in Workers : Ended(w) /\ wk[w].job = j
  <2>1. ~RowsKept /\ ~Cancelled
    BY <1>2 DEF RowsKept, Cancelled
  <2>2. ASSUME NEW i \in JobIds, Enqueued(i) \/ Claimed(i) \/ Recovered(i) PROVE FALSE
    BY <1>2, <2>2 DEF Enqueued, Claimed, Recovered, OnlyJob
  <2> QED BY <1>0, <1>2, <2>1, <2>2 DEF RowEffect, Ended, OnlyJob
<1>3. ASSUME NEW w \in Workers, Ended(w), wk[w].job = j
      PROVE  /\ Present(j) /\ row'[j].target = row[j].target
             /\ \A t \in Routes[row[j].target] : Dispatched(j, t)
  <2>1. wk[w].live /\ wk[w].pc = "hook" /\ wk[w].out = "succeeded" /\ SameJob(j)
    BY <1>3 DEF Ended
  <2>2. Owed(w) = {} /\ TargetOf(w) = row[j].target
    BY <1>3, <2>1 DEF Owed, TargetOf, JobOf
  <2>3. Present(j)
    BY <1>3, <2>1 DEF IInv, LifecycleInv, WorkerInv, LiveWorker, Present
  <2> QED BY <1>3, <2>1, <2>2, <2>3 DEF ChildrenInv, SameJob
<1> QED BY <1>1, <1>2, <1>3

\* A step of a worker leaves it owing what it owed, but for dispatches now made.
LEMMA OwedStep ==
    ASSUME IInv, ChildrenInv, NEW w \in Workers, WorkerStep(w), wk'[w].live,
           NEW j, j = wk[w].job
    PROVE  /\ wk'[w].pc = "lookup" => EventKey[TargetOf(w)] # NoKey
           /\ \A t \in Routes[TargetOf(w)] \ Owed(w)' : t \notin Owed(w) \/ Dispatched(j, t)'
<1>0. /\ TypeOK /\ StoreTypeOK /\ wk \in [Workers -> WorkerState] /\ wk[w] \in WorkerState
  BY DEF IInv, TypeOK
<1>1. wk[w].live /\ j \in JobIds /\ TargetOf(w) = row[j].target /\ row[j].target \in Targets
  <2>1. wk[w].live
    <3>1. CASE MovesOn(w)
      BY <1>0, <3>1, WorkerMovesOn DEF SameHold
    <3>2. CASE wk' = [wk EXCEPT ![w] = Idle]
      BY <1>0, <3>2 DEF Idle
    <3> QED BY <3>1, <3>2 DEF WorkerStep, MovesOn, WorkerAbort, WorkerRetry, WorkerRetryFails, RouteFail, WorkerFinish,
                              completeJob, CompletionFails, WorkerAbandon
  <2> QED BY <1>0, <2>1 DEF IInv, LifecycleInv, WorkerInv, LiveWorker, TargetOf, JobOf, StoreTypeOK, Row
<1>2. wk' # [wk EXCEPT ![w] = Idle]
  BY <1>0 DEF Idle
<1>3. Routes[TargetOf(w)] \subseteq Targets
  BY <1>1
<1>4. CASE WorkerGiveUp(w)
  <2>1. PICK o \in {"failed", "timed_out"} :
          wk' = [wk EXCEPT ![w].pc = "hook", ![w].out = o, ![w].todo = hookDispatches(JobOf(w), o)]
    BY <1>4 DEF WorkerGiveUp
  <2>2. wk'[w].pc = "hook" /\ wk'[w].out # "succeeded"
    BY <1>0, <2>1 DEF WorkerState
  <2> QED BY <1>3, <2>2 DEF Owed
<1>5. CASE WorkerSucceed(w)
  <2>1. PICK o, d : wk' = [wk EXCEPT ![w].pc = "route", ![w].out = o, ![w].todo = d] /\ d = Routes[TargetOf(w)]
    BY <1>5 DEF WorkerSucceed
  <2>2. wk'[w].pc = "route" /\ wk'[w].todo = Routes[TargetOf(w)]
    BY <1>0, <2>1 DEF WorkerState
  <2> QED BY <2>2 DEF Owed
<1>6. ASSUME NEW t, NEW k, k # NoKey, k = EventKey[TargetOf(w)], UNCHANGED storeVars,
             findOutstandingByDedupeKey(t, k) \/ findRecentSucceededByDedupeKey(t, k)
      PROVE  Dispatched(j, t)'
  <2>1. PICK c \in JobIds : row[c].key = k /\ row[c].target = t /\ row[c].status # "absent"
    BY <1>6 DEF findOutstandingByDedupeKey, findRecentSucceededByDedupeKey, SameKeyAndTarget, Outstanding
  <2>2. row' = row
    BY <1>6 DEF storeVars
  <2> QED BY <1>1, <1>6, <2>1, <2>2 DEF Dispatched, Present
<1>7. CASE RouteAdmit(w)
  <2>1. PICK t \in wk[w].todo, pc \in {"route", "insert", "lookup"} :
          /\ wk' = [wk EXCEPT ![w].todo = @ \ {t}, ![w].next = t, ![w].pc = pc]
          /\ pc = "lookup" => EventKey[TargetOf(w)] # NoKey
          /\ pc = "route" => /\ EventKey[TargetOf(w)] # NoKey
                             /\ \/ findOutstandingByDedupeKey(t, EventKey[TargetOf(w)])
                                \/ findRecentSucceededByDedupeKey(t, EventKey[TargetOf(w)])
    BY <1>7 DEF RouteAdmit
  <2>2. wk'[w].pc = pc /\ wk'[w].todo = wk[w].todo \ {t} /\ wk'[w].next = t /\ wk[w].pc = "route"
    BY <1>0, <1>7, <2>1 DEF WorkerState, RouteAdmit, Running
  <2>3. UNCHANGED storeVars
    BY <1>7 DEF RouteAdmit
  <2>4. CASE pc = "route"
    <3>1. Dispatched(j, t)'
      BY <1>6, <2>1, <2>3, <2>4
    <3>2. Owed(w) = wk[w].todo /\ Owed(w)' = wk[w].todo \ {t}
      BY <2>2, <2>4 DEF Owed
    <3> QED BY <2>2, <2>4, <3>1, <3>2
  <2>5. CASE pc # "route"
    <3>1. Owed(w) = wk[w].todo /\ Owed(w)' = (wk[w].todo \ {t}) \cup {t}
      BY <2>1, <2>2, <2>5 DEF Owed
    <3> QED BY <2>1, <2>2, <3>1
  <2> QED BY <2>4, <2>5
<1>8. CASE RouteLookup(w)
  <2>1. PICK pc \in {"route", "insert"} :
          /\ wk' = [wk EXCEPT ![w].pc = pc]
          /\ pc = "route" => findRecentSucceededByDedupeKey(wk[w].next, EventKey[TargetOf(w)])
    BY <1>8 DEF RouteLookup
  <2>2. wk'[w].pc = pc /\ wk'[w].todo = wk[w].todo /\ wk'[w].next = wk[w].next /\ wk[w].pc = "lookup"
    BY <1>0, <1>8, <2>1 DEF WorkerState, RouteLookup, Running
  <2>3. Owed(w) = wk[w].todo \cup {wk[w].next}
    BY <2>2 DEF Owed
  <2>4. CASE pc = "insert"
    BY <2>2, <2>3, <2>4 DEF Owed
  <2>5. CASE pc = "route"
    <3>1. Owed(w)' = wk[w].todo
      BY <2>2, <2>5 DEF Owed
    <3>2. PICK t, k : t = wk[w].next /\ k = EventKey[TargetOf(w)]
      OBVIOUS
    <3>3. k # NoKey /\ findRecentSucceededByDedupeKey(t, k) /\ UNCHANGED storeVars
      BY <1>1, <1>8, <2>1, <2>2, <2>5, <3>2 DEF ChildrenInv, RouteLookup
    <3>4. Dispatched(j, t)'
      BY <1>6, <3>2, <3>3
    <3> QED BY <2>2, <2>3, <2>5, <3>1, <3>2, <3>4
  <2> QED BY <2>4, <2>5
<1>9. CASE RouteInsert(w)
  <2>1. wk' = [wk EXCEPT ![w].pc = "route"]
    BY <1>9 DEF RouteInsert
  <2>2. wk'[w].pc = "route" /\ wk'[w].todo = wk[w].todo /\ wk[w].pc = "insert"
    BY <1>0, <1>9, <2>1 DEF WorkerState, RouteInsert, Running
  <2>3. Owed(w) = wk[w].todo \cup {wk[w].next} /\ Owed(w)' = wk[w].todo
    BY <2>2 DEF Owed
  <2>4. PICK n : n = wk[w].next /\ n \in Targets
    BY <1>0 DEF WorkerState
  <2>5. Dispatched(j, n)'
    <3>1. CASE SourceEventConflict(n, j, sourceEventID(w)) /\ UNCHANGED storeVars
      BY <3>1 DEF SourceEventConflict, Dispatched, Present, storeVars
    <3>2. ASSUME NEW i \in JobIds, InsertJob(i, n, EventKey[TargetOf(w)], j, sourceEventID(w), "route", TRUE)
          PROVE  Dispatched(j, n)'
      <4>1. row'[i] = NewRow(n, EventKey[TargetOf(w)], j, sourceEventID(w), "route", TRUE)
        BY <1>0, <3>2 DEF InsertJob, StoreTypeOK
      <4>2. row'[i].status = "queued" /\ row'[i].target = n /\ row'[i].parent = j
        BY <4>1 DEF NewRow
      <4> QED BY <4>2 DEF Dispatched, Present
    <3> QED BY <1>9, <2>4, <3>1, <3>2 DEF RouteInsert, JobOf
  <2> QED BY <2>2, <2>3, <2>4, <2>5
<1>10. CASE RouteDone(w)
  <2>1. wk[w].pc = "route" /\ wk[w].todo = {}
    BY <1>10 DEF RouteDone, Running
  <2>2. PICK d : wk' = [wk EXCEPT ![w].pc = "hook", ![w].todo = d]
    BY <1>10 DEF RouteDone
  <2>3. wk'[w].pc = "hook"
    BY <1>0, <2>2 DEF WorkerState
  <2> QED BY <2>1, <2>3 DEF Owed
<1>11. CASE HookEnqueue(w)
  <2>1. PICK d : wk' = [wk EXCEPT ![w].todo = d]
    BY <1>11 DEF HookEnqueue
  <2>2. wk[w].pc = "hook" /\ wk'[w].pc = "hook" /\ wk'[w].out = wk[w].out
    BY <1>0, <1>11, <2>1 DEF HookEnqueue, Running, WorkerState
  <2> QED BY <2>2 DEF Owed
<1> QED BY <1>2, <1>4, <1>5, <1>7, <1>8, <1>9, <1>10, <1>11
        DEF WorkerStep, WorkerAbort, WorkerRetry, WorkerRetryFails, RouteFail, WorkerFinish, completeJob,
            CompletionFails, WorkerAbandon

\* Every step keeps what is owed and what was dispatched in balance.
LEMMA ChildrenNext == ASSUME IInv, ChildrenInv, [Next]_vars PROVE ChildrenInv'
<1>0. TypeOK /\ TypeOK' /\ IInv'
  BY IInvNext DEF IInv
<1>1. SucceededHasChildren'
  <2> SUFFICES ASSUME NEW j \in JobIds, row'[j].status = "succeeded"
               PROVE  \A t \in Routes[row'[j].target] : Dispatched(j, t)'
    BY DEF SucceededHasChildren, Dispatched
  <2>1. /\ Present(j) /\ row'[j].target = row[j].target
        /\ \A t \in Routes[row[j].target] : Dispatched(j, t)
    BY SuccessStep
  <2>2. ASSUME NEW t \in Routes[row'[j].target] PROVE Dispatched(j, t)'
    BY <2>1, <2>2, DispatchedStays
  <2> QED BY <2>2
<1>2. ASSUME NEW w \in Workers, wk'[w].live, NEW j, j = wk[w].job, wk[w].live, wk'[w].job = wk[w].job
      PROVE  /\ j \in JobIds /\ Present(j) /\ TargetOf(w)' = TargetOf(w)
             /\ \A t \in Routes[TargetOf(w)] \ Owed(w) : Dispatched(j, t)'
  <2>1. j \in JobIds /\ Present(j)
    BY <1>2 DEF IInv, LifecycleInv, WorkerInv, LiveWorker, Present
  <2>2. SameJob(j)
    BY <2>1, RowsStay
  <2>3. TargetOf(w)' = TargetOf(w)
    BY <1>2, <2>2 DEF TargetOf, JobOf, SameJob
  <2>4. ASSUME NEW t \in Routes[TargetOf(w)] \ Owed(w) PROVE Dispatched(j, t)'
    <3>1. Dispatched(j, t)
      BY <1>2, <2>4 DEF ChildrenInv
    <3> QED BY <2>1, <3>1, DispatchedStays
  <2> QED BY <2>1, <2>3, <2>4
<1>3. ASSUME NEW w \in Workers, wk'[w].live
      PROVE  /\ wk'[w].pc = "lookup" => EventKey[TargetOf(w)'] # NoKey
             /\ \A t \in Routes[TargetOf(w)'] \ Owed(w)' : Dispatched(wk[w].job, t)'
  <2>1. ASSUME NEW i \in JobIds, StartWorker(w, i)
        PROVE  wk'[w].pc # "lookup" /\ Routes[TargetOf(w)'] \subseteq Owed(w)'
    <3>1. wk'[w] = [Idle EXCEPT !.pc = "exec", !.job = i, !.attempt = row[i].attempt, !.live = TRUE]
      BY <1>0, <2>1 DEF StartWorker, TypeOK
    <3>2. wk'[w].pc = "exec" /\ wk'[w].job = i
      BY <3>1 DEF Idle
    <3>3. TargetOf(w)' \in Targets
      BY <1>0, <3>2 DEF TargetOf, JobOf, TypeOK, StoreTypeOK, Row
    <3>4. Owed(w)' = Targets
      BY <3>2 DEF Owed
    <3> QED BY <3>2, <3>3, <3>4
  <2>2. PICK j : j = wk[w].job
    OBVIOUS
  <2>3. CASE wk[w].live /\ wk'[w] = wk[w]
    <3>1. Owed(w)' = Owed(w)
      BY <2>3 DEF Owed
    <3>2. /\ TargetOf(w)' = TargetOf(w)
          /\ \A t \in Routes[TargetOf(w)] \ Owed(w) : Dispatched(j, t)'
      BY <1>2, <1>3, <2>2, <2>3
    <3>3. wk'[w].job = j
      BY <2>2, <2>3
    <3>4. \A t : Dispatched(wk[w].job, t)' <=> Dispatched(j, t)'
      BY <3>3 DEF Dispatched
    <3> QED BY <2>3, <3>1, <3>2, <3>4 DEF ChildrenInv
  <2>4. CASE wk[w].live /\ wk'[w].job = wk[w].job /\ WorkerStep(w)
    <3>1. /\ TargetOf(w)' = TargetOf(w)
          /\ \A t \in Routes[TargetOf(w)] \ Owed(w) : Dispatched(j, t)'
      BY <1>2, <1>3, <2>2, <2>4
    <3>2. /\ wk'[w].pc = "lookup" => EventKey[TargetOf(w)] # NoKey
          /\ \A t \in Routes[TargetOf(w)] \ Owed(w)' : t \notin Owed(w) \/ Dispatched(j, t)'
      BY <1>3, <2>2, <2>4, OwedStep
    <3>3. \A t : Dispatched(wk[w].job, t)' <=> Dispatched(j, t)'
      BY <2>2, <2>4 DEF Dispatched
    <3> QED BY <3>1, <3>2, <3>3
  <2> QED BY <1>0, <1>3, <2>1, <2>3, <2>4, WorkersChange
<1> QED BY <1>1, <1>3 DEF ChildrenInv

\* A job is recorded as succeeded only when each dispatch of its events is in the queue,
\* or a row with its key is: routing a success in several transactions loses nothing.
THEOREM SuccessorsKept == Spec => []SucceededHasChildren
<1>1. Init => ChildrenInv
  BY DEF Init, StoreInit, NoRow, Idle, ChildrenInv, SucceededHasChildren
<1>2. IInv /\ ChildrenInv /\ [Next]_vars => ChildrenInv'
  BY ChildrenNext
<1>3. ChildrenInv => SucceededHasChildren
  BY DEF ChildrenInv
<1> QED BY <1>1, <1>2, <1>3, Invariance, PTL DEF Spec

-----------------------------------------------------------------------------
(* One job of a key outstanding *)

\* The scheduler as its keys' only producer: no other client, no event that carries a
\* key, the TTL override it always sets, and no schedule that cancels running work.
SoleProducer ==
    /\ CancelTargets = {}
    /\ \A c, d \in Clients : c = d
    /\ \A r \in Requests : r.key # NoKey => r.override
    /\ \A t \in Targets : EventKey[t] = NoKey

\* Once the lookup for outstanding jobs has passed, none appears before the insert.
KeyInv ==
    /\ OneOutstandingPerKey
    /\ \A c \in Clients :
         /\ client[c].pc # "idle" => client[c].req \in Requests
         /\ client[c].pc \in {"recent", "insert"} /\ client[c].req.key # NoKey =>
              ~findOutstandingByDedupeKey(client[c].req.target, client[c].req.key)

\* Only an insert makes a job outstanding, and only a client's inserts have a key.
LEMMA OutstandingStep ==
    ASSUME SoleProducer, IInv, LiveRuns, [Next]_vars, NEW j \in JobIds, row'[j].status \in {"queued", "running"},
           row'[j].key # NoKey
    PROVE  \/ Outstanding(j) /\ SameJob(j)
           \/ /\ \A i \in JobIds \ {j} : row'[i] = row[i]
              /\ \E c \in Clients : /\ ClientInsert(c) /\ row'[j].target = client[c].req.target
                                    /\ row'[j].key = client[c].req.key
<1>0. RowEffect
  BY RowEffects
<1>1. CASE RowsKept \/ Cancelled
  BY <1>1 DEF RowsKept, Cancelled, Outstanding
<1>2. ASSUME NEW i \in JobIds, Claimed(i) \/ Recovered(i) PROVE Outstanding(j) /\ SameJob(j)
  BY <1>2 DEF Claimed, Recovered, OnlyJob, Outstanding, SameJob
<1>3. ASSUME NEW w \in Workers, Ended(w) PROVE Outstanding(j) /\ SameJob(j)
  BY <1>3 DEF Ended, OnlyJob, LiveRuns, Outstanding, SameJob
<1>4. ASSUME NEW i \in JobIds, Enqueued(i), i # j PROVE Outstanding(j) /\ SameJob(j)
  BY <1>4 DEF Enqueued, OnlyJob, Outstanding, SameJob
<1>5. ASSUME Enqueued(j)
      PROVE  /\ \A i \in JobIds \ {j} : row'[i] = row[i]
             /\ \E c \in Clients : /\ ClientInsert(c) /\ row'[j].target = client[c].req.target
                                   /\ row'[j].key = client[c].req.key
  <2>1. ASSUME NEW w \in Workers, wk[w].live PROVE EventKey[TargetOf(w)] = NoKey
    BY <2>1 DEF SoleProducer, IInv, LifecycleInv, WorkerInv, LiveWorker, TypeOK, StoreTypeOK, Row, TargetOf, JobOf
  <2> QED BY <1>5, <2>1 DEF Enqueued, OnlyJob
<1> QED BY <1>0, <1>1, <1>2, <1>3, <1>4, <1>5 DEF RowEffect

\* How a client that has a request in hand got there.
LEMMA ClientChange ==
    ASSUME SoleProducer, TypeOK, [Next]_vars, NEW c \in Clients, client'[c].pc # "idle",
           client[c].pc # "idle" => client[c].req \in Requests
    PROVE  /\ client'[c].req \in Requests
           /\ client'[c].pc \in {"recent", "insert"} /\ client'[c].req.key # NoKey =>
                /\ client'[c].req = client[c].req
                /\ \/ client[c].pc \in {"recent", "insert"}
                   \/ /\ ~findOutstandingByDedupeKey(client[c].req.target, client[c].req.key)
                      /\ UNCHANGED row
<1>0. client \in [Clients -> ClientState] /\ IdleClient.pc = "idle"
  BY DEF TypeOK, IdleClient
<1> DEFINE Goal == /\ client'[c].req \in Requests
                   /\ client'[c].pc \in {"recent", "insert"} /\ client'[c].req.key # NoKey =>
                        /\ client'[c].req = client[c].req
                        /\ \/ client[c].pc \in {"recent", "insert"}
                           \/ /\ ~findOutstandingByDedupeKey(client[c].req.target, client[c].req.key)
                              /\ UNCHANGED row
<1>1. CASE UNCHANGED client
  BY <1>1
<1>2. ASSUME NEW d \in Clients, NEW x, client' = [client EXCEPT ![d] = x], d # c PROVE Goal
  BY <1>0, <1>2
<1>3. CASE ClientRequest(c)
  <2>1. PICK r \in Requests : client' = [client EXCEPT ![c] = [pc |-> IF r.key = NoKey THEN "insert"
                                                                      ELSE IF r.override THEN "outstanding" ELSE "recent",
                                                               req |-> r]]
    BY <1>3 DEF ClientRequest
  <2>2. client'[c].req = r /\ client'[c].pc = IF r.key = NoKey THEN "insert" ELSE IF r.override THEN "outstanding" ELSE "recent"
    BY <1>0, <2>1
  <2>3. r.key # NoKey => client'[c].pc = "outstanding"
    BY <2>2 DEF SoleProducer
  <2> QED BY <2>2, <2>3
<1>4. CASE ClientLookup(c)
  <2>1. client[c] \in ClientState /\ UNCHANGED row
    BY <1>0, <1>4 DEF ClientLookup, storeVars
  <2>2. CASE client[c].pc = "outstanding"
    <3>1. client'[c] = IF findOutstandingByDedupeKey(client[c].req.target, client[c].req.key)
                       THEN IdleClient ELSE [client[c] EXCEPT !.pc = "recent"]
      BY <1>0, <1>4, <2>2 DEF ClientLookup
    <3>2. /\ ~findOutstandingByDedupeKey(client[c].req.target, client[c].req.key)
          /\ client'[c] = [client[c] EXCEPT !.pc = "recent"]
      BY <1>0, <3>1
    <3>3. client'[c].req = client[c].req
      BY <2>1, <3>2 DEF ClientState
    <3> QED BY <2>1, <2>2, <3>2, <3>3
  <2>3. CASE client[c].pc = "recent"
    <3>1. client'[c] = IF findRecentSucceededByDedupeKey(client[c].req.target, client[c].req.key)
                       THEN IdleClient ELSE [client[c] EXCEPT !.pc = "insert"]
      BY <1>0, <1>4, <2>3 DEF ClientLookup
    <3>2. client'[c] = [client[c] EXCEPT !.pc = "insert"]
      BY <1>0, <3>1
    <3>3. client'[c].req = client[c].req
      BY <2>1, <3>2 DEF ClientState
    <3> QED BY <2>3, <3>3
  <2> QED BY <1>4, <2>2, <2>3 DEF ClientLookup
<1>5. ASSUME ClientInsert(c) PROVE FALSE
  BY <1>0, <1>5 DEF ClientInsert
<1>6. ASSUME NEW d \in Clients, ClientStep(d) PROVE Goal
  <2>1. d = c
    BY DEF SoleProducer
  <2> QED BY <1>3, <1>4, <1>5, <1>6, <2>1 DEF ClientStep
<1>7. ASSUME NEW t \in Targets, SchedulerCancel(t) PROVE UNCHANGED client
  BY <1>7 DEF SchedulerCancel
<1>8. CASE LoopStep
  BY <1>1, <1>8 DEF LoopStep, CountLanes, NoEligibleWork, StartWorker
<1>9. ASSUME NEW w \in Workers, WorkerStep(w) PROVE UNCHANGED client
  BY <1>9 DEF WorkerStep, restUnchanged, WorkerAbort, WorkerRetry, WorkerRetryFails, WorkerGiveUp, WorkerSucceed,
              RouteAdmit, RouteLookup, RouteInsert, RouteFail, RouteDone, HookEnqueue, WorkerFinish, CompletionFails,
              WorkerAbandon
<1>10. CASE RecoveryStep
  BY <1>1, <1>10 DEF RecoveryStep, RecoverRequeue, RecoverDead, RecoverComplete, RecoverHook, RecoverFails, RecoverDone,
                     runtimeUnchanged
<1>11. CASE StopBegin \/ Reload \/ Crash
  <2>1. client'[c] = IdleClient
    BY <1>11 DEF StopBegin, Reload, Crash, CancelContext
  <2> QED BY <1>0, <2>1
<1>12. CASE Start \/ StopEnd \/ Clock \/ UNCHANGED vars
  BY <1>1, <1>12 DEF Start, StopEnd, Clock, vars
<1> QED BY <1>1, <1>6, <1>7, <1>8, <1>9, <1>10, <1>11, <1>12 DEF Next

\* Every step keeps a key's outstanding jobs at one.
LEMMA KeyNext == ASSUME SoleProducer, IInv, LiveRuns, KeyInv, [Next]_vars PROVE KeyInv'
<1>0. TypeOK /\ CancelTargets = {}
  BY DEF IInv, SoleProducer
<1>1. ASSUME NEW i \in JobIds, NEW j \in JobIds, i # j, \A k \in JobIds \ {i} : row'[k] = row[k],
             row'[i].target = row'[j].target, row'[i].key = row'[j].key, row'[i].key # NoKey,
             row'[j].status \in {"queued", "running"},
             NEW c \in Clients, ClientInsert(c), row'[i].target = client[c].req.target,
             row'[i].key = client[c].req.key
      PROVE  FALSE
  <2>1. row'[j] = row[j]
    BY <1>1
  <2>2. findOutstandingByDedupeKey(client[c].req.target, client[c].req.key)
    BY <1>1, <2>1 DEF findOutstandingByDedupeKey, SameKeyAndTarget, Outstanding
  <2>3. client[c].pc = "insert" /\ client[c].req.key # NoKey
    BY <1>1 DEF ClientInsert
  <2> QED BY <2>2, <2>3 DEF KeyInv
<1>2. OneOutstandingPerKey'
  <2> SUFFICES ASSUME NEW i \in JobIds, NEW j \in JobIds, i # j,
                      row'[i].status \in {"queued", "running"}, row'[j].status \in {"queued", "running"},
                      row'[i].key # NoKey, row'[i].target = row'[j].target, row'[i].key = row'[j].key
               PROVE  FALSE
    BY DEF OneOutstandingPerKey, Outstanding, SameKeyAndTarget
  <2>1. Outstanding(i) /\ SameJob(i)
    BY <1>1, OutstandingStep
  <2>2. Outstanding(j) /\ SameJob(j)
    BY <1>1, OutstandingStep
  <2> QED BY <2>1, <2>2 DEF KeyInv, OneOutstandingPerKey, SameKeyAndTarget, SameJob
<1>3. ASSUME NEW c \in Clients, client'[c].pc # "idle"
      PROVE  /\ client'[c].req \in Requests
             /\ client'[c].pc \in {"recent", "insert"} /\ client'[c].req.key # NoKey =>
                  /\ client'[c].req = client[c].req
                  /\ \/ client[c].pc \in {"recent", "insert"}
                     \/ /\ ~findOutstandingByDedupeKey(client[c].req.target, client[c].req.key)
                        /\ UNCHANGED row
  BY <1>0, <1>3, ClientChange DEF KeyInv
<1>4. ASSUME NEW c \in Clients, client'[c].pc \in {"recent", "insert"}, client'[c].req.key # NoKey,
             NEW j \in JobIds, row'[j].status \in {"queued", "running"},
             row'[j].target = client'[c].req.target, row'[j].key = client'[c].req.key
      PROVE  FALSE
  <2>1. /\ client'[c].req = client[c].req
        /\ ~findOutstandingByDedupeKey(client[c].req.target, client[c].req.key)
    BY <1>3, <1>4 DEF KeyInv
  <2>2. ~(Outstanding(j) /\ SameJob(j))
    BY <1>4, <2>1 DEF findOutstandingByDedupeKey, SameKeyAndTarget, SameJob
  <2>3. PICK d \in Clients : ClientInsert(d)
    BY <1>4, <2>2, OutstandingStep
  <2>4. client'[c].pc = "idle"
    BY <1>0, <2>3 DEF SoleProducer, ClientInsert, IdleClient, TypeOK
  <2> QED BY <1>4, <2>4
<1>5. ASSUME NEW c \in Clients
      PROVE  /\ client'[c].pc # "idle" => client'[c].req \in Requests
             /\ client'[c].pc \in {"recent", "insert"} /\ client'[c].req.key # NoKey =>
                  ~findOutstandingByDedupeKey(client[c].req.target, client[c].req.key)'
  BY <1>3, <1>4 DEF findOutstandingByDedupeKey, SameKeyAndTarget, Outstanding
<1> QED BY <1>2, <1>5 DEF KeyInv

\* Work is neither lost nor doubled between the queue, its workers and a restart: what
\* runs is owned, what succeeded has its successors, and a key whose producer is one
\* scheduler has one job outstanding.
THEOREM WorkIsAccounted == ASSUME SoleProducer PROVE Spec => []WorkAccounted
<1>0. CancelTargets = {}
  BY DEF SoleProducer
<1>1. Init => KeyInv /\ LiveRuns
  <2>1. ASSUME Init PROVE KeyInv
    <3>1. \A j \in JobIds : row[j].status = "absent"
      BY <2>1 DEF Init, StoreInit, NoRow
    <3>2. \A c \in Clients : client[c].pc = "idle"
      BY <2>1 DEF Init, IdleClient
    <3> QED BY <3>1, <3>2 DEF KeyInv, OneOutstandingPerKey, Outstanding
  <2> QED BY <2>1, LifecycleInit
<1>2. IInv /\ LiveRuns /\ [Next]_vars => LiveRuns'
  BY <1>0, LiveRunsNext
<1>3. IInv /\ LiveRuns /\ KeyInv /\ [Next]_vars => KeyInv'
  BY KeyNext
<1>4. KeyInv => OneOutstandingPerKey
  BY DEF KeyInv
<1>5. RunningIsOwned /\ SucceededHasChildren /\ OneOutstandingPerKey => WorkAccounted
  BY DEF WorkAccounted
<1> QED BY <1>1, <1>2, <1>3, <1>4, <1>5, RunningOwned, SuccessorsKept, Invariance, PTL DEF Spec
=============================================================================
