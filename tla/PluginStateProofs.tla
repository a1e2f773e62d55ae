------------------------- MODULE PluginStateProofs --------------------------
(***************************************************************************)
(* Proofs about PluginState, for any number of jobs, keys, commands, rules *)
(* and attempts: plugin_state is what the committed writes leave one after *)
(* the other, and what a job reports is recorded once.                     *)
(***************************************************************************)
EXTENDS PluginState, TLAPS

Steps == {"queued", "running", "facts", "merge", "merging", "routing", "succeeded", "failed"}
Row == [Keys -> StateJobs \union {0}]
WorkState == [at : Steps, command : DOMAIN FactOutputs, run : Nat, updates : SUBSET Keys,
              todo : Seq(FactRule), read : Row]
Fact == [job : StateJobs, run : Nat, rule : Int, type : FactTypes, updates : SUBSET Keys]
Write == [by : StateJobs, keys : SUBSET Keys, whole : BOOLEAN]

Typed ==
  /\ work \in [StateJobs -> WorkState] /\ plugin_state \in Row
  /\ plugin_facts \in Seq(Fact) /\ writes \in Seq(Write)
  /\ conn \in StateJobs \union {0}

\* Attempts stay within max_attempts, and a queued job has one left.
RunsBounded ==
  \A j \in StateJobs : /\ work[j].run <= MaxRuns[j]
                       /\ work[j].at = "queued" => work[j].run < MaxRuns[j]

\* A job in the middle of a merge holds the connection and has read the row as it
\* is: nobody else can have written it since.
Exclusive ==
  /\ \A j \in StateJobs : work[j].at = "merging" => conn = j /\ work[j].read = plugin_state
  /\ conn # 0 => work[conn].at \in {"facts", "merging"}

Rules(j) == FactOutputs[work[j].command]

EndOf(t, s) == /\ t # <<>> /\ Len(t) <= Len(s)
               /\ \A k \in 1..Len(t) : t[k] = s[Len(s) - Len(t) + k]

\* What a job has still to record is the end of its command's list of rules.
TodoIsSuffix ==
  \A j \in StateJobs :
    /\ work[j].at = "facts" => EndOf(work[j].todo, Rules(j))
    /\ work[j].at \in {"merge", "merging"} => Rules(j) = <<>>

\* The first n rules of a job's command have their facts.
Recorded(j, n) ==
  \A r \in 1..n : \E i \in DOMAIN plugin_facts :
    plugin_facts[i] = [job |-> j, run |-> work[j].run, rule |-> r, type |-> Rules(j)[r].type,
                       updates |-> work[j].updates]
Merged(j) == \E i \in DOMAIN writes : writes[i].by = j /\ writes[i].keys = work[j].updates

ReportKept ==
  \A j \in StateJobs :
    /\ work[j].at = "facts" => Recorded(j, Len(Rules(j)) - Len(work[j].todo))
    /\ work[j].at \in {"routing", "succeeded"} /\ work[j].updates # {} =>
         /\ Recorded(j, Len(Rules(j)))
         /\ Rules(j) = <<>> => Merged(j)

\* No fact is from an attempt to come, nor from a rule this attempt has not reached.
FactsArePast ==
  \A i \in DOMAIN plugin_facts :
    LET f == plugin_facts[i]
    IN /\ f.run <= work[f.job].run
       /\ work[f.job].at = "running" => f.run < work[f.job].run
       /\ work[f.job].at = "facts" /\ f.run = work[f.job].run => f.rule < RuleAt(f.job)

FactsDistinct ==
  \A h, i \in DOMAIN plugin_facts : h # i =>
    <<plugin_facts[h].job, plugin_facts[h].run, plugin_facts[h].rule>>
      # <<plugin_facts[i].job, plugin_facts[i].run, plugin_facts[i].rule>>

\* Of the writes that touch a key one is the newest.
HasNewest(ws, k) == Touching(ws, k) # {} => \E i \in Touching(ws, k) : \A h \in Touching(ws, k) : h <= i

\* The inductive invariant.
StateInv ==
  /\ Typed /\ RunsBounded /\ Exclusive /\ TodoIsSuffix
  /\ (\A k \in Keys : HasNewest(writes, k)) /\ StateIsLastWrites /\ ReportKept /\ FactsArePast /\ FactsDistinct

----------------------------------------------------------------------------
\* A committed write is what later readers see of the keys it touches, and leaves the others.
LEMMA LastOfAppend ==
  ASSUME NEW ws \in Seq(Write), NEW w \in Write, NEW k \in Keys, HasNewest(ws, k)
  PROVE  /\ LastWrite(Append(ws, w), k) =
              IF k \in w.keys THEN w.by ELSE IF w.whole THEN 0 ELSE LastWrite(ws, k)
         /\ HasNewest(Append(ws, w), k)
<1> DEFINE new == Append(ws, w)
           n == Len(ws) + 1
<1>1. /\ new \in Seq(Write) /\ Len(new) = n /\ new[n] = w /\ n \in Nat
      /\ DOMAIN new = 1..n /\ DOMAIN ws = 1..Len(ws)
      /\ \A i \in 1..Len(ws) : new[i] = ws[i]
  OBVIOUS
<1>2. CASE w.whole \/ k \in w.keys
  <2>1. n \in Touching(new, k) /\ \A h \in Touching(new, k) : h <= n
    BY <1>1, <1>2 DEF Touching
  <2>2. Newest(Touching(new, k)) = n
    <3>1. \A i \in Touching(new, k) : (\A h \in Touching(new, k) : h <= i) => i = n
      BY <2>1, <1>1 DEF Touching
    <3> QED BY <2>1, <3>1, Zenon DEF Newest
  <2> QED BY <1>1, <1>2, <2>1, <2>2 DEF LastWrite, HasNewest
<1>3. CASE ~(w.whole \/ k \in w.keys)
  <2>1. Touching(new, k) = Touching(ws, k)
    BY <1>1, <1>3 DEF Touching
  <2>2. CASE Touching(ws, k) = {}
    BY <1>3, <2>1, <2>2 DEF LastWrite, HasNewest
  <2>3. CASE Touching(ws, k) # {}
    <3>1. Newest(Touching(ws, k)) \in Touching(ws, k)
      BY <2>3, Zenon DEF Newest, HasNewest
    <3> QED BY <1>1, <1>3, <2>1, <2>3, <3>1 DEF LastWrite, Touching, HasNewest
  <2> QED BY <2>2, <2>3
<1> QED BY <1>2, <1>3

\* The rules of a job's command are a list of typed rules.
LEMMA RulesTyped ==
  ASSUME Typed, NEW j \in StateJobs
  PROVE  Rules(j) \in Seq(FactRule)
BY StateAssumption DEF Typed, WorkState, Rules

\* A row of plugin_facts has the shape of a fact.
LEMMA FactsTyped ==
  ASSUME Typed
  PROVE  \A i \in DOMAIN plugin_facts : /\ plugin_facts[i] \in Fact /\ plugin_facts[i].job \in StateJobs
                                        /\ plugin_facts[i].run \in Nat /\ plugin_facts[i].rule \in Int
<1>1. \A i \in DOMAIN plugin_facts : plugin_facts[i] \in Fact
  BY DEF Typed
<1>2. \A f \in Fact : f.job \in StateJobs /\ f.run \in Nat /\ f.rule \in Int
  BY DEF Fact
<1> QED BY <1>1, <1>2

\* A step of one job that writes nothing: the job starts on its list of facts
\* only with its response, and completes only what it has recorded.
QuietMove(j, w) ==
  /\ work' = [work EXCEPT ![j] = w] /\ w \in WorkState
  /\ UNCHANGED <<plugin_state, plugin_facts, writes>>
  /\ w.command = work[j].command
  /\ w.run >= work[j].run /\ w.run <= MaxRuns[j] /\ (w.at = "queued" => w.run < MaxRuns[j])
  /\ conn' = conn \/ (conn \in {0, j} /\ conn' \in {0, j})
  /\ conn' = j => w.at \in {"facts", "merging"}
  /\ w.at = "merging" => conn' = j /\ w.read = plugin_state
  /\ w.at = "running" => w.run > work[j].run
  /\ w.at = "facts" => work[j].at = "running" /\ w.run = work[j].run /\ w.todo = Rules(j) /\ w.todo # <<>>
  /\ w.at \in {"merge", "merging"} => Rules(j) = <<>>
  /\ w.at \in {"routing", "succeeded"} /\ w.updates # {} =>
       work[j].at = "routing" /\ w.updates = work[j].updates /\ w.run = work[j].run

\* Such a step keeps the invariant.
LEMMA QuietKeeps ==
  ASSUME StateInv, NEW j \in StateJobs, NEW w, QuietMove(j, w)
  PROVE  StateInv'
<1>0. /\ Typed /\ RunsBounded /\ Exclusive /\ TodoIsSuffix /\ ReportKept /\ FactsArePast
  BY DEF StateInv
<1>1. Typed' /\ work'[j] = w /\ \A i \in StateJobs : i # j => work'[i] = work[i]
  BY <1>0 DEF Typed, QuietMove, Exclusive
<1>2. \A i \in StateJobs : Rules(i)' = Rules(i) /\ Rules(i) \in Seq(FactRule)
  BY <1>0, <1>1, RulesTyped DEF Rules, QuietMove
<1>3. /\ \A i \in StateJobs : /\ Len(Rules(i)) \in Nat /\ work[i].todo \in Seq(FactRule)
                              /\ Len(work[i].todo) \in Nat /\ work[i].run \in Nat /\ MaxRuns[i] \in Nat
      /\ w.run \in Nat /\ w.todo \in Seq(FactRule) /\ Len(w.todo) \in Nat
  <2>1. \A i \in StateJobs : work[i] \in WorkState
    BY <1>0 DEF Typed
  <2>2. w \in WorkState
    BY DEF QuietMove
  <2>3. \A v \in WorkState : v.run \in Nat /\ v.todo \in Seq(FactRule) /\ Len(v.todo) \in Nat
    BY DEF WorkState
  <2> QED BY <1>2, <2>1, <2>2, <2>3, StateAssumption
<1>4. RunsBounded' 
  BY <1>0, <1>1, <1>3 DEF RunsBounded, QuietMove
<1>5. Exclusive'
  BY <1>0, <1>1, StateAssumption DEF Exclusive, Typed, QuietMove
<1>6. TodoIsSuffix'
  <2>1. w.at = "facts" => EndOf(w.todo, Rules(j))
    <3>1. \A t \in Seq(FactRule) : t # <<>> => EndOf(t, t)
      BY DEF EndOf
    <3> QED BY <1>3, <3>1 DEF QuietMove
  <2> QED BY <1>0, <1>1, <1>2, <2>1 DEF TodoIsSuffix, QuietMove
<1>7. (\A k \in Keys : HasNewest(writes, k))' /\ StateIsLastWrites'
  BY DEF StateInv, StateIsLastWrites, QuietMove
<1>8. ReportKept'
  <2> SUFFICES ASSUME NEW i \in StateJobs
               PROVE  /\ work'[i].at = "facts" => Recorded(i, Len(Rules(i)) - Len(work[i].todo))'
                      /\ work'[i].at \in {"routing", "succeeded"} /\ work'[i].updates # {} =>
                           Recorded(i, Len(Rules(i)))' /\ (Rules(i)' = <<>> => Merged(i)')
    BY DEF ReportKept
  <2>1. CASE i # j
    <3>1. \A n : (Recorded(i, n)' <=> Recorded(i, n)) /\ (Merged(i)' <=> Merged(i))
      BY <1>1, <1>2, <2>1 DEF Recorded, Merged, QuietMove
    <3> QED BY <1>0, <1>1, <1>2, <2>1, <3>1 DEF ReportKept
  <2>2. CASE i = j
    <3>1. w.at = "facts" => Recorded(j, Len(Rules(j)) - Len(w.todo))'
      BY <1>1, <1>2, <1>3 DEF Recorded, QuietMove
    <3>2. w.at \in {"routing", "succeeded"} /\ w.updates # {} =>
            (\A n : Recorded(j, n)' <=> Recorded(j, n)) /\ (Merged(j)' <=> Merged(j))
      BY <1>1, <1>2, SMTT(60) DEF Recorded, Merged, QuietMove
    <3>3. w.at \in {"routing", "succeeded"} /\ w.updates # {} =>
            Recorded(j, Len(Rules(j))) /\ (Rules(j) = <<>> => Merged(j))
      BY <1>0 DEF ReportKept, QuietMove
    <3> QED BY <1>1, <1>2, <2>2, <3>1, <3>2, <3>3
  <2> QED BY <2>1, <2>2
<1>9. FactsArePast'
  <2>1. \A i \in StateJobs : RuleAt(i) = Len(Rules(i)) - Len(work[i].todo) + 1
    BY DEF RuleAt, pluginFactsFromStateUpdates, Rules
  <2>2. \A i \in StateJobs : RuleAt(i)' = Len(Rules(i)) - Len(work'[i].todo) + 1
    BY <1>2 DEF RuleAt, pluginFactsFromStateUpdates, Rules
  <2>3. \A i \in DOMAIN plugin_facts : plugin_facts[i].job \in StateJobs /\ plugin_facts[i].run \in Nat
    BY <1>0, FactsTyped
  <2> SUFFICES ASSUME NEW i \in DOMAIN plugin_facts, NEW f, f = plugin_facts[i]
               PROVE  /\ f.run <= work'[f.job].run
                      /\ work'[f.job].at = "running" => f.run < work'[f.job].run
                      /\ work'[f.job].at = "facts" /\ f.run = work'[f.job].run => f.rule < RuleAt(f.job)'
    BY DEF FactsArePast, QuietMove
  <2>4. /\ f.run <= work[f.job].run
        /\ work[f.job].at = "running" => f.run < work[f.job].run
        /\ work[f.job].at = "facts" /\ f.run = work[f.job].run => f.rule < RuleAt(f.job)
    BY <1>0 DEF FactsArePast
  <2>5. CASE f.job = j
    BY <1>1, <1>3, <2>3, <2>4, <2>5 DEF QuietMove
  <2>6. CASE f.job # j
    BY <1>1, <2>1, <2>2, <2>3, <2>4, <2>6
  <2> QED BY <2>5, <2>6
<1>10. FactsDistinct'
  BY DEF StateInv, FactsDistinct, QuietMove
<1> QED BY <1>1, <1>4, <1>5, <1>6, <1>7, <1>8, <1>9, <1>10 DEF StateInv

----------------------------------------------------------------------------
\* A response that is forgotten leaves a well-formed job, with an attempt left if it is queued.
LEMMA EndedTyped ==
  ASSUME StateInv, NEW j \in StateJobs, NEW at \in {"queued", "failed"}
  PROVE  LET w == Ended(j, at)
         IN w \in WorkState /\ w.at = at /\ w.run = work[j].run /\ w.command = work[j].command
<1>1. work[j] \in WorkState
  BY DEF StateInv, Typed
<1>2. Nothing \in Row /\ {} \in SUBSET Keys /\ <<>> \in Seq(FactRule)
  BY DEF Nothing, Row
<1> QED BY <1>1, <1>2 DEF Ended, WorkState, Steps

\* The steps of one job that write nothing.
LEMMA QuietSteps ==
  ASSUME StateInv, NEW j \in StateJobs,
         GetState(j) \/ PluginResponds(j) \/ BeginMerge(j) \/ WriteFails(j) \/ CompleteJob(j)
  PROVE  StateInv'
<1> USE DEF Rules
<1>0. /\ work[j] \in WorkState /\ plugin_state \in Row /\ work[j].run \in Nat /\ MaxRuns[j] \in Nat
      /\ work[j].run <= MaxRuns[j] /\ (work[j].at = "queued" => work[j].run < MaxRuns[j])
      /\ j # 0 /\ (conn # 0 => work[conn].at \in {"facts", "merging"})
      /\ (work[j].at = "merging" => conn = j /\ work[j].read = plugin_state)
      /\ work[j].todo \in Seq(FactRule)
  <2>1. Typed /\ RunsBounded /\ Exclusive
    BY DEF StateInv
  <2>2. work[j] \in WorkState /\ plugin_state \in Row
    BY <2>1 DEF Typed
  <2>3. work[j].run \in Nat /\ work[j].todo \in Seq(FactRule)
    BY <2>2 DEF WorkState
  <2>4. MaxRuns[j] \in Nat /\ j # 0
    BY StateAssumption
  <2> QED BY <2>1, <2>2, <2>3, <2>4 DEF RunsBounded, Exclusive
<1>f. QuietMove(j, Failed(j)) <=>
        /\ work' = [work EXCEPT ![j] = Failed(j)]
        /\ UNCHANGED <<plugin_state, plugin_facts, writes>>
        /\ conn' = conn \/ (conn \in {0, j} /\ conn' \in {0, j})
        /\ conn' # j
  BY <1>0, EndedTyped DEF QuietMove, Failed
<1>1. CASE GetState(j)
  <2>1. PICK at \in {"running", "failed"} :
          work' = [work EXCEPT ![j] = [work[j] EXCEPT !.at = at, !.run = work[j].run + 1]]
    BY <1>1 DEF GetState
  <2> DEFINE w == [work[j] EXCEPT !.at = at, !.run = work[j].run + 1]
  <2>2. w \in WorkState /\ w.at = at /\ w.run = work[j].run + 1 /\ w.command = work[j].command
    <3>1. at \in Steps /\ work[j].run + 1 \in Nat
      BY <1>0 DEF Steps
    <3>2. \A v \in WorkState, n \in Nat :
            LET x == [v EXCEPT !.at = at, !.run = n]
            IN x \in WorkState /\ x.at = at /\ x.run = n /\ x.command = v.command
      BY <3>1 DEF WorkState
    <3> QED BY <1>0, <3>1, <3>2
  <2> HIDE DEF w
  <2>3. QuietMove(j, w)
    <3>1. work' = [work EXCEPT ![j] = w]
      BY <2>1 DEF w
    <3>2. work[j].run < MaxRuns[j] /\ conn = 0 /\ UNCHANGED <<plugin_state, plugin_facts, conn, writes>>
      BY <1>0, <1>1 DEF GetState
    <3>3. work[j].run + 1 >= work[j].run /\ work[j].run + 1 <= MaxRuns[j] /\ work[j].run + 1 > work[j].run
      BY <1>0, <3>2, SMTT(60)
    <3> QED BY <1>0, <2>2, <3>1, <3>2, <3>3 DEF QuietMove
  <2> QED BY <2>3, QuietKeeps
<1>2. CASE PluginResponds(j)
  <2>0. conn # j
    BY <1>0, <1>2 DEF PluginResponds
  <2>1. CASE work' = [work EXCEPT ![j] = RunAgain(j)]
    <3>1. PICK at \in {"queued", "failed"} : RunAgain(j) = Ended(j, at) /\ (at = "queued" => work[j].run < MaxRuns[j])
      BY DEF RunAgain, Failed
    <3>2. QuietMove(j, Ended(j, at))
      BY <1>0, <1>2, <2>0, <2>1, <3>1, EndedTyped DEF QuietMove, PluginResponds
    <3> QED BY <3>2, QuietKeeps
  <2>2. ASSUME NEW u \in SUBSET Keys,
               work' = [work EXCEPT ![j] =
                 [work[j] EXCEPT
                    !.at = IF u = {} THEN "routing" ELSE IF Rules(j) # <<>> THEN "facts" ELSE "merge",
                    !.updates = u, !.todo = IF u = {} THEN <<>> ELSE Rules(j)]]
        PROVE  StateInv'
    <3> DEFINE w == [work[j] EXCEPT
                       !.at = IF u = {} THEN "routing" ELSE IF Rules(j) # <<>> THEN "facts" ELSE "merge",
                       !.updates = u, !.todo = IF u = {} THEN <<>> ELSE Rules(j)]
    <3>1. Rules(j) \in Seq(FactRule) /\ <<>> \in Seq(FactRule)
      BY RulesTyped DEF StateInv
    <3>2. /\ w \in WorkState /\ w.run = work[j].run /\ w.command = work[j].command /\ w.updates = u
          /\ w.at = (IF u = {} THEN "routing" ELSE IF Rules(j) # <<>> THEN "facts" ELSE "merge")
          /\ u # {} => w.todo = Rules(j)
      <4> HIDE DEF Rules
      <4> QED BY <1>0, <3>1 DEF WorkState, Steps
    <3> HIDE DEF w
    <3>3. work' = [work EXCEPT ![j] = w]
      BY <2>2 DEF w
    <3>4. UNCHANGED <<plugin_state, plugin_facts, writes, conn>> /\ work[j].at = "running"
      BY <1>2 DEF PluginResponds
    <3>5. QuietMove(j, w)
      <4> HIDE DEF Rules
      <4> QED BY <1>0, <2>0, <3>2, <3>3, <3>4 DEF QuietMove
    <3> QED BY <3>5, QuietKeeps
  <2> QED BY <1>2, <2>1, <2>2 DEF PluginResponds, pluginFactsFromStateUpdates
<1>3. CASE BeginMerge(j)
  <2> DEFINE w == [work[j] EXCEPT !.at = "merging", !.read = plugin_state]
  <2>1. /\ w \in WorkState /\ w.at = "merging" /\ w.run = work[j].run /\ w.command = work[j].command
        /\ w.read = plugin_state
    BY <1>0 DEF WorkState, Steps
  <2>2. Rules(j) = <<>>
    BY <1>3 DEF StateInv, TodoIsSuffix, BeginMerge
  <2>3. QuietMove(j, w)
    BY <1>0, <1>3, <2>1, <2>2 DEF QuietMove, BeginMerge
  <2> QED BY <2>3, QuietKeeps
<1>4. CASE WriteFails(j)
  <2>1. QuietMove(j, Failed(j))
    BY <1>0, <1>f, <1>4 DEF WriteFails
  <2> QED BY <2>1, QuietKeeps
<1>5. CASE CompleteJob(j)
  <2>1. CASE work' = [work EXCEPT ![j] = Failed(j)]
    <3>1. QuietMove(j, Failed(j))
      BY <1>0, <1>f, <1>5, <2>1 DEF CompleteJob
    <3> QED BY <3>1, QuietKeeps
  <2>2. CASE work' = [work EXCEPT ![j].at = "succeeded"]
    <3> DEFINE w == [work[j] EXCEPT !.at = "succeeded"]
    <3>1. w \in WorkState /\ w.at = "succeeded" /\ w.run = work[j].run /\ w.command = work[j].command
          /\ w.updates = work[j].updates
      BY <1>0 DEF WorkState, Steps
    <3>2. QuietMove(j, w)
      BY <1>0, <1>5, <2>2, <3>1 DEF QuietMove, CompleteJob
    <3> QED BY <3>2, QuietKeeps
  <2> QED BY <1>5, <2>1, <2>2 DEF CompleteJob
<1> QED BY <1>1, <1>2, <1>3, <1>4, <1>5

----------------------------------------------------------------------------
\* A table that is only appended to keeps its rows and gains one.
LEMMA AppendKeeps ==
  ASSUME NEW S, NEW t \in Seq(S), NEW e \in S
  PROVE  /\ Append(t, e) \in Seq(S) /\ Len(t) + 1 \notin DOMAIN t
         /\ Len(t) + 1 \in DOMAIN Append(t, e) /\ Append(t, e)[Len(t) + 1] = e
         /\ \A i \in DOMAIN t : i \in DOMAIN Append(t, e) /\ Append(t, e)[i] = t[i]
         /\ \A i \in DOMAIN Append(t, e) : i \in DOMAIN t \/ i = Len(t) + 1
OBVIOUS

\* Taking the first rule off a list that ends another leaves the rest of it.
LEMMA TailEnds ==
  ASSUME NEW t \in Seq(FactRule), NEW s \in Seq(FactRule), EndOf(t, s)
  PROVE  /\ Tail(t) \in Seq(FactRule) /\ Len(Tail(t)) = Len(t) - 1 /\ Len(t) \in Nat /\ Len(s) \in Nat
         /\ Len(t) >= 1 /\ Len(t) <= Len(s) /\ s # <<>>
         /\ Head(t) \in FactRule /\ Head(t) = s[Len(s) - Len(t) + 1]
         /\ Len(t) # 1 => EndOf(Tail(t), s)
<1>1. t # <<>> /\ Len(t) <= Len(s) /\ \A k \in 1..Len(t) : t[k] = s[Len(s) - Len(t) + k]
  BY DEF EndOf
<1>2. /\ Tail(t) \in Seq(FactRule) /\ Len(Tail(t)) = Len(t) - 1 /\ Len(t) \in Nat /\ Len(s) \in Nat
      /\ Len(t) >= 1 /\ Head(t) \in FactRule /\ Head(t) = t[1]
      /\ \A k \in 1..Len(Tail(t)) : Tail(t)[k] = t[k + 1]
  BY <1>1
<1>3. s # <<>>
  BY <1>1, <1>2
<1>4. ASSUME Len(t) # 1 PROVE EndOf(Tail(t), s)
  <2>1. Tail(t) # <<>> /\ Len(Tail(t)) <= Len(s)
    <3>1. \A x \in Seq(FactRule) : Len(x) # 0 => x # <<>>
      OBVIOUS
    <3>2. Len(Tail(t)) # 0 /\ Len(Tail(t)) <= Len(s)
      BY <1>1, <1>2, <1>4
    <3> QED BY <1>2, <3>1, <3>2
  <2>2. ASSUME NEW k \in 1..Len(Tail(t)) PROVE Tail(t)[k] = s[Len(s) - Len(Tail(t)) + k]
    <3>1. k + 1 \in 1..Len(t) /\ Len(s) - Len(Tail(t)) + k = Len(s) - Len(t) + (k + 1)
      BY <1>2, <2>2
    <3>2. Tail(t)[k] = t[k + 1]
      BY <1>2, <2>2
    <3>3. t[k + 1] = s[Len(s) - Len(t) + (k + 1)]
      BY <1>1, <3>1
    <3> QED BY <3>1, <3>2, <3>3
  <2> QED BY <2>1, <2>2 DEF EndOf
<1> QED BY <1>1, <1>2, <1>3, <1>4

\* A transaction begins.
LEMMA BeginFactKeeps ==
  ASSUME StateInv, NEW j \in StateJobs, BeginFact(j)
  PROVE  StateInv'
<1>1. UNCHANGED <<work, plugin_state, plugin_facts, writes>> /\ conn = 0 /\ conn' = j /\ work[j].at = "facts"
  BY DEF BeginFact
<1>2. Typed' /\ Exclusive'
  BY <1>1, StateAssumption DEF StateInv, Typed, Exclusive
<1>3. RunsBounded' /\ TodoIsSuffix' /\ FactsDistinct'
  BY <1>1 DEF StateInv, RunsBounded, TodoIsSuffix, FactsDistinct, Rules
<1>4. (\A k \in Keys : HasNewest(writes, k))' /\ StateIsLastWrites'
  BY <1>1 DEF StateInv, StateIsLastWrites
<1>5. ReportKept'
  <2>1. \A i \in StateJobs : /\ Rules(i)' = Rules(i) /\ (Merged(i)' <=> Merged(i))
                              /\ \A n : Recorded(i, n)' <=> Recorded(i, n)
    BY <1>1 DEF Recorded, Merged, Rules
  <2> QED BY <1>1, <2>1 DEF StateInv, ReportKept
<1>6. FactsArePast'
  BY <1>1 DEF StateInv, FactsArePast, RuleAt, pluginFactsFromStateUpdates
<1> QED BY <1>2, <1>3, <1>4, <1>5, <1>6 DEF StateInv

\* A write leaves plugin_state as the writes so far and this one.
LEMMA WriteKeeps ==
  ASSUME StateInv, NEW w \in Write, writes' = Append(writes, w),
         \A k \in Keys : plugin_state'[k] = IF k \in w.keys THEN w.by ELSE IF w.whole THEN 0 ELSE plugin_state[k]
  PROVE  (\A k \in Keys : HasNewest(writes, k))' /\ StateIsLastWrites'
<1>1. writes \in Seq(Write) /\ \A k \in Keys : HasNewest(writes, k)
  BY DEF StateInv, Typed
<1>2. \A k \in Keys : plugin_state[k] = LastWrite(writes, k)
  BY DEF StateInv, StateIsLastWrites
<1>3. \A k \in Keys : HasNewest(writes', k)
  BY <1>1, LastOfAppend
<1>4. \A k \in Keys : plugin_state'[k] = LastWrite(writes', k)
  BY <1>1, <1>2, LastOfAppend
<1> QED BY <1>3, <1>4 DEF StateIsLastWrites

\* A merge writes over the row as it is, since it was read in the same transaction.
LEMMA ShallowMergeKeeps ==
  ASSUME StateInv, NEW j \in StateJobs, ShallowMerge(j)
  PROVE  StateInv'
<1>0. Typed /\ RunsBounded /\ Exclusive /\ TodoIsSuffix /\ ReportKept /\ FactsArePast
  BY DEF StateInv
<1>1. /\ work[j] \in WorkState /\ work[j].at = "merging" /\ conn = j /\ conn' = 0 /\ j # 0
      /\ work[j].read = plugin_state /\ plugin_state \in Row /\ Rules(j) = <<>>
      /\ UNCHANGED plugin_facts
  BY <1>0, StateAssumption DEF Typed, Exclusive, TodoIsSuffix, ShallowMerge
<1> DEFINE v == [work[j] EXCEPT !.at = "routing", !.read = Nothing]
           w == [by |-> j, keys |-> work[j].updates, whole |-> FALSE]
<1>2. /\ v \in WorkState /\ v.at = "routing" /\ v.run = work[j].run /\ v.command = work[j].command
      /\ v.updates = work[j].updates
  <2>1. Nothing \in Row /\ "routing" \in Steps
    BY DEF Nothing, Row, Steps
  <2> QED BY <1>1, <2>1 DEF WorkState
<1>3. w \in Write /\ work[j].updates \subseteq Keys /\ w.by = j /\ w.keys = work[j].updates /\ ~w.whole
  BY <1>1 DEF WorkState, Write
<1> HIDE DEF v, w
<1>4. work' = [work EXCEPT ![j] = v] /\ writes' = Append(writes, w)
  BY DEF ShallowMerge, v, w
<1>5. work'[j] = v /\ \A i \in StateJobs : i # j => work'[i] = work[i]
  BY <1>0, <1>4 DEF Typed
<1>6. plugin_state' = [k \in Keys |-> IF k \in work[j].updates THEN j ELSE plugin_state[k]]
  BY <1>1 DEF ShallowMerge
<1>7. Typed'
  <2>1. writes' \in Seq(Write)
    BY <1>0, <1>3, <1>4, AppendKeeps DEF Typed
  <2>2. plugin_state' \in Row
    BY <1>1, <1>6 DEF Row
  <2> QED BY <1>0, <1>1, <1>2, <1>4, <2>1, <2>2 DEF Typed
<1>8. RunsBounded' 
  BY <1>0, <1>2, <1>5 DEF RunsBounded
<1>9. Exclusive'
  BY <1>0, <1>1, <1>2, <1>5 DEF Exclusive
<1>10. \A i \in StateJobs : Rules(i)' = Rules(i)
  BY <1>2, <1>5 DEF Rules
<1>11. TodoIsSuffix'
  BY <1>0, <1>2, <1>5, <1>10 DEF TodoIsSuffix
<1>12. (\A k \in Keys : HasNewest(writes, k))' /\ StateIsLastWrites'
  <2>1. \A k \in Keys : plugin_state'[k] = IF k \in w.keys THEN w.by ELSE IF w.whole THEN 0 ELSE plugin_state[k]
    BY <1>3, <1>6
  <2> QED BY <1>3, <1>4, <2>1, WriteKeeps
<1>13. ReportKept'
  <2>1. \A i \in StateJobs : i # j => \A n : Recorded(i, n)' <=> Recorded(i, n)
    BY <1>1, <1>5, <1>10 DEF Recorded
  <2>2. \A i \in StateJobs : i # j => (Merged(i) => Merged(i)')
    <3>1. \A i \in DOMAIN writes : i \in DOMAIN writes' /\ writes'[i] = writes[i]
      BY <1>0, <1>3, <1>4, AppendKeeps DEF Typed
    <3> QED BY <1>5, <3>1 DEF Merged
  <2>3. Merged(j)'
    <3>1. Len(writes) + 1 \in DOMAIN writes' /\ writes'[Len(writes) + 1] = w
      BY <1>0, <1>3, <1>4, AppendKeeps DEF Typed
    <3> QED BY <1>2, <1>3, <1>5, <3>1 DEF Merged
  <2>4. Recorded(j, Len(Rules(j)))'
    BY <1>1, <1>10 DEF Recorded
  <2> QED BY <1>0, <1>2, <1>5, <1>10, <2>1, <2>2, <2>3, <2>4 DEF ReportKept
<1>14. FactsArePast'
  <2>1. \A i \in StateJobs : i # j => RuleAt(i)' = RuleAt(i)
    BY <1>5 DEF RuleAt, pluginFactsFromStateUpdates
  <2>2. \A i \in DOMAIN plugin_facts : plugin_facts[i].job \in StateJobs
    BY <1>0, FactsTyped
  <2> QED BY <1>0, <1>1, <1>2, <1>5, <2>1, <2>2 DEF FactsArePast
<1>15. FactsDistinct'
  BY <1>1 DEF StateInv, FactsDistinct
<1> QED BY <1>7, <1>8, <1>9, <1>11, <1>12, <1>13, <1>14, <1>15 DEF StateInv

\* A fact is recorded for the next rule, with the row replaced if the rule says so.
LEMMA RecordFactKeeps ==
  ASSUME StateInv, NEW j \in StateJobs, RecordFact(j)
  PROVE  StateInv'
<1>0. Typed /\ RunsBounded /\ Exclusive /\ TodoIsSuffix /\ ReportKept /\ FactsArePast /\ FactsDistinct
  BY DEF StateInv
<1>1. /\ work[j] \in WorkState /\ work[j].at = "facts" /\ conn = j /\ conn' = 0 /\ j # 0
      /\ EndOf(work[j].todo, Rules(j)) /\ Rules(j) \in Seq(FactRule)
  BY <1>0, RulesTyped, StateAssumption DEF Typed, TodoIsSuffix, RecordFact
<1>2. /\ work[j].todo \in Seq(FactRule) /\ work[j].run \in Nat /\ work[j].updates \subseteq Keys
  BY <1>1 DEF WorkState
<1>n. PICK n : n = Len(Rules(j)) - Len(work[j].todo)
  OBVIOUS
<1> DEFINE v == [work[j] EXCEPT !.todo = Tail(work[j].todo), !.at = IF Len(work[j].todo) = 1 THEN "routing" ELSE "facts"]
           f == [job |-> j, run |-> work[j].run, rule |-> RuleAt(j), type |-> Head(work[j].todo).type,
                 updates |-> work[j].updates]
<1>3. /\ Tail(work[j].todo) \in Seq(FactRule) /\ Len(Tail(work[j].todo)) = Len(work[j].todo) - 1
      /\ Len(work[j].todo) \in Nat /\ Len(Rules(j)) \in Nat /\ Rules(j) # <<>>
      /\ Len(work[j].todo) >= 1 /\ Len(work[j].todo) <= Len(Rules(j))
      /\ Head(work[j].todo) \in FactRule /\ Head(work[j].todo) = Rules(j)[n + 1]
      /\ Len(work[j].todo) # 1 => EndOf(Tail(work[j].todo), Rules(j))
  BY <1>n, <1>1, <1>2, TailEnds
<1>4. n \in Nat /\ RuleAt(j) = n + 1
  BY <1>n, <1>3 DEF RuleAt, pluginFactsFromStateUpdates, Rules
<1>5. /\ v \in WorkState /\ v.at = (IF Len(work[j].todo) = 1 THEN "routing" ELSE "facts")
      /\ v.run = work[j].run /\ v.command = work[j].command /\ v.updates = work[j].updates
      /\ v.todo = Tail(work[j].todo)
  <2>2. PICK at \in Steps : at = IF Len(work[j].todo) = 1 THEN "routing" ELSE "facts"
    BY DEF Steps
  <2>3. \A t \in Seq(FactRule) :
          LET x == [work[j] EXCEPT !.todo = t, !.at = at]
          IN /\ x \in WorkState /\ x.at = at /\ x.run = work[j].run /\ x.command = work[j].command
             /\ x.updates = work[j].updates /\ x.todo = t
    BY <1>1 DEF WorkState
  <2> QED BY <1>3, <2>2, <2>3, ZenonT(60)
<1>4b. Len(v.todo) = Len(work[j].todo) - 1
  BY <1>3, <1>5
<1>6. /\ f \in Fact /\ f.job = j /\ f.run = work[j].run /\ f.rule = n + 1 /\ f.updates = work[j].updates
      /\ f = [job |-> j, run |-> work[j].run, rule |-> n + 1, type |-> Rules(j)[n + 1].type,
              updates |-> work[j].updates]
  <2>1. Head(work[j].todo).type \in FactTypes
    BY <1>3 DEF FactRule
  <2>2. f \in Fact
    BY <1>2, <1>4, <2>1 DEF Fact
  <2> QED BY <1>3, <1>4, <2>2
<1> HIDE DEF v, f
<1>7. work' = [work EXCEPT ![j] = v] /\ plugin_facts' = Append(plugin_facts, f)
  BY DEF RecordFact, v, f
<1>8. work'[j] = v /\ \A i \in StateJobs : i # j => work'[i] = work[i]
  BY <1>0, <1>7 DEF Typed
<1>9. /\ plugin_facts' \in Seq(Fact) /\ Len(plugin_facts) + 1 \notin DOMAIN plugin_facts
      /\ Len(plugin_facts) + 1 \in DOMAIN plugin_facts' /\ plugin_facts'[Len(plugin_facts) + 1] = f
      /\ \A i \in DOMAIN plugin_facts : i \in DOMAIN plugin_facts' /\ plugin_facts'[i] = plugin_facts[i]
      /\ \A i \in DOMAIN plugin_facts' : i \in DOMAIN plugin_facts \/ i = Len(plugin_facts) + 1
  BY <1>0, <1>6, <1>7, AppendKeeps DEF Typed
<1>10. /\ plugin_state' \in Row /\ writes' \in Seq(Write)
       /\ \A i \in DOMAIN writes : i \in DOMAIN writes' /\ writes'[i] = writes[i]
       /\ (\A k \in Keys : HasNewest(writes, k))' /\ StateIsLastWrites'
  <2>1. CASE Mirrors(j)
    <3> DEFINE w == [by |-> j, keys |-> work[j].updates, whole |-> TRUE]
    <3>1. w \in Write /\ w.by = j /\ w.keys = work[j].updates /\ w.whole
      BY <1>2 DEF Write
    <3> HIDE DEF w
    <3>2. writes' = Append(writes, w) /\ plugin_state' = [k \in Keys |-> IF k \in work[j].updates THEN j ELSE 0]
      BY <2>1 DEF RecordFact, mirrorFact, w
    <3>3. plugin_state' \in Row
      BY <3>2 DEF Row
    <3>4. \A k \in Keys : plugin_state'[k] = IF k \in w.keys THEN w.by ELSE IF w.whole THEN 0 ELSE plugin_state[k]
      BY <3>1, <3>2
    <3> QED BY <1>0, <3>1, <3>2, <3>3, <3>4, WriteKeeps, AppendKeeps DEF Typed
  <2>2. CASE ~Mirrors(j)
    <3>1. UNCHANGED <<plugin_state, writes>>
      BY <2>2 DEF RecordFact
    <3> QED BY <1>0, <3>1 DEF Typed, StateInv, StateIsLastWrites
  <2> QED BY <2>1, <2>2
<1>11. Typed'
  BY <1>0, <1>1, <1>5, <1>7, <1>9, <1>10 DEF Typed
<1>12. RunsBounded'
  BY <1>0, <1>5, <1>8 DEF RunsBounded
<1>13. Exclusive'
  BY <1>0, <1>1, <1>5, <1>8 DEF Exclusive
<1>14. \A i \in StateJobs : Rules(i)' = Rules(i)
  BY <1>5, <1>8 DEF Rules
<1>15. TodoIsSuffix'
  BY <1>0, <1>3, <1>5, <1>8, <1>14 DEF TodoIsSuffix
<1>16. ReportKept'
  <2>1. \A i \in StateJobs, m \in Nat : i # j => (Recorded(i, m) => Recorded(i, m)')
    BY <1>8, <1>9, <1>14 DEF Recorded
  <2>2. \A i \in StateJobs : i # j => (Merged(i) => Merged(i)')
    BY <1>8, <1>10 DEF Merged
  <2>3. Recorded(j, n + 1)'
    <3>1. Recorded(j, n)
      BY <1>n, <1>0, <1>1 DEF ReportKept
    <3>2. SUFFICES ASSUME NEW r \in 1..(n + 1)
                   PROVE  \E i \in DOMAIN plugin_facts' :
                            plugin_facts'[i] = [job |-> j, run |-> work[j].run, rule |-> r,
                                                type |-> Rules(j)[r].type, updates |-> work[j].updates]
      BY <1>5, <1>8, <1>14 DEF Recorded
    <3>3. CASE r = n + 1
      BY <1>6, <1>9, <3>3
    <3>4. CASE r # n + 1
      <4>1. r \in 1..n
        BY <1>4, <3>4
      <4> QED BY <1>9, <3>1, <4>1 DEF Recorded
    <3> QED BY <3>3, <3>4
  <2>4. /\ Len(work[j].todo) = 1 => n + 1 = Len(Rules(j))
        /\ Len(Rules(j)) - Len(v.todo) = n + 1
    <3>1. Len(work[j].todo) \in Nat /\ Len(Rules(j)) \in Nat
      BY <1>3
    <3>2. \A a, b \in Nat : (b = 1 => (a - b) + 1 = a) /\ a - (b - 1) = (a - b) + 1
      OBVIOUS
    <3> QED BY <1>n, <1>4b, <3>1, <3>2, ZenonT(60)
  <2>5. \A i \in StateJobs : /\ Len(Rules(i)) \in Nat
                             /\ work[i].at = "facts" => Len(Rules(i)) - Len(work[i].todo) \in Nat
    <3> SUFFICES ASSUME NEW i \in StateJobs
                 PROVE  /\ Len(Rules(i)) \in Nat
                        /\ work[i].at = "facts" => Len(Rules(i)) - Len(work[i].todo) \in Nat
      OBVIOUS
    <3>1. Rules(i) \in Seq(FactRule) /\ work[i] \in WorkState
      BY <1>0, RulesTyped DEF Typed
    <3>2. work[i].todo \in Seq(FactRule)
      BY <3>1 DEF WorkState
    <3>3. Len(Rules(i)) \in Nat /\ Len(work[i].todo) \in Nat
      BY <3>1, <3>2
    <3>4. work[i].at = "facts" => Len(work[i].todo) <= Len(Rules(i))
      BY <1>0 DEF TodoIsSuffix, EndOf
    <3> QED BY <3>3, <3>4
  <2>6. ASSUME NEW i \in StateJobs, i # j
        PROVE  /\ work'[i].at = "facts" => Recorded(i, Len(Rules(i)) - Len(work[i].todo))'
               /\ work'[i].at \in {"routing", "succeeded"} /\ work'[i].updates # {} =>
                    Recorded(i, Len(Rules(i)))' /\ (Rules(i)' = <<>> => Merged(i)')
    BY <1>0, <1>8, <1>14, <2>1, <2>2, <2>5, <2>6 DEF ReportKept
  <2>7. /\ work'[j].at = "facts" => Recorded(j, Len(Rules(j)) - Len(work[j].todo))'
        /\ work'[j].at \in {"routing", "succeeded"} /\ work'[j].updates # {} =>
             Recorded(j, Len(Rules(j)))' /\ (Rules(j)' = <<>> => Merged(j)')
    BY <1>3, <1>5, <1>8, <1>14, <2>3, <2>4
  <2> QED BY <2>6, <2>7 DEF ReportKept
<1>17. FactsArePast'
  <2>1. \A i \in StateJobs : i # j => RuleAt(i)' = RuleAt(i)
    BY <1>8 DEF RuleAt, pluginFactsFromStateUpdates
  <2>2. RuleAt(j)' = n + 2
    <3>1. RuleAt(j)' = Len(Rules(j)) - Len(v.todo) + 1
      BY <1>8, <1>14 DEF RuleAt, pluginFactsFromStateUpdates, Rules
    <3> QED BY <1>n, <1>3, <1>4b, <3>1
  <2>3. \A i \in DOMAIN plugin_facts : /\ plugin_facts[i].job \in StateJobs
                                       /\ plugin_facts[i].run \in Nat /\ plugin_facts[i].rule \in Int
    BY <1>0, FactsTyped
  <2> SUFFICES ASSUME NEW i \in DOMAIN plugin_facts', NEW g, g = plugin_facts'[i]
               PROVE  /\ g.run <= work'[g.job].run
                      /\ work'[g.job].at = "running" => g.run < work'[g.job].run
                      /\ work'[g.job].at = "facts" /\ g.run = work'[g.job].run => g.rule < RuleAt(g.job)'
    BY DEF FactsArePast
  <2>4. CASE i = Len(plugin_facts) + 1
    BY <1>2, <1>4, <1>5, <1>6, <1>8, <1>9, <2>2, <2>4
  <2>5. CASE i \in DOMAIN plugin_facts
    <3>1. /\ g = plugin_facts[i] /\ g.run <= work[g.job].run
          /\ work[g.job].at = "running" => g.run < work[g.job].run
          /\ work[g.job].at = "facts" /\ g.run = work[g.job].run => g.rule < RuleAt(g.job)
      BY <1>0, <1>9, <2>5 DEF FactsArePast
    <3>2. CASE g.job = j
      BY <1>1, <1>4, <1>5, <1>8, <2>2, <2>3, <2>5, <3>1, <3>2
    <3>3. CASE g.job # j
      BY <1>8, <2>1, <2>3, <2>5, <3>1, <3>3
    <3> QED BY <3>2, <3>3
  <2> QED BY <1>9, <2>4, <2>5
<1>18. FactsDistinct'
  <2>1. \A i \in DOMAIN plugin_facts : plugin_facts[i].job = j /\ plugin_facts[i].run = work[j].run
                                       => plugin_facts[i].rule # n + 1
    <3>1. \A i \in DOMAIN plugin_facts : plugin_facts[i].job = j /\ plugin_facts[i].run = work[j].run
                                       => plugin_facts[i].rule < n + 1
      BY <1>0, <1>1, <1>4 DEF FactsArePast
    <3> QED BY <1>0, <1>4, <3>1, FactsTyped
  <2> QED BY <1>0, <1>6, <1>9, <2>1 DEF FactsDistinct
<1> QED BY <1>10, <1>11, <1>12, <1>13, <1>15, <1>16, <1>17, <1>18 DEF StateInv

\* A crash of the gateway: what was in flight is queued again or fails, and its
\* transaction is rolled back.
LEMMA CrashKeeps ==
  ASSUME StateInv, GatewayCrashes
  PROVE  StateInv'
<1>0. Typed /\ RunsBounded /\ Exclusive /\ TodoIsSuffix /\ ReportKept /\ FactsArePast
  BY DEF StateInv
<1>1. UNCHANGED <<plugin_state, plugin_facts, writes>> /\ conn' = 0
  BY DEF GatewayCrashes
<1>2. ASSUME NEW j \in StateJobs
      PROVE  /\ work'[j] \in WorkState /\ work'[j].run = work[j].run /\ work'[j].command = work[j].command
             /\ \/ work'[j] = work[j] /\ ~InFlight(j)
                \/ work'[j].at = "queued" /\ work[j].run < MaxRuns[j]
                \/ work'[j].at = "failed"
  <2>1. work'[j] = IF InFlight(j) THEN RunAgain(j) ELSE work[j]
    BY DEF GatewayCrashes
  <2>2. CASE ~InFlight(j)
    BY <1>0, <2>1, <2>2 DEF Typed
  <2>3. CASE InFlight(j)
    <3>1. PICK at \in {"queued", "failed"} : RunAgain(j) = Ended(j, at) /\ (at = "queued" => work[j].run < MaxRuns[j])
      BY DEF RunAgain, Failed
    <3>2. LET w == Ended(j, at)
          IN w \in WorkState /\ w.at = at /\ w.run = work[j].run /\ w.command = work[j].command
      BY EndedTyped
    <3> QED BY <2>1, <2>3, <3>1, <3>2
  <2> QED BY <2>2, <2>3
<1>3. ASSUME NEW j \in StateJobs PROVE work'[j].at \notin {"running", "facts", "merge", "merging", "routing"}
                                       /\ (work'[j].at = "succeeded" => work'[j] = work[j])
  BY <1>2, <1>3 DEF InFlight
<1>4. Typed'
  <2>1. DOMAIN work' = StateJobs /\ work' = [j \in StateJobs |-> work'[j]]
    BY DEF GatewayCrashes
  <2> QED BY <1>0, <1>1, <1>2, <2>1 DEF Typed
<1>5. RunsBounded'
  BY <1>0, <1>2 DEF RunsBounded
<1>6. Exclusive' /\ TodoIsSuffix'
  BY <1>1, <1>3 DEF Exclusive, TodoIsSuffix
<1>7. (\A k \in Keys : HasNewest(writes, k))' /\ StateIsLastWrites' /\ FactsDistinct'
  BY <1>1 DEF StateInv, StateIsLastWrites, FactsDistinct
<1>8. ReportKept'
  <2>1. \A j \in StateJobs : work'[j] = work[j] =>
          /\ Rules(j)' = Rules(j) /\ (Merged(j)' <=> Merged(j))
          /\ \A n : Recorded(j, n)' <=> Recorded(j, n)
    BY <1>1 DEF Recorded, Merged, Rules
  <2> QED BY <1>0, <1>3, <2>1 DEF ReportKept
<1>9. FactsArePast'
  <2>1. \A i \in DOMAIN plugin_facts : plugin_facts[i].job \in StateJobs
    BY <1>0, FactsTyped
  <2> QED BY <1>0, <1>1, <1>2, <1>3, <2>1 DEF FactsArePast
<1> QED BY <1>4, <1>5, <1>6, <1>7, <1>8, <1>9 DEF StateInv

\* A plugin that has reported nothing.
LEMMA StateInvInit == StateInit => StateInv
<1> SUFFICES ASSUME StateInit PROVE StateInv
  OBVIOUS
<1>1. PICK command \in [StateJobs -> DOMAIN FactOutputs] :
        work = [j \in StateJobs |-> [at |-> "queued", command |-> command[j], run |-> 0, updates |-> {},
                                     todo |-> <<>>, read |-> Nothing]]
  BY DEF StateInit
<1>2. plugin_state = Nothing /\ plugin_facts = <<>> /\ conn = 0 /\ writes = <<>>
  BY DEF StateInit
<1>3. Nothing \in Row
  BY DEF Nothing, Row
<1>4. Typed
  BY <1>1, <1>2, <1>3 DEF Typed, WorkState, Steps
<1>5. \A j \in StateJobs : work[j].at = "queued" /\ work[j].run = 0
  BY <1>1
<1>6. RunsBounded /\ Exclusive /\ TodoIsSuffix /\ ReportKept
  BY <1>2, <1>5, StateAssumption DEF RunsBounded, Exclusive, TodoIsSuffix, ReportKept
<1>7. FactsArePast /\ FactsDistinct
  BY <1>2 DEF FactsArePast, FactsDistinct
<1>8. (\A k \in Keys : HasNewest(writes, k)) /\ StateIsLastWrites
  <2>1. \A k \in Keys : Touching(writes, k) = {}
    BY <1>2 DEF Touching
  <2> QED BY <1>2, <2>1 DEF HasNewest, StateIsLastWrites, LastWrite, Nothing
<1> QED BY <1>4, <1>6, <1>7, <1>8 DEF StateInv

\* Every step keeps the inductive invariant.
LEMMA StateInvNext == StateInv /\ [StateNext]_stateVars => StateInv'
<1> SUFFICES ASSUME StateInv, [StateNext]_stateVars PROVE StateInv'
  OBVIOUS
<1>1. CASE StateNext
  BY <1>1, QuietSteps, BeginFactKeeps, RecordFactKeeps, ShallowMergeKeeps, CrashKeeps DEF StateNext
<1>2. CASE UNCHANGED stateVars
  <2>1. UNCHANGED <<work, plugin_state, plugin_facts, conn, writes>>
    BY <1>2 DEF stateVars
  <2>2. \A j \in StateJobs : /\ Rules(j)' = Rules(j) /\ (Merged(j)' <=> Merged(j)) /\ RuleAt(j)' = RuleAt(j)
                             /\ \A n : Recorded(j, n)' <=> Recorded(j, n)
    BY <2>1 DEF Recorded, Merged, Rules, RuleAt, pluginFactsFromStateUpdates
  <2>3. Typed' /\ RunsBounded' /\ Exclusive' /\ TodoIsSuffix' /\ FactsDistinct'
    BY <2>1, <2>2 DEF StateInv, Typed, RunsBounded, Exclusive, TodoIsSuffix, FactsDistinct
  <2>4. (\A k \in Keys : HasNewest(writes, k))' /\ StateIsLastWrites' /\ ReportKept'
    BY <2>1, <2>2 DEF StateInv, StateIsLastWrites, ReportKept
  <2>5. FactsArePast'
    BY <2>1, <2>2 DEF StateInv, FactsArePast, RuleAt, pluginFactsFromStateUpdates
  <2> QED BY <2>3, <2>4, <2>5 DEF StateInv
<1> QED BY <1>1, <1>2

\* The inductive invariant: a job in a merge has the row as it is, what it has
\* still to record is the end of its rules, what it has recorded is in the tables.
THEOREM StateInvariance == StateSpec => []StateInv
BY StateInvInit, StateInvNext, PTL DEF StateSpec

\* What jobs of one plugin report is in its state and its facts as if they had
\* reported one after the other, each once (ShallowMerge, RecordFact), for any
\* number of jobs, keys and rules and through any crash.
THEOREM SerialState == StateSpec => []StateSerial
<1>1. StateInv => StateSerial
  <2> SUFFICES ASSUME StateInv PROVE StateTypeOK /\ UpdatesRecordedOnce
    BY DEF StateInv, StateSerial
  <2>0. Typed /\ RunsBounded /\ Exclusive /\ ReportKept /\ FactsDistinct
    BY DEF StateInv
  <2>1. StateTypeOK
    <3>1. \A j \in StateJobs : work[j] \in WorkState
      BY <2>0 DEF Typed
    <3>2. \A w \in WorkState : w.at \in Steps /\ w.run \in Nat /\ w.updates \subseteq Keys
      BY DEF WorkState
    <3>3. \A j \in StateJobs : work[j].run \in 0..MaxRuns[j]
      BY <2>0, <3>1, <3>2, StateAssumption DEF RunsBounded
    <3> QED BY <2>0, <3>1, <3>2, <3>3 DEF StateTypeOK, Typed, Row, Exclusive, Steps
  <2>2. ASSUME NEW j \in StateJobs, work[j].at = "succeeded", work[j].updates # {}
        PROVE  IF Rules(j) = <<>>
               THEN \E i \in DOMAIN writes : writes[i].by = j /\ writes[i].keys = work[j].updates
               ELSE \A r \in DOMAIN Rules(j) : \E i \in DOMAIN plugin_facts :
                      plugin_facts[i] = [job |-> j, run |-> work[j].run, rule |-> r, type |-> Rules(j)[r].type,
                                         updates |-> work[j].updates]
    <3>1. DOMAIN Rules(j) = 1..Len(Rules(j))
      BY <2>0, RulesTyped
    <3>2. Recorded(j, Len(Rules(j))) /\ (Rules(j) = <<>> => Merged(j))
      BY <2>0, <2>2 DEF ReportKept
    <3> QED BY <3>1, <3>2 DEF Recorded, Merged
  <2> QED BY <2>0, <2>1, <2>2 DEF UpdatesRecordedOnce, FactsDistinct, pluginFactsFromStateUpdates, Rules
<1> QED BY <1>1, StateInvariance, PTL
=============================================================================
