----------------------------- MODULE PluginState ----------------------------
(***************************************************************************)
(* What a plugin remembers: its row of plugin_state, the append-only table *)
(* plugin_facts, and the jobs that write both (src/internal/state/store.go *)
(* and executeJob in src/internal/dispatch/dispatcher.go).                 *)
(*                                                                         *)
(* The jobs are of one plugin and run at the same time.  The database has  *)
(* one connection: a transaction holds it from its begin to its end, and   *)
(* every statement outside of one needs it free.  The updates of a         *)
(* response are the top-level keys it sets; the value of a key is the job  *)
(* that set it.  A response too large for a row fails as any write may.    *)
(***************************************************************************)
EXTENDS Integers, Sequences, FiniteSets

CONSTANTS StateJobs,      \* jobs of the plugin
          Keys,           \* top-level keys of its state
          FactOutputs,    \* for each command of a job, its fact_outputs rules
          MaxRuns         \* max_attempts of each job

\* validateFactOutputRule: every rule has a type, and a view of one kind or none.
FactTypes == UNION {{FactOutputs[c][i].type : i \in DOMAIN FactOutputs[c]} : c \in DOMAIN FactOutputs}
FactRule == [type : FactTypes, view : {"", "mirror_object"}]

ASSUME StateAssumption ==
  /\ StateJobs \subseteq Nat \ {0} /\ MaxRuns \in [StateJobs -> Nat \ {0}]
  /\ \A c \in DOMAIN FactOutputs : FactOutputs[c] \in Seq(FactRule)

VARIABLES work,           \* how far each job is
          plugin_state,   \* the row, a job for each key, 0 where the key is absent
          plugin_facts,   \* the table, in the order of seq; run and rule of a fact are ghosts
          conn,           \* the job whose transaction holds the connection, or 0
          writes          \* the writes of plugin_state that were committed

stateVars == <<work, plugin_state, plugin_facts, conn, writes>>

----------------------------------------------------------------------------
Nothing == [k \in Keys |-> 0]

\* FactOutputRulesForCommand and pluginFactsFromStateUpdates: one fact per rule.
pluginFactsFromStateUpdates(j) == FactOutputs[work[j].command]

\* A new attempt, or the end when there have been enough; the response is forgotten.
Ended(j, at) == [work[j] EXCEPT !.at = at, !.read = Nothing, !.updates = {}, !.todo = <<>>]
Failed(j) == Ended(j, "failed")
RunAgain(j) == IF work[j].run < MaxRuns[j] THEN Ended(j, "queued") ELSE Failed(j)

\* The worker reads the state for its request, which may fail for good.
GetState(j) ==
  /\ work[j].at = "queued" /\ conn = 0
  /\ \E at \in {"running", "failed"} :
       work' = [work EXCEPT ![j] = [@ EXCEPT !.at = at, !.run = work[j].run + 1]]
  /\ UNCHANGED <<plugin_state, plugin_facts, conn, writes>>

\* The plugin fails, or answers with updates, which become facts if its manifest
\* declares any and are merged if not.
PluginResponds(j) ==
  /\ work[j].at = "running"
  /\ \/ work' = [work EXCEPT ![j] = RunAgain(j)]
     \/ \E u \in SUBSET Keys :
          LET rules == pluginFactsFromStateUpdates(j)
          IN work' = [work EXCEPT ![j] =
               [@ EXCEPT !.at = IF u = {} THEN "routing" ELSE IF rules # <<>> THEN "facts" ELSE "merge",
                         !.updates = u, !.todo = IF u = {} THEN <<>> ELSE rules]]
  /\ UNCHANGED <<plugin_state, plugin_facts, conn, writes>>

\* RecordFact takes the next number, inserts, and replaces the row if the rule has a
\* compatibility view: one transaction.
BeginFact(j) ==
  /\ work[j].at = "facts" /\ conn = 0 /\ conn' = j
  /\ UNCHANGED <<work, plugin_state, plugin_facts, writes>>

mirrorFact(j) == [k \in Keys |-> IF k \in work[j].updates THEN j ELSE 0]
Mirrors(j) == Head(work[j].todo).view = "mirror_object"
RuleAt(j) == Len(pluginFactsFromStateUpdates(j)) - Len(work[j].todo) + 1
RecordFact(j) ==
  /\ work[j].at = "facts" /\ conn = j /\ conn' = 0
  /\ plugin_facts' = Append(plugin_facts, [job |-> j, run |-> work[j].run, rule |-> RuleAt(j),
                                           type |-> Head(work[j].todo).type, updates |-> work[j].updates])
  /\ IF Mirrors(j)
     THEN /\ plugin_state' = mirrorFact(j)
          /\ writes' = Append(writes, [by |-> j, keys |-> work[j].updates, whole |-> TRUE])
     ELSE UNCHANGED <<plugin_state, writes>>
  /\ work' = [work EXCEPT ![j] = [@ EXCEPT !.todo = Tail(work[j].todo),
                                           !.at = IF Len(work[j].todo) = 1 THEN "routing" ELSE "facts"]]

\* Mutant: the row is read before the transaction.
BeginMerge_Outside(j) ==
  /\ work[j].at = "merge" /\ conn = 0
  /\ work' = [work EXCEPT ![j] = [@ EXCEPT !.at = "merging", !.read = plugin_state]]
  /\ UNCHANGED <<plugin_state, plugin_facts, conn, writes>>
\* ShallowMerge reads the row in its transaction.
BeginMerge(j) ==
  /\ work[j].at = "merge" /\ conn = 0 /\ conn' = j
  /\ work' = [work EXCEPT ![j] = [@ EXCEPT !.at = "merging", !.read = plugin_state]]
  /\ UNCHANGED <<plugin_state, plugin_facts, writes>>

ShallowMerge(j) ==
  /\ work[j].at = "merging" /\ conn \in {0, j} /\ conn' = 0
  /\ plugin_state' = [k \in Keys |-> IF k \in work[j].updates THEN j ELSE work[j].read[k]]
  /\ writes' = Append(writes, [by |-> j, keys |-> work[j].updates, whole |-> FALSE])
  /\ work' = [work EXCEPT ![j] = [@ EXCEPT !.at = "routing", !.read = Nothing]]
  /\ UNCHANGED plugin_facts

\* A write fails: the transaction is rolled back and the job fails for good.
WriteFails(j) ==
  /\ conn = j /\ conn' = 0
  /\ work' = [work EXCEPT ![j] = Failed(j)]
  /\ UNCHANGED <<plugin_state, plugin_facts, writes>>

\* Events are routed and the job is completed.
CompleteJob(j) ==
  /\ work[j].at = "routing" /\ conn = 0
  /\ work' \in {[work EXCEPT ![j].at = "succeeded"], [work EXCEPT ![j] = Failed(j)]}
  /\ UNCHANGED <<plugin_state, plugin_facts, conn, writes>>

\* The gateway crashes: its transaction is gone, and its jobs are queued again while
\* attempts last.
InFlight(j) == work[j].at \in {"running", "facts", "merge", "merging", "routing"}
GatewayCrashes ==
  /\ \E j \in StateJobs : InFlight(j)
  /\ work' = [j \in StateJobs |-> IF InFlight(j) THEN RunAgain(j) ELSE work[j]] /\ conn' = 0
  /\ UNCHANGED <<plugin_state, plugin_facts, writes>>

----------------------------------------------------------------------------
StateInit ==
  /\ \E command \in [StateJobs -> DOMAIN FactOutputs] :
       work = [j \in StateJobs |-> [at |-> "queued", command |-> command[j], run |-> 0, updates |-> {},
                                    todo |-> <<>>, read |-> Nothing]]
  /\ plugin_state = Nothing /\ plugin_facts = <<>> /\ conn = 0 /\ writes = <<>>

StateNext ==
  \/ \E j \in StateJobs : \/ GetState(j) \/ PluginResponds(j) \/ BeginFact(j) \/ RecordFact(j)
                          \/ BeginMerge(j) \/ ShallowMerge(j) \/ WriteFails(j) \/ CompleteJob(j)
  \/ GatewayCrashes

StateSpec == StateInit /\ [][StateNext]_stateVars

----------------------------------------------------------------------------
(* Type correctness; the connection is held only by a job in a transaction. *)
StateTypeOK ==
  /\ plugin_state \in [Keys -> StateJobs \union {0}]
  /\ \A j \in StateJobs :
       /\ work[j].at \in {"queued", "running", "facts", "merge", "merging", "routing", "succeeded", "failed"}
       /\ work[j].run \in 0..MaxRuns[j] /\ work[j].updates \subseteq Keys
  /\ conn # 0 => conn \in StateJobs /\ work[conn].at \in {"facts", "merging"}

\* What the committed writes, taken one after the other, leave of a key.
Touching(ws, k) == {i \in DOMAIN ws : ws[i].whole \/ k \in ws[i].keys}
Newest(on) == CHOOSE i \in on : \A h \in on : h <= i
LastWrite(ws, k) ==
  LET on == Touching(ws, k)
  IN IF on = {} THEN 0 ELSE IF k \in ws[Newest(on)].keys THEN ws[Newest(on)].by ELSE 0

(* No update is lost and none survives a newer snapshot: plugin_state is what
   the committed writes leave when they are applied one after the other,
   whichever jobs of the plugin ran at the same time. *)
StateIsLastWrites == \A k \in Keys : plugin_state[k] = LastWrite(writes, k)

(* A job that succeeded has each of its declared facts in the table once for
   its last attempt, or its updates merged; an attempt before may have left
   facts too, none twice for one rule of the manifest. *)
UpdatesRecordedOnce ==
  /\ \A j \in StateJobs : work[j].at = "succeeded" /\ work[j].updates # {} =>
       LET rules == pluginFactsFromStateUpdates(j)
       IN IF rules = <<>> THEN \E i \in DOMAIN writes : writes[i].by = j /\ writes[i].keys = work[j].updates
          ELSE \A r \in DOMAIN rules : \E i \in DOMAIN plugin_facts :
                 plugin_facts[i] = [job |-> j, run |-> work[j].run, rule |-> r, type |-> rules[r].type,
                                    updates |-> work[j].updates]
  /\ \A h, i \in DOMAIN plugin_facts : h # i =>
       <<plugin_facts[h].job, plugin_facts[h].run, plugin_facts[h].rule>>
         # <<plugin_facts[i].job, plugin_facts[i].run, plugin_facts[i].rule>>

(* What jobs of one plugin report is in its state and its facts as if they had
   reported one after the other, each once. *)
StateSerial == StateTypeOK /\ StateIsLastWrites /\ UpdatesRecordedOnce
=============================================================================
