---------------------------- MODULE MCDispatcher ----------------------------
(***************************************************************************)
(* Small instances of Dispatcher: a pipeline t1 -> t2 whose plugins are p1 *)
(* and p2, and a third target t3, another command of p1.                   *)
(***************************************************************************)
EXTENDS Dispatcher, TLC

CONSTANTS p1, p2, t1, t2, t3, k1

MCPluginOf == t1 :> p1 @@ t2 :> p2 @@ t3 :> p1
MCMaxAttempts == [t \in Targets |-> 2]
MCParallelism == [p \in Plugins |-> 1]
NoHooks == [t \in Targets |-> [s \in Terminal |-> {}]]
NoRoutes == [t \in Targets |-> {}]
NoEventKey == [t \in Targets |-> NoKey]
Chain == [t \in Targets |-> IF t = t1 THEN {t2} ELSE {}]

Plain(t) == [target |-> t, key |-> NoKey, override |-> FALSE, ctx |-> FALSE]
Keyed(t, k, override) == [target |-> t, key |-> k, override |-> override, ctx |-> FALSE]

PipelineRequests == {[Keyed(t1, k1, TRUE) EXCEPT !.ctx = TRUE]}
PlainRequests == {Plain(t1)}
KeyedRequests == {Keyed(t1, k1, FALSE), Keyed(t1, k1, TRUE), Plain(t2)}

OneAttempt == [t \in Targets |-> 1]
WideParallelism == p1 :> 2 @@ p2 :> 1
KeyedEvents == [t \in Targets |-> k1]
SelfHooks == [t \in Targets |-> [s \in Terminal |->
                IF t = t1 THEN IF s = "skipped" THEN {} ELSE {t1} ELSE {}]]

WorkerSymmetry == Permutations(Workers)
=============================================================================
