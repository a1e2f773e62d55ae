------------------------------ MODULE Routing ------------------------------
(***************************************************************************)
(* How one event walks through compiled pipelines: the router              *)
(* (src/internal/router/engine.go), the part of the dispatcher that turns  *)
(* its answers into contexts and jobs, the context ledger with its baggage *)
(* (src/internal/state, src/internal/baggage) and the pipeline trigger of  *)
(* the HTTP API.  Jobs run one at a time in any order; queueing, retries   *)
(* and crashes are in Dispatcher.                                          *)
(*                                                                         *)
(* A stimulus fixes the pipelines, what each plugin emits and how the      *)
(* first job arises, so that the expected number of runs of every plugin   *)
(* can be read off the step trees.                                         *)
(***************************************************************************)
EXTENDS PipelineDSL

CONSTANTS Stimuli,      \* what may be started, see StimulusType
          MaxJobs       \* bound on the jobs of one walk

(* specs: the pipelines; emits: the event types each plugin emits; payload:
   what every event carries; notify: plugins with notify_on_complete; root:
   the plugin whose job starts it all, or api: the pipeline triggered by name. *)
StimulusFields == {"specs", "emits", "payload", "notify", "root", "api"}
ASSUME RoutingAssumption ==
  /\ MaxJobs \in Nat
  /\ \A s \in Stimuli : DOMAIN s = StimulusFields

VARIABLES stim,       \* the stimulus
          routes,     \* Router: the compiled set
          ledger,     \* event_context: rows by id
          jobs,       \* job_queue: the jobs of the walk, in order of enqueue
          instances   \* pipeline instance ids handed out

routingVars == <<stim, routes, ledger, jobs, instances>>

NoContext == 0
Instance == <<"ductile", "pipeline_instance_id">>
Depth == <<"ductile", "route_depth">>
MaxDepth == <<"ductile", "route_max_depth">>
ControlPlane == {Instance, Depth, MaxDepth}
FieldOf(acc, path) == IF path \in DOMAIN acc THEN acc[path].n ELSE 0

Merge(f, g) == [p \in DOMAIN f \union DOMAIN g |-> IF p \in DOMAIN g THEN g[p] ELSE f[p]]

---------------------------------------------------------------------------
(* What a source expression yields, by path below it; nothing if it is absent. *)
Subtree(scope, expr) ==
  LET m == scope[Head(expr)]
      base == Tail(expr)
      below == {p \in DOMAIN m : IsPrefix(base, p)}
  IN [q \in {SubSeq(p, Len(base) + 1, Len(p)) : p \in below} |-> m[base \o q]]

(* A value set at a path: what was there is replaced, a scalar above it is an
   error. *)
setPath(r, path, tree) ==
  LET kept == {p \in DOMAIN r.claims : ~IsPrefix(path, p)}
      put == {path \o q : q \in DOMAIN tree}
  IN [err |-> r.err \/ tree = EmptyMap \/ \E p \in DOMAIN r.claims : IsStrictPrefix(p, path),
      claims |-> [p \in kept \union put |->
                    IF p \in put THEN tree[SubSeq(p, Len(path) + 1, Len(p))] ELSE r.claims[p]]]

(* Baggage claims: the bulk import of an object first, then the mappings; an
   absent source is an error. *)
ApplyClaims(payload, spec, context) ==
  LET scope == [payload |-> payload, context |-> context, config |-> EmptyMap]
      bulk == Subtree(scope, spec.from)
      start == IF spec.from = <<>> THEN [err |-> FALSE, claims |-> EmptyMap]
               ELSE [setPath([err |-> FALSE, claims |-> EmptyMap], spec.namespace, bulk)
                       EXCEPT !.err = @ \/ spec.namespace = <<>> \/ <<>> \in DOMAIN bulk]
      paths == SetToSortSeq(DOMAIN spec.mappings, LAMBDA p, q : Len(p) < Len(q))
  IN FoldLeft(LAMBDA r, p : setPath(r, p, Subtree(scope, spec.mappings[p])), start, paths)

(* Accretion: new paths are added, inherited ones may only be repeated; the
   route depth alone is overwritten. *)
deepAccreteRawMap(dst, updates) ==
  LET bad == \E p \in DOMAIN updates, q \in DOMAIN dst :
               \/ p = q /\ dst[q] # updates[p] /\ p # Depth
               \/ IsStrictPrefix(p, q) \/ IsStrictPrefix(q, p)
  IN [err |-> bad, acc |-> Merge(dst, updates)]

(* Mutant: the row accretes onto the latest row, not onto its parent. *)
CreateBelowLatest(rows, parent, pipeline, step, updates) ==
  LET a == IF parent = NoContext THEN [err |-> FALSE, acc |-> updates]
           ELSE deepAccreteRawMap(rows[Len(rows)].acc, updates)
  IN [err |-> a.err,
      rows |-> IF a.err THEN rows
               ELSE Append(rows, [parent |-> parent, pipeline |-> pipeline, step |-> step,
                                  acc |-> a.acc])]

(* A row appended to the ledger, unless the accretion is refused. *)
CreateContext(rows, parent, pipeline, step, updates) ==
  LET a == IF parent = NoContext THEN [err |-> FALSE, acc |-> updates]
           ELSE deepAccreteRawMap(rows[parent].acc, updates)
  IN [err |-> a.err,
      rows |-> IF a.err THEN rows
               ELSE Append(rows, [parent |-> parent, pipeline |-> pipeline, step |-> step,
                                  acc |-> a.acc])]

WithInstance(updates, i) == Merge(updates, [p \in {Instance} |-> Num(i)])
WithRouteDepth(updates, d) == Merge(updates, [p \in {Depth} |-> Num(d)])
WithRouteMaxDepth(updates, m) ==
  IF m > 0 THEN Merge(updates, [p \in {MaxDepth} |-> Num(m)]) ELSE updates

---------------------------------------------------------------------------
(* The router. *)

AllRoutes == UNION {routes[n].routes : n \in DOMAIN routes}
entryRoutesForPipeline(name) ==
  {r \in routes[name].routes : r.source.trigger # "" \/ r.source.hook # ""}

sourcePluginMatches(want, have) == want = "" \/ want = have

(* Mutant: the budget is taken one dispatch too early. *)
MatchesOneHopShort(src, req) ==
  LET budget == IF req.maxDepth = 0 THEN src.depthLT ELSE req.maxDepth
  IN /\ src.pipeline = req.pipeline /\ src.step = req.step
     /\ src.event = "" \/ src.event = req.event.type
     /\ req.instance # 0
     /\ budget > 0 => req.depth + 1 < budget

(* A transition applies to the step it names, for the event it names if any,
   inside a pipeline instance, below the budget of the walk or, without one,
   of the pipeline. *)
matchesCompiledRouteSource(src, req) ==
  LET budget == IF req.maxDepth = 0 THEN src.depthLT ELSE req.maxDepth
  IN /\ src.pipeline = req.pipeline /\ src.step = req.step
     /\ src.event = "" \/ src.event = req.event.type
     /\ req.instance # 0
     /\ budget > 0 => req.depth < budget

(* A predicate that fails is a predicate that does not match. *)
PredicateHolds(src, req) ==
  src.if = <<>> \/ Eval(src.if[1], [payload |-> req.event.payload, context |-> req.context,
                                    config |-> EmptyMap]) = "true"

(* A call is resolved to the entries of the called pipeline; a hook dispatch
   carries neither its pipeline nor its step. *)
RECURSIVE resolveCompiledRoute(_, _, _)
resolveCompiledRoute(route, req, rootHook) ==
  CASE route.dest.kind = "uses" ->
         {[plugin |-> route.dest.ref, event |-> req.event,
           pipeline |-> IF rootHook THEN "" ELSE route.pipeline,
           step |-> IF rootHook THEN NoId ELSE route.dest.step,
           instance |-> req.instance, depth |-> req.depth + 1,
           maxDepth |-> IF req.maxDepth = 0 THEN route.source.depthLT ELSE req.maxDepth,
           parent |-> req.contextID]}
    [] route.dest.kind = "call" ->
         UNION {resolveCompiledRoute(e, req, rootHook) : e \in entryRoutesForPipeline(route.dest.ref)}
    [] route.dest.kind = "terminal" -> {}

RootMatches(req) ==
  {r \in AllRoutes : /\ r.source.trigger = req.event.type /\ r.source.trigger # ""
                     /\ sourcePluginMatches(r.source.plugin, req.plugin)
                     /\ PredicateHolds(r.source, req)}

(* Transitions out of the step the event came from, and the pipelines it
   triggers, each under an instance of its own.  fresh numbers them. *)
NextDispatches(req, fresh) ==
  UNION {resolveCompiledRoute(r, req, FALSE) :
           r \in {x \in AllRoutes : x.source.pipeline # "" /\ matchesCompiledRouteSource(x.source, req)}}
  \union
  UNION {resolveCompiledRoute(r, [req EXCEPT !.instance = fresh[r.pipeline]], FALSE) :
           r \in RootMatches(req)}

NextHook(plugin, signal, payload) ==
  LET req == [plugin |-> plugin, contextID |-> NoContext, pipeline |-> "", step |-> NoId,
              instance |-> 0, depth |-> 0, maxDepth |-> 0, context |-> EmptyMap,
              event |-> [type |-> signal, payload |-> payload]]
  IN UNION {resolveCompiledRoute(r, req, TRUE) :
              r \in {x \in AllRoutes : /\ x.source.hook = signal
                                       /\ sourcePluginMatches(x.source.plugin, plugin)
                                       /\ PredicateHolds(x.source, req)}}

---------------------------------------------------------------------------
(* The dispatcher: dispatches become contexts and jobs.  w is the state of one
   call of routeEvents: the ledger, the jobs, the root contexts made so far by
   this call, and whether it failed. *)

NodeOf(d) == IF d.pipeline \in DOMAIN routes /\ d.step \in DOMAIN routes[d.pipeline].p.nodes
             THEN <<routes[d.pipeline].p.nodes[d.step]>> ELSE <<>>
AccOf(rows, c) == IF c = NoContext THEN EmptyMap ELSE rows[c].acc

contextUpdatesForDispatch(rows, d) ==
  LET node == NodeOf(d)
      claimed == IF node # <<>> /\ node[1].kind = "uses" /\ ~BaggageEmpty(node[1].baggage)
                   THEN ApplyClaims(d.event.payload, node[1].baggage, AccOf(rows, d.parent))
                   ELSE [err |-> FALSE, claims |-> EmptyMap]
      withMax == WithRouteMaxDepth(claimed.claims, d.maxDepth)
      withInst == IF d.instance # 0 THEN WithInstance(withMax, d.instance) ELSE withMax
  IN [err |-> claimed.err, updates |-> WithRouteDepth(withInst, d.depth)]

(* A dispatch inside the parent's pipeline instance hangs below the parent's
   context; any other gets a root context, one per pipeline and instance. *)
parentContextIDForDispatch(w, d) ==
  LET key == <<d.pipeline, d.instance>>
      root == WithRouteMaxDepth(WithRouteDepth(WithInstance(EmptyMap, d.instance), 0), d.maxDepth)
  IN CASE d.pipeline = "" \/ d.instance = 0 -> [w |-> w, parent |-> d.parent]
       [] OTHER ->
          CASE /\ d.parent # NoContext /\ w.ledger[d.parent].pipeline = d.pipeline
               /\ FieldOf(w.ledger[d.parent].acc, Instance) = d.instance
                 -> [w |-> w, parent |-> d.parent]
            [] OTHER ->
               IF key \in DOMAIN w.cache THEN [w |-> w, parent |-> w.cache[key]]
               ELSE LET rows == CreateContext(w.ledger, NoContext, d.pipeline, NoId, root).rows
                    IN [w |-> [w EXCEPT !.ledger = rows, !.cache = Put(@, key, Len(rows))],
                        parent |-> Len(rows)]

NewJob(plugin, ctx, event) == [plugin |-> plugin, ctx |-> ctx, event |-> event, state |-> "queued"]

EnqueueBelow(w, c, d) ==
  IF c.err THEN [w EXCEPT !.err = TRUE]
  ELSE [w EXCEPT !.ledger = c.rows, !.jobs = Append(@, NewJob(d.plugin, Len(c.rows), d.event))]
CreateBelow(pc, d, updates) ==
  EnqueueBelow(pc.w, CreateContext(pc.w.ledger, pc.parent, d.pipeline, d.step, updates), d)
AdmitWith(w, d, u) ==
  IF u.err THEN [w EXCEPT !.err = TRUE] ELSE CreateBelow(parentContextIDForDispatch(w, d), d, u.updates)
AdmitDispatch(w, d) == IF w.err THEN w ELSE AdmitWith(w, d, contextUpdatesForDispatch(w.ledger, d))

(* The events of one job, one after the other; the first failure stops them. *)
routeEvents(job, events) ==
  LET row == ledger[job.ctx]
      req(e) == [plugin |-> job.plugin, contextID |-> job.ctx, event |-> e,
                 pipeline |-> IF job.ctx = NoContext THEN "" ELSE row.pipeline,
                 step |-> IF job.ctx = NoContext THEN NoId ELSE row.step,
                 instance |-> FieldOf(AccOf(ledger, job.ctx), Instance),
                 depth |-> FieldOf(AccOf(ledger, job.ctx), Depth),
                 maxDepth |-> FieldOf(AccOf(ledger, job.ctx), MaxDepth),
                 context |-> AccOf(ledger, job.ctx)]
      names == SetToSeq(DOMAIN routes)
      fresh(w) == [n \in DOMAIN routes |->
                     w.instances + (CHOOSE i \in DOMAIN names : names[i] = n)]
      one(w, e) == LET ds == NextDispatches(req(e), fresh(w))
                       done == FoldLeft(AdmitDispatch, w, SetToSeq(ds))
                   IN [done EXCEPT !.instances = @ + Len(names)]
  IN FoldLeft(one, [ledger |-> ledger, jobs |-> jobs, instances |-> instances,
                    cache |-> EmptyMap, err |-> FALSE], events)

(* Hook jobs of a root job that asked for them; they get no context. *)
maybeFireHooks(job, js, signal) ==
  IF job.ctx # NoContext \/ job.plugin \notin stim.notify THEN js
  ELSE js \o SetToSeq({NewJob(d.plugin, NoContext, d.event) :
                          d \in NextHook(job.plugin, signal, stim.payload)})

---------------------------------------------------------------------------
RoutingInit ==
  /\ stim \in Stimuli
  /\ routes = CompileSpecs(stim.specs).set
  /\ ledger = <<>> /\ jobs = <<>> /\ instances = 0

Empty == [p \in {<<"result">>} |-> Str(<<1>>)]
Event(type, payload) == [type |-> type, payload |-> payload]

(* A root job of a plugin: a poll, a webhook, a plugin trigger of the API. *)
StartPlugin ==
  /\ jobs = <<>> /\ stim.api = ""
  /\ jobs' = <<NewJob(stim.root, NoContext, Event("api.trigger", stim.payload))>>
  /\ UNCHANGED <<stim, routes, ledger, instances>>

(* POST /pipeline/{name}: one instance context, below it one context and one
   job per entry dispatch; contexts carry the name of the triggered pipeline. *)
HandlePipelineTrigger ==
  LET name == stim.api
      ev == Event(routes[name].p.trigger, stim.payload)
      req == [plugin |-> "", contextID |-> NoContext, pipeline |-> "", step |-> NoId,
              instance |-> 0, depth |-> 0, maxDepth |-> 0, context |-> EmptyMap, event |-> ev]
      ds == SetToSeq(UNION {resolveCompiledRoute(r, req, FALSE) : r \in entryRoutesForPipeline(name)})
      node(d) == IF d.step \in DOMAIN routes[name].p.nodes THEN routes[name].p.nodes[d.step].baggage
                 ELSE NoBaggage
      claims(d) == ApplyClaims(stim.payload, node(d), EmptyMap)
      root == WithRouteMaxDepth(WithRouteDepth(WithInstance(EmptyMap, instances + 1), 0),
                                ds[1].maxDepth)
      rows0 == CreateContext(<<>>, NoContext, name, NoId, root).rows
      updates(d) == WithRouteMaxDepth(WithRouteDepth(
                      WithInstance(claims(d).claims, instances + 1), d.depth), d.maxDepth)
      entry(w, d) == LET c == CreateContext(w.rows, 1, name, d.step, updates(d))
                     IN [rows |-> c.rows, js |-> IF c.err THEN w.js
                           ELSE Append(w.js, NewJob(d.plugin, Len(c.rows), ev))]
      all == FoldLeft(entry, [rows |-> rows0, js |-> <<>>], ds)
  IN /\ jobs = <<>> /\ ledger = <<>> /\ stim.api # ""
     /\ \A i \in DOMAIN ds : ~claims(ds[i]).err
     /\ ledger' = all.rows /\ jobs' = all.js /\ instances' = instances + 1
     /\ UNCHANGED <<stim, routes>>

(* A job ends: what it routed, its hooks, and its own state. *)
Finish(i, w, hooks) ==
  /\ ledger' = w.ledger /\ instances' = w.instances
  /\ jobs' = [hooks EXCEPT ![i].state = IF w.err THEN "failed" ELSE "done"]
  /\ UNCHANGED <<stim, routes>>
Complete(i, w) == Finish(i, w, w.jobs)
CompleteWithHooks(i, w) == Finish(i, w, IF w.err THEN w.jobs ELSE maybeFireHooks(jobs[i], w.jobs, "job.completed"))
Fail(i) ==
  /\ jobs' = [jobs EXCEPT ![i].state = "failed"]
  /\ UNCHANGED <<stim, routes, ledger, instances>>

Queued(i) == jobs[i].state = "queued" /\ Len(jobs) < MaxJobs

(* The answer of a plugin is routed; inside a pipeline silence counts as an
   event of its own. *)
Emissions(plugin) == [k \in DOMAIN stim.emits[plugin] |-> Event(stim.emits[plugin][k], stim.payload)]
RunPlugin(i) ==
  /\ Queued(i) /\ jobs[i].plugin \notin {"core.switch", "core.relay"}
  /\ CompleteWithHooks(i, routeEvents(jobs[i],
       IF stim.emits[jobs[i].plugin] = <<>> /\ jobs[i].ctx # NoContext
       THEN <<Event("ductile.step.succeeded", Empty)>> ELSE Emissions(jobs[i].plugin)))

StepNode(job) == IF job.ctx = NoContext THEN <<>>
                 ELSE NodeOf([pipeline |-> ledger[job.ctx].pipeline, step |-> ledger[job.ctx].step])

(* The switch re-emits the event it was given as true or false.  Its scope has
   no config. *)
SwitchResult(job, node) ==
  Eval(node.cond[1], [payload |-> job.event.payload, context |-> AccOf(ledger, job.ctx), config |-> EmptyMap])
SwitchEnds(i, result) ==
  IF result = "error" THEN Fail(i)
  ELSE Complete(i, routeEvents(jobs[i], <<Event(IF result = "true" THEN "switch.true" ELSE "switch.false",
                                                jobs[i].event.payload)>>))
SwitchOn(i, node) ==
  IF node = <<>> \/ node[1].kind # "switch" THEN Fail(i) ELSE SwitchEnds(i, SwitchResult(jobs[i], node[1]))
executeCoreSwitch(i) ==
  /\ Queued(i) /\ jobs[i].plugin = "core.switch"
  /\ SwitchOn(i, StepNode(jobs[i]))

(* The remote instance accepts the relayed event, or the step fails. *)
IsRelayStep(node) == node # <<>> /\ node[1].kind = "relay"
executeCoreRelay(i) ==
  /\ Queued(i) /\ jobs[i].plugin = "core.relay"
  /\ \/ Fail(i)
     \/ /\ IsRelayStep(StepNode(jobs[i]))
        /\ Complete(i, routeEvents(jobs[i], <<Event("ductile.step.succeeded", Empty)>>))

RoutingNext ==
  \/ StartPlugin
  \/ HandlePipelineTrigger
  \/ \E i \in DOMAIN jobs : RunPlugin(i) \/ executeCoreSwitch(i) \/ executeCoreRelay(i)

---------------------------------------------------------------------------
(* The reference: a token is the payload of an event that reaches a step.  A
   sequence passes tokens on, a split copies them to every branch and joins
   what comes out, a step whose condition fails lets them pass, and a call
   hands them to the called pipeline and returns none. *)

Repeat(x, n) == [i \in 1..n |-> x]
SpecOf(name) == stim.specs[CHOOSE i \in DOMAIN stim.specs : stim.specs[i].name = name]
TokenScope(t) == [payload |-> t, context |-> EmptyMap, config |-> EmptyMap]
Emitted(plugin) == IF stim.emits[plugin] = <<>> THEN <<Empty>>
                   ELSE Repeat(stim.payload, Len(stim.emits[plugin]))

RECURSIVE RefStep(_, _), RefSteps(_, _)
RefStep(s, toks) ==
  LET Holds(t) == s.if = <<>> \/ Eval(s.if[1], TokenScope(t)) = "true"
      Bypass(t) == ~Holds(t)
      in == SelectSeq(toks, Holds)
      by == SelectSeq(toks, Bypass)
      n == Len(in)
  IN CASE s.uses # "" -> [runs |-> Repeat(s.uses, n),
                          out |-> by \o FlattenSeq(Repeat(Emitted(s.uses), n))]
       [] s.relay # "" -> [runs |-> Repeat("core.relay", n), out |-> by \o Repeat(Empty, n)]
       [] s.call # "" -> [runs |-> RefSteps(SpecOf(s.call).steps, in).runs, out |-> by]
       [] s.steps # <<>> -> RefSteps(s.steps, toks)
       [] s.split # <<>> ->
            FoldLeft(LAMBDA acc, b : LET r == RefStep(b, toks)
                                     IN [runs |-> acc.runs \o r.runs, out |-> acc.out \o r.out],
                     [runs |-> <<>>, out |-> <<>>], s.split)
RefSteps(ss, toks) ==
  FoldLeft(LAMBDA acc, s : LET r == RefStep(s, acc.out)
                           IN [runs |-> acc.runs \o r.runs, out |-> r.out],
           [runs |-> <<>>, out |-> toks], ss)

(* How often a pipeline is started by the stimulus itself. *)
Starts(p) ==
  LET fits == /\ p.fromPlugin \in {"", stim.root}
              /\ p.if = <<>> \/ Eval(p.if[1], TokenScope(stim.payload)) = "true"
      said == Len(SelectSeq(stim.emits[stim.root], LAMBDA e : e = p.on))
  IN IF stim.api # "" THEN (IF p.name = stim.api THEN 1 ELSE 0)
     ELSE IF ~fits THEN 0
     ELSE IF p.on # "" THEN said
     ELSE IF stim.root \in stim.notify /\ p.onHook = "job.completed" THEN 1 ELSE 0

ExpectedRuns ==
  FoldLeft(LAMBDA acc, p : acc \o RefSteps(p.steps, Repeat(stim.payload, Starts(p))).runs,
           IF stim.api = "" THEN <<stim.root>> ELSE <<>>, stim.specs)

Count(seq, q) == Len(SelectSeq(seq, LAMBDA x : x = q))
JobsOf(q, states) == Cardinality({i \in DOMAIN jobs : jobs[i].plugin = q /\ jobs[i].state \in states})
WorkPlugins == DOMAIN stim.emits \union {"core.relay"}
Started == jobs # <<>>
Quiet == Started /\ \A i \in DOMAIN jobs : jobs[i].state # "queued"
NoFailure == \A i \in DOMAIN jobs : jobs[i].state # "failed"

(* An event a step emits may start a further pipeline. *)
Chained == \E i \in DOMAIN stim.specs :
             stim.specs[i].on \in UNION {Range(stim.emits[q]) : q \in DOMAIN stim.emits \ {stim.root}}

(* The rows that CreateContext and Enqueue write: a context follows its parent
   in the ledger, and a job names a context that exists. *)
RoutingTypeOK ==
  /\ \A c \in DOMAIN ledger : ledger[c].parent \in 0..(c - 1)
  /\ \A i \in DOMAIN jobs : /\ jobs[i].ctx \in {NoContext} \union DOMAIN ledger
                             /\ jobs[i].state \in {"queued", "done", "failed"}

(* Every step runs exactly as often as its pipeline is written to run it,
   whatever order the jobs of the walk take: the compiled edges, the switch in
   front of a conditional step, the depth budget, the resolution of calls, the
   predicates and the dedupe of dispatches neither lose a run nor add one. *)
RunsAsWritten ==
  ~Chained /\ DOMAIN routes # {} =>
    \A q \in WorkPlugins :
      /\ JobsOf(q, {"queued", "done", "failed"}) <= Count(ExpectedRuns, q)
      /\ Quiet /\ NoFailure => JobsOf(q, {"done"}) = Count(ExpectedRuns, q)

(* Along a lineage of contexts facts only accrue: a child has every path of its
   parent, with the same value except for the route depth, which grows. *)
LineageKeepsFacts ==
  \A c \in DOMAIN ledger :
    LET p == ledger[c].parent
    IN p # NoContext =>
         /\ DOMAIN ledger[p].acc \subseteq DOMAIN ledger[c].acc
         /\ \A path \in DOMAIN ledger[p].acc \ {Depth} : ledger[c].acc[path] = ledger[p].acc[path]
         /\ FieldOf(ledger[c].acc, Depth) > FieldOf(ledger[p].acc, Depth)

(* A context holds only what the steps of its own lineage claimed: nothing of a
   parallel branch, of a caller or of the pipeline whose event started it. *)
ClaimedBy(c) ==
  LET node == NodeOf([pipeline |-> ledger[c].pipeline, step |-> ledger[c].step])
  IN IF node = <<>> THEN {} ELSE DOMAIN node[1].baggage.mappings \union
       (IF node[1].baggage.from = <<>> THEN {} ELSE {node[1].baggage.namespace})
RECURSIVE LineageOf(_)
LineageOf(c) == IF c = NoContext THEN {} ELSE {c} \union LineageOf(ledger[c].parent)
BaggageFromOwnLineage ==
  \A c \in DOMAIN ledger : \A path \in DOMAIN ledger[c].acc \ ControlPlane :
    \E a \in LineageOf(c) : \E claim \in ClaimedBy(a) : IsPrefix(claim, path)

(* The contexts of a walk are a forest in which each lineage accrues its own
   facts and none of another's, in whatever order the branches of a split and
   the pipelines of an event write them. *)
LineagesApart == RoutingTypeOK /\ LineageKeepsFacts /\ BaggageFromOwnLineage
=============================================================================
