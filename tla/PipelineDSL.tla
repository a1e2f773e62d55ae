---------------------------- MODULE PipelineDSL ----------------------------
(***************************************************************************)
(* The pipeline compiler: from the step tree an author writes to nodes,    *)
(* edges, routes and a depth budget (src/internal/router/dsl).             *)
(*                                                                         *)
(* Lists whose order only makes the output reproducible are sets here.  A  *)
(* step id is a name with two marks: the number of an allocated id, and    *)
(* whether it is the id of the switch in front of a step.                  *)
(***************************************************************************)
EXTENDS Conditions, FiniteSets

Id(base) == [base |-> base, n |-> 0, switch |-> FALSE]
NoId == Id("")
AutoId(n) == [base |-> "step", n |-> n, switch |-> FALSE]
SwitchId(id) == [id EXCEPT !.switch = TRUE]

NoBaggage == [mappings |-> EmptyMap, from |-> <<>>, namespace |-> <<>>]
BaggageEmpty(b) == DOMAIN b.mappings = {} /\ b.from = <<>>

(* The fields an author may give a step; "if" holds at most one condition. *)
BlankStep == [id |-> NoId, uses |-> "", call |-> "", relay |-> "", steps |-> <<>>,
              split |-> <<>>, if |-> <<>>, with |-> EmptyMap, baggage |-> NoBaggage]
Uses(id, plugin) == [BlankStep EXCEPT !.id = id, !.uses = plugin]
Call(id, pipeline) == [BlankStep EXCEPT !.id = id, !.call = pipeline]
Relay(id, to) == [BlankStep EXCEPT !.id = id, !.relay = to]
Steps(ss) == [BlankStep EXCEPT !.steps = ss]
Split(ss) == [BlankStep EXCEPT !.split = ss]
If(step, cond) == [step EXCEPT !.if = <<cond>>]
Claiming(step, baggage) == [step EXCEPT !.baggage = baggage]

BlankPipeline == [name |-> "", on |-> "", onHook |-> "", fromPlugin |-> "",
                  if |-> <<>>, maxDepth |-> <<>>, steps |-> <<>>]
On(name, trigger, steps) ==
  [BlankPipeline EXCEPT !.name = name, !.on = trigger, !.steps = steps]
OnHook(name, signal, steps) ==
  [BlankPipeline EXCEPT !.name = name, !.onHook = signal, !.steps = steps]

---------------------------------------------------------------------------
(* What the builder carries through a step tree. *)
Builder == [nodes |-> EmptyMap, edges |-> {}, nextAuto |-> 0, called |-> {},
            entry |-> {}, exits |-> {}, err |-> FALSE]

(* A preferred id is taken as it is; without one the next free step_<n> is.
   A taken id is an error. *)
allocNodeID(b, preferred) ==
  IF preferred # NoId
    THEN [id |-> preferred, next |-> b.nextAuto, err |-> preferred \in DOMAIN b.nodes]
    ELSE LET free == {n \in (b.nextAuto + 1)..(b.nextAuto + 1 + Cardinality(DOMAIN b.nodes)) :
                        AutoId(n) \notin DOMAIN b.nodes}
             n == CHOOSE i \in free : \A j \in free : i <= j
         IN [id |-> AutoId(n), next |-> n, err |-> FALSE]

Put(nodes, id, node) == [i \in DOMAIN nodes \union {id} |-> IF i = id THEN node ELSE nodes[i]]

(* A conditional step gets a switch in front: true leads to the step, false
   is one more exit, so what follows the step runs either way. *)
wrapConditionalStep(b, id, cond) ==
  LET sw == SwitchId(id)
  IN [b EXCEPT
       !.err = b.err \/ sw \in DOMAIN b.nodes,
       !.nodes = Put(@, sw, [kind |-> "switch", ref |-> "core.switch", cond |-> <<cond>>,
                             baggage |-> NoBaggage]),
       !.edges = @ \union {[from |-> sw, to |-> e, event |-> "switch.true"] : e \in b.entry},
       !.entry = {sw},
       !.exits = @ \union {[node |-> sw, event |-> "switch.false"]}]

addEdges(exits, entry) ==
  {[from |-> x.node, to |-> e, event |-> x.event] : x \in exits, e \in entry}

IsPayloadPath(expr) == expr # <<>> /\ Head(expr) = "payload"

validateBaggageSpec(bg) ==
  /\ \A p \in DOMAIN bg.mappings : p # <<>> /\ bg.mappings[p] # <<>>
  /\ bg.from # <<>> => IsPayloadPath(bg.from)

(* What makes a single step unacceptable. *)
StepRefused(s) ==
  \/ Cardinality({k \in {"uses", "call", "relay", "steps", "split"} :
       s[k] # (IF k \in {"uses", "call", "relay"} THEN "" ELSE <<>>)}) # 1
  \/ DOMAIN s.with # {} /\ s.uses = ""
  \/ ~BaggageEmpty(s.baggage) /\ (s.uses = "" \/ ~validateBaggageSpec(s.baggage))
  \/ s.if # <<>> /\ ~Validate(s.if[1])

(* The node of a uses, call or relay step, alone, and then behind its switch. *)
LeafKind(s) == IF s.uses # "" THEN "uses" ELSE IF s.call # "" THEN "call" ELSE "relay"
placeLeaf(b, s, a, kind) ==
  [b EXCEPT
     !.err = @ \/ a.err, !.nextAuto = a.next,
     !.nodes = Put(@, a.id, [kind |-> kind, ref |-> s[kind], cond |-> <<>>, baggage |-> s.baggage]),
     !.called = @ \union (IF kind = "call" THEN {s.call} ELSE {}),
     !.entry = {a.id}, !.exits = {[node |-> a.id, event |-> ""]}]
guardLeaf(b, id, if) == IF if = <<>> THEN b ELSE wrapConditionalStep(b, id, if[1])
compileLeaf(b, s) ==
  LET a == allocNodeID(b, s.id)
  IN guardLeaf(placeLeaf(b, s, a, LeafKind(s)), a.id, s.if)

(* A sequence links the exits of each step to the entries of the next; a
   split joins the entries and the exits of its branches.  An "if" on a
   sequence or on a split is validated and then has no effect. *)
addBranch(acc, c) == [c EXCEPT !.entry = @ \union acc.entry, !.exits = @ \union acc.exits]
addStep(acc, c, first) ==
  IF first THEN c ELSE [c EXCEPT !.edges = @ \union addEdges(acc.exits, c.entry), !.entry = acc.entry]

RECURSIVE compileStep(_, _), compileSteps(_, _)
compileStep(b, s) ==
  CASE b.err \/ StepRefused(s) -> [b EXCEPT !.err = TRUE]
    [] OTHER ->
       CASE s.uses # "" \/ s.call # "" \/ s.relay # "" -> compileLeaf(b, s)
         [] s.steps # <<>> -> compileSteps(b, s.steps)
         [] s.split # <<>> ->
              FoldLeft(LAMBDA acc, branch : addBranch(acc, compileStep(acc, branch)),
                       [b EXCEPT !.entry = {}, !.exits = {}], s.split)

compileSteps(b, steps) ==
  FoldLeft(LAMBDA acc, i : addStep(acc, compileStep(acc, steps[i]), i = 1),
           b, [i \in 1..Len(steps) |-> i])

(* Kahn's algorithm finds every node exactly when no node is below itself. *)
Below(p, n) == {e.to : e \in {f \in p.edges : f.from = n}}
RECURSIVE Reach(_, _)
Reach(p, ns) == LET m == ns \union UNION {Below(p, n) : n \in ns}
                IN IF m = ns THEN ns ELSE Reach(p, m)
validatePipelineDAG(p) == \A n \in DOMAIN p.nodes : n \notin Reach(p, Below(p, n))

pipelineOf(spec, b) ==
  [name |-> spec.name, isHook |-> spec.onHook # "",
   trigger |-> IF spec.onHook # "" THEN spec.onHook ELSE spec.on,
   fromPlugin |-> spec.fromPlugin, if |-> spec.if, author |-> spec.maxDepth,
   nodes |-> b.nodes, edges |-> b.edges, entry |-> b.entry, exits |-> b.exits,
   called |-> b.called, maxRouteDepth |-> 0]

PipelineAccepted(spec, p) ==
  /\ (spec.on = "") # (spec.onHook = "")
  /\ spec.steps # <<>>
  /\ spec.if # <<>> => Validate(spec.if[1]) /\ ~(p.isHook /\ ReferencesRoot(spec.if[1], "context"))
  /\ spec.maxDepth # <<>> => spec.maxDepth[1] >= 0
  /\ validatePipelineDAG(p)

CheckedPipeline(spec, p, err) == [ok |-> ~err /\ PipelineAccepted(spec, p), p |-> p]
BuiltPipeline(spec, b) == CheckedPipeline(spec, pipelineOf(spec, b), b.err)
compilePipeline(spec) == BuiltPipeline(spec, compileSteps(Builder, spec.steps))

---------------------------------------------------------------------------
(* Calls name pipelines that exist and no pipeline is below itself. *)
RECURSIVE CallReach(_, _)
CallReach(ps, ns) ==
  LET m == ns \union UNION {ps[n].called \intersect DOMAIN ps : n \in ns}
  IN IF m = ns THEN ns ELSE CallReach(ps, m)
validatePipelineCalls(ps) ==
  \A n \in DOMAIN ps : /\ ps[n].called \subseteq DOMAIN ps
                       /\ n \notin CallReach(ps, ps[n].called)

MaxOf(S) == IF S = {} THEN 0 ELSE CHOOSE m \in S : \A x \in S : x <= m

(* The longest chain of dispatches from a node: a call counts as the depth of
   what it calls. *)
RECURSIVE nodeDepth(_, _, _), pipelineDepth(_, _)
nodeDepth(ps, name, id) ==
  LET node == ps[name].nodes[id]
      own == IF node.kind = "call" THEN pipelineDepth(ps, node.ref) ELSE 1
  IN own + MaxOf({nodeDepth(ps, name, s) : s \in Below(ps[name], id)})
pipelineDepth(ps, name) ==
  LET d == MaxOf({nodeDepth(ps, name, e) : e \in ps[name].entry})
  IN IF d = 0 THEN 1 ELSE d

(* The computed budget, which an author's max_depth replaces (0: no budget). *)
assignPipelineMaxRouteDepths(ps) ==
  [n \in DOMAIN ps |->
     [ps[n] EXCEPT !.maxRouteDepth =
        IF ps[n].author # <<>> THEN ps[n].author[1] ELSE pipelineDepth(ps, n)]]

routeDestinationForNode(p, id) ==
  LET node == p.nodes[id]
  IN CASE node.kind = "call" -> [kind |-> "call", step |-> id, ref |-> node.ref]
       [] node.kind = "relay" -> [kind |-> "uses", step |-> id, ref |-> "core.relay"]
       [] OTHER -> [kind |-> "uses", step |-> id, ref |-> node.ref]

(* One route per entry, edge and exit; depthLT 0 is a route without a guard. *)
BuildCompiledRoutes(p) ==
  LET source == [trigger |-> "", hook |-> "", plugin |-> "", if |-> <<>>,
                 pipeline |-> "", step |-> NoId, event |-> "", depthLT |-> p.maxRouteDepth]
      root == [source EXCEPT !.hook = IF p.isHook THEN p.trigger ELSE "",
                             !.trigger = IF p.isHook THEN "" ELSE p.trigger,
                             !.plugin = p.fromPlugin, !.if = p.if]
      from(step, ev) == [source EXCEPT !.pipeline = p.name, !.step = step, !.event = ev]
  IN {[pipeline |-> p.name, source |-> root, dest |-> routeDestinationForNode(p, e)] :
        e \in p.entry}
     \union {[pipeline |-> p.name, source |-> from(e.from, e.event),
              dest |-> routeDestinationForNode(p, e.to)] : e \in p.edges}
     \union {[pipeline |-> p.name, source |-> from(x.node, x.event),
              dest |-> [kind |-> "terminal", step |-> NoId, ref |-> ""]] : x \in p.exits}

(* A list of pipelines as a set of compiled ones, or an error. *)
NamesUnique(specs) ==
  /\ \A i \in DOMAIN specs : specs[i].name # ""
  /\ \A i, j \in DOMAIN specs : specs[i].name = specs[j].name => i = j

newSet(deep) == [n \in DOMAIN deep |-> [p |-> deep[n], routes |-> BuildCompiledRoutes(deep[n])]]

CheckedSet(ps, ok) ==
  IF ok /\ validatePipelineCalls(ps) THEN [ok |-> TRUE, set |-> newSet(assignPipelineMaxRouteDepths(ps))]
  ELSE [ok |-> FALSE, set |-> EmptyMap]
ByName(results) ==
  CheckedSet([n \in {r.p.name : r \in Range(results)} |-> (CHOOSE r \in Range(results) : r.p.name = n).p],
             \A r \in Range(results) : r.ok)
CompileSpecs(specs) ==
  IF NamesUnique(specs) THEN ByName([i \in DOMAIN specs |-> compilePipeline(specs[i])])
  ELSE [ok |-> FALSE, set |-> EmptyMap]
=============================================================================
