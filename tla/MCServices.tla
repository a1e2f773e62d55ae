---------------------------- MODULE MCServices ------------------------------
(***************************************************************************)
(* Seven parts of the gateway side by side, each on a small instance: the  *)
(* router over pipelines that together use every construct, the relay from *)
(* both ends, the vault and its owners, plugin attestation, the state of a *)
(* plugin, access, and the configuration directory.  They share no         *)
(* variable; part says which one a behaviour is about, and the others keep *)
(* an initial state, so their states add up and do not multiply.           *)
(***************************************************************************)
EXTENDS Routing, Relay, Vault, PluginTrust, PluginState, Access, ConfigEdit, TLC

CONSTANTS Parts,          \* the services a run is about
          Terms           \* two terminals
VARIABLE part

----------------------------------------------------------------------------
(* Routing *)

k(v) == [p \in {<<"k">>, <<"doc", "a">>, <<"doc", "b">>} |-> IF p = <<"k">> THEN Num(v) ELSE Num(7)]
IsOne == Atom(<<"payload", "k">>, "eq", Num(1))
Poison == Atom(<<"payload", "missing">>, "gt", Num(0))
Small == AllOf(<<NotOf(IsOne), AnyOf(<<Atom(<<"payload", "k">>, "lt", Num(3)), Poison>>)>>)
Keep(path, expr) == [NoBaggage EXCEPT !.mappings = [p \in {path} |-> expr]]
Import == [NoBaggage EXCEPT !.from = <<"payload", "doc">>, !.namespace = <<"doc">>]

a == Uses(Id("a"), "pa")
b == Uses(Id("b"), "pb")
c == Uses(Id("c"), "pc")
d == Uses(Id("d"), "pd")
auto(p) == Uses(NoId, p)

Emits == [q \in {"root", "pa", "pb", "pc", "pd"} |->
            CASE q = "root" -> <<"e", "f">> [] q = "pa" -> <<"x", "y">>
              [] q = "pb" -> <<>> [] OTHER -> <<"z">>]

Case(specs, payload, notify, api) ==
  [specs |-> specs, emits |-> Emits, payload |-> payload, notify |-> notify,
   root |-> "root", api |-> api]
Plain(specs) == Case(specs, k(1), {}, "")

NoPipelines == [Plain(<<>>) EXCEPT !.emits = [q \in {"root"} |-> <<>>], !.payload = <<>>]

MCStimuli == {
  NoPipelines,
  (* one event per step, two events per step, silence; ids allocated *)
  Plain(<<On("P", "e", <<auto("pa"), auto("pb"), auto("pc")>>)>>),
  Plain(<<On("P", "e", <<Uses(AutoId(1), "pc"), auto("pb"), auto("pd")>>)>>),
  (* a split with a sequence inside, and a step after it *)
  Plain(<<On("P", "e", <<a, Split(<<b, Steps(<<c, auto("pd")>>)>>)>>)>>),
  Plain(<<On("P", "e", <<Split(<<b, c>>), d>>)>>),
  (* conditions: at the entry, in the middle, last; taken, bypassed, failing *)
  Plain(<<On("P", "e", <<If(b, IsOne), If(c, IsOne), d>>)>>),
  Case(<<On("P", "e", <<If(c, IsOne), If(b, Small), If(d, IsOne)>>)>>, k(2), {}, ""),
  Plain(<<On("P", "e", <<If(c, Poison), d>>)>>),
  Plain(<<On("P", "e", <<Split(<<If(c, IsOne), If(d, NotOf(IsOne))>>), b>>)>>),
  (* two pipelines on one event, one with a poison predicate, one from another
     plugin, a hook with its own predicate *)
  Case(<<On("P", "e", <<c>>), [On("Q", "e", <<d>>) EXCEPT !.if = <<Poison>>],
         [On("R", "f", <<b>>) EXCEPT !.fromPlugin = "pa"],
         [OnHook("H", "job.completed", <<a>>) EXCEPT !.if = <<IsOne>>]>>, k(1), {"root"}, ""),
  (* calls: nested, conditional, as the last step *)
  Plain(<<On("P", "e", <<c, Call(Id("x"), "Q")>>), On("Q", "q", <<b, Call(NoId, "R")>>),
          On("R", "r", <<d, If(b, IsOne)>>)>>),
  Plain(<<On("P", "e", <<Split(<<If(Call(Id("x"), "Q"), IsOne), b>>)>>), On("Q", "q", <<c, d>>)>>),
  (* a relay, and a trigger by name *)
  Case(<<On("P", "e", <<Relay(Id("r"), "lab"), c>>)>>, k(1), {}, "P"),
  Case(<<On("P", "e", <<Split(<<Claiming(b, Import), If(c, IsOne)>>), d>>)>>, k(1), {}, "P"),
  (* baggage: claimed in two branches, repeated, revised (an error) *)
  Plain(<<On("P", "e", <<Claiming(c, Keep(<<"who">>, <<"payload", "k">>)),
                         Split(<<Claiming(b, Keep(<<"left">>, <<"context", "who">>)),
                                 Claiming(a, Import)>>),
                         Claiming(d, Keep(<<"who">>, <<"payload", "k">>))>>)>>),
  Plain(<<On("P", "e", <<Claiming(c, Keep(<<"who">>, <<"payload", "k">>)),
                         Claiming(d, Keep(<<"who">>, <<"payload", "doc", "a">>))>>)>>),
  Plain(<<On("P", "e", <<Claiming(c, Keep(<<"who">>, <<"payload", "nobody">>))>>), On("Q", "f", <<d>>)>>),
  (* one pipeline started by a step of another *)
  Plain(<<On("P", "e", <<Claiming(c, Keep(<<"who">>, <<"payload", "k">>)), d>>), On("Q", "z", <<b, auto("pb")>>),
          On("R", "z", <<Claiming(b, Import)>>)>>),
  Plain(<<On("P", "e", <<c, d>>), On("R", "z", <<Claiming(b, Import)>>)>>),
  (* not accepted: a cycle of calls *)
  Plain(<<On("P", "e", <<Call(Id("x"), "Q")>>), On("Q", "f", <<Call(Id("y"), "P")>>)>>)
}

MCMaxJobs == 25

----------------------------------------------------------------------------
(* Relay: an event that two pipelines take up with different plugins, and one
   that two pipelines take up with the same. *)

Sent(type) == [type |-> type, key |-> 0, origin |-> 1, signed |-> TRUE, cli |-> FALSE]
MCEnvelope == <<Sent("apart")>>
SharedEnvelope == <<Sent("shared")>>
To(pipeline, target) == [pipeline |-> pipeline, target |-> target]
MCRoutes == [apart |-> <<To("p", "x"), To("q", "y")>>, shared |-> <<To("p", "x"), To("q", "x")>>]
Spending(d_, c_) == [deliveries |-> d_, crashes |-> c_]
MCSpent == {Spending(1, 0), Spending(0, MaxCrashes)}
NothingSpent == {Spending(0, 0)}
Symmetric == Permutations(Handlers) \union Permutations(Terms)

----------------------------------------------------------------------------
(* Attestation: one plugin and a fault; two plugins, no fault left, and a
   gateway that verifies integrity at boot. *)

World(plugins, spent, checks) == [plugins |-> plugins, faults |-> spent, checks |-> checks]
MCWorlds == {World({1}, 0, FALSE), World({1, 2}, 1, TRUE)}

----------------------------------------------------------------------------
(* State: poll declares two facts, one of them mirrored; act declares none. *)

MCFactOutputs == [poll |-> <<[type |-> "seen", view |-> ""], [type |-> "snapshot", view |-> "mirror_object"]>>,
                  act |-> <<>>]
MCMaxRuns == <<2, 1>>

(* Access: every scope by itself, beside a token of no name; tokens that would
   share a principal, by name or by position; one value twice; unknown scopes. *)

Token(name, value, scopes) == [name |-> name, value |-> value, scopes |-> scopes]
Guest == Token("", "v2", {"jobs:status:ro", ""})
MCTokenLists == {<<Token("op", "v1", {s}), Guest>> : s \in knownScopes}
  \union {<<Token("op", "v1", {"plugin:rw"}), Token("op", "v2", {"events:ro"})>>,
          <<Token("tokens[1]", "v1", {"*"}), Guest>>,
          <<Token("a", "v1", {"plugin:ro"}), Token("b", "v1", {"plugin:rw"}), Guest>>,
          <<Token("a", "v1", {"plugins:rw"})>>, <<Token("a", "", {"*"})>>}
MCHooks == {[path |-> "/signed", secret |-> "k"], [path |-> "/open", secret |-> ""]}

(* Configuration: three commands of which one may be killed, three with another
   content to write, and two at the same time. *)

Session(at, spent, commands, kills) ==
  [terminals |-> at, contents |-> spent, commands |-> commands, kills |-> kills]
MCSessions == {Session({t}, 2, 0, 0) : t \in Terms} \union {Session({t}, 1, 0, 1) : t \in Terms}
              \union {Session(Terms, 2, 1, 1)}

----------------------------------------------------------------------------
MCInit ==
  /\ part \in Parts
  /\ RoutingInit /\ (part # "routing" => stim = NoPipelines)
  /\ RelayInit /\ (part # "relay" => crashes = MaxCrashes)
  /\ VaultInit /\ (part # "vault" => written = 0)
  /\ TrustInit /\ (part # "trust" => listed = {1})
  /\ StateInit /\ (part # "state" => \A j \in StateJobs : work[j].command = "act")
  /\ AccessInit /\ (part # "access" => tokens = <<Token("a", "", {"*"})>>)
  /\ EditInit /\ (part # "config" => disk["config"] = Absent /\ begun = 1)

MCNext ==
  \/ part = "routing" /\ RoutingNext /\ UNCHANGED <<relayVars, vaultVars, trustVars, stateVars, accessVars, editVars, part>>
  \/ part = "relay" /\ RelayNext /\ UNCHANGED <<routingVars, vaultVars, trustVars, stateVars, accessVars, editVars, part>>
  \/ part = "vault" /\ VaultNext /\ UNCHANGED <<routingVars, relayVars, trustVars, stateVars, accessVars, editVars, part>>
  \/ part = "trust" /\ TrustNext /\ UNCHANGED <<routingVars, relayVars, vaultVars, stateVars, accessVars, editVars, part>>
  \/ part = "state" /\ StateNext /\ UNCHANGED <<routingVars, relayVars, vaultVars, trustVars, accessVars, editVars, part>>
  \/ part = "access" /\ AccessNext /\ UNCHANGED <<routingVars, relayVars, vaultVars, trustVars, stateVars, editVars, part>>
  \/ part = "config" /\ EditNext /\ UNCHANGED <<routingVars, relayVars, vaultVars, trustVars, stateVars, accessVars, part>>

MCSpec == MCInit /\ [][MCNext]_<<routingVars, relayVars, vaultVars, trustVars, stateVars, accessVars, editVars, part>>
=============================================================================
