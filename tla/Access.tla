------------------------------- MODULE Access -------------------------------
(***************************************************************************)
(* Who may do what at the gateway's listeners: the bearer tokens and the   *)
(* policy built from them (src/internal/auth), the gates of the API's      *)
(* routes (src/internal/api/auth.go, server.go, handlers.go) and the       *)
(* signature of a webhook delivery (src/internal/webhook).                 *)
(*                                                                         *)
(* A token value, a secret and a signature are names; a signature is the   *)
(* secret it was made with.  The rule engine behind Decide is a library:   *)
(* it follows roles, inherited scopes and grants.                          *)
(***************************************************************************)
EXTENDS Integers, Sequences, FiniteSets

CONSTANTS TokenLists,     \* lists of [name, value, scopes] that a configuration may hold
          Presented,      \* the token values that clients present
          Hooks,          \* webhook endpoints, each with its secret
          MaxEntered      \* bound on the jobs that enter the queue

\* No name, no value, no capability.
NoText == ""

ASSUME AccessAssumption ==
  /\ TokenLists \subseteq Seq([name : STRING, value : STRING, scopes : SUBSET STRING])
  /\ NoText \notin Presented /\ MaxEntered \in Nat

VARIABLES tokens,     \* the configured tokens
          listening,  \* the policy was accepted and the listener is open
          reply,      \* the last answer
          entered     \* the jobs that the listeners enqueued

accessVars == <<tokens, listening, reply, entered>>

----------------------------------------------------------------------------
(* The scope lattice and the capability table. *)

\* Mutant: as before the split of plugin:ro, read-class commands come with the catalog.
inherits_Invoke ==
  {<<"*", "plugin:rw">>, <<"*", "jobs:rw">>, <<"*", "events:rw">>, <<"*", "system:rw">>,
   <<"plugin:rw", "plugin:ro">>, <<"plugin:ro", "plugin:invoke:ro">>, <<"plugin:ro", "plugin:catalog:ro">>,
   <<"jobs:rw", "jobs:ro">>, <<"jobs:ro", "jobs:status:ro">>, <<"jobs:ro", "jobs:result:ro">>,
   <<"jobs:ro", "jobs:logs:ro">>, <<"jobs:ro", "jobs:tree:ro">>,
   <<"events:rw", "events:ro">>, <<"events:ro", "events:meta:ro">>, <<"events:ro", "events:payload:ro">>,
   <<"system:rw", "system:ro">>}
inherits ==
  {<<"*", "plugin:rw">>, <<"*", "jobs:rw">>, <<"*", "events:rw">>, <<"*", "system:rw">>,
   <<"plugin:rw", "plugin:ro">>, <<"plugin:rw", "plugin:invoke:ro">>, <<"plugin:ro", "plugin:catalog:ro">>,
   <<"jobs:rw", "jobs:ro">>, <<"jobs:ro", "jobs:status:ro">>, <<"jobs:ro", "jobs:result:ro">>,
   <<"jobs:ro", "jobs:logs:ro">>, <<"jobs:ro", "jobs:tree:ro">>,
   <<"events:rw", "events:ro">>, <<"events:ro", "events:meta:ro">>, <<"events:ro", "events:payload:ro">>,
   <<"system:rw", "system:ro">>}

grants ==
  {<<"plugin:catalog:ro", "read", "catalog">>, <<"plugin:invoke:ro", "read", "invoke">>,
   <<"plugin:rw", "write", "invoke">>, <<"plugin:rw", "write", "pipeline">>,
   <<"system:ro", "read", "topology">>, <<"system:ro", "read", "config">>,
   <<"system:ro", "read", "doctor">>, <<"system:ro", "read", "selfcheck">>,
   <<"system:rw", "write", "reload">>, <<"jobs:status:ro", "read", "status">>,
   <<"jobs:tree:ro", "read", "tree">>, <<"jobs:logs:ro", "read", "logs">>,
   <<"jobs:result:ro", "read", "result">>, <<"events:ro", "read", "stream">>}

knownScopes == {i[1] : i \in inherits} \union {i[2] : i \in inherits} \union {g[1] : g \in grants}

\* A scope and all it inherits.
Covers[s \in knownScopes] == {s} \union UNION {Covers[t] : t \in {i[2] : i \in {j \in inherits : j[1] = s}}}

----------------------------------------------------------------------------
(* Tokens and the policy. *)

Positions == <<"tokens[0]", "tokens[1]", "tokens[2]">>
principalName(i) == IF tokens[i].name # NoText THEN tokens[i].name ELSE Positions[i]

\* The token that a presented value is equal to, the first of them, 0 without one.
Authenticate(value) ==
  LET equal == {i \in DOMAIN tokens : value # NoText /\ tokens[i].value = value}
  IN IF equal = {} THEN 0 ELSE CHOOSE i \in equal : \A j \in equal : i <= j

Roles == UNION {{<<principalName(i), s>> : s \in tokens[i].scopes \ {NoText}} : i \in DOMAIN tokens}

\* No unknown scope, no two tokens of one principal.
NewPolicy ==
  /\ \A i, j \in DOMAIN tokens : i # j => principalName(i) # principalName(j)
  /\ \A i \in DOMAIN tokens : tokens[i].scopes \subseteq knownScopes \union {NoText}

Decide(principal, action, capability) ==
  \E s \in {r[2] : r \in {q \in Roles : q[1] = principal}} :
    \E t \in Covers[s] : <<t, action, capability>> \in grants

OpenListener == ~listening /\ NewPolicy /\ listening' = TRUE /\ UNCHANGED <<tokens, reply, entered>>

----------------------------------------------------------------------------
(* Requests. *)

\* What each route asks the policy; a route without a capability takes any valid token.
Route(name, action, capability) == [name |-> name, action |-> action, capability |-> capability]
setupRoutes ==
  {Route("discovery", "read", NoText), Route("plugin", "read", "catalog"),
   Route("invoke_read", "read", "invoke"), Route("invoke_write", "read", "invoke"),
   Route("pipeline", "write", "pipeline"), Route("topology", "read", "topology"),
   Route("job", "read", "status"), Route("job_tree", "read", "tree"), Route("job_logs", "read", "logs"),
   Route("reload", "write", "reload"), Route("config_view", "read", "config"),
   Route("doctor", "read", "doctor"), Route("selfcheck", "read", "selfcheck"), Route("events", "read", "stream")}

\* Only the event stream takes a token from the query.
ExtractBearerToken(name, via) == via = "header" \/ (via = "query" /\ name = "events")

require(i, r) == r.capability = NoText \/ Decide(principalName(i), r.action, r.capability)

\* The manifest makes a command write-class: a second decision in the handler.
handlePluginTrigger(i, r) == r.name = "invoke_write" => Decide(principalName(i), "write", "invoke")

canSeeJobResults(i, r) == r.name \in {"job", "job_tree", "job_logs"} /\ Decide(principalName(i), "read", "result")

Enqueues(r) == r.name \in {"invoke_read", "invoke_write", "pipeline"}

Answers(by, r, ok, results) == reply' = [by |-> by, route |-> r.name, ok |-> ok, results |-> results]

ServeRequest(value, r, via) ==
  LET i == IF ExtractBearerToken(r.name, via) THEN Authenticate(value) ELSE 0
      ok == i # 0 /\ require(i, r) /\ handlePluginTrigger(i, r)
  IN /\ listening /\ (ok /\ Enqueues(r) => Cardinality(entered) < MaxEntered)
     /\ Answers(i, r, ok, ok /\ canSeeJobResults(i, r))
     /\ entered' = IF ok /\ Enqueues(r) THEN entered \union {[by |-> value, what |-> r.name]} ELSE entered
     /\ UNCHANGED <<tokens, listening>>

\* An endpoint without a secret accepts nothing.
verifyHMACSignature(h, signature) == h.secret # NoText /\ signature # NoText /\ signature = h.secret

handleWebhook(h, signature, small) ==
  /\ Cardinality(entered) < MaxEntered /\ small /\ verifyHMACSignature(h, signature)
  /\ entered' = entered \union {[by |-> signature, what |-> h.path]}
  /\ UNCHANGED <<tokens, listening, reply>>

----------------------------------------------------------------------------
AccessInit ==
  /\ tokens \in TokenLists /\ listening = FALSE /\ entered = {}
  /\ reply = [by |-> 0, route |-> NoText, ok |-> FALSE, results |-> FALSE]

AccessNext ==
  \/ OpenListener
  \/ \E value \in Presented, r \in setupRoutes, via \in {"header", "query"} : ServeRequest(value, r, via)
  \/ \E h \in Hooks, signature \in {NoText} \union {g.secret : g \in Hooks}, small \in BOOLEAN :
       handleWebhook(h, signature, small)

AccessSpec == AccessInit /\ [][AccessNext]_accessVars

----------------------------------------------------------------------------
(* Type correctness; an open listener has a policy in which no two tokens act as one principal. *)
AccessTypeOK ==
  /\ tokens \in TokenLists /\ listening \in BOOLEAN /\ Cardinality(entered) <= MaxEntered
  /\ reply.by \in 0..Len(tokens) /\ reply.ok \in BOOLEAN /\ reply.results \in BOOLEAN
  /\ listening => Cardinality({principalName(i) : i \in DOMAIN tokens}) = Len(tokens)

\* The scope table of docs/CONFIG_REFERENCE.md, inherited scopes written out.
Catalog == {"plugin"}
Jobs == {"job", "job_tree", "job_logs"}
System == {"topology", "config_view", "doctor", "selfcheck"}
Documented(s) ==
  {"discovery"} \union
  CASE s = "*" -> Catalog \union Jobs \union System
                    \union {"invoke_read", "invoke_write", "pipeline", "reload", "events"}
    [] s = "plugin:rw" -> Catalog \union {"invoke_read", "invoke_write", "pipeline"}
    [] s \in {"plugin:ro", "plugin:catalog:ro"} -> Catalog
    [] s = "plugin:invoke:ro" -> {"invoke_read"}
    [] s \in {"jobs:rw", "jobs:ro"} -> Jobs
    [] s = "jobs:status:ro" -> {"job"}
    [] s = "jobs:logs:ro" -> {"job_logs"}
    [] s = "jobs:tree:ro" -> {"job_tree"}
    [] s \in {"events:rw", "events:ro"} -> {"events"}
    [] s = "system:rw" -> System \union {"reload"}
    [] s = "system:ro" -> System
    [] OTHER -> {}

(* What a token reaches is what the table documents for its own scopes, no less
   and no more, and the results of jobs are shown to those with the scope. *)
ScopesAsDocumented ==
  reply.by # 0 =>
    LET own == tokens[reply.by].scopes
    IN /\ reply.ok <=> \/ reply.route = "discovery"
                       \/ \E s \in own : reply.route \in Documented(s)
       /\ reply.results => own \intersect {"*", "jobs:rw", "jobs:ro", "jobs:result:ro"} # {}

(* Every job that entered was asked for with a token that by itself allows it,
   or with the secret of its endpoint: no scope is lent by another token, and
   no write by a scope that only reads. *)
EnteredWereAllowed ==
  \A e \in entered :
    \/ \E h \in Hooks : e.what = h.path /\ e.by = h.secret /\ h.secret # NoText
    \/ \E i \in DOMAIN tokens :
         /\ tokens[i].value = e.by
         /\ tokens[i].scopes \intersect (IF e.what = "invoke_read" THEN {"*", "plugin:rw", "plugin:invoke:ro"}
                                                                  ELSE {"*", "plugin:rw"}) # {}

(* Requests and jobs get in exactly with what the token or the endpoint they
   came with was configured for. *)
AccessAsConfigured == AccessTypeOK /\ ScopesAsDocumented /\ EnteredWereAllowed
=============================================================================
