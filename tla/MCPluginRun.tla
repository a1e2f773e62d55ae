---------------------------- MODULE MCPluginRun -----------------------------
(***************************************************************************)
(* What the gateway begins comes to an end: attempts of a job on hosts     *)
(* that differ in how accounts resolve (PluginRun), windows in which the   *)
(* changed bytes of a plugin are tolerated (PluginTrust), reloads and the  *)
(* stop of the process (Runtime), relayed events (Relay).  The four share  *)
(* no variable; part says which one a behaviour is about, and the others   *)
(* are at rest, so the run checks each by itself.                          *)
(***************************************************************************)
EXTENDS PluginRun, PluginTrust, Runtime, Relay

VARIABLE part

Accounts(d, o, u) == [n \in Names |-> CASE n = "default" -> d [] n = "own" -> o [] OTHER -> u]

On(accounts, grant, attested) ==
    [capability |-> TRUE, override |-> FALSE, accounts |-> accounts, grant |-> grant,
     attested |-> attested]

\* Without privileges; overridden; refused; then enforced: a swapped plugin with
\* and without a tier to fall to, a grant of no account, and no grant at all.
MCHosts ==
    {[On(Accounts("none", "none", "none"), "none", TRUE) EXCEPT !.capability = FALSE],
     [On(Accounts("none", "confined", "none"), "own", FALSE) EXCEPT !.override = TRUE],
     On(Accounts("none", "none", "none"), "none", TRUE),
     On(Accounts("none", "credentialed", "confined"), "own", FALSE),
     On(Accounts("none", "credentialed", "none"), "own", FALSE),
     On(Accounts("confined", "none", "none"), "own", TRUE),
     On(Accounts("confined", "none", "none"), "none", TRUE)}

\* One plugin, and a gateway that does not verify integrity at boot.
MCWorlds == {[plugins |-> {1}, faults |-> 0, checks |-> FALSE]}

\* Configurations: a strict one and one without tokens to start from; then drift,
\* broken pipelines, and edits that fail at different steps of a reload.
Base == [listen |-> 1, api |-> TRUE, relay |-> FALSE, vault |-> TRUE, tokens |-> "good", hook |-> "good",
         fault |-> "none", strict |-> FALSE]
Locked(c) == [cfg |-> c, pipelines |-> TRUE, drift |-> FALSE]
Edited(c) == [Locked(c) EXCEPT !.drift = TRUE]
Strict == [Base EXCEPT !.strict = TRUE]
MCFirstDisks == {Locked(Strict), Locked([Base EXCEPT !.tokens = "none"])}
MCDisks == MCFirstDisks \union {Edited(Base), [Locked(Base) EXCEPT !.pipelines = FALSE]}
  \union {Locked(c) : c \in {Base, [Base EXCEPT !.tokens = "unknown_scope"],
    [Base EXCEPT !.hook = "bad_size"], [Base EXCEPT !.listen = 2],
    [Base EXCEPT !.api = FALSE, !.relay = TRUE], [Base EXCEPT !.fault = "load"]}}

\* A relay step and a relay send; the receiver does not know the sender of the second.
MCEnvelope == <<[type |-> "t", key |-> 0, origin |-> 1, signed |-> TRUE, cli |-> FALSE],
                [type |-> "t", key |-> 7, origin |-> 0, signed |-> FALSE, cli |-> TRUE]>>
NothingSpent == {[deliveries |-> 0, crashes |-> 0]}
MCRoutes == [t |-> <<[pipeline |-> "p", target |-> "x"], [pipeline |-> "q", target |-> "y"]>>]

-----------------------------------------------------------------------------
\* A job that is over, and relays that are.
Over ==
    /\ host = CHOOSE h \in Hosts : TRUE
    /\ pc = "done" /\ attempt = 1 /\ starts = 0 /\ account = Unconfined /\ proc = NoProcess
    /\ child = "none" /\ writer = "none" /\ waitErr = "none" /\ timer = "armed" /\ grace = "off"
    /\ verdict = "none"

Relayed ==
    /\ relay = [r \in Relays |-> [state |-> "failed", sends |-> 0]]
    /\ wire = {} /\ serving = [h \in Handlers |-> Nobody] /\ rows = <<>> /\ entries = 0
    /\ deliveries = 0 /\ crashes = 0 /\ mishaps = 0

MCInit ==
    /\ part \in {"attempt", "trust", "runtime", "relay"}
    /\ IF part = "attempt" THEN Init ELSE Over
    /\ TrustInit
    /\ RuntimeInit /\ (part # "runtime" => onDisk = CHOOSE d \in FirstDisks : TRUE)
    /\ IF part = "relay" THEN RelayInit ELSE Relayed

MCNext ==
    \/ part = "attempt" /\ Next /\ UNCHANGED <<trustVars, runtimeVars, relayVars, part>>
    \/ part = "trust" /\ TrustNext /\ UNCHANGED <<vars, runtimeVars, relayVars, part>>
    \/ part = "runtime" /\ RuntimeNext /\ UNCHANGED <<vars, trustVars, relayVars, part>>
    \/ part = "relay" /\ RelayNext /\ UNCHANGED <<vars, trustVars, runtimeVars, part>>

\* The fairness of each, for the part that moves.
MCSpec ==
    /\ MCInit /\ [][MCNext]_<<vars, trustVars, runtimeVars, relayVars, part>>
    /\ WF_vars(part = "attempt" /\ Executor) /\ WF_vars(part = "attempt" /\ Again)
    /\ WF_vars(part = "attempt" /\ WaitReturns) /\ WF_vars(part = "attempt" /\ WriterBroken)
    /\ WF_vars(part = "attempt" /\ Killed) /\ WF_vars(part = "attempt" /\ TimerFires)
    /\ WF_vars(part = "attempt" /\ GraceFires)
    /\ WF_trustVars(part = "trust" /\ Closes) /\ WF_trustVars(part = "trust" /\ GateBoots)
    /\ WF_trustVars(part = "trust" /\ (appendClearpassAudit \/ WritePluginFingerprints \/ CommandReports))
    /\ \A r \in 1..MaxRuntimes : /\ WF_runtimeVars(part = "runtime" /\ Winds(r))
                                 /\ SF_runtimeVars(part = "runtime" /\ Waits(r))
    /\ WF_runtimeVars(part = "runtime" /\ Reloads) /\ SF_runtimeVars(part = "runtime" /\ Supervises)
    /\ \A r \in Relays : /\ WF_relayVars(part = "relay" /\ Send(r))
                          /\ WF_relayVars(part = "relay" /\ SendFails(r))
                          /\ WF_relayVars(part = "relay" /\ RelayCompletes(r))
=============================================================================
