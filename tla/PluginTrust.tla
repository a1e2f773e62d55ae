---------------------------- MODULE PluginTrust ----------------------------
(***************************************************************************)
(* Plugin attestation: the fingerprints recorded in .checksums, the        *)
(* commands that write them (config lock, plugin lock, plugin clearpass),  *)
(* the gateway's check before a spawn gets its secrets, and the gateway's  *)
(* closer, which turns an expired clearpass window into an attestation of  *)
(* whatever bytes are on disk (internal/config/plugin_lock.go,             *)
(* plugin_clearpass.go, plugin_fingerprint.go, hash.go; cmd/ductile/       *)
(* plugin_lock.go, plugin_clearpass.go, clearpass_closer.go,               *)
(* plugin_verifier.go, config.go).                                         *)
(*                                                                         *)
(* Nothing locks .checksums: a command and the closer both read the whole  *)
(* file, compute, and rename a new one over it, so every reader's copy may *)
(* be stale when it is written.  The audit log in the state database is    *)
(* what the two agree through.  A keyed hash is the number of the version  *)
(* hashed, a seal is the hash it was computed over.                        *)
(***************************************************************************)
EXTENDS Integers, Sequences, FiniteSets

CONSTANTS Plugins,        \* configured plugins, numbered in the order of their names
          MaxVersions,    \* versions of plugin bytes ever deployed
          MaxWindows,     \* clearpass windows ever opened
          MaxSpawns,      \* tolerated spawns recorded for one window
          MaxFaults,      \* crashes, failed writes, lost rows and restored files
          Worlds          \* plugins configured, faults spent, verify_integrity_on_boot at first

ASSUME TrustAssumption == /\ Plugins \subseteq Nat /\ IsFiniteSet(Plugins)
                          /\ {MaxVersions, MaxWindows, MaxSpawns, MaxFaults} \subseteq Nat /\ MaxVersions >= 1
                          /\ Worlds \subseteq [plugins : SUBSET Plugins, faults : 0..MaxFaults, checks : BOOLEAN]

VARIABLES bytes,          \* version of each plugin's manifest and entrypoint on disk
          sums,           \* .checksums: the record of each plugin
          listed,         \* plugins named in config.yaml
          audit,          \* the vault_audit rows of each window, oldest first
          age,            \* of each window: open, expired, stale (beyond the grace)
          opened,         \* windows opened so far
          deployed,       \* versions deployed so far
          gate,           \* the gateway: up, its boot check
          closer,         \* the gateway's sweep in progress
          refusals,       \* refusals the closer remembers having audited
          cmd,            \* the command in progress
          previewed,      \* what the last preview of plugin lock --all proposed
          saved,          \* a copy of .checksums kept outside
          faults,         \* faults so far
          approved,       \* ghost: versions the operator let stand for each plugin
          granted,        \* ghost: what each window was opened for
          taken           \* ghost: commits the gateway made under each window

trustVars == <<bytes, sums, listed, audit, age, opened, deployed, gate, closer, refusals,
               cmd, previewed, saved, faults, approved, granted, taken>>

Windows == 1..MaxWindows
Versions == 0..MaxVersions

----------------------------------------------------------------------------
(* Records of .checksums. *)

\* What ComputePluginFingerprint returns for version h; it carries no window.
ComputePluginFingerprint(h) == [hash |-> h, window |-> 0, seal |-> 0]
Unlocked == ComputePluginFingerprint(0)

\* Mutant: every plugin with a record is hashed again.
PreservePluginFingerprints_Rehash(existing) ==
  [p \in Plugins |-> IF p \in listed /\ existing[p] # Unlocked
                     THEN [existing[p] EXCEPT !.hash = bytes[p]] ELSE Unlocked]
\* config lock copies the records of the plugins still configured, and hashes nothing.
PreservePluginFingerprints(existing) ==
  [p \in Plugins |-> IF p \in listed THEN existing[p] ELSE Unlocked]

MergePluginFingerprint(existing, p, fp) == [existing EXCEPT ![p] = fp]

SetPluginClearpass(existing, p, id) ==
  [existing EXCEPT ![p].window = id, ![p].seal = existing[p].hash]

\* The seal is a MAC over the name, the recorded hashes and the window.
Verify(fp) == fp.window # 0 /\ fp.seal = fp.hash

Expired(id) == age[id] # "open"

\* What plugin lock --all would record, and whether it differs from what is recorded.
Proposed == [p \in Plugins |-> IF p \in listed THEN ComputePluginFingerprint(bytes[p]) ELSE Unlocked]
Differs(set) == \E p \in Plugins : set[p].hash # sums[p].hash

\* The confirmation code: a digest of the proposed set.
CodeMatches(set) == set = previewed

\* verify_integrity_on_boot and every reload: recorded and equal, for every configured
\* plugin.  A clearpass window is not consulted.
VerifyPluginFingerprints ==
  \/ listed = {} /\ \A p \in Plugins : sums[p] = Unlocked
  \/ \A p \in listed : sums[p].hash # 0 /\ sums[p].hash = bytes[p]

\* The check before a spawn gets its secrets: the attested version, or any version
\* inside an open window whose seal verifies.
Tolerated(p) == /\ sums[p].hash \notin {0, bytes[p]}
                /\ IF Verify(sums[p]) THEN ~Expired(sums[p].window) ELSE FALSE
VerifyIdentity(p) == sums[p].hash # 0 /\ (sums[p].hash = bytes[p] \/ Tolerated(p))

----------------------------------------------------------------------------
(* The audit log: one row at a time, and any row may fail to be written. *)

Faulty == faults < MaxFaults /\ faults' = faults + 1
Row(id, outcome) == audit' = [audit EXCEPT ![id] = Append(@, outcome)] /\ UNCHANGED faults
RowLost == Faulty /\ UNCHANGED audit

Has(id, outcome) == \E i \in DOMAIN audit[id] : audit[id][i] = outcome

\* The closer commits a window that the log shows opened, not committed, and whose
\* newest row of a close, refusals apart, is none or an error.
Decisive(id) == {i \in DOMAIN audit[id] : audit[id][i] \in {"pending", "ok", "error", "superseded"}}
\* Mutant: only a committed row counts.
Consumed_Committed(id) == Has(id, "ok")
Consumed(id) ==
  \/ Has(id, "ok")
  \/ \E i \in Decisive(id) : audit[id][i] # "error" /\ \A j \in Decisive(id) : j <= i
admit(id) == age[id] # "stale" /\ ~Consumed(id) /\ Has(id, "open")

----------------------------------------------------------------------------
(* Commands: each reads, computes what it will write, then works through its steps. *)

NoCmd == [at |-> "none", op |-> "none", window |-> 0, set |-> [p \in Plugins |-> Unlocked]]
Command(op, at, window, set) == [at |-> at, op |-> op, window |-> window, set |-> set]
Ready == cmd = NoCmd
Approve(p, h) == approved' = [approved EXCEPT ![p] = @ \cup {h}]

gateVars == <<gate, closer, refusals, taken>>
worldVars == <<bytes, listed, age, deployed, saved>>

runConfigHashUpdate ==
  /\ Ready
  /\ cmd' = Command("config_lock", "write", 0, PreservePluginFingerprints(sums))
  /\ UNCHANGED <<sums, audit, opened, previewed, faults, approved, granted, gateVars, worldVars>>

\* plugin lock <name>: a window on the record read is superseded in the log first.
runPluginLockOne(p) ==
  /\ Ready /\ p \in listed
  /\ cmd' = Command("lock", IF sums[p].window # 0 THEN "row" ELSE "write", sums[p].window,
                    MergePluginFingerprint(sums, p, ComputePluginFingerprint(bytes[p])))
  /\ Approve(p, bytes[p])
  /\ UNCHANGED <<sums, audit, opened, previewed, faults, granted, gateVars, worldVars>>

\* plugin lock --all: a preview prints a code, and the code commits what was previewed.
LockAllPreviews ==
  /\ Ready /\ Differs(Proposed)
  /\ previewed' = Proposed
  /\ UNCHANGED <<sums, audit, opened, cmd, faults, approved, granted, gateVars, worldVars>>

LockAllCommits ==
  /\ Ready /\ Differs(Proposed) /\ previewed # <<>> /\ CodeMatches(Proposed)
  /\ cmd' = Command("lock_all", "write", 0, Proposed)
  /\ approved' = [p \in Plugins |-> approved[p] \cup ({previewed[p].hash} \ {0})]
  /\ UNCHANGED <<sums, audit, opened, previewed, faults, granted, gateVars, worldVars>>

\* plugin clearpass --for: the open row goes before the record.
runPluginClearpassOpen(p) ==
  /\ Ready /\ p \in listed /\ sums[p].hash # 0 /\ opened < MaxWindows
  /\ opened' = opened + 1
  /\ cmd' = Command("open", "row", opened', SetPluginClearpass(sums, p, opened'))
  /\ granted' = [granted EXCEPT ![opened'] = [plugin |-> p, hash |-> sums[p].hash]]
  /\ UNCHANGED <<sums, audit, previewed, faults, approved, gateVars, worldVars>>

\* plugin clearpass --close: the operator's own commit, of any window the record shows.
runPluginClearpassClose(p) ==
  /\ Ready /\ p \in listed /\ sums[p].window # 0
  /\ cmd' = Command("close", "row", sums[p].window,
                    MergePluginFingerprint(sums, p, ComputePluginFingerprint(bytes[p])))
  /\ Approve(p, bytes[p])
  /\ UNCHANGED <<sums, audit, opened, previewed, faults, granted, gateVars, worldVars>>

\* The row that must land before the write: open, superseded or pending.
appendClearpassAudit ==
  LET outcome == CASE cmd.op = "open" -> "open"
                   [] cmd.op = "lock" -> "superseded"
                   [] OTHER -> "pending"
  IN /\ cmd.at = "row"
     /\ \/ Row(cmd.window, outcome) /\ cmd' = [cmd EXCEPT !.at = "write"]
        \/ RowLost /\ cmd' = NoCmd
     /\ UNCHANGED <<sums, opened, previewed, approved, granted, gateVars, worldVars>>

\* The new .checksums is renamed over the old one, whatever the old one holds by now.
WritePluginFingerprints ==
  /\ cmd.at = "write"
  /\ \/ /\ sums' = cmd.set /\ UNCHANGED faults
        /\ cmd' = IF cmd.op = "close" THEN [cmd EXCEPT !.at = "ok"] ELSE NoCmd
     \/ /\ Faulty /\ UNCHANGED sums
        /\ cmd' = IF cmd.op = "close" \/ (cmd.op = "lock" /\ cmd.window # 0)
                  THEN [cmd EXCEPT !.at = "error"] ELSE NoCmd
  /\ UNCHANGED <<audit, opened, previewed, approved, granted, gateVars, worldVars>>

\* What happened is recorded as best it can.
CommandReports ==
  /\ cmd.at \in {"ok", "error"}
  /\ Row(cmd.window, cmd.at) \/ RowLost
  /\ cmd' = NoCmd
  /\ UNCHANGED <<sums, opened, previewed, approved, granted, gateVars, worldVars>>

CommandDies ==
  /\ ~Ready /\ Faulty /\ cmd' = NoCmd
  /\ UNCHANGED <<sums, audit, opened, previewed, approved, granted, gateVars, worldVars>>

----------------------------------------------------------------------------
(* The gateway: spawns, and the closer's sweep of the expired windows. *)

commandVars == <<opened, cmd, previewed, granted>>
Asleep == [at |-> "none", todo |-> {}, snap |-> [p \in Plugins |-> Unlocked],
           set |-> [p \in Plugins |-> Unlocked]]

\* A spawn inside an open window is reported and recorded; any other leaves no trace.
reportSpawn(p) ==
  /\ gate.up /\ Tolerated(p)
  /\ Cardinality({i \in DOMAIN audit[sums[p].window] : audit[sums[p].window][i] = "spawn"}) < MaxSpawns
  /\ Row(sums[p].window, "spawn")
  /\ UNCHANGED <<sums, approved, gateVars, commandVars, worldVars>>

\* Mutant: windows are due while they are open.
sweep_Open ==
  LET due == {p \in Plugins : IF Verify(sums[p]) THEN ~Expired(sums[p].window) ELSE FALSE}
  IN /\ gate.up /\ closer = Asleep /\ due # {}
     /\ closer' = [Asleep EXCEPT !.at = "admit", !.todo = due, !.snap = sums]
     /\ UNCHANGED <<sums, audit, faults, approved, gate, refusals, taken, commandVars, worldVars>>
\* One read of .checksums serves the whole sweep.
sweep ==
  LET due == {p \in Plugins : IF Verify(sums[p]) THEN Expired(sums[p].window) ELSE FALSE}
  IN /\ gate.up /\ closer = Asleep /\ due # {}
     /\ closer' = [Asleep EXCEPT !.at = "admit", !.todo = due, !.snap = sums]
     /\ UNCHANGED <<sums, audit, faults, approved, gate, refusals, taken, commandVars, worldVars>>

\* The plugin in hand, its window in the sweep's copy, and the sweep without it.
InHand == CHOOSE p \in closer.todo : \A q \in closer.todo : p <= q
ItsWindow == closer.snap[InHand].window
NextDue == IF closer.todo = {InHand} THEN Asleep
           ELSE [closer EXCEPT !.at = "admit", !.todo = @ \ {InHand}, !.set = Asleep.set]

\* A refusal is audited once per window and kind while this gateway lives.  A window's
\* refused rows are alike to every reader of the log, so the first one stands for all.
auditRefusalOnce(kind) ==
  /\ refusals' = refusals \cup {<<ItsWindow, kind>>}
  /\ audit' = IF <<ItsWindow, kind>> \in refusals \/ Has(ItsWindow, "refused") THEN audit
              ELSE [audit EXCEPT ![ItsWindow] = Append(@, "refused")]

closeOne ==
  /\ closer.at = "admit"
  /\ IF admit(ItsWindow) THEN closer' = [closer EXCEPT !.at = "read"] /\ UNCHANGED <<refusals, audit>>
     ELSE auditRefusalOnce("not-committable") /\ closer' = NextDue
  /\ UNCHANGED <<sums, faults, approved, gate, taken, commandVars, worldVars>>

\* commitClearpass hashes the live bytes, probes the directory and reads .checksums again.
CloserReads ==
  /\ closer.at = "read"
  /\ \/ /\ closer' = [closer EXCEPT !.at = "pending", !.set = MergePluginFingerprint(
                          sums, InHand, ComputePluginFingerprint(bytes[InHand]))]
        /\ UNCHANGED <<refusals, audit, faults>>
     \/ Faulty /\ auditRefusalOnce("unwritable") /\ closer' = NextDue
  /\ UNCHANGED <<sums, approved, gate, taken, commandVars, worldVars>>

\* The pending row consumes the window; without it nothing is committed.
CloserPends ==
  /\ closer.at = "pending"
  /\ \/ Row(ItsWindow, "pending") /\ closer' = [closer EXCEPT !.at = "write"]
     \/ RowLost /\ closer' = NextDue
  /\ UNCHANGED <<sums, approved, gate, refusals, taken, commandVars, worldVars>>

CloserWrites ==
  /\ closer.at = "write"
  /\ \/ /\ sums' = closer.set /\ closer' = [closer EXCEPT !.at = "ok"]
        /\ Approve(InHand, closer.set[InHand].hash)
        /\ taken' = [taken EXCEPT ![ItsWindow] = @ + 1]
        /\ UNCHANGED faults
     \/ /\ Faulty /\ closer' = [closer EXCEPT !.at = "error"]
        /\ UNCHANGED <<sums, approved, taken>>
  /\ UNCHANGED <<audit, gate, refusals, commandVars, worldVars>>

CloserReports ==
  /\ closer.at \in {"ok", "error"}
  /\ Row(ItsWindow, closer.at) \/ RowLost
  /\ closer' = NextDue
  /\ UNCHANGED <<sums, approved, gate, refusals, taken, commandVars, worldVars>>

\* The gateway stops between sweeps, or dies anywhere; its closer's memory goes with it.
GateStops ==
  /\ gate.up /\ \/ closer = Asleep /\ UNCHANGED faults
                \/ closer # Asleep /\ Faulty
  /\ gate' = [gate EXCEPT !.up = FALSE] /\ closer' = Asleep /\ refusals' = {}
  /\ UNCHANGED <<sums, audit, approved, taken, commandVars, worldVars>>

GateBoots ==
  /\ ~gate.up /\ (gate.checks => VerifyPluginFingerprints)
  /\ gate' = [gate EXCEPT !.up = TRUE]
  /\ UNCHANGED <<sums, audit, faults, approved, closer, refusals, taken, commandVars, worldVars>>

\* A reload verifies whatever the boot policy says, and builds a new closer.
GateReloads ==
  /\ gate.up /\ closer = Asleep /\ VerifyPluginFingerprints
  /\ refusals' = {}
  /\ UNCHANGED <<sums, audit, faults, approved, gate, closer, taken, commandVars, worldVars>>

----------------------------------------------------------------------------
(* The world: deployments, configuration, the clock, backups. *)

toolVars == <<audit, approved, gateVars, commandVars>>

Deploy(p) ==
  /\ p \in listed /\ deployed < MaxVersions /\ deployed' = deployed + 1
  /\ bytes' = [bytes EXCEPT ![p] = deployed']
  /\ UNCHANGED <<sums, listed, age, saved, faults, toolVars>>

\* A plugin leaves config.yaml, never the last one.
EditConfig(p) ==
  /\ p \in listed /\ listed # {p} /\ listed' = listed \ {p}
  /\ UNCHANGED <<bytes, sums, age, deployed, saved, faults, toolVars>>

Deadline(id) ==
  /\ id <= opened /\ age[id] # "stale"
  /\ age' = [age EXCEPT ![id] = IF @ = "open" THEN "expired" ELSE "stale"]
  /\ UNCHANGED <<bytes, sums, listed, deployed, saved, faults, toolVars>>

\* A copy of .checksums is taken, to be put back once.
BackUp ==
  /\ saved = <<>> /\ Faulty /\ saved' = sums
  /\ UNCHANGED <<bytes, sums, listed, age, deployed, toolVars>>

\* The copy replaces .checksums, or the windows in it are edited back by hand.
PutBack ==
  /\ saved # <<>> /\ saved' = <<>>
  /\ \/ sums' = saved
     \/ \E p \in Plugins : /\ sums[p] # Unlocked /\ saved[p].window # 0
                           /\ sums' = [sums EXCEPT ![p].window = saved[p].window,
                                                   ![p].seal = saved[p].seal]
  /\ UNCHANGED <<bytes, listed, age, deployed, faults, toolVars>>

----------------------------------------------------------------------------
\* Every plugin is attested as first deployed, and the gateway runs.
TrustInit ==
  /\ bytes = [p \in Plugins |-> 1] /\ deployed = 1
  /\ audit = [id \in Windows |-> <<>>] /\ age = [id \in Windows |-> "open"] /\ opened = 0
  /\ closer = Asleep /\ refusals = {} /\ cmd = NoCmd /\ previewed = <<>> /\ saved = <<>>
  /\ \E w \in Worlds :
        /\ listed = w.plugins /\ faults = w.faults /\ gate = [up |-> TRUE, checks |-> w.checks]
        /\ sums = [p \in Plugins |-> IF p \in w.plugins THEN ComputePluginFingerprint(1) ELSE Unlocked]
  /\ approved = [p \in Plugins |-> {1}]
  /\ granted = [id \in Windows |-> [plugin |-> 0, hash |-> 0]]
  /\ taken = [id \in Windows |-> 0]

Closes == sweep \/ closeOne \/ CloserReads \/ CloserPends \/ CloserWrites \/ CloserReports

TrustNext ==
  \/ runConfigHashUpdate \/ LockAllPreviews \/ LockAllCommits
  \/ \E p \in Plugins : \/ runPluginLockOne(p) \/ runPluginClearpassOpen(p)
                        \/ runPluginClearpassClose(p)
                        \/ reportSpawn(p) \/ Deploy(p) \/ EditConfig(p)
  \/ appendClearpassAudit \/ WritePluginFingerprints \/ CommandReports \/ CommandDies
  \/ Closes \/ GateStops \/ GateBoots \/ GateReloads
  \/ \E id \in Windows : Deadline(id)
  \/ BackUp \/ PutBack

TrustSpec == TrustInit /\ [][TrustNext]_trustVars

\* A minute's ticker drives the closer, a command that started runs on, and the service
\* manager restarts the gateway.
TrustFairness == /\ WF_trustVars(Closes) /\ WF_trustVars(GateBoots)
                 /\ WF_trustVars(appendClearpassAudit \/ WritePluginFingerprints \/ CommandReports)

----------------------------------------------------------------------------
\* TrustTypeOK: type correctness; a window is recorded as opened once, the closer works
\* only while the gateway that started it is up (run), and only on records with a window.
TrustTypeOK ==
  LET Recs == [hash : Versions, window : 0..MaxWindows, seal : Versions]
  IN /\ bytes \in [Plugins -> Versions] /\ sums \in [Plugins -> Recs] /\ listed \subseteq Plugins
     /\ \A id \in Windows : Cardinality({i \in DOMAIN audit[id] : audit[id][i] = "open"}) <= 1
     /\ age \in [Windows -> {"open", "expired", "stale"}] /\ opened \in 0..MaxWindows
     /\ closer.todo # {} <=> closer.at # "none"
     /\ closer # Asleep => gate.up
     /\ \A p \in closer.todo : closer.snap[p].window # 0
     /\ cmd.at \in {"row", "ok", "error"} => cmd.window \in Windows
     /\ faults \in 0..MaxFaults

\* NoLaundering: every version recorded for a plugin was let stand for that plugin by an
\* operator: locked by its own name, previewed under a code that still matches, or live when
\* a window of it was closed.  No routine lock, lost update, crash or restored file attests
\* bytes on its own.
NoLaundering == \A p \in Plugins : sums[p].hash \in approved[p] \cup {0}

\* WindowsAreRecorded: a sealed window in .checksums, or in a file about to replace it, was
\* recorded in the audit log when it was opened, so the closer can always tell it from a
\* forged one (the open row goes first).
WindowsAreRecorded == \A p \in Plugins : Verify(sums[p]) => Has(sums[p].window, "open")

\* GatewayCommitsOnce: the gateway turns a window into an attestation at most once, wherever a
\* crash, a failed write, a lost row or a restored file strikes and however concurrent commands
\* interleave with its sweeps.
GatewayCommitsOnce == \A id \in Windows : taken[id] <= 1

\* SpawnsTrusted: a plugin that would be given its secrets now has bytes an operator let
\* stand, or runs under an open window that was opened for exactly this attestation.
SpawnsTrusted ==
  \A p \in Plugins : VerifyIdentity(p) =>
     \/ bytes[p] \in approved[p]
     \/ \E id \in Windows : /\ sums[p].window = id /\ age[id] = "open"
                            /\ granted[id] = [plugin |-> p, hash |-> sums[p].hash]

\* WindowsAccounted: the audit log and the closer account for every window: recorded when
\* opened, taken by the gateway at most once.
WindowsAccounted == TrustTypeOK /\ WindowsAreRecorded /\ GatewayCommitsOnce

\* OperatorVouched: what .checksums attests and what is spawned was let stand by an operator.
OperatorVouched == NoLaundering /\ SpawnsTrusted

\* WindowsEnd: while the gateway stays up, a sealed window past its deadline leaves
\* .checksums or is refused; no window stays expired for ever with nobody acting on it.
Lingers(p, id) == sums[p].window = id /\ Verify(sums[p]) /\ Expired(id)
WindowsEnd ==
  \A p \in Plugins, id \in Windows :
     gate.up /\ Lingers(p, id) ~> ~gate.up \/ ~Lingers(p, id) \/ \E k \in {"not-committable", "unwritable"} : <<id, k>> \in refusals
=============================================================================
