---------------------------- MODULE GatewayProofs ---------------------------
(***************************************************************************)
(* Proofs about the services around the queue, for any value of their      *)
(* constants:                                                              *)
(*                                                                         *)
(*  - PluginTrust: what .checksums attests and what is spawned was let     *)
(*    stand by an operator, and the audit log accounts for every window;   *)
(*  - Access: every request gets the answer that the configured tokens     *)
(*    and the routes' scopes call for;                                     *)
(*  - ConfigEdit: the configuration directory survives its commands;       *)
(*  - Runtime: a reload tells the truth, and the runtime it replaces is    *)
(*    out of the way.                                                      *)
(***************************************************************************)
EXTENDS PluginTrust, Access, ConfigEdit, Runtime, FiniteSetTheorems, TLAPS

-----------------------------------------------------------------------------
\* Types.

TrustRecords == [hash : Versions, window : 0..MaxWindows, seal : Versions]
Attestations == [Plugins -> TrustRecords]
AuditRows == {"open", "superseded", "pending", "ok", "error", "spawn", "refused"}
Sweeps == [at : {"none", "admit", "read", "pending", "write", "ok", "error"}, todo : SUBSET Plugins,
           snap : Attestations, set : Attestations]
Commands == [at : {"none", "row", "write", "ok", "error"},
             op : {"none", "config_lock", "lock", "lock_all", "open", "close"},
             window : 0..MaxWindows, set : Attestations]

\* Every variable's type; the closer's plugins have windows, a command that writes
\* to the log has one.
TrustTypes ==
  /\ bytes \in [Plugins -> Versions] /\ sums \in Attestations /\ listed \subseteq Plugins
  /\ audit \in [Windows -> Seq(AuditRows)]
  /\ age \in [Windows -> {"open", "expired", "stale"}] /\ opened \in 0..MaxWindows
  /\ deployed \in Versions /\ gate \in [up : BOOLEAN, checks : BOOLEAN]
  /\ closer \in Sweeps /\ refusals \subseteq Windows \X {"not-committable", "unwritable"}
  /\ cmd \in Commands
  /\ previewed = <<>> \/ previewed \in Attestations
  /\ saved = <<>> \/ saved \in Attestations
  /\ faults \in 0..MaxFaults
  /\ approved \in [Plugins -> SUBSET Versions]
  /\ granted \in [Windows -> [plugin : Nat, hash : Versions]] /\ taken \in [Windows -> Nat]

\* The places of the closer and of a command.
PlacesInv ==
  /\ closer.todo # {} <=> closer.at # "none"
  /\ closer # Asleep => gate.up
  /\ \A p \in closer.todo : closer.snap[p].window # 0
  /\ cmd.at \in {"row", "ok", "error"} \/ (cmd.at = "write" /\ cmd.op = "close") => cmd.window # 0

\* The numbers.
LEMMA TrustNumbers ==
  /\ Plugins \subseteq Nat /\ MaxVersions \in Nat /\ MaxWindows \in Nat /\ MaxFaults \in Nat
  /\ 0 \in Versions /\ 1 \in Versions /\ Windows \subseteq Nat
  /\ \A w \in 0..MaxWindows : w # 0 => w \in Windows
BY TrustAssumption DEF Versions, Windows

\* A record as it is computed, and the file without records.
LEMMA FreshRecords ==
  /\ Unlocked \in TrustRecords /\ Unlocked.hash = 0 /\ Unlocked.window = 0
  /\ [p \in Plugins |-> Unlocked] \in Attestations
  /\ \A h \in Versions : /\ ComputePluginFingerprint(h) \in TrustRecords
                         /\ ComputePluginFingerprint(h).hash = h
                         /\ ComputePluginFingerprint(h).window = 0
BY TrustNumbers DEF Unlocked, ComputePluginFingerprint, TrustRecords, Attestations

\* Nothing in progress.
LEMMA RestTypes ==
  /\ Asleep \in Sweeps /\ Asleep.at = "none" /\ Asleep.todo = {}
  /\ Asleep.set = [p \in Plugins |-> Unlocked]
  /\ NoCmd \in Commands /\ NoCmd.at = "none" /\ NoCmd.op = "none" /\ NoCmd.set = [p \in Plugins |-> Unlocked]
<1>1. 0 \in 0..MaxWindows
  BY TrustNumbers
<1> QED BY <1>1, FreshRecords DEF Asleep, NoCmd, Sweeps, Commands

\* The plugin in hand is one that is due.
LEMMA InHandDue ==
  ASSUME TrustTypes, closer.todo # {}
  PROVE  InHand \in closer.todo /\ InHand \in Plugins
<1>1. closer.todo \subseteq Plugins
  BY DEF TrustTypes, Sweeps
<1>2. closer.todo \in SUBSET Nat
  BY <1>1, TrustNumbers
<1>3. \E p \in closer.todo : \A q \in closer.todo : p <= q
  <2>1. PICK p \in closer.todo : \A q \in closer.todo : ~(<<q, p>> \in OpToRel(<, Nat))
    BY <1>2, NatLessThanWellFounded, WFMin
  <2>2. \A q \in closer.todo : ~(q < p)
    BY <1>2, <2>1 DEF OpToRel
  <2> QED BY <1>2, <2>2
<1> QED BY <1>1, <1>3 DEF InHand

\* Its window is one.
LEMMA ItsWindowType ==
  ASSUME TrustTypes, PlacesInv, closer.at # "none"
  PROVE  /\ InHand \in closer.todo /\ InHand \in Plugins
         /\ ItsWindow \in Windows
<1>1. closer.todo # {}
  BY DEF PlacesInv
<1>2. InHand \in closer.todo /\ InHand \in Plugins
  BY <1>1, InHandDue
<1>3. closer.snap[InHand].window \in 0..MaxWindows
  BY <1>2 DEF TrustTypes, Sweeps, Attestations, TrustRecords
<1> QED BY <1>2, <1>3, TrustNumbers DEF PlacesInv, ItsWindow

\* The sweep without the plugin in hand: over, or on to the next.
LEMMA NextDueType ==
  ASSUME TrustTypes, PlacesInv, closer.at # "none"
  PROVE  /\ NextDue \in Sweeps
         /\ NextDue = Asleep \/ (/\ NextDue.at = "admit" /\ NextDue.todo # {} /\ NextDue.snap = closer.snap
                                 /\ NextDue.todo \subseteq closer.todo)
<1>1. InHand \in closer.todo
  BY ItsWindowType
<1>2. CASE closer.todo = {InHand}
  BY <1>2, RestTypes DEF NextDue
<1>3. CASE closer.todo # {InHand}
  <2>1. NextDue = [closer EXCEPT !.at = "admit", !.todo = @ \ {InHand}, !.set = Asleep.set]
    BY <1>3 DEF NextDue
  <2>2. closer.todo \ {InHand} # {} /\ closer.todo \in SUBSET Plugins /\ Asleep.set \in Attestations
    BY <1>1, <1>3, RestTypes, FreshRecords DEF TrustTypes, Sweeps
  <2> QED BY <2>1, <2>2 DEF TrustTypes, Sweeps
<1> QED BY <1>2, <1>3

-----------------------------------------------------------------------------
\* The audit log.

\* A row more.
LEMMA AuditAppend ==
  ASSUME NEW t \in Seq(AuditRows), NEW o \in AuditRows
  PROVE  /\ Append(t, o) \in Seq(AuditRows) /\ Len(t) \in Nat /\ Len(t) + 1 \notin DOMAIN t
         /\ Len(t) + 1 \in DOMAIN Append(t, o) /\ Append(t, o)[Len(t) + 1] = o
         /\ \A i \in DOMAIN t : i \in DOMAIN Append(t, o) /\ Append(t, o)[i] = t[i] /\ i <= Len(t)
         /\ \A i \in DOMAIN Append(t, o) : i \in DOMAIN t \/ i = Len(t) + 1
OBVIOUS

\* Which windows the log shows opened, and which it shows consumed, after a row more.
LEMMA AuditRow ==
  ASSUME TrustTypes, NEW id \in Windows, NEW o \in AuditRows,
         audit' = [audit EXCEPT ![id] = Append(@, o)]
  PROVE  /\ audit' \in [Windows -> Seq(AuditRows)]
         /\ \A w \in Windows : w # id => audit'[w] = audit[w]
         /\ \A w \in Windows, x \in AuditRows : Has(w, x)' <=> Has(w, x) \/ (w = id /\ x = o)
         /\ \A w \in Windows : Consumed(w) /\ (w # id \/ o # "error") => Consumed(w)'
         /\ o \in {"pending", "ok", "superseded"} => Consumed(id)'
         /\ o # "open" => \A i \in DOMAIN audit'[id] :
                            audit'[id][i] = "open" => i \in DOMAIN audit[id] /\ audit[id][i] = "open"
<1>1. PICK t : t = audit[id] /\ t \in Seq(AuditRows)
  BY DEF TrustTypes
<1>2. audit'[id] = Append(t, o) /\ \A w \in Windows : w # id => audit'[w] = audit[w]
  BY <1>1 DEF TrustTypes
<1>3. audit' \in [Windows -> Seq(AuditRows)]
  BY <1>1, AuditAppend DEF TrustTypes
<1>4. ASSUME NEW w \in Windows, NEW x \in AuditRows PROVE Has(w, x)' <=> Has(w, x) \/ (w = id /\ x = o)
  <2>1. CASE w # id
    BY <1>2, <2>1 DEF Has
  <2>2. CASE w = id
    BY <1>1, <1>2, <2>2, AuditAppend DEF Has
  <2> QED BY <2>1, <2>2
<1>5. ASSUME o \in {"pending", "ok", "superseded"} PROVE Consumed(id)'
  <2>1. PICK n : n = Len(t) + 1 /\ n \in DOMAIN Append(t, o) /\ Append(t, o)[n] = o /\ Len(t) \in Nat
    BY <1>1, AuditAppend
  <2>2. n \in Decisive(id)' /\ audit'[id][n] # "error"
    BY <1>2, <1>5, <2>1 DEF Decisive
  <2>3. \A j \in Decisive(id)' : j <= n
    BY <1>1, <1>2, <2>1, AuditAppend DEF Decisive
  <2> QED BY <2>2, <2>3 DEF Consumed
<1>6. ASSUME NEW w \in Windows, Consumed(w), w # id \/ o # "error" PROVE Consumed(w)'
  <2>1. CASE w # id
    BY <1>2, <1>6, <2>1 DEF Consumed, Decisive, Has
  <2>2. CASE w = id /\ o \in {"pending", "ok", "superseded"}
    BY <1>5, <2>2
  <2>3. CASE w = id /\ o \in {"open", "spawn", "refused"}
    <3>1. CASE Has(id, "ok")
      BY <1>4, <3>1, <2>3 DEF Consumed, AuditRows
    <3>2. CASE \E i \in Decisive(id) : audit[id][i] # "error" /\ \A j \in Decisive(id) : j <= i
      <4>1. Decisive(id)' = Decisive(id)
        BY <1>1, <1>2, <2>3, AuditAppend DEF Decisive
      <4>2. \A i \in Decisive(id) : audit'[id][i] = audit[id][i]
        BY <1>1, <1>2, AuditAppend DEF Decisive
      <4> QED BY <2>3, <3>2, <4>1, <4>2 DEF Consumed
    <3> QED BY <1>6, <2>3, <3>1, <3>2 DEF Consumed
  <2> QED BY <1>6, <2>1, <2>2, <2>3 DEF AuditRows
<1>7. o # "open" => \A i \in DOMAIN audit'[id] :
                      audit'[id][i] = "open" => i \in DOMAIN audit[id] /\ audit[id][i] = "open"
  BY <1>1, <1>2, AuditAppend
<1> QED BY <1>2, <1>3, <1>4, <1>5, <1>6, <1>7

-----------------------------------------------------------------------------
\* What .checksums, a file about to replace it and a copy of it hold.

\* Nothing that a record rests on is taken back.
TrustGrows ==
  /\ opened <= opened'
  /\ \A p \in Plugins : approved[p] \subseteq approved'[p]
  /\ \A id \in Windows : id <= opened => granted'[id] = granted[id]
  /\ \A id \in Windows : Has(id, "open") => Has(id, "open")'

\* The record's version was let stand; its window was opened for the version it is sealed over.
Stands(T, p) == T[p].hash \in approved[p] \union {0}
Sealed(T, p) == /\ T[p].window <= opened
                /\ T[p].window # 0 => granted[T[p].window] = [plugin |-> p, hash |-> T[p].seal]
Logged(T, p) == T[p].window # 0 => Has(T[p].window, "open")

\* These last.
LEMMA RecordsLast ==
  ASSUME TrustTypes, TrustTypes', TrustGrows, NEW T \in Attestations, NEW p \in Plugins
  PROVE  /\ Stands(T, p) => Stands(T, p)'
         /\ Sealed(T, p) => Sealed(T, p)'
         /\ Logged(T, p) => Logged(T, p)'
<1>1. T[p].window \in 0..MaxWindows /\ opened \in 0..MaxWindows /\ opened' \in 0..MaxWindows
  BY DEF Attestations, TrustRecords, TrustTypes
<1>2. T[p].window # 0 => T[p].window \in Windows
  BY <1>1, TrustNumbers
<1>3. T[p].window <= opened => T[p].window <= opened'
  BY <1>1, TrustNumbers DEF TrustGrows
<1> QED BY <1>2, <1>3 DEF TrustGrows, Stands, Sealed, Logged

\* Of the whole file, of one that a command is about to write and of the closer's.
Sound(T) == \A p \in Plugins : Stands(T, p) /\ Sealed(T, p) /\ Logged(T, p)
CmdSets ==
  \A p \in Plugins : /\ Stands(cmd.set, p) /\ Sealed(cmd.set, p)
                     /\ \/ Logged(cmd.set, p)
                        \/ cmd.op = "open" /\ cmd.at = "row" /\ cmd.set[p].window = cmd.window
CloserSets ==
  closer.at \in {"pending", "write"} =>
    \A p \in Plugins : /\ p # InHand => Stands(closer.set, p)
                       /\ Sealed(closer.set, p) /\ Logged(closer.set, p)
SetsInv == Sound(sums) /\ (saved # <<>> => Sound(saved)) /\ CmdSets /\ CloserSets

\* A file without records is sound.
LEMMA EmptySound == ASSUME TrustTypes PROVE Sound([p \in Plugins |-> Unlocked])
<1>1. opened \in 0..MaxWindows
  BY DEF TrustTypes
<1> QED BY <1>1, FreshRecords, TrustNumbers DEF Sound, Stands, Sealed, Logged

\* A sound file stays so.
LEMMA SoundLasts ==
  ASSUME TrustTypes, TrustTypes', TrustGrows, NEW T \in Attestations, Sound(T) PROVE Sound(T)'
BY RecordsLast DEF Sound

\* What a step has to show.
LEMMA SetsFrame ==
  ASSUME TrustTypes, TrustTypes', TrustGrows, SetsInv,
         sums' = sums \/ Sound(sums)',
         saved' \in {<<>>, saved} \/ saved' = sums,
         cmd' = cmd \/ CmdSets',
         closer' = closer \/ CloserSets'
  PROVE  SetsInv'
<1>1. Sound(sums)'
  <2>1. PICK T \in Attestations : T = sums
    BY DEF TrustTypes
  <2>2. Sound(T)'
    BY <2>1, SoundLasts DEF SetsInv
  <2>3. sums' = sums => Sound(sums)'
    BY <2>1, <2>2 DEF Sound, Stands, Sealed, Logged
  <2> QED BY <2>3
<1>2. saved' # <<>> => Sound(saved)'
  <2>1. CASE saved' = <<>>
    BY <2>1
  <2>2. CASE saved' = saved /\ saved' # <<>>
    <3>1. PICK T \in Attestations : T = saved
      BY <2>2 DEF TrustTypes
    <3>2. Sound(T)'
      BY <2>2, <3>1, SoundLasts DEF SetsInv
    <3> QED BY <2>2, <3>1, <3>2 DEF Sound, Stands, Sealed, Logged
  <2>3. CASE saved' = sums
    <3>1. PICK T \in Attestations : T = sums
      BY DEF TrustTypes
    <3>2. Sound(T)'
      BY <3>1, SoundLasts DEF SetsInv
    <3> QED BY <2>3, <3>1, <3>2 DEF Sound, Stands, Sealed, Logged
  <2> QED BY <2>1, <2>2, <2>3
<1>3. CmdSets'
  <2>1. SUFFICES ASSUME cmd' = cmd PROVE CmdSets'
    OBVIOUS
  <2>2. PICK T \in Attestations : T = cmd.set
    BY DEF TrustTypes, Commands
  <2>3. ASSUME NEW p \in Plugins
        PROVE  /\ Stands(T, p)' /\ Sealed(T, p)'
               /\ \/ Logged(T, p)'
                  \/ cmd'.op = "open" /\ cmd'.at = "row" /\ T[p].window = cmd'.window
    BY <2>1, <2>2, RecordsLast DEF SetsInv, CmdSets
  <2>4. cmd'.set = T
    BY <2>1, <2>2
  <2> QED BY <2>3, <2>4 DEF CmdSets, Stands, Sealed, Logged
<1>4. CloserSets'
  <2>1. SUFFICES ASSUME closer' = closer, closer.at \in {"pending", "write"} PROVE CloserSets'
    BY DEF CloserSets
  <2>2. PICK T, h : T \in Attestations /\ T = closer.set /\ h = InHand
    BY DEF TrustTypes, Sweeps
  <2>3. ASSUME NEW p \in Plugins
        PROVE  (p # h => Stands(T, p)') /\ Sealed(T, p)' /\ Logged(T, p)'
    BY <2>1, <2>2, RecordsLast DEF SetsInv, CloserSets
  <2>4. closer'.set = T /\ InHand' = h
    BY <2>1, <2>2 DEF InHand
  <2> QED BY <2>3, <2>4 DEF CloserSets, Stands, Sealed, Logged
<1> QED BY <1>1, <1>2, <1>3, <1>4 DEF SetsInv

-----------------------------------------------------------------------------
\* The log of the windows.

\* No window is opened twice in the log, none before its command, and the command
\* that is about to has not done so.
LogInv ==
  /\ \A id \in Windows : \A i, j \in DOMAIN audit[id] : audit[id][i] = "open" /\ audit[id][j] = "open" => i = j
  /\ \A id \in Windows : id > opened => ~Has(id, "open")
  /\ \A id \in Windows : cmd.op = "open" /\ cmd.at = "row" /\ cmd.window = id => ~Has(id, "open") /\ id <= opened

\* The inductive invariant of the attestations.
TrustInv == TrustTypes /\ PlacesInv /\ SetsInv /\ LogInv

\* Nothing granted, nothing opened, and no other command about to open a window.
Settled == /\ opened' = opened /\ granted' = granted
           /\ \A p \in Plugins : approved[p] \subseteq approved'[p]
           /\ cmd' = cmd \/ cmd'.at # "row" \/ cmd'.op # "open"

\* A step that writes no row keeps the log.
LEMMA LogSame ==
  ASSUME TrustInv, Settled, audit' = audit
  PROVE  TrustGrows /\ LogInv'
<1>1. opened \in 0..MaxWindows /\ opened <= opened
  BY TrustNumbers DEF TrustInv, TrustTypes
<1>2. \A id, o : Has(id, o)' <=> Has(id, o)
  BY DEF Has
<1>3. TrustGrows
  BY <1>1, <1>2 DEF TrustGrows, Settled
<1>4. LogInv'
  BY <1>2 DEF TrustInv, LogInv, Settled
<1> QED BY <1>3, <1>4

\* So does one that writes a row, but for the row of an opening.
LEMMA LogMore ==
  ASSUME TrustInv, Settled, NEW id \in Windows, NEW o \in AuditRows, o # "open",
         audit' = [audit EXCEPT ![id] = Append(@, o)]
  PROVE  TrustGrows /\ LogInv' /\ audit' \in [Windows -> Seq(AuditRows)]
<1>1. opened \in 0..MaxWindows /\ opened <= opened /\ TrustTypes
  BY TrustNumbers DEF TrustInv, TrustTypes
<1>2. \A w \in Windows : Has(w, "open")' <=> Has(w, "open")
  BY <1>1, AuditRow DEF AuditRows
<1>3. TrustGrows
  BY <1>1, <1>2 DEF TrustGrows, Settled
<1>4. LogInv'
  <2>1. ASSUME NEW w \in Windows, NEW i \in DOMAIN audit'[w], NEW j \in DOMAIN audit'[w],
               audit'[w][i] = "open", audit'[w][j] = "open"
        PROVE  i = j
    <3>1. /\ i \in DOMAIN audit[w] /\ audit[w][i] = "open"
          /\ j \in DOMAIN audit[w] /\ audit[w][j] = "open"
      BY <1>1, <2>1, AuditRow
    <3> QED BY <3>1 DEF TrustInv, LogInv
  <2>2. \A w \in Windows : w > opened' => ~Has(w, "open")'
    BY <1>2 DEF TrustInv, LogInv, Settled
  <2>3. \A w \in Windows : cmd'.op = "open" /\ cmd'.at = "row" /\ cmd'.window = w
                             => ~Has(w, "open")' /\ w <= opened'
    BY <1>2 DEF TrustInv, LogInv, Settled
  <2> QED BY <2>1, <2>2, <2>3 DEF LogInv
<1> QED BY <1>1, <1>3, <1>4, AuditRow

\* What is left to show of a step.
LEMMA TrustFrame ==
  ASSUME TrustInv, TrustTypes', PlacesInv', TrustGrows, LogInv',
         sums' = sums \/ Sound(sums)',
         saved' \in {<<>>, saved} \/ saved' = sums,
         cmd' = cmd \/ CmdSets',
         closer' = closer \/ CloserSets'
  PROVE  TrustInv'
<1>1. SetsInv'
  BY SetsFrame DEF TrustInv
<1> QED BY <1>1 DEF TrustInv

-----------------------------------------------------------------------------
\* The commands.

\* A command that starts, with a file in which every record is one of .checksums
\* or a fresh one, with a version that the operator lets stand.
LEMMA CommandStarts ==
  ASSUME TrustInv, NEW T \in Attestations, NEW w \in 0..MaxWindows,
         NEW op \in {"config_lock", "lock", "lock_all", "close"}, NEW at \in {"row", "write"},
         at = "row" \/ op = "close" => w # 0,
         cmd' = Command(op, at, w, T),
         UNCHANGED <<sums, audit, opened, previewed, faults, granted, gateVars, worldVars>>,
         approved' \in [Plugins -> SUBSET Versions],
         \A p \in Plugins : approved[p] \subseteq approved'[p],
         \A p \in Plugins : T[p] = sums[p] \/ (T[p].window = 0 /\ T[p].hash \in approved'[p] \union {0})
  PROVE  TrustInv'
<1>1. /\ cmd' \in Commands /\ cmd'.set = T /\ cmd'.at = at /\ cmd'.op = op /\ cmd'.window = w
  BY DEF Command, Commands
<1>2. TrustTypes'
  BY <1>1 DEF TrustInv, TrustTypes, gateVars, worldVars
<1>3. PlacesInv'
  BY <1>1 DEF TrustInv, PlacesInv, gateVars
<1>4. TrustGrows /\ LogInv'
  BY <1>1, LogSame DEF Settled
<1>5. CmdSets'
  <2>1. ASSUME NEW p \in Plugins PROVE Stands(T, p)' /\ Sealed(T, p)' /\ Logged(T, p)'
    <3>1. CASE T[p] = sums[p]
      <4>1. Stands(T, p) /\ Sealed(T, p) /\ Logged(T, p)
        BY <3>1 DEF TrustInv, SetsInv, Sound, Stands, Sealed, Logged
      <4> QED BY <1>2, <1>4, <4>1, RecordsLast DEF TrustInv
    <3>2. CASE T[p].window = 0 /\ T[p].hash \in approved'[p] \union {0}
      <4>1. opened' \in 0..MaxWindows
        BY <1>2 DEF TrustTypes
      <4> QED BY <3>2, <4>1, TrustNumbers DEF Stands, Sealed, Logged
    <3> QED BY <3>1, <3>2
  <2> QED BY <1>1, <2>1 DEF CmdSets, Stands, Sealed, Logged
<1> QED BY <1>2, <1>3, <1>4, <1>5, TrustFrame DEF gateVars, worldVars

\* The file merged with a fresh record.
LEMMA Merged ==
  ASSUME NEW S \in Attestations, NEW p \in Plugins, NEW h \in Versions
  PROVE  /\ MergePluginFingerprint(S, p, ComputePluginFingerprint(h)) \in Attestations
         /\ \A q \in Plugins : MergePluginFingerprint(S, p, ComputePluginFingerprint(h))[q] =
                                 IF q = p THEN ComputePluginFingerprint(h) ELSE S[q]
BY FreshRecords DEF MergePluginFingerprint, Attestations

\* The operator lets a version stand.
LEMMA Approved ==
  ASSUME TrustTypes, NEW p \in Plugins, NEW h \in Versions, Approve(p, h)
  PROVE  /\ approved' \in [Plugins -> SUBSET Versions] /\ h \in approved'[p]
         /\ \A q \in Plugins : approved[q] \subseteq approved'[q]
BY DEF TrustTypes, Approve

\* config lock (runConfigHashUpdate) keeps what it read.
LEMMA TrustConfigLock == ASSUME TrustInv, runConfigHashUpdate PROVE TrustInv'
<1>1. PICK T : T = PreservePluginFingerprints(sums)
  OBVIOUS
<1>2. T \in Attestations
  BY <1>1, FreshRecords DEF TrustInv, TrustTypes, PreservePluginFingerprints, Attestations
<1>3. \A p \in Plugins : T[p] = sums[p] \/ (T[p].window = 0 /\ T[p].hash = 0)
  BY <1>1, FreshRecords DEF PreservePluginFingerprints
<1>4. cmd' = Command("config_lock", "write", 0, T) /\ approved' = approved
  BY <1>1 DEF runConfigHashUpdate
<1>5. 0 \in 0..MaxWindows /\ approved \in [Plugins -> SUBSET Versions]
  BY TrustNumbers DEF TrustInv, TrustTypes
<1> QED BY <1>2, <1>3, <1>4, <1>5, CommandStarts DEF runConfigHashUpdate

\* plugin lock <name>: the version on disk is the one the operator names.
LEMMA TrustLockOne == ASSUME TrustInv, NEW p \in Plugins, runPluginLockOne(p) PROVE TrustInv'
<1>1. PICK T, h, w, at : /\ T = MergePluginFingerprint(sums, p, ComputePluginFingerprint(bytes[p]))
                         /\ h = bytes[p] /\ w = sums[p].window
                         /\ at = IF sums[p].window # 0 THEN "row" ELSE "write"
  OBVIOUS
<1>2. sums \in Attestations /\ h \in Versions /\ w \in 0..MaxWindows /\ at \in {"row", "write"}
  BY <1>1 DEF TrustInv, TrustTypes, Attestations, TrustRecords
<1>3. T \in Attestations /\ \A q \in Plugins : T[q] = IF q = p THEN ComputePluginFingerprint(h) ELSE sums[q]
  BY <1>1, <1>2, Merged
<1>4. /\ approved' \in [Plugins -> SUBSET Versions] /\ h \in approved'[p]
      /\ \A q \in Plugins : approved[q] \subseteq approved'[q]
  BY <1>1, <1>2, Approved DEF runPluginLockOne, TrustInv
<1>5. \A q \in Plugins : T[q] = sums[q] \/ (T[q].window = 0 /\ T[q].hash \in approved'[q] \union {0})
  BY <1>2, <1>3, <1>4, FreshRecords
<1>6. cmd' = Command("lock", at, w, T) /\ (at = "row" => w # 0)
  BY <1>1 DEF runPluginLockOne
<1> QED BY <1>2, <1>3, <1>4, <1>5, <1>6, CommandStarts DEF runPluginLockOne

\* plugin clearpass --close: likewise.
LEMMA TrustClose == ASSUME TrustInv, NEW p \in Plugins, runPluginClearpassClose(p) PROVE TrustInv'
<1>1. PICK T, h, w : /\ T = MergePluginFingerprint(sums, p, ComputePluginFingerprint(bytes[p]))
                     /\ h = bytes[p] /\ w = sums[p].window
  OBVIOUS
<1>2. sums \in Attestations /\ h \in Versions /\ w \in 0..MaxWindows
  BY <1>1 DEF TrustInv, TrustTypes, Attestations, TrustRecords
<1>3. T \in Attestations /\ \A q \in Plugins : T[q] = IF q = p THEN ComputePluginFingerprint(h) ELSE sums[q]
  BY <1>1, <1>2, Merged
<1>4. /\ approved' \in [Plugins -> SUBSET Versions] /\ h \in approved'[p]
      /\ \A q \in Plugins : approved[q] \subseteq approved'[q]
  BY <1>1, <1>2, Approved DEF runPluginClearpassClose, TrustInv
<1>5. \A q \in Plugins : T[q] = sums[q] \/ (T[q].window = 0 /\ T[q].hash \in approved'[q] \union {0})
  BY <1>2, <1>3, <1>4, FreshRecords
<1>6. cmd' = Command("close", "row", w, T) /\ w # 0
  BY <1>1 DEF runPluginClearpassClose
<1> QED BY <1>2, <1>3, <1>4, <1>5, <1>6, CommandStarts DEF runPluginClearpassClose

\* The code stands for the very set that is written.
LEMMA TrustLockAll == ASSUME TrustInv, LockAllCommits PROVE TrustInv'
<1>1. PICK T : T = Proposed
  OBVIOUS
<1>2. bytes \in [Plugins -> Versions] /\ approved \in [Plugins -> SUBSET Versions]
  BY DEF TrustInv, TrustTypes
<1>3. T \in Attestations /\ \A q \in Plugins : T[q].window = 0 /\ T[q].hash \in Versions
  BY <1>1, <1>2, FreshRecords, TrustNumbers DEF Proposed, Attestations
<1>4. T = previewed
  BY <1>1 DEF LockAllCommits, CodeMatches
<1>5. /\ approved' \in [Plugins -> SUBSET Versions]
      /\ \A q \in Plugins : approved[q] \subseteq approved'[q] /\ T[q].hash \in approved'[q] \union {0}
  BY <1>2, <1>3, <1>4 DEF LockAllCommits
<1>6. cmd' = Command("lock_all", "write", 0, T) /\ 0 \in 0..MaxWindows
  BY <1>1, TrustNumbers DEF LockAllCommits
<1> QED BY <1>3, <1>5, <1>6, CommandStarts DEF LockAllCommits

\* A preview writes nothing.
LEMMA TrustPreview == ASSUME TrustInv, LockAllPreviews PROVE TrustInv'
<1>1. Proposed \in Attestations
  BY FreshRecords, TrustNumbers DEF TrustInv, TrustTypes, Proposed, Attestations
<1>2. TrustTypes'
  BY <1>1 DEF TrustInv, TrustTypes, LockAllPreviews, gateVars, worldVars
<1>3. PlacesInv'
  BY DEF TrustInv, PlacesInv, LockAllPreviews, gateVars
<1>4. TrustGrows /\ LogInv'
  BY LogSame DEF Settled, LockAllPreviews
<1> QED BY <1>2, <1>3, <1>4, TrustFrame DEF LockAllPreviews, gateVars, worldVars

\* The file with a window set on one record.
LEMMA Cleared ==
  ASSUME NEW S \in Attestations, NEW p \in Plugins, NEW id \in Windows
  PROVE  /\ SetPluginClearpass(S, p, id) \in Attestations
         /\ \A q \in Plugins : q # p => SetPluginClearpass(S, p, id)[q] = S[q]
         /\ SetPluginClearpass(S, p, id)[p].hash = S[p].hash
         /\ SetPluginClearpass(S, p, id)[p].seal = S[p].hash
         /\ SetPluginClearpass(S, p, id)[p].window = id
<1>1. S[p] \in TrustRecords /\ S[p].hash \in Versions /\ id \in 0..MaxWindows
  BY TrustNumbers DEF Attestations, TrustRecords, Windows
<1>2. [S[p] EXCEPT !.window = id, !.seal = S[p].hash] \in TrustRecords
  BY <1>1 DEF TrustRecords
<1>3. SetPluginClearpass(S, p, id) = [S EXCEPT ![p] = [S[p] EXCEPT !.window = id, !.seal = S[p].hash]]
  BY DEF SetPluginClearpass, Attestations
<1> QED BY <1>1, <1>2, <1>3 DEF Attestations, TrustRecords

\* plugin clearpass --for: the window is a new one, that no file and no row mentions.
LEMMA TrustOpen == ASSUME TrustInv, NEW p \in Plugins, runPluginClearpassOpen(p) PROVE TrustInv'
<1>1. PICK T, id : id = opened + 1 /\ T = SetPluginClearpass(sums, p, id)
  OBVIOUS
<1>2. opened \in 0..MaxWindows /\ opened < MaxWindows /\ MaxWindows \in Nat
  BY TrustNumbers DEF TrustInv, TrustTypes, runPluginClearpassOpen
<1>3. id \in Windows /\ id \in 0..MaxWindows /\ id # 0 /\ opened' = id /\ opened <= id /\ id > opened
  BY <1>1, <1>2 DEF runPluginClearpassOpen, Windows
<1>4. sums \in Attestations /\ sums[p].hash \in Versions
  BY DEF TrustInv, TrustTypes, Attestations, TrustRecords
<1>5. /\ T \in Attestations /\ \A q \in Plugins : q # p => T[q] = sums[q]
      /\ T[p].hash = sums[p].hash /\ T[p].seal = sums[p].hash /\ T[p].window = id
  BY <1>1, <1>3, <1>4, Cleared
<1>6. cmd' = Command("open", "row", id, T)
  BY <1>1, <1>3 DEF runPluginClearpassOpen
<1>7. /\ cmd' \in Commands /\ cmd'.set = T /\ cmd'.at = "row" /\ cmd'.op = "open" /\ cmd'.window = id
  BY <1>3, <1>5, <1>6 DEF Command, Commands
<1>8. /\ granted' = [granted EXCEPT ![id] = [plugin |-> p, hash |-> sums[p].hash]]
      /\ granted' \in [Windows -> [plugin : Nat, hash : Versions]]
      /\ granted'[id] = [plugin |-> p, hash |-> T[p].seal]
  BY <1>3, <1>4, <1>5, TrustNumbers DEF TrustInv, TrustTypes, runPluginClearpassOpen
<1>9. TrustTypes'
  BY <1>3, <1>7, <1>8 DEF TrustInv, TrustTypes, runPluginClearpassOpen, gateVars, worldVars
<1>10. PlacesInv'
  BY <1>3, <1>7 DEF TrustInv, PlacesInv, runPluginClearpassOpen, gateVars
<1>11. \A w, o : Has(w, o)' <=> Has(w, o)
  BY DEF Has, runPluginClearpassOpen
<1>12. TrustGrows
  <2>1. \A w \in Windows : w <= opened => granted'[w] = granted[w]
    BY <1>2, <1>3, <1>8, TrustNumbers DEF TrustInv, TrustTypes
  <2> QED BY <1>3, <1>11, <2>1 DEF TrustGrows, runPluginClearpassOpen
<1>13. LogInv'
  <2>1. \A w \in Windows : w > opened' => ~Has(w, "open")'
    BY <1>2, <1>3, <1>11, TrustNumbers DEF TrustInv, LogInv
  <2>2. \A w \in Windows : cmd'.window = w => ~Has(w, "open")' /\ w <= opened'
    BY <1>2, <1>3, <1>7, <1>11, TrustNumbers DEF TrustInv, LogInv
  <2> QED BY <2>1, <2>2 DEF TrustInv, LogInv, runPluginClearpassOpen
<1>14. CmdSets'
  <2>1. ASSUME NEW q \in Plugins
        PROVE  Stands(T, q)' /\ Sealed(T, q)' /\ (Logged(T, q)' \/ T[q].window = id)
    <3>1. Stands(sums, q) /\ Sealed(sums, q) /\ Logged(sums, q)
      BY DEF TrustInv, SetsInv, Sound
    <3>2. CASE q # p
      <4>1. Stands(T, q) /\ Sealed(T, q) /\ Logged(T, q)
        BY <1>5, <3>1, <3>2 DEF Stands, Sealed, Logged
      <4> QED BY <1>5, <1>9, <1>12, <4>1, RecordsLast DEF TrustInv
    <3>3. CASE q = p
      <4>1. Stands(T, p)'
        BY <1>5, <3>1, <3>3 DEF Stands, runPluginClearpassOpen
      <4>2. Sealed(T, p)'
        BY <1>3, <1>5, <1>8, TrustNumbers DEF Sealed
      <4> QED BY <1>5, <3>3, <4>1, <4>2
    <3> QED BY <3>2, <3>3
  <2> QED BY <1>7, <2>1 DEF CmdSets, Stands, Sealed, Logged
<1> QED BY <1>9, <1>10, <1>12, <1>13, <1>14, TrustFrame DEF runPluginClearpassOpen, gateVars, worldVars

\* No command.
LEMMA CommandEnds ==
  ASSUME TrustTypes', cmd' = NoCmd PROVE CmdSets'
<1>1. PICK T : T = [p \in Plugins |-> Unlocked]
  OBVIOUS
<1>2. opened' \in 0..MaxWindows
  BY DEF TrustTypes
<1>3. \A p \in Plugins : Stands(T, p)' /\ Sealed(T, p)' /\ Logged(T, p)'
  BY <1>1, <1>2, FreshRecords, TrustNumbers DEF Stands, Sealed, Logged
<1>4. cmd'.set = T
  BY <1>1, RestTypes
<1> QED BY <1>3, <1>4 DEF CmdSets, Stands, Sealed, Logged

\* One fault more.
LEMMA FaultCounts == ASSUME TrustTypes, Faulty PROVE faults' \in 0..MaxFaults /\ faults' >= 1
BY TrustNumbers DEF TrustTypes, Faulty

\* The file of a command that has written its row is sound.
LEMMA CommandSound ==
  ASSUME TrustInv, cmd.at # "row" \/ cmd.op # "open" PROVE Sound(cmd.set)
BY DEF TrustInv, SetsInv, CmdSets, Sound

\* A command that writes to the log has a window.
LEMMA CommandWindow ==
  ASSUME TrustInv, cmd.at \in {"row", "ok", "error"} PROVE cmd.window \in Windows
BY TrustNumbers DEF TrustInv, TrustTypes, PlacesInv, Commands

\* A command that goes on with the same file.
LEMMA CommandGoesOn ==
  ASSUME TrustInv, TrustTypes', TrustGrows, cmd'.set = cmd.set,
         \A id \in Windows : cmd.op = "open" /\ cmd.at = "row" /\ cmd.window = id => Has(id, "open")'
  PROVE  CmdSets'
<1>1. PICK T, w : T \in Attestations /\ T = cmd.set /\ w = cmd.window
  BY DEF TrustInv, TrustTypes, Commands
<1>2. ASSUME NEW p \in Plugins PROVE Stands(T, p)' /\ Sealed(T, p)' /\ Logged(T, p)'
  <2>1. Stands(T, p) /\ Sealed(T, p) /\ (Logged(T, p) \/ (cmd.op = "open" /\ cmd.at = "row" /\ T[p].window = w))
    BY <1>1 DEF TrustInv, SetsInv, CmdSets
  <2>2. Stands(T, p)' /\ Sealed(T, p)' /\ (Logged(T, p) => Logged(T, p)')
    BY <1>1, <2>1, RecordsLast DEF TrustInv
  <2>3. cmd.op = "open" /\ cmd.at = "row" /\ T[p].window = w => Has(w, "open")'
    BY <1>1, CommandWindow
  <2>4. T[p].window = w /\ Has(w, "open")' => Logged(T, p)'
    BY DEF Logged
  <2> QED BY <2>1, <2>2, <2>3, <2>4
<1>3. cmd'.set = T
  BY <1>1
<1> QED BY <1>2, <1>3 DEF CmdSets, Stands, Sealed, Logged

\* A row is lost, or a command ends without one.
LEMMA CommandStops ==
  ASSUME TrustInv, cmd' = NoCmd, audit' = audit, sums' = sums \/ Sound(sums)', TrustTypes',
         UNCHANGED <<opened, previewed, approved, granted, gateVars, worldVars>>
  PROVE  TrustInv'
<1>1. PlacesInv'
  BY RestTypes DEF TrustInv, PlacesInv, gateVars
<1>2. TrustGrows /\ LogInv'
  BY LogSame, RestTypes DEF Settled
<1>3. CmdSets'
  BY CommandEnds
<1> QED BY <1>1, <1>2, <1>3, TrustFrame DEF gateVars, worldVars

\* The row of an opening: no window has two.
LEMMA TrustOpenRow ==
  ASSUME TrustInv, cmd.at = "row", cmd.op = "open",
         NEW id \in Windows, id = cmd.window, audit' = [audit EXCEPT ![id] = Append(@, "open")],
         cmd' = [cmd EXCEPT !.at = "write"],
         UNCHANGED <<sums, faults, opened, previewed, approved, granted, gateVars, worldVars>>
  PROVE  TrustInv'
<1>1. TrustTypes /\ opened \in 0..MaxWindows /\ opened <= opened /\ "open" \in AuditRows
  <2>1. TrustTypes
    BY DEF TrustInv
  <2>2. opened \in 0..MaxWindows /\ opened <= opened
    BY <2>1, TrustNumbers DEF TrustTypes
  <2> QED BY <2>1, <2>2 DEF AuditRows
<1>2. cmd' \in Commands /\ cmd'.set = cmd.set /\ cmd'.at = "write" /\ cmd'.op = "open" /\ cmd'.window = id
  BY <1>1 DEF TrustTypes, Commands
<1>3. audit' \in [Windows -> Seq(AuditRows)] /\ \A w \in Windows : Has(w, "open")' <=> Has(w, "open") \/ w = id
  BY <1>1, AuditRow
<1>4. TrustTypes'
  BY <1>2, <1>3 DEF TrustInv, TrustTypes, gateVars, worldVars
<1>5. PlacesInv'
  BY <1>2 DEF TrustInv, PlacesInv, gateVars
<1>6. TrustGrows
  BY <1>1, <1>3 DEF TrustGrows
<1>7. ~Has(id, "open") /\ id <= opened
  BY DEF TrustInv, LogInv
<1>8. LogInv'
  <2>1. ASSUME NEW w \in Windows, NEW i \in DOMAIN audit'[w], NEW j \in DOMAIN audit'[w],
               audit'[w][i] = "open", audit'[w][j] = "open"
        PROVE  i = j
    <3>1. CASE w # id
      BY <1>1, <2>1, <3>1, AuditRow DEF TrustInv, LogInv
    <3>2. CASE w = id
      <4>1. PICK t \in Seq(AuditRows) : t = audit[id] /\ audit'[id] = Append(t, "open")
        BY <1>1 DEF TrustTypes
      <4>2. \A k \in DOMAIN Append(t, "open") : Append(t, "open")[k] = "open" => k = Len(t) + 1
        BY <1>1, <1>7, <4>1, AuditAppend DEF Has
      <4> QED BY <2>1, <3>2, <4>1, <4>2
    <3> QED BY <3>1, <3>2
  <2>2. \A w \in Windows : w > opened' => ~Has(w, "open")'
    BY <1>1, <1>3, <1>7, TrustNumbers DEF TrustInv, LogInv
  <2> QED BY <1>2, <2>1, <2>2 DEF LogInv
<1>9. CmdSets'
  <2>1. \A w \in Windows : cmd.window = w => Has(w, "open")'
    BY <1>3
  <2> QED BY <1>2, <1>4, <1>6, <2>1, CommandGoesOn
<1> QED BY <1>4, <1>5, <1>6, <1>8, <1>9, TrustFrame DEF gateVars, worldVars

\* The row that goes before the write lands, or the command ends.
LEMMA TrustRow == ASSUME TrustInv, appendClearpassAudit PROVE TrustInv'
<1>1. PICK id \in Windows : id = cmd.window
  BY CommandWindow DEF appendClearpassAudit
<1>2. cmd.at = "row" /\ UNCHANGED <<sums, opened, previewed, approved, granted, gateVars, worldVars>>
  BY DEF appendClearpassAudit
<1>3. CASE RowLost /\ cmd' = NoCmd
  <2>1. faults' \in 0..MaxFaults /\ audit' = audit
    BY <1>3, FaultCounts DEF RowLost, TrustInv
  <2>2. TrustTypes'
    BY <1>2, <1>3, <2>1, RestTypes DEF TrustInv, TrustTypes, gateVars, worldVars
  <2> QED BY <1>2, <1>3, <2>1, <2>2, CommandStops
<1>4. CASE cmd.op = "open" /\ Row(cmd.window, "open") /\ cmd' = [cmd EXCEPT !.at = "write"]
  BY <1>1, <1>2, <1>4, TrustOpenRow DEF Row
<1>5. CASE cmd.op # "open" /\ cmd' = [cmd EXCEPT !.at = "write"]
           /\ \E o \in {"superseded", "pending"} : Row(cmd.window, o)
  <2>1. PICK o \in {"superseded", "pending"} : audit' = [audit EXCEPT ![id] = Append(@, o)] /\ faults' = faults
    BY <1>1, <1>5 DEF Row
  <2>2. cmd' \in Commands /\ cmd'.set = cmd.set /\ cmd'.at = "write" /\ cmd'.op = cmd.op /\ cmd'.window = id
    BY <1>1, <1>5 DEF TrustInv, TrustTypes, Commands
  <2>3. Settled /\ o \in AuditRows /\ o # "open"
    BY <1>2, <2>2 DEF Settled, AuditRows
  <2>4. TrustGrows /\ LogInv' /\ audit' \in [Windows -> Seq(AuditRows)]
    BY <2>1, <2>3, LogMore
  <2>5. TrustTypes'
    BY <1>2, <2>1, <2>2, <2>4 DEF TrustInv, TrustTypes, gateVars, worldVars
  <2>6. PlacesInv'
    BY <1>1, <1>2, <2>2 DEF TrustInv, PlacesInv, gateVars, Windows
  <2>7. CmdSets'
    BY <1>5, <2>2, <2>4, <2>5, CommandGoesOn
  <2> QED BY <1>2, <2>4, <2>5, <2>6, <2>7, TrustFrame DEF gateVars, worldVars
<1> QED BY <1>3, <1>4, <1>5 DEF appendClearpassAudit

\* The new .checksums is one that stands, however old what it was computed from.
LEMMA TrustWrite == ASSUME TrustInv, WritePluginFingerprints PROVE TrustInv'
<1>1. /\ cmd.at = "write" /\ audit' = audit /\ Sound(cmd.set)
      /\ UNCHANGED <<opened, previewed, approved, granted, gateVars, worldVars>>
  BY CommandSound DEF WritePluginFingerprints
<1>2. sums' = sums \/ sums' = cmd.set
  BY DEF WritePluginFingerprints
<1>3. faults' \in 0..MaxFaults
  <2>1. faults' = faults \/ Faulty
    BY DEF WritePluginFingerprints
  <2>2. faults \in 0..MaxFaults
    BY DEF TrustInv, TrustTypes
  <2> QED BY <2>1, <2>2, FaultCounts DEF TrustInv
<1>4. \/ cmd' = NoCmd
      \/ (cmd.op = "close" \/ cmd.window # 0) /\ \E at \in {"ok", "error"} : cmd' = [cmd EXCEPT !.at = at]
  BY DEF WritePluginFingerprints
<1>5. cmd' \in Commands /\ (cmd' # NoCmd => cmd'.set = cmd.set /\ cmd'.window # 0 /\ cmd'.at \in {"ok", "error"})
  BY <1>1, <1>4, RestTypes DEF TrustInv, TrustTypes, PlacesInv, Commands
<1>6. sums' \in Attestations
  BY <1>2 DEF TrustInv, TrustTypes, Commands
<1>7. TrustTypes'
  BY <1>1, <1>3, <1>5, <1>6 DEF TrustInv, TrustTypes, gateVars, worldVars
<1>8. Settled
  BY <1>1, <1>5, RestTypes DEF Settled
<1>9. TrustGrows /\ LogInv'
  BY <1>1, <1>8, LogSame
<1>10. sums' = sums \/ Sound(sums)'
  <2>1. PICK T \in Attestations : T = cmd.set
    BY DEF TrustInv, TrustTypes, Commands
  <2>2. Sound(T)'
    BY <1>1, <1>7, <1>9, <2>1, SoundLasts DEF TrustInv
  <2> QED BY <1>2, <2>1, <2>2 DEF Sound, Stands, Sealed, Logged
<1>11. CASE cmd' = NoCmd
  BY <1>1, <1>7, <1>10, <1>11, CommandStops
<1>12. CASE cmd' # NoCmd
  <2>1. PlacesInv'
    BY <1>1, <1>5, <1>12 DEF TrustInv, PlacesInv, gateVars
  <2>2. CmdSets'
    BY <1>1, <1>5, <1>7, <1>9, <1>12, CommandGoesOn
  <2> QED BY <1>1, <1>7, <1>9, <1>10, <2>1, <2>2, TrustFrame DEF gateVars, worldVars
<1> QED BY <1>11, <1>12

\* What happened is recorded, or not.
LEMMA TrustReport == ASSUME TrustInv, CommandReports PROVE TrustInv'
<1>1. PICK id \in Windows : id = cmd.window
  BY CommandWindow DEF CommandReports
<1>2. cmd' = NoCmd /\ UNCHANGED <<sums, opened, previewed, approved, granted, gateVars, worldVars>>
  BY DEF CommandReports
<1>3. CASE RowLost
  <2>1. faults' \in 0..MaxFaults /\ audit' = audit
    BY <1>3, FaultCounts DEF RowLost, TrustInv
  <2>2. TrustTypes'
    BY <1>2, <2>1, RestTypes DEF TrustInv, TrustTypes, gateVars, worldVars
  <2> QED BY <1>2, <2>1, <2>2, CommandStops
<1>4. CASE Row(cmd.window, cmd.at)
  <2>1. PICK o \in {"ok", "error"} : audit' = [audit EXCEPT ![id] = Append(@, o)] /\ faults' = faults
    BY <1>1, <1>4 DEF Row, CommandReports
  <2>2. Settled /\ o \in AuditRows /\ o # "open"
    BY <1>2, RestTypes DEF Settled, AuditRows
  <2>3. TrustGrows /\ LogInv' /\ audit' \in [Windows -> Seq(AuditRows)]
    BY <2>1, <2>2, LogMore
  <2>4. TrustTypes'
    BY <1>2, <2>1, <2>3, RestTypes DEF TrustInv, TrustTypes, gateVars, worldVars
  <2>5. PlacesInv'
    BY <1>2, RestTypes DEF TrustInv, PlacesInv, gateVars
  <2>6. CmdSets'
    BY <1>2, <2>4, CommandEnds
  <2> QED BY <1>2, <2>3, <2>4, <2>5, <2>6, TrustFrame DEF gateVars, worldVars
<1> QED BY <1>3, <1>4 DEF CommandReports

\* A command dies between two steps.
LEMMA TrustDies == ASSUME TrustInv, CommandDies PROVE TrustInv'
<1>1. faults' \in 0..MaxFaults
  BY FaultCounts DEF CommandDies, TrustInv
<1>2. TrustTypes'
  BY <1>1, RestTypes DEF TrustInv, TrustTypes, CommandDies, gateVars, worldVars
<1> QED BY <1>2, CommandStops DEF CommandDies

-----------------------------------------------------------------------------
\* The gateway.

\* A tolerated spawn adds a row that opens nothing.
LEMMA TrustSpawn == ASSUME TrustInv, NEW p \in Plugins, reportSpawn(p) PROVE TrustInv'
<1>1. PICK id : id = sums[p].window
  OBVIOUS
<1>2. Tolerated(p) /\ Verify(sums[p])
  BY DEF reportSpawn, Tolerated
<1>3. id \in Windows
  BY <1>1, <1>2, TrustNumbers DEF Verify, TrustInv, TrustTypes, Attestations, TrustRecords
<1>4. audit' = [audit EXCEPT ![id] = Append(@, "spawn")] /\ faults' = faults
  BY <1>1 DEF reportSpawn, Row
<1>5. UNCHANGED <<sums, approved, gateVars, commandVars, worldVars>>
  BY DEF reportSpawn
<1>6. Settled /\ "spawn" \in AuditRows
  BY <1>5 DEF Settled, commandVars, AuditRows
<1>7. TrustGrows /\ LogInv' /\ audit' \in [Windows -> Seq(AuditRows)]
  BY <1>3, <1>4, <1>6, LogMore
<1>8. TrustTypes'
  BY <1>4, <1>5, <1>7 DEF TrustInv, TrustTypes, gateVars, commandVars, worldVars
<1>9. PlacesInv'
  BY <1>5 DEF TrustInv, PlacesInv, gateVars, commandVars
<1> QED BY <1>5, <1>7, <1>8, <1>9, TrustFrame DEF gateVars, commandVars, worldVars

\* What a step of the closer has to show, when it writes no file.
LEMMA CloserFrame ==
  ASSUME TrustInv, TrustGrows, LogInv', audit' \in [Windows -> Seq(AuditRows)], faults' \in 0..MaxFaults,
         refusals' \subseteq Windows \X {"not-committable", "unwritable"},
         closer' \in Sweeps,
         closer'.todo # {} <=> closer'.at # "none", closer' # Asleep => gate.up,
         \A p \in closer'.todo : closer'.snap[p].window # 0,
         CloserSets',
         UNCHANGED <<sums, approved, gate, taken, commandVars, worldVars>>
  PROVE  TrustInv'
<1>1. TrustTypes'
  BY DEF TrustInv, TrustTypes, commandVars, worldVars
<1>2. PlacesInv'
  BY DEF TrustInv, PlacesInv, commandVars
<1> QED BY <1>1, <1>2, TrustFrame DEF commandVars, worldVars

\* The closer is past the plugin in hand: asleep, or at the next.
LEMMA CloserNext ==
  ASSUME TrustInv, TrustGrows, LogInv', audit' \in [Windows -> Seq(AuditRows)], faults' \in 0..MaxFaults,
         refusals' \subseteq Windows \X {"not-committable", "unwritable"},
         closer.at # "none", closer' = NextDue,
         UNCHANGED <<sums, approved, gate, taken, commandVars, worldVars>>
  PROVE  TrustInv'
<1>1. /\ closer' \in Sweeps
      /\ closer' = Asleep \/ (/\ closer'.at = "admit" /\ closer'.todo # {} /\ closer'.snap = closer.snap
                              /\ closer'.todo \subseteq closer.todo)
  BY NextDueType DEF TrustInv
<1>2. gate.up
  BY RestTypes DEF TrustInv, PlacesInv
<1>3. /\ closer'.todo # {} <=> closer'.at # "none"
      /\ \A p \in closer'.todo : closer'.snap[p].window # 0
  BY <1>1, RestTypes DEF TrustInv, PlacesInv
<1>4. closer'.at \notin {"pending", "write"}
  BY <1>1, RestTypes
<1>5. CloserSets'
  BY <1>4 DEF CloserSets
<1> QED BY <1>1, <1>2, <1>3, <1>5, CloserFrame

\* A refusal is a row, or none.
LEMMA Refused ==
  ASSUME TrustInv, Settled, closer.at # "none",
         NEW kind \in {"not-committable", "unwritable"}, auditRefusalOnce(kind)
  PROVE  /\ TrustGrows /\ LogInv' /\ audit' \in [Windows -> Seq(AuditRows)]
         /\ refusals' \subseteq Windows \X {"not-committable", "unwritable"}
<1>1. PICK id \in Windows : id = ItsWindow
  BY ItsWindowType DEF TrustInv
<1>2. refusals' \subseteq Windows \X {"not-committable", "unwritable"}
  BY <1>1 DEF TrustInv, TrustTypes, auditRefusalOnce
<1>3. CASE audit' = audit
  BY <1>2, <1>3, LogSame DEF TrustInv, TrustTypes
<1>4. CASE audit' = [audit EXCEPT ![id] = Append(@, "refused")]
  BY <1>2, <1>4, LogMore DEF AuditRows
<1> QED BY <1>1, <1>3, <1>4 DEF auditRefusalOnce

\* Nothing of a command moves.
LEMMA CommandRests ==
  ASSUME approved' = approved, UNCHANGED commandVars PROVE Settled
BY DEF Settled, commandVars

\* A sweep begins with the records whose seal verifies.
LEMMA TrustSweep == ASSUME TrustInv, sweep PROVE TrustInv'
<1>1. PICK due : /\ due = {p \in Plugins : IF Verify(sums[p]) THEN Expired(sums[p].window) ELSE FALSE} /\ due # {}
                 /\ closer' = [Asleep EXCEPT !.at = "admit", !.todo = due, !.snap = sums]
  BY DEF sweep
<1>2. /\ gate.up /\ UNCHANGED <<sums, audit, faults, approved, gate, refusals, taken, commandVars, worldVars>>
  BY DEF sweep
<1>3. due \subseteq Plugins /\ \A p \in due : sums[p].window # 0
  BY <1>1 DEF Verify
<1>4. closer' \in Sweeps /\ closer'.at = "admit" /\ closer'.todo = due /\ closer'.snap = sums
  BY <1>1, <1>3, RestTypes DEF TrustInv, TrustTypes, Sweeps
<1>5. CloserSets'
  BY <1>4 DEF CloserSets
<1>6. TrustGrows /\ LogInv'
  BY <1>2, CommandRests, LogSame
<1>7. /\ audit' \in [Windows -> Seq(AuditRows)] /\ faults' \in 0..MaxFaults
      /\ refusals' \subseteq Windows \X {"not-committable", "unwritable"}
  BY <1>2 DEF TrustInv, TrustTypes
<1> QED BY <1>1, <1>2, <1>3, <1>4, <1>5, <1>6, <1>7, CloserFrame

\* The window in hand is admitted or refused.
LEMMA TrustAdmit == ASSUME TrustInv, closeOne PROVE TrustInv'
<1>1. /\ closer.at = "admit" /\ UNCHANGED <<sums, faults, approved, gate, taken, commandVars, worldVars>>
  BY DEF closeOne
<1>2. Settled /\ faults' \in 0..MaxFaults
  BY <1>1, CommandRests DEF TrustInv, TrustTypes
<1>3. CASE closer' = [closer EXCEPT !.at = "read"] /\ UNCHANGED <<refusals, audit>>
  <2>1. TrustGrows /\ LogInv'
    BY <1>2, <1>3, LogSame
  <2>2. closer' \in Sweeps /\ closer'.at = "read" /\ closer'.todo = closer.todo /\ closer'.snap = closer.snap
    BY <1>3 DEF TrustInv, TrustTypes, Sweeps
  <2>3. CloserSets'
    BY <2>2 DEF CloserSets
  <2>4. /\ audit' \in [Windows -> Seq(AuditRows)]
        /\ refusals' \subseteq Windows \X {"not-committable", "unwritable"}
    BY <1>3 DEF TrustInv, TrustTypes
  <2>5. /\ closer'.todo # {} /\ gate.up /\ \A p \in closer'.todo : closer'.snap[p].window # 0
    BY <1>1, <2>2, RestTypes DEF TrustInv, PlacesInv
  <2> QED BY <1>1, <1>2, <2>1, <2>2, <2>3, <2>4, <2>5, CloserFrame
<1>4. CASE auditRefusalOnce("not-committable") /\ closer' = NextDue
  BY <1>1, <1>2, <1>4, Refused, CloserNext
<1> QED BY <1>3, <1>4 DEF closeOne

\* The closer goes on with the plugin in hand.
LEMMA CloserGoesOn ==
  ASSUME TrustInv, closer.at # "none", closer' \in Sweeps, closer'.at # "none",
         closer'.todo = closer.todo, closer'.snap = closer.snap
  PROVE  /\ InHand' = InHand /\ ItsWindow' = ItsWindow
         /\ gate.up /\ closer'.todo # {} /\ \A p \in closer'.todo : closer'.snap[p].window # 0
<1>1. InHand' = InHand
  BY DEF InHand
<1>2. ItsWindow' = ItsWindow
  BY <1>1 DEF ItsWindow
<1> QED BY <1>1, <1>2, RestTypes DEF TrustInv, PlacesInv

\* The file the closer will write: .checksums as it is now, and the live bytes.
LEMMA TrustReads == ASSUME TrustInv, CloserReads PROVE TrustInv'
<1>1. /\ closer.at = "read" /\ UNCHANGED <<sums, approved, gate, taken, commandVars, worldVars>>
  BY DEF CloserReads
<1>2. Settled
  BY <1>1, CommandRests
<1>3. CASE /\ closer' = [closer EXCEPT !.at = "pending", !.set = MergePluginFingerprint(
                            sums, InHand, ComputePluginFingerprint(bytes[InHand]))]
           /\ UNCHANGED <<refusals, audit, faults>>
  <2>1. PICK p \in Plugins : p = InHand
    BY <1>1, ItsWindowType DEF TrustInv
  <2>2. PICK T : T = MergePluginFingerprint(sums, p, ComputePluginFingerprint(bytes[p]))
    OBVIOUS
  <2>3. /\ bytes[p] \in Versions /\ sums \in Attestations
    BY DEF TrustInv, TrustTypes
  <2>4. T \in Attestations /\ \A q \in Plugins : T[q] = IF q = p THEN ComputePluginFingerprint(bytes[p]) ELSE sums[q]
    BY <2>2, <2>3, Merged
  <2>5. /\ closer' \in Sweeps /\ closer'.at = "pending" /\ closer'.set = T
        /\ closer'.todo = closer.todo /\ closer'.snap = closer.snap
    BY <1>3, <2>1, <2>2, <2>4 DEF TrustInv, TrustTypes, Sweeps
  <2>6. TrustGrows /\ LogInv'
    BY <1>2, <1>3, LogSame
  <2>7. /\ audit' \in [Windows -> Seq(AuditRows)] /\ faults' \in 0..MaxFaults
        /\ refusals' \subseteq Windows \X {"not-committable", "unwritable"}
    BY <1>3 DEF TrustInv, TrustTypes
  <2>8. /\ InHand' = p /\ gate.up /\ closer'.todo # {}
        /\ \A q \in closer'.todo : closer'.snap[q].window # 0
    BY <1>1, <2>1, <2>5, CloserGoesOn
  <2>9. CloserSets'
    <3>1. opened' \in 0..MaxWindows /\ opened' = opened /\ granted' = granted /\ approved' = approved /\ audit' = audit
      BY <1>1, <1>3 DEF TrustInv, TrustTypes, commandVars
    <3>2. ASSUME NEW q \in Plugins PROVE (q # p => Stands(T, q)') /\ Sealed(T, q)' /\ Logged(T, q)'
      <4>1. CASE q = p
        <5>1. T[q].window = 0
          BY <2>3, <2>4, <4>1, FreshRecords
        <5> QED BY <3>1, <4>1, <5>1, TrustNumbers DEF Sealed, Logged
      <4>2. CASE q # p
        <5>1. T[q] = sums[q] /\ Stands(sums, q) /\ Sealed(sums, q) /\ Logged(sums, q)
          BY <2>4, <4>2 DEF TrustInv, SetsInv, Sound
        <5> QED BY <3>1, <5>1 DEF Stands, Sealed, Logged, Has
      <4> QED BY <4>1, <4>2
    <3> QED BY <2>5, <2>8, <3>2 DEF CloserSets, Stands, Sealed, Logged
  <2> QED BY <1>1, <2>5, <2>6, <2>7, <2>8, <2>9, CloserFrame
<1>4. CASE Faulty /\ auditRefusalOnce("unwritable") /\ closer' = NextDue
  <2>1. faults' \in 0..MaxFaults
    BY <1>4, FaultCounts DEF TrustInv
  <2> QED BY <1>1, <1>2, <1>4, <2>1, Refused, CloserNext
<1> QED BY <1>3, <1>4 DEF CloserReads

\* The closer keeps its file over a row.
LEMMA CloserKeeps ==
  ASSUME TrustInv, TrustTypes', TrustGrows, closer.at \in {"pending", "write"},
         closer'.set = closer.set, InHand' = InHand
  PROVE  CloserSets'
<1>1. PICK T, h : T \in Attestations /\ T = closer.set /\ h = InHand
  BY DEF TrustInv, TrustTypes, Sweeps
<1>2. ASSUME NEW p \in Plugins PROVE (p # h => Stands(T, p)') /\ Sealed(T, p)' /\ Logged(T, p)'
  BY <1>1, RecordsLast DEF TrustInv, SetsInv, CloserSets
<1>3. closer'.set = T /\ InHand' = h
  BY <1>1
<1> QED BY <1>2, <1>3 DEF CloserSets, Stands, Sealed, Logged

\* The pending row.
LEMMA TrustPends == ASSUME TrustInv, CloserPends PROVE TrustInv'
<1>1. /\ closer.at = "pending" /\ UNCHANGED <<sums, approved, gate, refusals, taken, commandVars, worldVars>>
  BY DEF CloserPends
<1>2. /\ Settled /\ "pending" \in AuditRows
      /\ refusals' \subseteq Windows \X {"not-committable", "unwritable"}
  BY <1>1, CommandRests DEF AuditRows, TrustInv, TrustTypes
<1>3. CASE Row(ItsWindow, "pending") /\ closer' = [closer EXCEPT !.at = "write"]
  <2>1. PICK id \in Windows : id = ItsWindow
    BY <1>1, ItsWindowType DEF TrustInv
  <2>2. audit' = [audit EXCEPT ![id] = Append(@, "pending")] /\ faults' = faults
    BY <1>3, <2>1 DEF Row
  <2>3. TrustGrows /\ LogInv' /\ audit' \in [Windows -> Seq(AuditRows)]
    BY <1>2, <2>2, LogMore
  <2>4. /\ closer' \in Sweeps /\ closer'.at = "write" /\ closer'.set = closer.set
        /\ closer'.todo = closer.todo /\ closer'.snap = closer.snap
    BY <1>3 DEF TrustInv, TrustTypes, Sweeps
  <2>5. /\ InHand' = InHand /\ gate.up /\ closer'.todo # {}
        /\ \A q \in closer'.todo : closer'.snap[q].window # 0
    BY <1>1, <2>4, CloserGoesOn
  <2>6. TrustTypes'
    BY <1>1, <1>2, <2>2, <2>3, <2>4 DEF TrustInv, TrustTypes, commandVars, worldVars
  <2>7. CloserSets'
    BY <1>1, <2>3, <2>4, <2>5, <2>6, CloserKeeps
  <2>8. faults' \in 0..MaxFaults
    BY <2>6 DEF TrustTypes
  <2> QED BY <1>1, <1>2, <2>3, <2>4, <2>5, <2>7, <2>8, CloserFrame
<1>4. CASE RowLost /\ closer' = NextDue
  <2>1. faults' \in 0..MaxFaults /\ audit' = audit
    BY <1>4, FaultCounts DEF RowLost, TrustInv
  <2>2. TrustGrows /\ LogInv' /\ audit' \in [Windows -> Seq(AuditRows)]
    BY <1>2, <2>1, LogSame DEF TrustInv, TrustTypes
  <2> QED BY <1>1, <1>2, <1>4, <2>1, <2>2, CloserNext
<1> QED BY <1>3, <1>4 DEF CloserPends

\* The closer writes its file: what it attests anew is what its window stood for.
LEMMA TrustCommits == ASSUME TrustInv, CloserWrites PROVE TrustInv'
<1>1. /\ closer.at = "write" /\ UNCHANGED <<audit, gate, refusals, commandVars, worldVars>>
  BY DEF CloserWrites
<1>2. PICK p \in Plugins : p = InHand
  BY <1>1, ItsWindowType DEF TrustInv
<1>3. PICK T \in Attestations : T = closer.set
  BY DEF TrustInv, TrustTypes, Sweeps
<1>4. \E at \in {"ok", "error"} : closer' = [closer EXCEPT !.at = at]
  BY DEF CloserWrites
<1>5. /\ closer' \in Sweeps /\ closer'.at \in {"ok", "error"}
      /\ closer'.todo = closer.todo /\ closer'.snap = closer.snap
  BY <1>4 DEF TrustInv, TrustTypes, Sweeps
<1>6. PlacesInv'
  <2>1. /\ gate.up /\ closer'.todo # {} /\ \A q \in closer'.todo : closer'.snap[q].window # 0
    BY <1>1, <1>5, CloserGoesOn
  <2> QED BY <1>1, <1>5, <2>1 DEF TrustInv, PlacesInv, commandVars
<1>7. CloserSets'
  BY <1>5 DEF CloserSets
<1>8. CASE Faulty /\ UNCHANGED <<sums, approved, taken>>
  <2>1. faults' \in 0..MaxFaults
    BY <1>8, FaultCounts DEF TrustInv
  <2>2. TrustTypes'
    BY <1>1, <1>5, <1>8, <2>1 DEF TrustInv, TrustTypes, commandVars, worldVars
  <2>3. TrustGrows /\ LogInv'
    BY <1>1, <1>8, CommandRests, LogSame
  <2> QED BY <1>1, <1>6, <1>7, <1>8, <2>2, <2>3, TrustFrame DEF commandVars, worldVars
<1>9. CASE /\ sums' = closer.set /\ Approve(InHand, closer.set[InHand].hash)
           /\ taken' = [taken EXCEPT ![ItsWindow] = @ + 1] /\ UNCHANGED faults
  <2>1. T[p].hash \in Versions /\ TrustTypes
    BY DEF Attestations, TrustRecords, TrustInv
  <2>2. /\ approved' \in [Plugins -> SUBSET Versions] /\ T[p].hash \in approved'[p]
        /\ \A q \in Plugins : approved[q] \subseteq approved'[q]
    BY <1>2, <1>3, <1>9, <2>1, Approved
  <2>3. taken' \in [Windows -> Nat]
    <3>1. PICK id \in Windows : id = ItsWindow
      BY <1>1, ItsWindowType DEF TrustInv
    <3> QED BY <1>9, <3>1 DEF TrustInv, TrustTypes
  <2>4. TrustTypes'
    BY <1>1, <1>3, <1>5, <1>9, <2>2, <2>3 DEF TrustInv, TrustTypes, commandVars, worldVars
  <2>5. Settled
    BY <1>1, <2>2 DEF Settled, commandVars
  <2>6. TrustGrows /\ LogInv'
    BY <1>1, <2>5, LogSame
  <2>7. Sound(T)'
    <3>1. ASSUME NEW q \in Plugins PROVE Stands(T, q)' /\ Sealed(T, q)' /\ Logged(T, q)'
      <4>1. (q # p => Stands(T, q)) /\ Sealed(T, q) /\ Logged(T, q)
        BY <1>1, <1>2, <1>3 DEF TrustInv, SetsInv, CloserSets
      <4>2. (q # p => Stands(T, q)') /\ Sealed(T, q)' /\ Logged(T, q)'
        BY <2>1, <2>4, <2>6, <4>1, RecordsLast
      <4>3. Stands(T, p)'
        BY <2>2 DEF Stands
      <4> QED BY <4>2, <4>3
    <3> QED BY <3>1 DEF Sound
  <2>8. Sound(sums)'
    BY <1>3, <1>9, <2>7 DEF Sound, Stands, Sealed, Logged
  <2> QED BY <1>1, <1>6, <1>7, <2>4, <2>6, <2>8, TrustFrame DEF commandVars, worldVars
<1> QED BY <1>8, <1>9 DEF CloserWrites

\* The closer records what happened, or does not, and goes on.
LEMMA TrustReports == ASSUME TrustInv, CloserReports PROVE TrustInv'
<1>1. /\ closer.at \in {"ok", "error"} /\ closer' = NextDue
      /\ UNCHANGED <<sums, approved, gate, refusals, taken, commandVars, worldVars>>
  BY DEF CloserReports
<1>2. Settled /\ refusals' \subseteq Windows \X {"not-committable", "unwritable"}
  BY <1>1, CommandRests DEF TrustInv, TrustTypes
<1>3. CASE Row(ItsWindow, closer.at)
  <2>1. PICK id \in Windows, o \in {"ok", "error"} : id = ItsWindow /\ o = closer.at
    BY <1>1, ItsWindowType DEF TrustInv
  <2>2. audit' = [audit EXCEPT ![id] = Append(@, o)] /\ faults' = faults /\ o \in AuditRows /\ o # "open"
    BY <1>3, <2>1 DEF Row, AuditRows
  <2>3. TrustGrows /\ LogInv' /\ audit' \in [Windows -> Seq(AuditRows)]
    BY <1>2, <2>2, LogMore
  <2>4. faults' \in 0..MaxFaults
    BY <2>2 DEF TrustInv, TrustTypes
  <2> QED BY <1>1, <1>2, <2>3, <2>4, CloserNext
<1>4. CASE RowLost
  <2>1. faults' \in 0..MaxFaults /\ audit' = audit
    BY <1>4, FaultCounts DEF RowLost, TrustInv
  <2>2. TrustGrows /\ LogInv' /\ audit' \in [Windows -> Seq(AuditRows)]
    BY <1>2, <2>1, LogSame DEF TrustInv, TrustTypes
  <2> QED BY <1>1, <1>2, <2>1, <2>2, CloserNext
<1> QED BY <1>3, <1>4 DEF CloserReports

\* The gateway stops, boots or reloads.
LEMMA TrustGate == ASSUME TrustInv, GateStops \/ GateBoots \/ GateReloads PROVE TrustInv'
<1>1. /\ UNCHANGED <<sums, audit, approved, taken, commandVars, worldVars>>
      /\ closer' \in {closer, Asleep} /\ refusals' \in {refusals, {}}
  BY DEF GateStops, GateBoots, GateReloads
<1>2. gate' \in [up : BOOLEAN, checks : BOOLEAN] /\ (closer' # Asleep => gate'.up)
  BY DEF TrustInv, TrustTypes, PlacesInv, GateStops, GateBoots, GateReloads
<1>3. faults' \in 0..MaxFaults
  <2>1. faults' = faults \/ Faulty
    BY DEF GateStops, GateBoots, GateReloads
  <2>2. faults \in 0..MaxFaults
    BY DEF TrustInv, TrustTypes
  <2> QED BY <2>1, <2>2, FaultCounts DEF TrustInv
<1>4. TrustTypes'
  BY <1>1, <1>2, <1>3, RestTypes DEF TrustInv, TrustTypes, commandVars, worldVars
<1>5. PlacesInv'
  BY <1>1, <1>2, RestTypes DEF TrustInv, PlacesInv, commandVars
<1>6. TrustGrows /\ LogInv'
  BY <1>1, CommandRests, LogSame
<1>7. closer' = closer \/ CloserSets'
  BY <1>1, RestTypes DEF CloserSets
<1> QED BY <1>1, <1>4, <1>5, <1>6, <1>7, TrustFrame DEF commandVars, worldVars

-----------------------------------------------------------------------------
\* The world.

\* Deployments, the configuration, the clock and a backup touch no record.
LEMMA TrustWorld ==
  ASSUME TrustInv,
         \/ \E p \in Plugins : Deploy(p) \/ EditConfig(p)
         \/ \E id \in Windows : Deadline(id)
         \/ BackUp
  PROVE  TrustInv'
<1>1. UNCHANGED <<sums, toolVars>> /\ (saved' = saved \/ saved' = sums)
  BY DEF Deploy, EditConfig, Deadline, BackUp
<1>2. /\ UNCHANGED <<audit, approved, gate, closer, refusals, taken, opened, cmd, previewed, granted>>
  BY <1>1 DEF toolVars, gateVars, commandVars
<1>3. faults' \in 0..MaxFaults
  <2>1. faults' = faults \/ Faulty
    BY DEF Deploy, EditConfig, Deadline, BackUp
  <2>2. faults \in 0..MaxFaults
    BY DEF TrustInv, TrustTypes
  <2> QED BY <2>1, <2>2, FaultCounts DEF TrustInv
<1>4. deployed' \in Versions /\ bytes' \in [Plugins -> Versions]
  <2>1. deployed \in Versions /\ bytes \in [Plugins -> Versions]
    BY DEF TrustInv, TrustTypes
  <2>2. CASE \E p \in Plugins : Deploy(p)
    <3>1. PICK p \in Plugins : deployed < MaxVersions /\ deployed' = deployed + 1 /\ bytes' = [bytes EXCEPT ![p] = deployed']
      BY <2>2 DEF Deploy
    <3>2. deployed' \in Versions
      BY <2>1, <3>1, TrustNumbers DEF Versions
    <3> QED BY <2>1, <3>1, <3>2
  <2>3. CASE bytes' = bytes /\ deployed' = deployed
    BY <2>1, <2>3
  <2> QED BY <2>2, <2>3 DEF EditConfig, Deadline, BackUp
<1>5. listed' \subseteq Plugins /\ age' \in [Windows -> {"open", "expired", "stale"}]
  BY DEF TrustInv, TrustTypes, Deploy, EditConfig, Deadline, BackUp
<1>6. saved' = <<>> \/ saved' \in Attestations
  BY <1>1 DEF TrustInv, TrustTypes
<1>7. TrustTypes'
  BY <1>1, <1>2, <1>3, <1>4, <1>5, <1>6 DEF TrustInv, TrustTypes
<1>8. PlacesInv'
  BY <1>2 DEF TrustInv, PlacesInv
<1>9. TrustGrows /\ LogInv'
  BY <1>2, LogSame DEF Settled
<1> QED BY <1>1, <1>2, <1>7, <1>8, <1>9, TrustFrame

\* A copy put back is one of an earlier .checksums, and a window edited back brings
\* its own seal.
LEMMA TrustPutBack == ASSUME TrustInv, PutBack PROVE TrustInv'
<1>1. /\ saved # <<>> /\ saved' = <<>> /\ UNCHANGED <<bytes, listed, age, deployed, faults, toolVars>>
      /\ saved \in Attestations /\ sums \in Attestations
  BY DEF PutBack, TrustInv, TrustTypes
<1>2. /\ UNCHANGED <<audit, approved, gate, closer, refusals, taken, opened, cmd, previewed, granted>>
  BY <1>1 DEF toolVars, gateVars, commandVars
<1>3. PICK T : T = sums'
  OBVIOUS
<1>4. \A q \in Plugins : /\ Stands(sums, q) /\ Sealed(sums, q) /\ Logged(sums, q)
                         /\ Stands(saved, q) /\ Sealed(saved, q) /\ Logged(saved, q)
  BY <1>1 DEF TrustInv, SetsInv, Sound
<1>5. T \in Attestations /\ Sound(T)
  <2>1. CASE sums' = saved
    BY <1>1, <1>3, <2>1, <1>4 DEF Sound
  <2>2. CASE \E p \in Plugins : sums' = [sums EXCEPT ![p].window = saved[p].window, ![p].seal = saved[p].seal]
    <3>1. PICK p \in Plugins : T = [sums EXCEPT ![p].window = saved[p].window, ![p].seal = saved[p].seal]
      BY <1>3, <2>2
    <3>2. PICK r : r = [sums[p] EXCEPT !.window = saved[p].window, !.seal = saved[p].seal]
      OBVIOUS
    <3>3. sums[p] \in TrustRecords /\ saved[p] \in TrustRecords
      BY <1>1 DEF Attestations
    <3>4. r \in TrustRecords /\ r.hash = sums[p].hash /\ r.window = saved[p].window /\ r.seal = saved[p].seal
      BY <3>2, <3>3 DEF TrustRecords
    <3>5. T = [sums EXCEPT ![p] = r]
      BY <1>1, <3>1, <3>2 DEF Attestations
    <3>6. T \in Attestations /\ \A q \in Plugins : T[q] = IF q = p THEN r ELSE sums[q]
      BY <1>1, <3>4, <3>5 DEF Attestations
    <3>7. ASSUME NEW q \in Plugins PROVE Stands(T, q) /\ Sealed(T, q) /\ Logged(T, q)
      BY <1>4, <3>4, <3>6 DEF Stands, Sealed, Logged
    <3> QED BY <3>6, <3>7 DEF Sound
  <2> QED BY <2>1, <2>2 DEF PutBack
<1>6. TrustTypes'
  BY <1>1, <1>2, <1>3, <1>5 DEF TrustInv, TrustTypes
<1>7. PlacesInv'
  BY <1>2 DEF TrustInv, PlacesInv
<1>8. TrustGrows /\ LogInv'
  BY <1>2, LogSame DEF Settled
<1>9. Sound(T)'
  BY <1>5, <1>6, <1>8, SoundLasts DEF TrustInv
<1>10. Sound(sums)'
  BY <1>3, <1>9 DEF Sound, Stands, Sealed, Logged
<1> QED BY <1>1, <1>2, <1>6, <1>7, <1>8, <1>10, TrustFrame

-----------------------------------------------------------------------------
\* The invariant.

\* Every step keeps it.
LEMMA TrustStep == ASSUME TrustInv, TrustNext PROVE TrustInv'
BY TrustConfigLock, TrustPreview, TrustLockAll, TrustLockOne, TrustOpen, TrustClose, TrustSpawn, TrustWorld,
   TrustRow, TrustWrite, TrustReport, TrustDies, TrustSweep, TrustAdmit, TrustReads, TrustPends, TrustCommits,
   TrustReports, TrustGate, TrustPutBack DEF TrustNext, Closes

\* Every first state has it.
LEMMA TrustBegins == ASSUME TrustInit PROVE TrustInv
<1>1. PICK w \in Worlds : /\ listed = w.plugins /\ faults = w.faults /\ gate = [up |-> TRUE, checks |-> w.checks]
                          /\ sums = [p \in Plugins |-> IF p \in w.plugins THEN ComputePluginFingerprint(1) ELSE Unlocked]
  BY DEF TrustInit
<1>2. w.plugins \subseteq Plugins /\ w.faults \in 0..MaxFaults /\ w.checks \in BOOLEAN
  BY TrustAssumption
<1>3. \A p \in Plugins : sums[p] = ComputePluginFingerprint(1) \/ sums[p] = Unlocked
  BY <1>1
<1>4. sums \in Attestations
  BY <1>1, FreshRecords, TrustNumbers DEF Attestations
<1>5. audit \in [Windows -> Seq(AuditRows)]
  BY DEF TrustInit
<1>6. granted \in [Windows -> [plugin : Nat, hash : Versions]]
  BY TrustNumbers DEF TrustInit
<1>7. TrustTypes
  <2>1. 0 \in 0..MaxWindows
    BY TrustNumbers
  <2> QED BY <1>1, <1>2, <1>4, <1>5, <1>6, <2>1, RestTypes, TrustNumbers DEF TrustInit, TrustTypes
<1>8. PlacesInv
  BY RestTypes DEF TrustInit, PlacesInv
<1>9. \A id \in Windows, o \in AuditRows : ~Has(id, o)
  BY DEF TrustInit, Has
<1>10. LogInv
  BY <1>9, RestTypes DEF TrustInit, LogInv, AuditRows
<1>11. Sound(sums)
  <2>1. ASSUME NEW p \in Plugins PROVE Stands(sums, p) /\ Sealed(sums, p) /\ Logged(sums, p)
    <3>1. sums[p].window = 0 /\ sums[p].hash \in {0, 1} /\ opened = 0 /\ approved[p] = {1}
      BY <1>3, FreshRecords, TrustNumbers DEF TrustInit
    <3> QED BY <3>1 DEF Stands, Sealed, Logged
  <2> QED BY <2>1 DEF Sound
<1>12. CmdSets
  <2>1. cmd.set = [p \in Plugins |-> Unlocked]
    BY RestTypes DEF TrustInit
  <2> QED BY <1>7, <2>1, EmptySound DEF Sound, CmdSets
<1>13. SetsInv
  BY <1>11, <1>12, RestTypes DEF SetsInv, CloserSets, TrustInit
<1> QED BY <1>7, <1>8, <1>10, <1>13 DEF TrustInv

\* TrustInv: in every state of the attestations' life, with any number of plugins, windows,
\* deployments and faults, .checksums, the copy kept outside and every file that a command or
\* the closer is about to rename over it hold only versions that an operator let stand, and only
\* windows that the log shows opened for the version they are sealed over.
THEOREM TrustInvariance == TrustSpec => []TrustInv
<1>1. TrustInv /\ UNCHANGED trustVars => TrustInv'
  <2> SUFFICES ASSUME TrustInv, UNCHANGED trustVars PROVE TrustInv'
    OBVIOUS
  <2>1. TrustTypes'
    BY DEF TrustInv, TrustTypes, trustVars
  <2>2. PlacesInv'
    BY DEF TrustInv, PlacesInv, trustVars
  <2>3. TrustGrows /\ LogInv'
    BY LogSame DEF Settled, trustVars
  <2> QED BY <2>1, <2>2, <2>3, TrustFrame DEF trustVars
<1> QED BY <1>1, TrustBegins, TrustStep, PTL DEF TrustSpec

\* OperatorVouched: no interleaving of commands, sweeps, crashes, failed writes and restored
\* files attests a version that no operator let stand, or gives a plugin its secrets on bytes
\* that were neither let stand nor covered by an open window granted for this attestation.
THEOREM OperatorVouches == TrustSpec => []OperatorVouched
<1>1. TrustInv => OperatorVouched
  <2> SUFFICES ASSUME TrustInv PROVE OperatorVouched
    OBVIOUS
  <2>1. \A p \in Plugins : Stands(sums, p) /\ Sealed(sums, p)
    BY DEF TrustInv, SetsInv, Sound
  <2>2. NoLaundering
    BY <2>1 DEF NoLaundering, Stands
  <2>3. ASSUME NEW p \in Plugins, VerifyIdentity(p)
        PROVE  \/ bytes[p] \in approved[p]
               \/ \E id \in Windows : /\ sums[p].window = id /\ age[id] = "open"
                                      /\ granted[id] = [plugin |-> p, hash |-> sums[p].hash]
    <3>1. CASE sums[p].hash = bytes[p]
      BY <2>1, <2>3, <3>1 DEF VerifyIdentity, Stands
    <3>2. CASE Tolerated(p)
      <4>1. sums[p].window # 0 /\ sums[p].seal = sums[p].hash /\ age[sums[p].window] = "open"
        BY <3>2 DEF Tolerated, Verify, Expired
      <4>2. sums[p].window \in Windows
        BY <4>1, TrustNumbers DEF TrustInv, TrustTypes, Attestations, TrustRecords
      <4> QED BY <2>1, <4>1, <4>2 DEF Sealed
    <3> QED BY <2>3, <3>1, <3>2 DEF VerifyIdentity
  <2> QED BY <2>2, <2>3 DEF OperatorVouched, SpawnsTrusted
<1> QED BY <1>1, TrustInvariance, PTL

-----------------------------------------------------------------------------
\* One commit per window, with at most one fault.

\* The closer is at one of the places with the window.
WorksOn(id, places) == closer.at \in places /\ ItsWindow = id

\* The log will keep the closer from a window it committed: it shows the commit, or the
\* closer is about to report it, or the one fault was spent on not reporting it, and no
\* command is left to take the pending row back.
Spent(id) == \/ Has(id, "ok")
             \/ WorksOn(id, {"ok"})
             \/ faults >= 1 /\ cmd.at # "error" /\ Consumed(id)

\* OnceInv: what a window the closer committed, or works on, owes to the log.
OnceInv ==
  /\ cmd.at = "error" => faults >= 1
  /\ \A id \in Windows :
       /\ taken[id] <= 1
       /\ taken[id] # 0 => Spent(id)
       /\ WorksOn(id, {"read", "pending", "write", "error"}) => taken[id] = 0
       /\ WorksOn(id, {"write", "ok"}) => faults >= 1 \/ Consumed(id)

\* The fault.
LEMMA OneFault ==
  ASSUME TrustTypes, MaxFaults <= 1, Faulty PROVE faults = 0 /\ faults' = 1
BY TrustNumbers DEF TrustTypes, Faulty

\* The closer stays where it is.
LEMMA CloserStays ==
  ASSUME closer' = closer PROVE \A id, places : WorksOn(id, places)' <=> WorksOn(id, places)
<1>1. ItsWindow' = ItsWindow
  BY DEF ItsWindow, InHand
<1> QED BY <1>1 DEF WorksOn

\* The same log.
LEMMA SameLog ==
  ASSUME audit' = audit
  PROVE  \A id, o : (Has(id, o)' <=> Has(id, o)) /\ (Consumed(id)' <=> Consumed(id))
BY DEF Has, Consumed, Decisive

\* Nothing of the closer and of the log moves, and no command turns to report a failure but
\* by the fault.
LEMMA OnceRests ==
  ASSUME OnceInv, closer' = closer, taken' = taken, audit' = audit,
         faults' = faults \/ (faults = 0 /\ faults' = 1),
         cmd'.at = "error" => cmd.at = "error" \/ (faults = 0 /\ faults' = 1)
  PROVE  OnceInv'
<1>1. \A id, places : WorksOn(id, places)' <=> WorksOn(id, places)
  BY CloserStays
<1>2. \A id, o : (Has(id, o)' <=> Has(id, o)) /\ (Consumed(id)' <=> Consumed(id))
  BY SameLog
<1>3. faults >= 1 => faults' >= 1 /\ ~(faults = 0)
  OBVIOUS
<1> QED BY <1>1, <1>2, <1>3 DEF OnceInv, Spent

\* A row of someone else's: an error is reported by the command that met it.
LEMMA OnceRow ==
  ASSUME TrustTypes, OnceInv, closer' = closer, taken' = taken, faults' = faults,
         NEW id \in Windows, NEW o \in AuditRows, audit' = [audit EXCEPT ![id] = Append(@, o)],
         o = "error" => cmd.at = "error",
         (cmd' = cmd /\ o # "error") \/ cmd'.at # "error"
  PROVE  OnceInv'
<1>1. \A w, places : WorksOn(w, places)' <=> WorksOn(w, places)
  BY CloserStays
<1>2. \A w \in Windows : Has(w, "ok") => Has(w, "ok")'
  BY AuditRow DEF AuditRows
<1>3. \A w \in Windows : Consumed(w) /\ (w # id \/ o # "error") => Consumed(w)'
  BY AuditRow
<1> QED BY <1>1, <1>2, <1>3 DEF OnceInv, Spent

\* The closer leaves the window in hand, and its report lands unless the fault keeps it.
LEMMA OnceLeaves ==
  ASSUME OnceInv, cmd' = cmd, taken' = taken, closer'.at \in {"none", "admit"},
         faults' = faults \/ (faults = 0 /\ faults' = 1),
         \A w \in Windows : Has(w, "ok") => Has(w, "ok")',
         \A w \in Windows : Consumed(w) /\ taken[w] # 0 => Consumed(w)',
         \A w \in Windows : WorksOn(w, {"ok"}) => Has(w, "ok")' \/ (faults = 0 /\ faults' = 1)
  PROVE  OnceInv'
<1>1. \A w \in Windows : /\ ~WorksOn(w, {"read", "pending", "write", "error"})'
                         /\ ~WorksOn(w, {"write", "ok"})' /\ ~WorksOn(w, {"ok"})'
  BY DEF WorksOn
<1>2. \A w \in Windows : taken[w] # 0 => Spent(w)'
  <2> SUFFICES ASSUME NEW w \in Windows, taken[w] # 0 PROVE Spent(w)'
    OBVIOUS
  <2>1. CASE Has(w, "ok")
    BY <2>1 DEF Spent
  <2>2. CASE WorksOn(w, {"ok"}) /\ ~Has(w, "ok")'
    <3>1. faults = 0 /\ faults' = 1
      BY <2>2
    <3>2. Consumed(w) /\ cmd.at # "error"
      BY <2>2, <3>1 DEF OnceInv, WorksOn
    <3> QED BY <3>1, <3>2 DEF Spent
  <2>3. CASE faults >= 1 /\ cmd.at # "error" /\ Consumed(w)
    BY <2>3 DEF Spent
  <2> QED BY <2>1, <2>2, <2>3 DEF OnceInv, Spent
<1> QED BY <1>1, <1>2 DEF OnceInv

\* A command's step.
LEMMA OnceCommands ==
  ASSUME MaxFaults <= 1, TrustInv, OnceInv,
         \/ runConfigHashUpdate \/ LockAllPreviews \/ LockAllCommits
         \/ \E p \in Plugins : runPluginLockOne(p) \/ runPluginClearpassOpen(p) \/ runPluginClearpassClose(p)
         \/ WritePluginFingerprints \/ CommandDies
  PROVE  OnceInv'
<1>1. closer' = closer /\ taken' = taken /\ audit' = audit
  BY DEF runConfigHashUpdate, LockAllPreviews, LockAllCommits, runPluginLockOne, runPluginClearpassOpen,
         runPluginClearpassClose, WritePluginFingerprints, CommandDies, gateVars
<1>2. faults' = faults \/ (faults = 0 /\ faults' = 1)
  <2>1. faults' = faults \/ Faulty
    BY DEF runConfigHashUpdate, LockAllPreviews, LockAllCommits, runPluginLockOne, runPluginClearpassOpen,
           runPluginClearpassClose, WritePluginFingerprints, CommandDies
  <2> QED BY <2>1, OneFault DEF TrustInv
<1>3. cmd'.at = "error" => cmd.at = "error" \/ (faults = 0 /\ faults' = 1)
  <2>1. CASE WritePluginFingerprints
    <3>1. Faulty \/ cmd' = NoCmd \/ cmd' = [cmd EXCEPT !.at = "ok"]
      BY <2>1 DEF WritePluginFingerprints
    <3>2. cmd' = [cmd EXCEPT !.at = "ok"] => cmd'.at = "ok"
      BY DEF TrustInv, TrustTypes, Commands
    <3> QED BY <3>1, <3>2, OneFault, RestTypes DEF TrustInv
  <2>2. CASE ~WritePluginFingerprints
    <3>1. cmd' = cmd \/ cmd'.at \in {"none", "row", "write"}
      BY <2>2, RestTypes DEF runConfigHashUpdate, LockAllPreviews, LockAllCommits, runPluginLockOne,
             runPluginClearpassOpen, runPluginClearpassClose, CommandDies, Command
    <3> QED BY <3>1
  <2> QED BY <2>1, <2>2
<1> QED BY <1>1, <1>2, <1>3, OnceRests

\* A command's row, or a spawn's.
LEMMA OnceRows ==
  ASSUME MaxFaults <= 1, TrustInv, OnceInv,
         appendClearpassAudit \/ CommandReports \/ \E p \in Plugins : reportSpawn(p)
  PROVE  OnceInv'
<1>1. closer' = closer /\ taken' = taken
  BY DEF appendClearpassAudit, CommandReports, reportSpawn, gateVars
<1>2. CASE RowLost /\ cmd' = NoCmd
  <2>1. faults = 0 /\ faults' = 1 /\ audit' = audit
    BY <1>2, OneFault DEF RowLost, TrustInv
  <2> QED BY <1>1, <1>2, <2>1, OnceRests, RestTypes
<1>3. CASE \E p \in Plugins : reportSpawn(p)
  <2>1. PICK p \in Plugins : reportSpawn(p)
    BY <1>3
  <2>2. PICK id : id = sums[p].window
    OBVIOUS
  <2>3. id \in Windows
    BY <2>1, <2>2, TrustNumbers DEF reportSpawn, Tolerated, Verify, TrustInv, TrustTypes, Attestations, TrustRecords
  <2>4. audit' = [audit EXCEPT ![id] = Append(@, "spawn")] /\ faults' = faults /\ cmd' = cmd
    BY <2>1, <2>2 DEF reportSpawn, Row, commandVars
  <2> QED BY <1>1, <2>3, <2>4, OnceRow DEF TrustInv, AuditRows
<1>4. CASE appendClearpassAudit /\ cmd' = [cmd EXCEPT !.at = "write"]
           /\ \E o \in {"open", "superseded", "pending"} : Row(cmd.window, o)
  <2>1. PICK id \in Windows : id = cmd.window
    BY <1>4, CommandWindow DEF appendClearpassAudit
  <2>2. PICK o \in {"open", "superseded", "pending"} : audit' = [audit EXCEPT ![id] = Append(@, o)] /\ faults' = faults
    BY <1>4, <2>1 DEF Row
  <2>3. cmd'.at # "error" /\ o \in AuditRows /\ o # "error"
    BY <1>4 DEF TrustInv, TrustTypes, Commands, AuditRows
  <2> QED BY <1>1, <2>2, <2>3, OnceRow DEF TrustInv
<1>5. CASE CommandReports /\ Row(cmd.window, cmd.at)
  <2>1. PICK id \in Windows, o \in {"ok", "error"} : id = cmd.window /\ o = cmd.at
    BY <1>5, CommandWindow DEF CommandReports
  <2>2. audit' = [audit EXCEPT ![id] = Append(@, o)] /\ faults' = faults /\ cmd'.at # "error" /\ o \in AuditRows
    BY <1>5, <2>1, RestTypes DEF Row, CommandReports, AuditRows
  <2> QED BY <1>1, <2>1, <2>2, OnceRow DEF TrustInv
<1> QED BY <1>2, <1>3, <1>4, <1>5 DEF appendClearpassAudit, CommandReports

\* The closer is about to leave a window unreported only by the fault.
LEMMA OnceQuits ==
  ASSUME TrustInv, OnceInv, cmd' = cmd, taken' = taken, audit' = audit, closer'.at \in {"none", "admit"},
         (faults' = faults /\ closer.at # "ok") \/ (faults = 0 /\ faults' = 1)
  PROVE  OnceInv'
<1>1. \A id, o : (Has(id, o)' <=> Has(id, o)) /\ (Consumed(id)' <=> Consumed(id))
  BY SameLog
<1>2. \A w \in Windows : WorksOn(w, {"ok"}) => (faults = 0 /\ faults' = 1)
  BY DEF WorksOn
<1> QED BY <1>1, <1>2, OnceLeaves

\* It leaves a window with a row, of an error only when it did not commit.
LEMMA OnceLeavesRow ==
  ASSUME TrustInv, OnceInv, cmd' = cmd, taken' = taken, closer'.at \in {"none", "admit"},
         faults' = faults \/ (faults = 0 /\ faults' = 1),
         NEW id \in Windows, NEW o \in AuditRows, audit' = [audit EXCEPT ![id] = Append(@, o)],
         o = "error" => taken[id] = 0,
         \A w \in Windows : WorksOn(w, {"ok"}) => w = id /\ o = "ok"
  PROVE  OnceInv'
<1>1. \A w \in Windows : Has(w, "ok")' <=> Has(w, "ok") \/ (w = id /\ "ok" = o)
  BY AuditRow DEF TrustInv, AuditRows
<1>2. \A w \in Windows : Consumed(w) /\ (w # id \/ o # "error") => Consumed(w)'
  BY AuditRow DEF TrustInv
<1> QED BY <1>1, <1>2, OnceLeaves

\* The next plugin, or none.
LEMMA NextPlace ==
  ASSUME TrustInv, closer.at # "none", closer' = NextDue PROVE closer'.at \in {"none", "admit"}
BY NextDueType, RestTypes DEF TrustInv

\* A refusal.
LEMMA OnceRefused ==
  ASSUME TrustInv, OnceInv, cmd' = cmd, taken' = taken, closer.at \in {"admit", "read"}, closer' = NextDue,
         faults' = faults \/ (faults = 0 /\ faults' = 1),
         NEW kind \in {"not-committable", "unwritable"}, auditRefusalOnce(kind)
  PROVE  OnceInv'
<1>1. PICK id \in Windows : id = ItsWindow
  BY ItsWindowType DEF TrustInv
<1>2. closer'.at \in {"none", "admit"} /\ \A w \in Windows : ~WorksOn(w, {"ok"})
  BY NextPlace DEF WorksOn
<1>3. CASE audit' = audit
  BY <1>2, <1>3, OnceQuits
<1>4. CASE audit' = [audit EXCEPT ![id] = Append(@, "refused")]
  BY <1>2, <1>4, OnceLeavesRow DEF AuditRows
<1> QED BY <1>1, <1>3, <1>4 DEF auditRefusalOnce

\* The closer goes on with the window in hand, the log as it was.
LEMMA OnceGoesOn ==
  ASSUME TrustInv, OnceInv, cmd' = cmd, taken' = taken, audit' = audit, faults' = faults,
         closer.at \in {"admit", "read"}, closer' \in Sweeps, closer'.at \in {"read", "pending"},
         closer'.todo = closer.todo, closer'.snap = closer.snap,
         taken[ItsWindow] = 0
  PROVE  OnceInv'
<1>1. ItsWindow' = ItsWindow
  BY CloserGoesOn
<1>2. \A id, o : (Has(id, o)' <=> Has(id, o)) /\ (Consumed(id)' <=> Consumed(id))
  BY SameLog
<1>3. \A w \in Windows : /\ ~WorksOn(w, {"ok"}) /\ ~WorksOn(w, {"ok"})' /\ ~WorksOn(w, {"write", "ok"})'
                         /\ WorksOn(w, {"read", "pending", "write", "error"})' => taken[w] = 0
  BY <1>1 DEF WorksOn
<1> QED BY <1>2, <1>3 DEF OnceInv, Spent

\* A window is admitted: had the closer committed it, the log would show it consumed.
LEMMA OnceAdmit == ASSUME TrustInv, OnceInv, closeOne PROVE OnceInv'
<1>1. closer.at = "admit" /\ cmd' = cmd /\ taken' = taken /\ faults' = faults
  BY DEF closeOne, commandVars
<1>2. CASE admit(ItsWindow) /\ closer' = [closer EXCEPT !.at = "read"] /\ UNCHANGED <<refusals, audit>>
  <2>1. PICK id \in Windows : id = ItsWindow
    BY <1>1, ItsWindowType DEF TrustInv
  <2>2. ~Consumed(id) /\ ~Has(id, "ok") /\ ~WorksOn(id, {"ok"})
    BY <1>1, <1>2, <2>1 DEF admit, Consumed, WorksOn
  <2>3. taken[ItsWindow] = 0
    BY <2>1, <2>2 DEF OnceInv, Spent
  <2>4. closer' \in Sweeps /\ closer'.at = "read" /\ closer'.todo = closer.todo /\ closer'.snap = closer.snap
    BY <1>2 DEF TrustInv, TrustTypes, Sweeps
  <2> QED BY <1>1, <1>2, <2>3, <2>4, OnceGoesOn
<1>3. CASE auditRefusalOnce("not-committable") /\ closer' = NextDue
  BY <1>1, <1>3, OnceRefused
<1> QED BY <1>2, <1>3 DEF closeOne

\* The directory is read.
LEMMA OnceReads == ASSUME MaxFaults <= 1, TrustInv, OnceInv, CloserReads PROVE OnceInv'
<1>1. closer.at = "read" /\ cmd' = cmd /\ taken' = taken
  BY DEF CloserReads, commandVars
<1>2. CASE /\ closer' = [closer EXCEPT !.at = "pending", !.set = MergePluginFingerprint(
                            sums, InHand, ComputePluginFingerprint(bytes[InHand]))]
           /\ UNCHANGED <<refusals, audit, faults>>
  <2>1. PICK p, T : p = InHand /\ T = MergePluginFingerprint(sums, p, ComputePluginFingerprint(bytes[p]))
    OBVIOUS
  <2>2. p \in Plugins /\ ItsWindow \in Windows
    BY <1>1, <2>1, ItsWindowType DEF TrustInv
  <2>3. T \in Attestations
    BY <2>1, <2>2, Merged DEF TrustInv, TrustTypes
  <2>4. closer' \in Sweeps /\ closer'.at = "pending" /\ closer'.todo = closer.todo /\ closer'.snap = closer.snap
    BY <1>2, <2>1, <2>3 DEF TrustInv, TrustTypes, Sweeps
  <2>5. taken[ItsWindow] = 0
    BY <1>1, <2>2 DEF OnceInv, WorksOn
  <2> QED BY <1>1, <1>2, <2>4, <2>5, OnceGoesOn
<1>3. CASE Faulty /\ auditRefusalOnce("unwritable") /\ closer' = NextDue
  <2>1. faults = 0 /\ faults' = 1
    BY <1>3, OneFault DEF TrustInv
  <2> QED BY <1>1, <1>3, <2>1, OnceRefused
<1> QED BY <1>2, <1>3 DEF CloserReads

\* The pending row consumes the window before the file is written.
LEMMA OncePends == ASSUME MaxFaults <= 1, TrustInv, OnceInv, CloserPends PROVE OnceInv'
<1>1. closer.at = "pending" /\ cmd' = cmd /\ taken' = taken
  BY DEF CloserPends, commandVars
<1>2. CASE Row(ItsWindow, "pending") /\ closer' = [closer EXCEPT !.at = "write"]
  <2>1. PICK id \in Windows : id = ItsWindow
    BY <1>1, ItsWindowType DEF TrustInv
  <2>2. audit' = [audit EXCEPT ![id] = Append(@, "pending")] /\ faults' = faults /\ "pending" \in AuditRows
    BY <1>2, <2>1 DEF Row, AuditRows
  <2>3. closer' \in Sweeps /\ closer'.at = "write" /\ closer'.todo = closer.todo /\ closer'.snap = closer.snap
    BY <1>2 DEF TrustInv, TrustTypes, Sweeps
  <2>4. ItsWindow' = id
    BY <1>1, <2>1, <2>3, CloserGoesOn
  <2>5. /\ Consumed(id)' /\ \A w \in Windows : Has(w, "ok") => Has(w, "ok")'
        /\ \A w \in Windows : Consumed(w) => Consumed(w)'
    BY <2>2, AuditRow DEF TrustInv, AuditRows
  <2>6. taken[id] = 0
    BY <1>1, <2>1 DEF OnceInv, WorksOn
  <2>7. \A w \in Windows : /\ ~WorksOn(w, {"ok"}) /\ ~WorksOn(w, {"ok"})'
                           /\ WorksOn(w, {"read", "pending", "write", "error"})' => w = id
                           /\ WorksOn(w, {"write", "ok"})' => w = id
    BY <1>1, <2>3, <2>4 DEF WorksOn
  <2> QED BY <1>1, <2>2, <2>5, <2>6, <2>7 DEF OnceInv, Spent
<1>3. CASE RowLost /\ closer' = NextDue
  <2>1. faults = 0 /\ faults' = 1 /\ audit' = audit /\ closer'.at \in {"none", "admit"}
    BY <1>1, <1>3, OneFault, NextPlace DEF RowLost, TrustInv
  <2> QED BY <1>1, <2>1, OnceQuits
<1> QED BY <1>2, <1>3 DEF CloserPends

\* The commit is the window's first.
LEMMA OnceCommits == ASSUME MaxFaults <= 1, TrustInv, OnceInv, CloserWrites PROVE OnceInv'
<1>1. closer.at = "write" /\ cmd' = cmd /\ audit' = audit
  BY DEF CloserWrites, commandVars
<1>2. PICK id \in Windows : id = ItsWindow
  BY <1>1, ItsWindowType DEF TrustInv
<1>3. \A w, o : (Has(w, o)' <=> Has(w, o)) /\ (Consumed(w)' <=> Consumed(w))
  BY <1>1, SameLog
<1>4. taken[id] = 0 /\ (faults >= 1 \/ Consumed(id)) /\ taken \in [Windows -> Nat]
  BY <1>1, <1>2 DEF OnceInv, WorksOn, TrustInv, TrustTypes
<1>5. \A w \in Windows : ~WorksOn(w, {"ok"})
  BY <1>1 DEF WorksOn
<1>6. CASE /\ closer' = [closer EXCEPT !.at = "ok"] /\ taken' = [taken EXCEPT ![ItsWindow] = @ + 1] /\ UNCHANGED faults
  <2>1. closer' \in Sweeps /\ closer'.at = "ok" /\ closer'.todo = closer.todo /\ closer'.snap = closer.snap
    BY <1>6 DEF TrustInv, TrustTypes, Sweeps
  <2>2. ItsWindow' = id
    BY <1>1, <1>2, <2>1, CloserGoesOn
  <2>3. taken'[id] = 1 /\ \A w \in Windows : w # id => taken'[w] = taken[w]
    BY <1>2, <1>4, <1>6
  <2>4. \A w \in Windows : /\ WorksOn(w, {"ok"})' <=> w = id
                           /\ WorksOn(w, {"write", "ok"})' <=> w = id
                           /\ ~WorksOn(w, {"read", "pending", "write", "error"})'
    BY <2>1, <2>2 DEF WorksOn
  <2> QED BY <1>1, <1>3, <1>4, <1>5, <1>6, <2>3, <2>4 DEF OnceInv, Spent
<1>7. CASE /\ Faulty /\ closer' = [closer EXCEPT !.at = "error"] /\ UNCHANGED taken
  <2>1. closer' \in Sweeps /\ closer'.at = "error" /\ closer'.todo = closer.todo /\ closer'.snap = closer.snap
    BY <1>7 DEF TrustInv, TrustTypes, Sweeps
  <2>2. ItsWindow' = id /\ faults = 0 /\ faults' = 1
    BY <1>1, <1>2, <1>7, <2>1, CloserGoesOn, OneFault DEF TrustInv
  <2>3. \A w \in Windows : /\ ~WorksOn(w, {"ok"})' /\ ~WorksOn(w, {"write", "ok"})'
                           /\ WorksOn(w, {"read", "pending", "write", "error"})' => w = id
    BY <2>1, <2>2 DEF WorksOn
  <2> QED BY <1>1, <1>3, <1>4, <1>5, <1>7, <2>2, <2>3 DEF OnceInv, Spent
<1> QED BY <1>6, <1>7 DEF CloserWrites

\* The commit is reported, or the fault is spent on losing the report.
LEMMA OnceReports == ASSUME MaxFaults <= 1, TrustInv, OnceInv, CloserReports PROVE OnceInv'
<1>1. closer.at \in {"ok", "error"} /\ closer' = NextDue /\ cmd' = cmd /\ taken' = taken
  BY DEF CloserReports, commandVars
<1>2. closer'.at \in {"none", "admit"}
  BY <1>1, NextPlace
<1>3. CASE Row(ItsWindow, closer.at)
  <2>1. PICK id \in Windows, o \in {"ok", "error"} : id = ItsWindow /\ o = closer.at
    BY <1>1, ItsWindowType DEF TrustInv
  <2>2. audit' = [audit EXCEPT ![id] = Append(@, o)] /\ faults' = faults /\ o \in AuditRows
    BY <1>3, <2>1 DEF Row, AuditRows
  <2>3. (o = "error" => taken[id] = 0) /\ \A w \in Windows : WorksOn(w, {"ok"}) => w = id /\ o = "ok"
    BY <2>1 DEF OnceInv, WorksOn
  <2> QED BY <1>1, <1>2, <2>2, <2>3, OnceLeavesRow
<1>4. CASE RowLost
  <2>1. faults = 0 /\ faults' = 1 /\ audit' = audit
    BY <1>4, OneFault DEF RowLost, TrustInv
  <2> QED BY <1>1, <1>2, <2>1, OnceQuits
<1> QED BY <1>3, <1>4 DEF CloserReports

\* A sweep begins, the gateway stops, boots or reloads.
LEMMA OnceGate ==
  ASSUME MaxFaults <= 1, TrustInv, OnceInv, sweep \/ GateStops \/ GateBoots \/ GateReloads PROVE OnceInv'
<1>1. cmd' = cmd /\ taken' = taken /\ audit' = audit
  BY DEF sweep, GateStops, GateBoots, GateReloads, commandVars
<1>2. CASE sweep
  <2>1. PICK due : closer' = [Asleep EXCEPT !.at = "admit", !.todo = due, !.snap = sums]
    BY <1>2 DEF sweep
  <2>2. closer'.at = "admit" /\ closer.at = "none" /\ faults' = faults
    BY <1>2, <2>1, RestTypes DEF sweep, Sweeps
  <2> QED BY <1>1, <2>2, OnceQuits
<1>3. CASE GateStops
  <2>1. closer'.at = "none"
    BY <1>3, RestTypes DEF GateStops
  <2>2. (faults' = faults /\ closer.at # "ok") \/ (faults = 0 /\ faults' = 1)
    BY <1>3, RestTypes, OneFault DEF GateStops, TrustInv
  <2> QED BY <1>1, <2>1, <2>2, OnceQuits
<1>4. CASE GateBoots \/ GateReloads
  BY <1>1, <1>4, OnceRests DEF GateBoots, GateReloads
<1> QED BY <1>2, <1>3, <1>4

\* The world writes no row.
LEMMA OnceWorld ==
  ASSUME MaxFaults <= 1, TrustInv, OnceInv,
         \/ \E p \in Plugins : Deploy(p) \/ EditConfig(p)
         \/ \E id \in Windows : Deadline(id)
         \/ BackUp \/ PutBack
  PROVE  OnceInv'
<1>1. closer' = closer /\ taken' = taken /\ audit' = audit /\ cmd' = cmd
  BY DEF Deploy, EditConfig, Deadline, BackUp, PutBack, toolVars, gateVars, commandVars
<1>2. faults' = faults \/ Faulty
  BY DEF Deploy, EditConfig, Deadline, BackUp, PutBack
<1> QED BY <1>1, <1>2, OneFault, OnceRests DEF TrustInv

\* OnceInv: with at most one crash, failed write, lost row or copy kept outside, no window
\* that the gateway has committed can be admitted again.  Two are enough to break it: a
\* locking command's write fails and its error row takes back the pending row of a commit
\* whose own report is lost.
THEOREM OnceInvariance == ASSUME MaxFaults <= 1 PROVE TrustSpec => []OnceInv
<1>1. TrustInit => OnceInv
  <2> SUFFICES ASSUME TrustInit PROVE OnceInv
    OBVIOUS
  <2>1. cmd.at = "none" /\ closer.at = "none" /\ \A id \in Windows : taken[id] = 0
    BY RestTypes DEF TrustInit
  <2> QED BY <2>1 DEF OnceInv, WorksOn
<1>2. TrustInv /\ OnceInv /\ [TrustNext]_trustVars => OnceInv'
  <2> SUFFICES ASSUME TrustInv, OnceInv, [TrustNext]_trustVars PROVE OnceInv'
    OBVIOUS
  <2>1. CASE UNCHANGED trustVars
    BY <2>1, OnceRests DEF trustVars
  <2>2. CASE TrustNext
    BY <2>2, OnceCommands, OnceRows, OnceGate, OnceAdmit, OnceReads, OncePends, OnceCommits, OnceReports,
       OnceWorld DEF TrustNext, Closes
  <2> QED BY <2>1, <2>2
<1> QED BY <1>1, <1>2, TrustInvariance, PTL DEF TrustSpec

\* At most one row of the log opens a window.
LEMMA OpenedOnce ==
  ASSUME TrustInv, NEW id \in Windows
  PROVE  Cardinality({i \in DOMAIN audit[id] : audit[id][i] = "open"}) <= 1
<1>1. PICK S : S = {i \in DOMAIN audit[id] : audit[id][i] = "open"}
  OBVIOUS
<1>2. CASE S = {}
  BY <1>1, <1>2, FS_EmptySet
<1>3. CASE S # {}
  <2>1. PICK i : i \in S
    BY <1>3
  <2>2. S = {i}
    BY <1>1, <2>1 DEF TrustInv, LogInv
  <2>3. Cardinality(S) = 1
    BY <2>2, FS_Singleton
  <2> QED BY <1>1, <2>3
<1> QED BY <1>2, <1>3

\* Types, and the row of every window that .checksums shows, for any number of faults.
LEMMA TrustInvRecords == ASSUME TrustInv PROVE TrustTypeOK /\ WindowsAreRecorded
<1>1. TrustTypeOK
  <2>1. cmd.at \in {"row", "ok", "error"} => cmd.window \in Windows
    BY CommandWindow
  <2> QED BY <2>1, OpenedOnce DEF TrustInv, TrustTypes, PlacesInv, TrustTypeOK, Attestations, TrustRecords
<1>2. WindowsAreRecorded
  BY DEF TrustInv, SetsInv, Sound, Logged, WindowsAreRecorded, Verify
<1> QED BY <1>1, <1>2

\* With any number of faults, the closer can tell every sealed window in .checksums from a
\* forged one, since its open row went first, and no window is opened twice in the log.
THEOREM WindowsRecorded == TrustSpec => [](TrustTypeOK /\ WindowsAreRecorded)
BY TrustInvariance, TrustInvRecords, PTL

\* WindowsAccounted: with at most one fault, the gateway also turns a window into an
\* attestation at most once, whatever stale copies of .checksums bring back.
THEOREM WindowsAccount == ASSUME MaxFaults <= 1 PROVE TrustSpec => []WindowsAccounted
<1>1. OnceInv => GatewayCommitsOnce
  BY DEF OnceInv, GatewayCommitsOnce
<1>2. TrustInv /\ OnceInv => WindowsAccounted
  BY <1>1, TrustInvRecords DEF WindowsAccounted
<1> QED BY <1>2, TrustInvariance, OnceInvariance, PTL

-----------------------------------------------------------------------------
\* The scope lattice.

\* What a scope inherits directly.
Inherited(s) == {i[2] : i \in {j \in inherits : j[1] = s}}

Scopes == {"*", "plugin:rw", "plugin:ro", "plugin:invoke:ro", "plugin:catalog:ro",
           "jobs:rw", "jobs:ro", "jobs:status:ro", "jobs:result:ro", "jobs:logs:ro", "jobs:tree:ro",
           "events:rw", "events:ro", "events:meta:ro", "events:payload:ro", "system:rw", "system:ro"}
Leaves == {"plugin:invoke:ro", "plugin:catalog:ro", "jobs:status:ro", "jobs:result:ro", "jobs:logs:ro", "jobs:tree:ro",
           "events:meta:ro", "events:payload:ro", "system:ro"}

\* Every scope that the lattice or the table names.
LEMMA ScopesAre == knownScopes = Scopes
BY DEF knownScopes, Scopes, inherits, grants

\* No scope, route or capability is blank.
LEMMA NoTextIsNone ==
  /\ NoText \notin Scopes
  /\ NoText \notin {"catalog", "invoke", "pipeline", "topology", "status", "tree", "logs", "result", "reload", "config",
                   "doctor", "selfcheck", "stream"}
BY Zenon DEF NoText, Scopes

\* The lattice, scope by scope.
LEMMA InheritedAre ==
  \A s, t : t \in Inherited(s) <=>
        \/ s = "*" /\ t \in {"plugin:rw", "jobs:rw", "events:rw", "system:rw"}
        \/ s = "plugin:rw" /\ t \in {"plugin:ro", "plugin:invoke:ro"}
        \/ s = "plugin:ro" /\ t = "plugin:catalog:ro"
        \/ s = "jobs:rw" /\ t = "jobs:ro"
        \/ s = "jobs:ro" /\ t \in {"jobs:status:ro", "jobs:result:ro", "jobs:logs:ro", "jobs:tree:ro"}
        \/ s = "events:rw" /\ t = "events:ro"
        \/ s = "events:ro" /\ t \in {"events:meta:ro", "events:payload:ro"}
        \/ s = "system:rw" /\ t = "system:ro"
<1>1. \A s, t : t \in Inherited(s) <=> <<s, t>> \in inherits
  <2>1. \A i \in inherits : i = <<i[1], i[2]>>
    BY DEF inherits
  <2> QED BY <2>1 DEF Inherited
<1> QED BY <1>1 DEF inherits

\* What a scope reaches, inherited scopes written out.
Reaches(s) ==
  {u \in Scopes :
    \/ u = s \/ s = "*"
    \/ s = "plugin:rw" /\ u \in {"plugin:ro", "plugin:invoke:ro", "plugin:catalog:ro"}
    \/ s = "plugin:ro" /\ u = "plugin:catalog:ro"
    \/ s = "jobs:rw" /\ u \in {"jobs:ro", "jobs:status:ro", "jobs:result:ro", "jobs:logs:ro", "jobs:tree:ro"}
    \/ s = "jobs:ro" /\ u \in {"jobs:status:ro", "jobs:result:ro", "jobs:logs:ro", "jobs:tree:ro"}
    \/ s = "events:rw" /\ u \in {"events:ro", "events:meta:ro", "events:payload:ro"}
    \/ s = "events:ro" /\ u \in {"events:meta:ro", "events:payload:ro"}
    \/ s = "system:rw" /\ u = "system:ro"}

\* It is closed: a scope reaches itself and what the scopes it inherits reach.
LEMMA ReachesStep ==
  ASSUME NEW s \in Scopes
  PROVE  Reaches(s) = {s} \union UNION {Reaches(t) : t \in Inherited(s)}
<1>1. \A t \in Inherited(s) : t \in Scopes
  BY InheritedAre DEF Scopes
<1>2. \A u \in Scopes : u \in Reaches(s) <=> u = s \/ \E t \in Inherited(s) : u \in Reaches(t)
  <2>1. CASE s \in Leaves
    BY <2>1, InheritedAre DEF Reaches, Scopes, Leaves
  <2>2. CASE s \in {"plugin:ro", "jobs:ro", "events:ro", "system:rw", "jobs:rw", "events:rw"}
    BY <2>2, InheritedAre DEF Reaches, Scopes
  <2>3. CASE s = "plugin:rw"
    BY <2>3, InheritedAre DEF Reaches, Scopes
  <2>4. CASE s = "*"
    BY <2>4, InheritedAre DEF Reaches, Scopes
  <2> QED BY <2>1, <2>2, <2>3, <2>4 DEF Scopes, Leaves
<1>3. \A t \in Scopes : Reaches(t) \subseteq Scopes
  BY DEF Reaches
<1> QED BY <1>1, <1>2, <1>3

\* A scope covers itself and what the scopes it inherits cover.
LEMMA CoversStep ==
  ASSUME NEW s \in Scopes
  PROVE  Covers[s] = {s} \union UNION {Covers[t] : t \in Inherited(s)}
<1> DEFINE Once(f) == [q \in knownScopes |->
                         {q} \union UNION {f[t] : t \in {i[2] : i \in {j \in inherits : j[1] = q}}}]
<1>1. PICK T : T = [q \in knownScopes |-> Reaches(q)]
  OBVIOUS
<1>2. \A q \in knownScopes : T[q] = {q} \union UNION {T[t] : t \in {i[2] : i \in {j \in inherits : j[1] = q}}}
  <2> SUFFICES ASSUME NEW q \in knownScopes
               PROVE  T[q] = {q} \union UNION {T[t] : t \in Inherited(q)}
    BY DEF Inherited
  <2>1. \A t \in Inherited(q) : t \in knownScopes
    BY InheritedAre, ScopesAre DEF Scopes
  <2>2. q \in Scopes /\ T[q] = Reaches(q) /\ \A t \in Inherited(q) : T[t] = Reaches(t)
    BY <1>1, <2>1, ScopesAre
  <2>3. UNION {T[t] : t \in Inherited(q)} = UNION {Reaches(t) : t \in Inherited(q)}
    BY <2>2
  <2> QED BY <2>2, <2>3, ReachesStep
<1>3. T = Once(T)
  BY <1>1, <1>2
<1>4. Covers = CHOOSE f : f = Once(f)
  BY DEF Covers
<1>5. Covers = Once(Covers)
  <2> HIDE DEF Once
  <2> QED BY <1>3, <1>4
<1>6. Covers[s] = {s} \union UNION {Covers[t] : t \in {i[2] : i \in {j \in inherits : j[1] = s}}}
  <2>1. s \in knownScopes
    BY ScopesAre
  <2>2. Once(Covers)[s] = {s} \union UNION {Covers[t] : t \in {i[2] : i \in {j \in inherits : j[1] = s}}}
    BY <2>1
  <2> QED BY <1>5, <2>2
<1> QED BY <1>6 DEF Inherited

\* What a scope covers, when it is known what those it inherits cover.
LEMMA CoversNext ==
  ASSUME NEW s \in Scopes, \A t \in Inherited(s) : Covers[t] = Reaches(t)
  PROVE  Covers[s] = Reaches(s)
<1>1. UNION {Covers[t] : t \in Inherited(s)} = UNION {Reaches(t) : t \in Inherited(s)}
  OBVIOUS
<1> QED BY <1>1, CoversStep, ReachesStep

\* The recursion ends: a scope covers what it reaches.
LEMMA CoversAre == ASSUME NEW s \in Scopes PROVE Covers[s] = Reaches(s)
<1>1. \A t \in Leaves : Covers[t] = Reaches(t)
  <2> SUFFICES ASSUME NEW t \in Leaves PROVE Covers[t] = Reaches(t)
    OBVIOUS
  <2>1. t \in Scopes
    BY DEF Leaves, Scopes
  <2>2. \A u : u \notin Inherited(t)
    BY InheritedAre DEF Leaves
  <2> QED BY <2>1, <2>2, CoversNext
<1>2. \A t \in {"plugin:ro", "jobs:ro", "events:ro", "system:rw"} : Covers[t] = Reaches(t)
  <2> SUFFICES ASSUME NEW t \in {"plugin:ro", "jobs:ro", "events:ro", "system:rw"} PROVE Covers[t] = Reaches(t)
    OBVIOUS
  <2>1. t \in Scopes
    BY DEF Scopes
  <2>2. \A u \in Inherited(t) : u \in Leaves
    BY InheritedAre DEF Leaves
  <2> QED BY <1>1, <2>1, <2>2, CoversNext
<1>3. \A t \in {"plugin:rw", "jobs:rw", "events:rw"} : Covers[t] = Reaches(t)
  <2> SUFFICES ASSUME NEW t \in {"plugin:rw", "jobs:rw", "events:rw"} PROVE Covers[t] = Reaches(t)
    OBVIOUS
  <2>1. t \in Scopes
    BY DEF Scopes
  <2>2. \A u \in Inherited(t) : u \in Leaves \/ u \in {"plugin:ro", "jobs:ro", "events:ro", "system:rw"}
    BY InheritedAre DEF Leaves
  <2> QED BY <1>1, <1>2, <2>1, <2>2, CoversNext
<1>4. Covers["*"] = Reaches("*")
  <2>1. "*" \in Scopes
    BY DEF Scopes
  <2>2. \A u \in Inherited("*") : u \in {"plugin:ro", "jobs:ro", "events:ro", "system:rw"} \/ u \in {"plugin:rw", "jobs:rw", "events:rw"}
    BY InheritedAre
  <2>3. \A u \in Inherited("*") : Covers[u] = Reaches(u)
    BY <1>2, <1>3, <2>2
  <2> QED BY <2>1, <2>3, CoversNext
<1> QED BY <1>1, <1>2, <1>3, <1>4 DEF Scopes, Leaves

\* The capability table: the scopes that a capability takes.
Allows(s, a, c) == \E t \in Covers[s] : <<t, a, c>> \in grants
LEMMA AllowsAre ==
  ASSUME NEW s \in Scopes
  PROVE  /\ Allows(s, "read", "catalog") <=> s \in {"*", "plugin:rw", "plugin:ro", "plugin:catalog:ro"}
         /\ Allows(s, "read", "invoke") <=> s \in {"*", "plugin:rw", "plugin:invoke:ro"}
         /\ Allows(s, "write", "invoke") <=> s \in {"*", "plugin:rw"}
         /\ Allows(s, "write", "pipeline") <=> s \in {"*", "plugin:rw"}
         /\ \A c \in {"topology", "config", "doctor", "selfcheck"} :
              Allows(s, "read", c) <=> s \in {"*", "system:rw", "system:ro"}
         /\ Allows(s, "write", "reload") <=> s \in {"*", "system:rw"}
         /\ Allows(s, "read", "status") <=> s \in {"*", "jobs:rw", "jobs:ro", "jobs:status:ro"}
         /\ Allows(s, "read", "tree") <=> s \in {"*", "jobs:rw", "jobs:ro", "jobs:tree:ro"}
         /\ Allows(s, "read", "logs") <=> s \in {"*", "jobs:rw", "jobs:ro", "jobs:logs:ro"}
         /\ Allows(s, "read", "result") <=> s \in {"*", "jobs:rw", "jobs:ro", "jobs:result:ro"}
         /\ Allows(s, "read", "stream") <=> s \in {"*", "events:rw", "events:ro"}
<1>1. \A t : /\ <<t, "read", "catalog">> \in grants <=> t = "plugin:catalog:ro"
             /\ <<t, "read", "invoke">> \in grants <=> t = "plugin:invoke:ro"
             /\ <<t, "write", "invoke">> \in grants <=> t = "plugin:rw"
             /\ <<t, "write", "pipeline">> \in grants <=> t = "plugin:rw"
             /\ \A c \in {"topology", "config", "doctor", "selfcheck"} : <<t, "read", c>> \in grants <=> t = "system:ro"
             /\ <<t, "write", "reload">> \in grants <=> t = "system:rw"
             /\ <<t, "read", "status">> \in grants <=> t = "jobs:status:ro"
             /\ <<t, "read", "tree">> \in grants <=> t = "jobs:tree:ro"
             /\ <<t, "read", "logs">> \in grants <=> t = "jobs:logs:ro"
             /\ <<t, "read", "result">> \in grants <=> t = "jobs:result:ro"
             /\ <<t, "read", "stream">> \in grants <=> t = "events:ro"
  BY DEF grants
<1>2. Covers[s] = Reaches(s)
  BY CoversAre
<1>3. /\ "plugin:catalog:ro" \in Reaches(s) <=> s \in {"*", "plugin:rw", "plugin:ro", "plugin:catalog:ro"}
      /\ "plugin:invoke:ro" \in Reaches(s) <=> s \in {"*", "plugin:rw", "plugin:invoke:ro"}
      /\ "plugin:rw" \in Reaches(s) <=> s \in {"*", "plugin:rw"}
      /\ "system:ro" \in Reaches(s) <=> s \in {"*", "system:rw", "system:ro"}
      /\ "system:rw" \in Reaches(s) <=> s \in {"*", "system:rw"}
      /\ "jobs:status:ro" \in Reaches(s) <=> s \in {"*", "jobs:rw", "jobs:ro", "jobs:status:ro"}
      /\ "jobs:tree:ro" \in Reaches(s) <=> s \in {"*", "jobs:rw", "jobs:ro", "jobs:tree:ro"}
      /\ "jobs:logs:ro" \in Reaches(s) <=> s \in {"*", "jobs:rw", "jobs:ro", "jobs:logs:ro"}
      /\ "jobs:result:ro" \in Reaches(s) <=> s \in {"*", "jobs:rw", "jobs:ro", "jobs:result:ro"}
      /\ "events:ro" \in Reaches(s) <=> s \in {"*", "events:rw", "events:ro"}
  BY DEF Reaches, Scopes
<1>4. \A a, c, t : (\A u : <<u, a, c>> \in grants <=> u = t) => (Allows(s, a, c) <=> t \in Reaches(s))
  BY <1>2 DEF Allows
<1>5. /\ Allows(s, "read", "catalog") <=> "plugin:catalog:ro" \in Reaches(s)
      /\ Allows(s, "read", "invoke") <=> "plugin:invoke:ro" \in Reaches(s)
      /\ Allows(s, "write", "invoke") <=> "plugin:rw" \in Reaches(s)
      /\ Allows(s, "write", "pipeline") <=> "plugin:rw" \in Reaches(s)
  <2>1. Allows(s, "read", "catalog") <=> "plugin:catalog:ro" \in Reaches(s)
    <3>1. \A t : <<t, "read", "catalog">> \in grants <=> t = "plugin:catalog:ro"
      BY <1>1
    <3> QED BY <1>4, <3>1
  <2>2. Allows(s, "read", "invoke") <=> "plugin:invoke:ro" \in Reaches(s)
    BY <1>1, <1>4
  <2>3. \A c \in {"invoke", "pipeline"} : Allows(s, "write", c) <=> "plugin:rw" \in Reaches(s)
    <3> SUFFICES ASSUME NEW c \in {"invoke", "pipeline"} PROVE Allows(s, "write", c) <=> "plugin:rw" \in Reaches(s)
      OBVIOUS
    <3>1. \A t : <<t, "write", c>> \in grants <=> t = "plugin:rw"
      BY <1>1
    <3> QED BY <1>4, <3>1
  <2> QED BY <2>1, <2>2, <2>3
<1>6. \A c \in {"topology", "config", "doctor", "selfcheck"} : Allows(s, "read", c) <=> "system:ro" \in Reaches(s)
  <2> SUFFICES ASSUME NEW c \in {"topology", "config", "doctor", "selfcheck"}
               PROVE  Allows(s, "read", c) <=> "system:ro" \in Reaches(s)
    OBVIOUS
  <2>1. \A t : <<t, "read", c>> \in grants <=> t = "system:ro"
    BY <1>1
  <2> QED BY <1>4, <2>1
<1>7. /\ Allows(s, "write", "reload") <=> "system:rw" \in Reaches(s)
      /\ Allows(s, "read", "status") <=> "jobs:status:ro" \in Reaches(s)
      /\ Allows(s, "read", "tree") <=> "jobs:tree:ro" \in Reaches(s)
  BY <1>1, <1>4
<1>8. /\ Allows(s, "read", "logs") <=> "jobs:logs:ro" \in Reaches(s)
      /\ Allows(s, "read", "result") <=> "jobs:result:ro" \in Reaches(s)
      /\ Allows(s, "read", "stream") <=> "events:ro" \in Reaches(s)
  BY <1>1, <1>4
<1> QED BY <1>3, <1>5, <1>6, <1>7, <1>8

\* What a route takes of one scope is what the documentation says of it.
LEMMA RouteDocumented ==
  ASSUME NEW s \in Scopes, NEW r \in setupRoutes, r.name # "discovery"
  PROVE  /\ r.capability # NoText
         /\ r.name \in Documented(s) <=>
              Allows(s, r.action, r.capability) /\ (r.name = "invoke_write" => Allows(s, "write", "invoke"))
         /\ r.name = "invoke_write" /\ Allows(s, "write", "invoke") => Allows(s, r.action, r.capability)
<1>1. \A n : n # "discovery" =>
        (n \in Documented(s) <=>
          \/ n = "plugin" /\ s \in {"*", "plugin:rw", "plugin:ro", "plugin:catalog:ro"}
          \/ n = "invoke_read" /\ s \in {"*", "plugin:rw", "plugin:invoke:ro"}
          \/ n \in {"invoke_write", "pipeline"} /\ s \in {"*", "plugin:rw"}
          \/ n \in {"topology", "config_view", "doctor", "selfcheck"} /\ s \in {"*", "system:rw", "system:ro"}
          \/ n = "reload" /\ s \in {"*", "system:rw"}
          \/ n = "job" /\ s \in {"*", "jobs:rw", "jobs:ro", "jobs:status:ro"}
          \/ n = "job_tree" /\ s \in {"*", "jobs:rw", "jobs:ro", "jobs:tree:ro"}
          \/ n = "job_logs" /\ s \in {"*", "jobs:rw", "jobs:ro", "jobs:logs:ro"}
          \/ n = "events" /\ s \in {"*", "events:rw", "events:ro"})
  <2>1. CASE s \in {"*", "plugin:rw", "plugin:ro", "plugin:catalog:ro", "plugin:invoke:ro"}
    BY <2>1 DEF Documented, Catalog, Jobs, System
  <2>2. CASE s \in {"jobs:rw", "jobs:ro", "jobs:status:ro", "jobs:logs:ro", "jobs:tree:ro"}
    BY <2>2 DEF Documented, Catalog, Jobs, System
  <2>3. CASE s \in {"events:rw", "events:ro", "system:rw", "system:ro"}
    BY <2>3 DEF Documented, Catalog, Jobs, System
  <2>4. CASE s \in {"jobs:result:ro", "events:meta:ro", "events:payload:ro"}
    BY <2>4 DEF Documented, Catalog, Jobs, System
  <2> QED BY <2>1, <2>2, <2>3, <2>4 DEF Scopes
<1>2. CASE r = Route("plugin", "read", "catalog")
  BY <1>1, <1>2, AllowsAre, NoTextIsNone DEF Route
<1>3. CASE r = Route("invoke_read", "read", "invoke")
  BY <1>1, <1>3, AllowsAre, NoTextIsNone DEF Route
<1>4. CASE r = Route("invoke_write", "read", "invoke")
  BY <1>1, <1>4, AllowsAre, NoTextIsNone DEF Route
<1>5. CASE r = Route("pipeline", "write", "pipeline")
  BY <1>1, <1>5, AllowsAre, NoTextIsNone DEF Route
<1>6. CASE r \in {Route("topology", "read", "topology"), Route("config_view", "read", "config"),
                  Route("doctor", "read", "doctor"), Route("selfcheck", "read", "selfcheck")}
  <2>1. /\ r.name \in {"topology", "config_view", "doctor", "selfcheck"} /\ r.action = "read"
        /\ r.capability \in {"topology", "config", "doctor", "selfcheck"}
    BY <1>6 DEF Route
  <2>2. Allows(s, r.action, r.capability) <=> s \in {"*", "system:rw", "system:ro"}
    BY <2>1, AllowsAre
  <2>3. r.name \in Documented(s) <=> s \in {"*", "system:rw", "system:ro"}
    BY <1>1, <2>1
  <2> QED BY <2>1, <2>2, <2>3, NoTextIsNone
<1>7. CASE r = Route("reload", "write", "reload")
  BY <1>1, <1>7, AllowsAre, NoTextIsNone DEF Route
<1>8. CASE r = Route("job", "read", "status")
  BY <1>1, <1>8, AllowsAre, NoTextIsNone DEF Route
<1>9. CASE r = Route("job_tree", "read", "tree")
  BY <1>1, <1>9, AllowsAre, NoTextIsNone DEF Route
<1>10. CASE r = Route("job_logs", "read", "logs")
  BY <1>1, <1>10, AllowsAre, NoTextIsNone DEF Route
<1>11. CASE r = Route("events", "read", "stream")
  BY <1>1, <1>11, AllowsAre, NoTextIsNone DEF Route
<1>12. CASE r = Route("discovery", "read", NoText)
  BY <1>12 DEF Route
<1> QED BY <1>2, <1>3, <1>4, <1>5, <1>6, <1>7, <1>8, <1>9, <1>10, <1>11, <1>12 DEF setupRoutes

-----------------------------------------------------------------------------
\* Tokens, the policy and the requests.

\* The policy that an open listener has, what the last answer may be, and the jobs that
\* entered, beside the properties themselves.
AccessInv ==
  /\ tokens \in TokenLists /\ listening \in BOOLEAN /\ (listening => NewPolicy)
  /\ reply.by \in 0..Len(tokens) /\ reply.ok \in BOOLEAN /\ reply.results \in BOOLEAN
  /\ IsFiniteSet(entered) /\ Cardinality(entered) <= MaxEntered
  /\ ScopesAsDocumented /\ EnteredWereAllowed

\* The tokens are a list.
LEMMA TokensType ==
  ASSUME tokens \in TokenLists
  PROVE  /\ Len(tokens) \in Nat /\ DOMAIN tokens = 1..Len(tokens)
         /\ \A i \in DOMAIN tokens : tokens[i] \in [name : STRING, value : STRING, scopes : SUBSET STRING]
<1>1. PICK T : T = [name : STRING, value : STRING, scopes : SUBSET STRING]
  OBVIOUS
<1>2. tokens \in Seq(T)
  BY <1>1, AccessAssumption
<1>3. Len(tokens) \in Nat /\ DOMAIN tokens = 1..Len(tokens) /\ \A i \in DOMAIN tokens : tokens[i] \in T
  BY <1>2
<1> QED BY <1>1, <1>3

\* The token that a value is equal to.
LEMMA Authenticated ==
  ASSUME tokens \in TokenLists, NEW value
  PROVE  /\ Authenticate(value) \in 0..Len(tokens)
         /\ Authenticate(value) # 0 => Authenticate(value) \in DOMAIN tokens /\ tokens[Authenticate(value)].value = value
<1> DEFINE equal == {i \in DOMAIN tokens : value # NoText /\ tokens[i].value = value}
<1>1. Len(tokens) \in Nat /\ DOMAIN tokens = 1..Len(tokens)
  BY TokensType
<1>2. equal \in SUBSET Nat
  BY <1>1
<1>3. CASE equal = {}
  BY <1>1, <1>3 DEF Authenticate
<1>4. CASE equal # {}
  <2> HIDE DEF equal
  <2>1. PICK p \in equal : \A q \in equal : ~(<<q, p>> \in OpToRel(<, Nat))
    BY <1>2, <1>4, NatLessThanWellFounded, WFMin
  <2>2. \A q \in equal : p <= q
    <3>1. \A q \in equal : ~(q < p)
      BY <1>2, <2>1 DEF OpToRel
    <3> QED BY <1>2, <3>1
  <2>3. PICK k : k = CHOOSE i \in equal : \A j \in equal : i <= j
    OBVIOUS
  <2>4. k \in equal
    BY <2>1, <2>2, <2>3
  <2>5. Authenticate(value) = k
    BY <1>4, <2>3 DEF Authenticate, equal
  <2> QED BY <1>1, <2>4, <2>5 DEF equal
<1> QED BY <1>3, <1>4

\* A principal has the roles of its own token and of no other.
LEMMA Decides ==
  ASSUME tokens \in TokenLists, NewPolicy, NEW i \in DOMAIN tokens, NEW a, NEW c
  PROVE  Decide(principalName(i), a, c) <=> \E s \in tokens[i].scopes : s \in Scopes /\ Allows(s, a, c)
<1>1. \A s : <<principalName(i), s>> \in Roles <=> s \in tokens[i].scopes \ {NoText}
  <2> SUFFICES ASSUME NEW s PROVE <<principalName(i), s>> \in Roles <=> s \in tokens[i].scopes \ {NoText}
    OBVIOUS
  <2>1. ASSUME <<principalName(i), s>> \in Roles PROVE s \in tokens[i].scopes \ {NoText}
    <3>1. PICK j \in DOMAIN tokens : <<principalName(i), s>> \in {<<principalName(j), t>> : t \in tokens[j].scopes \ {NoText}}
      BY <2>1 DEF Roles
    <3>2. PICK t \in tokens[j].scopes \ {NoText} : <<principalName(i), s>> = <<principalName(j), t>>
      BY <3>1
    <3>3. principalName(i) = principalName(j) /\ s = t
      BY <3>2
    <3>4. i = j
      BY <3>3 DEF NewPolicy
    <3> QED BY <3>2, <3>3, <3>4
  <2>2. ASSUME s \in tokens[i].scopes \ {NoText} PROVE <<principalName(i), s>> \in Roles
    BY <2>2 DEF Roles
  <2> QED BY <2>1, <2>2
<1>2. \A s : s \in {r[2] : r \in {q \in Roles : q[1] = principalName(i)}} <=> s \in tokens[i].scopes \ {NoText}
  <2>1. \A r \in Roles : r = <<r[1], r[2]>>
    BY DEF Roles
  <2>2. \A s : s \in {r[2] : r \in {q \in Roles : q[1] = principalName(i)}} <=> <<principalName(i), s>> \in Roles
    BY <2>1
  <2> QED BY <1>1, <2>2
<1>3. \A s \in tokens[i].scopes : s # NoText <=> s \in Scopes
  <2>1. tokens[i].scopes \subseteq Scopes \union {NoText}
    BY ScopesAre DEF NewPolicy
  <2> QED BY <2>1, NoTextIsNone
<1>4. Decide(principalName(i), a, c) <=> \E s \in tokens[i].scopes \ {NoText} : Allows(s, a, c)
  BY <1>2 DEF Decide, Allows
<1> QED BY <1>3, <1>4

\* As many principals as tokens.
LEMMA PrincipalsApart ==
  ASSUME tokens \in TokenLists, NewPolicy
  PROVE  Cardinality({principalName(i) : i \in DOMAIN tokens}) = Len(tokens)
<1>1. Len(tokens) \in Nat /\ DOMAIN tokens = 1..Len(tokens)
  BY TokensType
<1>2. PICK S : S = {principalName(i) : i \in DOMAIN tokens}
  OBVIOUS
<1>3. PICK f : f = [i \in DOMAIN tokens |-> principalName(i)]
  OBVIOUS
<1>4. f \in [DOMAIN tokens -> S] /\ \A t \in S : \E i \in DOMAIN tokens : f[i] = t
  BY <1>2, <1>3
<1>5. \A i, j \in DOMAIN tokens : f[i] = f[j] => i = j
  BY <1>3 DEF NewPolicy
<1>6. f \in Bijection(1..Len(tokens), S)
  BY <1>1, <1>3, <1>4, <1>5 DEF Bijection, Injection, Surjection, IsInjective
<1>7. ExistsBijection(1..Len(tokens), S)
  BY <1>6 DEF ExistsBijection
<1> QED BY <1>1, <1>2, <1>7, FS_CountingElements

\* A request is let through by what the documentation says of its token's own scopes.
LEMMA RequestDocumented ==
  ASSUME tokens \in TokenLists, NewPolicy, NEW i \in DOMAIN tokens, NEW r \in setupRoutes
  PROVE  require(i, r) /\ handlePluginTrigger(i, r) <=>
           r.name = "discovery" \/ \E s \in tokens[i].scopes : r.name \in Documented(s)
<1>1. CASE r.name = "discovery"
  <2>1. r.capability = NoText /\ r.name # "invoke_write"
    BY <1>1 DEF setupRoutes, Route
  <2> QED BY <1>1, <2>1 DEF require, handlePluginTrigger
<1>2. CASE r.name # "discovery"
  <2>1. r.capability # NoText
    <3>1. "*" \in Scopes
      BY DEF Scopes
    <3> QED BY <1>2, <3>1, RouteDocumented
  <2>2. /\ require(i, r) <=> \E s \in tokens[i].scopes : s \in Scopes /\ Allows(s, r.action, r.capability)
        /\ Decide(principalName(i), "write", "invoke") <=>
             \E s \in tokens[i].scopes : s \in Scopes /\ Allows(s, "write", "invoke")
    BY <2>1, Decides DEF require
  <2>3. \A s \in tokens[i].scopes : s \in Scopes \/ s = NoText
    BY ScopesAre DEF NewPolicy
  <2>4. r.name \notin Documented(NoText)
    BY <1>2, NoTextIsNone, Zenon DEF Documented, Scopes
  <2>5. CASE r.name = "invoke_write"
    BY <1>2, <2>2, <2>3, <2>4, <2>5, RouteDocumented DEF handlePluginTrigger
  <2>6. CASE r.name # "invoke_write"
    BY <1>2, <2>2, <2>3, <2>4, <2>6, RouteDocumented DEF handlePluginTrigger
  <2> QED BY <2>5, <2>6
<1> QED BY <1>1, <1>2

\* The results of jobs are shown for the scopes that have them.
LEMMA ResultsAllowed ==
  ASSUME tokens \in TokenLists, NewPolicy, NEW i \in DOMAIN tokens, NEW r, canSeeJobResults(i, r)
  PROVE  tokens[i].scopes \intersect {"*", "jobs:rw", "jobs:ro", "jobs:result:ro"} # {}
<1>1. PICK s \in tokens[i].scopes : s \in Scopes /\ Allows(s, "read", "result")
  BY Decides DEF canSeeJobResults
<1> QED BY <1>1, AllowsAre

\* A job is let in by the scopes of its token.
LEMMA JobAllowed ==
  ASSUME tokens \in TokenLists, NewPolicy, NEW i \in DOMAIN tokens, NEW r \in setupRoutes, Enqueues(r),
         require(i, r), handlePluginTrigger(i, r)
  PROVE  tokens[i].scopes \intersect (IF r.name = "invoke_read" THEN {"*", "plugin:rw", "plugin:invoke:ro"}
                                                                 ELSE {"*", "plugin:rw"}) # {}
<1>1. r.name \in {"invoke_read", "invoke_write", "pipeline"} /\ r.name # "discovery"
  BY DEF Enqueues
<1>2. PICK s \in tokens[i].scopes : r.name \in Documented(s)
  BY <1>1, RequestDocumented
<1>3. CASE s \in Scopes
  <2>1. Allows(s, r.action, r.capability) /\ (r.name = "invoke_write" => Allows(s, "write", "invoke"))
    BY <1>1, <1>2, <1>3, RouteDocumented
  <2>2. /\ r.name = "invoke_read" => r.action = "read" /\ r.capability = "invoke"
        /\ r.name = "pipeline" => r.action = "write" /\ r.capability = "pipeline"
    BY DEF setupRoutes, Route
  <2>3. s \in (IF r.name = "invoke_read" THEN {"*", "plugin:rw", "plugin:invoke:ro"} ELSE {"*", "plugin:rw"})
    BY <1>1, <1>3, <2>1, <2>2, AllowsAre
  <2> QED BY <2>3
<1>4. CASE s \notin Scopes
  BY <1>1, <1>2, <1>4, Zenon DEF Documented, Scopes
<1> QED BY <1>3, <1>4

\* One more job.
LEMMA OneEntered ==
  ASSUME IsFiniteSet(entered), Cardinality(entered) < MaxEntered, NEW x, entered' = entered \union {x}
  PROVE  IsFiniteSet(entered') /\ Cardinality(entered') <= MaxEntered
<1>1. Cardinality(entered) \in Nat /\ MaxEntered \in Nat
  BY FS_CardinalityType, AccessAssumption
<1>2. /\ IsFiniteSet(entered \union {x})
      /\ Cardinality(entered \union {x}) = Cardinality(entered) \/ Cardinality(entered \union {x}) = Cardinality(entered) + 1
  BY FS_AddElement
<1> QED BY <1>1, <1>2

\* ServeRequest keeps the invariant.
LEMMA AccessServes ==
  ASSUME AccessInv, NEW value \in Presented, NEW r \in setupRoutes, NEW via, ServeRequest(value, r, via)
  PROVE  AccessInv'
<1>1. PICK i : i = IF ExtractBearerToken(r.name, via) THEN Authenticate(value) ELSE 0
  OBVIOUS
<1>2. PICK ok : ok = (i # 0 /\ require(i, r) /\ handlePluginTrigger(i, r))
  OBVIOUS
<1>3. /\ listening /\ (ok /\ Enqueues(r) => Cardinality(entered) < MaxEntered)
      /\ reply' = [by |-> i, route |-> r.name, ok |-> ok, results |-> ok /\ canSeeJobResults(i, r)]
      /\ entered' = IF ok /\ Enqueues(r) THEN entered \union {[by |-> value, what |-> r.name]} ELSE entered
      /\ UNCHANGED <<tokens, listening>>
  BY <1>1, <1>2 DEF ServeRequest, Answers
<1>4. tokens \in TokenLists /\ NewPolicy /\ Len(tokens) \in Nat
  BY <1>3, TokensType DEF AccessInv
<1>5. i \in 0..Len(tokens) /\ (i # 0 => i \in DOMAIN tokens /\ tokens[i].value = value)
  BY <1>1, <1>4, Authenticated
<1>6. reply'.by = i /\ reply'.route = r.name /\ reply'.ok = ok /\ reply'.results = (ok /\ canSeeJobResults(i, r))
  BY <1>3
<1>7. ok \in BOOLEAN /\ (ok /\ canSeeJobResults(i, r)) \in BOOLEAN
  BY <1>2
<1>8. reply'.by \in 0..Len(tokens) /\ reply'.ok \in BOOLEAN /\ reply'.results \in BOOLEAN
  BY <1>5, <1>6, <1>7
<1>9. ScopesAsDocumented'
  <2> SUFFICES ASSUME i # 0
               PROVE  /\ ok <=> r.name = "discovery" \/ \E s \in tokens[i].scopes : r.name \in Documented(s)
                      /\ ok /\ canSeeJobResults(i, r) =>
                           tokens[i].scopes \intersect {"*", "jobs:rw", "jobs:ro", "jobs:result:ro"} # {}
    BY <1>3, <1>6 DEF ScopesAsDocumented
  <2> QED BY <1>2, <1>4, <1>5, RequestDocumented, ResultsAllowed
<1>10. EnteredWereAllowed'
  <2>1. CASE ok /\ Enqueues(r)
    <3>1. \E q \in DOMAIN tokens :
            /\ tokens[q].value = value
            /\ tokens[q].scopes \intersect (IF r.name = "invoke_read" THEN {"*", "plugin:rw", "plugin:invoke:ro"}
                                                                      ELSE {"*", "plugin:rw"}) # {}
      BY <1>2, <1>4, <1>5, <2>1, JobAllowed
    <3> QED BY <1>3, <2>1, <3>1 DEF AccessInv, EnteredWereAllowed
  <2>2. CASE ~(ok /\ Enqueues(r))
    BY <1>3, <2>2 DEF AccessInv, EnteredWereAllowed
  <2> QED BY <2>1, <2>2
<1>11. IsFiniteSet(entered') /\ Cardinality(entered') <= MaxEntered
  BY <1>3, OneEntered DEF AccessInv
<1>12. NewPolicy'
  BY <1>3, <1>4 DEF NewPolicy, principalName
<1> QED BY <1>3, <1>4, <1>8, <1>9, <1>10, <1>11, <1>12 DEF AccessInv

\* handleWebhook keeps it.
LEMMA AccessHooks ==
  ASSUME AccessInv, NEW h \in Hooks, NEW signature, NEW small, handleWebhook(h, signature, small)
  PROVE  AccessInv'
<1>1. /\ Cardinality(entered) < MaxEntered /\ h.secret # NoText /\ signature = h.secret
      /\ entered' = entered \union {[by |-> signature, what |-> h.path]} /\ UNCHANGED <<tokens, listening, reply>>
  BY DEF handleWebhook, verifyHMACSignature
<1>2. NewPolicy' = NewPolicy
  BY <1>1 DEF NewPolicy, principalName
<1>3. EnteredWereAllowed'
  BY <1>1 DEF AccessInv, EnteredWereAllowed
<1>4. ScopesAsDocumented'
  BY <1>1 DEF AccessInv, ScopesAsDocumented
<1>5. IsFiniteSet(entered') /\ Cardinality(entered') <= MaxEntered
  BY <1>1, OneEntered DEF AccessInv
<1> QED BY <1>1, <1>2, <1>3, <1>4, <1>5 DEF AccessInv

\* The invariant of the listeners holds in every state.
THEOREM AccessSafe == AccessSpec => []AccessInv
<1>1. AccessInit => AccessInv
  <2> SUFFICES ASSUME AccessInit PROVE AccessInv
    OBVIOUS
  <2>1. Len(tokens) \in Nat /\ MaxEntered \in Nat
    BY TokensType, AccessAssumption DEF AccessInit
  <2>2. IsFiniteSet(entered) /\ Cardinality(entered) = 0
    BY FS_EmptySet DEF AccessInit
  <2>3. reply.by = 0 /\ reply.ok = FALSE /\ reply.results = FALSE
    BY DEF AccessInit
  <2>4. tokens \in TokenLists /\ listening = FALSE /\ entered = {}
    BY DEF AccessInit
  <2>5. listening \in BOOLEAN /\ (listening => NewPolicy)
    BY <2>4, Zenon
  <2>6. reply.by \in 0..Len(tokens)
    BY <2>1, <2>3
  <2>7. reply.ok \in BOOLEAN /\ reply.results \in BOOLEAN
    BY <2>3, Zenon
  <2>8. ScopesAsDocumented /\ EnteredWereAllowed
    BY <2>3, <2>4 DEF ScopesAsDocumented, EnteredWereAllowed
  <2>9. Cardinality(entered) <= MaxEntered
    BY <2>1, <2>2
  <2> QED BY <2>2, <2>4, <2>5, <2>6, <2>7, <2>8, <2>9 DEF AccessInv
<1>2. AccessInv /\ [AccessNext]_accessVars => AccessInv'
  <2> SUFFICES ASSUME AccessInv, [AccessNext]_accessVars PROVE AccessInv'
    OBVIOUS
  <2>1. CASE OpenListener \/ UNCHANGED accessVars
    <3>1. UNCHANGED <<tokens, reply, entered>> /\ (listening' = listening \/ (listening' = TRUE /\ NewPolicy))
      BY <2>1 DEF OpenListener, accessVars
    <3>2. NewPolicy' = NewPolicy
      BY <3>1 DEF NewPolicy, principalName
    <3>3. ScopesAsDocumented' /\ EnteredWereAllowed'
      BY <3>1 DEF AccessInv, ScopesAsDocumented, EnteredWereAllowed
    <3>4. listening' \in BOOLEAN /\ (listening' => NewPolicy')
      <4>1. CASE listening' = listening
        BY <3>2, <4>1, Zenon DEF AccessInv
      <4>2. CASE listening' = TRUE /\ NewPolicy
        BY <3>2, <4>2, Zenon
      <4> QED BY <3>1, <4>1, <4>2
    <3> QED BY <3>1, <3>3, <3>4 DEF AccessInv
  <2>2. CASE \E value \in Presented, r \in setupRoutes, via \in {"header", "query"} : ServeRequest(value, r, via)
    BY <2>2, AccessServes
  <2>3. CASE \E h \in Hooks, signature \in {NoText} \union {g.secret : g \in Hooks}, small \in BOOLEAN :
               handleWebhook(h, signature, small)
    BY <2>3, AccessHooks
  <2> QED BY <2>1, <2>2, <2>3 DEF AccessNext
<1> QED BY <1>1, <1>2, PTL DEF AccessSpec

\* Requests and jobs get in exactly with what the token or the endpoint they came with was
\* configured for, whatever tokens, endpoints and values there are (AccessAsConfigured).
THEOREM AccessIsAsConfigured == AccessSpec => []AccessAsConfigured
<1>1. AccessInv => AccessAsConfigured
  <2> SUFFICES ASSUME AccessInv PROVE AccessAsConfigured
    OBVIOUS
  <2>1. reply.by \in 0..Len(tokens) /\ reply.ok \in BOOLEAN /\ reply.results \in BOOLEAN
    BY DEF AccessInv
  <2>2. listening => Cardinality({principalName(i) : i \in DOMAIN tokens}) = Len(tokens)
    BY PrincipalsApart DEF AccessInv
  <2> QED BY <2>1, <2>2 DEF AccessInv, AccessAsConfigured, AccessTypeOK
<1> QED BY <1>1, AccessSafe, PTL

-----------------------------------------------------------------------------
\* The configuration directory.

Manifests == {Manifest(h) : h \in UNION {[S -> Contents] : S \in SUBSET Discovered}}
Things == Contents \union Manifests

\* What is ever written at a path.
Fits(p, x) == x \in Things /\ x.v # -1 /\ IF p = ".checksums" THEN x.v \in {-2, 1} ELSE x \in Contents

\* What there is: files are typed, and one that is absent has no content; what was torn was
\* torn by an init or a restore.
DirInv ==
  /\ disk \in [Paths -> Things] /\ bak \in [ConfigFiles -> Contents]
  /\ \A p \in Paths : disk[p] # Absent => Fits(p, disk[p])
  /\ \A p \in Paths : disk[p].v = TornNumber => overwrote
  /\ contents \in 1..MaxContents /\ begun \in 0..MaxCommands /\ killed \in 0..MaxKills /\ overwrote \in BOOLEAN

Entries == {e \in [path : Paths, content : Things] : Fits(e.path, e.content)}
Suffixes == {BackupItems, <<"routes", "webhooks", ".checksums", "plugin">>, <<"webhooks", ".checksums", "plugin">>,
             <<".checksums", "plugin">>, <<"plugin">>}

\* The backup holds what was there, each path once, config.yaml first.
ArchiveInv ==
  /\ archive \in [entries : Seq(Entries), closed : BOOLEAN]
  /\ \A i, j \in DOMAIN archive.entries : i # j => archive.entries[i].path # archive.entries[j].path
  /\ archive.entries # <<>> => archive.entries[1].path = "config"

CommandRecords ==
  [kind : {"none", "set", "edit", "lock", "init", "restore", "backup"},
   at : {"idle", "done", "killed", "read", "publish", "check", "rollback", "bak", "copy", "rename", "hash", "manifest",
         "open", "fill", "item"},
   file : ConfigFiles \union {"none"}, before : Contents, cand : Things, todo : Seq(Entries) \union Suffixes,
   keep : BOOLEAN, crossed : BOOLEAN, failed : BOOLEAN]

\* A command of each kind: the places it goes through, and what it has in hand there.
SetForm(c) ==
  /\ c.kind = "set" /\ c.file = "config" /\ c.cand \in Contents /\ c.cand.v >= 0
  /\ c.at \in {"read", "publish", "check", "rollback", "done", "killed"}
  /\ c.at \in {"publish", "check", "rollback"} => c.before.v # -1
  /\ c.at \in {"read", "publish", "check", "rollback"} => ~c.failed
ManifestForm(c) == c.at = "manifest" => c.cand \in Manifests
EditForm(c) ==
  /\ c.kind = "edit" /\ c.file \in ConfigFiles \ {"config"}
  /\ c.at \in {"bak", "copy", "rename", "hash", "manifest", "done", "killed"}
  /\ c.at \in {"bak", "copy", "rename"} => c.cand \in Contents /\ c.cand.v >= 0
LockForm(c) == c.kind = "lock" /\ c.at \in {"hash", "manifest", "done", "killed"}
FillForm(c) ==
  /\ c.kind \in {"init", "restore"} /\ c.at \in {"open", "fill", "hash", "manifest", "done", "killed"}
  /\ c.at \in {"open", "fill"} => c.todo \in Seq(Entries) /\ c.todo # <<>>
BackupForm(c) ==
  /\ c.kind = "backup" /\ c.at \in {"item", "done", "killed"}
  /\ c.at = "item" => c.todo \in Suffixes
Form(c) ==
  /\ c \in CommandRecords /\ ManifestForm(c)
  /\ c = Rest \/ SetForm(c) \/ EditForm(c) \/ LockForm(c) \/ FillForm(c) \/ BackupForm(c)

\* What a command may count on, whoever else is at work.
Holds(o) ==
  /\ shell[o].at \in {"read", "publish", "check", "rollback", "item"} => Present(disk, "config")
  /\ shell[o].at \in {"publish", "check", "rollback"} /\ shell[o].before.v = TornNumber => overwrote
  /\ shell[o].at = "fill" => overwrote
  /\ shell[o].at = "item" =>
       /\ \A i \in DOMAIN archive.entries : \A j \in DOMAIN shell[o].todo : archive.entries[i].path # shell[o].todo[j]
       /\ archive.entries = <<>> => shell[o].todo = BackupItems

\* What one counts on that nobody crossed.
Undone(c) == [disk EXCEPT !["config"] = c.before]
SetKnows(c) ==
  /\ c.at \in {"read", "publish"} => Loads(disk)
  /\ c.at = "publish" => c.before = disk["config"]
  /\ c.at = "check" => disk["config"] = c.cand
  /\ c.at \in {"check", "rollback"} => Loads(Undone(c))
  /\ c.at = "done" => Loads(disk) /\ disk["config"] = IF c.failed THEN c.before ELSE c.cand
EditKnows(c) ==
  /\ c.before # Absent => c.before \in {disk[c.file], bak[c.file]}
  /\ c.at = "bak" => c.before = Absent
  /\ c.at \in {"copy", "rename"} => c.before = disk[c.file]
  /\ c.at = "rename" /\ c.before # Absent => c.before = bak[c.file]
HashKnows(c) ==
  /\ c.at = "manifest" => c.cand = GenerateChecksums(disk)
  /\ c.at = "done" /\ ~c.failed => disk[".checksums"] = GenerateChecksums(disk)
Knows(o) ==
  ~shell[o].crossed =>
    /\ shell[o].kind = "set" => SetKnows(shell[o])
    /\ shell[o].kind = "edit" => EditKnows(shell[o])
    /\ shell[o].kind \in {"edit", "lock", "init", "restore"} => HashKnows(shell[o])

\* A command that nobody crossed is the only one; one backup at a time.
AloneInv ==
  /\ \A o, p \in Terminals : o # p /\ shell[o] # Rest /\ ~shell[o].crossed => shell[p] = Rest
  /\ \A o, p \in Terminals : o # p /\ shell[o].at = "item" => shell[p].at # "item"

CommandsInv == \A o \in Terminals : Form(shell[o]) /\ Holds(o) /\ Knows(o)
EditInv == DirInv /\ ArchiveInv /\ AloneInv /\ CommandsInv

Places == {"idle", "done", "killed", "read", "publish", "check", "rollback", "bak", "copy", "rename", "hash", "manifest",
           "open", "fill", "item"}

\* What is written by hand, by an edit or by an init, and what is torn.
LEMMA EditFacts ==
  /\ MaxContents \in Nat /\ MaxCommands \in Nat /\ MaxKills \in Nat
  /\ Absent \in Contents /\ Absent.v = -1 /\ TornNumber = -2
  /\ \A p \in Paths : p = ".checksums" \/ p \in ConfigFiles
  /\ ".checksums" \in Paths /\ "config" \in Paths /\ \A f \in ConfigFiles : f \in Paths /\ f # ".checksums"
  /\ Contents \subseteq Things /\ Manifests \subseteq Things /\ \A m \in Manifests : m.v = 1
<1>1. MaxContents \in Nat /\ MaxCommands \in Nat /\ MaxKills \in Nat
  BY EditAssumption
<1>2. Absent \in Contents /\ Absent.v = -1 /\ TornNumber = -2
  BY <1>1 DEF Absent, Content, Contents, TornNumber
<1>3. /\ \A p \in Paths : p = ".checksums" \/ p \in ConfigFiles
      /\ ".checksums" \in Paths /\ "config" \in Paths /\ \A f \in ConfigFiles : f \in Paths /\ f # ".checksums"
  BY DEF Paths, ConfigFiles, Discovered
<1>4. Contents \subseteq Things /\ Manifests \subseteq Things /\ \A m \in Manifests : m.v = 1
  BY DEF Things, Manifests, Manifest
<1> QED BY <1>1, <1>2, <1>3, <1>4

\* Which contents fit where.
LEMMA FileFits == ASSUME NEW p \in ConfigFiles, NEW x \in Contents, x.v # -1 PROVE Fits(p, x)
BY EditFacts DEF Fits
LEMMA ManifestFits == ASSUME NEW x \in Manifests PROVE Fits(".checksums", x) /\ x.v # TornNumber
BY EditFacts DEF Fits
LEMMA TornFits == ASSUME NEW p \in Paths, NEW x \in Torn(p) PROVE Fits(p, x)
<1>1. PICK ok \in BOOLEAN, inc \in BOOLEAN : x = [v |-> -2, ok |-> ok, inc |-> inc]
  BY DEF Torn, Content, TornNumber
<1>2. x \in Contents /\ x.v = -2
  BY <1>1, EditFacts DEF Contents
<1> QED BY <1>2, EditFacts DEF Fits

\* A content that the operator thought up.
LEMMA WrittenType ==
  ASSUME contents \in 1..MaxContents, contents < MaxContents, NEW inc \in BOOLEAN, NEW c \in Written(inc)
  PROVE  c \in Contents /\ c.v >= 0 /\ contents + 1 \in 1..MaxContents
BY EditFacts DEF Written, Content, Contents

\* What the manifest records of a directory.
LEMMA ManifestOf == ASSUME NEW d, \A f \in AllFiles(d) : d[f] \in Contents PROVE GenerateChecksums(d) \in Manifests
<1>1. PICK h : h = [f \in AllFiles(d) |-> d[f]]
  OBVIOUS
<1>2. AllFiles(d) \in SUBSET Discovered
  BY DEF AllFiles
<1>3. h \in [AllFiles(d) -> Contents]
  BY <1>1
<1>4. Manifest(h) \in Manifests
  BY <1>2, <1>3 DEF Manifests
<1> QED BY <1>1, <1>4 DEF GenerateChecksums
LEMMA ManifestType == ASSUME DirInv PROVE GenerateChecksums(disk) \in Manifests
<1>1. \A f \in AllFiles(disk) : disk[f] \in Contents
  <2> SUFFICES ASSUME NEW f \in AllFiles(disk) PROVE disk[f] \in Contents
    OBVIOUS
  <2>1. f \in Paths /\ f # ".checksums" /\ disk[f].v # -1
    BY EditFacts DEF AllFiles, Discovered, ConfigFiles, Present
  <2>2. disk[f] # Absent
    BY <2>1, EditFacts
  <2> QED BY <2>1, <2>2 DEF DirInv, Fits
<1> QED BY <1>1, ManifestOf

\* The manifest does not record itself.
LEMMA ManifestSame ==
  ASSUME NEW d, NEW e, \A f \in Discovered : d[f] = e[f]
  PROVE  GenerateChecksums(d) = GenerateChecksums(e)
<1>1. AllFiles(d) = AllFiles(e)
  BY DEF AllFiles, Present
<1>2. \A f \in AllFiles(d) : d[f] = e[f]
  BY DEF AllFiles
<1>3. [f \in AllFiles(d) |-> d[f]] = [f \in AllFiles(e) |-> e[f]]
  BY <1>1, <1>2
<1> QED BY <1>3 DEF GenerateChecksums

\* A manifest of what is there leaves nothing to complain of.
LEMMA ManifestVerifies ==
  ASSUME NEW d, d[".checksums"] = GenerateChecksums(d), NEW tier
  PROVE  VerifyIntegrity(d, tier) = {}
<1>1. PICK h : h = [f \in AllFiles(d) |-> d[f]]
  OBVIOUS
<1>2. d[".checksums"].v = 1 /\ d[".checksums"].hashes = h
  BY <1>1 DEF GenerateChecksums, Manifest
<1>3. \A f \in AllFiles(d) : VerifyFileHash(d, f)
  BY <1>1, <1>2 DEF VerifyFileHash
<1>4. Present(d, ".checksums") /\ Whole(d, ".checksums")
  BY <1>2 DEF Present, Whole
<1> QED BY <1>3, <1>4 DEF VerifyIntegrity

\* Something is written at a path.
LEMMA DiskWritten ==
  ASSUME DirInv, NEW p \in Paths, NEW x, Fits(p, x), disk' = [disk EXCEPT ![p] = x]
  PROVE  /\ disk' \in [Paths -> Things] /\ disk'[p] = x /\ \A q \in Paths : q # p => disk'[q] = disk[q]
         /\ \A q \in Paths : disk'[q] # Absent => Fits(q, disk'[q])
         /\ \A q \in Paths : Present(disk, q) => Present(disk', q)
<1>1. disk \in [Paths -> Things] /\ x \in Things /\ x.v # -1
  BY DEF DirInv, Fits
<1>2. disk' \in [Paths -> Things] /\ disk'[p] = x /\ \A q \in Paths : q # p => disk'[q] = disk[q]
  BY <1>1
<1>3. \A q \in Paths : disk'[q] # Absent => Fits(q, disk'[q])
  <2> SUFFICES ASSUME NEW q \in Paths, disk'[q] # Absent PROVE Fits(q, disk'[q])
    OBVIOUS
  <2>1. CASE q = p
    BY <1>2, <2>1
  <2>2. CASE q # p
    BY <1>2, <2>2 DEF DirInv
  <2> QED BY <2>1, <2>2
<1> QED BY <1>1, <1>2, <1>3 DEF Present

\* The directory afterwards.
LEMMA DirWritten ==
  ASSUME DirInv, NEW p \in Paths, NEW x, Fits(p, x), disk' = [disk EXCEPT ![p] = x],
         x.v = TornNumber => overwrote', overwrote => overwrote', overwrote' \in BOOLEAN, bak' = bak,
         contents' \in 1..MaxContents, begun' = begun, killed' = killed
  PROVE  DirInv'
<1>1. /\ disk' \in [Paths -> Things] /\ disk'[p] = x /\ \A q \in Paths : q # p => disk'[q] = disk[q]
      /\ \A q \in Paths : disk'[q] # Absent => Fits(q, disk'[q])
  BY DiskWritten
<1>2. \A q \in Paths : disk'[q].v = TornNumber => overwrote'
  <2> SUFFICES ASSUME NEW q \in Paths, disk'[q].v = TornNumber PROVE overwrote'
    OBVIOUS
  <2>1. CASE q = p
    BY <1>1, <2>1
  <2>2. CASE q # p
    BY <1>1, <2>2 DEF DirInv
  <2> QED BY <2>1, <2>2
<1> QED BY <1>1, <1>2 DEF DirInv

\* A terminal without a command.
LEMMA RestForm ==
  /\ Rest \in CommandRecords /\ Rest.kind = "none" /\ Rest.at = "idle" /\ ~Rest.crossed /\ ~Rest.failed /\ ~Rest.keep
  /\ Rest.before = Absent /\ Rest.cand = Absent /\ Rest.file = "none" /\ Rest.todo = <<>> /\ Form(Rest)
<1>1. /\ Rest.kind = "none" /\ Rest.at = "idle" /\ ~Rest.crossed /\ ~Rest.failed /\ ~Rest.keep
      /\ Rest.before = Absent /\ Rest.cand = Absent /\ Rest.file = "none" /\ Rest.todo = <<>>
  BY DEF Rest
<1>2. Absent \in Contents /\ Absent \in Things
  BY EditFacts
<1>3. <<>> \in Seq(Entries) \union Suffixes
  OBVIOUS
<1>4. Rest \in CommandRecords
  BY <1>2, <1>3 DEF Rest, CommandRecords
<1> QED BY <1>1, <1>4 DEF Form, ManifestForm

\* The command at o moves on, the others stay where they are.
Moves(o, c) ==
  /\ DOMAIN shell' = DOMAIN shell /\ shell'[o] = c
  /\ \A p \in DOMAIN shell : p # o => shell'[p] = shell[p]

\* What the other commands count on, they still may.
LEMMA OthersKeep ==
  ASSUME EditInv, NEW o \in Terminals, ~AtRest(o), NEW p \in Terminals, p # o, shell'[p] = shell[p],
         Present(disk, "config") => Present(disk', "config"), overwrote => overwrote',
         shell[p].at = "item" => archive' = archive
  PROVE  Form(shell'[p]) /\ Holds(p)' /\ Knows(p)'
<1>1. Form(shell[p]) /\ Holds(p)
  BY DEF EditInv, CommandsInv
<1>2. Holds(p)'
  BY <1>1 DEF Holds
<1>3. shell[o] # Rest
  BY RestForm DEF AtRest
<1>4. shell[p] = Rest \/ shell[p].crossed
  BY <1>3 DEF EditInv, AloneInv
<1>5. Knows(p)'
  BY <1>4, RestForm DEF Knows
<1> QED BY <1>1, <1>2, <1>5

\* A command that moves on by itself.
LEMMA CommandMovesOn ==
  ASSUME EditInv, DirInv', ArchiveInv', NEW o \in Terminals, ~AtRest(o), NEW c, Moves(o, c),
         c.crossed = shell[o].crossed, c.at = "item" => shell[o].at = "item",
         Present(disk, "config") => Present(disk', "config"), overwrote => overwrote',
         archive' = archive \/ shell[o].at = "item",
         Form(c), Holds(o)', Knows(o)'
  PROVE  EditInv'
<1>1. DOMAIN shell' = DOMAIN shell /\ shell'[o] = c /\ \A p \in Terminals : p # o => shell'[p] = shell[p]
  BY DEF Moves, Terminals
<1>2. shell[o] # Rest
  BY RestForm DEF AtRest
<1>3. \A p \in Terminals : p # o /\ shell[p].at = "item" => archive' = archive
  BY DEF EditInv, AloneInv
<1>4. \A p \in Terminals : Form(shell'[p]) /\ Holds(p)' /\ Knows(p)'
  <2> SUFFICES ASSUME NEW p \in Terminals PROVE Form(shell'[p]) /\ Holds(p)' /\ Knows(p)'
    OBVIOUS
  <2>1. CASE p = o
    BY <1>1, <2>1
  <2>2. CASE p # o
    BY <1>1, <1>3, <2>2, OthersKeep
  <2> QED BY <2>1, <2>2
<1>5. CommandsInv'
  BY <1>1, <1>4 DEF CommandsInv, Terminals
<1>6. AloneInv'
  <2>1. \A p, q \in Terminals : p # q /\ shell'[p] # Rest /\ ~shell'[p].crossed => shell'[q] = Rest
    <3> SUFFICES ASSUME NEW p \in Terminals, NEW q \in Terminals, p # q, shell'[p] # Rest, ~shell'[p].crossed
                 PROVE  shell'[q] = Rest
      OBVIOUS
    <3>1. CASE p = o
      BY <1>1, <1>2, <3>1 DEF EditInv, AloneInv
    <3>2. CASE p # o
      BY <1>1, <1>2, <3>2 DEF EditInv, AloneInv
    <3> QED BY <3>1, <3>2
  <2>2. \A p, q \in Terminals : p # q /\ shell'[p].at = "item" => shell'[q].at # "item"
    BY <1>1 DEF EditInv, AloneInv
  <2> QED BY <1>1, <2>1, <2>2 DEF AloneInv, Terminals
<1> QED BY <1>5, <1>6 DEF EditInv

\* The place alone changes.
LEMMA PlaceMoves ==
  ASSUME NEW s \in CommandRecords, NEW a \in Places, NEW c, c = [s EXCEPT !.at = a]
  PROVE  /\ c \in CommandRecords /\ c.at = a /\ c.kind = s.kind /\ c.file = s.file /\ c.before = s.before /\ c.cand = s.cand
         /\ c.todo = s.todo /\ c.keep = s.keep /\ c.crossed = s.crossed /\ c.failed = s.failed
BY DEF CommandRecords, Places
LEMMA StepMoves == ASSUME NEW o \in Terminals, NEW a, Step(o, a) PROVE Moves(o, [shell[o] EXCEPT !.at = a])
BY DEF Step, Moves, Terminals

\* The command at a terminal.
LEMMA CommandType ==
  ASSUME EditInv, NEW o \in Terminals
  PROVE  Form(shell[o]) /\ shell[o] \in CommandRecords /\ Holds(o) /\ Knows(o)
BY DEF EditInv, CommandsInv, Form

\* A kill leaves the command where it is.
LEMMA EditKilled == ASSUME EditInv, NEW o \in Terminals, Kill(o) PROVE EditInv'
<1>1. /\ ~AtRest(o) /\ killed < MaxKills /\ killed' = killed + 1 /\ Step(o, "killed")
      /\ UNCHANGED <<disk, bak, archive, contents, begun, overwrote>>
  BY DEF Kill
<1>2. PICK c : c = [shell[o] EXCEPT !.at = "killed"]
  OBVIOUS
<1>3. Moves(o, c)
  BY <1>1, <1>2, StepMoves
<1>4. /\ c \in CommandRecords /\ c.at = "killed" /\ c.kind = shell[o].kind /\ c.file = shell[o].file
      /\ c.before = shell[o].before /\ c.cand = shell[o].cand /\ c.todo = shell[o].todo /\ c.crossed = shell[o].crossed
  BY <1>2, CommandType, PlaceMoves DEF Places
<1>5. Form(c)
  <2>1. Form(shell[o]) /\ shell[o] # Rest
    BY <1>1, CommandType, RestForm DEF AtRest
  <2> QED BY <1>4, <2>1 DEF Form, ManifestForm, SetForm, EditForm, LockForm, FillForm, BackupForm
<1>6. DirInv' /\ ArchiveInv'
  <2>1. killed' \in 0..MaxKills
    BY <1>1, EditFacts DEF EditInv, DirInv
  <2> QED BY <1>1, <2>1 DEF EditInv, DirInv, ArchiveInv
<1>7. Holds(o)' /\ Knows(o)'
  <2>1. shell'[o] = c
    BY <1>3 DEF Moves
  <2>2. c.kind = "edit" /\ ~c.crossed => (c.before # Absent => c.before \in {disk[c.file], bak[c.file]})
    BY <1>4, CommandType DEF Knows, EditKnows
  <2> QED BY <1>1, <1>4, <2>1, <2>2 DEF Holds, Knows, SetKnows, EditKnows, HashKnows
<1> QED BY <1>1, <1>3, <1>4, <1>5, <1>6, <1>7, CommandMovesOn

\* Where a command is tells its kind.
LEMMA PlaceTells ==
  ASSUME NEW c, Form(c)
  PROVE  /\ c.at \in {"read", "publish", "check", "rollback"} => SetForm(c)
         /\ c.at \in {"bak", "copy", "rename"} => EditForm(c)
         /\ c.at \in {"hash", "manifest"} => c.kind \in {"edit", "lock", "init", "restore"}
         /\ c.at \in {"open", "fill"} => FillForm(c)
         /\ c.at = "item" => BackupForm(c)
BY RestForm DEF Form, SetForm, EditForm, LockForm, FillForm, BackupForm

\* Nothing in the directory changes.
LEMMA DirSame ==
  ASSUME EditInv, UNCHANGED <<disk, bak, archive, contents, begun, killed, overwrote>>
  PROVE  DirInv' /\ ArchiveInv'
BY DEF EditInv, DirInv, ArchiveInv

\* persistWithValidation reads the file.
LEMMA EditReads == ASSUME EditInv, NEW o \in Terminals, persistReads(o) PROVE EditInv'
<1>1. /\ shell[o].at = "read" /\ UNCHANGED <<disk, bak, archive, contents, begun, killed, overwrote>>
      /\ shell' = [shell EXCEPT ![o].at = "publish", ![o].before = disk["config"]]
  BY DEF persistReads
<1>2. PICK c : c = [shell[o] EXCEPT !.at = "publish", !.before = disk["config"]]
  OBVIOUS
<1>3. Moves(o, c) /\ ~AtRest(o)
  BY <1>1, <1>2 DEF Moves, Terminals, AtRest
<1>4. SetForm(shell[o]) /\ shell[o] \in CommandRecords /\ Holds(o) /\ Knows(o) /\ Present(disk, "config")
  BY <1>1, CommandType, PlaceTells DEF Holds
<1>5. disk["config"] \in Contents /\ disk["config"].v # -1 /\ (disk["config"].v = TornNumber => overwrote)
  <2>1. disk["config"].v # -1 /\ disk["config"] # Absent
    BY <1>4, EditFacts DEF Present
  <2> QED BY <2>1, EditFacts DEF EditInv, DirInv, Fits
<1>6. /\ c \in CommandRecords /\ c.at = "publish" /\ c.kind = "set" /\ c.file = "config" /\ c.before = disk["config"]
      /\ c.cand = shell[o].cand /\ c.crossed = shell[o].crossed /\ c.failed = shell[o].failed
  BY <1>2, <1>4, <1>5 DEF CommandRecords, SetForm
<1>7. Form(c)
  BY <1>1, <1>4, <1>5, <1>6 DEF Form, ManifestForm, SetForm
<1>8. Holds(o)' /\ Knows(o)'
  <2>1. shell'[o] = c
    BY <1>3 DEF Moves
  <2>2. ~c.crossed => Loads(disk)
    BY <1>1, <1>4, <1>6 DEF Knows, SetKnows, SetForm
  <2> QED BY <1>1, <1>4, <1>5, <1>6, <2>1, <2>2 DEF Holds, Knows, SetKnows
<1> QED BY <1>1, <1>3, <1>6, <1>7, <1>8, DirSame, CommandMovesOn

\* A config set or an edit puts its candidate in place.
LEMMA CandidateWritten ==
  ASSUME EditInv, NEW o \in Terminals, SetForm(shell[o]) \/ EditForm(shell[o]), shell[o].at \in {"publish", "rename"},
         disk' = [disk EXCEPT ![shell[o].file] = shell[o].cand], UNCHANGED <<bak, archive, contents, begun, killed, overwrote>>
  PROVE  /\ DirInv' /\ ArchiveInv' /\ shell[o].file \in ConfigFiles
         /\ disk' \in [Paths -> Things] /\ disk'[shell[o].file] = shell[o].cand
         /\ \A q \in Paths : q # shell[o].file => disk'[q] = disk[q]
         /\ Present(disk, "config") => Present(disk', "config")
<1>1. PICK f, x : f = shell[o].file /\ x = shell[o].cand
  OBVIOUS
<1>2. f \in ConfigFiles /\ x \in Contents /\ x.v >= 0
  BY <1>1 DEF SetForm, EditForm, ConfigFiles, Discovered
<1>3. f \in Paths /\ Fits(f, x) /\ x.v # TornNumber
  <2>1. x.v # -1 /\ x.v # -2
    BY <1>2 DEF Contents
  <2> QED BY <1>2, <2>1, EditFacts, FileFits
<1>4. DirInv /\ contents' \in 1..MaxContents /\ overwrote' \in BOOLEAN
  BY DEF EditInv, DirInv
<1>5. DirInv'
  BY <1>1, <1>3, <1>4, DirWritten
<1>6. /\ disk' \in [Paths -> Things] /\ disk'[f] = x /\ \A q \in Paths : q # f => disk'[q] = disk[q]
      /\ \A q \in Paths : Present(disk, q) => Present(disk', q)
  BY <1>1, <1>3, <1>4, DiskWritten
<1>7. ArchiveInv'
  BY DEF EditInv, ArchiveInv
<1> QED BY <1>1, <1>2, <1>5, <1>6, <1>7, EditFacts

\* The rename over config.yaml.
LEMMA EditPublishes == ASSUME EditInv, NEW o \in Terminals, WriteFileAtomic(o) PROVE EditInv'
<1>1. /\ shell[o].at = "publish" /\ UNCHANGED <<bak, archive, contents, begun, killed, overwrote>>
      /\ Step(o, "check") /\ disk' = [disk EXCEPT ![shell[o].file] = shell[o].cand]
  BY DEF WriteFileAtomic
<1>2. PICK c : c = [shell[o] EXCEPT !.at = "check"]
  OBVIOUS
<1>3. Moves(o, c) /\ ~AtRest(o)
  BY <1>1, <1>2, StepMoves DEF AtRest
<1>4. SetForm(shell[o]) /\ shell[o] \in CommandRecords /\ Holds(o) /\ Knows(o)
  BY <1>1, CommandType, PlaceTells
<1>5. /\ DirInv' /\ ArchiveInv' /\ disk' \in [Paths -> Things] /\ disk'["config"] = shell[o].cand
      /\ \A q \in Paths : q # "config" => disk'[q] = disk[q]
      /\ Present(disk, "config") => Present(disk', "config")
  BY <1>1, <1>4, CandidateWritten DEF SetForm
<1>6. /\ c \in CommandRecords /\ c.at = "check" /\ c.kind = "set" /\ c.file = "config" /\ c.before = shell[o].before
      /\ c.cand = shell[o].cand /\ c.crossed = shell[o].crossed /\ c.failed = shell[o].failed
  BY <1>2, <1>4, PlaceMoves DEF Places, SetForm
<1>7. Form(c)
  BY <1>1, <1>4, <1>6 DEF Form, ManifestForm, SetForm
<1>8. Holds(o)' /\ Knows(o)'
  <2>1. shell'[o] = c
    BY <1>3 DEF Moves
  <2>2. ~c.crossed => Loads(disk) /\ c.before = disk["config"]
    BY <1>1, <1>4, <1>6 DEF Knows, SetKnows, SetForm
  <2>3. ~c.crossed => [disk' EXCEPT !["config"] = c.before] = disk
    BY <1>5, <2>2, EditFacts DEF EditInv, DirInv
  <2>4. Present(disk', "config")
    BY <1>1, <1>4, <1>5 DEF Holds
  <2>5. Holds(o)'
    BY <1>1, <1>4, <1>6, <2>1, <2>4 DEF Holds
  <2>6. Knows(o)'
    <3> SUFFICES ASSUME ~c.crossed
                 PROVE  disk'["config"] = c.cand /\ Loads([disk' EXCEPT !["config"] = c.before])
      BY <1>6, <2>1 DEF Knows, SetKnows, Undone
    <3> QED BY <1>5, <1>6, <2>2, <2>3
  <2> QED BY <2>5, <2>6
<1> QED BY <1>1, <1>3, <1>5, <1>6, <1>7, <1>8, CommandMovesOn

\* persistWithValidation loads what it wrote.
LEMMA EditLoads == ASSUME EditInv, NEW o \in Terminals, persistLoads(o) PROVE EditInv'
<1>1. /\ shell[o].at = "check" /\ UNCHANGED <<disk, bak, archive, contents, begun, killed, overwrote>>
      /\ Step(o, IF Loads(disk) THEN "done" ELSE "rollback")
  BY DEF persistLoads
<1>2. PICK a \in {"done", "rollback"} : a = IF Loads(disk) THEN "done" ELSE "rollback"
  OBVIOUS
<1>3. PICK c : c = [shell[o] EXCEPT !.at = a]
  OBVIOUS
<1>4. Moves(o, c) /\ ~AtRest(o)
  BY <1>1, <1>2, <1>3, StepMoves DEF AtRest
<1>5. SetForm(shell[o]) /\ shell[o] \in CommandRecords /\ Holds(o) /\ Knows(o)
  BY <1>1, CommandType, PlaceTells
<1>6. /\ c \in CommandRecords /\ c.at = a /\ c.kind = "set" /\ c.file = "config" /\ c.before = shell[o].before
      /\ c.cand = shell[o].cand /\ c.crossed = shell[o].crossed /\ c.failed = shell[o].failed
  BY <1>2, <1>3, <1>5, PlaceMoves DEF Places, SetForm
<1>7. Form(c)
  BY <1>1, <1>2, <1>5, <1>6 DEF Form, ManifestForm, SetForm
<1>8. Holds(o)' /\ Knows(o)'
  <2>1. shell'[o] = c
    BY <1>4 DEF Moves
  <2>2. Holds(o)'
    BY <1>1, <1>2, <1>5, <1>6, <2>1 DEF Holds
  <2>3. Knows(o)'
    <3>1. ~c.crossed => disk["config"] = c.cand /\ Loads([disk EXCEPT !["config"] = c.before])
      BY <1>1, <1>5, <1>6 DEF Knows, SetKnows, Undone, SetForm
    <3>2. ~c.failed
      BY <1>1, <1>5, <1>6 DEF SetForm
    <3> SUFFICES ASSUME ~c.crossed
                 PROVE  /\ a = "rollback" => Loads([disk' EXCEPT !["config"] = c.before])
                        /\ a = "done" => Loads(disk') /\ disk'["config"] = IF c.failed THEN c.before ELSE c.cand
      BY <1>2, <1>6, <2>1 DEF Knows, SetKnows, Undone
    <3>3. a = "done" => Loads(disk)
      BY <1>2
    <3> QED BY <1>1, <3>1, <3>2, <3>3
  <2> QED BY <2>2, <2>3
<1> QED BY <1>1, <1>2, <1>4, <1>6, <1>7, <1>8, DirSame, CommandMovesOn

\* The way back.
LEMMA EditRestores == ASSUME EditInv, NEW o \in Terminals, persistRestores(o) PROVE EditInv'
<1>1. /\ shell[o].at = "rollback" /\ UNCHANGED <<bak, archive, contents, begun, killed, overwrote>>
      /\ disk' = [disk EXCEPT !["config"] = shell[o].before]
      /\ shell' = [shell EXCEPT ![o].at = "done", ![o].failed = TRUE]
  BY DEF persistRestores
<1>2. PICK c : c = [shell[o] EXCEPT !.at = "done", !.failed = TRUE]
  OBVIOUS
<1>3. Moves(o, c) /\ ~AtRest(o)
  BY <1>1, <1>2 DEF Moves, Terminals, AtRest
<1>4. SetForm(shell[o]) /\ shell[o] \in CommandRecords /\ Holds(o) /\ Knows(o)
  BY <1>1, CommandType, PlaceTells
<1>5. /\ c \in CommandRecords /\ c.at = "done" /\ c.kind = "set" /\ c.file = "config" /\ c.before = shell[o].before
      /\ c.cand = shell[o].cand /\ c.crossed = shell[o].crossed /\ c.failed
  BY <1>2, <1>4 DEF CommandRecords, SetForm
<1>6. Form(c)
  BY <1>4, <1>5 DEF Form, ManifestForm, SetForm
<1>7. PICK x : x = shell[o].before
  OBVIOUS
<1>8. Fits("config", x) /\ (x.v = TornNumber => overwrote)
  <2>1. x \in Contents /\ x.v # -1 /\ (x.v = TornNumber => overwrote)
    BY <1>1, <1>4, <1>7 DEF CommandRecords, SetForm, Holds
  <2> QED BY <2>1, FileFits DEF ConfigFiles, Discovered
<1>9. DirInv /\ contents' \in 1..MaxContents /\ overwrote' \in BOOLEAN
  BY <1>1 DEF EditInv, DirInv
<1>10. DirInv'
  BY <1>1, <1>7, <1>8, <1>9, EditFacts, DirWritten
<1>11. disk'["config"] = x /\ (Present(disk, "config") => Present(disk', "config"))
  BY <1>1, <1>7, <1>8, <1>9, EditFacts, DiskWritten
<1>12. ArchiveInv'
  BY <1>1 DEF EditInv, ArchiveInv
<1>13. Holds(o)' /\ Knows(o)'
  <2>1. shell'[o] = c
    BY <1>3 DEF Moves
  <2>2. ~c.crossed => Loads(disk')
    BY <1>1, <1>4, <1>5 DEF Knows, SetKnows, SetForm, Undone
  <2>3. Holds(o)'
    BY <1>5, <2>1 DEF Holds
  <2>4. Knows(o)'
    BY <1>5, <1>7, <1>11, <2>1, <2>2 DEF Knows, SetKnows
  <2> QED BY <2>3, <2>4
<1> QED BY <1>1, <1>3, <1>5, <1>6, <1>10, <1>11, <1>12, <1>13, CommandMovesOn

\* writeFileAtomicWithBackup begins the copy.
LEMMA EditBacksUp == ASSUME EditInv, NEW o \in Terminals, BackupBegins(o) PROVE EditInv'
<1>1. PICK f : f = shell[o].file
  OBVIOUS
<1>2. PICK a \in {"copy", "rename"} : a = IF Present(disk, f) THEN "copy" ELSE "rename"
  OBVIOUS
<1>3. /\ shell[o].at = "bak" /\ UNCHANGED <<disk, archive, contents, begun, killed, overwrote>>
      /\ shell' = [shell EXCEPT ![o].at = a, ![o].before = disk[f]]
      /\ bak' = IF Present(disk, f) THEN [bak EXCEPT ![f] = Content(TornNumber, FALSE, FALSE)] ELSE bak
  BY <1>1, <1>2 DEF BackupBegins
<1>4. PICK c : c = [shell[o] EXCEPT !.at = a, !.before = disk[f]]
  OBVIOUS
<1>5. Moves(o, c) /\ ~AtRest(o)
  BY <1>3, <1>4 DEF Moves, Terminals, AtRest
<1>6. EditForm(shell[o]) /\ shell[o] \in CommandRecords /\ Holds(o) /\ Knows(o) /\ f \in ConfigFiles /\ f \in Paths
  BY <1>1, <1>3, CommandType, PlaceTells, EditFacts DEF EditForm
<1>7. disk[f] \in Contents /\ (disk[f].v = -1 => disk[f] = Absent)
  <2>1. disk[f] # Absent => Fits(f, disk[f])
    BY <1>6 DEF EditInv, DirInv
  <2> QED BY <1>6, <2>1, EditFacts DEF Fits
<1>8. /\ c \in CommandRecords /\ c.at = a /\ c.kind = "edit" /\ c.file = f /\ c.before = disk[f]
      /\ c.cand = shell[o].cand /\ c.crossed = shell[o].crossed
  BY <1>1, <1>2, <1>4, <1>6, <1>7 DEF CommandRecords, EditForm
<1>9. Form(c)
  BY <1>1, <1>2, <1>3, <1>6, <1>8 DEF Form, ManifestForm, EditForm
<1>10. bak' \in [ConfigFiles -> Contents]
  <2>1. Content(TornNumber, FALSE, FALSE) \in Contents
    BY EditFacts DEF Content, Contents, TornNumber
  <2> QED BY <1>3, <2>1 DEF EditInv, DirInv
<1>11. DirInv' /\ ArchiveInv'
  BY <1>3, <1>10 DEF EditInv, DirInv, ArchiveInv
<1>12. Holds(o)' /\ Knows(o)'
  <2>1. shell'[o] = c
    BY <1>5 DEF Moves
  <2>2. a = "rename" => disk[f] = Absent
    BY <1>2, <1>7 DEF Present
  <2> QED BY <1>2, <1>3, <1>8, <2>1, <2>2 DEF Holds, Knows, EditKnows, HashKnows
<1> QED BY <1>2, <1>3, <1>5, <1>8, <1>9, <1>11, <1>12, CommandMovesOn

\* And ends it.
LEMMA EditBackedUp == ASSUME EditInv, NEW o \in Terminals, BackupEnds(o) PROVE EditInv'
<1>1. /\ shell[o].at = "copy" /\ UNCHANGED <<disk, archive, contents, begun, killed, overwrote>>
      /\ Step(o, "rename") /\ bak' = [bak EXCEPT ![shell[o].file] = shell[o].before]
  BY DEF BackupEnds
<1>2. PICK c : c = [shell[o] EXCEPT !.at = "rename"]
  OBVIOUS
<1>3. Moves(o, c) /\ ~AtRest(o)
  BY <1>1, <1>2, StepMoves DEF AtRest
<1>4. EditForm(shell[o]) /\ shell[o] \in CommandRecords /\ Holds(o) /\ Knows(o)
  BY <1>1, CommandType, PlaceTells
<1>5. /\ c \in CommandRecords /\ c.at = "rename" /\ c.kind = "edit" /\ c.file = shell[o].file /\ c.before = shell[o].before
      /\ c.cand = shell[o].cand /\ c.crossed = shell[o].crossed
  BY <1>2, <1>4, PlaceMoves DEF Places, EditForm
<1>6. Form(c)
  BY <1>1, <1>4, <1>5 DEF Form, ManifestForm, EditForm
<1>7. c.file \in ConfigFiles /\ c.before \in Contents
  BY <1>4, <1>5 DEF EditForm, CommandRecords
<1>8. bak' \in [ConfigFiles -> Contents] /\ bak'[c.file] = c.before
  BY <1>1, <1>5, <1>7 DEF EditInv, DirInv
<1>9. DirInv' /\ ArchiveInv'
  BY <1>1, <1>8 DEF EditInv, DirInv, ArchiveInv
<1>10. Holds(o)' /\ Knows(o)'
  <2>1. shell'[o] = c
    BY <1>3 DEF Moves
  <2>2. ~c.crossed => c.before = disk[c.file]
    BY <1>1, <1>4, <1>5 DEF Knows, EditKnows, EditForm
  <2> QED BY <1>1, <1>5, <1>8, <2>1, <2>2 DEF Holds, Knows, EditKnows, HashKnows
<1> QED BY <1>1, <1>3, <1>5, <1>6, <1>9, <1>10, CommandMovesOn

\* The rename over the file of an edit.
LEMMA EditRenames == ASSUME EditInv, NEW o \in Terminals, writeFileAtomicWithBackup(o) PROVE EditInv'
<1>1. /\ shell[o].at = "rename" /\ UNCHANGED <<bak, archive, contents, begun, killed, overwrote>>
      /\ Step(o, "hash") /\ disk' = [disk EXCEPT ![shell[o].file] = shell[o].cand]
  BY DEF writeFileAtomicWithBackup
<1>2. PICK c : c = [shell[o] EXCEPT !.at = "hash"]
  OBVIOUS
<1>3. Moves(o, c) /\ ~AtRest(o)
  BY <1>1, <1>2, StepMoves DEF AtRest
<1>4. EditForm(shell[o]) /\ shell[o] \in CommandRecords /\ Holds(o) /\ Knows(o)
  BY <1>1, CommandType, PlaceTells
<1>5. DirInv' /\ ArchiveInv' /\ (Present(disk, "config") => Present(disk', "config"))
  BY <1>1, <1>4, CandidateWritten
<1>6. /\ c \in CommandRecords /\ c.at = "hash" /\ c.kind = "edit" /\ c.file = shell[o].file /\ c.before = shell[o].before
      /\ c.crossed = shell[o].crossed
  BY <1>2, <1>4, PlaceMoves DEF Places, EditForm
<1>7. Form(c)
  BY <1>4, <1>6 DEF Form, ManifestForm, EditForm
<1>8. Holds(o)' /\ Knows(o)'
  <2>1. shell'[o] = c
    BY <1>3 DEF Moves
  <2>2. ~c.crossed /\ c.before # Absent => c.before = bak[c.file]
    BY <1>1, <1>4, <1>6 DEF Knows, EditKnows, EditForm
  <2>3. Holds(o)'
    BY <1>6, <2>1 DEF Holds
  <2>4. Knows(o)'
    BY <1>1, <1>6, <2>1, <2>2 DEF Knows, EditKnows, HashKnows
  <2> QED BY <2>3, <2>4
<1> QED BY <1>1, <1>3, <1>5, <1>6, <1>7, <1>8, CommandMovesOn

\* The files are hashed.
LEMMA EditHashes == ASSUME EditInv, NEW o \in Terminals, refreshHashes(o) PROVE EditInv'
<1>1. PICK m : m = GenerateChecksums(disk)
  OBVIOUS
<1>2. /\ shell[o].at = "hash" /\ UNCHANGED <<disk, bak, archive, contents, begun, killed, overwrote>>
      /\ shell' = [shell EXCEPT ![o].at = "manifest", ![o].cand = m]
  BY <1>1 DEF refreshHashes
<1>3. PICK c : c = [shell[o] EXCEPT !.at = "manifest", !.cand = m]
  OBVIOUS
<1>4. Moves(o, c) /\ ~AtRest(o)
  BY <1>2, <1>3 DEF Moves, Terminals, AtRest
<1>5. /\ shell[o].kind \in {"edit", "lock", "init", "restore"} /\ Form(shell[o]) /\ shell[o] \in CommandRecords
      /\ Holds(o) /\ Knows(o)
  BY <1>2, CommandType, PlaceTells
<1>6. m \in Manifests /\ m \in Things
  BY <1>1, ManifestType, EditFacts DEF EditInv
<1>7. /\ c \in CommandRecords /\ c.at = "manifest" /\ c.kind = shell[o].kind /\ c.file = shell[o].file
      /\ c.before = shell[o].before /\ c.cand = m /\ c.crossed = shell[o].crossed
  BY <1>3, <1>5, <1>6 DEF CommandRecords
<1>8. Form(c)
  BY <1>2, <1>5, <1>6, <1>7, RestForm DEF Form, ManifestForm, SetForm, EditForm, LockForm, FillForm, BackupForm
<1>9. Holds(o)' /\ Knows(o)'
  <2>1. shell'[o] = c
    BY <1>4 DEF Moves
  <2>2. ~c.crossed /\ c.kind = "edit" /\ c.before # Absent => c.before \in {disk[c.file], bak[c.file]}
    BY <1>5, <1>7 DEF Knows, EditKnows
  <2>3. Holds(o)'
    BY <1>7, <2>1 DEF Holds
  <2>4. m = GenerateChecksums(disk')
    BY <1>1, <1>2
  <2>5. Knows(o)'
    BY <1>2, <1>5, <1>7, <2>1, <2>2, <2>4 DEF Knows, EditKnows, HashKnows
  <2> QED BY <2>3, <2>5
<1> QED BY <1>2, <1>4, <1>7, <1>8, <1>9, DirSame, CommandMovesOn

\* The manifest is replaced.
LEMMA EditSeals == ASSUME EditInv, NEW o \in Terminals, writeChecksumsAtomic(o) PROVE EditInv'
<1>1. /\ shell[o].at = "manifest" /\ UNCHANGED <<bak, archive, contents, begun, killed, overwrote>>
      /\ Step(o, "done") /\ disk' = [disk EXCEPT ![".checksums"] = shell[o].cand]
  BY DEF writeChecksumsAtomic
<1>2. PICK c : c = [shell[o] EXCEPT !.at = "done"]
  OBVIOUS
<1>3. Moves(o, c) /\ ~AtRest(o)
  BY <1>1, <1>2, StepMoves DEF AtRest
<1>4. /\ shell[o].kind \in {"edit", "lock", "init", "restore"} /\ Form(shell[o]) /\ shell[o] \in CommandRecords
      /\ Holds(o) /\ Knows(o)
  BY <1>1, CommandType, PlaceTells
<1>5. PICK m : m = shell[o].cand
  OBVIOUS
<1>6. m \in Manifests /\ Fits(".checksums", m) /\ m.v # TornNumber
  BY <1>1, <1>4, <1>5, ManifestFits DEF Form, ManifestForm
<1>7. DirInv /\ contents' \in 1..MaxContents /\ overwrote' \in BOOLEAN
  BY <1>1 DEF EditInv, DirInv
<1>8. DirInv'
  BY <1>1, <1>5, <1>6, <1>7, EditFacts, DirWritten
<1>9. /\ disk'[".checksums"] = m /\ \A q \in Paths : q # ".checksums" => disk'[q] = disk[q]
      /\ Present(disk, "config") => Present(disk', "config")
  BY <1>1, <1>5, <1>6, <1>7, EditFacts, DiskWritten
<1>10. ArchiveInv'
  BY <1>1 DEF EditInv, ArchiveInv
<1>11. /\ c \in CommandRecords /\ c.at = "done" /\ c.kind = shell[o].kind /\ c.file = shell[o].file
       /\ c.before = shell[o].before /\ c.cand = m /\ c.crossed = shell[o].crossed
  BY <1>2, <1>4, <1>5, PlaceMoves DEF Places
<1>12. Form(c)
  BY <1>1, <1>4, <1>11, RestForm DEF Form, ManifestForm, SetForm, EditForm, LockForm, FillForm, BackupForm
<1>13. Holds(o)' /\ Knows(o)'
  <2>1. shell'[o] = c
    BY <1>3 DEF Moves
  <2>2. ~c.crossed /\ c.kind = "edit" /\ c.before # Absent => c.before \in {disk'[c.file], bak'[c.file]}
    <3>1. c.kind = "edit" => c.file \in Paths /\ c.file # ".checksums"
      BY <1>12, RestForm, EditFacts DEF Form, SetForm, EditForm, LockForm, FillForm, BackupForm
    <3>2. ~c.crossed /\ c.kind = "edit" /\ c.before # Absent => c.before \in {disk[c.file], bak[c.file]}
      BY <1>4, <1>11 DEF Knows, EditKnows
    <3> QED BY <1>1, <1>9, <3>1, <3>2
  <2>3. Holds(o)'
    BY <1>11, <2>1 DEF Holds
  <2>4. ~c.crossed => disk'[".checksums"] = GenerateChecksums(disk')
    <3>1. \A f \in Discovered : disk'[f] = disk[f]
      BY <1>9, EditFacts DEF ConfigFiles
    <3>2. GenerateChecksums(disk') = GenerateChecksums(disk)
      BY <3>1, ManifestSame
    <3>3. ~c.crossed => m = GenerateChecksums(disk)
      BY <1>1, <1>4, <1>5, <1>11 DEF Knows, HashKnows
    <3> QED BY <1>9, <3>2, <3>3
  <2>5. Knows(o)'
    BY <1>4, <1>11, <2>1, <2>2, <2>4 DEF Knows, EditKnows, HashKnows
  <2> QED BY <2>3, <2>5
<1> QED BY <1>1, <1>3, <1>8, <1>9, <1>10, <1>11, <1>12, <1>13, CommandMovesOn

\* Nothing is left to do.
LEMMA NothingToDo == \E t : t = <<>> /\ t \in Seq(Entries) \union Suffixes
<1>1. <<>> \in Seq(Entries) \union Suffixes
  OBVIOUS
<1> QED BY <1>1

\* After a file that an init or a restore wrote or kept.
LEMMA FilledForm ==
  ASSUME NEW s, Form(s), FillForm(s), s.at \in {"open", "fill"}, NEW c, c = Filled(s)
  PROVE  Form(c) /\ c.crossed = s.crossed /\ c.kind = s.kind /\ c.at \in {"open", "hash", "done"} /\ (c.at = "done" => c.failed)
<1>1. s \in CommandRecords /\ s.todo \in Seq(Entries) /\ s.todo # <<>> /\ s.kind \in {"init", "restore"}
  BY DEF Form, FillForm
<1>2. CASE Len(s.todo) > 1
  <2>1. PICK t : t = Tail(s.todo)
    OBVIOUS
  <2>2. t \in Seq(Entries) /\ t # <<>>
    <3>1. t \in Seq(Entries) /\ Len(t) = Len(s.todo) - 1
      BY <1>1, <1>2, <2>1
    <3> QED BY <1>2, <3>1
  <2>3. c = [s EXCEPT !.at = "open", !.todo = t]
    BY <1>2, <2>1 DEF Filled
  <2>4. c \in CommandRecords /\ c.at = "open" /\ c.todo = t /\ c.kind = s.kind /\ c.crossed = s.crossed
    BY <1>1, <2>2, <2>3 DEF CommandRecords
  <2> QED BY <1>1, <2>2, <2>4 DEF Form, ManifestForm, FillForm
<1>3. CASE ~(Len(s.todo) > 1) /\ s.kind = "restore" /\ ~archive.closed
  <2>1. PICK t : t = <<>> /\ t \in Seq(Entries) \union Suffixes
    BY NothingToDo
  <2>2. c = [s EXCEPT !.at = "done", !.todo = t, !.failed = TRUE]
    BY <1>3, <2>1 DEF Filled
  <2>3. c \in CommandRecords /\ c.at = "done" /\ c.kind = s.kind /\ c.crossed = s.crossed /\ c.failed
    BY <1>1, <2>1, <2>2 DEF CommandRecords
  <2> QED BY <1>1, <2>3 DEF Form, ManifestForm, FillForm
<1>4. CASE ~(Len(s.todo) > 1) /\ ~(s.kind = "restore" /\ ~archive.closed)
  <2>1. PICK t : t = <<>> /\ t \in Seq(Entries) \union Suffixes
    BY NothingToDo
  <2>2. c = [s EXCEPT !.at = "hash", !.todo = t]
    BY <1>4, <2>1 DEF Filled
  <2>3. c \in CommandRecords /\ c.at = "hash" /\ c.kind = s.kind /\ c.crossed = s.crossed
    BY <1>1, <2>1, <2>2 DEF CommandRecords
  <2> QED BY <1>1, <2>3 DEF Form, ManifestForm, FillForm
<1> QED BY <1>2, <1>3, <1>4

\* A command that fills counts on nothing but having begun to overwrite.
LEMMA FillCounts ==
  ASSUME NEW o \in Terminals, NEW c, shell'[o] = c, c.kind \in {"init", "restore"},
         c.at \in {"open", "fill", "hash", "done"}, c.at = "fill" => overwrote', c.at = "done" => c.failed
  PROVE  Holds(o)' /\ Knows(o)'
<1>1. Holds(o)'
  BY DEF Holds
<1>2. Knows(o)'
  BY DEF Knows, HashKnows
<1> QED BY <1>1, <1>2

\* What is next in hand.
LEMMA NextEntry ==
  ASSUME EditInv, NEW o \in Terminals, shell[o].at \in {"open", "fill"}
  PROVE  LET e == Head(shell[o].todo)
         IN e \in Entries /\ e.path \in Paths /\ Fits(e.path, e.content)
<1>1. FillForm(shell[o])
  BY CommandType, PlaceTells
<1>2. shell[o].todo \in Seq(Entries) /\ shell[o].todo # <<>>
  BY <1>1 DEF FillForm
<1>3. PICK e : e = Head(shell[o].todo)
  OBVIOUS
<1>4. e \in Entries
  BY <1>2, <1>3
<1> QED BY <1>3, <1>4 DEF Entries

\* A file is kept, or truncated.
LEMMA EditOpens == ASSUME EditInv, NEW o \in Terminals, writeIfNeeded(o) PROVE EditInv'
<1>1. PICK p : p = Head(shell[o].todo).path
  OBVIOUS
<1>2. shell[o].at = "open" /\ UNCHANGED <<bak, archive, contents, begun, killed>>
  BY DEF writeIfNeeded
<1>3. p \in Paths /\ ~AtRest(o) /\ Form(shell[o]) /\ FillForm(shell[o]) /\ shell[o] \in CommandRecords
  BY <1>1, <1>2, NextEntry, CommandType, PlaceTells DEF AtRest
<1>4. CASE shell[o].keep /\ Present(disk, p)
  <2>1. shell' = [shell EXCEPT ![o] = Filled(@)] /\ UNCHANGED <<disk, overwrote>>
    BY <1>1, <1>4 DEF writeIfNeeded
  <2>2. PICK c : c = Filled(shell[o])
    OBVIOUS
  <2>3. Moves(o, c)
    BY <2>1, <2>2 DEF Moves, Terminals
  <2>4. Form(c) /\ c.crossed = shell[o].crossed /\ c.kind = shell[o].kind /\ c.at \in {"open", "hash", "done"} /\ (c.at = "done" => c.failed)
    BY <1>2, <1>3, <2>2, FilledForm
  <2>5. Holds(o)' /\ Knows(o)'
    <3>1. shell'[o] = c /\ c.kind \in {"init", "restore"} /\ c.at # "fill"
      BY <1>3, <2>3, <2>4 DEF Moves, FillForm
    <3> QED BY <2>4, <3>1, FillCounts
  <2> QED BY <1>2, <1>3, <2>1, <2>3, <2>4, <2>5, DirSame, CommandMovesOn
<1>5. CASE ~(shell[o].keep /\ Present(disk, p))
  <2>1. (\E t \in Torn(p) : disk' = [disk EXCEPT ![p] = t]) /\ Step(o, "fill") /\ overwrote' = TRUE
    BY <1>1, <1>5 DEF writeIfNeeded
  <2>2. PICK t \in Torn(p) : disk' = [disk EXCEPT ![p] = t]
    BY <2>1
  <2>3. PICK c : c = [shell[o] EXCEPT !.at = "fill"]
    OBVIOUS
  <2>4. Moves(o, c)
    BY <2>1, <2>3, StepMoves
  <2>5. c \in CommandRecords /\ c.at = "fill" /\ c.kind = shell[o].kind /\ c.todo = shell[o].todo /\ c.crossed = shell[o].crossed
    BY <1>3, <2>3, PlaceMoves DEF Places
  <2>6. Form(c)
    BY <1>2, <1>3, <2>5 DEF Form, ManifestForm, FillForm
  <2>7. Fits(p, t) /\ DirInv /\ contents' \in 1..MaxContents
    BY <1>2, <1>3, TornFits DEF EditInv, DirInv
  <2>8. DirInv'
    BY <1>2, <1>3, <2>1, <2>2, <2>7, DirWritten
  <2>9. Present(disk, "config") => Present(disk', "config")
    BY <1>3, <2>2, <2>7, EditFacts, DiskWritten
  <2>10. ArchiveInv'
    BY <1>2 DEF EditInv, ArchiveInv
  <2>11. Holds(o)' /\ Knows(o)'
    <3>1. shell'[o] = c /\ c.kind \in {"init", "restore"}
      BY <1>3, <2>4, <2>5 DEF Moves, FillForm
    <3> QED BY <2>1, <2>5, <3>1, FillCounts
  <2> QED BY <1>2, <1>3, <2>1, <2>4, <2>5, <2>6, <2>8, <2>9, <2>10, <2>11, CommandMovesOn
<1> QED BY <1>4, <1>5

\* The file is filled.
LEMMA EditFills == ASSUME EditInv, NEW o \in Terminals, Fill(o) PROVE EditInv'
<1>1. PICK p, x : p = Head(shell[o].todo).path /\ x = Head(shell[o].todo).content
  OBVIOUS
<1>2. /\ shell[o].at = "fill" /\ UNCHANGED <<bak, archive, contents, begun, killed, overwrote>>
      /\ disk' = [disk EXCEPT ![p] = x] /\ shell' = [shell EXCEPT ![o] = Filled(@)]
  BY <1>1 DEF Fill
<1>3. p \in Paths /\ Fits(p, x)
  BY <1>1, <1>2, NextEntry
<1>4. ~AtRest(o) /\ Form(shell[o]) /\ FillForm(shell[o]) /\ overwrote
  BY <1>2, CommandType, PlaceTells DEF AtRest, Holds
<1>5. PICK c : c = Filled(shell[o])
  OBVIOUS
<1>6. Moves(o, c)
  BY <1>2, <1>5 DEF Moves, Terminals
<1>7. Form(c) /\ c.crossed = shell[o].crossed /\ c.kind = shell[o].kind /\ c.at \in {"open", "hash", "done"} /\ (c.at = "done" => c.failed)
  BY <1>2, <1>4, <1>5, FilledForm
<1>8. DirInv /\ contents' \in 1..MaxContents /\ overwrote' \in BOOLEAN /\ overwrote'
  BY <1>2, <1>4 DEF EditInv, DirInv
<1>9. DirInv'
  BY <1>2, <1>3, <1>8, DirWritten
<1>10. Present(disk, "config") => Present(disk', "config")
  BY <1>2, <1>3, <1>8, EditFacts, DiskWritten
<1>11. ArchiveInv'
  BY <1>2 DEF EditInv, ArchiveInv
<1>12. Holds(o)' /\ Knows(o)'
  <2>1. shell'[o] = c /\ c.kind \in {"init", "restore"} /\ c.at # "fill"
    BY <1>4, <1>6, <1>7 DEF Moves, FillForm
  <2> QED BY <1>7, <2>1, FillCounts
<1> QED BY <1>2, <1>4, <1>6, <1>7, <1>9, <1>10, <1>11, <1>12, CommandMovesOn

\* Or is not, at the end of an archive that was cut off.
LEMMA EditFallsShort == ASSUME EditInv, NEW o \in Terminals, FillFails(o) PROVE EditInv'
<1>0. PICK t : t = <<>> /\ t \in Seq(Entries) \union Suffixes
  BY NothingToDo
<1>1. /\ shell[o].at = "fill" /\ UNCHANGED <<disk, bak, archive, contents, begun, killed, overwrote>>
      /\ shell' = [shell EXCEPT ![o].at = "done", ![o].todo = t, ![o].failed = TRUE]
  BY <1>0 DEF FillFails
<1>2. ~AtRest(o) /\ Form(shell[o]) /\ FillForm(shell[o]) /\ shell[o] \in CommandRecords
  BY <1>1, CommandType, PlaceTells DEF AtRest
<1>3. PICK c : c = [shell[o] EXCEPT !.at = "done", !.todo = t, !.failed = TRUE]
  OBVIOUS
<1>4. Moves(o, c)
  BY <1>1, <1>3 DEF Moves, Terminals
<1>5. c \in CommandRecords /\ c.at = "done" /\ c.kind = shell[o].kind /\ c.crossed = shell[o].crossed /\ c.failed
  BY <1>0, <1>2, <1>3 DEF CommandRecords
<1>6. Form(c) /\ c.kind \in {"init", "restore"}
  BY <1>2, <1>5 DEF Form, ManifestForm, FillForm
<1>7. Holds(o)' /\ Knows(o)'
  <2>1. shell'[o] = c
    BY <1>4 DEF Moves
  <2> QED BY <1>5, <1>6, <2>1, FillCounts
<1> QED BY <1>1, <1>2, <1>4, <1>5, <1>6, <1>7, DirSame, CommandMovesOn

\* What is left of the items of a backup: the head is not among the rest.
ItemThen(t, p, left) ==
  /\ p \in Paths /\ (left = <<>> \/ left \in Suffixes)
  /\ 1 \in DOMAIN t /\ p = t[1] /\ \A j \in DOMAIN left : left[j] # p /\ \E k \in DOMAIN t : left[j] = t[k]
  /\ t = BackupItems => p = "config"
LEMMA ItemsLeft ==
  ASSUME NEW t \in Suffixes, NEW p, NEW left, p = Head(t), left = Tail(t)
  PROVE  ItemThen(t, p, left)
<1>0. "config" \in Paths /\ "routes" \in Paths /\ "webhooks" \in Paths /\ ".checksums" \in Paths /\ "plugin" \in Paths
  BY DEF Paths, ConfigFiles, Discovered
<1>1. CASE t = BackupItems
  <2>1. p = "config" /\ left = <<"routes", "webhooks", ".checksums", "plugin">> /\ DOMAIN t = 1..5 /\ DOMAIN left = 1..4
    BY <1>1 DEF BackupItems
  <2>2. \A j \in 1..4 : left[j] # p /\ left[j] = t[j + 1] /\ j + 1 \in 1..5
    BY <1>1, <2>1 DEF BackupItems
  <2>3. p \in Paths /\ left \in Suffixes
    BY <1>0, <2>1 DEF Suffixes
  <2> QED BY <1>1, <2>1, <2>2, <2>3 DEF BackupItems, ItemThen
<1>2. CASE t = <<"routes", "webhooks", ".checksums", "plugin">>
  <2>1. p = "routes" /\ left = <<"webhooks", ".checksums", "plugin">> /\ DOMAIN t = 1..4 /\ DOMAIN left = 1..3
    BY <1>2
  <2>2. \A j \in 1..3 : left[j] # p /\ left[j] = t[j + 1] /\ j + 1 \in 1..4
    BY <1>2, <2>1
  <2>3. p \in Paths /\ left \in Suffixes
    BY <1>0, <2>1 DEF Suffixes
  <2>4. t # BackupItems
    BY <1>2 DEF BackupItems
  <2> QED BY <1>2, <2>1, <2>2, <2>3, <2>4 DEF ItemThen
<1>3. CASE t = <<"webhooks", ".checksums", "plugin">>
  <2>1. p = "webhooks" /\ left = <<".checksums", "plugin">> /\ DOMAIN t = 1..3 /\ DOMAIN left = 1..2
    BY <1>3
  <2>2. \A j \in 1..2 : left[j] # p /\ left[j] = t[j + 1] /\ j + 1 \in 1..3
    BY <1>3, <2>1
  <2>3. p \in Paths /\ left \in Suffixes
    BY <1>0, <2>1 DEF Suffixes
  <2>4. t # BackupItems
    BY <1>3 DEF BackupItems
  <2> QED BY <1>3, <2>1, <2>2, <2>3, <2>4 DEF ItemThen
<1>4. CASE t = <<".checksums", "plugin">>
  <2>1. p = ".checksums" /\ left = <<"plugin">> /\ DOMAIN t = 1..2 /\ DOMAIN left = 1..1
    BY <1>4
  <2>2. \A j \in 1..1 : left[j] # p /\ left[j] = t[j + 1] /\ j + 1 \in 1..2
    BY <1>4, <2>1
  <2>3. p \in Paths /\ left \in Suffixes
    BY <1>0, <2>1 DEF Suffixes
  <2>4. t # BackupItems
    BY <1>4 DEF BackupItems
  <2> QED BY <1>4, <2>1, <2>2, <2>3, <2>4 DEF ItemThen
<1>5. CASE t = <<"plugin">>
  <2>1. p = "plugin" /\ left = <<>> /\ DOMAIN t = 1..1 /\ DOMAIN left = {}
    BY <1>5
  <2>2. p \in Paths
    BY <1>0, <2>1
  <2>3. t # BackupItems
    BY <1>5 DEF BackupItems
  <2> QED BY <1>5, <2>1, <2>2, <2>3 DEF ItemThen
<1> QED BY <1>1, <1>2, <1>3, <1>4, <1>5 DEF Suffixes

\* The archive afterwards, when there was something at the path.
Grown(es, p) ==
  /\ es \in Seq(Entries) /\ es # <<>> /\ es[1].path = "config"
  /\ \A i, j \in DOMAIN es : i # j => es[i].path # es[j].path
  /\ \A i \in DOMAIN es : es[i].path = p \/ \E k \in DOMAIN archive.entries : es[i].path = archive.entries[k].path
LEMMA ArchiveGrows ==
  ASSUME ArchiveInv, DirInv, NEW p \in Paths, Present(disk, p), NEW es, es = Append(archive.entries, Entry(p, disk[p])),
         \A i \in DOMAIN archive.entries : archive.entries[i].path # p, archive.entries = <<>> => p = "config"
  PROVE  Grown(es, p)
<1>1. PICK e, old : e = Entry(p, disk[p]) /\ old = archive.entries
  OBVIOUS
<1>2. e \in Entries /\ e.path = p
  <2>1. disk[p] # Absent /\ disk[p] \in Things
    BY EditFacts DEF Present, DirInv
  <2>2. Fits(p, disk[p])
    BY <2>1 DEF DirInv
  <2> QED BY <1>1, <2>1, <2>2 DEF Entries, Entry
<1>3. old \in Seq(Entries) /\ Len(old) \in Nat /\ DOMAIN old = 1..Len(old)
  BY <1>1 DEF ArchiveInv
<1>4. es = Append(old, e)
  BY <1>1
<1>5. /\ es \in Seq(Entries) /\ Len(es) = Len(old) + 1 /\ DOMAIN es = 1..(Len(old) + 1) /\ es[Len(old) + 1] = e
      /\ \A i \in 1..Len(old) : es[i] = old[i]
  BY <1>2, <1>3, <1>4
<1>6. es # <<>>
  BY <1>3, <1>5
<1>7. es[1].path = "config"
  <2>1. CASE old = <<>>
    <3>1. Len(old) = 0
      BY <2>1
    <3> QED BY <1>1, <1>2, <1>5, <2>1, <3>1
  <2>2. CASE old # <<>>
    <3>1. 1 \in 1..Len(old)
      BY <1>3, <2>2
    <3> QED BY <1>1, <1>5, <2>2, <3>1 DEF ArchiveInv
  <2> QED BY <2>1, <2>2
<1>8. \A i \in DOMAIN es : i = Len(old) + 1 \/ i \in DOMAIN old
  BY <1>3, <1>5
<1>9. \A i \in DOMAIN es : es[i].path = p \/ \E k \in DOMAIN old : es[i].path = old[k].path
  <2> SUFFICES ASSUME NEW i \in DOMAIN es PROVE es[i].path = p \/ \E k \in DOMAIN old : es[i].path = old[k].path
    OBVIOUS
  <2>1. CASE i = Len(old) + 1
    BY <1>2, <1>5, <2>1
  <2>2. CASE i \in DOMAIN old
    BY <1>3, <1>5, <2>2
  <2> QED BY <1>8, <2>1, <2>2
<1>10. \A i, j \in DOMAIN es : i # j => es[i].path # es[j].path
  <2> SUFFICES ASSUME NEW i \in DOMAIN es, NEW j \in DOMAIN es, i # j PROVE es[i].path # es[j].path
    OBVIOUS
  <2>1. \A k \in DOMAIN old : es[k] = old[k] /\ old[k].path # p
    BY <1>1, <1>3, <1>5
  <2>2. CASE i \in DOMAIN old /\ j \in DOMAIN old
    BY <1>1, <2>1, <2>2 DEF ArchiveInv
  <2>3. CASE i = Len(old) + 1 \/ j = Len(old) + 1
    BY <1>2, <1>5, <1>8, <2>1, <2>3
  <2> QED BY <1>8, <2>2, <2>3
<1> QED BY <1>1, <1>5, <1>6, <1>7, <1>9, <1>10 DEF Grown

\* One item of a backup.
LEMMA EditArchives == ASSUME EditInv, NEW o \in Terminals, createConfigBackup(o) PROVE EditInv'
<1>1. PICK t : t = shell[o].todo
  OBVIOUS
<1>2. PICK p, left : p = Head(t) /\ left = Tail(t)
  OBVIOUS
<1>3. PICK es : es = IF Present(disk, p) THEN Append(archive.entries, Entry(p, disk[p])) ELSE archive.entries
  OBVIOUS
<1>4. PICK a \in {"done", "item"} : a = IF left = <<>> THEN "done" ELSE "item"
  OBVIOUS
<1>5. /\ shell[o].at = "item" /\ UNCHANGED <<disk, bak, contents, begun, killed, overwrote>>
      /\ archive' = [entries |-> es, closed |-> left = <<>>]
      /\ shell' = [shell EXCEPT ![o].todo = left, ![o].at = a]
  BY <1>1, <1>2, <1>3, <1>4 DEF createConfigBackup
<1>6. PICK c : c = [shell[o] EXCEPT !.todo = left, !.at = a]
  OBVIOUS
<1>7. Moves(o, c) /\ ~AtRest(o)
  BY <1>5, <1>6 DEF Moves, Terminals, AtRest
<1>8. BackupForm(shell[o]) /\ shell[o] \in CommandRecords /\ Holds(o) /\ t \in Suffixes /\ shell[o].kind = "backup"
  BY <1>1, <1>5, CommandType, PlaceTells DEF BackupForm
<1>9. /\ p \in Paths /\ (left = <<>> \/ left \in Suffixes)
      /\ 1 \in DOMAIN t /\ p = t[1] /\ \A j \in DOMAIN left : left[j] # p /\ \E k \in DOMAIN t : left[j] = t[k]
      /\ t = BackupItems => p = "config"
  <2>1. ItemThen(t, p, left)
    BY <1>2, <1>8, ItemsLeft
  <2> QED BY <2>1 DEF ItemThen
<1>10. /\ c \in CommandRecords /\ c.at = a /\ c.kind = "backup" /\ c.crossed = shell[o].crossed /\ c.todo = left
  <2>1. left \in Seq(Entries) \union Suffixes
    BY <1>9, NothingToDo
  <2> QED BY <1>4, <1>6, <1>8, <2>1 DEF CommandRecords
<1>11. Form(c)
  <2>1. a = "item" => left \in Suffixes
    BY <1>4, <1>9
  <2> QED BY <1>4, <1>10, <2>1 DEF Form, ManifestForm, BackupForm
<1>12. /\ Present(disk, "config") /\ \A i \in DOMAIN archive.entries : \A j \in DOMAIN t : archive.entries[i].path # t[j]
       /\ archive.entries = <<>> => t = BackupItems
  BY <1>1, <1>5, <1>8 DEF Holds
<1>13. Grown(es, p)
  <2>1. CASE Present(disk, p)
    <3>1. es = Append(archive.entries, Entry(p, disk[p]))
      BY <1>3, <2>1
    <3>2. /\ ArchiveInv /\ DirInv /\ p \in Paths /\ (archive.entries = <<>> => p = "config")
          /\ \A i \in DOMAIN archive.entries : archive.entries[i].path # p
      BY <1>9, <1>12 DEF EditInv
    <3> QED BY <2>1, <3>1, <3>2, ArchiveGrows
  <2>2. CASE ~Present(disk, p)
    <3>1. es = archive.entries /\ es # <<>>
      BY <1>3, <1>9, <1>12, <2>2
    <3> QED BY <3>1 DEF EditInv, ArchiveInv, Grown
  <2> QED BY <2>1, <2>2
<1>14. archive' \in [entries : Seq(Entries), closed : BOOLEAN] /\ archive'.entries = es
  BY <1>5, <1>13 DEF Grown
<1>15. DirInv' /\ ArchiveInv'
  <2>1. ArchiveInv'
    BY <1>13, <1>14 DEF ArchiveInv, Grown
  <2> QED BY <1>5, <2>1 DEF EditInv, DirInv
<1>16. Holds(o)' /\ Knows(o)'
  <2>1. shell'[o] = c
    BY <1>7 DEF Moves
  <2>2. \A i \in DOMAIN es : \A j \in DOMAIN left : es[i].path # left[j]
    BY <1>9, <1>12, <1>13 DEF Grown
  <2>3. Present(disk', "config")
    BY <1>5, <1>12
  <2>4. Holds(o)'
    <3>1. es # <<>>
      BY <1>13 DEF Grown
    <3> QED BY <1>4, <1>10, <1>14, <2>1, <2>2, <2>3, <3>1 DEF Holds
  <2>5. Knows(o)'
    BY <1>10, <2>1 DEF Knows
  <2> QED BY <2>4, <2>5
<1> QED BY <1>4, <1>5, <1>7, <1>10, <1>11, <1>15, <1>16, CommandMovesOn

\* Whether a command was crossed is no part of its form.
LEMMA CrossedForm ==
  ASSUME NEW s, Form(s), NEW b \in BOOLEAN, NEW c, c = [s EXCEPT !.crossed = b]
  PROVE  /\ c \in CommandRecords /\ c.at = s.at /\ c.kind = s.kind /\ c.file = s.file /\ c.before = s.before /\ c.cand = s.cand
         /\ c.todo = s.todo /\ c.crossed = b /\ c.failed = s.failed
         /\ s # Rest => Form(c)
<1>1. s \in CommandRecords
  BY DEF Form
<1>2. /\ c \in CommandRecords /\ c.at = s.at /\ c.kind = s.kind /\ c.file = s.file /\ c.before = s.before /\ c.cand = s.cand
      /\ c.todo = s.todo /\ c.crossed = b /\ c.failed = s.failed
  BY <1>1 DEF CommandRecords
<1>3. s # Rest => Form(c)
  BY <1>2 DEF Form, ManifestForm, SetForm, EditForm, LockForm, FillForm, BackupForm
<1> QED BY <1>2, <1>3

\* A command that is crossed goes on as it was, and counts on no more than it may.
IsCrossed(p) ==
  /\ Form(shell'[p]) /\ Holds(p)' /\ Knows(p)' /\ (shell'[p] = Rest \/ shell'[p].crossed)
  /\ AtRest(p) => shell'[p] = Rest
  /\ shell'[p].at = "item" => shell[p].at = "item"
LEMMA CrossedKeep ==
  ASSUME EditInv, NEW p \in Terminals, shell'[p] = Cross(shell[p]),
         Present(disk, "config") => Present(disk', "config"), overwrote => overwrote',
         shell[p].at = "item" => archive' = archive
  PROVE  IsCrossed(p)
<1>1. CASE AtRest(p)
  <2>1. shell'[p] = Rest
    BY <1>1 DEF Cross, AtRest
  <2>2. Holds(p)' /\ Knows(p)'
    BY <2>1, RestForm DEF Holds, Knows
  <2>3. Form(shell'[p]) /\ shell'[p].at # "item"
    BY <2>1, RestForm
  <2> QED BY <2>1, <2>2, <2>3 DEF IsCrossed
<1>2. CASE ~AtRest(p)
  <2>0. PICK b \in BOOLEAN : b = TRUE
    OBVIOUS
  <2>1. PICK c : c = [shell[p] EXCEPT !.crossed = b]
    OBVIOUS
  <2>2. shell'[p] = c /\ shell[p] # Rest /\ Form(shell[p]) /\ Holds(p)
    BY <1>2, <2>0, <2>1, CommandType, RestForm DEF Cross, AtRest
  <2>3. /\ Form(c) /\ c.at = shell[p].at /\ c.before = shell[p].before /\ c.todo = shell[p].todo /\ c.crossed = b
    BY <2>1, <2>2, CrossedForm
  <2>4. Holds(p)'
    BY <2>2, <2>3 DEF Holds
  <2>5. Knows(p)'
    BY <2>0, <2>2, <2>3 DEF Knows
  <2> QED BY <1>2, <2>0, <2>2, <2>3, <2>4, <2>5 DEF IsCrossed
<1> QED BY <1>1, <1>2

\* A command begins.
LEMMA EditStarts ==
  ASSUME EditInv, NEW o \in Terminals, NEW c, Begin(o, c), Form(c), c.at \in {"read", "bak", "hash", "open", "item"},
         UNCHANGED <<disk, bak, killed, overwrote>>, contents' \in 1..MaxContents, ArchiveInv',
         c.at = "read" => Loads(disk), c.at = "bak" => c.before = Absent, c.at = "hash" => c.kind = "lock",
         c.at = "item" => /\ archive' = NoEntries /\ c.todo = BackupItems /\ Present(disk, "config")
                          /\ \A p \in Terminals : shell[p].at # "item",
         c.at # "item" => archive' = archive
  PROVE  EditInv'
<1>1. PICK b \in BOOLEAN : b = \E q \in Terminals \ {o} : ~AtRest(q)
  OBVIOUS
<1>2. PICK n : n = [c EXCEPT !.crossed = b]
  OBVIOUS
<1>3. /\ AtRest(o) /\ begun < MaxCommands /\ begun' = begun + 1
      /\ shell' = [p \in Terminals |-> IF p # o THEN Cross(shell[p]) ELSE n]
  BY <1>1, <1>2 DEF Begin
<1>4. DOMAIN shell' = DOMAIN shell /\ shell'[o] = n /\ \A p \in Terminals : p # o => shell'[p] = Cross(shell[p])
  BY <1>3 DEF Terminals
<1>5. c # Rest
  BY RestForm
<1>6. /\ n \in CommandRecords /\ n.at = c.at /\ n.kind = c.kind /\ n.file = c.file /\ n.before = c.before /\ n.cand = c.cand
      /\ n.todo = c.todo /\ n.crossed = b /\ Form(n)
  BY <1>2, <1>5, CrossedForm
<1>7. DirInv'
  <2>1. begun' \in 0..MaxCommands
    BY <1>3, EditFacts DEF EditInv, DirInv
  <2> QED BY <2>1 DEF EditInv, DirInv
<1>8. \A p \in Terminals : p # o => IsCrossed(p)
  <2> SUFFICES ASSUME NEW p \in Terminals, p # o PROVE IsCrossed(p)
    OBVIOUS
  <2>1. shell[p].at = "item" => archive' = archive
    OBVIOUS
  <2> QED BY <1>4, <2>1, CrossedKeep
<1>9. Holds(o)'
  <2>1. c.at \in {"read", "item"} => Present(disk', "config")
    BY DEF Loads, Loaded
  <2>2. c.at = "item" => archive'.entries = <<>>
    BY DEF NoEntries
  <2> QED BY <1>4, <1>6, <2>1, <2>2 DEF Holds
<1>10. Knows(o)'
  <2>1. c.at = "read" => Loads(disk')
    OBVIOUS
  <2> QED BY <1>4, <1>6, <1>5, <2>1 DEF Knows, SetKnows, EditKnows, HashKnows, Form, SetForm, EditForm, LockForm, FillForm, BackupForm
<1>11. CommandsInv'
  <2>1. \A p \in Terminals : Form(shell'[p]) /\ Holds(p)' /\ Knows(p)'
    BY <1>4, <1>6, <1>8, <1>9, <1>10 DEF IsCrossed
  <2> QED BY <1>4, <2>1 DEF CommandsInv, Terminals
<1>12. AloneInv'
  <2>1. \A p, q \in Terminals : p # q /\ shell'[p] # Rest /\ ~shell'[p].crossed => shell'[q] = Rest
    <3> SUFFICES ASSUME NEW p \in Terminals, NEW q \in Terminals, p # q, shell'[p] # Rest, ~shell'[p].crossed
                 PROVE  shell'[q] = Rest
      OBVIOUS
    <3>1. p = o /\ q # o /\ AtRest(q)
      BY <1>1, <1>4, <1>6, <1>8 DEF IsCrossed
    <3> QED BY <1>8, <3>1 DEF IsCrossed
  <2>2. \A p, q \in Terminals : p # q /\ shell'[p].at = "item" => shell'[q].at # "item"
    BY <1>4, <1>6, <1>8 DEF EditInv, AloneInv, IsCrossed
  <2> QED BY <1>4, <2>1, <2>2 DEF AloneInv, Terminals
<1> QED BY <1>7, <1>11, <1>12 DEF EditInv

\* Nothing is known of the archive but that it is as it was.
LEMMA ArchiveSame == ASSUME EditInv, archive' = archive PROVE ArchiveInv'
BY DEF EditInv, ArchiveInv

\* A command that has just begun.
Kinds == {"none", "set", "edit", "lock", "init", "restore", "backup"}
IsNew(c, k, a) == c \in CommandRecords /\ c.kind = k /\ c.at = a /\ c.before = Absent /\ ~c.failed
LEMMA NewForm == \A k \in Kinds, a \in Places : IsNew(NewCommand(k, a), k, a)
<1> SUFFICES ASSUME NEW k \in Kinds, NEW a \in Places PROVE IsNew(NewCommand(k, a), k, a)
  OBVIOUS
<1>1. PICK r : r = Rest
  OBVIOUS
<1>2. r \in CommandRecords /\ r.before = Absent /\ ~r.failed
  BY <1>1, RestForm
<1>3. PICK c : c = [r EXCEPT !.kind = k, !.at = a]
  OBVIOUS
<1>4. c \in CommandRecords /\ c.kind = k /\ c.at = a /\ c.before = r.before /\ c.failed = r.failed
  BY <1>2, <1>3 DEF CommandRecords, Kinds, Places
<1>5. NewCommand(k, a) = c
  BY <1>1, <1>3 DEF NewCommand
<1> QED BY <1>2, <1>4, <1>5 DEF IsNew
LEMMA ChangeForm ==
  \A k \in Kinds, a \in Places, f \in ConfigFiles, x \in Contents :
    IsNew(Change(k, a, f, x), k, a) /\ Change(k, a, f, x).file = f /\ Change(k, a, f, x).cand = x
<1> SUFFICES ASSUME NEW k \in Kinds, NEW a \in Places, NEW f \in ConfigFiles, NEW x \in Contents
             PROVE  IsNew(Change(k, a, f, x), k, a) /\ Change(k, a, f, x).file = f /\ Change(k, a, f, x).cand = x
  OBVIOUS
<1>1. PICK n : n = NewCommand(k, a)
  OBVIOUS
<1>2. IsNew(n, k, a)
  BY <1>1, NewForm
<1>3. PICK c : c = [n EXCEPT !.file = f, !.cand = x]
  OBVIOUS
<1>4. /\ c \in CommandRecords /\ c.kind = n.kind /\ c.at = n.at /\ c.before = n.before /\ c.failed = n.failed
      /\ c.file = f /\ c.cand = x
  BY <1>2, <1>3, EditFacts DEF CommandRecords, IsNew
<1>5. Change(k, a, f, x) = c
  BY <1>1, <1>3 DEF Change
<1> QED BY <1>2, <1>4, <1>5 DEF IsNew

\* config set.
LEMMA SetBegins == ASSUME EditInv, NEW o \in Terminals, runConfigSet(o) PROVE EditInv'
<1>1. /\ Loads(disk) /\ contents < MaxContents /\ contents' = contents + 1
      /\ UNCHANGED <<disk, bak, archive, killed, overwrote>>
  BY DEF runConfigSet
<1>2. PICK x \in Written(disk["config"].inc) : Begin(o, Change("set", "read", "config", x))
  BY DEF runConfigSet
<1>3. Present(disk, "config")
  BY <1>1 DEF Loads, Loaded
<1>4. disk["config"] \in Contents
  <2>1. disk["config"] # Absent
    BY <1>3, EditFacts DEF Present
  <2> QED BY <2>1, EditFacts DEF EditInv, DirInv, Fits
<1>5. x \in Contents /\ x.v >= 0 /\ contents' \in 1..MaxContents
  <2>1. disk["config"].inc \in BOOLEAN /\ contents \in 1..MaxContents
    BY <1>4 DEF Contents, EditInv, DirInv
  <2> QED BY <1>1, <1>2, <2>1, WrittenType
<1>6. PICK c : c = Change("set", "read", "config", x)
  OBVIOUS
<1>7. c \in CommandRecords /\ c.kind = "set" /\ c.at = "read" /\ c.file = "config" /\ c.cand = x /\ ~c.failed
  <2>1. "set" \in Kinds /\ "read" \in Places /\ "config" \in ConfigFiles
    BY DEF Kinds, Places, ConfigFiles, Discovered
  <2>2. IsNew(c, "set", "read") /\ c.file = "config" /\ c.cand = x
    BY <1>5, <1>6, <2>1, ChangeForm
  <2> QED BY <2>2 DEF IsNew
<1>8. Form(c)
  BY <1>5, <1>7 DEF Form, ManifestForm, SetForm
<1>9. Begin(o, c)
  BY <1>2, <1>6
<1> QED BY <1>1, <1>5, <1>7, <1>8, <1>9, ArchiveSame, EditStarts

\* The edits.
LEMMA EditsBegin ==
  ASSUME EditInv, NEW o \in Terminals, NEW f \in ConfigFiles \ {"config"}, EditBegins(o, f)
  PROVE  EditInv'
<1>1. contents < MaxContents /\ contents' = contents + 1 /\ UNCHANGED <<disk, bak, archive, killed, overwrote>>
  BY DEF EditBegins
<1>2. PICK x \in Written(FALSE) : Begin(o, Change("edit", "bak", f, x))
  BY DEF EditBegins
<1>3. x \in Contents /\ x.v >= 0 /\ contents' \in 1..MaxContents
  <2>1. contents \in 1..MaxContents
    BY DEF EditInv, DirInv
  <2> QED BY <1>1, <1>2, <2>1, WrittenType
<1>4. PICK c : c = Change("edit", "bak", f, x)
  OBVIOUS
<1>5. c \in CommandRecords /\ c.kind = "edit" /\ c.at = "bak" /\ c.file = f /\ c.cand = x /\ c.before = Absent
  <2>1. "edit" \in Kinds /\ "bak" \in Places /\ f \in ConfigFiles
    BY DEF Kinds, Places
  <2>2. IsNew(c, "edit", "bak") /\ c.file = f /\ c.cand = x
    BY <1>3, <1>4, <2>1, ChangeForm
  <2> QED BY <2>2 DEF IsNew
<1>6. Form(c)
  BY <1>3, <1>5 DEF Form, ManifestForm, EditForm
<1>7. Begin(o, c)
  BY <1>2, <1>4
<1> QED BY <1>1, <1>3, <1>5, <1>6, <1>7, ArchiveSame, EditStarts

\* config lock.
LEMMA LockBegins == ASSUME EditInv, NEW o \in Terminals, ConfigLocks(o) PROVE EditInv'
<1>1. UNCHANGED <<disk, bak, archive, contents, killed, overwrote>> /\ Begin(o, NewCommand("lock", "hash"))
  BY DEF ConfigLocks
<1>2. PICK c : c = NewCommand("lock", "hash")
  OBVIOUS
<1>3. c \in CommandRecords /\ c.kind = "lock" /\ c.at = "hash"
  <2>1. "lock" \in Kinds /\ "hash" \in Places
    BY DEF Kinds, Places
  <2>2. IsNew(c, "lock", "hash")
    BY <1>2, <2>1, NewForm
  <2> QED BY <2>2 DEF IsNew
<1>4. Form(c) /\ Begin(o, c) /\ contents' \in 1..MaxContents
  BY <1>1, <1>2, <1>3 DEF Form, ManifestForm, LockForm, EditInv, DirInv
<1> QED BY <1>1, <1>3, <1>4, ArchiveSame, EditStarts

\* An init and a restore.
LEMMA FillBegins ==
  ASSUME EditInv, NEW o \in Terminals, NEW k \in {"init", "restore"}, NEW t \in Seq(Entries), t # <<>>, NEW c,
         c \in CommandRecords, c.kind = k, c.at = "open", c.todo = t,
         Begin(o, c), UNCHANGED <<disk, bak, archive, contents, killed, overwrote>>
  PROVE  EditInv'
<1>1. Form(c) /\ contents' \in 1..MaxContents
  BY DEF Form, ManifestForm, FillForm, EditInv, DirInv
<1> QED BY <1>1, ArchiveSame, EditStarts

\* What an init writes.
LEMMA ScaffoldingEntries == Scaffolding \in Seq(Entries) /\ Scaffolding # <<>>
<1>1. Scaffold \in Contents /\ Scaffold.v # -1
  BY EditFacts DEF Scaffold, Content, Contents
<1>2. \A f \in ConfigFiles : Entry(f, Scaffold) \in Entries
  BY <1>1, FileFits, EditFacts DEF Entry, Entries
<1>3. "config" \in ConfigFiles /\ "routes" \in ConfigFiles /\ "webhooks" \in ConfigFiles
  BY DEF ConfigFiles, Discovered
<1>4. PICK a, b, d : a = Entry("config", Scaffold) /\ b = Entry("routes", Scaffold) /\ d = Entry("webhooks", Scaffold)
  OBVIOUS
<1>5. a \in Entries /\ b \in Entries /\ d \in Entries
  BY <1>2, <1>3, <1>4
<1>6. <<a, b, d>> \in Seq(Entries) /\ <<a, b, d>> # <<>>
  BY <1>5
<1> QED BY <1>4, <1>6 DEF Scaffolding
LEMMA InitBegins == ASSUME EditInv, NEW o \in Terminals, runConfigInit(o) PROVE EditInv'
<1>1. UNCHANGED <<disk, bak, archive, contents, killed, overwrote>>
  BY DEF runConfigInit
<1>2. PICK force \in BOOLEAN : Begin(o, [NewCommand("init", "open") EXCEPT !.todo = Scaffolding, !.keep = ~force])
  BY DEF runConfigInit
<1>3. PICK t, k : t = Scaffolding /\ k = ~force
  OBVIOUS
<1>4. PICK n : n = NewCommand("init", "open")
  OBVIOUS
<1>5. PICK c : c = [n EXCEPT !.todo = t, !.keep = k]
  OBVIOUS
<1>6. n \in CommandRecords /\ n.kind = "init" /\ n.at = "open"
  <2>1. "init" \in Kinds /\ "open" \in Places
    BY DEF Kinds, Places
  <2>2. IsNew(n, "init", "open")
    BY <1>4, <2>1, NewForm
  <2> QED BY <2>2 DEF IsNew
<1>7. t \in Seq(Entries) /\ t # <<>> /\ k \in BOOLEAN /\ Begin(o, c)
  BY <1>2, <1>3, <1>4, <1>5, ScaffoldingEntries
<1>8. t \in Seq(Entries) \union Suffixes
  BY <1>7
<1>9. c \in CommandRecords /\ c.kind = "init" /\ c.at = "open" /\ c.todo = t
  BY <1>5, <1>6, <1>7, <1>8 DEF CommandRecords
<1> QED BY <1>1, <1>7, <1>9, FillBegins
LEMMA RestoreBegins == ASSUME EditInv, NEW o \in Terminals, runConfigRestore(o) PROVE EditInv'
<1>1. UNCHANGED <<disk, bak, archive, contents, killed, overwrote>>
  BY DEF runConfigRestore
<1>2. PICK m \in 1..Len(archive.entries) :
        Begin(o, [NewCommand("restore", "open") EXCEPT !.todo = SubSeq(archive.entries, 1, m)])
  BY DEF runConfigRestore
<1>3. PICK t : t = SubSeq(archive.entries, 1, m)
  OBVIOUS
<1>4. PICK n : n = NewCommand("restore", "open")
  OBVIOUS
<1>5. PICK c : c = [n EXCEPT !.todo = t]
  OBVIOUS
<1>6. n \in CommandRecords /\ n.kind = "restore" /\ n.at = "open"
  <2>1. "restore" \in Kinds /\ "open" \in Places
    BY DEF Kinds, Places
  <2>2. IsNew(n, "restore", "open")
    BY <1>4, <2>1, NewForm
  <2> QED BY <2>2 DEF IsNew
<1>7. t \in Seq(Entries) /\ t # <<>>
  <2>1. PICK es : es = archive.entries
    OBVIOUS
  <2>2. es \in Seq(Entries) /\ m \in 1..Len(es)
    BY <1>2, <2>1 DEF EditInv, ArchiveInv
  <2>3. t \in Seq(Entries) /\ Len(t) = m
    BY <1>3, <2>1, <2>2
  <2> QED BY <2>2, <2>3
<1>8. t \in Seq(Entries) \union Suffixes /\ Begin(o, c)
  BY <1>2, <1>3, <1>4, <1>5, <1>7
<1>9. c \in CommandRecords /\ c.kind = "restore" /\ c.at = "open" /\ c.todo = t
  BY <1>5, <1>6, <1>8 DEF CommandRecords
<1> QED BY <1>1, <1>7, <1>8, <1>9, FillBegins

\* config backup.
LEMMA BackupStarts == ASSUME EditInv, NEW o \in Terminals, runConfigBackup(o) PROVE EditInv'
<1>1. /\ resolveConfigTarget(disk) /\ archive' = NoEntries /\ UNCHANGED <<disk, bak, contents, killed, overwrote>>
      /\ \A p \in Terminals : AtRest(p) \/ shell[p].kind \notin {"backup", "restore"}
      /\ Begin(o, [NewCommand("backup", "item") EXCEPT !.todo = BackupItems])
  BY DEF runConfigBackup
<1>2. PICK t : t = BackupItems
  OBVIOUS
<1>3. PICK n : n = NewCommand("backup", "item")
  OBVIOUS
<1>4. PICK c : c = [n EXCEPT !.todo = t]
  OBVIOUS
<1>5. n \in CommandRecords /\ n.kind = "backup" /\ n.at = "item"
  <2>1. "backup" \in Kinds /\ "item" \in Places
    BY DEF Kinds, Places
  <2>2. IsNew(n, "backup", "item")
    BY <1>3, <2>1, NewForm
  <2> QED BY <2>2 DEF IsNew
<1>6. t \in Suffixes /\ t \in Seq(Entries) \union Suffixes /\ Begin(o, c)
  BY <1>1, <1>2, <1>3, <1>4 DEF Suffixes
<1>7. c \in CommandRecords /\ c.kind = "backup" /\ c.at = "item" /\ c.todo = t
  BY <1>4, <1>5, <1>6 DEF CommandRecords
<1>8. Form(c)
  BY <1>6, <1>7 DEF Form, ManifestForm, BackupForm
<1>9. \A p \in Terminals : shell[p].at # "item"
  <2> SUFFICES ASSUME NEW p \in Terminals, shell[p].at = "item" PROVE FALSE
    OBVIOUS
  <2>1. shell[p].kind = "backup"
    BY CommandType, PlaceTells DEF BackupForm
  <2> QED BY <1>1, <2>1 DEF AtRest
<1>10. ArchiveInv'
  <2>1. archive' = [entries |-> <<>>, closed |-> FALSE]
    BY <1>1 DEF NoEntries
  <2>2. archive'.entries = <<>> /\ archive' \in [entries : Seq(Entries), closed : BOOLEAN]
    BY <2>1
  <2>3. DOMAIN archive'.entries = {}
    BY <2>2
  <2> QED BY <2>2, <2>3 DEF ArchiveInv
<1>11. Present(disk, "config") /\ contents' \in 1..MaxContents
  BY <1>1 DEF resolveConfigTarget, EditInv, DirInv
<1> QED BY <1>1, <1>2, <1>6, <1>7, <1>8, <1>9, <1>10, <1>11, EditStarts

\* An edit by hand crosses every command.
LEMMA HandEdits == ASSUME EditInv, NEW f \in ConfigFiles, HandEdit(f) PROVE EditInv'
<1>1. /\ contents < MaxContents /\ contents' = contents + 1 /\ UNCHANGED <<bak, archive, begun, killed, overwrote>>
      /\ shell' = [o \in Terminals |-> Cross(shell[o])]
  BY DEF HandEdit
<1>2. PICK x \in Written(f = "config") : disk' = [disk EXCEPT ![f] = x]
  BY DEF HandEdit
<1>3. x \in Contents /\ x.v >= 0 /\ contents' \in 1..MaxContents
  <2>1. contents \in 1..MaxContents /\ (f = "config") \in BOOLEAN
    BY DEF EditInv, DirInv
  <2> QED BY <1>1, <1>2, <2>1, WrittenType
<1>4. f \in Paths /\ Fits(f, x) /\ x.v # TornNumber
  <2>1. x.v # -1 /\ x.v # -2
    BY <1>3 DEF Contents
  <2> QED BY <1>3, <2>1, FileFits, EditFacts
<1>5. DirInv /\ overwrote' \in BOOLEAN
  BY <1>1 DEF EditInv, DirInv
<1>6. DirInv' /\ ArchiveInv'
  BY <1>1, <1>2, <1>3, <1>4, <1>5, DirWritten, ArchiveSame
<1>7. Present(disk, "config") => Present(disk', "config")
  BY <1>2, <1>4, <1>5, DiskWritten, EditFacts
<1>8. DOMAIN shell' = DOMAIN shell /\ \A p \in Terminals : shell'[p] = Cross(shell[p])
  BY <1>1 DEF Terminals
<1>9. \A p \in Terminals : IsCrossed(p)
  BY <1>1, <1>7, <1>8, CrossedKeep
<1>10. CommandsInv'
  <2>1. \A p \in Terminals : Form(shell'[p]) /\ Holds(p)' /\ Knows(p)'
    BY <1>9 DEF IsCrossed
  <2> QED BY <1>8, <2>1 DEF CommandsInv, Terminals
<1>11. AloneInv'
  <2>1. \A p \in Terminals : shell'[p] = Rest \/ shell'[p].crossed
    BY <1>9 DEF IsCrossed
  <2>2. \A p, q \in Terminals : p # q /\ shell'[p].at = "item" => shell'[q].at # "item"
    BY <1>9 DEF IsCrossed, EditInv, AloneInv
  <2> QED BY <1>8, <2>1, <2>2 DEF AloneInv, Terminals
<1> QED BY <1>6, <1>10, <1>11 DEF EditInv

\* What the directory is at first.
LEMMA FirstDirectory ==
  ASSUME 1 \in 1..MaxContents,
         disk \in {[p \in Paths |-> Absent], [UnlockedDir EXCEPT ![".checksums"] = GenerateChecksums(UnlockedDir)]}
  PROVE  /\ disk \in [Paths -> Things] /\ \A p \in Paths : disk[p] # Absent => Fits(p, disk[p])
         /\ \A p \in Paths : disk[p].v # TornNumber
<1>1. CASE disk = [p \in Paths |-> Absent]
  BY <1>1, EditFacts
<1>2. CASE disk = [UnlockedDir EXCEPT ![".checksums"] = GenerateChecksums(UnlockedDir)]
  <2>1. PICK d : d = UnlockedDir
    OBVIOUS
  <2>2. /\ DOMAIN d = Paths /\ d["config"] = Content(1, TRUE, TRUE) /\ d["routes"] = Scaffold /\ d["webhooks"] = Scaffold
        /\ d["plugin"] = Absent
    <3>1. "config" \in Paths /\ "routes" \in Paths /\ "webhooks" \in Paths /\ "plugin" \in Paths
      BY DEF Paths, ConfigFiles, Discovered
    <3>2. DOMAIN d = Paths
      BY <2>1 DEF UnlockedDir
    <3>3. d["config"] = Content(1, TRUE, TRUE) /\ d["plugin"] = Absent
      BY <2>1, <3>1 DEF UnlockedDir
    <3>4. d["routes"] = Scaffold /\ d["webhooks"] = Scaffold
      BY <2>1, <3>1 DEF UnlockedDir
    <3> QED BY <3>2, <3>3, <3>4
  <2>3. Content(1, TRUE, TRUE) \in Contents /\ Scaffold \in Contents /\ Content(1, TRUE, TRUE).v = 1 /\ Scaffold.v = 0
    BY EditFacts DEF Content, Scaffold, Contents
  <2>4. \A f \in ConfigFiles : d[f] \in Contents /\ d[f].v # TornNumber /\ (d[f] # Absent => d[f].v # -1)
    <3>1. \A f \in ConfigFiles : d[f] = Content(1, TRUE, TRUE) \/ d[f] = Scaffold \/ d[f] = Absent
      BY <2>2 DEF ConfigFiles, Discovered
    <3>2. \A x : x = Content(1, TRUE, TRUE) \/ x = Scaffold \/ x = Absent
                   => x \in Contents /\ x.v # TornNumber /\ (x # Absent => x.v # -1)
      <4>1. Content(1, TRUE, TRUE).v # TornNumber /\ Content(1, TRUE, TRUE).v # -1
        BY DEF Content, TornNumber
      <4>2. Scaffold.v # TornNumber /\ Scaffold.v # -1
        BY <2>3, EditFacts
      <4>3. Absent \in Contents /\ Absent.v # TornNumber
        BY EditFacts
      <4> QED BY <2>3, <4>1, <4>2, <4>3
    <3> QED BY <3>1, <3>2
  <2>5. PICK m : m = GenerateChecksums(d)
    OBVIOUS
  <2>6. m \in Manifests
    BY <2>4, <2>5, ManifestOf DEF AllFiles, ConfigFiles
  <2>7. Fits(".checksums", m) /\ m.v # TornNumber /\ m \in Things
    BY <2>6, ManifestFits DEF Fits
  <2>8. disk = [d EXCEPT ![".checksums"] = m] /\ d = [p \in Paths |-> d[p]]
    BY <1>2, <2>1, <2>5 DEF UnlockedDir
  <2>9. /\ DOMAIN disk = Paths /\ disk[".checksums"] = m /\ \A f \in ConfigFiles : disk[f] = d[f]
        /\ disk = [p \in Paths |-> disk[p]]
    BY <2>2, <2>8, EditFacts
  <2>10. \A f \in ConfigFiles : disk[f] # Absent => Fits(f, disk[f])
    BY <2>4, <2>9, FileFits
  <2>11. \A p \in Paths : disk[p] \in Things
    BY <2>4, <2>7, <2>9, EditFacts
  <2>12. disk \in [Paths -> Things]
    BY <2>9, <2>11
  <2> QED BY <2>4, <2>7, <2>9, <2>10, <2>12, EditFacts
<1> QED BY <1>1, <1>2

\* At first nothing runs, and nothing has been backed up.
LEMMA EditStartsSafe == EditInit => EditInv
<1> SUFFICES ASSUME EditInit PROVE EditInv
  OBVIOUS
<1>1. PICK w \in Sessions : /\ shell = [o \in w.terminals |-> Rest]
                            /\ contents = w.contents /\ begun = w.commands /\ killed = w.kills
  BY DEF EditInit
<1>2. contents \in 1..MaxContents /\ begun \in 0..MaxCommands /\ killed \in 0..MaxKills
  BY <1>1, EditAssumption
<1>3. 1 \in 1..MaxContents
  BY <1>2, EditFacts
<1>4. /\ disk \in [Paths -> Things] /\ \A p \in Paths : disk[p] # Absent => Fits(p, disk[p])
      /\ \A p \in Paths : disk[p].v # TornNumber
  BY <1>3, FirstDirectory DEF EditInit
<1>5. bak \in [ConfigFiles -> Contents] /\ overwrote \in BOOLEAN
  BY EditFacts DEF EditInit
<1>6. DirInv
  BY <1>2, <1>4, <1>5 DEF DirInv
<1>7. ArchiveInv
  <2>1. archive = [entries |-> <<>>, closed |-> FALSE]
    BY DEF EditInit, NoEntries
  <2>2. archive.entries = <<>> /\ archive \in [entries : Seq(Entries), closed : BOOLEAN]
    BY <2>1
  <2>3. DOMAIN archive.entries = {}
    BY <2>2
  <2> QED BY <2>2, <2>3 DEF ArchiveInv
<1>8. \A o \in Terminals : shell[o] = Rest
  BY <1>1 DEF Terminals
<1>9. AloneInv
  BY <1>8, RestForm DEF AloneInv
<1>10. CommandsInv
  BY <1>8, RestForm DEF CommandsInv, Holds, Knows
<1> QED BY <1>6, <1>7, <1>9, <1>10 DEF EditInv

\* Every step keeps the invariant.
LEMMA EditKept == EditInv /\ [EditNext]_editVars => EditInv'
<1> SUFFICES ASSUME EditInv, [EditNext]_editVars PROVE EditInv'
  OBVIOUS
<1>1. CASE UNCHANGED editVars
  BY <1>1 DEF editVars, EditInv, DirInv, ArchiveInv, AloneInv, CommandsInv, Holds, Knows, SetKnows, EditKnows, HashKnows,
              Undone, Terminals
<1>2. CASE \E f \in ConfigFiles : HandEdit(f)
  BY <1>2, HandEdits
<1>3. ASSUME NEW o \in Terminals,
             \/ runConfigSet(o) \/ persistReads(o) \/ persistLoads(o) \/ persistRestores(o) \/ WriteFileAtomic(o)
      PROVE  EditInv'
  BY <1>3, SetBegins, EditReads, EditLoads, EditRestores, EditPublishes
<1>4. ASSUME NEW o \in Terminals, runConfigPluginSet(o) \/ runConfigRouteMutation(o) \/ runConfigWebhookAdd(o)
      PROVE  EditInv'
  <2>1. PICK f \in ConfigFiles \ {"config"} : EditBegins(o, f)
    BY <1>4 DEF runConfigPluginSet, runConfigRouteMutation, runConfigWebhookAdd, ConfigFiles, Discovered
  <2> QED BY <2>1, EditsBegin
<1>5. ASSUME NEW o \in Terminals, BackupBegins(o) \/ BackupEnds(o) \/ writeFileAtomicWithBackup(o)
      PROVE  EditInv'
  BY <1>5, EditBacksUp, EditBackedUp, EditRenames
<1>6. ASSUME NEW o \in Terminals, ConfigLocks(o) \/ refreshHashes(o) \/ writeChecksumsAtomic(o)
      PROVE  EditInv'
  BY <1>6, LockBegins, EditHashes, EditSeals
<1>7. ASSUME NEW o \in Terminals,
             runConfigInit(o) \/ runConfigRestore(o) \/ writeIfNeeded(o) \/ Fill(o) \/ FillFails(o)
      PROVE  EditInv'
  BY <1>7, InitBegins, RestoreBegins, EditOpens, EditFills, EditFallsShort
<1>8. ASSUME NEW o \in Terminals, runConfigBackup(o) \/ createConfigBackup(o) \/ Kill(o)
      PROVE  EditInv'
  BY <1>8, BackupStarts, EditArchives, EditKilled
<1> QED BY <1>1, <1>2, <1>3, <1>4, <1>5, <1>6, <1>7, <1>8 DEF EditNext

\* The invariant says what the runs check.
LEMMA EditImplies == EditInv => DirectorySurvives
<1> SUFFICES ASSUME EditInv PROVE DirectorySurvives
  OBVIOUS
<1>1. EditTypeOK
  <2>1. \A f \in ConfigFiles : disk[f] \in Contents /\ bak[f] \in Contents
    BY EditFacts DEF EditInv, DirInv, Fits
  <2>2. disk[".checksums"].v \in {-2, -1, 1}
    BY EditFacts DEF EditInv, DirInv, Fits
  <2> QED BY <2>1, <2>2 DEF EditTypeOK, EditInv, DirInv, ArchiveInv
<1>2. SetIsSafe
  BY CommandType DEF SetIsSafe, Alone, Knows, SetKnows
<1>3. ManifestFollows
  <2> SUFFICES ASSUME NEW o \in Terminals, Alone(o, {"edit", "lock", "init", "restore"}), shell[o].at = "done", ~shell[o].failed,
                      NEW tier \in {"high", "operational"}
               PROVE  VerifyIntegrity(disk, tier) = {}
    BY DEF ManifestFollows
  <2>1. disk[".checksums"] = GenerateChecksums(disk)
    BY CommandType DEF Alone, Knows, HashKnows
  <2> QED BY <2>1, ManifestVerifies
<1>4. NothingIsLost
  BY CommandType DEF NothingIsLost, Alone, Knows, EditKnows
<1>5. TornOnlyInPlace
  BY DEF TornOnlyInPlace, EditInv, DirInv
<1> QED BY <1>1, <1>2, <1>3, <1>4, <1>5 DEF DirectorySurvives

(* The configuration directory under its commands: what each command has in
   hand and may count on, alone or crossed, is as the code left it. *)
THEOREM EditSafe == EditSpec => []EditInv
BY EditStartsSafe, EditKept, PTL DEF EditSpec

(* Killed at any write, beside each other and after edits by hand, the commands
   leave files that load, a manifest that matches and what they replaced. *)
THEOREM TheDirectorySurvives == EditSpec => []DirectorySurvives
BY EditSafe, EditImplies, PTL

-----------------------------------------------------------------------------
\* The process and its runtimes.

RuntimeRecords ==
  [cfg : ConfigRecords, sched : BOOLEAN, disp : BOOLEAN, api : {"none", "up", "draining", "ended"},
   hook : {"none", "up", "draining", "ended"}, db : BOOLEAN, stopping : BOOLEAN]
ReloadRecords ==
  [pc : {"loaded", "waiting", "restoring"}, by : Nat, old : Nat, cfg : ConfigRecords, oldCfg : ConfigRecords]
AnswerRecords ==
  [kind : {"none", "unavailable", "ok", "rejected", "restored", "failed"}, cfg : ConfigRecords]

\* Every variable's type.
RuntimeTypes ==
  /\ onDisk \in Disks /\ edits \in 0..MaxEdits
  /\ rts \in Seq(RuntimeRecords) /\ held \in Seq(SUBSET {"stream", "hook", "reload"}) /\ Len(held) = Len(rts)
  /\ current \in 0..Len(rts) /\ ending \in 0..Len(rts) /\ errs \in 0..ErrCap
  /\ reload = NoReload \/ reload \in ReloadRecords
  /\ answer \in AnswerRecords
  /\ gateway \in {"down", "up", "stopping", "ending"} /\ asked \in BOOLEAN

\* What works on a database has it open, and a runtime that was told to stop has closed its
\* API, but for the one a reload waits for and the one the process ends with.
WorksOpen(r) == rts[r].sched \/ rts[r].disp \/ rts[r].api = "up" => rts[r].db
ClosesInv ==
  \A r \in DOMAIN rts :
    /\ WorksOpen(r)
    /\ rts[r].stopping /\ rts[r].api = "up" => gateway = "ending" \/ (reload.pc = "waiting" /\ r = reload.old)

\* A runtime that serves: nobody stops it, and it has the listener its configuration asks for.
Serves(r) == ~rts[r].stopping /\ (OpensAPI(rts[r].cfg) => rts[r].api = "up")

\* The reload under way: nobody replaced the manager's runtime meanwhile, the request that
\* asked for it is still open, and nothing was answered.
ReloadInv ==
  reload.pc # "idle" =>
    /\ reload.old = current /\ current # 0 /\ gateway \in {"up", "stopping"} /\ answer.kind = "none"
    /\ reload.by # 0 => reload.by \in DOMAIN held /\ "reload" \in held[reload.by]
    /\ reload.pc = "loaded" => reload.oldCfg = rts[current].cfg

\* The manager's runtime serves until a reload stops it, and is what the answer says.
CurrentInv ==
  /\ gateway \in {"down", "ending"} => current = 0
  /\ gateway = "down" => rts = <<>> /\ ending = 0
  /\ current # 0 /\ reload.pc \in {"idle", "loaded"} => Serves(current)
  /\ reload.pc = "idle" /\ gateway \in {"up", "stopping"} /\ answer.kind \in {"ok", "rejected", "restored"} =>
       current # 0 /\ rts[current].cfg = answer.cfg

\* The builds that the reloads under way or accepted may still need have room.
Asked == {r \in DOMAIN held : "reload" \in held[r]}
RoomInv == Len(rts) + Booked <= MaxRuntimes + (IF reload.pc = "restoring" THEN 1 ELSE 0)

RuntimeInv == RuntimeTypes /\ ClosesInv /\ ReloadInv /\ CurrentInv /\ RoomInv

\* The configuration that stands for none, and a runtime that is gone.
LEMMA GoneType ==
  /\ AnyConfig \in ConfigRecords /\ Gone \in RuntimeRecords /\ ~Gone.stopping /\ ~Gone.db
  /\ ~Gone.sched /\ ~Gone.disp /\ Gone.api = "none" /\ Gone.hook = "none"
  /\ Silent \in AnswerRecords /\ Silent.kind = "none" /\ NoReload.pc = "idle" /\ NoReload.by = 0
  /\ MaxRuntimes \in Nat /\ MaxEdits \in Nat
<1>1. AnyConfig \in ConfigRecords
  <2>1. PICK d : d = CHOOSE e \in Disks : TRUE
    OBVIOUS
  <2>2. d \in Disks
    BY <2>1, RuntimeAssumption
  <2> QED BY <2>1, <2>2, RuntimeAssumption DEF AnyConfig
<1> QED BY <1>1, RuntimeAssumption DEF Gone, RuntimeRecords, Silent, AnswerRecords, NoReload

\* What buildRuntime leaves: of a build that succeeds, a runtime that serves; of one that
\* fails, a fault of its configuration or of the files, or a listener in its way.
LEMMA BuildLeaves ==
  ASSUME NEW c \in ConfigRecords
  PROVE  LET b == buildRuntime(c)
         IN /\ b.rt \in RuntimeRecords /\ b.rt.cfg = c /\ ~b.rt.stopping
            /\ b.rt.sched \/ b.rt.disp \/ b.rt.api = "up" => b.rt.db
            /\ b.ok => (OpensAPI(c) => b.rt.api = "up")
            /\ ~b.ok => CannotBuild(c) \/ PortTaken
<1> DEFINE planes == StartTriggerPlanes(c)
           served == StartAPI(c, planes)
           hooked == StartWebhook(c, served)
<1>1. Management(c) \in BOOLEAN /\ OpensAPI(c) \in BOOLEAN
  BY DEF Management, OpensAPI, ConfigRecords
<1>2. /\ planes \in RuntimeRecords /\ planes.cfg = c /\ ~planes.stopping /\ planes.db
      /\ planes.api = "none" /\ planes.hook = "none"
  BY <1>1, GoneType DEF StartTriggerPlanes, RuntimeRecords
<1>3. /\ served \in RuntimeRecords /\ served.cfg = c /\ ~served.stopping /\ served.db
      /\ (OpensAPI(c) => served.api = "up")
  <2> HIDE DEF planes
  <2> QED BY <1>2 DEF StartAPI, RuntimeRecords
<1>4. /\ hooked \in RuntimeRecords /\ hooked.cfg = c /\ ~hooked.stopping /\ hooked.db
      /\ (OpensAPI(c) => hooked.api = "up")
  <2> HIDE DEF served
  <2> QED BY <1>3 DEF StartWebhook, RuntimeRecords
<1>5. PICK g1, g2 : g1 = [Gone EXCEPT !.cfg = c] /\ g2 = [Gone EXCEPT !.cfg = c, !.db = TRUE]
  OBVIOUS
<1>6. /\ g1 \in RuntimeRecords /\ g1.cfg = c /\ ~g1.stopping /\ ~g1.sched /\ ~g1.disp /\ g1.api = "none"
      /\ g2 \in RuntimeRecords /\ g2.cfg = c /\ ~g2.stopping /\ g2.db
  BY <1>5, GoneType DEF RuntimeRecords
<1>7. buildRuntime(c) =
        CASE PreflightFails(c) -> [ok |-> FALSE, rt |-> g1]
          [] ~PreflightFails(c) /\ AdmissionFails(c) -> [ok |-> FALSE, rt |-> g2]
          [] OTHER -> IF APIFails(c) THEN [ok |-> FALSE, rt |-> planes]
                      ELSE IF WebhookFails(c) THEN [ok |-> FALSE, rt |-> served]
                      ELSE [ok |-> TRUE, rt |-> hooked]
  BY <1>5 DEF buildRuntime
<1> HIDE DEF planes, served, hooked
<1>8. CASE PreflightFails(c)
  BY <1>6, <1>7, <1>8 DEF CannotBuild
<1>9. CASE ~PreflightFails(c) /\ AdmissionFails(c)
  BY <1>6, <1>7, <1>9 DEF CannotBuild
<1>10. CASE ~PreflightFails(c) /\ ~AdmissionFails(c) /\ APIFails(c)
  BY <1>2, <1>7, <1>10 DEF CannotBuild, APIFails
<1>11. CASE ~PreflightFails(c) /\ ~AdmissionFails(c) /\ ~APIFails(c) /\ WebhookFails(c)
  BY <1>3, <1>7, <1>11 DEF CannotBuild
<1>12. CASE ~PreflightFails(c) /\ ~AdmissionFails(c) /\ ~APIFails(c) /\ ~WebhookFails(c)
  BY <1>4, <1>7, <1>12
<1> QED BY <1>8, <1>9, <1>10, <1>11, <1>12

\* One runtime changes.
LEMMA OneRuntime ==
  ASSUME RuntimeTypes, NEW r \in DOMAIN rts, NEW x \in RuntimeRecords, rts' = [rts EXCEPT ![r] = x]
  PROVE  /\ rts' \in Seq(RuntimeRecords) /\ Len(rts') = Len(rts) /\ DOMAIN rts' = DOMAIN rts
         /\ rts'[r] = x /\ \A q \in DOMAIN rts : q # r => rts'[q] = rts[q]
BY DEF RuntimeTypes

\* A runtime more.
LEMMA RuntimeMore ==
  ASSUME RuntimeTypes, NEW x \in RuntimeRecords, rts' = Append(rts, x)
  PROVE  /\ rts' \in Seq(RuntimeRecords) /\ Len(rts) \in Nat /\ Len(rts') = Len(rts) + 1
         /\ rts'[Len(rts) + 1] = x /\ Len(rts) + 1 \in DOMAIN rts'
         /\ \A q \in DOMAIN rts : q \in DOMAIN rts' /\ rts'[q] = rts[q]
         /\ \A q \in DOMAIN rts' : q \in DOMAIN rts \/ q = Len(rts) + 1
BY DEF RuntimeTypes

\* The numbers of the runtimes.
LEMMA RuntimeNumbers ==
  ASSUME RuntimeTypes
  PROVE  /\ Len(rts) \in Nat /\ DOMAIN rts = 1..Len(rts) /\ DOMAIN held = DOMAIN rts
         /\ current # 0 => current \in DOMAIN rts
         /\ \A r \in DOMAIN rts : rts[r] \in RuntimeRecords /\ held[r] \subseteq {"stream", "hook", "reload"}
BY DEF RuntimeTypes

\* The requests that ask for a reload are finitely many.
LEMMA AskedFinite == ASSUME RuntimeTypes PROVE IsFiniteSet(Asked) /\ Cardinality(Asked) \in Nat
<1>1. IsFiniteSet(DOMAIN held)
  BY RuntimeNumbers, FS_Interval
<1>2. Asked \subseteq DOMAIN held
  BY DEF Asked
<1> QED BY <1>1, <1>2, FS_Subset, FS_CardinalityType

\* What is booked, in numbers.
Own == IF reload.pc # "idle" /\ reload.by = 0 THEN 1 ELSE 0
LEMMA BookedIs == Booked = 2 * (Cardinality(Asked) + Own) /\ Own \in {0, 1}
BY DEF Booked, Asked, Own
LEMMA BookedThen == Booked' = 2 * (Cardinality(Asked') + Own') /\ Own' \in {0, 1}
BY DEF Booked, Asked, Own

\* The same runtimes, reload and requests for one: what is booked stays.
LEMMA RoomSame ==
  ASSUME RuntimeInv, RuntimeTypes', Len(rts') = Len(rts), reload' = reload, Asked' = Asked
  PROVE  RoomInv'
<1>1. Own' = Own
  BY DEF Own
<1>2. Booked' = Booked
  BY <1>1, BookedIs, BookedThen
<1> QED BY <1>2 DEF RuntimeInv, RoomInv

\* A step that touches the runtimes, the reload, its request and the answer at most by
\* winding down a runtime that was told to stop.
LEMMA WindsDown ==
  ASSUME RuntimeInv, RuntimeTypes', NEW r \in DOMAIN rts, NEW x \in RuntimeRecords,
         rts' = [rts EXCEPT ![r] = x], x.stopping = rts[r].stopping,
         x.cfg = rts[r].cfg \/ rts[r].stopping,
         x.api = rts[r].api \/ (x.api # "up" /\ (rts[r].stopping \/ rts[r].api # "up")),
         x.sched \/ x.disp \/ x.api = "up" => x.db,
         \A q \in DOMAIN rts : "reload" \in held'[q] <=> "reload" \in held[q],
         UNCHANGED <<current, reload, answer, gateway, ending>>
  PROVE  RuntimeInv'
<1>1. /\ Len(rts') = Len(rts) /\ DOMAIN rts' = DOMAIN rts
      /\ rts'[r] = x /\ \A q \in DOMAIN rts : q # r => rts'[q] = rts[q]
  BY OneRuntime DEF RuntimeInv
<1>2. DOMAIN held' = DOMAIN rts /\ DOMAIN held = DOMAIN rts /\ (current # 0 => current \in DOMAIN rts)
  BY <1>1 DEF RuntimeInv, RuntimeTypes
<1>3. Asked' = Asked
  BY <1>2 DEF Asked
<1>4. ClosesInv'
  BY <1>1 DEF RuntimeInv, ClosesInv, WorksOpen
<1>5. current # 0 /\ reload.pc \in {"idle", "loaded"} => Serves(current)' /\ rts'[current].cfg = rts[current].cfg
  <2> SUFFICES ASSUME current # 0, reload.pc \in {"idle", "loaded"}
               PROVE  Serves(current)' /\ rts'[current].cfg = rts[current].cfg
    OBVIOUS
  <2>1. Serves(current)
    BY DEF RuntimeInv, CurrentInv
  <2>2. CASE r = current
    BY <1>1, <2>1, <2>2 DEF Serves, OpensAPI
  <2>3. CASE r # current
    BY <1>1, <1>2, <2>1, <2>3 DEF Serves, OpensAPI
  <2> QED BY <2>2, <2>3
<1>6. ReloadInv'
  BY <1>2, <1>5 DEF RuntimeInv, ReloadInv
<1>7. CurrentInv'
  <2>1. gateway = "down" => rts' = <<>>
    BY <1>1, RuntimeNumbers DEF RuntimeInv, CurrentInv
  <2> QED BY <1>5, <2>1 DEF RuntimeInv, CurrentInv
<1>8. RoomInv'
  BY <1>1, <1>3, RoomSame
<1> QED BY <1>4, <1>6, <1>7, <1>8 DEF RuntimeInv

\* The goroutines of a runtime that stops.
LEMMA RuntimeWinds == ASSUME RuntimeInv, NEW r \in 1..MaxRuntimes, Winds(r) PROVE RuntimeInv'
<1>1. r \in DOMAIN rts /\ rts[r] \in RuntimeRecords /\ DOMAIN held = DOMAIN rts
  BY RuntimeNumbers DEF RuntimeInv, Winds
<1>2. /\ UNCHANGED <<onDisk, edits, current, reload, answer, gateway, ending, asked>>
  BY DEF Winds, PlanesStop, ListenersClose, APIShutdown, WebhookShutdown, DatabaseCloses
<1>3. held' \in Seq(SUBSET {"stream", "hook", "reload"}) /\ Len(held') = Len(held)
      /\ \A q \in DOMAIN rts : "reload" \in held'[q] <=> "reload" \in held[q]
  <2>1. held' = held \/ \E o \in {"stream", "hook"} : held' = [held EXCEPT ![r] = @ \ {o}]
    BY DEF Winds, PlanesStop, ListenersClose, APIShutdown, WebhookShutdown, DatabaseCloses
  <2>2. held \in Seq(SUBSET {"stream", "hook", "reload"}) /\ held[r] \in SUBSET {"stream", "hook", "reload"}
    BY <1>1 DEF RuntimeInv, RuntimeTypes
  <2> QED BY <1>1, <2>1, <2>2
<1>4. errs' \in 0..ErrCap
  <2>1. errs' = errs \/ (ErrRoom /\ errs' = errs + 1)
    BY DEF Winds, PlanesStop, ListenersClose, APIShutdown, WebhookShutdown, DatabaseCloses
  <2> QED BY <2>1 DEF RuntimeInv, RuntimeTypes, ErrRoom, ErrCap
<1>5. WorksOpen(r)
  BY <1>1 DEF RuntimeInv, ClosesInv
<1>6. \E x \in RuntimeRecords :
        /\ rts' = [rts EXCEPT ![r] = x] /\ x.stopping = rts[r].stopping
        /\ x.cfg = rts[r].cfg \/ rts[r].stopping
        /\ x.api = rts[r].api \/ (x.api # "up" /\ (rts[r].stopping \/ rts[r].api # "up"))
        /\ x.sched \/ x.disp \/ x.api = "up" => x.db
  <2>1. CASE PlanesStop(r)
    <3>1. PICK x : x = [rts[r] EXCEPT !.sched = FALSE, !.disp = FALSE]
      OBVIOUS
    <3>2. rts' = [rts EXCEPT ![r] = x]
      BY <1>1, <2>1, <3>1 DEF PlanesStop
    <3>3. x \in RuntimeRecords
      BY <1>1, <3>1 DEF RuntimeRecords
    <3> QED BY <1>1, <1>5, <3>1, <3>2, <3>3 DEF RuntimeRecords, WorksOpen
  <2>2. CASE ListenersClose(r)
    <3>1. rts[r].stopping
      BY <2>2 DEF ListenersClose
    <3>2. CASE rts' = [rts EXCEPT ![r].api = "draining"]
      <4>1. PICK x : x = [rts[r] EXCEPT !.api = "draining"]
        OBVIOUS
      <4>2. x \in RuntimeRecords /\ rts' = [rts EXCEPT ![r] = x]
        BY <1>1, <3>2, <4>1 DEF RuntimeRecords
      <4> QED BY <1>1, <1>5, <3>1, <4>1, <4>2 DEF RuntimeRecords, WorksOpen
    <3>3. CASE rts' = [rts EXCEPT ![r].hook = "draining"]
      <4>1. PICK x : x = [rts[r] EXCEPT !.hook = "draining"]
        OBVIOUS
      <4>2. x \in RuntimeRecords /\ rts' = [rts EXCEPT ![r] = x]
        BY <1>1, <3>3, <4>1 DEF RuntimeRecords
      <4> QED BY <1>1, <1>5, <4>1, <4>2 DEF RuntimeRecords, WorksOpen
    <3> QED BY <2>2, <3>2, <3>3 DEF ListenersClose
  <2>3. CASE APIShutdown(r)
    <3>1. PICK x : x = [rts[r] EXCEPT !.api = "ended"]
      OBVIOUS
    <3>2. x \in RuntimeRecords /\ rts' = [rts EXCEPT ![r] = x] /\ rts[r].api # "up"
      BY <1>1, <2>3, <3>1 DEF RuntimeRecords, APIShutdown
    <3> QED BY <1>1, <1>5, <3>1, <3>2 DEF RuntimeRecords, WorksOpen
  <2>4. CASE WebhookShutdown(r)
    <3>1. PICK x : x = [rts[r] EXCEPT !.hook = "ended"]
      OBVIOUS
    <3>2. x \in RuntimeRecords /\ rts' = [rts EXCEPT ![r] = x]
      BY <1>1, <2>4, <3>1 DEF RuntimeRecords, WebhookShutdown
    <3> QED BY <1>1, <1>5, <3>1, <3>2 DEF RuntimeRecords, WorksOpen
  <2>5. CASE DatabaseCloses(r)
    <3>1. PICK x : x = [Gone EXCEPT !.stopping = TRUE]
      OBVIOUS
    <3>2. x \in RuntimeRecords /\ rts' = [rts EXCEPT ![r] = x] /\ rts[r].stopping
      BY <2>5, <3>1, GoneType DEF RuntimeRecords, DatabaseCloses
    <3>3. x.stopping /\ ~x.sched /\ ~x.disp /\ x.api = "none"
      BY <3>1, GoneType DEF RuntimeRecords
    <3>4. x.stopping = rts[r].stopping
      BY <1>1, <3>2, <3>3 DEF RuntimeRecords
    <3> QED BY <3>2, <3>3, <3>4
  <2> QED BY <2>1, <2>2, <2>3, <2>4, <2>5 DEF Winds
<1>7. PICK x \in RuntimeRecords :
        /\ rts' = [rts EXCEPT ![r] = x] /\ x.stopping = rts[r].stopping
        /\ x.cfg = rts[r].cfg \/ rts[r].stopping
        /\ x.api = rts[r].api \/ (x.api # "up" /\ (rts[r].stopping \/ rts[r].api # "up"))
        /\ x.sched \/ x.disp \/ x.api = "up" => x.db
  BY <1>6
<1>8. rts' \in Seq(RuntimeRecords) /\ Len(rts') = Len(rts)
  BY <1>1, <1>7, OneRuntime DEF RuntimeInv
<1>9. RuntimeTypes'
  BY <1>2, <1>3, <1>4, <1>8 DEF RuntimeInv, RuntimeTypes
<1> QED BY <1>1, <1>2, <1>3, <1>7, <1>9, WindsDown

\* The requests for a reload among the requests h that are open on the runtimes.
Open == SUBSET {"stream", "hook", "reload"}
Requests(h) == {q \in DOMAIN h : "reload" \in h[q]}
LEMMA AskedIs == Asked = Requests(held) /\ Asked' = Requests(held')
BY DEF Asked, Requests

\* One request for a reload is answered.
LEMMA RequestLess ==
  ASSUME NEW h \in Seq(Open), IsFiniteSet(Requests(h)), NEW b \in Requests(h),
         NEW g, g = [h EXCEPT ![b] = @ \ {"reload"}]
  PROVE  /\ g \in Seq(Open) /\ Len(g) = Len(h) /\ Requests(g) = Requests(h) \ {b}
         /\ IsFiniteSet(Requests(g)) /\ Cardinality(Requests(h)) \in Nat
         /\ Cardinality(Requests(g)) = Cardinality(Requests(h)) - 1
<1>1. b \in DOMAIN h /\ h[b] \in Open
  BY DEF Requests
<1>2. g \in Seq(Open) /\ Len(g) = Len(h) /\ DOMAIN g = DOMAIN h
  BY <1>1 DEF Open
<1>3. Requests(g) = Requests(h) \ {b}
  BY <1>1, <1>2 DEF Requests
<1>4. /\ IsFiniteSet(Requests(h) \ {b}) /\ Cardinality(Requests(h)) \in Nat
      /\ Cardinality(Requests(h) \ {b}) = Cardinality(Requests(h)) - 1
  BY FS_RemoveElement, FS_CardinalityType
<1> QED BY <1>2, <1>3, <1>4

\* A runtime more, on which no request is open.
LEMMA RequestsMore ==
  ASSUME NEW h \in Seq(Open)
  PROVE  Append(h, {}) \in Seq(Open) /\ Len(Append(h, {})) = Len(h) + 1 /\ Requests(Append(h, {})) = Requests(h)
<1>1. {} \in Open
  BY DEF Open
<1>2. PICK g : g = Append(h, {})
  OBVIOUS
<1>3. /\ g \in Seq(Open) /\ Len(g) = Len(h) + 1 /\ Len(h) \in Nat /\ DOMAIN h = 1..Len(h) /\ DOMAIN g = 1..(Len(h) + 1)
      /\ g[Len(h) + 1] = {} /\ \A q \in DOMAIN h : g[q] = h[q]
  BY <1>1, <1>2
<1>4. Requests(g) = Requests(h)
  BY <1>3 DEF Requests
<1> QED BY <1>2, <1>3, <1>4

\* The reload under way lets its request go: two builds less are booked.
LEMMA Released ==
  ASSUME RuntimeInv, reload.pc # "idle", NEW g, g = Release(held)
  PROVE  /\ g \in Seq(Open) /\ Len(g) = Len(held) /\ IsFiniteSet(Requests(g))
         /\ Cardinality(Requests(g)) \in Nat /\ Booked = 2 * Cardinality(Requests(g)) + 2
<1>1. held \in Seq(Open) /\ IsFiniteSet(Requests(held)) /\ Cardinality(Requests(held)) \in Nat
  BY AskedFinite, AskedIs DEF RuntimeInv, RuntimeTypes, Open
<1>2. CASE reload.by = 0
  <2>1. g = held /\ Own = 1
    BY <1>2 DEF Release, Own
  <2> QED BY <1>1, <2>1, BookedIs, AskedIs
<1>3. CASE reload.by # 0
  <2>1. reload.by \in Requests(held) /\ Own = 0
    BY <1>3 DEF RuntimeInv, ReloadInv, Requests, Own
  <2>2. g = [held EXCEPT ![reload.by] = @ \ {"reload"}]
    BY <1>3 DEF Release
  <2>3. /\ g \in Seq(Open) /\ Len(g) = Len(held) /\ IsFiniteSet(Requests(g))
        /\ Cardinality(Requests(g)) = Cardinality(Requests(held)) - 1
    BY <1>1, <2>1, <2>2, RequestLess
  <2>4. Cardinality(Requests(g)) \in Nat
    BY <2>3, FS_CardinalityType
  <2> QED BY <1>1, <2>1, <2>3, <2>4, BookedIs, AskedIs
<1> QED BY <1>2, <1>3

\* runStart: the first runtime of a process.
LEMMA RuntimeStarts == ASSUME RuntimeInv, runStart PROVE RuntimeInv'
<1>1. PICK b : b = buildRuntime(onDisk.cfg)
  OBVIOUS
<1>2. /\ gateway = "down" /\ Len(rts) < MaxRuntimes /\ b.ok /\ rts' = Append(rts, b.rt) /\ held' = Append(held, {})
      /\ current' = Len(rts) + 1 /\ gateway' = "up" /\ asked' = FALSE /\ answer' = Silent
      /\ UNCHANGED <<onDisk, edits, reload, errs, ending>>
  BY <1>1 DEF runStart, Built
<1>3. onDisk.cfg \in ConfigRecords /\ onDisk \in Disks
  BY RuntimeAssumption DEF RuntimeInv, RuntimeTypes
<1>4. /\ b.rt \in RuntimeRecords /\ ~b.rt.stopping /\ (b.rt.sched \/ b.rt.disp \/ b.rt.api = "up" => b.rt.db)
      /\ b.rt.cfg = onDisk.cfg /\ (OpensAPI(onDisk.cfg) => b.rt.api = "up")
  BY <1>1, <1>2, <1>3, BuildLeaves
<1>5. /\ rts' \in Seq(RuntimeRecords) /\ Len(rts) \in Nat /\ Len(rts') = Len(rts) + 1
      /\ rts'[Len(rts) + 1] = b.rt
      /\ \A q \in DOMAIN rts' : q \in DOMAIN rts \/ q = Len(rts) + 1
  BY <1>2, <1>4, RuntimeMore DEF RuntimeInv
<1>6. rts = <<>> /\ reload.pc = "idle"
  BY <1>2 DEF RuntimeInv, CurrentInv, ReloadInv
<1>7. reload = NoReload /\ held \in Seq(Open) /\ Len(held) = Len(rts)
  BY <1>6 DEF RuntimeInv, RuntimeTypes, ReloadRecords, Open
<1>8. held' \in Seq(Open) /\ Len(held') = Len(rts') /\ Requests(held') = Requests(held)
  BY <1>2, <1>5, <1>7, RequestsMore
<1>9. RuntimeTypes'
  <2>1. current' \in 0..Len(rts') /\ ending' \in 0..Len(rts')
    BY <1>2, <1>5 DEF RuntimeInv, RuntimeTypes
  <2>2. edits' \in 0..MaxEdits /\ errs' \in 0..ErrCap /\ reload' = NoReload
    BY <1>2, <1>7 DEF RuntimeInv, RuntimeTypes, NoReload
  <2> QED BY <1>2, <1>3, <1>5, <1>8, <2>1, <2>2, GoneType DEF RuntimeTypes, Open, NoReload
<1>10. ClosesInv'
  BY <1>2, <1>4, <1>5, <1>6 DEF ClosesInv, WorksOpen
<1>11. ReloadInv'
  BY <1>2, <1>6 DEF ReloadInv
<1>12. CurrentInv'
  BY <1>2, <1>4, <1>5, GoneType DEF CurrentInv, Serves
<1>13. RoomInv'
  <2>1. Requests(held) = {}
    BY <1>6, <1>7 DEF Requests
  <2>2. Cardinality(Asked') = 0
    BY <1>8, <2>1, AskedIs, FS_EmptySet
  <2>3. Own' = 0
    BY <1>2, <1>6 DEF Own
  <2> QED BY <1>2, <1>5, <2>2, <2>3, BookedThen, GoneType DEF RoomInv
<1> QED BY <1>9, <1>10, <1>11, <1>12, <1>13 DEF RuntimeInv

\* rm.Reload takes the mutex, for a signal or for a request that waits.
LEMMA RuntimeLoads ==
  ASSUME RuntimeInv, NEW by, by = 0 \/ by \in DOMAIN rts, ReloadLoads(by)
  PROVE  RuntimeInv'
<1>1. /\ UNCHANGED <<onDisk, edits, rts, current, errs, gateway, ending, asked>> /\ reload.pc = "idle"
      /\ by = 0 => gateway = "up" /\ Len(rts) + Booked + 2 <= MaxRuntimes
      /\ by # 0 => "reload" \in held[by]
  BY DEF ReloadLoads
<1>2. /\ held \in Seq(Open) /\ IsFiniteSet(Requests(held)) /\ Cardinality(Requests(held)) \in Nat
      /\ Len(held) = Len(rts) /\ Len(rts) \in Nat /\ DOMAIN held = DOMAIN rts /\ reload = NoReload
      /\ (current # 0 => current \in DOMAIN rts /\ rts[current].cfg \in ConfigRecords)
  BY <1>1, AskedFinite, AskedIs, RuntimeNumbers DEF RuntimeInv, RuntimeTypes, Open, RuntimeRecords, ReloadRecords
<1>3. Booked = 2 * Cardinality(Requests(held))
  BY <1>1, BookedIs, AskedIs, <1>2 DEF Own
<1>4. by # 0 => by \in Requests(held)
  BY <1>1, <1>2 DEF Requests
<1>5. \A r \in DOMAIN rts : Serves(r)' = Serves(r) /\ WorksOpen(r)' = WorksOpen(r)
  BY <1>1 DEF Serves, WorksOpen
<1>6. ClosesInv'
  BY <1>1, <1>5 DEF RuntimeInv, ClosesInv
<1>7. CASE current = 0 \/ onDisk.cfg.fault = "load"
  <2>1. /\ reload' = reload
        /\ answer' = [kind |-> IF current = 0 THEN "unavailable" ELSE "rejected",
                      cfg |-> IF current = 0 THEN AnyConfig ELSE rts[current].cfg]
        /\ held' = IF by = 0 THEN held ELSE [held EXCEPT ![by] = @ \ {"reload"}]
    BY <1>7 DEF ReloadLoads, Says
  <2>2. /\ held' \in Seq(Open) /\ Len(held') = Len(rts) /\ Cardinality(Requests(held')) \in Nat
        /\ Cardinality(Requests(held')) <= Cardinality(Requests(held))
    <3>1. CASE by = 0
      BY <1>2, <2>1, <3>1
    <3>2. CASE by # 0
      <4>1. /\ held' \in Seq(Open) /\ Len(held') = Len(held) /\ IsFiniteSet(Requests(held'))
            /\ Cardinality(Requests(held')) = Cardinality(Requests(held)) - 1
        BY <1>2, <1>4, <2>1, <3>2, RequestLess
      <4> QED BY <1>2, <4>1, FS_CardinalityType
    <3> QED BY <3>1, <3>2
  <2>3. answer' \in AnswerRecords
    BY <1>2, <2>1, GoneType DEF AnswerRecords
  <2>4. RuntimeTypes'
    BY <1>1, <1>2, <2>1, <2>2, <2>3 DEF RuntimeInv, RuntimeTypes, Open, NoReload
  <2>5. ReloadInv'
    BY <1>1, <2>1 DEF ReloadInv
  <2>6. CurrentInv'
    <3>1. answer'.kind \in {"ok", "rejected", "restored"} => current # 0 /\ answer'.cfg = rts[current].cfg
      BY <2>1
    <3> QED BY <1>1, <1>2, <1>5, <2>1, <3>1 DEF RuntimeInv, CurrentInv
  <2>7. RoomInv'
    <3>1. Own' = 0
      BY <1>1, <2>1 DEF Own
    <3>2. Booked' <= Booked
      BY <1>2, <1>3, <2>2, <3>1, BookedThen, AskedIs
    <3>3. Booked \in Nat /\ Booked' \in Nat
      BY <1>2, <1>3, <2>2, <3>1, BookedThen, AskedIs
    <3> QED BY <1>1, <1>2, <2>1, <3>2, <3>3, GoneType DEF RuntimeInv, RoomInv
  <2> QED BY <1>6, <2>1, <2>4, <2>5, <2>6, <2>7 DEF RuntimeInv
<1>8. CASE ~(current = 0 \/ onDisk.cfg.fault = "load")
  <2>1. /\ reload' = [pc |-> "loaded", by |-> by, old |-> current, cfg |-> onDisk.cfg, oldCfg |-> rts[current].cfg]
        /\ answer' = Silent /\ held' = held
    BY <1>8 DEF ReloadLoads
  <2>2. current \in DOMAIN rts /\ onDisk.cfg \in ConfigRecords /\ by \in Nat /\ current \in Nat
    BY <1>2, <1>8, RuntimeAssumption DEF RuntimeInv, RuntimeTypes
  <2>3. reload' \in ReloadRecords
    BY <1>2, <1>8, <2>1, <2>2 DEF ReloadRecords
  <2>4. RuntimeTypes'
    BY <1>1, <2>1, <2>3, GoneType DEF RuntimeInv, RuntimeTypes
  <2>5. ReloadInv'
    <3>1. gateway \in {"up", "stopping"}
      BY <1>8 DEF RuntimeInv, CurrentInv, RuntimeTypes
    <3> QED BY <1>1, <1>2, <1>4, <1>8, <2>1, <3>1, GoneType DEF ReloadInv, Requests
  <2>6. CurrentInv'
    BY <1>1, <1>2, <1>5, <1>8, <2>1, GoneType DEF RuntimeInv, CurrentInv
  <2>7. RoomInv'
    <3>1. Own' = IF by = 0 THEN 1 ELSE 0
      BY <2>1 DEF Own
    <3>2. Booked' = Booked + (IF by = 0 THEN 2 ELSE 0) /\ Booked \in Nat
      BY <1>2, <1>3, <2>1, <3>1, BookedThen, AskedIs
    <3> QED BY <1>1, <1>2, <2>1, <3>2, GoneType DEF RuntimeInv, RoomInv
  <2>8. ClosesInv'
    BY <1>1, <1>5 DEF RuntimeInv, ClosesInv
  <2> QED BY <2>4, <2>5, <2>6, <2>7, <2>8 DEF RuntimeInv
<1> QED BY <1>7, <1>8

\* verifyReloadIntegrity and validateReloadableFields.
LEMMA RuntimeVerifies == ASSUME RuntimeInv, ReloadVerifies PROVE RuntimeInv'
<1>1. reload.pc = "loaded" /\ UNCHANGED <<onDisk, edits, current, errs, gateway, ending, asked>>
  BY DEF ReloadVerifies
<1>2. /\ reload.old = current /\ current # 0 /\ gateway \in {"up", "stopping"} /\ answer.kind = "none"
      /\ reload.oldCfg = rts[current].cfg /\ current \in DOMAIN rts /\ reload \in ReloadRecords
      /\ Serves(current) /\ rts[current] \in RuntimeRecords /\ Len(rts) \in Nat /\ Len(held) = Len(rts)
  BY <1>1, RuntimeNumbers DEF RuntimeInv, ReloadInv, RuntimeTypes, NoReload, CurrentInv
<1>3. CASE verifyReloadIntegrity /\ validateReloadableFields
  <2>1. /\ reload' = [reload EXCEPT !.pc = "waiting"] /\ rts' = [rts EXCEPT ![current].stopping = TRUE]
        /\ held' = held /\ answer' = answer
    BY <1>2, <1>3 DEF ReloadVerifies
  <2>2. PICK x : x = [rts[current] EXCEPT !.stopping = TRUE]
    OBVIOUS
  <2>3. rts' = [rts EXCEPT ![current] = x] /\ x \in RuntimeRecords
    BY <1>2, <2>1, <2>2 DEF RuntimeRecords
  <2>4. /\ rts' \in Seq(RuntimeRecords) /\ Len(rts') = Len(rts) /\ DOMAIN rts' = DOMAIN rts
        /\ rts'[current] = x /\ \A q \in DOMAIN rts : q # current => rts'[q] = rts[q]
    BY <1>2, <2>3, OneRuntime DEF RuntimeInv
  <2>5. /\ reload' \in ReloadRecords /\ reload'.pc = "waiting" /\ reload'.by = reload.by /\ reload'.old = current
        /\ reload'.cfg = reload.cfg /\ reload'.oldCfg = reload.oldCfg
    BY <1>2, <2>1 DEF ReloadRecords
  <2>6. RuntimeTypes'
    BY <1>1, <2>1, <2>4, <2>5 DEF RuntimeInv, RuntimeTypes
  <2>7. ClosesInv'
    <3> SUFFICES ASSUME NEW r \in DOMAIN rts'
                 PROVE  /\ WorksOpen(r)'
                        /\ rts'[r].stopping /\ rts'[r].api = "up" =>
                             gateway' = "ending" \/ (reload'.pc = "waiting" /\ r = reload'.old)
      BY DEF ClosesInv
    <3>1. CASE r = current
      BY <1>2, <2>2, <2>4, <2>5, <3>1 DEF RuntimeInv, ClosesInv, WorksOpen, RuntimeRecords
    <3>2. CASE r # current
      BY <1>1, <1>2, <2>4, <3>2 DEF RuntimeInv, ClosesInv, WorksOpen
    <3> QED BY <3>1, <3>2
  <2>8. ReloadInv'
    BY <1>1, <1>2, <2>1, <2>5 DEF RuntimeInv, ReloadInv
  <2>9. CurrentInv'
    BY <1>1, <1>2, <2>5 DEF CurrentInv
  <2>10. RoomInv'
    <3>1. Own' = Own
      BY <1>1, <2>5 DEF Own
    <3>2. Booked' = Booked
      BY <2>1, <3>1, BookedIs, BookedThen, AskedIs
    <3> QED BY <1>1, <2>4, <2>5, <3>2 DEF RuntimeInv, RoomInv
  <2> QED BY <2>6, <2>7, <2>8, <2>9, <2>10 DEF RuntimeInv
<1>4. CASE ~(verifyReloadIntegrity /\ validateReloadableFields)
  <2>1. /\ answer' = [kind |-> "rejected", cfg |-> reload.oldCfg] /\ reload' = NoReload
        /\ held' = Release(held) /\ rts' = rts
    BY <1>4 DEF ReloadVerifies, Answered, Says
  <2>2. /\ held' \in Seq(Open) /\ Len(held') = Len(held)
        /\ Cardinality(Requests(held')) \in Nat /\ Booked = 2 * Cardinality(Requests(held')) + 2
    BY <1>1, <2>1, Released
  <2>3. answer' \in AnswerRecords
    BY <1>2, <2>1 DEF AnswerRecords, ReloadRecords
  <2>4. RuntimeTypes'
    BY <1>1, <1>2, <2>1, <2>2, <2>3 DEF RuntimeInv, RuntimeTypes, Open
  <2>5. ClosesInv'
    BY <1>1, <2>1, GoneType DEF RuntimeInv, ClosesInv, WorksOpen
  <2>6. ReloadInv'
    BY <2>1, GoneType DEF ReloadInv
  <2>7. CurrentInv'
    BY <1>1, <1>2, <2>1 DEF RuntimeInv, CurrentInv, Serves
  <2>8. RoomInv'
    <3>1. Own' = 0
      BY <2>1, GoneType DEF Own
    <3>2. Booked' = 2 * Cardinality(Requests(held'))
      BY <2>2, <3>1, BookedThen, AskedIs
    <3> QED BY <1>1, <1>2, <2>1, <2>2, <3>2, GoneType DEF RuntimeInv, RoomInv
  <2> QED BY <2>4, <2>5, <2>6, <2>7, <2>8 DEF RuntimeInv
<1> QED BY <1>3, <1>4

\* A reload ends with a build: the runtime it made is the manager's, or there is none.
LEMMA RuntimeReplaces ==
  ASSUME RuntimeInv, reload.pc \in {"waiting", "restoring"}, reload.pc = "waiting" => rts[current].api # "up",
         NEW c \in ConfigRecords, NEW b, b = buildRuntime(c),
         rts' = Append(rts, b.rt), held' = Append(Release(held), {}), reload' = NoReload,
         \/ /\ b.ok /\ current' = Len(rts) + 1
            /\ \E k \in {"ok", "restored"} : answer' = [kind |-> k, cfg |-> c]
         \/ current' = 0 /\ answer' = [kind |-> "failed", cfg |-> AnyConfig],
         UNCHANGED <<onDisk, edits, errs, gateway, ending, asked>>
  PROVE  RuntimeInv'
<1>1. /\ reload.old = current /\ current # 0 /\ gateway \in {"up", "stopping"} /\ current \in DOMAIN rts
      /\ Len(rts) \in Nat /\ Len(held) = Len(rts)
  BY RuntimeNumbers DEF RuntimeInv, ReloadInv, RuntimeTypes
<1>2. /\ b.rt \in RuntimeRecords /\ b.rt.cfg = c /\ ~b.rt.stopping
      /\ b.rt.sched \/ b.rt.disp \/ b.rt.api = "up" => b.rt.db
      /\ b.ok => (OpensAPI(c) => b.rt.api = "up")
  BY BuildLeaves
<1>3. /\ rts' \in Seq(RuntimeRecords) /\ Len(rts') = Len(rts) + 1
      /\ rts'[Len(rts) + 1] = b.rt /\ \A q \in DOMAIN rts : rts'[q] = rts[q]
      /\ \A q \in DOMAIN rts' : q \in DOMAIN rts \/ q = Len(rts) + 1
  BY <1>2, RuntimeMore DEF RuntimeInv
<1>4. PICK g : g = Release(held)
  OBVIOUS
<1>5. g \in Seq(Open) /\ Len(g) = Len(held) /\ Cardinality(Requests(g)) \in Nat /\ Booked = 2 * Cardinality(Requests(g)) + 2
  BY <1>4, Released
<1>6. held' \in Seq(Open) /\ Len(held') = Len(rts') /\ Requests(held') = Requests(g)
  BY <1>1, <1>3, <1>4, <1>5, RequestsMore
<1>7. RuntimeTypes'
  <2>1. answer' \in AnswerRecords
    BY GoneType DEF AnswerRecords
  <2>2. current' \in 0..Len(rts') /\ ending' \in 0..Len(rts')
    BY <1>1, <1>3 DEF RuntimeInv, RuntimeTypes
  <2> QED BY <1>3, <1>6, <2>1, <2>2 DEF RuntimeInv, RuntimeTypes, Open
<1>8. ClosesInv'
  <2> SUFFICES ASSUME NEW r \in DOMAIN rts'
               PROVE  WorksOpen(r)' /\ ~(rts'[r].stopping /\ rts'[r].api = "up")
    BY DEF ClosesInv
  <2>1. CASE r = Len(rts) + 1
    BY <1>2, <1>3, <2>1 DEF WorksOpen
  <2>2. CASE r \in DOMAIN rts
    BY <1>1, <1>3, <2>2 DEF RuntimeInv, ClosesInv, WorksOpen
  <2> QED BY <1>3, <2>1, <2>2
<1>9. ReloadInv'
  BY GoneType DEF ReloadInv
<1>10. CurrentInv'
  <2>1. CASE b.ok /\ current' = Len(rts) + 1 /\ \E k \in {"ok", "restored"} : answer' = [kind |-> k, cfg |-> c]
    <3>1. current' # 0 /\ rts'[current'] = b.rt
      BY <1>1, <1>3, <2>1
    <3>2. answer'.cfg = c
      BY <2>1
    <3> QED BY <1>1, <1>2, <2>1, <3>1, <3>2 DEF CurrentInv, Serves
  <2>2. CASE current' = 0 /\ answer' = [kind |-> "failed", cfg |-> AnyConfig]
    BY <1>1, <2>2 DEF CurrentInv
  <2> QED BY <2>1, <2>2
<1>11. RoomInv'
  <2>1. Own' = 0
    BY GoneType DEF Own
  <2>2. Booked' = 2 * Cardinality(Requests(g))
    BY <1>5, <1>6, <2>1, BookedThen, AskedIs
  <2> QED BY <1>1, <1>3, <1>5, <2>2, GoneType, SMTT(30) DEF RuntimeInv, RoomInv
<1> QED BY <1>7, <1>8, <1>9, <1>10, <1>11 DEF RuntimeInv

\* The build of a reload, once the old listeners are closed; no reload gives up waiting.
LEMMA RuntimeBuilds == ASSUME RuntimeInv, ReloadBuilds PROVE RuntimeInv'
<1>1. /\ reload.pc = "waiting" /\ ListenersStopped(reload.old)
      /\ UNCHANGED <<onDisk, edits, errs, gateway, ending, asked>>
  BY DEF ReloadBuilds, ListenersStopped
<1>2. /\ reload.old = current /\ current # 0 /\ gateway \in {"up", "stopping"} /\ answer.kind = "none"
      /\ current \in DOMAIN rts /\ Len(rts) \in Nat /\ Len(held) = Len(rts) /\ reload \in ReloadRecords
      /\ rts[current].api # "up" /\ reload.cfg \in ConfigRecords
  BY <1>1, RuntimeNumbers DEF RuntimeInv, ReloadInv, RuntimeTypes, NoReload, ListenersStopped, ReloadRecords
<1>3. PICK b : b = buildRuntime(reload.cfg)
  OBVIOUS
<1>4. CASE b.ok
  <2>1. /\ rts' = Append(rts, b.rt) /\ held' = Append(Release(held), {})
        /\ current' = Len(rts) + 1 /\ answer' = [kind |-> "ok", cfg |-> reload.cfg] /\ reload' = NoReload
    BY <1>1, <1>3, <1>4 DEF ReloadBuilds, Answered, Says
  <2> QED BY <1>1, <1>2, <1>3, <1>4, <2>1, RuntimeReplaces
<1>5. CASE ~b.ok
  <2>1. /\ rts' = Append(rts, b.rt) /\ held' = Append(held, {})
        /\ reload' = [reload EXCEPT !.pc = "restoring"] /\ UNCHANGED <<current, answer>>
    BY <1>1, <1>3, <1>5 DEF ReloadBuilds
  <2>2. b.rt \in RuntimeRecords /\ ~b.rt.stopping /\ (b.rt.sched \/ b.rt.disp \/ b.rt.api = "up" => b.rt.db)
    BY <1>2, <1>3, BuildLeaves
  <2>3. /\ rts' \in Seq(RuntimeRecords) /\ Len(rts') = Len(rts) + 1
        /\ rts'[Len(rts) + 1] = b.rt /\ \A q \in DOMAIN rts : rts'[q] = rts[q]
        /\ \A q \in DOMAIN rts' : q \in DOMAIN rts \/ q = Len(rts) + 1
    BY <2>1, <2>2, RuntimeMore DEF RuntimeInv
  <2>4. held \in Seq(Open)
    BY DEF RuntimeInv, RuntimeTypes, Open
  <2>5. held' \in Seq(Open) /\ Len(held') = Len(rts') /\ Requests(held') = Requests(held)
    BY <1>2, <2>1, <2>3, <2>4, RequestsMore
  <2>6. /\ reload' \in ReloadRecords /\ reload'.pc = "restoring" /\ reload'.by = reload.by /\ reload'.old = current
    BY <1>2, <2>1 DEF ReloadRecords
  <2>7. RuntimeTypes'
    <3>1. current' \in 0..Len(rts') /\ ending' \in 0..Len(rts')
      BY <1>1, <1>2, <2>1, <2>3 DEF RuntimeInv, RuntimeTypes
    <3> QED BY <1>1, <2>1, <2>3, <2>5, <2>6, <3>1 DEF RuntimeInv, RuntimeTypes, Open
  <2>8. ClosesInv'
    <3> SUFFICES ASSUME NEW r \in DOMAIN rts'
                 PROVE  WorksOpen(r)' /\ ~(rts'[r].stopping /\ rts'[r].api = "up")
      BY DEF ClosesInv
    <3>1. CASE r = Len(rts) + 1
      BY <2>2, <2>3, <3>1 DEF WorksOpen
    <3>2. CASE r \in DOMAIN rts
      BY <1>1, <1>2, <2>3, <3>2 DEF RuntimeInv, ClosesInv, WorksOpen
    <3> QED BY <2>3, <3>1, <3>2
  <2>9. ReloadInv'
    <3>1. reload.by # 0 => reload.by \in DOMAIN held' /\ "reload" \in held'[reload.by]
      <4>1. reload.by # 0 => reload.by \in Requests(held)
        BY <1>1 DEF RuntimeInv, ReloadInv, Requests
      <4> QED BY <2>5, <4>1 DEF Requests
    <3> QED BY <1>1, <1>2, <2>1, <2>6, <3>1 DEF ReloadInv
  <2>10. CurrentInv'
    BY <1>1, <1>2, <2>1, <2>6 DEF CurrentInv
  <2>11. RoomInv'
    <3>1. Own' = Own
      BY <1>1, <2>6 DEF Own
    <3>2. Booked' = Booked
      BY <2>5, <3>1, BookedIs, BookedThen, AskedIs
    <3>3. Booked \in Nat
      BY AskedFinite, BookedIs DEF RuntimeInv
    <3> QED BY <1>1, <1>2, <2>3, <2>6, <3>2, <3>3, GoneType DEF RuntimeInv, RoomInv
  <2> QED BY <2>7, <2>8, <2>9, <2>10, <2>11 DEF RuntimeInv
<1> QED BY <1>4, <1>5

\* The build of the old configuration, when that of the new one failed.
LEMMA RuntimeRestores == ASSUME RuntimeInv, ReloadRestoresOld PROVE RuntimeInv'
<1>1. PICK b : b = buildRuntime(reload.oldCfg)
  OBVIOUS
<1>2. /\ reload.pc = "restoring" /\ UNCHANGED <<onDisk, edits, errs, gateway, ending, asked>>
      /\ rts' = Append(rts, b.rt) /\ held' = Append(Release(held), {}) /\ reload' = NoReload
      /\ \/ b.ok /\ current' = Len(rts) + 1 /\ answer' = [kind |-> "restored", cfg |-> reload.oldCfg]
         \/ current' = 0 /\ answer' = [kind |-> "failed", cfg |-> AnyConfig]
  BY <1>1 DEF ReloadRestoresOld, RestoredConfig, Answered, Says
<1>3. reload.oldCfg \in ConfigRecords
  BY <1>2 DEF RuntimeInv, RuntimeTypes, NoReload, ReloadRecords
<1> QED BY <1>1, <1>2, <1>3, RuntimeReplaces

\* Clients come and leave; only a request for a reload books anything.
LEMMA RuntimeClients == ASSUME RuntimeInv, NEW r \in DOMAIN rts, ClientOpens(r) \/ ClientLeaves(r) PROVE RuntimeInv'
<1>1. UNCHANGED <<onDisk, edits, rts, current, reload, answer, errs, gateway, ending, asked>>
  BY DEF ClientOpens, ClientLeaves
<1>2. /\ held \in Seq(Open) /\ IsFiniteSet(Requests(held)) /\ Cardinality(Requests(held)) \in Nat
      /\ Len(held) = Len(rts) /\ Len(rts) \in Nat /\ DOMAIN held = DOMAIN rts /\ held[r] \in Open
  BY AskedFinite, AskedIs, RuntimeNumbers DEF RuntimeInv, RuntimeTypes, Open
<1>3. PICK s \in Open : /\ held' = [held EXCEPT ![r] = s] /\ ("reload" \in held[r] => "reload" \in s)
                        /\ "reload" \in s => "reload" \in held[r] \/ Len(rts) + Booked + 2 <= MaxRuntimes
  <2>1. CASE ClientOpens(r)
    <3>1. PICK o \in {"stream", "hook", "reload"} :
            /\ held' = [held EXCEPT ![r] = @ \union {o}]
            /\ o = "reload" => Len(rts) + Booked + 2 <= MaxRuntimes
      BY <2>1 DEF ClientOpens
    <3>2. PICK s : s = held[r] \union {o}
      OBVIOUS
    <3>3. s \in Open /\ held' = [held EXCEPT ![r] = s]
      BY <1>2, <3>1, <3>2 DEF Open
    <3> QED BY <3>1, <3>2, <3>3
  <2>2. CASE ClientLeaves(r)
    <3>1. PICK s : s = held[r] \intersect {"reload"}
      OBVIOUS
    <3>2. s \in Open /\ held' = [held EXCEPT ![r] = s]
      BY <1>2, <2>2, <3>1 DEF Open, ClientLeaves
    <3> QED BY <3>1, <3>2
  <2> QED BY <2>1, <2>2
<1>4. /\ held' \in Seq(Open) /\ Len(held') = Len(held) /\ DOMAIN held' = DOMAIN held
      /\ held'[r] = s /\ \A q \in DOMAIN held : q # r => held'[q] = held[q]
  BY <1>2, <1>3
<1>5. RuntimeTypes'
  BY <1>1, <1>2, <1>4 DEF RuntimeInv, RuntimeTypes, Open, NoReload
<1>6. ClosesInv'
  BY <1>1 DEF RuntimeInv, ClosesInv, WorksOpen
<1>7. ReloadInv'
  <2>1. \A q \in DOMAIN held : "reload" \in held[q] => "reload" \in held'[q]
    BY <1>3, <1>4
  <2> QED BY <1>1, <1>4, <2>1 DEF RuntimeInv, ReloadInv
<1>8. CurrentInv'
  BY <1>1 DEF RuntimeInv, CurrentInv, Serves
<1>9. RoomInv'
  <2>1. Own' = Own
    BY <1>1 DEF Own
  <2>2. CASE "reload" \in s <=> "reload" \in held[r]
    <3>1. Requests(held') = Requests(held)
      BY <1>2, <1>4, <2>2 DEF Requests
    <3>2. Booked' = Booked
      BY <2>1, <3>1, BookedIs, BookedThen, AskedIs
    <3> QED BY <1>1, <3>2 DEF RuntimeInv, RoomInv
  <2>3. CASE ~("reload" \in s <=> "reload" \in held[r])
    <3>1. "reload" \in s /\ "reload" \notin held[r] /\ Len(rts) + Booked + 2 <= MaxRuntimes
      BY <1>3, <2>3
    <3>2. Requests(held') = Requests(held) \union {r} /\ r \notin Requests(held)
      BY <1>2, <1>4, <3>1 DEF Requests
    <3>3. Cardinality(Requests(held')) = Cardinality(Requests(held)) + 1
      BY <1>2, <3>2, FS_AddElement
    <3>4. Booked' = Booked + 2 /\ Booked \in Nat
      BY <1>2, <2>1, <3>3, BookedIs, BookedThen, AskedIs
    <3> QED BY <1>1, <1>2, <3>1, <3>4, GoneType DEF RoomInv
  <2> QED BY <2>2, <2>3
<1> QED BY <1>5, <1>6, <1>7, <1>8, <1>9 DEF RuntimeInv

\* The supervisor loop is told to stop, by a signal or by a component's error.
LEMMA RuntimeTold == ASSUME RuntimeInv, ToldToStop \/ ComponentFailed PROVE RuntimeInv'
<1>1. /\ UNCHANGED <<onDisk, edits, rts, held, current, reload, answer, ending>> /\ gateway = "up" /\ gateway' = "stopping"
      /\ (errs' = errs \/ (errs > 0 /\ errs' = errs - 1)) /\ asked' \in BOOLEAN
  BY DEF ToldToStop, ComponentFailed, MainIdle, RuntimeInv, RuntimeTypes
<1>2. errs' \in 0..ErrCap
  BY <1>1 DEF RuntimeInv, RuntimeTypes, ErrCap
<1>3. RuntimeTypes'
  BY <1>1, <1>2 DEF RuntimeInv, RuntimeTypes, NoReload
<1>4. ClosesInv'
  BY <1>1 DEF RuntimeInv, ClosesInv, WorksOpen
<1>5. ReloadInv'
  BY <1>1 DEF RuntimeInv, ReloadInv
<1>6. CurrentInv'
  BY <1>1 DEF RuntimeInv, CurrentInv, Serves
<1>7. Asked' = Asked
  BY <1>1 DEF Asked
<1>8. RoomInv'
  BY <1>1, <1>3, <1>7, RoomSame
<1> QED BY <1>3, <1>4, <1>5, <1>6, <1>8 DEF RuntimeInv

\* rm.Stop, once no reload holds the mutex.
LEMMA RuntimeStops == ASSUME RuntimeInv, ManagerStops PROVE RuntimeInv'
<1>1. /\ gateway = "stopping" /\ reload.pc = "idle" /\ gateway' = "ending" /\ ending' = current /\ current' = 0
      /\ rts' = [r \in DOMAIN rts |-> IF r = current THEN [rts[r] EXCEPT !.stopping = TRUE] ELSE rts[r]]
      /\ UNCHANGED <<onDisk, edits, held, reload, answer, errs, asked>>
  BY DEF ManagerStops
<1>2. Len(rts) \in Nat /\ DOMAIN rts = 1..Len(rts) /\ \A r \in DOMAIN rts : rts[r] \in RuntimeRecords
  BY RuntimeNumbers DEF RuntimeInv
<1>3. \A r \in DOMAIN rts : /\ rts'[r] \in RuntimeRecords /\ rts'[r].sched = rts[r].sched
                            /\ rts'[r].disp = rts[r].disp /\ rts'[r].api = rts[r].api /\ rts'[r].db = rts[r].db
  BY <1>1, <1>2 DEF RuntimeRecords
<1>4. DOMAIN rts' = 1..Len(rts)
  BY <1>1, <1>2
<1>5. rts' \in Seq(RuntimeRecords) /\ Len(rts') = Len(rts)
  BY <1>1, <1>2, <1>3, <1>4
<1>6. RuntimeTypes'
  BY <1>1, <1>2, <1>5 DEF RuntimeInv, RuntimeTypes, NoReload
<1>7. ClosesInv'
  BY <1>1, <1>2, <1>3, <1>4 DEF RuntimeInv, ClosesInv, WorksOpen
<1>8. ReloadInv' /\ CurrentInv'
  BY <1>1 DEF RuntimeInv, ReloadInv, CurrentInv
<1>9. Asked' = Asked
  BY <1>1 DEF Asked
<1>10. RoomInv'
  BY <1>1, <1>5, <1>6, <1>9, RoomSame
<1> QED BY <1>6, <1>7, <1>8, <1>10 DEF RuntimeInv

\* A process in which nothing runs.
LEMMA RuntimeDown ==
  ASSUME onDisk \in Disks, edits \in 0..MaxEdits, rts = <<>>, held = <<>>, current = 0, reload = NoReload,
         answer = Silent, errs = 0, gateway = "down", ending = 0, asked \in BOOLEAN
  PROVE  RuntimeInv
<1>1. RuntimeTypes
  BY GoneType DEF RuntimeTypes, ErrCap
<1>2. ClosesInv /\ ReloadInv /\ CurrentInv
  BY GoneType DEF ClosesInv, ReloadInv, CurrentInv
<1>3. Asked = {}
  BY DEF Asked
<1>4. Own = 0
  BY GoneType DEF Own
<1>5. Booked = 0 /\ Len(rts) = 0
  BY <1>3, <1>4, BookedIs, FS_EmptySet
<1>6. RoomInv
  BY <1>5, GoneType DEF RoomInv
<1> QED BY <1>1, <1>2, <1>6 DEF RuntimeInv

\* The process returns.
LEMMA RuntimeExits == ASSUME RuntimeInv, ProcessExits PROVE RuntimeInv'
<1>1. /\ gateway = "ending" /\ gateway' = "down" /\ ending' = 0 /\ errs' = 0 /\ answer' = Silent /\ reload' = NoReload
      /\ rts' = <<>> /\ held' = <<>> /\ UNCHANGED <<onDisk, edits, current, asked>>
  BY DEF ProcessExits
<1>2. current' = 0
  BY <1>1 DEF RuntimeInv, CurrentInv
<1>3. RuntimeTypes'
  BY <1>1, <1>2, GoneType DEF RuntimeInv, RuntimeTypes, ErrCap
<1>4. ClosesInv' /\ ReloadInv' /\ CurrentInv'
  BY <1>1, <1>2, GoneType DEF ClosesInv, ReloadInv, CurrentInv
<1>5. Asked' = {}
  BY <1>1 DEF Asked
<1>6. Own' = 0
  BY <1>1, GoneType DEF Own
<1>7. Booked' = 0 /\ Len(rts') = 0
  BY <1>1, <1>5, <1>6, BookedThen, FS_EmptySet
<1>8. RoomInv'
  BY <1>1, <1>7, GoneType DEF RoomInv
<1> QED BY <1>3, <1>4, <1>8 DEF RuntimeInv

\* The invariant says nothing about what an operator leaves in the directory.
LEMMA RuntimeEdits == ASSUME RuntimeInv, UNCHANGED runtimeVars \/ Edit PROVE RuntimeInv'
<1>1. /\ UNCHANGED <<rts, held, current, reload, answer, errs, gateway, ending, asked>>
      /\ onDisk' \in Disks /\ edits' \in 0..MaxEdits
  BY GoneType DEF runtimeVars, Edit, RuntimeInv, RuntimeTypes
<1>2. RuntimeTypes'
  BY <1>1 DEF RuntimeInv, RuntimeTypes, NoReload
<1>3. ClosesInv' /\ ReloadInv' /\ CurrentInv'
  BY <1>1 DEF RuntimeInv, ClosesInv, WorksOpen, ReloadInv, CurrentInv, Serves
<1>4. Asked' = Asked
  BY <1>1 DEF Asked
<1>5. RoomInv'
  BY <1>1, <1>2, <1>4, RoomSame
<1> QED BY <1>2, <1>3, <1>5 DEF RuntimeInv

\* Every step of the process, its runtimes, their clients and the operator keeps it.
LEMMA RuntimeStep == ASSUME RuntimeInv, [RuntimeNext]_runtimeVars PROVE RuntimeInv'
<1>1. CASE \E r \in 1..MaxRuntimes : Winds(r) \/ Waits(r)
  <2>1. PICK r \in 1..MaxRuntimes : Winds(r) \/ Waits(r)
    BY <1>1
  <2> QED BY <2>1, RuntimeWinds, RuntimeLoads DEF Waits
<1>2. CASE Reloads
  BY <1>2, RuntimeVerifies, RuntimeBuilds, RuntimeRestores DEF Reloads
<1>3. CASE Supervises
  BY <1>3, RuntimeTold, RuntimeStops, RuntimeExits DEF Supervises
<1>4. CASE runStart
  BY <1>4, RuntimeStarts
<1>5. CASE ReloadLoads(0)
  BY <1>5, RuntimeLoads
<1>6. CASE ToldToStop
  BY <1>6, RuntimeTold
<1>7. CASE Edit \/ UNCHANGED runtimeVars
  BY <1>7, RuntimeEdits
<1>8. CASE \E r \in DOMAIN rts : ClientOpens(r) \/ ClientLeaves(r)
  BY <1>8, RuntimeClients
<1> QED BY <1>1, <1>2, <1>3, <1>4, <1>5, <1>6, <1>7, <1>8 DEF RuntimeNext

\* The daemon's inductive invariant holds in every state: types, what works on an open
\* database, the reload under way, the manager's runtime and the room for builds.
THEOREM RuntimeSafe == RuntimeSpec => []RuntimeInv
<1>1. RuntimeInit => RuntimeInv
  <2> SUFFICES ASSUME RuntimeInit PROVE RuntimeInv
    OBVIOUS
  <2>1. edits \in 0..MaxEdits
    BY GoneType DEF RuntimeInit
  <2>2. asked \in BOOLEAN
    BY Zenon DEF RuntimeInit
  <2>3. onDisk \in Disks
    BY RuntimeAssumption, Zenon DEF RuntimeInit
  <2> QED BY <2>1, <2>2, <2>3, RuntimeDown DEF RuntimeInit
<1>2. RuntimeInv /\ [RuntimeNext]_runtimeVars => RuntimeInv'
  BY RuntimeStep
<1> QED BY <1>1, <1>2, PTL DEF RuntimeSpec

\* A reload is truthful: what it answered is the configuration that runs and serves, no
\* reload gives up waiting for the old listeners, and whatever works on a runtime's
\* database does so while it is open (ReloadTruthful).
THEOREM ReloadsAreTruthful == RuntimeSpec => []ReloadTruthful
<1>1. RuntimeInv => ReloadTruthful
  <2> SUFFICES ASSUME RuntimeInv PROVE ReloadTruthful
    OBVIOUS
  <2>1. Len(rts) <= MaxRuntimes
    <3>1. Booked \in Nat
      BY AskedFinite, BookedIs DEF RuntimeInv
    <3>2. reload.pc = "restoring" => Booked >= 2
      <4> SUFFICES ASSUME reload.pc = "restoring" PROVE Booked >= 2
        OBVIOUS
      <4>1. PICK g : g = Release(held)
        OBVIOUS
      <4>2. Cardinality(Requests(g)) \in Nat /\ Booked = 2 * Cardinality(Requests(g)) + 2
        BY <4>1, Released
      <4> QED BY <4>2
    <3>3. Len(rts) \in Nat /\ MaxRuntimes \in Nat
      BY RuntimeNumbers, GoneType DEF RuntimeInv
    <3> QED BY <3>1, <3>2, <3>3 DEF RuntimeInv, RoomInv
  <2>2. \A r \in DOMAIN rts : rts[r] \in RuntimeRecords /\ held[r] \subseteq {"stream", "hook", "reload"} /\ WorksOpen(r)
    BY RuntimeNumbers DEF RuntimeInv, ClosesInv
  <2>3. RuntimeTypeOK
    <3>1. reload.pc \in {"idle", "loaded", "waiting", "restoring"}
      BY DEF RuntimeInv, RuntimeTypes, NoReload, ReloadRecords
    <3>2. answer.kind \in {"none", "unavailable", "ok", "rejected", "restored", "failed", "timeout"}
      BY DEF RuntimeInv, RuntimeTypes, AnswerRecords
    <3>3. \A r \in DOMAIN rts :
            rts[r].api \in {"none", "up", "draining", "ended"} /\ rts[r].hook \in {"none", "up", "draining", "ended"}
      BY <2>2 DEF RuntimeRecords
    <3> QED BY <2>1, <2>2, <3>1, <3>2, <3>3, RuntimeNumbers DEF RuntimeInv, RuntimeTypes, RuntimeTypeOK, WorksOpen
  <2>4. AnswerTellsConfig
    <3>1. answer.kind # "timeout"
      BY DEF RuntimeInv, RuntimeTypes, AnswerRecords
    <3> QED BY <3>1 DEF RuntimeInv, CurrentInv, Serves, AnswerTellsConfig
  <2> QED BY <2>3, <2>4 DEF ReloadTruthful
<1> QED BY <1>1, RuntimeSafe, PTL

\* A build in a reload fails for a fault of its configuration or of the disk, or for a
\* listener an earlier failed build left: never because the runtime it replaces is in its
\* way (PredecessorOutOfTheWay).
THEOREM PredecessorsLeave == RuntimeSpec => PredecessorOutOfTheWay
<1>1. RuntimeInv /\ [RuntimeNext]_runtimeVars =>
        [reload.pc = "waiting" /\ reload'.pc = "restoring" =>
           CannotBuild(reload.cfg) \/ \E r \in DOMAIN rts : Left(r)]_runtimeVars
  <2> SUFFICES ASSUME RuntimeInv, RuntimeNext, reload.pc = "waiting", reload'.pc = "restoring"
               PROVE  CannotBuild(reload.cfg) \/ \E r \in DOMAIN rts : Left(r)
    OBVIOUS
  <2>1. ReloadBuilds
    <3>1. reload' # reload /\ NoReload.pc = "idle"
      BY GoneType
    <3> QED BY <3>1 DEF RuntimeNext, Winds, PlanesStop, ListenersClose, APIShutdown, WebhookShutdown, DatabaseCloses,
              Waits, ReloadLoads, Reloads, ReloadVerifies, ReloadRestoresOld, Supervises, ComponentFailed,
              ManagerStops, ProcessExits, runStart, ToldToStop, Edit, ClientOpens, ClientLeaves
  <2>2. ListenersStopped(reload.old) /\ reload.old = current /\ gateway # "ending" /\ reload.cfg \in ConfigRecords
    BY <2>1 DEF ReloadBuilds, ListenersStopped, RuntimeInv, ReloadInv, RuntimeTypes, NoReload, ReloadRecords
  <2>3. PICK b : b = buildRuntime(reload.cfg)
    OBVIOUS
  <2>4. ~b.ok
    <3>1. b.ok => reload' = NoReload
      BY <2>1, <2>2, <2>3 DEF ReloadBuilds, Answered
    <3> QED BY <3>1, GoneType
  <2>5. CannotBuild(reload.cfg) \/ PortTaken
    BY <2>2, <2>3, <2>4, BuildLeaves
  <2>6. PortTaken => \E r \in DOMAIN rts : Left(r)
    BY <2>2 DEF PortTaken, Left, ListenersStopped, RuntimeInv, ClosesInv
  <2> QED BY <2>5, <2>6
<1> QED BY <1>1, RuntimeSafe, PTL DEF RuntimeSpec, PredecessorOutOfTheWay
=============================================================================
