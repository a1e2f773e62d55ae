----------------------------- MODULE ConfigEdit -----------------------------
(***************************************************************************)
(* The configuration directory and the commands that change it             *)
(* (src/cmd/ductile/config.go, src/cmd/ductile/config_manage.go and        *)
(* src/internal/config): config set, the edits of a plugin, the routes and *)
(* the webhooks, init, lock, backup and restore.                           *)
(*                                                                         *)
(* No lock keeps two commands apart, and each may be killed between any    *)
(* two of its writes.  A content is a number, whether it is a valid part   *)
(* of a configuration, and whether it names the other files in include; a  *)
(* hash is the content hashed.  One load is one step.                      *)
(***************************************************************************)
EXTENDS Integers, Sequences, FiniteSets

CONSTANTS Included,       \* the files that an edited config.yaml includes
          MaxContents,    \* contents that may be written by hand or by an edit
          MaxCommands,    \* commands begun
          MaxKills,       \* commands killed
          Sessions        \* the terminals in use, and what is spent of each bound

Discovered == {"config", "routes", "webhooks"}
ConfigFiles == Discovered \union {"plugin"}
Paths == ConfigFiles \union {".checksums"}

ASSUME EditAssumption ==
  /\ Included \subseteq ConfigFiles \ {"config"}
  /\ MaxContents \in Nat /\ MaxCommands \in Nat /\ MaxKills \in Nat
  /\ \A w \in Sessions : w.contents \in 1..MaxContents /\ w.commands \in 0..MaxCommands /\ w.kills \in 0..MaxKills

VARIABLES disk,           \* what is at each path
          bak,            \* the .bak beside each file
          archive,        \* the backup: its entries, and whether it was completed
          shell,          \* the command at each terminal
          contents,       \* how many contents have been written
          begun,          \* how many commands have begun
          killed,         \* how many commands have been killed
          overwrote       \* an init or a restore has begun to write

Terminals == DOMAIN shell

editVars == <<disk, bak, archive, shell, contents, begun, killed, overwrote>>

----------------------------------------------------------------------------
(* Contents *)

Content(v, ok, inc) == [v |-> v, ok |-> ok, inc |-> inc]
Absent == Content(-1, FALSE, FALSE)
Scaffold == Content(0, TRUE, FALSE)

\* A file that was truncated and not yet, or never, filled: what is left may still be valid.
TornNumber == -2
Torn(p) == {Content(TornNumber, FALSE, FALSE), Content(TornNumber, TRUE, FALSE), Content(TornNumber, TRUE, p = "config")}

Manifest(h) == [v |-> 1, hashes |-> h]
NoEntries == [entries |-> <<>>, closed |-> FALSE]

Present(d, p) == d[p].v # -1
Whole(d, p) == d[p].v >= 0
Parses(d, p) == Whole(d, p) \/ d[p].ok

\* The files a load reads; an included directory may be empty.
Loaded(d) == {"config"} \union IF d["config"].inc THEN Included \ {f \in {"plugin"} : ~Present(d, f)} ELSE {}

\* DiscoverConfigFiles and AllFiles: files of plugins/ are not among them.
AllFiles(d) == {f \in Discovered : Present(d, f)}
FileTier(f) == IF f = "webhooks" THEN "high" ELSE "operational"

\* The manifest records the content that the file now has.
VerifyFileHash(d, f) == f \in DOMAIN d[".checksums"].hashes /\ d[".checksums"].hashes[f] = d[f]

\* An included webhooks.yaml has to be in a manifest that can be read.
verifyScopeFilesRecursively(d) ==
  "webhooks" \in Loaded(d) => Whole(d, ".checksums") /\ VerifyFileHash(d, "webhooks")

LoadForLock(d) == \A f \in Loaded(d) : Present(d, f) /\ Parses(d, f)
Loads(d) == (\A f \in Loaded(d) : Present(d, f) /\ d[f].ok) /\ verifyScopeFilesRecursively(d)

\* The files of a tier that VerifyIntegrity complains of.
VerifyIntegrity(d, tier) ==
  CASE ~Present(d, ".checksums") -> {f \in AllFiles(d) : tier = "high" /\ FileTier(f) = tier}
    [] Present(d, ".checksums") /\ ~Whole(d, ".checksums") -> IF tier = "high" THEN AllFiles(d) ELSE {}
    [] OTHER -> {f \in AllFiles(d) : FileTier(f) = tier /\ ~VerifyFileHash(d, f)}

\* GenerateChecksumsFromDiscovery and GenerateChecksumsWithFingerprints.
GenerateChecksums(d) == Manifest([f \in AllFiles(d) |-> d[f]])

----------------------------------------------------------------------------
(* Commands *)

Rest == [kind |-> "none", at |-> "idle", file |-> "none", before |-> Absent, cand |-> Absent,
         todo |-> <<>>, keep |-> FALSE, crossed |-> FALSE, failed |-> FALSE]

AtRest(o) == shell[o].at \in {"idle", "done", "killed"}

\* What the commands at the other terminals found may no longer be so.
Cross(c) == IF c.at \in {"idle", "done", "killed"} THEN Rest ELSE [c EXCEPT !.crossed = TRUE]

Begin(o, c) ==
  /\ AtRest(o) /\ begun < MaxCommands /\ begun' = begun + 1
  /\ shell' = [p \in Terminals |-> IF p # o THEN Cross(shell[p])
                                 ELSE [c EXCEPT !.crossed = \E q \in Terminals \ {o} : ~AtRest(q)]]

NewCommand(kind, at) == [Rest EXCEPT !.kind = kind, !.at = at]
Change(kind, at, file, cand) == [NewCommand(kind, at) EXCEPT !.file = file, !.cand = cand]

Step(o, at) == shell' = [shell EXCEPT ![o].at = at]

\* The next content, which the operator thought up and which may be wrong.
Written(inc) == {Content(contents + 1, ok, inc) : ok \in BOOLEAN}

\* config set: load, change the tree of config.yaml in memory.
runConfigSet(o) ==
  /\ Loads(disk) /\ contents < MaxContents
  /\ \E c \in Written(disk["config"].inc) : Begin(o, Change("set", "read", "config", c))
  /\ contents' = contents + 1
  /\ UNCHANGED <<disk, bak, archive, killed, overwrote>>

\* persistWithValidation reads the file again, for the way back.
persistReads(o) ==
  /\ shell[o].at = "read"
  /\ shell' = [shell EXCEPT ![o].at = "publish", ![o].before = disk["config"]]
  /\ UNCHANGED <<disk, bak, archive, contents, begun, killed, overwrote>>

\* A temporary file is renamed over config.yaml.
WriteFileAtomic(o) ==
  /\ shell[o].at = "publish"
  /\ disk' = [disk EXCEPT ![shell[o].file] = shell[o].cand]
  /\ Step(o, "check")
  /\ UNCHANGED <<bak, archive, contents, begun, killed, overwrote>>

persistLoads(o) ==
  /\ shell[o].at = "check"
  /\ Step(o, IF Loads(disk) THEN "done" ELSE "rollback")
  /\ UNCHANGED <<disk, bak, archive, contents, begun, killed, overwrote>>

persistRestores(o) ==
  /\ shell[o].at = "rollback"
  /\ disk' = [disk EXCEPT !["config"] = shell[o].before]
  /\ shell' = [shell EXCEPT ![o].at = "done", ![o].failed = TRUE]
  /\ UNCHANGED <<bak, archive, contents, begun, killed, overwrote>>

resolveConfigTarget(d) == Present(d, "config")
loadOwnFile(d, f) == ~Present(d, f) \/ Parses(d, f)

\* plugin set needs a configuration that loads; route add, route remove and webhook
\* add need only the file they change.
Editable(d, f) == resolveConfigTarget(d) /\ IF f = "plugin" THEN Loads(d) ELSE loadOwnFile(d, f)

EditBegins(o, f) ==
  /\ Editable(disk, f) /\ contents < MaxContents
  /\ \E c \in Written(FALSE) : Begin(o, Change("edit", "bak", f, c))
  /\ contents' = contents + 1
  /\ UNCHANGED <<disk, bak, archive, killed, overwrote>>

runConfigPluginSet(o) == EditBegins(o, "plugin")
runConfigRouteMutation(o) == EditBegins(o, "routes")
runConfigWebhookAdd(o) == EditBegins(o, "webhooks")

\* writeFileAtomicWithBackup first copies the file to .bak, in place.
BackupBegins(o) ==
  LET f == shell[o].file
  IN /\ shell[o].at = "bak"
     /\ shell' = [shell EXCEPT ![o].at = IF Present(disk, f) THEN "copy" ELSE "rename", ![o].before = disk[f]]
     /\ bak' = IF Present(disk, f) THEN [bak EXCEPT ![f] = Content(TornNumber, FALSE, FALSE)] ELSE bak
     /\ UNCHANGED <<disk, archive, contents, begun, killed, overwrote>>

BackupEnds(o) ==
  /\ shell[o].at = "copy"
  /\ bak' = [bak EXCEPT ![shell[o].file] = shell[o].before]
  /\ Step(o, "rename")
  /\ UNCHANGED <<disk, archive, contents, begun, killed, overwrote>>

\* Mutant: the manifest is not refreshed.
writeFileAtomicWithBackup_Unhashed(o) ==
  /\ shell[o].at = "rename"
  /\ disk' = [disk EXCEPT ![shell[o].file] = shell[o].cand]
  /\ Step(o, "done")
  /\ UNCHANGED <<bak, archive, contents, begun, killed, overwrote>>

\* Then the new content is renamed over the file, and the command refreshes the manifest.
writeFileAtomicWithBackup(o) ==
  /\ shell[o].at = "rename"
  /\ disk' = [disk EXCEPT ![shell[o].file] = shell[o].cand]
  /\ Step(o, "hash")
  /\ UNCHANGED <<bak, archive, contents, begun, killed, overwrote>>

\* refreshConfigIntegrity, and config lock: hash what is there, then replace the manifest.
ConfigLocks(o) ==
  /\ resolveConfigTarget(disk) /\ LoadForLock(disk)
  /\ Begin(o, NewCommand("lock", "hash"))
  /\ UNCHANGED <<disk, bak, archive, contents, killed, overwrote>>

refreshHashes(o) ==
  /\ shell[o].at = "hash"
  /\ shell' = [shell EXCEPT ![o].at = "manifest", ![o].cand = GenerateChecksums(disk)]
  /\ UNCHANGED <<disk, bak, archive, contents, begun, killed, overwrote>>

writeChecksumsAtomic(o) ==
  /\ shell[o].at = "manifest"
  /\ disk' = [disk EXCEPT ![".checksums"] = shell[o].cand]
  /\ Step(o, "done")
  /\ UNCHANGED <<bak, archive, contents, begun, killed, overwrote>>

----------------------------------------------------------------------------
(* init and restore write file by file, in place *)

Entry(p, c) == [path |-> p, content |-> c]
Scaffolding == <<Entry("config", Scaffold), Entry("routes", Scaffold), Entry("webhooks", Scaffold)>>

\* Without --force, keep what is there.
runConfigInit(o) ==
  /\ \E force \in BOOLEAN : Begin(o, [NewCommand("init", "open") EXCEPT !.todo = Scaffolding, !.keep = ~force])
  /\ UNCHANGED <<disk, bak, archive, contents, killed, overwrote>>

\* An archive that was cut off is read as far as it goes.
runConfigRestore(o) ==
  /\ archive.entries # <<>>
  /\ \A p \in Terminals : AtRest(p) \/ shell[p].kind # "backup"
  /\ \E n \in 1..Len(archive.entries) :
       /\ archive.closed => n = Len(archive.entries)
       /\ Begin(o, [NewCommand("restore", "open") EXCEPT !.todo = SubSeq(archive.entries, 1, n)])
  /\ UNCHANGED <<disk, bak, archive, contents, killed, overwrote>>

\* After the last file: the manifest, or the error of an archive that was cut off.
Filled(c) ==
  IF Len(c.todo) > 1 THEN [c EXCEPT !.at = "open", !.todo = Tail(c.todo)]
  ELSE IF c.kind = "restore" /\ ~archive.closed THEN [c EXCEPT !.at = "done", !.todo = <<>>, !.failed = TRUE]
  ELSE [c EXCEPT !.at = "hash", !.todo = <<>>]

\* os.WriteFile and O_TRUNC: the file is empty first.
writeIfNeeded(o) ==
  LET p == Head(shell[o].todo).path
  IN /\ shell[o].at = "open"
     /\ IF shell[o].keep /\ Present(disk, p)
        THEN shell' = [shell EXCEPT ![o] = Filled(@)] /\ UNCHANGED <<disk, overwrote>>
        ELSE /\ \E t \in Torn(p) : disk' = [disk EXCEPT ![p] = t]
             /\ Step(o, "fill") /\ overwrote' = TRUE
     /\ UNCHANGED <<bak, archive, contents, begun, killed>>

Fill(o) ==
  LET e == Head(shell[o].todo)
  IN /\ shell[o].at = "fill"
     /\ disk' = [disk EXCEPT ![e.path] = e.content]
     /\ shell' = [shell EXCEPT ![o] = Filled(@)]
     /\ UNCHANGED <<bak, archive, contents, begun, killed, overwrote>>

\* The last file of an archive that was cut off may itself be short.
FillFails(o) ==
  /\ shell[o].at = "fill" /\ shell[o].kind = "restore" /\ ~archive.closed /\ Len(shell[o].todo) = 1
  /\ shell' = [shell EXCEPT ![o].at = "done", ![o].todo = <<>>, ![o].failed = TRUE]
  /\ UNCHANGED <<disk, bak, archive, contents, begun, killed, overwrote>>

----------------------------------------------------------------------------
(* backup copies file by file *)

BackupItems == <<"config", "routes", "webhooks", ".checksums", "plugin">>

runConfigBackup(o) ==
  /\ resolveConfigTarget(disk)
  /\ \A p \in Terminals : AtRest(p) \/ shell[p].kind \notin {"backup", "restore"}
  /\ Begin(o, [NewCommand("backup", "item") EXCEPT !.todo = BackupItems])
  /\ archive' = NoEntries
  /\ UNCHANGED <<disk, bak, contents, killed, overwrote>>

createConfigBackup(o) ==
  LET p == Head(shell[o].todo)
      left == Tail(shell[o].todo)
  IN /\ shell[o].at = "item"
     /\ archive' = [entries |-> IF Present(disk, p) THEN Append(archive.entries, Entry(p, disk[p]))
                                ELSE archive.entries,
                    closed |-> left = <<>>]
     /\ shell' = [shell EXCEPT ![o].todo = left, ![o].at = IF left = <<>> THEN "done" ELSE "item"]
     /\ UNCHANGED <<disk, bak, contents, begun, killed, overwrote>>

----------------------------------------------------------------------------
\* An editor writes a file behind the commands' backs.
HandEdit(f) ==
  /\ contents < MaxContents /\ contents' = contents + 1
  /\ \E c \in Written(f = "config") : disk' = [disk EXCEPT ![f] = c]
  /\ shell' = [o \in Terminals |-> Cross(shell[o])]
  /\ UNCHANGED <<bak, archive, begun, killed, overwrote>>

Kill(o) ==
  /\ ~AtRest(o) /\ killed < MaxKills
  /\ killed' = killed + 1
  /\ Step(o, "killed")
  /\ UNCHANGED <<disk, bak, archive, contents, begun, overwrote>>

----------------------------------------------------------------------------
UnlockedDir == [p \in Paths |-> CASE p = "config" -> Content(1, TRUE, TRUE)
                               [] p \in {"routes", "webhooks"} -> Scaffold
                               [] OTHER -> Absent]

\* A directory that is empty, or one that has been locked.
EditInit ==
  /\ disk \in {[p \in Paths |-> Absent], [UnlockedDir EXCEPT ![".checksums"] = GenerateChecksums(UnlockedDir)]}
  /\ bak = [f \in ConfigFiles |-> Absent]
  /\ archive = NoEntries
  /\ \E w \in Sessions : /\ shell = [o \in w.terminals |-> Rest]
                         /\ contents = w.contents /\ begun = w.commands /\ killed = w.kills
  /\ overwrote = FALSE

EditNext ==
  \/ \E o \in Terminals :
       \/ runConfigSet(o) \/ persistReads(o) \/ persistLoads(o) \/ persistRestores(o)
       \/ WriteFileAtomic(o)
       \/ runConfigPluginSet(o) \/ runConfigRouteMutation(o) \/ runConfigWebhookAdd(o)
       \/ BackupBegins(o) \/ BackupEnds(o) \/ writeFileAtomicWithBackup(o)
       \/ ConfigLocks(o) \/ refreshHashes(o) \/ writeChecksumsAtomic(o)
       \/ runConfigInit(o) \/ runConfigRestore(o) \/ writeIfNeeded(o) \/ Fill(o) \/ FillFails(o)
       \/ runConfigBackup(o) \/ createConfigBackup(o)
       \/ Kill(o)
  \/ \E f \in ConfigFiles : HandEdit(f)

EditSpec == EditInit /\ [][EditNext]_editVars

----------------------------------------------------------------------------
Contents == [v : -2..MaxContents, ok : BOOLEAN, inc : BOOLEAN]

\* Types, and an archive holds each path once at most, config.yaml first.
EditTypeOK ==
  /\ \A f \in ConfigFiles : disk[f] \in Contents /\ bak[f] \in Contents
  /\ disk[".checksums"].v \in {-2, -1, 1}
  /\ \A i, j \in DOMAIN archive.entries : i # j => archive.entries[i].path # archive.entries[j].path
  /\ archive.entries # <<>> => archive.entries[1].path = "config"
  /\ contents \in 1..MaxContents /\ begun \in 0..MaxCommands /\ killed \in 0..MaxKills /\ overwrote \in BOOLEAN

Alone(o, kinds) == shell[o].kind \in kinds /\ ~shell[o].crossed

\* A config set by itself leaves a configuration that loads: with the new content if
\* it succeeds, and with the one it found if it is refused.
SetIsSafe ==
  \A o \in Terminals : Alone(o, {"set"}) /\ shell[o].at = "done" =>
    Loads(disk) /\ disk["config"] = IF shell[o].failed THEN shell[o].before ELSE shell[o].cand

\* After a command that refreshes the manifest, whatever was killed or edited by
\* hand before it, the integrity check has nothing to complain of.
ManifestFollows ==
  \A o \in Terminals : Alone(o, {"edit", "lock", "init", "restore"}) /\ shell[o].at = "done" /\ ~shell[o].failed =>
    \A tier \in {"high", "operational"} : VerifyIntegrity(disk, tier) = {}

\* However far an edit came, what it replaces is in the file or beside it.
NothingIsLost ==
  \A o \in Terminals : Alone(o, {"edit"}) /\ shell[o].before # Absent =>
    shell[o].before \in {disk[shell[o].file], bak[shell[o].file]}

\* Only init and restore leave part of a file behind, when they are killed: a set,
\* an edit and a lock do not, and not when they overlap either.
TornOnlyInPlace == (\E p \in Paths : disk[p].v = TornNumber) => overwrote

(* The configuration directory survives its commands: killed at any write, beside
   each other and after edits by hand, they leave files that load, a manifest
   that matches and what they replaced. *)
DirectorySurvives == EditTypeOK /\ SetIsSafe /\ ManifestFollows /\ NothingIsLost /\ TornOnlyInPlace
=============================================================================
