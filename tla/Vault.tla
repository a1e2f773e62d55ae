------------------------------- MODULE Vault -------------------------------
(***************************************************************************)
(* The secret vault: the model of secrets and principals, its owners in    *)
(* the daemon, the encrypted blob and the age key on disk, the local       *)
(* key-touching commands, and reloads that hand over from one owner to     *)
(* the next (src/internal/vault, src/internal/api/vault.go,                *)
(* src/cmd/ductile/vault.go, src/internal/config/vault_secrets.go).        *)
(*                                                                         *)
(* A secret value is the number under which it was minted or typed in.     *)
(* Ciphertexts are told apart by a number, as by their hash.  Timestamps,  *)
(* roll counts, names and the audit table are left out; an update that     *)
(* changes nothing else is a stuttering step.                              *)
(***************************************************************************)
EXTENDS Integers, Sequences, FiniteSets

CONSTANTS SecretNames,    \* names of ordinary secrets
          Principals,     \* names of ordinary principals
          MaxValue,       \* bound on the secret values that arise
          MaxBlobs,       \* bound on the ciphertexts written
          MaxKeys         \* bound on the age identities

AdminTokenSecret == "core-admin-token"
CorePrincipal == "core"

ASSUME VaultAssumption ==
  /\ AdminTokenSecret \notin SecretNames /\ CorePrincipal \notin Principals
  /\ IsFiniteSet(Principals) /\ {MaxValue, MaxBlobs, MaxKeys} \subseteq Nat \ {0}

VARIABLES blob,       \* vault.age: none, or its number, model and recipients
          keyFile,    \* the age key file: the identity in it
          written,    \* ciphertexts written so far
          minted,     \* values handed out so far
          owner,      \* the owner the serving runtime holds
          other,      \* a second owner: of the next runtime, or of one that drains
          phase,      \* daemon: down, up, loaded (a reload has read the vault)
          cli,        \* vault rotate-key: its step and what it holds
          revoked     \* secrets whose revocation was acknowledged

vaultVars == <<blob, keyFile, written, minted, owner, other, phase, cli, revoked>>

None == [none |-> TRUE]

Active(x) == x.status = "active"
Put1(f, k, v) == [x \in DOMAIN f \union {k} |-> IF x = k THEN v ELSE f[x]]
Fine(s) == [err |-> FALSE, store |-> s]
Refused(s) == [err |-> TRUE, store |-> s]

---------------------------------------------------------------------------
(* The pure model.  Grants are the list the client sent, repetitions included. *)

RegisterPrincipal(s, p) ==
  IF p = CorePrincipal \/ p \in DOMAIN s.principals THEN Refused(s)
  ELSE Fine([s EXCEPT !.principals = Put1(@, p, [status |-> "active", nonce |-> FALSE])])

(* An update may not change a value, replaces the grants it names and refuses
   a revoked secret; only an auto secret is created without a value.  The
   constant "keep" stands for a field the request leaves out. *)
SetSecret(s, name, value, grants, pattern) ==
  LET old == s.secrets[name]
      known == grants = <<"keep">> \/ \A i \in DOMAIN grants : grants[i] \in DOMAIN s.principals
  IN IF name = AdminTokenSecret \/ ~known THEN Refused(s)
     ELSE IF name \in DOMAIN s.secrets THEN
            IF ~Active(old) \/ value \notin {0, old.value} THEN Refused(s)
            ELSE Fine([s EXCEPT !.secrets[name] =
                   [old EXCEPT !.grants = IF grants = <<"keep">> THEN @ ELSE grants,
                               !.pattern = IF pattern = "keep" THEN @ ELSE pattern]])
     ELSE IF value = 0 /\ pattern # "auto" THEN Refused(s)
     ELSE Fine([s EXCEPT !.secrets = Put1(@, name,
                   [value |-> value, status |-> "active",
                    grants |-> IF grants = <<"keep">> THEN <<>> ELSE grants,
                    pattern |-> IF pattern = "keep" THEN "manual" ELSE pattern])])

RollSecret(s, name, value) ==
  IF name = AdminTokenSecret \/ name \notin DOMAIN s.secrets THEN Refused(s)
  ELSE IF ~Active(s.secrets[name]) THEN Refused(s)
  ELSE Fine([s EXCEPT !.secrets[name].value = value])

RevokeSecret(s, name) ==
  IF name = AdminTokenSecret \/ name \notin DOMAIN s.secrets THEN Refused(s)
  ELSE Fine([s EXCEPT !.secrets[name].status = "revoked", !.secrets[name].value = 0])

RevokePrincipal(s, p) ==
  IF p = CorePrincipal \/ p \notin DOMAIN s.principals THEN Refused(s)
  ELSE Fine([s EXCEPT !.principals[p].status = "revoked"])

(* The first occurrence of the principal goes from every list of grants. *)
DropFirst(g, p) ==
  LET first == {i \in DOMAIN g : g[i] = p /\ \A j \in 1..(i - 1) : g[j] # p}
      k == CHOOSE i \in first : TRUE
  IN IF first = {} THEN g ELSE SubSeq(g, 1, k - 1) \o SubSeq(g, k + 1, Len(g))
PurgePrincipal(s, p) ==
  IF p = CorePrincipal \/ p \notin DOMAIN s.principals THEN Refused(s)
  ELSE Fine([principals |-> [q \in DOMAIN s.principals \ {p} |-> s.principals[q]],
             secrets |-> [n \in DOMAIN s.secrets |->
                            [s.secrets[n] EXCEPT !.grants = DropFirst(@, p)]]])

GrantedTo(s, n, p) == \E i \in DOMAIN s.secrets[n].grants : s.secrets[n].grants[i] = p

(* The live auto secrets of a principal, which a roll of the principal mints
   anew one after the other. *)
AutoSecretsOf(s, p) ==
  {n \in DOMAIN s.secrets : GrantedTo(s, n, p) /\ Active(s.secrets[n]) /\ s.secrets[n].pattern = "auto"}
RollSome(s, names, value) ==
  [s EXCEPT !.secrets = [n \in DOMAIN s.secrets |->
     IF n \in names THEN [s.secrets[n] EXCEPT !.value = value] ELSE s.secrets[n]]]

RotateAdminTokenIn(s, value) ==
  Fine([s EXCEPT !.secrets = Put1(@, AdminTokenSecret,
          [value |-> value, grants |-> <<>>, status |-> "active", pattern |-> "auto"])])

(* What genesis seeds: the core principal with its nonce, the admin token. *)
Genesis(value) ==
  RotateAdminTokenIn(
    [secrets |-> [n \in {} |-> 0],
     principals |-> [p \in {CorePrincipal} |->
                       [status |-> "active", nonce |-> TRUE]]], value).store

(* What a principal is handed at spawn: nothing unless it is registered and
   active. *)
Compose(s, p) ==
  IF p \notin DOMAIN s.principals THEN {}
  ELSE IF ~Active(s.principals[p]) THEN {}
  ELSE {n \in DOMAIN s.secrets : GrantedTo(s, n, p) /\ Active(s.secrets[n])}

---------------------------------------------------------------------------
(* Owners and the blob. *)

(* A vault that is present and does not decrypt is an error; without a vault
   there is no owner. *)
Openable == IF blob = None THEN TRUE ELSE keyFile \in blob.to
Load == IF blob = None THEN None
        ELSE [store |-> blob.model, last |-> blob.model, base |-> blob.id, key |-> keyFile]

(* Mutant: the blob is replaced whatever is on disk. *)
checkDiskUnchanged_Never(o) == TRUE
(* The blob is still the one this owner last saw; a missing one may be made anew. *)
checkDiskUnchanged(o) == IF blob = None THEN TRUE ELSE blob.id = o.base

(* Mutant: what could not be saved stays in memory. *)
restoreFromLastYAML_Keeps(o) == o
restoreFromLastYAML(o) == [o EXCEPT !.store = o.last]

NewBlob(model, to) == [id |-> written + 1, model |-> model, to |-> to]

(* Save of an owner with changed contents.  The write may fail before the
   rename, or after it, when the directory cannot be synced: then the new blob
   is on disk and the caller is told it is not. *)
Save(o, after, ok) ==
  LET wrote == [o EXCEPT !.last = o.store, !.base = written + 1]
      failed == after = restoreFromLastYAML(o) /\ ~ok
  IN \/ /\ o.store = o.last /\ after = o /\ ok /\ UNCHANGED <<blob, written>>
     \/ /\ o.store # o.last /\ ~checkDiskUnchanged(o) /\ failed /\ UNCHANGED <<blob, written>>
     \/ /\ o.store # o.last /\ checkDiskUnchanged(o) /\ written < MaxBlobs
        /\ \/ /\ after = wrote /\ ok
              /\ blob' = NewBlob(o.store, {o.key}) /\ written' = written + 1
           \/ failed /\ UNCHANGED <<blob, written>>
           \/ /\ failed
              /\ blob' = NewBlob(o.store, {o.key}) /\ written' = written + 1

(* One guarded write: r is what the pure operation made of the model.  Both the
   serving owner and, while its last requests drain, the previous one write. *)
Commit(mine, o, r, after, ok) ==
  /\ IF r.err THEN after = o /\ ~ok /\ UNCHANGED <<blob, written>>
     ELSE Save([o EXCEPT !.store = r.store], after, ok)
  /\ IF mine THEN owner' = after /\ UNCHANGED other ELSE other' = after /\ UNCHANGED owner
  /\ UNCHANGED <<keyFile, phase, cli>>

Writers == {m \in BOOLEAN : IF m THEN phase # "down" /\ owner # None
                            ELSE phase = "up" /\ other # None}
OwnerOf(m) == IF m THEN owner ELSE other
Outcomes(o, r) == IF r.err THEN {o} ELSE
                  {o, restoreFromLastYAML([o EXCEPT !.store = r.store]),
                   [o EXCEPT !.store = r.store, !.last = r.store, !.base = written + 1]}
Mutate(m, r, ok) == \E after \in Outcomes(OwnerOf(m), r) : Commit(m, OwnerOf(m), r, after, ok)

GrantLists == {<<"keep">>, <<>>} \union {<<p>> : p \in Principals} \union {<<p, q>> : p, q \in Principals}

handleVaultSet(m) ==
  \E v \in {0, minted + 1}, ok \in BOOLEAN :
    /\ v <= MaxValue
    /\ \E r \in {SetSecret(OwnerOf(m).store, n, v, g, pat) :
                  n \in SecretNames \union {AdminTokenSecret}, g \in GrantLists, pat \in {"keep", "auto"}} :
         Mutate(m, r, ok)
    /\ minted' = IF v = 0 THEN minted ELSE v
    /\ UNCHANGED revoked

handleVaultRegisterPrincipal(m) ==
  \E p \in Principals \union {CorePrincipal}, ok \in BOOLEAN :
    /\ Mutate(m, RegisterPrincipal(OwnerOf(m).store, p), ok)
    /\ UNCHANGED <<minted, revoked>>

handleVaultRoll(m) ==
  \E n \in SecretNames \union {AdminTokenSecret}, ok \in BOOLEAN :
    /\ minted < MaxValue /\ minted' = minted + 1
    /\ Mutate(m, RollSecret(OwnerOf(m).store, n, minted + 1), ok)
    /\ UNCHANGED revoked

handleVaultRevoke(m) ==
  \E n \in SecretNames \union {AdminTokenSecret}, ok \in BOOLEAN :
    /\ Mutate(m, RevokeSecret(OwnerOf(m).store, n), ok)
    /\ revoked' = IF ok /\ written' # written THEN revoked \union {n} ELSE revoked
    /\ UNCHANGED minted

handleVaultRevokePrincipal(m) ==
  \E p \in Principals \union {CorePrincipal}, ok \in BOOLEAN :
    Mutate(m, RevokePrincipal(OwnerOf(m).store, p), ok) /\ UNCHANGED <<minted, revoked>>

handleVaultPurgePrincipal(m) ==
  \E p \in Principals \union {CorePrincipal}, ok \in BOOLEAN :
    Mutate(m, PurgePrincipal(OwnerOf(m).store, p), ok) /\ UNCHANGED <<minted, revoked>>

(* All of the principal's auto secrets, or, when a mint fails part way, what
   was rolled so far, which is undone. *)
handleVaultRollPrincipal(m) ==
  \E p \in Principals, ok \in BOOLEAN :
    LET o == OwnerOf(m)
        all == AutoSecretsOf(o.store, p)
    IN /\ p \in DOMAIN o.store.principals /\ all # {} /\ minted < MaxValue
       /\ minted' = minted + 1
       /\ \/ Mutate(m, Fine(RollSome(o.store, all, minted + 1)), ok)
          \/ \E part \in SUBSET all :
               LET undone == restoreFromLastYAML([o EXCEPT !.store = RollSome(o.store, part, minted + 1)])
               IN /\ part # all /\ ~ok
                  /\ IF m THEN owner' = undone /\ UNCHANGED other ELSE other' = undone /\ UNCHANGED owner
                  /\ UNCHANGED <<blob, written, keyFile, phase, cli>>
       /\ UNCHANGED revoked

---------------------------------------------------------------------------
(* The daemon: start, reload, stop.  A reload reads the vault first, then lets
   the old listeners stop and builds the new runtime; requests the old runtime
   has accepted still run to their end. *)

Boot ==
  /\ phase = "down" /\ cli.pc = "idle" /\ Openable
  /\ phase' = "up" /\ owner' = Load
  /\ UNCHANGED <<blob, keyFile, written, minted, other, cli, revoked>>

ReloadReads ==
  /\ phase = "up" /\ other = None /\ Openable
  /\ phase' = "loaded" /\ other' = Load
  /\ UNCHANGED <<blob, keyFile, written, minted, owner, cli, revoked>>

ReloadSwaps ==
  /\ phase = "loaded"
  /\ phase' = "up" /\ owner' = other /\ other' = owner
  /\ UNCHANGED <<blob, keyFile, written, minted, cli, revoked>>

(* The previous runtime is rebuilt around a fresh read of the vault. *)
ReloadRestores ==
  /\ phase = "loaded" /\ Openable
  /\ phase' = "up" /\ owner' = Load /\ other' = owner
  /\ UNCHANGED <<blob, keyFile, written, minted, cli, revoked>>

Drained ==
  /\ phase = "up" /\ other # None /\ other' = None
  /\ UNCHANGED <<blob, keyFile, written, minted, owner, phase, cli, revoked>>

(* A stop or a crash: the lock on the PID file goes with the process. *)
DaemonStops ==
  /\ phase # "down" /\ phase' = "down" /\ owner' = None /\ other' = None
  /\ UNCHANGED <<blob, keyFile, written, minted, cli, revoked>>

---------------------------------------------------------------------------
(* Local commands.  All but init and get hold the PID lock, so they run only
   while the daemon is down. *)

Idle == [pc |-> "idle", key |-> 0, model |-> None]
LockFree == phase = "down" /\ cli.pc = "idle"

runVaultInit ==
  /\ blob = None /\ written < MaxBlobs /\ minted < MaxValue
  /\ minted' = minted + 1 /\ written' = written + 1
  /\ blob' = NewBlob(Genesis(minted + 1), {keyFile})
  /\ revoked' = {}
  /\ UNCHANGED <<keyFile, owner, other, phase, cli>>

runVaultRotateAdminToken ==
  /\ LockFree /\ blob # None /\ Openable /\ written < MaxBlobs /\ minted < MaxValue
  /\ minted' = minted + 1 /\ written' = written + 1
  /\ blob' = NewBlob(RotateAdminTokenIn(blob.model, minted + 1).store, {keyFile})
  /\ UNCHANGED <<keyFile, owner, other, phase, cli, revoked>>

reencryptTo(model, to) ==
  /\ written < MaxBlobs /\ written' = written + 1 /\ blob' = NewBlob(model, to)

(* vault rotate-key, phase by phase; every phase may fail, and the process may
   be killed between any two. *)
RotateBridges ==
  /\ LockFree /\ blob # None /\ Openable /\ keyFile < MaxKeys
  /\ cli' = [pc |-> "bridged", key |-> keyFile + 1, model |-> blob.model]
  /\ reencryptTo(blob.model, {keyFile, keyFile + 1})
  /\ UNCHANGED <<keyFile, minted, owner, other, phase, revoked>>

RotateVerifies ==
  /\ cli.pc = "bridged"
  /\ \/ cli.key \in blob.to /\ cli' = [cli EXCEPT !.pc = "verified"] /\ UNCHANGED <<blob, written>>
     \/ cli' = Idle /\ reencryptTo(cli.model, {keyFile})
  /\ UNCHANGED <<keyFile, minted, owner, other, phase, revoked>>

(* The staged key is read back and proven against the blob, then renamed. *)
RotatePromotes ==
  /\ cli.pc = "verified" /\ cli.key \in blob.to
  /\ keyFile' = cli.key /\ cli' = [cli EXCEPT !.pc = "promoted"]
  /\ UNCHANGED <<blob, written, minted, owner, other, phase, revoked>>

RotateFinalises ==
  /\ cli.pc = "promoted" /\ cli' = Idle
  /\ reencryptTo(cli.model, {cli.key})
  /\ UNCHANGED <<keyFile, minted, owner, other, phase, revoked>>

RotateDies ==
  /\ cli.pc # "idle" /\ cli' = Idle
  /\ UNCHANGED <<blob, keyFile, written, minted, owner, other, phase, revoked>>

(* Someone else writes or removes the blob: a stray re-encryption of what it
   was before its last secret, or a lost file. *)
OutOfBand ==
  /\ blob # None /\ cli.pc = "idle" /\ written < MaxBlobs
  /\ \/ /\ DOMAIN blob.model.secrets # {AdminTokenSecret}
        /\ blob' = NewBlob([blob.model EXCEPT !.secrets = [n \in {AdminTokenSecret} |-> @[n]]], blob.to)
        /\ written' = written + 1
     \/ blob' = None /\ written' = written + 1
  /\ revoked' = {}
  /\ UNCHANGED <<keyFile, minted, owner, other, phase, cli>>

(* A vault in use: every ordinary principal registered, every ordinary secret
   minted by the vault and granted to all of them. *)
InUse ==
  LET g == Genesis(1)
      everyone == CHOOSE q \in [1..Cardinality(Principals) -> Principals] :
                    \A p \in Principals : \E i \in DOMAIN q : q[i] = p
  IN [secrets |-> [n \in SecretNames \union {AdminTokenSecret} |->
                     IF n = AdminTokenSecret THEN g.secrets[n]
                     ELSE [value |-> 1, grants |-> everyone, status |-> "active", pattern |-> "auto"]],
      principals |-> [p \in Principals \union {CorePrincipal} |->
                        [status |-> "active", nonce |-> p = CorePrincipal]]]

VaultInit ==
  /\ \/ blob = None /\ written = 0 /\ minted = 0
     \/ blob = [id |-> 1, model |-> InUse, to |-> {1}] /\ written = 1 /\ minted = 1
  /\ keyFile = 1
  /\ owner = None /\ other = None /\ phase = "down" /\ cli = Idle /\ revoked = {}

VaultNext ==
  \/ \E m \in Writers :
       \/ handleVaultSet(m) \/ handleVaultRegisterPrincipal(m) \/ handleVaultRoll(m)
       \/ handleVaultRevoke(m) \/ handleVaultRevokePrincipal(m)
       \/ handleVaultPurgePrincipal(m) \/ handleVaultRollPrincipal(m)
  \/ Boot \/ ReloadReads \/ ReloadSwaps \/ ReloadRestores \/ Drained \/ DaemonStops
  \/ runVaultInit \/ runVaultRotateAdminToken
  \/ RotateBridges \/ RotateVerifies \/ RotatePromotes \/ RotateFinalises \/ RotateDies
  \/ OutOfBand

VaultSpec == VaultInit /\ [][VaultNext]_vaultVars

---------------------------------------------------------------------------
Stores == {b.model : b \in {blob} \ {None}} \union {o.store : o \in {owner, other} \ {None}}

(* Type correctness; an owner that Load returned compares the blob with one
   that was once written. *)
VaultTypeOK ==
  /\ written \in 0..MaxBlobs /\ minted \in 0..MaxValue /\ keyFile \in 1..MaxKeys
  /\ phase \in {"down", "up", "loaded"}
  /\ blob # None => blob.id \in 1..written /\ blob.to \subseteq 1..MaxKeys
  /\ \A o \in {owner, other} \ {None} : o.base \in 1..written /\ o.key \in 1..MaxKeys
  /\ \A s \in Stores : /\ DOMAIN s.secrets \subseteq SecretNames \union {AdminTokenSecret}
                       /\ DOMAIN s.principals \subseteq Principals \union {CorePrincipal}

(* After every step of a key rotation, and so after a crash at any of them, the
   key file opens the blob. *)
KeyOpensBlob == Openable

(* An owner that has seen the blob on disk holds exactly what is in it: failed
   writes and abandoned batches leave nothing in memory. *)
OwnerTracksDisk ==
  blob # None => \A o \in {owner, other} \ {None} : o.base = blob.id => o.store = blob.model

(* An acknowledged revocation stays in the blob whoever writes next: the owner
   a reload hands over to does not put back what its predecessor revoked. *)
RevocationSticks ==
  blob # None => \A n \in revoked : n \in DOMAIN blob.model.secrets /\ ~Active(blob.model.secrets[n])

(* No sequence of management calls grants the admin token, revokes it, or takes
   the fingerprint nonce away. *)
ReservedIntact ==
  \A s \in Stores :
    /\ \A p \in Principals : AdminTokenSecret \notin Compose(s, p)
    /\ AdminTokenSecret \in DOMAIN s.secrets /\ Active(s.secrets[AdminTokenSecret])
    /\ CorePrincipal \in DOMAIN s.principals /\ s.principals[CorePrincipal].nonce

(* The vault stays usable at every point of every write: a key on disk opens
   it, each owner agrees with the file it last saw, and the reserved entries
   are there. *)
VaultIntact == VaultTypeOK /\ KeyOpensBlob /\ OwnerTracksDisk /\ ReservedIntact
=============================================================================
