----------------------------- MODULE VaultProofs ----------------------------
(***************************************************************************)
(* Proofs about Vault, for any secrets, principals and number of writes,   *)
(* rotations and reloads: the key file opens the blob at every step, an    *)
(* owner agrees with the blob it last saw, the reserved entries stay, and  *)
(* an acknowledged revocation is never undone.                             *)
(***************************************************************************)
EXTENDS Vault, FiniteSetTheorems, TLAPS

Names == SecretNames \union {AdminTokenSecret}
People == Principals \union {CorePrincipal}
Secret == [value : Nat, status : {"active", "revoked"}, grants : Seq(Principals),
           pattern : {"keep", "auto", "manual"}]
Principal == [status : {"active", "revoked"}, nonce : BOOLEAN]

\* A function on some of the names.
Map(f, D, R) == DOMAIN f \subseteq D /\ f \in [DOMAIN f -> R]

\* A well-formed model of the vault, with the admin token granted to nobody and
\* the core principal holding the fingerprint nonce.
StoreOK(s) ==
  /\ s = [secrets |-> s.secrets, principals |-> s.principals]
  /\ Map(s.secrets, Names, Secret) /\ Map(s.principals, People, Principal)
  /\ AdminTokenSecret \in DOMAIN s.secrets /\ Active(s.secrets[AdminTokenSecret])
  /\ s.secrets[AdminTokenSecret].grants = <<>>
  /\ CorePrincipal \in DOMAIN s.principals /\ s.principals[CorePrincipal].nonce

\* What is revoked in one model is revoked in the next.
KeepsRevoked(s, t) ==
  \A n \in DOMAIN s.secrets : ~Active(s.secrets[n]) => n \in DOMAIN t.secrets /\ ~Active(t.secrets[n])

\* The four parts of the inductive invariant.  Counters and phase:
CountersOK ==
  /\ written \in 0..MaxBlobs /\ minted \in 0..MaxValue /\ keyFile \in 1..MaxKeys
  /\ phase \in {"down", "up", "loaded"} /\ (phase = "down" => owner = None /\ other = None)

\* The blob is a well-formed model, is open to the key file, and has in it every
\* acknowledged revocation.
BlobFits(b, k, w) ==
  /\ b = [id |-> b.id, model |-> b.model, to |-> b.to] /\ b.id \in 1..w
  /\ StoreOK(b.model) /\ b.to \subseteq 1..MaxKeys /\ k \in b.to
HasRevoked(b, R) == \A n \in R : n \in DOMAIN b.model.secrets /\ ~Active(b.model.secrets[n])
BlobOK ==
  /\ blob # None => BlobFits(blob, keyFile, written) /\ HasRevoked(blob, revoked)
  /\ blob = None => revoked = {}

\* Between requests an owner has nothing unsaved, encrypts to the key on disk, and
\* holds what is in the blob if that is the one it last saw.
OwnerFits(o, b, k, w) ==
  o # None =>
    /\ o = [store |-> o.store, last |-> o.store, base |-> o.base, key |-> k]
    /\ StoreOK(o.store) /\ o.base \in 1..w
    /\ b # None => (o.base = b.id => o.store = b.model)
OwnersOK == OwnerFits(owner, blob, keyFile, written) /\ OwnerFits(other, blob, keyFile, written)

\* While vault rotate-key runs, the daemon is down, the blob is the one the command
\* wrote, and the staged key opens it.
CliOK ==
  /\ cli = [pc |-> cli.pc, key |-> cli.key, model |-> cli.model]
  /\ cli.pc \in {"idle", "bridged", "verified", "promoted"}
  /\ cli.pc # "idle" => /\ phase = "down" /\ blob # None
                        /\ cli.model = blob.model /\ cli.key \in blob.to /\ cli.key \in 1..MaxKeys
  /\ cli.pc = "promoted" => cli.key = keyFile

VaultInv == CountersOK /\ BlobOK /\ OwnersOK /\ CliOK

----------------------------------------------------------------------------
\* Nothing is none but None.
LEMMA NotNone ==
  /\ \A a, b, c : [id |-> a, model |-> b, to |-> c] # None
  /\ \A a, b, c, d : [store |-> a, last |-> b, base |-> c, key |-> d] # None
BY DEF None

\* An entry put into a map.
LEMMA PutMap ==
  ASSUME NEW f, NEW D, NEW R, Map(f, D, R), NEW k \in D, NEW v \in R, NEW h, h = Put1(f, k, v)
  PROVE  /\ Map(h, D, R) /\ DOMAIN h = DOMAIN f \union {k}
         /\ h[k] = v /\ \A x \in DOMAIN f : x # k => h[x] = f[x]
BY DEF Map, Put1

\* An entry of a map replaced.
LEMMA ExceptMap ==
  ASSUME NEW f, NEW D, NEW R, Map(f, D, R), NEW k \in DOMAIN f, NEW v \in R
  PROVE  /\ Map([f EXCEPT ![k] = v], D, R) /\ DOMAIN [f EXCEPT ![k] = v] = DOMAIN f
         /\ [f EXCEPT ![k] = v][k] = v /\ \A x \in DOMAIN f : x # k => [f EXCEPT ![k] = v][x] = f[x]
BY DEF Map

----------------------------------------------------------------------------
\* The pure operations: each keeps the model well formed and undoes no revocation.

Keeps(s, t) == StoreOK(t) /\ KeepsRevoked(s, t)
Sound(s, r) == r.err \in BOOLEAN /\ (~r.err => Keeps(s, r.store))

\* A model with other secrets.
LEMMA WithSecrets ==
  ASSUME NEW s, StoreOK(s), NEW f, Map(f, Names, Secret), DOMAIN s.secrets \subseteq DOMAIN f,
         Active(f[AdminTokenSecret]), f[AdminTokenSecret].grants = <<>>,
         \A n \in DOMAIN s.secrets : ~Active(s.secrets[n]) => ~Active(f[n])
  PROVE  Keeps(s, [s EXCEPT !.secrets = f])
<1>1. PICK S, P : s = [secrets |-> S, principals |-> P]
  BY DEF StoreOK
<1>2. [s EXCEPT !.secrets = f] = [secrets |-> f, principals |-> P]
  BY <1>1
<1>3. P = s.principals /\ S = s.secrets
  BY <1>1
<1>4. \A t : t = [secrets |-> f, principals |-> P] => Keeps(s, t)
  BY <1>3 DEF Keeps, StoreOK, KeepsRevoked
<1> QED BY <1>2, <1>4

\* A model with other principals.
LEMMA WithPrincipals ==
  ASSUME NEW s, StoreOK(s), NEW f, Map(f, People, Principal), CorePrincipal \in DOMAIN f, f[CorePrincipal].nonce
  PROVE  Keeps(s, [s EXCEPT !.principals = f])
<1>1. PICK S, P : s = [secrets |-> S, principals |-> P]
  BY DEF StoreOK
<1>2. [s EXCEPT !.principals = f] = [secrets |-> S, principals |-> f]
  BY <1>1
<1>3. P = s.principals /\ S = s.secrets
  BY <1>1
<1>4. \A t : t = [secrets |-> S, principals |-> f] => Keeps(s, t)
  BY <1>3 DEF Keeps, StoreOK, KeepsRevoked
<1> QED BY <1>2, <1>4

\* What is known of a model.
LEMMA StoreFacts ==
  ASSUME NEW s, StoreOK(s)
  PROVE  /\ Map(s.secrets, Names, Secret) /\ Map(s.principals, People, Principal)
         /\ AdminTokenSecret \in DOMAIN s.secrets /\ Active(s.secrets[AdminTokenSecret])
         /\ s.secrets[AdminTokenSecret].grants = <<>>
         /\ CorePrincipal \in DOMAIN s.principals /\ s.principals[CorePrincipal].nonce
         /\ s = [secrets |-> s.secrets, principals |-> s.principals]
         /\ \A n \in DOMAIN s.secrets : s.secrets[n] \in Secret
         /\ \A p \in DOMAIN s.principals : s.principals[p] \in Principal
BY DEF StoreOK, Map

\* One ordinary secret put into a model, or replaced.
LEMMA PutSecret ==
  ASSUME NEW s, StoreOK(s), NEW n \in Names, n # AdminTokenSecret, NEW v \in Secret,
         n \in DOMAIN s.secrets /\ ~Active(s.secrets[n]) => ~Active(v)
  PROVE  /\ Keeps(s, [s EXCEPT !.secrets = Put1(s.secrets, n, v)])
         /\ n \in DOMAIN s.secrets => Keeps(s, [s EXCEPT !.secrets = [s.secrets EXCEPT ![n] = v]])
<1>0. Map(s.secrets, Names, Secret) /\ AdminTokenSecret \in DOMAIN s.secrets
      /\ Active(s.secrets[AdminTokenSecret]) /\ s.secrets[AdminTokenSecret].grants = <<>>
  BY StoreFacts
<1>1. Keeps(s, [s EXCEPT !.secrets = Put1(s.secrets, n, v)])
  <2>1. PICK f : f = Put1(s.secrets, n, v)
    OBVIOUS
  <2>2. /\ Map(f, Names, Secret) /\ DOMAIN f = DOMAIN s.secrets \union {n}
        /\ f[n] = v /\ \A x \in DOMAIN s.secrets : x # n => f[x] = s.secrets[x]
    <3>1. PICK g : g = s.secrets
      OBVIOUS
    <3>2. Map(g, Names, Secret) /\ f = Put1(g, n, v)
      BY <1>0, <2>1, <3>1
    <3>3. /\ Map(f, Names, Secret) /\ DOMAIN f = DOMAIN g \union {n}
          /\ f[n] = v /\ \A x \in DOMAIN g : x # n => f[x] = g[x]
      BY ONLY <3>2, PutMap, n \in Names, v \in Secret
    <3> QED BY <3>1, <3>3
  <2>3. Keeps(s, [s EXCEPT !.secrets = f])
    BY <2>2, <1>0, WithSecrets
  <2> QED BY <2>1, <2>3
<1>2. ASSUME n \in DOMAIN s.secrets PROVE Keeps(s, [s EXCEPT !.secrets = [s.secrets EXCEPT ![n] = v]])
  <2>1. PICK f : f = [s.secrets EXCEPT ![n] = v]
    OBVIOUS
  <2>2. /\ Map(f, Names, Secret) /\ DOMAIN f = DOMAIN s.secrets
        /\ f[n] = v /\ \A x \in DOMAIN s.secrets : x # n => f[x] = s.secrets[x]
    BY <2>1, <1>0, <1>2, ExceptMap
  <2>3. Keeps(s, [s EXCEPT !.secrets = f])
    BY <2>2, <1>0, <1>2, WithSecrets
  <2> QED BY <2>1, <2>3
<1> QED BY <1>1, <1>2

\* An update of a field of an entry is the entry replaced.
LEMMA UpdateSecret ==
  ASSUME NEW s, StoreOK(s), NEW n, NEW v
  PROVE  [s EXCEPT !.secrets[n] = v] = [s EXCEPT !.secrets = [s.secrets EXCEPT ![n] = v]]
<1>1. s = [secrets |-> s.secrets, principals |-> s.principals]
  BY StoreFacts
<1> QED BY <1>1

\* Fine and Refused.
LEMMA Answers ==
  ASSUME NEW s
  PROVE  /\ \A t : Keeps(s, t) => Sound(s, Fine(t)) /\ Fine(t).store = t /\ ~Fine(t).err
         /\ Sound(s, Refused(s)) /\ Refused(s).err
BY DEF Sound, Fine, Refused

\* SetSecret keeps the model sound.
LEMMA SetSecretSound ==
  ASSUME NEW s, StoreOK(s), NEW n \in Names, NEW v \in Nat, NEW g \in GrantLists, NEW pat \in {"keep", "auto"}
  PROVE  Sound(s, SetSecret(s, n, v, g, pat))
<1>1. g = <<"keep">> \/ g \in Seq(Principals)
  <2>1. CASE g \in {<<p>> : p \in Principals}
    <3>1. PICK p \in Principals : g = <<p>>
      BY <2>1
    <3>2. <<p>> \in Seq(Principals)
      OBVIOUS
    <3> QED BY <3>1, <3>2
  <2>2. CASE g \in {<<p, q>> : p, q \in Principals}
    <3>1. PICK p \in Principals, q \in Principals : g = <<p, q>>
      BY <2>2
    <3>2. <<p, q>> \in Seq(Principals)
      OBVIOUS
    <3> QED BY <3>1, <3>2
  <2>3. CASE g \in {<<"keep">>, <<>>}
    <3>1. <<>> \in Seq(Principals)
      OBVIOUS
    <3> QED BY <2>3, <3>1
  <2> QED BY <2>1, <2>2, <2>3 DEF GrantLists
<1>2. CASE n = AdminTokenSecret \/ ~(g = <<"keep">> \/ \A i \in DOMAIN g : g[i] \in DOMAIN s.principals)
  <2>1. SetSecret(s, n, v, g, pat) = Refused(s)
    BY <1>2 DEF SetSecret
  <2> QED BY <2>1, Answers
<1>3. CASE n # AdminTokenSecret /\ (g = <<"keep">> \/ \A i \in DOMAIN g : g[i] \in DOMAIN s.principals)
           /\ n \in DOMAIN s.secrets
  <2>1. PICK old : old = s.secrets[n]
    OBVIOUS
  <2>2. old \in Secret
    BY <1>3, <2>1, StoreFacts
  <2>3. PICK new : new = [old EXCEPT !.grants = IF g = <<"keep">> THEN @ ELSE g,
                                   !.pattern = IF pat = "keep" THEN @ ELSE pat]
    OBVIOUS
  <2>4. new \in Secret
    BY <1>1, <2>2, <2>3 DEF Secret
  <2>5. CASE ~Active(old) \/ v \notin {0, old.value}
    BY <1>3, <2>1, <2>5, Answers DEF SetSecret
  <2>6. CASE ~(~Active(old) \/ v \notin {0, old.value})
    <3>1. Keeps(s, [s EXCEPT !.secrets[n] = new])
      BY <1>3, <2>1, <2>4, <2>6, PutSecret, UpdateSecret
    <3>2. SetSecret(s, n, v, g, pat) = Fine([s EXCEPT !.secrets[n] = new])
      BY <1>3, <2>1, <2>3, <2>6 DEF SetSecret
    <3> QED BY <3>1, <3>2, Answers
  <2> QED BY <2>5, <2>6
<1>4. CASE n # AdminTokenSecret /\ (g = <<"keep">> \/ \A i \in DOMAIN g : g[i] \in DOMAIN s.principals)
           /\ n \notin DOMAIN s.secrets
  <2>1. PICK new : new = [value |-> v, status |-> "active",
                    grants |-> IF g = <<"keep">> THEN <<>> ELSE g,
                    pattern |-> IF pat = "keep" THEN "manual" ELSE pat]
    OBVIOUS
  <2>2. new \in Secret
    BY <1>1, <2>1 DEF Secret
  <2>3. CASE v = 0 /\ pat # "auto"
    BY <1>4, <2>3, Answers DEF SetSecret
  <2>4. CASE ~(v = 0 /\ pat # "auto")
    <3>1. Keeps(s, [s EXCEPT !.secrets = Put1(s.secrets, n, new)])
      BY <1>4, <2>2, PutSecret
    <3>2. SetSecret(s, n, v, g, pat) = Fine([s EXCEPT !.secrets = Put1(s.secrets, n, new)])
      BY <1>4, <2>1, <2>4 DEF SetSecret
    <3> QED BY <3>1, <3>2, Answers
  <2> QED BY <2>3, <2>4
<1> QED BY <1>2, <1>3, <1>4

\* RollSecret keeps the model sound.
LEMMA RollSecretSound ==
  ASSUME NEW s, StoreOK(s), NEW n \in Names, NEW v \in Nat
  PROVE  Sound(s, RollSecret(s, n, v))
<1>1. CASE n = AdminTokenSecret \/ n \notin DOMAIN s.secrets
  BY <1>1, Answers DEF RollSecret
<1>2. CASE n # AdminTokenSecret /\ n \in DOMAIN s.secrets /\ ~Active(s.secrets[n])
  BY <1>2, Answers DEF RollSecret
<1>3. CASE n # AdminTokenSecret /\ n \in DOMAIN s.secrets /\ Active(s.secrets[n])
  <2>1. PICK new : new = [s.secrets[n] EXCEPT !.value = v]
    OBVIOUS
  <2>2. s.secrets[n] \in Secret
    BY <1>3, StoreFacts
  <2>3. new \in Secret
    BY <2>1, <2>2 DEF Secret
  <2>4. Keeps(s, [s EXCEPT !.secrets[n] = new])
    BY <1>3, <2>3, PutSecret, UpdateSecret
  <2>5. [s EXCEPT !.secrets[n].value = v] = [s EXCEPT !.secrets[n] = new]
    BY <2>1
  <2>6. RollSecret(s, n, v) = Fine([s EXCEPT !.secrets[n] = new])
    BY <1>3, <2>5 DEF RollSecret
  <2> QED BY <2>4, <2>6, Answers
<1> QED BY <1>1, <1>2, <1>3

\* RevokeSecret keeps the model sound.
LEMMA RevokeSecretSound ==
  ASSUME NEW s, StoreOK(s), NEW n \in Names
  PROVE  /\ Sound(s, RevokeSecret(s, n))
         /\ LET r == RevokeSecret(s, n)
            IN ~r.err => n \in DOMAIN r.store.secrets /\ ~Active(r.store.secrets[n])
<1>1. CASE n = AdminTokenSecret \/ n \notin DOMAIN s.secrets
  BY <1>1, Answers DEF RevokeSecret
<1>2. CASE n # AdminTokenSecret /\ n \in DOMAIN s.secrets
  <2>1. PICK new : new = [s.secrets[n] EXCEPT !.status = "revoked", !.value = 0]
    OBVIOUS
  <2>2. s.secrets[n] \in Secret
    BY <1>2, StoreFacts
  <2>3. new \in Secret /\ ~Active(new)
    BY <2>1, <2>2 DEF Secret, Active
  <2>4. Keeps(s, [s EXCEPT !.secrets[n] = new])
    BY <1>2, <2>3, PutSecret, UpdateSecret
  <2>5. /\ s = [secrets |-> s.secrets, principals |-> s.principals]
        /\ Map(s.secrets, Names, Secret)
    BY StoreFacts
  <2>6. [s EXCEPT !.secrets[n].status = "revoked", !.secrets[n].value = 0] = [s EXCEPT !.secrets[n] = new]
    BY <1>2, <2>1, <2>5 DEF Map
  <2>7. RevokeSecret(s, n) = Fine([s EXCEPT !.secrets[n] = new])
    BY <1>2, <2>6 DEF RevokeSecret
  <2>8. [s EXCEPT !.secrets[n] = new].secrets = [s.secrets EXCEPT ![n] = new]
    BY <2>5
  <2>9. [s.secrets EXCEPT ![n] = new][n] = new /\ n \in DOMAIN [s.secrets EXCEPT ![n] = new]
    BY <1>2, <2>3, <2>5, ExceptMap
  <2>10. PICK t : t = [s EXCEPT !.secrets[n] = new]
    OBVIOUS
  <2>11. Sound(s, Fine(t)) /\ Fine(t).store = t
    BY <2>4, <2>10, Answers
  <2>12. n \in DOMAIN t.secrets /\ ~Active(t.secrets[n])
    BY <2>3, <2>8, <2>9, <2>10
  <2> QED BY <2>7, <2>10, <2>11, <2>12
<1> QED BY <1>1, <1>2

\* Registering a principal keeps the model sound.
LEMMA RegisterSound ==
  ASSUME NEW s, StoreOK(s), NEW p \in People
  PROVE  Sound(s, RegisterPrincipal(s, p))
<1>1. CASE p = CorePrincipal \/ p \in DOMAIN s.principals
  BY <1>1, Answers DEF RegisterPrincipal
<1>2. CASE ~(p = CorePrincipal \/ p \in DOMAIN s.principals)
  <2>1. PICK new : new = [status |-> "active", nonce |-> FALSE]
    OBVIOUS
  <2>2. new \in Principal
    BY <2>1 DEF Principal
  <2>3. Map(s.principals, People, Principal) /\ CorePrincipal \in DOMAIN s.principals /\ s.principals[CorePrincipal].nonce
    BY StoreFacts
  <2>4. PICK f : f = Put1(s.principals, p, new)
    OBVIOUS
  <2>5. /\ Map(f, People, Principal) /\ DOMAIN f = DOMAIN s.principals \union {p}
        /\ \A x \in DOMAIN s.principals : x # p => f[x] = s.principals[x]
    <3>1. PICK g : g = s.principals
      OBVIOUS
    <3>2. Map(g, People, Principal) /\ f = Put1(g, p, new) /\ new \in Principal
      BY <2>2, <2>3, <2>4, <3>1
    <3>3. /\ Map(f, People, Principal) /\ DOMAIN f = DOMAIN g \union {p}
          /\ f[p] = new /\ \A x \in DOMAIN g : x # p => f[x] = g[x]
      BY ONLY <3>2, p \in People DEF Map, Put1
    <3> QED BY <3>1, <3>3
  <2>6. Keeps(s, [s EXCEPT !.principals = f])
    BY <1>2, <2>3, <2>5, WithPrincipals
  <2>7. RegisterPrincipal(s, p) = Fine([s EXCEPT !.principals = f])
    BY <1>2, <2>1, <2>4 DEF RegisterPrincipal
  <2> QED BY <2>6, <2>7, Answers
<1> QED BY <1>1, <1>2

\* Revoking a principal keeps the model sound.
LEMMA RevokePrincipalSound ==
  ASSUME NEW s, StoreOK(s), NEW p \in People
  PROVE  Sound(s, RevokePrincipal(s, p))
<1>1. CASE p = CorePrincipal \/ p \notin DOMAIN s.principals
  BY <1>1, Answers DEF RevokePrincipal
<1>2. CASE ~(p = CorePrincipal \/ p \notin DOMAIN s.principals)
  <2>1. PICK new : new = [s.principals[p] EXCEPT !.status = "revoked"]
    OBVIOUS
  <2>2. s.principals[p] \in Principal
    BY <1>2, StoreFacts
  <2>3. new \in Principal
    BY <2>1, <2>2 DEF Principal
  <2>4. /\ Map(s.principals, People, Principal) /\ CorePrincipal \in DOMAIN s.principals
        /\ s.principals[CorePrincipal].nonce
        /\ s = [secrets |-> s.secrets, principals |-> s.principals]
    BY StoreFacts
  <2>5. PICK f : f = [s.principals EXCEPT ![p] = new]
    OBVIOUS
  <2>6. /\ Map(f, People, Principal) /\ DOMAIN f = DOMAIN s.principals
        /\ \A x \in DOMAIN s.principals : x # p => f[x] = s.principals[x]
    BY <1>2, <2>3, <2>4, <2>5, ExceptMap
  <2>7. Keeps(s, [s EXCEPT !.principals = f])
    BY <1>2, <2>4, <2>6, WithPrincipals
  <2>8. [s EXCEPT !.principals[p].status = "revoked"] = [s EXCEPT !.principals = f]
    BY <2>1, <2>4, <2>5
  <2>9. RevokePrincipal(s, p) = Fine([s EXCEPT !.principals = f])
    BY <1>2, <2>8 DEF RevokePrincipal
  <2> QED BY <2>7, <2>9, Answers
<1> QED BY <1>1, <1>2

\* Dropping a principal from a list of grants.
LEMMA DropFirstType ==
  ASSUME NEW g \in Seq(Principals), NEW p
  PROVE  DropFirst(g, p) \in Seq(Principals) /\ (g = <<>> => DropFirst(g, p) = <<>>)
<1>1. PICK first : first = {i \in DOMAIN g : g[i] = p /\ \A j \in 1..(i - 1) : g[j] # p}
  OBVIOUS
<1>2. CASE first = {}
  BY <1>1, <1>2 DEF DropFirst
<1>3. CASE first # {}
  <2>1. PICK k : k = CHOOSE i \in first : TRUE
    OBVIOUS
  <2>2. DropFirst(g, p) = SubSeq(g, 1, k - 1) \o SubSeq(g, k + 1, Len(g))
    BY <1>1, <1>3, <2>1 DEF DropFirst
  <2>3. k \in 1..Len(g)
    BY <1>1, <1>3, <2>1
  <2>4. SubSeq(g, 1, k - 1) \in Seq(Principals) /\ SubSeq(g, k + 1, Len(g)) \in Seq(Principals)
    BY <2>3
  <2>5. SubSeq(g, 1, k - 1) \o SubSeq(g, k + 1, Len(g)) \in Seq(Principals)
    BY <2>4
  <2>6. g # <<>>
    BY <2>3
  <2> QED BY <2>2, <2>5, <2>6
<1> QED BY <1>2, <1>3

\* Purging a principal keeps the model sound.
LEMMA PurgeSound ==
  ASSUME NEW s, StoreOK(s), NEW p \in People
  PROVE  Sound(s, PurgePrincipal(s, p))
<1>1. CASE p = CorePrincipal \/ p \notin DOMAIN s.principals
  BY <1>1, Answers DEF PurgePrincipal
<1>2. CASE ~(p = CorePrincipal \/ p \notin DOMAIN s.principals)
  <2>0. /\ Map(s.secrets, Names, Secret) /\ Map(s.principals, People, Principal)
        /\ AdminTokenSecret \in DOMAIN s.secrets /\ Active(s.secrets[AdminTokenSecret])
        /\ s.secrets[AdminTokenSecret].grants = <<>>
        /\ CorePrincipal \in DOMAIN s.principals /\ s.principals[CorePrincipal].nonce
        /\ s = [secrets |-> s.secrets, principals |-> s.principals]
    BY StoreFacts
  <2>1. PICK P : P = [q \in DOMAIN s.principals \ {p} |-> s.principals[q]]
    OBVIOUS
  <2>2. PICK S : S = [n \in DOMAIN s.secrets |-> [s.secrets[n] EXCEPT !.grants = DropFirst(@, p)]]
    OBVIOUS
  <2>3. PurgePrincipal(s, p) = Fine([secrets |-> S, principals |-> P])
    BY <1>2, <2>1, <2>2 DEF PurgePrincipal
  <2>5. Map(P, People, Principal) /\ CorePrincipal \in DOMAIN P /\ P[CorePrincipal].nonce
    BY <1>2, <2>0, <2>1 DEF Map
  <2>6. \A x \in Secret : LET y == [x EXCEPT !.grants = DropFirst(x.grants, p)]
                          IN /\ y \in Secret /\ (Active(y) <=> Active(x))
                             /\ x.grants = <<>> => y.grants = <<>>
    <3> TAKE x \in Secret
    <3>1. x.grants \in Seq(Principals)
      BY DEF Secret
    <3>2. PICK h : h = DropFirst(x.grants, p)
      OBVIOUS
    <3>3. h \in Seq(Principals) /\ (x.grants = <<>> => h = <<>>)
      BY <3>1, <3>2, DropFirstType
    <3>4. LET y == [x EXCEPT !.grants = h]
          IN /\ y \in Secret /\ (Active(y) <=> Active(x)) /\ y.grants = h
      BY <3>3 DEF Secret, Active
    <3> QED BY <3>2, <3>3, <3>4
  <2>7. DOMAIN S = DOMAIN s.secrets /\ \A n \in DOMAIN S : S[n] = [s.secrets[n] EXCEPT !.grants = DropFirst(s.secrets[n].grants, p)]
    BY <2>2
  <2>8. \A n \in DOMAIN s.secrets : s.secrets[n] \in Secret
    BY <2>0 DEF Map
  <2>9. \A n \in DOMAIN S : S[n] \in Secret /\ (Active(S[n]) <=> Active(s.secrets[n]))
                            /\ (s.secrets[n].grants = <<>> => S[n].grants = <<>>)
    BY <2>6, <2>7, <2>8
  <2>10. Map(S, Names, Secret)
    BY <2>0, <2>2, <2>7, <2>9 DEF Map
  <2>11. PICK t : t = [secrets |-> S, principals |-> P]
    OBVIOUS
  <2>12. StoreOK(t)
    BY <2>0, <2>5, <2>7, <2>9, <2>10, <2>11 DEF StoreOK
  <2>13. KeepsRevoked(s, t)
    BY <2>7, <2>9, <2>11 DEF KeepsRevoked
  <2> QED BY <2>3, <2>11, <2>12, <2>13, Answers DEF Keeps
<1> QED BY <1>1, <1>2

\* Rolling several secrets keeps the model sound.
LEMMA RollSomeSound ==
  ASSUME NEW s, StoreOK(s), NEW names, \A n \in names : n \in DOMAIN s.secrets /\ Active(s.secrets[n]), NEW v \in Nat
  PROVE  Sound(s, Fine(RollSome(s, names, v)))
<1>0. /\ Map(s.secrets, Names, Secret) /\ AdminTokenSecret \in DOMAIN s.secrets
      /\ Active(s.secrets[AdminTokenSecret]) /\ s.secrets[AdminTokenSecret].grants = <<>>
      /\ \A n \in DOMAIN s.secrets : s.secrets[n] \in Secret
  BY StoreFacts
<1>1. PICK f : f = [n \in DOMAIN s.secrets |->
                      IF n \in names THEN [s.secrets[n] EXCEPT !.value = v] ELSE s.secrets[n]]
  OBVIOUS
<1>2. \A x \in Secret : LET y == [x EXCEPT !.value = v]
                        IN y \in Secret /\ (Active(y) <=> Active(x)) /\ y.grants = x.grants
  BY DEF Secret, Active
<1>3. DOMAIN f = DOMAIN s.secrets
      /\ \A n \in DOMAIN f : f[n] = IF n \in names THEN [s.secrets[n] EXCEPT !.value = v] ELSE s.secrets[n]
  BY <1>1
<1>4. \A n \in DOMAIN f : f[n] \in Secret /\ (Active(f[n]) <=> Active(s.secrets[n])) /\ f[n].grants = s.secrets[n].grants
  BY <1>0, <1>2, <1>3
<1>5. Map(f, Names, Secret)
  BY <1>0, <1>1, <1>3, <1>4 DEF Map
<1>6. Keeps(s, [s EXCEPT !.secrets = f])
  BY <1>0, <1>3, <1>4, <1>5, WithSecrets
<1>7. RollSome(s, names, v) = [s EXCEPT !.secrets = f]
  BY <1>1 DEF RollSome
<1> QED BY <1>6, <1>7, Answers

\* Rotating the admin token keeps the model sound.
LEMMA RotateTokenSound ==
  ASSUME NEW s, StoreOK(s), NEW v \in Nat
  PROVE  Keeps(s, RotateAdminTokenIn(s, v).store)
<1>0. Map(s.secrets, Names, Secret) /\ AdminTokenSecret \in DOMAIN s.secrets /\ Active(s.secrets[AdminTokenSecret])
  BY StoreFacts
<1>1. PICK x : x = [value |-> v, grants |-> <<>>, status |-> "active", pattern |-> "auto"]
  OBVIOUS
<1>2. x \in Secret /\ Active(x) /\ x.grants = <<>>
  BY <1>1 DEF Secret, Active
<1>3. PICK f : f = Put1(s.secrets, AdminTokenSecret, x)
  OBVIOUS
<1>4. AdminTokenSecret \in Names
  BY DEF Names
<1>5. /\ Map(f, Names, Secret) /\ DOMAIN f = DOMAIN s.secrets \union {AdminTokenSecret}
      /\ f[AdminTokenSecret] = x /\ \A n \in DOMAIN s.secrets : n # AdminTokenSecret => f[n] = s.secrets[n]
  <2>1. Map(s.secrets, Names, Secret) /\ x \in Secret
    BY <1>0, <1>2
  <2> QED BY <1>3, <1>4, <2>1, PutMap
<1>6. Keeps(s, [s EXCEPT !.secrets = f])
  BY <1>0, <1>2, <1>5, WithSecrets
<1>7. RotateAdminTokenIn(s, v) = Fine([s EXCEPT !.secrets = f])
  BY <1>1, <1>3 DEF RotateAdminTokenIn
<1> QED BY <1>6, <1>7, Answers

\* A vault just initialised is well formed.
LEMMA GenesisSound ==
  ASSUME NEW v \in Nat
  PROVE  StoreOK(Genesis(v)) /\ Genesis(v).secrets[AdminTokenSecret] \in Secret
<1>1. PICK x : x = [value |-> v, grants |-> <<>>, status |-> "active", pattern |-> "auto"]
  OBVIOUS
<1>2. x \in Secret /\ Active(x) /\ x.grants = <<>>
  BY <1>1 DEF Secret, Active
<1>3. PICK S : S = Put1([n \in {} |-> 0], AdminTokenSecret, x)
  OBVIOUS
<1>4. PICK P : P = [p \in {CorePrincipal} |-> [status |-> "active", nonce |-> TRUE]]
  OBVIOUS
<1>5. Genesis(v) = [secrets |-> S, principals |-> P]
  BY <1>1, <1>3, <1>4 DEF Genesis, RotateAdminTokenIn, Fine
<1>6. Map(S, Names, Secret) /\ AdminTokenSecret \in DOMAIN S /\ S[AdminTokenSecret] = x
  BY <1>2, <1>3 DEF Map, Put1, Names
<1>7. Map(P, People, Principal) /\ CorePrincipal \in DOMAIN P /\ P[CorePrincipal].nonce
  BY <1>4 DEF Map, People, Principal
<1> QED BY <1>2, <1>5, <1>6, <1>7 DEF StoreOK

----------------------------------------------------------------------------
\* Owners and the blob.

\* An owner after somebody wrote a blob with a fresh number, or removed it.
LEMMA OwnerOfOldBlob ==
  ASSUME NEW o, NEW b, NEW k, NEW w \in Nat, OwnerFits(o, b, k, w),
         NEW b2, b2 = None \/ b2.id = w + 1
  PROVE  OwnerFits(o, b2, k, w + 1)
BY DEF OwnerFits

\* What Load returns fits the blob.
LEMMA LoadFits ==
  ASSUME VaultInv
  PROVE  OwnerFits(Load, blob, keyFile, written)
<1>1. CASE blob = None
  BY <1>1 DEF Load, OwnerFits
<1>2. CASE blob # None
  <2>1. BlobFits(blob, keyFile, written)
    BY <1>2 DEF VaultInv, BlobOK
  <2>2. PICK l : l = [store |-> blob.model, last |-> blob.model, base |-> blob.id, key |-> keyFile]
    OBVIOUS
  <2>3. l.store = blob.model /\ l.base = blob.id /\ Load = l
    BY <1>2, <2>2 DEF Load
  <2> QED BY <2>1, <2>2, <2>3 DEF OwnerFits, BlobFits
<1> QED BY <1>1, <1>2

\* A guarded write leaves everything alone, or puts what the operation made into a
\* new blob; its owner either follows or goes back to what it had.
LEMMA CommitCases ==
  ASSUME NEW o, o # None, OwnerFits(o, blob, keyFile, written), NEW r, r.err \in BOOLEAN,
         NEW after, NEW ok \in BOOLEAN, NEW m \in BOOLEAN, Commit(m, o, r, after, ok)
  PROVE  \/ after = o /\ UNCHANGED <<blob, written>>
         \/ /\ ~r.err /\ written < MaxBlobs /\ written' = written + 1 /\ checkDiskUnchanged(o)
            /\ blob' = [id |-> written + 1, model |-> r.store, to |-> {keyFile}]
            /\ \/ after = o /\ ~ok
               \/ after = [store |-> r.store, last |-> r.store, base |-> written + 1, key |-> keyFile]
<1>1. o = [store |-> o.store, last |-> o.store, base |-> o.base, key |-> keyFile]
  BY DEF OwnerFits
<1>2. CASE r.err
  BY <1>2 DEF Commit
<1>3. CASE ~r.err
  <2>1. PICK q : q = [store |-> r.store, last |-> o.store, base |-> o.base, key |-> keyFile]
    OBVIOUS
  <2>2. [o EXCEPT !.store = r.store] = q
    BY <1>1, <2>1
  <2>3. Save(q, after, ok)
    BY <1>3, <2>2 DEF Commit
  <2>4. restoreFromLastYAML(q) = o
    <3>1. q.last = o.store
      BY <2>1
    <3>2. [q EXCEPT !.store = o.store] = [store |-> o.store, last |-> o.store, base |-> o.base, key |-> keyFile]
      BY <2>1
    <3> QED BY <1>1, <3>1, <3>2 DEF restoreFromLastYAML
  <2>5. /\ q.store = r.store /\ q.last = o.store /\ q.key = keyFile
        /\ checkDiskUnchanged(q) <=> checkDiskUnchanged(o)
    BY <2>1 DEF checkDiskUnchanged
  <2>6. CASE q.store = q.last /\ after = q /\ ok /\ UNCHANGED <<blob, written>>
    BY <1>1, <2>1, <2>5, <2>6
  <2>7. CASE q.store # q.last /\ after = restoreFromLastYAML(q) /\ UNCHANGED <<blob, written>>
    BY <2>4, <2>7
  <2>8. CASE /\ checkDiskUnchanged(q) /\ written < MaxBlobs
             /\ after = restoreFromLastYAML(q) /\ ~ok
             /\ blob' = NewBlob(q.store, {q.key}) /\ written' = written + 1
    BY <1>3, <2>4, <2>5, <2>8 DEF NewBlob
  <2>9. CASE /\ checkDiskUnchanged(q) /\ written < MaxBlobs
             /\ after = [q EXCEPT !.last = q.store, !.base = written + 1]
             /\ blob' = NewBlob(q.store, {q.key}) /\ written' = written + 1
    <3>1. [q EXCEPT !.last = q.store, !.base = written + 1] =
            [store |-> r.store, last |-> r.store, base |-> written + 1, key |-> keyFile]
      <4>1. [q EXCEPT !.last = q.store] = [store |-> r.store, last |-> r.store, base |-> o.base, key |-> keyFile]
        BY <2>1
      <4>2. [q EXCEPT !.last = q.store, !.base = written + 1] = [[q EXCEPT !.last = q.store] EXCEPT !.base = written + 1]
        BY <2>1
      <4>3. [[store |-> r.store, last |-> r.store, base |-> o.base, key |-> keyFile] EXCEPT !.base = written + 1]
              = [store |-> r.store, last |-> r.store, base |-> written + 1, key |-> keyFile]
        OBVIOUS
      <4> QED BY <4>1, <4>2, <4>3
    <3> QED BY <1>3, <2>5, <2>9, <3>1 DEF NewBlob
  <2> QED BY <2>3, <2>6, <2>7, <2>8, <2>9 DEF Save
<1> QED BY <1>2, <1>3

\* The invariant but for the revocations and minted.
Owned == CountersOK /\ OwnersOK /\ CliOK

\* A guarded write keeps the invariant, with the revocations it found.
LEMMA MutateKeeps ==
  ASSUME VaultInv, NEW m \in Writers, NEW s, s = OwnerOf(m).store, NEW r, StoreOK(s) => Sound(s, r),
         NEW ok \in BOOLEAN, Mutate(m, r, ok), minted' \in 0..MaxValue,
         NEW R, R = revoked
  PROVE  /\ Owned'
         /\ blob' # None => BlobFits(blob', keyFile', written') /\ HasRevoked(blob', R)
         /\ blob' = None => R = {}
         /\ written' # written /\ ok => /\ ~r.err /\ blob' # None /\ blob'.model = r.store
<1>1. PICK o : o = OwnerOf(m)
  OBVIOUS
<1>2. m \in BOOLEAN /\ phase # "down" /\ o # None
  BY <1>1 DEF Writers, OwnerOf
<1>3. /\ OwnerFits(o, blob, keyFile, written) /\ OwnerFits(owner, blob, keyFile, written)
      /\ OwnerFits(other, blob, keyFile, written)
  BY <1>1 DEF OwnerOf, VaultInv, OwnersOK
<1>4. StoreOK(s) /\ Sound(s, r) /\ s = o.store
  BY <1>1, <1>2, <1>3 DEF OwnerFits
<1>5. PICK after : Commit(m, o, r, after, ok)
  BY <1>1 DEF Mutate
<1>6. r.err \in BOOLEAN /\ (~r.err => StoreOK(r.store) /\ KeepsRevoked(s, r.store))
  BY <1>4 DEF Sound, Keeps
<1>7. /\ UNCHANGED <<keyFile, phase, cli>>
      /\ \/ owner' = after /\ other' = other /\ o = owner
         \/ other' = after /\ owner' = owner /\ o = other
  BY <1>1, <1>2, <1>5 DEF Commit, OwnerOf
<1>8. cli.pc = "idle" /\ written \in Nat /\ keyFile \in 1..MaxKeys /\ MaxBlobs \in Nat
  BY <1>2, VaultAssumption DEF VaultInv, CliOK, CountersOK
<1>9. CASE after = o /\ UNCHANGED <<blob, written>>
  <2>1. owner' = owner /\ other' = other
    BY <1>7, <1>9
  <2>2. Owned'
    BY <1>7, <1>9, <2>1 DEF VaultInv, Owned, CountersOK, OwnersOK, CliOK
  <2> QED BY <1>7, <1>9, <2>2 DEF VaultInv, BlobOK
<1>10. CASE /\ ~r.err /\ written < MaxBlobs /\ written' = written + 1 /\ checkDiskUnchanged(o)
            /\ blob' = [id |-> written + 1, model |-> r.store, to |-> {keyFile}]
            /\ \/ after = o /\ ~ok
               \/ after = [store |-> r.store, last |-> r.store, base |-> written + 1, key |-> keyFile]
  <2>1. PICK b : b = [id |-> written + 1, model |-> r.store, to |-> {keyFile}]
    OBVIOUS
  <2>2. blob' = b /\ b # None /\ b.id = written + 1 /\ b.model = r.store /\ b.to = {keyFile}
    BY <1>10, <2>1, NotNone
  <2>3. BlobFits(b, keyFile, written + 1)
    BY <1>6, <1>8, <1>10, <2>1, <2>2 DEF BlobFits
  <2>4. HasRevoked(b, R)
    <3>1. CASE blob = None
      BY <3>1 DEF VaultInv, BlobOK, HasRevoked
    <3>2. CASE blob # None
      <4>1. o.store = blob.model
        BY <1>2, <1>3, <1>10, <3>2 DEF OwnerFits, checkDiskUnchanged
      <4>2. HasRevoked(blob, R)
        BY <3>2 DEF VaultInv, BlobOK
      <4> QED BY <1>4, <1>6, <1>10, <2>2, <4>1, <4>2 DEF HasRevoked, KeepsRevoked
    <3> QED BY <3>1, <3>2
  <2>5. OwnerFits(owner, b, keyFile, written + 1) /\ OwnerFits(other, b, keyFile, written + 1)
        /\ OwnerFits(o, b, keyFile, written + 1)
    BY <1>3, <1>8, <2>2, OwnerOfOldBlob
  <2>6. OwnerFits(after, b, keyFile, written + 1)
    <3>1. CASE after = o
      BY <2>5, <3>1
    <3>2. CASE after = [store |-> r.store, last |-> r.store, base |-> written + 1, key |-> keyFile]
      <4>1. after.store = r.store /\ after.base = written + 1
        BY <3>2
      <4> QED BY <1>6, <1>8, <1>10, <2>2, <3>2, <4>1 DEF OwnerFits
    <3> QED BY <1>10, <3>1, <3>2
  <2>7. OwnersOK'
    BY <1>7, <1>10, <2>2, <2>5, <2>6 DEF OwnersOK
  <2>8. CountersOK' /\ CliOK'
    BY <1>2, <1>7, <1>8, <1>10 DEF VaultInv, CountersOK, CliOK
  <2> QED BY <1>7, <1>10, <2>2, <2>3, <2>4, <2>7, <2>8 DEF Owned
<1>11. \/ after = o /\ UNCHANGED <<blob, written>>
       \/ /\ ~r.err /\ written < MaxBlobs /\ written' = written + 1 /\ checkDiskUnchanged(o)
          /\ blob' = [id |-> written + 1, model |-> r.store, to |-> {keyFile}]
          /\ \/ after = o /\ ~ok
             \/ after = [store |-> r.store, last |-> r.store, base |-> written + 1, key |-> keyFile]
  <2>1. OwnerFits(o, blob, keyFile, written) /\ o # None /\ r.err \in BOOLEAN /\ m \in BOOLEAN
    BY <1>2, <1>3, <1>6
  <2> QED BY ONLY <2>1, <1>5, ok \in BOOLEAN, CommitCases
<1> QED BY <1>9, <1>10, <1>11

\* The same for a request that acknowledges no revocation.
LEMMA RequestKeeps ==
  ASSUME VaultInv, NEW m \in Writers, NEW s, s = OwnerOf(m).store, NEW r, StoreOK(s) => Sound(s, r),
         NEW ok \in BOOLEAN, Mutate(m, r, ok), minted' \in 0..MaxValue, UNCHANGED revoked
  PROVE  VaultInv'
<1>1. PICK R : R = revoked
  OBVIOUS
<1>2. /\ Owned'
      /\ blob' # None => BlobFits(blob', keyFile', written') /\ HasRevoked(blob', R)
      /\ blob' = None => R = {}
  BY <1>1, MutateKeeps
<1>3. revoked' = R
  BY <1>1
<1> QED BY <1>2, <1>3 DEF VaultInv, BlobOK, Owned

\* The counters and the bounds are numbers.
LEMMA Numbers ==
  ASSUME VaultInv
  PROVE  minted \in Nat /\ written \in Nat /\ MaxValue \in Nat /\ MaxBlobs \in Nat /\ MaxKeys \in Nat
         /\ minted <= MaxValue /\ written <= MaxBlobs /\ keyFile \in Nat /\ 1 <= keyFile
BY VaultAssumption DEF VaultInv, CountersOK

\* A set request keeps the invariant.
LEMMA SetKeeps == ASSUME VaultInv, NEW m \in Writers, handleVaultSet(m) PROVE VaultInv'
<1>1. PICK v \in {0, minted + 1}, ok \in BOOLEAN :
        /\ v <= MaxValue
        /\ \E r \in {SetSecret(OwnerOf(m).store, n, v, g, pat) :
                      n \in SecretNames \union {AdminTokenSecret}, g \in GrantLists, pat \in {"keep", "auto"}} :
             Mutate(m, r, ok)
        /\ minted' = IF v = 0 THEN minted ELSE v
        /\ UNCHANGED revoked
  BY SMTT(60) DEF handleVaultSet
<1>2. PICK s : s = OwnerOf(m).store
  OBVIOUS
<1>3. PICK n, g, pat, r : /\ n \in Names /\ g \in GrantLists /\ pat \in {"keep", "auto"}
                           /\ r = SetSecret(OwnerOf(m).store, n, v, g, pat) /\ Mutate(m, r, ok)
  BY <1>1 DEF Names
<1>4. r = SetSecret(s, n, v, g, pat)
  BY <1>2, <1>3
<1>5. v \in Nat /\ minted' \in 0..MaxValue
  BY <1>1, Numbers
<1>6. StoreOK(s) => Sound(s, r)
  BY <1>3, <1>4, <1>5, SetSecretSound
<1> QED BY <1>1, <1>2, <1>3, <1>5, <1>6, RequestKeeps

\* A registration keeps the invariant.
LEMMA RegisterKeeps == ASSUME VaultInv, NEW m \in Writers, handleVaultRegisterPrincipal(m) PROVE VaultInv'
<1>1. PICK p \in People, ok \in BOOLEAN :
        Mutate(m, RegisterPrincipal(OwnerOf(m).store, p), ok) /\ UNCHANGED <<minted, revoked>>
  BY DEF handleVaultRegisterPrincipal, People
<1>2. PICK s : s = OwnerOf(m).store
  OBVIOUS
<1>3. PICK r : r = RegisterPrincipal(s, p)
  OBVIOUS
<1>4. Mutate(m, r, ok) /\ (StoreOK(s) => Sound(s, r)) /\ minted' \in 0..MaxValue
  BY <1>1, <1>2, <1>3, RegisterSound, Numbers
<1> QED BY <1>1, <1>2, <1>4, RequestKeeps

\* A roll request keeps the invariant.
LEMMA RollKeeps == ASSUME VaultInv, NEW m \in Writers, handleVaultRoll(m) PROVE VaultInv'
<1>1. PICK n \in Names, ok \in BOOLEAN :
        /\ minted < MaxValue /\ minted' = minted + 1
        /\ Mutate(m, RollSecret(OwnerOf(m).store, n, minted + 1), ok) /\ UNCHANGED revoked
  BY DEF handleVaultRoll, Names
<1>2. PICK s, v : s = OwnerOf(m).store /\ v = minted + 1
  OBVIOUS
<1>3. PICK r : r = RollSecret(s, n, v)
  OBVIOUS
<1>4. v \in Nat /\ minted' \in 0..MaxValue
  BY <1>1, <1>2, Numbers
<1>5. Mutate(m, r, ok) /\ (StoreOK(s) => Sound(s, r))
  BY <1>1, <1>2, <1>3, <1>4, RollSecretSound
<1> QED BY <1>1, <1>2, <1>4, <1>5, RequestKeeps

\* The one request that acknowledges a revocation: it does so only when the blob that
\* has it is on disk.
LEMMA RevokeKeeps == ASSUME VaultInv, NEW m \in Writers, handleVaultRevoke(m) PROVE VaultInv'
<1>1. PICK n \in Names, ok \in BOOLEAN :
        /\ Mutate(m, RevokeSecret(OwnerOf(m).store, n), ok)
        /\ revoked' = IF ok /\ written' # written THEN revoked \union {n} ELSE revoked
        /\ UNCHANGED minted
  BY DEF handleVaultRevoke, Names
<1>2. PICK s, R : s = OwnerOf(m).store /\ R = revoked
  OBVIOUS
<1>3. PICK r : r = RevokeSecret(s, n)
  OBVIOUS
<1>4. /\ Mutate(m, r, ok) /\ minted' \in 0..MaxValue
      /\ StoreOK(s) => /\ Sound(s, r)
                       /\ ~r.err => n \in DOMAIN r.store.secrets /\ ~Active(r.store.secrets[n])
  BY <1>1, <1>2, <1>3, RevokeSecretSound, Numbers
<1>5. StoreOK(s)
  BY <1>2 DEF Writers, OwnerOf, VaultInv, OwnersOK, OwnerFits
<1>6. /\ Owned'
      /\ blob' # None => BlobFits(blob', keyFile', written') /\ HasRevoked(blob', R)
      /\ blob' = None => R = {}
      /\ written' # written /\ ok => ~r.err /\ blob' # None /\ blob'.model = r.store
  BY <1>2, <1>4, <1>5, MutateKeeps
<1>7. CASE ok /\ written' # written
  <2>1. revoked' = R \union {n} /\ blob' # None /\ HasRevoked(blob', R) /\ blob'.model = r.store /\ ~r.err
    BY <1>1, <1>2, <1>6, <1>7
  <2>2. HasRevoked(blob', R \union {n})
    BY <1>4, <1>5, <2>1 DEF HasRevoked
  <2> QED BY <1>6, <2>1, <2>2 DEF VaultInv, BlobOK, Owned
<1>8. CASE ~(ok /\ written' # written)
  <2>1. revoked' = R
    BY <1>1, <1>2, <1>8
  <2> QED BY <1>6, <2>1 DEF VaultInv, BlobOK, Owned
<1> QED BY <1>7, <1>8

\* A principal's revocation keeps the invariant.
LEMMA RevokePrincipalKeeps == ASSUME VaultInv, NEW m \in Writers, handleVaultRevokePrincipal(m) PROVE VaultInv'
<1>1. PICK p \in People, ok \in BOOLEAN :
        Mutate(m, RevokePrincipal(OwnerOf(m).store, p), ok) /\ UNCHANGED <<minted, revoked>>
  BY DEF handleVaultRevokePrincipal, People
<1>2. PICK s : s = OwnerOf(m).store
  OBVIOUS
<1>3. PICK r : r = RevokePrincipal(s, p)
  OBVIOUS
<1>4. Mutate(m, r, ok) /\ (StoreOK(s) => Sound(s, r)) /\ minted' \in 0..MaxValue
  BY <1>1, <1>2, <1>3, RevokePrincipalSound, Numbers
<1> QED BY <1>1, <1>2, <1>4, RequestKeeps

\* A purge keeps the invariant.
LEMMA PurgeKeeps == ASSUME VaultInv, NEW m \in Writers, handleVaultPurgePrincipal(m) PROVE VaultInv'
<1>1. PICK p \in People, ok \in BOOLEAN :
        Mutate(m, PurgePrincipal(OwnerOf(m).store, p), ok) /\ UNCHANGED <<minted, revoked>>
  BY DEF handleVaultPurgePrincipal, People
<1>2. PICK s : s = OwnerOf(m).store
  OBVIOUS
<1>3. PICK r : r = PurgePrincipal(s, p)
  OBVIOUS
<1>4. Mutate(m, r, ok) /\ (StoreOK(s) => Sound(s, r)) /\ minted' \in 0..MaxValue
  BY <1>1, <1>2, <1>3, PurgeSound, Numbers
<1> QED BY <1>1, <1>2, <1>4, RequestKeeps

\* A roll of a principal goes through whole, or is undone in memory.
LEMMA RollPrincipalKeeps == ASSUME VaultInv, NEW m \in Writers, handleVaultRollPrincipal(m) PROVE VaultInv'
<1>1. PICK p \in Principals, ok \in BOOLEAN :
        LET o == OwnerOf(m)
            all == AutoSecretsOf(o.store, p)
        IN /\ minted < MaxValue /\ minted' = minted + 1 /\ UNCHANGED revoked
           /\ \/ Mutate(m, Fine(RollSome(o.store, all, minted + 1)), ok)
              \/ \E part \in SUBSET all :
                   LET undone == restoreFromLastYAML([o EXCEPT !.store = RollSome(o.store, part, minted + 1)])
                   IN /\ IF m THEN owner' = undone /\ UNCHANGED other ELSE other' = undone /\ UNCHANGED owner
                      /\ UNCHANGED <<blob, written, keyFile, phase, cli>>
  BY DEF handleVaultRollPrincipal
<1>2. PICK o, v : o = OwnerOf(m) /\ v = minted + 1
  OBVIOUS
<1>3. v \in Nat /\ minted' \in 0..MaxValue
  BY <1>1, <1>2, Numbers
<1>4. PICK s, all : s = o.store /\ all = AutoSecretsOf(s, p)
  OBVIOUS
<1>5. \A n \in all : n \in DOMAIN s.secrets /\ Active(s.secrets[n])
  BY <1>4 DEF AutoSecretsOf
<1>6. CASE Mutate(m, Fine(RollSome(OwnerOf(m).store, AutoSecretsOf(OwnerOf(m).store, p), minted + 1)), ok)
  <2>1. PICK r : r = Fine(RollSome(s, all, v))
    OBVIOUS
  <2>2. Mutate(m, r, ok) /\ s = OwnerOf(m).store
    BY <1>2, <1>4, <1>6, <2>1
  <2>3. StoreOK(s) => Sound(s, r)
    BY <1>3, <1>5, <2>1, RollSomeSound
  <2> QED BY <1>1, <1>3, <2>2, <2>3, RequestKeeps
<1>7. CASE \E part \in SUBSET all :
             LET undone == restoreFromLastYAML([o EXCEPT !.store = RollSome(o.store, part, minted + 1)])
             IN /\ IF m THEN owner' = undone /\ UNCHANGED other ELSE other' = undone /\ UNCHANGED owner
                /\ UNCHANGED <<blob, written, keyFile, phase, cli>>
  <2>1. PICK t, undone : /\ undone = restoreFromLastYAML([o EXCEPT !.store = t])
                         /\ IF m THEN owner' = undone /\ UNCHANGED other ELSE other' = undone /\ UNCHANGED owner
                         /\ UNCHANGED <<blob, written, keyFile, phase, cli>>
    BY <1>7
  <2>2. o # None /\ OwnerFits(o, blob, keyFile, written)
    BY <1>2 DEF Writers, OwnerOf, VaultInv, OwnersOK
  <2>3. o = [store |-> o.store, last |-> o.store, base |-> o.base, key |-> keyFile]
    BY <2>2 DEF OwnerFits
  <2>4. PICK q : q = [store |-> t, last |-> o.store, base |-> o.base, key |-> keyFile]
    OBVIOUS
  <2>5. [o EXCEPT !.store = t] = q /\ q.last = o.store
    BY <2>3, <2>4
  <2>6. [q EXCEPT !.store = o.store] = [store |-> o.store, last |-> o.store, base |-> o.base, key |-> keyFile]
    BY <2>4
  <2>7. undone = o
    BY <2>1, <2>3, <2>5, <2>6 DEF restoreFromLastYAML
  <2>8. owner' = owner /\ other' = other
    BY <1>2, <2>1, <2>7 DEF OwnerOf, Writers
  <2> QED BY <1>1, <1>3, <2>1, <2>8 DEF VaultInv, CountersOK, BlobOK, OwnersOK, CliOK
<1> QED BY <1>1, <1>2, <1>4, <1>6, <1>7

----------------------------------------------------------------------------
\* The daemon and the local commands.

\* The daemon's own steps, boot, reload and stop, keep the invariant.
LEMMA DaemonKeeps ==
  ASSUME VaultInv, Boot \/ ReloadReads \/ ReloadSwaps \/ ReloadRestores \/ Drained \/ DaemonStops
  PROVE  VaultInv'
<1>1. PICK l : l = Load
  OBVIOUS
<1>2. OwnerFits(l, blob, keyFile, written) /\ OwnerFits(None, blob, keyFile, written)
  BY <1>1, LoadFits DEF OwnerFits
<1>3. OwnerFits(owner, blob, keyFile, written) /\ OwnerFits(other, blob, keyFile, written)
  BY DEF VaultInv, OwnersOK
<1>4. /\ UNCHANGED <<blob, keyFile, written, minted, cli, revoked>>
      /\ owner' \in {owner, other, l, None} /\ other' \in {owner, other, l, None}
      /\ phase' \in {"down", "up", "loaded"} /\ (phase' = "down" => owner' = None /\ other' = None)
      /\ cli.pc = "idle" \/ phase' = "down"
  BY <1>1 DEF VaultInv, CliOK, Boot, ReloadReads, ReloadSwaps, ReloadRestores, Drained, DaemonStops
<1>5. OwnersOK'
  BY <1>2, <1>3, <1>4 DEF OwnersOK
<1>6. CountersOK' /\ BlobOK' /\ CliOK'
  BY <1>4 DEF VaultInv, CountersOK, BlobOK, CliOK
<1> QED BY <1>5, <1>6 DEF VaultInv

\* A blob with a fresh number, written by a local command.
LEMMA WriteKeeps ==
  ASSUME VaultInv, NEW b, written < MaxBlobs, written' = written + 1, blob' = b, b # None, b.id = written + 1,
         BlobFits(b, keyFile, written + 1), HasRevoked(b, revoked'), minted' \in 0..MaxValue,
         UNCHANGED <<keyFile, owner, other, phase>>, CliOK'
  PROVE  VaultInv'
<1>1. OwnerFits(owner, b, keyFile, written + 1) /\ OwnerFits(other, b, keyFile, written + 1)
  BY Numbers, OwnerOfOldBlob DEF VaultInv, OwnersOK
<1>2. OwnersOK'
  BY <1>1 DEF OwnersOK
<1>3. CountersOK'
  BY Numbers DEF VaultInv, CountersOK
<1>4. BlobOK'
  BY DEF BlobOK
<1> QED BY <1>2, <1>3, <1>4 DEF VaultInv

\* A new blob.
LEMMA NewBlobFits ==
  ASSUME NEW w \in Nat, NEW model, StoreOK(model), NEW k, NEW to, to \subseteq 1..MaxKeys, k \in to,
         NEW b, b = [id |-> w + 1, model |-> model, to |-> to]
  PROVE  BlobFits(b, k, w + 1) /\ b.id = w + 1 /\ b.model = model /\ b.to = to /\ b # None
<1>1. b.id = w + 1 /\ b.model = model /\ b.to = to
  OBVIOUS
<1> QED BY <1>1, NotNone DEF BlobFits

\* vault init keeps the invariant.
LEMMA InitCommandKeeps == ASSUME VaultInv, runVaultInit PROVE VaultInv'
<1>1. PICK g : g = Genesis(minted + 1)
  OBVIOUS
<1>2. StoreOK(g)
  BY <1>1, GenesisSound, Numbers
<1>3. PICK b : b = [id |-> written + 1, model |-> g, to |-> {keyFile}]
  OBVIOUS
<1>4. keyFile \in 1..MaxKeys
  BY DEF VaultInv, CountersOK
<1>5. BlobFits(b, keyFile, written + 1) /\ b.id = written + 1 /\ b # None
  BY <1>2, <1>3, <1>4, Numbers, NewBlobFits
<1>6. /\ blob' = b /\ revoked' = {} /\ written' = written + 1 /\ written < MaxBlobs /\ minted' \in 0..MaxValue
      /\ UNCHANGED <<keyFile, owner, other, phase, cli>> /\ blob = None
  BY <1>1, <1>3, Numbers DEF runVaultInit, NewBlob
<1>7. CliOK'
  BY <1>6 DEF VaultInv, CliOK
<1>8. HasRevoked(b, revoked')
  BY <1>6 DEF HasRevoked
<1> QED BY <1>5, <1>6, <1>7, <1>8, WriteKeeps

\* vault rotate-admin-token keeps the invariant.
LEMMA RotateTokenKeeps == ASSUME VaultInv, runVaultRotateAdminToken PROVE VaultInv'
<1>0. BlobFits(blob, keyFile, written) /\ HasRevoked(blob, revoked)
  BY DEF VaultInv, BlobOK, runVaultRotateAdminToken
<1>1. PICK s, R : s = blob.model /\ R = revoked
  OBVIOUS
<1>2. PICK g : g = RotateAdminTokenIn(s, minted + 1).store
  OBVIOUS
<1>3. StoreOK(s) /\ Keeps(s, g)
  BY <1>0, <1>1, <1>2, RotateTokenSound, Numbers DEF BlobFits
<1>4. PICK b : b = [id |-> written + 1, model |-> g, to |-> {keyFile}]
  OBVIOUS
<1>5. keyFile \in 1..MaxKeys
  BY DEF VaultInv, CountersOK
<1>6. BlobFits(b, keyFile, written + 1) /\ b.id = written + 1 /\ b # None /\ b.model = g
  BY <1>3, <1>4, <1>5, Numbers, NewBlobFits DEF Keeps
<1>7. /\ blob' = b /\ revoked' = R /\ written' = written + 1 /\ written < MaxBlobs /\ minted' \in 0..MaxValue
      /\ UNCHANGED <<keyFile, owner, other, phase, cli>> /\ cli.pc = "idle"
  BY <1>1, <1>2, <1>4, Numbers DEF runVaultRotateAdminToken, NewBlob, LockFree
<1>8. CliOK'
  BY <1>7 DEF VaultInv, CliOK
<1>9. HasRevoked(b, revoked')
  BY <1>0, <1>1, <1>3, <1>6, <1>7 DEF HasRevoked, Keeps, KeepsRevoked
<1> QED BY <1>6, <1>7, <1>8, <1>9, WriteKeeps

\* A re-encryption of the same model.
LEMMA ReencryptKeeps ==
  ASSUME VaultInv, blob # None, NEW to, to \subseteq 1..MaxKeys, keyFile \in to, reencryptTo(blob.model, to),
         UNCHANGED <<keyFile, minted, owner, other, phase, revoked>>,
         blob'.model = blob.model /\ blob'.to = to /\ blob' # None => CliOK'
  PROVE  VaultInv'
<1>0. BlobFits(blob, keyFile, written) /\ HasRevoked(blob, revoked)
  BY DEF VaultInv, BlobOK
<1>1. PICK s : s = blob.model
  OBVIOUS
<1>2. StoreOK(s)
  BY <1>0, <1>1 DEF BlobFits
<1>3. PICK b : b = [id |-> written + 1, model |-> s, to |-> to]
  OBVIOUS
<1>4. blob' = b /\ written' = written + 1 /\ written < MaxBlobs
  BY <1>1, <1>3 DEF reencryptTo, NewBlob
<1>5. BlobFits(b, keyFile, written + 1) /\ b.id = written + 1 /\ b # None /\ b.model = s /\ b.to = to
  <2>1. written \in Nat /\ to \subseteq 1..MaxKeys /\ keyFile \in to
    BY Numbers
  <2>2. b.id = written + 1 /\ b.model = s /\ b.to = to /\ b # None
    BY <1>3, NotNone
  <2> QED BY <1>2, <1>3, <2>1, <2>2 DEF BlobFits
<1>6. HasRevoked(b, revoked')
  BY <1>0, <1>1, <1>5 DEF HasRevoked
<1>7. CliOK' /\ minted' \in 0..MaxValue
  BY <1>1, <1>4, <1>5, Numbers
<1> QED BY <1>4, <1>5, <1>6, <1>7, WriteKeeps

\* vault rotate-key, phase by phase.
LEMMA RotateKeyKeeps ==
  ASSUME VaultInv, RotateBridges \/ RotateVerifies \/ RotatePromotes \/ RotateFinalises \/ RotateDies
  PROVE  VaultInv'
<1>0. keyFile \in 1..MaxKeys /\ MaxKeys \in Nat
  BY Numbers DEF VaultInv, CountersOK
<1>i. cli' = Idle => CliOK'
  BY DEF CliOK, Idle
<1>1. CASE RotateBridges
  <2>1. PICK to : to = {keyFile, keyFile + 1}
    OBVIOUS
  <2>2. keyFile < MaxKeys /\ blob # None /\ phase = "down" /\ reencryptTo(blob.model, to)
        /\ UNCHANGED <<keyFile, minted, owner, other, phase, revoked>>
        /\ cli' = [pc |-> "bridged", key |-> keyFile + 1, model |-> blob.model]
    BY <1>1, <2>1 DEF RotateBridges, LockFree
  <2>3. to \subseteq 1..MaxKeys /\ keyFile \in to /\ keyFile + 1 \in to
    BY <1>0, <2>1, <2>2
  <2>4. cli'.pc = "bridged" /\ cli'.key = keyFile + 1 /\ cli'.model = blob.model
    BY <2>2
  <2>5. blob'.model = blob.model /\ blob'.to = to /\ blob' # None => CliOK'
    BY <2>2, <2>3, <2>4 DEF CliOK
  <2> QED BY <2>2, <2>3, <2>5, ReencryptKeeps
<1>2. CASE RotateVerifies
  <2>1. cli.pc = "bridged" /\ UNCHANGED <<keyFile, minted, owner, other, phase, revoked>>
        /\ phase = "down" /\ blob # None /\ cli.model = blob.model /\ cli.key \in blob.to /\ cli.key \in 1..MaxKeys
        /\ cli = [pc |-> cli.pc, key |-> cli.key, model |-> cli.model]
    BY <1>2 DEF RotateVerifies, VaultInv, CliOK
  <2>2. CASE cli' = Idle /\ reencryptTo(cli.model, {keyFile})
    BY <1>0, <1>i, <2>1, <2>2, ReencryptKeeps
  <2>3. CASE cli' = [cli EXCEPT !.pc = "verified"] /\ UNCHANGED <<blob, written>>
    <3>1. cli' = [pc |-> "verified", key |-> cli.key, model |-> cli.model]
      BY <2>1, <2>3
    <3>2. cli'.pc = "verified" /\ cli'.key = cli.key /\ cli'.model = cli.model
      BY <3>1
    <3>3. CliOK'
      BY <2>1, <2>3, <3>1, <3>2 DEF CliOK
    <3> QED BY <2>1, <2>3, <3>3 DEF VaultInv, CountersOK, BlobOK, OwnersOK
  <2> QED BY <1>2, <2>2, <2>3 DEF RotateVerifies
<1>3. CASE RotatePromotes
  <2>1. cli.pc = "verified" /\ UNCHANGED <<blob, written, minted, owner, other, phase, revoked>>
        /\ phase = "down" /\ blob # None /\ cli.model = blob.model /\ cli.key \in blob.to /\ cli.key \in 1..MaxKeys
        /\ cli = [pc |-> cli.pc, key |-> cli.key, model |-> cli.model]
        /\ keyFile' = cli.key /\ cli' = [cli EXCEPT !.pc = "promoted"]
    BY <1>3 DEF RotatePromotes, VaultInv, CliOK
  <2>2. cli' = [pc |-> "promoted", key |-> cli.key, model |-> cli.model]
    BY <2>1
  <2>3. cli'.pc = "promoted" /\ cli'.key = cli.key /\ cli'.model = cli.model
    BY <2>2
  <2>4. CliOK'
    BY <2>1, <2>2, <2>3 DEF CliOK
  <2>5. CountersOK' /\ OwnersOK'
    BY <2>1 DEF VaultInv, CountersOK, OwnersOK, OwnerFits
  <2>6. BlobOK'
    BY <2>1 DEF VaultInv, BlobOK, BlobFits
  <2> QED BY <2>4, <2>5, <2>6 DEF VaultInv
<1>4. CASE RotateFinalises
  <2>1. UNCHANGED <<keyFile, minted, owner, other, phase, revoked>> /\ cli' = Idle
        /\ blob # None /\ reencryptTo(blob.model, {keyFile})
    BY <1>4 DEF RotateFinalises, VaultInv, CliOK
  <2> QED BY <1>0, <1>i, <2>1, ReencryptKeeps
<1>5. CASE RotateDies
  <2>1. cli' = Idle /\ UNCHANGED <<blob, keyFile, written, minted, owner, other, phase, revoked>>
    BY <1>5 DEF RotateDies
  <2> QED BY <1>i, <2>1 DEF VaultInv, CountersOK, BlobOK, OwnersOK
<1> QED BY <1>1, <1>2, <1>3, <1>4, <1>5

\* Somebody else's write: an older model, or no blob at all.
LEMMA OutOfBandKeeps == ASSUME VaultInv, OutOfBand PROVE VaultInv'
<1>1. /\ blob # None /\ cli.pc = "idle" /\ written < MaxBlobs /\ revoked' = {} /\ written' = written + 1
      /\ UNCHANGED <<keyFile, minted, owner, other, phase, cli>>
  BY DEF OutOfBand
<1>2. BlobFits(blob, keyFile, written)
  BY <1>1 DEF VaultInv, BlobOK
<1>3. CliOK' /\ minted' \in 0..MaxValue
  BY <1>1 DEF VaultInv, CliOK, CountersOK
<1>4. CASE blob' = None
  <2>1. OwnerFits(owner, None, keyFile, written + 1) /\ OwnerFits(other, None, keyFile, written + 1)
    BY Numbers, OwnerOfOldBlob DEF VaultInv, OwnersOK
  <2>2. OwnersOK'
    BY <1>1, <1>4, <2>1 DEF OwnersOK
  <2>3. CountersOK' /\ BlobOK'
    BY <1>1, <1>4, Numbers DEF VaultInv, CountersOK, BlobOK
  <2> QED BY <1>3, <2>2, <2>3 DEF VaultInv
<1>5. CASE blob' = NewBlob([blob.model EXCEPT !.secrets = [n \in {AdminTokenSecret} |-> @[n]]], blob.to)
  <2>1. PICK s : s = blob.model
    OBVIOUS
  <2>2. StoreOK(s) /\ blob.to \subseteq 1..MaxKeys /\ keyFile \in blob.to /\ written \in Nat
    BY <1>2, <2>1, Numbers DEF BlobFits
  <2>3. PICK f : f = [n \in {AdminTokenSecret} |-> s.secrets[n]]
    OBVIOUS
  <2>4. PICK t : t = [secrets |-> f, principals |-> s.principals]
    OBVIOUS
  <2>5. [s EXCEPT !.secrets = f] = t
    BY <2>2, <2>4, StoreFacts
  <2>6. StoreOK(t)
    <3>1. Map(f, Names, Secret) /\ AdminTokenSecret \in DOMAIN f /\ f[AdminTokenSecret] = s.secrets[AdminTokenSecret]
      BY <2>2, <2>3 DEF StoreOK, Map, Names
    <3>2. t.secrets = f /\ t.principals = s.principals
      BY <2>4
    <3> QED BY <2>2, <2>4, <3>1, <3>2 DEF StoreOK
  <2>7. PICK b : b = [id |-> written + 1, model |-> t, to |-> blob.to]
    OBVIOUS
  <2>8. b.id = written + 1 /\ b.model = t /\ b.to = blob.to /\ b # None
    BY <2>7, NotNone
  <2>9. BlobFits(b, keyFile, written + 1)
    BY <2>2, <2>6, <2>7, <2>8 DEF BlobFits
  <2>10. blob' = b
    BY <1>5, <2>1, <2>3, <2>5, <2>7 DEF NewBlob
  <2>11. HasRevoked(b, revoked')
    BY <1>1 DEF HasRevoked
  <2> QED BY <1>1, <1>3, <2>8, <2>9, <2>10, <2>11, WriteKeeps
<1> QED BY <1>4, <1>5 DEF OutOfBand

\* The vault in use of the second initial state.
LEMMA InUseOK == StoreOK(InUse)
<1>1. PICK g : g = Genesis(1).secrets[AdminTokenSecret]
  OBVIOUS
<1>2. g \in Secret /\ Active(g) /\ g.grants = <<>>
  BY <1>1, GenesisSound, StoreFacts
<1>3. PICK everyone : everyone = CHOOSE q \in [1..Cardinality(Principals) -> Principals] :
                                   \A p \in Principals : \E i \in DOMAIN q : q[i] = p
  OBVIOUS
<1>4. everyone \in Seq(Principals)
  <2>1. PICK n \in Nat : ExistsBijection(1..n, Principals)
    BY VaultAssumption, FS_NatBijection
  <2>2. n = Cardinality(Principals)
    BY <2>1, FS_CountingElements
  <2>3. \E q \in [1..n -> Principals] : \A p \in Principals : \E i \in DOMAIN q : q[i] = p
    BY <2>1 DEF ExistsBijection, Bijection, Surjection
  <2>4. everyone \in [1..n -> Principals]
    BY <1>3, <2>2, <2>3
  <2> QED BY <2>4
<1>5. PICK x : x = [value |-> 1, grants |-> everyone, status |-> "active", pattern |-> "auto"]
  OBVIOUS
<1>6. x \in Secret
  BY <1>4, <1>5 DEF Secret
<1>7. PICK S : S = [n \in SecretNames \union {AdminTokenSecret} |-> IF n = AdminTokenSecret THEN g ELSE x]
  OBVIOUS
<1>8. PICK P : P = [p \in Principals \union {CorePrincipal} |-> [status |-> "active", nonce |-> p = CorePrincipal]]
  OBVIOUS
<1>9. InUse = [secrets |-> S, principals |-> P]
  <2>1. S = [n \in SecretNames \union {AdminTokenSecret} |->
               IF n = AdminTokenSecret THEN Genesis(1).secrets[n] ELSE x]
    BY <1>1, <1>7
  <2> QED BY <1>3, <1>5, <1>8, <2>1 DEF InUse
<1>10. Map(S, Names, Secret) /\ AdminTokenSecret \in DOMAIN S /\ S[AdminTokenSecret] = g
  BY <1>2, <1>6, <1>7 DEF Map, Names
<1>11. Map(P, People, Principal) /\ CorePrincipal \in DOMAIN P /\ P[CorePrincipal].nonce
  BY <1>8 DEF Map, People, Principal
<1> QED BY <1>2, <1>9, <1>10, <1>11 DEF StoreOK

\* The invariant holds at the start.
LEMMA VaultInvInit == VaultInit => VaultInv
<1> SUFFICES ASSUME VaultInit PROVE VaultInv
  OBVIOUS
<1>1. MaxValue \in Nat \ {0} /\ MaxBlobs \in Nat \ {0} /\ MaxKeys \in Nat \ {0}
  BY VaultAssumption
<1>2. /\ keyFile = 1 /\ owner = None /\ other = None /\ phase = "down" /\ cli = Idle /\ revoked = {}
      /\ written \in {0, 1} /\ minted \in {0, 1}
  BY DEF VaultInit
<1>3. CountersOK
  BY <1>1, <1>2 DEF CountersOK
<1>4. OwnersOK /\ CliOK
  BY <1>2 DEF OwnersOK, OwnerFits, CliOK, Idle
<1>5. BlobOK
  <2>1. CASE blob = None
    BY <1>2, <2>1 DEF BlobOK
  <2>2. CASE blob = [id |-> 1, model |-> InUse, to |-> {1}] /\ written = 1
    <3>1. blob.id = 1 /\ blob.model = InUse /\ blob.to = {1} /\ blob # None
      BY <2>2, NotNone
    <3>2. BlobFits(blob, 1, 1)
      BY <1>1, <2>2, <3>1, InUseOK DEF BlobFits
    <3> QED BY <1>2, <2>2, <3>1, <3>2 DEF BlobOK, HasRevoked
  <2> QED BY <2>1, <2>2 DEF VaultInit
<1> QED BY <1>3, <1>4, <1>5 DEF VaultInv

\* Every step keeps the invariant.
LEMMA VaultInvNext == VaultInv /\ [VaultNext]_vaultVars => VaultInv'
<1> SUFFICES ASSUME VaultInv, [VaultNext]_vaultVars PROVE VaultInv'
  OBVIOUS
<1>1. CASE \E m \in Writers :
             \/ handleVaultSet(m) \/ handleVaultRegisterPrincipal(m) \/ handleVaultRoll(m)
             \/ handleVaultRevoke(m) \/ handleVaultRevokePrincipal(m)
             \/ handleVaultPurgePrincipal(m) \/ handleVaultRollPrincipal(m)
  BY <1>1, SetKeeps, RegisterKeeps, RollKeeps, RevokeKeeps, RevokePrincipalKeeps, PurgeKeeps, RollPrincipalKeeps
<1>2. CASE Boot \/ ReloadReads \/ ReloadSwaps \/ ReloadRestores \/ Drained \/ DaemonStops
  BY <1>2, DaemonKeeps
<1>3. CASE runVaultInit \/ runVaultRotateAdminToken \/ OutOfBand
  BY <1>3, InitCommandKeeps, RotateTokenKeeps, OutOfBandKeeps
<1>4. CASE RotateBridges \/ RotateVerifies \/ RotatePromotes \/ RotateFinalises \/ RotateDies
  BY <1>4, RotateKeyKeeps
<1>5. CASE UNCHANGED vaultVars
  BY <1>5 DEF vaultVars, VaultInv, CountersOK, BlobOK, OwnersOK, CliOK
<1> QED BY <1>1, <1>2, <1>3, <1>4, <1>5 DEF VaultNext

\* The inductive invariant: an owner that saw the blob on disk holds what is in it, a
\* rotation under way has the staged key among the recipients, and the models in the
\* blob and in memory are well formed with their reserved entries.
THEOREM VaultInvariance == VaultSpec => []VaultInv
BY VaultInvInit, VaultInvNext, PTL DEF VaultSpec

\* The vault stays usable at every point of every write and rotation (Save,
\* rotateKey): a key on disk opens it, owners agree with the file they last saw, and
\* no management call touches the admin token or the fingerprint nonce.
THEOREM IntactVault == VaultSpec => []VaultIntact
<1>1. VaultInv => VaultIntact
  <2> SUFFICES ASSUME VaultInv PROVE VaultTypeOK /\ KeyOpensBlob /\ OwnerTracksDisk /\ ReservedIntact
    BY DEF VaultIntact
  <2>1. \A s \in Stores : StoreOK(s)
    BY DEF Stores, VaultInv, BlobOK, BlobFits, OwnersOK, OwnerFits
  <2>2. \A o \in {owner, other} \ {None} : /\ o.base \in 1..written /\ o.key = keyFile
                                           /\ blob # None => (o.base = blob.id => o.store = blob.model)
    BY DEF VaultInv, OwnersOK, OwnerFits
  <2>3. \A s \in Stores : /\ DOMAIN s.secrets \subseteq Names /\ DOMAIN s.principals \subseteq People
    BY <2>1 DEF StoreOK, Map
  <2>4. VaultTypeOK
    BY <2>2, <2>3 DEF VaultInv, CountersOK, BlobOK, BlobFits, VaultTypeOK, Names, People
  <2>5. KeyOpensBlob
    BY DEF VaultInv, BlobOK, BlobFits, KeyOpensBlob, Openable
  <2>6. OwnerTracksDisk
    BY <2>2 DEF OwnerTracksDisk
  <2>7. ReservedIntact
    <3> SUFFICES ASSUME NEW s \in Stores
                 PROVE  /\ \A p \in Principals : AdminTokenSecret \notin Compose(s, p)
                        /\ AdminTokenSecret \in DOMAIN s.secrets /\ Active(s.secrets[AdminTokenSecret])
                        /\ CorePrincipal \in DOMAIN s.principals /\ s.principals[CorePrincipal].nonce
      BY DEF ReservedIntact
    <3>1. StoreOK(s)
      BY <2>1
    <3>2. \A p : ~GrantedTo(s, AdminTokenSecret, p)
      BY <3>1 DEF GrantedTo, StoreOK
    <3>3. \A p \in Principals : AdminTokenSecret \notin Compose(s, p)
      BY <3>2 DEF Compose
    <3> QED BY <3>1, <3>3 DEF StoreOK
  <2> QED BY <2>4, <2>5, <2>6, <2>7
<1> QED BY <1>1, VaultInvariance, PTL

\* An acknowledged revocation stays in the blob, whichever owner or command writes
\* next: checkDiskUnchanged refuses the owner that has not seen it.
THEOREM StickyRevocation == VaultSpec => []RevocationSticks
<1>1. VaultInv => RevocationSticks
  BY DEF VaultInv, BlobOK, HasRevoked, RevocationSticks
<1> QED BY <1>1, VaultInvariance, PTL
=============================================================================
