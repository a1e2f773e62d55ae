------------------------- MODULE JobTreeWaitProofs --------------------------
(***************************************************************************)
(* Proofs about EventHub and JobTreeWait, for any ring, any tree of jobs,  *)
(* any number of waiters and streams: a synchronous answer is the whole    *)
(* tree, slots and channels are given back, the ring holds the latest      *)
(* events and every connection shows them in order.                        *)
(***************************************************************************)
EXTENDS JobTreeWait, FiniteSetTheorems, SequenceTheorems, TLAPS

\* A worker that has not yet written its row has a row that is running, unless a
\* cancel took it away; a root has no row before its request.
WorkersInv ==
    /\ \A j \in Jobs : worker[j] \in {"exec", "publish", "write"} =>
                          status[j] = "running" \/ j \in bounded.cancelled
    /\ \A j \in Jobs : worker[j] # "none" \/ j \in bounded.cancelled => status[j] # "absent"
    /\ \A r \in Roots : wait[r].pc = "none" => status[r] = "absent"

\* The ids pushed are distinct, and those taken and not yet pushed are new.
IdsInv ==
    /\ \A p \in 1 .. Len(pushed) : pushed[p] \in 1 .. nextID
    /\ \A p, q \in 1 .. Len(pushed) : pushed[p] = pushed[q] => p = q
    /\ \A j \in Jobs : worker[j] = "publish" =>
         /\ event[j] \in 1 .. nextID
         /\ \A p \in 1 .. Len(pushed) : pushed[p] # event[j]
         /\ \A k \in Jobs : worker[k] = "publish" /\ event[k] = event[j] => k = j

\* The ring entry by entry.
RingHas(f, st, sz, n, P, c) ==
    /\ sz = IF n < c THEN n ELSE c
    /\ \A i \in 1 .. sz : f[(st + i - 1) % c] = P[n - sz + i]
RingInv == RingHas(hub.slots, hub.start, hub.size, Len(pushed), pushed, Capacity)

\* One id was pushed before another.
Precedes(P, a, b) == \E p, q \in 1 .. Len(P) : p < q /\ P[p] = a /\ P[q] = b
Within(P, x) == \E p \in 1 .. Len(P) : P[p] = x

\* A connection shows, and its channel holds, pushed events in their order.
StreamFits(x, P) ==
    /\ \A i \in 1 .. Len(x.got) : Within(P, x.got[i])
    /\ \A i \in 1 .. Len(x.chan) : Within(P, x.chan[i])
    /\ \A i, k \in 1 .. Len(x.got) : i < k => Precedes(P, x.got[i], x.got[k])
    /\ \A i, k \in 1 .. Len(x.chan) : i < k => Precedes(P, x.chan[i], x.chan[k])
    /\ \A i \in 1 .. Len(x.got), k \in 1 .. Len(x.chan) : Precedes(P, x.got[i], x.chan[k])
    /\ x.pc # "open" => x.chan = <<>>
StreamsInv == \A s \in Streams : StreamFits(stream[s], pushed)

HubInv == HubTypeOK /\ IdsInv /\ RingInv /\ StreamsInv
TreeInv == TypeOK /\ WorkersInv /\ WholeTree /\ SlotsBalance
WaitInv == HubInv /\ TreeInv

-----------------------------------------------------------------------------
\* The ring, with the remainder taken out of the indices.

Slot(a, c) == IF a < c THEN a ELSE a - c
RingIs(f, st, sz, n, P, c) ==
    /\ sz = IF n < c THEN n ELSE c
    /\ \A i \in 1 .. sz : f[Slot(st + i - 1, c)] = P[n - sz + i]

\* An index less than two rounds ahead wraps once.
LEMMA Wrap ==
  ASSUME NEW c \in Nat \ {0}, NEW a \in 0 .. 2 * c - 1
  PROVE  a % c = Slot(a, c)
BY DEF Slot

\* The ring with and without the remainder.
LEMMA RingSlots ==
  ASSUME NEW f, NEW c \in Nat \ {0}, NEW st \in 0 .. c - 1, NEW sz \in 0 .. c, NEW n, NEW P
  PROVE  RingIs(f, st, sz, n, P, c) <=> RingHas(f, st, sz, n, P, c)
<1>1. \A i \in 1 .. sz : (st + i - 1) % c = Slot(st + i - 1, c)
  <2> TAKE i \in 1 .. sz
  <2>1. st + i - 1 \in 0 .. 2 * c - 1
    OBVIOUS
  <2> QED BY <2>1, Wrap
<1> QED BY <1>1 DEF RingIs, RingHas

\* A push behind the newest entry.
LEMMA PushBehind ==
  ASSUME NEW c \in Nat \ {0}, NEW f \in [0 .. c - 1 -> Nat], NEW st \in 0 .. c - 1, NEW sz \in 0 .. c, sz < c,
         NEW n \in Nat, NEW P, NEW Q, NEW id \in Nat, RingIs(f, st, sz, n, P, c),
         \A p \in 1 .. n : Q[p] = P[p], Q[n + 1] = id,
         NEW g, g = [f EXCEPT ![Slot(st + sz, c)] = id]
  PROVE  RingIs(g, st, sz + 1, n + 1, Q, c) /\ g \in [0 .. c - 1 -> Nat]
<1>1. sz = n
  BY DEF RingIs
<1>2. PICK w : w = Slot(st + sz, c)
  OBVIOUS
<1>3. w \in 0 .. c - 1 /\ \A i \in 1 .. sz : Slot(st + i - 1, c) # w /\ Slot(st + i - 1, c) \in 0 .. c - 1
  BY <1>2 DEF Slot
<1>4. g \in [0 .. c - 1 -> Nat] /\ g[w] = id /\ \A k \in 0 .. c - 1 : k # w => g[k] = f[k]
  BY <1>2, <1>3
<1>5. \A i \in 1 .. sz : f[Slot(st + i - 1, c)] = P[i]
  BY <1>1 DEF RingIs
<1>6. ASSUME NEW i \in 1 .. (sz + 1) PROVE g[Slot(st + i - 1, c)] = Q[(n + 1) - (sz + 1) + i]
  <2>1. (n + 1) - (sz + 1) + i = i
    BY <1>1
  <2>2. CASE i \in 1 .. sz
    BY <1>1, <1>3, <1>4, <1>5, <2>1, <2>2, SMTT(60)
  <2>3. CASE i = sz + 1
    <3>1. st + i - 1 = st + sz /\ i = n + 1
      BY <1>1, <2>3
    <3> QED BY <1>2, <1>4, <2>1, <3>1
  <2> QED BY <2>2, <2>3
<1>7. sz + 1 = IF n + 1 < c THEN n + 1 ELSE c
  BY <1>1
<1> QED BY <1>4, <1>6, <1>7 DEF RingIs

\* A push over the oldest entry.
LEMMA PushOver ==
  ASSUME NEW c \in Nat \ {0}, NEW f \in [0 .. c - 1 -> Nat], NEW st \in 0 .. c - 1,
         NEW n \in Nat, NEW P, NEW Q, NEW id \in Nat, RingIs(f, st, c, n, P, c),
         \A p \in 1 .. n : Q[p] = P[p], Q[n + 1] = id,
         NEW g, g = [f EXCEPT ![st] = id]
  PROVE  RingIs(g, Slot(st + 1, c), c, n + 1, Q, c) /\ g \in [0 .. c - 1 -> Nat] /\ Slot(st + 1, c) \in 0 .. c - 1
<1>0. PICK next : next = Slot(st + 1, c)
  OBVIOUS
<1>1. n >= c /\ next \in 0 .. c - 1
  BY <1>0 DEF RingIs, Slot
<1>2. \A i \in 1 .. c - 1 : /\ Slot(next + i - 1, c) = Slot(st + (i + 1) - 1, c)
                           /\ Slot(st + (i + 1) - 1, c) # st /\ Slot(st + (i + 1) - 1, c) \in 0 .. c - 1
  BY <1>0 DEF Slot
<1>3. Slot(next + c - 1, c) = st
  BY <1>0 DEF Slot
<1>4. g \in [0 .. c - 1 -> Nat] /\ g[st] = id /\ \A k \in 0 .. c - 1 : k # st => g[k] = f[k]
  OBVIOUS
<1>5. \A i \in 1 .. c : f[Slot(st + i - 1, c)] = P[n - c + i]
  BY DEF RingIs
<1>6. ASSUME NEW i \in 1 .. c PROVE g[Slot(next + i - 1, c)] = Q[(n + 1) - c + i]
  <2>1. CASE i \in 1 .. c - 1
    <3>1. i + 1 \in 1 .. c /\ n - c + (i + 1) \in 1 .. n /\ (n + 1) - c + i = n - c + (i + 1)
      BY <1>1, <2>1
    <3>2. g[Slot(next + i - 1, c)] = f[Slot(st + (i + 1) - 1, c)]
      BY <1>2, <1>4, <2>1
    <3>3. f[Slot(st + (i + 1) - 1, c)] = P[n - c + (i + 1)]
      BY <1>5, <3>1
    <3> QED BY <3>1, <3>2, <3>3
  <2>2. CASE i = c
    <3>1. (n + 1) - c + i = n + 1
      BY <2>2
    <3> QED BY <1>3, <1>4, <2>2, <3>1
  <2> QED BY <2>1, <2>2
<1>7. c = IF n + 1 < c THEN n + 1 ELSE c
  BY <1>1
<1> QED BY <1>0, <1>1, <1>4, <1>6, <1>7 DEF RingIs

\* The parts of the hub and their types.
LEMMA HubFields ==
  ASSUME HubTypeOK
  PROVE  /\ hub = [slots |-> hub.slots, start |-> hub.start, size |-> hub.size]
         /\ hub.slots \in [0 .. Capacity - 1 -> Nat] /\ hub.start \in 0 .. Capacity - 1
         /\ hub.size \in 0 .. Capacity /\ Capacity \in Nat \ {0}
         /\ pushed \in Seq(Nat) /\ Len(pushed) \in Nat
BY HubAssumption DEF HubTypeOK

\* pushLocked: the ring keeps the latest events.
LEMMA PushRing ==
  ASSUME HubTypeOK, RingInv, NEW id \in Nat, hub' = pushLocked(id), pushed' = Append(pushed, id)
  PROVE  /\ RingInv' /\ pushed' \in Seq(Nat)
         /\ hub' \in [slots: [0 .. Capacity - 1 -> Nat], start: 0 .. Capacity - 1, size: 0 .. Capacity]
<1>1. PICK f, st, sz, P, n, c : /\ f = hub.slots /\ st = hub.start /\ sz = hub.size /\ P = pushed
                               /\ n = Len(pushed) /\ c = Capacity
  OBVIOUS
<1>2. /\ c \in Nat \ {0} /\ f \in [0 .. c - 1 -> Nat] /\ st \in 0 .. c - 1 /\ sz \in 0 .. c
      /\ n \in Nat /\ P \in Seq(Nat)
  BY <1>1, HubFields
<1>3. RingIs(f, st, sz, n, P, c)
  <2>1. RingHas(f, st, sz, n, P, c)
    BY <1>1 DEF RingInv
  <2> QED BY <1>2, <2>1, RingSlots
<1>4. PICK Q : Q = Append(P, id)
  OBVIOUS
<1>5. Q \in Seq(Nat) /\ Len(Q) = n + 1 /\ Q[n + 1] = id /\ pushed' = Q /\ \A p \in 1 .. n : Q[p] = P[p]
  BY <1>1, <1>2, <1>4
<1>6. \A g, s2, z2 : /\ hub' = [slots |-> g, start |-> s2, size |-> z2] /\ g \in [0 .. c - 1 -> Nat]
                     /\ s2 \in 0 .. c - 1 /\ z2 \in 0 .. c /\ RingIs(g, s2, z2, n + 1, Q, c)
                     => /\ RingInv'
                        /\ hub' \in [slots: [0 .. c - 1 -> Nat], start: 0 .. c - 1, size: 0 .. c]
  <2> SUFFICES ASSUME NEW g, NEW s2, NEW z2, hub' = [slots |-> g, start |-> s2, size |-> z2],
                      g \in [0 .. c - 1 -> Nat], s2 \in 0 .. c - 1, z2 \in 0 .. c,
                      RingIs(g, s2, z2, n + 1, Q, c)
               PROVE  /\ RingInv'
                      /\ hub' \in [slots: [0 .. c - 1 -> Nat], start: 0 .. c - 1, size: 0 .. c]
    OBVIOUS
  <2>1. RingHas(g, s2, z2, n + 1, Q, c)
    BY <1>2, RingSlots
  <2>2. hub'.slots = g /\ hub'.start = s2 /\ hub'.size = z2
    OBVIOUS
  <2>3. RingInv'
    BY <1>1, <1>5, <2>1, <2>2 DEF RingInv
  <2>4. hub' \in [slots: [0 .. c - 1 -> Nat], start: 0 .. c - 1, size: 0 .. c]
    OBVIOUS
  <2> QED BY <2>3, <2>4
<1>7. CASE sz < c
  <2>1. PICK g : g = [f EXCEPT ![Slot(st + sz, c)] = id]
    OBVIOUS
  <2>2. st + sz \in 0 .. 2 * c - 1
    BY <1>2, <1>7
  <2>3. (st + sz) % c = Slot(st + sz, c)
    BY <1>2, <2>2, Wrap
  <2>4. hub' = [slots |-> g, start |-> st, size |-> sz + 1]
    BY <1>1, <1>7, <2>1, <2>3 DEF pushLocked
  <2>5. RingIs(g, st, sz + 1, n + 1, Q, c) /\ g \in [0 .. c - 1 -> Nat]
    BY <1>2, <1>3, <1>5, <1>7, <2>1, PushBehind
  <2>6. sz + 1 \in 0 .. c
    BY <1>2, <1>7
  <2> QED BY <1>1, <1>2, <1>5, <1>6, <2>4, <2>5, <2>6
<1>8. CASE sz = c
  <2>1. PICK g, next : g = [f EXCEPT ![st] = id] /\ next = Slot(st + 1, c)
    OBVIOUS
  <2>2. st + 1 \in 0 .. 2 * c - 1
    BY <1>2
  <2>3. (st + 1) % c = Slot(st + 1, c)
    BY <1>2, <2>2, Wrap
  <2>4. hub' = [slots |-> g, start |-> next, size |-> c]
    BY <1>1, <1>2, <1>8, <2>1, <2>3 DEF pushLocked
  <2>5. RingIs(g, next, c, n + 1, Q, c) /\ g \in [0 .. c - 1 -> Nat] /\ next \in 0 .. c - 1
    <3>1. RingIs(f, st, c, n, P, c)
      BY <1>3, <1>8
    <3>2. (\A p \in 1 .. n : Q[p] = P[p]) /\ Q[n + 1] = id
      BY <1>5
    <3> QED BY ONLY <1>2, id \in Nat, <2>1, <3>1, <3>2, PushOver
  <2>6. c \in 0 .. c
    BY <1>2
  <2> QED BY <1>1, <1>5, <1>6, <2>4, <2>5, <2>6
<1> QED BY <1>2, <1>7, <1>8

-----------------------------------------------------------------------------
\* The streams.

\* The parts of a connection and their types.
LEMMA StreamFields ==
  ASSUME NEW x \in Stream
  PROVE  /\ x.got \in Seq(Nat) /\ x.chan \in Seq(Nat) /\ x.last \in Nat
         /\ x.pc \in {"off", "snapshot", "open"}
BY DEF Stream

\* More pushes disturb no connection.
LEMMA PrecedesGrows ==
  ASSUME NEW P \in Seq(Nat), NEW id \in Nat, NEW Q, Q = Append(P, id)
  PROVE  /\ \A a : Within(P, a) => Within(Q, a) /\ Precedes(Q, a, id)
         /\ \A a, b : Precedes(P, a, b) => Precedes(Q, a, b)
         /\ Within(Q, id)
<1>1. /\ Q \in Seq(Nat) /\ Len(Q) = Len(P) + 1 /\ Q[Len(P) + 1] = id /\ Len(P) \in Nat
      /\ \A p \in 1 .. Len(P) : Q[p] = P[p]
  OBVIOUS
<1>2. ASSUME NEW a, Within(P, a) PROVE Within(Q, a) /\ Precedes(Q, a, id)
  <2>1. PICK p \in 1 .. Len(P) : P[p] = a
    BY <1>2 DEF Within
  <2>2. p \in 1 .. Len(Q) /\ Len(P) + 1 \in 1 .. Len(Q) /\ p < Len(P) + 1 /\ Q[p] = a
    BY <1>1, <2>1
  <2> QED BY <1>1, <2>2 DEF Within, Precedes
<1>3. ASSUME NEW a, NEW b, Precedes(P, a, b) PROVE Precedes(Q, a, b)
  <2>1. PICK p \in 1 .. Len(P), q \in 1 .. Len(P) : p < q /\ P[p] = a /\ P[q] = b
    BY <1>3 DEF Precedes
  <2>2. p \in 1 .. Len(Q) /\ q \in 1 .. Len(Q) /\ Q[p] = a /\ Q[q] = b
    BY <1>1, <2>1
  <2> QED BY <2>1, <2>2 DEF Precedes
<1>4. Len(P) + 1 \in 1 .. Len(Q)
  BY <1>1
<1> QED BY <1>1, <1>2, <1>3, <1>4 DEF Within

\* A connection that fits what was pushed fits what is pushed after it.
LEMMA FitsGrow ==
  ASSUME NEW x, NEW P \in Seq(Nat), NEW id \in Nat, NEW Q, Q = Append(P, id), StreamFits(x, P)
  PROVE  StreamFits(x, Q)
BY PrecedesGrows DEF StreamFits

\* The send of an event just pushed.
LEMMA FitsSend ==
  ASSUME NEW x \in Stream, NEW P \in Seq(Nat), NEW id \in Nat, NEW Q, Q = Append(P, id),
         StreamFits(x, P), x.pc = "open"
  PROVE  StreamFits([x EXCEPT !.chan = Append(x.chan, id)], Q) /\ [x EXCEPT !.chan = Append(x.chan, id)] \in Stream
<1>0. PICK y : y = [x EXCEPT !.chan = Append(x.chan, id)]
  OBVIOUS
<1>1. PICK g, c : g = x.got /\ c = x.chan
  OBVIOUS
<1>2. /\ y.got = g /\ y.chan = Append(c, id) /\ y.pc = "open" /\ y \in Stream
      /\ c \in Seq(Nat) /\ g \in Seq(Nat)
  <2>1. c \in Seq(Nat) /\ g \in Seq(Nat)
    BY <1>1 DEF Stream
  <2>2. PICK d : d = Append(c, id)
    OBVIOUS
  <2>3. d \in Seq(Nat)
    BY <2>1, <2>2
  <2>4. y = [x EXCEPT !.chan = d]
    BY <1>0, <1>1, <2>2
  <2>5. y.got = g /\ y.chan = d /\ y.pc = "open" /\ y \in Stream
    BY <1>1, <2>3, <2>4 DEF Stream
  <2> QED BY <2>1, <2>2, <2>5
<1>3. PICK d : d = Append(c, id)
  OBVIOUS
<1>4. Len(d) = Len(c) + 1 /\ d[Len(c) + 1] = id /\ Len(c) \in Nat /\ \A i \in 1 .. Len(c) : d[i] = c[i]
  BY <1>2, <1>3
<1>5. /\ \A i \in 1 .. Len(g) : Within(Q, g[i]) /\ Precedes(Q, g[i], id)
      /\ \A i \in 1 .. Len(c) : Within(Q, c[i]) /\ Precedes(Q, c[i], id)
      /\ \A i, k \in 1 .. Len(g) : i < k => Precedes(Q, g[i], g[k])
      /\ \A i, k \in 1 .. Len(c) : i < k => Precedes(Q, c[i], c[k])
      /\ \A i \in 1 .. Len(g), k \in 1 .. Len(c) : Precedes(Q, g[i], c[k])
      /\ Within(Q, id)
  BY <1>1, PrecedesGrows, ZenonT(60) DEF StreamFits
<1>6. \A i \in 1 .. Len(d) : i \in 1 .. Len(c) \/ (i = Len(c) + 1 /\ d[i] = id)
  BY <1>4
<1>7. \A i \in 1 .. Len(d) : Within(Q, d[i])
  BY <1>4, <1>5, <1>6
<1>8. \A i, k \in 1 .. Len(d) : i < k => Precedes(Q, d[i], d[k])
  <2> TAKE i, k \in 1 .. Len(d)
  <2> HAVE i < k
  <2>1. i \in 1 .. Len(c) /\ d[i] = c[i]
    BY <1>4, <1>6
  <2>2. CASE k \in 1 .. Len(c)
    BY <1>4, <1>5, <2>1, <2>2
  <2>3. CASE k = Len(c) + 1 /\ d[k] = id
    BY <1>5, <2>1, <2>3
  <2> QED BY <1>6, <2>2, <2>3
<1>9. \A i \in 1 .. Len(g), k \in 1 .. Len(d) : Precedes(Q, g[i], d[k])
  BY <1>4, <1>5, <1>6
<1> QED BY <1>0, <1>2, <1>3, <1>5, <1>7, <1>8, <1>9 DEF StreamFits

\* The end of a connection is a connection that shows nothing.
LEMMA FitsClosed ==
  ASSUME NEW P, NEW x, x.got = <<>>, x.chan = <<>>
  PROVE  StreamFits(x, P)
BY DEF StreamFits

\* A snapshot shows what the ring holds, in its order.
LEMMA SnapshotFits ==
  ASSUME HubTypeOK, RingInv, NEW last \in Nat, NEW out \in SnapshotSince(last), NEW x, NEW P, P = pushed,
         x.got = out, x.chan = <<>>
  PROVE  StreamFits(x, P) /\ out \in Seq(Nat)
<1>1. PICK K, B, n, sz : K = Kept(last) /\ B = Buffered /\ n = Len(pushed) /\ sz = hub.size
  OBVIOUS
<1>2. PICK at \in Ascending(K) : out = [i \in DOMAIN at |-> B[at[i]]]
  BY <1>1 DEF SnapshotSince, SnapshotOf
<1>3. K \subseteq 1 .. sz /\ sz \in Nat /\ sz <= n /\ n \in Nat /\ n = Len(P) /\ P \in Seq(Nat)
  <2>1. sz \in Nat /\ n \in Nat /\ n = Len(P) /\ P \in Seq(Nat) /\ Capacity \in Nat
    BY <1>1, HubFields
  <2>2. sz = IF n < Capacity THEN n ELSE Capacity
    BY <1>1 DEF RingInv, RingHas
  <2>3. K \subseteq 1 .. sz
    BY <1>1 DEF Kept
  <2>4. sz <= n
    BY <2>1, <2>2
  <2> QED BY <2>1, <2>3, <2>4
<1>4. PICK m : m = Cardinality(K)
  OBVIOUS
<1>5. m \in Nat
  <2>1. IsFiniteSet(1 .. sz)
    <3>1. sz \in Int /\ 1 \in Int
      BY <1>3
    <3> QED BY ONLY <3>1, FS_Interval
  <2>2. IsFiniteSet(K)
    BY <1>3, <2>1, FS_Subset
  <2> QED BY <1>4, <2>2, FS_CardinalityType
<1>6. at \in [1 .. m -> K] /\ \A i, k \in 1 .. m : i < k => at[i] < at[k]
  BY <1>2, <1>4 DEF Ascending
<1>7. \A i \in 1 .. sz : B[i] = P[n - sz + i]
  BY <1>1 DEF Buffered, RingInv, RingHas
<1>8. \A i \in 1 .. m : at[i] \in 1 .. sz /\ n - sz + at[i] \in 1 .. n /\ out[i] = P[n - sz + at[i]]
  <2> SUFFICES ASSUME NEW i \in 1 .. m
               PROVE  at[i] \in 1 .. sz /\ n - sz + at[i] \in 1 .. n /\ out[i] = P[n - sz + at[i]]
    OBVIOUS
  <2>1. at[i] \in 1 .. sz /\ DOMAIN at = 1 .. m
    BY <1>3, <1>6
  <2>2. out[i] = B[at[i]]
    BY <1>2, <2>1
  <2>3. \A a \in 1 .. sz : n - sz + a \in 1 .. n
    BY <1>3
  <2> QED BY <1>7, <2>1, <2>2, <2>3
<1>9. out \in Seq(Nat) /\ Len(out) = m
  <2>1. \A i \in 1 .. m : out[i] \in Nat
    BY <1>3, <1>8
  <2>2. out = [i \in 1 .. m |-> out[i]]
    BY <1>2, <1>6
  <2>3. out \in [1 .. m -> Nat]
    BY <2>1, <2>2
  <2> QED BY <1>5, <2>3
<1>10. \A i \in 1 .. m : Within(P, out[i])
  BY <1>3, <1>8 DEF Within
<1>11. \A i, k \in 1 .. m : i < k => Precedes(P, out[i], out[k])
  <2> SUFFICES ASSUME NEW i \in 1 .. m, NEW k \in 1 .. m, i < k PROVE Precedes(P, out[i], out[k])
    OBVIOUS
  <2>1. at[i] \in 1 .. sz /\ at[k] \in 1 .. sz /\ at[i] < at[k]
    BY <1>6, <1>8
  <2>2. n - sz + at[i] < n - sz + at[k]
    BY <1>3, <2>1, SMTT(60)
  <2> QED BY <1>3, <1>8, <2>2 DEF Precedes
<1> QED BY <1>9, <1>10, <1>11 DEF StreamFits

\* A receive moves the head of the channel to what was shown.
LEMMA ReceiveFits ==
  ASSUME NEW x \in Stream, NEW P, StreamFits(x, P), x.pc = "open", x.chan # <<>>,
         NEW y, y = [x EXCEPT !.got = Append(x.got, Head(x.chan)), !.chan = Tail(x.chan)]
  PROVE  StreamFits(y, P) /\ y \in Stream
<1>1. PICK g, c, h : g = x.got /\ c = x.chan /\ h = Head(x.chan)
  OBVIOUS
<1>2. g \in Seq(Nat) /\ c \in Seq(Nat) /\ c # <<>>
  BY <1>1, StreamFields
<1>3. PICK g2, c2 : g2 = Append(g, h) /\ c2 = Tail(c)
  OBVIOUS
<1>4. /\ h = c[1] /\ h \in Nat /\ Len(c) \in Nat /\ Len(g) \in Nat /\ 1 <= Len(c)
      /\ c2 \in Seq(Nat) /\ Len(c2) = Len(c) - 1 /\ \A i \in 1 .. Len(c2) : c2[i] = c[i + 1]
  BY <1>1, <1>2, <1>3
<1>5. /\ g2 \in Seq(Nat) /\ Len(g2) = Len(g) + 1 /\ g2[Len(g) + 1] = h /\ \A i \in 1 .. Len(g) : g2[i] = g[i]
  BY <1>2, <1>3, <1>4
<1>6. y = [x EXCEPT !.got = g2, !.chan = c2]
  BY <1>1, <1>3
<1>7. y.got = g2 /\ y.chan = c2 /\ y.pc = "open" /\ y \in Stream
  BY <1>4, <1>5, <1>6 DEF Stream
<1>8. /\ \A i \in 1 .. Len(g) : Within(P, g[i])
      /\ \A i \in 1 .. Len(c) : Within(P, c[i])
      /\ \A i, k \in 1 .. Len(g) : i < k => Precedes(P, g[i], g[k])
      /\ \A i, k \in 1 .. Len(c) : i < k => Precedes(P, c[i], c[k])
      /\ \A i \in 1 .. Len(g), k \in 1 .. Len(c) : Precedes(P, g[i], c[k])
  BY <1>1 DEF StreamFits
<1>9. \A i \in 1 .. Len(g2) : (i \in 1 .. Len(g) /\ g2[i] = g[i]) \/ (i = Len(g) + 1 /\ g2[i] = c[1])
  BY <1>4, <1>5
<1>10. \A i \in 1 .. Len(c2) : i + 1 \in 1 .. Len(c) /\ 1 < i + 1 /\ c2[i] = c[i + 1]
  BY <1>4, SMTT(60)
<1>11. 1 \in 1 .. Len(c)
  BY <1>4
<1>12. /\ \A i \in 1 .. Len(g2) : Within(P, g2[i])
       /\ \A i \in 1 .. Len(c2) : Within(P, c2[i])
  BY <1>8, <1>9, <1>10, <1>11
<1>13. \A i, k \in 1 .. Len(g2) : i < k => Precedes(P, g2[i], g2[k])
  <2> SUFFICES ASSUME NEW i \in 1 .. Len(g2), NEW k \in 1 .. Len(g2), i < k PROVE Precedes(P, g2[i], g2[k])
    OBVIOUS
  <2>1. i \in 1 .. Len(g) /\ g2[i] = g[i]
    BY <1>4, <1>5, <1>9
  <2> QED BY <1>8, <1>9, <1>11, <2>1
<1>14. \A i, k \in 1 .. Len(c2) : i < k => Precedes(P, c2[i], c2[k])
  <2> SUFFICES ASSUME NEW i \in 1 .. Len(c2), NEW k \in 1 .. Len(c2), i < k PROVE Precedes(P, c2[i], c2[k])
    OBVIOUS
  <2>1. i + 1 < k + 1
    BY <1>4
  <2> QED BY <1>8, <1>10, <2>1
<1>15. \A i \in 1 .. Len(g2), k \in 1 .. Len(c2) : Precedes(P, g2[i], c2[k])
  BY <1>8, <1>9, <1>10, <1>11
<1> QED BY <1>7, <1>12, <1>13, <1>14, <1>15 DEF StreamFits

-----------------------------------------------------------------------------
\* The hub under each action.

\* A step of the workers or waiters that leaves the hub and the ids alone.
LEMMA HubUntouched ==
  ASSUME HubInv, UNCHANGED <<hubVars, event>>,
         \A j \in Jobs : worker'[j] = "publish" => worker[j] = "publish"
  PROVE  HubInv'
<1>1. UNCHANGED <<nextID, hub, pushed, stream>> /\ event' = event
  BY DEF hubVars
<1>2. HubTypeOK' /\ RingInv' /\ StreamsInv'
  BY <1>1 DEF HubInv, HubTypeOK, RingInv, StreamsInv
<1>3. IdsInv'
  BY <1>1 DEF HubInv, IdsInv
<1> QED BY <1>2, <1>3 DEF HubInv

\* Taking an event's id keeps the hub's invariant.
LEMMA PublishIDHub ==
  ASSUME HubInv, TypeOK, NEW j \in Jobs, PublishID(j)
  PROVE  HubInv'
<1>1. /\ nextID' = nextID + 1 /\ UNCHANGED <<hub, pushed, stream>> /\ nextID \in Nat
      /\ event' = [event EXCEPT ![j] = nextID + 1] /\ worker' = [worker EXCEPT ![j] = "publish"]
  BY DEF PublishID, HubInv, HubTypeOK
<1>2. event'[j] = nextID + 1 /\ \A k \in Jobs \ {j} : event'[k] = event[k] /\ worker'[k] = worker[k]
  BY <1>1 DEF TypeOK
<1>3. HubTypeOK' /\ RingInv' /\ StreamsInv'
  BY <1>1 DEF HubInv, HubTypeOK, RingInv, StreamsInv
<1>4. (\A p \in 1 .. Len(pushed) : pushed[p] \in 1 .. nextID' /\ pushed[p] # nextID + 1)
  BY <1>1 DEF HubInv, IdsInv
<1>5. \A k \in Jobs \ {j} : worker[k] = "publish" => event[k] \in 1 .. nextID' /\ event[k] # nextID + 1
  BY <1>1 DEF HubInv, IdsInv
<1>6. IdsInv'
  BY <1>1, <1>2, <1>4, <1>5 DEF HubInv, IdsInv
<1> QED BY <1>3, <1>6 DEF HubInv

\* Publishing (pushLocked and the sends under the hub's mutex) keeps the hub's invariant.
LEMMA PublishPushHub ==
  ASSUME HubInv, TypeOK, NEW j \in Jobs, PublishPush(j)
  PROVE  HubInv'
<1>1. PICK id, P : id = event[j] /\ P = pushed
  OBVIOUS
<1>2. /\ hub' = pushLocked(id) /\ pushed' = Append(pushed, id) /\ UNCHANGED <<nextID, event>>
      /\ worker[j] = "publish" /\ worker' = [worker EXCEPT ![j] = "write"]
      /\ stream' = [s \in Streams |-> IF stream[s].pc = "open" /\ Room(s)
                                      THEN [stream[s] EXCEPT !.chan = Append(stream[s].chan, id)] ELSE stream[s]]
  BY <1>1 DEF PublishPush, Publish
<1>3. id \in 1 .. nextID /\ id \in Nat /\ P \in Seq(Nat) /\ nextID \in Nat
      /\ \A p \in 1 .. Len(P) : P[p] # id
  BY <1>1, <1>2 DEF HubInv, IdsInv, HubTypeOK
<1>4. /\ RingInv' /\ pushed' \in Seq(Nat)
      /\ hub' \in [slots: [0 .. Capacity - 1 -> Nat], start: 0 .. Capacity - 1, size: 0 .. Capacity]
  BY <1>2, <1>3, PushRing DEF HubInv
<1>5. PICK Q : Q = Append(P, id)
  OBVIOUS
<1>6. /\ pushed' = Q /\ Len(Q) = Len(P) + 1 /\ Q[Len(P) + 1] = id /\ Len(P) \in Nat
      /\ \A p \in 1 .. Len(P) : Q[p] = P[p]
  BY <1>1, <1>2, <1>3, <1>5
<1>7. \A s \in Streams : stream'[s] \in Stream /\ StreamFits(stream'[s], Q)
  <2> SUFFICES ASSUME NEW s \in Streams PROVE stream'[s] \in Stream /\ StreamFits(stream'[s], Q)
    OBVIOUS
  <2>1. stream[s] \in Stream /\ StreamFits(stream[s], P)
    BY <1>1 DEF HubInv, HubTypeOK, StreamsInv
  <2>2. CASE stream[s].pc = "open" /\ Room(s)
    <3>1. PICK x, y : x = stream[s] /\ y = [x EXCEPT !.chan = Append(x.chan, id)]
      OBVIOUS
    <3>2. StreamFits(y, Q) /\ y \in Stream
      <4>1. x \in Stream /\ StreamFits(x, P) /\ x.pc = "open" /\ P \in Seq(Nat) /\ id \in Nat
        BY <1>3, <2>1, <2>2, <3>1
      <4> QED BY ONLY <1>5, <3>1, <4>1, FitsSend
    <3> QED BY <1>2, <2>2, <3>1, <3>2
  <2>3. CASE ~(stream[s].pc = "open" /\ Room(s))
    <3>1. stream'[s] = stream[s]
      BY <1>2, <2>3
    <3> QED BY <1>3, <1>5, <2>1, <3>1, FitsGrow
  <2> QED BY <2>2, <2>3
<1>8. StreamsInv' /\ stream' \in [Streams -> Stream]
  <2>1. stream' = [s \in Streams |-> stream'[s]]
    BY <1>2
  <2> QED BY <1>6, <1>7, <2>1 DEF StreamsInv
<1>9. IdsInv'
  <2>1. \A p \in 1 .. Len(Q) : (p \in 1 .. Len(P) /\ Q[p] = P[p]) \/ (p = Len(P) + 1 /\ Q[p] = id)
    BY <1>6
  <2>2. \A p \in 1 .. Len(P) : P[p] \in 1 .. nextID
    BY <1>1 DEF HubInv, IdsInv
  <2>3. \A p, q \in 1 .. Len(P) : P[p] = P[q] => p = q
    BY <1>1 DEF HubInv, IdsInv
  <2>4. \A p \in 1 .. Len(Q) : Q[p] \in 1 .. nextID
    BY <1>3, <2>1, <2>2
  <2>5. \A p, q \in 1 .. Len(Q) : Q[p] = Q[q] => p = q
    BY <1>3, <2>1, <2>3
  <2>6. ASSUME NEW k \in Jobs, worker'[k] = "publish"
        PROVE  /\ event[k] \in 1 .. nextID /\ \A p \in 1 .. Len(Q) : Q[p] # event[k]
               /\ \A l \in Jobs : worker'[l] = "publish" /\ event[l] = event[k] => l = k
    <3>1. k # j /\ worker[k] = "publish" /\ \A l \in Jobs : worker'[l] = "publish" => worker[l] = "publish"
      BY <1>2, <2>6 DEF TypeOK
    <3>2. /\ event[k] \in 1 .. nextID /\ \A p \in 1 .. Len(P) : P[p] # event[k]
          /\ \A l \in Jobs : worker[l] = "publish" /\ event[l] = event[k] => l = k
      BY <1>1, <3>1 DEF HubInv, IdsInv
    <3>3. event[k] # id
      BY <1>1, <1>2, <3>1, <3>2
    <3> QED BY <2>1, <3>1, <3>2, <3>3
  <2> QED BY <1>2, <1>6, <2>4, <2>5, <2>6 DEF IdsInv
<1>10. HubTypeOK'
  BY <1>2, <1>3, <1>4, <1>8 DEF HubTypeOK
<1> QED BY <1>4, <1>8, <1>9, <1>10 DEF HubInv

\* A client's step (snapshot, subscribe, receive, close) keeps the hub's invariant.
LEMMA ObserveHub ==
  ASSUME HubInv, NEW s \in Streams, Observe(s)
  PROVE  HubInv'
<1>1. PICK x, P : x = stream[s] /\ P = pushed
  OBVIOUS
<1>2. x \in Stream /\ StreamFits(x, P)
  BY <1>1 DEF HubInv, HubTypeOK, StreamsInv
<1>3. /\ UNCHANGED <<nextID, hub, pushed>> /\ UNCHANGED <<worker, event>>
      /\ \E y : stream' = [stream EXCEPT ![s] = y]
  BY DEF Observe, StreamStep, StreamSnapshot, StreamSubscribe, StreamReceive, StreamClose, treeVars
<1>4. \A y : y \in Stream /\ StreamFits(y, P) /\ stream' = [stream EXCEPT ![s] = y] => HubInv'
  <2> SUFFICES ASSUME NEW y \in Stream, StreamFits(y, P), stream' = [stream EXCEPT ![s] = y] PROVE HubInv'
    OBVIOUS
  <2>1. stream' \in [Streams -> Stream] /\ stream'[s] = y /\ \A t \in Streams \ {s} : stream'[t] = stream[t]
    BY DEF HubInv, HubTypeOK
  <2>2. HubTypeOK'
    BY <1>3, <2>1 DEF HubInv, HubTypeOK
  <2>3. StreamsInv'
    BY <1>1, <1>3, <2>1 DEF HubInv, StreamsInv
  <2>4. RingInv' /\ IdsInv'
    BY <1>3 DEF HubInv, RingInv, IdsInv
  <2> QED BY <2>2, <2>3, <2>4 DEF HubInv
<1>5. CASE StreamSnapshot(s)
  <2>1. PICK out \in SnapshotSince(x.last) : stream' = [stream EXCEPT ![s] = [x EXCEPT !.pc = "snapshot", !.got = out]]
    BY <1>1, <1>5 DEF StreamSnapshot
  <2>2. PICK y : y = [x EXCEPT !.pc = "snapshot", !.got = out]
    OBVIOUS
  <2>3. x.chan = <<>>
    BY <1>1, <1>2, <1>5 DEF StreamFits, StreamSnapshot
  <2>4. y.got = out /\ y.chan = <<>>
    BY <1>2, <2>2, <2>3 DEF Stream
  <2>5. StreamFits(y, P) /\ out \in Seq(Nat)
    BY <1>1, <1>2, <2>1, <2>4, StreamFields, SnapshotFits DEF HubInv
  <2>6. y \in Stream
    BY <1>2, <2>2, <2>5 DEF Stream
  <2> QED BY <1>4, <2>1, <2>2, <2>5, <2>6
<1>6. CASE StreamSubscribe(s)
  <2>1. PICK y : y = [x EXCEPT !.pc = "open", !.chan = <<>>]
    OBVIOUS
  <2>2. x.pc = "snapshot" /\ stream' = [stream EXCEPT ![s] = y]
    BY <1>1, <1>6, <2>1 DEF StreamSubscribe
  <2>3. y.got = x.got /\ y.chan = <<>> /\ y.pc = "open" /\ y \in Stream
    <3>1. \A c \in Seq(Nat) : LET z == [x EXCEPT !.pc = "open", !.chan = c]
                             IN z.got = x.got /\ z.chan = c /\ z.pc = "open" /\ z \in Stream
      BY <1>2 DEF Stream
    <3>2. <<>> \in Seq(Nat)
      OBVIOUS
    <3> QED BY <2>1, <3>1, <3>2
  <2>4. StreamFits(y, P)
    BY <1>2, <2>3 DEF StreamFits
  <2> QED BY <1>4, <2>2, <2>3, <2>4
<1>7. CASE StreamReceive(s)
  <2>1. PICK y : y = [x EXCEPT !.got = Append(x.got, Head(x.chan)), !.chan = Tail(x.chan)]
    OBVIOUS
  <2>2. x.pc = "open" /\ x.chan # <<>> /\ stream' = [stream EXCEPT ![s] = y]
    BY <1>1, <1>7, <2>1 DEF StreamReceive
  <2>3. StreamFits(y, P) /\ y \in Stream
    BY ONLY <1>2, <2>1, <2>2, ReceiveFits
  <2> QED BY <1>4, <2>2, <2>3
<1>8. CASE StreamClose(s)
  <2>1. PICK l : l = IF x.got = <<>> THEN x.last ELSE x.got[Len(x.got)]
    OBVIOUS
  <2>2. PICK y : y = [pc |-> "off", chan |-> <<>>, got |-> <<>>, last |-> l]
    OBVIOUS
  <2>3. stream' = [stream EXCEPT ![s] = y]
    BY <1>1, <1>8, <2>1, <2>2 DEF StreamClose
  <2>4. l \in Nat
    <3>1. x.got \in Seq(Nat) /\ x.last \in Nat
      BY <1>2, StreamFields
    <3> QED BY <2>1, <3>1
  <2>5. y \in Stream /\ y.got = <<>> /\ y.chan = <<>>
    BY <2>2, <2>4 DEF Stream
  <2> QED BY <1>4, <2>3, <2>5, FitsClosed
<1> QED BY <1>5, <1>6, <1>7, <1>8 DEF Observe, StreamStep

-----------------------------------------------------------------------------
\* The tree of a root.

\* The parent of a descendant is a descendant; no root lies below another.
LEMMA TreeFacts ==
  ASSUME NEW r \in Roots
  PROVE  /\ Descendants[r] \subseteq Jobs
         /\ \A j \in Descendants[r] : j # r => j \notin Roots /\ Parent[j] \in Descendants[r]
<1>1. Descendants[r] = {j \in Jobs : \A S \in SUBSET Jobs : Closed(S, r) => j \in S}
  BY DEF Descendants
<1>2. ASSUME NEW j \in Descendants[r], j # r, Parent[j] \notin Descendants[r] PROVE FALSE
  <2>1. j \in Jobs /\ r \in Jobs /\ Parent[j] \in Jobs \cup {NoJob} /\ NoJob \notin Jobs
    BY <1>1, TreeAssumption DEF Roots
  <2>2. PICK S \in SUBSET Jobs : Closed(S, r) /\ Parent[j] \notin S
    <3>1. CASE Parent[j] \in Jobs
      BY <1>1, <1>2, <3>1
    <3>2. CASE Parent[j] = NoJob
      <4>1. Jobs \in SUBSET Jobs /\ Closed(Jobs, r) /\ NoJob \notin Jobs
        BY <2>1 DEF Closed
      <4> QED BY <3>2, <4>1
    <3> QED BY <2>1, <3>1, <3>2
  <2>3. S \ {j} \in SUBSET Jobs /\ Closed(S \ {j}, r)
    BY <1>2, <2>2 DEF Closed
  <2>4. j \in S \ {j}
    BY <1>1, <2>3
  <2> QED BY <2>4
<1>3. ASSUME NEW j \in Descendants[r], Parent[j] \in Descendants[r] PROVE j \notin Roots
  BY <1>1, <1>3, TreeAssumption DEF Roots
<1> QED BY <1>1, <1>2, <1>3

\* What a step may do to the rows: none vanishes, a job that is done stays so unless
\* it was cancelled, and a row appears for a request or below a job that executes.
StatusMoves ==
    /\ bounded.cancelled \subseteq bounded'.cancelled
    /\ \A j \in Jobs :
         /\ status[j] # "absent" => status'[j] # "absent"
         /\ status[j] = "done" /\ j \notin bounded.cancelled => status'[j] = "done"
         /\ status[j] = "absent" /\ status'[j] # "absent" =>
              IF j \in Roots THEN wait[j].pc = "none" ELSE worker[Parent[j]] = "exec"

\* An answer that was given stays the whole tree.
LEMMA AnswerStays ==
  ASSUME TypeOK, WorkersInv, WholeTree, StatusMoves, NEW r \in Roots,
         wait[r].pc = "returned", wait'[r] = wait[r], Undisturbed(r)'
  PROVE  /\ wait'[r].tree = GetJobTree(r)'
         /\ \A j \in wait'[r].tree : status'[j] = "done"
<1>1. /\ Descendants[r] \subseteq Jobs
      /\ \A j \in Descendants[r] : j # r => j \notin Roots /\ Parent[j] \in Descendants[r]
  BY TreeFacts
<1>2. PICK D, T, T2 : D = Descendants[r] /\ T = GetJobTree(r) /\ T2 = GetJobTree(r)'
  OBVIOUS
<1>3. /\ T = {j \in D : status[j] # "absent"} /\ T2 = {j \in D : status'[j] # "absent"}
      /\ T2 \cap bounded'.cancelled = {}
  BY <1>2 DEF GetJobTree, Undisturbed
<1>4. T \subseteq T2 /\ T \cap bounded.cancelled = {}
  BY <1>1, <1>2, <1>3 DEF StatusMoves
<1>5. wait[r].tree = T /\ \A j \in T : status[j] = "done"
  BY <1>2, <1>4 DEF WholeTree, Undisturbed, jobTreeComplete
<1>6. T2 \subseteq T
  <2> SUFFICES ASSUME NEW j \in T2, status[j] = "absent" PROVE FALSE
    BY <1>3
  <2>1. j \in D /\ j \in Jobs /\ status'[j] # "absent"
    BY <1>1, <1>2, <1>3
  <2>2. CASE j = r
    BY <2>1, <2>2 DEF StatusMoves
  <2>3. CASE j # r
    <3>1. j \notin Roots /\ Parent[j] \in D /\ Parent[j] \in Jobs
      BY <1>1, <1>2, <2>1, <2>3
    <3>2. worker[Parent[j]] = "exec"
      BY <2>1, <3>1 DEF StatusMoves
    <3>3. status[Parent[j]] # "absent" /\ (status[Parent[j]] = "running" \/ Parent[j] \in bounded.cancelled)
      BY <3>1, <3>2 DEF WorkersInv
    <3>4. Parent[j] \in T
      BY <1>3, <3>1, <3>3
    <3> QED BY <1>4, <1>5, <3>3, <3>4
  <2> QED BY <2>2, <2>3
<1>7. \A j \in T : status'[j] = "done"
  BY <1>1, <1>2, <1>3, <1>4, <1>5 DEF StatusMoves
<1>8. wait'[r].tree = T /\ T2 = T
  BY <1>4, <1>5, <1>6
<1> QED BY <1>2, <1>7, <1>8

\* Answers given stay whole when jobs only move on.
LEMMA AllAnswersStay ==
  ASSUME TypeOK, WorkersInv, WholeTree, StatusMoves,
         \A r \in Roots : wait'[r].pc = "returned" => wait'[r] = wait[r]
  PROVE  WholeTree'
<1> SUFFICES ASSUME NEW r \in Roots, wait'[r].pc = "returned", Undisturbed(r)'
             PROVE  wait'[r].tree = GetJobTree(r)' /\ \A j \in wait'[r].tree : status'[j] = "done"
  BY DEF WholeTree, jobTreeComplete
<1> QED BY AnswerStays

\* Slots when nobody begins or ends to wait.
LEMMA SlotsStay ==
  ASSUME SlotsBalance, sem' = sem, \A r \in Roots : Waiting(r)' <=> Waiting(r),
         \A r \in Roots : completions'[r] # "none" => completions[r] # "none" \/ Waiting(r)
  PROVE  SlotsBalance'
<1>1. {r \in Roots : Waiting(r)'} = {r \in Roots : Waiting(r)}
  OBVIOUS
<1> QED BY <1>1 DEF SlotsBalance

\* The requests that wait can be counted.
LEMMA FiniteWaiters ==
  LET W == {r \in Roots : Waiting(r)} IN IsFiniteSet(W) /\ Cardinality(W) \in Nat
<1>1. {r \in Roots : Waiting(r)} \subseteq Jobs /\ IsFiniteSet(Jobs)
  BY TreeAssumption DEF Roots
<1> QED BY <1>1, FS_Subset, FS_CardinalityType

\* A root is a job.
LEMMA RootsAreJobs == Roots \subseteq Jobs
BY DEF Roots

\* The parts of the type invariant that the proofs below cite.
LEMMA TypeFacts ==
  ASSUME TypeOK
  PROVE  /\ HubTypeOK /\ scene \in Scenarios
         /\ status \in [Jobs -> {"absent", "queued", "running", "done"}]
         /\ worker \in [Jobs -> {"none", "exec", "publish", "write", "notify"}]
         /\ event \in [Jobs -> Nat]
         /\ completions \in [Roots -> {"none", "empty", "full"}]
         /\ wait \in [Roots -> Waiter] /\ sem \in Nat /\ sem <= MaxSync /\ MaxSync \in Nat
         /\ bounded \in [count: Nat, cancelled: SUBSET Jobs]
BY TreeAssumption DEF TypeOK

\* Worker steps, which touch no waiter but through its channel.
LEMMA WorkerStepsTree ==
  ASSUME TreeInv, HubTypeOK', UNCHANGED <<scene, wait, sem>>,
         status' \in [Jobs -> {"absent", "queued", "running", "done"}],
         worker' \in [Jobs -> {"none", "exec", "publish", "write", "notify"}],
         event' \in [Jobs -> Nat], completions' \in [Roots -> {"none", "empty", "full"}],
         bounded' \in [count: Nat, cancelled: SUBSET Jobs], StatusMoves, WorkersInv',
         \A r \in Roots : completions'[r] # "none" => completions[r] # "none"
  PROVE  TreeInv'
<1>1. TypeOK'
  BY DEF TreeInv, TypeOK
<1>2. WholeTree'
  BY AllAnswersStay DEF TreeInv
<1>3. SlotsBalance'
  <2>1. \A r \in Roots : Waiting(r)' <=> Waiting(r)
    BY DEF Waiting
  <2> QED BY <2>1, SlotsStay DEF TreeInv
<1> QED BY <1>1, <1>2, <1>3 DEF TreeInv

\* The steps of a worker.
LEMMA WorkerTree ==
  ASSUME TreeInv, HubInv', NEW j \in Jobs, WorkerStep(j) \/ Retry(j) \/ CancelOutstanding(j)
  PROVE  TreeInv'
<1>0. TypeOK /\ WorkersInv /\ HubTypeOK'
  BY DEF TreeInv, HubInv
<1>1. /\ status \in [Jobs -> {"absent", "queued", "running", "done"}]
      /\ worker \in [Jobs -> {"none", "exec", "publish", "write", "notify"}]
      /\ event \in [Jobs -> Nat] /\ completions \in [Roots -> {"none", "empty", "full"}]
      /\ bounded \in [count: Nat, cancelled: SUBSET Jobs]
  BY <1>0, TypeFacts
<1>2. UNCHANGED <<scene, wait, sem>>
  BY DEF WorkerStep, Claim, PublishID, CompleteSkipped, PublishPush, CompleteWithResult, notifyCompletion,
         Retry, CancelOutstanding
<1>3. /\ \A k \in Jobs : worker[k] \in {"exec", "publish", "write"} => status[k] = "running" \/ k \in bounded.cancelled
      /\ \A k \in Jobs : worker[k] # "none" \/ k \in bounded.cancelled => status[k] # "absent"
      /\ \A r \in Roots : wait[r].pc = "none" => status[r] = "absent"
  BY <1>0 DEF WorkersInv
<1>4. \A s : s \in [Jobs -> {"absent", "queued", "running", "done"}] /\ s[j] # "absent"
             /\ (\A k \in Jobs \ {j} : s[k] = status[k]) /\ status[j] # "absent"
             /\ status' = s /\ bounded.cancelled \subseteq bounded'.cancelled
             /\ (status[j] = "done" /\ j \notin bounded.cancelled => s[j] = "done")
             => StatusMoves
  BY DEF StatusMoves
<1>5. CASE Claim(j)
  <2>1. /\ status[j] = "queued" /\ status' = [status EXCEPT ![j] = "running"] /\ worker' = [worker EXCEPT ![j] = "exec"]
        /\ UNCHANGED <<event, completions, bounded>>
    BY <1>5 DEF Claim
  <2>2. status'[j] = "running" /\ (\A k \in Jobs \ {j} : status'[k] = status[k] /\ worker'[k] = worker[k])
    BY <1>1, <2>1
  <2>3. StatusMoves
    BY <1>1, <1>4, <2>1, <2>2
  <2>4. WorkersInv'
    BY <1>2, <1>3, <2>1, <2>2, RootsAreJobs DEF WorkersInv
  <2> QED BY <1>0, <1>1, <1>2, <2>1, <2>3, <2>4, WorkerStepsTree
<1>6. CASE PublishID(j) \/ CompleteSkipped(j) \/ PublishPush(j)
  <2>1. /\ UNCHANGED <<status, completions, bounded>> /\ worker[j] \in {"exec", "publish"}
        /\ \E w \in {"publish", "write"} : worker' = [worker EXCEPT ![j] = w]
    BY <1>6 DEF PublishID, CompleteSkipped, PublishPush
  <2>2. worker' \in [Jobs -> {"none", "exec", "publish", "write", "notify"}]
        /\ worker'[j] \in {"publish", "write"} /\ (\A k \in Jobs \ {j} : worker'[k] = worker[k])
    BY <1>1, <2>1
  <2>3. event' \in [Jobs -> Nat]
    BY <1>0, <1>1, <1>6 DEF PublishID, CompleteSkipped, PublishPush, HubTypeOK, TypeOK
  <2>4. StatusMoves
    BY <2>1 DEF StatusMoves
  <2>5. WorkersInv'
    BY <1>2, <1>3, <2>1, <2>2 DEF WorkersInv
  <2> QED BY <1>0, <1>1, <1>2, <2>1, <2>2, <2>3, <2>4, <2>5, WorkerStepsTree
<1>7. CASE CompleteWithResult(j)
  <2>1. /\ worker[j] = "write" /\ worker' = [worker EXCEPT ![j] = "notify"]
        /\ UNCHANGED <<event, completions>>
        /\ \/ status' = [status EXCEPT ![j] = "done"] /\ bounded' = bounded
           \/ status' = status /\ bounded' = [bounded EXCEPT !.count = @ + 1]
    BY <1>7 DEF CompleteWithResult
  <2>2. /\ bounded' \in [count: Nat, cancelled: SUBSET Jobs] /\ bounded'.cancelled = bounded.cancelled
        /\ status' \in [Jobs -> {"absent", "queued", "running", "done"}] /\ status'[j] \in {"done", status[j]}
        /\ (\A k \in Jobs \ {j} : status'[k] = status[k] /\ worker'[k] = worker[k]) /\ worker'[j] = "notify"
    BY <1>1, <2>1
  <2>3. status[j] # "absent"
    BY <1>3, <2>1
  <2>4. StatusMoves
    BY <1>4, <2>2, <2>3
  <2>5. WorkersInv'
    BY <1>2, <1>3, <2>2, <2>3, RootsAreJobs DEF WorkersInv
  <2>6. worker' \in [Jobs -> {"none", "exec", "publish", "write", "notify"}]
    BY <1>1, <2>1
  <2> QED BY <1>0, <1>1, <1>2, <2>1, <2>2, <2>4, <2>5, <2>6, WorkerStepsTree
<1>8. CASE notifyCompletion(j)
  <2>1. /\ completions' = [r \in Roots |-> IF completions[r] = "none" THEN "none" ELSE "full"]
        /\ worker' = [worker EXCEPT ![j] = "none"] /\ UNCHANGED <<status, event, bounded>>
    BY <1>8 DEF notifyCompletion
  <2>2. /\ completions' \in [Roots -> {"none", "empty", "full"}]
        /\ \A r \in Roots : completions'[r] # "none" => completions[r] # "none"
        /\ worker' \in [Jobs -> {"none", "exec", "publish", "write", "notify"}]
        /\ worker'[j] = "none" /\ (\A k \in Jobs \ {j} : worker'[k] = worker[k])
    BY <1>1, <2>1
  <2>3. StatusMoves
    BY <2>1 DEF StatusMoves
  <2>4. WorkersInv'
    BY <1>2, <1>3, <2>1, <2>2 DEF WorkersInv
  <2> QED BY <1>0, <1>1, <1>2, <2>1, <2>2, <2>3, <2>4, WorkerStepsTree
<1>9. CASE Retry(j)
  <2>1. /\ worker[j] = "exec" /\ bounded' = [bounded EXCEPT !.count = @ + 1]
        /\ status' = [status EXCEPT ![j] = "queued"] /\ worker' = [worker EXCEPT ![j] = "none"]
        /\ UNCHANGED <<event, completions>>
    BY <1>9 DEF Retry
  <2>2. /\ bounded' \in [count: Nat, cancelled: SUBSET Jobs] /\ bounded'.cancelled = bounded.cancelled
        /\ status' \in [Jobs -> {"absent", "queued", "running", "done"}] /\ status'[j] = "queued"
        /\ (\A k \in Jobs \ {j} : status'[k] = status[k] /\ worker'[k] = worker[k]) /\ worker'[j] = "none"
    BY <1>1, <2>1
  <2>3. status[j] # "absent" /\ (status[j] = "running" \/ j \in bounded.cancelled)
    BY <1>3, <2>1
  <2>4. StatusMoves
    BY <1>4, <2>2, <2>3
  <2>5. WorkersInv'
    BY <1>2, <1>3, <2>2, <2>3, RootsAreJobs DEF WorkersInv
  <2>6. worker' \in [Jobs -> {"none", "exec", "publish", "write", "notify"}]
    BY <1>1, <2>1
  <2> QED BY <1>0, <1>1, <1>2, <2>1, <2>2, <2>4, <2>5, <2>6, WorkerStepsTree
<1>10. CASE CancelOutstanding(j)
  <2>1. /\ status[j] \in {"queued", "running"} /\ status' = [status EXCEPT ![j] = "done"]
        /\ bounded' = [count |-> bounded.count + 1, cancelled |-> bounded.cancelled \cup {j}]
        /\ UNCHANGED <<worker, event, completions>>
    BY <1>10 DEF CancelOutstanding
  <2>2. /\ bounded' \in [count: Nat, cancelled: SUBSET Jobs] /\ bounded'.cancelled = bounded.cancelled \cup {j}
        /\ status' \in [Jobs -> {"absent", "queued", "running", "done"}] /\ status'[j] = "done"
        /\ (\A k \in Jobs \ {j} : status'[k] = status[k])
    BY <1>1, <2>1
  <2>3. StatusMoves
    BY <1>4, <2>1, <2>2
  <2>4. WorkersInv'
    BY <1>2, <1>3, <2>1, <2>2, RootsAreJobs DEF WorkersInv
  <2> QED BY <1>0, <1>1, <1>2, <2>1, <2>2, <2>3, <2>4, WorkerStepsTree
<1> QED BY <1>5, <1>6, <1>7, <1>8, <1>9, <1>10 DEF WorkerStep

\* A child joins the tree of a job that still runs, so no complete tree grows.
LEMMA RouteChildTree ==
  ASSUME TreeInv, HubInv', NEW j \in Jobs, j \notin Roots, RouteChild(j)
  PROVE  TreeInv'
<1>0. TypeOK /\ WorkersInv /\ HubTypeOK'
  BY DEF TreeInv, HubInv
<1>1. /\ status \in [Jobs -> {"absent", "queued", "running", "done"}]
      /\ worker \in [Jobs -> {"none", "exec", "publish", "write", "notify"}]
      /\ event \in [Jobs -> Nat] /\ completions \in [Roots -> {"none", "empty", "full"}]
      /\ bounded \in [count: Nat, cancelled: SUBSET Jobs]
  BY <1>0, TypeFacts
<1>2. /\ worker[Parent[j]] = "exec" /\ status[j] = "absent" /\ status' = [status EXCEPT ![j] = "queued"]
      /\ UNCHANGED <<scene, worker, event, completions, wait, sem, bounded>>
  BY DEF RouteChild
<1>3. status'[j] = "queued" /\ (\A k \in Jobs \ {j} : status'[k] = status[k])
      /\ status' \in [Jobs -> {"absent", "queued", "running", "done"}]
  BY <1>1, <1>2
<1>4. StatusMoves
  BY <1>2, <1>3 DEF StatusMoves
<1>5. WorkersInv'
  BY <1>0, <1>2, <1>3, RootsAreJobs DEF WorkersInv
<1> QED BY <1>0, <1>1, <1>2, <1>3, <1>4, <1>5, WorkerStepsTree

\* A step of a waiter, which touches no row.
LEMMA WaiterStepsTree ==
  ASSUME TreeInv, HubTypeOK', UNCHANGED <<scene, status, worker, event>>,
         NEW r \in Roots, NEW w \in Waiter, wait' = [wait EXCEPT ![r] = w], w.pc # "none",
         w.pc = "returned" => w.tree = GetJobTree(r) /\ jobTreeComplete(GetJobTree(r)),
         bounded' \in [count: Nat, cancelled: SUBSET Jobs], bounded'.cancelled = bounded.cancelled,
         completions' \in [Roots -> {"none", "empty", "full"}], sem' \in 0 .. MaxSync, SlotsBalance'
  PROVE  TreeInv'
<1>0. TypeOK /\ WorkersInv /\ WholeTree /\ wait \in [Roots -> Waiter]
  BY TypeFacts DEF TreeInv
<1>1. wait' \in [Roots -> Waiter] /\ wait'[r] = w /\ \A q \in Roots \ {r} : wait'[q] = wait[q]
  BY <1>0
<1>2. TypeOK'
  BY <1>0, <1>1 DEF TypeOK
<1>3. WorkersInv'
  BY <1>0, <1>1 DEF WorkersInv
<1>4. StatusMoves
  BY DEF StatusMoves
<1>5. WholeTree'
  <2> SUFFICES ASSUME NEW q \in Roots, wait'[q].pc = "returned", Undisturbed(q)'
               PROVE  wait'[q].tree = GetJobTree(q)' /\ \A j \in wait'[q].tree : status'[j] = "done"
    BY DEF WholeTree, jobTreeComplete
  <2>1. CASE q = r
    <3>1. GetJobTree(r)' = GetJobTree(r) /\ w.tree = GetJobTree(r) /\ jobTreeComplete(GetJobTree(r))
      BY <1>1, <2>1 DEF GetJobTree
    <3> QED BY <1>1, <2>1, <3>1 DEF jobTreeComplete
  <2>2. CASE q # r
    BY <1>0, <1>1, <1>4, <2>2, AnswerStays
  <2> QED BY <2>1, <2>2
<1> QED BY <1>2, <1>3, <1>5 DEF TreeInv

\* The parts of a waiter and their types.
LEMMA WaiterFields ==
  ASSUME TypeOK, NEW r \in Roots
  PROVE  /\ wait[r] = [pc |-> wait[r].pc, tree |-> wait[r].tree] /\ wait[r].tree \subseteq Jobs
         /\ \A p \in {"none", "enqueued", "register", "read", "confirm", "wait", "returned", "timeout",
                      "failed", "rejected", "accepted"}, t \in SUBSET Jobs : [pc |-> p, tree |-> t] \in Waiter
         /\ \A p : [wait EXCEPT ![r].pc = p] = [wait EXCEPT ![r] = [pc |-> p, tree |-> wait[r].tree]]
<1>1. wait[r] \in Waiter /\ wait \in [Roots -> Waiter]
  BY TypeFacts
<1>2. wait[r] = [pc |-> wait[r].pc, tree |-> wait[r].tree] /\ wait[r].tree \subseteq Jobs
  BY <1>1 DEF Waiter
<1>3. \A p : [wait[r] EXCEPT !.pc = p] = [pc |-> p, tree |-> wait[r].tree]
  BY <1>2
<1> QED BY <1>2, <1>3 DEF Waiter

\* A step of a waiter that goes on waiting.
LEMMA StillWaiting ==
  ASSUME TreeInv, HubTypeOK', UNCHANGED <<scene, status, worker, event, sem, bounded>>,
         NEW r \in Roots, Waiting(r), NEW p \in {"read", "confirm", "wait"}, NEW t \in SUBSET Jobs,
         wait' = [wait EXCEPT ![r] = [pc |-> p, tree |-> t]],
         completions' \in [Roots -> {"none", "empty", "full"}],
         \A q \in Roots : completions'[q] # "none" => completions[q] # "none" \/ q = r
  PROVE  TreeInv'
<1>0. TypeOK /\ SlotsBalance
  BY DEF TreeInv
<1>1. PICK w : w = [pc |-> p, tree |-> t]
  OBVIOUS
<1>2. w \in Waiter /\ w.pc = p
  BY <1>0, <1>1, WaiterFields
<1>3. wait' = [wait EXCEPT ![r] = w] /\ wait \in [Roots -> Waiter]
  BY <1>0, <1>1, TypeFacts
<1>4. \A q \in Roots : Waiting(q)' <=> Waiting(q)
  BY <1>2, <1>3 DEF Waiting
<1>5. SlotsBalance'
  BY <1>0, <1>4, SlotsStay
<1>6. sem' \in 0 .. MaxSync /\ bounded' \in [count: Nat, cancelled: SUBSET Jobs] /\ bounded'.cancelled = bounded.cancelled
  BY <1>0 DEF TypeOK
<1> QED BY <1>2, <1>3, <1>5, <1>6, WaiterStepsTree

\* The end of a wait.
LEMMA LeaveTree ==
  ASSUME TreeInv, HubTypeOK', UNCHANGED <<scene, status, worker, event>>,
         NEW r \in Roots, Waiting(r), NEW p \in {"returned", "timeout", "failed"}, NEW t \in SUBSET Jobs,
         Leave(r, p, t), p = "returned" => t = GetJobTree(r) /\ jobTreeComplete(GetJobTree(r)),
         bounded' \in [count: Nat, cancelled: SUBSET Jobs], bounded'.cancelled = bounded.cancelled
  PROVE  TreeInv'
<1>0. TypeOK /\ SlotsBalance
  BY DEF TreeInv
<1>1. PICK w : w = [pc |-> p, tree |-> t]
  OBVIOUS
<1>2. w \in Waiter /\ w.pc = p /\ w.tree = t
  BY <1>0, <1>1, WaiterFields
<1>3. /\ wait' = [wait EXCEPT ![r] = w] /\ wait \in [Roots -> Waiter] /\ sem' = sem - 1
      /\ completions' = [completions EXCEPT ![r] = "none"]
      /\ completions \in [Roots -> {"none", "empty", "full"}]
      /\ sem \in Nat /\ sem <= MaxSync /\ MaxSync \in Nat
  BY <1>0, <1>1, TypeFacts DEF Leave
<1>4. PICK W : W = {q \in Roots : Waiting(q)}
  OBVIOUS
<1>5. {q \in Roots : Waiting(q)'} = W \ {r} /\ r \in W
  BY <1>2, <1>3, <1>4 DEF Waiting
<1>6. IsFiniteSet(W) /\ Cardinality(W) \in Nat /\ Cardinality(W) = sem
  BY <1>0, <1>4, FiniteWaiters DEF SlotsBalance
<1>7. Cardinality(W \ {r}) = Cardinality(W) - 1 /\ IsFiniteSet(W \ {r})
  BY <1>5, <1>6, FS_RemoveElement
<1>8. Cardinality(W \ {r}) \in Nat
  BY <1>7, FS_CardinalityType
<1>9. sem' \in 0 .. MaxSync /\ sem' = Cardinality(W \ {r})
  BY <1>3, <1>6, <1>7, <1>8
<1>10. SlotsBalance'
  <2>1. \A q \in Roots : completions'[q] # "none" => Waiting(q)'
    BY <1>0, <1>3 DEF SlotsBalance, Waiting
  <2> QED BY <1>5, <1>9, <2>1 DEF SlotsBalance
<1>11. completions' \in [Roots -> {"none", "empty", "full"}]
  BY <1>3
<1> QED BY <1>2, <1>3, <1>9, <1>10, <1>11, WaiterStepsTree

\* A tree that is read consists of jobs.
LEMMA TreeOfJobs == ASSUME NEW r \in Roots PROVE GetJobTree(r) \in SUBSET Jobs
BY TreeFacts DEF GetJobTree

\* Taking a slot, or being refused one, keeps slots and waiters in balance.
LEMMA AcquireTree ==
  ASSUME TreeInv, HubInv', NEW r \in Roots, AcquireSlot(r)
  PROVE  TreeInv'
<1>0. TypeOK /\ SlotsBalance /\ HubTypeOK'
  BY DEF TreeInv, HubInv
<1>1. /\ wait[r].pc = "enqueued" /\ UNCHANGED <<scene, status, worker, event, completions, bounded>>
      /\ \/ sem < MaxSync /\ sem' = sem + 1 /\ wait' = [wait EXCEPT ![r].pc = "register"]
         \/ sem' = sem /\ wait' = [wait EXCEPT ![r].pc = "rejected"]
  BY DEF AcquireSlot
<1>2. PICK p \in {"register", "rejected"} :
        /\ wait' = [wait EXCEPT ![r] = [pc |-> p, tree |-> wait[r].tree]]
        /\ p = "register" => sem < MaxSync /\ sem' = sem + 1
        /\ p = "rejected" => sem' = sem
  BY <1>0, <1>1, WaiterFields
<1>3. PICK w : w = [pc |-> p, tree |-> wait[r].tree]
  OBVIOUS
<1>4. w \in Waiter /\ w.pc = p
  BY <1>0, <1>3, WaiterFields
<1>5. /\ wait' = [wait EXCEPT ![r] = w] /\ wait \in [Roots -> Waiter] /\ sem \in Nat /\ sem <= MaxSync /\ MaxSync \in Nat
      /\ completions \in [Roots -> {"none", "empty", "full"}] /\ bounded \in [count: Nat, cancelled: SUBSET Jobs]
  BY <1>0, <1>2, <1>3, TypeFacts
<1>6. sem' \in 0 .. MaxSync
  BY <1>2, <1>5
<1>7. SlotsBalance'
  <2>1. CASE p = "rejected"
    <3>1. \A q \in Roots : Waiting(q)' <=> Waiting(q)
      BY <1>1, <1>4, <1>5, <2>1 DEF Waiting
    <3> QED BY <1>0, <1>1, <1>2, <2>1, <3>1, SlotsStay
  <2>2. CASE p = "register"
    <3>1. PICK W : W = {q \in Roots : Waiting(q)}
      OBVIOUS
    <3>2. {q \in Roots : Waiting(q)'} = W \cup {r} /\ r \notin W
      BY <1>1, <1>4, <1>5, <2>2, <3>1 DEF Waiting
    <3>3. IsFiniteSet(W) /\ Cardinality(W) = sem
      BY <1>0, <3>1, FiniteWaiters DEF SlotsBalance
    <3>4. Cardinality(W \cup {r}) = Cardinality(W) + 1
      BY <3>2, <3>3, FS_AddElement
    <3>5. \A q \in Roots : completions'[q] # "none" => Waiting(q)'
      BY <1>0, <1>1, <1>4, <1>5, <2>2 DEF SlotsBalance, Waiting
    <3> QED BY <1>2, <2>2, <3>2, <3>3, <3>4, <3>5 DEF SlotsBalance
  <2> QED BY <2>1, <2>2
<1> QED BY <1>0, <1>1, <1>4, <1>5, <1>6, <1>7, WaiterStepsTree

\* The steps of a synchronous request after its slot.
LEMMA WaiterTree ==
  ASSUME TreeInv, HubInv', NEW r \in Roots, WaiterStep(r) \/ WaitTimesOut(r) \/ WaitFails(r)
  PROVE  TreeInv'
<1>0. TypeOK /\ HubTypeOK' /\ wait \in [Roots -> Waiter] /\ completions \in [Roots -> {"none", "empty", "full"}]
      /\ bounded \in [count: Nat, cancelled: SUBSET Jobs] /\ wait[r].tree \in SUBSET Jobs
  BY TypeFacts, WaiterFields DEF TreeInv, HubInv
<1>1. PICK T : T = GetJobTree(r)
  OBVIOUS
<1>2. T \in SUBSET Jobs
  BY <1>1, TreeOfJobs
<1>3. CASE AcquireSlot(r)
  BY <1>3, AcquireTree
<1>4. CASE RegisterWaiter(r)
  <2>1. /\ wait[r].pc = "register" /\ completions' = [completions EXCEPT ![r] = "empty"]
        /\ wait' = [wait EXCEPT ![r] = [pc |-> "read", tree |-> wait[r].tree]]
        /\ UNCHANGED <<scene, status, worker, event, sem, bounded>>
    BY <1>0, <1>4, WaiterFields DEF RegisterWaiter
  <2>2. /\ completions' \in [Roots -> {"none", "empty", "full"}]
        /\ \A q \in Roots : completions'[q] # "none" => completions[q] # "none" \/ q = r
    BY <1>0, <2>1
  <2>3. Waiting(r)
    BY <2>1 DEF Waiting
  <2> QED BY <1>0, <2>1, <2>2, <2>3, StillWaiting
<1>5. CASE ReadTree(r)
  <2>1. PICK p \in {"confirm", "wait"} :
          /\ wait[r].pc = "read" /\ wait' = [wait EXCEPT ![r] = [pc |-> p, tree |-> T]]
          /\ UNCHANGED <<scene, status, worker, event, completions, sem, bounded>>
    BY <1>1, <1>5 DEF ReadTree
  <2>2. Waiting(r)
    BY <2>1 DEF Waiting
  <2> QED BY <1>0, <1>2, <2>1, <2>2, StillWaiting
<1>6. CASE ConfirmTree(r)
  <2>1. /\ wait[r].pc = "confirm" /\ UNCHANGED <<scene, status, worker, event, bounded>>
        /\ \/ jobTreeComplete(T) /\ Leave(r, "returned", T)
           \/ /\ wait' = [wait EXCEPT ![r] = [pc |-> "wait", tree |-> T]] /\ UNCHANGED <<completions, sem>>
    BY <1>1, <1>6 DEF ConfirmTree
  <2>2. Waiting(r)
    BY <2>1 DEF Waiting
  <2>3. CASE jobTreeComplete(T) /\ Leave(r, "returned", T)
    <3>1. bounded' \in [count: Nat, cancelled: SUBSET Jobs] /\ bounded'.cancelled = bounded.cancelled
      BY <1>0, <2>1
    <3> QED BY <1>0, <1>1, <1>2, <2>1, <2>2, <2>3, <3>1, LeaveTree
  <2>4. CASE wait' = [wait EXCEPT ![r] = [pc |-> "wait", tree |-> T]] /\ UNCHANGED <<completions, sem>>
    BY <1>0, <1>2, <2>1, <2>2, <2>4, StillWaiting
  <2> QED BY <2>1, <2>3, <2>4
<1>7. CASE Woken(r)
  <2>1. /\ wait[r].pc = "wait" /\ completions' = [completions EXCEPT ![r] = "empty"]
        /\ wait' = [wait EXCEPT ![r] = [pc |-> "read", tree |-> wait[r].tree]]
        /\ UNCHANGED <<scene, status, worker, event, sem, bounded>>
    BY <1>0, <1>7, WaiterFields DEF Woken
  <2>2. /\ completions' \in [Roots -> {"none", "empty", "full"}]
        /\ \A q \in Roots : completions'[q] # "none" => completions[q] # "none" \/ q = r
    BY <1>0, <2>1
  <2>3. Waiting(r)
    BY <2>1 DEF Waiting
  <2> QED BY <1>0, <2>1, <2>2, <2>3, StillWaiting
<1>8. CASE WaitTimesOut(r) \/ WaitFails(r)
  <2>1. PICK t : t = wait[r].tree
    OBVIOUS
  <2>2. PICK p \in {"timeout", "failed"} :
          /\ wait[r].pc \in {"read", "confirm", "wait"} /\ Leave(r, p, t)
          /\ UNCHANGED <<scene, status, worker, event>>
          /\ bounded' = bounded \/ bounded' = [bounded EXCEPT !.count = @ + 1]
    BY <1>8, <2>1 DEF WaitTimesOut, WaitFails
  <2>3. Waiting(r) /\ t \in SUBSET Jobs
    BY <1>0, <2>1, <2>2 DEF Waiting
  <2>4. bounded' \in [count: Nat, cancelled: SUBSET Jobs] /\ bounded'.cancelled = bounded.cancelled
    BY <1>0, <2>2
  <2> QED BY <1>0, <2>2, <2>3, <2>4, LeaveTree
<1> QED BY <1>3, <1>4, <1>5, <1>6, <1>7, <1>8 DEF WaiterStep

\* A request: its job is the first row of a tree that no answer shows yet.
LEMMA TriggerTree ==
  ASSUME TreeInv, HubInv', NEW r \in Roots, TriggerPipeline(r)
  PROVE  TreeInv'
<1>0. TypeOK /\ WorkersInv /\ WholeTree /\ SlotsBalance /\ HubTypeOK'
  BY DEF TreeInv, HubInv
<1>1. /\ status \in [Jobs -> {"absent", "queued", "running", "done"}]
      /\ wait \in [Roots -> Waiter] /\ r \in Jobs
  BY <1>0, TypeFacts, RootsAreJobs
<1>2. PICK p \in {"accepted", "enqueued"} :
        /\ wait[r].pc = "none" /\ status' = [status EXCEPT ![r] = "queued"]
        /\ wait' = [wait EXCEPT ![r] = [pc |-> p, tree |-> wait[r].tree]]
        /\ UNCHANGED <<scene, worker, event, completions, sem, bounded>>
  BY <1>0, WaiterFields DEF TriggerPipeline
<1>3. PICK w : w = [pc |-> p, tree |-> wait[r].tree]
  OBVIOUS
<1>4. w \in Waiter /\ w.pc = p
  BY <1>0, <1>3, WaiterFields
<1>5. /\ wait' \in [Roots -> Waiter] /\ wait'[r] = w /\ (\A q \in Roots \ {r} : wait'[q] = wait[q])
      /\ status' \in [Jobs -> {"absent", "queued", "running", "done"}]
      /\ status'[r] = "queued" /\ (\A k \in Jobs \ {r} : status'[k] = status[k])
  BY <1>1, <1>2, <1>3, <1>4
<1>6. status[r] = "absent"
  BY <1>0, <1>2 DEF WorkersInv
<1>7. StatusMoves
  BY <1>2, <1>5, <1>6 DEF StatusMoves
<1>8. WorkersInv'
  BY <1>0, <1>2, <1>4, <1>5, <1>6, RootsAreJobs DEF WorkersInv
<1>9. WholeTree'
  BY <1>0, <1>4, <1>5, <1>7, AllAnswersStay
<1>10. \A q \in Roots : Waiting(q)' <=> Waiting(q)
  BY <1>2, <1>4, <1>5 DEF Waiting
<1>11. SlotsBalance'
  BY <1>0, <1>2, <1>10, SlotsStay
<1>12. TypeOK'
  BY <1>0, <1>2, <1>5 DEF TypeOK
<1> QED BY <1>8, <1>9, <1>11, <1>12 DEF TreeInv

\* What a stream does no job and no waiter sees.
LEMMA TreeUntouched ==
  ASSUME TreeInv, HubTypeOK', UNCHANGED treeVars
  PROVE  TreeInv'
<1>1. /\ UNCHANGED <<scene, wait, sem>> /\ UNCHANGED <<status, worker, event, completions, bounded>>
  BY DEF treeVars
<1>2. TypeOK /\ WorkersInv
  BY DEF TreeInv
<1>3. StatusMoves
  BY <1>1 DEF StatusMoves
<1>4. WorkersInv'
  BY <1>1, <1>2 DEF WorkersInv
<1>5. /\ status' \in [Jobs -> {"absent", "queued", "running", "done"}]
      /\ worker' \in [Jobs -> {"none", "exec", "publish", "write", "notify"}]
      /\ event' \in [Jobs -> Nat] /\ completions' \in [Roots -> {"none", "empty", "full"}]
      /\ bounded' \in [count: Nat, cancelled: SUBSET Jobs]
  BY <1>1, <1>2, TypeFacts
<1> QED BY <1>1, <1>3, <1>4, <1>5, WorkerStepsTree

\* The invariant holds at the start.
LEMMA WaitInvInit == Init => WaitInv
<1> SUFFICES ASSUME Init PROVE WaitInv
  OBVIOUS
<1>1. /\ nextID = 0 /\ pushed = <<>> /\ scene \in Scenarios /\ status = [j \in Jobs |-> "absent"]
      /\ worker = [j \in Jobs |-> "none"] /\ event = [j \in Jobs |-> 0]
      /\ completions = [r \in Roots |-> "none"] /\ sem = 0
      /\ wait = [r \in Roots |-> [pc |-> "none", tree |-> {}]]
      /\ bounded = [count |-> 0, cancelled |-> {}]
  BY DEF Init, HubInit
<1>2. hub = [slots |-> [i \in 0 .. Capacity - 1 |-> 0], start |-> 0, size |-> 0] /\ Capacity \in Nat \ {0}
  BY HubAssumption DEF Init, HubInit
<1>3. stream = [s \in Streams |-> [pc |-> "off", last |-> 0, chan |-> <<>>, got |-> <<>>]]
  BY DEF Init, HubInit
<1>4. stream \in [Streams -> Stream]
  BY <1>3 DEF Stream
<1>5. HubTypeOK
  BY <1>1, <1>2, <1>4 DEF HubTypeOK
<1>6. IdsInv
  BY <1>1 DEF IdsInv
<1>7. RingInv
  BY <1>1, <1>2 DEF RingInv, RingHas
<1>8. StreamsInv
  BY <1>3, FitsClosed DEF StreamsInv
<1>9. TypeOK
  BY <1>1, <1>5, TreeAssumption DEF TypeOK, Waiter
<1>10. WorkersInv
  BY <1>1, RootsAreJobs DEF WorkersInv
<1>11. WholeTree
  BY <1>1 DEF WholeTree
<1>12. SlotsBalance
  <2>1. {r \in Roots : Waiting(r)} = {}
    BY <1>1 DEF Waiting
  <2>2. Cardinality({}) = 0
    BY FS_EmptySet
  <2> QED BY <1>1, <2>1, <2>2 DEF SlotsBalance
<1> QED BY <1>5, <1>6, <1>7, <1>8, <1>9, <1>10, <1>11, <1>12 DEF WaitInv, HubInv, TreeInv

\* Every step keeps the invariant.
LEMMA WaitInvNext == WaitInv /\ [Next]_vars => WaitInv'
<1> SUFFICES ASSUME WaitInv, [Next]_vars PROVE WaitInv'
  OBVIOUS
<1>0. HubInv /\ TreeInv /\ TypeOK /\ worker \in [Jobs -> {"none", "exec", "publish", "write", "notify"}]
  BY TypeFacts DEF WaitInv, TreeInv
<1>1. ASSUME NEW j \in Jobs, WorkerStep(j) \/ Retry(j) \/ CancelOutstanding(j) PROVE WaitInv'
  <2>1. CASE PublishID(j)
    BY <1>0, <1>1, <2>1, PublishIDHub, WorkerTree DEF WaitInv
  <2>2. CASE PublishPush(j)
    BY <1>0, <1>1, <2>2, PublishPushHub, WorkerTree DEF WaitInv
  <2>3. CASE Claim(j) \/ CompleteSkipped(j) \/ CompleteWithResult(j) \/ notifyCompletion(j) \/ Retry(j) \/ CancelOutstanding(j)
    <3>1. /\ UNCHANGED <<hubVars, event>>
          /\ worker' = worker \/ \E w \in {"none", "exec", "write", "notify"} : worker' = [worker EXCEPT ![j] = w]
      BY <2>3 DEF Claim, CompleteSkipped, CompleteWithResult, notifyCompletion, Retry, CancelOutstanding
    <3>2. \A k \in Jobs : worker'[k] = "publish" => worker[k] = "publish"
      BY <1>0, <3>1
    <3>3. HubInv'
      BY <1>0, <3>1, <3>2, HubUntouched
    <3> QED BY <1>0, <1>1, <3>3, WorkerTree DEF WaitInv
  <2> QED BY <1>1, <2>1, <2>2, <2>3 DEF WorkerStep
<1>2. ASSUME NEW j \in Jobs, j \notin Roots, RouteChild(j) PROVE WaitInv'
  <2>1. UNCHANGED <<hubVars, event>> /\ \A k \in Jobs : worker'[k] = "publish" => worker[k] = "publish"
    BY <1>2 DEF RouteChild
  <2>2. HubInv'
    BY <1>0, <2>1, HubUntouched
  <2> QED BY <1>0, <1>2, <2>2, RouteChildTree DEF WaitInv
<1>3. ASSUME NEW r \in Roots, TriggerPipeline(r) \/ WaiterStep(r) \/ WaitTimesOut(r) \/ WaitFails(r) PROVE WaitInv'
  <2>1. UNCHANGED <<hubVars, event>> /\ \A k \in Jobs : worker'[k] = "publish" => worker[k] = "publish"
    BY <1>3 DEF TriggerPipeline, WaiterStep, AcquireSlot, RegisterWaiter, ReadTree, ConfirmTree, Woken,
                WaitTimesOut, WaitFails
  <2>2. HubInv'
    BY <1>0, <2>1, HubUntouched
  <2> QED BY <1>0, <1>3, <2>2, TriggerTree, WaiterTree DEF WaitInv
<1>4. ASSUME NEW s \in scene.online, Observe(s) PROVE WaitInv'
  <2>1. s \in Streams
    <3>1. scene \in [online: SUBSET Streams, requests: SUBSET Roots, async: SUBSET Roots, events: Nat]
      BY <1>0, TypeFacts, TreeAssumption
    <3> QED BY <3>1
  <2>2. HubInv' /\ UNCHANGED treeVars
    BY <1>0, <1>4, <2>1, ObserveHub DEF Observe
  <2> QED BY <1>0, <2>2, TreeUntouched DEF WaitInv, HubInv
<1>5. CASE UNCHANGED vars
  <2>1. UNCHANGED <<hubVars, event>> /\ UNCHANGED treeVars /\ \A k \in Jobs : worker'[k] = "publish" => worker[k] = "publish"
    BY <1>5 DEF vars, treeVars
  <2>2. HubInv'
    BY <1>0, <2>1, HubUntouched
  <2> QED BY <1>0, <2>1, <2>2, TreeUntouched DEF WaitInv, HubInv
<1> QED BY <1>1, <1>2, <1>3, <1>4, <1>5 DEF Next

\* The inductive invariant of the waiters, the hub and the streams holds in every
\* reachable state.
THEOREM WaitInvariance == Spec => []WaitInv
BY WaitInvInit, WaitInvNext, PTL DEF Spec

\* A synchronous answer that no cancel disturbed is the whole tree of the request, all
\* of it done and nothing joining later, and every request that has left has given its
\* slot and its channel back (WaitForJobTree, handlePipelineTrigger), for any tree of
\* jobs and any number of requests and slots.
THEOREM WholeAnswers == Spec => []AnswersWhole
<1>1. WaitInv => AnswersWhole
  BY DEF WaitInv, TreeInv, AnswersWhole
<1> QED BY <1>1, WaitInvariance, PTL

-----------------------------------------------------------------------------
\* What a client sees.

\* The last k entries of a log as a sequence of their own.
LEMMA LatestOf ==
  ASSUME NEW P \in Seq(Nat), NEW n, n = Len(P), NEW k \in Nat, k <= n,
         NEW B, B = [i \in 1 .. k |-> P[n - k + i]]
  PROVE  SubSeq(P, n - k + 1, n) = B
<1>0. n \in Nat
  OBVIOUS
<1>1. PICK m : m = n - k + 1
  OBVIOUS
<1>2. m \in Int /\ n \in Int /\ m \in 1 .. n + 1 /\ n - m + 1 = k
  BY <1>0, <1>1
<1>3. \A i \in m .. n : P[i] \in Nat
  BY <1>0, <1>2
<1>4. /\ SubSeq(P, m, n) \in Seq(Nat)
      /\ Len(SubSeq(P, m, n)) = IF m <= n THEN n - m + 1 ELSE 0
      /\ \A i \in 1 .. n - m + 1 : SubSeq(P, m, n)[i] = P[m + i - 1]
  <2>1. m \in Int
    BY <1>2
  <2>2. n \in Int
    BY <1>2
  <2> QED BY ONLY <2>1, <2>2, <1>3, SubSeqProperties
<1>5. PICK Q : Q = SubSeq(P, m, n)
  OBVIOUS
<1>6. Q \in Seq(Nat) /\ Len(Q) = k /\ \A i \in 1 .. k : Q[i] = P[m + i - 1]
  BY <1>0, <1>2, <1>4, <1>5
<1>7. \A i \in 1 .. k : m + i - 1 = n - k + i /\ m + i - 1 \in 1 .. n
  BY <1>0, <1>1
<1>8. Q = [i \in 1 .. k |-> Q[i]]
  BY <1>6
<1>9. Q = B
  BY <1>6, <1>7, <1>8
<1> QED BY <1>1, <1>5, <1>9

\* The buffered events are the last ones pushed.
LEMMA RingIsLatest == ASSUME HubTypeOK, RingInv PROVE RingHoldsLatest
<1>1. PICK P, n, c, sz : P = pushed /\ n = Len(pushed) /\ c = Capacity /\ sz = hub.size
  OBVIOUS
<1>2. P \in Seq(Nat) /\ n \in Nat /\ c \in Nat \ {0} /\ n = Len(P)
  BY <1>1, HubFields
<1>3. /\ sz = IF n < c THEN n ELSE c
      /\ \A i \in 1 .. sz : hub.slots[(hub.start + i - 1) % Capacity] = P[n - sz + i]
  BY <1>1 DEF RingInv, RingHas
<1>4. sz \in Nat /\ sz <= n
  BY <1>2, <1>3
<1>5. PICK B : B = Buffered
  OBVIOUS
<1>6. B = [i \in 1 .. sz |-> P[n - sz + i]]
  BY <1>1, <1>3, <1>5 DEF Buffered
<1>7. SubSeq(P, n - sz + 1, n) = B
  BY ONLY <1>2, <1>4, <1>6, LatestOf
<1> QED BY <1>1, <1>3, <1>5, <1>7 DEF RingHoldsLatest

\* Among distinct ids the position of one is where it was pushed.
LEMMA PositionOrder ==
  ASSUME HubInv, NEW a, NEW b, Precedes(pushed, a, b)
  PROVE  Position(a) < Position(b)
<1>1. PICK p, q \in 1 .. Len(pushed) : p < q /\ pushed[p] = a /\ pushed[q] = b
  BY DEF Precedes
<1>2. \A i, k \in 1 .. Len(pushed) : pushed[i] = pushed[k] => i = k
  BY DEF HubInv, IdsInv
<1>3. \A i \in 1 .. Len(pushed) : Position(pushed[i]) = i
  BY <1>2 DEF Position
<1> QED BY <1>1, <1>3

\* What a connection has shown is in the order of the pushes.
LEMMA ShownInOrder == ASSUME HubInv PROVE StreamInOrder
<1> SUFFICES ASSUME NEW s \in Streams, NEW seen, seen = stream[s].got \o stream[s].chan,
                    NEW i \in 1 .. Len(seen), NEW k \in 1 .. Len(seen), i < k
             PROVE  Precedes(pushed, seen[i], seen[k])
  BY PositionOrder DEF StreamInOrder
<1>1. PICK g, c : g = stream[s].got /\ c = stream[s].chan
  OBVIOUS
<1>2. g \in Seq(Nat) /\ c \in Seq(Nat)
  BY <1>1, StreamFields DEF HubInv, HubTypeOK
<1>3. /\ \A l, m \in 1 .. Len(g) : l < m => Precedes(pushed, g[l], g[m])
      /\ \A l, m \in 1 .. Len(c) : l < m => Precedes(pushed, c[l], c[m])
      /\ \A l \in 1 .. Len(g), m \in 1 .. Len(c) : Precedes(pushed, g[l], c[m])
  BY <1>1 DEF HubInv, StreamsInv, StreamFits
<1>4. PICK lg, lc : lg = Len(g) /\ lc = Len(c)
  OBVIOUS
<1>5. seen = g \o c /\ Len(g \o c) = Len(g) + Len(c) /\ lg \in Nat /\ lc \in Nat
      /\ \A l \in 1 .. Len(g) + Len(c) : (g \o c)[l] = IF l <= Len(g) THEN g[l] ELSE c[l - Len(g)]
  <2>1. lg \in Nat /\ lc \in Nat
    BY <1>2, <1>4
  <2>2. /\ Len(g \o c) = Len(g) + Len(c)
        /\ \A l \in 1 .. Len(g) + Len(c) : (g \o c)[l] = IF l <= Len(g) THEN g[l] ELSE c[l - Len(g)]
    BY ONLY <1>2, ConcatProperties
  <2>3. seen = g \o c
    BY <1>1
  <2> QED BY <2>1, <2>2, <2>3
<1>6. i \in 1 .. lg + lc /\ k \in 1 .. lg + lc /\ i < k
      /\ \A l \in 1 .. lg + lc : seen[l] = IF l <= lg THEN g[l] ELSE c[l - lg]
  BY <1>4, <1>5
<1>7. CASE k <= lg
  <2>1. i \in 1 .. lg /\ k \in 1 .. lg /\ seen[i] = g[i] /\ seen[k] = g[k]
    BY <1>5, <1>6, <1>7
  <2> QED BY <1>3, <1>4, <1>6, <2>1
<1>8. CASE i <= lg /\ k > lg
  <2>1. seen[i] = g[i] /\ seen[k] = c[k - lg] /\ i \in 1 .. lg /\ k - lg \in 1 .. lc
    BY <1>5, <1>6, <1>8
  <2> QED BY <1>3, <1>4, <2>1
<1>9. CASE i > lg
  <2>1. /\ seen[i] = c[i - lg] /\ seen[k] = c[k - lg] /\ i - lg \in 1 .. lc
        /\ k - lg \in 1 .. lc /\ i - lg < k - lg
    BY <1>5, <1>6, <1>9
  <2> QED BY <1>3, <1>4, <2>1
<1> QED BY <1>5, <1>6, <1>7, <1>8, <1>9

\* The ring holds the latest events in the order of their pushes, and a connection shows
\* pushed events in that order, none twice, although ids are taken outside the hub's
\* mutex and snapshot and subscription are two steps (hub.go, handleEvents), for any
\* capacity, channel size, number of publishers and clients.
THEOREM StreamsCorrect == Spec => []StreamsRight
<1>1. WaitInv => StreamsRight
  BY RingIsLatest, ShownInOrder DEF WaitInv, HubInv, StreamsRight
<1> QED BY <1>1, WaitInvariance, PTL
=============================================================================
