----------------------------- MODULE RelayProofs ----------------------------
(***************************************************************************)
(* Proofs about Relay, for any number of relays, routes and handlers and   *)
(* any bound on losses, replays and crashes: what the receiver answered    *)
(* 202 to is in its queue, a context row without a job has a reason, and   *)
(* replays of one event are bounded by the requests served at once.        *)
(***************************************************************************)
EXTENDS Relay, FiniteSetTheorems, TLAPS

Targets == {d.target : d \in Dispatches}
Pipelines == {d.pipeline : d \in Dispatches}
RowStates == {"outstanding", "recent", "past"}
RowType == [relay : Relays, key : {RelayKey(r) : r \in Relays}, target : Targets,
            pipeline : Pipelines, state : RowStates]
HandlerType == [at : {"idle", "probe", "context", "enqueue", "answer"}, relay : Relays \union {0},
                send : Nat, first : BOOLEAN, todo : Seq(Dispatches), ok : BOOLEAN]
RelayType == [state : {"queued", "sending", "accepted", "succeeded", "failed"}, sends : 0..MaxSends]
WireType == [relay : Relays, send : 1..MaxSends, seen : BOOLEAN]

RoutesOf(r) == Routes[Envelope[r].type]

\* Some row of the receiver's queue stands for relay r at the target.
Covered(r, T) ==
  \E j \in DOMAIN rows : /\ rows[j].target = T
                         /\ rows[j].relay = r \/ (RelayKey(r) # <<>> /\ rows[j].key = RelayKey(r))

\* A dispatch that a handler still has to see to.
Pending(s, d) == \E k \in DOMAIN s.todo : s.todo[k] = d

\* A handler works on dispatches that are left, and everything else of an event
\* it has not failed on is in the queue.
HandlerOK(s) ==
  /\ s \in HandlerType
  /\ (s.todo = <<>>) <=> (s.at \in {"idle", "answer"})
  /\ s.at # "idle" => s.relay \in Relays
  /\ s.ok => /\ s.at # "idle"
             /\ \A i \in DOMAIN RoutesOf(s.relay) :
                  Covered(s.relay, RoutesOf(s.relay)[i].target) \/ Pending(s, RoutesOf(s.relay)[i])

ServingInv == DOMAIN serving = Handlers /\ \A h \in Handlers : HandlerOK(serving[h])

SenderInv ==
  /\ relay \in [Relays -> RelayType]
  /\ \A r \in Relays : relay[r].state = "queued" => relay[r].sends < MaxSends
  /\ wire \subseteq WireType

RowsInv == rows \in Seq(RowType) /\ \A j \in DOMAIN rows : rows[j].key = RelayKey(rows[j].relay)

CountersInv ==
  /\ entries \in Nat /\ mishaps \in Nat
  /\ deliveries \in 0..MaxDeliveries /\ crashes \in 0..MaxCrashes

Enqueueing == {h \in Handlers : serving[h].at = "enqueue"}
Keyed(r) == Envelope[r].key # 0 \/ Envelope[r].origin # 0
Alive(r, T) == {i \in DOMAIN rows : /\ rows[i].relay = r /\ rows[i].target = T
                                    /\ rows[i].state \in {"outstanding", "recent"}}
Passing(s, r, T) == s.at \in {"context", "enqueue"} /\ s.relay = r /\ Head(s.todo).target = T
Passed(r, T) == {h \in Handlers : Passing(serving[h], r, T)}

\* The jobs alive for an event at a target, and the handlers past the probe that
\* may still add one, are no more than the handlers.
Bounded ==
  \A r \in Relays, T \in Targets : Keyed(r) =>
    Cardinality(Alive(r, T)) + Cardinality(Passed(r, T)) <= Cardinality(Handlers)

\* The inductive invariant.
RelayInv ==
  /\ ServingInv /\ SenderInv /\ RowsInv /\ CountersInv
  /\ OrphansExplained /\ AcceptedIsEnqueued /\ Bounded

----------------------------------------------------------------------------
\* The routes of a relay are a list of dispatches.
LEMMA RoutesTyped == \A r \in Relays : RoutesOf(r) \in Seq(Dispatches)
BY RelayAssumption DEF RoutesOf

\* A dispatch names its target and its pipeline.
LEMMA DispatchTyped == \A d \in Dispatches : d.target \in Targets /\ d.pipeline \in Pipelines
BY DEF Targets, Pipelines

\* An event with a key of its own, or with an origin, is known by a key.
LEMMA KeyedHasKey == \A r \in Relays : Keyed(r) => RelayKey(r) # <<>>
BY DEF Keyed, RelayKey

\* A handler with nothing to do.
LEMMA NobodyOK == HandlerOK(Nobody)
BY DEF HandlerOK, HandlerType, Nobody

\* Rows are kept: what stood for a relay still does.
RowsGrow == \A r, T : Covered(r, T) => Covered(r, T)'

\* With the same rows, or more, every handler but the one that moves is as it was.
LEMMA HandlerMoves ==
  ASSUME ServingInv, RowsGrow, NEW h \in Handlers, NEW v,
         serving' = [serving EXCEPT ![h] = v], HandlerOK(v)'
  PROVE  ServingInv' /\ serving'[h] = v /\ \A g \in Handlers : g # h => serving'[g] = serving[g]
<1>1. serving'[h] = v /\ DOMAIN serving' = Handlers /\ \A g \in Handlers : g # h => serving'[g] = serving[g]
  BY DEF ServingInv
<1>2. ASSUME NEW s, HandlerOK(s) PROVE HandlerOK(s)'
  BY <1>2 DEF HandlerOK, RowsGrow, Pending
<1> QED BY <1>1, <1>2 DEF ServingInv

\* The rows do not change.
LEMMA SameRows == ASSUME UNCHANGED rows PROVE RowsGrow
BY DEF RowsGrow, Covered

\* The sets that are counted are finite.
LEMMA CountedFinite ==
  ASSUME RowsInv
  PROVE  /\ IsFiniteSet(Handlers) /\ IsFiniteSet(Enqueueing)
         /\ \A r, T : IsFiniteSet(Alive(r, T)) /\ IsFiniteSet(Passed(r, T))
         /\ \A r, T : Cardinality(Passed(r, T)) <= Cardinality(Handlers)
<1>1. IsFiniteSet(Handlers)
  BY RelayAssumption
<1>2. IsFiniteSet(DOMAIN rows)
  <2>1. DOMAIN rows = 1..Len(rows) /\ Len(rows) \in Nat
    BY DEF RowsInv
  <2> QED BY <2>1, FS_Interval
<1>3. Enqueueing \subseteq Handlers
  BY DEF Enqueueing
<1>4. ASSUME NEW r, NEW T PROVE Alive(r, T) \subseteq DOMAIN rows /\ Passed(r, T) \subseteq Handlers
  BY DEF Alive, Passed
<1> QED BY <1>1, <1>2, <1>3, <1>4, FS_Subset

\* While the rows stay as they are and a handler that moves is not past its probe
\* afterwards, the bound on replays holds.
LEMMA BoundKept ==
  ASSUME ServingInv, RowsInv, Bounded, UNCHANGED rows,
         \A r \in Relays, T \in Targets : Passed(r, T)' \subseteq Passed(r, T)
  PROVE  Bounded'
<1> SUFFICES ASSUME NEW r \in Relays, NEW T \in Targets, Keyed(r)
             PROVE  Cardinality(Alive(r, T)') + Cardinality(Passed(r, T)') <= Cardinality(Handlers)
  BY DEF Bounded, Keyed
<1>1. Cardinality(Alive(r, T)) + Cardinality(Passed(r, T)) <= Cardinality(Handlers)
  BY DEF Bounded
<1>2. Alive(r, T)' = Alive(r, T)
  BY DEF Alive
<1>3. IsFiniteSet(Alive(r, T)) /\ IsFiniteSet(Passed(r, T)) /\ IsFiniteSet(Handlers)
  BY CountedFinite
<1>4. IsFiniteSet(Passed(r, T)') /\ Cardinality(Passed(r, T)') <= Cardinality(Passed(r, T))
  BY <1>3, FS_Subset
<1>5. {Cardinality(Alive(r, T)), Cardinality(Passed(r, T)), Cardinality(Passed(r, T)'), Cardinality(Handlers)} \subseteq Nat
  BY <1>3, <1>4, FS_CardinalityType
<1> QED BY <1>1, <1>2, <1>4, <1>5

\* Everything the relay's event routes to is covered.
AllCovered(r) == \A i \in DOMAIN RoutesOf(r) : Covered(r, RoutesOf(r)[i].target)

\* An accepted relay is one whose routes all have a row.
LEMMA AcceptedMeans ==
  AcceptedIsEnqueued <=> \A r \in Relays : relay[r].state \in {"accepted", "succeeded"} => AllCovered(r)
BY DEF AcceptedIsEnqueued, AllCovered, Covered, RoutesOf

\* Rows are kept and nobody is newly told that its event was accepted.
LEMMA AcceptedKept ==
  ASSUME AcceptedIsEnqueued, RowsGrow,
         \A r \in Relays : relay'[r].state \in {"accepted", "succeeded"} =>
           relay[r].state \in {"accepted", "succeeded"} \/ AllCovered(r)
  PROVE  AcceptedIsEnqueued'
<1>1. \A r \in Relays : AllCovered(r) => AllCovered(r)'
  BY DEF AllCovered, RowsGrow, RoutesOf
<1>2. \A r \in Relays : relay'[r].state \in {"accepted", "succeeded"} => AllCovered(r)'
  BY <1>1, AcceptedMeans
<1> QED BY <1>2 DEF AcceptedIsEnqueued, AllCovered, Covered, RoutesOf

\* A step that leaves the receiver's handlers, rows and contexts alone.
LEMMA ReceiverUntouched ==
  ASSUME RelayInv, UNCHANGED <<serving, rows, entries, mishaps>>
  PROVE  ServingInv' /\ RowsInv' /\ OrphansExplained' /\ Bounded' /\ RowsGrow
<1>1. RowsGrow
  BY SameRows
<1>2. ServingInv'
  BY DEF RelayInv, ServingInv, HandlerOK, Covered, Pending
<1>3. RowsInv' /\ OrphansExplained'
  BY DEF RelayInv, RowsInv, OrphansExplained
<1>4. Bounded'
  BY DEF RelayInv, Bounded, Alive, Passed, Passing
<1> QED BY <1>1, <1>2, <1>3, <1>4

\* The steps of the sending instance and of the wire.
LEMMA SenderSteps ==
  ASSUME RelayInv,
         \/ \E r \in Relays : Send(r) \/ SendFails(r) \/ RelayCompletes(r)
         \/ SenderCrashes \/ \E m \in wire : Ages(m)
  PROVE  RelayInv'
<1>0. SenderInv /\ CountersInv /\ AcceptedIsEnqueued
  BY DEF RelayInv
<1>1. UNCHANGED <<serving, rows, entries, deliveries, mishaps>>
  BY DEF Send, SendFails, RelayCompletes, SenderCrashes, Ages
<1>2. ServingInv' /\ RowsInv' /\ OrphansExplained' /\ Bounded' /\ RowsGrow
  BY <1>1, ReceiverUntouched
<1>3. CountersInv'
  <2>1. crashes' = crashes \/ (crashes < MaxCrashes /\ crashes' = crashes + 1)
    BY DEF Send, SendFails, RelayCompletes, SenderCrashes, Ages
  <2> QED BY <1>0, <1>1, <2>1, RelayAssumption DEF CountersInv
<1>4. \A r \in Relays : /\ relay[r] \in RelayType /\ relay[r].sends \in Nat /\ MaxSends \in Nat
                        /\ relay[r].sends <= MaxSends
                        /\ relay[r].state = "queued" => relay[r].sends < MaxSends
  BY <1>0, RelayAssumption DEF SenderInv, RelayType
<1>5. ASSUME NEW r \in Relays, Send(r) PROVE SenderInv' /\ AcceptedIsEnqueued'
  <2>1. CASE Envelope[r].type \in AllowTypes
    <3> DEFINE v == [state |-> "sending", sends |-> relay[r].sends + 1]
               m == [relay |-> r, send |-> relay[r].sends + 1, seen |-> FALSE]
    <3>1. relay[r].sends + 1 \in 1..MaxSends
      BY <1>4, <1>5 DEF Send
    <3>2. v \in RelayType /\ m \in WireType /\ v.state = "sending"
      BY <3>1 DEF RelayType, WireType
    <3> HIDE DEF v, m
    <3>3. relay' = [relay EXCEPT ![r] = v] /\ wire' = wire \cup {m}
      BY <1>5, <2>1 DEF Send, v, m
    <3>4. relay'[r] = v /\ \A q \in Relays : q # r => relay'[q] = relay[q]
      BY <1>0, <3>3 DEF SenderInv
    <3>5. SenderInv'
      BY <1>0, <3>2, <3>3, <3>4 DEF SenderInv
    <3> QED BY <1>0, <1>2, <3>2, <3>4, <3>5, AcceptedKept
  <2>2. CASE Envelope[r].type \notin AllowTypes
    <3>1. relay' = [relay EXCEPT ![r].state = "failed"] /\ wire' = wire
      BY <1>5, <2>2 DEF Send
    <3>2. [relay[r] EXCEPT !.state = "failed"] \in RelayType
      BY <1>4 DEF RelayType
    <3>3. relay'[r] \in RelayType /\ relay'[r].state = "failed" /\ \A q \in Relays : q # r => relay'[q] = relay[q]
      BY <1>0, <1>4, <3>1, <3>2 DEF SenderInv, RelayType
    <3>4. SenderInv'
      BY <1>0, <3>1, <3>3 DEF SenderInv
    <3> QED BY <1>0, <1>2, <3>3, <3>4, AcceptedKept
  <2> QED BY <2>1, <2>2
<1>6. ASSUME NEW r \in Relays, SendFails(r) \/ RelayCompletes(r) PROVE SenderInv' /\ AcceptedIsEnqueued'
  <2>1. PICK end \in {"succeeded", "failed"} :
          /\ relay' = [relay EXCEPT ![r].state = end] /\ wire' = wire
          /\ end = "succeeded" => relay[r].state = "accepted"
    BY <1>6 DEF SendFails, RelayCompletes
  <2>2. /\ relay'[r] \in RelayType /\ relay'[r].state = end
        /\ \A q \in Relays : q # r => relay'[q] = relay[q]
    BY <1>0, <1>4, <2>1 DEF SenderInv, RelayType
  <2>3. SenderInv'
    BY <1>0, <2>1, <2>2 DEF SenderInv
  <2> QED BY <1>0, <1>2, <2>1, <2>2, <2>3, AcceptedKept
<1>7. ASSUME SenderCrashes PROVE SenderInv' /\ AcceptedIsEnqueued'
  <2>1. ASSUME NEW r \in Relays
        PROVE  /\ relay'[r] \in RelayType
               /\ \/ relay'[r] = relay[r]
                  \/ relay'[r].state = "queued" /\ relay'[r].sends < MaxSends
                  \/ relay'[r].state = "failed"
    <3>1. relay'[r] = IF Envelope[r].cli \/ relay[r].state \notin {"sending", "accepted"} THEN relay[r]
                      ELSE [relay[r] EXCEPT !.state = IF relay[r].sends < MaxSends THEN "queued" ELSE "failed"]
      BY <1>7 DEF SenderCrashes
    <3>2. \A st \in {"queued", "failed"} :
            LET x == [relay[r] EXCEPT !.state = st]
            IN x \in RelayType /\ x.state = st /\ x.sends = relay[r].sends
      BY <1>4 DEF RelayType
    <3> QED BY <1>4, <3>1, <3>2
  <2>2. relay' = [r \in Relays |-> relay'[r]] /\ wire' = wire
    BY <1>7 DEF SenderCrashes
  <2>3. SenderInv'
    BY <1>0, <2>1, <2>2 DEF SenderInv
  <2> QED BY <1>0, <1>2, <2>1, <2>3, AcceptedKept
<1>8. ASSUME NEW m \in wire, Ages(m) PROVE SenderInv' /\ AcceptedIsEnqueued'
  BY <1>0, <1>2, <1>8, AcceptedKept DEF Ages, SenderInv
<1> QED BY <1>2, <1>3, <1>5, <1>6, <1>7, <1>8 DEF RelayInv

----------------------------------------------------------------------------
\* The count of handlers about to enqueue, when one of them moves.
LEMMA EnqueueingMoves ==
  ASSUME RowsInv, NEW h \in Handlers,
         \A g \in Handlers : g # h => serving'[g].at = serving[g].at
  PROVE  /\ Cardinality(Enqueueing) \in Nat
         /\ serving'[h].at = "enqueue" /\ serving[h].at # "enqueue" =>
              Cardinality(Enqueueing') = Cardinality(Enqueueing) + 1
         /\ serving'[h].at # "enqueue" /\ serving[h].at = "enqueue" =>
              Cardinality(Enqueueing') = Cardinality(Enqueueing) - 1
         /\ ((serving'[h].at = "enqueue") <=> (serving[h].at = "enqueue")) =>
              Cardinality(Enqueueing') = Cardinality(Enqueueing)
<1>1. IsFiniteSet(Enqueueing) /\ Cardinality(Enqueueing) \in Nat
  BY CountedFinite, FS_CardinalityType
<1>2. CASE serving'[h].at = "enqueue" /\ serving[h].at # "enqueue"
  <2>1. Enqueueing' = Enqueueing \union {h} /\ h \notin Enqueueing
    BY <1>2 DEF Enqueueing
  <2>2. Cardinality(Enqueueing \union {h}) = Cardinality(Enqueueing) + 1
    BY <1>1, <2>1, FS_AddElement
  <2> QED BY <1>1, <1>2, <2>1, <2>2
<1>3. CASE serving'[h].at # "enqueue" /\ serving[h].at = "enqueue"
  <2>1. Enqueueing' = Enqueueing \ {h} /\ h \in Enqueueing
    BY <1>3 DEF Enqueueing
  <2>2. Cardinality(Enqueueing \ {h}) = Cardinality(Enqueueing) - 1
    BY <1>1, <2>1, FS_RemoveElement
  <2> QED BY <1>1, <1>3, <2>1, <2>2
<1>4. CASE (serving'[h].at = "enqueue") <=> (serving[h].at = "enqueue")
  <2>1. Enqueueing' = Enqueueing
    BY <1>4 DEF Enqueueing
  <2> QED BY <1>1, <1>4, <2>1
<1> QED BY <1>2, <1>3, <1>4

\* What OrphansExplained says, with the handlers about to enqueue named.
LEMMA OrphansMeans == OrphansExplained <=> entries = Len(rows) + mishaps + Cardinality(Enqueueing)
BY DEF OrphansExplained, Enqueueing

\* A request arrives.
LEMMA DeliverKeeps ==
  ASSUME RelayInv, NEW m \in wire, NEW h \in Handlers, Deliver(m, h)
  PROVE  RelayInv'
<1>0. SenderInv /\ CountersInv /\ AcceptedIsEnqueued /\ ServingInv /\ RowsInv /\ OrphansExplained /\ Bounded
  BY DEF RelayInv
<1>1. /\ UNCHANGED <<relay, rows, entries, crashes, mishaps>> /\ serving[h] = Nobody
      /\ deliveries < MaxDeliveries /\ deliveries' = deliveries + 1
      /\ wire' = (wire \ {m}) \cup {[m EXCEPT !.seen = TRUE]}
  BY DEF Deliver
<1>2. m \in WireType /\ m.relay \in Relays /\ m.send \in Nat /\ m.seen \in BOOLEAN
  BY <1>0, RelayAssumption DEF SenderInv, WireType
<1> DEFINE todo == IF Accepts(m) THEN RoutesOf(m.relay) ELSE <<>>
           v == [at |-> IF todo = <<>> THEN "answer" ELSE "probe", relay |-> m.relay, send |-> m.send,
                 first |-> ~m.seen, todo |-> todo, ok |-> Accepts(m)]
<1>3. todo \in Seq(Dispatches) /\ (Accepts(m) => todo = RoutesOf(m.relay))
  BY <1>2, RoutesTyped
<1>4. serving' = [serving EXCEPT ![h] = v]
  BY DEF Deliver, RoutesOf
<1> HIDE DEF todo
<1>5. /\ v \in HandlerType /\ v.at = (IF todo = <<>> THEN "answer" ELSE "probe") /\ v.todo = todo
      /\ v.relay = m.relay /\ v.ok = Accepts(m)
  <2>1. (IF todo = <<>> THEN "answer" ELSE "probe") \in {"idle", "probe", "context", "enqueue", "answer"}
    OBVIOUS
  <2>2. Accepts(m) \in BOOLEAN
    BY DEF Accepts
  <2> QED BY <1>2, <1>3, <2>1, <2>2 DEF HandlerType
<1> HIDE DEF v
<1>6. HandlerOK(v)'
  <2>1. v.ok => \A i \in DOMAIN RoutesOf(v.relay) : Pending(v, RoutesOf(v.relay)[i])
    BY <1>3, <1>5 DEF Pending
  <2>2. v.at # "idle" /\ ((v.todo = <<>>) <=> (v.at \in {"idle", "answer"}))
    BY <1>5
  <2> QED BY <1>2, <1>5, <2>1, <2>2 DEF HandlerOK, RoutesOf, Pending
<1>7. RowsGrow
  BY <1>1, SameRows
<1>8. ServingInv' /\ serving'[h] = v /\ \A g \in Handlers : g # h => serving'[g] = serving[g]
  BY <1>0, <1>4, <1>6, <1>7, HandlerMoves
<1>9. v.at \in {"answer", "probe"}
  BY <1>5
<1>10. SenderInv'
  <2>1. [m EXCEPT !.seen = TRUE] \in WireType
    BY <1>2 DEF WireType
  <2> QED BY <1>0, <1>1, <2>1 DEF SenderInv
<1>11. CountersInv' /\ RowsInv'
  BY <1>0, <1>1, RelayAssumption DEF CountersInv, RowsInv
<1>12. OrphansExplained'
  <2>1. Enqueueing' = Enqueueing
    BY <1>1, <1>8, <1>9 DEF Enqueueing, Nobody
  <2> QED BY <1>0, <1>1, <2>1 DEF OrphansExplained, Enqueueing
<1>13. AcceptedIsEnqueued'
  BY <1>0, <1>1, <1>7, AcceptedKept
<1>14. Bounded'
  <2>1. \A r \in Relays, T \in Targets : Passed(r, T)' \subseteq Passed(r, T)
    BY <1>8, <1>9 DEF Passed, Passing
  <2> QED BY <1>0, <1>1, <2>1, BoundKept
<1> QED BY <1>8, <1>10, <1>11, <1>12, <1>13, <1>14 DEF RelayInv

\* What is left of a list when its head is taken off.
LEMMA TailParts ==
  ASSUME NEW S, NEW t \in Seq(S), t # <<>>
  PROVE  /\ Tail(t) \in Seq(S) /\ Len(t) \in Nat /\ Len(t) >= 1 /\ Head(t) = t[1] /\ Head(t) \in S
         /\ (Tail(t) = <<>>) <=> (Len(t) = 1)
         /\ \A k \in DOMAIN t : k = 1 \/ (k - 1 \in DOMAIN Tail(t) /\ Tail(t)[k - 1] = t[k])
<1>1. /\ Tail(t) \in Seq(S) /\ Len(t) \in Nat /\ Len(t) >= 1 /\ Head(t) = t[1] /\ Head(t) \in S
      /\ Len(Tail(t)) = Len(t) - 1 /\ DOMAIN t = 1..Len(t) /\ DOMAIN Tail(t) = 1..(Len(t) - 1)
      /\ \A k \in 1..(Len(t) - 1) : Tail(t)[k] = t[k + 1]
  OBVIOUS
<1>2. (Tail(t) = <<>>) <=> (Len(t) = 1)
  <2>1. \A x \in Seq(S) : (x = <<>>) <=> (Len(x) = 0)
    OBVIOUS
  <2> QED BY <1>1, <2>1, SMTT(60)
<1>3. ASSUME NEW k \in DOMAIN t, k # 1 PROVE k - 1 \in DOMAIN Tail(t) /\ Tail(t)[k - 1] = t[k]
  <2>1. k - 1 \in 1..(Len(t) - 1) /\ (k - 1) + 1 = k
    BY <1>1, <1>3
  <2>2. Tail(t)[k - 1] = t[(k - 1) + 1]
    BY <1>1, <2>1
  <2> QED BY <1>1, <2>1, <2>2
<1> QED BY <1>1, <1>2, <1>3

\* The dispatch at the head of a handler's list is done with: its target is covered.
LEMMA NextTargetOK ==
  ASSUME ServingInv, RowsGrow, NEW h \in Handlers, serving[h].at \in {"probe", "context", "enqueue"},
         NEW s, s = serving[h], NEW v, v = NextTarget(h), Covered(s.relay, Head(s.todo).target)'
  PROVE  HandlerOK(v)' /\ v.at \in {"answer", "probe"}
<1>1. HandlerOK(s)
  BY DEF ServingInv
<1>2. /\ s \in HandlerType /\ s.todo \in Seq(Dispatches) /\ s.todo # <<>> /\ s.relay \in Relays
      /\ s.at # "idle"
  BY <1>1 DEF HandlerOK, HandlerType
<1>3. /\ Tail(s.todo) \in Seq(Dispatches) /\ Len(s.todo) \in Nat /\ Len(s.todo) >= 1
      /\ Head(s.todo) = s.todo[1] /\ ((Tail(s.todo) = <<>>) <=> (Len(s.todo) = 1))
      /\ \A k \in DOMAIN s.todo : k = 1 \/ (k - 1 \in DOMAIN Tail(s.todo) /\ Tail(s.todo)[k - 1] = s.todo[k])
  BY <1>2, TailParts
<1>4. /\ v \in HandlerType /\ v.at = (IF Len(s.todo) = 1 THEN "answer" ELSE "probe")
      /\ v.todo = Tail(s.todo) /\ v.relay = s.relay /\ v.ok = s.ok
  <2>1. PICK at \in {"answer", "probe"} : at = IF Len(s.todo) = 1 THEN "answer" ELSE "probe"
    OBVIOUS
  <2>2. \A t \in Seq(Dispatches) :
          LET x == [s EXCEPT !.todo = t, !.at = at]
          IN x \in HandlerType /\ x.at = at /\ x.todo = t /\ x.relay = s.relay /\ x.ok = s.ok
    BY <1>2, <2>1 DEF HandlerType
  <2> QED BY <1>3, <2>1, <2>2, ZenonT(60) DEF NextTarget
<1>5. ASSUME s.ok, NEW i \in DOMAIN RoutesOf(s.relay)
      PROVE  Covered(s.relay, RoutesOf(s.relay)[i].target)' \/ Pending(v, RoutesOf(s.relay)[i])
  <2>1. Covered(s.relay, RoutesOf(s.relay)[i].target) \/ Pending(s, RoutesOf(s.relay)[i])
    BY <1>1, <1>5 DEF HandlerOK
  <2>2. CASE Covered(s.relay, RoutesOf(s.relay)[i].target)
    BY <2>2 DEF RowsGrow
  <2>3. CASE Pending(s, RoutesOf(s.relay)[i])
    <3>1. PICK k \in DOMAIN s.todo : s.todo[k] = RoutesOf(s.relay)[i]
      BY <2>3 DEF Pending
    <3>2. CASE k = 1
      <4>1. Head(s.todo) = RoutesOf(s.relay)[i]
        BY <1>3, <3>1, <3>2
      <4> QED BY <4>1, Zenon
    <3>3. CASE k # 1
      <4>1. k - 1 \in DOMAIN Tail(s.todo) /\ Tail(s.todo)[k - 1] = RoutesOf(s.relay)[i]
        BY <1>3, <3>1, <3>3
      <4>2. v.todo = Tail(s.todo)
        BY <1>4
      <4> QED BY <4>1, <4>2, Zenon DEF Pending
    <3> QED BY <3>2, <3>3
  <2> QED BY <2>1, <2>2, <2>3
<1>6. v.at \in {"answer", "probe"} /\ ((v.todo = <<>>) <=> (v.at = "answer"))
  BY <1>3, <1>4
<1>7. v.ok => \A i \in DOMAIN RoutesOf(v.relay) :
                Covered(v.relay, RoutesOf(v.relay)[i].target)' \/ Pending(v, RoutesOf(v.relay)[i])
  BY <1>4, <1>5
<1> QED BY <1>2, <1>4, <1>6, <1>7 DEF HandlerOK, RoutesOf, Pending

\* The probe of the queue: a replay is passed over, or the handler goes on to write.
LEMMA ProbeKeeps ==
  ASSUME RelayInv, NEW h \in Handlers, Probe(h)
  PROVE  RelayInv'
<1>0. SenderInv /\ CountersInv /\ AcceptedIsEnqueued /\ ServingInv /\ RowsInv /\ OrphansExplained /\ Bounded
  BY DEF RelayInv
<1>1. UNCHANGED <<relay, wire, rows, entries, deliveries, crashes, mishaps>> /\ serving[h].at = "probe"
  BY DEF Probe
<1>2. PICK s : s = serving[h]
  OBVIOUS
<1>3. /\ s \in HandlerType /\ s.todo \in Seq(Dispatches) /\ s.todo # <<>> /\ s.relay \in Relays
      /\ Head(s.todo) \in Dispatches /\ Head(s.todo).target \in Targets /\ HandlerOK(s)
  <2>1. HandlerOK(s)
    BY <1>0, <1>2 DEF ServingInv
  <2>2. s \in HandlerType /\ s.todo \in Seq(Dispatches) /\ s.todo # <<>> /\ s.relay \in Relays
    BY <1>1, <1>2, <2>1 DEF HandlerOK, HandlerType
  <2>3. Head(s.todo) \in Dispatches
    BY <2>2, TailParts
  <2> QED BY <2>1, <2>2, <2>3, DispatchTyped
<1>4. RowsGrow
  BY <1>1, SameRows
<1>5. SenderInv' /\ CountersInv' /\ RowsInv' /\ AcceptedIsEnqueued'
  BY <1>0, <1>1, <1>4, AcceptedKept DEF SenderInv, CountersInv, RowsInv
<1>6. CASE Admit(RelayKey(s.relay), Head(s.todo).target) = "replay"
  <2>1. PICK v : v = NextTarget(h)
    OBVIOUS
  <2>2. serving' = [serving EXCEPT ![h] = v]
    BY <1>2, <1>6, <2>1 DEF Probe
  <2>3. Covered(s.relay, Head(s.todo).target)
    BY <1>6 DEF Admit, RowsIn, Covered
  <2>4. Covered(s.relay, Head(s.todo).target)'
    BY <1>4, <2>3 DEF RowsGrow
  <2>5. HandlerOK(v)' /\ v.at \in {"answer", "probe"}
    BY <1>0, <1>1, <1>2, <1>4, <2>1, <2>4, NextTargetOK
  <2>6. ServingInv' /\ serving'[h] = v /\ \A g \in Handlers : g # h => serving'[g] = serving[g]
    BY <1>0, <1>4, <2>2, <2>5, HandlerMoves
  <2>7. OrphansExplained'
    <3>1. Enqueueing' = Enqueueing
      BY <1>1, <2>5, <2>6 DEF Enqueueing
    <3> QED BY <1>0, <1>1, <3>1 DEF OrphansExplained, Enqueueing
  <2>8. \A r \in Relays, T \in Targets : Passed(r, T)' \subseteq Passed(r, T)
    BY <2>5, <2>6 DEF Passed, Passing
  <2>9. Bounded'
    BY <1>0, <1>1, <2>8, BoundKept
  <2> QED BY <1>5, <2>6, <2>7, <2>9 DEF RelayInv
<1>7. CASE Admit(RelayKey(s.relay), Head(s.todo).target) # "replay"
  <2>1. PICK v : v = [s EXCEPT !.at = "context"]
    OBVIOUS
  <2>2. serving' = [serving EXCEPT ![h] = v]
    BY <1>2, <1>7, <2>1 DEF Probe
  <2>3. v \in HandlerType /\ v.at = "context" /\ v.todo = s.todo /\ v.relay = s.relay /\ v.ok = s.ok
    BY <1>3, <2>1 DEF HandlerType
  <2>4. HandlerOK(v)'
    BY <1>1, <1>2, <1>3, <1>4, <2>3 DEF HandlerOK, Pending, RowsGrow, RoutesOf
  <2>5. ServingInv' /\ serving'[h] = v /\ \A g \in Handlers : g # h => serving'[g] = serving[g]
    BY <1>0, <1>4, <2>2, <2>4, HandlerMoves
  <2>6. OrphansExplained'
    <3>1. Enqueueing' = Enqueueing
      BY <1>1, <2>3, <2>5 DEF Enqueueing
    <3> QED BY <1>0, <1>1, <3>1 DEF OrphansExplained, Enqueueing
  <2>7. Bounded'
    <3> SUFFICES ASSUME NEW r \in Relays, NEW T \in Targets, Keyed(r)
                 PROVE  Cardinality(Alive(r, T)') + Cardinality(Passed(r, T)') <= Cardinality(Handlers)
      BY DEF Bounded, Keyed
    <3>1. Alive(r, T)' = Alive(r, T)
      BY <1>1 DEF Alive
    <3>2. CASE r = s.relay /\ T = Head(s.todo).target
      <4>1. Alive(r, T) = {}
        BY <1>0, <1>7, <3>2, KeyedHasKey DEF Admit, RowsIn, Alive, RowsInv
      <4>2. Cardinality(Passed(r, T)') <= Cardinality(Handlers) /\ IsFiniteSet(Passed(r, T)')
        <5>1. Passed(r, T)' \subseteq Handlers
          BY DEF Passed
        <5> QED BY <5>1, RelayAssumption, FS_Subset
      <4>3. Cardinality(Alive(r, T)') = 0 /\ Cardinality(Passed(r, T)') \in Nat
        BY <3>1, <4>1, <4>2, FS_EmptySet, FS_CardinalityType
      <4> QED BY <4>2, <4>3
    <3>3. CASE ~(r = s.relay /\ T = Head(s.todo).target)
      <4>1. Passed(r, T)' = Passed(r, T)
        BY <1>1, <2>3, <2>5, <3>3 DEF Passed, Passing
      <4> QED BY <1>0, <3>1, <4>1 DEF Bounded
    <3> QED BY <3>2, <3>3
  <2> QED BY <1>5, <2>5, <2>6, <2>7 DEF RelayInv
<1> QED BY <1>6, <1>7

\* The context rows are written.
LEMMA CreateEntryKeeps ==
  ASSUME RelayInv, NEW h \in Handlers, CreateEntry(h)
  PROVE  RelayInv'
<1>0. SenderInv /\ CountersInv /\ AcceptedIsEnqueued /\ ServingInv /\ RowsInv /\ OrphansExplained /\ Bounded
  BY DEF RelayInv
<1>1. /\ UNCHANGED <<relay, wire, rows, deliveries, crashes, mishaps>> /\ serving[h].at = "context"
      /\ entries' = entries + 1
  BY DEF CreateEntry
<1>2. PICK s : s = serving[h]
  OBVIOUS
<1>3. HandlerOK(s) /\ s \in HandlerType /\ s.at = "context" /\ s.relay \in Relays
  BY <1>0, <1>1, <1>2 DEF ServingInv, HandlerOK
<1>4. RowsGrow
  BY <1>1, SameRows
<1>5. PICK v : v = [s EXCEPT !.at = "enqueue"]
  OBVIOUS
<1>6. v \in HandlerType /\ v.at = "enqueue" /\ v.todo = s.todo /\ v.relay = s.relay /\ v.ok = s.ok
  BY <1>3, <1>5 DEF HandlerType
<1>7. HandlerOK(v)'
  BY <1>3, <1>4, <1>6 DEF HandlerOK, Pending, RowsGrow, RoutesOf
<1>8. serving' = [serving EXCEPT ![h] = v]
  BY <1>2, <1>5 DEF CreateEntry
<1>9. ServingInv' /\ serving'[h] = v /\ \A g \in Handlers : g # h => serving'[g] = serving[g]
  BY <1>0, <1>4, <1>7, <1>8, HandlerMoves
<1>10. SenderInv' /\ CountersInv' /\ RowsInv' /\ AcceptedIsEnqueued'
  BY <1>0, <1>1, <1>4, AcceptedKept DEF SenderInv, CountersInv, RowsInv
<1>11. OrphansExplained'
  <2>1. Cardinality(Enqueueing) \in Nat /\ Cardinality(Enqueueing') = Cardinality(Enqueueing) + 1
    BY <1>0, <1>1, <1>6, <1>9, EnqueueingMoves
  <2>2. Len(rows) \in Nat /\ mishaps \in Nat /\ entries \in Nat
    BY <1>0 DEF RowsInv, CountersInv
  <2>3. entries' = Len(rows) + mishaps + Cardinality(Enqueueing')
    BY <1>0, <1>1, <2>1, <2>2, OrphansMeans
  <2> QED BY <1>1, <2>3 DEF OrphansExplained, Enqueueing
<1>12. Bounded'
  <2>1. \A r \in Relays, T \in Targets : Passed(r, T)' \subseteq Passed(r, T)
    BY <1>2, <1>3, <1>6, <1>9 DEF Passed, Passing
  <2> QED BY <1>0, <1>1, <2>1, BoundKept
<1> QED BY <1>9, <1>10, <1>11, <1>12 DEF RelayInv

\* A database call fails.
LEMMA HandlerFailsKeeps ==
  ASSUME RelayInv, NEW h \in Handlers, HandlerFails(h)
  PROVE  RelayInv'
<1>0. SenderInv /\ CountersInv /\ AcceptedIsEnqueued /\ ServingInv /\ RowsInv /\ OrphansExplained /\ Bounded
  BY DEF RelayInv
<1>1. /\ UNCHANGED <<relay, wire, rows, entries, deliveries, crashes>>
      /\ serving[h].at \in {"probe", "context", "enqueue"}
      /\ mishaps' = IF serving[h].at = "enqueue" THEN mishaps + 1 ELSE mishaps
  BY DEF HandlerFails
<1>2. PICK s : s = serving[h]
  OBVIOUS
<1>3. s \in HandlerType /\ s.relay \in Relays
  BY <1>0, <1>1, <1>2 DEF ServingInv, HandlerOK
<1>4. RowsGrow
  BY <1>1, SameRows
<1>5. PICK v : v = Abandoned(h)
  OBVIOUS
<1>6. v \in HandlerType /\ v.at = "answer" /\ v.todo = <<>> /\ v.relay = s.relay /\ ~v.ok
  <2>1. <<>> \in Seq(Dispatches)
    OBVIOUS
  <2> QED BY <1>2, <1>3, <1>5, <2>1 DEF HandlerType, Abandoned
<1>7. HandlerOK(v)'
  BY <1>3, <1>6 DEF HandlerOK
<1>8. serving' = [serving EXCEPT ![h] = v]
  BY <1>5 DEF HandlerFails
<1>9. ServingInv' /\ serving'[h] = v /\ \A g \in Handlers : g # h => serving'[g] = serving[g]
  BY <1>0, <1>4, <1>7, <1>8, HandlerMoves
<1>10. SenderInv' /\ CountersInv' /\ RowsInv' /\ AcceptedIsEnqueued'
  BY <1>0, <1>1, <1>4, AcceptedKept DEF SenderInv, CountersInv, RowsInv
<1>11. OrphansExplained'
  <2>1. /\ Cardinality(Enqueueing) \in Nat
        /\ Cardinality(Enqueueing') = IF serving[h].at = "enqueue" THEN Cardinality(Enqueueing) - 1
                                      ELSE Cardinality(Enqueueing)
    BY <1>0, <1>1, <1>6, <1>9, EnqueueingMoves
  <2>2. Len(rows) \in Nat /\ mishaps \in Nat /\ entries \in Nat
    BY <1>0 DEF RowsInv, CountersInv
  <2>3. entries = Len(rows) + mishaps' + Cardinality(Enqueueing')
    BY <1>0, <1>1, <2>1, <2>2, OrphansMeans
  <2> QED BY <1>1, <2>3 DEF OrphansExplained, Enqueueing
<1>12. Bounded'
  <2>1. \A r \in Relays, T \in Targets : Passed(r, T)' \subseteq Passed(r, T)
    BY <1>6, <1>9 DEF Passed, Passing
  <2> QED BY <1>0, <1>1, <2>1, BoundKept
<1> QED BY <1>9, <1>10, <1>11, <1>12 DEF RelayInv

\* The answer: 202 only when nothing is left to see to.
LEMMA RespondKeeps ==
  ASSUME RelayInv, NEW h \in Handlers, Respond(h)
  PROVE  RelayInv'
<1>0. SenderInv /\ CountersInv /\ AcceptedIsEnqueued /\ ServingInv /\ RowsInv /\ OrphansExplained /\ Bounded
  BY DEF RelayInv
<1>1. /\ UNCHANGED <<wire, rows, entries, deliveries, crashes, mishaps>> /\ serving[h].at = "answer"
      /\ serving' = [serving EXCEPT ![h] = Nobody]
  BY DEF Respond
<1>2. HandlerOK(serving[h]) /\ serving[h].relay \in Relays /\ serving[h].todo = <<>>
  BY <1>0, <1>1 DEF ServingInv, HandlerOK
<1>3. RowsGrow
  BY <1>1, SameRows
<1>4. HandlerOK(Nobody)'
  BY DEF HandlerOK, HandlerType, Nobody
<1>5. ServingInv' /\ serving'[h] = Nobody /\ \A g \in Handlers : g # h => serving'[g] = serving[g]
  BY <1>0, <1>1, <1>3, <1>4, HandlerMoves
<1>6. serving[h].ok => AllCovered(serving[h].relay)
  BY <1>2 DEF HandlerOK, AllCovered, Pending
<1>7. SenderInv' /\ AcceptedIsEnqueued'
  <2>1. CASE ~Awaited(h)
    BY <1>0, <1>1, <1>3, <2>1, AcceptedKept DEF Respond, SenderInv
  <2>2. CASE Awaited(h)
    <3>1. PICK st \in {"accepted", "failed"} :
            st = IF serving[h].ok THEN "accepted" ELSE "failed"
      OBVIOUS
    <3>2. relay' = [relay EXCEPT ![serving[h].relay].state = st]
      BY <2>2, <3>1 DEF Respond
    <3>3. /\ relay'[serving[h].relay] \in RelayType /\ relay'[serving[h].relay].state = st
          /\ \A q \in Relays : q # serving[h].relay => relay'[q] = relay[q]
      BY <1>0, <1>2, <3>1, <3>2 DEF SenderInv, RelayType
    <3>4. SenderInv'
      BY <1>0, <1>1, <1>2, <3>1, <3>2, <3>3 DEF SenderInv
    <3> QED BY <1>0, <1>2, <1>3, <1>6, <3>1, <3>3, <3>4, AcceptedKept
  <2> QED BY <2>1, <2>2
<1>8. CountersInv' /\ RowsInv'
  BY <1>0, <1>1 DEF CountersInv, RowsInv
<1>9. OrphansExplained'
  <2>1. Enqueueing' = Enqueueing
    BY <1>1, <1>5 DEF Enqueueing, Nobody
  <2> QED BY <1>0, <1>1, <2>1 DEF OrphansExplained, Enqueueing
<1>10. Bounded'
  <2>1. \A r \in Relays, T \in Targets : Passed(r, T)' \subseteq Passed(r, T)
    BY <1>5 DEF Passed, Passing, Nobody
  <2> QED BY <1>0, <1>1, <2>1, BoundKept
<1> QED BY <1>5, <1>7, <1>8, <1>9, <1>10 DEF RelayInv

\* The row of a dispatch is enqueued, or the queue drops it for a recent success.
LEMMA EnqueueRootKeeps ==
  ASSUME RelayInv, NEW h \in Handlers, EnqueueRoot(h)
  PROVE  RelayInv'
<1>0. SenderInv /\ CountersInv /\ AcceptedIsEnqueued /\ ServingInv /\ RowsInv /\ OrphansExplained /\ Bounded
  BY DEF RelayInv
<1>1. UNCHANGED <<relay, wire, entries, deliveries, crashes>> /\ serving[h].at = "enqueue"
  BY DEF EnqueueRoot
<1>2. PICK s : s = serving[h]
  OBVIOUS
<1>3. PICK d : d = Head(s.todo)
  OBVIOUS
<1>4. /\ s.at = "enqueue" /\ s.relay \in Relays /\ d \in Dispatches /\ d.target \in Targets /\ d.pipeline \in Pipelines
  <2>1. HandlerOK(s)
    BY <1>0, <1>2 DEF ServingInv
  <2>2. s.todo \in Seq(Dispatches) /\ s.todo # <<>> /\ s.relay \in Relays
    BY <1>1, <1>2, <2>1 DEF HandlerOK, HandlerType
  <2>3. d \in Dispatches
    BY <1>3, <2>2, TailParts
  <2> QED BY <1>1, <1>2, <2>2, <2>3, DispatchTyped
<1>5. PICK v : v = NextTarget(h)
  OBVIOUS
<1>6. serving' = [serving EXCEPT ![h] = v]
  BY <1>5 DEF EnqueueRoot
<1> DEFINE w == [relay |-> s.relay, key |-> RelayKey(s.relay), target |-> d.target,
                 pipeline |-> d.pipeline, state |-> "outstanding"]
           drop == EnqueueDrops(RelayKey(s.relay), d.target)
<1>7. /\ w \in RowType /\ w.relay = s.relay /\ w.key = RelayKey(s.relay) /\ w.target = d.target
      /\ w.state = "outstanding"
  BY <1>4 DEF RowType, RowStates
<1> HIDE DEF w, drop
<1>8. /\ rows' = IF drop THEN rows ELSE Append(rows, w)
      /\ mishaps' = IF drop THEN mishaps + 1 ELSE mishaps
  BY <1>2, <1>3 DEF EnqueueRoot, w, drop
<1>9. rows \in Seq(RowType) /\ Len(rows) \in Nat /\ DOMAIN rows = 1..Len(rows)
  BY <1>0 DEF RowsInv
<1>10. ~drop => /\ rows' \in Seq(RowType) /\ Len(rows') = Len(rows) + 1 /\ DOMAIN rows' = 1..(Len(rows) + 1)
                /\ rows'[Len(rows) + 1] = w /\ \A j \in 1..Len(rows) : rows'[j] = rows[j]
  BY <1>7, <1>8, <1>9
<1>11. RowsGrow
  BY <1>8, <1>9, <1>10 DEF RowsGrow, Covered
<1>12. Covered(s.relay, d.target)'
  <2>1. CASE drop
    <3>1. Covered(s.relay, d.target)
      BY <2>1 DEF drop, EnqueueDrops, RowsIn, Covered
    <3> QED BY <1>11, <3>1 DEF RowsGrow
  <2>2. CASE ~drop
    <3>1. Len(rows) + 1 \in DOMAIN rows' /\ rows'[Len(rows) + 1].target = d.target
          /\ rows'[Len(rows) + 1].relay = s.relay
      BY <1>7, <1>9, <1>10, <2>2
    <3> QED BY <3>1 DEF Covered
  <2> QED BY <2>1, <2>2
<1>13. HandlerOK(v)' /\ v.at \in {"answer", "probe"}
  BY <1>0, <1>1, <1>2, <1>3, <1>5, <1>11, <1>12, NextTargetOK
<1>14. ServingInv' /\ serving'[h] = v /\ \A g \in Handlers : g # h => serving'[g] = serving[g]
  BY <1>0, <1>6, <1>11, <1>13, HandlerMoves
<1>15. SenderInv' /\ AcceptedIsEnqueued' /\ CountersInv'
  BY <1>0, <1>1, <1>8, <1>11, AcceptedKept DEF SenderInv, CountersInv
<1>16. RowsInv'
  <2>1. CASE drop
    BY <1>0, <1>8, <2>1 DEF RowsInv
  <2>2. CASE ~drop
    <3>1. \A j \in DOMAIN rows' : j = Len(rows) + 1 \/ j \in DOMAIN rows
      BY <1>9, <1>10, <2>2
    <3> QED BY <1>0, <1>7, <1>9, <1>10, <2>2, <3>1 DEF RowsInv
  <2> QED BY <2>1, <2>2
<1>17. OrphansExplained'
  <2>1. Cardinality(Enqueueing) \in Nat /\ Cardinality(Enqueueing') = Cardinality(Enqueueing) - 1
    BY <1>0, <1>1, <1>13, <1>14, EnqueueingMoves
  <2>2. mishaps \in Nat /\ entries \in Nat
    BY <1>0 DEF CountersInv
  <2>3. entries = Len(rows') + mishaps' + Cardinality(Enqueueing')
    BY <1>0, <1>8, <1>9, <1>10, <2>1, <2>2, OrphansMeans
  <2> QED BY <1>1, <2>3 DEF OrphansExplained, Enqueueing
<1>18. Bounded'
  <2>1. \A r \in Relays, T \in Targets : Passed(r, T)' \subseteq Passed(r, T)
    BY <1>13, <1>14 DEF Passed, Passing
  <2>2. CASE drop
    BY <1>0, <1>8, <2>1, <2>2, BoundKept
  <2>3. CASE ~drop
    <3> SUFFICES ASSUME NEW r \in Relays, NEW T \in Targets, Keyed(r)
                 PROVE  Cardinality(Alive(r, T)') + Cardinality(Passed(r, T)') <= Cardinality(Handlers)
      BY DEF Bounded, Keyed
    <3>1. /\ Cardinality(Alive(r, T)) + Cardinality(Passed(r, T)) <= Cardinality(Handlers)
          /\ IsFiniteSet(Alive(r, T)) /\ IsFiniteSet(Passed(r, T)) /\ IsFiniteSet(Handlers)
      BY <1>0, CountedFinite DEF Bounded
    <3>2. {Cardinality(Alive(r, T)), Cardinality(Passed(r, T)), Cardinality(Handlers)} \subseteq Nat
      BY <3>1, FS_CardinalityType
    <3>3. CASE r = s.relay /\ T = d.target
      <4>1. Alive(r, T)' = Alive(r, T) \union {Len(rows) + 1} /\ Len(rows) + 1 \notin Alive(r, T)
        BY <1>7, <1>9, <1>10, <2>3, <3>3 DEF Alive
      <4>2. Passed(r, T)' = Passed(r, T) \ {h} /\ h \in Passed(r, T)
        BY <1>2, <1>3, <1>4, <1>13, <1>14, <3>3 DEF Passed, Passing
      <4>3. Cardinality(Alive(r, T) \union {Len(rows) + 1}) = Cardinality(Alive(r, T)) + 1
        BY <3>1, <4>1, FS_AddElement
      <4>4. Cardinality(Passed(r, T) \ {h}) = Cardinality(Passed(r, T)) - 1
        BY <3>1, <4>2, FS_RemoveElement
      <4> QED BY <3>1, <3>2, <4>1, <4>2, <4>3, <4>4
    <3>4. CASE ~(r = s.relay /\ T = d.target)
      <4>1. Alive(r, T)' = Alive(r, T)
        BY <1>7, <1>9, <1>10, <2>3, <3>4 DEF Alive
      <4>2. Passed(r, T)' = Passed(r, T)
        BY <1>2, <1>3, <1>13, <1>14, <3>4 DEF Passed, Passing
      <4> QED BY <3>1, <4>1, <4>2
    <3> QED BY <3>3, <3>4
  <2> QED BY <2>2, <2>3
<1> QED BY <1>14, <1>15, <1>16, <1>17, <1>18 DEF RelayInv

\* The receiving instance crashes.
LEMMA ReceiverCrashKeeps ==
  ASSUME RelayInv, ReceiverCrashes
  PROVE  RelayInv'
<1>0. SenderInv /\ CountersInv /\ AcceptedIsEnqueued /\ ServingInv /\ RowsInv /\ OrphansExplained /\ Bounded
  BY DEF RelayInv
<1>1. /\ UNCHANGED <<relay, wire, rows, entries, deliveries>> /\ crashes < MaxCrashes /\ crashes' = crashes + 1
      /\ serving' = [h \in Handlers |-> Nobody] /\ mishaps' = mishaps + Cardinality(Enqueueing)
  BY DEF ReceiverCrashes, Enqueueing
<1>2. RowsGrow
  BY <1>1, SameRows
<1>3. HandlerOK(Nobody)'
  BY DEF HandlerOK, HandlerType, Nobody
<1>4. ServingInv'
  BY <1>1, <1>3 DEF ServingInv
<1>5. Cardinality(Enqueueing) \in Nat
  BY <1>0, CountedFinite, FS_CardinalityType
<1>6. SenderInv' /\ RowsInv' /\ AcceptedIsEnqueued' /\ CountersInv'
  BY <1>0, <1>1, <1>2, <1>5, AcceptedKept, RelayAssumption, SMTT(60) DEF SenderInv, RowsInv, CountersInv
<1>7. OrphansExplained'
  <2>1. Enqueueing' = {}
    BY <1>1 DEF Enqueueing, Nobody
  <2>2. Len(rows) \in Nat /\ mishaps \in Nat
    BY <1>0 DEF RowsInv, CountersInv
  <2>3. entries = Len(rows) + mishaps' + Cardinality(Enqueueing')
    BY <1>0, <1>1, <1>5, <2>1, <2>2, OrphansMeans, FS_EmptySet
  <2> QED BY <1>1, <2>3 DEF OrphansExplained, Enqueueing
<1>8. Bounded'
  <2>1. \A r \in Relays, T \in Targets : Passed(r, T)' \subseteq Passed(r, T)
    BY <1>1 DEF Passed, Passing, Nobody
  <2> QED BY <1>0, <1>1, <2>1, BoundKept
<1> QED BY <1>4, <1>6, <1>7, <1>8 DEF RelayInv

\* A job of the receiver ends, or its success is too long ago to count.
LEMMA RowSteps ==
  ASSUME RelayInv, NEW j \in DOMAIN rows, RowEnds(j) \/ DedupeExpires(j)
  PROVE  RelayInv'
<1>0. SenderInv /\ CountersInv /\ AcceptedIsEnqueued /\ ServingInv /\ RowsInv /\ OrphansExplained /\ Bounded
  BY DEF RelayInv
<1>1. UNCHANGED <<relay, wire, serving, entries, deliveries, crashes, mishaps>>
  BY DEF RowEnds, DedupeExpires
<1>2. PICK end \in {"recent", "past"} : rows' = [rows EXCEPT ![j].state = end] /\ rows[j].state \in {"outstanding", "recent"}
  BY DEF RowEnds, DedupeExpires
<1>3. rows \in Seq(RowType) /\ rows[j] \in RowType
  BY <1>0 DEF RowsInv
<1>4. LET x == [rows[j] EXCEPT !.state = end]
      IN x \in RowType /\ x.relay = rows[j].relay /\ x.key = rows[j].key /\ x.target = rows[j].target
  BY <1>3 DEF RowType, RowStates
<1>5. /\ rows' \in Seq(RowType) /\ DOMAIN rows' = DOMAIN rows /\ Len(rows') = Len(rows)
      /\ \A i \in DOMAIN rows : /\ rows'[i].relay = rows[i].relay /\ rows'[i].key = rows[i].key
                                /\ rows'[i].target = rows[i].target
                                /\ i # j => rows'[i] = rows[i]
  BY <1>2, <1>3, <1>4
<1>6. RowsGrow
  BY <1>5 DEF RowsGrow, Covered
<1>7. ServingInv'
  <2>1. ASSUME NEW s, HandlerOK(s) PROVE HandlerOK(s)'
    BY <1>6, <2>1 DEF HandlerOK, RowsGrow, Pending
  <2> QED BY <1>0, <1>1, <2>1 DEF ServingInv
<1>8. SenderInv' /\ RowsInv' /\ AcceptedIsEnqueued' /\ CountersInv'
  BY <1>0, <1>1, <1>5, <1>6, AcceptedKept DEF SenderInv, RowsInv, CountersInv
<1>9. OrphansExplained'
  BY <1>0, <1>1, <1>5 DEF OrphansExplained
<1>10. Bounded'
  <2> SUFFICES ASSUME NEW r \in Relays, NEW T \in Targets, Keyed(r)
               PROVE  Cardinality(Alive(r, T)') + Cardinality(Passed(r, T)') <= Cardinality(Handlers)
    BY DEF Bounded, Keyed
  <2>1. /\ Cardinality(Alive(r, T)) + Cardinality(Passed(r, T)) <= Cardinality(Handlers)
        /\ IsFiniteSet(Alive(r, T)) /\ IsFiniteSet(Passed(r, T)) /\ IsFiniteSet(Handlers)
    BY <1>0, CountedFinite DEF Bounded
  <2>2. Alive(r, T)' \subseteq Alive(r, T) /\ Passed(r, T)' = Passed(r, T)
    BY <1>1, <1>2, <1>5 DEF Alive, Passed
  <2>3. IsFiniteSet(Alive(r, T)') /\ Cardinality(Alive(r, T)') <= Cardinality(Alive(r, T))
    BY <2>1, <2>2, FS_Subset
  <2>4. {Cardinality(Alive(r, T)), Cardinality(Passed(r, T)), Cardinality(Alive(r, T)'), Cardinality(Handlers)} \subseteq Nat
    BY <2>1, <2>3, FS_CardinalityType
  <2> QED BY <2>1, <2>2, <2>3, <2>4
<1> QED BY <1>7, <1>8, <1>9, <1>10 DEF RelayInv

----------------------------------------------------------------------------
\* Both instances before the first relay job runs.
LEMMA RelayInvInit == RelayInit => RelayInv
<1> SUFFICES ASSUME RelayInit PROVE RelayInv
  OBVIOUS
<1>1. /\ relay = [r \in Relays |-> [state |-> "queued", sends |-> 0]]
      /\ wire = {} /\ serving = [h \in Handlers |-> Nobody] /\ rows = <<>> /\ entries = 0 /\ mishaps = 0
  BY DEF RelayInit
<1>2. deliveries \in 0..MaxDeliveries /\ crashes \in 0..MaxCrashes
  BY RelayAssumption DEF RelayInit
<1>3. ServingInv
  BY <1>1, NobodyOK DEF ServingInv
<1>4. SenderInv /\ RowsInv /\ CountersInv
  <2>1. 0 \in 0..MaxSends /\ 0 < MaxSends
    BY RelayAssumption
  <2> QED BY <1>1, <1>2, <2>1 DEF SenderInv, RowsInv, CountersInv, RelayType
<1>5. OrphansExplained
  <2>1. Enqueueing = {}
    BY <1>1 DEF Enqueueing, Nobody
  <2>2. Len(rows) = 0 /\ Cardinality(Enqueueing) = 0
    BY <1>1, <2>1, FS_EmptySet
  <2> QED BY <1>1, <2>2, OrphansMeans
<1>6. AcceptedIsEnqueued
  BY <1>1 DEF AcceptedIsEnqueued
<1>7. Bounded
  <2> SUFFICES ASSUME NEW r \in Relays, NEW T \in Targets
               PROVE  Cardinality(Alive(r, T)) + Cardinality(Passed(r, T)) <= Cardinality(Handlers)
    BY DEF Bounded
  <2>1. Alive(r, T) = {} /\ Passed(r, T) = {}
    BY <1>1 DEF Alive, Passed, Passing, Nobody
  <2>2. Cardinality(Handlers) \in Nat /\ Cardinality(Alive(r, T)) = 0 /\ Cardinality(Passed(r, T)) = 0
    BY <2>1, RelayAssumption, FS_EmptySet, FS_CardinalityType
  <2> QED BY <2>2
<1> QED BY <1>3, <1>4, <1>5, <1>6, <1>7 DEF RelayInv

\* Every step of either instance and of the wire keeps the inductive invariant.
LEMMA RelayInvNext == RelayInv /\ [RelayNext]_relayVars => RelayInv'
<1> SUFFICES ASSUME RelayInv, [RelayNext]_relayVars PROVE RelayInv'
  OBVIOUS
<1>1. CASE RelayNext
  BY <1>1, SenderSteps, ReceiverCrashKeeps, DeliverKeeps, ProbeKeeps, CreateEntryKeeps, EnqueueRootKeeps,
     HandlerFailsKeeps, RespondKeeps, RowSteps DEF RelayNext
<1>2. CASE UNCHANGED relayVars
  <2>1. UNCHANGED <<relay, wire, serving, rows, entries, deliveries, crashes, mishaps>>
    BY <1>2 DEF relayVars
  <2>2. ServingInv' /\ RowsInv' /\ OrphansExplained' /\ Bounded'
    BY <2>1, ReceiverUntouched
  <2>3. SenderInv' /\ CountersInv' /\ AcceptedIsEnqueued'
    BY <2>1 DEF RelayInv, SenderInv, CountersInv, AcceptedIsEnqueued
  <2> QED BY <2>2, <2>3 DEF RelayInv
<1> QED BY <1>1, <1>2

\* The inductive invariant: what a handler has not failed on is in the queue or on
\* its list, and the jobs alive for an event leave room for the handlers past the probe.
THEOREM RelayInvariance == RelaySpec => []RelayInv
BY RelayInvInit, RelayInvNext, PTL DEF RelaySpec

\* The receiver accounts for every event (HandleHTTP, enqueueRootDispatches):
\* nothing acknowledged is missing, no context row is left without a reason, and
\* replays do not pile up, whatever is lost, repeated or crashes.
THEOREM ReceiverAccounts == RelaySpec => []RelayAccounts
<1>1. RelayInv => RelayAccounts
  <2> SUFFICES ASSUME RelayInv PROVE RelayTypeOK /\ ReplaysBounded
    BY DEF RelayInv, RelayAccounts
  <2>0. SenderInv /\ CountersInv /\ ServingInv /\ RowsInv /\ Bounded
    BY DEF RelayInv
  <2>1. RelayTypeOK
    <3>1. \A h \in Handlers : /\ serving[h].at \in {"idle", "probe", "context", "enqueue", "answer"}
                              /\ (serving[h].todo = <<>>) <=> (serving[h].at \in {"idle", "answer"})
      BY <2>0 DEF ServingInv, HandlerOK, HandlerType
    <3> QED BY <2>0, <3>1 DEF RelayTypeOK, SenderInv, CountersInv, RelayType, WireType
  <2>2. ReplaysBounded
    <3> SUFFICES ASSUME NEW j \in DOMAIN rows, Keyed(rows[j].relay)
                 PROVE  Cardinality(Alive(rows[j].relay, rows[j].target)) <= Cardinality(Handlers)
      BY DEF ReplaysBounded, Keyed, Alive
    <3>1. rows[j] \in RowType
      BY <2>0 DEF RowsInv
    <3>2. PICK r \in Relays, T \in Targets : r = rows[j].relay /\ T = rows[j].target
      BY <3>1 DEF RowType
    <3>3. /\ Cardinality(Alive(r, T)) + Cardinality(Passed(r, T)) <= Cardinality(Handlers)
          /\ IsFiniteSet(Alive(r, T)) /\ IsFiniteSet(Passed(r, T)) /\ IsFiniteSet(Handlers)
      BY <2>0, <3>2, CountedFinite DEF Bounded
    <3>4. {Cardinality(Alive(r, T)), Cardinality(Passed(r, T)), Cardinality(Handlers)} \subseteq Nat
      BY <3>3, FS_CardinalityType
    <3> QED BY <3>2, <3>3, <3>4
  <2> QED BY <2>1, <2>2
<1> QED BY <1>1, RelayInvariance, PTL
=============================================================================
