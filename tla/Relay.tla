------------------------------- MODULE Relay -------------------------------
(***************************************************************************)
(* Remote event relay: a relay job (or `ductile relay send`) posts a       *)
(* signed envelope to another instance, whose receiver turns it into root  *)
(* jobs (internal/relay; internal/state/admission.go; DedupeStatus and     *)
(* Enqueue of internal/queue/queue.go; executeCoreRelay of                 *)
(* internal/dispatch/dispatcher.go; cmd/ductile/relay.go).                 *)
(*                                                                         *)
(* The wire loses, delays and repeats requests; either end crashes; the    *)
(* sender stops waiting after its timeout, which cancels the context of    *)
(* the handler serving it.  The receiver works through the dispatches of   *)
(* the event one at a time - probe the queue, create the context rows,     *)
(* enqueue - with other requests in between.                               *)
(***************************************************************************)
EXTENDS Integers, Sequences, FiniteSets

CONSTANTS Relays,         \* relay jobs and relay send commands
          Envelope,       \* of each: type, key, origin (event id), signed, cli
          AllowTypes,     \* instances[].allow of the sender
          AcceptTypes,    \* peers[].accept of the receiver
          Routes,         \* of each type: the dispatches, [pipeline, target]
          Handlers,       \* request handlers of the receiver at work at once
          MaxSends,       \* attempts of one relay job
          MaxDeliveries,  \* requests the receiver ever gets, replays included
          MaxRows,        \* jobs the receiver ever enqueues for them
          MaxCrashes,     \* crashes of either instance
          Spent           \* deliveries and crashes spent at first

Dispatches == UNION {{Routes[t][i] : i \in DOMAIN Routes[t]} : t \in DOMAIN Routes}

ASSUME RelayAssumption ==
  /\ IsFiniteSet(Relays) /\ IsFiniteSet(Handlers)
  /\ {MaxSends, MaxDeliveries, MaxRows, MaxCrashes} \subseteq Nat /\ MaxSends >= 1
  /\ Spent \subseteq [deliveries : 0..MaxDeliveries, crashes : 0..MaxCrashes]
  /\ \A t \in DOMAIN Routes : Routes[t] \in Seq(Dispatches)
  /\ \A r \in Relays : {Envelope[r].key, Envelope[r].origin} \subseteq Nat
                       /\ Envelope[r].type \in DOMAIN Routes

VARIABLES relay,          \* each relay: its state, its requests so far
          wire,           \* requests on the wire, which may arrive again
          serving,        \* what each handler of the receiver is doing
          rows,           \* job_queue of the receiver
          entries,        \* entry context rows of the receiver
          deliveries,     \* requests received so far
          crashes,        \* crashes so far
          mishaps         \* ghost: entry contexts given up on after their creation

relayVars == <<relay, wire, serving, rows, entries, deliveries, crashes, mishaps>>

Nobody == [at |-> "idle", relay |-> 0, send |-> 0, first |-> FALSE, todo |-> <<>>, ok |-> FALSE]

----------------------------------------------------------------------------
(* Identity of an envelope at the receiver, and what its queue knows of it. *)

\* The event's own key, else one derived from the origin event, else none.
RelayKey(r) == IF Envelope[r].key # 0 THEN <<"event", Envelope[r].key>>
               ELSE IF Envelope[r].origin # 0 THEN <<"relay", Envelope[r].origin>>
               ELSE <<>>

RowsIn(states, key, target) ==
  {j \in DOMAIN rows : key # <<>> /\ rows[j].key = key /\ rows[j].target = target
                       /\ rows[j].state \in states}

\* DedupeStatus, which Admit asks before any context row is written.
Admit(key, target) ==
  IF RowsIn({"outstanding", "recent"}, key, target) # {} THEN "replay" ELSE "fresh"

\* Enqueue without a DedupeTTL of its own only looks for a recent success.
EnqueueDrops(key, target) == RowsIn({"recent"}, key, target) # {}

\* accept: the peer, the key, the signature, the origin and the type; see Ages for
\* the timestamp.
Accepts(m) == Envelope[m.relay].signed /\ Envelope[m.relay].type \in AcceptTypes

Awaited(h) == /\ serving[h].first
              /\ relay[serving[h].relay].state = "sending"
              /\ relay[serving[h].relay].sends = serving[h].send

----------------------------------------------------------------------------
(* The sending instance. *)

\* executeCoreRelay or runRelaySend, up to the POST.
Send(r) ==
  /\ relay[r].state = "queued"
  /\ IF Envelope[r].type \in AllowTypes
     THEN /\ relay' = [relay EXCEPT ![r] = [state |-> "sending", sends |-> @.sends + 1]]
          /\ wire' = wire \cup {[relay |-> r, send |-> relay[r].sends + 1, seen |-> FALSE]}
     ELSE relay' = [relay EXCEPT ![r].state = "failed"] /\ UNCHANGED wire
  /\ UNCHANGED <<serving, rows, entries, deliveries, crashes, mishaps>>

\* Mutant: no timeout while no handler has the request.
SendFails_Connected(r) ==
  /\ relay[r].state = "sending" /\ \E h \in Handlers : Awaited(h) /\ serving[h].relay = r
  /\ relay' = [relay EXCEPT ![r].state = "failed"]
  /\ UNCHANGED <<wire, serving, rows, entries, deliveries, crashes, mishaps>>
\* The connection fails or the client's timeout passes: nothing is sent again.
SendFails(r) ==
  /\ relay[r].state = "sending"
  /\ relay' = [relay EXCEPT ![r].state = "failed"]
  /\ UNCHANGED <<wire, serving, rows, entries, deliveries, crashes, mishaps>>

\* The successors of the relay step are routed and the job completed.
RelayCompletes(r) ==
  /\ relay[r].state = "accepted"
  /\ \E end \in {"succeeded"} \cup (IF Envelope[r].cli THEN {} ELSE {"failed"}) :
       relay' = [relay EXCEPT ![r].state = end]
  /\ UNCHANGED <<wire, serving, rows, entries, deliveries, crashes, mishaps>>

\* The sending gateway crashes; its recovery queues the job again while attempts last.
SenderCrashes ==
  /\ crashes < MaxCrashes
  /\ crashes' = crashes + 1
  /\ relay' = [r \in Relays |->
                 IF Envelope[r].cli \/ relay[r].state \notin {"sending", "accepted"} THEN relay[r]
                 ELSE [relay[r] EXCEPT !.state = IF relay[r].sends < MaxSends THEN "queued" ELSE "failed"]]
  /\ UNCHANGED <<wire, serving, rows, entries, deliveries, mishaps>>

----------------------------------------------------------------------------
(* The wire and the receiving instance. *)

\* Older than the allowed clock skew a request is refused wherever it arrives, which
\* changes nothing at the receiver and is a failure to a sender that still waits.
Ages(m) ==
  /\ wire' = wire \ {m}
  /\ UNCHANGED <<relay, serving, rows, entries, deliveries, crashes, mishaps>>

\* A request arrives, perhaps not for the first time: HandleHTTP up to the routing.
Deliver(m, h) ==
  /\ serving[h] = Nobody /\ deliveries < MaxDeliveries
  /\ deliveries' = deliveries + 1
  /\ wire' = (wire \ {m}) \cup {[m EXCEPT !.seen = TRUE]}
  /\ LET todo == IF Accepts(m) THEN Routes[Envelope[m.relay].type] ELSE <<>>
     IN  serving' = [serving EXCEPT ![h] =
           [at |-> IF todo = <<>> THEN "answer" ELSE "probe", relay |-> m.relay, send |-> m.send,
            first |-> ~m.seen, todo |-> todo, ok |-> Accepts(m)]]
  /\ UNCHANGED <<relay, rows, entries, crashes, mishaps>>

NextTarget(h) ==
  [serving[h] EXCEPT !.todo = Tail(@), !.at = IF Len(serving[h].todo) = 1 THEN "answer" ELSE "probe"]

\* A replay is passed over before anything is written.
Probe(h) ==
  /\ serving[h].at = "probe"
  /\ serving' = [serving EXCEPT ![h] =
       IF Admit(RelayKey(serving[h].relay), Head(serving[h].todo).target) = "replay"
       THEN NextTarget(h) ELSE [@ EXCEPT !.at = "context"]]
  /\ UNCHANGED <<relay, wire, rows, entries, deliveries, crashes, mishaps>>

\* createEntryContext: the root row of the pipeline, once a request, and the entry row.
CreateEntry(h) ==
  /\ serving[h].at = "context"
  /\ serving' = [serving EXCEPT ![h].at = "enqueue"]
  /\ entries' = entries + 1
  /\ UNCHANGED <<relay, wire, rows, deliveries, crashes, mishaps>>

\* The row, unless the queue has a recent success: then the context row is left over.
EnqueueRoot(h) ==
  /\ serving[h].at = "enqueue" /\ Len(rows) < MaxRows
  /\ LET r == serving[h].relay
         d == Head(serving[h].todo)
         drop == EnqueueDrops(RelayKey(r), d.target)
     IN  /\ rows' = IF drop THEN rows
                    ELSE Append(rows, [relay |-> r, key |-> RelayKey(r), target |-> d.target,
                                       pipeline |-> d.pipeline, state |-> "outstanding"])
         /\ mishaps' = IF drop THEN mishaps + 1 ELSE mishaps
  /\ serving' = [serving EXCEPT ![h] = NextTarget(h)]
  /\ UNCHANGED <<relay, wire, entries, deliveries, crashes>>

\* Mutant: the error is dropped.
Abandoned_Accepts(h) == [serving[h] EXCEPT !.at = "answer", !.todo = <<>>]
\* A database call fails, as every one does once the sender is gone: the answer is 500.
Abandoned(h) == [serving[h] EXCEPT !.at = "answer", !.todo = <<>>, !.ok = FALSE]
HandlerFails(h) ==
  /\ serving[h].at \in {"probe", "context", "enqueue"}
  /\ serving' = [serving EXCEPT ![h] = Abandoned(h)]
  /\ mishaps' = IF serving[h].at = "enqueue" THEN mishaps + 1 ELSE mishaps
  /\ UNCHANGED <<relay, wire, rows, entries, deliveries, crashes>>

\* The answer reaches the sender if it still waits on this connection.
Respond(h) ==
  /\ serving[h].at = "answer"
  /\ relay' = IF Awaited(h)
              THEN [relay EXCEPT ![serving[h].relay].state = IF serving[h].ok THEN "accepted" ELSE "failed"]
              ELSE relay
  /\ serving' = [serving EXCEPT ![h] = Nobody]
  /\ UNCHANGED <<wire, rows, entries, deliveries, crashes, mishaps>>

ReceiverCrashes ==
  /\ crashes < MaxCrashes
  /\ crashes' = crashes + 1
  /\ serving' = [h \in Handlers |-> Nobody]
  /\ mishaps' = mishaps + Cardinality({h \in Handlers : serving[h].at = "enqueue"})
  /\ UNCHANGED <<relay, wire, rows, entries, deliveries>>

\* A job of the receiver ends: its success counts against replays for dedupe_ttl,
\* after which, as after a failure, the queue no longer looks at it.
RowEnds(j) ==
  /\ rows[j].state = "outstanding"
  /\ \E end \in {"recent", "past"} : rows' = [rows EXCEPT ![j].state = end]
  /\ UNCHANGED <<relay, wire, serving, entries, deliveries, crashes, mishaps>>

DedupeExpires(j) ==
  /\ rows[j].state = "recent"
  /\ rows' = [rows EXCEPT ![j].state = "past"]
  /\ UNCHANGED <<relay, wire, serving, entries, deliveries, crashes, mishaps>>

----------------------------------------------------------------------------
RelayInit ==
  /\ relay = [r \in Relays |-> [state |-> "queued", sends |-> 0]]
  /\ wire = {} /\ serving = [h \in Handlers |-> Nobody]
  /\ rows = <<>> /\ entries = 0
  /\ \E s \in Spent : deliveries = s.deliveries /\ crashes = s.crashes
  /\ mishaps = 0

RelayNext ==
  \/ \E r \in Relays : Send(r) \/ SendFails(r) \/ RelayCompletes(r)
  \/ SenderCrashes \/ ReceiverCrashes
  \/ \E m \in wire : Ages(m) \/ \E h \in Handlers : Deliver(m, h)
  \/ \E h \in Handlers : Probe(h) \/ CreateEntry(h) \/ EnqueueRoot(h) \/ HandlerFails(h) \/ Respond(h)
  \/ \E j \in DOMAIN rows : RowEnds(j) \/ DedupeExpires(j)

RelaySpec == RelayInit /\ [][RelayNext]_relayVars

\* A worker runs what it claimed, and the client of net/http gives up after its timeout.
RelayFairness == \A r \in Relays : WF_relayVars(Send(r)) /\ WF_relayVars(SendFails(r))
                                   /\ WF_relayVars(RelayCompletes(r))

----------------------------------------------------------------------------
(* Properties. *)

\* The variables keep their shape, and a handler has dispatches left exactly
\* while it works on them (the loop of enqueueRootDispatches).
RelayTypeOK ==
  /\ relay \in [Relays -> [state : {"queued", "sending", "accepted", "succeeded", "failed"},
                           sends : 0..MaxSends]]
  /\ wire \subseteq [relay : Relays, send : 1..MaxSends, seen : BOOLEAN]
  /\ \A h \in Handlers : serving[h].at \in {"idle", "probe", "context", "enqueue", "answer"}
                      /\ (serving[h].todo = <<>>) <=> (serving[h].at \in {"idle", "answer"})
  /\ deliveries \in 0..MaxDeliveries /\ crashes \in 0..MaxCrashes

\* No context row without a job unless something went wrong: a replay that
\* the queue already knows leaves nothing behind (root.go, phase 2 boundary).
OrphansExplained ==
  entries = Len(rows) + mishaps + Cardinality({h \in Handlers : serving[h].at = "enqueue"})

\* A sender told 202 has its event in the receiver's queue for every plugin the
\* event routes to, whatever was lost, repeated or crashed on the way
\* (enqueueRootDispatches reports any failure but a duplicate).
AcceptedIsEnqueued ==
  \A r \in Relays : relay[r].state \in {"accepted", "succeeded"} =>
    \A i \in DOMAIN Routes[Envelope[r].type] : \E j \in DOMAIN rows :
      /\ rows[j].target = Routes[Envelope[r].type][i].target
      /\ rows[j].relay = r \/ (RelayKey(r) # <<>> /\ rows[j].key = RelayKey(r))

\* Replays of one keyed event have no more jobs alive - waiting, running or
\* succeeded within dedupe_ttl - for a plugin than requests were being served
\* at once: only requests that overlap can both pass the probe.
ReplaysBounded ==
  \A j \in DOMAIN rows :
    LET r == rows[j].relay IN
    (Envelope[r].key # 0 \/ Envelope[r].origin # 0) =>
      Cardinality({i \in DOMAIN rows : /\ rows[i].relay = r /\ rows[i].target = rows[j].target
                                       /\ rows[i].state \in {"outstanding", "recent"}})
        <= Cardinality(Handlers)

\* The receiver accounts for every event: nothing acknowledged is missing, no
\* context is left without a reason, and replays do not pile up.
RelayAccounts == RelayTypeOK /\ OrphansExplained /\ AcceptedIsEnqueued /\ ReplaysBounded

\* Every relay job and relay send comes to an end, answered or not
\* (sender.go's client timeout; executeCoreRelay completes on every path).
RelaysEnd ==
  \A r \in Relays : (relay[r].state \in {"queued", "sending", "accepted"})
                      ~> (relay[r].state \in {"succeeded", "failed"})

\* Every route that matches an accepted event has a job of its own, as the
\* architecture document promises of fan-out; dedupe goes by plugin, command
\* and key, so of two pipelines that start with one plugin the second has none.
AllRoutesProduceJobs ==
  \A r \in Relays : relay[r].state \in {"accepted", "succeeded"} =>
    \A i \in DOMAIN Routes[Envelope[r].type] : \E j \in DOMAIN rows :
      rows[j].pipeline = Routes[Envelope[r].type][i].pipeline
=============================================================================
