------------------------------ MODULE EventHub ------------------------------
(***************************************************************************)
(* internal/events: the hub's ring buffer and its subscribers, and the     *)
(* stream handler of internal/api that reads them.  An event is its id.    *)
(* Publish takes the id before the mutex, so two publishers may push in    *)
(* the other order; the push and the sends are one critical section.       *)
(***************************************************************************)
EXTENDS Integers, Sequences, FiniteSets

CONSTANTS
    Capacity,     \* events.NewHub's capacity
    SubBuffer,    \* capacity of a subscriber's channel
    Streams       \* clients of GET /events

ASSUME HubAssumption == Capacity \in Nat \ {0} /\ SubBuffer \in Nat \ {0}

VARIABLES
    nextID,   \* the id counter
    hub,      \* the ring: its slots, the oldest slot and how many are filled
    pushed,   \* history: the ids in the order of their pushes
    stream    \* the handlers and what their clients have seen

hubVars == <<nextID, hub, pushed, stream>>

Stream == [pc: {"off", "snapshot", "open"},
           last: Nat,        \* the Last-Event-ID the client will send
           chan: Seq(Nat),   \* the subscriber's channel
           got: Seq(Nat)]    \* written to the connection

HubTypeOK ==
    /\ nextID \in Nat
    /\ hub \in [slots: [0 .. Capacity - 1 -> Nat], start: 0 .. Capacity - 1,
                size: 0 .. Capacity]
    /\ pushed \in Seq(Nat)
    /\ stream \in [Streams -> Stream]

HubInit ==
    /\ nextID = 0
    /\ hub = [slots |-> [i \in 0 .. Capacity - 1 |-> 0], start |-> 0, size |-> 0]
    /\ pushed = <<>>
    /\ stream = [s \in Streams |-> [pc |-> "off", last |-> 0, chan |-> <<>>,
                                    got |-> <<>>]]

-----------------------------------------------------------------------------

pushLocked(id) ==
    LET write(i) == [hub.slots EXCEPT ![i] = id]
    IN  IF hub.size < Capacity
        THEN [slots |-> write((hub.start + hub.size) % Capacity), start |-> hub.start,
              size |-> hub.size + 1]
        ELSE [slots |-> write(hub.start), start |-> (hub.start + 1) % Capacity,
              size |-> hub.size]

\* The ring, oldest event first.
Buffered == [i \in 1 .. hub.size |-> hub.slots[(hub.start + i - 1) % Capacity]]

\* SnapshotSince: the events newer than the client's last one, or all of them,
\* in the order of the ring.  Kept(last) is where they are, and the only
\* ascending function onto it the order of the loop.
Kept(last) == {i \in 1 .. hub.size : last = 0 \/ Buffered[i] > last}
Ascending(K) == {at \in [1 .. Cardinality(K) -> K] :
                   \A i, k \in 1 .. Cardinality(K) : i < k => at[i] < at[k]}
SnapshotOf(at) == [i \in DOMAIN at |-> Buffered[at[i]]]
SnapshotSince(last) == {SnapshotOf(at) : at \in Ascending(Kept(last))}

Room(s) == Len(stream[s].chan) < SubBuffer

\* Mutant: the send waits for room.
Publish_Blocks(id) ==
    /\ \A s \in Streams : stream[s].pc = "open" => Room(s)
    /\ hub' = pushLocked(id)
    /\ pushed' = Append(pushed, id)
    /\ stream' = [s \in Streams |->
         IF stream[s].pc = "open" THEN [stream[s] EXCEPT !.chan = Append(stream[s].chan, id)] ELSE stream[s]]

\* Publish's critical section: a subscriber whose channel is full loses the
\* event.
Publish(id) ==
    /\ hub' = pushLocked(id)
    /\ pushed' = Append(pushed, id)
    /\ stream' = [s \in Streams |->
         IF stream[s].pc = "open" /\ Room(s)
         THEN [stream[s] EXCEPT !.chan = Append(stream[s].chan, id)] ELSE stream[s]]

\* handleEvents: the snapshot is written first ...
StreamSnapshot(s) ==
    /\ stream[s].pc = "off"
    /\ \E out \in SnapshotSince(stream[s].last) :
         stream' = [stream EXCEPT ![s] = [stream[s] EXCEPT !.pc = "snapshot", !.got = out]]
    /\ UNCHANGED <<nextID, hub, pushed>>

\* Mutant: a channel that already holds what the snapshot held.
StreamSubscribe_Replays(s) ==
    /\ stream[s].pc = "snapshot"
    /\ stream' = [stream EXCEPT ![s].pc = "open",
                     ![s].chan = SubSeq(Buffered, 1, IF hub.size < SubBuffer
                                                     THEN hub.size ELSE SubBuffer)]
    /\ UNCHANGED <<nextID, hub, pushed>>

\* ... and the channel made after it.
StreamSubscribe(s) ==
    /\ stream[s].pc = "snapshot"
    /\ stream' = [stream EXCEPT ![s] = [stream[s] EXCEPT !.pc = "open", !.chan = <<>>]]
    /\ UNCHANGED <<nextID, hub, pushed>>

StreamReceive(s) ==
    /\ stream[s].pc = "open"
    /\ stream[s].chan # <<>>
    /\ stream' = [stream EXCEPT ![s] = [stream[s] EXCEPT
                     !.got = Append(stream[s].got, Head(stream[s].chan)), !.chan = Tail(stream[s].chan)]]
    /\ UNCHANGED <<nextID, hub, pushed>>

\* A write fails or the client goes: cancel closes the channel.  The client
\* keeps the id of the last event it was sent.
StreamClose(s) ==
    /\ stream[s].pc # "off"
    /\ stream' = [stream EXCEPT ![s] =
         [pc |-> "off", chan |-> <<>>, got |-> <<>>,
          last |-> IF stream[s].got = <<>> THEN stream[s].last
                   ELSE stream[s].got[Len(stream[s].got)]]]
    /\ UNCHANGED <<nextID, hub, pushed>>

StreamStep(s) == StreamSnapshot(s) \/ StreamSubscribe(s) \/ StreamReceive(s) \/ StreamClose(s)

-----------------------------------------------------------------------------
(* Properties *)

\* The index arithmetic of the ring: a full snapshot is the latest Capacity
\* events in the order they were pushed.
RingHoldsLatest ==
    LET n == Len(pushed)
        k == IF n < Capacity THEN n ELSE Capacity
    IN  Buffered = SubSeq(pushed, n - k + 1, n)

Position(id) == CHOOSE i \in 1 .. Len(pushed) : pushed[i] = id

\* A connection shows events in the order of their pushes and none twice,
\* although snapshot and subscription are separate and others push between.
StreamInOrder ==
    \A s \in Streams :
        LET seen == stream[s].got \o stream[s].chan
        IN  \A i, k \in 1 .. Len(seen) : i < k => Position(seen[i]) < Position(seen[k])

\* What a stream shows is right at every moment: the ring holds the latest
\* events and each connection a subsequence of the pushes.
StreamsRight == RingHoldsLatest /\ StreamInOrder
=============================================================================
