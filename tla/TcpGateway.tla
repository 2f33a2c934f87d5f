----------------------------- MODULE TcpGateway -----------------------------
(***************************************************************************)
(* services/tcp_gateway.py with entitlements.py, and the gap detection of  *)
(* its subscribers (protocol.SequenceTracker as client.py uses it).        *)
(*                                                                         *)
(* One event loop: a frame from the bus is fanned out to every subscriber  *)
(* without an await; each subscriber has a bounded queue and a sender task *)
(* that waits for its socket.  A frame is the number of its arrival, for a *)
(* key (venue:symbol, trades and books alike) or, as heartbeats, for none. *)
(* TCP delivers what was written in order, so the subscriber's tracker is  *)
(* advanced by the write itself.                                           *)
(***************************************************************************)
EXTENDS Integers, Sequences, FiniteSets

CONSTANTS
    Subs,           \* connections
    Keys,           \* instruments
    NoKey,          \* key of a frame that has none
    QueueSize,      \* cfg.client_queue_size
    DropLimit,      \* DROP_LIMIT
    Modes,          \* modes subscribers ask for
    Tokens,         \* tokens of the entitlements file
    Allowed,        \* token -> instruments
    MaxFrames       \* bound: frames from the bus

ASSUME GatewayAssumption ==
    /\ NoKey \notin Keys /\ NoKey \notin Tokens
    /\ QueueSize \in Nat \ {0} /\ DropLimit \in Nat /\ MaxFrames \in Nat
    /\ Modes \subseteq {"stream", "conflate"}
    /\ Allowed \in [Tokens -> SUBSET Keys]

Vers    == 0..MaxFrames         \* 0: no frame yet
Unset   == -1                   \* SequenceTracker.expected is None

\* A queue holds encoded frames and, in conflate mode, bare keys.
RawItem(q, k, v) == [seq |-> q, key |-> k, ver |-> v]
KeyItem(k)       == [seq |-> Unset, key |-> k, ver |-> 0]
IsKey(item)      == item.seq = Unset

VARIABLES
    enabled,        \* Entitlements.enabled: a file is configured
    up,             \* the gateway has not shut down
    frames,         \* frames_in
    last,           \* last: key -> latest frame
    state,          \* "off", "on" (in subs), "closed" (writer closed, task not over)
    symbols,        \* Subscriber.symbols
    mode, queue, pending, outSeq, dropped,      \* fields of Subscriber
    expected, lost,                             \* the client's SequenceTracker
    seen,           \* key -> latest frame the client was sent
    cleared,        \* history: items a change of mode threw away
    conflated,      \* history: the subscriber has been in conflate mode
    denied,         \* history: a refusal was sent (MSG_ACK)
    since           \* history: latest frame of a key when the filter let it in

conn   == <<state, symbols, mode, queue, pending, outSeq, dropped>>
client == <<expected, lost, seen>>
hist   == <<cleared, conflated, denied, since>>
vars   == <<enabled, up, frames, last, conn, client, hist>>

NoPending == [k \in Keys |-> 0]

Init ==
    /\ enabled \in BOOLEAN /\ up = TRUE /\ frames = 0
    /\ last = [k \in Keys |-> 0]
    /\ state = [s \in Subs |-> "off"]
    /\ symbols = [s \in Subs |-> {}]
    /\ mode = [s \in Subs |-> "stream"]
    /\ queue = [s \in Subs |-> <<>>]
    /\ pending = [s \in Subs |-> NoPending]
    /\ outSeq = [s \in Subs |-> 0] /\ dropped = [s \in Subs |-> 0]
    /\ expected = [s \in Subs |-> Unset]
    /\ lost = [s \in Subs |-> 0]
    /\ seen = [s \in Subs |-> NoPending]
    /\ cleared = [s \in Subs |-> 0]
    /\ conflated = [s \in Subs |-> FALSE]
    /\ denied = [s \in Subs |-> FALSE] /\ since = [s \in Subs |-> NoPending]

-----------------------------------------------------------------------------
(* SequenceTracker.observe of the client of s; its count of duplicates is  *)
(* only reported and left out.                                             *)

Observe(s, q) ==
    /\ expected' = [expected EXCEPT ![s] = IF @ = Unset \/ q >= @ THEN q + 1 ELSE @]
    /\ lost' = [lost EXCEPT ![s] = IF expected[s] # Unset /\ q > expected[s]
                                   THEN @ + q - expected[s] ELSE @]

-----------------------------------------------------------------------------
(* _handle_client.                                                         *)

\* _send_snapshot: the latest value of every key the new subscriber wants.
\* Under entitlement checks its filter, and so the snapshot, is empty.
Snapshot == [k \in Keys |-> IF enabled THEN 0 ELSE last[k]]

\* A new Subscriber enters subs and gets its snapshot before any await.
Connect(s) ==
    /\ up /\ state[s] = "off"
    /\ state' = [state EXCEPT ![s] = "on"]
    /\ symbols' = [symbols EXCEPT ![s] = IF enabled THEN {} ELSE Keys]
    /\ seen' = [seen EXCEPT ![s] = Snapshot]
    /\ UNCHANGED <<enabled, up, frames, last, mode, queue, pending, outSeq, dropped,
                   expected, lost, hist>>

\* The handler ends, the Subscriber with it; a next connection is a new one.
Disconnect(s) ==
    /\ state[s] # "off"
    /\ state' = [state EXCEPT ![s] = "off"]
    /\ symbols' = [symbols EXCEPT ![s] = {}]
    /\ mode' = [mode EXCEPT ![s] = "stream"]
    /\ queue' = [queue EXCEPT ![s] = <<>>]
    /\ pending' = [pending EXCEPT ![s] = NoPending]
    /\ outSeq' = [outSeq EXCEPT ![s] = 0] /\ dropped' = [dropped EXCEPT ![s] = 0]
    /\ expected' = [expected EXCEPT ![s] = Unset]
    /\ lost' = [lost EXCEPT ![s] = 0]
    /\ seen' = [seen EXCEPT ![s] = NoPending]
    /\ cleared' = [cleared EXCEPT ![s] = 0]
    /\ conflated' = [conflated EXCEPT ![s] = FALSE]
    /\ denied' = [denied EXCEPT ![s] = FALSE]
    /\ since' = [since EXCEPT ![s] = NoPending]
    /\ UNCHANGED <<enabled, up, frames, last>>

\* Entitlements.resolve: what a token (NoKey: none, or unknown) may see of the
\* request, {} standing for a request that names no symbol.
Granted(token, requested) ==
    IF ~enabled THEN (IF requested = {} THEN Keys ELSE requested)
    ELSE IF token = NoKey THEN {}
    ELSE IF requested = {} THEN Allowed[token] ELSE requested \cap Allowed[token]
Refused(token, requested) ==
    enabled /\ (token = NoKey \/ ~(requested \subseteq Allowed[token]))

\* The queue's items have another form in the other mode: start afresh.
ChangeMode(s, m) ==
    IF m = mode[s] THEN UNCHANGED <<mode, queue, pending, cleared, conflated>>
    ELSE /\ mode' = [mode EXCEPT ![s] = m]
         /\ queue' = [queue EXCEPT ![s] = <<>>]
         /\ pending' = [pending EXCEPT ![s] = NoPending]
         /\ cleared' = [cleared EXCEPT ![s] = @ + Len(queue[s])]
         /\ conflated' = [conflated EXCEPT ![s] = TRUE]

\* _apply_subscribe: the filter and the mode change, a refusal is answered by
\* an ACK with seq 0 past the queue.  No snapshot follows.
ApplySubscribe(s) ==
    /\ state[s] = "on"
    /\ \E t \in Tokens \cup {NoKey}, req \in SUBSET Keys, m \in Modes :
         /\ symbols' = [symbols EXCEPT ![s] = Granted(t, req)]
         /\ since' = [since EXCEPT ![s] = [k \in Keys |->
               IF k \in Granted(t, req) \ symbols[s] THEN last[k] ELSE @[k]]]
         /\ denied' = [denied EXCEPT ![s] = @ \/ Refused(t, req)]
         /\ IF Refused(t, req) THEN Observe(s, 0) ELSE UNCHANGED <<expected, lost>>
         /\ ChangeMode(s, m)
    /\ UNCHANGED <<enabled, up, frames, last, state, outSeq, dropped, seen>>

-----------------------------------------------------------------------------
(* _consume_one and _fanout.                                               *)

Receives(s, k) == state[s] = "on" /\ (k = NoKey \/ k \in symbols[s])
Numbered(s, k) == mode[s] = "stream" \/ k = NoKey
NeverMerges(s, k) == FALSE          \* mutant: the pending value is not looked up
Merges(s, k)   == ~Numbered(s, k) /\ pending[s][k] # 0
Overflows(s, k) ==
    Receives(s, k) /\ ~Merges(s, k) /\ Len(queue[s]) = QueueSize
\* _drop_overflowed: too many drops, the subscriber is cut off.
Kicked(s, k) == Overflows(s, k) /\ dropped[s] + 1 > DropLimit

Queued(s, k, v) ==
    LET room == IF Overflows(s, k) THEN Tail(queue[s]) ELSE queue[s]
        item == IF Numbered(s, k) THEN RawItem(outSeq[s], k, v) ELSE KeyItem(k)
    IN  CASE ~Receives(s, k) \/ Merges(s, k) -> queue[s]
          [] Kicked(s, k)                    -> room
          [] OTHER                           -> Append(room, item)

PendingFirst(s, k, v) ==            \* mutant: the value pending first is kept
    IF Receives(s, k) /\ ~Numbered(s, k) /\ ~Kicked(s, k) /\ ~Merges(s, k)
    THEN [pending[s] EXCEPT ![k] = v] ELSE pending[s]
Pended(s, k, v) ==
    IF Receives(s, k) /\ ~Numbered(s, k) /\ ~Kicked(s, k)
    THEN [pending[s] EXCEPT ![k] = v] ELSE pending[s]

NumberedGlobally(s, k) ==           \* mutant: filtered frames take a number
    IF state[s] = "on" /\ Numbered(s, k) THEN outSeq[s] + 1 ELSE outSeq[s]
NumberedTo(s, k) ==
    IF Receives(s, k) /\ Numbered(s, k) THEN outSeq[s] + 1 ELSE outSeq[s]

Fanout(k) ==
    /\ up /\ frames < MaxFrames
    /\ frames' = frames + 1
    /\ last' = IF k = NoKey THEN last ELSE [last EXCEPT ![k] = frames + 1]
    /\ queue' = [s \in Subs |-> Queued(s, k, frames + 1)]
    /\ pending' = [s \in Subs |-> Pended(s, k, frames + 1)]
    /\ outSeq' = [s \in Subs |-> NumberedTo(s, k)]
    /\ dropped' = [s \in Subs |-> IF Overflows(s, k) THEN dropped[s] + 1 ELSE dropped[s]]
    /\ state' = [s \in Subs |-> IF Kicked(s, k) THEN "closed" ELSE state[s]]
    /\ UNCHANGED <<enabled, up, symbols, mode, client, hist>>

-----------------------------------------------------------------------------
(* _send_loop: one item is taken, numbered if it is a key, and written.    *)

Written(s, item) ==
    LET k == item.key
        v == IF IsKey(item) THEN pending[s][k] ELSE item.ver
    IN  /\ Observe(s, IF IsKey(item) THEN outSeq[s] ELSE item.seq)
        /\ seen' = IF k = NoKey THEN seen ELSE [seen EXCEPT ![s][k] = v]

SendRequeues(s) ==                  \* mutant: a key waits for its next value at the end
    /\ state[s] # "off" /\ queue[s] # <<>>
    /\ LET item == Head(queue[s]) IN
         IF IsKey(item)
         THEN queue' = [queue EXCEPT ![s] = Append(Tail(@), item)] /\ UNCHANGED client
         ELSE queue' = [queue EXCEPT ![s] = Tail(@)] /\ Written(s, item)
    /\ UNCHANGED <<enabled, up, frames, last, state, symbols, mode, pending, outSeq, dropped, hist>>
Send(s) ==
    /\ state[s] # "off" /\ queue[s] # <<>>
    /\ LET item == Head(queue[s]) IN
         /\ queue' = [queue EXCEPT ![s] = Tail(@)]
         /\ IF IsKey(item) /\ pending[s][item.key] = 0     \* nothing pending: go on
            THEN UNCHANGED <<pending, outSeq, client>>
            ELSE /\ IF IsKey(item)
                    THEN /\ pending' = [pending EXCEPT ![s][item.key] = 0]
                         /\ outSeq' = [outSeq EXCEPT ![s] = @ + 1]
                    ELSE UNCHANGED <<pending, outSeq>>
                 \* what is written to a closing transport may go nowhere
                 /\ \/ Written(s, item)
                    \/ state[s] = "closed" /\ UNCHANGED client
    /\ UNCHANGED <<enabled, up, frames, last, state, symbols, mode, dropped, hist>>

\* run(): every connection is closed.
Stop ==
    /\ up
    /\ up' = FALSE
    /\ state' = [s \in Subs |-> IF state[s] = "on" THEN "closed" ELSE state[s]]
    /\ UNCHANGED <<enabled, frames, last, symbols, mode, queue, pending, outSeq,
                   dropped, client, hist>>

Stopped ==
    /\ ~up /\ \A s \in Subs : state[s] = "off"
    /\ UNCHANGED vars

Next ==
    \/ \E s \in Subs : Connect(s) \/ Disconnect(s) \/ ApplySubscribe(s) \/ Send(s)
    \/ \E k \in Keys \cup {NoKey} : Fanout(k)
    \/ Stop
    \/ Stopped

Spec == Init /\ [][Next]_vars

\* The subscribers in Fast keep reading, so their sender tasks get on.
CONSTANT Fast
FairSpec == Spec /\ \A s \in Fast : WF_vars(Send(s))

-----------------------------------------------------------------------------
(* Properties.                                                             *)

Items == [seq : Nat \cup {Unset}, key : Keys \cup {NoKey}, ver : Vers]

TypeOK ==
    /\ enabled \in BOOLEAN /\ up \in BOOLEAN /\ frames \in Vers /\ last \in [Keys -> Vers]
    /\ state \in [Subs -> {"off", "on", "closed"}]
    /\ symbols \in [Subs -> SUBSET Keys]
    /\ mode \in [Subs -> {"stream", "conflate"}]
    /\ queue \in [Subs -> Seq(Items)]
    /\ \A s \in Subs : Len(queue[s]) <= QueueSize
    /\ pending \in [Subs -> [Keys -> Vers]]
    /\ outSeq \in [Subs -> Nat] /\ dropped \in [Subs -> 0..(DropLimit + 1)]
    /\ expected \in [Subs -> Nat \cup {Unset}]
    /\ lost \in [Subs -> Nat]
    /\ seen \in [Subs -> [Keys -> Vers]] /\ cleared \in [Subs -> Nat]
    /\ conflated \in [Subs -> BOOLEAN]
    /\ denied \in [Subs -> BOOLEAN] /\ since \in [Subs -> [Keys -> Vers]]

InQueue(s, k, v) == \E i \in 1..Len(queue[s]) : queue[s][i].key = k /\ queue[s][i].ver = v

\* The latest frame of an instrument since a subscriber follows it was sent to
\* it or waits for it, in the queue or merged; otherwise something was dropped
\* and counted.  Snapshot and increments leave no hole.
NoHole ==
    \A s \in Subs, k \in Keys :
      state[s] = "on" /\ k \in symbols[s]
        => \/ last[k] \in {seen[s][k], pending[s][k], since[s][k]}
           \/ InQueue(s, k, last[k])
           \/ dropped[s] > 0 \/ cleared[s] > 0

\* Merging works: however often it changes, an instrument takes one place in
\* the queue of a conflating subscriber, in which nothing is left over from
\* its time as a streaming one.
OnePlacePerKey ==
    \A s \in Subs : \A i, j \in 1..Len(queue[s]) :
      /\ i < j /\ IsKey(queue[s][i]) => queue[s][i] # queue[s][j]
      /\ IsKey(queue[s][i]) \/ queue[s][i].key = NoKey \/ mode[s] = "stream"

\* The queues keep their bounds and their form through every change of mode,
\* merge, overflow and cut-off.
QueuesAreSound == TypeOK /\ OnePlacePerKey

\* A gap is a loss: a subscriber counts no more frames as lost than were
\* dropped from its queue, whatever is filtered out and whatever is refused,
\* as long as it has not been in conflate mode.  (There it may count more: a
\* heartbeat is numbered when it is queued and a merged key when it is sent,
\* though tcp_gateway.py:81 has gap detection valid in both modes.)
GapIsLoss ==
    \A s \in Subs : state[s] = "on" /\ ~conflated[s] => lost[s] <= dropped[s]

\* Gap detection misses nothing either: a subscriber that was sent a frame
\* before and has now been sent all that is queued for it knows the number of
\* the next one.  (A refusal's ACK is sent with number 0 and may disturb this.)
GapsAreSeen ==
    \A s \in Subs : state[s] = "on" /\ queue[s] = <<>> /\ ~denied[s] /\ cleared[s] = 0
      => expected[s] \in {Unset, outSeq[s]}

\* Gap detection is exact in both directions: what a client counts is a loss,
\* and what was lost before the number it is sent next it has counted.
GapsAreLosses == GapIsLoss /\ GapsAreSeen

\* A subscriber that reads gets the latest value of every instrument it follows,
\* however values are merged, unless something was dropped, which is counted.
FastIsServed ==
    \A s \in Fast, k \in Keys, v \in Vers \ {0} :
      state[s] = "on" /\ k \in symbols[s] /\ last[k] = v /\ v > since[s][k]
        ~> \/ seen[s][k] >= v
           \/ state[s] # "on" \/ dropped[s] > 0 \/ cleared[s] > 0
           \/ k \notin symbols[s]
=============================================================================
