----------------------------- MODULE CppGateway -----------------------------
(***************************************************************************)
(* cpp/src/tcp_gateway.cpp on event_loop.hpp: one thread that waits for    *)
(* events, handles them and then closes the subscribers that are to go.    *)
(* A batch of the bus is fanned out frame by frame and then written to     *)
(* every subscriber; a socket that is full is written to again when the    *)
(* loop says so, which it does only while write interest is registered.    *)
(* A frame is a key (None for a heartbeat) and the count of its arrival.   *)
(***************************************************************************)
EXTENDS Naturals, Sequences, FiniteSets, SequencesExt, FiniteSetsExt

CONSTANTS Sub, Key, None,
          Token,           \* tokens of the entitlements file, {}: the check is off
          AllowedKeys,         \* token -> keys
          client_queue, drop_limit, drain_s,
          Coalesce,        \* COALESCE_BYTES, in frames
          SockBuf,         \* frames the kernel takes for a subscriber
          MaxIn, MaxBatch, MaxRequests, MaxFaults   \* bounds

ASSUME CppAssumption ==
    /\ None \notin Key \cup Token \cup Sub \cup Nat /\ AllowedKeys \in [Token -> SUBSET Key]
    /\ {client_queue, Coalesce, SockBuf, MaxBatch} \subseteq Nat \ {0}
    /\ {drop_limit, drain_s, MaxIn, MaxRequests, MaxFaults} \subseteq Nat

VARIABLES
    at,        \* where the loop is: "body", "wait" or "exited"
    g_stop, draining, drainOver,
    listening, \* "armed", "backoff" (out of descriptors), "closed"
    bus,       \* "down", "connecting", "up"
    frames_in,    \* frames_in_
    last_,      \* last_: key -> count of its newest frame, 0 for none
    subs,      \* subs_: see NewSub; state "new" before, "gone" after
    toClose,   \* to_close_
    wire,      \* what the kernel holds for each subscriber
    reader,    \* what the subscriber saw: [next, gaps, view]
    requests, faults,
    unsent     \* history: subscribers with frames of a batch that was left unwritten

loop == <<at, g_stop, draining, drainOver, listening, bus>>
cppVars == <<loop, frames_in, last_, subs, toClose, wire, reader, requests, faults, unsent>>

Enabled == Token # {}
NoValues == [k \in Key |-> 0]
\* granted, lost and since are histories: keys the subscriber was ever granted, numbered
\* frames that were thrown away, and the newest values when the filter was last set.
NewSub == [state |-> "new", symbols |-> IF Enabled THEN {} ELSE Key, conflate |-> FALSE,
           queue |-> <<>>, pending |-> NoValues, wbuf |-> <<>>, out |-> 0, dropped |-> 0,
           armed |-> FALSE, granted |-> IF Enabled THEN {} ELSE Key, lost |-> 0,
           since |-> NoValues]

CppInit ==
    /\ at = "body" /\ g_stop = FALSE /\ draining = FALSE /\ drainOver = FALSE
    /\ listening = "armed" /\ bus = "down" /\ frames_in = 0 /\ last_ = NoValues
    /\ subs = [s \in Sub |-> NewSub] /\ toClose = {}
    /\ wire = [s \in Sub |-> <<>>]
    /\ reader = [s \in Sub |-> [next |-> 0, gaps |-> 0, view |-> NoValues]]
    /\ requests = 0 /\ faults = 0 /\ unsent = {}

Open == {s \in Sub : subs[s].state = "on"}
Frame(n, k, v) == [num |-> n, key |-> k, ver |-> v]
Backlog(b) == b.wbuf # <<>> \/ b.queue # <<>>

\* arm_sub: write interest exactly while something is left to send.
Arm(b) == [b EXCEPT !.armed = Backlog(b)]

-----------------------------------------------------------------------------
(* Fanning a frame out. *)

\* drop_overflowed: the oldest item goes, in conflate mode with its value.
\* mutant: the value stays in pending
DropKeeping(b) == [b EXCEPT !.queue = Tail(@), !.dropped = @ + 1,
                            !.lost = IF b.conflate THEN @ ELSE @ + 1]
Drop(b) ==
    LET k == Head(b.queue).key
    IN  [b EXCEPT !.queue = Tail(@), !.dropped = @ + 1,
                  !.pending = IF b.conflate /\ k # None THEN [@ EXCEPT ![k] = 0] ELSE @,
                  !.lost = IF b.conflate THEN @ ELSE @ + 1]
Over(b)   == Len(b.queue) >= client_queue
Doomed(b) == b.dropped > drop_limit

\* The number of a frame is given when it is queued in stream mode, also when the frame
\* is then not queued because the subscriber is to be closed.
Push(b, f) ==
    LET d == IF Over(b) THEN Drop(b) ELSE b
    IN  IF Over(b) /\ Doomed(d)
        THEN [d EXCEPT !.out = IF b.conflate THEN @ ELSE @ + 1,
                       !.lost = IF b.conflate THEN @ ELSE @ + 1]
        ELSE IF b.conflate
             THEN [d EXCEPT !.queue = Append(@, Frame(0, f.key, IF f.key = None THEN f.ver ELSE 0)),
                            !.pending = IF f.key = None THEN @ ELSE [@ EXCEPT ![f.key] = f.ver]]
             ELSE [d EXCEPT !.queue = Append(@, Frame(b.out, f.key, f.ver)), !.out = @ + 1]

FanoutTo(b, f) ==
    IF f.key = None THEN Push(b, f)
    ELSE IF f.key \notin b.symbols THEN b
    ELSE IF b.conflate /\ b.pending[f.key] # 0 THEN [b EXCEPT !.pending[f.key] = f.ver]
    ELSE Push(b, f)

\* A subscriber in to_close_ is passed over, also when this batch put it there.
FanoutAll(s, batch) ==
    LET after[n \in 0 .. Len(batch)] ==
          IF n = 0 THEN subs[s]
          ELSE LET b == after[n - 1]
               IN  IF s \in toClose \/ Doomed(b) THEN b ELSE FanoutTo(b, batch[n])
    IN  after[Len(batch)]

-----------------------------------------------------------------------------
(* Writing. *)

\* A queued item as it is encoded: in conflate mode with the value of this moment and
\* the next number.
Encode(b, i) ==
    LET q == b.queue[i]
    IN  IF ~b.conflate THEN q
        ELSE Frame(b.out + i - 1, q.key, IF q.key = None THEN q.ver ELSE b.pending[q.key])

\* flush: fill wbuf with up to Coalesce frames when it is empty, send, and go on until
\* the queue is empty or the socket (room frames) takes no more.
Flush(b, room) ==
    LET rest  == IF room < Len(b.wbuf) THEN 0 ELSE (room - Len(b.wbuf)) \div Coalesce + 1
        moved == Min({Len(b.queue), rest * Coalesce})
        buf   == b.wbuf \o [i \in 1 .. moved |-> Encode(b, i)]
        sent  == Min({room, Len(buf)})
        keys  == {b.queue[i].key : i \in 1 .. moved}
    IN  [b |-> [b EXCEPT !.wbuf = SubSeq(buf, sent + 1, Len(buf)),
                         !.queue = SubSeq(@, moved + 1, Len(@)),
                         !.out = IF b.conflate THEN @ + moved ELSE @,
                         !.pending = [k \in Key |-> IF k \in keys THEN 0 ELSE @[k]]],
         sent |-> SubSeq(buf, 1, sent)]

SockRoom(s) == SockBuf - Len(wire[s])

\* Subscriber s becomes b, is flushed and armed.
FlushArm(s, b) ==
    \E r \in {Flush(b, SockRoom(s))} :
        /\ subs' = [subs EXCEPT ![s] = Arm(r.b)]
        /\ wire' = [wire EXCEPT ![s] = @ \o r.sent]

-----------------------------------------------------------------------------
(* Events, handled between the return of the wait and EndWait. *)

ConnectBus ==
    /\ at = "wait" /\ bus = "connecting" /\ bus' = "up"
    /\ UNCHANGED <<at, g_stop, draining, drainOver, listening, frames_in, last_, subs, toClose,
                   wire, reader, requests, faults, unsent>>

\* schedule_retry: the connection fails or is closed; the parser starts afresh.
BusFails ==
    /\ at = "wait" /\ bus # "down" /\ faults < MaxFaults
    /\ bus' = "down" /\ faults' = faults + 1
    /\ UNCHANGED <<at, g_stop, draining, drainOver, listening, frames_in, last_, subs, toClose,
                   wire, reader, requests, unsent>>

\* on_frame for every frame of a batch: each becomes the newest of its key.
BatchOf(keys) == [i \in DOMAIN keys |-> Frame(0, keys[i], frames_in + i)]
Arrive(keys) ==
    LET newest(k) == {i \in DOMAIN keys : keys[i] = k}
    IN  /\ frames_in + Len(keys) <= MaxIn /\ frames_in' = frames_in + Len(keys)
        /\ last_' = [k \in Key |-> IF newest(k) = {} THEN last_[k] ELSE frames_in + Max(newest(k))]

\* on_bus: the batch is fanned out, then every subscriber is written to once.
OnBus(keys) ==
    /\ at = "wait" /\ bus = "up" /\ Arrive(keys)
    /\ \E full \in {[s \in Open |-> FanoutAll(s, BatchOf(keys))]} :
       \E r \in {[s \in Open |-> Flush(full[s], SockRoom(s))]} :
          /\ subs' = [s \in Sub |-> IF s \in Open THEN Arm(r[s].b) ELSE subs[s]]
          /\ wire' = [s \in Sub |-> IF s \in Open THEN wire[s] \o r[s].sent ELSE wire[s]]
          /\ toClose' = toClose \cup {s \in Open : Doomed(full[s])}
    /\ unsent' = {}
    /\ UNCHANGED <<loop, reader, requests, faults>>

\* on_bus when a batch ends in an empty read or an error: what was read is fanned out,
\* but schedule_retry returns before the writing and before arm_sub.
OnBusCut(keys) ==
    /\ at = "wait" /\ bus = "up" /\ faults < MaxFaults /\ Arrive(keys)
    /\ bus' = "down" /\ faults' = faults + 1
    /\ \E full \in {[s \in Open |-> FanoutAll(s, BatchOf(keys))]} :
          /\ subs' = [s \in Sub |-> IF s \in Open THEN full[s] ELSE subs[s]]
          /\ toClose' = toClose \cup {s \in Open : Doomed(full[s])}
          /\ unsent' = unsent \cup {s \in Open : Backlog(full[s]) /\ ~full[s].armed}
    /\ UNCHANGED <<at, g_stop, draining, drainOver, listening, wire, reader, requests>>

\* accept_sub: the snapshot of what the filter lets through is the first thing written.
SnapshotOf(b) ==
    [num |-> None, key |-> None, ver |-> [k \in Key |-> IF k \in b.symbols THEN last_[k] ELSE 0]]
AcceptSub(s) ==
    /\ at = "wait" /\ listening = "armed" /\ subs[s].state = "new"
    /\ FlushArm(s, [NewSub EXCEPT !.state = "on", !.wbuf = <<SnapshotOf(NewSub)>>])
    /\ UNCHANGED <<loop, frames_in, last_, toClose, reader, requests, faults, unsent>>
AcceptFails ==
    /\ at = "wait" /\ listening = "armed" /\ faults < MaxFaults
    /\ listening' = "backoff" /\ faults' = faults + 1
    /\ UNCHANGED <<at, g_stop, draining, drainOver, bus, frames_in, last_, subs, toClose, wire,
                   reader, requests, unsent>>

\* apply_subscribe: what a token may see of what it asks for ({}: everything), a refusal
\* that says so, and a change of mode that empties the queues.
Grant(t, want) ==
    IF ~Enabled THEN IF want = {} THEN Key ELSE want
    ELSE IF t = None THEN {} ELSE IF want = {} THEN AllowedKeys[t] ELSE want \cap AllowedKeys[t]
Denied(t, want) == Enabled /\ (t = None \/ want \ Grant(t, want) # {})
Denial == [num |-> None, key |-> None, ver |-> NoValues]

Applied(b, t, want, conflate) ==
    LET switch == conflate # b.conflate
    IN  [b EXCEPT !.symbols = Grant(t, want), !.granted = @ \cup Grant(t, want), !.since = last_,
                  !.wbuf = IF Denied(t, want) THEN Append(@, Denial) ELSE @,
                  !.conflate = conflate,
                  !.queue = IF switch THEN <<>> ELSE @,
                  !.pending = IF switch THEN NoValues ELSE @,
                  !.lost = IF switch /\ ~b.conflate THEN @ + Len(b.queue) ELSE @]
\* on_sub with a request, then arm_sub.
\* mutant: the request is handled and write interest stays as it was
SubscribeUnarmed(s, t, want, conflate) ==
    /\ at = "wait" /\ s \in Open /\ requests < MaxRequests /\ requests' = requests + 1
    /\ subs' = [subs EXCEPT ![s] = Applied(@, t, want, conflate)]
    /\ unsent' = unsent \ {s}
    /\ UNCHANGED <<loop, frames_in, last_, toClose, wire, reader, faults>>
Subscribe(s, t, want, conflate) ==
    /\ at = "wait" /\ s \in Open /\ requests < MaxRequests /\ requests' = requests + 1
    /\ subs' = [subs EXCEPT ![s] = Arm(Applied(@, t, want, conflate))]
    /\ unsent' = unsent \ {s}
    /\ UNCHANGED <<loop, frames_in, last_, toClose, wire, reader, faults>>

\* on_sub: the socket takes data again.
Writable(s) ==
    /\ at = "wait" /\ s \in Open /\ subs[s].armed /\ SockRoom(s) > 0
    /\ FlushArm(s, subs[s]) /\ unsent' = unsent \ {s}
    /\ UNCHANGED <<loop, frames_in, last_, toClose, reader, requests, faults>>

\* on_sub: the peer closed, or an error.
HangUp(s) ==
    /\ at = "wait" /\ s \in Open \ toClose /\ faults < MaxFaults
    /\ toClose' = toClose \cup {s} /\ faults' = faults + 1
    /\ UNCHANGED <<loop, frames_in, last_, subs, wire, reader, requests, unsent>>

-----------------------------------------------------------------------------
(* The loop. *)

\* on_signal.
Signal ==
    /\ at # "exited" /\ ~g_stop /\ g_stop' = TRUE
    /\ UNCHANGED <<at, draining, drainOver, listening, bus, frames_in, last_, subs, toClose,
                   wire, reader, requests, faults, unsent>>
DrainTimePasses ==
    /\ draining /\ ~drainOver /\ drainOver' = TRUE
    /\ UNCHANGED <<at, g_stop, draining, listening, bus, frames_in, last_, subs, toClose,
                   wire, reader, requests, faults, unsent>>

Gone(S) == [s \in Sub |-> IF s \in S THEN [NewSub EXCEPT !.state = "gone"] ELSE subs[s]]

\* The end of an iteration and the condition of the next: the subscribers in to_close_
\* go, and the loop ends, with shutdown(), if the signal has come and no drain has begun.
EndWait ==
    /\ at = "wait"
    /\ LET exit == g_stop /\ ~draining
       IN  /\ at' = IF exit THEN "exited" ELSE "body"
           /\ subs' = Gone(IF exit THEN Open ELSE toClose)
    /\ toClose' = {}
    /\ UNCHANGED <<g_stop, draining, drainOver, listening, bus, frames_in, last_, wire, reader,
                   requests, faults, unsent>>

\* The top of an iteration: begin or end the drain, connect to the bus, arm the listener.
LoopBody ==
    /\ at = "body"
    /\ draining' = g_stop
    /\ LET exit == g_stop /\ (drain_s = 0 \/ drainOver \/ Open = {})
       IN  /\ at' = IF exit THEN "exited" ELSE "wait"
           /\ subs' = IF exit THEN Gone(Open) ELSE subs
    /\ listening' \in IF g_stop THEN {"closed"} ELSE {"armed", listening}
    /\ bus' = IF bus = "down" THEN "connecting" ELSE bus
    /\ UNCHANGED <<g_stop, drainOver, frames_in, last_, toClose, wire, reader, requests, faults, unsent>>

-----------------------------------------------------------------------------
(* The subscriber's end: it reads what the kernel holds. *)

\* A notice brings the newer value of every key, a frame the value of one.
Seen(c, f) ==
    IF f.num = None
    THEN [c EXCEPT !.view = [k \in Key |-> Max({c.view[k], f.ver[k]})]]
    ELSE [next |-> f.num + 1, gaps |-> c.gaps + f.num - c.next,
          view |-> IF f.key = None THEN c.view ELSE [c.view EXCEPT ![f.key] = f.ver]]

Read(s) ==
    /\ wire[s] # <<>> /\ wire' = [wire EXCEPT ![s] = Tail(@)]
    /\ reader' = [reader EXCEPT ![s] = Seen(@, Head(wire[s]))]
    /\ UNCHANGED <<loop, frames_in, last_, subs, toClose, requests, faults, unsent>>

Batches == UNION {[1 .. n -> Key \cup {None}] : n \in 1 .. MaxBatch}

CppNext ==
    \/ ConnectBus \/ BusFails \/ (\E keys \in Batches : OnBus(keys) \/ OnBusCut(keys))
    \/ AcceptFails \/ Signal \/ DrainTimePasses \/ EndWait \/ LoopBody
    \/ \E s \in Sub :
         \/ AcceptSub(s) \/ Writable(s) \/ HangUp(s) \/ Read(s)
         \/ \E t \in Token \cup {None}, want \in SUBSET Key, c \in BOOLEAN : Subscribe(s, t, want, c)

\* The loop turns, the events it is told of are handled and the subscribers read.
Fairness ==
    /\ WF_cppVars(EndWait) /\ WF_cppVars(LoopBody) /\ WF_cppVars(DrainTimePasses)
    /\ \A s \in Sub : SF_cppVars(Writable(s)) /\ WF_cppVars(Read(s))

CppSpec == CppInit /\ [][CppNext]_cppVars /\ Fairness

-----------------------------------------------------------------------------
\* What is under way to s, oldest first. In conflate mode a queued item has no number
\* and no value of its own yet.
UnderWay(s) == wire[s] \o subs[s].wbuf \o (IF subs[s].conflate THEN <<>> ELSE subs[s].queue)
WithNumber(u) == {i \in DOMAIN u : u[i].num # None}

\* Types, and the bounds of the queue and of the drops.
CppTypes ==
    /\ at \in {"body", "wait", "exited"} /\ listening \in {"armed", "backoff", "closed"}
    /\ bus \in {"down", "connecting", "up"} /\ last_ \in [Key -> 0 .. frames_in]
    /\ toClose \subseteq Open /\ unsent \subseteq Sub
    /\ \A s \in Sub :
         /\ subs[s].state \in {"new", "on", "gone"} /\ subs[s].symbols \subseteq Key
         /\ Len(subs[s].queue) <= client_queue /\ Len(wire[s]) <= SockBuf
         /\ subs[s].pending \in [Key -> 0 .. frames_in]
         /\ Doomed(subs[s]) => s \in toClose

\* The numbers a subscriber reads rise without a repeat, and those that are missing are
\* the frames that were thrown away for it (overflow, or the queue of the mode it left).
NumbersAccounted ==
    \A s \in Open :
        LET u == UnderWay(s)
        IN  /\ \A i \in WithNumber(u) : u[i].num >= reader[s].next /\ u[i].num < subs[s].out
            /\ \A i, j \in WithNumber(u) : i < j => u[i].num < u[j].num
            /\ subs[s].out =
                 reader[s].next - reader[s].gaps + Cardinality(WithNumber(u)) + subs[s].lost

\* In conflate mode every key with a value waiting has exactly one place in the queue,
\* and every place a value: no update is sent twice or never (drop_overflowed, flush).
OneWaitingPerKey ==
    \A s \in Open : \A k \in Key :
        subs[s].conflate =>
            Cardinality({i \in DOMAIN subs[s].queue : subs[s].queue[i].key = k}) =
                IF subs[s].pending[k] = 0 THEN 0 ELSE 1

\* The value of key k in what is written: a snapshot has one of every key.
Brings(f, k) == IF f.num = None THEN f.ver[k] ELSE IF f.key = k THEN f.ver ELSE 0

\* As long as nothing was dropped, the newest value of a key that passes the filter is
\* with the subscriber or on its way: snapshot and increments join without a hole, and
\* conflation never loses the last update.
NewestIsUnderWay ==
    \A s \in Open \ toClose : \A k \in subs[s].symbols :
        subs[s].dropped = 0 /\ last_[k] > subs[s].since[k] =>
            \/ reader[s].view[k] = last_[k] \/ subs[s].pending[k] = last_[k]
            \/ \E i \in DOMAIN UnderWay(s) : Brings(UnderWay(s)[i], k) = last_[k]

\* A subscriber is sent no key that its tokens never covered, not in the snapshot either.
EntitledOnly ==
    \A s \in Open : \A k \in Key \ subs[s].granted :
        /\ reader[s].view[k] = 0 /\ subs[s].pending[k] = 0
        /\ \A f \in Range(wire[s] \o subs[s].wbuf \o subs[s].queue) :
              f.key # k /\ (f.num = None => f.ver[k] = 0)

\* Numbers, queues, values and rights of the subscribers through fan-out, overflow,
\* change of mode, partial writes and cut-off.
SubscribersAreSound ==
    CppTypes /\ NumbersAccounted /\ OneWaitingPerKey /\ NewestIsUnderWay /\ EntitledOnly

\* What waits for a subscriber that reads is sent, or the subscriber is closed (cut off,
\* hung up, or the process ends): write interest is never forgotten but by on_bus when
\* the bus breaks off behind a batch, whose frames wait for the next batch or request.
BacklogIsSent ==
    \A s \in Sub :
        (s \in Open /\ Backlog(subs[s]))
            ~> (subs[s].state = "gone" \/ ~Backlog(subs[s]) \/ s \in unsent)

\* After SIGTERM the process ends, with or without its drain: no subscriber that does not
\* read holds it up.
SignalEnds == g_stop ~> at = "exited"

\* The event loop gets on: neither a backlog nor a signal waits for ever.
LoopGetsOn == BacklogIsSent /\ SignalEnds

\* tcp_gateway.cpp:24 says that after SIGTERM those subscribed already are served for
\* MDFEED_DRAIN_SECONDS: the process ends before only if nobody is left.
DrainIsKept ==
    [][at # "exited" /\ at' = "exited" => drain_s = 0 \/ drainOver \/ Open = {}]_cppVars
=============================================================================
