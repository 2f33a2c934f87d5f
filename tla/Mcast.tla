------------------------------- MODULE Mcast -------------------------------
(***************************************************************************)
(* The multicast feed: mcast_publisher.cpp numbers the frames of the bus,  *)
(* sends them as UDP datagrams, keeps the last ring_ frames and answers on *)
(* a TCP recovery channel; McastSubscriber (mcast_client.py) joins first,  *)
(* takes a snapshot, restores the order and asks for what is missing. The  *)
(* datagrams may be lost, duplicated and reordered, the channel is FIFO    *)
(* and may be cut. A frame is its number; log says which key it carries.   *)
(***************************************************************************)
EXTENDS Naturals, Sequences, FiniteSets, SequencesExt, FiniteSetsExt

CONSTANTS Key, Nil,
          RingSize,        \* MDFEED_MCAST_RETRANS_BUFFER
          MaxPending,      \* MAX_PENDING, frames buffered before the snapshot
          MaxRange,        \* the 10000 frames one request may ask for
          PerDatagram,     \* frames that fit MDFEED_MCAST_MAX_DATAGRAM
          MaxBatch,        \* bound: frames read from the bus at once
          MaxData, MaxSeq, \* bounds: frames of the bus, all frames
          MaxFaults,       \* bound: datagrams lost or doubled, cuts of the channel
          MaxQueue         \* bound: messages on the channel when a request joins them

ASSUME McastAssumption ==
    /\ Nil \notin Key \cup Nat
    /\ {RingSize, MaxPending, MaxRange, PerDatagram, MaxBatch} \subseteq Nat \ {0}
    /\ {MaxData, MaxSeq, MaxFaults, MaxQueue} \subseteq Nat /\ MaxData < MaxSeq

VARIABLES
    log,      \* publisher: the key of each frame, Nil for a heartbeat; seq_ = Len(log)
    last,     \* publisher: last_, the newest frame of each key
    net,      \* datagrams under way, <<first, last>> number
    c2p, p2c, \* the recovery channel; {} is MSG_SUBSCRIBE, a set of ranges MSG_RETRANS
    phase,    \* subscriber: "off", "joined", "connected", "raised"
    sub,      \* subscriber: [expected, pending, seen, view, got, lost, first]
    faults    \* losses, duplicates and cuts so far

mcastVars == <<log, last, net, c2p, p2c, phase, sub, faults>>

seq == Len(log)
Oldest == IF seq > RingSize THEN seq - RingSize ELSE 0
NewestIn(k, lo, hi) == {s \in lo .. hi : log'[s + 1] = k}

McastInit ==
    /\ log = <<>> /\ last = [k \in Key |-> Nil] /\ net = {} /\ c2p = <<>> /\ p2c = <<>>
    /\ phase = "off" /\ faults = 0
    /\ sub = [expected |-> Nil, pending |-> {}, seen |-> {},
              view |-> [k \in Key |-> Nil], got |-> {}, lost |-> 0, first |-> Nil]

-----------------------------------------------------------------------------
(* The publisher. *)

\* flush_datagram when the next frame does not fit, and at the end of the batch.
Datagrams(lo, hi) ==
    {<<a, IF a + PerDatagram - 1 < hi THEN a + PerDatagram - 1 ELSE hi>> :
        a \in {b \in lo .. hi : (b - lo) % PerDatagram = 0}}

\* A datagram sent before the subscriber joined never reaches it.
Send(frames) ==
    /\ log' = log \o frames
    /\ last' = [k \in Key |-> LET new == NewestIn(k, seq, seq + Len(frames) - 1)
                              IN  IF new = {} THEN last[k] ELSE Max(new)]
    /\ net' = IF phase \in {"off", "raised"} THEN net ELSE net \cup Datagrams(seq, seq + Len(frames) - 1)
    /\ UNCHANGED <<c2p, p2c, phase, sub, faults>>

OnBus(frames) == seq + Len(frames) <= MaxData /\ Send(frames)
Heartbeat     == seq < MaxSeq /\ Send(<<Nil>>)

\* on_recovery_request: the snapshot is the newest frame of every key, then next_seq.
\* mutant: next_seq is one too many
SnapshotOffByOne ==
    <<[type |-> "snapshot", values |-> last, next |-> seq + 1]>>
Snapshot ==
    <<[type |-> "snapshot", values |-> last, next |-> seq]>>

\* The frames of the range that the ring still holds, then the acknowledgement,
\* which names the range as it was cut.
Retrans(from, upto) ==
    LET t1 == IF upto >= seq THEN (IF seq = 0 THEN 0 ELSE seq - 1) ELSE upto
        to == IF t1 - from + 1 > MaxRange THEN from + MaxRange - 1 ELSE t1
        lo == Max({from, Oldest})
    IN  Append([i \in 1 .. (IF to >= lo THEN to - lo + 1 ELSE 0) |->
                    [type |-> "frame", seq |-> lo + i - 1]],
               [type |-> "ack", from |-> from, to |-> to, oldest |-> Oldest,
                unavailable |-> IF from < Oldest THEN Min({Oldest, to + 1}) - from ELSE 0])

OnRecoveryRequest ==
    /\ c2p # <<>>
    /\ \/ /\ Head(c2p) = {} /\ c2p' = Tail(c2p)
          /\ p2c' = p2c \o Snapshot
       \/ \E g \in Head(c2p) :
             /\ \A h \in Head(c2p) : g[1] <= h[1]
             /\ c2p' = IF Head(c2p) = {g} THEN Tail(c2p) ELSE <<Head(c2p) \ {g}>> \o Tail(c2p)
             /\ p2c' = p2c \o Retrans(g[1], g[2])
    /\ UNCHANGED <<log, last, net, phase, sub, faults>>

\* The channel was closed by the publisher.
Cut == p2c # <<>> /\ Last(p2c).type = "eof"

\* drop_conn: an error, or more than 8 MB not yet sent.
DropConn ==
    /\ faults < MaxFaults /\ phase = "connected" /\ ~Cut
    /\ faults' = faults + 1
    /\ c2p' = <<>> /\ p2c' = Append(p2c, [type |-> "eof"])
    /\ UNCHANGED <<log, last, net, phase, sub>>

-----------------------------------------------------------------------------
(* The subscriber. *)

Join ==
    /\ phase = "off" /\ phase' = "joined"
    /\ UNCHANGED <<log, last, net, c2p, p2c, sub, faults>>
Connect ==
    /\ phase = "joined" /\ phase' = "connected"
    /\ c2p' = <<{}>>
    /\ UNCHANGED <<log, last, net, p2c, sub, faults>>

\* _deliver and _drain_pending: with p waiting, every frame of the unbroken run from e is
\* delivered, in order. (gap_seen_at keeps entries for delivered numbers, which nothing
\* reads again; seen forgets them.)
Advance(s, e, p) ==
    LET end == Min({n \in e .. MaxSeq : n \notin p})
    IN  [s EXCEPT !.expected = end, !.pending = p \ (e .. end - 1),
                  !.seen = {n \in @ : n >= end}, !.got = @ \cup e .. end - 1,
                  !.view = [k \in Key |-> LET new == {n \in e .. end - 1 : log[n + 1] = k}
                                          IN  IF new = {} THEN @[k] ELSE Max(new)]]

\* The runs of numbers that are missing between expected and upto.
Missing(s, upto) == {n \in 0 .. upto - 1 : n >= s.expected /\ n \notin s.pending}
Runs(S) == {<<a, Min({b \in S : b >= a /\ b + 1 \notin S})>> : a \in {n \in S : n - 1 \notin S}}

\* _request_missing: a gap seen for the first time waits, one that was seen is asked
\* for when its time has come (due: the gaps whose GAP_FILL_DELAY_S or, once asked for,
\* whose RETRANS_TIMEOUT_S is over; outstanding only holds those times).
RequestMissing(s, upto, due) ==
    LET gaps == Runs(Missing(s, upto))
    IN  [s    |-> [s EXCEPT !.seen = @ \cup {g[1] : g \in gaps}],
         asks |-> {g \in gaps : g[1] \in due \cap s.seen}]
Quiet(s) == [s |-> s, asks |-> {}]

\* _observe for the frames lo .. hi of a datagram, or for one frame (lo = hi) of the
\* channel: kept until the snapshot, known, next in turn, or ahead of expected.
Buffered(s, lo, hi) ==
    LET p == s.pending \cup lo .. hi
    IN  [s EXCEPT !.pending = {n \in p : Cardinality({q \in p : q > n}) < MaxPending}]
Observe(s, lo, hi) ==
    CASE s.expected = Nil -> Buffered(s, lo, hi)
      [] s.expected # Nil /\ hi < s.expected -> s
      [] s.expected # Nil /\ lo <= s.expected /\ s.expected <= hi ->
            Advance(s, s.expected, s.pending \cup s.expected .. hi)
      [] OTHER -> [s EXCEPT !.pending = @ \cup lo .. hi]

\* A frame ahead of expected asks for what is missing before it.
Handle(lo, hi, due) ==
    LET ahead == IF sub.expected = Nil THEN FALSE ELSE lo > sub.expected
        s     == Observe(sub, lo, hi)
    IN  IF ahead THEN RequestMissing(s, lo, due) ELSE Quiet(s)

\* A handler ends: sub is its result, what it asked for is on the channel (the requests
\* it sent at once are one message, which the publisher takes from the lowest).
Ends(result) ==
    \E r \in {result} :
        /\ sub' = r.s
        /\ r.asks # {} => Len(c2p) + Len(p2c) < MaxQueue
        /\ c2p' = IF Cut \/ r.asks = {} THEN c2p ELSE Append(c2p, r.asks)

Due == SUBSET sub.seen

\* _on_udp: the datagram arrives; a duplicate of it may still be under way.
OnUdp(d, dup, due) ==
    /\ phase \in {"joined", "connected"} /\ d \in net
    /\ dup => faults < MaxFaults
    /\ net' = IF dup THEN net ELSE net \ {d}
    /\ faults' = IF dup THEN faults + 1 ELSE faults
    /\ phase = "joined" => due = {}
    /\ Ends(Handle(d[1], d[2], due))
    /\ UNCHANGED <<log, last, p2c, phase>>

Lose(d) ==
    /\ d \in net /\ d[2] < MaxSeq - 1 /\ faults < MaxFaults
    /\ net' = net \ {d} /\ faults' = faults + 1
    /\ UNCHANGED <<log, last, c2p, p2c, phase, sub>>

\* The snapshot: its values are given to the application, increments before next_seq are
\* dropped, the rest is drained.
OnSnapshot(m, due) ==
    LET s == Advance([sub EXCEPT !.view = m.values, !.first = m.next],
                     m.next, {n \in sub.pending : n >= m.next})
    IN  IF s.pending = {} THEN Quiet(s) ELSE RequestMissing(s, Min(s.pending), due)

\* An acknowledgement: what the ring no longer has is counted and skipped.
OnAck(m) ==
    IF m.unavailable = 0 \/ sub.expected = Nil \/ sub.expected >= m.oldest THEN sub
    ELSE Advance([sub EXCEPT !.lost = @ + (m.oldest - sub.expected)], m.oldest, sub.pending)

OnTcp(due) ==
    /\ phase = "connected" /\ p2c # <<>> /\ p2c' = Tail(p2c)
    /\ LET m == Head(p2c)
       IN  \/ m.type = "snapshot" /\ Ends(OnSnapshot(m, due))
           \/ m.type = "ack" /\ Ends(Quiet(OnAck(m)))
           \/ m.type = "frame" /\ Ends(Handle(m.seq, m.seq, due))
    /\ UNCHANGED <<log, last, net, phase, faults>>

\* run() raises ConnectionError and the sockets are closed.
OnEof ==
    /\ phase = "connected" /\ p2c = <<[type |-> "eof"]>>
    /\ phase' = "raised" /\ p2c' = <<>> /\ net' = {}
    /\ UNCHANGED <<log, last, c2p, sub, faults>>

\* The end of an iteration of run(): ask again for what is still missing.
\* mutant: the loop waits for the next datagram instead
PollNothing(due) == FALSE
Poll(due) ==
    /\ phase = "connected" /\ sub.expected # Nil /\ sub.pending # {}
    /\ Ends(RequestMissing(sub, Max(sub.pending), due))
    /\ UNCHANGED <<log, last, net, p2c, phase, faults>>

-----------------------------------------------------------------------------
Batches == UNION {[1 .. n -> Key] : n \in 1 .. MaxBatch}

McastNext ==
    \/ \E frames \in Batches : OnBus(frames)
    \/ Heartbeat \/ OnRecoveryRequest \/ DropConn \/ Join \/ Connect \/ OnEof
    \/ \E d \in net : Lose(d) \/ \E dup \in BOOLEAN, due \in Due : OnUdp(d, dup, due)
    \/ \E due \in Due : OnTcp(due) \/ Poll(due)

\* The poll loop of the publisher turns and its clock makes it send heartbeats; the
\* subscriber's select returns what has arrived, and its timers run out.
Fairness ==
    /\ WF_mcastVars(Heartbeat) /\ WF_mcastVars(OnRecoveryRequest)
    /\ WF_mcastVars(Join) /\ WF_mcastVars(Connect)
    /\ WF_mcastVars(\E d \in net : OnUdp(d, FALSE, {}))
    /\ WF_mcastVars(OnTcp({})) /\ WF_mcastVars(OnEof) /\ WF_mcastVars(Poll(sub.seen))

McastSpec == McastInit /\ [][McastNext]_mcastVars /\ Fairness

-----------------------------------------------------------------------------
FrameNumbers == 0 .. MaxSeq

\* Types, and that a datagram names frames that were published.
StreamTypes ==
    /\ log \in Seq(Key \cup {Nil}) /\ seq <= MaxSeq
    /\ last \in [Key -> FrameNumbers \cup {Nil}]
    /\ net \subseteq FrameNumbers \X FrameNumbers /\ \A d \in net : d[1] <= d[2] /\ d[2] < seq
    /\ phase \in {"off", "joined", "connected", "raised"}
    /\ sub.expected \in FrameNumbers \cup {Nil} /\ sub.pending \subseteq 0 .. seq - 1
    /\ sub.seen \subseteq FrameNumbers
    /\ sub.view \in [Key -> FrameNumbers \cup {Nil}] /\ sub.got \subseteq 0 .. seq - 1 /\ sub.lost \in Nat

\* What the application was given is what the publisher's cache held when it had
\* published the frames up to expected: the snapshot joins the increments without a
\* frame missing, applied twice or applied out of order (as long as no frame was lost).
ViewIsCurrent ==
    sub.expected # Nil /\ sub.lost = 0 =>
        \A k \in Key : LET seen == {n \in 0 .. seq - 1 : n < sub.expected /\ log[n + 1] = k}
                       IN  sub.view[k] = (IF seen = {} THEN Nil ELSE Max(seen))

\* Every number since the snapshot was delivered or counted in stats.unrecoverable,
\* never both, and what was counted had left the retransmission buffer.
LossesAccounted ==
    sub.expected # Nil =>
        LET skipped == (sub.first .. sub.expected - 1) \ sub.got
        IN  /\ sub.got \subseteq sub.first .. sub.expected - 1
            /\ Cardinality(skipped) = sub.lost
            /\ \A n \in skipped : n < Oldest

\* The subscriber has in order what was published, or has counted what it has not.
StreamIsSound == StreamTypes /\ ViewIsCurrent /\ LossesAccounted

\* Whatever is lost, doubled or reordered, the subscriber ends up with everything that
\* was published, unless the recovery channel was cut.
SubscriberCatchesUp == <>[](phase = "raised" \/ sub.expected = seq)
=============================================================================
