-------------------------------- MODULE Bus --------------------------------
(***************************************************************************)
(* The message bus: UDSPublisher (bus.py) keeps a bounded queue for its    *)
(* subscriber, UDSSubscriber and, in C++, BusSubscriber reconnect for ever *)
(* and cut the byte stream into frames with FrameParser (protocol.py,      *)
(* protocol.hpp). A frame on the socket is two cells, its "head" and its   *)
(* "rest"; a connection that breaks may end after a head, and that head is *)
(* then a "stub" in front of what the next connection brings.              *)
(***************************************************************************)
EXTENDS Naturals, Sequences, FiniteSets, SequencesExt

CONSTANTS Body,            \* what a frame carries
          QueueSize,       \* bus_queue_size, frames kept for a subscriber
          PipeSize,        \* cells the socket holds before drain() waits
          Span,            \* bound: cells a header joined with a stub may ask for
          MaxFrames, MaxFaults    \* bounds: frames published, failures

ASSUME BusAssumption == {QueueSize, PipeSize, Span} \subseteq Nat \ {0} /\ {MaxFrames, MaxFaults} \subseteq Nat

VARIABLES
    pub,     \* publisher: [up, epoch, seq, made, joined, dropped]; joined and dropped
             \* are what it had made when the subscriber was registered, and dropped since
    conn,    \* "none", "open" (connected, handler not run), "served" (its queue is
             \* registered), "ended"
    queue,   \* the subscriber's queue at the publisher
    stat,    \* the entry of the subscriber in _stats: [named (it is there), dropped,
             \* since (history: what the publisher had dropped when it was made)]
    pipe,    \* cells on the socket
    buf,     \* FrameParser._buf
    kept,    \* UDSSubscriber keeps its parser over connections, BusSubscriber does not
    source,  \* SourceTracker.state: [connected, restarts]
    seqs,    \* SequenceTracker: [expected, lost, duplicate], None before the first frame
    got,     \* the serial numbers of the frames given to the consumer
    fed,     \* frames whose bytes all reached the parser and that were not given on yet
    faults

busVars == <<pub, conn, queue, stat, pipe, buf, kept, source, seqs, got, fed, faults>>

Frame == [id : 1 .. MaxFrames, seq : 0 .. MaxFrames, body : Body]
NoStat == [named |-> FALSE, dropped |-> 0, since |-> 0]
Cells(f) == <<[f |-> f, part |-> "head", need |-> 0], [f |-> f, part |-> "rest", need |-> 0]>>

\* FeedDaemon._publish: the frame of a message gets the next number
NextFrame(b) == [id |-> pub.made + 1, seq |-> pub.seq, body |-> b]

BusInit ==
    /\ pub = [up |-> TRUE, epoch |-> 0, seq |-> 0, made |-> 0, joined |-> 0, dropped |-> 0]
    /\ conn = "none" /\ queue = <<>> /\ pipe = <<>> /\ buf = <<>> /\ kept \in BOOLEAN
    /\ stat = NoStat
    /\ source = [connected |-> FALSE, restarts |-> 0]
    /\ seqs = [expected |-> 0, lost |-> 0, duplicate |-> 0, started |-> FALSE]
    /\ got = <<>> /\ fed = {} /\ faults = 0

-----------------------------------------------------------------------------
(* The publisher. *)

\* UDSPublisher.publish: a full queue loses its oldest frame. The publisher counts
\* it, and so does the statistic of the subscriber if there is one yet.
Publish(b) ==
    /\ pub.up /\ pub.made < MaxFrames
    /\ LET f    == NextFrame(b)
           full == conn = "served" /\ Len(queue) = QueueSize
       IN  /\ queue' = IF conn # "served" THEN queue
                       ELSE Append(IF full THEN Tail(queue) ELSE queue, f)
           /\ pub' = [pub EXCEPT !.made = @ + 1, !.seq = @ + 1,
                                 !.dropped = IF full THEN @ + 1 ELSE @]
           /\ stat' = [stat EXCEPT !.dropped = IF full /\ stat.named THEN @ + 1 ELSE @]
    /\ UNCHANGED <<conn, pipe, buf, kept, source, seqs, got, fed, faults>>

\* _handle up to its await: from here on publish puts frames in the queue.
Handle ==
    /\ conn = "open" /\ conn' = "served" /\ queue' = <<>>
    /\ pub' = [pub EXCEPT !.joined = pub.made, !.dropped = 0]
    /\ stat' = NoStat
    /\ UNCHANGED <<pipe, buf, kept, source, seqs, got, fed, faults>>

\* _read_name has its line, or its two seconds are over: only now the subscriber
\* has a statistic, and its frames are written.
Named ==
    /\ conn = "served" /\ ~stat.named
    /\ stat' = [named |-> TRUE, dropped |-> 0, since |-> pub.dropped]
    /\ UNCHANGED <<pub, conn, queue, pipe, buf, kept, source, seqs, got, fed, faults>>

\* The loop of _handle; drain() waits while the socket is full.
Write ==
    /\ conn = "served" /\ stat.named /\ queue # <<>> /\ Len(pipe) < PipeSize
    /\ pipe' = pipe \o Cells(Head(queue)) /\ queue' = Tail(queue)
    /\ UNCHANGED <<stat, pub, conn, buf, kept, source, seqs, got, fed, faults>>

\* The process ends, by close() or by a crash; what the socket still delivers
\* may stop anywhere, in the middle of a frame too.
Die ==
    /\ pub.up /\ faults < MaxFaults /\ faults' = faults + 1
    /\ pub' = [pub EXCEPT !.up = FALSE] /\ queue' = <<>>
    /\ \E n \in 0 .. Len(pipe) : pipe' = SubSeq(pipe, 1, n)
    /\ conn' = (IF conn = "none" THEN conn ELSE "ended") /\ stat' = NoStat
    /\ UNCHANGED <<buf, kept, source, seqs, got, fed>>

\* start() of the next process, whose numbers begin at 0 again.
Start ==
    /\ ~pub.up /\ pub' = [pub EXCEPT !.up = TRUE, !.seq = 0, !.epoch = @ + 1]
    /\ UNCHANGED <<stat, conn, queue, pipe, buf, kept, source, seqs, got, fed, faults>>

-----------------------------------------------------------------------------
(* The subscriber. *)

\* open_unix_connection, try_connect: the name is sent, nothing is expected back.
Connect ==
    /\ pub.up /\ conn = "none" /\ conn' = "open" /\ pipe' = <<>>
    /\ UNCHANGED <<stat, pub, queue, buf, kept, source, seqs, got, fed, faults>>

\* reader.read(65536), recv: any number of bytes that are there.
Read ==
    /\ conn # "none"
    /\ \E n \in 1 .. Len(pipe) :
         /\ buf' = buf \o SubSeq(pipe, 1, n) /\ pipe' = SubSeq(pipe, n + 1, Len(pipe))
         /\ fed' = fed \cup {pipe[i].f.id : i \in {j \in 1 .. n : pipe[j].part = "rest"}}
    /\ UNCHANGED <<stat, pub, conn, queue, kept, source, seqs, got, faults>>

\* A read of nothing. A parser that is kept keeps its bytes; half a frame at their
\* end is a stub now, and the header it makes with the next bytes may ask for any
\* length.
Stubbed(s, n) == [s EXCEPT ![Len(s)] = [@ EXCEPT !.part = "stub", !.need = n]]
Eof ==
    /\ conn = "ended" /\ pipe = <<>> /\ conn' = "none"
    /\ IF ~kept \/ buf = <<>> THEN buf' = <<>>
       ELSE IF buf[Len(buf)].part = "rest" THEN buf' = buf
       ELSE \E n \in 1 .. Span : buf' = Stubbed(buf, n)
    /\ UNCHANGED <<stat, pub, queue, pipe, kept, source, seqs, got, fed, faults>>

Complete == Len(buf) >= 2 /\ buf[1].part = "head" /\ buf[2].part = "rest"
Garbled  == buf # <<>> /\ buf[1].part = "stub" /\ Len(buf) > buf[1].need
Parsing  == Complete \/ Garbled

\* _try_one on a bad version, length or CRC: _resync goes to the next MAGIC.
\* mutant: everything that was taken for the frame is skipped
ResyncPast ==
    /\ Garbled /\ buf' = SubSeq(buf, buf[1].need + 2, Len(buf))
    /\ UNCHANGED <<stat, pub, conn, queue, pipe, kept, source, seqs, got, fed, faults>>
Resync ==
    /\ Garbled /\ buf' = Tail(buf)
    /\ UNCHANGED <<stat, pub, conn, queue, pipe, kept, source, seqs, got, fed, faults>>

\* SequenceTracker.observe
Observe(t, s) ==
    [t EXCEPT !.started = TRUE,
              !.expected = IF t.started /\ s < @ THEN @ ELSE s + 1,
              !.lost = IF t.started /\ s > t.expected THEN @ + s - t.expected ELSE @,
              !.duplicate = IF t.started /\ s < t.expected THEN @ + 1 ELSE @]

\* A frame comes out of the parser: tracker.mark and on_frame.
Deliver ==
    /\ Complete /\ buf' = SubSeq(buf, 3, Len(buf))
    /\ got' = Append(got, buf[1].f.id) /\ seqs' = Observe(seqs, buf[1].f.seq)
    /\ source' = [source EXCEPT !.connected = TRUE] /\ fed' = fed \ {buf[1].f.id}
    /\ UNCHANGED <<stat, pub, conn, queue, pipe, kept, faults>>

\* on_frame raises: consume_forever counts it and starts a new subscriber, and the
\* connection and the parser of the old one are gone.
ConsumerDies ==
    /\ Complete /\ kept /\ faults < MaxFaults /\ faults' = faults + 1
    /\ buf' = <<>> /\ pipe' = <<>> /\ queue' = <<>> /\ conn' = "none" /\ fed' = {}
    /\ stat' = NoStat
    /\ source' = [source EXCEPT !.connected = FALSE, !.restarts = @ + 1]
    /\ UNCHANGED <<pub, kept, seqs, got>>

PubNext == (\E b \in Body : Publish(b)) \/ Handle \/ Named \/ Write \/ Die \/ Start
SubNext == Connect \/ Read \/ Eof

-----------------------------------------------------------------------------
(* Properties. *)

BusTypeOK ==
    /\ pub \in [up : BOOLEAN, epoch : 0 .. MaxFaults, seq : 0 .. MaxFrames,
                made : 0 .. MaxFrames, joined : 0 .. MaxFrames, dropped : 0 .. MaxFrames]
    /\ conn \in {"none", "open", "served", "ended"}
    /\ queue \in SeqOf(Frame, QueueSize) /\ Len(pipe) <= PipeSize + 1
    /\ \A s \in {pipe, buf} : \A i \in DOMAIN s :
         s[i].f \in Frame /\ s[i].part \in {"head", "rest", "stub"} /\ s[i].need \in 0 .. Span
    /\ kept \in BOOLEAN /\ source \in [connected : BOOLEAN, restarts : 0 .. MaxFaults]
    /\ stat \in [named : BOOLEAN, dropped : 0 .. MaxFrames, since : 0 .. MaxFrames]
    /\ Range(got) \subseteq 1 .. MaxFrames /\ fed \subseteq 1 .. MaxFrames /\ faults \in 0 .. MaxFaults

\* publish, FrameParser and the reconnecting subscriber between them never give a
\* consumer a frame twice or after a later one.
OnlyForward == \A i, j \in DOMAIN got : i < j => got[i] < got[j]

InParser == {buf[i].f.id : i \in {j \in DOMAIN buf : buf[j].part = "rest"}}

\* A frame whose bytes all arrived is given to the consumer or is still in the
\* parser: resynchronising after half a frame of a lost connection (_resync) never
\* skips an intact frame.
IntactIsDelivered == fed \subseteq InParser

OnSocket == {pipe[i].f.id : i \in {j \in DOMAIN pipe : pipe[j].part = "rest"}}

\* While the subscriber is registered every frame published since is queued, on its
\* way, delivered or counted as dropped by the publisher ("losses are allowed but
\* counted").
DropsAreCounted ==
    conn = "served" =>
        pub.made - pub.joined =
            pub.dropped + Len(queue) + Cardinality({i \in OnSocket \cup InParser \cup Range(got) : i > pub.joined})

\* subscriber_stats names who lost what from the moment the subscriber has a name:
\* what its own count leaves out the publisher dropped before, while _handle waited
\* for the name.
DropsHaveAName ==
    conn = "served" /\ stat.named => stat.dropped = pub.dropped - stat.since

Missing ==
    IF got = <<>> THEN {} ELSE (got[1] .. got[Len(got)]) \ Range(got)

\* The consumer's SequenceTracker counts exactly the frames missing between two it
\* received while one publisher process lives, and never counts a loss that is none
\* after a restart, although the numbers begin at 0 again.
LossIsCounted ==
    /\ seqs.lost <= Cardinality(Missing)
    /\ pub.epoch = 0 => seqs.lost = Cardinality(Missing) /\ seqs.duplicate = 0
\* A frame reaches the consumer once, in order and intact, or is counted where it was
\* lost.
NoSilentLoss ==
    BusTypeOK /\ OnlyForward /\ IntactIsDelivered /\ DropsAreCounted /\ DropsHaveAName /\ LossIsCounted
=============================================================================
