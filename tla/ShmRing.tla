------------------------------- MODULE ShmRing -------------------------------
(***************************************************************************)
(* ringbuffer.py (and cpp/include/mdfp/ringbuffer.hpp, the same layout and *)
(* the same order of accesses): the shared-memory broadcast ring between   *)
(* one producer process and any number of reader processes.  No lock.      *)
(*                                                                         *)
(* A frame is named by the seq it was pushed under.  Every field and every *)
(* word of a payload is one access; the producer only stores and the       *)
(* readers only load, in program order, which is what the hardware the     *)
(* code targets (x86) shows other processes.  Creating a ring unlinks the  *)
(* segment an earlier producer left behind: readers attached to that one   *)
(* keep their mapping.                                                     *)
(***************************************************************************)
EXTENDS Integers, Sequences

CONSTANTS
    Readers,        \* RingReader objects
    Capacity,       \* slots in the ring
    Words,          \* words of a payload
    MaxItems,       \* bound: max_items of a poll
    MaxPush,        \* bound: pushes per segment
    MaxSegments     \* bound: times a producer creates the ring

ASSUME RingAssumption ==
    /\ Capacity \in Nat \ {0} /\ Words \in Nat \ {0} /\ MaxItems \in Nat \ {0}
    /\ MaxPush \in Nat /\ MaxSegments \in Nat \ {0}

Seqs     == 0..MaxPush
Segments == 1..MaxSegments
Slots    == 0..(Capacity - 1)
None     == -1
NoSegment == 0
Slot(s)  == s % Capacity

VARIABLES
    current,        \* the segment the name refers to; the producer's mapping
    writeSeq,       \* header field write_seq, per segment
    head, tail,     \* slot fields seq_head and seq_tail, per segment
    payload,        \* slot payload, per segment: whose bytes each word holds
    push,           \* the producer's next store: "idle", "payload", "tail", "publish"
    pushed,         \* payload words stored so far
    seg,            \* segment a reader has mapped
    cursor, skipped, torn,      \* RingReader fields
    limit,          \* poll's copy of write_seq
    room,           \* items poll may still return
    poll,           \* the reader's next load: "idle", "head", "payload", "tail"
    copied,         \* payload words loaded so far
    start,          \* history: cursor at attach
    got             \* history: the frames delivered since attach, in order

memory   == <<current, writeSeq, head, tail, payload>>
producer == <<push, pushed>>
reader   == <<seg, cursor, skipped, torn, limit, room, poll, copied, start, got>>
vars     == <<memory, producer, reader>>

\* A fresh segment is zero-filled and belongs to nobody's frame.
Init ==
    /\ current = 1
    /\ writeSeq = [g \in Segments |-> 0]
    /\ head = [g \in Segments |-> [i \in Slots |-> 0]]
    /\ tail = [g \in Segments |-> [i \in Slots |-> 0]]
    /\ payload = [g \in Segments |-> [i \in Slots |-> [w \in 1..Words |-> None]]]
    /\ push = "idle" /\ pushed = 0
    /\ seg = [r \in Readers |-> NoSegment]
    /\ cursor = [r \in Readers |-> 0] /\ start = [r \in Readers |-> 0]
    /\ skipped = [r \in Readers |-> 0] /\ torn = [r \in Readers |-> 0]
    /\ limit = [r \in Readers |-> 0] /\ room = [r \in Readers |-> 0]
    /\ poll = [r \in Readers |-> "idle"]
    /\ copied = [r \in Readers |-> <<>>]
    /\ got = [r \in Readers |-> <<>>]

-----------------------------------------------------------------------------
(* The producer.                                                           *)

NextSeq == writeSeq[current]

PushHead ==
    /\ push = "idle" /\ NextSeq < MaxPush
    /\ head' = [head EXCEPT ![current][Slot(NextSeq)] = NextSeq]
    /\ push' = "payload" /\ pushed' = 0
    /\ UNCHANGED <<current, writeSeq, tail, payload, reader>>

PushWord ==
    /\ push = "payload"
    /\ payload' = [payload EXCEPT ![current][Slot(NextSeq)][pushed + 1] = NextSeq]
    /\ pushed' = pushed + 1
    /\ push' = IF pushed + 1 = Words THEN "tail" ELSE "payload"
    /\ UNCHANGED <<current, writeSeq, head, tail, reader>>

PushTail ==
    /\ push = "tail"
    /\ tail' = [tail EXCEPT ![current][Slot(NextSeq)] = NextSeq]
    /\ push' = "publish"
    /\ UNCHANGED <<current, writeSeq, head, payload, pushed, reader>>

Publish ==
    /\ push = "publish"
    /\ writeSeq' = [writeSeq EXCEPT ![current] = NextSeq + 1]
    /\ push' = "idle"
    /\ UNCHANGED <<current, head, tail, payload, pushed, reader>>

\* The producer dies, at any store, and the next one creates the ring anew.
ProducerRestart ==
    /\ current < MaxSegments
    /\ current' = current + 1
    /\ push' = "idle" /\ pushed' = 0
    /\ UNCHANGED <<writeSeq, head, tail, payload, reader>>

-----------------------------------------------------------------------------
(* A reader.                                                               *)

\* A new RingReader on the ring of that name: its past is not read.
Attach(r) ==
    /\ poll[r] = "idle" /\ seg[r] # current
    /\ seg' = [seg EXCEPT ![r] = current]
    /\ cursor' = [cursor EXCEPT ![r] = NextSeq] /\ start' = [start EXCEPT ![r] = NextSeq]
    /\ skipped' = [skipped EXCEPT ![r] = 0] /\ torn' = [torn EXCEPT ![r] = 0]
    /\ got' = [got EXCEPT ![r] = <<>>]
    /\ UNCHANGED <<memory, producer, limit, room, poll, copied>>

Published(r) == writeSeq[seg[r]]

\* The loop condition of poll, tested with the values the step leaves.
LoopOn(r) ==
    poll' = [poll EXCEPT ![r] = IF cursor'[r] < limit'[r] /\ room'[r] > 0
                                THEN "head" ELSE "idle"]

JumpUncounted(r) ==                 \* mutant: the frames jumped over are not counted
    /\ cursor' = [cursor EXCEPT ![r] = IF Published(r) - @ > Capacity
                                       THEN Published(r) - Capacity ELSE @]
    /\ UNCHANGED skipped
\* Lapped by more than the ring: jump to the oldest frame still in it.
Jump(r) ==
    IF Published(r) - cursor[r] > Capacity
    THEN /\ cursor' = [cursor EXCEPT ![r] = Published(r) - Capacity]
         /\ skipped' = [skipped EXCEPT ![r] = @ + Published(r) - cursor[r] - Capacity]
    ELSE UNCHANGED <<cursor, skipped>>

PollStart(r) ==
    /\ poll[r] = "idle" /\ seg[r] # NoSegment
    /\ limit' = [limit EXCEPT ![r] = Published(r)]
    /\ \E n \in 1..MaxItems : room' = [room EXCEPT ![r] = n]      \* max_items
    /\ Jump(r)
    /\ LoopOn(r)
    /\ UNCHANGED <<memory, producer, seg, torn, copied, start, got>>

TornStuck(r) ==                     \* mutant: the slot is tried again, not stepped over
    /\ UNCHANGED <<torn, cursor, limit, room, got>>
    /\ LoopOn(r)
\* The slot is not, or no longer, the one looked for: count it, go on.
Torn(r) ==
    /\ torn' = [torn EXCEPT ![r] = @ + 1]
    /\ cursor' = [cursor EXCEPT ![r] = @ + 1]
    /\ UNCHANGED <<limit, room, got>>
    /\ LoopOn(r)

At(r) == Slot(cursor[r])

LoadHead(r) ==
    /\ poll[r] = "head"
    /\ IF head[seg[r]][At(r)] # cursor[r]
       THEN Torn(r)
       ELSE /\ poll' = [poll EXCEPT ![r] = "payload"]
            /\ UNCHANGED <<cursor, torn, limit, room, got>>
    /\ copied' = [copied EXCEPT ![r] = <<>>]
    /\ UNCHANGED <<memory, producer, seg, skipped, start>>

LoadWord(r) ==
    /\ poll[r] = "payload"
    /\ LET n == Len(copied[r]) IN
         /\ copied' = [copied EXCEPT ![r] = Append(@, payload[seg[r]][At(r)][n + 1])]
         /\ poll' = [poll EXCEPT ![r] = IF n + 1 = Words THEN "tail" ELSE "payload"]
    /\ UNCHANGED <<memory, producer, seg, cursor, skipped, torn, limit, room, start, got>>

Deliver(r) ==
    /\ got' = [got EXCEPT ![r] = Append(@, [seq |-> cursor[r], words |-> copied[r]])]
    /\ cursor' = [cursor EXCEPT ![r] = @ + 1]
    /\ room' = [room EXCEPT ![r] = @ - 1]
    /\ UNCHANGED <<torn, limit>>
    /\ LoopOn(r)

TailUnchecked(r) ==                 \* mutant: no second check after the copy
    /\ poll[r] = "tail"
    /\ Deliver(r)
    /\ UNCHANGED <<memory, producer, seg, skipped, start, copied>>
LoadTail(r) ==
    /\ poll[r] = "tail"
    /\ IF tail[seg[r]][At(r)] # cursor[r] THEN Torn(r) ELSE Deliver(r)
    /\ UNCHANGED <<memory, producer, seg, skipped, start, copied>>

-----------------------------------------------------------------------------
Producer  == PushHead \/ PushWord \/ PushTail \/ Publish \/ ProducerRestart
Reader(r) == PollStart(r) \/ LoadHead(r) \/ LoadWord(r) \/ LoadTail(r)

Next ==
    \/ Producer
    \/ \E r \in Readers : Reader(r) \/ Attach(r)

Spec == Init /\ [][Next]_vars

\* A consumer process keeps polling; nothing is assumed of the producer.
FairSpec == Spec /\ \A r \in Readers : WF_vars(Reader(r))

-----------------------------------------------------------------------------
(* Properties.                                                             *)

Copies == UNION {[1..n -> Seqs \cup {None}] : n \in 0..Words}

TypeOK ==
    /\ current \in Segments
    /\ writeSeq \in [Segments -> Seqs]
    /\ head \in [Segments -> [Slots -> Seqs]] /\ tail \in [Segments -> [Slots -> Seqs]]
    /\ payload \in [Segments -> [Slots -> [1..Words -> Seqs \cup {None}]]]
    /\ push \in {"idle", "payload", "tail", "publish"} /\ pushed \in 0..Words
    /\ seg \in [Readers -> Segments \cup {NoSegment}]
    /\ cursor \in [Readers -> Seqs] /\ start \in [Readers -> Seqs]
    /\ skipped \in [Readers -> Seqs] /\ torn \in [Readers -> Seqs]
    /\ limit \in [Readers -> Seqs] /\ room \in [Readers -> 0..MaxItems]
    /\ poll \in [Readers -> {"idle", "head", "payload", "tail"}]
    /\ copied \in [Readers -> Copies]
    /\ got \in [Readers -> Seq([seq : Seqs, words : Copies])]

\* "Losses are always measured": what a reader has passed since it attached
\* was delivered or counted as skipped or torn, never more than was published,
\* and frames come out in the order they were pushed, none twice.
LossAccounting ==
    \A r \in Readers :
      /\ cursor[r] = start[r] + Len(got[r]) + skipped[r] + torn[r]
      /\ seg[r] # NoSegment => cursor[r] <= Published(r)
      /\ \A i \in 1..Len(got[r]) :
           /\ got[r][i].seq < cursor[r]
           /\ i > 1 => got[r][i - 1].seq < got[r][i].seq

Delivering(r) == Len(got'[r]) > Len(got[r])
Polling(r)    == seg'[r] = seg[r]       \* not a new RingReader

\* A frame is counted as lost only if the producer has already begun to
\* overwrite it: no frame that still is in the ring is given up.
NoFalseLoss ==
    [][\A r \in Readers : Polling(r) =>
         \A q \in cursor[r]..(cursor'[r] - 1) :
           Delivering(r) \/ head[seg[r]][Slot(q)] >= q + Capacity]_vars

\* A delivered frame carries its own bytes, unless its slot was being
\* overwritten; then the foreign bytes are those of a later lap of the slot,
\* never of an earlier frame.  (Loading seq_head once more after the copy
\* would tell the two apart: it differs in every bad delivery.)
IntactUnlessLapped ==
    [][\A r \in Readers : Polling(r) /\ Delivering(r) =>
         \A w \in 1..Words :
           \/ copied[r][w] = cursor[r]
           \/ /\ copied[r][w] >= cursor[r] + Capacity
              /\ head[seg[r]][At(r)] >= copied[r][w]]_vars

\* A frame whose slot already holds a complete later frame is not delivered.
NeverReplaced ==
    [][\A r \in Readers : Polling(r) /\ Delivering(r) =>
         Published(r) <= cursor[r] + Capacity]_vars

\* What poll() gives up was overwritten and what it delivers was not replaced.
PollIsSound == NoFalseLoss /\ IntactUnlessLapped /\ NeverReplaced

\* Every published frame is passed by every reader that stays attached, also
\* after a producer that died in the middle of a push.
CatchesUp ==
    \A r \in Readers, g \in Segments, s \in Seqs :
      seg[r] = g /\ s < writeSeq[g] ~> cursor[r] > s \/ seg[r] # g
=============================================================================
