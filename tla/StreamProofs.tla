---------------------------- MODULE StreamProofs -----------------------------
(***************************************************************************)
(* The two transports that number their frames and count what they lose:  *)
(* the shared-memory ring, for any capacity, payload size, number of       *)
(* readers, pushes and re-creations, and the multicast feed, for any ring, *)
(* limits, keys, losses, repetitions and order of delivery.                *)
(*                                                                         *)
(* Ring: a slot is used for the seqs of one residue class, so whatever is  *)
(* found in the slot of a published seq is of that seq or of a later lap   *)
(* (Fits). That is an invariant of the memory, and it is what a reader may *)
(* count on whenever the producer overtakes it.                            *)
(*                                                                         *)
(* Multicast: everything on the recovery channel speaks of frames that     *)
(* were published, and one snapshot comes before anything else, so that a  *)
(* subscriber that expects number n has taken or counted all before n.     *)
(***************************************************************************)
EXTENDS ShmRing, Mcast, SequenceTheorems, FiniteSetTheorems, WellFoundedInduction, TLAPS

-----------------------------------------------------------------------------
(* The ring.                                                               *)

\* x is q or the seq of a later lap of the same slot.
Fits(x, q) == x >= q /\ Slot(x) = Slot(q)

MemoryTypes ==
    /\ current \in Segments
    /\ writeSeq \in [Segments -> Seqs]
    /\ head \in [Segments -> [Slots -> Seqs]] /\ tail \in [Segments -> [Slots -> Seqs]]
    /\ payload \in [Segments -> [Slots -> [1..Words -> Seqs \cup {None}]]]
    /\ push \in {"idle", "payload", "tail", "publish"} /\ pushed \in 0..Words

ReaderTypes ==
    /\ seg \in [Readers -> Segments \cup {NoSegment}]
    /\ cursor \in [Readers -> Seqs] /\ start \in [Readers -> Seqs]
    /\ skipped \in [Readers -> Seqs] /\ torn \in [Readers -> Seqs]
    /\ limit \in [Readers -> Seqs] /\ room \in [Readers -> 0..MaxItems]
    /\ poll \in [Readers -> {"idle", "head", "payload", "tail"}]
    /\ copied \in [Readers -> Copies]
    /\ got \in [Readers -> Seq([seq : Seqs, words : Copies])]

\* The slot of a published frame holds that frame or a later one.
SlotsFit ==
    \A g \in Segments, q \in Seqs : q < writeSeq[g] =>
      /\ Fits(head[g][Slot(q)], q) /\ Fits(tail[g][Slot(q)], q)
      /\ \A w \in 1..Words : Fits(payload[g][Slot(q)][w], q)

\* seq_head is stored first: tail and payload of a slot are never ahead of it.
HeadLeads ==
    \A g \in Segments, i \in Slots :
      /\ tail[g][i] <= head[g][i] /\ head[g][i] <= writeSeq[g]
      /\ \A w \in 1..Words : payload[g][i][w] <= head[g][i]

\* What a push has stored so far.
PushUnderWay ==
    /\ push # "idle" => NextSeq < MaxPush /\ head[current][Slot(NextSeq)] = NextSeq
    /\ push = "payload" => /\ pushed < Words
                           /\ \A w \in 1..pushed : payload[current][Slot(NextSeq)][w] = NextSeq
    /\ push \in {"tail", "publish"} =>
         \A w \in 1..Words : payload[current][Slot(NextSeq)][w] = NextSeq
    /\ push = "publish" => tail[current][Slot(NextSeq)] = NextSeq

MemoryInv == MemoryTypes /\ SlotsFit /\ HeadLeads /\ PushUnderWay

\* A reader inside poll is behind write_seq, and what it has copied so far
\* belongs to its seq or to a later lap that has begun.
Reading(r) ==
    poll[r] # "idle" =>
      /\ seg[r] # NoSegment /\ cursor[r] < limit[r] /\ limit[r] <= Published(r)
      /\ room[r] > 0
      /\ poll[r] = "payload" => Len(copied[r]) < Words
      /\ poll[r] = "tail" => Len(copied[r]) = Words
      /\ poll[r] # "head" => \A w \in 1..Len(copied[r]) :
           Fits(copied[r][w], cursor[r]) /\ copied[r][w] <= head[seg[r]][At(r)]

\* LossAccounting of one reader.
Accounted(r) ==
    /\ cursor[r] = start[r] + Len(got[r]) + skipped[r] + torn[r]
    /\ seg[r] # NoSegment => cursor[r] <= Published(r)
    /\ \A i \in 1..Len(got[r]) :
         /\ got[r][i].seq < cursor[r]
         /\ i > 1 => got[r][i - 1].seq < got[r][i].seq

ReaderInv == ReaderTypes /\ \A r \in Readers : Reading(r) /\ Accounted(r)

Inv == MemoryInv /\ ReaderInv

-----------------------------------------------------------------------------
(* Slots and residues.                                                     *)

\* Division with remainder, the one fact about % the rest is derived from.
LEMMA DivMod ==
    ASSUME NEW c \in Nat
    PROVE  /\ c = Capacity * (c \div Capacity) + (c % Capacity)
           /\ c % Capacity \in Slots /\ c \div Capacity \in Nat
BY RingAssumption, SMTT(30) DEF Slots

\* A number is determined by its quotient and remainder.
LEMMA Remainder ==
    ASSUME NEW k \in Nat, NEW x \in Slots
    PROVE  (Capacity * k + x) % Capacity = x
BY RingAssumption, SMTT(30) DEF Slots

\* The slot of a seq is a slot.
LEMMA SlotType == \A q \in Seqs : Slot(q) \in Slots
BY DivMod DEF Slot, Seqs

\* One lap later the same slot is used.
LEMMA SlotShift ==
    ASSUME NEW c \in Nat PROVE Slot(c + Capacity) = Slot(c)
<1> DEFINE k == c \div Capacity
           x == c % Capacity
<1>1. c = Capacity * k + x /\ x \in Slots /\ k \in Nat
  BY DivMod
<1> HIDE DEF k, x
<1>2. c + Capacity = Capacity * (k + 1) + x
  BY <1>1, RingAssumption, SMT DEF Slots
<1>3. (Capacity * (k + 1) + x) % Capacity = x
  <2>1. k + 1 \in Nat
    BY <1>1
  <2> QED BY <1>1, <2>1, Remainder
<1> QED BY <1>2, <1>3 DEF Slot, x

\* What fits is the seq itself or at least a lap later.
LEMMA FitsGap ==
    ASSUME NEW c \in Nat, NEW d \in Nat, Fits(d, c)
    PROVE  d = c \/ d >= c + Capacity
<1> DEFINE j == c \div Capacity
           k == d \div Capacity
           x == c % Capacity
<1>1. c = Capacity * j + x /\ x \in Slots /\ j \in Nat
  BY DivMod
<1>2. d = Capacity * k + x /\ k \in Nat
  BY DivMod DEF Fits, Slot
<1> HIDE DEF j, k, x
<1>3. k = j \/ k > j \/ k < j
  BY <1>1, <1>2
<1>4. CASE k = j
  BY <1>1, <1>2, <1>4
<1>5. CASE k > j
  <2>1. Capacity * k >= Capacity * j + Capacity
    BY <1>1, <1>2, <1>5, RingAssumption, SMTT(30)
  <2> QED BY <1>1, <1>2, <2>1, RingAssumption DEF Slots
<1>6. CASE k < j
  <2>1. Capacity * j >= Capacity * k + Capacity
    BY <1>1, <1>2, <1>6, RingAssumption, SMTT(30)
  <2> QED BY <1>1, <1>2, <2>1, RingAssumption DEF Slots, Fits
<1> QED BY <1>3, <1>4, <1>5, <1>6

-----------------------------------------------------------------------------
(* The memory.                                                             *)

\* The initial state satisfies the invariant: zeroed slots, nobody attached.
LEMMA InitInv == Init => Inv
<1> SUFFICES ASSUME Init PROVE Inv
  OBVIOUS
<1>1. 0 \in Seqs /\ 1 \in Segments /\ 0 \in 0..Words /\ 0 \in 0..MaxItems
  BY RingAssumption DEF Seqs, Segments
<1>2. <<>> \in Copies
  <2>1. <<>> \in [1..0 -> Seqs \cup {None}] /\ 0 \in 0..Words
    BY RingAssumption
  <2> QED BY <2>1 DEF Copies
<1>3. MemoryTypes
  BY <1>1 DEF Init, MemoryTypes
<1>4. SlotsFit
  BY <1>1 DEF Init, SlotsFit, Seqs
<1>5. HeadLeads
  BY <1>1 DEF Init, HeadLeads, None
<1>6. PushUnderWay
  BY DEF Init, PushUnderWay
<1>7. ReaderTypes
  BY <1>1, <1>2 DEF Init, ReaderTypes
<1>8. \A r \in Readers : Reading(r) /\ Accounted(r)
  <2> SUFFICES ASSUME NEW r \in Readers PROVE Reading(r) /\ Accounted(r)
    OBVIOUS
  <2>1. /\ poll[r] = "idle" /\ seg[r] = NoSegment /\ got[r] = <<>>
        /\ cursor[r] = 0 /\ start[r] = 0 /\ skipped[r] = 0 /\ torn[r] = 0
    BY DEF Init
  <2> QED BY <2>1 DEF Reading, Accounted
<1> QED BY <1>3, <1>4, <1>5, <1>6, <1>7, <1>8 DEF Inv, MemoryInv, ReaderInv

\* A payload word is a seq or nobody's.
LEMMA PayloadType ==
    ASSUME MemoryInv
    PROVE  \A g \in Segments, i \in Slots, w \in 1..Words :
             payload[g][i][w] \in Seqs \cup {None}
<1> TAKE g \in Segments, i \in Slots, w \in 1..Words
<1>1. payload \in [Segments -> [Slots -> [1..Words -> Seqs \cup {None}]]]
  BY DEF MemoryInv, MemoryTypes
<1>2. payload[g] \in [Slots -> [1..Words -> Seqs \cup {None}]]
  BY <1>1
<1>3. payload[g][i] \in [1..Words -> Seqs \cup {None}]
  BY <1>2
<1> QED BY <1>3

\* seq_head is stored: the slot passes to the new seq, which fits all it held.
LEMMA PushHeadInv == MemoryInv /\ PushHead => MemoryInv'
<1> SUFFICES ASSUME MemoryInv, PushHead PROVE MemoryInv'
  OBVIOUS
<1> USE DEF MemoryInv
<1>1. NextSeq \in Seqs /\ Slot(NextSeq) \in Slots /\ NextSeq < MaxPush
  BY SlotType DEF MemoryTypes, NextSeq, PushHead
<1>2. /\ current' = current /\ writeSeq' = writeSeq /\ tail' = tail /\ payload' = payload
      /\ push' = "payload" /\ pushed' = 0 /\ NextSeq' = NextSeq
      /\ head' = [head EXCEPT ![current][Slot(NextSeq)] = NextSeq]
  BY DEF PushHead, NextSeq
<1>3. MemoryTypes'
  BY <1>1, <1>2, RingAssumption DEF MemoryTypes
<1>4. \A g \in Segments, i \in Slots :
        head'[g][i] = IF g = current /\ i = Slot(NextSeq) THEN NextSeq ELSE head[g][i]
  BY <1>1, <1>2 DEF MemoryTypes
<1>5. SlotsFit'
  <2> SUFFICES ASSUME NEW g \in Segments, NEW q \in Seqs, q < writeSeq[g]
               PROVE  /\ Fits(head'[g][Slot(q)], q) /\ Fits(tail'[g][Slot(q)], q)
                      /\ \A w \in 1..Words : Fits(payload'[g][Slot(q)][w], q)
    BY <1>2 DEF SlotsFit
  <2>1. /\ Fits(head[g][Slot(q)], q) /\ Fits(tail[g][Slot(q)], q)
        /\ \A w \in 1..Words : Fits(payload[g][Slot(q)][w], q)
    BY DEF SlotsFit
  <2>2. Slot(q) \in Slots
    BY SlotType
  <2>3. g = current /\ Slot(q) = Slot(NextSeq) => Fits(NextSeq, q)
    BY <1>1 DEF Fits, NextSeq, MemoryTypes, Seqs
  <2> QED BY <1>2, <1>4, <2>1, <2>2, <2>3
<1>6. HeadLeads'
  <2> SUFFICES ASSUME NEW g \in Segments, NEW i \in Slots
               PROVE  /\ tail[g][i] <= head'[g][i] /\ head'[g][i] <= writeSeq[g]
                      /\ \A w \in 1..Words : payload[g][i][w] <= head'[g][i]
    BY <1>2 DEF HeadLeads
  <2>1. /\ tail[g][i] <= head[g][i] /\ head[g][i] <= writeSeq[g]
        /\ \A w \in 1..Words : payload[g][i][w] <= head[g][i]
    BY DEF HeadLeads
  <2>2. tail[g][i] \in Int /\ head[g][i] \in Int /\ writeSeq[g] \in Int
    BY DEF MemoryTypes, Seqs
  <2>5. \A w \in 1..Words : payload[g][i][w] \in Int
    BY PayloadType DEF Seqs, None
  <2>3. head[g][i] <= head'[g][i] /\ head'[g][i] <= writeSeq[g] /\ head'[g][i] \in Int
    BY <1>4, <2>1, <2>2 DEF NextSeq
  <2> QED BY <2>1, <2>2, <2>3, <2>5
<1>7. PushUnderWay'
  BY <1>1, <1>2, <1>4, RingAssumption DEF PushUnderWay, MemoryTypes
<1> QED BY <1>3, <1>5, <1>6, <1>7

\* A payload word is stored.
LEMMA PushWordInv == MemoryInv /\ PushWord => MemoryInv'
<1> SUFFICES ASSUME MemoryInv, PushWord PROVE MemoryInv'
  OBVIOUS
<1> USE DEF MemoryInv
<1>1. /\ NextSeq \in Seqs /\ Slot(NextSeq) \in Slots /\ NextSeq < MaxPush
      /\ head[current][Slot(NextSeq)] = NextSeq
      /\ pushed < Words /\ pushed + 1 \in 1..Words
  BY SlotType, RingAssumption DEF MemoryTypes, NextSeq, PushWord, PushUnderWay
<1>2. /\ current' = current /\ writeSeq' = writeSeq /\ tail' = tail /\ head' = head
      /\ push' = (IF pushed + 1 = Words THEN "tail" ELSE "payload")
      /\ pushed' = pushed + 1 /\ NextSeq' = NextSeq
      /\ payload' = [payload EXCEPT ![current][Slot(NextSeq)][pushed + 1] = NextSeq]
  BY DEF PushWord, NextSeq
<1>3. MemoryTypes'
  BY <1>1, <1>2, RingAssumption DEF MemoryTypes
<1>4. \A g \in Segments, i \in Slots, w \in 1..Words :
        payload'[g][i][w] = IF g = current /\ i = Slot(NextSeq) /\ w = pushed + 1
                            THEN NextSeq ELSE payload[g][i][w]
  <2> SUFFICES ASSUME NEW g \in Segments, NEW i \in Slots, NEW w \in 1..Words
               PROVE  payload'[g][i][w] = IF g = current /\ i = Slot(NextSeq) /\ w = pushed + 1
                                          THEN NextSeq ELSE payload[g][i][w]
    OBVIOUS
  <2>1. payload \in [Segments -> [Slots -> [1..Words -> Seqs \cup {None}]]]
    BY DEF MemoryTypes
  <2>2. payload'[g] = IF g = current
                      THEN [payload[g] EXCEPT ![Slot(NextSeq)][pushed + 1] = NextSeq]
                      ELSE payload[g]
    BY <1>2, <2>1
  <2>3. payload[g] \in [Slots -> [1..Words -> Seqs \cup {None}]]
    BY <2>1
  <2>4. payload'[g][i] = IF g = current /\ i = Slot(NextSeq)
                         THEN [payload[g][i] EXCEPT ![pushed + 1] = NextSeq]
                         ELSE payload[g][i]
    BY <2>2, <2>3
  <2>5. payload[g][i] \in [1..Words -> Seqs \cup {None}]
    BY <2>3
  <2> QED BY <2>4, <2>5
<1>5. SlotsFit'
  <2> SUFFICES ASSUME NEW g \in Segments, NEW q \in Seqs, q < writeSeq[g]
               PROVE  /\ Fits(head'[g][Slot(q)], q) /\ Fits(tail'[g][Slot(q)], q)
                      /\ \A w \in 1..Words : Fits(payload'[g][Slot(q)][w], q)
    BY <1>2 DEF SlotsFit
  <2>1. /\ Fits(head[g][Slot(q)], q) /\ Fits(tail[g][Slot(q)], q)
        /\ \A w \in 1..Words : Fits(payload[g][Slot(q)][w], q)
    BY DEF SlotsFit
  <2>2. Slot(q) \in Slots
    BY SlotType
  <2>3. g = current /\ Slot(q) = Slot(NextSeq) => Fits(NextSeq, q)
    BY <1>1 DEF Fits, NextSeq, MemoryTypes, Seqs
  <2> QED BY <1>2, <1>4, <2>1, <2>2, <2>3
<1>6. HeadLeads'
  BY <1>1, <1>2, <1>4 DEF HeadLeads, NextSeq, MemoryTypes, Seqs
<1>7. \A w \in 1..(pushed + 1) : payload'[current][Slot(NextSeq)][w] = NextSeq
  BY <1>1, <1>4 DEF PushUnderWay, PushWord, MemoryTypes
<1>8. PushUnderWay'
  BY <1>1, <1>2, <1>7, RingAssumption DEF PushUnderWay, MemoryTypes
<1> QED BY <1>3, <1>5, <1>6, <1>8

\* seq_tail is stored.
LEMMA PushTailInv == MemoryInv /\ PushTail => MemoryInv'
<1> SUFFICES ASSUME MemoryInv, PushTail PROVE MemoryInv'
  OBVIOUS
<1> USE DEF MemoryInv
<1>1. /\ NextSeq \in Seqs /\ Slot(NextSeq) \in Slots /\ NextSeq < MaxPush
      /\ head[current][Slot(NextSeq)] = NextSeq
      /\ \A w \in 1..Words : payload[current][Slot(NextSeq)][w] = NextSeq
  BY SlotType DEF MemoryTypes, NextSeq, PushTail, PushUnderWay
<1>2. /\ current' = current /\ writeSeq' = writeSeq /\ payload' = payload /\ head' = head
      /\ push' = "publish" /\ pushed' = pushed /\ NextSeq' = NextSeq
      /\ tail' = [tail EXCEPT ![current][Slot(NextSeq)] = NextSeq]
  BY DEF PushTail, NextSeq
<1>3. MemoryTypes'
  BY <1>1, <1>2 DEF MemoryTypes
<1>4. \A g \in Segments, i \in Slots :
        tail'[g][i] = IF g = current /\ i = Slot(NextSeq) THEN NextSeq ELSE tail[g][i]
  BY <1>1, <1>2 DEF MemoryTypes
<1>5. SlotsFit'
  <2> SUFFICES ASSUME NEW g \in Segments, NEW q \in Seqs, q < writeSeq[g]
               PROVE  /\ Fits(head'[g][Slot(q)], q) /\ Fits(tail'[g][Slot(q)], q)
                      /\ \A w \in 1..Words : Fits(payload'[g][Slot(q)][w], q)
    BY <1>2 DEF SlotsFit
  <2>1. /\ Fits(head[g][Slot(q)], q) /\ Fits(tail[g][Slot(q)], q)
        /\ \A w \in 1..Words : Fits(payload[g][Slot(q)][w], q)
    BY DEF SlotsFit
  <2>2. Slot(q) \in Slots
    BY SlotType
  <2>3. g = current /\ Slot(q) = Slot(NextSeq) => Fits(NextSeq, q)
    BY <1>1 DEF Fits, NextSeq, MemoryTypes, Seqs
  <2> QED BY <1>2, <1>4, <2>1, <2>2, <2>3
<1>6. HeadLeads'
  BY <1>1, <1>2, <1>4 DEF HeadLeads, NextSeq, MemoryTypes, Seqs
<1>7. PushUnderWay'
  BY <1>1, <1>2, <1>4 DEF PushUnderWay, MemoryTypes
<1> QED BY <1>3, <1>5, <1>6, <1>7

\* write_seq is stored: by now the whole slot is the new frame's.
LEMMA PublishInv == MemoryInv /\ Publish => MemoryInv'
<1> SUFFICES ASSUME MemoryInv, Publish PROVE MemoryInv'
  OBVIOUS
<1> USE DEF MemoryInv
<1>1. /\ NextSeq \in Seqs /\ Slot(NextSeq) \in Slots /\ NextSeq < MaxPush
      /\ head[current][Slot(NextSeq)] = NextSeq /\ tail[current][Slot(NextSeq)] = NextSeq
      /\ \A w \in 1..Words : payload[current][Slot(NextSeq)][w] = NextSeq
  BY SlotType DEF MemoryTypes, NextSeq, Publish, PushUnderWay
<1>2. /\ current' = current /\ tail' = tail /\ payload' = payload /\ head' = head
      /\ push' = "idle" /\ pushed' = pushed
      /\ writeSeq' = [writeSeq EXCEPT ![current] = NextSeq + 1]
  BY DEF Publish
<1>3. MemoryTypes'
  BY <1>1, <1>2, RingAssumption DEF MemoryTypes, Seqs
<1>4. \A g \in Segments :
        writeSeq'[g] = IF g = current THEN NextSeq + 1 ELSE writeSeq[g]
  BY <1>1, <1>2 DEF MemoryTypes
<1>5. SlotsFit'
  <2> SUFFICES ASSUME NEW g \in Segments, NEW q \in Seqs, q < writeSeq'[g]
               PROVE  /\ Fits(head[g][Slot(q)], q) /\ Fits(tail[g][Slot(q)], q)
                      /\ \A w \in 1..Words : Fits(payload[g][Slot(q)][w], q)
    BY <1>2 DEF SlotsFit
  <2>1. CASE q < writeSeq[g]
    BY <2>1 DEF SlotsFit
  <2>2. CASE ~(q < writeSeq[g])
    <3>1. g = current /\ q = NextSeq
      BY <1>4, <2>2 DEF MemoryTypes, NextSeq, Seqs
    <3> QED BY <1>1, <3>1 DEF Fits, Seqs
  <2> QED BY <2>1, <2>2
<1>6. HeadLeads'
  BY <1>1, <1>2, <1>4 DEF HeadLeads, NextSeq, MemoryTypes, Seqs
<1>7. PushUnderWay'
  BY <1>2 DEF PushUnderWay
<1> QED BY <1>3, <1>5, <1>6, <1>7

\* A crash leaves the old segment as it is, half a push included.
LEMMA ProducerRestartInv == MemoryInv /\ ProducerRestart => MemoryInv'
<1> SUFFICES ASSUME MemoryInv, ProducerRestart PROVE MemoryInv'
  OBVIOUS
<1>1. MemoryTypes'
  BY RingAssumption DEF MemoryInv, MemoryTypes, ProducerRestart, Segments
<1> QED
  BY <1>1 DEF MemoryInv, ProducerRestart, SlotsFit, HeadLeads, PushUnderWay

-----------------------------------------------------------------------------
(* The readers.                                                            *)

\* A copy is a sequence of at most Words words.
LEMMA CopiesType ==
    ASSUME NEW s \in Copies
    PROVE  /\ s \in Seq(Seqs \cup {None}) /\ Len(s) \in 0..Words
           /\ \A w \in 1..Len(s) : s[w] \in Seqs \cup {None} /\ s[w] \in Int
<1>1. PICK n \in 0..Words : s \in [1..n -> Seqs \cup {None}]
  BY DEF Copies
<1>2. s \in Seq(Seqs \cup {None}) /\ Len(s) = n
  BY <1>1
<1>3. \A x \in Seqs \cup {None} : x \in Int
  BY DEF Seqs, None
<1> QED BY <1>1, <1>2, <1>3

\* One more word makes another copy.
LEMMA CopiesAppend ==
    ASSUME NEW s \in Copies, Len(s) < Words, NEW x \in Seqs \cup {None}
    PROVE  /\ Append(s, x) \in Copies /\ Len(Append(s, x)) = Len(s) + 1
           /\ \A w \in 1..Len(s) : Append(s, x)[w] = s[w]
           /\ Append(s, x)[Len(s) + 1] = x
<1>1. s \in Seq(Seqs \cup {None}) /\ Len(s) \in 0..Words
  BY CopiesType
<1>2. /\ Append(s, x) \in Seq(Seqs \cup {None}) /\ Len(Append(s, x)) = Len(s) + 1
      /\ \A w \in 1..Len(s) : Append(s, x)[w] = s[w]
      /\ Append(s, x)[Len(s) + 1] = x
  BY <1>1
<1>3. Append(s, x) \in [1..(Len(s) + 1) -> Seqs \cup {None}]
  BY <1>2, LenProperties
<1>4. Len(s) + 1 \in 0..Words
  BY <1>1, RingAssumption
<1> QED BY <1>2, <1>3, <1>4 DEF Copies

\* What the producer does to the readers: nothing, and the memory only advances.
Grows ==
    /\ UNCHANGED reader
    /\ \A g \in Segments : /\ writeSeq[g] <= writeSeq'[g]
                           /\ \A i \in Slots : head[g][i] <= head'[g][i]

\* Every store of the producer keeps the memory's invariant and is such a step.
LEMMA ProducerGrows == MemoryInv /\ Producer => Grows /\ MemoryInv'
<1> SUFFICES ASSUME MemoryInv, Producer PROVE Grows /\ MemoryInv'
  OBVIOUS
<1>1. \A g \in Segments : writeSeq[g] \in Int /\ \A i \in Slots : head[g][i] \in Int
  BY DEF MemoryInv, MemoryTypes, Seqs
<1>2. NextSeq \in Seqs /\ Slot(NextSeq) \in Slots
  BY SlotType DEF MemoryInv, MemoryTypes, NextSeq
<1>3. CASE PushHead
  <2>1. \A g \in Segments, i \in Slots :
          head'[g][i] = IF g = current /\ i = Slot(NextSeq) THEN NextSeq ELSE head[g][i]
    BY <1>2, <1>3 DEF PushHead, MemoryInv, MemoryTypes
  <2>2. Grows
    BY <1>1, <1>3, <2>1 DEF Grows, PushHead, MemoryInv, HeadLeads, NextSeq
  <2> QED BY <1>3, <2>2, PushHeadInv
<1>4. CASE PushWord
  BY <1>1, <1>4, PushWordInv DEF Grows, PushWord
<1>5. CASE PushTail
  BY <1>1, <1>5, PushTailInv DEF Grows, PushTail
<1>6. CASE Publish
  <2>1. Grows
    BY <1>1, <1>6 DEF Grows, Publish, NextSeq, MemoryInv, MemoryTypes
  <2> QED BY <1>6, <2>1, PublishInv
<1>7. CASE ProducerRestart
  BY <1>1, <1>7, ProducerRestartInv DEF Grows, ProducerRestart
<1> QED BY <1>3, <1>4, <1>5, <1>6, <1>7 DEF Producer

\* So the readers' part of the invariant survives the producer's steps.
LEMMA ProducerInv ==
    ASSUME Inv, Producer
    PROVE  Inv'
<1>1. Grows /\ MemoryInv'
  BY ProducerGrows DEF Inv
<1>2. UNCHANGED <<seg, cursor, skipped, torn, limit, room, poll, copied, start, got>>
  BY <1>1 DEF Grows, reader
<1>3. ReaderTypes'
  BY <1>2 DEF Inv, ReaderInv, ReaderTypes
<1>4. ASSUME NEW r \in Readers
      PROVE  Reading(r)' /\ Accounted(r)'
  <2>1. Reading(r) /\ Accounted(r)
    BY DEF Inv, ReaderInv
  <2>2. /\ cursor[r] \in Seqs /\ limit[r] \in Int /\ Slot(cursor[r]) \in Slots
        /\ cursor[r] \in Int
    BY SlotType DEF Inv, ReaderInv, ReaderTypes, Seqs
  <2>3. seg[r] # NoSegment => /\ seg[r] \in Segments
                              /\ writeSeq[seg[r]] <= writeSeq'[seg[r]]
                              /\ head[seg[r]][At(r)] <= head'[seg[r]][At(r)]
                              /\ writeSeq[seg[r]] \in Int /\ writeSeq'[seg[r]] \in Int
                              /\ head[seg[r]][At(r)] \in Int /\ head'[seg[r]][At(r)] \in Int
    BY <1>1, <2>2
       DEF Inv, ReaderInv, ReaderTypes, Grows, At, MemoryInv, MemoryTypes, Seqs
  <2>4. \A w \in 1..Len(copied[r]) : copied[r][w] \in Int
    BY CopiesType DEF Inv, ReaderInv, ReaderTypes
  <2>5. At(r)' = At(r)
    BY <1>2 DEF At
  <2>6. seg[r] # NoSegment => Published(r) <= Published(r)' /\ Published(r) \in Int /\ Published(r)' \in Int
    BY <1>2, <2>3 DEF Published
  <2>7. Reading(r)'
    BY <1>2, <2>1, <2>2, <2>3, <2>4, <2>5, <2>6 DEF Reading, Fits
  <2>8. Accounted(r)'
    BY <1>2, <2>1, <2>2, <2>6 DEF Accounted
  <2> QED BY <2>7, <2>8
<1> QED BY <1>1, <1>3, <1>4 DEF Inv, ReaderInv

\* Nothing of reader p changes.
Same(p) ==
    /\ seg'[p] = seg[p] /\ cursor'[p] = cursor[p] /\ skipped'[p] = skipped[p]
    /\ torn'[p] = torn[p] /\ limit'[p] = limit[p] /\ room'[p] = room[p]
    /\ poll'[p] = poll[p] /\ copied'[p] = copied[p] /\ start'[p] = start[p]
    /\ got'[p] = got[p]

\* A step of reader r leaves the memory and the other readers alone; so it is
\* enough to look at r.
LEMMA OneReader ==
    ASSUME Inv, NEW r \in Readers, UNCHANGED <<memory, producer>>, ReaderTypes',
           \A p \in Readers \ {r} : Same(p), Reading(r)', Accounted(r)'
    PROVE  Inv'
<1>1. UNCHANGED <<current, writeSeq, head, tail, payload, push, pushed>>
  BY DEF memory, producer
<1>2. MemoryInv'
  BY <1>1 DEF Inv, MemoryInv, MemoryTypes, SlotsFit, HeadLeads, PushUnderWay, NextSeq
<1>3. ASSUME NEW p \in Readers \ {r} PROVE Reading(p)' /\ Accounted(p)'
  <2>1. Same(p) /\ Reading(p) /\ Accounted(p)
    BY DEF Inv, ReaderInv
  <2>2. Published(p)' = Published(p) /\ At(p)' = At(p)
    BY <1>1, <2>1 DEF Same, Published, At
  <2>3. Reading(p)'
    BY <1>1, <2>1, <2>2 DEF Same, Reading
  <2>4. Accounted(p)'
    BY <1>1, <2>1, <2>2 DEF Same, Accounted
  <2> QED BY <2>3, <2>4
<1> QED BY <1>2, <1>3 DEF Inv, ReaderInv

\* What is known of a reader, with its values typed.
Facts(r) ==
    /\ seg[r] # NoSegment => seg[r] \in Segments /\ Published(r) \in Seqs
    /\ cursor[r] \in Seqs /\ start[r] \in Seqs /\ skipped[r] \in Seqs
    /\ torn[r] \in Seqs /\ limit[r] \in Seqs /\ room[r] \in 0..MaxItems
    /\ copied[r] \in Copies /\ got[r] \in Seq([seq : Seqs, words : Copies])
    /\ Len(got[r]) \in Nat /\ At(r) \in Slots
    /\ \A i \in 1..Len(got[r]) : got[r][i].seq \in Seqs

\* The invariant gives them for every reader.
LEMMA ReaderFacts ==
    ASSUME Inv, NEW r \in Readers
    PROVE  Facts(r) /\ Reading(r) /\ Accounted(r)
<1>1. Reading(r) /\ Accounted(r)
  BY DEF Inv, ReaderInv
<1>2. /\ cursor[r] \in Seqs /\ start[r] \in Seqs /\ skipped[r] \in Seqs
      /\ torn[r] \in Seqs /\ limit[r] \in Seqs /\ room[r] \in 0..MaxItems
      /\ copied[r] \in Copies /\ got[r] \in Seq([seq : Seqs, words : Copies])
      /\ seg[r] \in Segments \cup {NoSegment}
  BY DEF Inv, ReaderInv, ReaderTypes
<1>3. seg[r] # NoSegment => seg[r] \in Segments /\ Published(r) \in Seqs
  BY <1>2 DEF Inv, MemoryInv, MemoryTypes, Published
<1>4. At(r) \in Slots
  BY <1>2, SlotType DEF At
<1>5. Len(got[r]) \in Nat /\ \A i \in 1..Len(got[r]) : got[r][i] \in [seq : Seqs, words : Copies]
  BY <1>2, LenProperties
<1>6. \A i \in 1..Len(got[r]) : got[r][i].seq \in Seqs
  BY <1>5
<1> QED BY <1>1, <1>2, <1>3, <1>4, <1>5, <1>6 DEF Facts

\* The numbers of a reader, as numbers: none of its losses exceeds its cursor.
LEMMA Numbers ==
    ASSUME NEW r \in Readers, Facts(r), Accounted(r)
    PROVE  /\ cursor[r] \in Nat /\ start[r] \in Nat /\ skipped[r] \in Nat /\ torn[r] \in Nat
           /\ skipped[r] <= cursor[r] /\ torn[r] <= cursor[r]
<1>1. \A x \in Seqs : x \in Nat
  BY RingAssumption DEF Seqs
<1>2. cursor[r] \in Nat /\ start[r] \in Nat /\ skipped[r] \in Nat /\ torn[r] \in Nat
  BY <1>1 DEF Facts
<1>3. PICK l \in Nat : l = Len(got[r])
  BY DEF Facts
<1>4. cursor[r] = start[r] + l + skipped[r] + torn[r]
  BY <1>3 DEF Accounted
<1> QED BY <1>2, <1>4

\* A reader that passes frames it does not deliver and counts them stays
\* accounted for.
LEMMA PassInv ==
    ASSUME NEW r \in Readers, Facts(r), Accounted(r), seg[r] # NoSegment,
           NEW n \in Nat, cursor'[r] = cursor[r] + n, skipped'[r] \in Seqs, torn'[r] \in Seqs,
           skipped'[r] + torn'[r] = skipped[r] + torn[r] + n,
           start'[r] = start[r], got'[r] = got[r], Published(r)' = Published(r),
           cursor[r] + n <= Published(r)
    PROVE  Accounted(r)'
<1>1. skipped'[r] \in Nat /\ torn'[r] \in Nat
  BY RingAssumption DEF Seqs
<1>n. cursor[r] \in Nat /\ start[r] \in Nat /\ skipped[r] \in Nat /\ torn[r] \in Nat
  BY Numbers
<1>2. cursor'[r] = start'[r] + Len(got'[r]) + skipped'[r] + torn'[r]
  <2>1. PICK l \in Nat : l = Len(got[r])
    BY DEF Facts
  <2>2. cursor[r] = start[r] + l + skipped[r] + torn[r]
    BY <2>1 DEF Accounted
  <2>3. cursor[r] + n = start[r] + l + skipped'[r] + torn'[r]
    BY <1>1, <1>n, <2>2
  <2> QED BY <2>1, <2>3, Zenon
<1>3. \A i \in 1..Len(got[r]) : got[r][i].seq < cursor'[r]
  <2> SUFFICES ASSUME NEW i \in 1..Len(got[r]) PROVE got[r][i].seq < cursor'[r]
    OBVIOUS
  <2>1. got[r][i].seq < cursor[r]
    BY DEF Accounted
  <2>2. got[r][i].seq \in Seqs
    BY DEF Facts
  <2>3. got[r][i].seq \in Int
    BY <2>2 DEF Seqs
  <2> QED BY <1>n, <2>1, <2>3
<1> QED BY <1>2, <1>3 DEF Accounted

\* A new reader starts at write_seq with nothing delivered and nothing lost.
LEMMA AttachInv ==
    ASSUME Inv, NEW r \in Readers, Attach(r)
    PROVE  Inv'
<1>1. NextSeq \in Seqs /\ 0 \in Seqs /\ current \in Segments /\ current # NoSegment
  BY RingAssumption DEF Inv, MemoryInv, MemoryTypes, NextSeq, Seqs, Segments, NoSegment
<1>2. ReaderTypes'
  <2>1. <<>> \in Seq([seq : Seqs, words : Copies])
    OBVIOUS
  <2>2. got' \in [Readers -> Seq([seq : Seqs, words : Copies])]
    BY <2>1 DEF Attach, Inv, ReaderInv, ReaderTypes
  <2> QED BY <1>1, <2>2 DEF Attach, Inv, ReaderInv, ReaderTypes
<1>3. \A p \in Readers \ {r} : Same(p)
  BY DEF Attach, Same, Inv, ReaderInv, ReaderTypes
<1>4. /\ poll'[r] = "idle" /\ cursor'[r] = NextSeq /\ start'[r] = NextSeq
      /\ skipped'[r] = 0 /\ torn'[r] = 0 /\ got'[r] = <<>> /\ seg'[r] = current
      /\ writeSeq' = writeSeq
  BY DEF Attach, Inv, ReaderInv, ReaderTypes, memory
<1>5. Reading(r)'
  BY <1>4 DEF Reading
<1>6. Accounted(r)'
  BY <1>1, <1>4 DEF Accounted, Published, NextSeq, Seqs
<1> QED BY <1>2, <1>3, <1>5, <1>6, OneReader DEF Attach

\* poll starts: the lag beyond the ring is jumped over and counted.
LEMMA PollStartInv ==
    ASSUME Inv, NEW r \in Readers, PollStart(r)
    PROVE  Inv'
<1>f. Facts(r) /\ Reading(r) /\ Accounted(r)
  BY ReaderFacts
<1>0. UNCHANGED <<memory, producer, seg, torn, copied, start, got>> /\ writeSeq' = writeSeq
  BY DEF PollStart, memory
<1>1. seg[r] # NoSegment /\ Published(r) \in Seqs /\ cursor[r] <= Published(r)
  BY <1>f DEF PollStart, Accounted, Facts
<1>2. PICK n \in Nat :
        /\ cursor' = [cursor EXCEPT ![r] = cursor[r] + n]
        /\ skipped' = [skipped EXCEPT ![r] = skipped[r] + n]
        /\ cursor[r] + n <= Published(r)
  <2>1. CASE Published(r) - cursor[r] > Capacity
    <3> DEFINE n == Published(r) - cursor[r] - Capacity
    <3>0. Published(r) \in Int /\ cursor[r] \in Int /\ skipped[r] \in Int /\ Capacity \in Nat
      BY <1>f, <1>1, RingAssumption DEF Seqs, Facts
    <3>1. /\ n \in Nat /\ cursor[r] + n = Published(r) - Capacity
          /\ skipped[r] + n = skipped[r] + Published(r) - cursor[r] - Capacity
          /\ cursor[r] + n <= Published(r)
      BY <3>0, <2>1
    <3>2. /\ cursor' = [cursor EXCEPT ![r] = Published(r) - Capacity]
          /\ skipped' = [skipped EXCEPT ![r] = skipped[r] + Published(r) - cursor[r] - Capacity]
      BY <2>1 DEF PollStart, Jump
    <3> HIDE DEF n
    <3> QED BY <3>1, <3>2
  <2>2. CASE ~(Published(r) - cursor[r] > Capacity)
    <3>1. cursor[r] + 0 = cursor[r] /\ skipped[r] + 0 = skipped[r]
      BY <1>f DEF Facts, Seqs
    <3>2. /\ cursor' = [cursor EXCEPT ![r] = cursor[r]]
          /\ skipped' = [skipped EXCEPT ![r] = skipped[r]]
      BY <2>2 DEF PollStart, Jump, Inv, ReaderInv, ReaderTypes
    <3> QED BY <1>1, <3>1, <3>2
  <2> QED BY <2>1, <2>2
<1>3. PICK m \in 1..MaxItems : room' = [room EXCEPT ![r] = m]
  BY DEF PollStart
<1>4. limit' = [limit EXCEPT ![r] = Published(r)]
  BY DEF PollStart
<1>5. /\ cursor'[r] = cursor[r] + n /\ skipped'[r] = skipped[r] + n /\ room'[r] = m
      /\ limit'[r] = Published(r)
  BY <1>2, <1>3, <1>4 DEF Inv, ReaderInv, ReaderTypes
<1>6. PICK pc \in {"head", "idle"} :
        /\ poll' = [poll EXCEPT ![r] = pc]
        /\ pc = "head" => cursor[r] + n < Published(r)
  BY <1>5 DEF PollStart, LoopOn
<1>7. cursor[r] + n \in Seqs /\ skipped[r] + n \in Seqs /\ torn[r] \in Seqs
  <2>1. Published(r) \in Nat /\ Published(r) <= MaxPush
    BY <1>1, RingAssumption DEF Seqs
  <2>2. torn[r] \in Seqs
    BY <1>f DEF Facts
  <2>3. /\ cursor[r] \in Nat /\ skipped[r] \in Nat /\ skipped[r] <= cursor[r]
    BY <1>f, Numbers
  <2> QED BY <1>2, <2>1, <2>2, <2>3, RingAssumption DEF Seqs
<1>8. ReaderTypes'
  <2>1. m \in 0..MaxItems
    BY <1>3, RingAssumption
  <2> QED BY <1>0, <1>1, <1>2, <1>3, <1>4, <1>6, <1>7, <2>1 DEF Inv, ReaderInv, ReaderTypes
<1>9. \A p \in Readers \ {r} : Same(p)
  BY <1>0, <1>2, <1>3, <1>4, <1>6 DEF Same, Inv, ReaderInv, ReaderTypes
<1>10. Published(r)' = Published(r) /\ poll'[r] = pc
  BY <1>0, <1>6 DEF Published, Inv, ReaderInv, ReaderTypes
<1>11. Reading(r)'
  BY <1>0, <1>1, <1>3, <1>5, <1>6, <1>10 DEF Reading, Seqs
<1>12. skipped'[r] + torn'[r] = skipped[r] + torn[r] + n /\ torn'[r] \in Seqs
  BY <1>0, <1>5, <1>f, RingAssumption DEF Facts, Seqs
<1>13. Accounted(r)'
  BY <1>f, <1>0, <1>1, <1>2, <1>5, <1>7, <1>10, <1>12, PassInv
<1> QED BY <1>0, <1>8, <1>9, <1>11, <1>13, OneReader

\* A slot that is given up is counted.
LEMMA TornInv ==
    ASSUME Inv, NEW r \in Readers, poll[r] # "idle", Torn(r),
           UNCHANGED <<memory, producer, seg, skipped, start>>,
           copied' \in [Readers -> Copies], \A p \in Readers \ {r} : copied'[p] = copied[p]
    PROVE  Inv'
<1>f. Facts(r) /\ Reading(r) /\ Accounted(r)
  BY ReaderFacts
<1>0. writeSeq' = writeSeq /\ UNCHANGED <<limit, room, got>>
  BY DEF memory, Torn
<1>1. /\ seg[r] # NoSegment /\ cursor[r] < limit[r] /\ limit[r] <= Published(r) /\ room[r] > 0
      /\ Published(r) \in Seqs
  BY <1>f DEF Reading, Facts
<1>2. cursor[r] + 1 \in Seqs /\ torn[r] + 1 \in Seqs /\ cursor[r] + 1 <= Published(r)
  <2>1. Published(r) \in Nat /\ Published(r) <= MaxPush /\ limit[r] \in Nat
    BY <1>f, <1>1, RingAssumption DEF Seqs, Facts
  <2>2. cursor[r] \in Nat /\ torn[r] \in Nat /\ torn[r] <= cursor[r]
    BY <1>f, Numbers
  <2> QED BY <1>1, <2>1, <2>2, RingAssumption DEF Seqs
<1>3. cursor' = [cursor EXCEPT ![r] = cursor[r] + 1] /\ torn' = [torn EXCEPT ![r] = torn[r] + 1]
  BY DEF Torn
<1>4. cursor'[r] = cursor[r] + 1 /\ torn'[r] = torn[r] + 1
  BY <1>3 DEF Inv, ReaderInv, ReaderTypes
<1>5. PICK pc \in {"head", "idle"} :
        /\ poll' = [poll EXCEPT ![r] = pc]
        /\ pc = "head" => cursor[r] + 1 < limit[r]
  BY <1>0, <1>4 DEF Torn, LoopOn
<1>6. ReaderTypes'
  BY <1>0, <1>2, <1>3, <1>5 DEF Inv, ReaderInv, ReaderTypes
<1>7. \A p \in Readers \ {r} : Same(p)
  BY <1>0, <1>3, <1>5 DEF Same, Inv, ReaderInv, ReaderTypes
<1>8. Published(r)' = Published(r) /\ poll'[r] = pc
  BY <1>0, <1>5 DEF Published, Inv, ReaderInv, ReaderTypes
<1>9. Reading(r)'
  BY <1>0, <1>1, <1>4, <1>5, <1>8 DEF Reading
<1>10. skipped'[r] + torn'[r] = skipped[r] + torn[r] + 1 /\ skipped'[r] \in Seqs
  <2>1. skipped'[r] = skipped[r] /\ skipped[r] \in Seqs
    BY <1>f DEF Facts
  <2> QED BY <1>4, <1>f, <2>1, Numbers
<1>11. Accounted(r)'
  BY <1>f, <1>0, <1>1, <1>2, <1>4, <1>8, <1>10, PassInv
<1> QED BY <1>6, <1>7, <1>9, <1>11, OneReader

\* seq_head is loaded, and the copy begins or the slot is given up.
LEMMA LoadHeadInv ==
    ASSUME Inv, NEW r \in Readers, LoadHead(r)
    PROVE  Inv'
<1>f. Facts(r) /\ Reading(r) /\ Accounted(r)
  BY ReaderFacts
<1>1. copied' = [copied EXCEPT ![r] = <<>>] /\ UNCHANGED <<memory, producer, seg, skipped, start>>
  BY DEF LoadHead
<1>2. <<>> \in Copies
  <2>1. <<>> \in [1..0 -> Seqs \cup {None}] /\ 0 \in 0..Words
    BY RingAssumption
  <2> QED BY <2>1 DEF Copies
<1>3. copied' \in [Readers -> Copies] /\ \A p \in Readers \ {r} : copied'[p] = copied[p]
  BY <1>1, <1>2 DEF Inv, ReaderInv, ReaderTypes
<1>4. CASE head[seg[r]][At(r)] # cursor[r]
  BY <1>1, <1>3, <1>4, TornInv DEF LoadHead
<1>5. CASE head[seg[r]][At(r)] = cursor[r]
  <2>1. poll' = [poll EXCEPT ![r] = "payload"] /\ UNCHANGED <<cursor, torn, limit, room, got>>
    BY <1>5 DEF LoadHead
  <2>2. ReaderTypes'
    BY <1>1, <1>3, <2>1 DEF Inv, ReaderInv, ReaderTypes
  <2>3. \A p \in Readers \ {r} : Same(p)
    BY <1>1, <1>3, <2>1 DEF Same, Inv, ReaderInv, ReaderTypes
  <2>4. poll'[r] = "payload" /\ copied'[r] = <<>> /\ Published(r)' = Published(r)
    BY <1>1, <2>1 DEF Inv, ReaderInv, ReaderTypes, Published, memory
  <2>5. seg[r] # NoSegment /\ cursor[r] < limit[r] /\ limit[r] <= Published(r) /\ room[r] > 0
    BY <1>f DEF LoadHead, Reading
  <2>6. Len(copied'[r]) = 0 /\ 0 < Words
    BY <2>4, RingAssumption
  <2>7. Reading(r)'
    BY <1>1, <2>1, <2>4, <2>5, <2>6 DEF Reading
  <2>8. Accounted(r)'
    BY <1>f, <1>1, <2>1, <2>4 DEF Accounted
  <2> QED BY <1>1, <2>2, <2>3, <2>7, <2>8, OneReader
<1> QED BY <1>4, <1>5

\* A word is copied; whatever the producer did meanwhile, it fits.
LEMMA LoadWordInv ==
    ASSUME Inv, NEW r \in Readers, LoadWord(r)
    PROVE  Inv'
<1>f. Facts(r) /\ Reading(r) /\ Accounted(r)
  BY ReaderFacts
<1> DEFINE n == Len(copied[r])
           x == payload[seg[r]][At(r)][n + 1]
<1>1. /\ copied' = [copied EXCEPT ![r] = Append(copied[r], x)]
      /\ poll' = [poll EXCEPT ![r] = IF n + 1 = Words THEN "tail" ELSE "payload"]
      /\ UNCHANGED <<memory, producer, seg, cursor, skipped, torn, limit, room, start, got>>
  BY DEF LoadWord
<1>2. /\ poll[r] = "payload" /\ seg[r] # NoSegment /\ cursor[r] < limit[r]
      /\ limit[r] <= Published(r) /\ room[r] > 0 /\ n < Words
      /\ \A w \in 1..n : Fits(copied[r][w], cursor[r]) /\ copied[r][w] <= head[seg[r]][At(r)]
  BY <1>f DEF LoadWord, Reading
<1>3. /\ copied[r] \in Copies /\ n \in 0..Words /\ n + 1 \in 1..Words
      /\ seg[r] \in Segments /\ At(r) \in Slots /\ cursor[r] \in Seqs
      /\ cursor[r] < Published(r)
  <2>1. copied[r] \in Copies
    BY <1>f DEF Facts
  <2>2. n \in 0..Words
    BY <2>1, CopiesType
  <2>3. cursor[r] \in Int /\ limit[r] \in Int /\ Published(r) \in Int
    BY <1>f, <1>2 DEF Facts, Seqs
  <2>4. cursor[r] < Published(r)
    BY <1>2, <2>3
  <2> QED BY <1>f, <1>2, <2>1, <2>2, <2>4, RingAssumption DEF Facts
<1>4. x \in Seqs \cup {None}
  BY <1>3, PayloadType DEF Inv
<1>5. Fits(x, cursor[r]) /\ x <= head[seg[r]][At(r)]
  BY <1>3 DEF Inv, MemoryInv, SlotsFit, HeadLeads, Published, At
<1> HIDE DEF x
<1>6. /\ Append(copied[r], x) \in Copies /\ Len(Append(copied[r], x)) = n + 1
      /\ \A w \in 1..n : Append(copied[r], x)[w] = copied[r][w]
      /\ Append(copied[r], x)[n + 1] = x
  BY <1>2, <1>3, <1>4, CopiesAppend
<1>7. ReaderTypes'
  BY <1>1, <1>6 DEF Inv, ReaderInv, ReaderTypes
<1>8. \A p \in Readers \ {r} : Same(p)
  BY <1>1 DEF Same, Inv, ReaderInv, ReaderTypes
<1>9. /\ copied'[r] = Append(copied[r], x)
      /\ poll'[r] = (IF n + 1 = Words THEN "tail" ELSE "payload")
      /\ Published(r)' = Published(r) /\ At(r)' = At(r) /\ head' = head
  BY <1>1 DEF Inv, ReaderInv, ReaderTypes, Published, At, memory
<1>10. \A w \in 1..(n + 1) :
         Fits(copied'[r][w], cursor[r]) /\ copied'[r][w] <= head[seg[r]][At(r)]
  <2> SUFFICES ASSUME NEW w \in 1..(n + 1)
               PROVE  Fits(copied'[r][w], cursor[r]) /\ copied'[r][w] <= head[seg[r]][At(r)]
    OBVIOUS
  <2>1. w \in 1..n \/ w = n + 1
    BY <1>3
  <2> QED BY <1>2, <1>5, <1>6, <1>9, <2>1
<1>11. Len(copied'[r]) = n + 1
  BY <1>6, <1>9
<1> HIDE DEF n
<1>14. n + 1 # Words => n + 1 < Words
  BY <1>3, RingAssumption
<1>12. Reading(r)'
  BY <1>1, <1>2, <1>9, <1>10, <1>11, <1>14 DEF Reading
<1>13. Accounted(r)'
  BY <1>f, <1>1, <1>9 DEF Accounted
<1> QED BY <1>1, <1>7, <1>8, <1>12, <1>13, OneReader

\* seq_tail is loaded, and the copy is delivered or given up.
LEMMA LoadTailInv ==
    ASSUME Inv, NEW r \in Readers, LoadTail(r)
    PROVE  Inv'
<1>f. Facts(r) /\ Reading(r) /\ Accounted(r)
  BY ReaderFacts
<1>1. UNCHANGED <<memory, producer, seg, skipped, start, copied>> /\ poll[r] = "tail"
  BY DEF LoadTail
<1>2. CASE tail[seg[r]][At(r)] # cursor[r]
  <2>1. copied' \in [Readers -> Copies] /\ \A p \in Readers \ {r} : copied'[p] = copied[p]
    BY <1>1 DEF Inv, ReaderInv, ReaderTypes
  <2> QED BY <1>1, <1>2, <2>1, TornInv DEF LoadTail
<1>3. CASE tail[seg[r]][At(r)] = cursor[r]
  <2> DEFINE e == [seq |-> cursor[r], words |-> copied[r]]
  <2>1. /\ got' = [got EXCEPT ![r] = Append(got[r], e)]
        /\ cursor' = [cursor EXCEPT ![r] = cursor[r] + 1]
        /\ room' = [room EXCEPT ![r] = room[r] - 1] /\ UNCHANGED <<torn, limit>>
        /\ LoopOn(r)
    BY <1>3 DEF LoadTail, Deliver
  <2>2. /\ seg[r] # NoSegment /\ cursor[r] < limit[r] /\ limit[r] <= Published(r)
        /\ room[r] > 0 /\ Published(r) \in Seqs
    BY <1>f, <1>1 DEF Reading, Facts
  <2>3. cursor[r] + 1 \in Seqs /\ cursor[r] + 1 <= Published(r) /\ room[r] - 1 \in 0..MaxItems
    <3>1. /\ cursor[r] \in Seqs /\ limit[r] \in Seqs /\ room[r] \in 0..MaxItems
          /\ MaxItems \in Nat /\ MaxPush \in Nat
      BY <1>f, <2>2, RingAssumption DEF Facts
    <3> QED BY <2>2, <3>1 DEF Seqs
  <2>4. e \in [seq : Seqs, words : Copies] /\ got[r] \in Seq([seq : Seqs, words : Copies])
    BY <1>f DEF Facts
  <2>5. /\ Append(got[r], e) \in Seq([seq : Seqs, words : Copies])
        /\ Len(Append(got[r], e)) = Len(got[r]) + 1
        /\ \A i \in 1..Len(got[r]) : Append(got[r], e)[i] = got[r][i]
        /\ Append(got[r], e)[Len(got[r]) + 1] = e
    BY <2>4
  <2>6. /\ got'[r] = Append(got[r], e) /\ cursor'[r] = cursor[r] + 1
        /\ room'[r] = room[r] - 1 /\ limit'[r] = limit[r]
    BY <2>1 DEF Inv, ReaderInv, ReaderTypes
  <2>e. e.seq = cursor[r]
    OBVIOUS
  <2> HIDE DEF e
  <2>7. PICK pc \in {"head", "idle"} :
          /\ poll' = [poll EXCEPT ![r] = pc]
          /\ pc = "head" => cursor[r] + 1 < limit[r] /\ room[r] - 1 > 0
    BY <2>1, <2>6 DEF LoopOn
  <2>8. ReaderTypes'
    BY <1>1, <2>1, <2>3, <2>5, <2>7 DEF Inv, ReaderInv, ReaderTypes
  <2>9. \A p \in Readers \ {r} : Same(p)
    BY <1>1, <2>1, <2>7 DEF Same, Inv, ReaderInv, ReaderTypes
  <2>10. Published(r)' = Published(r) /\ poll'[r] = pc
    BY <1>1, <2>7 DEF Published, Inv, ReaderInv, ReaderTypes, memory
  <2>11. Reading(r)'
    BY <1>1, <2>2, <2>6, <2>7, <2>10 DEF Reading
  <2>12. cursor'[r] = start'[r] + Len(got'[r]) + skipped'[r] + torn'[r]
    <3>1. PICK l \in Nat : l = Len(got[r])
      BY <1>f DEF Facts
    <3>2. cursor[r] = start[r] + l + skipped[r] + torn[r]
      BY <1>f, <3>1 DEF Accounted
    <3>3. start[r] \in Nat /\ skipped[r] \in Nat /\ torn[r] \in Nat
      BY <1>f, Numbers
    <3>4. cursor[r] + 1 = start[r] + (l + 1) + skipped[r] + torn[r]
      BY <3>2, <3>3
    <3>5. Len(got'[r]) = l + 1
      BY <2>5, <2>6, <3>1
    <3> QED BY <1>1, <2>1, <2>6, <3>4, <3>5
  <2>13. ASSUME NEW i \in 1..Len(got'[r])
         PROVE  got'[r][i].seq < cursor'[r] /\ (i > 1 => got'[r][i - 1].seq < got'[r][i].seq)
    <3>1. Len(got[r]) \in Nat /\ cursor[r] \in Nat
      BY <1>f, Numbers DEF Facts
    <3>2. i \in 1..Len(got[r]) \/ i = Len(got[r]) + 1
      BY <2>5, <2>6, <3>1
    <3>3. \A j \in 1..Len(got[r]) :
            got'[r][j] = got[r][j] /\ got[r][j].seq < cursor[r] /\ got[r][j].seq \in Int
      <4> SUFFICES ASSUME NEW j \in 1..Len(got[r])
                   PROVE  /\ got'[r][j] = got[r][j] /\ got[r][j].seq < cursor[r]
                          /\ got[r][j].seq \in Int
        OBVIOUS
      <4>1. got'[r][j] = got[r][j]
        BY <2>5, <2>6
      <4>2. got[r][j].seq < cursor[r]
        BY <1>f DEF Accounted
      <4>3. got[r][j].seq \in Seqs
        BY <1>f DEF Facts
      <4> QED BY <4>1, <4>2, <4>3 DEF Seqs
    <3>4. CASE i \in 1..Len(got[r])
      <4>1. i > 1 => i - 1 \in 1..Len(got[r]) /\ got[r][i - 1].seq < got[r][i].seq
        BY <1>f, <3>1, <3>4 DEF Accounted
      <4>2. got'[r][i] = got[r][i] /\ got[r][i].seq < cursor[r] /\ got[r][i].seq \in Int
        BY <3>3, <3>4
      <4>3. got'[r][i].seq < cursor'[r]
        BY <2>6, <3>1, <4>2
      <4>4. ASSUME i > 1
            PROVE  got'[r][i - 1].seq < got'[r][i].seq
        <5>1. i - 1 \in 1..Len(got[r]) /\ got[r][i - 1].seq < got[r][i].seq
          BY <4>1, <4>4
        <5>2. got'[r][i - 1] = got[r][i - 1]
          BY <3>3, <5>1
        <5> QED BY <4>2, <5>1, <5>2
      <4> QED BY <4>3, <4>4
    <3>5. CASE i = Len(got[r]) + 1
      <4>1. got'[r][i].seq = cursor[r]
        BY <2>5, <2>6, <2>e, <3>5
      <4>2. i > 1 => i - 1 \in 1..Len(got[r])
        BY <3>1, <3>5
      <4> QED BY <2>6, <3>1, <3>3, <4>1, <4>2
    <3> QED BY <3>2, <3>4, <3>5
  <2>14. Accounted(r)'
    BY <2>3, <2>6, <2>10, <2>12, <2>13 DEF Accounted
  <2> QED BY <1>1, <2>8, <2>9, <2>11, <2>14, OneReader
<1> QED BY <1>2, <1>3

-----------------------------------------------------------------------------
\* Every step preserves the invariant.
LEMMA NextInv == Inv /\ [Next]_vars => Inv'
<1> SUFFICES ASSUME Inv, [Next]_vars PROVE Inv'
  OBVIOUS
<1>1. CASE Producer
  BY <1>1, ProducerInv
<1>2. ASSUME NEW r \in Readers, Reader(r) \/ Attach(r) PROVE Inv'
  BY <1>2, AttachInv, PollStartInv, LoadHeadInv, LoadWordInv, LoadTailInv DEF Reader
<1>3. CASE UNCHANGED vars
  BY <1>3 DEF vars, memory, producer, reader, Inv, MemoryInv, MemoryTypes, SlotsFit,
     HeadLeads, PushUnderWay, NextSeq, ReaderInv, ReaderTypes, Reading, Accounted,
     Published, At
<1> QED BY <1>1, <1>2, <1>3 DEF Next

\* The invariant of the ring holds in every reachable state.
THEOREM RingInvariant == Spec => []Inv
BY InitInv, NextInv, PTL DEF Spec

\* The ring's state keeps its types: no counter of a reader runs past what was
\* pushed, poll returns no more than max_items.
THEOREM RingTypeCorrect == Spec => []TypeOK
<1>1. Inv => TypeOK
  BY DEF Inv, MemoryInv, ReaderInv, MemoryTypes, ReaderTypes, TypeOK
<1> QED BY <1>1, RingInvariant, PTL

\* Every frame a reader has passed was delivered or counted (RingReader.poll),
\* in order and none twice, for any capacity and any interleaving.
THEOREM LossesAreCounted == Spec => []LossAccounting
<1>1. Inv => LossAccounting
  BY DEF Inv, ReaderInv, Accounted, LossAccounting
<1> QED BY <1>1, RingInvariant, PTL

-----------------------------------------------------------------------------
(* What a step of a reader may do.                                         *)

\* The slot of a frame more than a lap behind has been taken over.
LEMMA Lapped ==
    ASSUME Inv, NEW g \in Segments, NEW q \in Nat, q + Capacity < writeSeq[g]
    PROVE  head[g][Slot(q)] >= q + Capacity /\ tail[g][Slot(q)] >= q + Capacity
<1>1. q + Capacity \in Seqs
  BY RingAssumption DEF Inv, MemoryInv, MemoryTypes, Seqs
<1>2. Fits(head[g][Slot(q + Capacity)], q + Capacity) /\ Fits(tail[g][Slot(q + Capacity)], q + Capacity)
  BY <1>1 DEF Inv, MemoryInv, SlotsFit
<1>3. Slot(q + Capacity) = Slot(q)
  BY SlotShift
<1> QED BY <1>2, <1>3 DEF Fits

\* The slot of a published frame that shows another seq has been taken over.
LEMMA TakenOver ==
    ASSUME Inv, NEW g \in Segments, NEW c \in Seqs, c < writeSeq[g],
           head[g][Slot(c)] # c \/ tail[g][Slot(c)] # c
    PROVE  head[g][Slot(c)] >= c + Capacity
<1>1. Slot(c) \in Slots
  BY SlotType
<1>2. head[g][Slot(c)] \in Nat /\ tail[g][Slot(c)] \in Nat /\ c \in Nat
  BY <1>1, RingAssumption DEF Inv, MemoryInv, MemoryTypes, Seqs
<1>3. Fits(head[g][Slot(c)], c) /\ Fits(tail[g][Slot(c)], c)
  BY DEF Inv, MemoryInv, SlotsFit
<1>4. \/ head[g][Slot(c)] >= c + Capacity
      \/ tail[g][Slot(c)] >= c + Capacity
  BY <1>2, <1>3, FitsGap
<1>5. tail[g][Slot(c)] <= head[g][Slot(c)]
  BY <1>1 DEF Inv, MemoryInv, HeadLeads
<1> QED BY <1>2, <1>4, <1>5, RingAssumption

\* Only r's own loads move r's cursor, unless r is attached anew.
LEMMA OwnSteps ==
    ASSUME Inv, [Next]_vars, NEW r \in Readers, Polling(r)
    PROVE  \/ cursor'[r] = cursor[r] /\ got'[r] = got[r]
           \/ PollStart(r) \/ LoadHead(r) \/ LoadTail(r)
<1>1. CASE Producer \/ UNCHANGED vars
  BY <1>1 DEF Producer, PushHead, PushWord, PushTail, Publish, ProducerRestart, vars, reader
<1>2. ASSUME NEW p \in Readers, Attach(p)
      PROVE  cursor'[r] = cursor[r] /\ got'[r] = got[r]
  <2>1. p # r
    BY <1>2 DEF Attach, Polling, Inv, ReaderInv, ReaderTypes
  <2> QED BY <1>2, <2>1 DEF Attach, Inv, ReaderInv, ReaderTypes
<1>3. ASSUME NEW p \in Readers \ {r}, Reader(p)
      PROVE  cursor'[r] = cursor[r] /\ got'[r] = got[r]
  BY <1>3 DEF Reader, PollStart, LoadHead, LoadWord, LoadTail, Jump, Torn, Deliver,
     Inv, ReaderInv, ReaderTypes
<1>4. CASE Reader(r)
  BY <1>4 DEF Reader, LoadWord
<1> QED BY <1>1, <1>2, <1>3, <1>4 DEF Next

\* A reader that steps over one frame without delivering it has seen the slot
\* taken over.
LEMMA GivesUp ==
    ASSUME Inv, NEW r \in Readers, LoadHead(r) \/ LoadTail(r), ~Delivering(r),
           NEW q \in cursor[r]..(cursor'[r] - 1)
    PROVE  head[seg[r]][Slot(q)] >= q + Capacity
<1>f. Facts(r) /\ Reading(r) /\ Accounted(r)
  BY ReaderFacts
<1>1. /\ seg[r] # NoSegment /\ cursor[r] < limit[r] /\ limit[r] <= Published(r)
      /\ seg[r] \in Segments /\ cursor[r] \in Seqs
  BY <1>f DEF LoadHead, LoadTail, Reading, Facts
<1>2. cursor[r] < writeSeq[seg[r]] /\ cursor[r] \in Int
  <2>1. cursor[r] \in Int /\ limit[r] \in Int /\ Published(r) \in Int
    BY <1>f, <1>1 DEF Facts, Seqs
  <2> QED BY <1>1, <2>1 DEF Published
<1>3. CASE Torn(r)
  <2>1. cursor'[r] = cursor[r] + 1
    BY <1>3 DEF Torn, Inv, ReaderInv, ReaderTypes
  <2>2. q = cursor[r]
    BY <1>2, <2>1
  <2>3. head[seg[r]][Slot(cursor[r])] # cursor[r] \/ tail[seg[r]][Slot(cursor[r])] # cursor[r]
    <3>1. CASE LoadHead(r)
      <4>1. cursor' # cursor
        BY <1>2, <2>1
      <4> QED BY <3>1, <4>1 DEF LoadHead, At
    <3>2. CASE LoadTail(r)
      <4>1. torn' # torn
        <5>1. torn'[r] = torn[r] + 1 /\ torn[r] \in Int
          BY <1>f, <1>3 DEF Torn, Facts, Seqs, Inv, ReaderInv, ReaderTypes
        <5> QED BY <5>1
      <4> QED BY <3>2, <4>1 DEF LoadTail, Deliver, At
    <3> QED BY <3>1, <3>2
  <2> QED BY <1>1, <1>2, <2>2, <2>3, TakenOver
<1>4. CASE ~Torn(r)
  <2>1. CASE LoadHead(r)
    <3>1. cursor' = cursor
      BY <1>4, <2>1 DEF LoadHead
    <3> QED BY <1>2, <3>1
  <2>2. CASE LoadTail(r)
    <3>1. got' = [got EXCEPT ![r] = Append(got[r], [seq |-> cursor[r], words |-> copied[r]])]
      BY <1>4, <2>2 DEF LoadTail, Deliver
    <3> DEFINE e == [seq |-> cursor[r], words |-> copied[r]]
    <3>2. got'[r] = Append(got[r], e)
      BY <3>1 DEF Inv, ReaderInv, ReaderTypes
    <3>3. e \in [seq : Seqs, words : Copies] /\ got[r] \in Seq([seq : Seqs, words : Copies])
      BY <1>f DEF Facts
    <3>4. Len(Append(got[r], e)) = Len(got[r]) + 1 /\ Len(got[r]) \in Nat
      BY <3>3
    <3> HIDE DEF e
    <3> QED BY <3>2, <3>4 DEF Delivering
  <2> QED BY <2>1, <2>2
<1> QED BY <1>3, <1>4

\* No reader gives up a frame that is still in the ring (RingReader.poll's
\* jump and its two checks), for any capacity.
THEOREM LossesAreReal == Spec => NoFalseLoss
<1>1. ASSUME Inv, [Next]_vars, NEW r \in Readers, Polling(r),
             NEW q \in cursor[r]..(cursor'[r] - 1)
      PROVE  Delivering(r) \/ head[seg[r]][Slot(q)] >= q + Capacity
  <2>f. Facts(r) /\ Accounted(r)
    BY <1>1, ReaderFacts
  <2>1. cursor[r] \in Nat
    BY <1>1, <2>f, Numbers
  <2>2. CASE cursor'[r] = cursor[r]
    BY <2>1, <2>2
  <2>3. CASE PollStart(r)
    <3>1. seg[r] # NoSegment /\ seg[r] \in Segments /\ Published(r) \in Nat
      BY <2>f, <2>3, RingAssumption DEF PollStart, Facts, Seqs
    <3>2. CASE Published(r) - cursor[r] > Capacity
      <4>1. cursor'[r] = Published(r) - Capacity
        BY <1>1, <2>3, <3>2 DEF PollStart, Jump, Inv, ReaderInv, ReaderTypes
      <4>2. q \in Nat /\ q + Capacity < Published(r)
        BY <1>1, <2>1, <3>1, <4>1, RingAssumption
      <4> QED BY <1>1, <3>1, <4>2, Lapped DEF Published
    <3>3. CASE ~(Published(r) - cursor[r] > Capacity)
      BY <2>1, <2>3, <3>3 DEF PollStart, Jump
    <3> QED BY <3>2, <3>3
  <2>4. CASE LoadHead(r) \/ LoadTail(r)
    BY <1>1, <2>4, GivesUp
  <2> QED BY <1>1, <2>2, <2>3, <2>4, OwnSteps
<1>2. Inv /\ [Next]_vars =>
        [\A r \in Readers : Polling(r) =>
           \A q \in cursor[r]..(cursor'[r] - 1) :
             Delivering(r) \/ head[seg[r]][Slot(q)] >= q + Capacity]_vars
  BY <1>1
<1> QED BY <1>2, RingInvariant, PTL DEF Spec, NoFalseLoss

\* A frame is delivered by the load of its seq_tail, which is its seq.
LEMMA DeliveredAtTail ==
    ASSUME Inv, [Next]_vars, NEW r \in Readers, Polling(r), Delivering(r)
    PROVE  LoadTail(r) /\ tail[seg[r]][Slot(cursor[r])] = cursor[r]
<1>1. Len(got[r]) \in Nat
  BY ReaderFacts DEF Facts
<1>2. got'[r] # got[r]
  BY <1>1 DEF Delivering
<1>3. ~PollStart(r) /\ ~LoadHead(r)
  BY <1>2 DEF PollStart, LoadHead, Torn
<1>4. LoadTail(r)
  BY <1>2, <1>3, OwnSteps
<1> QED BY <1>2, <1>4 DEF LoadTail, Torn, At

\* What a delivering reader knows of its seq.
LEMMA DeliveryFacts ==
    ASSUME Inv, NEW r \in Readers, LoadTail(r)
    PROVE  /\ seg[r] \in Segments /\ cursor[r] \in Seqs /\ cursor[r] \in Nat
           /\ Published(r) \in Nat /\ Len(copied[r]) = Words /\ copied[r] \in Copies
           /\ \A w \in 1..Words :
                Fits(copied[r][w], cursor[r]) /\ copied[r][w] <= head[seg[r]][At(r)]
<1>1. Facts(r) /\ Reading(r) /\ Accounted(r)
  BY ReaderFacts
<1>2. /\ seg[r] # NoSegment /\ Len(copied[r]) = Words
      /\ \A w \in 1..Words :
           Fits(copied[r][w], cursor[r]) /\ copied[r][w] <= head[seg[r]][At(r)]
  BY <1>1 DEF LoadTail, Reading
<1> QED BY <1>1, <1>2, RingAssumption DEF Facts, Seqs

\* A frame that a complete later frame has replaced is not delivered: the check
\* of seq_tail after the copy sees to it.
THEOREM ReplacedNotDelivered == Spec => NeverReplaced
<1>1. ASSUME Inv, [Next]_vars, NEW r \in Readers, Polling(r), Delivering(r)
      PROVE  Published(r) <= cursor[r] + Capacity
  <2>1. LoadTail(r) /\ tail[seg[r]][Slot(cursor[r])] = cursor[r]
    BY <1>1, DeliveredAtTail
  <2>2. seg[r] \in Segments /\ cursor[r] \in Nat /\ Published(r) \in Nat
    BY <1>1, <2>1, DeliveryFacts
  <2>3. ~(cursor[r] + Capacity < writeSeq[seg[r]])
    <3> SUFFICES ASSUME cursor[r] + Capacity < writeSeq[seg[r]] PROVE FALSE
      OBVIOUS
    <3>1. tail[seg[r]][Slot(cursor[r])] >= cursor[r] + Capacity
      BY <1>1, <2>2, Lapped
    <3> QED BY <2>1, <2>2, <3>1, RingAssumption
  <2> QED BY <2>2, <2>3, RingAssumption DEF Published
<1>2. Inv /\ [Next]_vars =>
        [\A r \in Readers : Polling(r) /\ Delivering(r) =>
           Published(r) <= cursor[r] + Capacity]_vars
  BY <1>1
<1> QED BY <1>2, RingInvariant, PTL DEF Spec, NeverReplaced

\* Bytes delivered for a seq are its own, or those of a later lap whose
\* seq_head is already in the slot: the torn reads that pass the checks of
\* RingReader.poll are of no other kind, and none shows an older frame.
THEOREM TornReadsAreLapped == Spec => IntactUnlessLapped
<1>1. ASSUME Inv, [Next]_vars, NEW r \in Readers, Polling(r), Delivering(r),
             NEW w \in 1..Words
      PROVE  \/ copied[r][w] = cursor[r]
             \/ /\ copied[r][w] >= cursor[r] + Capacity
                /\ head[seg[r]][At(r)] >= copied[r][w]
  <2>1. LoadTail(r)
    BY <1>1, DeliveredAtTail
  <2>2. /\ cursor[r] \in Nat /\ Len(copied[r]) = Words /\ copied[r] \in Copies
        /\ Fits(copied[r][w], cursor[r]) /\ copied[r][w] <= head[seg[r]][At(r)]
        /\ seg[r] \in Segments
    BY <1>1, <2>1, DeliveryFacts
  <2>3. copied[r][w] \in Int
    BY <1>1, <2>2, CopiesType
  <2>4. copied[r][w] \in Nat
    BY <2>2, <2>3 DEF Fits
  <2>5. copied[r][w] = cursor[r] \/ copied[r][w] >= cursor[r] + Capacity
    BY <2>2, <2>4, FitsGap
  <2>6. head[seg[r]][At(r)] \in Int
    <3>1. At(r) \in Slots
      BY <1>1, ReaderFacts DEF Facts
    <3> QED BY <1>1, <2>2, <3>1 DEF Inv, MemoryInv, MemoryTypes, Seqs
  <2> QED BY <2>2, <2>4, <2>5, <2>6
<1>2. Inv /\ [Next]_vars =>
        [\A r \in Readers : Polling(r) /\ Delivering(r) =>
           \A w \in 1..Words :
             \/ copied[r][w] = cursor[r]
             \/ /\ copied[r][w] >= cursor[r] + Capacity
                /\ head[seg[r]][At(r)] >= copied[r][w]]_vars
  BY <1>1
<1> QED BY <1>2, RingInvariant, PTL DEF Spec, IntactUnlessLapped

\* The three action properties of RingReader.poll together.
THEOREM PollsAreSound == Spec => PollIsSound
  BY LossesAreReal, TornReadsAreLapped, ReplacedNotDelivered DEF PollIsSound
-----------------------------------------------------------------------------
(* The multicast feed.                                                     *)

\* The newest frame of a key among the first n of the log, which is what the publisher's
\* cache held when it had published them.
OfKey(l, k, a, b) == {m \in a .. b : l[m + 1] = k}
Newest(l, k, n) == IF OfKey(l, k, 0, n - 1) = {} THEN Nil ELSE Max(OfKey(l, k, 0, n - 1))

Message ==
    [type : {"snapshot"}, values : [Key -> Nat \cup {Nil}], next : Nat]
    \cup [type : {"frame"}, seq : Nat]
    \cup [type : {"ack"}, from : Int, to : Int, oldest : Nat, unavailable : Int]
    \cup [type : {"eof"}]
Request == SUBSET (Nat \X Nat)
Subscriber ==
    [expected : Nat \cup {Nil}, pending : SUBSET Nat, seen : SUBSET Nat,
     view : [Key -> Nat \cup {Nil}], got : SUBSET Nat, lost : Nat, first : Nat \cup {Nil}]

Logged == log \in Seq(Key \cup {Nil}) /\ Len(log) \in Nat /\ Len(log) <= MaxSeq
Wired ==
    /\ net \subseteq Nat \X Nat /\ \A d \in net : d[1] <= d[2] /\ d[2] < Len(log)
    /\ c2p \in Seq(Request) /\ p2c \in Seq(Message)
    /\ phase \in {"off", "joined", "connected", "raised"}

\* What is on the channel speaks of frames that were published, a snapshot of all that
\* were before its number.
Truthful(m) ==
    /\ m.type = "snapshot" => m.next <= Len(log) /\ \A k \in Key : m.values[k] = Newest(log, k, m.next)
    /\ m.type = "ack" => m.oldest <= Oldest
    /\ m.type = "frame" => m.seq < Len(log)
Asked(r) == \A g \in r : g[1] <= g[2] /\ g[2] < Len(log)
ChannelIsTrue ==
    /\ \A i \in DOMAIN p2c : Truthful(p2c[i])
    /\ \A i \in DOMAIN c2p : Asked(c2p[i])
    /\ last \in [Key -> Nat \cup {Nil}] /\ \A k \in Key : last[k] = Newest(log, k, Len(log))

\* One snapshot is asked for and given, before anything else.
Handshake ==
    /\ phase \in {"off", "joined"} => c2p = <<>> /\ p2c = <<>> /\ sub.expected = Nil
    /\ \A i \in DOMAIN c2p : c2p[i] = {} => i = 1 /\ p2c = <<>> /\ sub.expected = Nil
    /\ \A i \in DOMAIN p2c : p2c[i].type = "snapshot" => i = 1 /\ sub.expected = Nil
    /\ sub.expected = Nil => \A i \in DOMAIN c2p : c2p[i] = {}

\* A subscriber that has everything before e, or has counted it.
Skipped(s, e) == (s.first .. e - 1) \ s.got
UpTo(s, e) ==
    /\ s.first \in Nat /\ s.first <= e /\ e \in Nat /\ e <= Len(log)
    /\ s.got \subseteq s.first .. e - 1
    /\ Cardinality(Skipped(s, e)) = s.lost /\ \A n \in Skipped(s, e) : n < Oldest
    /\ s.lost = 0 => \A k \in Key : s.view[k] = Newest(log, k, e)
Within(s) ==
    /\ s \in Subscriber /\ s.pending \subseteq 0 .. Len(log) - 1 /\ s.seen \subseteq 0 .. MaxSeq
    /\ \A k \in Key : s.view[k] # Nil => s.view[k] < Len(log)
Following(s) ==
    /\ Within(s)
    /\ s.expected = Nil => s.got = {} /\ s.lost = 0
    /\ s.expected # Nil => UpTo(s, s.expected)

McastInv == Logged /\ Wired /\ ChannelIsTrue /\ Handshake /\ Following(sub)

-----------------------------------------------------------------------------
\* A nonempty set of numbers has a least one.
LEMMA Smallest ==
    ASSUME NEW T, T \subseteq Nat, T # {}
    PROVE  Min(T) \in T /\ \A y \in T : Min(T) <= y
<1>1. PICK R : R = OpToRel(<, Nat)
  OBVIOUS
<1>2. IsWellFoundedOn(R, Nat)
  BY <1>1, NatLessThanWellFounded
<1>3. \A x, y \in Nat : <<y, x>> \in R <=> y < x
  BY <1>1 DEF OpToRel
<1>4. PICK x \in T : \A y \in T : ~ (<<y, x>> \in R)
  BY <1>2, WFMin
<1>5. \A y \in T : ~(y < x)
  BY <1>3, <1>4, Zenon
<1>6. \A y \in T : x <= y
  BY <1>5
<1> QED BY <1>6 DEF Min

\* A nonempty set of numbers up to n has a greatest one.
LEMMA Greatest ==
    ASSUME NEW n \in Nat, NEW T, T \subseteq 0 .. n, T # {}
    PROVE  Max(T) \in T /\ \A y \in T : y <= Max(T)
<1> DEFINE U == {n - x : x \in T}
<1>1. ASSUME NEW x \in T PROVE n - x \in Nat
  <2>1. x \in 0 .. n
    OBVIOUS
  <2> QED BY <2>1
<1>2. U \subseteq Nat /\ U # {}
  BY <1>1
<1>3. Min(U) \in U /\ \A y \in U : Min(U) <= y
  BY <1>2, Smallest
<1>4. PICK m \in T : Min(U) = n - m
  BY <1>3
<1>5. ASSUME NEW y \in T PROVE m >= y
  <2>1. n - m <= n - y
    BY <1>3, <1>4
  <2>2. m \in Nat /\ y \in Nat
    OBVIOUS
  <2> QED BY <2>1, <2>2
<1>6. \E x \in T : \A y \in T : x >= y
  BY <1>5
<1>7. Max(T) \in T /\ \A y \in T : Max(T) >= y
  BY <1>6 DEF Max
<1>8. \A y \in T : y \in Nat
  OBVIOUS
<1> QED BY <1>7, <1>8

\* The greatest of a set is the greatest of its upper part.
LEMMA GreatestAbove ==
    ASSUME NEW n \in Nat, NEW U, NEW B, U \subseteq 0 .. n, B \subseteq U, B # {},
           \A x \in U : x \in B \/ \A y \in B : x < y
    PROVE  Max(U) = Max(B)
<1>1. B \subseteq 0 .. n
  OBVIOUS
<1>2. Max(B) \in B /\ \A y \in B : y <= Max(B)
  BY <1>1, Greatest
<1>3. Max(U) \in U /\ \A y \in U : y <= Max(U)
  BY Greatest
<1>4. PICK a \in U : a = Max(U)
  BY <1>3
<1>5. PICK b \in B : b = Max(B)
  BY <1>2
<1>6. a \in Nat /\ b \in Nat /\ b \in U
  OBVIOUS
<1>7. b <= a
  BY <1>3, <1>4, <1>6
<1>8. a \in B
  BY <1>6, <1>7
<1>9. a <= b
  BY <1>2, <1>5, <1>8
<1> QED BY <1>4, <1>5, <1>6, <1>7, <1>9

\* The unbroken run from e ends with the first number that is not waiting.
LEMMA RunEnds ==
    ASSUME NEW n \in Nat, n <= MaxSeq, MaxSeq \in Nat, NEW e \in 0 .. n, NEW p, p \subseteq 0 .. n - 1,
           NEW z, z = Min({m \in e .. MaxSeq : m \notin p})
    PROVE  z \in e .. n /\ e .. z - 1 \subseteq p
<1> DEFINE T == {m \in e .. MaxSeq : m \notin p}
<1>1. n \in T
  OBVIOUS
<1>2. T \subseteq Nat /\ T # {}
  BY <1>1
<1>3. Min(T) \in T /\ \A y \in T : Min(T) <= y
  BY <1>2, Smallest
<1>4. PICK end \in T : end = Min(T)
  BY <1>3
<1>5. end \in Nat /\ e <= end /\ end <= n
  BY <1>1, <1>3, <1>4
<1>6. ASSUME NEW m \in e .. end - 1 PROVE m \in p
  <2>1. m \in e .. MaxSeq /\ m < end
    BY <1>4, <1>5
  <2> QED BY <2>1, <1>3, <1>4
<1> QED BY <1>4, <1>5, <1>6

\* The newest of a key, from e on.
LEMMA NewestFrom ==
    ASSUME NEW l \in Seq(Key \cup {Nil}), NEW e \in 0 .. Len(l), NEW end \in e .. Len(l), NEW k
    PROVE  /\ Newest(l, k, end) = IF OfKey(l, k, e, end - 1) = {} THEN Newest(l, k, e) ELSE Max(OfKey(l, k, e, end - 1))
           /\ OfKey(l, k, e, end - 1) # {} => Max(OfKey(l, k, e, end - 1)) \in 0 .. Len(l) - 1
<1> DEFINE A == OfKey(l, k, 0, e - 1)
           B == OfKey(l, k, e, end - 1)
<1>0. Len(l) \in Nat /\ e \in Nat /\ end \in Nat /\ e <= end /\ end <= Len(l)
  OBVIOUS
<1>1. OfKey(l, k, 0, end - 1) = A \cup B
  BY <1>0 DEF OfKey
<1>2. /\ A \subseteq 0 .. Len(l) /\ B \subseteq 0 .. Len(l) /\ B \subseteq 0 .. Len(l) - 1
      /\ \A x \in A, y \in B : x < y
  BY <1>0 DEF OfKey
<1>3. CASE B = {}
  BY <1>1, <1>3 DEF Newest
<1>4. CASE B # {}
  <2>1. PICK u, b : u = OfKey(l, k, 0, end - 1) /\ b = B
    OBVIOUS
  <2>2. u \subseteq 0 .. Len(l) /\ b \subseteq 0 .. Len(l) /\ b \subseteq u /\ b # {}
    BY <2>1, <1>0, <1>1, <1>2, <1>4
  <2>3. \A x \in u : x \in b \/ \A y \in b : x < y
    BY <2>1, <1>1, <1>2
  <2>4. Max(u) = Max(b)
    BY <1>0, <2>2, <2>3, GreatestAbove
  <2>5. Max(b) \in b
    BY <1>0, <2>2, Greatest
  <2> HIDE DEF A, B
  <2> QED BY <1>2, <1>4, <2>1, <2>2, <2>4, <2>5 DEF Newest, B
<1> QED BY <1>3, <1>4

-----------------------------------------------------------------------------
(* The subscriber's handlers.                                              *)

\* What _deliver and _drain_pending leave behind.
Ran(s, e, p, end) ==
    /\ e .. end - 1 \subseteq p
    /\ Advance(s, e, p) =
         [expected |-> end, pending |-> p \ (e .. end - 1), seen |-> {n \in s.seen : n >= end},
          view |-> [k \in Key |-> IF OfKey(log, k, e, end - 1) = {} THEN s.view[k]
                                  ELSE Max(OfKey(log, k, e, end - 1))],
          got |-> s.got \cup (e .. end - 1), lost |-> s.lost, first |-> s.first]

\* What Advance returns is the run of pending numbers from where the subscriber stood.
LEMMA AdvanceRuns ==
    ASSUME Logged, NEW s \in Subscriber, NEW e \in 0 .. Len(log),
           NEW p, p \subseteq 0 .. Len(log) - 1
    PROVE  \E end \in e .. Len(log) : Ran(s, e, p, end)
<1>1. PICK z : z = Min({n \in e .. MaxSeq : n \notin p})
  OBVIOUS
<1>2. z \in e .. Len(log) /\ e .. z - 1 \subseteq p
  <2>1. Len(log) \in Nat /\ Len(log) <= MaxSeq /\ MaxSeq \in Nat
    BY McastAssumption DEF Logged
  <2> QED BY <1>1, <2>1, RunEnds
<1>3. s = [expected |-> s.expected, pending |-> s.pending, seen |-> s.seen, view |-> s.view,
           got |-> s.got, lost |-> s.lost, first |-> s.first]
  BY DEF Subscriber
<1>4. Advance(s, e, p) =
        [expected |-> z, pending |-> p \ (e .. z - 1), seen |-> {n \in s.seen : n >= z},
         view |-> [k \in Key |-> IF {n \in e .. z - 1 : log[n + 1] = k} = {} THEN s.view[k]
                                 ELSE Max({n \in e .. z - 1 : log[n + 1] = k})],
         got |-> s.got \cup (e .. z - 1), lost |-> s.lost, first |-> s.first]
  <2>1. Advance(s, e, p) =
        [s EXCEPT !.expected = z, !.pending = p \ (e .. z - 1),
                  !.seen = {n \in @ : n >= z}, !.got = @ \cup e .. z - 1,
                  !.view = [k \in Key |-> LET new == {n \in e .. z - 1 : log[n + 1] = k}
                                          IN  IF new = {} THEN @[k] ELSE Max(new)]]
    BY <1>1 DEF Advance
  <2> QED BY <1>3, <2>1
<1> QED BY <1>2, <1>4 DEF OfKey, Ran

\* Who has everything before e, or has counted it, has so after the frames from e on.
LEMMA AdvanceFollows ==
    ASSUME Logged, NEW s, Within(s), NEW e, UpTo(s, e), NEW p, p \subseteq 0 .. Len(log) - 1
    PROVE  Following(Advance(s, e, p)) /\ Advance(s, e, p).expected # Nil
<1>0. /\ Len(log) \in Nat /\ e \in 0 .. Len(log) /\ s \in Subscriber
      /\ s.first \in Nat /\ s.first <= e /\ e \in Nat
  BY DEF Logged, UpTo, Within
<1> DEFINE t == Advance(s, e, p)
<1>1. PICK end \in e .. Len(log) :
        t = [expected |-> end, pending |-> p \ (e .. end - 1), seen |-> {n \in s.seen : n >= end},
                view |-> [k \in Key |-> IF OfKey(log, k, e, end - 1) = {} THEN s.view[k]
                                        ELSE Max(OfKey(log, k, e, end - 1))],
                got |-> s.got \cup (e .. end - 1), lost |-> s.lost, first |-> s.first]
  <2>1. PICK end \in e .. Len(log) : Ran(s, e, p, end)
    BY <1>0, AdvanceRuns
  <2> QED BY <2>1 DEF Ran
<1>2. end \in Nat /\ e <= end /\ end <= Len(log) /\ end # Nil
  BY <1>0, McastAssumption
<1>3. \A k \in Key :
        /\ Newest(log, k, end) = IF OfKey(log, k, e, end - 1) = {} THEN Newest(log, k, e) ELSE Max(OfKey(log, k, e, end - 1))
        /\ OfKey(log, k, e, end - 1) # {} => Max(OfKey(log, k, e, end - 1)) \in 0 .. Len(log) - 1
  BY <1>0, NewestFrom DEF Logged
<1> HIDE DEF t
<1>4. Within(t)
  <2>1. t.view \in [Key -> Nat \cup {Nil}] /\ \A k \in Key : t.view[k] # Nil => t.view[k] < Len(log)
    <3>1. s.view \in [Key -> Nat \cup {Nil}] /\ \A k \in Key : s.view[k] # Nil => s.view[k] < Len(log)
      BY DEF Within, Subscriber
    <3>2. t.view = [k \in Key |-> IF OfKey(log, k, e, end - 1) = {} THEN s.view[k]
                                   ELSE Max(OfKey(log, k, e, end - 1))]
      BY <1>1
    <3>3. ASSUME NEW k \in Key
          PROVE  t.view[k] \in Nat \cup {Nil} /\ (t.view[k] # Nil => t.view[k] < Len(log))
      <4>1. CASE OfKey(log, k, e, end - 1) = {}
        BY <4>1, <3>1, <3>2
      <4>2. CASE OfKey(log, k, e, end - 1) # {}
        <5>1. PICK m \in 0 .. Len(log) - 1 : m = Max(OfKey(log, k, e, end - 1))
          BY <4>2, <1>3
        <5>2. t.view[k] = m
          BY <3>2, <4>2, <5>1
        <5> QED BY <1>0, <5>1, <5>2
      <4> QED BY <4>1, <4>2
    <3> QED BY <3>2, <3>3
  <2>2. t.pending \subseteq 0 .. Len(log) - 1 /\ t.seen \subseteq 0 .. MaxSeq
    BY <1>1 DEF Within
  <2>3. t.got \subseteq Nat /\ t.lost \in Nat /\ t.first \in Nat
    BY <1>0, <1>1, <1>2 DEF Within, Subscriber
  <2>4. t \in Subscriber
    <3>1. t.pending \subseteq Nat /\ t.seen \subseteq Nat /\ t.expected \in Nat
      BY <1>0, <1>1, <1>2 DEF Within, Subscriber
    <3>2. t = [expected |-> t.expected, pending |-> t.pending, seen |-> t.seen, view |-> t.view,
               got |-> t.got, lost |-> t.lost, first |-> t.first]
      BY <1>1
    <3> QED BY <2>1, <2>3, <3>1, <3>2 DEF Subscriber
  <2> QED BY <2>1, <2>2, <2>4 DEF Within
<1>5. UpTo(t, end)
  <2>1. t.first = s.first /\ t.lost = s.lost /\ t.got = s.got \cup (e .. end - 1)
    BY <1>1
  <2>2. s.got \subseteq s.first .. e - 1
    BY DEF UpTo
  <2>3. Skipped(t, end) = Skipped(s, e)
    BY <2>1, <2>2, <1>0, <1>2 DEF Skipped
  <2>4. t.got \subseteq t.first .. end - 1
    BY <2>1, <2>2, <1>0, <1>2
  <2>5. t.lost = 0 => \A k \in Key : t.view[k] = Newest(log, k, end)
    BY <1>1, <1>3, <2>1 DEF UpTo
  <2> QED BY <1>0, <1>2, <2>1, <2>3, <2>4, <2>5 DEF UpTo
<1> QED BY <1>1, <1>2, <1>4, <1>5 DEF Following, t

\* A range is a set of as many numbers, and one that follows another set adds to it.
LEMMA RangeAdds ==
    ASSUME NEW a \in Nat, NEW e \in Nat, NEW o \in Nat, a <= e, e <= o, NEW G, G \subseteq a .. e - 1
    PROVE  Cardinality((a .. o - 1) \ G) = Cardinality((a .. e - 1) \ G) + (o - e)
<1> DEFINE A == (a .. e - 1) \ G
           B == e .. o - 1
<1>1. (a .. o - 1) \ G = A \cup B /\ A \cap B = {}
  OBVIOUS
<1>2. IsFiniteSet(A) /\ IsFiniteSet(B)
  <2>1. IsFiniteSet(a .. e - 1) /\ IsFiniteSet(e .. o - 1)
    BY FS_Interval
  <2> QED BY <2>1, FS_Subset
<1>3. Cardinality(B) = o - e
  <2>1. e \in Int /\ o - 1 \in Int
    OBVIOUS
  <2>2. Cardinality(e .. o - 1) = IF e <= o - 1 THEN (o - 1) - e + 1 ELSE 0
    BY <2>1, FS_Interval
  <2> QED BY <2>2
<1>4. Cardinality(A) \in Nat
  BY <1>2, FS_CardinalityType
<1> HIDE DEF A, B
<1>5. Cardinality(A \cup B) = Cardinality(A) + Cardinality(B)
  <2>1. Cardinality(A \cup B) = Cardinality(A) + Cardinality(B) - Cardinality(A \cap B)
    BY <1>2, FS_Union
  <2>2. Cardinality(A \cap B) = 0
    BY <1>1, FS_EmptySet
  <2>3. Cardinality(B) \in Int
    BY <1>3
  <2> QED BY <2>1, <2>2, <2>3, <1>4
<1> QED BY <1>1, <1>3, <1>5 DEF A

\* The snapshot is where the subscriber starts.
LEMMA SnapshotFollows ==
    ASSUME Logged, NEW s, Following(s), s.expected = Nil,
           NEW m \in Message, m.type = "snapshot", Truthful(m),
           NEW p, p \subseteq 0 .. Len(log) - 1
    PROVE  LET t == Advance([s EXCEPT !.view = m.values, !.first = m.next], m.next, p)
           IN  Following(t) /\ t.expected # Nil
<1>1. m.next \in Nat /\ m.values \in [Key -> Nat \cup {Nil}] /\ m.next <= Len(log)
      /\ \A k \in Key : m.values[k] = Newest(log, k, m.next)
  BY DEF Message, Truthful
<1> DEFINE u == [s EXCEPT !.view = m.values, !.first = m.next]
<1>2. s \in Subscriber /\ s.got = {} /\ s.lost = 0
  BY DEF Following, Within
<1>3. /\ u \in Subscriber /\ u.pending = s.pending /\ u.seen = s.seen /\ u.got = {} /\ u.lost = 0
      /\ u.first = m.next /\ u.view = m.values
  BY <1>1, <1>2 DEF Subscriber
<1> HIDE DEF u
<1>4. ASSUME NEW k \in Key, m.values[k] # Nil PROVE m.values[k] < Len(log)
  <2>1. 0 \in 0 .. Len(log) /\ m.next \in 0 .. Len(log) /\ Len(log) \in Nat
    BY <1>1 DEF Logged
  <2>2. Newest(log, k, 0) = Nil
    BY DEF Newest, OfKey
  <2>3. /\ Newest(log, k, m.next) = IF OfKey(log, k, 0, m.next - 1) = {} THEN Newest(log, k, 0)
                               ELSE Max(OfKey(log, k, 0, m.next - 1))
        /\ OfKey(log, k, 0, m.next - 1) # {} => Max(OfKey(log, k, 0, m.next - 1)) \in 0 .. Len(log) - 1
    BY <2>1, NewestFrom DEF Logged
  <2>4. OfKey(log, k, 0, m.next - 1) # {}
    BY <1>1, <1>4, <2>2, <2>3
  <2>5. PICK n \in 0 .. Len(log) - 1 : n = Max(OfKey(log, k, 0, m.next - 1))
    BY <2>3, <2>4
  <2> QED BY <1>1, <2>1, <2>3, <2>4, <2>5
<1>5. Within(u)
  <2>1. s.pending \subseteq 0 .. Len(log) - 1 /\ s.seen \subseteq 0 .. MaxSeq
    BY DEF Following, Within
  <2> QED BY <1>3, <1>4, <2>1 DEF Within
<1>6. UpTo(u, m.next)
  <2>1. Skipped(u, m.next) = {} /\ Cardinality({}) = 0
    BY <1>1, <1>3, FS_EmptySet DEF Skipped
  <2> QED BY <1>1, <1>3, <2>1 DEF UpTo
<1>7. Following(Advance(u, m.next, p)) /\ Advance(u, m.next, p).expected # Nil
  BY <1>5, <1>6, AdvanceFollows
<1> QED BY <1>7 DEF u

\* Numbers before the oldest of the ring may be skipped when they are counted.
LEMMA SkipFollows ==
    ASSUME Logged, NEW s, Following(s), s.expected # Nil, NEW o \in Nat,
           ~(s.expected >= o), o <= Oldest
    PROVE  LET t == Advance([s EXCEPT !.lost = @ + (o - s.expected)], o, s.pending)
           IN  Following(t) /\ t.expected # Nil
<1>0. Len(log) \in Nat /\ Oldest \in Nat /\ Oldest <= Len(log)
  BY McastAssumption DEF Logged, Oldest, seq
<1>1. /\ s \in Subscriber /\ Within(s) /\ UpTo(s, s.expected)
      /\ s.expected \in Nat /\ s.first \in Nat /\ s.lost \in Nat
  BY DEF Following, Within, Subscriber, UpTo
<1>2. PICK e \in Nat : e = s.expected
  BY <1>1
<1>3. e < o /\ o <= Len(log)
  BY <1>0, <1>2
<1> DEFINE u == [s EXCEPT !.lost = @ + (o - s.expected)]
<1>4. s.lost + (o - e) \in Nat /\ s.lost + (o - e) # 0
  BY <1>1, <1>3
<1>5. /\ u \in Subscriber /\ u.pending = s.pending /\ u.seen = s.seen /\ u.got = s.got
      /\ u.lost = s.lost + (o - e) /\ u.first = s.first /\ u.view = s.view
  BY <1>1, <1>2, <1>4 DEF Subscriber
<1> HIDE DEF u
<1>6. Within(u)
  BY <1>1, <1>5 DEF Within
<1>7. UpTo(u, o)
  <2>1. s.first <= e /\ s.got \subseteq s.first .. e - 1 /\ Cardinality(Skipped(s, e)) = s.lost
        /\ \A n \in Skipped(s, e) : n < Oldest
    BY <1>1, <1>2 DEF UpTo
  <2>2. Cardinality(Skipped(u, o)) = Cardinality(Skipped(s, e)) + (o - e)
    <3>1. e <= o
      BY <1>3
    <3>2. PICK a \in Nat, G \in {s.got} : a = s.first /\ G = s.got
      BY <1>1
    <3>3. a <= e /\ G \subseteq a .. e - 1
      BY <2>1, <3>2
    <3>4. Cardinality((a .. o - 1) \ G) = Cardinality((a .. e - 1) \ G) + (o - e)
      BY <3>1, <3>3, RangeAdds
    <3> QED BY <1>5, <3>2, <3>4 DEF Skipped
  <2>3. ASSUME NEW n \in Skipped(u, o) PROVE n < Oldest
    <3>1. n \in s.first .. o - 1 /\ n \notin s.got
      BY <1>5 DEF Skipped
    <3>2. CASE n < e
      <4>1. n \in Skipped(s, e)
        BY <1>1, <3>1, <3>2 DEF Skipped
      <4> QED BY <2>1, <4>1
    <3>3. CASE ~(n < e)
      BY <1>0, <1>1, <3>1
    <3> QED BY <3>2, <3>3
  <2>4. u.got \subseteq u.first .. o - 1 /\ u.first <= o
    BY <1>1, <1>3, <1>5, <2>1
  <2> QED BY <1>1, <1>3, <1>4, <1>5, <2>1, <2>2, <2>3, <2>4 DEF UpTo
<1>8. s.pending \subseteq 0 .. Len(log) - 1
  BY <1>1 DEF Within
<1>9. Following(Advance(u, o, s.pending)) /\ Advance(u, o, s.pending).expected # Nil
  BY <1>6, <1>7, <1>8, AdvanceFollows
<1> QED BY <1>9 DEF u

\* What a handler leaves: a subscriber that follows the log, and questions about numbers
\* that were published.
Fine(r) ==
    /\ Following(r.s) /\ r.asks \in Request /\ Asked(r.asks)
    /\ r.asks # {} => r.s.expected # Nil
    /\ sub.expected # Nil => r.s.expected # Nil

\* A run of missing numbers is made of them.
LEMMA RunsOf ==
    ASSUME NEW n \in Nat, NEW S, S \subseteq 0 .. n - 1, NEW g \in Runs(S)
    PROVE  g \in Nat \X Nat /\ g[1] \in S /\ g[1] <= g[2] /\ g[2] < n
<1>1. PICK a \in S : g = <<a, Min({b \in S : b >= a /\ b + 1 \notin S})>>
  BY DEF Runs
<1> DEFINE T == {b \in S : b >= a /\ b + 1 \notin S}
<1>2. S \subseteq 0 .. n /\ S # {}
  OBVIOUS
<1>3. Max(S) \in S /\ \A y \in S : y <= Max(S)
  BY <1>2, Greatest
<1>4. PICK m \in S : m = Max(S)
  BY <1>3
<1>5. m + 1 \notin S /\ m >= a
  <2>1. m \in Nat /\ a \in Nat
    OBVIOUS
  <2> QED BY <1>3, <1>4, <2>1
<1>6. T \subseteq Nat /\ T # {}
  <2>1. m \in T
    BY <1>5
  <2>2. S \subseteq Nat
    OBVIOUS
  <2> QED BY <2>1, <2>2
<1>7. Min(T) \in T
  BY <1>6, Smallest
<1>8. PICK b \in T : b = Min(T)
  BY <1>7
<1>9. b \in S /\ b >= a /\ a \in Nat /\ b \in Nat /\ b < n
  BY <1>8
<1> QED BY <1>1, <1>8, <1>9

\* _request_missing asks for numbers before upto.
LEMMA RequestIsFine ==
    ASSUME Logged, NEW s, Following(s), s.expected # Nil, NEW upto \in 0 .. Len(log), NEW due
    PROVE  Fine(RequestMissing(s, upto, due))
<1> DEFINE gaps == Runs(Missing(s, upto))
<1>0. Len(log) \in Nat /\ Len(log) <= MaxSeq /\ MaxSeq \in Nat /\ upto \in Nat /\ upto <= Len(log)
  BY McastAssumption DEF Logged
<1>1. \A g \in gaps : g \in Nat \X Nat /\ g[1] \in Missing(s, upto) /\ g[1] <= g[2] /\ g[2] < upto
  <2>1. Missing(s, upto) \subseteq 0 .. upto - 1
    BY DEF Missing
  <2> QED BY <1>0, <2>1, RunsOf
<1>2. \A g \in gaps : g[1] \in 0 .. MaxSeq
  <2>1. ASSUME NEW g \in gaps PROVE g[1] \in 0 .. MaxSeq
    <3>1. g[1] \in 0 .. upto - 1
      BY <1>1 DEF Missing
    <3> QED BY <1>0, <3>1
  <2> QED BY <2>1
<1> HIDE DEF gaps
<1>3. PICK u : u = [s EXCEPT !.seen = @ \cup {g[1] : g \in gaps}]
  OBVIOUS
<1>4. PICK asks : asks = {g \in gaps : g[1] \in due \cap s.seen}
  OBVIOUS
<1>5. RequestMissing(s, upto, due) = [s |-> u, asks |-> asks]
  BY <1>3, <1>4 DEF RequestMissing, gaps
<1>6. s \in Subscriber /\ s.seen \subseteq 0 .. MaxSeq
  BY DEF Following, Within
<1>7. /\ u \in Subscriber /\ u.expected = s.expected /\ u.pending = s.pending
      /\ u.seen \subseteq 0 .. MaxSeq /\ u.got = s.got /\ u.lost = s.lost
      /\ u.first = s.first /\ u.view = s.view
  <2>1. {g[1] : g \in gaps} \subseteq 0 .. MaxSeq
    BY <1>2
  <2>2. u.seen = s.seen \cup {g[1] : g \in gaps} /\ u.seen \subseteq Nat
    BY <1>0, <1>3, <1>6, <2>1 DEF Subscriber
  <2> QED BY <1>3, <1>6, <2>1, <2>2 DEF Subscriber
<1>8. Following(u)
  BY <1>7 DEF Following, Within, UpTo, Skipped
<1>9. asks \in Request /\ Asked(asks)
  <2>1. ASSUME NEW g \in asks PROVE g \in Nat \X Nat /\ g[1] <= g[2] /\ g[2] < Len(log)
    <3>1. g \in Nat \X Nat /\ g[1] <= g[2] /\ g[2] < upto
      BY <1>1, <1>4
    <3> QED BY <1>0, <3>1
  <2> QED BY <2>1 DEF Request, Asked
<1> QED BY <1>5, <1>7, <1>8, <1>9 DEF Fine

\* Frames ahead of expected, or before the snapshot, are kept.
LEMMA KeepingFollows ==
    ASSUME Logged, NEW s, Following(s), NEW p, p \subseteq 0 .. Len(log) - 1
    PROVE  Following([s EXCEPT !.pending = p]) /\ [s EXCEPT !.pending = p].expected = s.expected
<1> DEFINE u == [s EXCEPT !.pending = p]
<1>1. s \in Subscriber /\ p \subseteq Nat
  BY DEF Following, Within
<1>2. /\ u \in Subscriber /\ u.expected = s.expected /\ u.pending = p
      /\ u.seen = s.seen /\ u.got = s.got /\ u.lost = s.lost
      /\ u.first = s.first /\ u.view = s.view
  BY <1>1 DEF Subscriber
<1> HIDE DEF u
<1>3. Following(u)
  BY <1>2 DEF Following, Within, UpTo, Skipped
<1> QED BY <1>2, <1>3 DEF u

\* _observe of the frames lo .. hi.
LEMMA ObserveFollows ==
    ASSUME Logged, NEW s, Following(s), NEW lo \in Nat, NEW hi \in Nat, lo <= hi, hi < Len(log)
    PROVE  /\ Following(Observe(s, lo, hi))
           /\ Observe(s, lo, hi).expected # Nil <=> s.expected # Nil
<1>0. Len(log) \in Nat /\ lo .. hi \subseteq 0 .. Len(log) - 1
  BY DEF Logged
<1>1. s \in Subscriber /\ s.pending \subseteq 0 .. Len(log) - 1 /\ Within(s)
  BY DEF Following, Within
<1>2. CASE s.expected = Nil
  <2>1. PICK p : p = {n \in s.pending \cup lo .. hi :
                        Cardinality({q \in s.pending \cup lo .. hi : q > n}) < MaxPending}
    OBVIOUS
  <2>2. p \subseteq 0 .. Len(log) - 1
    BY <1>0, <1>1, <2>1
  <2>3. Observe(s, lo, hi) = [s EXCEPT !.pending = p]
    BY <1>2, <2>1 DEF Observe, Buffered
  <2> QED BY <1>2, <2>2, <2>3, KeepingFollows
<1>3. ASSUME s.expected # Nil, hi < s.expected PROVE Observe(s, lo, hi) = s
  <2>1. s.expected \in Nat
    BY <1>1, <1>3 DEF Subscriber
  <2> QED BY <1>3, <2>1 DEF Observe
<1>4. ASSUME s.expected # Nil, ~(hi < s.expected), lo <= s.expected, s.expected <= hi
      PROVE  /\ Following(Observe(s, lo, hi)) /\ Observe(s, lo, hi).expected # Nil
  <2>1. Observe(s, lo, hi) = Advance(s, s.expected, s.pending \cup s.expected .. hi)
    BY <1>4 DEF Observe
  <2>2. s.expected \in Nat /\ UpTo(s, s.expected)
    BY <1>4 DEF Following, UpTo
  <2>3. s.pending \cup s.expected .. hi \subseteq 0 .. Len(log) - 1
    BY <1>0, <1>1, <2>2
  <2> QED BY <1>1, <2>1, <2>2, <2>3, AdvanceFollows
<1>5. ASSUME s.expected # Nil, ~(hi < s.expected), ~(lo <= s.expected /\ s.expected <= hi)
      PROVE  Observe(s, lo, hi) = [s EXCEPT !.pending = s.pending \cup lo .. hi]
  BY <1>5 DEF Observe
<1>6. s.pending \cup lo .. hi \subseteq 0 .. Len(log) - 1
  BY <1>0, <1>1
<1>7. Following([s EXCEPT !.pending = s.pending \cup lo .. hi])
      /\ [s EXCEPT !.pending = s.pending \cup lo .. hi].expected = s.expected
  BY <1>6, KeepingFollows
<1> QED BY <1>2, <1>3, <1>4, <1>5, <1>7

\* Frames from a datagram or from the channel.
LEMMA HandleIsFine ==
    ASSUME Logged, Following(sub), NEW lo \in Nat, NEW hi \in Nat, lo <= hi, hi < Len(log), NEW due
    PROVE  Fine(Handle(lo, hi, due)) /\ (sub.expected = Nil => Handle(lo, hi, due).asks = {} /\ Handle(lo, hi, due).s.expected = Nil)
<1>1. /\ Following(Observe(sub, lo, hi))
      /\ Observe(sub, lo, hi).expected # Nil <=> sub.expected # Nil
  BY ObserveFollows
<1>2. PICK s : s = Observe(sub, lo, hi)
  OBVIOUS
<1>3. lo \in 0 .. Len(log) /\ Len(log) \in Nat
  BY DEF Logged
<1>4. CASE sub.expected # Nil /\ lo > sub.expected
  <2>1. Handle(lo, hi, due) = RequestMissing(s, lo, due)
    BY <1>2, <1>4 DEF Handle
  <2>2. Fine(RequestMissing(s, lo, due))
    BY <1>1, <1>2, <1>3, <1>4, RequestIsFine
  <2> QED BY <1>4, <2>1, <2>2
<1>5. CASE ~(sub.expected # Nil /\ lo > sub.expected)
  <2>1. Handle(lo, hi, due) = [s |-> s, asks |-> {}]
    BY <1>2, <1>5 DEF Handle, Quiet
  <2>2. {} \in Request /\ Asked({})
    BY DEF Request, Asked
  <2> QED BY <1>1, <1>2, <2>1, <2>2 DEF Fine
<1> QED BY <1>4, <1>5

-----------------------------------------------------------------------------
(* The steps.                                                              *)

\* What was said of the log stays true when it grows.
LEMMA LogGrows ==
    ASSUME Logged, NEW f \in Seq(Key \cup {Nil}), Len(log) + Len(f) <= MaxSeq, log' = log \o f
    PROVE  /\ Logged' /\ Len(log') = Len(log) + Len(f) /\ Oldest <= Oldest'
           /\ Oldest \in Nat /\ Oldest' \in Nat
           /\ \A k, n : n \in 0 .. Len(log) => Newest(log', k, n) = Newest(log, k, n)
<1>1. /\ log' \in Seq(Key \cup {Nil}) /\ Len(log') = Len(log) + Len(f)
      /\ \A i \in 1 .. Len(log) : log'[i] = log[i]
      /\ Len(log) \in Nat /\ Len(f) \in Nat
  BY DEF Logged
<1>2. Oldest <= Oldest' /\ Oldest \in Nat /\ Oldest' \in Nat
  BY <1>1, McastAssumption DEF Oldest, seq
<1>3. ASSUME NEW k, NEW n \in 0 .. Len(log) PROVE Newest(log', k, n) = Newest(log, k, n)
  <2>1. ASSUME NEW m \in 0 .. n - 1 PROVE log'[m + 1] = log[m + 1]
    <3>1. m + 1 \in 1 .. Len(log)
      BY <1>1
    <3> QED BY <1>1, <3>1
  <2>2. OfKey(log', k, 0, n - 1) = OfKey(log, k, 0, n - 1)
    BY <2>1 DEF OfKey
  <2> QED BY <2>2 DEF Newest
<1> QED BY <1>1, <1>2, <1>3 DEF Logged

\* The subscriber does not notice.
LEMMA StillFollows ==
    ASSUME Logged, NEW f \in Seq(Key \cup {Nil}), Len(log) + Len(f) <= MaxSeq, log' = log \o f,
           Following(sub), UNCHANGED sub
    PROVE  Following(sub)'
<1>1. /\ Logged' /\ Len(log') = Len(log) + Len(f) /\ Oldest <= Oldest'
      /\ Oldest \in Nat /\ Oldest' \in Nat /\ Len(log) \in Nat /\ Len(f) \in Nat
  BY LogGrows DEF Logged
<1>2. \A k, n : n \in 0 .. Len(log) => Newest(log', k, n) = Newest(log, k, n)
  BY LogGrows
<1>3. Within(sub)'
  <2>1. /\ sub \in Subscriber /\ sub.pending \subseteq 0 .. Len(log) - 1 /\ sub.seen \subseteq 0 .. MaxSeq
        /\ \A k \in Key : sub.view[k] # Nil => sub.view[k] < Len(log)
    BY DEF Following, Within
  <2>2. sub.pending \subseteq 0 .. Len(log') - 1
    BY <1>1, <2>1
  <2>3. ASSUME NEW k \in Key, sub.view[k] # Nil PROVE sub.view[k] < Len(log')
    <3>1. sub.view[k] \in Nat /\ sub.view[k] < Len(log)
      BY <2>1, <2>3 DEF Subscriber
    <3> QED BY <1>1, <3>1
  <2> QED BY <2>1, <2>2, <2>3 DEF Within, Subscriber
<1>4. ASSUME sub.expected # Nil PROVE UpTo(sub, sub.expected)'
  <2>1. UpTo(sub, sub.expected) /\ sub \in Subscriber
    BY <1>4 DEF Following, Within
  <2>2. PICK e : e = sub.expected
    OBVIOUS
  <2>3. /\ sub.first \in Nat /\ sub.first <= e /\ e \in Nat /\ e <= Len(log)
        /\ sub.got \subseteq sub.first .. e - 1
        /\ Cardinality(Skipped(sub, e)) = sub.lost /\ \A n \in Skipped(sub, e) : n < Oldest
        /\ sub.lost = 0 => \A k \in Key : sub.view[k] = Newest(log, k, e)
    BY <2>1, <2>2 DEF UpTo
  <2>4. e <= Len(log') /\ e \in 0 .. Len(log)
    BY <1>1, <2>3
  <2>5. ASSUME NEW n \in Skipped(sub, e) PROVE n < Oldest'
    <3>1. n \in Nat /\ n < Oldest
      BY <2>3 DEF Skipped
    <3> QED BY <1>1, <3>1
  <2>6. sub.lost = 0 => \A k \in Key : sub.view[k] = Newest(log', k, e)
    BY <1>2, <2>3, <2>4
  <2>7. Skipped(sub, e)' = Skipped(sub, e)
    BY DEF Skipped
  <2> QED BY <2>2, <2>3, <2>4, <2>5, <2>6, <2>7 DEF UpTo, Skipped
<1>5. sub.expected = Nil => sub.got = {} /\ sub.lost = 0
  BY DEF Following
<1> QED BY <1>3, <1>4, <1>5 DEF Following

\* Frames of the bus, or a heartbeat, go out.
LEMMA SendKeeps ==
    ASSUME McastInv, NEW f \in Seq(Key \cup {Nil}), Len(f) > 0, Len(log) + Len(f) <= MaxSeq, Send(f)
    PROVE  McastInv'
<1>0. /\ Logged /\ Wired /\ ChannelIsTrue /\ Handshake /\ Following(sub)
      /\ log' = log \o f /\ UNCHANGED <<c2p, p2c, phase, sub>>
      /\ Len(log) \in Nat /\ Len(f) \in Nat
  BY DEF McastInv, Send, Logged
<1>1. /\ Logged' /\ Len(log') = Len(log) + Len(f) /\ Oldest <= Oldest'
      /\ Oldest \in Nat /\ Oldest' \in Nat
      /\ \A k, n : n \in 0 .. Len(log) => Newest(log', k, n) = Newest(log, k, n)
  BY <1>0, LogGrows
<1>2. Following(sub)'
  BY <1>0, StillFollows
<1>3. Handshake'
  BY <1>0 DEF Handshake
<1>4. Wired'
  <2>0. Len(log) + Len(f) - 1 \in Nat
    BY <1>0
  <2>1. PICK hi \in Nat : hi = Len(log) + Len(f) - 1
    BY <2>0
  <2>2. ASSUME NEW d \in Datagrams(Len(log), hi) PROVE d \in Nat \X Nat /\ d[1] <= d[2] /\ d[2] < Len(log')
    <3>1. PICK a \in Len(log) .. hi : d = <<a, IF a + PerDatagram - 1 < hi THEN a + PerDatagram - 1 ELSE hi>>
      BY <2>2 DEF Datagrams
    <3>2. a \in Nat /\ a <= hi /\ PerDatagram \in Nat /\ PerDatagram > 0
      BY <1>0, <3>1, McastAssumption
    <3>5. a + PerDatagram - 1 \in Nat
      BY <3>2
    <3>3. PICK b \in Nat : b = (IF a + PerDatagram - 1 < hi THEN a + PerDatagram - 1 ELSE hi)
      BY <3>5
    <3>4. a <= b /\ b <= hi
      BY <2>1, <3>2, <3>3
    <3> QED BY <1>0, <1>1, <2>1, <3>1, <3>2, <3>3, <3>4
  <2>3. \A d \in net : d \in Nat \X Nat /\ d[1] <= d[2] /\ d[2] < Len(log')
    <3>1. ASSUME NEW d \in net PROVE d \in Nat \X Nat /\ d[1] <= d[2] /\ d[2] < Len(log')
      <4>1. d \in Nat \X Nat /\ d[1] <= d[2] /\ d[2] < Len(log) /\ d[2] \in Nat
        BY <1>0 DEF Wired
      <4> QED BY <1>0, <1>1, <4>1
    <3> QED BY <3>1
  <2>4. net' \subseteq net \cup Datagrams(Len(log), hi)
    BY <2>1 DEF Send, seq
  <2>5. net' \subseteq Nat \X Nat /\ \A d \in net' : d[1] <= d[2] /\ d[2] < Len(log')
    BY <2>2, <2>3, <2>4
  <2> QED BY <1>0, <2>5 DEF Wired
<1>5. ChannelIsTrue'
  <2>1. ASSUME NEW i \in DOMAIN p2c PROVE Truthful(p2c[i])'
    <3>1. Truthful(p2c[i]) /\ p2c[i] \in Message
      BY <1>0 DEF ChannelIsTrue, Wired
    <3>2. PICK m \in Message : m = p2c[i]
      BY <3>1
    <3>3. m.type = "snapshot" => m.next \in 0 .. Len(log) /\ m.next <= Len(log')
                                 /\ \A k \in Key : m.values[k] = Newest(log', k, m.next)
      <4>1. CASE m.type = "snapshot"
        <5>1. m.next \in Nat
          BY <4>1 DEF Message
        <5> QED BY <4>1, <5>1, <1>0, <1>1, <3>1, <3>2 DEF Truthful
      <4> QED BY <4>1
    <3>4. m.type = "ack" => m.oldest <= Oldest'
      <4>1. CASE m.type = "ack"
        <5>1. m.oldest \in Nat
          BY <4>1 DEF Message
        <5> QED BY <4>1, <5>1, <1>1, <3>1, <3>2 DEF Truthful
      <4> QED BY <4>1
    <3>5. m.type = "frame" => m.seq < Len(log')
      <4>1. CASE m.type = "frame"
        <5>1. m.seq \in Nat
          BY <4>1 DEF Message
        <5> QED BY <4>1, <5>1, <1>0, <1>1, <3>1, <3>2 DEF Truthful
      <4> QED BY <4>1
    <3> QED BY <1>0, <3>2, <3>3, <3>4, <3>5 DEF Truthful
  <2>2. ASSUME NEW i \in DOMAIN c2p, NEW g \in c2p[i] PROVE g[1] <= g[2] /\ g[2] < Len(log')
    <3>1. c2p[i] \in Request /\ Asked(c2p[i])
      BY <1>0 DEF ChannelIsTrue, Wired
    <3>2. g[1] <= g[2] /\ g[2] < Len(log) /\ g[2] \in Nat
      BY <3>1 DEF Asked, Request
    <3> QED BY <1>0, <1>1, <3>2
  <2>3. ASSUME NEW k \in Key
        PROVE  /\ last'[k] = Newest(log', k, Len(log')) /\ last'[k] \in Nat \cup {Nil}
    <3>0. Len(log) \in 0 .. Len(log)
      BY <1>0
    <3>1. last[k] = Newest(log', k, Len(log)) /\ last[k] \in Nat \cup {Nil}
      BY <1>0, <1>1, <3>0 DEF ChannelIsTrue
    <3>2. Len(log) \in 0 .. Len(log') /\ Len(log') \in Len(log) .. Len(log') /\ log' \in Seq(Key \cup {Nil})
      BY <1>0, <1>1 DEF Logged
    <3>3. /\ Newest(log', k, Len(log')) = IF OfKey(log', k, Len(log), Len(log') - 1) = {}
                                          THEN Newest(log', k, Len(log))
                                          ELSE Max(OfKey(log', k, Len(log), Len(log') - 1))
          /\ OfKey(log', k, Len(log), Len(log') - 1) # {}
               => Max(OfKey(log', k, Len(log), Len(log') - 1)) \in 0 .. Len(log') - 1
      BY <3>2, NewestFrom
    <3>4. last'[k] = IF NewestIn(k, Len(log), Len(log) + Len(f) - 1) = {} THEN last[k]
                     ELSE Max(NewestIn(k, Len(log), Len(log) + Len(f) - 1))
      BY DEF Send, seq
    <3>5. NewestIn(k, Len(log), Len(log) + Len(f) - 1) = OfKey(log', k, Len(log), Len(log') - 1)
      BY <1>1 DEF NewestIn, OfKey
    <3> QED BY <3>1, <3>3, <3>4, <3>5
  <2>4. last' \in [Key -> Nat \cup {Nil}]
    BY <2>3 DEF Send
  <2> QED BY <1>0, <2>1, <2>2, <2>3, <2>4 DEF ChannelIsTrue, Asked
<1> QED BY <1>1, <1>2, <1>3, <1>4, <1>5 DEF McastInv

\* Steps that publish nothing leave what is said of the log as it is.
LEMMA SameLog ==
    ASSUME UNCHANGED log
    PROVE  /\ \A t : Following(t) /\ sub' = t => Following(sub)'
           /\ \A q : (\A m \in q : Truthful(m)) => \A m \in q : Truthful(m)'
           /\ Logged => Logged'
<1>1. ASSUME NEW t, Following(t), sub' = t PROVE Following(sub)'
  BY <1>1 DEF Following, Within, UpTo, Skipped, Newest, OfKey, Oldest, seq
<1>2. ASSUME NEW m, Truthful(m) PROVE Truthful(m)'
  BY <1>2 DEF Truthful, Newest, OfKey, Oldest, seq
<1>3. ASSUME Logged PROVE Logged'
  BY <1>3 DEF Logged
<1> QED BY <1>1, <1>2, <1>3

\* Such a step keeps the channel true if every message on it was there or is true.
LEMMA ChannelKeeps ==
    ASSUME ChannelIsTrue, Wired, UNCHANGED <<log, last>>, c2p' \in Seq(Request), p2c' \in Seq(Message),
           \A i \in DOMAIN p2c' : Truthful(p2c'[i]), \A i \in DOMAIN c2p' : Asked(c2p'[i])
    PROVE  ChannelIsTrue'
<1>1. ASSUME NEW i \in DOMAIN p2c' PROVE Truthful(p2c[i])'
  BY DEF Truthful, Newest, OfKey, Oldest, seq
<1>2. ASSUME NEW i \in DOMAIN c2p' PROVE Asked(c2p[i])'
  BY DEF Asked
<1>3. last' \in [Key -> Nat \cup {Nil}] /\ \A k \in Key : last'[k] = Newest(log', k, Len(log'))
  BY DEF ChannelIsTrue
<1> QED BY <1>1, <1>2, <1>3 DEF ChannelIsTrue

\* What the retransmission of a range puts on the channel.
LEMMA RetransIs ==
    ASSUME Logged, NEW from \in Nat, NEW upto \in Nat, from <= upto, upto < Len(log)
    PROVE  /\ Retrans(from, upto) \in Seq(Message)
           /\ \A i \in DOMAIN Retrans(from, upto) :
                 Truthful(Retrans(from, upto)[i]) /\ Retrans(from, upto)[i].type # "snapshot"
<1>0. Len(log) \in Nat /\ MaxRange \in Nat \ {0} /\ Oldest \in Nat
  BY McastAssumption DEF Logged, Oldest, seq
<1>1. PICK to : to = IF upto - from + 1 > MaxRange THEN from + MaxRange - 1 ELSE upto
  OBVIOUS
<1>2. to \in Nat /\ from <= to /\ to < Len(log)
  BY <1>0, <1>1
<1>3. PICK lo : lo = Max({from, Oldest})
  OBVIOUS
<1>4. lo \in Nat
  <2>1. PICK n \in Nat : from <= n /\ Oldest <= n
    <3>1. from <= from + Oldest /\ Oldest <= from + Oldest /\ from + Oldest \in Nat
      BY <1>0
    <3> QED BY <3>1
  <2>2. {from, Oldest} \subseteq 0 .. n /\ {from, Oldest} # {}
    BY <1>0, <2>1
  <2>3. Max({from, Oldest}) \in {from, Oldest}
    BY <2>2, Greatest
  <2> QED BY <1>0, <1>3, <2>3
<1>5. Min({Oldest, to + 1}) \in Nat
  <2>1. {Oldest, to + 1} \subseteq Nat /\ {Oldest, to + 1} # {}
    BY <1>0, <1>2
  <2>2. Min({Oldest, to + 1}) \in {Oldest, to + 1}
    BY <2>1, Smallest
  <2> QED BY <2>1, <2>2
<1>6. PICK n \in Nat : n = (IF to >= lo THEN to - lo + 1 ELSE 0)
  <2>1. (IF to >= lo THEN to - lo + 1 ELSE 0) \in Nat
    BY <1>2, <1>4
  <2> QED BY <2>1
<1>7. PICK q : q = [i \in 1 .. n |-> [type |-> "frame", seq |-> lo + i - 1]]
  OBVIOUS
<1>8. PICK un \in Int : un = IF from < Oldest THEN Min({Oldest, to + 1}) - from ELSE 0
  <2>1. (IF from < Oldest THEN Min({Oldest, to + 1}) - from ELSE 0) \in Int
    BY <1>0, <1>5
  <2> QED BY <2>1
<1>9. PICK ack : ack = [type |-> "ack", from |-> from, to |-> to, oldest |-> Oldest, unavailable |-> un]
  OBVIOUS
<1>10. ack \in Message /\ Truthful(ack) /\ ack.type # "snapshot"
  <2>1. ack \in Message
    BY <1>0, <1>2, <1>8, <1>9 DEF Message
  <2> QED BY <1>0, <1>9, <2>1 DEF Truthful
<1>11. ASSUME NEW i \in 1 .. n PROVE q[i] \in Message /\ Truthful(q[i]) /\ q[i].type # "snapshot"
  <2>1. PICK z : z = lo + i - 1
    OBVIOUS
  <2>2. z \in Nat /\ z < Len(log)
    BY <1>0, <1>2, <1>4, <1>6, <2>1
  <2>3. q[i] = [type |-> "frame", seq |-> z]
    BY <1>7, <2>1
  <2>4. q[i] \in Message
    BY <2>2, <2>3 DEF Message
  <2> QED BY <2>2, <2>3, <2>4 DEF Truthful
<1>12. q \in Seq(Message) /\ Len(q) = n
  <2>1. DOMAIN q = 1 .. n /\ q \in [1 .. n -> Message]
    BY <1>7, <1>11
  <2> QED BY <2>1
<1>13. Retrans(from, upto) = Append(q, ack)
  <2>1. ~(upto >= Len(log))
    BY <1>0
  <2> QED BY <2>1, <1>1, <1>3, <1>6, <1>7, <1>8, <1>9 DEF Retrans, seq
<1>14. /\ Append(q, ack) \in Seq(Message)
       /\ \A i \in DOMAIN Append(q, ack) : (i \in 1 .. n /\ Append(q, ack)[i] = q[i]) \/ Append(q, ack)[i] = ack
  BY <1>10, <1>12
<1> QED BY <1>10, <1>11, <1>13, <1>14

\* A request of the subscriber is answered.
LEMMA RecoveryKeeps ==
    ASSUME McastInv, OnRecoveryRequest PROVE McastInv'
<1>0. /\ Logged /\ Wired /\ ChannelIsTrue /\ Handshake /\ Following(sub)
      /\ UNCHANGED <<log, last, net, phase, sub>> /\ c2p # <<>>
      /\ c2p \in Seq(Request) /\ p2c \in Seq(Message) /\ Len(log) \in Nat
  BY DEF McastInv, OnRecoveryRequest, Wired, Logged
<1>1. /\ Tail(c2p) \in Seq(Request) /\ Len(c2p) > 0 /\ Head(c2p) = c2p[1] /\ Len(c2p) \in Nat
      /\ \A i \in DOMAIN Tail(c2p) : i + 1 \in DOMAIN c2p /\ Tail(c2p)[i] = c2p[i + 1] /\ i \in Nat /\ i > 0
      /\ 1 \in DOMAIN c2p
  BY <1>0
<1>2. Head(c2p) \in Request /\ Asked(Head(c2p))
  BY <1>0, <1>1 DEF ChannelIsTrue
<1>3. Logged' /\ Following(sub)'
  BY <1>0, SameLog
<1>4. phase = "connected" \/ phase = "raised"
  BY <1>0 DEF Handshake, Wired
<1>5. CASE Head(c2p) = {} /\ c2p' = Tail(c2p) /\ p2c' = p2c \o Snapshot
  <2>1. p2c = <<>> /\ sub.expected = Nil
    BY <1>0, <1>1, <1>5 DEF Handshake
  <2>2. Tail(c2p) = <<>>
    <3>1. ASSUME NEW i \in DOMAIN Tail(c2p) PROVE FALSE
      <4>1. c2p[i + 1] = {} /\ i + 1 \in DOMAIN c2p
        BY <1>0, <1>1, <2>1 DEF Handshake
      <4>2. i + 1 = 1
        BY <1>0, <4>1 DEF Handshake
      <4> QED BY <1>1, <4>2
    <3>2. PICK t \in Seq(Request) : t = Tail(c2p)
      BY <1>1
    <3>3. DOMAIN t = 1 .. Len(t) /\ Len(t) \in Nat /\ \A i \in DOMAIN t : FALSE
      BY <3>1, <3>2
    <3>4. ASSUME Len(t) # 0 PROVE FALSE
      <4>1. 1 \in DOMAIN t
        BY <3>3, <3>4
      <4> QED BY <3>3, <4>1
    <3> QED BY <3>2, <3>4
  <2>3. PICK m : m = [type |-> "snapshot", values |-> last, next |-> Len(log)]
    OBVIOUS
  <2>4. m \in Message /\ Truthful(m)
    <3>1. last \in [Key -> Nat \cup {Nil}] /\ \A k \in Key : last[k] = Newest(log, k, Len(log))
      BY <1>0 DEF ChannelIsTrue
    <3>2. m \in Message
      BY <1>0, <2>3, <3>1 DEF Message
    <3> QED BY <1>0, <2>3, <3>1, <3>2 DEF Truthful
  <2>5. p2c' = <<m>>
    BY <1>5, <2>1, <2>3 DEF Snapshot, seq
  <2>6. c2p' = <<>>
    BY <1>5, <2>2
  <2>7. p2c' \in Seq(Message) /\ c2p' \in Seq(Request) /\ DOMAIN c2p' = {} /\ DOMAIN p2c' = {1} /\ p2c'[1] = m
    BY <2>4, <2>5, <2>6
  <2>8. Wired'
    BY <1>0, <2>7 DEF Wired
  <2>9. ChannelIsTrue'
    <3>1. \A i \in DOMAIN p2c' : Truthful(p2c'[i])
      BY <2>4, <2>7
    <3>2. \A i \in DOMAIN c2p' : Asked(c2p'[i])
      BY <2>7
    <3> QED BY <1>0, <2>7, <3>1, <3>2, ChannelKeeps
  <2>10. Handshake'
    BY <1>0, <1>4, <2>1, <2>7 DEF Handshake
  <2> QED BY <1>3, <2>8, <2>9, <2>10 DEF McastInv
<1>6. ASSUME NEW g \in Head(c2p),
             c2p' = IF Head(c2p) = {g} THEN Tail(c2p) ELSE <<Head(c2p) \ {g}>> \o Tail(c2p),
             p2c' = p2c \o Retrans(g[1], g[2])
      PROVE  McastInv'
  <2>1. sub.expected # Nil
    BY <1>0, <1>1, <1>6 DEF Handshake
  <2>2. g[1] \in Nat /\ g[2] \in Nat /\ g[1] <= g[2] /\ g[2] < Len(log)
    BY <1>2 DEF Request, Asked
  <2>3. PICK q : q = Retrans(g[1], g[2])
    OBVIOUS
  <2>4. q \in Seq(Message) /\ \A i \in DOMAIN q : Truthful(q[i]) /\ q[i].type # "snapshot"
    BY <1>0, <2>2, <2>3, RetransIs
  <2>5. /\ p2c' \in Seq(Message)
        /\ \A i \in DOMAIN p2c' : (i \in DOMAIN p2c /\ p2c'[i] = p2c[i]) \/ \E j \in DOMAIN q : p2c'[i] = q[j]
    <3>1. p2c' = p2c \o q
      BY <1>6, <2>3
    <3>2. /\ p2c \o q \in Seq(Message) /\ Len(p2c) \in Nat /\ Len(q) \in Nat
          /\ Len(p2c \o q) = Len(p2c) + Len(q)
      BY <1>0, <2>4
    <3>3. ASSUME NEW i \in DOMAIN (p2c \o q)
          PROVE  (i \in DOMAIN p2c /\ (p2c \o q)[i] = p2c[i]) \/ \E j \in DOMAIN q : (p2c \o q)[i] = q[j]
      <4>1. i \in 1 .. Len(p2c) + Len(q)
        BY <3>2
      <4>2. CASE i <= Len(p2c)
        BY <1>0, <2>4, <3>2, <4>1, <4>2
      <4>3. CASE ~(i <= Len(p2c))
        <5>1. i - Len(p2c) \in DOMAIN q /\ (p2c \o q)[i] = q[i - Len(p2c)]
          BY <1>0, <2>4, <3>2, <4>1, <4>3
        <5> QED BY <5>1
      <4> QED BY <4>2, <4>3
    <3> QED BY <3>1, <3>2, <3>3
  <2>6. /\ c2p' \in Seq(Request)
        /\ \A i \in DOMAIN c2p' : c2p'[i] # {} /\ Asked(c2p'[i])
    <3>1. \A i \in DOMAIN c2p : c2p[i] # {} /\ Asked(c2p[i])
      BY <1>0, <2>1 DEF Handshake, ChannelIsTrue
    <3>2. \A i \in DOMAIN Tail(c2p) : Tail(c2p)[i] # {} /\ Asked(Tail(c2p)[i])
      BY <1>1, <3>1
    <3>3. CASE Head(c2p) = {g}
      BY <1>1, <1>6, <3>2, <3>3
    <3>4. CASE Head(c2p) # {g}
      <4>1. PICK h : h = Head(c2p) \ {g}
        OBVIOUS
      <4>2. h \in Request /\ h # {} /\ Asked(h)
        BY <1>2, <3>4, <4>1 DEF Request, Asked
      <4>3. /\ <<h>> \o Tail(c2p) \in Seq(Request)
            /\ \A i \in DOMAIN (<<h>> \o Tail(c2p)) :
                  (<<h>> \o Tail(c2p))[i] = h
                  \/ \E j \in DOMAIN Tail(c2p) : (<<h>> \o Tail(c2p))[i] = Tail(c2p)[j]
        <5>1. PICK t : t = Tail(c2p)
          OBVIOUS
        <5>2. t \in Seq(Request) /\ Len(t) \in Nat /\ <<h>> \in Seq(Request) /\ Len(<<h>>) = 1
          BY <1>1, <4>2, <5>1
        <5>3. <<h>> \o t \in Seq(Request) /\ Len(<<h>> \o t) = 1 + Len(t)
          BY <5>2
        <5>4. ASSUME NEW i \in 1 .. 1 + Len(t) PROVE (<<h>> \o t)[i] = h \/ \E j \in DOMAIN t : (<<h>> \o t)[i] = t[j]
          <6>1. CASE i = 1
            BY <5>2, <6>1
          <6>2. CASE i # 1
            <7>1. i - 1 \in DOMAIN t /\ (<<h>> \o t)[i] = t[i - 1]
              BY <5>2, <6>2
            <7> QED BY <7>1
          <6> QED BY <6>1, <6>2
        <5>5. DOMAIN (<<h>> \o t) = 1 .. 1 + Len(t)
          BY <5>3
        <5> QED BY <5>1, <5>3, <5>4, <5>5
      <4> QED BY <1>6, <3>2, <3>4, <4>1, <4>2, <4>3
    <3> QED BY <3>3, <3>4
  <2>7. Wired'
    BY <1>0, <2>5, <2>6 DEF Wired
  <2>8. ChannelIsTrue'
    <3>1. \A i \in DOMAIN p2c' : Truthful(p2c'[i])
      BY <1>0, <2>4, <2>5 DEF ChannelIsTrue
    <3> QED BY <1>0, <2>5, <2>6, <3>1, ChannelKeeps
  <2>9. Handshake'
    <3>1. \A i \in DOMAIN p2c' : p2c'[i].type # "snapshot"
      BY <1>0, <2>1, <2>4, <2>5 DEF Handshake
    <3> QED BY <1>0, <1>4, <2>1, <2>6, <3>1 DEF Handshake
  <2> QED BY <1>3, <2>7, <2>8, <2>9 DEF McastInv
<1> QED BY <1>5, <1>6 DEF OnRecoveryRequest

\* What the subscriber's handlers have in common: it takes a message of the channel or
\* none, and asks for nothing before the snapshot.
LEMMA HandlerKeeps ==
    ASSUME McastInv, NEW r, Fine(r), Ends(r), UNCHANGED <<log, last, phase>>, net' \subseteq net,
           \/ p2c' = p2c /\ (sub.expected = Nil => r.s.expected = Nil)
           \/ p2c # <<>> /\ p2c' = Tail(p2c) /\ phase = "connected"
    PROVE  McastInv'
<1>0. /\ Logged /\ Wired /\ ChannelIsTrue /\ Handshake /\ Following(sub)
      /\ c2p \in Seq(Request) /\ p2c \in Seq(Message)
  BY DEF McastInv, Wired
<1>1. /\ sub' = r.s /\ Following(r.s) /\ r.asks \in Request /\ Asked(r.asks)
      /\ r.asks # {} => sub'.expected # Nil
      /\ sub.expected # Nil => sub'.expected # Nil
      /\ (c2p' = c2p) \/ (r.asks # {} /\ c2p' = Append(c2p, r.asks))
  BY DEF Ends, Fine
<1>2. Logged' /\ Following(sub)'
  BY <1>0, <1>1, SameLog
<1>3. /\ p2c' \in Seq(Message)
      /\ \A i \in DOMAIN p2c' : \E j \in DOMAIN p2c : p2c'[i] = p2c[j] /\ (p2c' = p2c => i = j) /\ (p2c' # p2c => j = i + 1 /\ i > 0 /\ i \in Nat)
  <2>1. CASE p2c' = p2c
    BY <1>0, <2>1
  <2>2. CASE p2c' # p2c
    <3>1. p2c # <<>> /\ p2c' = Tail(p2c)
      BY <2>2
    <3>2. /\ Tail(p2c) \in Seq(Message)
          /\ \A i \in DOMAIN Tail(p2c) : i + 1 \in DOMAIN p2c /\ Tail(p2c)[i] = p2c[i + 1] /\ i > 0 /\ i \in Nat
      BY <1>0, <3>1
    <3> QED BY <2>2, <3>1, <3>2
  <2> QED BY <2>1, <2>2
<1>4. /\ c2p' \in Seq(Request)
      /\ \A i \in DOMAIN c2p' : (i \in DOMAIN c2p /\ c2p'[i] = c2p[i])
                                \/ (r.asks # {} /\ c2p'[i] = r.asks)
  <2>1. CASE c2p' = c2p
    BY <1>0, <2>1
  <2>2. CASE r.asks # {} /\ c2p' = Append(c2p, r.asks)
    <3>1. PICK a \in Request : a = r.asks
      BY <1>1
    <3>2. /\ Append(c2p, a) \in Seq(Request)
          /\ \A i \in DOMAIN Append(c2p, a) : (i \in DOMAIN c2p /\ Append(c2p, a)[i] = c2p[i])
                                             \/ Append(c2p, a)[i] = a
      BY <1>0
    <3> QED BY <2>2, <3>1, <3>2
  <2> QED BY <1>1, <2>1, <2>2
<1>5. Wired'
  BY <1>0, <1>3, <1>4 DEF Wired
<1>6. ChannelIsTrue'
  <2>1. \A i \in DOMAIN p2c' : Truthful(p2c'[i])
    BY <1>0, <1>3 DEF ChannelIsTrue
  <2>2. \A i \in DOMAIN c2p' : Asked(c2p'[i])
    BY <1>0, <1>1, <1>4 DEF ChannelIsTrue
  <2> QED BY <1>0, <1>3, <1>4, <2>1, <2>2, ChannelKeeps
<1>7. Handshake'
  <2>1. ASSUME phase \in {"off", "joined"} PROVE c2p' = <<>> /\ p2c' = <<>> /\ sub'.expected = Nil
    <3>1. c2p = <<>> /\ p2c = <<>> /\ sub.expected = Nil
      BY <2>1, <1>0 DEF Handshake
    <3> QED BY <3>1, <1>1
  <2>2. ASSUME NEW i \in DOMAIN c2p', c2p'[i] = {} PROVE i = 1 /\ p2c' = <<>> /\ sub'.expected = Nil
    <3>1. i = 1 /\ p2c = <<>> /\ sub.expected = Nil
      BY <2>2, <1>0, <1>4 DEF Handshake
    <3> QED BY <3>1, <1>1
  <2>3. ASSUME NEW i \in DOMAIN p2c', p2c'[i].type = "snapshot" PROVE i = 1 /\ sub'.expected = Nil
    <3>1. CASE p2c' = p2c
      <4>1. i = 1 /\ sub.expected = Nil
        BY <2>3, <3>1, <1>0 DEF Handshake
      <4>2. ~(p2c # <<>> /\ p2c' = Tail(p2c))
        <5>1. p2c # <<>> => Len(Tail(p2c)) = Len(p2c) - 1 /\ Len(p2c) \in Nat
          BY <1>0
        <5> QED BY <5>1, <3>1
      <4> QED BY <4>1, <4>2, <1>1
    <3>2. CASE p2c' # p2c
      <4>1. i + 1 \in DOMAIN p2c /\ p2c[i + 1].type = "snapshot" /\ i > 0 /\ i \in Nat
        BY <2>3, <3>2, <1>3
      <4>2. i + 1 = 1
        BY <4>1, <1>0 DEF Handshake
      <4> QED BY <4>1, <4>2
    <3> QED BY <3>1, <3>2
  <2>4. ASSUME sub'.expected = Nil, NEW i \in DOMAIN c2p' PROVE c2p'[i] = {}
    <3>1. sub.expected = Nil /\ r.asks = {}
      BY <2>4, <1>1
    <3> QED BY <3>1, <1>0, <1>4 DEF Handshake
  <2> QED BY <2>1, <2>2, <2>3, <2>4 DEF Handshake
<1> QED BY <1>2, <1>5, <1>6, <1>7 DEF McastInv

\* A datagram arrives.
LEMMA OnUdpKeeps ==
    ASSUME McastInv, NEW d \in net, NEW dup, NEW due, OnUdp(d, dup, due) PROVE McastInv'
<1>1. d[1] \in Nat /\ d[2] \in Nat /\ d[1] <= d[2] /\ d[2] < Len(log) /\ Logged /\ Following(sub)
  BY DEF McastInv, Wired
<1>2. PICK r : r = Handle(d[1], d[2], due)
  OBVIOUS
<1>3. Fine(r) /\ (sub.expected = Nil => r.asks = {} /\ r.s.expected = Nil)
  BY <1>1, <1>2, HandleIsFine
<1>4. Ends(r) /\ net' \subseteq net /\ UNCHANGED <<log, last, p2c, phase>>
  BY <1>2 DEF OnUdp
<1> QED BY <1>3, <1>4, HandlerKeeps

\* A message of the recovery channel arrives.
LEMMA OnTcpKeeps ==
    ASSUME McastInv, NEW due, OnTcp(due) PROVE McastInv'
<1>0. /\ Logged /\ Wired /\ ChannelIsTrue /\ Handshake /\ Following(sub) /\ p2c \in Seq(Message)
      /\ phase = "connected" /\ p2c # <<>> /\ p2c' = Tail(p2c) /\ UNCHANGED <<log, last, net, phase, faults>>
      /\ Len(log) \in Nat
  BY DEF McastInv, Wired, OnTcp, Logged
<1>1. PICK m : m = Head(p2c)
  OBVIOUS
<1>2. m \in Message /\ Truthful(m) /\ (m.type = "snapshot" => sub.expected = Nil)
  <2>1. 1 \in DOMAIN p2c /\ m = p2c[1]
    BY <1>0, <1>1
  <2> QED BY <1>0, <2>1 DEF ChannelIsTrue, Handshake
<1>3. sub \in Subscriber /\ sub.pending \subseteq 0 .. Len(log) - 1
  BY <1>0 DEF Following, Within
<1>4. {} \in Request /\ Asked({})
  BY DEF Request, Asked
<1>5. ASSUME NEW r, Fine(r), Ends(r) PROVE McastInv'
  BY <1>0, <1>5, HandlerKeeps
<1>6. CASE m.type = "snapshot" /\ Ends(OnSnapshot(m, due))
  <2>1. PICK p : p = {n \in sub.pending : n >= m.next}
    OBVIOUS
  <2>2. p \subseteq 0 .. Len(log) - 1
    BY <1>3, <2>1
  <2>3. PICK s : s = Advance([sub EXCEPT !.view = m.values, !.first = m.next], m.next, p)
    OBVIOUS
  <2>4. Following(s) /\ s.expected # Nil
    BY <1>0, <1>2, <1>6, <2>2, <2>3, SnapshotFollows
  <2>5. CASE s.pending = {}
    <3>1. OnSnapshot(m, due) = [s |-> s, asks |-> {}]
      BY <2>1, <2>3, <2>5 DEF OnSnapshot, Quiet
    <3>2. Fine([s |-> s, asks |-> {}])
      BY <1>4, <2>4 DEF Fine
    <3> QED BY <1>5, <1>6, <3>1, <3>2
  <2>6. CASE s.pending # {}
    <3>1. OnSnapshot(m, due) = RequestMissing(s, Min(s.pending), due)
      BY <2>1, <2>3, <2>6 DEF OnSnapshot
    <3>2. s.pending \subseteq 0 .. Len(log) - 1 /\ s.pending \subseteq Nat
      BY <2>4 DEF Following, Within
    <3>3. Min(s.pending) \in s.pending
      BY <2>6, <3>2, Smallest
    <3>4. Min(s.pending) \in 0 .. Len(log)
      BY <1>0, <3>2, <3>3
    <3>5. Fine(RequestMissing(s, Min(s.pending), due))
      BY <1>0, <2>4, <3>4, RequestIsFine
    <3> QED BY <1>5, <1>6, <3>1, <3>5
  <2> QED BY <2>5, <2>6
<1>7. CASE m.type = "ack" /\ Ends(Quiet(OnAck(m)))
  <2>1. m.oldest \in Nat /\ m.oldest <= Oldest
    BY <1>2, <1>7 DEF Message, Truthful
  <2>2. PICK s : s = OnAck(m)
    OBVIOUS
  <2>3. Following(s) /\ (sub.expected # Nil => s.expected # Nil)
    <3>1. CASE m.unavailable = 0 \/ sub.expected = Nil \/ sub.expected >= m.oldest
      <4>1. s = sub
        BY <2>2, <3>1 DEF OnAck
      <4> QED BY <1>0, <4>1
    <3>2. CASE ~(m.unavailable = 0 \/ sub.expected = Nil \/ sub.expected >= m.oldest)
      <4>1. s = Advance([sub EXCEPT !.lost = @ + (m.oldest - sub.expected)], m.oldest, sub.pending)
        BY <2>2, <3>2 DEF OnAck
      <4> QED BY <1>0, <2>1, <3>2, <4>1, SkipFollows
    <3> QED BY <3>1, <3>2
  <2>4. Fine([s |-> s, asks |-> {}])
    BY <1>4, <2>3 DEF Fine
  <2> QED BY <1>5, <1>7, <2>2, <2>4 DEF Quiet
<1>8. CASE m.type = "frame" /\ Ends(Handle(m.seq, m.seq, due))
  <2>1. m.seq \in Nat /\ m.seq < Len(log) /\ m.seq <= m.seq
    BY <1>2, <1>8 DEF Message, Truthful
  <2>2. Fine(Handle(m.seq, m.seq, due))
    BY <1>0, <2>1, HandleIsFine
  <2> QED BY <1>5, <1>8, <2>2
<1> QED BY <1>1, <1>6, <1>7, <1>8 DEF OnTcp

\* What is missing is asked for again.
LEMMA PollKeeps ==
    ASSUME McastInv, NEW due, Poll(due) PROVE McastInv'
<1>1. /\ Logged /\ Following(sub) /\ sub.pending \subseteq 0 .. Len(log) - 1 /\ Len(log) \in Nat
      /\ sub.expected # Nil /\ sub.pending # {}
  BY DEF McastInv, Following, Within, Poll, Logged
<1>2. Max(sub.pending) \in sub.pending
  <2>1. sub.pending \subseteq 0 .. Len(log)
    BY <1>1
  <2> QED BY <1>1, <2>1, Greatest
<1>3. Max(sub.pending) \in 0 .. Len(log)
  BY <1>1, <1>2
<1>4. PICK r : r = RequestMissing(sub, Max(sub.pending), due)
  OBVIOUS
<1>5. Fine(r)
  BY <1>1, <1>3, <1>4, RequestIsFine
<1>6. Ends(r) /\ UNCHANGED <<log, last, net, p2c, phase>>
  BY <1>4 DEF Poll
<1> QED BY <1>1, <1>5, <1>6, HandlerKeeps

\* Joining, connecting, losing datagrams and the channel.
LEMMA ChannelStepsKeep ==
    ASSUME McastInv, DropConn \/ Join \/ Connect \/ OnEof \/ (\E d \in net : Lose(d)) PROVE McastInv'
<1>0. /\ Logged /\ Wired /\ ChannelIsTrue /\ Handshake /\ Following(sub)
      /\ c2p \in Seq(Request) /\ p2c \in Seq(Message)
  BY DEF McastInv, Wired
<1>1. UNCHANGED <<log, last, sub>> /\ net' \subseteq net
  BY DEF DropConn, Join, Connect, OnEof, Lose
<1>2. Logged' /\ Following(sub)'
  BY <1>0, <1>1, SameLog
<1>3. /\ c2p' \in {c2p, <<>>, <<{}>>} /\ p2c' \in {p2c, <<>>, Append(p2c, [type |-> "eof"])}
      /\ phase' \in {"off", "joined", "connected", "raised"}
  BY <1>0 DEF DropConn, Join, Connect, OnEof, Lose, Wired
<1>4. /\ Append(p2c, [type |-> "eof"]) \in Seq(Message)
      /\ \A i \in DOMAIN Append(p2c, [type |-> "eof"]) :
            (i \in DOMAIN p2c /\ Append(p2c, [type |-> "eof"])[i] = p2c[i])
            \/ Append(p2c, [type |-> "eof"])[i] = [type |-> "eof"]
  <2>1. PICK m : m = [type |-> "eof"]
    OBVIOUS
  <2>2. m \in Message
    BY <2>1 DEF Message
  <2> QED BY <1>0, <2>1, <2>2
<1>5. /\ p2c' \in Seq(Message) /\ c2p' \in Seq(Request)
      /\ \A i \in DOMAIN p2c' : (i \in DOMAIN p2c /\ p2c'[i] = p2c[i]) \/ p2c'[i] = [type |-> "eof"]
      /\ \A i \in DOMAIN c2p' : (i \in DOMAIN c2p /\ c2p'[i] = c2p[i]) \/ c2p'[i] = {}
  <2>1. {} \in Request
    BY DEF Request
  <2>2. p2c' \in Seq(Message)
        /\ \A i \in DOMAIN p2c' : (i \in DOMAIN p2c /\ p2c'[i] = p2c[i]) \/ p2c'[i] = [type |-> "eof"]
    <3>1. CASE p2c' = p2c
      BY <1>0, <3>1
    <3>2. CASE p2c' = <<>>
      BY <3>2
    <3>3. CASE p2c' = Append(p2c, [type |-> "eof"])
      BY <1>4, <3>3
    <3> QED BY <1>3, <3>1, <3>2, <3>3
  <2>3. c2p' \in Seq(Request)
        /\ \A i \in DOMAIN c2p' : (i \in DOMAIN c2p /\ c2p'[i] = c2p[i]) \/ c2p'[i] = {}
    <3>1. CASE c2p' = c2p
      BY <1>0, <3>1
    <3>2. CASE c2p' = <<>>
      BY <3>2
    <3>3. CASE c2p' = <<{}>>
      BY <2>1, <3>3
    <3> QED BY <1>3, <3>1, <3>2, <3>3
  <2> QED BY <2>2, <2>3
<1>6. Wired'
  BY <1>0, <1>1, <1>3, <1>5 DEF Wired
<1>7. ChannelIsTrue'
  <2>1. \A i \in DOMAIN p2c' : Truthful(p2c'[i])
    BY <1>0, <1>5 DEF ChannelIsTrue, Truthful
  <2>2. \A i \in DOMAIN c2p' : Asked(c2p'[i])
    BY <1>0, <1>5 DEF ChannelIsTrue, Asked
  <2> QED BY <1>0, <1>1, <1>5, <2>1, <2>2, ChannelKeeps
<1>8. Handshake'
  <2>1. CASE DropConn
    <3>1. c2p' = <<>> /\ phase' = "connected" /\ UNCHANGED sub
      BY <2>1 DEF DropConn
    <3> QED BY <1>0, <1>5, <3>1 DEF Handshake
  <2>2. CASE Join
    BY <1>0, <2>2 DEF Join, Handshake
  <2>3. CASE Connect
    BY <1>0, <2>3 DEF Connect, Handshake
  <2>4. CASE OnEof
    BY <1>0, <2>4 DEF OnEof, Handshake
  <2>5. CASE \E d \in net : Lose(d)
    BY <1>0, <2>5 DEF Lose, Handshake
  <2> QED BY <2>1, <2>2, <2>3, <2>4, <2>5
<1> QED BY <1>2, <1>6, <1>7, <1>8 DEF McastInv

\* Nothing was published and nobody has joined.
LEMMA McastStarts == ASSUME McastInit PROVE McastInv
<1>1. /\ log = <<>> /\ last = [k \in Key |-> Nil] /\ net = {} /\ c2p = <<>> /\ p2c = <<>>
      /\ phase = "off"
      /\ sub = [expected |-> Nil, pending |-> {}, seen |-> {},
                view |-> [k \in Key |-> Nil], got |-> {}, lost |-> 0, first |-> Nil]
  BY DEF McastInit
<1>2. Logged
  BY <1>1, McastAssumption DEF Logged
<1>3. Wired
  BY <1>1 DEF Wired
<1>4. ChannelIsTrue
  <2>1. \A k \in Key : Newest(log, k, Len(log)) = Nil
    BY <1>1 DEF Newest, OfKey
  <2> QED BY <1>1, <2>1 DEF ChannelIsTrue
<1>5. Handshake
  BY <1>1 DEF Handshake
<1>6. Following(sub)
  BY <1>1 DEF Following, Within, Subscriber
<1> QED BY <1>2, <1>3, <1>4, <1>5, <1>6 DEF McastInv

\* Every step keeps the invariant.
LEMMA McastStep == ASSUME McastInv, [McastNext]_mcastVars PROVE McastInv'
<1>1. ASSUME NEW frames \in Batches, OnBus(frames) PROVE McastInv'
  <2>1. PICK n \in 1 .. MaxBatch : frames \in [1 .. n -> Key]
    BY DEF Batches
  <2>2. frames \in Seq(Key \cup {Nil}) /\ Len(frames) > 0 /\ Len(frames) \in Nat
    <3>1. n \in Nat /\ n > 0 /\ DOMAIN frames = 1 .. n
      BY <2>1, McastAssumption
    <3>2. frames \in Seq(Key) /\ Len(frames) = n
      BY <2>1, <3>1
    <3> QED BY <3>1, <3>2
  <2>3. Len(log) + Len(frames) <= MaxSeq
    <3>1. Len(log) \in Nat /\ Len(log) + Len(frames) <= MaxData
      BY <1>1 DEF OnBus, seq, McastInv, Logged
    <3> QED BY <2>2, <3>1, McastAssumption
  <2> QED BY <1>1, <2>2, <2>3, SendKeeps DEF OnBus
<1>2. CASE Heartbeat
  <2>0. PICK f : f = <<Nil>>
    OBVIOUS
  <2>1. f \in Seq(Key \cup {Nil}) /\ Len(f) = 1
    BY <2>0
  <2>2. Len(log) + 1 <= MaxSeq
    BY <1>2, McastAssumption DEF Heartbeat, seq, McastInv, Logged
  <2>3. Len(f) > 0 /\ Len(log) + Len(f) <= MaxSeq /\ Send(f)
    BY <1>2, <2>0, <2>1, <2>2 DEF Heartbeat
  <2> QED BY <2>1, <2>3, SendKeeps
<1>3. CASE OnRecoveryRequest
  BY <1>3, RecoveryKeeps
<1>4. CASE DropConn \/ Join \/ Connect \/ OnEof \/ (\E d \in net : Lose(d))
  BY <1>4, ChannelStepsKeep
<1>5. ASSUME NEW d \in net, NEW dup \in BOOLEAN, NEW due \in Due, OnUdp(d, dup, due) PROVE McastInv'
  BY <1>5, OnUdpKeeps
<1>6. ASSUME NEW due \in Due, OnTcp(due) PROVE McastInv'
  BY <1>6, OnTcpKeeps
<1>7. ASSUME NEW due \in Due, Poll(due) PROVE McastInv'
  BY <1>7, PollKeeps
<1>8. CASE UNCHANGED mcastVars
  <2>1. UNCHANGED <<log, last, net, c2p, p2c, phase, sub>>
    BY <1>8 DEF mcastVars
  <2>2. Logged' /\ Following(sub)'
    BY <2>1, SameLog DEF McastInv
  <2>3. ChannelIsTrue'
    <3>1. ChannelIsTrue /\ Wired
      BY DEF McastInv
    <3> QED BY <2>1, <3>1, ChannelKeeps DEF Wired, ChannelIsTrue
  <2> QED BY <2>1, <2>2, <2>3 DEF McastInv, Wired, Handshake
<1> QED BY <1>1, <1>2, <1>3, <1>4, <1>5, <1>6, <1>7, <1>8 DEF McastNext

\* The inductive invariant of publisher, channel and subscriber.
THEOREM McastInvariant == McastSpec => []McastInv
<1>1. McastInit => McastInv
  BY McastStarts
<1>2. McastInv /\ [McastNext]_mcastVars => McastInv'
  BY McastStep
<1> QED BY <1>1, <1>2, PTL DEF McastSpec

\* The subscriber has in order what was published, or has counted it as unrecoverable,
\* which it was: McastSubscriber joins, takes the snapshot and fills its gaps whatever
\* the net loses, doubles or reorders.
THEOREM StreamsAreSound == McastSpec => []StreamIsSound
<1>1. ASSUME McastInv PROVE StreamIsSound
  <2>0. /\ Logged /\ Wired /\ ChannelIsTrue /\ Handshake /\ Following(sub) /\ Within(sub)
        /\ sub \in Subscriber /\ Len(log) \in Nat /\ MaxSeq \in Nat /\ Len(log) <= MaxSeq
    BY <1>1, McastAssumption DEF McastInv, Following, Within, Logged
  <2>1. ASSUME sub.expected # Nil
        PROVE  /\ sub.expected \in Nat /\ sub.expected <= Len(log) /\ UpTo(sub, sub.expected)
    BY <2>0, <2>1 DEF Following, UpTo
  <2>2. StreamTypes
    <3>1. \A k \in Key : last[k] \in FrameNumbers \cup {Nil}
      <4>1. ASSUME NEW k \in Key PROVE last[k] \in FrameNumbers \cup {Nil}
        <5>1. 0 \in 0 .. Len(log) /\ Len(log) \in 0 .. Len(log) /\ log \in Seq(Key \cup {Nil})
          BY <2>0 DEF Logged
        <5>2. /\ Newest(log, k, Len(log)) = IF OfKey(log, k, 0, Len(log) - 1) = {} THEN Newest(log, k, 0)
                                            ELSE Max(OfKey(log, k, 0, Len(log) - 1))
              /\ OfKey(log, k, 0, Len(log) - 1) # {}
                   => Max(OfKey(log, k, 0, Len(log) - 1)) \in 0 .. Len(log) - 1
          BY <5>1, NewestFrom
        <5>3. Newest(log, k, 0) = Nil
          BY DEF Newest, OfKey
        <5>4. last[k] = Newest(log, k, Len(log))
          BY <2>0 DEF ChannelIsTrue
        <5>5. last[k] \in 0 .. Len(log) - 1 \/ last[k] = Nil
          BY <5>2, <5>3, <5>4
        <5> QED BY <2>0, <5>5 DEF FrameNumbers
      <4> QED BY <4>1
    <3>2. last \in [Key -> FrameNumbers \cup {Nil}]
      BY <2>0, <3>1 DEF ChannelIsTrue
    <3>3. net \subseteq FrameNumbers \X FrameNumbers /\ \A d \in net : d[1] <= d[2] /\ d[2] < seq
      <4>1. ASSUME NEW d \in net PROVE d \in FrameNumbers \X FrameNumbers /\ d[1] <= d[2] /\ d[2] < seq
        <5>1. d \in Nat \X Nat /\ d[1] <= d[2] /\ d[2] < Len(log)
          BY <2>0 DEF Wired
        <5>2. d[1] \in FrameNumbers /\ d[2] \in FrameNumbers
          BY <2>0, <5>1 DEF FrameNumbers
        <5> QED BY <5>1, <5>2 DEF seq
      <4> QED BY <4>1
    <3>4. sub.expected \in FrameNumbers \cup {Nil}
      BY <2>0, <2>1 DEF FrameNumbers
    <3>5. sub.view \in [Key -> FrameNumbers \cup {Nil}]
      <4>1. sub.view \in [Key -> Nat \cup {Nil}] /\ \A k \in Key : sub.view[k] # Nil => sub.view[k] < Len(log)
        BY <2>0 DEF Within, Subscriber
      <4>2. ASSUME NEW k \in Key PROVE sub.view[k] \in FrameNumbers \cup {Nil}
        BY <2>0, <4>1 DEF FrameNumbers
      <4> QED BY <4>1, <4>2
    <3>6. sub.got \subseteq 0 .. seq - 1 /\ sub.lost \in Nat
      <4>1. CASE sub.expected = Nil
        BY <2>0, <4>1 DEF Following, Subscriber
      <4>2. CASE sub.expected # Nil
        BY <2>0, <2>1, <4>2 DEF UpTo, seq, Subscriber
      <4> QED BY <4>1, <4>2
    <3>7. /\ sub.pending \subseteq 0 .. seq - 1 /\ sub.seen \subseteq FrameNumbers
          /\ log \in Seq(Key \cup {Nil}) /\ seq <= MaxSeq
          /\ phase \in {"off", "joined", "connected", "raised"}
      BY <2>0 DEF Within, FrameNumbers, Logged, Wired, seq
    <3> QED BY <3>2, <3>3, <3>4, <3>5, <3>6, <3>7 DEF StreamTypes
  <2>3. ViewIsCurrent
    <3>1. ASSUME sub.expected # Nil, sub.lost = 0, NEW k \in Key
          PROVE  LET seen == {n \in 0 .. seq - 1 : n < sub.expected /\ log[n + 1] = k}
                 IN  sub.view[k] = (IF seen = {} THEN Nil ELSE Max(seen))
      <4>1. sub.view[k] = Newest(log, k, sub.expected)
        BY <2>1, <3>1 DEF UpTo
      <4>2. {n \in 0 .. seq - 1 : n < sub.expected /\ log[n + 1] = k} = OfKey(log, k, 0, sub.expected - 1)
        <5>1. sub.expected \in Nat /\ sub.expected <= Len(log)
          BY <2>1, <3>1
        <5> QED BY <2>0, <5>1 DEF OfKey, seq
      <4> QED BY <4>1, <4>2 DEF Newest
    <3> QED BY <3>1 DEF ViewIsCurrent
  <2>4. LossesAccounted
    BY <2>1 DEF LossesAccounted, UpTo, Skipped
  <2> QED BY <2>2, <2>3, <2>4 DEF StreamIsSound
<1> QED BY <1>1, McastInvariant, PTL

=============================================================================
