----------------------------- MODULE FeedProofs -----------------------------
(***************************************************************************)
(* Proofs about the feed: what feedd publishes is counted and its sessions *)
(* end soundly (Ingest and KisPoll), what the bus carries arrives once, in *)
(* order and intact or is counted as lost (Bus), and what the gateway's    *)
(* browsers see is current (WsGateway). Feed puts the last two together.   *)
(***************************************************************************)
EXTENDS Feed, Ingest, FiniteSetTheorems, SequenceTheorems, TLAPS

(***************************************************************************)
(* THE BUS                                                                 *)
(***************************************************************************)

(* The bus. All that is on its way to the consumer, in order: the bytes in *)
(* the parser and the bytes on the socket.                                 *)

Wire == buf \o pipe
Cell == [f : Frame, part : {"head", "rest", "stub"}, need : 0 .. Span]

\* A sequence of cells that frames left there whole, or cut where a connection ended.
Line(s) ==
    /\ \A i \in DOMAIN s : s[i].part = "rest" => i > 1 /\ s[i - 1].part = "head" /\ s[i - 1].f = s[i].f
    /\ \A i \in DOMAIN s : i < Len(s) /\ s[i].part = "head" => s[i + 1].part = "rest"
    /\ \A i, j \in DOMAIN s : i < j => s[i].f.id < s[j].f.id \/ (j = i + 1 /\ s[j].part = "rest")
Ended(s) == s # <<>> => s[Len(s)].part # "head"
Whole(s) == {s[i].f.id : i \in {j \in DOMAIN s : s[j].part = "rest"}}

Publisher == [up : BOOLEAN, epoch : Nat, seq : Nat, made : Nat, joined : Nat, dropped : Nat]
BusTypes ==
    /\ pub \in Publisher
    /\ conn \in {"none", "open", "served", "ended"}
    /\ queue \in Seq(Frame) /\ Len(queue) <= QueueSize
    /\ pipe \in Seq(Cell) /\ Len(pipe) <= PipeSize + 1 /\ buf \in Seq(Cell)
    /\ kept \in BOOLEAN /\ source \in [connected : BOOLEAN, restarts : Nat]
    /\ seqs \in [expected : Nat, lost : Nat, duplicate : Nat, started : BOOLEAN]
    /\ got \in Seq(Nat \ {0}) /\ faults \in Nat

\* Every process and every consumer but the first was started after a fault.
Limits ==
    /\ pub.epoch + (IF pub.up THEN 0 ELSE 1) + source.restarts <= faults /\ faults <= MaxFaults
    /\ pub.seq <= pub.made /\ pub.made <= MaxFrames
    /\ pub.joined <= pub.made /\ pub.dropped <= pub.made

\* What a connection leaves behind when it ends.
Left ==
    /\ conn = "none" => pipe = <<>>
    /\ conn # "served" => queue = <<>>
    /\ conn # "ended" => Ended(Wire)
    /\ ~kept => \A i \in DOMAIN buf : buf[i].part # "stub"
    /\ \A i \in DOMAIN pipe : pipe[i].part # "stub"
    /\ fed \subseteq Whole(buf)

\* What was delivered comes before what is on its way, and that before what is queued.
InOrder ==
    /\ Line(Wire) /\ OnlyForward
    /\ \A i, j \in DOMAIN queue : i < j => queue[i].id < queue[j].id
    /\ \A i \in DOMAIN got, j \in DOMAIN Wire : got[i] < Wire[j].f.id
    /\ \A i \in DOMAIN got, j \in DOMAIN queue : got[i] < queue[j].id
    /\ \A i \in DOMAIN Wire, j \in DOMAIN queue : Wire[i].f.id < queue[j].id
    /\ \A i \in DOMAIN queue : pub.joined < queue[i].id /\ queue[i].id <= pub.made
    /\ \A i \in DOMAIN Wire : Wire[i].f.id <= pub.made
    /\ \A i \in DOMAIN got : got[i] <= pub.made

\* By how much the numbers of a frame's process lag behind the frames made: more for
\* each process than for the one before, and never less than the consumer has seen.
Lag(f) == f.id - f.seq
Coming == {Wire[i].f : i \in DOMAIN Wire} \cup {queue[i] : i \in DOMAIN queue}
Lags ==
    /\ seqs.started <=> got # <<>>
    /\ \A f, g \in Coming : f.id < g.id => Lag(f) <= Lag(g)
    /\ \A f \in Coming : Lag(f) <= pub.made + 1 - pub.seq
    /\ got # <<>> =>
         /\ got[Len(got)] + 1 - seqs.expected <= pub.made + 1 - pub.seq
         /\ \A f \in Coming : got[Len(got)] + 1 - seqs.expected <= Lag(f)
FirstProcess ==
    pub.epoch = 0 => /\ pub.seq = pub.made /\ \A f \in Coming : Lag(f) = 1
                     /\ got # <<>> => seqs.expected = got[Len(got)]

BusInv ==
    BusTypes /\ Limits /\ Left /\ InOrder /\ DropsAreCounted /\ Lags /\ FirstProcess /\ LossIsCounted

-----------------------------------------------------------------------------
(* Sequences of cells.                                                     *)

\* t is what is left of s when its first d cells, and any of its last, are gone, and
\* the last that is left became a stub if it was not the rest of a frame.
Remains(t, s, d) ==
    /\ d \in Nat /\ Len(t) + d <= Len(s)
    /\ \A i \in DOMAIN t :
         /\ t[i].f = s[i + d].f
         /\ \/ t[i].part = s[i + d].part
            \/ i = Len(t) /\ t[i].part = "stub" /\ s[i + d].part # "rest"

\* The numbers of a frame.
LEMMA FrameTypes ==
    \A f \in Frame : f.id \in Nat /\ f.id >= 1 /\ f.seq \in Nat /\ f.seq <= MaxFrames
BY BusAssumption DEF Frame

\* What a sequence of cells is made of.
LEMMA CellSeq ==
    ASSUME NEW s \in Seq(Cell)
    PROVE  /\ Len(s) \in Nat /\ DOMAIN s = 1 .. Len(s)
           /\ \A i \in DOMAIN s : /\ s[i] \in Cell /\ s[i].f \in Frame
                                  /\ s[i].part \in {"head", "rest", "stub"}
                                  /\ s[i].f.id \in Nat /\ s[i].f.id >= 1 /\ s[i].f.seq \in Nat
<1>1. Len(s) \in Nat /\ DOMAIN s = 1 .. Len(s)
  BY LenProperties
<1>2. \A i \in DOMAIN s : s[i] \in Cell
  BY <1>1, ElementOfSeq
<1>3. \A c \in Cell : c.f \in Frame /\ c.part \in {"head", "rest", "stub"}
  BY DEF Cell
<1>4. \A f \in Frame : f.id \in Nat /\ f.id >= 1 /\ f.seq \in Nat
  BY BusAssumption DEF Frame
<1> QED BY <1>1, <1>2, <1>3, <1>4

\* What remains of frames in order is in order.
LEMMA LineRemains ==
    ASSUME NEW s \in Seq(Cell), NEW t \in Seq(Cell), NEW d, Line(s), Remains(t, s, d),
           t # <<>> => t[1].part # "rest"
    PROVE  Line(t)
<1> DEFINE n == Len(t)
           m == Len(s)
<1>1. n \in Nat /\ m \in Nat /\ d \in Nat /\ n + d <= m /\ DOMAIN t = 1 .. n /\ DOMAIN s = 1 .. m
  BY LenProperties DEF Remains
<1> HIDE DEF n, m
<1>2. \A i \in 1 .. n : i + d \in 1 .. m
  BY <1>1
<1>3. \A i \in 1 .. n : t[i].f = s[i + d].f /\ t[i].f.id \in Nat
  BY <1>1, CellSeq DEF Remains
<1>4. \A i \in 1 .. n : t[i].part = "rest" => s[i + d].part = "rest"
  BY <1>1 DEF Remains
<1>5. \A i \in 1 .. n : s[i + d].part = "rest" => t[i].part = "rest"
  BY <1>1 DEF Remains
<1>6. \A i \in 1 .. n : i < n => t[i].part = s[i + d].part
  BY <1>1 DEF Remains, n
<1>7. ASSUME NEW i \in 1 .. n, t[i].part = "rest"
      PROVE  i > 1 /\ t[i - 1].part = "head" /\ t[i - 1].f = t[i].f
  <2>1. n # 0
    BY <1>1
  <2>2. t # <<>>
    BY <1>1, <2>1 DEF n
  <2>3. i > 1
    BY <1>1, <1>7, <2>2
  <2>4. i - 1 \in 1 .. n /\ i - 1 < n /\ (i - 1) + d = (i + d) - 1
    BY <1>1, <2>3
  <2>5. s[i + d].part = "rest"
    BY <1>4, <1>7
  <2>6. s[(i + d) - 1].part = "head" /\ s[(i + d) - 1].f = s[i + d].f
    BY <1>1, <1>2, <2>5 DEF Line
  <2>7. t[i - 1].part = "head"
    BY <1>6, <2>4, <2>6
  <2>8. t[i - 1].f = t[i].f
    BY <1>3, <2>4, <2>6
  <2> QED BY <2>3, <2>7, <2>8
<1>8. ASSUME NEW i \in 1 .. n, i < n, t[i].part = "head" PROVE t[i + 1].part = "rest"
  <2>1. s[i + d].part = "head"
    BY <1>6, <1>8
  <2>2. i + d \in 1 .. m /\ i + d < m /\ i + 1 \in 1 .. n /\ (i + 1) + d = (i + d) + 1
    BY <1>1, <1>8
  <2>3. s[(i + d) + 1].part = "rest"
    BY <1>1, <2>1, <2>2 DEF Line, m
  <2> QED BY <1>5, <2>2, <2>3
<1>9. ASSUME NEW i \in 1 .. n, NEW j \in 1 .. n, i < j
      PROVE  t[i].f.id < t[j].f.id \/ (j = i + 1 /\ t[j].part = "rest")
  <2>1. i + d \in 1 .. m /\ j + d \in 1 .. m /\ i + d < j + d
    BY <1>1, <1>2, <1>9
  <2>2. s[i + d].f.id < s[j + d].f.id \/ (j + d = (i + d) + 1 /\ s[j + d].part = "rest")
    BY <1>1, <2>1 DEF Line
  <2>3. j + d = (i + d) + 1 => j = i + 1
    BY <1>1
  <2> QED BY <1>3, <1>5, <2>2, <2>3
<1> QED BY <1>1, <1>7, <1>8, <1>9 DEF Line, n

\* A frame written to the socket comes after all that is there.
LEMMA LineWrite ==
    ASSUME NEW s \in Seq(Cell), Line(s), Ended(s), NEW f \in Frame,
           \A i \in DOMAIN s : s[i].f.id < f.id
    PROVE  /\ s \o Cells(f) \in Seq(Cell) /\ Line(s \o Cells(f)) /\ Ended(s \o Cells(f))
           /\ Len(s \o Cells(f)) = Len(s) + 2
           /\ \A i \in DOMAIN s : (s \o Cells(f))[i] = s[i]
           /\ (s \o Cells(f))[Len(s) + 1].f = f /\ (s \o Cells(f))[Len(s) + 2].f = f
           /\ (s \o Cells(f))[Len(s) + 1].part = "head" /\ (s \o Cells(f))[Len(s) + 2].part = "rest"
<1> DEFINE n == Len(s)
           c == Cells(f)
           u == s \o c
<1>1. n \in Nat /\ DOMAIN s = 1 .. n /\ \A i \in DOMAIN s : s[i].f.id \in Nat
  BY CellSeq
<1>2. /\ c \in Seq(Cell) /\ Len(c) = 2 /\ c[1].f = f /\ c[2].f = f
      /\ c[1].part = "head" /\ c[2].part = "rest"
  <2>1. 0 \in 0 .. Span
    BY BusAssumption
  <2>2. [f |-> f, part |-> "head", need |-> 0] \in Cell /\ [f |-> f, part |-> "rest", need |-> 0] \in Cell
    BY <2>1 DEF Cell
  <2> QED BY <2>2 DEF Cells
<1> HIDE DEF c
<1>3. u \in Seq(Cell) /\ Len(u) = n + 2
  <2>1. c \in Seq(Cell)
    BY <1>2
  <2>2. u \in Seq(Cell) /\ Len(u) = Len(s) + Len(c)
    BY <2>1, ConcatProperties
  <2> HIDE DEF u
  <2> QED BY ONLY <1>2, <2>2
<1>4. \A i \in 1 .. n : u[i] = s[i]
  <2>1. \A i \in 1 .. (Len(s) + Len(c)) : u[i] = IF i <= Len(s) THEN s[i] ELSE c[i - Len(s)]
    BY <1>2, ConcatProperties
  <2>2. \A i \in 1 .. n : i \in 1 .. (Len(s) + Len(c)) /\ i <= Len(s)
    BY <1>1, <1>2
  <2> HIDE DEF u
  <2> QED BY ONLY <2>1, <2>2
<1>5. u[n + 1] = c[1] /\ u[n + 2] = c[2]
  <2>1. n + 1 \in 1 .. (n + 2) /\ n + 2 \in 1 .. (n + 2) /\ ~(n + 1 <= n) /\ ~(n + 2 <= n)
        /\ n + 1 - n = 1 /\ n + 2 - n = 2
    BY <1>1
  <2> QED BY <1>1, <1>2, <2>1, ConcatProperties
<1>6. DOMAIN u = 1 .. (n + 2)
  BY <1>3, LenProperties
<1> HIDE DEF u, n
<1>7. \A i \in 1 .. (n + 2) : i \in 1 .. n \/ i = n + 1 \/ i = n + 2
  BY <1>1
<1>8. ASSUME NEW i \in 1 .. (n + 2), u[i].part = "rest"
      PROVE  i > 1 /\ u[i - 1].part = "head" /\ u[i - 1].f = u[i].f
  <2>1. CASE i \in 1 .. n
    <3>1. i > 1 /\ s[i - 1].part = "head" /\ s[i - 1].f = s[i].f
      BY <1>1, <1>4, <1>8, <2>1 DEF Line
    <3>2. i - 1 \in 1 .. n
      BY <1>1, <2>1, <3>1
    <3> QED BY <1>4, <2>1, <3>1, <3>2
  <2>2. CASE i = n + 1
    BY <1>2, <1>5, <1>8, <2>2
  <2>3. CASE i = n + 2
    <3>1. i > 1 /\ i - 1 = n + 1
      BY <1>1, <2>3
    <3> QED BY <1>2, <1>5, <2>3, <3>1
  <2> QED BY <1>7, <2>1, <2>2, <2>3
<1>9. ASSUME NEW i \in 1 .. (n + 2), i < n + 2, u[i].part = "head" PROVE u[i + 1].part = "rest"
  <2>1. CASE i \in 1 .. n
    <3>1. s[i].part = "head"
      BY <1>4, <1>9, <2>1
    <3>2. i # n
      <4>1. s # <<>>
        BY <1>1, <2>1
      <4> QED BY <3>1, <4>1 DEF Ended, n
    <3>3. i < n /\ i + 1 \in 1 .. n
      BY <1>1, <2>1, <3>2
    <3>4. s[i + 1].part = "rest"
      BY <1>1, <2>1, <3>1, <3>3 DEF Line, n
    <3> QED BY <1>4, <3>3, <3>4
  <2>2. CASE i = n + 1
    <3>1. i + 1 = n + 2
      BY <1>1, <2>2
    <3> QED BY <1>2, <1>5, <3>1
  <2> QED BY <1>1, <1>7, <1>9, <2>1, <2>2
<1>10. ASSUME NEW i \in 1 .. (n + 2), NEW j \in 1 .. (n + 2), i < j
       PROVE  u[i].f.id < u[j].f.id \/ (j = i + 1 /\ u[j].part = "rest")
  <2>1. CASE j \in 1 .. n
    <3>1. i \in 1 .. n
      BY <1>1, <1>10, <2>1
    <3> QED BY <1>1, <1>4, <1>10, <2>1, <3>1 DEF Line
  <2>2. CASE i \in 1 .. n /\ j \notin 1 .. n
    <3>1. u[j].f = f
      BY <1>2, <1>5, <1>7, <2>2
    <3> QED BY <1>1, <1>4, <2>2, <3>1
  <2>3. CASE i \notin 1 .. n
    <3>1. i = n + 1 /\ j = n + 2
      BY <1>1, <1>7, <1>10, <2>3
    <3>2. j = i + 1
      BY <1>1, <3>1
    <3> QED BY <1>2, <1>5, <3>1, <3>2
  <2> QED BY <2>1, <2>2, <2>3
<1>11. Line(u)
  BY <1>3, <1>6, <1>8, <1>9, <1>10 DEF Line
<1>12. Ended(u)
  BY <1>2, <1>3, <1>5 DEF Ended
<1>13. /\ u \in Seq(Cell) /\ Line(u) /\ Ended(u) /\ Len(u) = Len(s) + 2
       /\ \A i \in DOMAIN s : u[i] = s[i]
       /\ u[Len(s) + 1].f = f /\ u[Len(s) + 2].f = f
       /\ u[Len(s) + 1].part = "head" /\ u[Len(s) + 2].part = "rest"
  BY <1>1, <1>2, <1>3, <1>4, <1>5, <1>11, <1>12 DEF n
<1> HIDE DEF u
<1> QED BY ONLY <1>13, Zenon DEF u, c

\* The frames that are whole in two pieces.
LEMMA WholeConcat ==
    ASSUME NEW s \in Seq(Cell), NEW t \in Seq(Cell)
    PROVE  Whole(s \o t) = Whole(s) \cup Whole(t)
<1> DEFINE u == s \o t
<1>1. /\ Len(s) \in Nat /\ DOMAIN s = 1 .. Len(s) /\ Len(t) \in Nat /\ DOMAIN t = 1 .. Len(t)
  BY LenProperties
<1>2. u \in Seq(Cell) /\ Len(u) = Len(s) + Len(t)
      /\ \A i \in 1 .. (Len(s) + Len(t)) : u[i] = IF i <= Len(s) THEN s[i] ELSE t[i - Len(s)]
  BY ConcatProperties
<1>3. DOMAIN u = 1 .. (Len(s) + Len(t))
  BY <1>2, LenProperties
<1> HIDE DEF u
<1>4. \A i \in DOMAIN s : i \in DOMAIN u /\ u[i] = s[i]
  BY <1>1, <1>2, <1>3
<1>5. \A i \in DOMAIN t : i + Len(s) \in DOMAIN u /\ u[i + Len(s)] = t[i]
  BY <1>1, <1>2, <1>3
<1>6. \A i \in DOMAIN u : (i \in DOMAIN s /\ u[i] = s[i])
                          \/ (i - Len(s) \in DOMAIN t /\ u[i] = t[i - Len(s)])
  BY <1>1, <1>2, <1>3
<1>7. Whole(u) \subseteq Whole(s) \cup Whole(t)
  BY <1>6 DEF Whole
<1>8. Whole(s) \subseteq Whole(u)
  BY <1>4 DEF Whole
<1>9. Whole(t) \subseteq Whole(u)
  BY <1>5 DEF Whole
<1> QED BY <1>7, <1>8, <1>9 DEF u

\* A piece of a sequence of cells.
LEMMA Piece ==
    ASSUME NEW s \in Seq(Cell), NEW m \in 1 .. (Len(s) + 1), NEW n \in (m - 1) .. Len(s)
    PROVE  /\ SubSeq(s, m, n) \in Seq(Cell) /\ Len(SubSeq(s, m, n)) = n - m + 1
           /\ \A i \in 1 .. (n - m + 1) : SubSeq(s, m, n)[i] = s[m + i - 1]
<1>1. Len(s) \in Nat /\ DOMAIN s = 1 .. Len(s)
  BY LenProperties
<1>2. m \in Int /\ n \in Int /\ n >= m - 1
  BY <1>1
<1>3. \A i \in m .. n : s[i] \in Cell
  <2>1. \A i \in m .. n : i \in 1 .. Len(s)
    BY <1>1
  <2> QED BY <2>1, ElementOfSeq
<1>4. /\ SubSeq(s, m, n) \in Seq(Cell)
      /\ Len(SubSeq(s, m, n)) = IF m <= n THEN n - m + 1 ELSE 0
      /\ \A i \in 1 .. n - m + 1 : SubSeq(s, m, n)[i] = s[m + i - 1]
  BY <1>2, <1>3, SubSeqProperties
<1>5. (IF m <= n THEN n - m + 1 ELSE 0) = n - m + 1
  BY <1>2
<1> QED BY <1>4, <1>5

\* Concatenation is associative.
LEMMA ThreePieces ==
    ASSUME NEW C, NEW s \in Seq(C), NEW a \in Seq(C), NEW b \in Seq(C)
    PROVE  (s \o a) \o b = s \o (a \o b)
BY ConcatAssociative

\* The same for sequences of cells, for use where they carry a prime.
LEMMA CellPieces ==
    \A s, a, b \in Seq(Cell) : (s \o a) \o b = s \o (a \o b)
<1> SUFFICES ASSUME NEW s \in Seq(Cell), NEW a \in Seq(Cell), NEW b \in Seq(Cell)
             PROVE  (s \o a) \o b = s \o (a \o b)
  OBVIOUS
<1> QED BY ThreePieces

\* What is read from the socket goes to the end of what the parser has.
LEMMA ReadMoves ==
    ASSUME NEW s \in Seq(Cell), NEW p \in Seq(Cell), NEW n \in 1 .. Len(p)
    PROVE  /\ s \o SubSeq(p, 1, n) \in Seq(Cell) /\ SubSeq(p, n + 1, Len(p)) \in Seq(Cell)
           /\ Len(SubSeq(p, n + 1, Len(p))) = Len(p) - n
           /\ (s \o SubSeq(p, 1, n)) \o SubSeq(p, n + 1, Len(p)) = s \o p
           /\ SubSeq(p, 1, n) \in Seq(Cell) /\ Len(SubSeq(p, 1, n)) = n
           /\ \A i \in 1 .. n : SubSeq(p, 1, n)[i] = p[i]
           /\ \A i \in 1 .. (Len(p) - n) : SubSeq(p, n + 1, Len(p))[i] = p[n + i]
<1> DEFINE a == SubSeq(p, 1, n)
           b == SubSeq(p, n + 1, Len(p))
<1>1. Len(p) \in Nat /\ n \in 1 .. Len(p) /\ n \in Nat
  BY LenProperties
<1>2. a \in Seq(Cell) /\ Len(a) = n /\ \A i \in 1 .. n : a[i] = p[i]
  <2>1. 1 \in 1 .. (Len(p) + 1) /\ n \in (1 - 1) .. Len(p) /\ n - 1 + 1 = n
        /\ \A i \in 1 .. n : 1 + i - 1 = i
    BY <1>1
  <2>2. a \in Seq(Cell) /\ Len(a) = n - 1 + 1 /\ \A i \in 1 .. (n - 1 + 1) : a[i] = p[1 + i - 1]
    BY <2>1, Piece
  <2> QED BY <2>1, <2>2
<1>3. b \in Seq(Cell) /\ Len(b) = Len(p) - n /\ \A i \in 1 .. (Len(p) - n) : b[i] = p[n + i]
  <2>1. n + 1 \in 1 .. (Len(p) + 1) /\ Len(p) \in (n + 1 - 1) .. Len(p) /\ Len(p) - (n + 1) + 1 = Len(p) - n
        /\ \A i \in 1 .. (Len(p) - n) : (n + 1) + i - 1 = n + i
    BY <1>1
  <2>2. b \in Seq(Cell) /\ Len(b) = Len(p) - (n + 1) + 1
        /\ \A i \in 1 .. (Len(p) - (n + 1) + 1) : b[i] = p[(n + 1) + i - 1]
    BY <2>1, Piece
  <2> QED BY <2>1, <2>2
<1>4. a \o b = p
  <2>1. 1 \in 1 .. (Len(p) + 1) /\ n \in (1 - 1) .. Len(p) /\ Len(p) \in n .. Len(p)
    BY <1>1
  <2>2. a \o b = SubSeq(p, 1, Len(p))
    BY <2>1, ConcatAdjacentSubSeq
  <2>3. SubSeq(p, 1, Len(p)) = p
    BY SubSeqFull
  <2> QED BY <2>2, <2>3
<1>5. s \o a \in Seq(Cell)
  BY <1>2, ConcatProperties
<1>6. (s \o a) \o b = s \o (a \o b)
  <2>1. s \in Seq(Cell) /\ a \in Seq(Cell) /\ b \in Seq(Cell)
    BY <1>2, <1>3
  <2> HIDE DEF a, b
  <2> QED BY ONLY <2>1, CellPieces, Zenon
<1>8. (s \o a) \o b = s \o p
  BY <1>4, <1>6
<1> HIDE DEF a, b
<1>9. /\ s \o a \in Seq(Cell) /\ b \in Seq(Cell) /\ Len(b) = Len(p) - n /\ (s \o a) \o b = s \o p
      /\ a \in Seq(Cell) /\ Len(a) = n /\ \A i \in 1 .. n : a[i] = p[i]
      /\ \A i \in 1 .. (Len(p) - n) : b[i] = p[n + i]
  BY <1>2, <1>3, <1>5, <1>8
<1> QED BY ONLY <1>9, Zenon DEF a, b

\* Where the cells of two pieces are in the whole.
LEMMA WireTypes ==
    ASSUME NEW b \in Seq(Cell), NEW p \in Seq(Cell)
    PROVE  /\ b \o p \in Seq(Cell) /\ Len(b \o p) = Len(b) + Len(p)
           /\ Len(b) \in Nat /\ Len(p) \in Nat
           /\ DOMAIN b = 1 .. Len(b) /\ DOMAIN p = 1 .. Len(p)
           /\ DOMAIN (b \o p) = 1 .. (Len(b) + Len(p))
           /\ \A i \in 1 .. Len(b) : i \in DOMAIN (b \o p) /\ (b \o p)[i] = b[i]
           /\ \A i \in 1 .. Len(p) : i + Len(b) \in DOMAIN (b \o p) /\ (b \o p)[i + Len(b)] = p[i]
<1>0. PICK m, n, w : m = Len(b) /\ n = Len(p) /\ w = b \o p
  OBVIOUS
<1>1. m \in Nat /\ n \in Nat /\ DOMAIN b = 1 .. m /\ DOMAIN p = 1 .. n
  BY <1>0, LenProperties
<1>2. /\ w \in Seq(Cell) /\ Len(w) = m + n
      /\ \A i \in 1 .. (m + n) : w[i] = IF i <= m THEN b[i] ELSE p[i - m]
  BY <1>0, ConcatProperties
<1>3. DOMAIN w = 1 .. (m + n)
  BY <1>2, LenProperties
<1>4. \A i \in 1 .. m : i \in DOMAIN w /\ w[i] = b[i]
  BY <1>1, <1>2, <1>3
<1>6. \A i \in 1 .. n : i + m \in DOMAIN w /\ w[i + m] = p[i]
  <2> TAKE i \in 1 .. n
  <2>1. PICK j : j = i + m
    OBVIOUS
  <2>2. j \in 1 .. (m + n) /\ ~(j <= m) /\ j - m = i
    BY <1>1, <2>1
  <2>3. w[j] = p[j - m]
    BY <1>2, <2>2
  <2>4. j \in DOMAIN w /\ w[j] = p[i]
    BY ONLY <1>3, <2>2, <2>3
  <2> QED BY ONLY <2>1, <2>4, Zenon
<1>7. Len(w) = m + n /\ w \in Seq(Cell)
  BY <1>2
<1> QED BY ONLY <1>1, <1>3, <1>4, <1>6, <1>7, <1>0

-----------------------------------------------------------------------------
(* A step that only takes away from what is on its way.                    *)

\* What is left stays in order.
LEMMA InOrderKept ==
    ASSUME InOrder, Wire \in Seq(Cell), Wire' \in Seq(Cell), NEW d, Remains(Wire', Wire, d),
           Wire' # <<>> => Wire'[1].part # "rest",
           got' = got, queue' = queue \/ queue' = <<>>, pub'.made = pub.made,
           queue' # <<>> => pub'.joined = pub.joined
    PROVE  InOrder'
<1>0. PICK v, w, q, r : v = Wire /\ w = Wire' /\ q = queue /\ r = queue'
  OBVIOUS
<1>1. /\ Len(v) \in Nat /\ DOMAIN v = 1 .. Len(v) /\ Len(w) \in Nat /\ DOMAIN w = 1 .. Len(w)
  BY <1>0, CellSeq
<1>2. Line(w)
  <2>1. v \in Seq(Cell) /\ w \in Seq(Cell) /\ Line(v) /\ Remains(w, v, d) /\ (w # <<>> => w[1].part # "rest")
    BY <1>0 DEF InOrder
  <2> QED BY ONLY <2>1, LineRemains
<1>3. d \in Nat /\ \A i \in DOMAIN w : i + d \in DOMAIN v /\ w[i].f = v[i + d].f
  <2>1. Remains(w, v, d)
    BY <1>0
  <2> QED BY ONLY <1>1, <2>1 DEF Remains
<1>4. /\ \A i, j \in DOMAIN q : i < j => q[i].id < q[j].id
      /\ \A i \in DOMAIN got, j \in DOMAIN v : got[i] < v[j].f.id
      /\ \A i \in DOMAIN got, j \in DOMAIN q : got[i] < q[j].id
      /\ \A i \in DOMAIN v, j \in DOMAIN q : v[i].f.id < q[j].id
      /\ \A i \in DOMAIN q : pub.joined < q[i].id /\ q[i].id <= pub.made
      /\ \A i \in DOMAIN v : v[i].f.id <= pub.made
      /\ \A i \in DOMAIN got : got[i] <= pub.made
  BY <1>0 DEF InOrder
<1>5. (r = q /\ (r # <<>> => pub'.joined = pub.joined)) \/ (r = <<>> /\ DOMAIN r = {})
  <2>1. \A x : x = <<>> => DOMAIN x = {}
    OBVIOUS
  <2> QED BY <1>0, <2>1
<1>6. q = <<>> => DOMAIN q = {}
  OBVIOUS
<1>7. \A i, j \in DOMAIN r : i < j => r[i].id < r[j].id
  BY ONLY <1>4, <1>5
<1>8. \A i \in DOMAIN got, j \in DOMAIN w : got[i] < w[j].f.id
  BY ONLY <1>3, <1>4
<1>9. \A i \in DOMAIN got, j \in DOMAIN r : got[i] < r[j].id
  BY ONLY <1>4, <1>5
<1>10. \A i \in DOMAIN w, j \in DOMAIN r : w[i].f.id < r[j].id
  BY ONLY <1>3, <1>4, <1>5
<1>11. \A i \in DOMAIN r : pub'.joined < r[i].id /\ r[i].id <= pub.made
  BY ONLY <1>4, <1>5, <1>6
<1>12. \A i \in DOMAIN w : w[i].f.id <= pub.made
  BY ONLY <1>3, <1>4
<1>13. OnlyForward'
  BY DEF InOrder, OnlyForward
<1>14. (\A i \in DOMAIN got : got[i] <= pub.made)'
  BY <1>4
<1> QED BY <1>0, <1>2, <1>7, <1>8, <1>9, <1>10, <1>11, <1>12, <1>13, <1>14 DEF InOrder

\* No frame comes that was not coming.
LEMMA ComingKept ==
    ASSUME Wire \in Seq(Cell), Wire' \in Seq(Cell), NEW d, Remains(Wire', Wire, d),
           queue' = queue \/ queue' = <<>>
    PROVE  Coming' \subseteq Coming
<1>0. PICK v, w, q, r : v = Wire /\ w = Wire' /\ q = queue /\ r = queue'
  OBVIOUS
<1>1. /\ Len(v) \in Nat /\ DOMAIN v = 1 .. Len(v) /\ Len(w) \in Nat /\ DOMAIN w = 1 .. Len(w)
  BY <1>0, CellSeq
<1>2. d \in Nat /\ \A i \in DOMAIN w : i + d \in DOMAIN v /\ w[i].f = v[i + d].f
  <2>1. Remains(w, v, d)
    BY <1>0
  <2> QED BY ONLY <1>1, <2>1 DEF Remains
<1>3. r = q \/ DOMAIN r = {}
  <2>1. \A x : x = <<>> => DOMAIN x = {}
    OBVIOUS
  <2> QED BY <1>0, <2>1
<1>4. {w[i].f : i \in DOMAIN w} \subseteq {v[i].f : i \in DOMAIN v}
  BY ONLY <1>2
<1>5. {r[i] : i \in DOMAIN r} \subseteq {q[i] : i \in DOMAIN q}
  BY ONLY <1>3
<1>6. Coming = {v[i].f : i \in DOMAIN v} \cup {q[i] : i \in DOMAIN q}
  BY ONLY <1>0, Zenon DEF Coming
<1>7. Coming' = {w[i].f : i \in DOMAIN w} \cup {r[i] : i \in DOMAIN r}
  BY ONLY <1>0, Zenon DEF Coming
<1> QED BY ONLY <1>4, <1>5, <1>6, <1>7

\* The frames and numbers that are coming are what the types say.
LEMMA ComingTypes ==
    ASSUME BusTypes
    PROVE  \A f \in Coming : f \in Frame /\ f.id \in Nat /\ f.id >= 1 /\ f.seq \in Nat /\ f.seq <= MaxFrames
<1>1. Wire \in Seq(Cell) /\ queue \in Seq(Frame)
  BY WireTypes DEF BusTypes, Wire
<1>2. \A f \in Coming : f \in Frame
  <2>1. \A i \in DOMAIN Wire : Wire[i].f \in Frame
    BY <1>1, CellSeq
  <2>2. \A i \in DOMAIN queue : queue[i] \in Frame
    BY <1>1, LenProperties, ElementOfSeq
  <2> QED BY <2>1, <2>2 DEF Coming
<1>3. \A f \in Frame : f.id \in Nat /\ f.id >= 1 /\ f.seq \in Nat /\ f.seq <= MaxFrames
  BY BusAssumption DEF Frame
<1> QED BY <1>2, <1>3

\* Neither do the numbers change, unless the publisher is another process.
LEMMA LagsKept ==
    ASSUME BusTypes, Limits, Lags, FirstProcess, LossIsCounted, Coming' \subseteq Coming,
           got' = got, seqs' = seqs, pub'.made = pub.made,
           \/ pub'.seq = pub.seq /\ pub'.epoch = pub.epoch
           \/ pub'.seq = 0 /\ pub'.epoch = pub.epoch + 1
    PROVE  Lags' /\ FirstProcess' /\ LossIsCounted'
<1>1. /\ pub.seq \in Nat /\ pub.made \in Nat /\ pub.epoch \in Nat /\ pub'.seq \in Nat /\ pub'.seq <= pub.seq
      /\ seqs.expected \in Nat
  BY DEF BusTypes, Publisher
<1>2. \A f \in Coming : Lag(f) \in Int /\ Lag(f)' = Lag(f)
  BY ComingTypes DEF Lag
<1>3. got # <<>> => got[Len(got)] \in Nat
  <2>1. got \in Seq(Nat \ {0})
    BY DEF BusTypes, Publisher
  <2> QED BY <2>1, ElementOfSeq, LenProperties, EmptySeq
<1>4. \A a, b, c, x \in Int : c <= b /\ x <= a - b => x <= a - c
  OBVIOUS
<1>5. pub.made + 1 \in Int
  BY <1>1
<1>6. \A f \in Coming : Lag(f) <= pub.made + 1 - pub'.seq
  BY <1>1, <1>2, <1>4, <1>5 DEF Lags
<1>7. got # <<>> => got[Len(got)] + 1 - seqs.expected <= pub.made + 1 - pub'.seq
  <2>1. got # <<>> => got[Len(got)] + 1 - seqs.expected <= pub.made + 1 - pub.seq
    BY DEF Lags
  <2>2. \A l, x, a, b, c \in Nat : b <= a /\ l + 1 - x <= c + 1 - a => l + 1 - x <= c + 1 - b
    OBVIOUS
  <2> QED BY <1>1, <1>3, <2>1, <2>2
<1>8. Lags'
  <2>1. \A f \in Coming' : Lag(f) <= pub.made + 1 - pub'.seq
    BY <1>6
  <2>2. \A f, g \in Coming' : f.id < g.id => Lag(f) <= Lag(g)
    BY DEF Lags
  <2>3. got # <<>> => \A f \in Coming' : got[Len(got)] + 1 - seqs.expected <= Lag(f)
    BY DEF Lags
  <2>4. seqs.started <=> got # <<>>
    BY DEF Lags
  <2> QED BY <1>7, <2>1, <2>2, <2>3, <2>4 DEF Lags, Lag
<1>9. FirstProcess'
  BY <1>1 DEF FirstProcess, Lag
<1>10. LossIsCounted'
  BY <1>1 DEF LossIsCounted, Missing
<1> QED BY <1>8, <1>9, <1>10

\* Neither is a frame lost between a subscriber that is served and its consumer.
LEMMA DropsKept ==
    ASSUME DropsAreCounted, {buf, pipe, buf', pipe'} \subseteq Seq(Cell),
           conn' = "served" => /\ conn = "served" /\ pub' = pub /\ queue' = queue /\ got' = got
                               /\ Whole(Wire)' = Whole(Wire)
    PROVE  DropsAreCounted'
<1>1. OnSocket = Whole(pipe) /\ InParser = Whole(buf)
  BY DEF OnSocket, InParser, Whole
<1>2. OnSocket' = Whole(pipe') /\ InParser' = Whole(buf')
  BY DEF OnSocket, InParser, Whole
<1>3. Whole(Wire) = Whole(buf) \cup Whole(pipe)
  BY WholeConcat DEF Wire
<1>4. Whole(Wire') = Whole(buf') \cup Whole(pipe')
  BY WholeConcat DEF Wire
<1>5. Whole(Wire)' = Whole(Wire')
  BY DEF Whole
<1>6. conn' = "served" => OnSocket' \cup InParser' \cup Range(got') = OnSocket \cup InParser \cup Range(got)
  BY <1>1, <1>2, <1>3, <1>4, <1>5
<1> QED BY <1>6 DEF DropsAreCounted

\* All that such a step keeps.
LEMMA Shrinks ==
    ASSUME BusInv, BusTypes', NEW d, Remains(Wire', Wire, d),
           Wire' # <<>> => Wire'[1].part # "rest",
           queue' = queue \/ queue' = <<>>, got' = got, seqs' = seqs, pub'.made = pub.made,
           queue' # <<>> => pub'.joined = pub.joined,
           \/ pub'.seq = pub.seq /\ pub'.epoch = pub.epoch
           \/ pub'.seq = 0 /\ pub'.epoch = pub.epoch + 1
    PROVE  InOrder' /\ Lags' /\ FirstProcess' /\ LossIsCounted'
<1>1. Wire \in Seq(Cell) /\ Wire' \in Seq(Cell)
  <2>1. buf \in Seq(Cell) /\ pipe \in Seq(Cell) /\ buf' \in Seq(Cell) /\ pipe' \in Seq(Cell)
    BY DEF BusInv, BusTypes, Publisher
  <2>2. buf \o pipe \in Seq(Cell) /\ buf' \o pipe' \in Seq(Cell)
    BY ONLY <2>1, WireTypes
  <2> QED BY ONLY <2>2, Zenon DEF Wire
<1>2. InOrder'
  BY <1>1, InOrderKept DEF BusInv
<1>3. Coming' \subseteq Coming
  BY <1>1, ComingKept
<1>4. Lags' /\ FirstProcess' /\ LossIsCounted'
  BY <1>3, LagsKept DEF BusInv
<1> QED BY <1>2, <1>4

\* Nothing is taken away.
LEMMA SameWire ==
    ASSUME NEW s \in Seq(Cell), Line(s)
    PROVE  Remains(s, s, 0) /\ (s # <<>> => s[1].part # "rest")
<1>1. Len(s) \in Nat /\ DOMAIN s = 1 .. Len(s)
  BY LenProperties
<1>2. Remains(s, s, 0)
  BY <1>1 DEF Remains
<1>3. s # <<>> => s[1].part # "rest"
  <2>1. s # <<>> => 1 \in DOMAIN s
    BY <1>1
  <2>2. \A i \in DOMAIN s : s[i].part = "rest" => i > 1
    BY DEF Line
  <2> QED BY <2>1, <2>2
<1> QED BY <1>2, <1>3

\* The types of what is on its way, before a step and after it.
LEMMA WireIsTyped ==
    ASSUME BusTypes
    PROVE  /\ buf \in Seq(Cell) /\ pipe \in Seq(Cell) /\ Wire \in Seq(Cell)
           /\ Len(buf) \in Nat /\ Len(pipe) \in Nat
           /\ DOMAIN buf = 1 .. Len(buf) /\ DOMAIN pipe = 1 .. Len(pipe)
BY WireTypes DEF BusTypes, Wire

-----------------------------------------------------------------------------
(* The steps of the publisher.                                             *)

\* UDSPublisher._handle: a subscriber is registered.
LEMMA HandleKeeps == ASSUME BusInv, Handle PROVE BusInv'
<1>1. BusTypes'
  <2>1. pub' \in Publisher
    <3>1. pub \in Publisher
      BY DEF BusInv, BusTypes, Publisher
    <3>2. pub' = [pub EXCEPT !.joined = pub.made, !.dropped = 0]
      BY DEF Handle
    <3> QED BY ONLY <3>1, <3>2 DEF Publisher
  <2>2. queue' \in Seq(Frame) /\ Len(queue') <= QueueSize
    <3>1. Len(queue') = 0
      BY DEF Handle
    <3> QED BY <3>1, BusAssumption DEF Handle
  <2> QED BY <2>1, <2>2 DEF BusInv, BusTypes, Publisher, Handle
<1>2. Wire' = Wire
  BY DEF Handle, Wire
<1>3. queue = <<>>
  BY DEF BusInv, Left, Handle
<1>4. InOrder' /\ Lags' /\ FirstProcess' /\ LossIsCounted'
  <2>1. Remains(Wire, Wire, 0) /\ (Wire # <<>> => Wire[1].part # "rest")
    BY SameWire, WireIsTyped DEF BusInv, InOrder
  <2>2. got' = got /\ seqs' = seqs /\ pub'.made = pub.made /\ pub'.seq = pub.seq /\ pub'.epoch = pub.epoch
        /\ queue' = <<>>
    BY DEF Handle, BusInv, BusTypes, Publisher
  <2> QED BY <1>1, <1>2, <2>1, <2>2, Shrinks
<1>5. Limits'
  <2>1. pub'.joined = pub.made /\ pub'.dropped = 0 /\ pub'.epoch = pub.epoch /\ pub'.up = pub.up
        /\ pub'.seq = pub.seq /\ pub'.made = pub.made /\ pub.made \in Nat
    BY DEF Handle, BusInv, BusTypes, Publisher
  <2> QED BY <2>1 DEF BusInv, Limits, Handle
<1>6. Left'
  <2>1. Ended(Wire)
    BY DEF BusInv, Left, Handle
  <2> QED BY <1>2, <2>1 DEF BusInv, Left, Handle, Whole, Ended
<1>7. DropsAreCounted'
  <2>1. OnSocket \cup InParser \cup Range(got) = Whole(Wire) \cup Range(got)
    <3>1. OnSocket = Whole(pipe) /\ InParser = Whole(buf)
      BY DEF OnSocket, InParser, Whole
    <3>2. buf \in Seq(Cell) /\ pipe \in Seq(Cell)
      BY WireIsTyped DEF BusInv
    <3>3. Whole(Wire) = Whole(buf) \cup Whole(pipe)
      BY ONLY <3>2, WholeConcat DEF Wire
    <3> QED BY <3>1, <3>3
  <2>2. \A x \in Whole(Wire) \cup Range(got) : x <= pub.made /\ x \in Nat
    <3>1. \A i \in DOMAIN Wire : Wire[i].f.id <= pub.made /\ Wire[i].f.id \in Nat
      BY WireIsTyped, CellSeq DEF BusInv, InOrder
    <3>2. \A i \in DOMAIN got : got[i] <= pub.made /\ got[i] \in Nat
      <4>1. got \in Seq(Nat \ {0})
        BY DEF BusInv, BusTypes, Publisher
      <4> QED BY <4>1, LenProperties, ElementOfSeq DEF BusInv, InOrder
    <3> QED BY <3>1, <3>2 DEF Whole, Range
  <2>3. pub.made \in Nat
    BY DEF BusInv, BusTypes, Publisher
  <2>4. {x \in OnSocket \cup InParser \cup Range(got) : x > pub.made} = {}
    BY <2>1, <2>2, <2>3
  <2>5. /\ pub'.made = pub.made /\ pub'.joined = pub.made /\ pub'.dropped = 0 /\ queue' = <<>>
        /\ OnSocket' = OnSocket /\ InParser' = InParser /\ got' = got
    BY DEF Handle, OnSocket, InParser, BusInv, BusTypes, Publisher
  <2>6. Cardinality({}) = 0 /\ Len(<<>>) = 0
    BY FS_EmptySet
  <2>7. pub.made - pub.made = 0 + 0 + 0
    BY <2>3
  <2>8. pub'.made - pub'.joined = pub'.dropped + Len(queue')
          + Cardinality({x \in OnSocket' \cup InParser' \cup Range(got') : x > pub'.joined})
    BY <2>4, <2>5, <2>6, <2>7
  <2> QED BY <2>8 DEF DropsAreCounted
<1> QED BY <1>1, <1>4, <1>5, <1>6, <1>7 DEF BusInv

\* A process ends: the socket delivers some of what is in it.
LEMMA DieKeeps == ASSUME BusInv, Die PROVE BusInv'
<1>1. PICK n \in 0 .. Len(pipe) : pipe' = SubSeq(pipe, 1, n)
  BY DEF Die
<1>2. n \in Nat /\ n <= Len(pipe) /\ pipe' \in Seq(Cell) /\ Len(pipe') = n /\ \A i \in 1 .. n : pipe'[i] = pipe[i]
  <2>1. pipe \in Seq(Cell) /\ Len(pipe) \in Nat
    BY WireIsTyped DEF BusInv
  <2>2. 1 \in 1 .. (Len(pipe) + 1) /\ n \in (1 - 1) .. Len(pipe) /\ n - 1 + 1 = n /\ \A i \in 1 .. n : 1 + i - 1 = i
    BY <2>1
  <2>3. SubSeq(pipe, 1, n) \in Seq(Cell) /\ Len(SubSeq(pipe, 1, n)) = n - 1 + 1
        /\ \A i \in 1 .. (n - 1 + 1) : SubSeq(pipe, 1, n)[i] = pipe[1 + i - 1]
    BY <2>1, <2>2, Piece
  <2> QED BY <1>1, <2>1, <2>2, <2>3
<1>3. BusTypes'
  <2>1. Len(pipe') <= PipeSize + 1
    <3>1. Len(pipe) <= PipeSize + 1 /\ Len(pipe) \in Nat /\ PipeSize \in Nat
      BY WireIsTyped, BusAssumption DEF BusInv, BusTypes, Publisher
    <3> QED BY <1>2, <3>1
  <2>2. Len(queue') <= QueueSize /\ queue' \in Seq(Frame)
    <3>1. Len(queue') = 0
      BY DEF Die
    <3> QED BY <3>1, BusAssumption DEF Die
  <2>3. pub' \in Publisher
    <3>1. pub \in Publisher
      BY DEF BusInv, BusTypes, Publisher
    <3>2. pub' = [pub EXCEPT !.up = FALSE]
      BY DEF Die
    <3> QED BY ONLY <3>1, <3>2 DEF Publisher
  <2>4. faults' \in Nat /\ conn' \in {"none", "open", "served", "ended"}
    <3>1. faults \in Nat /\ conn \in {"none", "open", "served", "ended"}
      BY DEF BusInv, BusTypes
    <3>2. faults' = faults + 1 /\ (conn' = conn \/ conn' = "ended")
      BY DEF Die
    <3> QED BY ONLY <3>1, <3>2
  <2>5. UNCHANGED <<buf, kept, source, seqs, got>>
    BY DEF Die
  <2>6. buf \in Seq(Cell) /\ kept \in BOOLEAN /\ source \in [connected : BOOLEAN, restarts : Nat]
        /\ seqs \in [expected : Nat, lost : Nat, duplicate : Nat, started : BOOLEAN]
        /\ got \in Seq(Nat \ {0})
    BY DEF BusInv, BusTypes, Publisher
  <2> QED BY ONLY <1>2, <2>1, <2>2, <2>3, <2>4, <2>5, <2>6 DEF BusTypes, Publisher
<1>4. Remains(Wire', Wire, 0) /\ (Wire' # <<>> => Wire'[1].part # "rest")
  <2>1. PICK b, p, q, v, w : b = buf /\ p = pipe /\ q = pipe' /\ v = b \o p /\ w = b \o q
    OBVIOUS
  <2>2. v = Wire /\ w = Wire'
    BY <2>1 DEF Wire, Die
  <2>3. b \in Seq(Cell) /\ p \in Seq(Cell) /\ q \in Seq(Cell) /\ Line(v)
    BY <1>2, <2>1, <2>2, WireIsTyped DEF BusInv, InOrder
  <2>4. /\ Len(b) \in Nat /\ Len(p) \in Nat /\ Len(q) = n /\ Len(q) \in Nat /\ n <= Len(p)
        /\ \A i \in 1 .. n : q[i] = p[i]
    BY <1>2, <2>1, WireIsTyped DEF BusInv
  <2>5. /\ v \in Seq(Cell) /\ Len(v) = Len(b) + Len(p)
        /\ \A i \in 1 .. Len(b) : v[i] = b[i]
        /\ \A i \in 1 .. Len(p) : v[i + Len(b)] = p[i]
    BY ONLY <2>1, <2>3, WireTypes
  <2>6. /\ w \in Seq(Cell) /\ Len(w) = Len(b) + Len(q) /\ DOMAIN w = 1 .. (Len(b) + Len(q))
        /\ \A i \in 1 .. Len(b) : w[i] = b[i]
        /\ \A i \in 1 .. Len(q) : w[i + Len(b)] = q[i]
    BY ONLY <2>1, <2>3, WireTypes
  <2>7. \A i \in DOMAIN w : w[i] = v[i]
    <3> TAKE i \in DOMAIN w
    <3>1. CASE i <= Len(b)
      BY ONLY <2>4, <2>5, <2>6, <3>1
    <3>2. CASE ~(i <= Len(b))
      <4>1. PICK k : k = i - Len(b)
        OBVIOUS
      <4>0. i \in 1 .. (Len(b) + Len(q))
        BY <2>6
      <4>2. k \in 1 .. Len(q) /\ k \in 1 .. Len(p) /\ k \in 1 .. n /\ i = k + Len(b)
        BY ONLY <2>4, <3>2, <4>0, <4>1
      <4>3. w[k + Len(b)] = q[k] /\ v[k + Len(b)] = p[k] /\ q[k] = p[k]
        BY ONLY <2>4, <2>5, <2>6, <4>2
      <4> QED BY ONLY <4>2, <4>3, Zenon
    <3> QED BY <3>1, <3>2
  <2>8. Remains(w, v, 0)
    BY ONLY <2>4, <2>5, <2>6, <2>7 DEF Remains
  <2>9. w # <<>> => w[1].part # "rest"
    <3>1. v # <<>> => v[1].part # "rest"
      BY ONLY <2>3, <2>5, SameWire
    <3>2. w # <<>> => 1 \in DOMAIN w /\ Len(v) >= 1
      BY ONLY <2>4, <2>5, <2>6
    <3>3. Len(v) >= 1 => v # <<>>
      BY ONLY <2>5
    <3> QED BY ONLY <2>7, <3>1, <3>2, <3>3
  <2> QED BY ONLY <2>2, <2>8, <2>9, Zenon
<1>5. InOrder' /\ Lags' /\ FirstProcess' /\ LossIsCounted'
  <2>1. got' = got /\ seqs' = seqs /\ pub'.made = pub.made /\ pub'.seq = pub.seq /\ pub'.epoch = pub.epoch
        /\ queue' = <<>>
    BY DEF Die, BusInv, BusTypes, Publisher
  <2> QED BY <1>3, <1>4, <2>1, Shrinks
<1>6. Limits'
  <2>1. pub'.joined = pub.joined /\ pub'.dropped = pub.dropped /\ pub'.epoch = pub.epoch /\ pub'.up = FALSE
        /\ pub'.seq = pub.seq /\ pub'.made = pub.made /\ pub.up = TRUE /\ faults' = faults + 1 /\ source' = source
    BY DEF Die, BusInv, BusTypes, Publisher
  <2>2. faults \in Nat /\ MaxFaults \in Nat /\ faults < MaxFaults /\ pub.epoch \in Nat /\ source.restarts \in Nat
    BY BusAssumption DEF Die, BusInv, BusTypes, Publisher
  <2>3. pub.epoch + 0 + source.restarts <= faults
    BY <2>1 DEF BusInv, Limits
  <2>4. pub.epoch + 1 + source.restarts <= faults + 1 /\ faults + 1 <= MaxFaults
    BY <2>2, <2>3
  <2> QED BY <2>1, <2>4 DEF BusInv, Limits
<1>7. Left'
  <2>1. conn' = "none" => pipe' = <<>>
    <3>1. conn' = "none" => pipe = <<>>
      BY DEF BusInv, Left, Die
    <3> QED BY <1>2, <3>1
  <2>2. \A i \in DOMAIN pipe' : pipe'[i].part # "stub"
    <3>1. \A i \in DOMAIN pipe' : i \in DOMAIN pipe /\ pipe'[i] = pipe[i]
      BY <1>2, WireIsTyped, LenProperties DEF BusInv
    <3> QED BY <3>1 DEF BusInv, Left
  <2>3. conn' # "ended" => Ended(Wire')
    <3>1. conn' # "ended" => conn = "none" /\ conn' = "none"
      BY DEF Die
    <3>2. conn' # "ended" => Wire' = Wire /\ Ended(Wire)
      BY <2>1, <3>1 DEF BusInv, Left, Die, Wire
    <3> QED BY <3>2
  <2>4. queue' = <<>> /\ fed' = fed /\ buf' = buf /\ kept' = kept
    BY DEF Die
  <2>5. Ended(Wire)' <=> Ended(Wire')
    BY DEF Ended
  <2> QED BY <2>1, <2>2, <2>3, <2>4, <2>5 DEF BusInv, Left, Whole
<1>8. DropsAreCounted'
  <2>1. conn' # "served"
    BY DEF Die
  <2> QED BY <2>1 DEF DropsAreCounted
<1> QED BY <1>3, <1>5, <1>6, <1>7, <1>8 DEF BusInv

\* The next process starts.
LEMMA StartKeeps == ASSUME BusInv, Start PROVE BusInv'
<1>1. BusTypes'
  <2>1. pub' \in Publisher
    <3>1. pub \in Publisher
      BY DEF BusInv, BusTypes, Publisher
    <3>2. PICK e : e = pub.epoch + 1
      OBVIOUS
    <3>3. e \in Nat
      BY <3>1, <3>2 DEF Publisher
    <3>4. pub' = [pub EXCEPT !.up = TRUE, !.seq = 0, !.epoch = e]
      BY <3>2 DEF Start
    <3> QED BY ONLY <3>1, <3>3, <3>4 DEF Publisher
  <2> QED BY <2>1 DEF BusInv, BusTypes, Publisher, Start
<1>2. Wire' = Wire
  BY DEF Start, Wire
<1>3. InOrder' /\ Lags' /\ FirstProcess' /\ LossIsCounted'
  <2>1. Remains(Wire, Wire, 0) /\ (Wire # <<>> => Wire[1].part # "rest")
    BY SameWire, WireIsTyped DEF BusInv, InOrder
  <2>2. got' = got /\ seqs' = seqs /\ pub'.made = pub.made /\ pub'.seq = 0 /\ pub'.epoch = pub.epoch + 1
        /\ queue' = queue /\ pub'.joined = pub.joined
    BY DEF Start, BusInv, BusTypes, Publisher
  <2> QED BY <1>1, <1>2, <2>1, <2>2, Shrinks
<1>4. Limits'
  <2>1. pub'.joined = pub.joined /\ pub'.dropped = pub.dropped /\ pub'.epoch = pub.epoch + 1 /\ pub'.up = TRUE
        /\ pub'.seq = 0 /\ pub'.made = pub.made /\ pub.up = FALSE /\ faults' = faults /\ source' = source
    BY DEF Start, BusInv, BusTypes, Publisher
  <2>2. pub.epoch \in Nat /\ source.restarts \in Nat /\ pub.made \in Nat
    BY DEF BusInv, BusTypes, Publisher
  <2>3. pub.epoch + 1 + source.restarts <= faults
    BY <2>1 DEF BusInv, Limits
  <2>4. (pub.epoch + 1) + 0 + source.restarts <= faults /\ 0 <= pub.made
    BY <2>2, <2>3
  <2> QED BY <2>1, <2>4 DEF BusInv, Limits
<1>5. Left'
  <2>1. Ended(Wire)' <=> Ended(Wire)
    BY <1>2 DEF Ended
  <2> QED BY <2>1 DEF BusInv, Left, Start, Whole
<1>6. DropsAreCounted'
  BY DEF BusInv, DropsAreCounted, Start, OnSocket, InParser, BusTypes, Publisher
<1> QED BY <1>1, <1>3, <1>4, <1>5, <1>6 DEF BusInv

-----------------------------------------------------------------------------
(* The steps of the subscriber.                                            *)

\* open_unix_connection: nothing is on the socket yet.
LEMMA ConnectKeeps == ASSUME BusInv, Connect PROVE BusInv'
<1>1. pipe' = <<>> /\ pipe = <<>> /\ queue = <<>> /\ queue' = queue
  BY DEF BusInv, Left, Connect
<1>2. Wire' = Wire
  BY <1>1 DEF Connect, Wire
<1>3. BusTypes'
  BY <1>1 DEF BusInv, BusTypes, Connect
<1>4. InOrder' /\ Lags' /\ FirstProcess' /\ LossIsCounted'
  <2>1. Remains(Wire, Wire, 0) /\ (Wire # <<>> => Wire[1].part # "rest")
    BY SameWire, WireIsTyped DEF BusInv, InOrder
  <2>2. got' = got /\ seqs' = seqs /\ pub' = pub /\ queue' = queue
    BY DEF Connect
  <2> QED BY <1>2, <1>3, <2>1, <2>2, Shrinks
<1>5. Limits'
  BY DEF BusInv, Limits, Connect
<1>6. Left'
  <2>1. Ended(Wire)
    BY DEF BusInv, Left, Connect
  <2>2. Ended(Wire)'
    BY <1>2, <2>1 DEF Ended
  <2> QED BY <1>1, <2>2 DEF BusInv, Left, Connect, Whole
<1>7. DropsAreCounted'
  BY DEF DropsAreCounted, Connect
<1> QED BY <1>3, <1>4, <1>5, <1>6, <1>7 DEF BusInv

\* What is read goes from the socket to the parser.
LEMMA ReadKeeps == ASSUME BusInv, Read PROVE BusInv'
<1>1. PICK n \in 1 .. Len(pipe) :
        /\ buf' = buf \o SubSeq(pipe, 1, n) /\ pipe' = SubSeq(pipe, n + 1, Len(pipe))
        /\ fed' = fed \cup {pipe[i].f.id : i \in {j \in 1 .. n : pipe[j].part = "rest"}}
  BY DEF Read
<1>2. PICK a : a = SubSeq(pipe, 1, n)
  OBVIOUS
<1>3. /\ buf \in Seq(Cell) /\ pipe \in Seq(Cell) /\ Len(pipe) \in Nat /\ DOMAIN pipe = 1 .. Len(pipe)
      /\ Len(buf) \in Nat /\ Wire \in Seq(Cell)
  BY WireIsTyped DEF BusInv
<1>4. /\ buf' \in Seq(Cell) /\ pipe' \in Seq(Cell) /\ Len(pipe') = Len(pipe) - n /\ Wire' = Wire
      /\ buf' = buf \o a /\ a \in Seq(Cell) /\ Len(a) = n /\ \A i \in 1 .. n : a[i] = pipe[i]
      /\ \A i \in 1 .. (Len(pipe) - n) : pipe'[i] = pipe[n + i]
  <2>1. /\ buf \o a \in Seq(Cell) /\ SubSeq(pipe, n + 1, Len(pipe)) \in Seq(Cell)
        /\ Len(SubSeq(pipe, n + 1, Len(pipe))) = Len(pipe) - n
        /\ (buf \o a) \o SubSeq(pipe, n + 1, Len(pipe)) = buf \o pipe
        /\ a \in Seq(Cell) /\ Len(a) = n
        /\ \A i \in 1 .. n : a[i] = pipe[i]
        /\ \A i \in 1 .. (Len(pipe) - n) : SubSeq(pipe, n + 1, Len(pipe))[i] = pipe[n + i]
    <3>1. /\ buf \o SubSeq(pipe, 1, n) \in Seq(Cell) /\ SubSeq(pipe, n + 1, Len(pipe)) \in Seq(Cell)
          /\ Len(SubSeq(pipe, n + 1, Len(pipe))) = Len(pipe) - n
          /\ (buf \o SubSeq(pipe, 1, n)) \o SubSeq(pipe, n + 1, Len(pipe)) = buf \o pipe
          /\ SubSeq(pipe, 1, n) \in Seq(Cell) /\ Len(SubSeq(pipe, 1, n)) = n
          /\ \A i \in 1 .. n : SubSeq(pipe, 1, n)[i] = pipe[i]
          /\ \A i \in 1 .. (Len(pipe) - n) : SubSeq(pipe, n + 1, Len(pipe))[i] = pipe[n + i]
      <4>1. buf \in Seq(Cell) /\ pipe \in Seq(Cell) /\ n \in 1 .. Len(pipe)
        BY <1>3
      <4>2. /\ buf \o SubSeq(pipe, 1, n) \in Seq(Cell) /\ SubSeq(pipe, n + 1, Len(pipe)) \in Seq(Cell)
            /\ SubSeq(pipe, 1, n) \in Seq(Cell)
        BY ONLY <4>1, ReadMoves
      <4>3. /\ Len(SubSeq(pipe, n + 1, Len(pipe))) = Len(pipe) - n /\ Len(SubSeq(pipe, 1, n)) = n
            /\ \A i \in 1 .. n : SubSeq(pipe, 1, n)[i] = pipe[i]
            /\ \A i \in 1 .. (Len(pipe) - n) : SubSeq(pipe, n + 1, Len(pipe))[i] = pipe[n + i]
        BY ONLY <4>1, ReadMoves
      <4>4. (buf \o SubSeq(pipe, 1, n)) \o SubSeq(pipe, n + 1, Len(pipe)) = buf \o pipe
        BY ONLY <4>1, ReadMoves
      <4> QED BY ONLY <4>2, <4>3, <4>4, Zenon
    <3> QED BY ONLY <1>2, <3>1
  <2>2. buf' = buf \o a /\ pipe' = SubSeq(pipe, n + 1, Len(pipe))
    BY ONLY <1>1, <1>2
  <2>3. Wire' = buf' \o pipe' /\ Wire = buf \o pipe
    BY ONLY Zenon DEF Wire
  <2> QED BY ONLY <2>1, <2>2, <2>3
<1>5. BusTypes'
  <2>1. Len(pipe') <= PipeSize + 1
    <3>1. Len(pipe) <= PipeSize + 1 /\ PipeSize \in Nat /\ Len(pipe') \in Nat
      BY <1>4, LenProperties, BusAssumption DEF BusInv, BusTypes
    <3> QED BY <1>3, <1>4, <3>1
  <2>2. UNCHANGED <<pub, conn, queue, kept, source, seqs, got, faults>>
    BY DEF Read
  <2>3. BusTypes
    BY DEF BusInv
  <2> QED BY ONLY <1>4, <2>1, <2>2, <2>3 DEF BusTypes
<1>6. InOrder' /\ Lags' /\ FirstProcess' /\ LossIsCounted'
  <2>1. Remains(Wire, Wire, 0) /\ (Wire # <<>> => Wire[1].part # "rest")
    BY SameWire, WireIsTyped DEF BusInv, InOrder
  <2>2. got' = got /\ seqs' = seqs /\ pub' = pub /\ queue' = queue
    BY DEF Read
  <2> QED BY ONLY BusInv, <1>4, <1>5, <2>1, <2>2, Shrinks
<1>7. Limits'
  BY DEF BusInv, Limits, Read
<1>8. Left'
  <2>1. Whole(buf)' = Whole(buf) \cup Whole(a)
    <3>1. Whole(buf)' = Whole(buf')
      BY DEF Whole
    <3> QED BY <1>3, <1>4, <3>1, WholeConcat
  <2>2. fed' \subseteq Whole(buf)'
    <3>1. DOMAIN a = 1 .. n
      BY <1>4, LenProperties
    <3>2. {pipe[i].f.id : i \in {j \in 1 .. n : pipe[j].part = "rest"}} \subseteq Whole(a)
      BY <1>4, <3>1 DEF Whole
    <3>3. fed \subseteq Whole(buf)
      BY DEF BusInv, Left
    <3> QED BY <1>1, <2>1, <3>2, <3>3
  <2>3. \A i \in DOMAIN pipe : pipe[i].part # "stub"
    BY DEF BusInv, Left
  <2>4. \A i \in DOMAIN pipe' : pipe'[i].part # "stub"
    <3>2. DOMAIN pipe' = 1 .. (Len(pipe) - n)
      BY <1>4, LenProperties
    <3>3. \A i \in 1 .. (Len(pipe) - n) : n + i \in DOMAIN pipe
      BY <1>3
    <3> QED BY <1>4, <2>3, <3>2, <3>3
  <2>5. kept' = kept /\ (~kept => \A i \in DOMAIN buf' : buf'[i].part # "stub")
    <3>1. ASSUME ~kept, NEW i \in DOMAIN buf' PROVE buf'[i].part # "stub"
      <4>1. /\ DOMAIN (buf \o a) = 1 .. (Len(buf) + Len(a))
            /\ \A k \in 1 .. Len(buf) : k \in DOMAIN (buf \o a) /\ (buf \o a)[k] = buf[k]
            /\ \A k \in 1 .. Len(a) : k + Len(buf) \in DOMAIN (buf \o a) /\ (buf \o a)[k + Len(buf)] = a[k]
            /\ DOMAIN buf = 1 .. Len(buf)
        BY ONLY <1>3, <1>4, WireTypes
      <4>2. CASE i <= Len(buf)
        <5>1. i \in 1 .. Len(buf)
          BY <1>3, <1>4, <4>1, <4>2
        <5>2. buf'[i] = buf[i]
          BY <1>4, <4>1, <5>1
        <5> QED BY <3>1, <4>1, <5>1, <5>2 DEF BusInv, Left
      <4>3. CASE ~(i <= Len(buf))
        <5>1. PICK k : k = i - Len(buf)
          OBVIOUS
        <5>0. i \in 1 .. (Len(buf) + Len(a)) /\ Len(buf) \in Nat /\ Len(a) = n /\ n \in 1 .. Len(pipe) /\ Len(pipe) \in Nat
          BY <1>3, <1>4, <4>1
        <5>2. k \in 1 .. n /\ k \in 1 .. Len(a) /\ i = k + Len(buf) /\ k \in 1 .. Len(pipe)
          BY ONLY <4>3, <5>0, <5>1
        <5>3. buf'[i] = pipe[k]
          BY ONLY <1>4, <4>1, <5>2
        <5> QED BY <1>3, <2>3, <5>2, <5>3
      <4> QED BY <4>2, <4>3
    <3> QED BY <3>1 DEF Read
  <2>6. Ended(Wire)' <=> Ended(Wire)
    BY <1>4 DEF Ended
  <2>7. conn' = conn /\ queue' = queue /\ conn # "none"
    BY DEF Read
  <2> QED BY <2>2, <2>4, <2>5, <2>6, <2>7 DEF BusInv, Left
<1>9. DropsAreCounted'
  <2>1. conn' = conn /\ pub' = pub /\ queue' = queue /\ got' = got
    BY DEF Read
  <2>2. Whole(Wire)' = Whole(Wire)
    BY <1>4 DEF Whole
  <2> QED BY <1>3, <1>4, <2>1, <2>2, DropsKept DEF BusInv
<1> QED BY <1>5, <1>6, <1>7, <1>8, <1>9 DEF BusInv

\* The stub that half a frame becomes.
LEMMA StubbedIs ==
    ASSUME NEW s \in Seq(Cell), s # <<>>, s[Len(s)].part # "rest", NEW n \in 1 .. Span
    PROVE  /\ Stubbed(s, n) \in Seq(Cell) /\ Len(Stubbed(s, n)) = Len(s)
           /\ \A i \in DOMAIN s : i < Len(s) => Stubbed(s, n)[i] = s[i]
           /\ Stubbed(s, n)[Len(s)].part = "stub" /\ Stubbed(s, n)[Len(s)].f = s[Len(s)].f
<1>1. Len(s) \in Nat /\ Len(s) \in DOMAIN s /\ DOMAIN s = 1 .. Len(s) /\ \A i \in DOMAIN s : s[i] \in Cell
  BY CellSeq, EmptySeq, LenProperties
<1>2. PICK c : c = [s[Len(s)] EXCEPT !.part = "stub", !.need = n]
  OBVIOUS
<1>3. c \in Cell /\ c.part = "stub" /\ c.f = s[Len(s)].f
  <2>1. n \in 0 .. Span
    BY BusAssumption
  <2> QED BY <1>1, <1>2, <2>1 DEF Cell
<1>4. Stubbed(s, n) = [s EXCEPT ![Len(s)] = c]
  BY <1>2 DEF Stubbed
<1> QED BY <1>1, <1>3, <1>4, ExceptSeq

\* t is s without its first d cells.
Dropped(t, s, d) == d \in Nat /\ Len(t) + d = Len(s) /\ \A i \in DOMAIN t : t[i] = s[i + d]

\* What is dropped in front changes nothing of the rest.
LEMMA DroppedKeeps ==
    ASSUME NEW s \in Seq(Cell), NEW t \in Seq(Cell), NEW d, Dropped(t, s, d)
    PROVE  /\ Remains(t, s, d) /\ (Ended(s) => Ended(t))
           /\ Whole(s) = Whole(t) \cup {s[i].f.id : i \in {j \in 1 .. d : s[j].part = "rest"}}
<1>1. /\ Len(s) \in Nat /\ DOMAIN s = 1 .. Len(s) /\ Len(t) \in Nat /\ DOMAIN t = 1 .. Len(t)
      /\ d \in Nat /\ Len(t) + d = Len(s) /\ \A i \in DOMAIN t : t[i] = s[i + d]
  BY LenProperties DEF Dropped
<1>2. Remains(t, s, d)
  BY <1>1 DEF Remains
<1>3. Ended(s) => Ended(t)
  <2>1. ASSUME t # <<>> PROVE s # <<>> /\ t[Len(t)] = s[Len(s)]
    <3>1. Len(t) \in DOMAIN t
      BY <1>1, <2>1, EmptySeq
    <3> QED BY <1>1, <3>1
  <2> QED BY <2>1 DEF Ended
<1>4. \A i \in DOMAIN s : i \in 1 .. d \/ (i - d \in DOMAIN t /\ t[i - d] = s[i])
  <2> TAKE i \in DOMAIN s
  <2> PICK k : k = i - d
    OBVIOUS
  <2>1. i \in 1 .. d \/ (k \in DOMAIN t /\ k + d = i)
    BY <1>1
  <2> QED BY <1>1, <2>1
<1>5. \A i \in DOMAIN t : i + d \in DOMAIN s /\ t[i] = s[i + d]
  BY <1>1
<1>6. 1 .. d \subseteq DOMAIN s
  BY <1>1
<1> DEFINE F == {s[i].f.id : i \in {j \in 1 .. d : s[j].part = "rest"}}
<1>7. Whole(s) \subseteq Whole(t) \cup F
  BY ONLY <1>4 DEF Whole
<1>8. Whole(t) \subseteq Whole(s)
  BY ONLY <1>5 DEF Whole
<1>9. F \subseteq Whole(s)
  BY ONLY <1>6 DEF Whole
<1> QED BY <1>2, <1>3, <1>7, <1>8, <1>9

\* What the parser has after it took d cells, and all that is on its way then.
LEMMA ParserCuts ==
    ASSUME NEW s \in Seq(Cell), NEW p \in Seq(Cell), NEW d \in 0 .. Len(s)
    PROVE  /\ SubSeq(s, d + 1, Len(s)) \in Seq(Cell) /\ Dropped(SubSeq(s, d + 1, Len(s)), s, d)
           /\ Dropped(SubSeq(s, d + 1, Len(s)) \o p, s \o p, d)
<1> DEFINE t == SubSeq(s, d + 1, Len(s))
<1>1. Len(s) \in Nat /\ d \in Nat /\ Len(p) \in Nat
  BY LenProperties
<1>2. t \in Seq(Cell) /\ Len(t) = Len(s) - d /\ \A i \in 1 .. (Len(s) - d) : t[i] = s[i + d]
  <2>1. d + 1 \in 1 .. (Len(s) + 1) /\ Len(s) \in (d + 1 - 1) .. Len(s)
        /\ Len(s) - (d + 1) + 1 = Len(s) - d
        /\ \A i \in 1 .. (Len(s) - d) : (d + 1) + i - 1 = i + d
    BY <1>1
  <2>2. t \in Seq(Cell) /\ Len(t) = Len(s) - (d + 1) + 1
        /\ \A i \in 1 .. (Len(s) - (d + 1) + 1) : t[i] = s[(d + 1) + i - 1]
    <3>1. PICK m, n : m = d + 1 /\ n = Len(s)
      OBVIOUS
    <3>2. m \in 1 .. (Len(s) + 1) /\ n \in (m - 1) .. Len(s)
      BY <2>1, <3>1
    <3>3. SubSeq(s, m, n) \in Seq(Cell) /\ Len(SubSeq(s, m, n)) = n - m + 1
          /\ \A i \in 1 .. (n - m + 1) : SubSeq(s, m, n)[i] = s[m + i - 1]
      BY <3>2, Piece
    <3> QED BY ONLY <3>1, <3>3, Zenon
  <2> QED BY <2>1, <2>2
<1> HIDE DEF t
<1>3. DOMAIN t = 1 .. Len(t)
  BY <1>2, LenProperties
<1>4. Dropped(t, s, d)
  BY <1>1, <1>2, <1>3 DEF Dropped
<1>5. PICK v, w : v = s \o p /\ w = t \o p
  OBVIOUS
<1>6. /\ Len(v) = Len(s) + Len(p) /\ \A i \in 1 .. Len(s) : v[i] = s[i]
      /\ \A i \in 1 .. Len(p) : v[i + Len(s)] = p[i]
  BY <1>5, WireTypes
<1>7. /\ Len(w) = Len(t) + Len(p) /\ DOMAIN w = 1 .. (Len(t) + Len(p))
      /\ \A i \in 1 .. Len(t) : w[i] = t[i]
      /\ \A i \in 1 .. Len(p) : w[i + Len(t)] = p[i]
  BY <1>2, <1>5, WireTypes
<1>8. ASSUME NEW i \in 1 .. (Len(t) + Len(p)) PROVE w[i] = v[i + d]
  <2>0. PICK l, m, n : l = Len(t) /\ m = Len(s) /\ n = Len(p)
    OBVIOUS
  <2>9. l \in Nat /\ m \in Nat /\ n \in Nat /\ d \in Nat /\ l = m - d /\ i \in 1 .. (l + n)
    BY <1>1, <1>2, <2>0, LenProperties
  <2>1. CASE i <= l
    <3>1. i \in 1 .. l /\ i + d \in 1 .. m
      BY ONLY <2>1, <2>9
    <3>2. w[i] = t[i] /\ t[i] = s[i + d]
      BY <1>2, <1>7, <2>0, <2>9, <3>1
    <3>3. v[i + d] = s[i + d]
      BY <1>6, <2>0, <3>1
    <3> QED BY <3>2, <3>3
  <2>2. CASE ~(i <= l)
    <3>1. PICK k : k = i - l
      OBVIOUS
    <3>2. k \in 1 .. n /\ k + l = i /\ k + m = i + d
      BY ONLY <2>2, <2>9, <3>1
    <3>3. w[k + l] = p[k] /\ v[k + m] = p[k]
      BY <1>6, <1>7, <2>0, <3>2
    <3> QED BY ONLY <3>2, <3>3, Zenon
  <2> QED BY <2>1, <2>2
<1>9. Dropped(w, v, d)
  <2>1. Len(w) + d = Len(v)
    BY <1>1, <1>2, <1>6, <1>7
  <2> QED BY <1>1, <1>7, <1>8, <2>1 DEF Dropped
<1> QED BY ONLY <1>2, <1>4, <1>5, <1>9, Zenon DEF t

\* _resync: the stub in front is dropped.
LEMMA ResyncKeeps == ASSUME BusInv, Resync PROVE BusInv'
<1>1. /\ buf \in Seq(Cell) /\ pipe \in Seq(Cell) /\ Wire \in Seq(Cell) /\ Len(buf) \in Nat
      /\ DOMAIN buf = 1 .. Len(buf)
  BY WireIsTyped DEF BusInv
<1>2. buf # <<>> /\ buf[1].part = "stub" /\ buf' = Tail(buf) /\ pipe' = pipe
  BY DEF Resync, Garbled
<1>3. buf' = SubSeq(buf, 1 + 1, Len(buf)) /\ 1 \in 0 .. Len(buf)
  <2>1. Tail(buf) = SubSeq(buf, 2, Len(buf))
    BY <1>1, <1>2, TailIsSubSeq
  <2>2. 1 + 1 = 2 /\ 1 \in 0 .. Len(buf)
    BY <1>1, <1>2, EmptySeq
  <2> QED BY <1>2, <2>1, <2>2
<1>4. buf' \in Seq(Cell) /\ Dropped(buf', buf, 1) /\ Dropped(Wire', Wire, 1)
  <2>1. SubSeq(buf, 1 + 1, Len(buf)) \in Seq(Cell) /\ Dropped(SubSeq(buf, 1 + 1, Len(buf)), buf, 1)
        /\ Dropped(SubSeq(buf, 1 + 1, Len(buf)) \o pipe, buf \o pipe, 1)
    BY ONLY <1>1, <1>3, ParserCuts
  <2>2. Wire = buf \o pipe /\ Wire' = buf' \o pipe
    BY <1>2 DEF Wire
  <2> QED BY ONLY <1>3, <2>1, <2>2, Zenon
<1>5. Wire' \in Seq(Cell)
  <2>1. buf' \o pipe' \in Seq(Cell)
    BY ONLY <1>1, <1>2, <1>4, WireTypes
  <2> QED BY ONLY <2>1, Zenon DEF Wire
<1>6. Wire[1] = buf[1] /\ 1 \in DOMAIN Wire /\ 1 \in DOMAIN buf
  <2>1. \A i \in 1 .. Len(buf) : i \in DOMAIN (buf \o pipe) /\ (buf \o pipe)[i] = buf[i]
    BY ONLY <1>1, WireTypes
  <2>2. 1 \in 1 .. Len(buf)
    BY <1>1, <1>3
  <2> QED BY <1>1, <2>1, <2>2 DEF Wire
<1>7. {buf[i].f.id : i \in {j \in 1 .. 1 : buf[j].part = "rest"}} = {}
      /\ {Wire[i].f.id : i \in {j \in 1 .. 1 : Wire[j].part = "rest"}} = {}
  <2>1. \A j \in 1 .. 1 : j = 1
    OBVIOUS
  <2> QED BY <1>2, <1>6, <2>1
<1>8. Remains(Wire', Wire, 1) /\ (Ended(Wire) => Ended(Wire')) /\ Whole(Wire) = Whole(Wire')
      /\ Whole(buf) = Whole(buf')
  <2>1. /\ Remains(Wire', Wire, 1) /\ (Ended(Wire) => Ended(Wire'))
        /\ Whole(Wire) = Whole(Wire') \cup {Wire[i].f.id : i \in {j \in 1 .. 1 : Wire[j].part = "rest"}}
    BY ONLY <1>1, <1>4, <1>5, DroppedKeeps
  <2>2. Whole(buf) = Whole(buf') \cup {buf[i].f.id : i \in {j \in 1 .. 1 : buf[j].part = "rest"}}
    BY ONLY <1>1, <1>4, DroppedKeeps
  <2>3. \A A, B, C : A = B \cup C /\ C = {} => A = B
    OBVIOUS
  <2> QED BY ONLY <1>7, <2>1, <2>2, <2>3
<1>9. Wire' # <<>> => Wire'[1].part # "rest"
  <2>1. Line(Wire)
    BY DEF BusInv, InOrder
  <2>2. ASSUME Wire' # <<>> PROVE Wire'[1].part # "rest"
    <3>1. 1 \in DOMAIN Wire' /\ Len(Wire) \in Nat /\ Len(Wire') \in Nat /\ Len(Wire') >= 1 /\ DOMAIN Wire = 1 .. Len(Wire)
      BY ONLY <1>1, <1>5, <2>2, LenProperties, EmptySeq
    <3>2. Wire'[1] = Wire[1 + 1] /\ Len(Wire') + 1 = Len(Wire)
      BY ONLY <1>4, <3>1 DEF Dropped
    <3>3. 1 + 1 = 2 /\ 2 \in DOMAIN Wire /\ 2 - 1 = 1
      BY ONLY <3>1, <3>2
    <3>4. Wire[2].part = "rest" => Wire[2 - 1].part = "head"
      BY ONLY <2>1, <3>3 DEF Line
    <3> QED BY <1>2, <1>6, <3>2, <3>3, <3>4
  <2> QED BY <2>2
<1>10. UNCHANGED <<pub, conn, queue, kept, source, seqs, got, fed, faults>>
  BY DEF Resync
<1>11. BusTypes'
  <2>1. BusTypes
    BY DEF BusInv
  <2> QED BY ONLY <1>2, <1>4, <1>10, <2>1 DEF BusTypes
<1>12. InOrder' /\ Lags' /\ FirstProcess' /\ LossIsCounted'
  BY ONLY BusInv, <1>8, <1>9, <1>10, <1>11, Shrinks
<1>13. Limits'
  BY <1>10 DEF BusInv, Limits
<1>14. Left'
  <2>1. Ended(Wire)' <=> Ended(Wire')
    BY DEF Ended
  <2>2. Whole(buf)' = Whole(buf)
    BY <1>8 DEF Whole
  <2>3. (\A i \in DOMAIN buf : buf[i].part # "stub") => (\A i \in DOMAIN buf' : buf'[i].part # "stub")
    <3>1. \A i \in DOMAIN buf' : i + 1 \in DOMAIN buf /\ buf'[i] = buf[i + 1]
      <4>1. DOMAIN buf' = 1 .. Len(buf') /\ Len(buf') \in Nat
        BY ONLY <1>4, LenProperties
      <4> QED BY ONLY <1>1, <1>4, <4>1 DEF Dropped
    <3> QED BY <3>1
  <2> QED BY <1>2, <1>8, <1>10, <2>1, <2>2, <2>3 DEF BusInv, Left
<1>15. DropsAreCounted'
  <2>1. Whole(Wire)' = Whole(Wire)
    BY <1>8 DEF Whole
  <2> QED BY <1>1, <1>2, <1>4, <1>10, <2>1, DropsKept DEF BusInv
<1> QED BY <1>11, <1>12, <1>13, <1>14, <1>15 DEF BusInv

\* Nothing remains.
LEMMA NothingRemains ==
    ASSUME NEW s \in Seq(Cell)
    PROVE  Remains(<<>>, s, 0) /\ Whole(<<>>) = {} /\ Ended(<<>>) /\ <<>> \in Seq(Cell) /\ <<>> \o <<>> = <<>>
<1>1. Len(<<>>) = 0 /\ Len(s) \in Nat /\ DOMAIN <<>> = {} /\ 0 + 0 <= Len(s)
  BY LenProperties
<1>2. Remains(<<>>, s, 0)
  BY <1>1 DEF Remains
<1>3. Whole(<<>>) = {} /\ Ended(<<>>)
  BY <1>1 DEF Whole, Ended
<1>4. <<>> \in Seq(Cell)
  OBVIOUS
<1> QED BY <1>2, <1>3, <1>4, ConcatEmptySeq

\* on_frame raises: connection and parser are gone.
LEMMA ConsumerDiesKeeps == ASSUME BusInv, ConsumerDies PROVE BusInv'
<1>1. buf' = <<>> /\ pipe' = <<>> /\ queue' = <<>> /\ conn' = "none" /\ fed' = {}
      /\ UNCHANGED <<pub, kept, seqs, got>>
      /\ faults < MaxFaults /\ faults' = faults + 1 
      /\ source' = [source EXCEPT !.connected = FALSE, !.restarts = @ + 1]
  BY DEF ConsumerDies
<1>2. Wire' = <<>> /\ Wire \in Seq(Cell) /\ <<>> \in Seq(Cell)
  BY <1>1, WireIsTyped, NothingRemains DEF Wire, BusInv
<1>3. BusTypes'
  <2>1. BusTypes
    BY DEF BusInv
  <2>2. PICK e : e = source.restarts + 1
    OBVIOUS
  <2>3. e \in Nat /\ source \in [connected : BOOLEAN, restarts : Nat] /\ faults + 1 \in Nat
    BY ONLY <2>1, <2>2 DEF BusTypes
  <2>4. source' = [source EXCEPT !.connected = FALSE, !.restarts = e]
    BY <1>1, <2>2
  <2>5. source' \in [connected : BOOLEAN, restarts : Nat]
    BY ONLY <2>3, <2>4
  <2>6. Len(queue') <= QueueSize /\ queue' \in Seq(Frame) /\ Len(pipe') <= PipeSize + 1
    <3>1. Len(queue') = 0 /\ Len(pipe') = 0
      BY <1>1
    <3> QED BY <1>1, <3>1, BusAssumption
  <2> QED BY ONLY <1>1, <1>2, <2>1, <2>3, <2>5, <2>6 DEF BusTypes
<1>4. InOrder' /\ Lags' /\ FirstProcess' /\ LossIsCounted'
  <2>1. Remains(Wire', Wire, 0)
    BY <1>2, NothingRemains
  <2> QED BY ONLY BusInv, <1>1, <1>2, <1>3, <2>1, Shrinks
<1>5. Limits'
  <2>1. source'.restarts = source.restarts + 1
    BY <1>1 DEF BusInv, BusTypes
  <2>2. /\ faults \in Nat /\ MaxFaults \in Nat /\ pub.epoch \in Nat /\ source.restarts \in Nat
        /\ pub.up \in BOOLEAN
    BY BusAssumption DEF BusInv, BusTypes, Publisher
  <2>3. PICK z : z = IF pub.up THEN 0 ELSE 1
    OBVIOUS
  <2>4. pub.epoch + z + source.restarts <= faults /\ z \in Nat
    BY <2>2, <2>3 DEF BusInv, Limits
  <2>5. pub.epoch + z + (source.restarts + 1) <= faults + 1 /\ faults + 1 <= MaxFaults
    BY ONLY <1>1, <2>2, <2>4
  <2> QED BY <1>1, <2>1, <2>3, <2>5 DEF BusInv, Limits
<1>6. Left'
  <2>1. Ended(Wire)' /\ DOMAIN buf' = {} /\ DOMAIN pipe' = {}
    BY <1>1, <1>2 DEF Ended
  <2> QED BY <1>1, <2>1 DEF Left
<1>7. DropsAreCounted'
  BY <1>1 DEF DropsAreCounted
<1> QED BY <1>3, <1>4, <1>5, <1>6, <1>7 DEF BusInv

\* A parser that has nothing to give and no stub has no whole frame.
LEMMA NoWholeFrame ==
    ASSUME buf \in Seq(Cell), Line(buf), ~Complete, \A i \in DOMAIN buf : buf[i].part # "stub"
    PROVE  Whole(buf) = {}
<1>1. Len(buf) \in Nat /\ DOMAIN buf = 1 .. Len(buf) /\ \A i \in DOMAIN buf : buf[i].part \in {"head", "rest", "stub"}
  BY CellSeq
<1>2. Len(buf) >= 1 => buf[1].part = "head"
  <2>1. \A i \in DOMAIN buf : buf[i].part = "rest" => i > 1
    BY DEF Line
  <2>2. Len(buf) >= 1 => 1 \in DOMAIN buf
    BY <1>1
  <2> QED BY <1>1, <2>1, <2>2
<1>3. Len(buf) >= 2 => buf[2].part = "rest"
  <2>1. \A i \in DOMAIN buf : i < Len(buf) /\ buf[i].part = "head" => buf[i + 1].part = "rest"
    BY DEF Line
  <2>2. Len(buf) >= 2 => 1 \in DOMAIN buf /\ 1 < Len(buf) /\ 1 + 1 = 2
    BY <1>1
  <2> QED BY <1>1, <1>2, <2>1, <2>2
<1>4. Len(buf) < 2
  BY <1>1, <1>2, <1>3 DEF Complete
<1>5. \A i \in DOMAIN buf : i = 1
  BY <1>1, <1>4
<1> QED BY <1>1, <1>2, <1>5 DEF Whole

\* A read of nothing: the connection is gone, and what a kept parser keeps remains.
LEMMA EofKeeps == ASSUME BusInv, Eof, ~Parsing PROVE BusInv'
<1>1. /\ conn = "ended" /\ conn' = "none" /\ pipe = <<>> /\ pipe' = <<>>
      /\ UNCHANGED <<pub, queue, kept, source, seqs, got, fed, faults>>
  BY DEF Eof
<1>2. buf \in Seq(Cell) /\ Wire = buf /\ Line(buf) /\ queue = <<>> /\ fed \subseteq Whole(buf)
      /\ Len(buf) \in Nat /\ DOMAIN buf = 1 .. Len(buf)
  <2>1. buf \in Seq(Cell) /\ Len(buf) \in Nat /\ DOMAIN buf = 1 .. Len(buf)
    BY WireIsTyped DEF BusInv
  <2>2. Wire = buf
    BY <1>1, <2>1, ConcatEmptySeq DEF Wire
  <2>3. Line(Wire)
    BY DEF BusInv, InOrder
  <2>4. queue = <<>> /\ fed \subseteq Whole(buf)
    BY <1>1 DEF BusInv, Left
  <2> QED BY <2>1, <2>2, <2>3, <2>4
<1>3. /\ buf' \in Seq(Cell) /\ Remains(buf', buf, 0) /\ (buf' # <<>> => buf'[1].part # "rest")
      /\ Ended(buf') /\ fed \subseteq Whole(buf') /\ (~kept => buf' = <<>>)
  <2>0. /\ buf # <<>> => /\ Len(buf) \in DOMAIN buf /\ 1 \in DOMAIN buf
                         /\ buf[1].part # "rest"
    BY <1>2, SameWire, EmptySeq
  <2>1. CASE ~kept \/ buf = <<>>
    <3>1. buf' = <<>>
      BY <2>1 DEF Eof
    <3>2. Whole(buf) = {}
      <4>1. buf = <<>> => Whole(buf) = {}
        BY NothingRemains, <1>2
      <4>2. ~kept => Whole(buf) = {}
        BY <1>2, NoWholeFrame DEF BusInv, Left, Parsing
      <4> QED BY <2>1, <4>1, <4>2
    <3>3. fed \subseteq Whole(<<>>)
      BY <1>2, <3>2
    <3> QED BY <1>2, <3>1, <3>3, NothingRemains
  <2>2. CASE kept /\ buf # <<>> /\ buf[Len(buf)].part = "rest"
    <3>1. buf' = buf
      BY <2>2 DEF Eof
    <3> QED BY <1>2, <2>0, <2>2, <3>1, SameWire DEF Ended
  <2>3. CASE kept /\ buf # <<>> /\ buf[Len(buf)].part # "rest"
    <3>1. PICK n \in 1 .. Span : buf' = Stubbed(buf, n)
      BY <2>3 DEF Eof
    <3>2. PICK t, l : t = Stubbed(buf, n) /\ l = Len(buf)
      OBVIOUS
    <3>3. /\ t \in Seq(Cell) /\ Len(t) = l /\ \A i \in DOMAIN buf : i < l => t[i] = buf[i]
          /\ t[l].part = "stub" /\ t[l].f = buf[l].f
      BY <1>2, <2>3, <3>2, StubbedIs
    <3>4. DOMAIN t = 1 .. l /\ l \in Nat /\ DOMAIN buf = 1 .. l /\ l \in DOMAIN buf /\ 1 \in DOMAIN buf
          /\ buf[l].part # "rest" /\ buf[1].part # "rest"
      BY <1>2, <2>0, <2>3, <3>2, <3>3, LenProperties
    <3>5. \A i \in 1 .. l : i < l \/ i = l
      BY <3>4
    <3>6. Remains(t, buf, 0)
      <4>1. 0 \in Nat /\ Len(t) + 0 <= Len(buf)
        BY <3>2, <3>3, <3>4
      <4>2. \A i \in DOMAIN t : i + 0 = i
        BY <3>4
      <4>3. \A i \in DOMAIN t : t[i].f = buf[i].f
        BY <3>3, <3>4, <3>5
      <4>4. \A i \in DOMAIN t : \/ t[i].part = buf[i].part
                                \/ i = Len(t) /\ t[i].part = "stub" /\ buf[i].part # "rest"
        BY <3>3, <3>4, <3>5
      <4> QED BY ONLY <4>1, <4>2, <4>3, <4>4 DEF Remains
    <3>7. t # <<>> /\ t[1].part # "rest"
      <4>1. t # <<>>
        BY <3>3, <3>4
      <4> QED BY <3>3, <3>4, <3>5, <4>1
    <3>8. Ended(t)
      BY <3>3 DEF Ended
    <3>9. Whole(buf) \subseteq Whole(t)
      <4>1. \A i \in DOMAIN buf : buf[i].part = "rest" => i \in DOMAIN t /\ t[i] = buf[i]
        BY <3>3, <3>4, <3>5
      <4> QED BY ONLY <4>1 DEF Whole
    <3> QED BY <1>2, <2>3, <3>1, <3>2, <3>3, <3>6, <3>7, <3>8, <3>9
  <2>4. kept \in BOOLEAN
    BY DEF BusInv, BusTypes
  <2> QED BY <2>1, <2>2, <2>3, <2>4
<1>4. Wire' = buf'
  BY <1>1, <1>3, ConcatEmptySeq DEF Wire
<1>5. BusTypes'
  <2>1. BusTypes
    BY DEF BusInv
  <2> QED BY ONLY <1>1, <1>3, <2>1 DEF BusTypes
<1>6. InOrder' /\ Lags' /\ FirstProcess' /\ LossIsCounted'
  <2>1. Remains(Wire', Wire, 0) /\ (Wire' # <<>> => Wire'[1].part # "rest")
    BY ONLY <1>2, <1>3, <1>4
  <2> QED BY ONLY BusInv, <1>1, <1>5, <2>1, Shrinks
<1>7. Limits'
  BY <1>1 DEF BusInv, Limits
<1>8. Left'
  <2>1. Ended(Wire)' <=> Ended(Wire')
    BY DEF Ended
  <2>2. Whole(buf)' = Whole(buf')
    BY DEF Whole
  <2>3. DOMAIN pipe' = {} /\ (~kept => DOMAIN buf' = {})
    BY <1>1, <1>3
  <2> QED BY <1>1, <1>2, <1>3, <1>4, <2>1, <2>2, <2>3 DEF Left
<1>9. DropsAreCounted'
  BY <1>1 DEF DropsAreCounted
<1> QED BY <1>5, <1>6, <1>7, <1>8, <1>9 DEF BusInv

\* What is delivered or on its way is known by numbers of frames that were made.
Past == OnSocket \cup InParser \cup Range(got)

\* The numbers of those frames are finitely many, up to the last one made.
LEMMA PastTypes ==
    ASSUME BusTypes, InOrder
    PROVE  /\ Past = Whole(Wire) \cup Range(got) /\ IsFiniteSet(Past) /\ Past \subseteq 1 .. pub.made
           /\ \A j : {i \in Past : i > j} \subseteq Past /\ IsFiniteSet({i \in Past : i > j})
                     /\ Cardinality({i \in Past : i > j}) \in Nat
<1>1. Past = Whole(Wire) \cup Range(got)
  <2>1. OnSocket = Whole(pipe) /\ InParser = Whole(buf)
    BY DEF OnSocket, InParser, Whole
  <2>2. buf \in Seq(Cell) /\ pipe \in Seq(Cell)
    BY WireIsTyped
  <2>3. Whole(Wire) = Whole(buf) \cup Whole(pipe)
    BY ONLY <2>2, WholeConcat DEF Wire
  <2> QED BY <2>1, <2>3 DEF Past
<1>2. Past \subseteq 1 .. pub.made
  <2>1. \A i \in DOMAIN Wire : Wire[i].f.id <= pub.made /\ Wire[i].f.id \in Nat /\ Wire[i].f.id >= 1
    BY WireIsTyped, CellSeq DEF InOrder
  <2>2. \A i \in DOMAIN got : got[i] <= pub.made /\ got[i] \in Nat \ {0}
    <3>1. got \in Seq(Nat \ {0})
      BY DEF BusTypes
    <3> QED BY <3>1, LenProperties, ElementOfSeq DEF InOrder
  <2>3. pub.made \in Nat
    BY DEF BusTypes, Publisher
  <2>4. Whole(Wire) \subseteq 1 .. pub.made
    BY <2>1, <2>3 DEF Whole
  <2>5. Range(got) \subseteq 1 .. pub.made
    BY <2>2, <2>3 DEF Range
  <2> QED BY <1>1, <2>4, <2>5
<1>3. IsFiniteSet(1 .. pub.made)
  BY FS_Interval DEF BusTypes, Publisher
<1>4. IsFiniteSet(Past)
  BY <1>2, <1>3, FS_Subset
<1>5. ASSUME NEW j PROVE {i \in Past : i > j} \subseteq Past /\ IsFiniteSet({i \in Past : i > j})
                         /\ Cardinality({i \in Past : i > j}) \in Nat
  BY <1>4, FS_Subset, FS_CardinalityType
<1> QED BY <1>1, <1>2, <1>4, <1>5

\* UDSPublisher.publish: a frame is queued, and the oldest one dropped when there is
\* no room.
LEMMA PublishKeeps == ASSUME BusInv, NEW b \in Body, Publish(b) PROVE BusInv'
<1>21. PICK full \in BOOLEAN : full <=> (conn = "served" /\ Len(queue) = QueueSize)
  OBVIOUS
<1>0. PICK f, q0, k : /\ f = NextFrame(b) /\ q0 = (IF full THEN Tail(queue) ELSE queue)
                      /\ k = (IF full THEN 1 ELSE 0)
  OBVIOUS
<1>1. /\ UNCHANGED <<conn, pipe, buf, kept, source, seqs, got, fed, faults>>
      /\ pub.up /\ pub.made < MaxFrames
      /\ queue' = IF conn # "served" THEN queue ELSE Append(q0, f)
      /\ pub' = [pub EXCEPT !.made = @ + 1, !.seq = @ + 1, !.dropped = IF full THEN @ + 1 ELSE @]
  BY <1>0, <1>21 DEF Publish
<1>2. /\ pub.made \in Nat /\ pub.seq \in Nat /\ pub.dropped \in Nat /\ pub.joined \in Nat /\ pub.epoch \in Nat
      /\ MaxFrames \in Nat /\ pub.seq <= pub.made /\ pub.joined <= pub.made /\ pub.dropped <= pub.made
      /\ queue \in Seq(Frame) /\ Len(queue) <= QueueSize /\ Len(queue) \in Nat /\ DOMAIN queue = 1 .. Len(queue)
      /\ QueueSize \in Nat \ {0}
  BY BusAssumption, LenProperties DEF BusInv, BusTypes, Publisher, Limits
<1>3. /\ pub'.made = pub.made + 1 /\ pub'.seq = pub.seq + 1 /\ pub'.dropped = pub.dropped + k
      /\ pub'.joined = pub.joined /\ pub'.epoch = pub.epoch /\ pub'.up = pub.up /\ pub' \in Publisher
  <2>1. PICK x, y, z : x = pub.made + 1 /\ y = pub.seq + 1 /\ z = pub.dropped + k
    OBVIOUS
  <2>2. x \in Nat /\ y \in Nat /\ z \in Nat /\ z = IF full THEN pub.dropped + 1 ELSE pub.dropped
    <3>0. pub.made \in Nat /\ pub.seq \in Nat /\ pub.dropped \in Nat
      BY <1>2
    <3>1. CASE full
      <4>1. k = 1
        BY <1>0, <3>1
      <4>2. z = pub.dropped + 1 /\ x \in Nat /\ y \in Nat
        BY ONLY <2>1, <3>0, <4>1
      <4> QED BY ONLY <3>0, <3>1, <4>2
    <3>2. CASE ~full
      <4>1. k = 0
        BY <1>0, <3>2
      <4>2. z = pub.dropped /\ x \in Nat /\ y \in Nat
        BY ONLY <2>1, <3>0, <4>1
      <4> QED BY ONLY <3>0, <3>2, <4>2
    <3> QED BY <3>1, <3>2
  <2>3. pub' = [pub EXCEPT !.made = x, !.seq = y, !.dropped = z]
    BY <1>1, <2>1, <2>2
  <2>4. pub \in Publisher
    BY DEF BusInv, BusTypes
  <2>5. /\ pub'.made = x /\ pub'.seq = y /\ pub'.dropped = z
        /\ pub'.joined = pub.joined /\ pub'.epoch = pub.epoch /\ pub'.up = pub.up /\ pub' \in Publisher
    BY ONLY <2>2, <2>3, <2>4 DEF Publisher
  <2> QED BY ONLY <2>1, <2>5
<1>4. f \in Frame /\ f.id = pub.made + 1 /\ f.seq = pub.seq
  <2>1. pub.made + 1 \in 1 .. MaxFrames /\ pub.seq \in 0 .. MaxFrames
    BY <1>1, <1>2
  <2> QED BY <1>0, <2>1 DEF NextFrame, Frame
<1>5. /\ q0 \in Seq(Frame) /\ Len(q0) = Len(queue) - k /\ Len(q0) \in Nat /\ k \in Nat
      /\ (conn = "served" => Len(q0) < QueueSize)
      /\ \A i \in 1 .. Len(q0) : q0[i] = queue[i + k] /\ i + k \in DOMAIN queue
  <2>1. CASE full
    <3>1. queue # <<>>
      BY <1>2, <1>21, <2>1
    <3>2. Tail(queue) \in Seq(Frame) /\ Len(Tail(queue)) = Len(queue) - 1
          /\ \A i \in 1 .. Len(Tail(queue)) : Tail(queue)[i] = queue[i + 1]
      BY <1>2, <3>1, HeadTailProperties
    <3>3. q0 = Tail(queue) /\ k = 1
      BY <1>0, <2>1
    <3> QED BY <1>2, <1>21, <2>1, <3>2, <3>3
  <2>2. CASE ~full
    <3>3. q0 = queue /\ k = 0 /\ \A i \in 1 .. Len(queue) : i + 0 = i
      BY <1>0, <1>2, <2>2
    <3>4. conn = "served" => Len(queue) < QueueSize
      <4>1. conn = "served" => Len(queue) # QueueSize
        BY ONLY <1>21, <2>2, Zenon
      <4>2. Len(queue) \in Nat /\ QueueSize \in Nat /\ Len(queue) <= QueueSize
        BY ONLY <1>2
      <4>3. \A x, y \in Nat : x <= y /\ x # y => x < y
        OBVIOUS
      <4> QED BY ONLY <4>1, <4>2, <4>3
    <3>5. Len(queue) = Len(queue) - 0
      BY <1>2
    <3> QED BY ONLY <1>2, <3>3, <3>4, <3>5
  <2> QED BY <2>1, <2>2
<1>6. PICK r : r = queue'
  OBVIOUS
<1>7. /\ r \in Seq(Frame) /\ DOMAIN r = 1 .. Len(r) /\ Len(r) \in Nat /\ Len(r) <= QueueSize
      /\ conn = "served" => Len(r) = Len(queue) + 1 - k
      /\ conn # "served" => Len(r) = 0
      /\ \A i \in 1 .. Len(r) : (i = Len(r) /\ r[i] = f)
                                \/ (i < Len(r) /\ i + k \in DOMAIN queue /\ r[i] = queue[i + k])
  <2>1. CASE conn = "served"
    <3>1. r = Append(q0, f)
      BY <1>1, <1>6, <2>1
    <3>2. /\ Append(q0, f) \in Seq(Frame) /\ Len(Append(q0, f)) = Len(q0) + 1
          /\ \A i \in 1 .. Len(q0) : Append(q0, f)[i] = q0[i]
      <4>1. q0 \in Seq(Frame) /\ f \in Frame
        BY <1>4, <1>5
      <4> QED BY ONLY <4>1, AppendProperties
    <3>3. r[Len(q0) + 1] = f
      BY <1>4, <1>5, <3>1, AppendProperties
    <3>0. Len(q0) \in Nat /\ Len(q0) = Len(queue) - k /\ k \in Nat /\ Len(q0) < QueueSize
      BY <1>5, <2>1
    <3>4. \A i \in 1 .. (Len(q0) + 1) : (i \in 1 .. Len(q0) /\ i < Len(q0) + 1) \/ i = Len(q0) + 1
      BY ONLY <3>0
    <3>5. Len(r) = Len(q0) + 1 /\ r \in Seq(Frame)
      BY <3>1, <3>2
    <3>6. DOMAIN r = 1 .. Len(r) /\ Len(r) \in Nat
      BY ONLY <3>5, LenProperties
    <3>7. Len(r) <= QueueSize /\ Len(r) = Len(queue) + 1 - k
      BY ONLY <1>2, <3>0, <3>5
    <3>8. \A i \in 1 .. Len(r) : (i = Len(r) /\ r[i] = f)
                                \/ (i < Len(r) /\ i + k \in DOMAIN queue /\ r[i] = queue[i + k])
      <4>1. \A i \in 1 .. Len(q0) : r[i] = q0[i] /\ q0[i] = queue[i + k] /\ i + k \in DOMAIN queue
        BY <1>5, <3>1, <3>2
      <4> QED BY ONLY <3>3, <3>4, <3>5, <4>1
    <3> QED BY <2>1, <3>5, <3>6, <3>7, <3>8
  <2>2. CASE conn # "served"
    <3>1. r = queue /\ queue = <<>>
      BY <1>1, <1>6, <2>2 DEF BusInv, Left
    <3>2. Len(<<>>) = 0
      OBVIOUS
    <3> QED BY <1>2, <2>2, <3>1, <3>2
  <2> QED BY <2>1, <2>2
<1>8. Wire' = Wire /\ got' = got
  BY <1>1 DEF Wire
<1>9. BusTypes'
  <2>1. BusTypes
    BY DEF BusInv
  <2> QED BY ONLY <1>1, <1>3, <1>6, <1>7, <2>1 DEF BusTypes
<1>10. Limits'
  <2>1. pub.epoch + (IF pub.up THEN 0 ELSE 1) + source.restarts <= faults /\ faults <= MaxFaults
    BY DEF BusInv, Limits
  <2>2. pub.dropped + k <= pub.made + 1 /\ pub.made + 1 <= MaxFrames /\ pub.seq + 1 <= pub.made + 1
        /\ pub.joined <= pub.made + 1
    BY <1>0, <1>1, <1>2
  <2> QED BY ONLY <1>1, <1>3, <2>1, <2>2 DEF Limits
<1>11. Left'
  <2>1. Ended(Wire)' <=> Ended(Wire)
    BY <1>8 DEF Ended
  <2>2. Whole(buf)' = Whole(buf)
    BY <1>1 DEF Whole
  <2>3. conn # "served" => queue' = <<>>
    BY <1>1 DEF BusInv, Left
  <2> QED BY <1>1, <2>1, <2>2, <2>3 DEF BusInv, Left
<1>12. /\ Line(Wire) /\ OnlyForward
       /\ \A i, j \in DOMAIN queue : i < j => queue[i].id < queue[j].id
       /\ \A i \in DOMAIN got, j \in DOMAIN Wire : got[i] < Wire[j].f.id
       /\ \A i \in DOMAIN got, j \in DOMAIN queue : got[i] < queue[j].id
       /\ \A i \in DOMAIN Wire, j \in DOMAIN queue : Wire[i].f.id < queue[j].id
       /\ \A i \in DOMAIN queue : pub.joined < queue[i].id /\ queue[i].id <= pub.made
       /\ \A i \in DOMAIN Wire : Wire[i].f.id <= pub.made
       /\ \A i \in DOMAIN got : got[i] <= pub.made
  BY DEF BusInv, InOrder
<1>13. /\ \A i \in DOMAIN got : got[i] \in Nat
       /\ \A i \in DOMAIN Wire : Wire[i].f.id \in Nat
       /\ \A i \in DOMAIN queue : queue[i].id \in Nat
  <2>1. got \in Seq(Nat \ {0}) /\ Wire \in Seq(Cell)
    BY WireIsTyped DEF BusInv, BusTypes
  <2>2. \A i \in DOMAIN queue : queue[i] \in Frame
    BY <1>2, ElementOfSeq
  <2> QED BY <2>1, <2>2, CellSeq, LenProperties, ElementOfSeq DEF Frame
<1>14. InOrder'
  <2>1. \A i, j \in DOMAIN r : i < j => r[i].id < r[j].id
    <3>1. ASSUME NEW i \in DOMAIN r, NEW j \in DOMAIN r, i < j PROVE r[i].id < r[j].id
      <4>0. i \in 1 .. Len(r) /\ j \in 1 .. Len(r) /\ Len(r) \in Nat /\ i < j
        BY ONLY <1>7, <3>1
      <4>1. i < Len(r) /\ i + k \in DOMAIN queue /\ r[i] = queue[i + k]
        <5>1. i # Len(r)
          BY ONLY <4>0
        <5> QED BY ONLY <1>7, <4>0, <5>1
      <4>2. CASE j = Len(r) /\ r[j] = f
        <5>1. queue[i + k].id <= pub.made /\ queue[i + k].id \in Nat
          BY ONLY <1>12, <1>13, <4>1
        <5>0. r[i].id = queue[i + k].id /\ pub.made \in Nat
          BY <1>2, <4>1
        <5>2. r[i].id < pub.made + 1
          BY ONLY <5>0, <5>1
        <5> QED BY ONLY <1>4, <4>2, <5>2
      <4>3. CASE j + k \in DOMAIN queue /\ r[j] = queue[j + k]
        <5>0. k \in Nat
          BY <1>5
        <5>1. i + k < j + k
          BY ONLY <4>0, <5>0
        <5>2. queue[i + k].id < queue[j + k].id
          BY ONLY <1>12, <4>1, <4>3, <5>1
        <5> QED BY ONLY <4>1, <4>3, <5>2, Zenon
      <4> QED BY <1>7, <4>2, <4>3
    <3> QED BY <3>1
  <2>2. \A i \in DOMAIN r : r[i] = f \/ \E j \in DOMAIN queue : r[i] = queue[j]
    BY ONLY <1>7
  <2>3. \A i \in DOMAIN got, j \in DOMAIN r : got[i] < r[j].id
    BY ONLY <1>2, <1>4, <1>12, <1>13, <2>2
  <2>4. \A i \in DOMAIN Wire, j \in DOMAIN r : Wire[i].f.id < r[j].id
    BY ONLY <1>2, <1>4, <1>12, <1>13, <2>2
  <2>5. \A i \in DOMAIN r : pub.joined < r[i].id /\ r[i].id <= pub.made + 1
    BY ONLY <1>2, <1>4, <1>12, <1>13, <2>2
  <2>6. /\ \A i \in DOMAIN Wire : Wire[i].f.id <= pub.made + 1
        /\ \A i \in DOMAIN got : got[i] <= pub.made + 1
    BY ONLY <1>2, <1>12, <1>13
  <2>7. OnlyForward'
    BY <1>8, <1>12 DEF OnlyForward
  <2> QED BY ONLY <1>3, <1>6, <1>8, <1>12, <2>1, <2>3, <2>4, <2>5, <2>6, <2>7 DEF InOrder
<1>15. DropsAreCounted'
  <2>1. ASSUME conn = "served"
        PROVE  pub'.made - pub'.joined
                 = pub'.dropped + Len(r) + Cardinality({i \in Past : i > pub.joined})
    <3>1. PICK c : c = Cardinality({i \in Past : i > pub.joined})
      OBVIOUS
    <3>2. c \in Nat
      BY <3>1, PastTypes DEF BusInv
    <3>3. pub.made - pub.joined = pub.dropped + Len(queue) + c
      BY <2>1, <3>1 DEF BusInv, DropsAreCounted, Past
    <3>4. k \in Nat /\ Len(r) = Len(queue) + 1 - k
      BY <1>5, <1>7, <2>1
    <3>5. PICK x, y, z, u : x = pub.made /\ y = pub.joined /\ z = pub.dropped /\ u = Len(queue)
      OBVIOUS
    <3>7. x \in Nat /\ y \in Nat /\ z \in Nat /\ u \in Nat /\ k \in Nat /\ c \in Nat /\ x - y = z + u + c
      BY ONLY <1>2, <3>2, <3>3, <3>4, <3>5
    <3>8. (x + 1) - y = (z + k) + (u + 1 - k) + c
      BY ONLY <3>7
    <3>6. (pub.made + 1) - pub.joined = (pub.dropped + k) + (Len(queue) + 1 - k) + c
      BY ONLY <3>5, <3>8
    <3> QED BY ONLY <1>3, <3>1, <3>4, <3>6
  <2>2. OnSocket' = OnSocket /\ InParser' = InParser
    BY <1>1 DEF OnSocket, InParser
  <2> QED BY <1>1, <1>3, <1>6, <2>1, <2>2 DEF DropsAreCounted, Past
<1>16. Coming' \subseteq Coming \cup {f}
  <2>1. \A i \in DOMAIN r : r[i] = f \/ \E j \in DOMAIN queue : r[i] = queue[j]
    BY ONLY <1>7
  <2>2. {r[i] : i \in DOMAIN r} \subseteq {queue[i] : i \in DOMAIN queue} \cup {f}
    BY ONLY <2>1
  <2>3. Coming' = {Wire[i].f : i \in DOMAIN Wire} \cup {r[i] : i \in DOMAIN r}
    BY ONLY <1>6, <1>8, Zenon DEF Coming
  <2> QED BY ONLY <2>2, <2>3 DEF Coming
<1>17. PICK l : l = got[Len(got)] + 1 - seqs.expected
  OBVIOUS
<1>18. /\ seqs.started <=> got # <<>>
       /\ \A c \in Coming : /\ Lag(c) <= pub.made + 1 - pub.seq /\ Lag(c) \in Int /\ c.id \in Nat
                            /\ c.id <= pub.made
       /\ \A c, g \in Coming : c.id < g.id => Lag(c) <= Lag(g)
       /\ got # <<>> => l <= pub.made + 1 - pub.seq /\ \A c \in Coming : l <= Lag(c)
  <2>1. \A c \in Coming : c.id \in Nat /\ Lag(c) \in Int
    BY ComingTypes DEF BusInv, Lag
  <2>2. \A c \in Coming : c.id <= pub.made
    BY ONLY <1>12 DEF Coming
  <2> QED BY <1>17, <2>1, <2>2 DEF BusInv, Lags
<1>19. Lag(f) = pub.made + 1 - pub.seq /\ pub'.made + 1 - pub'.seq = Lag(f)
  BY <1>2, <1>3, <1>4 DEF Lag
<1>20. Lags' /\ FirstProcess' /\ LossIsCounted'
  <2>1. \A c \in Coming \cup {f} : Lag(c) <= pub'.made + 1 - pub'.seq
    BY <1>2, <1>18, <1>19
  <2>2. \A c, g \in Coming \cup {f} : c.id < g.id => Lag(c) <= Lag(g)
    <3>1. \A c \in Coming : Lag(c) <= Lag(f)
      BY <1>18, <1>19
    <3>2. \A g \in Coming \cup {f} : ~(f.id < g.id)
      BY <1>2, <1>4, <1>18
    <3> QED BY <1>18, <3>1, <3>2
  <2>3. got # <<>> => l <= pub'.made + 1 - pub'.seq /\ \A c \in Coming \cup {f} : l <= Lag(c)
    BY <1>18, <1>19
  <2>4. Lags'
    <3>1. seqs' = seqs /\ got' = got
      BY <1>1
    <3>2. (\A c \in Coming : Lag(c) <= pub.made + 1 - pub.seq)'
      BY ONLY <1>16, <2>1 DEF Lag
    <3>3. (\A c, g \in Coming : c.id < g.id => Lag(c) <= Lag(g))'
      BY ONLY <1>16, <2>2 DEF Lag
    <3>4. got # <<>> => \A c \in Coming' : l <= c.id - c.seq
      BY ONLY <1>16, <2>3 DEF Lag
    <3> QED BY ONLY <1>17, <1>18, <2>3, <3>1, <3>2, <3>3, <3>4 DEF Lags, Lag
  <2>5. FirstProcess'
    <3>1. pub.epoch = 0 => /\ pub.seq = pub.made /\ \A c \in Coming : Lag(c) = 1
                           /\ got # <<>> => seqs.expected = got[Len(got)]
      BY DEF BusInv, FirstProcess
    <3>2. pub.epoch = 0 => \A c \in Coming' : c.id - c.seq = 1
      <4>1. pub.epoch = 0 => Lag(f) = 1
        BY <1>2, <1>19, <3>1
      <4> QED BY ONLY <1>16, <3>1, <4>1 DEF Lag
    <3>3. pub.epoch = 0 => pub'.seq = pub'.made
      BY <1>3, <3>1
    <3>4. seqs' = seqs /\ got' = got
      BY <1>1
    <3> QED BY ONLY <1>3, <3>1, <3>2, <3>3, <3>4 DEF FirstProcess, Lag
  <2>6. LossIsCounted'
    BY <1>1, <1>3 DEF BusInv, LossIsCounted, Missing
  <2> QED BY <2>4, <2>5, <2>6
<1> QED BY <1>9, <1>10, <1>11, <1>14, <1>15, <1>20 DEF BusInv

\* The loop of _handle: the oldest frame of the queue is written to the socket.
LEMMA WriteKeeps == ASSUME BusInv, Write PROVE BusInv'
<1>0. PICK h, c, v, w, q, r :
        h = Head(queue) /\ c = Cells(h) /\ v = Wire /\ w = Wire' /\ q = queue /\ r = queue'
  OBVIOUS
<1>1. /\ UNCHANGED <<pub, conn, buf, kept, source, seqs, got, fed, faults>>
      /\ conn = "served" /\ q # <<>> /\ Len(pipe) < PipeSize /\ pipe' = pipe \o c /\ r = Tail(q)
  BY <1>0 DEF Write
<1>2. /\ buf \in Seq(Cell) /\ pipe \in Seq(Cell) /\ v \in Seq(Cell) /\ Len(pipe) \in Nat
      /\ q \in Seq(Frame) /\ DOMAIN v = 1 .. Len(v) /\ Len(v) \in Nat /\ DOMAIN pipe = 1 .. Len(pipe)
  BY <1>0, WireIsTyped, CellSeq DEF BusInv, BusTypes
<1>3. /\ h \in Frame /\ h = q[1] /\ r \in Seq(Frame) /\ Len(r) = Len(q) - 1 /\ Len(q) \in Nat /\ Len(q) >= 1
      /\ DOMAIN q = 1 .. Len(q) /\ DOMAIN r = 1 .. (Len(q) - 1)
      /\ \A i \in DOMAIN r : i + 1 \in DOMAIN q /\ r[i] = q[i + 1]
  <2>1. h \in Frame /\ h = q[1] /\ r \in Seq(Frame) /\ Len(r) = Len(q) - 1
        /\ \A i \in 1 .. Len(r) : r[i] = q[i + 1]
    BY <1>0, <1>1, <1>2, HeadTailProperties
  <2>2. Len(q) \in Nat /\ DOMAIN q = 1 .. Len(q) /\ DOMAIN r = 1 .. Len(r)
    BY <1>2, <2>1, LenProperties
  <2>3. Len(q) >= 1
    BY <1>1, <1>2, <2>2, EmptySeq
  <2> QED BY <2>1, <2>2, <2>3
<1>4. 1 \in DOMAIN q
  BY <1>3
<1>5. /\ Line(v) /\ OnlyForward
      /\ \A i, j \in DOMAIN q : i < j => q[i].id < q[j].id
      /\ \A i \in DOMAIN got, j \in DOMAIN v : got[i] < v[j].f.id
      /\ \A i \in DOMAIN got, j \in DOMAIN q : got[i] < q[j].id
      /\ \A i \in DOMAIN v, j \in DOMAIN q : v[i].f.id < q[j].id
      /\ \A i \in DOMAIN q : pub.joined < q[i].id /\ q[i].id <= pub.made
      /\ \A i \in DOMAIN v : v[i].f.id <= pub.made
      /\ \A i \in DOMAIN got : got[i] <= pub.made
  BY <1>0 DEF BusInv, InOrder
<1>6. Ended(v)
  BY <1>0, <1>1 DEF BusInv, Left
<1>7. c \in Seq(Cell) /\ DOMAIN c = 1 .. 2 /\ Len(c) = 2 /\ c[1].part = "head" /\ c[2].part = "rest"
      /\ c[1].f = h /\ c[2].f = h
  <2>1. 0 \in 0 .. Span
    BY BusAssumption
  <2>2. [f |-> h, part |-> "head", need |-> 0] \in Cell /\ [f |-> h, part |-> "rest", need |-> 0] \in Cell
    BY <1>3, <2>1 DEF Cell
  <2> QED BY <1>0, <2>2 DEF Cells
<1>8. w = v \o c
  <2>1. (buf \o pipe) \o c = buf \o (pipe \o c)
    BY ONLY <1>2, <1>7, CellPieces, Zenon
  <2>2. Wire = buf \o pipe /\ Wire' = buf' \o pipe'
    BY ONLY Zenon DEF Wire
  <2> QED BY ONLY <1>0, <1>1, <2>1, <2>2
<1>9. /\ w \in Seq(Cell) /\ Line(w) /\ Ended(w) /\ Len(w) = Len(v) + 2
      /\ \A i \in DOMAIN v : w[i] = v[i]
      /\ w[Len(v) + 1].f = h /\ w[Len(v) + 2].f = h
  <2>1. \A i \in DOMAIN v : v[i].f.id < h.id
    BY <1>3, <1>4, <1>5
  <2>2. v \in Seq(Cell) /\ Line(v) /\ Ended(v) /\ h \in Frame
    BY <1>2, <1>3, <1>5, <1>6
  <2> QED BY ONLY <1>0, <1>8, <2>1, <2>2, LineWrite
<1>10. DOMAIN w = 1 .. (Len(v) + 2) /\ \A i \in DOMAIN w : (i \in DOMAIN v /\ w[i].f = v[i].f) \/ w[i].f = h
  <2>1. DOMAIN w = 1 .. (Len(v) + 2)
    BY <1>9, LenProperties
  <2>2. \A i \in 1 .. (Len(v) + 2) : i \in 1 .. Len(v) \/ i = Len(v) + 1 \/ i = Len(v) + 2
    BY <1>2
  <2> QED BY <1>2, <1>9, <2>1, <2>2
<1>11. pipe' \in Seq(Cell) /\ Len(pipe') = Len(pipe) + 2
  <2>1. pipe \o c \in Seq(Cell) /\ Len(pipe \o c) = Len(pipe) + Len(c)
    BY ONLY <1>2, <1>7, WireTypes
  <2> QED BY ONLY <1>1, <1>7, <2>1
<1>12. BusTypes'
  <2>1. BusTypes
    BY DEF BusInv
  <2>2. Len(pipe') <= PipeSize + 1
    BY <1>1, <1>2, <1>11, BusAssumption
  <2>3. Len(r) <= QueueSize
    <3>1. Len(q) <= QueueSize /\ QueueSize \in Nat
      BY <1>0, BusAssumption DEF BusInv, BusTypes
    <3> QED BY <1>3, <3>1
  <2> QED BY ONLY <1>0, <1>1, <1>3, <1>11, <2>1, <2>2, <2>3 DEF BusTypes
<1>13. Limits'
  BY <1>1 DEF BusInv, Limits
<1>14. Left'
  <2>1. Ended(Wire)' <=> Ended(w)
    BY <1>0 DEF Ended
  <2>2. Whole(buf)' = Whole(buf)
    BY <1>1 DEF Whole
  <2>3. \A i \in DOMAIN pipe' : pipe'[i].part # "stub"
    <3>1. /\ DOMAIN (pipe \o c) = 1 .. (Len(pipe) + Len(c))
          /\ \A k \in 1 .. Len(pipe) : (pipe \o c)[k] = pipe[k]
          /\ \A k \in 1 .. Len(c) : (pipe \o c)[k + Len(pipe)] = c[k]
      BY ONLY <1>2, <1>7, WireTypes
    <3>2. \A k \in 1 .. (Len(pipe) + 2) : k \in 1 .. Len(pipe) \/ k = 1 + Len(pipe) \/ k = 2 + Len(pipe)
      BY <1>2
    <3>3. \A k \in 1 .. Len(pipe) : pipe[k].part # "stub"
      BY <1>2 DEF BusInv, Left
    <3>4. (pipe \o c)[1 + Len(pipe)] = c[1] /\ (pipe \o c)[2 + Len(pipe)] = c[2]
      BY ONLY <1>7, <3>1
    <3> QED BY ONLY <1>1, <1>7, <3>1, <3>2, <3>3, <3>4
  <2> QED BY <1>1, <1>9, <2>1, <2>2, <2>3 DEF BusInv, Left
<1>15. \A i \in DOMAIN r : \E j \in DOMAIN q : j > 1 /\ r[i] = q[j]
  <2> TAKE i \in DOMAIN r
  <2>1. i + 1 > 1
    BY <1>3
  <2> QED BY <1>3, <2>1
<1>16. InOrder'
  <2>1. \A i, j \in DOMAIN r : i < j => r[i].id < r[j].id
    <3>1. \A i, j \in DOMAIN r : i < j => i + 1 < j + 1
      BY <1>3
    <3> QED BY ONLY <1>3, <1>5, <3>1
  <2>2. \A i \in DOMAIN got, j \in DOMAIN w : got[i] < w[j].f.id
    BY ONLY <1>3, <1>4, <1>5, <1>10
  <2>3. \A i \in DOMAIN got, j \in DOMAIN r : got[i] < r[j].id
    BY ONLY <1>5, <1>15
  <2>4. \A i \in DOMAIN w, j \in DOMAIN r : w[i].f.id < r[j].id
    <3>1. \A j \in DOMAIN r : h.id < r[j].id
      BY ONLY <1>3, <1>4, <1>5, <1>15
    <3>2. \A i \in DOMAIN v, j \in DOMAIN r : v[i].f.id < r[j].id
      BY ONLY <1>5, <1>15
    <3> QED BY ONLY <1>10, <3>1, <3>2
  <2>5. \A i \in DOMAIN r : pub.joined < r[i].id /\ r[i].id <= pub.made
    BY ONLY <1>5, <1>15
  <2>6. \A i \in DOMAIN w : w[i].f.id <= pub.made
    BY ONLY <1>3, <1>4, <1>5, <1>10
  <2>7. OnlyForward'
    BY <1>1, <1>5 DEF OnlyForward
  <2> QED BY ONLY <1>0, <1>1, <1>5, <1>9, <2>1, <2>2, <2>3, <2>4, <2>5, <2>6, <2>7 DEF InOrder
<1>17. Lags' /\ FirstProcess' /\ LossIsCounted'
  <2>1. Coming' \subseteq Coming
    <3>1. {w[i].f : i \in DOMAIN w} \subseteq {v[i].f : i \in DOMAIN v} \cup {q[i] : i \in DOMAIN q}
      BY ONLY <1>3, <1>4, <1>10
    <3>2. {r[i] : i \in DOMAIN r} \subseteq {q[i] : i \in DOMAIN q}
      BY ONLY <1>15
    <3>3. Coming = {v[i].f : i \in DOMAIN v} \cup {q[i] : i \in DOMAIN q}
      BY ONLY <1>0, Zenon DEF Coming
    <3>4. Coming' = {w[i].f : i \in DOMAIN w} \cup {r[i] : i \in DOMAIN r}
      BY ONLY <1>0, Zenon DEF Coming
    <3> QED BY ONLY <3>1, <3>2, <3>3, <3>4
  <2> QED BY ONLY BusInv, <1>1, <2>1, LagsKept DEF BusInv
<1>18. DropsAreCounted'
  <2>1. BusTypes /\ InOrder /\ BusTypes' /\ InOrder'
    BY <1>12, <1>16 DEF BusInv
  <2>2. OnSocket' = OnSocket \cup {h.id}
    <3>1. Whole(pipe \o c) = Whole(pipe) \cup Whole(c)
      BY <1>2, <1>7, WholeConcat
    <3>2. Whole(c) = {h.id}
      <4>1. \A i \in DOMAIN c : c[i].part = "rest" <=> i = 2
        BY <1>7
      <4> QED BY <1>7, <4>1 DEF Whole
    <3>3. OnSocket = Whole(pipe) /\ OnSocket' = Whole(pipe')
      BY DEF OnSocket, Whole
    <3> QED BY <1>1, <3>1, <3>2, <3>3
  <2>3. InParser' = InParser
    BY <1>1 DEF InParser
  <2>4. h.id \notin Past /\ h.id > pub.joined
    <3>1. Past = Whole(Wire) \cup Range(got)
      BY <2>1, PastTypes
    <3>2. h.id \notin Whole(Wire)
      <4>1. \A i \in DOMAIN v : v[i].f.id # h.id
        <5>1. \A i \in DOMAIN v : v[i].f.id < h.id /\ v[i].f.id \in Nat /\ h.id \in Nat
          BY <1>2, <1>3, <1>4, <1>5, CellSeq, FrameTypes
        <5> QED BY <5>1
      <4> QED BY <1>0, <4>1 DEF Whole
    <3>3. h.id \notin Range(got)
      <4>1. \A i \in DOMAIN got : got[i] < h.id
        BY <1>3, <1>4, <1>5
      <4>2. \A i \in DOMAIN got : got[i] \in Nat
        <5>1. got \in Seq(Nat \ {0})
          BY <2>1 DEF BusTypes
        <5> QED BY <5>1, LenProperties, ElementOfSeq
      <4> QED BY <4>1, <4>2 DEF Range
    <3>4. pub.joined < h.id
      BY <1>3, <1>4, <1>5
    <3>5. pub.joined \in Nat /\ h.id \in Nat
      BY <1>3, <2>1, FrameTypes DEF BusTypes, Publisher
    <3> QED BY <3>1, <3>2, <3>3, <3>4, <3>5
  <2>5. PICK A : A = {i \in Past : i > pub.joined}
    OBVIOUS
  <2>6. IsFiniteSet(A) /\ Cardinality(A) \in Nat /\ h.id \notin A
    BY <2>1, <2>4, <2>5, PastTypes
  <2>7. {i \in OnSocket' \cup InParser' \cup Range(got') : i > pub'.joined} = A \cup {h.id}
    BY ONLY <1>1, <2>2, <2>3, <2>4, <2>5 DEF Past
  <2>8. Cardinality(A \cup {h.id}) = Cardinality(A) + 1
    BY <2>6, FS_AddElement
  <2>9. pub.made - pub.joined = pub.dropped + Len(q) + Cardinality(A)
    BY <1>0, <1>1, <2>5 DEF BusInv, DropsAreCounted, Past
  <2>10. pub.dropped + Len(q) + Cardinality(A) = pub.dropped + Len(r) + (Cardinality(A) + 1)
    <3>1. pub.dropped \in Nat
      BY <2>1 DEF BusTypes, Publisher
    <3>2. \A x, y, z \in Nat : x + y + z = x + (y - 1) + (z + 1)
      OBVIOUS
    <3>3. PICK x, y, z : x = pub.dropped /\ y = Len(q) /\ z = Cardinality(A)
      OBVIOUS
    <3>4. x \in Nat /\ y \in Nat /\ z \in Nat /\ Len(r) = y - 1
      BY ONLY <1>3, <2>6, <3>1, <3>3
    <3>5. x + y + z = x + (y - 1) + (z + 1)
      BY ONLY <3>4
    <3> QED BY ONLY <3>3, <3>4, <3>5
  <2> QED BY ONLY <1>0, <1>1, <2>7, <2>8, <2>9, <2>10 DEF DropsAreCounted
<1> QED BY <1>12, <1>13, <1>14, <1>16, <1>17, <1>18 DEF BusInv

\* A sequence with one more element.
LEMMA Longer ==
    ASSUME NEW g \in Seq(Nat \ {0}), NEW x \in Nat \ {0}
    PROVE  /\ Append(g, x) \in Seq(Nat \ {0}) /\ Len(g) \in Nat /\ Append(g, x) # <<>>
           /\ DOMAIN g = 1 .. Len(g) /\ DOMAIN Append(g, x) = 1 .. (Len(g) + 1)
           /\ Len(Append(g, x)) = Len(g) + 1 /\ Append(g, x)[Len(g) + 1] = x
           /\ \A i \in DOMAIN g : Append(g, x)[i] = g[i] /\ g[i] \in Nat \ {0}
           /\ \A i \in DOMAIN Append(g, x) : i \in DOMAIN g \/ i = Len(g) + 1
           /\ Range(Append(g, x)) = Range(g) \cup {x}
<1>1. Len(g) \in Nat /\ DOMAIN g = 1 .. Len(g) /\ \A i \in DOMAIN g : g[i] \in Nat \ {0}
  BY LenProperties, ElementOfSeq
<1>2. PICK h : h = Append(g, x)
  OBVIOUS
<1>3. /\ h \in Seq(Nat \ {0}) /\ h # <<>> /\ Len(h) = Len(g) + 1 /\ h[Len(g) + 1] = x
      /\ \A i \in 1 .. Len(g) : h[i] = g[i]
  BY <1>2, AppendProperties
<1>4. DOMAIN h = 1 .. (Len(g) + 1) /\ Len(g) + 1 \in DOMAIN h
  BY <1>1, <1>3, LenProperties
<1>5. \A i \in DOMAIN h : i \in DOMAIN g \/ i = Len(g) + 1
  BY <1>1, <1>4
<1>6. DOMAIN g \subseteq DOMAIN h
  BY <1>1, <1>4
<1>7. Range(h) = Range(g) \cup {x}
  BY ONLY <1>1, <1>3, <1>4, <1>5, <1>6 DEF Range
<1> QED BY ONLY <1>1, <1>2, <1>3, <1>4, <1>5, <1>7

\* The numbers that are missing when a frame is received after others.
LEMMA MissingGrows ==
    ASSUME NEW g \in Seq(Nat \ {0}), g # <<>>, NEW x \in Nat \ {0},
           \A i, j \in DOMAIN g : i < j => g[i] < g[j], g[Len(g)] < x
    PROVE  /\ g[Len(g)] \in Nat /\ Append(g, x)[1] = g[1]
           /\ Cardinality((g[1] .. g[Len(g)]) \ Range(g)) \in Nat
           /\ Cardinality((g[1] .. x) \ (Range(g) \cup {x}))
                = Cardinality((g[1] .. g[Len(g)]) \ Range(g)) + (x - 1 - g[Len(g)])
<1>1. /\ Len(g) \in Nat /\ DOMAIN g = 1 .. Len(g) /\ \A i \in DOMAIN g : g[i] \in Nat /\ Append(g, x)[i] = g[i]
  BY Longer
<1>2. 1 \in DOMAIN g /\ Len(g) \in DOMAIN g
  BY <1>1, EmptySeq
<1>3. PICK a, b : a = g[1] /\ b = g[Len(g)]
  OBVIOUS
<1>4. a \in Nat /\ b \in Nat /\ b < x
  BY <1>1, <1>2, <1>3
<1>5. \A y \in Range(g) : y \in Nat /\ y <= b /\ a <= y
  <2>1. ASSUME NEW i \in DOMAIN g PROVE g[i] <= b /\ a <= g[i]
    <3>1. i = Len(g) \/ i < Len(g)
      BY <1>1
    <3>2. i = 1 \/ 1 < i
      BY <1>1
    <3>3. g[i] <= b
      BY <1>1, <1>2, <1>3, <3>1
    <3>4. a <= g[i]
      BY <1>1, <1>2, <1>3, <3>2
    <3> QED BY <3>3, <3>4
  <2> QED BY <1>1, <2>1 DEF Range
<1>6. a <= b
  BY <1>2, <1>3, <1>5 DEF Range
<1>7. PICK M, I, N : M = (a .. b) \ Range(g) /\ I = (b + 1) .. (x - 1) /\ N = (a .. x) \ (Range(g) \cup {x})
  OBVIOUS
<1>8. N = M \cup I
  BY ONLY <1>4, <1>5, <1>6, <1>7, x \in Nat \ {0}
<1>9. M \cap I = {}
  BY ONLY <1>4, <1>7
<1>10. IsFiniteSet(M)
  <2>1. IsFiniteSet(a .. b)
    BY <1>4, FS_Interval
  <2> QED BY <1>7, <2>1, FS_Difference
<1>11. IsFiniteSet(I) /\ Cardinality(I) = x - 1 - b
  <2>1. b + 1 \in Int /\ x - 1 \in Int
    BY <1>4
  <2>2. IsFiniteSet(I) /\ Cardinality(I) = IF b + 1 > x - 1 THEN 0 ELSE (x - 1) - (b + 1) + 1
    BY <1>7, <2>1, FS_Interval
  <2>3. (IF b + 1 > x - 1 THEN 0 ELSE (x - 1) - (b + 1) + 1) = x - 1 - b
    BY <1>4
  <2> QED BY <2>2, <2>3
<1>12. Cardinality(M) \in Nat
  BY <1>10, FS_CardinalityType
<1>13. Cardinality(N) = Cardinality(M) + Cardinality(I)
  <2>1. Cardinality(M \cup I) = Cardinality(M) + Cardinality(I) - Cardinality(M \cap I)
    BY <1>10, <1>11, FS_Union
  <2>2. Cardinality(M \cap I) = 0
    BY <1>9, FS_EmptySet
  <2>3. Cardinality(I) \in Nat
    BY <1>11, FS_CardinalityType
  <2> QED BY <1>8, <1>12, <2>1, <2>2, <2>3
<1> QED BY <1>1, <1>2, <1>3, <1>4, <1>7, <1>11, <1>12, <1>13

\* A frame comes out of the parser and goes to the consumer.
LEMMA DeliverKeeps == ASSUME BusInv, Deliver PROVE BusInv'
<1>0. PICK f, x, v, w, q, g, h : /\ f = buf[1].f /\ x = f.id /\ v = Wire /\ w = Wire' /\ q = queue
                                 /\ g = got /\ h = Append(got, x)
  OBVIOUS
<1>1. /\ UNCHANGED <<pub, conn, queue, pipe, kept, faults>>
      /\ Len(buf) >= 2 /\ buf[1].part = "head" /\ buf[2].part = "rest"
      /\ buf' = SubSeq(buf, 3, Len(buf)) /\ got' = h /\ seqs' = Observe(seqs, f.seq)
      /\ source' = [source EXCEPT !.connected = TRUE] /\ fed' = fed \ {x}
  BY <1>0 DEF Deliver, Complete
<1>2. /\ buf \in Seq(Cell) /\ pipe \in Seq(Cell) /\ v \in Seq(Cell) /\ Len(buf) \in Nat
      /\ DOMAIN buf = 1 .. Len(buf) /\ DOMAIN v = 1 .. Len(v) /\ Len(v) \in Nat
      /\ BusTypes /\ InOrder
  BY <1>0, WireIsTyped, CellSeq DEF BusInv
<1>3. /\ Line(v) /\ OnlyForward
      /\ \A i, j \in DOMAIN q : i < j => q[i].id < q[j].id
      /\ \A i \in DOMAIN g, j \in DOMAIN v : g[i] < v[j].f.id
      /\ \A i \in DOMAIN g, j \in DOMAIN q : g[i] < q[j].id
      /\ \A i \in DOMAIN v, j \in DOMAIN q : v[i].f.id < q[j].id
      /\ \A i \in DOMAIN q : pub.joined < q[i].id /\ q[i].id <= pub.made
      /\ \A i \in DOMAIN v : v[i].f.id <= pub.made
      /\ \A i \in DOMAIN g : g[i] <= pub.made
  BY <1>0 DEF BusInv, InOrder
<1>4. /\ 1 \in DOMAIN buf /\ 2 \in DOMAIN buf /\ 1 \in DOMAIN v /\ 2 \in DOMAIN v
      /\ v[1] = buf[1] /\ v[2] = buf[2] /\ v[1].f = f /\ v[2].f = f
  <2>1. \A i \in 1 .. Len(buf) : i \in DOMAIN (buf \o pipe) /\ (buf \o pipe)[i] = buf[i]
    BY ONLY <1>2, WireTypes
  <2>2. 1 \in 1 .. Len(buf) /\ 2 \in 1 .. Len(buf)
    BY <1>1, <1>2
  <2>3. v = buf \o pipe
    BY <1>0 DEF Wire
  <2>4. 1 \in DOMAIN v /\ 2 \in DOMAIN v /\ v[1] = buf[1] /\ v[2] = buf[2]
    BY ONLY <2>1, <2>2, <2>3
  <2>5. v[2].part = "rest" => v[2 - 1].f = v[2].f
    BY ONLY <1>3, <2>4 DEF Line
  <2>6. 2 - 1 = 1
    OBVIOUS
  <2> QED BY <1>0, <1>1, <1>2, <2>2, <2>4, <2>5, <2>6
<1>5. /\ f \in Frame /\ x \in Nat \ {0} /\ f.seq \in Nat /\ x <= pub.made /\ pub.made \in Nat /\ pub.seq \in Nat
      /\ pub.joined \in Nat /\ g \in Seq(Nat \ {0})
  <2>1. f \in Frame
    BY <1>2, <1>4, CellSeq
  <2>2. x <= pub.made
    BY <1>0, <1>3, <1>4
  <2> QED BY <1>0, <1>2, <2>1, <2>2, FrameTypes DEF BusTypes, Publisher
<1>6. buf' \in Seq(Cell) /\ Dropped(buf', buf, 2) /\ Dropped(w, v, 2) /\ w \in Seq(Cell)
  <2>1. buf' = SubSeq(buf, 2 + 1, Len(buf)) /\ 2 \in 0 .. Len(buf)
    BY <1>1, <1>2
  <2>2. SubSeq(buf, 2 + 1, Len(buf)) \in Seq(Cell) /\ Dropped(SubSeq(buf, 2 + 1, Len(buf)), buf, 2)
        /\ Dropped(SubSeq(buf, 2 + 1, Len(buf)) \o pipe, buf \o pipe, 2)
    BY ONLY <1>2, <2>1, ParserCuts
  <2>3. v = buf \o pipe /\ w = buf' \o pipe
    BY <1>0, <1>1 DEF Wire
  <2>4. buf' \in Seq(Cell) /\ Dropped(buf', buf, 2) /\ Dropped(w, v, 2)
    BY ONLY <2>1, <2>2, <2>3, Zenon
  <2>5. w \in Seq(Cell)
    BY ONLY <1>2, <2>3, <2>4, WireTypes
  <2> QED BY <2>4, <2>5
<1>7. /\ Remains(w, v, 2) /\ (Ended(v) => Ended(w)) /\ Whole(buf) = Whole(buf') \cup {x}
  <2>1. Remains(w, v, 2) /\ (Ended(v) => Ended(w))
    BY ONLY <1>2, <1>6, DroppedKeeps
  <2>2. Whole(buf) = Whole(buf') \cup {buf[i].f.id : i \in {j \in 1 .. 2 : buf[j].part = "rest"}}
    BY ONLY <1>2, <1>6, DroppedKeeps
  <2>3. \A j \in 1 .. 2 : buf[j].part = "rest" <=> j = 2
    <3>1. \A j \in 1 .. 2 : j = 1 \/ j = 2
      OBVIOUS
    <3> QED BY ONLY <1>1, <3>1
  <2>4. {buf[i].f.id : i \in {j \in 1 .. 2 : buf[j].part = "rest"}} = {x}
    <3>1. 2 \in 1 .. 2 /\ buf[2].f.id = x
      BY <1>0, <1>4
    <3> QED BY ONLY <2>3, <3>1
  <2> QED BY <2>1, <2>2, <2>4
<1>8. /\ DOMAIN w = 1 .. Len(w) /\ Len(w) \in Nat
      /\ \A i \in DOMAIN w : i + 2 \in DOMAIN v /\ i + 2 > 2 /\ w[i] = v[i + 2]
  <2>1. DOMAIN w = 1 .. Len(w) /\ Len(w) \in Nat
    BY <1>6, LenProperties
  <2> QED BY ONLY <1>2, <1>6, <2>1 DEF Dropped
<1>9. \A i \in DOMAIN v : i > 2 => x < v[i].f.id
  <2> TAKE i \in DOMAIN v
  <2> HAVE i > 2
  <2>1. v[1].f.id < v[i].f.id \/ (i = 1 + 1 /\ v[i].part = "rest")
    BY <1>2, <1>3, <1>4 DEF Line
  <2>2. i # 1 + 1
    BY <1>2
  <2> QED BY <1>0, <1>4, <2>1, <2>2
<1>10. \A i \in DOMAIN w : x < w[i].f.id
  BY <1>8, <1>9
<1>11. \A j \in DOMAIN q : x < q[j].id
  BY <1>0, <1>3, <1>4
<1>12. w # <<>> => w[1].part # "rest"
  <2> SUFFICES ASSUME w # <<>> PROVE w[1].part # "rest"
    OBVIOUS
  <2>1. 1 \in DOMAIN w
    BY <1>6, <1>8, EmptySeq
  <2>2. 3 \in DOMAIN v /\ w[1] = v[3] /\ 3 - 1 = 2
    BY <1>8, <2>1
  <2>3. v[3].part = "rest" => v[3 - 1].part = "head"
    BY ONLY <1>3, <2>2 DEF Line
  <2> QED BY <1>1, <1>4, <2>2, <2>3
<1>13. /\ h \in Seq(Nat \ {0}) /\ Len(g) \in Nat /\ h # <<>> /\ DOMAIN g = 1 .. Len(g)
       /\ DOMAIN h = 1 .. (Len(g) + 1) /\ Len(h) = Len(g) + 1 /\ h[Len(g) + 1] = x
       /\ \A i \in DOMAIN g : h[i] = g[i] /\ g[i] \in Nat \ {0}
       /\ \A i \in DOMAIN h : i \in DOMAIN g \/ i = Len(g) + 1
       /\ Range(h) = Range(g) \cup {x} /\ got = g /\ got' = h
  <2>1. h = Append(g, x) /\ got = g /\ got' = h
    BY <1>0, <1>1
  <2> QED BY ONLY <1>5, <2>1, Longer
<1>14. \A i \in DOMAIN g : g[i] < x
  BY <1>0, <1>3, <1>4
<1>15. InOrder'
  <2>1. Line(w)
    BY ONLY <1>2, <1>3, <1>6, <1>7, <1>12, LineRemains
  <2>2. \A i, j \in DOMAIN h : i < j => h[i] < h[j]
    <3>1. ASSUME NEW i \in DOMAIN h, NEW j \in DOMAIN h, i < j PROVE h[i] < h[j]
      <4>1. i \in DOMAIN g
        BY ONLY <1>13, <3>1
      <4>2. CASE j \in DOMAIN g
        <5>1. got[i] < got[j]
          BY <1>3, <1>13, <3>1, <4>1, <4>2 DEF OnlyForward
        <5> QED BY <1>13, <4>1, <4>2, <5>1
      <4>3. CASE j = Len(g) + 1
        BY <1>13, <1>14, <4>1, <4>3
      <4> QED BY <1>13, <4>2, <4>3
    <3> QED BY <3>1
  <2>3. \A i \in DOMAIN h : (i \in DOMAIN g /\ h[i] = g[i]) \/ h[i] = x
    BY ONLY <1>13
  <2>4. \A i \in DOMAIN h, j \in DOMAIN w : h[i] < w[j].f.id
    BY ONLY <1>3, <1>8, <1>10, <2>3
  <2>5. \A i \in DOMAIN h, j \in DOMAIN q : h[i] < q[j].id
    BY ONLY <1>3, <1>11, <2>3
  <2>6. \A i \in DOMAIN w, j \in DOMAIN q : w[i].f.id < q[j].id
    BY ONLY <1>3, <1>8
  <2>7. \A i \in DOMAIN w : w[i].f.id <= pub.made
    BY ONLY <1>3, <1>8
  <2>8. \A i \in DOMAIN h : h[i] <= pub.made
    BY ONLY <1>3, <1>5, <2>3
  <2>9. OnlyForward'
    BY <1>13, <2>2 DEF OnlyForward
  <2> QED BY ONLY <1>0, <1>1, <1>3, <1>13, <2>1, <2>4, <2>5, <2>6, <2>7, <2>8, <2>9 DEF InOrder
<1>16. /\ seqs \in [expected : Nat, lost : Nat, duplicate : Nat, started : BOOLEAN]
       /\ source \in [connected : BOOLEAN, restarts : Nat]
  BY <1>2 DEF BusTypes
<1>17. PICK e, l, d, t, s : e = seqs.expected /\ l = seqs.lost /\ d = seqs.duplicate /\ t = seqs.started /\ s = f.seq
  OBVIOUS
<1>18. e \in Nat /\ l \in Nat /\ d \in Nat /\ t \in BOOLEAN /\ s \in Nat
  BY <1>5, <1>16, <1>17
<1>19. PICK a, b, c : /\ a = (IF t /\ s < e THEN e ELSE s + 1) /\ b = (IF t /\ s > e THEN l + s - e ELSE l)
                      /\ c = (IF t /\ s < e THEN d + 1 ELSE d)
  OBVIOUS
<1>20. a \in Nat /\ b \in Nat /\ c \in Nat
  BY <1>18, <1>19
<1>21. /\ seqs'.started = TRUE /\ seqs'.expected = a /\ seqs'.lost = b /\ seqs'.duplicate = c
       /\ seqs' \in [expected : Nat, lost : Nat, duplicate : Nat, started : BOOLEAN]
  <2>1. seqs' = [seqs EXCEPT !.started = TRUE, !.expected = a, !.lost = b, !.duplicate = c]
    BY <1>1, <1>17, <1>19 DEF Observe
  <2> QED BY ONLY <1>16, <1>20, <2>1
<1>22. BusTypes'
  <2>1. source' \in [connected : BOOLEAN, restarts : Nat]
    BY <1>1, <1>16
  <2> QED BY ONLY <1>1, <1>2, <1>6, <1>13, <1>21, <2>1 DEF BusTypes
<1>23. Limits'
  <2>1. source'.restarts = source.restarts
    BY <1>1, <1>16
  <2> QED BY <1>1, <2>1 DEF BusInv, Limits
<1>24. Left'
  <2>1. Ended(Wire)' <=> Ended(w)
    BY <1>0 DEF Ended
  <2>2. Whole(buf)' = Whole(buf')
    BY DEF Whole
  <2>3. \A i \in DOMAIN buf' : i + 2 \in DOMAIN buf /\ buf'[i] = buf[i + 2]
    <3>1. DOMAIN buf' = 1 .. Len(buf') /\ Len(buf') \in Nat
      BY <1>6, LenProperties
    <3> QED BY ONLY <1>2, <1>6, <3>1 DEF Dropped
  <2>4. ~kept => \A i \in DOMAIN buf' : buf'[i].part # "stub"
    BY <2>3 DEF BusInv, Left
  <2>5. fed' \subseteq Whole(buf')
    BY <1>1, <1>7 DEF BusInv, Left
  <2>6. conn # "ended" => Ended(w)
    BY <1>0, <1>7 DEF BusInv, Left
  <2> QED BY <1>1, <2>1, <2>2, <2>4, <2>5, <2>6 DEF BusInv, Left
<1>25. DropsAreCounted'
  <2>1. OnSocket' = OnSocket
    BY <1>1 DEF OnSocket
  <2>2. InParser = InParser' \cup {x}
    <3>1. InParser = Whole(buf) /\ InParser' = Whole(buf')
      BY DEF InParser, Whole
    <3> QED BY <1>7, <3>1
  <2>3. OnSocket' \cup InParser' \cup Range(got') = OnSocket \cup InParser \cup Range(got)
    BY ONLY <1>13, <2>1, <2>2
  <2> QED BY <1>1, <2>3 DEF BusInv, DropsAreCounted
<1>26. /\ Coming' \subseteq Coming /\ f \in Coming /\ \A y \in Coming' : x < y.id /\ Lag(f) <= Lag(y)
       /\ \A y \in Coming : Lag(y) \in Int
  <2>1. Coming' \subseteq Coming
    BY <1>0, <1>1, <1>2, <1>6, <1>7, ComingKept
  <2>2. f \in Coming
    BY <1>0, <1>4 DEF Coming
  <2>3. \A y \in Coming' : x < y.id
    <3>1. Coming' = {w[i].f : i \in DOMAIN w} \cup {q[i] : i \in DOMAIN q}
      BY ONLY <1>0, <1>1, Zenon DEF Coming
    <3> QED BY ONLY <1>10, <1>11, <3>1
  <2>4. \A y, z \in Coming : y.id < z.id => Lag(y) <= Lag(z)
    BY DEF BusInv, Lags
  <2>5. \A y \in Coming : Lag(y) \in Int
    BY <1>2, ComingTypes DEF Lag
  <2> QED BY ONLY <1>0, <2>1, <2>2, <2>3, <2>4, <2>5
<1>27. /\ x + 1 - a <= Lag(f) /\ Lag(f) = x - s /\ Lag(f) <= pub.made + 1 - pub.seq
       /\ (t <=> g # <<>>) /\ (g # <<>> => g[Len(g)] + 1 - e <= Lag(f))
  <2>1. Lag(f) = x - s
    BY <1>0, <1>17 DEF Lag
  <2>2. x + 1 - a <= x - s
    BY <1>5, <1>18, <1>19
  <2>3. Lag(f) <= pub.made + 1 - pub.seq /\ (t <=> g # <<>>)
        /\ (g # <<>> => g[Len(g)] + 1 - e <= Lag(f))
    BY <1>13, <1>17, <1>26 DEF BusInv, Lags
  <2> QED BY <2>1, <2>2, <2>3
<1>28. Lags'
  <2>1. \A y \in Coming' : Lag(y) <= pub.made + 1 - pub.seq
    BY <1>26 DEF BusInv, Lags
  <2>2. \A y, z \in Coming' : y.id < z.id => Lag(y) <= Lag(z)
    BY <1>26 DEF BusInv, Lags
  <2>3. PICK n : n = x + 1 - a
    OBVIOUS
  <2>4. n \in Int /\ Lag(f) \in Int /\ n <= Lag(f) /\ pub.made + 1 - pub.seq \in Int
    BY <1>5, <1>20, <1>26, <1>27, <2>3
  <2>5. n <= pub.made + 1 - pub.seq
    BY ONLY <1>27, <2>4
  <2>6. \A y \in Coming' : n <= Lag(y)
    BY ONLY <1>26, <2>4
  <2>7. got'[Len(got')] + 1 - seqs'.expected = n /\ got' # <<>>
    BY ONLY <1>13, <1>21, <2>3
  <2> QED BY ONLY <1>1, <1>21, <2>1, <2>2, <2>5, <2>6, <2>7 DEF Lags, Lag
<1>29. FirstProcess'
  <2>1. ASSUME pub.epoch = 0
        PROVE  pub.seq = pub.made /\ (\A y \in Coming' : Lag(y) = 1) /\ a = x
    <3>1. pub.seq = pub.made /\ (\A y \in Coming : Lag(y) = 1) /\ (g # <<>> => e = g[Len(g)])
      BY <1>13, <1>17, <2>1 DEF BusInv, FirstProcess
    <3>2. x = s + 1
      <4>1. Lag(f) = 1 /\ Lag(f) = x - s
        BY ONLY <1>26, <1>27, <3>1
      <4>2. x \in Nat /\ s \in Nat
        BY ONLY <1>5, <1>18
      <4> QED BY ONLY <4>1, <4>2
    <3>3. t => e < x
      <4>1. g # <<>> => Len(g) \in DOMAIN g
        BY <1>5, <1>13, EmptySeq
      <4> QED BY <1>14, <1>27, <3>1, <4>1
    <3>4. a = s + 1
      BY <1>18, <1>19, <3>2, <3>3
    <3> QED BY <1>26, <3>1, <3>2, <3>4
  <2>2. got'[Len(got')] = x
    BY <1>13
  <2> QED BY <1>1, <1>21, <2>1, <2>2 DEF FirstProcess, Lag
<1>30. LossIsCounted'
  <2>1. Missing = (IF g = <<>> THEN {} ELSE (g[1] .. g[Len(g)]) \ Range(g))
    BY <1>13 DEF Missing
  <2>2. Missing' = (h[1] .. x) \ (Range(g) \cup {x})
    <3>1. h[Len(h)] = x
      BY <1>13
    <3> QED BY <1>13, <3>1 DEF Missing
  <2>3. l <= Cardinality(Missing) /\ (pub.epoch = 0 => l = Cardinality(Missing) /\ d = 0)
    BY <1>17 DEF BusInv, LossIsCounted
  <2>4. CASE g = <<>>
    <3>1. Missing = {} /\ Cardinality({}) = 0
      BY <2>1, <2>4, FS_EmptySet
    <3>2. Missing' = {}
      <4>1. h[1] = x
        BY <1>13, <2>4
      <4> QED BY <1>5, <2>2, <4>1
    <3>3. b = l /\ c = d
      BY <1>19, <1>27, <2>4
    <3> QED BY <1>1, <1>21, <2>3, <3>1, <3>2, <3>3 DEF LossIsCounted
  <2>5. CASE g # <<>>
    <3>1. PICK p, m, n : p = g[Len(g)] /\ m = Cardinality(Missing) /\ n = Cardinality(Missing')
      OBVIOUS
    <3>2. p \in Nat /\ m \in Nat /\ n = m + (x - 1 - p) /\ p < x
      <4>1. Len(g) \in DOMAIN g
        BY <1>5, <1>13, <2>5, EmptySeq
      <4>2. \A i, j \in DOMAIN g : i < j => g[i] < g[j]
        BY <1>3, <1>13 DEF OnlyForward
      <4>3. p < x
        BY <1>14, <3>1, <4>1
      <4>4. h[1] = g[1]
        BY <1>13, <4>1
      <4>5. /\ p \in Nat /\ Cardinality((g[1] .. p) \ Range(g)) \in Nat
            /\ Cardinality((g[1] .. x) \ (Range(g) \cup {x})) = Cardinality((g[1] .. p) \ Range(g)) + (x - 1 - p)
        BY ONLY <1>5, <2>5, <3>1, <4>2, <4>3, MissingGrows
      <4> QED BY <2>1, <2>2, <2>5, <3>1, <4>3, <4>4, <4>5
    <3>3. p + 1 - e <= x - s /\ t
      BY <1>27, <2>5, <3>1
    <3>4. b <= n
      <4>1. l <= m /\ x \in Nat
        BY <1>5, <2>3, <3>1
      <4>2. s - e <= x - 1 - p /\ 0 <= x - 1 - p
        BY ONLY <1>18, <3>2, <3>3, <4>1
      <4>3. b = l + (s - e) \/ b = l
        BY ONLY <1>18, <1>19
      <4> QED BY ONLY <1>18, <3>2, <4>1, <4>2, <4>3
    <3>5. pub.epoch = 0 => b = n /\ c = 0
      <4> SUFFICES ASSUME pub.epoch = 0 PROVE b = n /\ c = 0
        OBVIOUS
      <4>1. e = p /\ Lag(f) = 1 /\ l = m /\ d = 0
        BY <1>13, <1>17, <1>26, <2>3, <2>5, <3>1 DEF BusInv, FirstProcess
      <4>2. x = s + 1
        BY <1>5, <1>18, <1>27, <4>1
      <4> QED BY <1>18, <1>19, <3>2, <3>3, <4>1, <4>2
    <3> QED BY <1>1, <1>21, <3>1, <3>4, <3>5 DEF LossIsCounted
  <2> QED BY <2>4, <2>5
<1> QED BY <1>15, <1>22, <1>23, <1>24, <1>25, <1>28, <1>29, <1>30 DEF BusInv

-----------------------------------------------------------------------------
(* The bus as a whole.                                                     *)

\* The bus starts empty.
LEMMA BusInitInv == ASSUME BusInit PROVE BusInv
<1>1. /\ pub = [up |-> TRUE, epoch |-> 0, seq |-> 0, made |-> 0, joined |-> 0, dropped |-> 0]
      /\ conn = "none" /\ queue = <<>> /\ pipe = <<>> /\ buf = <<>> /\ kept \in BOOLEAN
      /\ source = [connected |-> FALSE, restarts |-> 0]
      /\ seqs = [expected |-> 0, lost |-> 0, duplicate |-> 0, started |-> FALSE]
      /\ got = <<>> /\ fed = {} /\ faults = 0
  BY DEF BusInit
<1>2. MaxFrames \in Nat /\ MaxFaults \in Nat /\ QueueSize \in Nat /\ PipeSize \in Nat
  BY BusAssumption
<1>3. <<>> \in Seq(Cell) /\ <<>> \in Seq(Frame) /\ <<>> \in Seq(Nat \ {0}) /\ Len(<<>>) = 0
      /\ DOMAIN <<>> = {} /\ \A s \in Seq(Cell) : s = <<>> => DOMAIN s = {}
  OBVIOUS
<1>4. Wire = <<>> /\ DOMAIN queue = {} /\ DOMAIN got = {} /\ DOMAIN Wire = {} /\ DOMAIN buf = {} /\ DOMAIN pipe = {}
  BY <1>1, <1>3, NothingRemains DEF Wire
<1>5. BusTypes
  BY <1>1, <1>2, <1>3 DEF BusTypes, Publisher
<1>6. Limits
  BY <1>1, <1>2 DEF Limits
<1>7. Left
  BY <1>1, <1>4 DEF Left, Ended
<1>8. InOrder
  <2>1. Line(Wire)
    BY <1>4 DEF Line
  <2>2. OnlyForward
    BY <1>4 DEF OnlyForward
  <2> QED BY <1>4, <2>1, <2>2 DEF InOrder
<1>9. DropsAreCounted
  BY <1>1 DEF DropsAreCounted
<1>10. Coming = {}
  BY <1>4 DEF Coming
<1>11. Lags /\ FirstProcess
  BY <1>1, <1>10 DEF Lags, FirstProcess
<1>12. LossIsCounted
  BY <1>1, FS_EmptySet DEF LossIsCounted, Missing
<1> QED BY <1>5, <1>6, <1>7, <1>8, <1>9, <1>11, <1>12 DEF BusInv

\* Nothing happens to the bus but, at most, to a statistic.
LEMMA BusRests ==
    ASSUME BusInv, UNCHANGED <<pub, conn, queue, pipe, buf, kept, source, seqs, got, fed, faults>>
    PROVE  BusInv'
<1>1. UNCHANGED <<pub, conn, queue, pipe, buf, kept, source, seqs, got, fed, faults>>
  OBVIOUS
<1>2. Wire' = Wire /\ OnSocket' = OnSocket /\ InParser' = InParser /\ Missing' = Missing
  BY <1>1 DEF Wire, OnSocket, InParser, Missing
<1>3. Coming' = Coming
  BY <1>1, <1>2 DEF Coming
<1>4. BusTypes' /\ Limits'
  BY <1>1 DEF BusInv, BusTypes, Limits
<1>5. Left'
  BY <1>1, <1>2 DEF BusInv, Left, Ended, Whole
<1>6. InOrder'
  BY <1>1, <1>2 DEF BusInv, InOrder, OnlyForward
<1>7. DropsAreCounted' /\ LossIsCounted'
  BY <1>1, <1>2 DEF BusInv, DropsAreCounted, LossIsCounted
<1>8. Lags' /\ FirstProcess'
  BY <1>1, <1>3 DEF BusInv, Lags, FirstProcess, Lag
<1> QED BY <1>4, <1>5, <1>6, <1>7, <1>8 DEF BusInv

\* Every step of the bus, of the gateway behind it and of the others.
LEMMA BusSteps == ASSUME BusInv, [Next]_feedVars PROVE BusInv'
<1>1. CASE OnFrame
  BY <1>1, DeliverKeeps DEF OnFrame
<1>2. CASE Resync
  BY <1>2, ResyncKeeps
<1>3. CASE ConsumerDies
  BY <1>3, ConsumerDiesKeeps
<1>4. CASE ~Parsing /\ PubNext
  <2>1. CASE Named
    BY <2>1, BusRests DEF Named
  <2> QED BY <1>4, <2>1, PublishKeeps, HandleKeeps, WriteKeeps, DieKeeps, StartKeeps DEF PubNext
<1>5. CASE ~Parsing /\ SubNext
  BY <1>5, ConnectKeeps, ReadKeeps, EofKeeps DEF SubNext
<1>6. CASE UNCHANGED busVars
  BY <1>6, BusRests DEF busVars
<1> QED BY <1>1, <1>2, <1>3, <1>4, <1>5, <1>6 DEF Next, GatewayNext, feedVars

\* The statistic of a subscriber counts what was dropped since it has one.
StatInv ==
    /\ stat \in [named : BOOLEAN, dropped : Nat, since : Nat]
    /\ conn # "served" => stat = NoStat
    /\ conn = "served" /\ ~stat.named => stat = NoStat
    /\ stat.named => stat.dropped + stat.since = pub.dropped

\* UDSPublisher.publish counts a drop twice, for itself and for the subscriber.
LEMMA StatPublish == ASSUME BusInv, StatInv, NEW b \in Body, Publish(b) PROVE StatInv'
<1>1. PICK full \in BOOLEAN : full <=> (conn = "served" /\ Len(queue) = QueueSize)
  OBVIOUS
<1>2. PICK n \in BOOLEAN, d \in Nat, e \in Nat, a \in Nat :
        n = stat.named /\ d = stat.dropped /\ e = stat.since /\ a = pub.dropped
  BY DEF BusInv, BusTypes, Publisher, StatInv
<1>3. PICK k \in {0, 1} : k = IF full THEN 1 ELSE 0
  OBVIOUS
<1>4. PICK m \in Nat : m = IF full /\ n THEN d + 1 ELSE d
  BY <1>2
<1>5. stat' = [stat EXCEPT !.dropped = m]
  BY <1>1, <1>2, <1>4 DEF Publish
<1>6. pub'.dropped = a + k
  <2>1. pub' = [pub EXCEPT !.made = @ + 1, !.seq = @ + 1, !.dropped = IF full THEN @ + 1 ELSE @]
    BY <1>1 DEF Publish
  <2>2. pub \in Publisher
    BY DEF BusInv, BusTypes
  <2>3. pub'.dropped = IF full THEN pub.dropped + 1 ELSE pub.dropped
    BY ONLY <2>1, <2>2 DEF Publisher
  <2>4. CASE full
    BY ONLY <1>2, <1>3, <2>3, <2>4
  <2>5. CASE ~full
    BY ONLY <1>2, <1>3, <2>3, <2>5
  <2> QED BY <2>4, <2>5
<1>7. stat \in [named : BOOLEAN, dropped : Nat, since : Nat] /\ conn' = conn
  BY DEF Publish, StatInv
<1>8. /\ stat' \in [named : BOOLEAN, dropped : Nat, since : Nat]
      /\ stat'.named = n /\ stat'.dropped = m /\ stat'.since = e
  BY ONLY <1>2, <1>4, <1>5, <1>7
<1>9. n => d + e = a
  BY <1>2 DEF StatInv
<1>10. n => m + e = a + k
  <2>1. CASE full
    BY ONLY <1>2, <1>3, <1>4, <1>9, <2>1
  <2>2. CASE ~full
    BY ONLY <1>2, <1>3, <1>4, <1>9, <2>2
  <2> QED BY <2>1, <2>2
<1>11. ASSUME ~n PROVE stat' = stat
  <2>1. m = stat.dropped
    BY <1>2, <1>4, <1>11
  <2> QED BY ONLY <1>5, <1>7, <2>1
<1>12. conn # "served" => ~n
  BY <1>2 DEF StatInv, NoStat
<1>13. ~n => (conn # "served" => stat' = NoStat) /\ (conn = "served" => stat' = NoStat)
  BY <1>2, <1>11 DEF StatInv
<1> QED BY <1>6, <1>7, <1>8, <1>10, <1>12, <1>13 DEF StatInv

\* Every other step leaves the statistic alone, or makes a new one or none.
LEMMA StatStep == ASSUME BusInv, StatInv, [Next]_feedVars PROVE StatInv'
<1>1. CASE \E b \in Body : Publish(b)
  BY <1>1, StatPublish
<1>2. CASE Named
  <2>1. /\ stat' = [named |-> TRUE, dropped |-> 0, since |-> pub.dropped]
        /\ pub' = pub /\ conn' = "served"
    BY <1>2 DEF Named
  <2>2. pub.dropped \in Nat
    BY DEF BusInv, BusTypes, Publisher
  <2> QED BY <2>1, <2>2 DEF StatInv
<1>3. CASE stat' = NoStat
  BY <1>3 DEF StatInv, NoStat
<1>4. ASSUME stat' = stat, conn' = conn, pub'.dropped = pub.dropped PROVE StatInv'
  BY <1>4 DEF StatInv
<1>5. CASE stat' = stat /\ conn # "served" /\ conn' # "served"
  <2>1. stat' = NoStat
    BY <1>5 DEF StatInv
  <2> QED BY <1>3, <2>1
<1>6. CASE OnFrame \/ Resync
  BY <1>4, <1>6 DEF OnFrame, Deliver, Resync
<1>7. CASE ConsumerDies \/ Handle \/ Die
  BY <1>3, <1>7 DEF ConsumerDies, Handle, Die
<1>8. CASE Write \/ Read
  BY <1>4, <1>8 DEF Write, Read
<1>9. CASE Connect \/ Eof
  <2>1. stat' = stat /\ conn \in {"none", "ended"} /\ conn' \in {"none", "open"}
    BY <1>9 DEF Connect, Eof
  <2> QED BY <1>5, <2>1
<1>10. CASE Start
  <2>1. stat' = stat /\ conn' = conn
    BY <1>10 DEF Start
  <2>2. pub \in Publisher
    BY DEF BusInv, BusTypes
  <2>3. pub' = [pub EXCEPT !.up = TRUE, !.seq = 0, !.epoch = @ + 1]
    BY <1>10 DEF Start
  <2>4. pub'.dropped = pub.dropped
    BY ONLY <2>2, <2>3 DEF Publisher
  <2> QED BY <1>4, <2>1, <2>4
<1>11. CASE UNCHANGED busVars
  BY <1>4, <1>11 DEF busVars
<1> QED BY <1>1, <1>2, <1>6, <1>7, <1>8, <1>9, <1>10, <1>11
        DEF Next, GatewayNext, feedVars, PubNext, SubNext

\* What the bus keeps is what is claimed of it.
LEMMA BusIsSound == ASSUME BusInv, StatInv PROVE NoSilentLoss
<1>1. BusTypes /\ Limits /\ Left /\ InOrder
  BY DEF BusInv
<1>2. /\ pub \in Publisher /\ source \in [connected : BOOLEAN, restarts : Nat] /\ faults \in Nat
      /\ MaxFrames \in Nat /\ MaxFaults \in Nat /\ QueueSize \in Nat
  BY <1>1, BusAssumption DEF BusTypes
<1>3. pub \in [up : BOOLEAN, epoch : 0 .. MaxFaults, seq : 0 .. MaxFrames,
               made : 0 .. MaxFrames, joined : 0 .. MaxFrames, dropped : 0 .. MaxFrames]
  <2>1. /\ pub.epoch + (IF pub.up THEN 0 ELSE 1) + source.restarts <= faults /\ faults <= MaxFaults
        /\ pub.seq <= pub.made /\ pub.made <= MaxFrames
        /\ pub.joined <= pub.made /\ pub.dropped <= pub.made
    BY <1>1 DEF Limits
  <2>2. /\ pub.up \in BOOLEAN /\ pub.epoch \in Nat /\ pub.seq \in Nat /\ pub.made \in Nat
        /\ pub.joined \in Nat /\ pub.dropped \in Nat /\ source.restarts \in Nat
    BY <1>2 DEF Publisher
  <2>3. pub.epoch <= MaxFaults
    BY ONLY <1>2, <2>1, <2>2
  <2>4. /\ pub.epoch \in 0 .. MaxFaults /\ pub.seq \in 0 .. MaxFrames /\ pub.made \in 0 .. MaxFrames
        /\ pub.joined \in 0 .. MaxFrames /\ pub.dropped \in 0 .. MaxFrames
    BY ONLY <1>2, <2>1, <2>2, <2>3
  <2> QED BY ONLY <1>2, <2>2, <2>4 DEF Publisher
<1>4. source \in [connected : BOOLEAN, restarts : 0 .. MaxFaults] /\ faults \in 0 .. MaxFaults
  <2>1. source.restarts <= MaxFaults /\ faults <= MaxFaults
    <3>1. PICK z : z = IF pub.up THEN 0 ELSE 1
      OBVIOUS
    <3>2. pub.epoch + z + source.restarts <= faults /\ faults <= MaxFaults /\ z \in Nat /\ pub.epoch \in Nat
      BY <1>1, <1>2, <3>1 DEF Limits, Publisher
    <3> QED BY <1>2, <3>2
  <2> QED BY <1>2, <2>1
<1>5. queue \in SeqOf(Frame, QueueSize)
  <2>1. queue \in Seq(Frame) /\ Len(queue) <= QueueSize
    BY <1>1 DEF BusTypes
  <2>2. Len(queue) \in 0 .. QueueSize /\ queue \in [1 .. Len(queue) -> Frame]
    BY <1>2, <2>1, LenProperties
  <2> QED BY <2>2 DEF SeqOf
<1>6. \A s \in {pipe, buf} : \A i \in DOMAIN s :
        s[i].f \in Frame /\ s[i].part \in {"head", "rest", "stub"} /\ s[i].need \in 0 .. Span
  <2>1. \A s \in Seq(Cell) : \A i \in DOMAIN s : s[i] \in Cell
    BY CellSeq
  <2>2. \A c \in Cell : c.f \in Frame /\ c.part \in {"head", "rest", "stub"} /\ c.need \in 0 .. Span
    BY DEF Cell
  <2> QED BY <1>1, <2>1, <2>2 DEF BusTypes
<1>7. Past \subseteq 1 .. MaxFrames
  <2>1. Past \subseteq 1 .. pub.made
    BY <1>1, PastTypes
  <2>2. pub.made \in 0 .. MaxFrames
    BY <1>3
  <2>3. \A m \in 0 .. MaxFrames : 1 .. m \subseteq 1 .. MaxFrames
    BY <1>2
  <2> QED BY <2>1, <2>2, <2>3
<1>8. fed \subseteq InParser
  BY <1>1 DEF Left, InParser, Whole
<1>10. /\ stat \in [named : BOOLEAN, dropped : 0 .. MaxFrames, since : 0 .. MaxFrames]
       /\ stat.named => stat.dropped = pub.dropped - stat.since
  <2>1. PICK n \in BOOLEAN, d \in Nat, e \in Nat, a \in 0 .. MaxFrames :
          n = stat.named /\ d = stat.dropped /\ e = stat.since /\ a = pub.dropped
    BY <1>3 DEF StatInv
  <2>2. n => d + e = a
    BY <2>1 DEF StatInv
  <2>3. ~n => d = 0 /\ e = 0
    BY <2>1 DEF StatInv, NoStat
  <2>4. d \in 0 .. MaxFrames /\ e \in 0 .. MaxFrames /\ (n => d = a - e)
    BY ONLY <1>2, <2>1, <2>2, <2>3
  <2>5. stat \in [named : BOOLEAN, dropped : Nat, since : Nat]
    BY DEF StatInv
  <2> QED BY ONLY <2>1, <2>4, <2>5
<1>9. BusTypeOK
  BY <1>1, <1>3, <1>4, <1>5, <1>6, <1>7, <1>8, <1>10 DEF BusTypeOK, BusTypes, Past
<1> QED BY <1>1, <1>8, <1>9, <1>10 DEF NoSilentLoss, BusInv, InOrder, IntactIsDelivered, DropsHaveAName

\* The inductive invariant of the bus, of every behaviour of the feed.
THEOREM BusInvariant == Spec => [](BusInv /\ StatInv)
<1>1. Init => BusInv /\ StatInv
  BY BusInitInv DEF Init, BusInit, StatInv, NoStat
<1>2. BusInv /\ StatInv /\ [Next]_feedVars => (BusInv /\ StatInv)'
  BY BusSteps, StatStep
<1> QED BY <1>1, <1>2, PTL DEF Spec

\* A frame reaches the consumer once, in order and intact, or is counted where it was
\* lost: UDSPublisher, FrameParser and SequenceTracker over crashes and reconnects.
THEOREM LossIsNeverSilent == Spec => []NoSilentLoss
BY BusInvariant, BusIsSound, PTL

(***************************************************************************)
(* THE WEBSOCKET GATEWAY                                                   *)
(***************************************************************************)

\* A set of numbers up to n that is not empty has a greatest one.
LEMMA Greatest ==
    ASSUME NEW n \in Nat, NEW T \in SUBSET (1 .. n), T # {}
    PROVE  Max(T) \in T /\ \A i \in T : i <= Max(T)
<1>1. PICK R : R = OpToRel(<, Nat)
  OBVIOUS
<1>2. IsWellFoundedOn(R, Nat)
  BY <1>1, NatLessThanWellFounded
<1>3. \A x, y \in Nat : <<y, x>> \in R <=> y < x
  BY <1>1 DEF OpToRel
<1> DEFINE U == {n - i : i \in T}
<1>4. U \subseteq Nat /\ U # {}
  OBVIOUS
<1>5. PICK m \in U : \A x \in U : ~(<<x, m>> \in R)
  BY <1>2, <1>4, WFMin
<1>6. \A x \in U : ~(x < m)
  BY <1>3, <1>4, <1>5, Zenon
<1>7. PICK t \in T : m = n - t
  BY <1>5
<1>8. \A i \in T : i <= t
  <2> TAKE i \in T
  <2>1. n - i \in U /\ n - i \in Nat
    BY <1>4
  <2>2. ~(n - i < m)
    BY <1>6, <2>1, Zenon
  <2>3. i \in Int /\ t \in Int /\ n \in Int
    OBVIOUS
  <2> QED BY <1>7, <2>2, <2>3
<1>9. \E x \in T : \A y \in T : x >= y
  BY <1>7, <1>8
<1> QED BY <1>9 DEF Max

-----------------------------------------------------------------------------
(* The queue of a client.                                                  *)

Kind == {"items"} \cup {b.type : b \in Body}
Msg == [type : Kind, items : [Key -> Nat], n : Nat]
Signals(q) == {i \in DOMAIN q : q[i].type = "signal"}

Conn == [on : BOOLEAN, raw : BOOLEAN, symbols : SUBSET Key, queue : Seq(Msg), resync : BOOLEAN,
         dropped : Nat, frag : Commands \cup {Idle}, view : [Key -> Nat], seen : Nat, sent : Nat,
         typing : Commands \cup {Idle}, plain : BOOLEAN,
         want : [op : {"none"}, raw : BOOLEAN, symbols : SUBSET Key]]

\* A queue with one message more has one signal more if that is one.
LEMMA SignalsAppend ==
    ASSUME NEW q \in Seq(Msg), NEW m \in Msg
    PROVE  /\ IsFiniteSet(Signals(q)) /\ Cardinality(Signals(q)) \in Nat
           /\ Cardinality(Signals(Append(q, m)))
                  = Cardinality(Signals(q)) + (IF m.type = "signal" THEN 1 ELSE 0)
<1>1. Len(q) \in Nat /\ DOMAIN q = 1 .. Len(q)
  BY LenProperties
<1>2. IsFiniteSet(Signals(q))
  <2>1. IsFiniteSet(1 .. Len(q))
    BY <1>1, FS_Interval
  <2>2. Signals(q) \in SUBSET (1 .. Len(q))
    BY <1>1 DEF Signals
  <2> QED BY <2>1, <2>2, FS_Subset
<1>3. Cardinality(Signals(q)) \in Nat
  BY <1>2, FS_CardinalityType
<1> DEFINE r == Append(q, m)
<1>4. /\ DOMAIN r = 1 .. (Len(q) + 1) /\ r[Len(q) + 1] = m
      /\ \A i \in 1 .. Len(q) : r[i] = q[i]
  <2>1. r \in Seq(Msg) /\ Len(r) = Len(q) + 1
    BY AppendProperties
  <2>2. DOMAIN r = 1 .. Len(r)
    BY <2>1, LenProperties
  <2> QED BY <2>1, <2>2, AppendProperties
<1>5. CASE m.type = "signal"
  <2>1. Signals(r) = Signals(q) \cup {Len(q) + 1}
    BY <1>1, <1>4, <1>5 DEF Signals
  <2>2. Len(q) + 1 \notin Signals(q)
    BY <1>1 DEF Signals
  <2> QED BY <1>2, <1>3, <1>5, <2>1, <2>2, FS_AddElement
<1>6. CASE m.type # "signal"
  <2>1. Signals(r) = Signals(q)
    BY <1>1, <1>4, <1>6 DEF Signals
  <2> QED BY <1>2, <1>3, <1>6, <2>1
<1> QED BY <1>5, <1>6

\* A queue without its first message has one signal less if that was one.
LEMMA SignalsTail ==
    ASSUME NEW q \in Seq(Msg), q # <<>>
    PROVE  /\ Cardinality(Signals(q)) \in Nat /\ Cardinality(Signals(Tail(q))) \in Nat
           /\ Cardinality(Signals(q))
                  = Cardinality(Signals(Tail(q))) + (IF Head(q).type = "signal" THEN 1 ELSE 0)
<1>1. Len(q) \in Nat \ {0} /\ DOMAIN q = 1 .. Len(q) /\ Head(q) = q[1]
  BY LenProperties, EmptySeq
<1>2. /\ Tail(q) \in Seq(Msg) /\ Len(Tail(q)) = Len(q) - 1
      /\ \A i \in 1 .. (Len(q) - 1) : Tail(q)[i] = q[i + 1]
  BY HeadTailProperties
<1>3. DOMAIN Tail(q) = 1 .. (Len(q) - 1)
  BY <1>2, LenProperties
<1> DEFINE S == Signals(Tail(q))
           T == Signals(q) \ {1}
           f == [i \in S |-> i + 1]
<1>4. IsFiniteSet(S) /\ IsFiniteSet(Signals(q))
  <2>1. IsFiniteSet(1 .. Len(q))
    BY <1>1, FS_Interval
  <2>2. Signals(q) \in SUBSET (1 .. Len(q)) /\ S \in SUBSET (1 .. Len(q))
    BY <1>1, <1>3 DEF Signals
  <2> QED BY <2>1, <2>2, FS_Subset
<1>5. f \in Bijection(S, T)
  <2>0. \A i \in S : i \in Int /\ i \in 1 .. (Len(q) - 1) /\ q[i + 1].type = "signal"
    BY <1>1, <1>2, <1>3 DEF Signals
  <2>1. \A i \in S : i + 1 \in T
    BY <1>1, <2>0 DEF Signals
  <2>2. f \in [S -> T]
    BY <2>1
  <2>3. \A i, j \in S : f[i] = f[j] => i = j
    BY <2>0
  <2>4. \A t \in T : \E i \in S : f[i] = t
    <3> TAKE t \in T
    <3>1. t \in 2 .. Len(q) /\ q[t].type = "signal" /\ t \in Int
      BY <1>1 DEF Signals
    <3>2. t - 1 \in 1 .. (Len(q) - 1) /\ (t - 1) + 1 = t
      BY <1>1, <3>1
    <3>3. Tail(q)[t - 1] = q[t]
      BY <1>2, <3>2
    <3>4. t - 1 \in S
      BY <1>3, <3>1, <3>2, <3>3 DEF Signals
    <3> QED BY <3>2, <3>4
  <2> QED BY <2>2, <2>3, <2>4 DEF Bijection, Injection, Surjection, IsInjective
<1>6. Cardinality(T) = Cardinality(S)
  BY <1>4, <1>5, FS_Bijection DEF ExistsBijection
<1>7. Cardinality(S) \in Nat /\ Cardinality(Signals(q)) \in Nat
  BY <1>4, FS_CardinalityType
<1>8. Cardinality(T) = IF 1 \in Signals(q) THEN Cardinality(Signals(q)) - 1
                       ELSE Cardinality(Signals(q))
  BY <1>4, FS_RemoveElement
<1>9. 1 \in Signals(q) <=> Head(q).type = "signal"
  BY <1>1 DEF Signals
<1> QED BY <1>6, <1>7, <1>8, <1>9

\* What a browser will show of a symbol no message of its queue has.
LEMMA ShowsView ==
    ASSUME NEW c \in Conn, NEW k \in Key, \A i \in DOMAIN c.queue : c.queue[i].items[k] = 0
    PROVE  Shows(c, k) = c.view[k]
  BY DEF Shows

\* Otherwise it is what the last message that has it says.
LEMMA ShowsLast ==
    ASSUME NEW c \in Conn, NEW k \in Key, NEW i \in DOMAIN c.queue, c.queue[i].items[k] # 0
    PROVE  \E j \in DOMAIN c.queue :
              /\ c.queue[j].items[k] # 0 /\ Shows(c, k) = c.queue[j].items[k]
              /\ \A l \in DOMAIN c.queue : l > j => c.queue[l].items[k] = 0
<1> DEFINE at == {l \in DOMAIN c.queue : c.queue[l].items[k] # 0}
<1>1. c.queue \in Seq(Msg)
  BY DEF Conn
<1>2. Len(c.queue) \in Nat /\ DOMAIN c.queue = 1 .. Len(c.queue)
  BY <1>1, LenProperties
<1>3. at \in SUBSET (1 .. Len(c.queue)) /\ at # {}
  BY <1>2
<1>5. Shows(c, k) = c.queue[Max(at)].items[k]
  BY <1>3, Zenon DEF Shows
<1> HIDE DEF at
<1>4. Max(at) \in at /\ \A l \in at : l <= Max(at)
  BY <1>2, <1>3, Greatest
<1>6. PICK j : j = Max(at)
  OBVIOUS
<1>7. j \in at /\ \A l \in at : l <= j
  BY <1>4, <1>6, Zenon
<1>8. \A l \in DOMAIN c.queue : l > j => l \notin at
  BY <1>2, <1>3, <1>7
<1>9. j \in DOMAIN c.queue /\ c.queue[j].items[k] # 0 /\ Shows(c, k) = c.queue[j].items[k]
  BY <1>5, <1>6, <1>7 DEF at
<1>10. \A l \in DOMAIN c.queue : l > j => c.queue[l].items[k] = 0
  BY <1>8 DEF at
<1> QED BY <1>9, <1>10

\* Two clients with the same last message that has the symbol show the same.
LEMMA ShowsAt ==
    ASSUME NEW c \in Conn, NEW k \in Key, NEW j \in DOMAIN c.queue,
           c.queue[j].items[k] # 0,
           \A l \in DOMAIN c.queue : l > j => c.queue[l].items[k] = 0
    PROVE  Shows(c, k) = c.queue[j].items[k]
<1>1. PICK i \in DOMAIN c.queue :
          /\ c.queue[i].items[k] # 0 /\ Shows(c, k) = c.queue[i].items[k]
          /\ \A l \in DOMAIN c.queue : l > i => c.queue[l].items[k] = 0
  BY ShowsLast
<1>2. c.queue \in Seq(Msg)
  BY DEF Conn
<1>3. i \in Int /\ j \in Int
  BY <1>2, LenProperties
<1>4. ~(i < j) /\ ~(j < i)
  BY <1>1, <1>3
<1>5. i = j
  BY <1>3, <1>4
<1> QED BY <1>1, <1>5
-----------------------------------------------------------------------------
(* What holds of each client, with the snapshot and the dirty symbols of   *)
(* the gateway.                                                            *)

Fits(c) == c \in Conn /\ Len(c.queue) <= ClientQueue
Obeys(c) ==
    /\ c.typing = c.frag
    /\ c.on /\ c.plain => ~c.raw
    /\ c.resync => c.dropped > 0
    /\ c.on => c.raw = c.want.raw /\ c.symbols = c.want.symbols
Counts(c, more) == c.dropped = 0 => c.sent = c.seen + Cardinality(Signals(c.queue)) + more
Truthful(c, snap) ==
    \A k \in Key : snap[k] = 0 =>
        c.view[k] = 0 /\ \A i \in DOMAIN c.queue : c.queue[i].items[k] = 0
Current(c, snap, dirt) ==
    c.on /\ c.plain /\ ~c.resync => \A k \in Wanted(c) \ dirt : Shows(c, k) = snap[k]

Served(c, snap, dirt) ==
    Fits(c) /\ Obeys(c) /\ Counts(c, 0) /\ Truthful(c, snap) /\ Current(c, snap, dirt)

WsTypes == snapshot \in [Key -> Nat] /\ cl \in [Client -> Conn]
DirtyIsKnown == \A k \in Key : k \in dirty => snapshot[k] # 0
WsInv == WsTypes /\ DirtyIsKnown /\ \A c \in Client : Served(cl[c], snapshot, dirty)

\* _enqueue writes the queue, the statistic and the mark, and nothing else.
LEMMA EnqueueFields ==
    ASSUME NEW c \in Conn, NEW m \in Msg, Len(c.queue) <= ClientQueue
    PROVE  LET e == Enqueue(c, m) IN
           /\ e \in Conn /\ Len(e.queue) <= ClientQueue
           /\ e.on = c.on /\ e.raw = c.raw /\ e.symbols = c.symbols /\ e.frag = c.frag
           /\ e.view = c.view /\ e.seen = c.seen /\ e.sent = c.sent /\ e.typing = c.typing
           /\ e.plain = c.plain /\ e.want = c.want
           /\ \/ /\ e.queue = Append(c.queue, m)
                 /\ e.dropped = c.dropped /\ e.resync = c.resync
              \/ /\ c.queue # <<>> /\ e.queue = Append(Tail(c.queue), m)
                 /\ e.dropped = c.dropped + 1 /\ e.resync
<1> DEFINE e == Enqueue(c, m)
           full == Len(c.queue) = ClientQueue
<1>1. c.queue \in Seq(Msg) /\ Len(c.queue) \in Nat /\ ClientQueue \in Nat \ {0}
  BY WsAssumption, LenProperties DEF Conn
<1>2. \E r \in BOOLEAN : r = (c.resync \/ full)
  OBVIOUS
<1>r. PICK r \in BOOLEAN : r = (c.resync \/ full)
  BY <1>2
<1>d. PICK d : d = IF full THEN c.dropped + 1 ELSE c.dropped
  OBVIOUS
<1>q. PICK q : q = Append(IF full THEN Tail(c.queue) ELSE c.queue, m)
  OBVIOUS
<1>e. e = [c EXCEPT !.queue = q, !.dropped = d, !.resync = r]
  BY <1>r, <1>d, <1>q, Zenon DEF Enqueue
<1>f. e = [on |-> c.on, raw |-> c.raw, symbols |-> c.symbols, queue |-> q, resync |-> r,
           dropped |-> d, frag |-> c.frag, view |-> c.view, seen |-> c.seen, sent |-> c.sent,
           typing |-> c.typing, plain |-> c.plain, want |-> c.want]
  BY <1>e DEF Conn
<1>3. c.dropped \in Nat /\ c.resync \in BOOLEAN
  BY DEF Conn
<1> HIDE DEF e
<1>g. /\ e.on = c.on /\ e.raw = c.raw /\ e.symbols = c.symbols /\ e.frag = c.frag
      /\ e.view = c.view /\ e.seen = c.seen /\ e.sent = c.sent /\ e.typing = c.typing
      /\ e.plain = c.plain /\ e.want = c.want
  BY <1>f
<1>4. CASE full
  <2>1. c.queue # <<>>
    BY <1>1, <1>4, EmptySeq
  <2>2. Tail(c.queue) \in Seq(Msg) /\ Len(Tail(c.queue)) = ClientQueue - 1
    BY <1>1, <1>4, <2>1, HeadTailProperties
  <2>3. Append(Tail(c.queue), m) \in Seq(Msg) /\ Len(Append(Tail(c.queue), m)) = ClientQueue - 1 + 1
    BY <2>2, AppendProperties
  <2>4. e.queue = Append(Tail(c.queue), m) /\ e.resync = TRUE /\ e.dropped = c.dropped + 1
    BY <1>f, <1>q, <1>r, <1>d, <1>4
  <2>5. e \in Conn
    <3>1. d \in Nat /\ q \in Seq(Msg)
      BY <1>3, <1>d, <1>q, <1>4, <2>3
    <3> QED BY <1>f, <3>1 DEF Conn
  <2>6. Len(e.queue) <= ClientQueue
    BY <1>1, <2>3, <2>4
  <2> QED BY <1>g, <2>1, <2>4, <2>5, <2>6, Zenon DEF e
<1>5. CASE ~full
  <2>1. Append(c.queue, m) \in Seq(Msg) /\ Len(Append(c.queue, m)) = Len(c.queue) + 1
    BY <1>1, AppendProperties
  <2>r. r = c.resync
    BY ONLY <1>r, <1>3, <1>5, r \in BOOLEAN
  <2>2. e.queue = Append(c.queue, m) /\ e.resync = c.resync /\ e.dropped = c.dropped
    BY <1>f, <1>q, <1>d, <1>5, <2>r
  <2>3. e \in Conn
    <3>1. d \in Nat /\ q \in Seq(Msg)
      BY <1>3, <1>d, <1>q, <1>5, <2>1
    <3> QED BY <1>f, <3>1 DEF Conn
  <2>4. Len(e.queue) <= ClientQueue
    BY <1>1, <1>5, <2>1, <2>2
  <2> QED BY <1>g, <2>2, <2>3, <2>4, Zenon DEF e
<1> QED BY <1>4, <1>5

\* A message more is shown last.
LEMMA ShowsAppend ==
    ASSUME NEW c \in Conn, NEW e \in Conn, NEW m \in Msg, NEW k \in Key,
           e.view = c.view, e.queue = Append(c.queue, m)
    PROVE  Shows(e, k) = IF m.items[k] # 0 THEN m.items[k] ELSE Shows(c, k)
<1> DEFINE n == Len(c.queue)
<1>1. c.queue \in Seq(Msg) /\ n \in Nat /\ DOMAIN c.queue = 1 .. n
  BY LenProperties DEF Conn
<1>2. /\ DOMAIN e.queue = 1 .. (n + 1) /\ e.queue[n + 1] = m
      /\ \A i \in 1 .. n : e.queue[i] = c.queue[i]
  <2>1. e.queue \in Seq(Msg) /\ Len(e.queue) = n + 1
    BY <1>1, AppendProperties
  <2>2. DOMAIN e.queue = 1 .. Len(e.queue)
    BY <2>1, LenProperties
  <2> QED BY <1>1, <2>1, <2>2, AppendProperties
<1> HIDE DEF n
<1>3. CASE m.items[k] # 0
  <2>1. n + 1 \in DOMAIN e.queue /\ e.queue[n + 1].items[k] # 0
    BY <1>1, <1>2, <1>3
  <2>2. \A l \in DOMAIN e.queue : l > n + 1 => e.queue[l].items[k] = 0
    BY <1>1, <1>2
  <2>3. Shows(e, k) = e.queue[n + 1].items[k]
    BY <2>1, <2>2, ShowsAt
  <2> QED BY <1>2, <1>3, <2>3
<1>4. CASE m.items[k] = 0 /\ \A i \in DOMAIN c.queue : c.queue[i].items[k] = 0
  <2>1. \A i \in DOMAIN e.queue : e.queue[i].items[k] = 0
    BY <1>1, <1>2, <1>4
  <2> QED BY <1>4, <2>1, ShowsView
<1>5. CASE m.items[k] = 0 /\ \E i \in DOMAIN c.queue : c.queue[i].items[k] # 0
  <2>1. PICK j \in DOMAIN c.queue :
              /\ c.queue[j].items[k] # 0 /\ Shows(c, k) = c.queue[j].items[k]
              /\ \A l \in DOMAIN c.queue : l > j => c.queue[l].items[k] = 0
    BY <1>5, ShowsLast
  <2>2. j \in DOMAIN e.queue /\ e.queue[j] = c.queue[j]
    BY <1>1, <1>2
  <2>3. \A l \in DOMAIN e.queue : l > j => e.queue[l].items[k] = 0
    BY <1>1, <1>2, <1>5, <2>1
  <2>4. Shows(e, k) = e.queue[j].items[k]
    BY <2>1, <2>2, <2>3, ShowsAt
  <2> QED BY <1>5, <2>1, <2>2, <2>4
<1> QED BY <1>3, <1>4, <1>5

\* _enqueue keeps the promises to its client; what is shown changes with the message.
LEMMA EnqueueServes ==
    ASSUME NEW c, NEW m \in Msg, NEW snap, Fits(c), Obeys(c), Truthful(c, snap),
           Counts(c, IF m.type = "signal" THEN 1 ELSE 0),
           \A k \in Key : snap[k] = 0 => m.items[k] = 0
    PROVE  LET e == Enqueue(c, m) IN
           /\ Fits(e) /\ Obeys(e) /\ Truthful(e, snap) /\ Counts(e, 0)
           /\ Wanted(e) = Wanted(c) /\ e.on = c.on /\ e.plain = c.plain
           /\ ~e.resync => /\ ~c.resync
                           /\ \A k \in Key : Shows(e, k) = IF m.items[k] # 0 THEN m.items[k] ELSE Shows(c, k)
<1> DEFINE e == Enqueue(c, m)
<1>0. c \in Conn /\ Len(c.queue) <= ClientQueue
  BY DEF Fits
<1>1. /\ e \in Conn /\ Len(e.queue) <= ClientQueue
      /\ e.on = c.on /\ e.raw = c.raw /\ e.symbols = c.symbols /\ e.frag = c.frag
      /\ e.view = c.view /\ e.seen = c.seen /\ e.sent = c.sent /\ e.typing = c.typing
      /\ e.plain = c.plain /\ e.want = c.want
  BY <1>0, EnqueueFields
<1>2. \/ /\ e.queue = Append(c.queue, m)
         /\ e.dropped = c.dropped /\ e.resync = c.resync
      \/ /\ c.queue # <<>> /\ e.queue = Append(Tail(c.queue), m)
         /\ e.dropped = c.dropped + 1 /\ e.resync
  BY <1>0, EnqueueFields
<1> HIDE DEF e
<1>3. Fits(e)
  BY <1>1 DEF Fits
<1>4. Obeys(e)
  <2>1. c.dropped \in Nat
    BY <1>0 DEF Conn
  <2>2. e.resync => e.dropped > 0
    <3>1. CASE e.dropped = c.dropped + 1
      BY <2>1, <3>1
    <3>2. CASE e.dropped = c.dropped /\ e.resync = c.resync
      BY <3>2 DEF Obeys
    <3> QED BY <1>2, <3>1, <3>2
  <2> QED BY <1>1, <2>2 DEF Obeys
<1>5. Counts(e, 0)
  <2> SUFFICES ASSUME e.dropped = 0 PROVE e.sent = e.seen + Cardinality(Signals(e.queue)) + 0
    BY DEF Counts
  <2>1. c.dropped \in Nat /\ c.sent \in Nat /\ c.seen \in Nat /\ c.queue \in Seq(Msg)
    BY <1>0 DEF Conn
  <2>2. e.queue = Append(c.queue, m) /\ c.dropped = 0
    BY <1>2, <2>1
  <2>3. /\ Cardinality(Signals(c.queue)) \in Nat
        /\ Cardinality(Signals(e.queue))
               = Cardinality(Signals(c.queue)) + (IF m.type = "signal" THEN 1 ELSE 0)
    BY <2>1, <2>2, SignalsAppend
  <2>4. c.sent = c.seen + Cardinality(Signals(c.queue)) + (IF m.type = "signal" THEN 1 ELSE 0)
    BY <2>2 DEF Counts
  <2>5. CASE m.type = "signal"
    BY <1>1, <2>1, <2>3, <2>4, <2>5
  <2>6. CASE m.type # "signal"
    BY <1>1, <2>1, <2>3, <2>4, <2>6
  <2> QED BY <2>5, <2>6
<1>6. Truthful(e, snap)
  <2> SUFFICES ASSUME NEW k \in Key, snap[k] = 0
               PROVE  e.view[k] = 0 /\ \A i \in DOMAIN e.queue : e.queue[i].items[k] = 0
    BY DEF Truthful
  <2>1. c.view[k] = 0 /\ \A i \in DOMAIN c.queue : c.queue[i].items[k] = 0
    BY DEF Truthful
  <2>2. PICK q \in Seq(Msg) : /\ e.queue = Append(q, m)
                              /\ \A i \in DOMAIN q : q[i].items[k] = 0
    <3>1. c.queue \in Seq(Msg)
      BY <1>0 DEF Conn
    <3>2. CASE e.queue = Append(c.queue, m)
      BY <2>1, <3>1, <3>2
    <3>3. CASE c.queue # <<>> /\ e.queue = Append(Tail(c.queue), m)
      <4>1. /\ Tail(c.queue) \in Seq(Msg) /\ Len(Tail(c.queue)) = Len(c.queue) - 1
            /\ \A i \in 1 .. Len(Tail(c.queue)) : Tail(c.queue)[i] = c.queue[i + 1]
        BY <3>1, <3>3, HeadTailProperties
      <4>2. DOMAIN Tail(c.queue) = 1 .. Len(Tail(c.queue)) /\ DOMAIN c.queue = 1 .. Len(c.queue)
            /\ Len(c.queue) \in Nat
        BY <3>1, <4>1, LenProperties
      <4>3. \A i \in DOMAIN Tail(c.queue) : i + 1 \in DOMAIN c.queue /\ Tail(c.queue)[i] = c.queue[i + 1]
        BY <4>1, <4>2
      <4>4. \A i \in DOMAIN Tail(c.queue) : Tail(c.queue)[i].items[k] = 0
        BY <2>1, <4>3
      <4> QED BY <3>3, <4>1, <4>4
    <3> QED BY <1>2, <3>2, <3>3
  <2>3. e.queue \in Seq(Msg) /\ Len(e.queue) = Len(q) + 1 /\ Len(q) \in Nat
        /\ e.queue[Len(q) + 1] = m /\ \A i \in 1 .. Len(q) : e.queue[i] = q[i]
    BY <2>2, AppendProperties, LenProperties
  <2>4. DOMAIN e.queue = 1 .. (Len(q) + 1) /\ DOMAIN q = 1 .. Len(q)
    BY <2>2, <2>3, LenProperties
  <2>5. \A i \in DOMAIN e.queue : e.queue[i].items[k] = 0
    BY <2>2, <2>3, <2>4
  <2> QED BY <1>1, <2>1, <2>5
<1>7. Wanted(e) = Wanted(c)
  BY <1>1 DEF Wanted
<1>8. ASSUME ~e.resync
      PROVE  /\ ~c.resync
             /\ \A k \in Key : Shows(e, k) = IF m.items[k] # 0 THEN m.items[k] ELSE Shows(c, k)
  <2>1. e.queue = Append(c.queue, m) /\ ~c.resync
    BY <1>2, <1>8
  <2> QED BY <1>0, <1>1, <2>1, ShowsAppend
<1> QED BY <1>1, <1>3, <1>4, <1>5, <1>6, <1>7, <1>8 DEF e

-----------------------------------------------------------------------------
(* The clients of an action.                                               *)

\* What Items says of a symbol is what the gateway knows.
LEMMA ItemsMsg ==
    ASSUME WsTypes, NEW S
    PROVE  /\ Items(S) \in Msg /\ Items(S).type = "items"
           /\ \A k \in Key : Items(S).items[k] = IF k \in S THEN snapshot[k] ELSE 0
<1>1. [k \in Key |-> IF k \in S THEN snapshot[k] ELSE 0] \in [Key -> Nat]
  BY DEF WsTypes
<1> QED BY <1>1 DEF Items, Msg, Kind

\* A connection that is off promises nothing.
LEMMA OffServed ==
    ASSUME NEW snap, NEW dirt
    PROVE  Served(Off, snap, dirt)
<1>1. Off \in Conn /\ Len(Off.queue) = 0
  <2>1. <<>> \in Seq(Msg) /\ Len(<<>>) = 0 /\ Nothing \in [Key -> Nat] /\ {} \in SUBSET Key
    BY EmptySeq DEF Nothing
  <2> QED BY <2>1 DEF Off, Conn, Idle
<1>2. Signals(Off.queue) = {} /\ DOMAIN Off.queue = {}
  BY DEF Off, Signals
<1>3. Fits(Off)
  BY <1>1, WsAssumption DEF Fits
<1>4. Obeys(Off)
  BY DEF Obeys, Off
<1>5. Counts(Off, 0)
  BY <1>2, FS_EmptySet DEF Counts, Off
<1>6. Truthful(Off, snap)
  <2>1. \A k \in Key : Off.view[k] = 0
    BY DEF Off, Nothing
  <2> QED BY <1>2, <2>1 DEF Truthful
<1>7. Current(Off, snap, dirt)
  BY DEF Current, Off
<1> QED BY <1>3, <1>4, <1>5, <1>6, <1>7 DEF Served

\* A pass of the coalescer over one client: afterwards nothing waits for the next one.
LEMMA TickServes ==
    ASSUME WsTypes, DirtyIsKnown, NEW c, Served(c, snapshot, dirty)
    PROVE  Served(Tick(c), snapshot, {}) /\ Tick(c) \in Conn
<1>0. /\ c \in Conn /\ Len(c.queue) <= ClientQueue /\ Fits(c) /\ Obeys(c) /\ Counts(c, 0)
      /\ Truthful(c, snapshot) /\ Current(c, snapshot, dirty)
  BY DEF Served, Fits
<1>1. CASE ~c.on \/ c.raw
  <2>1. Tick(c) = c
    BY <1>1 DEF Tick
  <2>2. Current(c, snapshot, {})
    BY <1>0, <1>1 DEF Current, Obeys
  <2> QED BY <1>0, <2>1, <2>2 DEF Served
<1>2. CASE c.on /\ ~c.raw /\ ~c.resync /\ dirty \cap Wanted(c) = {}
  <2>1. Tick(c) = c
    BY <1>2 DEF Tick
  <2>2. Current(c, snapshot, {})
    BY <1>0, <1>2 DEF Current
  <2> QED BY <1>0, <2>1, <2>2 DEF Served
<1>3. CASE c.on /\ ~c.raw /\ ~c.resync /\ dirty \cap Wanted(c) # {}
  <2> DEFINE m == Items(dirty \cap Wanted(c))
             e == Enqueue(c, m)
  <2>1. Tick(c) = e
    BY <1>3 DEF Tick
  <2>2. /\ m \in Msg /\ m.type = "items"
        /\ \A k \in Key : m.items[k] = IF k \in dirty \cap Wanted(c) THEN snapshot[k] ELSE 0
    BY ItemsMsg
  <2> HIDE DEF m
  <2>3. \A k \in Key : snapshot[k] = 0 => m.items[k] = 0
    BY <2>2
  <2>4. Counts(c, IF m.type = "signal" THEN 1 ELSE 0)
    BY <1>0, <2>2
  <2>5. /\ Fits(e) /\ Obeys(e) /\ Truthful(e, snapshot) /\ Counts(e, 0)
        /\ Wanted(e) = Wanted(c) /\ e.on = c.on /\ e.plain = c.plain
        /\ ~e.resync => /\ ~c.resync
                        /\ \A k \in Key : Shows(e, k) = IF m.items[k] # 0 THEN m.items[k] ELSE Shows(c, k)
    BY <1>0, <2>2, <2>3, <2>4, EnqueueServes
  <2> HIDE DEF e
  <2>6. Current(e, snapshot, {})
    <3> SUFFICES ASSUME e.on, e.plain, ~e.resync, NEW k \in Wanted(e)
                 PROVE  Shows(e, k) = snapshot[k]
      BY DEF Current
    <3>1. k \in Wanted(c) /\ k \in Key /\ c.on /\ c.plain /\ ~c.resync
      BY <2>5 DEF Wanted
    <3>2. Shows(e, k) = IF m.items[k] # 0 THEN m.items[k] ELSE Shows(c, k)
      BY <2>5, <3>1
    <3>3. CASE k \in dirty
      BY <2>2, <3>1, <3>2, <3>3 DEF DirtyIsKnown
    <3>4. CASE k \notin dirty
      BY <1>0, <2>2, <3>1, <3>2, <3>4 DEF Current
    <3> QED BY <3>3, <3>4
  <2> QED BY <2>1, <2>5, <2>6 DEF Served, Fits
<1>4. CASE c.on /\ ~c.raw /\ c.resync /\ Known \cap Wanted(c) = {}
  <2> DEFINE e == [c EXCEPT !.resync = FALSE]
  <2>1. Tick(c) = e
    BY <1>4 DEF Tick
  <2>2. /\ e \in Conn /\ e.on = c.on /\ e.raw = c.raw /\ e.symbols = c.symbols /\ e.frag = c.frag
        /\ e.view = c.view /\ e.seen = c.seen /\ e.sent = c.sent /\ e.typing = c.typing
        /\ e.plain = c.plain /\ e.want = c.want /\ e.queue = c.queue /\ e.dropped = c.dropped
        /\ ~e.resync
    BY <1>0 DEF Conn
  <2> HIDE DEF e
  <2>3. Fits(e) /\ Obeys(e) /\ Counts(e, 0) /\ Truthful(e, snapshot)
    BY <1>0, <2>2 DEF Fits, Obeys, Counts, Truthful
  <2>4. Current(e, snapshot, {})
    <3> SUFFICES ASSUME NEW k \in Wanted(e) PROVE Shows(e, k) = snapshot[k]
      BY DEF Current
    <3>1. k \in Wanted(c) /\ k \in Key
      BY <2>2 DEF Wanted
    <3>2. snapshot[k] = 0
      BY <1>4, <3>1 DEF Known
    <3>3. e.view[k] = 0 /\ \A i \in DOMAIN e.queue : e.queue[i].items[k] = 0
      BY <2>3, <3>1, <3>2 DEF Truthful
    <3> QED BY <2>2, <3>1, <3>2, <3>3, ShowsView
  <2> QED BY <2>1, <2>2, <2>3, <2>4 DEF Served
<1>5. CASE c.on /\ ~c.raw /\ c.resync /\ Known \cap Wanted(c) # {}
  <2> DEFINE m == Items(Known \cap Wanted(c))
             e == [c EXCEPT !.resync = FALSE, !.queue = <<m>>]
  <2>1. Tick(c) = e
    BY <1>5 DEF Tick
  <2>2. /\ m \in Msg /\ m.type = "items"
        /\ \A k \in Key : m.items[k] = IF k \in Known \cap Wanted(c) THEN snapshot[k] ELSE 0
    BY ItemsMsg
  <2> HIDE DEF m
  <2>3. <<m>> \in Seq(Msg) /\ Len(<<m>>) = 1 /\ DOMAIN <<m>> = {1} /\ <<m>>[1] = m
    BY <2>2
  <2>4. /\ e \in Conn /\ e.on = c.on /\ e.raw = c.raw /\ e.symbols = c.symbols /\ e.frag = c.frag
        /\ e.view = c.view /\ e.seen = c.seen /\ e.sent = c.sent /\ e.typing = c.typing
        /\ e.plain = c.plain /\ e.want = c.want /\ e.queue = <<m>> /\ e.dropped = c.dropped
        /\ ~e.resync
    BY <1>0, <2>3 DEF Conn
  <2> HIDE DEF e
  <2>5. Fits(e)
    BY <2>3, <2>4, WsAssumption DEF Fits
  <2>6. Obeys(e)
    BY <1>0, <2>4 DEF Obeys
  <2>7. Counts(e, 0)
    <3>1. c.dropped \in Nat /\ c.dropped > 0
      BY <1>0, <1>5 DEF Conn, Obeys
    <3> QED BY <2>4, <3>1 DEF Counts
  <2>8. Truthful(e, snapshot)
    BY <1>0, <2>2, <2>3, <2>4 DEF Truthful
  <2>9. Current(e, snapshot, {})
    <3> SUFFICES ASSUME NEW k \in Wanted(e) PROVE Shows(e, k) = snapshot[k]
      BY DEF Current
    <3>1. k \in Wanted(c) /\ k \in Key
      BY <2>4 DEF Wanted
    <3>2. CASE snapshot[k] = 0
      <4>1. e.view[k] = 0 /\ \A i \in DOMAIN e.queue : e.queue[i].items[k] = 0
        BY <2>8, <3>1, <3>2 DEF Truthful
      <4> QED BY <2>4, <3>1, <3>2, <4>1, ShowsView
    <3>3. CASE snapshot[k] # 0
      <4>1. k \in Known \cap Wanted(c)
        BY <3>1, <3>3 DEF Known
      <4>2. m.items[k] = snapshot[k]
        BY <2>2, <3>1, <4>1
      <4>3. 1 \in DOMAIN e.queue /\ e.queue[1] = m /\ \A l \in DOMAIN e.queue : l > 1 => e.queue[l].items[k] = 0
        BY <2>3, <2>4
      <4> QED BY <2>4, <3>1, <3>3, <4>2, <4>3, ShowsAt
    <3> QED BY <3>2, <3>3
  <2> QED BY <2>1, <2>4, <2>5, <2>6, <2>7, <2>8, <2>9 DEF Served
<1>6. c.on \in BOOLEAN /\ c.raw \in BOOLEAN /\ c.resync \in BOOLEAN
  BY <1>0 DEF Conn
<1> QED BY <1>1, <1>2, <1>3, <1>4, <1>5, <1>6

\* A newer state of a symbol waits for the next pass.
LEMMA NewsServes ==
    ASSUME WsTypes, NEW c, Served(c, snapshot, dirty), NEW sym \in Key, NEW n \in Nat \ {0}
    PROVE  Served(c, [snapshot EXCEPT ![sym] = n], dirty \cup {sym})
<1> DEFINE s == [snapshot EXCEPT ![sym] = n]
<1>1. \A k \in Key : s[k] = IF k = sym THEN n ELSE snapshot[k]
  BY DEF WsTypes
<1>2. Truthful(c, s)
  BY <1>1 DEF Served, Truthful
<1>3. Current(c, s, dirty \cup {sym})
  <2> SUFFICES ASSUME c.on, c.plain, ~c.resync, NEW k \in Wanted(c) \ (dirty \cup {sym})
               PROVE  Shows(c, k) = s[k]
    BY DEF Current
  <2>1. k \in Key /\ k # sym /\ k \in Wanted(c) \ dirty
    BY DEF Wanted
  <2> QED BY <1>1, <2>1 DEF Served, Current
<1> QED BY <1>2, <1>3 DEF Served

\* _push_raw of a frame: a signal that is counted as sent is queued.
LEMMA PushServes ==
    ASSUME WsTypes, NEW snap, NEW dirt, NEW c, Served(c, snap, dirt),
           NEW type \in Kind, NEW sym, NEW n \in Nat, type = "signal" => sym \in Key
    PROVE  /\ Served(PushRaw(Noted(c, type, sym), type, sym, n), snap, dirt)
           /\ PushRaw(Noted(c, type, sym), type, sym, n) \in Conn
<1> DEFINE d == Noted(c, type, sym)
           told == c.on /\ type = "signal" /\ sym \in Wanted(c)
           skip == ~c.on \/ (type = "trade" /\ ~c.raw) \/ (sym \in Key /\ sym \notin Wanted(c))
<1>0. /\ c \in Conn /\ Fits(c) /\ Obeys(c) /\ Counts(c, 0)
      /\ Truthful(c, snap) /\ Current(c, snap, dirt)
  BY DEF Served, Fits
<1>1. /\ d \in Conn /\ d.on = c.on /\ d.raw = c.raw /\ d.symbols = c.symbols /\ d.frag = c.frag
      /\ d.view = c.view /\ d.seen = c.seen /\ d.typing = c.typing
      /\ d.plain = c.plain /\ d.want = c.want /\ d.queue = c.queue /\ d.dropped = c.dropped
      /\ d.resync = c.resync /\ d.sent = IF told THEN c.sent + 1 ELSE c.sent
  <2>1. PICK x : x = IF told THEN c.sent + 1 ELSE c.sent
    OBVIOUS
  <2>2. x \in Nat
    BY <1>0, <2>1 DEF Conn
  <2>3. d = [c EXCEPT !.sent = x]
    BY <2>1, Zenon DEF Noted
  <2> HIDE DEF d, told
  <2>4. d \in Conn
    BY <1>0, <2>2, <2>3 DEF Conn
  <2>5. /\ d.on = c.on /\ d.raw = c.raw /\ d.symbols = c.symbols /\ d.frag = c.frag
        /\ d.view = c.view /\ d.seen = c.seen /\ d.typing = c.typing
        /\ d.plain = c.plain /\ d.want = c.want /\ d.queue = c.queue /\ d.dropped = c.dropped
        /\ d.resync = c.resync /\ d.sent = x
    BY <1>0, <2>3 DEF Conn
  <2> QED BY <2>1, <2>4, <2>5
<1>2. Wanted(d) = Wanted(c)
  BY <1>1 DEF Wanted
<1>3. CASE skip
  <2>1. ~told
    BY <1>3
  <2>2. d = c
    BY <1>0, <2>1 DEF Noted, Conn
  <2>3. PushRaw(d, type, sym, n) = d
    BY <1>1, <1>2, <1>3 DEF PushRaw
  <2> QED BY <1>0, <2>2, <2>3
<1>4. CASE ~skip
  <2> DEFINE m == [type |-> type, items |-> Nothing, n |-> n]
             e == Enqueue(d, m)
  <2>1. PushRaw(d, type, sym, n) = e
    BY <1>1, <1>2, <1>4 DEF PushRaw
  <2>2. m \in Msg /\ m.type = type /\ \A k \in Key : m.items[k] = 0
    BY DEF Msg, Nothing
  <2>3. told <=> type = "signal"
    BY <1>4
  <2>4. Fits(d) /\ Obeys(d) /\ Truthful(d, snap)
    BY <1>0, <1>1 DEF Fits, Obeys, Truthful
  <2>5. Counts(d, IF m.type = "signal" THEN 1 ELSE 0)
    <3> SUFFICES ASSUME d.dropped = 0
                 PROVE  d.sent = d.seen + Cardinality(Signals(d.queue)) + (IF m.type = "signal" THEN 1 ELSE 0)
      BY DEF Counts
    <3>1. c.sent = c.seen + Cardinality(Signals(c.queue)) + 0
      BY <1>0, <1>1 DEF Counts
    <3>2. c.sent \in Nat /\ c.seen \in Nat /\ Cardinality(Signals(c.queue)) \in Nat
      <4>1. c.queue \in Seq(Msg)
        BY <1>0 DEF Conn
      <4> QED BY <1>0, <2>2, <4>1, SignalsAppend DEF Conn
    <3> HIDE DEF d, told, m
    <3>3. CASE told
      BY <1>1, <2>2, <2>3, <3>1, <3>2, <3>3
    <3>4. CASE ~told
      BY <1>1, <2>2, <2>3, <3>1, <3>2, <3>4
    <3> QED BY <3>3, <3>4
  <2> HIDE DEF d, m
  <2>6. /\ Fits(e) /\ Obeys(e) /\ Truthful(e, snap) /\ Counts(e, 0)
        /\ Wanted(e) = Wanted(d) /\ e.on = d.on /\ e.plain = d.plain
        /\ ~e.resync => /\ ~d.resync
                        /\ \A k \in Key : Shows(e, k) = IF m.items[k] # 0 THEN m.items[k] ELSE Shows(d, k)
    BY <2>2, <2>4, <2>5, EnqueueServes
  <2> HIDE DEF e
  <2>7. Current(e, snap, dirt)
    <3> SUFFICES ASSUME e.on, e.plain, ~e.resync, NEW k \in Wanted(e) \ dirt
                 PROVE  Shows(e, k) = snap[k]
      BY DEF Current
    <3>1. k \in Wanted(c) \ dirt /\ k \in Key /\ c.on /\ c.plain /\ ~c.resync
      BY <1>1, <1>2, <2>6 DEF Wanted
    <3>2. Shows(c, k) = snap[k]
      BY <1>0, <3>1 DEF Current
    <3>3. Shows(d, k) = Shows(c, k)
      BY <1>1 DEF Shows
    <3> QED BY <2>2, <2>6, <3>1, <3>2, <3>3
  <2> QED BY <2>1, <2>6, <2>7 DEF Served, Fits, d
<1> QED BY <1>3, <1>4

\* What a browser that just connected wants and has.
Wish(raw, f) == [Idle EXCEPT !.raw = raw, !.symbols = f]
Joined(raw, f, w) ==
    [Off EXCEPT !.on = TRUE, !.raw = raw, !.symbols = f, !.plain = ~raw, !.want = w]

\* Its record, field by field.
LEMMA Fresh ==
    ASSUME NEW raw \in BOOLEAN, NEW f, NEW w, NEW o, w = Wish(raw, f), o = Joined(raw, f, w)
    PROVE  /\ w = [op |-> "none", raw |-> raw, symbols |-> f]
           /\ \E p \in BOOLEAN :
                /\ p => ~raw
                /\ o = [on |-> TRUE, raw |-> raw, symbols |-> f, queue |-> <<>>, resync |-> FALSE,
                        dropped |-> 0, frag |-> Idle, view |-> Nothing, seen |-> 0, sent |-> 0,
                        typing |-> Idle, plain |-> p, want |-> w]
<1>1. w = [op |-> "none", raw |-> raw, symbols |-> f]
  BY DEF Idle, Wish
<1>2. PICK p \in BOOLEAN : p = ~raw
  OBVIOUS
<1>3. o = [Off EXCEPT !.on = TRUE, !.raw = raw, !.symbols = f, !.plain = p, !.want = w]
  BY <1>2 DEF Joined
<1>4. o = [on |-> TRUE, raw |-> raw, symbols |-> f, queue |-> <<>>, resync |-> FALSE,
                   dropped |-> 0, frag |-> Idle, view |-> Nothing, seen |-> 0, sent |-> 0,
                   typing |-> Idle, plain |-> p, want |-> w]
  BY <1>3 DEF Off
<1> QED BY <1>1, <1>2, <1>4

\* A new connection starts with everything the gateway knows.
LEMMA AcceptServes ==
    ASSUME WsTypes, NEW raw \in BOOLEAN, NEW p \in BOOLEAN, p => ~raw, NEW f \in Filters, NEW w, NEW d,
           w = [op |-> "none", raw |-> raw, symbols |-> f],
           d = [on |-> TRUE, raw |-> raw, symbols |-> f, queue |-> <<>>, resync |-> FALSE,
                dropped |-> 0, frag |-> Idle, view |-> Nothing, seen |-> 0, sent |-> 0,
                typing |-> Idle, plain |-> p, want |-> w],
           NEW m, m = Items(Known)
    PROVE  Served(Enqueue(d, m), snapshot, dirty) /\ Enqueue(d, m) \in Conn
<1> DEFINE e == Enqueue(d, m)
<1>2. /\ m \in Msg /\ m.type = "items"
      /\ \A k \in Key : m.items[k] = IF k \in Known THEN snapshot[k] ELSE 0
  BY ItemsMsg
<1>3. \A k \in Key : m.items[k] = snapshot[k]
  BY <1>2 DEF Known
<1>4. d \in Conn /\ DOMAIN d.queue = {} /\ Len(d.queue) = 0
  <2>1. <<>> \in Seq(Msg) /\ Len(<<>>) = 0 /\ Nothing \in [Key -> Nat] /\ f \in SUBSET Key
    BY EmptySeq, WsAssumption DEF Nothing
  <2>2. Idle \in Commands \cup {Idle} /\ w \in [op : {"none"}, raw : BOOLEAN, symbols : SUBSET Key]
    BY <2>1
  <2> QED BY <2>1, <2>2 DEF Conn
<1>5. \A k \in Key : d.view[k] = 0
  BY DEF Nothing
<1>6. Signals(d.queue) = {}
  BY <1>4 DEF Signals
<1>7. Fits(d)
  BY <1>4, WsAssumption DEF Fits
<1>8. Obeys(d)
  BY DEF Obeys
<1>9. Counts(d, 0)
  <2>1. Cardinality(Signals(d.queue)) = 0 /\ d.sent = 0 /\ d.seen = 0
    BY <1>6, FS_EmptySet
  <2> QED BY <2>1 DEF Counts
<1>10. Truthful(d, snapshot)
  BY <1>4, <1>5 DEF Truthful
<1>11. Counts(d, IF m.type = "signal" THEN 1 ELSE 0)
  BY <1>2, <1>9
<1>12. /\ Fits(e) /\ Obeys(e) /\ Truthful(e, snapshot) /\ Counts(e, 0)
       /\ ~e.resync => \A k \in Key : Shows(e, k) = IF m.items[k] # 0 THEN m.items[k] ELSE Shows(d, k)
  <2>1. \A k \in Key : snapshot[k] = 0 => m.items[k] = 0
    BY <1>3
  <2>2. m \in Msg
    BY <1>2
  <2> QED BY ONLY <1>7, <1>8, <1>10, <1>11, <2>1, <2>2, EnqueueServes
<1> HIDE DEF e
<1>13. \A k \in Key : Shows(d, k) = 0
  BY <1>4, <1>5, ShowsView
<1>14. Current(e, snapshot, dirty)
  <2> SUFFICES ASSUME ~e.resync, NEW k \in Key PROVE Shows(e, k) = snapshot[k]
    BY DEF Current, Wanted
  <2> QED BY <1>3, <1>12, <1>13
<1>15. Served(e, snapshot, dirty) /\ e \in Conn
  BY <1>12, <1>14 DEF Served, Fits
<1> QED BY <1>15 DEF e

\* What a browser gets it shows: with what is still queued nothing changes.
LEMMA SendServes ==
    ASSUME NEW snap, NEW dirt, NEW c, Served(c, snap, dirt), c.queue # <<>>, NEW e,
           e = Shown(c, Head(c.queue))
    PROVE  Served(e, snap, dirt) /\ e \in Conn
<1> DEFINE q == c.queue
           m == Head(q)
<1>0. /\ c \in Conn /\ Len(q) <= ClientQueue /\ Obeys(c) /\ Counts(c, 0)
      /\ Truthful(c, snap) /\ Current(c, snap, dirt)
  BY DEF Served, Fits
<1>1. /\ q \in Seq(Msg) /\ q # <<>> /\ Len(q) \in Nat \ {0} /\ DOMAIN q = 1 .. Len(q)
      /\ m \in Msg /\ m = q[1] /\ ClientQueue \in Nat \ {0}
  BY <1>0, LenProperties, EmptySeq, WsAssumption, HeadTailProperties DEF Conn
<1>2. /\ Tail(q) \in Seq(Msg) /\ Len(Tail(q)) = Len(q) - 1 /\ DOMAIN Tail(q) = 1 .. (Len(q) - 1)
      /\ \A i \in 1 .. (Len(q) - 1) : Tail(q)[i] = q[i + 1]
  BY <1>1, HeadTailProperties, LenProperties
<1>3. PICK s : s = IF m.type = "signal" THEN c.seen + 1 ELSE c.seen
  OBVIOUS
<1>4. PICK v : v = [k \in Key |-> IF m.items[k] # 0 THEN m.items[k] ELSE c.view[k]]
  OBVIOUS
<1>5. s \in Nat /\ v \in [Key -> Nat] /\ c.seen \in Nat /\ c.sent \in Nat
  BY <1>0, <1>1, <1>3, <1>4 DEF Conn, Msg
<1>6. e = [c EXCEPT !.queue = Tail(q), !.seen = s, !.view = v]
  BY <1>3, <1>4 DEF Shown
<1>7. /\ e \in Conn /\ e.on = c.on /\ e.raw = c.raw /\ e.symbols = c.symbols /\ e.frag = c.frag
      /\ e.sent = c.sent /\ e.typing = c.typing /\ e.plain = c.plain /\ e.want = c.want
      /\ e.dropped = c.dropped /\ e.resync = c.resync
      /\ e.queue = Tail(q) /\ e.seen = s /\ e.view = v
  BY <1>0, <1>2, <1>5, <1>6 DEF Conn
<1> HIDE DEF q, m
<1>8. Fits(e)
  BY <1>0, <1>1, <1>2, <1>7 DEF Fits
<1>9. Obeys(e)
  BY <1>0, <1>7 DEF Obeys
<1>10. Counts(e, 0)
  <2> SUFFICES ASSUME e.dropped = 0 PROVE e.sent = e.seen + Cardinality(Signals(e.queue)) + 0
    BY DEF Counts
  <2>1. c.sent = c.seen + Cardinality(Signals(q)) + 0
    BY <1>0, <1>7 DEF Counts, q
  <2>2. /\ Cardinality(Signals(q)) \in Nat /\ Cardinality(Signals(Tail(q))) \in Nat
        /\ Cardinality(Signals(q))
               = Cardinality(Signals(Tail(q))) + (IF m.type = "signal" THEN 1 ELSE 0)
    BY <1>1, SignalsTail DEF m
  <2> DEFINE x == Cardinality(Signals(q))
             y == Cardinality(Signals(Tail(q)))
  <2>3. e.sent = c.sent /\ e.seen = s /\ Cardinality(Signals(e.queue)) = y
    BY <1>7
  <2> HIDE DEF x, y
  <2>4. s + y = c.seen + x
    <3>1. CASE m.type = "signal"
      <4>1. s = c.seen + 1 /\ x = y + 1 /\ y \in Nat
        BY <1>3, <2>2, <3>1 DEF x, y
      <4> QED BY <1>5, <4>1
    <3>2. CASE m.type # "signal"
      <4>1. s = c.seen /\ x = y + 0 /\ y \in Nat
        BY <1>3, <2>2, <3>2 DEF x, y
      <4> QED BY <1>5, <4>1
    <3> QED BY <3>1, <3>2
  <2>5. x \in Nat /\ y \in Nat /\ c.sent = c.seen + x + 0
    BY <2>1, <2>2 DEF x, y
  <2>6. c.sent = s + y + 0
    BY <1>5, <2>4, <2>5
  <2> QED BY <2>3, <2>6
<1>11. Truthful(e, snap)
  <2> SUFFICES ASSUME NEW k \in Key, snap[k] = 0
               PROVE  e.view[k] = 0 /\ \A i \in DOMAIN e.queue : e.queue[i].items[k] = 0
    BY DEF Truthful
  <2>1. c.view[k] = 0 /\ \A i \in DOMAIN q : q[i].items[k] = 0
    BY <1>0 DEF Truthful, q
  <2>2. m.items[k] = 0
    BY <1>1, <2>1
  <2>3. e.view[k] = 0
    BY <1>4, <1>7, <2>1, <2>2
  <2>4. \A i \in DOMAIN e.queue : i + 1 \in DOMAIN q /\ e.queue[i] = q[i + 1]
    BY <1>1, <1>2, <1>7
  <2> QED BY <2>1, <2>3, <2>4
<1>12. ASSUME NEW k \in Key PROVE Shows(e, k) = Shows(c, k)
  <2>1. CASE \A i \in DOMAIN e.queue : e.queue[i].items[k] = 0
    <3>1. Shows(e, k) = v[k]
      BY <1>7, <2>1, ShowsView
    <3>2. CASE m.items[k] # 0
      <4>1. \A l \in DOMAIN q : l > 1 => l - 1 \in DOMAIN e.queue /\ e.queue[l - 1] = q[l]
        BY <1>1, <1>2, <1>7
      <4>a. 1 \in DOMAIN q /\ q[1].items[k] # 0
        BY <1>1, <3>2
      <4>b. \A l \in DOMAIN q : l > 1 => q[l].items[k] = 0
        BY <2>1, <4>1
      <4>2. 1 \in DOMAIN q /\ q[1].items[k] # 0 /\ \A l \in DOMAIN q : l > 1 => q[l].items[k] = 0
        BY <4>a, <4>b
      <4>3. /\ 1 \in DOMAIN c.queue /\ c.queue[1].items[k] # 0
            /\ \A l \in DOMAIN c.queue : l > 1 => c.queue[l].items[k] = 0
        BY <4>2 DEF q
      <4>4. Shows(c, k) = q[1].items[k]
        BY <1>0, <4>3, ShowsAt DEF q
      <4> QED BY <1>1, <1>4, <3>1, <3>2, <4>4
    <3>3. CASE m.items[k] = 0
      <4>1. \A l \in DOMAIN q : l = 1 \/ (l - 1 \in DOMAIN e.queue /\ e.queue[l - 1] = q[l])
        BY <1>1, <1>2, <1>7
      <4>2. \A l \in DOMAIN q : q[l].items[k] = 0
        BY <1>1, <2>1, <3>3, <4>1
      <4>3. Shows(c, k) = c.view[k]
        BY <1>0, <4>2, ShowsView DEF q
      <4> QED BY <1>4, <3>1, <3>3, <4>3
    <3> QED BY <3>2, <3>3
  <2>2. CASE \E i \in DOMAIN e.queue : e.queue[i].items[k] # 0
    <3>1. PICK j \in DOMAIN e.queue :
                /\ e.queue[j].items[k] # 0 /\ Shows(e, k) = e.queue[j].items[k]
                /\ \A l \in DOMAIN e.queue : l > j => e.queue[l].items[k] = 0
      BY <1>7, <2>2, ShowsLast
    <3>2. j + 1 \in DOMAIN q /\ e.queue[j] = q[j + 1] /\ j \in 1 .. (Len(q) - 1)
      BY <1>1, <1>2, <1>7
    <3>3. \A l \in DOMAIN q : l > j + 1 =>
              l - 1 \in DOMAIN e.queue /\ l - 1 > j /\ e.queue[l - 1] = q[l]
      <4> TAKE l \in DOMAIN q
      <4> HAVE l > j + 1
      <4>1. l \in 1 .. Len(q) /\ l \in Int /\ j \in Int /\ j >= 1 /\ Len(q) \in Int
        BY <1>1, <3>2
      <4>2. l - 1 \in 1 .. (Len(q) - 1) /\ l - 1 > j /\ (l - 1) + 1 = l
        BY <4>1
      <4> QED BY <1>2, <1>7, <4>2
    <3>4. \A l \in DOMAIN q : l > j + 1 => q[l].items[k] = 0
      BY <3>1, <3>3
    <3>5. PICK g : g = j + 1
      OBVIOUS
    <3>6. /\ g \in DOMAIN c.queue /\ c.queue[g].items[k] # 0
          /\ \A l \in DOMAIN c.queue : l > g => c.queue[l].items[k] = 0
      BY <3>1, <3>2, <3>4, <3>5 DEF q
    <3>7. Shows(c, k) = c.queue[g].items[k]
      BY <1>0, <3>6, ShowsAt
    <3> QED BY <3>1, <3>2, <3>5, <3>7 DEF q
  <2> QED BY <2>1, <2>2
<1>13. Current(e, snap, dirt)
  <2> SUFFICES ASSUME e.on, e.plain, ~e.resync, NEW k \in Wanted(e) \ dirt
               PROVE  Shows(e, k) = snap[k]
    BY DEF Current
  <2>1. k \in Wanted(c) \ dirt /\ k \in Key
    BY <1>7 DEF Wanted
  <2>2. c.on /\ c.plain /\ ~c.resync
    BY <1>7
  <2> QED BY <1>0, <1>12, <2>1, <2>2 DEF Current
<1> QED BY <1>7, <1>8, <1>9, <1>10, <1>11, <1>13 DEF Served

\* A whole command: the mode and the filter become what the browser asked for.
LEMMA CommandServes ==
    ASSUME NEW snap, NEW dirt, NEW c, Served(c, snap, dirt), c.on, NEW cmd \in Commands,
           NEW a, a = Asked(c, cmd), NEW e, e = Apply(a, cmd)
    PROVE  Served(e, snap, dirt) /\ e \in Conn
<1>0. /\ c \in Conn /\ Len(c.queue) <= ClientQueue /\ Obeys(c) /\ Counts(c, 0)
      /\ Truthful(c, snap)
  BY DEF Served, Fits
<1>1. /\ c.want.op = "none" /\ c.want.raw \in BOOLEAN /\ c.want.symbols \in SUBSET Key
      /\ c.want \in [op : {"none"}, raw : BOOLEAN, symbols : SUBSET Key]
  BY <1>0 DEF Conn
<1>2. \/ cmd.op = "mode" /\ cmd.raw \in BOOLEAN
      \/ cmd.op = "subscribe" /\ cmd.symbols \in SUBSET Key
  BY WsAssumption DEF Commands
<1>3. PICK w : w = IF cmd.op = "mode" THEN [c.want EXCEPT !.raw = cmd.raw]
                   ELSE [c.want EXCEPT !.symbols = cmd.symbols]
  OBVIOUS
<1>4. /\ w \in [op : {"none"}, raw : BOOLEAN, symbols : SUBSET Key]
      /\ cmd.op = "mode" => w.raw = cmd.raw /\ w.symbols = c.want.symbols
      /\ cmd.op = "subscribe" => w.raw = c.want.raw /\ w.symbols = cmd.symbols
  <2>1. CASE cmd.op = "mode" /\ cmd.raw \in BOOLEAN
    BY <1>1, <1>3, <2>1
  <2>2. CASE cmd.op = "subscribe" /\ cmd.symbols \in SUBSET Key
    BY <1>1, <1>3, <2>2
  <2> QED BY <1>2, <2>1, <2>2
<1>5. a = [c EXCEPT !.plain = FALSE, !.want = w]
  BY <1>3, Zenon DEF Asked
<1>8. a = [on |-> c.on, raw |-> c.raw, symbols |-> c.symbols, queue |-> c.queue, resync |-> c.resync,
           dropped |-> c.dropped, frag |-> c.frag, view |-> c.view, seen |-> c.seen, sent |-> c.sent,
           typing |-> c.typing, plain |-> FALSE, want |-> w]
  BY <1>0, <1>5 DEF Conn
<1>a. a \in Conn
  BY <1>0, <1>4, <1>8 DEF Conn
<1>b. /\ a.on = c.on /\ a.raw = c.raw /\ a.symbols = c.symbols /\ a.queue = c.queue
      /\ a.resync = c.resync /\ a.dropped = c.dropped /\ a.frag = c.frag /\ a.view = c.view
      /\ a.seen = c.seen /\ a.sent = c.sent /\ a.typing = c.typing /\ a.plain = FALSE /\ a.want = w
  BY <1>8
<1>6. PICK r, s :
           /\ e = [on |-> c.on, raw |-> r, symbols |-> s, queue |-> c.queue, resync |-> c.resync,
                 dropped |-> c.dropped, frag |-> c.frag, view |-> c.view, seen |-> c.seen, sent |-> c.sent,
                 typing |-> c.typing, plain |-> FALSE, want |-> w]
           /\ cmd.op = "mode" => r = cmd.raw /\ s = c.symbols
           /\ cmd.op = "subscribe" => r = c.raw /\ s = cmd.symbols
  <2>1. CASE cmd.op = "mode"
    <3>1. e = [a EXCEPT !.raw = cmd.raw]
      BY <2>1 DEF Apply
    <3>a. e = [on |-> a.on, raw |-> cmd.raw, symbols |-> a.symbols, queue |-> a.queue, resync |-> a.resync,
                 dropped |-> a.dropped, frag |-> a.frag, view |-> a.view, seen |-> a.seen, sent |-> a.sent,
                 typing |-> a.typing, plain |-> a.plain, want |-> a.want]
      BY <1>a, <3>1 DEF Conn
    <3>2. e = [on |-> c.on, raw |-> cmd.raw, symbols |-> c.symbols, queue |-> c.queue, resync |-> c.resync,
                 dropped |-> c.dropped, frag |-> c.frag, view |-> c.view, seen |-> c.seen, sent |-> c.sent,
                 typing |-> c.typing, plain |-> FALSE, want |-> w]
      BY ONLY <1>b, <3>a, Zenon
    <3> QED BY <2>1, <3>2
  <2>2. CASE cmd.op = "subscribe"
    <3>1. e = [a EXCEPT !.symbols = cmd.symbols]
      BY <2>2 DEF Apply
    <3>a. e = [on |-> a.on, raw |-> a.raw, symbols |-> cmd.symbols, queue |-> a.queue, resync |-> a.resync,
                 dropped |-> a.dropped, frag |-> a.frag, view |-> a.view, seen |-> a.seen, sent |-> a.sent,
                 typing |-> a.typing, plain |-> a.plain, want |-> a.want]
      BY <1>a, <3>1 DEF Conn
    <3>2. e = [on |-> c.on, raw |-> c.raw, symbols |-> cmd.symbols, queue |-> c.queue, resync |-> c.resync,
                 dropped |-> c.dropped, frag |-> c.frag, view |-> c.view, seen |-> c.seen, sent |-> c.sent,
                 typing |-> c.typing, plain |-> FALSE, want |-> w]
      BY ONLY <1>b, <3>a, Zenon
    <3> QED BY <2>2, <3>2
  <2> QED BY <1>2, <2>1, <2>2
<1>7. r \in BOOLEAN /\ s \in SUBSET Key /\ r = w.raw /\ s = w.symbols
  <2>1. c.raw \in BOOLEAN /\ c.symbols \in SUBSET Key /\ c.raw = c.want.raw /\ c.symbols = c.want.symbols
    BY <1>0 DEF Conn, Obeys
  <2>2. CASE cmd.op = "mode" /\ cmd.raw \in BOOLEAN
    BY <1>4, <1>6, <2>1, <2>2
  <2>3. CASE cmd.op = "subscribe" /\ cmd.symbols \in SUBSET Key
    BY <1>4, <1>6, <2>1, <2>3
  <2> QED BY <1>2, <2>2, <2>3
<1>9. e = [on |-> c.on, raw |-> r, symbols |-> s, queue |-> c.queue, resync |-> c.resync,
           dropped |-> c.dropped, frag |-> c.frag, view |-> c.view, seen |-> c.seen, sent |-> c.sent,
           typing |-> c.typing, plain |-> FALSE, want |-> w]
  BY <1>6
<1>10. e \in Conn
  BY <1>0, <1>4, <1>7, <1>9 DEF Conn
<1>11. Fits(e)
  BY <1>0, <1>9, <1>10 DEF Fits
<1>12. Obeys(e)
  BY <1>0, <1>7, <1>9 DEF Obeys
<1>13. Counts(e, 0)
  BY <1>0, <1>9 DEF Counts
<1>14. Truthful(e, snap)
  BY <1>0, <1>9 DEF Truthful
<1>15. ~e.plain /\ e.typing = c.typing /\ e.frag = c.frag
  BY <1>9
<1>16. Served(e, snap, dirt)
  BY <1>11, <1>12, <1>13, <1>14, <1>15 DEF Served, Current
<1> QED BY <1>10, <1>16

\* What a browser is in the middle of typing changes nothing else.
LEMMA TypingServes ==
    ASSUME NEW snap, NEW dirt, NEW c, Served(c, snap, dirt), NEW cmd \in Commands \cup {Idle},
           NEW e, e = [c EXCEPT !.typing = cmd, !.frag = cmd]
    PROVE  Served(e, snap, dirt) /\ e \in Conn
<1>0. /\ c \in Conn /\ Len(c.queue) <= ClientQueue /\ Obeys(c) /\ Counts(c, 0)
      /\ Truthful(c, snap) /\ Current(c, snap, dirt)
  BY DEF Served, Fits
<1>1. /\ e \in Conn /\ e.on = c.on /\ e.raw = c.raw /\ e.symbols = c.symbols /\ e.frag = cmd
      /\ e.view = c.view /\ e.seen = c.seen /\ e.sent = c.sent /\ e.typing = cmd
      /\ e.plain = c.plain /\ e.want = c.want /\ e.queue = c.queue /\ e.dropped = c.dropped
      /\ e.resync = c.resync
  BY <1>0 DEF Conn
<1>2. Fits(e) /\ Obeys(e) /\ Counts(e, 0) /\ Truthful(e, snap)
  BY <1>0, <1>1 DEF Fits, Obeys, Counts, Truthful
<1>3. Current(e, snap, dirt)
  <2>1. Wanted(e) = Wanted(c)
    BY <1>1 DEF Wanted
  <2>2. \A k \in Key : Shows(e, k) = Shows(c, k)
    BY <1>1 DEF Shows
  <2>3. \A k \in Wanted(c) : k \in Key
    BY DEF Wanted
  <2> QED BY <1>0, <1>1, <2>1, <2>2, <2>3 DEF Current
<1> QED BY <1>1, <1>2, <1>3 DEF Served

-----------------------------------------------------------------------------
(* The steps of the gateway.                                               *)

\* Nobody is connected at first.
LEMMA WsInitInv ==
    ASSUME WsInit PROVE WsInv
<1>1. cl = [c \in Client |-> Off]
  BY DEF WsInit
<1>2. \A c \in Client : Served(cl[c], snapshot, dirty)
  BY <1>1, OffServed
<1>3. \A c \in Client : cl[c] \in Conn
  BY <1>2 DEF Served, Fits
<1>4. cl \in [Client -> Conn]
  BY <1>1, <1>3
<1>5. snapshot \in [Key -> Nat] /\ dirty = {}
  BY DEF WsInit, Nothing
<1> QED BY <1>2, <1>4, <1>5 DEF WsInv, WsTypes, DirtyIsKnown

\* A step of one client that keeps the promises to it.
LEMMA OneServed ==
    ASSUME WsInv, NEW c \in Client, NEW e \in Conn, Served(e, snapshot, dirty),
           cl' = [cl EXCEPT ![c] = e], snapshot' = snapshot, dirty' = dirty
    PROVE  WsInv'
<1>1. cl' \in [Client -> Conn]
  BY DEF WsInv, WsTypes
<1>2. ASSUME NEW d \in Client PROVE Served(cl'[d], snapshot', dirty')
  <2>1. CASE d = c
    <3>1. cl'[d] = e
      BY <2>1 DEF WsInv, WsTypes
    <3> QED BY <3>1
  <2>2. CASE d # c
    <3>1. cl'[d] = cl[d]
      BY <2>2 DEF WsInv, WsTypes
    <3> QED BY <3>1 DEF WsInv
  <2> QED BY <2>1, <2>2
<1> QED BY <1>1, <1>2 DEF WsInv, WsTypes, DirtyIsKnown

\* _ingest of a frame.
LEMMA IngestServes ==
    ASSUME WsInv, NEW type \in Kind, NEW sym, NEW n \in Nat \ {0},
           type \in {"trade", "book", "signal"} => sym \in Key, Ingest(type, sym, n)
    PROVE  WsInv'
<1>0. WsTypes /\ \A c \in Client : cl[c] \in Conn /\ Served(cl[c], snapshot, dirty)
  BY DEF WsInv, WsTypes
<1>1. /\ snapshot' \in [Key -> Nat] /\ DirtyIsKnown'
      /\ \A c \in Client : Served(cl[c], snapshot', dirty')
  <2>1. CASE type \in {"trade", "book"}
    <3>1. /\ sym \in Key /\ snapshot' = [snapshot EXCEPT ![sym] = n] /\ dirty' = dirty \cup {sym}
      BY <2>1 DEF Ingest
    <3>2. \A c \in Client : Served(cl[c], snapshot', dirty')
      BY <1>0, <3>1, NewsServes
    <3>3. snapshot' \in [Key -> Nat] /\ DirtyIsKnown'
      BY <3>1 DEF WsInv, WsTypes, DirtyIsKnown
    <3> QED BY <3>2, <3>3
  <2>2. CASE type \notin {"trade", "book"}
    <3>1. snapshot' = snapshot /\ dirty' = dirty
      BY <2>2 DEF Ingest
    <3> QED BY <1>0, <3>1 DEF WsInv, WsTypes, DirtyIsKnown
  <2> QED BY <2>1, <2>2
<1>2. CASE type = "book"
  <2>1. cl' = cl
    BY <1>2 DEF Ingest
  <2> QED BY <1>1, <2>1 DEF WsInv, WsTypes
<1>3. CASE type # "book"
  <2>1. cl' = [c \in Client |-> PushRaw(Noted(cl[c], type, sym), type, sym, n)]
    BY <1>3 DEF Ingest
  <2>2. PICK snap, dirt : snap = snapshot' /\ dirt = dirty'
    OBVIOUS
  <2>3. \A c \in Client : Served(cl[c], snap, dirt)
    BY <1>1, <2>2
  <2>4. \A c \in Client :
           /\ Served(PushRaw(Noted(cl[c], type, sym), type, sym, n), snap, dirt)
           /\ PushRaw(Noted(cl[c], type, sym), type, sym, n) \in Conn
    BY <1>0, <2>3, PushServes
  <2>5. \A c \in Client : Served(cl'[c], snapshot', dirty') /\ cl'[c] \in Conn
    BY <2>1, <2>2, <2>4
  <2>6. cl' \in [Client -> Conn]
    BY <2>1, <2>5
  <2> QED BY <1>1, <2>5, <2>6 DEF WsInv, WsTypes
<1> QED BY <1>2, <1>3

\* A pass of _coalesce_loop.
LEMMA CoalesceServes ==
    ASSUME WsInv, Coalesce PROVE WsInv'
<1>1. cl' = [c \in Client |-> Tick(cl[c])] /\ dirty' = {} /\ snapshot' = snapshot
  BY DEF Coalesce
<1>2. \A c \in Client : Served(Tick(cl[c]), snapshot, {}) /\ Tick(cl[c]) \in Conn
  BY TickServes DEF WsInv
<1>3. \A c \in Client : Served(cl'[c], snapshot', dirty') /\ cl'[c] \in Conn
  BY <1>1, <1>2
<1>4. cl' \in [Client -> Conn]
  BY <1>1, <1>3
<1>5. snapshot' \in [Key -> Nat] /\ DirtyIsKnown'
  BY <1>1 DEF WsInv, WsTypes, DirtyIsKnown
<1> QED BY <1>3, <1>4, <1>5 DEF WsInv, WsTypes

\* What a browser does to its connection.
LEMMA ClientServes ==
    ASSUME WsInv, NEW c \in Client,
           Accept(c) \/ Send(c) \/ Text(c) \/ First(c) \/ Ping(c) \/ Final(c) \/ Close(c)
    PROVE  WsInv'
<1>0. WsTypes /\ cl[c] \in Conn /\ Served(cl[c], snapshot, dirty)
  BY DEF WsInv, WsTypes
<1>1. CASE Accept(c)
  <2>1. PICK raw \in BOOLEAN, f \in Filters :
           cl' = [cl EXCEPT ![c] =
                     Enqueue([Off EXCEPT !.on = TRUE, !.raw = raw, !.symbols = f, !.plain = ~raw,
                                         !.want = [Idle EXCEPT !.raw = raw, !.symbols = f]],
                             Items(Known))]
    BY <1>1 DEF Accept
  <2>2. PICK w : w = Wish(raw, f)
    OBVIOUS
  <2>3. PICK d : d = Joined(raw, f, w)
    OBVIOUS
  <2>4. PICK m : m = Items(Known)
    OBVIOUS
  <2>5. cl' = [cl EXCEPT ![c] = Enqueue(d, m)]
    BY ONLY <2>1, <2>2, <2>3, <2>4, Zenon DEF Wish, Joined
  <2>6. /\ w = [op |-> "none", raw |-> raw, symbols |-> f]
        /\ \E p \in BOOLEAN :
             /\ p => ~raw
             /\ d = [on |-> TRUE, raw |-> raw, symbols |-> f, queue |-> <<>>, resync |-> FALSE,
                     dropped |-> 0, frag |-> Idle, view |-> Nothing, seen |-> 0, sent |-> 0,
                     typing |-> Idle, plain |-> p, want |-> w]
    BY ONLY raw \in BOOLEAN, <2>2, <2>3, Fresh
  <2>7. Served(Enqueue(d, m), snapshot, dirty) /\ Enqueue(d, m) \in Conn
    BY ONLY <1>0, raw \in BOOLEAN, f \in Filters, <2>4, <2>6, AcceptServes
  <2>8. snapshot' = snapshot /\ dirty' = dirty
    BY <1>1 DEF Accept
  <2> QED BY <2>5, <2>7, <2>8, OneServed
<1>2. CASE Send(c)
  <2>1. PICK e : e = Shown(cl[c], Head(cl[c].queue))
    OBVIOUS
  <2>2. cl' = [cl EXCEPT ![c] = e]
    BY <1>2, <2>1 DEF Send
  <2>3. snapshot' = snapshot /\ dirty' = dirty /\ cl[c].queue # <<>>
    BY <1>2 DEF Send
  <2>4. Served(e, snapshot, dirty) /\ e \in Conn
    BY ONLY <1>0, <2>1, <2>3, SendServes
  <2> QED BY <2>2, <2>3, <2>4, OneServed
<1>3. CASE Text(c)
  <2>1. PICK cmd \in Commands : cl' = [cl EXCEPT ![c] = Apply(Asked(@, cmd), cmd)]
    BY <1>3 DEF Text
  <2>2. PICK a, e : a = Asked(cl[c], cmd) /\ e = Apply(a, cmd)
    OBVIOUS
  <2>3. cl' = [cl EXCEPT ![c] = e] /\ snapshot' = snapshot /\ dirty' = dirty /\ cl[c].on
    BY <1>3, <2>1, <2>2 DEF Text
  <2>4. Served(e, snapshot, dirty) /\ e \in Conn
    BY <1>0, <2>2, <2>3, CommandServes
  <2> QED BY <2>3, <2>4, OneServed
<1>4. CASE First(c)
  <2>1. PICK cmd \in Commands : cl' = [cl EXCEPT ![c].typing = cmd, ![c].frag = cmd]
    BY <1>4 DEF First
  <2>2. PICK e : e = [cl[c] EXCEPT !.typing = cmd, !.frag = cmd]
    OBVIOUS
  <2>3. cl' = [cl EXCEPT ![c] = e] /\ snapshot' = snapshot /\ dirty' = dirty
    <3>1. cl' = [cl EXCEPT ![c] = e]
      BY <1>0, <2>1, <2>2 DEF WsTypes
    <3> QED BY <1>4, <3>1 DEF First
  <2>4. Served(e, snapshot, dirty) /\ e \in Conn
    BY <1>0, <2>2, TypingServes
  <2> QED BY <2>3, <2>4, OneServed
<1>5. CASE Ping(c)
  <2>1. snapshot' = snapshot /\ dirty' = dirty /\ cl' = cl
    BY <1>5 DEF Ping, wsVars
  <2> QED BY <2>1 DEF WsInv, WsTypes, DirtyIsKnown
<1>6. CASE Final(c)
  <2>1. PICK cmd : cmd = cl[c].typing
    OBVIOUS
  <2>2. cmd \in Commands /\ cl[c].frag = cmd /\ cl[c].on
    BY <1>0, <1>6, <2>1 DEF Final, Conn, Served, Obeys
  <2>3. PICK a, e : a = Asked(cl[c], cmd) /\ e = Apply(a, cmd)
    OBVIOUS
  <2>4. PICK g : g = [e EXCEPT !.typing = Idle, !.frag = Idle]
    OBVIOUS
  <2>5. cl' = [cl EXCEPT ![c] = g] /\ snapshot' = snapshot /\ dirty' = dirty
    BY <1>6, <2>1, <2>2, <2>3, <2>4 DEF Final
  <2>6. Served(e, snapshot, dirty) /\ e \in Conn
    BY <1>0, <2>2, <2>3, CommandServes
  <2>7. Served(g, snapshot, dirty) /\ g \in Conn
    BY <2>4, <2>6, TypingServes
  <2> QED BY <2>5, <2>7, OneServed
<1>7. CASE Close(c)
  <2>1. cl' = [cl EXCEPT ![c] = Off] /\ snapshot' = snapshot /\ dirty' = dirty
    BY <1>7 DEF Close
  <2>2. Served(Off, snapshot, dirty) /\ Off \in Conn
    BY OffServed DEF Served, Fits
  <2> QED BY <2>1, <2>2, OneServed
<1> QED BY <1>1, <1>2, <1>3, <1>4, <1>5, <1>6, <1>7

\* Everything the gateway's loop does without a frame.
LEMMA WsNextServes ==
    ASSUME WsInv, WsNext PROVE WsInv'
  BY CoalesceServes, ClientServes DEF WsNext

\* The promises to the clients are the property.
LEMMA WsInvServes ==
    ASSUME WsInv PROVE BrowsersAreServed
<1>0. \A c \in Client : cl[c] \in Conn /\ Served(cl[c], snapshot, dirty)
  BY DEF WsInv, WsTypes
<1>1. ScreenIsCurrent
  BY <1>0 DEF ScreenIsCurrent, Served, Current
<1>2. SignalsArrive
  <2> SUFFICES ASSUME NEW c \in Client, cl[c].dropped = 0
               PROVE  cl[c].sent = cl[c].seen + Queued(cl[c])
    BY DEF SignalsArrive
  <2>1. cl[c].sent = cl[c].seen + Cardinality(Signals(cl[c].queue)) + 0
    BY <1>0 DEF Served, Counts
  <2>2. Cardinality(Signals(cl[c].queue)) \in Nat /\ cl[c].seen \in Nat
    <3>1. cl[c].queue \in Seq(Msg) /\ cl[c].seen \in Nat
      BY <1>0 DEF Conn
    <3>2. [type |-> "items", items |-> Nothing, n |-> 0] \in Msg
      BY DEF Msg, Kind, Nothing
    <3> QED BY <3>1, <3>2, SignalsAppend
  <2>3. Queued(cl[c]) = Cardinality(Signals(cl[c].queue))
    BY DEF Queued, Signals
  <2> QED BY <2>1, <2>2, <2>3
<1>3. CommandsIntact
  BY <1>0 DEF CommandsIntact, Served, Obeys
<1> QED BY <1>1, <1>2, <1>3 DEF BrowsersAreServed

\* Nothing happens at the gateway.
LEMMA WsRests == ASSUME WsInv, UNCHANGED wsVars PROVE WsInv'
<1>1. cl' = cl /\ snapshot' = snapshot /\ dirty' = dirty
  BY DEF wsVars
<1>2. WsTypes' /\ DirtyIsKnown'
  BY <1>1 DEF WsInv, WsTypes, DirtyIsKnown
<1>3. \A c \in Client : Served(cl[c], snapshot, dirty)
  BY DEF WsInv
<1> QED BY <1>1, <1>2, <1>3 DEF WsInv

-----------------------------------------------------------------------------
(* The gateway behind the bus.                                             *)

\* A frame that comes out of the parser is one that _ingest is meant for.
LEMMA FrameIsServed == ASSUME BusInv, WsInv, OnFrame PROVE WsInv'
<1>1. PICK f : f = buf[1].f
  OBVIOUS
<1>2. f \in Frame
  <2>1. buf \in Seq(Cell) /\ Len(buf) >= 2
    BY WireIsTyped DEF BusInv, OnFrame, Deliver, Complete
  <2>2. 1 \in DOMAIN buf
    BY <2>1, CellSeq
  <2> QED BY <1>1, <2>1, <2>2, CellSeq
<1>3. f.id \in Nat \ {0} /\ f.body \in Body
  BY <1>2, FrameTypes DEF Frame
<1>4. f.body.type \in Kind /\ (f.body.type \in {"trade", "book", "signal"} => f.body.key \in Key)
  BY <1>3, FeedAssumption DEF Kind
<1>5. Ingest(f.body.type, f.body.key, f.id)
  BY <1>1 DEF OnFrame
<1> QED BY <1>3, <1>4, <1>5, IngestServes

\* The inductive invariant of the bus and of the gateway behind it.
THEOREM FeedInvariant == Spec => [](BusInv /\ WsInv)
<1>1. Init => BusInv /\ WsInv
  BY BusInitInv, WsInitInv DEF Init
<1>2. BusInv /\ WsInv /\ [Next]_feedVars => BusInv' /\ WsInv'
  <2> SUFFICES ASSUME BusInv, WsInv, [Next]_feedVars PROVE BusInv' /\ WsInv'
    OBVIOUS
  <2>1. BusInv'
    BY BusSteps
  <2>2. OnFrame => WsInv'
    BY FrameIsServed
  <2>3. WsNext => WsInv'
    BY WsNextServes
  <2>4. UNCHANGED wsVars => WsInv'
    BY WsRests
  <2>5. WsInv'
    BY <2>2, <2>3, <2>4 DEF Next, GatewayNext, feedVars
  <2> QED BY <2>1, <2>5
<1> QED BY <1>1, <1>2, PTL DEF Spec

\* What a browser shows is current, no signal it wants is lost unless its queue
\* overflowed, and its commands arrive intact (_enqueue, _coalesce_loop, FrameDecoder),
\* whatever the bus in front of the gateway does.
THEOREM BrowsersAreWellServed == Spec => []BrowsersAreServed
BY FeedInvariant, WsInvServes, PTL

(***************************************************************************)
(* THE QUALITY SERVICE                                                     *)
(***************************************************************************)

QSym == {t[1] : t \in Ticks}
Trade == [sym : QSym, px : Nat, ts : Nat, wall : Nat]
Check == {"jump_warning", "jump_critical", "stale", "cross", "quote_critical", "quote_warning"}
Event == [check : Check, sym : QSym \cup {q[1] : q \in Quotes}, ts : Nat, at : Nat]

\* every event is in one place
Ledger ==
    /\ pend \in Seq(Nat) /\ writes \in Seq(Nat) /\ orphans \in Seq(Nat)
    /\ opened \in Seq(Nat) /\ stored \in Seq(Nat) /\ failed \in Seq(Nat)
    /\ events \in Seq(Event)
    /\ Len(pend) + Len(writes) + Len(orphans) + Len(opened) + Len(stored) + Len(failed) = Len(events)
    /\ ToSet(pend) \cup ToSet(writes) \cup ToSet(orphans) \cup ToSet(opened) \cup ToSet(stored)
         \cup ToSet(failed) = 1 .. Len(events)
    /\ phase \in {"up", "stopping", "closed"}
    /\ phase = "up" => orphans = <<>>
    /\ phase # "up" => pend = <<>>
    /\ phase = "closed" => writes = <<>> /\ opened = <<>>

\* Two lists of rows put together.
LEMMA RowsJoined ==
    ASSUME NEW s \in Seq(Nat), NEW t \in Seq(Nat)
    PROVE  s \o t \in Seq(Nat) /\ Len(s \o t) = Len(s) + Len(t)
           /\ ToSet(s \o t) = ToSet(s) \cup ToSet(t)
<1> DEFINE u == s \o t
<1>1. /\ Len(s) \in Nat /\ DOMAIN s = 1 .. Len(s) /\ Len(t) \in Nat /\ DOMAIN t = 1 .. Len(t)
  BY LenProperties
<1>2. u \in Seq(Nat) /\ Len(u) = Len(s) + Len(t)
      /\ \A i \in 1 .. (Len(s) + Len(t)) : u[i] = IF i <= Len(s) THEN s[i] ELSE t[i - Len(s)]
  BY ConcatProperties
<1>3. DOMAIN u = 1 .. (Len(s) + Len(t))
  BY <1>2, LenProperties
<1> HIDE DEF u
<1>4. \A i \in DOMAIN s : i \in DOMAIN u /\ u[i] = s[i]
  BY <1>1, <1>2, <1>3
<1>5. \A i \in DOMAIN t : i + Len(s) \in DOMAIN u /\ u[i + Len(s)] = t[i]
  <2> SUFFICES ASSUME NEW i \in DOMAIN t
               PROVE  i + Len(s) \in DOMAIN u /\ u[i + Len(s)] = t[i]
    OBVIOUS
  <2>1. i + Len(s) \in 1 .. (Len(s) + Len(t)) /\ ~(i + Len(s) <= Len(s)) /\ i + Len(s) - Len(s) = i
    BY <1>1
  <2>2. u[i + Len(s)] = t[i + Len(s) - Len(s)]
    BY <1>2, <2>1
  <2> QED BY <1>3, <2>1, <2>2
<1>6. \A i \in DOMAIN u : (i \in DOMAIN s /\ u[i] = s[i])
                          \/ (i - Len(s) \in DOMAIN t /\ u[i] = t[i - Len(s)])
  BY <1>1, <1>2, <1>3
<1>7. ToSet(u) \subseteq ToSet(s) \cup ToSet(t)
  BY <1>6 DEF ToSet
<1>8. ToSet(s) \subseteq ToSet(u)
  BY <1>4 DEF ToSet
<1>9. ToSet(t) \subseteq ToSet(u)
  BY <1>5 DEF ToSet
<1>10. u \in Seq(Nat) /\ Len(u) = Len(s) + Len(t) /\ ToSet(u) = ToSet(s) \cup ToSet(t)
  BY <1>2, <1>7, <1>8, <1>9
<1> QED BY <1>10 DEF u

\* A list of rows of which the insert took the first k.
LEMMA RowsSplit ==
    ASSUME NEW s \in Seq(Nat), NEW k \in 0 .. Len(s)
    PROVE  /\ SubSeq(s, 1, k) \in Seq(Nat) /\ SubSeq(s, k + 1, Len(s)) \in Seq(Nat)
           /\ Len(SubSeq(s, 1, k)) = k /\ Len(SubSeq(s, k + 1, Len(s))) = Len(s) - k
           /\ ToSet(SubSeq(s, 1, k)) \cup ToSet(SubSeq(s, k + 1, Len(s))) = ToSet(s)
<1> DEFINE a == SubSeq(s, 1, k)
           b == SubSeq(s, k + 1, Len(s))
<1>1. Len(s) \in Nat /\ DOMAIN s = 1 .. Len(s) /\ k \in Nat /\ k <= Len(s)
  BY LenProperties
<1>2. \A i \in 1 .. Len(s) : s[i] \in Nat
  BY ElementOfSeq
<1>3. /\ a \in Seq(Nat) /\ Len(a) = IF 1 <= k THEN k - 1 + 1 ELSE 0
      /\ \A i \in 1 .. k - 1 + 1 : a[i] = s[1 + i - 1]
  <2>1. \A i \in 1 .. k : s[i] \in Nat
    BY <1>1, <1>2
  <2> QED BY <1>1, <2>1, SubSeqProperties
<1>4. /\ b \in Seq(Nat) /\ Len(b) = IF k + 1 <= Len(s) THEN Len(s) - (k + 1) + 1 ELSE 0
      /\ \A i \in 1 .. Len(s) - (k + 1) + 1 : b[i] = s[k + 1 + i - 1]
  <2>1. \A i \in k + 1 .. Len(s) : s[i] \in Nat
    BY <1>1, <1>2
  <2>2. k + 1 \in Int /\ Len(s) \in Int
    BY <1>1
  <2> QED BY <2>1, <2>2, SubSeqProperties
<1> HIDE DEF a, b
<1>12. DOMAIN a = 1 .. Len(a) /\ DOMAIN b = 1 .. Len(b)
  BY <1>3, <1>4, LenProperties
<1>5. Len(a) = k /\ Len(b) = Len(s) - k /\ DOMAIN a = 1 .. k /\ DOMAIN b = 1 .. (Len(s) - k)
  <2>1. (IF 1 <= k THEN k - 1 + 1 ELSE 0) = k
        /\ (IF k + 1 <= Len(s) THEN Len(s) - (k + 1) + 1 ELSE 0) = Len(s) - k
    <3>1. \A n, j \in Nat : j <= n =>
            /\ (IF 1 <= j THEN j - 1 + 1 ELSE 0) = j
            /\ (IF j + 1 <= n THEN n - (j + 1) + 1 ELSE 0) = n - j
      OBVIOUS
    <3> QED BY <1>1, <3>1
  <2>2. Len(a) = k /\ Len(b) = Len(s) - k
    BY <1>3, <1>4, <2>1
  <2> QED BY <1>12, <2>2
<1>6. \A i \in DOMAIN a : i \in DOMAIN s /\ a[i] = s[i]
  BY <1>1, <1>3, <1>5
<1>7. \A i \in DOMAIN b : k + i \in DOMAIN s /\ b[i] = s[k + i]
  <2> SUFFICES ASSUME NEW i \in DOMAIN b
               PROVE  k + i \in DOMAIN s /\ b[i] = s[k + i]
    OBVIOUS
  <2>1. i \in Int /\ 1 <= i /\ i <= Len(s) - k
    BY <1>1, <1>5
  <2>2. k + 1 + i - 1 = k + i /\ i \in 1 .. Len(s) - (k + 1) + 1 /\ k + i \in 1 .. Len(s)
    BY <1>1, <2>1
  <2>3. b[i] = s[k + 1 + i - 1]
    BY <1>4, <2>2
  <2> QED BY <1>1, <2>2, <2>3
<1>8. \A i \in DOMAIN s : i \in DOMAIN a \/ (i - k \in DOMAIN b /\ k + (i - k) = i)
  BY <1>1, <1>5
<1>9. ToSet(a) \subseteq ToSet(s) /\ ToSet(b) \subseteq ToSet(s)
  BY <1>6, <1>7 DEF ToSet
<1>10. ToSet(s) \subseteq ToSet(a) \cup ToSet(b)
  BY <1>6, <1>7, <1>8 DEF ToSet
<1>11. ToSet(a) \cup ToSet(b) = ToSet(s) /\ a \in Seq(Nat) /\ b \in Seq(Nat)
  BY <1>3, <1>4, <1>9, <1>10
<1> QED BY <1>5, <1>11 DEF a, b

\* No rows.
LEMMA NoRows == <<>> \in Seq(Nat) /\ Len(<<>>) = 0 /\ ToSet(<<>>) = {}
BY EmptySeq DEF ToSet

\* The checks of a message and the numbers their events get.
LEMMA Numbers ==
    ASSUME NEW n \in Nat, NEW checks \in Seq(Check)
    PROVE  LET r == [i \in DOMAIN checks |-> n + i] IN
           r \in Seq(Nat) /\ Len(r) = Len(checks) /\ ToSet(r) = (n + 1) .. (n + Len(checks))
<1> DEFINE r == [i \in DOMAIN checks |-> n + i]
<1>1. Len(checks) \in Nat /\ DOMAIN checks = 1 .. Len(checks)
  BY LenProperties
<1> DEFINE m == Len(checks)
<1>2. r = [i \in 1 .. m |-> n + i]
  BY <1>1
<1>3. r \in [1 .. m -> Nat]
  BY <1>1, <1>2
<1> HIDE DEF m
<1>4. m \in Nat
  BY <1>1 DEF m
<1>5. r \in Seq(Nat) /\ DOMAIN r = 1 .. m
  BY <1>3, <1>4, SeqDef
<1>6. Len(r) = m
  BY <1>4, <1>5, LenProperties
<1>7. \A j \in 1 .. m : r[j] = n + j
  BY <1>2
<1>8. \A x \in (n + 1) .. (n + m) : x - n \in 1 .. m /\ x = n + (x - n)
  BY <1>4
<1> HIDE DEF r
<1>9. ToSet(r) = {r[j] : j \in 1 .. m}
  BY <1>5 DEF ToSet
<1>10. \A x \in ToSet(r) : x \in (n + 1) .. (n + m)
  BY <1>4, <1>7, <1>9
<1>11. \A x \in (n + 1) .. (n + m) : x \in ToSet(r)
  BY <1>7, <1>8, <1>9
<1>12. ToSet(r) = (n + 1) .. (n + m)
  BY <1>10, <1>11
<1> QED BY <1>5, <1>6, <1>12 DEF r, m

\* The lengths are numbers.
LEMMA LedgerLengths ==
    ASSUME Ledger
    PROVE  /\ Len(pend) \in Nat /\ Len(writes) \in Nat /\ Len(orphans) \in Nat
           /\ Len(opened) \in Nat /\ Len(stored) \in Nat /\ Len(failed) \in Nat /\ Len(events) \in Nat
<1>1. \A q \in Seq(Nat) : Len(q) \in Nat
  BY LenProperties
<1>2. \A q \in Seq(Event) : Len(q) \in Nat
  BY LenProperties
<1> QED BY <1>1, <1>2 DEF Ledger

\* the events that a message raises
Notes(s, ts, checks, at) ==
    [i \in DOMAIN checks |-> [check |-> checks[i], sym |-> s, ts |-> ts, at |-> at]]

\* They are events.
LEMMA NotesAreEvents ==
    ASSUME NEW checks \in Seq(Check), NEW s \in QSym \cup {q[1] : q \in Quotes},
           NEW ts \in Nat, NEW at \in Nat
    PROVE  Notes(s, ts, checks, at) \in Seq(Event) /\ Len(Notes(s, ts, checks, at)) = Len(checks)
<1> DEFINE r == Notes(s, ts, checks, at)
<1>1. Len(checks) \in Nat /\ DOMAIN checks = 1 .. Len(checks)
  BY LenProperties
<1>2. \A i \in 1 .. Len(checks) : checks[i] \in Check
  BY ElementOfSeq
<1>3. r \in [1 .. Len(checks) -> Event]
  BY <1>1, <1>2 DEF Notes, Event
<1>4. r \in Seq(Event)
  BY <1>1, <1>3, SeqDef
<1>5. DOMAIN r = 1 .. Len(checks)
  BY <1>3
<1>6. Len(r) = Len(checks)
  BY <1>1, <1>4, <1>5, LenProperties
<1> QED BY <1>4, <1>6

\* What a message raises is appended to the list of its rows.
LEMMA RaiseLedger ==
    ASSUME Ledger, phase = "up", tape \in Seq(Trade),
           NEW s \in QSym \cup {q[1] : q \in Quotes}, NEW ts \in Nat, NEW checks \in Seq(Check),
           Raise(s, ts, checks),
           UNCHANGED <<writes, orphans, opened, stored, failed, phase>>
    PROVE  Ledger' /\ events' = events \o Notes(s, ts, checks, Len(tape) + 1)
<1> DEFINE at == Len(tape) + 1
           r == [i \in DOMAIN checks |-> Len(events) + i]
           n == Len(events)
           m == Len(checks)
<1>1. events' = events \o Notes(s, ts, checks, at) /\ pend' = pend \o r
  BY DEF Raise, Notes
<1>2. at \in Nat
  BY LenProperties
<1>3. Notes(s, ts, checks, at) \in Seq(Event) /\ Len(Notes(s, ts, checks, at)) = m
  BY <1>2, NotesAreEvents
<1>4. events \in Seq(Event) /\ pend \in Seq(Nat)
  BY DEF Ledger
<1>5. events' \in Seq(Event) /\ Len(events') = n + m
  <2> DEFINE z == Notes(s, ts, checks, at)
  <2> HIDE DEF z
  <2>1. z \in Seq(Event) /\ Len(z) = m /\ events' = events \o z
    BY <1>1, <1>3 DEF z
  <2>2. \A u, v \in Seq(Event) : u \o v \in Seq(Event) /\ Len(u \o v) = Len(u) + Len(v)
    BY ConcatProperties
  <2> QED BY <1>4, <2>1, <2>2
<1>6. n \in Nat /\ m \in Nat
  BY LedgerLengths, LenProperties
<1>7. r \in Seq(Nat) /\ Len(r) = m /\ ToSet(r) = (n + 1) .. (n + m)
  BY <1>6, Numbers
<1> HIDE DEF r
<1>8. pend' \in Seq(Nat) /\ Len(pend') = Len(pend) + m /\ ToSet(pend') = ToSet(pend) \cup ((n + 1) .. (n + m))
  BY <1>1, <1>4, <1>7, RowsJoined
<1> HIDE DEF n, m
<1>9. Len(pend') + Len(writes) + Len(orphans) + Len(opened) + Len(stored) + Len(failed) = Len(events')
  <2>2. Len(pend) + Len(writes) + Len(orphans) + Len(opened) + Len(stored) + Len(failed) = n
    BY DEF Ledger, n
  <2>3. Len(pend') = Len(pend) + m /\ Len(events') = n + m
    BY <1>5, <1>8
  <2>4. Len(pend) \in Nat /\ Len(writes) \in Nat /\ Len(orphans) \in Nat
        /\ Len(opened) \in Nat /\ Len(stored) \in Nat /\ Len(failed) \in Nat
    BY LedgerLengths
  <2>5. \A a, b, c, d, e, f, x, y \in Nat :
            a + b + c + d + e + f = x => (a + y) + b + c + d + e + f = x + y
    OBVIOUS
  <2> HIDE DEF Ledger
  <2> QED BY <1>6, <2>2, <2>3, <2>4, <2>5
<1>10. ToSet(pend') \cup ToSet(writes) \cup ToSet(orphans) \cup ToSet(opened) \cup ToSet(stored)
         \cup ToSet(failed) = 1 .. Len(events')
  <2>1. 1 .. (n + m) = (1 .. n) \cup ((n + 1) .. (n + m))
    BY <1>6
  <2>2. ToSet(pend) \cup ToSet(writes) \cup ToSet(orphans) \cup ToSet(opened) \cup ToSet(stored)
         \cup ToSet(failed) = 1 .. n
    BY DEF Ledger, n
  <2> QED BY <1>5, <1>8, <2>1, <2>2
<1> QED BY <1>1, <1>5, <1>8, <1>9, <1>10 DEF Ledger

\* an insert, whatever becomes of it
Insert(rows) == InsertWorks(rows) \/ InsertFails(rows)

\* It puts each of its rows in one place.
LEMMA InsertMoves ==
    ASSUME NEW rows \in Seq(Nat), opened \in Seq(Nat), stored \in Seq(Nat), failed \in Seq(Nat), Insert(rows)
    PROVE  /\ opened' \in Seq(Nat) /\ stored' \in Seq(Nat) /\ failed' \in Seq(Nat)
           /\ Len(opened') + Len(stored') + Len(failed')
                = Len(rows) + Len(opened) + Len(stored) + Len(failed)
           /\ ToSet(opened') \cup ToSet(stored') \cup ToSet(failed')
                = ToSet(rows) \cup ToSet(opened) \cup ToSet(stored) \cup ToSet(failed)
<1>0. \A q \in Seq(Nat) : Len(q) \in Nat
  BY LenProperties
<1>1. CASE InsertWorks(rows)
  <2>1. opened' = <<>> /\ stored' = (stored \o opened) \o rows /\ failed' = failed
    BY <1>1 DEF InsertWorks
  <2> DEFINE z == stored \o opened
  <2>2. z \in Seq(Nat) /\ Len(z) = Len(stored) + Len(opened) /\ ToSet(z) = ToSet(stored) \cup ToSet(opened)
    BY RowsJoined
  <2> HIDE DEF z
  <2>3. stored' \in Seq(Nat) /\ Len(stored') = Len(z) + Len(rows) /\ ToSet(stored') = ToSet(z) \cup ToSet(rows)
    BY <2>1, <2>2, RowsJoined DEF z
  <2>4. opened' \in Seq(Nat) /\ Len(opened') = 0 /\ ToSet(opened') = {}
    BY <2>1, NoRows
  <2>5. \A a, b, c, d \in Nat : 0 + ((a + b) + c) + d = c + b + a + d
    OBVIOUS
  <2>6. Len(opened') + Len(stored') + Len(failed') = Len(rows) + Len(opened) + Len(stored) + Len(failed)
    BY <1>0, <2>1, <2>2, <2>3, <2>4, <2>5
  <2> QED BY <2>1, <2>2, <2>3, <2>4, <2>6
<1>2. CASE InsertFails(rows)
  <2>1. PICK k \in 0 .. Len(rows) : /\ opened' = opened \o SubSeq(rows, 1, k)
                                    /\ failed' = failed \o SubSeq(rows, k + 1, Len(rows))
    BY <1>2 DEF InsertFails
  <2>2. stored' = stored
    BY <1>2 DEF InsertFails
  <2> DEFINE a == SubSeq(rows, 1, k)
             b == SubSeq(rows, k + 1, Len(rows))
  <2>3. a \in Seq(Nat) /\ b \in Seq(Nat) /\ Len(a) = k /\ Len(b) = Len(rows) - k
        /\ ToSet(a) \cup ToSet(b) = ToSet(rows)
    BY RowsSplit
  <2>8. opened' = opened \o a /\ failed' = failed \o b
    BY <2>1
  <2> HIDE DEF a, b
  <2>4. opened' \in Seq(Nat) /\ Len(opened') = Len(opened) + k /\ ToSet(opened') = ToSet(opened) \cup ToSet(a)
    BY <2>8, <2>3, RowsJoined
  <2>5. failed' \in Seq(Nat) /\ Len(failed') = Len(failed) + (Len(rows) - k)
        /\ ToSet(failed') = ToSet(failed) \cup ToSet(b)
    BY <2>8, <2>3, RowsJoined
  <2>6. \A n, o, s, f \in Nat, j \in Int : (o + j) + s + (f + (n - j)) = n + o + s + f
    OBVIOUS
  <2>7. Len(opened') + Len(stored') + Len(failed') = Len(rows) + Len(opened) + Len(stored) + Len(failed)
    BY <1>0, <2>2, <2>4, <2>5, <2>6
  <2> QED BY <2>2, <2>3, <2>4, <2>5, <2>7
<1> QED BY <1>1, <1>2 DEF Insert

\* A flush, a write that ends, the stop and the close move rows from place to place.
LEMMA RowsMove ==
    ASSUME Ledger, QFlush \/ QWriteEnds \/ OrphanEnds \/ QStop \/ QClose
    PROVE  Ledger'
<1> USE NoRows
<1>0. \A a, b \in Seq(Nat) : a \o b \in Seq(Nat) /\ Len(a \o b) = Len(a) + Len(b)
                             /\ ToSet(a \o b) = ToSet(a) \cup ToSet(b)
  BY RowsJoined
<1>9. Len(pend) + Len(writes) + Len(orphans) + Len(opened) + Len(stored) + Len(failed) = Len(events)
  BY DEF Ledger
<1>1. CASE QFlush
  BY <1>1, LedgerLengths DEF Ledger, QFlush, monitorVars
<1>2. CASE QWriteEnds
  <2>1. Insert(writes)
    BY <1>2 DEF QWriteEnds, Insert
  <2>2. UNCHANGED <<events, pend, orphans, phase>> /\ writes' = <<>> /\ writes # <<>>
    BY <1>2 DEF QWriteEnds, monitorVars
  <2>3. /\ opened' \in Seq(Nat) /\ stored' \in Seq(Nat) /\ failed' \in Seq(Nat)
        /\ Len(opened') + Len(stored') + Len(failed')
             = Len(writes) + Len(opened) + Len(stored) + Len(failed)
        /\ ToSet(opened') \cup ToSet(stored') \cup ToSet(failed')
             = ToSet(writes) \cup ToSet(opened) \cup ToSet(stored) \cup ToSet(failed)
    BY <2>1, InsertMoves DEF Ledger
  <2>4. Len(opened') \in Nat /\ Len(stored') \in Nat /\ Len(failed') \in Nat
    BY <2>3, LenProperties
  <2>5. Len(pend') + Len(writes') + Len(orphans') + Len(opened') + Len(stored') + Len(failed') = Len(events')
    <3> HIDE DEF Ledger
    <3>1. Len(pend') = Len(pend) /\ Len(orphans') = Len(orphans) /\ Len(writes') = 0 /\ Len(events') = Len(events)
      BY <2>2
    <3>2. Len(opened') + Len(stored') + Len(failed') = Len(writes) + Len(opened) + Len(stored) + Len(failed)
      BY <2>3
    <3> QED BY <1>9, <2>4, <3>1, <3>2, LedgerLengths
  <2>6. ToSet(pend') \cup ToSet(writes') \cup ToSet(orphans') \cup ToSet(opened') \cup ToSet(stored')
          \cup ToSet(failed') = 1 .. Len(events')
    BY <2>2, <2>3 DEF Ledger
  <2> QED BY <2>2, <2>3, <2>5, <2>6 DEF Ledger
<1>3. CASE OrphanEnds
  <2>1. UNCHANGED <<events, pend, writes, phase>> /\ orphans' = <<>> /\ orphans # <<>>
    BY <1>3 DEF OrphanEnds, monitorVars
  <2>2. /\ opened' \in Seq(Nat) /\ stored' \in Seq(Nat) /\ failed' \in Seq(Nat)
        /\ Len(opened') + Len(stored') + Len(failed')
             = Len(orphans) + Len(opened) + Len(stored) + Len(failed)
        /\ ToSet(opened') \cup ToSet(stored') \cup ToSet(failed')
             = ToSet(orphans) \cup ToSet(opened) \cup ToSet(stored) \cup ToSet(failed)
        /\ phase = "closed" => opened' = opened
    <3>1. CASE phase # "closed"
      <4>1. Insert(orphans)
        BY <1>3, <3>1 DEF OrphanEnds, Insert
      <4> QED BY <3>1, <4>1, InsertMoves DEF Ledger
    <3>2. CASE phase = "closed"
      <4>1. failed' = failed \o orphans /\ stored' = stored /\ opened' = opened
        BY <1>3, <3>2 DEF OrphanEnds
      <4>2. failed' \in Seq(Nat) /\ Len(failed') = Len(failed) + Len(orphans)
            /\ ToSet(failed') = ToSet(failed) \cup ToSet(orphans)
        BY <1>0, <4>1 DEF Ledger
      <4>3. Len(opened') + Len(stored') + Len(failed') = Len(orphans) + Len(opened) + Len(stored) + Len(failed)
        BY <4>1, <4>2, LedgerLengths
      <4> QED BY <4>1, <4>2, <4>3 DEF Ledger
    <3> QED BY <3>1, <3>2
  <2>4. Len(opened') \in Nat /\ Len(stored') \in Nat /\ Len(failed') \in Nat
    BY <2>2, LenProperties
  <2>5. Len(pend') + Len(writes') + Len(orphans') + Len(opened') + Len(stored') + Len(failed') = Len(events')
    <3> HIDE DEF Ledger
    <3>1. Len(pend') = Len(pend) /\ Len(writes') = Len(writes) /\ Len(orphans') = 0 /\ Len(events') = Len(events)
      BY <2>1
    <3>2. Len(opened') + Len(stored') + Len(failed') = Len(orphans) + Len(opened) + Len(stored) + Len(failed)
      BY <2>2
    <3> QED BY <1>9, <2>4, <3>1, <3>2, LedgerLengths
  <2>6. ToSet(pend') \cup ToSet(writes') \cup ToSet(orphans') \cup ToSet(opened') \cup ToSet(stored')
          \cup ToSet(failed') = 1 .. Len(events')
    BY <2>1, <2>2 DEF Ledger
  <2> QED BY <2>1, <2>2, <2>5, <2>6 DEF Ledger
<1>4. CASE QStop
  <2>1. /\ phase = "up" /\ phase' = "stopping" /\ orphans' = writes /\ writes' = pend /\ pend' = <<>>
        /\ UNCHANGED <<events, opened, stored, failed>>
    BY <1>4 DEF QStop, monitorVars
  <2>2. orphans = <<>>
    BY <2>1 DEF Ledger
  <2>3. Len(pend') + Len(writes') + Len(orphans') + Len(opened') + Len(stored') + Len(failed') = Len(events')
    BY <2>1, <2>2, LedgerLengths DEF Ledger
  <2>4. ToSet(pend') \cup ToSet(writes') \cup ToSet(orphans') \cup ToSet(opened') \cup ToSet(stored')
          \cup ToSet(failed') = 1 .. Len(events')
    BY <2>1, <2>2 DEF Ledger
  <2> QED BY <2>1, <2>3, <2>4 DEF Ledger
<1>5. CASE QClose
  <2>1. /\ phase = "stopping" /\ writes = <<>> /\ phase' = "closed"
        /\ failed' = failed \o opened /\ opened' = <<>>
        /\ UNCHANGED <<events, pend, writes, orphans, stored>>
    BY <1>5 DEF QClose, monitorVars
  <2>2. failed' \in Seq(Nat) /\ Len(failed') = Len(failed) + Len(opened)
        /\ ToSet(failed') = ToSet(failed) \cup ToSet(opened)
    BY <1>0, <2>1 DEF Ledger
  <2>3. Len(pend') + Len(writes') + Len(orphans') + Len(opened') + Len(stored') + Len(failed') = Len(events')
    BY <2>1, <2>2, LedgerLengths DEF Ledger
  <2>4. ToSet(pend') \cup ToSet(writes') \cup ToSet(orphans') \cup ToSet(opened') \cup ToSet(stored')
          \cup ToSet(failed') = 1 .. Len(events')
    BY <2>1, <2>2 DEF Ledger
  <2> QED BY <2>1, <2>2, <2>3, <2>4 DEF Ledger
<1> QED BY <1>1, <1>2, <1>3, <1>4, <1>5

\* Every event is in one place: the rows of the places put together are the numbers of
\* the events, each once.
LEMMA LedgerAccounts == ASSUME Ledger PROVE EventsAccounted
<1>0. \A a, b \in Seq(Nat) : a \o b \in Seq(Nat) /\ Len(a \o b) = Len(a) + Len(b)
                             /\ ToSet(a \o b) = ToSet(a) \cup ToSet(b)
  BY RowsJoined
<1>1. PICK a, b, c, d, e : /\ a = pend \o writes /\ b = a \o orphans /\ c = b \o opened
                           /\ d = c \o stored /\ e = d \o failed
  OBVIOUS
<1>2. a \in Seq(Nat) /\ Len(a) = Len(pend) + Len(writes) /\ ToSet(a) = ToSet(pend) \cup ToSet(writes)
  BY <1>0, <1>1 DEF Ledger
<1>3. b \in Seq(Nat) /\ Len(b) = Len(a) + Len(orphans) /\ ToSet(b) = ToSet(a) \cup ToSet(orphans)
  BY <1>0, <1>1, <1>2 DEF Ledger
<1>4. c \in Seq(Nat) /\ Len(c) = Len(b) + Len(opened) /\ ToSet(c) = ToSet(b) \cup ToSet(opened)
  BY <1>0, <1>1, <1>3 DEF Ledger
<1>5. d \in Seq(Nat) /\ Len(d) = Len(c) + Len(stored) /\ ToSet(d) = ToSet(c) \cup ToSet(stored)
  BY <1>0, <1>1, <1>4 DEF Ledger
<1>6. Len(e) = Len(d) + Len(failed) /\ ToSet(e) = ToSet(d) \cup ToSet(failed)
  BY <1>0, <1>1, <1>5 DEF Ledger
<1>7. Len(e) = Len(events)
  BY <1>2, <1>3, <1>4, <1>5, <1>6 DEF Ledger
<1>8. ToSet(e) = 1 .. Len(events)
  BY <1>2, <1>3, <1>4, <1>5, <1>6 DEF Ledger
<1>9. e = pend \o writes \o orphans \o opened \o stored \o failed
  BY <1>1
<1>10. phase = "closed" => pend \o writes \o opened = <<>>
  <2>1. phase = "closed" => pend = <<>> /\ writes = <<>> /\ opened = <<>>
    BY DEF Ledger
  <2>2. <<>> \o <<>> \o <<>> = <<>>
    BY ConcatEmptySeq, EmptySeq
  <2> QED BY <2>1, <2>2
<1> QED BY <1>7, <1>8, <1>9, <1>10 DEF EventsAccounted

\* A set of numbers from 1 that is not empty has a least one.
LEMMA Smallest ==
    ASSUME NEW n \in Nat, NEW T \in SUBSET (1 .. n), T # {}
    PROVE  Min(T) \in T /\ \A i \in T : Min(T) <= i
<1>1. PICK R : R = OpToRel(<, Nat)
  OBVIOUS
<1>2. IsWellFoundedOn(R, Nat)
  BY <1>1, NatLessThanWellFounded
<1>3. \A x, y \in Nat : <<y, x>> \in R <=> y < x
  BY <1>1 DEF OpToRel
<1>4. T \subseteq Nat
  OBVIOUS
<1>5. PICK m \in T : \A x \in T : ~(<<x, m>> \in R)
  BY <1>2, <1>4, WFMin
<1>6. \A x \in T : ~(x < m)
  BY <1>3, <1>4, <1>5, Zenon
<1>7. \A x \in T : m <= x
  BY <1>4, <1>6
<1>8. \E x \in T : \A y \in T : x <= y
  BY <1>7
<1> QED BY <1>8 DEF Min

\* What is at least as great as all of a set is its greatest; and for the least.
LEMMA Extremes ==
    ASSUME NEW n \in Nat, NEW T \in SUBSET (1 .. n), NEW m \in T
    PROVE  /\ (\A i \in T : i <= m) => Max(T) = m
           /\ (\A i \in T : m <= i) => Min(T) = m
<1>1. Max(T) \in T /\ \A i \in T : i <= Max(T)
  BY Greatest
<1>2. Min(T) \in T /\ \A i \in T : Min(T) <= i
  BY Smallest
<1>3. \A i \in T : i \in Int
  OBVIOUS
<1>4. Max(T) \in Int /\ Min(T) \in Int /\ m \in Int
  BY <1>1, <1>2, <1>3
<1>5. (\A i \in T : i <= m) => Max(T) <= m
  BY <1>1
<1>6. (\A i \in T : m <= i) => m <= Min(T)
  BY <1>2
<1>7. m <= Max(T) /\ Min(T) <= m
  BY <1>1, <1>2
<1> QED BY <1>4, <1>5, <1>6, <1>7

\* A set of numbers to which a greater one is added.
LEMMA OneMore ==
    ASSUME NEW n \in Nat, NEW T \in SUBSET (1 .. n)
    PROVE  /\ Max(T \cup {n + 1}) = n + 1
           /\ T # {} => Min(T \cup {n + 1}) = Min(T)
           /\ T = {} => Min(T \cup {n + 1}) = n + 1
           /\ IsFiniteSet(T) /\ Cardinality(T \cup {n + 1}) = Cardinality(T) + 1
           /\ Cardinality(T) \in Nat
<1> DEFINE U == T \cup {n + 1}
<1>1. U \in SUBSET (1 .. (n + 1)) /\ n + 1 \in Nat /\ n + 1 \in U
  OBVIOUS
<1>2. \A i \in U : i <= n + 1
  OBVIOUS
<1>3. Max(U) = n + 1
  BY <1>1, <1>2, Extremes
<1>4. ASSUME T # {} PROVE Min(U) = Min(T)
  <2>1. Min(T) \in T /\ \A i \in T : Min(T) <= i
    BY <1>4, Smallest
  <2>3. Min(T) \in Int /\ Min(T) <= n + 1
    <3>1. \A i \in T : i \in Int /\ i <= n + 1
      OBVIOUS
    <3> QED BY <2>1, <3>1
  <2>2. Min(T) \in U /\ \A i \in U : Min(T) <= i
    BY <2>1, <2>3
  <2> HIDE DEF U
  <2> QED BY <1>1, <2>2, Extremes
<1>5. ASSUME T = {} PROVE Min(U) = n + 1
  BY <1>1, <1>5, Extremes
<1>6. IsFiniteSet(T) /\ n + 1 \notin T
  <2>1. IsFiniteSet(1 .. n)
    BY FS_Interval
  <2>2. IsFiniteSet(T)
    BY <2>1, FS_Subset
  <2>3. \A i \in T : i # n + 1
    OBVIOUS
  <2> QED BY <2>2, <2>3
<1>7. Cardinality(U) = Cardinality(T) + 1 /\ Cardinality(T) \in Nat
  BY <1>6, FS_AddElement, FS_CardinalityType
<1> QED BY <1>3, <1>4, <1>5, <1>6, <1>7

\* A trade is appended to the tape.
LEMMA TapeGrows ==
    ASSUME NEW t \in Seq(Trade), NEW r \in Trade
    PROVE  /\ Append(t, r) \in Seq(Trade) /\ Len(t) \in Nat /\ DOMAIN t = 1 .. Len(t)
           /\ DOMAIN Append(t, r) = 1 .. (Len(t) + 1) /\ Len(Append(t, r)) = Len(t) + 1
           /\ \A i \in 1 .. Len(t) : Append(t, r)[i] = t[i]
           /\ Append(t, r)[Len(t) + 1] = r
<1>1. Len(t) \in Nat /\ DOMAIN t = 1 .. Len(t)
  BY LenProperties
<1>2. /\ Append(t, r) \in Seq(Trade) /\ Len(Append(t, r)) = Len(t) + 1
      /\ \A i \in 1 .. Len(t) : Append(t, r)[i] = t[i]
      /\ Append(t, r)[Len(t) + 1] = r
  BY AppendProperties
<1>3. DOMAIN Append(t, r) = 1 .. (Len(t) + 1)
  BY <1>2, LenProperties
<1> QED BY <1>1, <1>2, <1>3

\* The trades of a symbol.
LEMMA OfTypes ==
    ASSUME tape \in Seq(Trade), NEW s
    PROVE  /\ Len(tape) \in Nat /\ Of(s) \in SUBSET (1 .. Len(tape))
           /\ s \in Traded <=> Of(s) # {}
           /\ \A i \in 1 .. Len(tape) : i \in Of(s) <=> tape[i].sym = s
<1>1. Len(tape) \in Nat /\ DOMAIN tape = 1 .. Len(tape)
  BY LenProperties
<1> QED BY <1>1 DEF Of, Traded

\* One more trade: whose it is, and what came before each.
LEMMA OfGrows ==
    ASSUME tape \in Seq(Trade), NEW r \in Trade, tape' = Append(tape, r)
    PROVE  /\ Of(r.sym)' = Of(r.sym) \cup {Len(tape) + 1}
           /\ \A s : s # r.sym => Of(s)' = Of(s)
           /\ Traded' = Traded \cup {r.sym}
<1> DEFINE n == Len(tape)
<1>1. /\ n \in Nat /\ DOMAIN tape = 1 .. n /\ DOMAIN tape' = 1 .. (n + 1)
      /\ \A i \in 1 .. n : tape'[i] = tape[i]
      /\ tape'[n + 1] = r
  BY TapeGrows
<1> HIDE DEF n
<1>2. 1 .. (n + 1) = (1 .. n) \cup {n + 1} /\ n + 1 \notin 1 .. n
  BY <1>1
<1>3. Of(r.sym)' = Of(r.sym) \cup {n + 1}
  BY <1>1, <1>2 DEF Of
<1>4. \A s : s # r.sym => Of(s)' = Of(s)
  BY <1>1, <1>2 DEF Of
<1>5. Traded' = Traded \cup {r.sym}
  BY <1>1, <1>2 DEF Traded
<1> QED BY <1>3, <1>4, <1>5 DEF n

\* The trades before it stay what they were.
LEMMA MovesStay ==
    ASSUME tape \in Seq(Trade), NEW r \in Trade, tape' = Append(tape, r), NEW i \in 1 .. Len(tape)
    PROVE  Earlier(i)' = Earlier(i) /\ Prior(i)' = Prior(i) /\ (IsMove(i)' <=> IsMove(i))
           /\ (IsBreak(i)' <=> IsBreak(i)) /\ tape'[i] = tape[i]
           /\ (Earlier(i) # {} => Prior(i) \in 1 .. Len(tape) /\ tape'[Prior(i)] = tape[Prior(i)])
<1> DEFINE n == Len(tape)
           x == tape[i].sym
<1>1. /\ n \in Nat /\ DOMAIN tape = 1 .. n /\ DOMAIN tape' = 1 .. (n + 1)
      /\ \A j \in 1 .. n : tape'[j] = tape[j]
      /\ tape'[n + 1] = r
  BY TapeGrows
<1>2. tape'[i] = tape[i]
  BY <1>1
<1>3. Of(x)' = Of(x) \/ Of(x)' = Of(x) \cup {n + 1}
  BY OfGrows
<1>4. Earlier(i)' = {j \in Of(x)' : j < i}
  BY <1>2 DEF Earlier
<1>5. i < n + 1
  BY <1>1
<1>6. Earlier(i)' = Earlier(i)
  BY <1>1, <1>3, <1>4, <1>5 DEF Earlier
<1>7. Prior(i)' = Prior(i)
  BY <1>6 DEF Prior
<1>8. ASSUME Earlier(i) # {} PROVE Prior(i) \in 1 .. n /\ tape'[Prior(i)] = tape[Prior(i)]
  <2>1. Earlier(i) \in SUBSET (1 .. n)
    BY OfTypes DEF Earlier
  <2>2. Prior(i) \in 1 .. n
    BY <1>1, <1>8, <2>1, Greatest DEF Prior
  <2> QED BY <1>1, <2>2
<1>9. IsMove(i)' <=> IsMove(i)
  BY <1>2, <1>6, <1>7, <1>8 DEF IsMove
<1>10. IsBreak(i)' <=> IsBreak(i)
  BY <1>2, <1>7, <1>8, <1>9 DEF IsBreak, IsMove
<1> QED BY <1>2, <1>6, <1>7, <1>8, <1>9, <1>10

\* The trades that repeat the last record of a symbol: the last one is among them.
LEMMA RepeatsTypes ==
    ASSUME tape \in Seq(Trade), NEW s \in Traded
    PROVE  /\ Repeats(s) \in SUBSET (1 .. Len(tape)) /\ Repeats(s) # {} /\ Len(tape) \in Nat
           /\ Max(Of(s)) \in Of(s) /\ Max(Of(s)) \in Repeats(s) /\ Max(Of(s)) \in 1 .. Len(tape)
           /\ \A i \in Of(s) : i <= Max(Of(s))
<1>1. Len(tape) \in Nat /\ Of(s) \in SUBSET (1 .. Len(tape)) /\ Of(s) # {}
  BY OfTypes
<1>2. Max(Of(s)) \in Of(s) /\ \A i \in Of(s) : i <= Max(Of(s))
  BY <1>1, Greatest
<1>3. \A i \in Of(s) : i \in Int
  BY <1>1
<1>4. \A j \in Of(s) : j >= Max(Of(s)) => j = Max(Of(s))
  BY <1>2, <1>3
<1>5. Max(Of(s)) \in Repeats(s)
  BY <1>2, <1>4 DEF Repeats
<1> QED BY <1>1, <1>2, <1>5 DEF Repeats

\* One more trade repeats the last record of its symbol or begins another.
LEMMA RepeatsGrow ==
    ASSUME tape \in Seq(Trade), NEW r \in Trade, tape' = Append(tape, r)
    PROVE  LET s == r.sym
               l == tape[Max(Of(s))]
           IN  /\ s \in Traded /\ l.px = r.px /\ l.ts = r.ts
                    => Repeats(s)' = Repeats(s) \cup {Len(tape) + 1}
               /\ ~(s \in Traded /\ l.px = r.px /\ l.ts = r.ts) => Repeats(s)' = {Len(tape) + 1}
               /\ \A x : x # s => Repeats(x)' = Repeats(x)
<1> DEFINE n == Len(tape)
           s == r.sym
           m == Max(Of(s))
<1>1. /\ n \in Nat /\ DOMAIN tape = 1 .. n
      /\ \A j \in 1 .. n : tape'[j] = tape[j]
      /\ tape'[n + 1] = r
  BY TapeGrows
<1>2. Of(s)' = Of(s) \cup {n + 1} /\ \A x : x # s => Of(x)' = Of(x)
  BY OfGrows
<1>3. \A x : Of(x) \in SUBSET (1 .. n)
  BY OfTypes
<1>4. \A x : \A i \in Of(x) : tape'[i] = tape[i] /\ i \in Int /\ i < n + 1
  BY <1>1, <1>3
<1> HIDE DEF n
<1>5. \A x : x # s => Repeats(x)' = Repeats(x)
  <2> SUFFICES ASSUME NEW x, x # s PROVE Repeats(x)' = Repeats(x)
    OBVIOUS
  <2>1. Of(x)' = Of(x) /\ \A i \in Of(x) : tape'[i] = tape[i]
    BY <1>2, <1>4
  <2>2. \A i : i \in Repeats(x)' <=> i \in Repeats(x)
    BY <2>1 DEF Repeats
  <2> QED BY <2>2
<1>6. n + 1 \in Repeats(s)'
  <2>1. \A j \in Of(s)' : j >= n + 1 => j = n + 1
    BY <1>1, <1>2, <1>4
  <2> QED BY <1>2, <2>1 DEF Repeats
<1>7. \A i \in Of(s) : i \in Repeats(s)' <=> i \in Repeats(s) /\ tape[i].px = r.px /\ tape[i].ts = r.ts
  <2> SUFFICES ASSUME NEW i \in Of(s)
               PROVE  i \in Repeats(s)' <=> i \in Repeats(s) /\ tape[i].px = r.px /\ tape[i].ts = r.ts
    OBVIOUS
  <2>1. n + 1 >= i
    BY <1>1, <1>4
  <2>2. i \in Repeats(s)' <=> \A j \in Of(s) \cup {n + 1} : j >= i =>
                                tape'[j].px = tape'[i].px /\ tape'[j].ts = tape'[i].ts
    BY <1>2 DEF Repeats
  <2>3. i \in Repeats(s) <=> \A j \in Of(s) : j >= i => tape[j].px = tape[i].px /\ tape[j].ts = tape[i].ts
    BY DEF Repeats
  <2>4. i \in Repeats(s)' <=> /\ \A j \in Of(s) : j >= i => tape[j].px = tape[i].px /\ tape[j].ts = tape[i].ts
                              /\ r.px = tape[i].px /\ r.ts = tape[i].ts
    BY <1>1, <1>4, <2>1, <2>2
  <2> QED BY <2>3, <2>4
<1>8. Repeats(s)' \subseteq Of(s) \cup {n + 1}
  BY <1>2 DEF Repeats
<1>9. ASSUME s \in Traded PROVE m \in Of(s) /\ \A i \in Repeats(s) : tape[i].px = tape[m].px /\ tape[i].ts = tape[m].ts
  <2>1. m \in Of(s) /\ \A i \in Of(s) : i <= m
    BY <1>9, RepeatsTypes
  <2>2. \A i \in Repeats(s) : i \in Of(s) /\ m >= i
    BY <1>4, <2>1 DEF Repeats
  <2> QED BY <2>1, <2>2 DEF Repeats
<1>10. Of(s) # {} => s \in Traded
  BY OfTypes
<1> HIDE DEF m, s
<1>11. ASSUME s \in Traded, tape[m].px = r.px, tape[m].ts = r.ts PROVE Repeats(s)' = Repeats(s) \cup {n + 1}
  <2>1. \A i \in Repeats(s) : i \in Repeats(s)'
    <3>1. \A i \in Repeats(s) : i \in Of(s)
      BY DEF Repeats
    <3> QED BY <1>7, <1>9, <1>11, <3>1
  <2>2. \A i \in Repeats(s)' : i \in Repeats(s) \/ i = n + 1
    BY <1>7, <1>8
  <2> QED BY <1>6, <2>1, <2>2
<1>12. ASSUME ~(s \in Traded /\ tape[m].px = r.px /\ tape[m].ts = r.ts) PROVE Repeats(s)' = {n + 1}
  <2>1. \A i \in Repeats(s)' : i = n + 1
    BY <1>7, <1>8, <1>9, <1>10, <1>12
  <2> QED BY <1>6, <2>1
<1> QED BY <1>5, <1>11, <1>12 DEF n, s, m

\* the events that the checks of a trade raise
Jumps == {<<>>, <<"jump_warning">>, <<"jump_critical">>}
ChecksOf(j, stl, crs) == j \o (IF stl THEN <<"stale">> ELSE <<>>) \o (IF crs THEN <<"cross">> ELSE <<>>)
\* One more check.
LEMMA OneAdded ==
    ASSUME NEW C, NEW q \in Seq(C), NEW w \in C
    PROVE  /\ q \o <<w>> \in Seq(C) /\ Len(q) \in Nat /\ Len(q \o <<w>>) = Len(q) + 1
           /\ \A i \in 1 .. Len(q) : (q \o <<w>>)[i] = q[i]
           /\ (q \o <<w>>)[Len(q) + 1] = w
<1>1. <<w>> \in Seq(C) /\ Len(<<w>>) = 1 /\ <<w>>[1] = w
  OBVIOUS
<1>2. PICK z : z = <<w>>
  OBVIOUS
<1>3. /\ q \o z \in Seq(C) /\ Len(q \o z) = Len(q) + Len(z)
      /\ \A i \in 1 .. Len(q) + Len(z) : (q \o z)[i] = IF i <= Len(q) THEN q[i] ELSE z[i - Len(q)]
  BY <1>1, <1>2, ConcatProperties
<1>4. Len(q) \in Nat
  BY LenProperties
<1>5. PICK u : u = q \o z
  OBVIOUS
<1>6. \A i \in 1 .. Len(q) : u[i] = q[i]
  BY <1>1, <1>2, <1>3, <1>4, <1>5
<1>7. u[Len(q) + 1] = w
  <2>1. Len(q) + 1 \in 1 .. Len(q) + 1 /\ ~(Len(q) + 1 <= Len(q)) /\ Len(q) + 1 - Len(q) = 1
    BY <1>4
  <2> QED BY <1>1, <1>2, <1>3, <1>5, <2>1
<1> QED BY <1>1, <1>2, <1>3, <1>4, <1>5, <1>6, <1>7

\* One check more, or not.
LEMMA KindAdded ==
    ASSUME NEW C, NEW q \in Seq(C), NEW w \in C, NEW b \in BOOLEAN
    PROVE  LET u == q \o (IF b THEN <<w>> ELSE <<>>) IN
           /\ u \in Seq(C) /\ DOMAIN u = 1 .. Len(u) /\ Len(q) \in Nat /\ Len(u) \in Nat
           /\ Len(u) = Len(q) + (IF b THEN 1 ELSE 0)
           /\ \A i \in 1 .. Len(q) : u[i] = q[i]
           /\ b => u[Len(q) + 1] = w
<1>0. \A t \in Seq(C) : DOMAIN t = 1 .. Len(t) /\ Len(t) \in Nat
  BY LenProperties
<1>1. CASE b
  <2>1. PICK u : u = q \o <<w>>
    OBVIOUS
  <2>2. /\ u \in Seq(C) /\ Len(q) \in Nat /\ Len(u) = Len(q) + 1
        /\ \A i \in 1 .. Len(q) : u[i] = q[i]
        /\ u[Len(q) + 1] = w
    BY <2>1, OneAdded
  <2>3. DOMAIN u = 1 .. Len(u) /\ Len(u) \in Nat
    BY <1>0, <2>2
  <2>4. q \o (IF b THEN <<w>> ELSE <<>>) = u
    BY <1>1, <2>1
  <2> QED BY <1>1, <2>2, <2>3, <2>4
<1>2. CASE ~b
  <2>1. q \o (IF b THEN <<w>> ELSE <<>>) = q
    BY <1>2, ConcatEmptySeq
  <2>2. Len(q) = Len(q) + 0
    BY <1>0
  <2> QED BY <1>0, <1>2, <2>1, <2>2
<1> QED BY <1>1, <1>2

\* The checks of a trade: the events they raise, at most one of each kind.
LEMMA KindsAre ==
    ASSUME NEW j \in Jumps, NEW stl \in BOOLEAN, NEW crs \in BOOLEAN
    PROVE  LET c == ChecksOf(j, stl, crs) IN
           /\ c \in Seq(Check)
           /\ stl => \E k \in DOMAIN c : \A i \in DOMAIN c : c[i] = "stale" <=> i = k
           /\ ~stl => \A i \in DOMAIN c : c[i] # "stale"
           /\ crs => \E k \in DOMAIN c : c[k] = "cross"
<1>1. j \in Seq(Check)
  <2>1. <<>> \in Seq(Check) /\ \A w \in Check : <<w>> \in Seq(Check)
    OBVIOUS
  <2>2. "jump_warning" \in Check /\ "jump_critical" \in Check
    BY DEF Check
  <2> QED BY <2>1, <2>2 DEF Jumps
<1>2. \A i \in 1 .. Len(j) : j[i] # "stale"
  <2>1. CASE j = <<>>
    BY <2>1
  <2>2. ASSUME NEW w \in {"jump_warning", "jump_critical"}, j = <<w>> PROVE \A i \in 1 .. Len(j) : j[i] # "stale"
    BY <2>2
  <2> QED BY <2>1, <2>2 DEF Jumps
<1>3. PICK u : u = j \o (IF stl THEN <<"stale">> ELSE <<>>)
  OBVIOUS
<1>4. PICK c : c = u \o (IF crs THEN <<"cross">> ELSE <<>>)
  OBVIOUS
<1>5. c = ChecksOf(j, stl, crs)
  BY <1>3, <1>4 DEF ChecksOf
<1>6. "stale" \in Check /\ "cross" \in Check /\ "stale" # "cross"
  BY DEF Check
<1>7. PICK a, b, C : a = "stale" /\ b = "cross" /\ C = Check
  OBVIOUS
<1>8. /\ u \in Seq(C) /\ Len(j) \in Nat /\ Len(u) \in Nat
      /\ Len(u) = Len(j) + (IF stl THEN 1 ELSE 0)
      /\ \A i \in 1 .. Len(j) : u[i] = j[i]
      /\ stl => u[Len(j) + 1] = a
  <2>1. u = j \o (IF stl THEN <<a>> ELSE <<>>) /\ j \in Seq(C) /\ a \in C
    BY <1>1, <1>3, <1>6, <1>7
  <2> QED BY <2>1, KindAdded
<1>9. /\ c \in Seq(C) /\ DOMAIN c = 1 .. Len(c)
      /\ Len(c) = Len(u) + (IF crs THEN 1 ELSE 0)
      /\ \A i \in 1 .. Len(u) : c[i] = u[i]
      /\ crs => c[Len(u) + 1] = b
  <2>1. c = u \o (IF crs THEN <<b>> ELSE <<>>) /\ u \in Seq(C) /\ b \in C
    BY <1>4, <1>6, <1>7, <1>8
  <2> QED BY <2>1, KindAdded
<1>10. \A i \in 1 .. Len(j) : j[i] # a
  BY <1>2, <1>7
<1>11. \A i \in 1 .. Len(j) : c[i] # a
  <2>1. \A i \in 1 .. Len(j) : i \in 1 .. Len(u)
    BY <1>8
  <2> QED BY <1>8, <1>9, <1>10, <2>1
<1>18. (crs => DOMAIN c = 1 .. (Len(u) + 1)) /\ (~crs => DOMAIN c = 1 .. Len(u))
  <2>1. Len(u) + 0 = Len(u)
    BY <1>8
  <2> QED BY <1>9, <2>1
<1>19. Len(j) \in Nat /\ Len(u) \in Nat /\ (stl => Len(u) = Len(j) + 1) /\ (~stl => Len(u) = Len(j))
  <2>1. Len(j) + 0 = Len(j)
    BY <1>8
  <2> QED BY <1>8, <2>1
<1>20. PICK n, m, D : n = Len(j) /\ m = Len(u) /\ D = DOMAIN c
  OBVIOUS
<1>21. \A i \in D : \/ i \in 1 .. n \/ (stl /\ i = n + 1) \/ (crs /\ i = m + 1)
  <2>1. \A i \in D : i \in 1 .. m \/ (crs /\ i = m + 1)
    BY <1>18, <1>19, <1>20
  <2>2. \A i \in 1 .. m : i \in 1 .. n \/ (stl /\ i = n + 1)
    BY <1>19, <1>20
  <2> QED BY <2>1, <2>2
<1>12. \A i \in DOMAIN c : \/ i \in 1 .. Len(j) \/ (stl /\ i = Len(j) + 1) \/ (crs /\ i = Len(u) + 1)
  BY <1>20, <1>21
<1>13. stl => Len(j) + 1 \in DOMAIN c /\ c[Len(j) + 1] = a
  <2>1. stl => Len(j) + 1 \in 1 .. Len(u)
    BY <1>19
  <2>2. \A i \in 1 .. Len(u) : i \in DOMAIN c
    <3>1. \A i \in 1 .. m : i \in 1 .. m /\ i \in 1 .. (m + 1)
      BY <1>19, <1>20
    <3> QED BY <1>18, <1>20, <3>1
  <2> QED BY <1>8, <1>9, <2>1, <2>2
<1>14. crs => Len(u) + 1 \in DOMAIN c /\ c[Len(u) + 1] = b
  BY <1>8, <1>9
<1>15. a # b
  BY <1>6, <1>7
<1>16. stl => \A i \in DOMAIN c : c[i] = a <=> i = Len(j) + 1
  BY <1>11, <1>12, <1>13, <1>14, <1>15
<1>17. ~stl => \A i \in DOMAIN c : c[i] # a
  BY <1>11, <1>12, <1>14, <1>15
<1> QED BY <1>5, <1>7, <1>9, <1>13, <1>14, <1>16, <1>17

\* what the detectors know of the tape
Taped ==
    /\ wall \in Nat /\ tape \in Seq(Trade)
    /\ \A i \in 1 .. Len(tape) : tape[i].wall <= wall
    /\ DOMAIN px = Traded /\ DOMAIN moves = Traded /\ DOMAIN stale = Traded
    /\ \A s \in Traded : px[s] = [px |-> tape[Max(Of(s))].px, ts |-> tape[Max(Of(s))].ts]
\* the repeated-record check: the record, its repetitions, and what was said of them
StaleToldIn ==
    \A e \in 1 .. Len(events) : events[e].check = "stale" => events[e].at \in 1 .. Len(tape)
WatchedFor(s) ==
    /\ stale[s].ident = <<px[s].px, px[s].ts>>
    /\ stale[s].since = tape[Min(Repeats(s))].wall
    /\ stale[s].count = Cardinality(Repeats(s))
    /\ s \in fired <=> Lasts(Repeats(s))
    /\ Cardinality(Told(s)) = IF s \in fired THEN 1 ELSE 0
Watched == StaleToldIn /\ \A s \in Traded : WatchedFor(s)

\* A dict with one more entry, or another one.
LEMMA PutIs ==
    ASSUME NEW d, NEW k, NEW v
    PROVE  /\ DOMAIN Put(d, k, v) = DOMAIN d \cup {k} /\ Put(d, k, v)[k] = v
           /\ \A x \in DOMAIN d : x # k => Put(d, k, v)[x] = d[x]
BY DEF Put

\* A trade is recorded: the trade itself, and the prices.
LEMMA TapedKeeps ==
    ASSUME Taped, NEW s \in QSym, NEW p \in Nat, NEW ts \in Nat, QTrade(s, p, ts)
    PROVE  LET r == [sym |-> s, px |-> p, ts |-> ts, wall |-> wall] IN
           r \in Trade /\ tape' = Append(tape, r) /\ Taped'
<1>1. PICK r : r = [sym |-> s, px |-> p, ts |-> ts, wall |-> wall]
  OBVIOUS
<1>2. r \in Trade /\ tape' = Append(tape, r) /\ r.sym = s /\ r.px = p /\ r.ts = ts /\ r.wall = wall
  BY <1>1 DEF QTrade, Taped, Trade
<1>3. /\ tape' \in Seq(Trade) /\ Len(tape) \in Nat /\ Len(tape') = Len(tape) + 1
      /\ \A i \in 1 .. Len(tape) : tape'[i] = tape[i]
      /\ tape'[Len(tape) + 1] = r
  BY <1>2, TapeGrows DEF Taped
<1>4. /\ Of(s)' = Of(s) \cup {Len(tape) + 1} /\ Traded' = Traded \cup {s}
      /\ \A x : x # s => Of(x)' = Of(x)
  BY <1>2, OfGrows DEF Taped
<1>5. wall' = wall /\ px' = Put(px, s, [px |-> p, ts |-> ts])
      /\ moves' = Put(moves, s, MovesAfter(s, p, ts)) /\ stale' = Put(stale, s, StaleAfter(s, p, ts).state)
  BY DEF QTrade
<1>6. DOMAIN px' = Traded' /\ DOMAIN moves' = Traded' /\ DOMAIN stale' = Traded'
  <2>1. DOMAIN px' = DOMAIN px \cup {s}
    BY <1>5, PutIs
  <2>2. DOMAIN moves' = DOMAIN moves \cup {s}
    BY <1>5, PutIs
  <2>3. DOMAIN stale' = DOMAIN stale \cup {s}
    BY <1>5, PutIs
  <2> QED BY <1>4, <2>1, <2>2, <2>3 DEF Taped
<1>11. px'[s] = [px |-> p, ts |-> ts] /\ \A x \in Traded : x # s => px'[x] = px[x]
  <2>1. PICK v : v = [px |-> p, ts |-> ts]
    OBVIOUS
  <2>2. px' = Put(px, s, v)
    BY <1>5, <2>1
  <2>3. px'[s] = v /\ \A x \in DOMAIN px : x # s => px'[x] = px[x]
    BY <2>2 DEF Put
  <2> QED BY <2>1, <2>3 DEF Taped
<1>7. \A i \in 1 .. Len(tape') : tape'[i].wall <= wall'
  <2>1. 1 .. Len(tape') = 1 .. Len(tape) \cup {Len(tape) + 1}
    BY <1>3
  <2>2. \A i \in 1 .. Len(tape) : tape'[i].wall <= wall'
    BY <1>3, <1>5 DEF Taped
  <2>3. tape'[Len(tape) + 1].wall <= wall'
    BY <1>2, <1>3, <1>5 DEF Taped
  <2> QED BY <2>1, <2>2, <2>3
<1>8. Max(Of(s)') = Len(tape) + 1
  <2>1. Of(s) \in SUBSET (1 .. Len(tape))
    BY OfTypes DEF Taped
  <2>2. PICK n, T : n = Len(tape) /\ T = Of(s)
    OBVIOUS
  <2>3. Max(T \cup {n + 1}) = n + 1
    BY <1>3, <2>1, <2>2, OneMore
  <2> QED BY <1>4, <2>2, <2>3
<1>9. \A x \in Traded' : px'[x] = [px |-> tape'[Max(Of(x)')].px, ts |-> tape'[Max(Of(x)')].ts]
  <2>1. px'[s] = [px |-> tape'[Max(Of(s)')].px, ts |-> tape'[Max(Of(s)')].ts]
    BY <1>2, <1>3, <1>8, <1>11
  <2>2. ASSUME NEW x \in Traded, x # s
        PROVE  px'[x] = [px |-> tape'[Max(Of(x)')].px, ts |-> tape'[Max(Of(x)')].ts]
    <3>1. px'[x] = px[x] /\ Of(x)' = Of(x)
      BY <1>4, <1>11, <2>2
    <3>2. Max(Of(x)) \in 1 .. Len(tape)
      BY RepeatsTypes DEF Taped
    <3> QED BY <1>3, <3>1, <3>2 DEF Taped
  <2> QED BY <1>4, <2>1, <2>2
<1>10. Taped'
  <2>1. \A x \in Traded' : px'[x] = [px |-> tape[Max(Of(x))].px, ts |-> tape[Max(Of(x))].ts]'
    BY <1>9
  <2> QED BY <1>3, <1>5, <1>6, <1>7, <2>1 DEF Taped
<1> QED BY <1>1, <1>2, <1>10

\* what was said of a set of trades
ToldOf(ev, R) == {e \in 1 .. Len(ev) : ev[e].check = "stale" /\ ev[e].at \in R}
\* what holds of the events after a message, new of the events ev before it
Grown(ev, new, n, checks, ts) ==
    /\ \A R : n + 1 \notin R => ToldOf(new, R) = ToldOf(ev, R)
    /\ \A R : (\A i \in DOMAIN checks : checks[i] # "stale")
                => ToldOf(new, R \cup {n + 1}) = ToldOf(ev, R)
    /\ \A R : \A k \in DOMAIN checks : (\A i \in DOMAIN checks : checks[i] = "stale" <=> i = k)
                => ToldOf(new, R \cup {n + 1}) = ToldOf(ev, R) \cup {Len(ev) + k}
    /\ \A e \in 1 .. Len(new) : new[e].check = "stale" =>
          new[e].at \in 1 .. n \/ (new[e].at = n + 1 /\ \E i \in DOMAIN checks : checks[i] = "stale")
    /\ \A k \in DOMAIN checks : Len(ev) + k \in 1 .. Len(new)
          /\ new[Len(ev) + k].check = checks[k] /\ new[Len(ev) + k].ts = ts
    /\ \A e \in 1 .. Len(ev) : e \in 1 .. Len(new) /\ new[e] = ev[e]

\* That is what a message does to them.
LEMMA ToldGrows ==
    ASSUME NEW ev \in Seq(Event), NEW n \in Nat, NEW checks \in Seq(Check),
           NEW s \in QSym \cup {q[1] : q \in Quotes}, NEW ts \in Nat,
           \A e \in 1 .. Len(ev) : ev[e].check = "stale" => ev[e].at \in 1 .. n,
           NEW new, new = ev \o Notes(s, ts, checks, n + 1)
    PROVE  Grown(ev, new, n, checks, ts)
<1>1. PICK z : z = Notes(s, ts, checks, n + 1)
  OBVIOUS
<1>2. z \in Seq(Event) /\ Len(z) = Len(checks)
  <2>1. n + 1 \in Nat
    OBVIOUS
  <2> QED BY <1>1, <2>1, NotesAreEvents
<1>3. Len(ev) \in Nat /\ Len(checks) \in Nat /\ DOMAIN checks = 1 .. Len(checks)
  BY LenProperties
<1>5. PICK m, c, D : m = Len(ev) /\ c = Len(checks) /\ D = DOMAIN checks
  OBVIOUS
<1>4. /\ Len(new) = m + c
      /\ \A i \in 1 .. m + c : new[i] = IF i <= m THEN ev[i] ELSE z[i - m]
  <2>1. new = ev \o z
    BY <1>1
  <2>2. /\ Len(ev \o z) = Len(ev) + Len(z)
        /\ \A i \in 1 .. Len(ev) + Len(z) : (ev \o z)[i] = IF i <= Len(ev) THEN ev[i] ELSE z[i - Len(ev)]
    BY <1>2, ConcatProperties
  <2>3. Len(z) = c
    BY <1>2, <1>5
  <2> QED BY <1>5, <2>1, <2>2, <2>3
<1>6. m \in Nat /\ c \in Nat /\ D = 1 .. c /\ Len(new) = m + c
  BY <1>3, <1>4, <1>5
<1>7. \A e \in 1 .. m : e \in 1 .. (m + c) /\ new[e] = ev[e]
  BY <1>4, <1>6
<1>8. \A k \in D : m + k \in 1 .. (m + c) /\ new[m + k] = z[k]
  <2> SUFFICES ASSUME NEW k \in D PROVE m + k \in 1 .. (m + c) /\ new[m + k] = z[k]
    OBVIOUS
  <2>1. m + k \in 1 .. (m + c) /\ ~(m + k <= m) /\ m + k - m = k
    BY <1>6
  <2>3. PICK i : i = m + k
    OBVIOUS
  <2>4. new[i] = IF i <= m THEN ev[i] ELSE z[i - m]
    BY <1>4, <2>1, <2>3
  <2>2. new[i] = z[i - m]
    BY <2>1, <2>3, <2>4
  <2>5. i - m = k /\ m + k \in 1 .. (m + c)
    BY <1>6, <2>1, <2>3
  <2> QED BY <2>2, <2>3, <2>5
<1>9. \A k \in D : new[m + k].check = checks[k] /\ new[m + k].at = n + 1 /\ new[m + k].ts = ts
  BY <1>1, <1>5, <1>8 DEF Notes
<1>10. \A e \in 1 .. (m + c) : e \in 1 .. m \/ \E k \in D : e = m + k
  <2> SUFFICES ASSUME NEW e \in 1 .. (m + c), ~(e \in 1 .. m) PROVE \E k \in D : e = m + k
    OBVIOUS
  <2>1. e - m \in 1 .. c /\ e = m + (e - m)
    BY <1>6
  <2> QED BY <1>6, <2>1
<1>11. \A e \in 1 .. m : ev[e].check = "stale" => ev[e].at \in 1 .. n /\ ev[e].at # n + 1
  <2>1. n + 1 \notin 1 .. n
    OBVIOUS
  <2> QED BY <1>5, <2>1
<1>12. \A k \in D : m + k \notin 1 .. m
  BY <1>6
<1>13. ASSUME NEW R, n + 1 \notin R PROVE ToldOf(new, R) = ToldOf(ev, R)
  <2>1. \A e \in 1 .. m : e \in ToldOf(new, R) <=> e \in ToldOf(ev, R)
    BY <1>5, <1>6, <1>7 DEF ToldOf
  <2>2. \A i \in D : m + i \notin ToldOf(new, R)
    BY <1>9, <1>13 DEF ToldOf
  <2>3. ToldOf(new, R) \subseteq 1 .. (m + c) /\ ToldOf(ev, R) \subseteq 1 .. m
    BY <1>5, <1>6 DEF ToldOf
  <2>4. \A e \in ToldOf(new, R) : e \in 1 .. m
    BY <1>10, <2>2, <2>3
  <2> QED BY <2>1, <2>3, <2>4
<1>14. ASSUME NEW R, \A i \in D : checks[i] # "stale" PROVE ToldOf(new, R \cup {n + 1}) = ToldOf(ev, R)
  <2>1. \A e \in 1 .. m : e \in ToldOf(new, R \cup {n + 1}) <=> e \in ToldOf(ev, R)
    BY <1>5, <1>6, <1>7, <1>11 DEF ToldOf
  <2>2. \A i \in D : m + i \notin ToldOf(new, R \cup {n + 1})
    BY <1>9, <1>14 DEF ToldOf
  <2>3. ToldOf(new, R \cup {n + 1}) \subseteq 1 .. (m + c) /\ ToldOf(ev, R) \subseteq 1 .. m
    BY <1>5, <1>6 DEF ToldOf
  <2>4. \A e \in ToldOf(new, R \cup {n + 1}) : e \in 1 .. m
    BY <1>10, <2>2, <2>3
  <2> QED BY <2>1, <2>3, <2>4
<1>15. ASSUME NEW R, NEW k \in D, \A i \in D : checks[i] = "stale" <=> i = k
       PROVE  ToldOf(new, R \cup {n + 1}) = ToldOf(ev, R) \cup {m + k}
  <2>1. \A e \in 1 .. m : e \in ToldOf(new, R \cup {n + 1}) <=> e \in ToldOf(ev, R)
    BY <1>5, <1>6, <1>7, <1>11 DEF ToldOf
  <2>2. \A i \in D : m + i \in ToldOf(new, R \cup {n + 1}) <=> i = k
    BY <1>6, <1>8, <1>9, <1>15 DEF ToldOf
  <2>3. ToldOf(new, R \cup {n + 1}) \subseteq 1 .. (m + c) /\ ToldOf(ev, R) \subseteq 1 .. m
    BY <1>5, <1>6 DEF ToldOf
  <2>4. \A e \in ToldOf(new, R \cup {n + 1}) : e \in ToldOf(ev, R) \/ e = m + k
    BY <1>10, <2>1, <2>2, <2>3
  <2>5. \A e \in ToldOf(ev, R) : e \in ToldOf(new, R \cup {n + 1})
    BY <1>6, <2>1, <2>3
  <2>6. m + k \in ToldOf(new, R \cup {n + 1})
    BY <2>2
  <2> QED BY <2>4, <2>5, <2>6
<1>16. \A e \in 1 .. (m + c) : new[e].check = "stale" =>
          new[e].at \in 1 .. n \/ (new[e].at = n + 1 /\ \E i \in D : checks[i] = "stale")
  <2>1. \A e \in 1 .. m : new[e].check = "stale" => new[e].at \in 1 .. n
    BY <1>7, <1>11
  <2>2. \A k \in D : new[m + k].check = "stale" => new[m + k].at = n + 1 /\ \E i \in D : checks[i] = "stale"
    BY <1>9
  <2> QED BY <1>10, <2>1, <2>2
<1>17. \A k \in D : m + k \in 1 .. Len(new) /\ new[m + k].check = checks[k] /\ new[m + k].ts = ts
  BY <1>6, <1>8, <1>9
<1>18. \A e \in 1 .. m : e \in 1 .. Len(new) /\ new[e] = ev[e]
  BY <1>6, <1>7
<1>19. \A e \in 1 .. Len(new) : new[e].check = "stale" =>
          new[e].at \in 1 .. n \/ (new[e].at = n + 1 /\ \E i \in D : checks[i] = "stale")
  BY <1>6, <1>16
<1> QED BY <1>5, <1>13, <1>14, <1>15, <1>17, <1>18, <1>19 DEF Grown

\* The repeated-record check sees a trade of the symbol.
LEMMA WatchedTrade ==
    ASSUME Taped, Watched, Ledger, NEW s \in QSym, NEW p \in Nat, NEW ts \in Nat, QTrade(s, p, ts),
           NEW checks \in Seq(Check), NEW tell \in BOOLEAN, tell = StaleAfter(s, p, ts).tell,
           tell => \E k \in DOMAIN checks : \A i \in DOMAIN checks : checks[i] = "stale" <=> i = k,
           ~tell => \A i \in DOMAIN checks : checks[i] # "stale",
           events' = events \o Notes(s, ts, checks, Len(tape) + 1)
    PROVE  Watched'
<1> DEFINE n == Len(tape)
           l == tape[Max(Of(s))]
           same == s \in Traded /\ l.px = p /\ l.ts = ts
           r == [sym |-> s, px |-> p, ts |-> ts, wall |-> wall]
<1>1. r \in Trade /\ tape' = Append(tape, r) /\ Taped' /\ r.sym = s /\ r.px = p /\ r.ts = ts /\ r.wall = wall
  BY TapedKeeps
<1> HIDE DEF r
<1>2. /\ n \in Nat /\ Len(tape') = n + 1 /\ tape'[n + 1] = r
      /\ \A i \in 1 .. n : tape'[i] = tape[i]
  BY <1>1, TapeGrows DEF Taped
<1>3. /\ same => Repeats(s)' = Repeats(s) \cup {n + 1}
      /\ ~same => Repeats(s)' = {n + 1}
      /\ \A x : x # s => Repeats(x)' = Repeats(x)
  BY <1>1, RepeatsGrow DEF Taped
<1>4. Traded' = Traded \cup {s}
  BY <1>1, OfGrows DEF Taped
<1>5. events \in Seq(Event) /\ StaleToldIn
  BY DEF Ledger, Watched
<1>6. PICK m : m = Len(events) /\ m \in Nat
  BY LedgerLengths
<1>7. /\ \A R : n + 1 \notin R => ToldOf(events', R) = ToldOf(events, R)
      /\ \A R : ~tell => ToldOf(events', R \cup {n + 1}) = ToldOf(events, R)
      /\ tell => \E k \in DOMAIN checks : \A R : ToldOf(events', R \cup {n + 1}) = ToldOf(events, R) \cup {m + k}
      /\ \A e \in 1 .. Len(events') : events'[e].check = "stale" =>
            events'[e].at \in 1 .. n \/ events'[e].at = n + 1
  <2>1. s \in QSym \cup {q[1] : q \in Quotes}
    OBVIOUS
  <2>2. PICK new : new = events'
    OBVIOUS
  <2>3. new = events \o Notes(s, ts, checks, n + 1)
    BY <2>2
  <2>4. \A e \in 1 .. Len(events) : events[e].check = "stale" => events[e].at \in 1 .. n
    BY <1>5 DEF StaleToldIn
  <2>5. Grown(events, new, n, checks, ts)
    BY <1>2, <1>5, <2>1, <2>3, <2>4, ToldGrows
  <2>6. \A R : n + 1 \notin R => ToldOf(new, R) = ToldOf(events, R)
    BY ONLY <2>5, Zenon DEF Grown
  <2>7. \A R : ~tell => ToldOf(new, R \cup {n + 1}) = ToldOf(events, R)
    <3>1. \A R : (\A i \in DOMAIN checks : checks[i] # "stale")
                   => ToldOf(new, R \cup {n + 1}) = ToldOf(events, R)
      BY ONLY <2>5, Zenon DEF Grown
    <3> QED BY ONLY <3>1, ~tell => \A i \in DOMAIN checks : checks[i] # "stale", Zenon
  <2>8. tell => \E k \in DOMAIN checks :
                  \A R : ToldOf(new, R \cup {n + 1}) = ToldOf(events, R) \cup {m + k}
    <3>1. \A R : \A k \in DOMAIN checks : (\A i \in DOMAIN checks : checks[i] = "stale" <=> i = k)
                   => ToldOf(new, R \cup {n + 1}) = ToldOf(events, R) \cup {m + k}
      BY ONLY <1>6, <2>5, Zenon DEF Grown
    <3> SUFFICES ASSUME tell PROVE \E k \in DOMAIN checks :
                  \A R : ToldOf(new, R \cup {n + 1}) = ToldOf(events, R) \cup {m + k}
      OBVIOUS
    <3>2. PICK k \in DOMAIN checks : \A i \in DOMAIN checks : checks[i] = "stale" <=> i = k
      OBVIOUS
    <3> QED BY ONLY <3>1, <3>2, Zenon
  <2>9. \A e \in 1 .. Len(new) : new[e].check = "stale" =>
            new[e].at \in 1 .. n \/ new[e].at = n + 1
    BY ONLY <2>5, Zenon DEF Grown
  <2> QED BY ONLY <2>2, <2>6, <2>7, <2>8, <2>9, Zenon
<1>8. StaleToldIn'
  <2>1. \A a : a \in 1 .. n \/ a = n + 1 => a \in 1 .. (n + 1)
    BY <1>2
  <2> QED BY <1>2, <1>7, <2>1 DEF StaleToldIn
<1>9. \A x : Told(x) = ToldOf(events, Repeats(x)) /\ Told(x)' = ToldOf(events', Repeats(x)')
  <2>1. DOMAIN events = 1 .. Len(events)
    BY <1>5, LenProperties
  <2>2. events' \in Seq(Event) /\ DOMAIN events' = 1 .. Len(events')
    <3>1. Notes(s, ts, checks, n + 1) \in Seq(Event)
      BY <1>2, NotesAreEvents
    <3>2. \A u, v \in Seq(Event) : u \o v \in Seq(Event)
      BY ConcatProperties
    <3>3. events' \in Seq(Event)
      BY <1>5, <3>1, <3>2
    <3> QED BY <3>3, LenProperties
  <2> QED BY <2>1, <2>2 DEF Told, ToldOf
<1>10. \A x \in Traded : Repeats(x) \in SUBSET (1 .. n) /\ Repeats(x) # {} /\ Max(Repeats(x)) \in 1 .. n
          /\ Min(Repeats(x)) \in 1 .. n /\ Min(Repeats(x)) \in Repeats(x)
  <2> TAKE x \in Traded
  <2>1. Repeats(x) \in SUBSET (1 .. n) /\ Repeats(x) # {}
    BY RepeatsTypes DEF Taped
  <2>2. Max(Repeats(x)) \in Repeats(x) /\ Min(Repeats(x)) \in Repeats(x)
    BY <1>2, <2>1, Greatest, Smallest
  <2> QED BY <2>1, <2>2
<1>11. px'[s] = [px |-> p, ts |-> ts] /\ \A x \in Traded : x # s => px'[x] = px[x]
  <2>1. px' = Put(px, s, [px |-> p, ts |-> ts])
    BY DEF QTrade
  <2> QED BY <2>1 DEF Taped, Put
<1>12. stale'[s] = StaleAfter(s, p, ts).state /\ \A x \in Traded : x # s => stale'[x] = stale[x]
  <2>1. stale' = Put(stale, s, StaleAfter(s, p, ts).state)
    BY DEF QTrade
  <2> QED BY <2>1 DEF Taped, Put
<1>13. (s \in DOMAIN stale /\ stale[s].ident = <<p, ts>>) <=> same
  BY DEF Taped, Watched, WatchedFor
<1>14. /\ stale'[s] = [ident |-> <<p, ts>>, since |-> IF same THEN stale[s].since ELSE wall,
                       count |-> IF same THEN stale[s].count + 1 ELSE 1]
       /\ fired' = IF tell THEN fired \cup {s} ELSE IF same THEN fired ELSE fired \ {s}
       /\ tell <=> /\ same /\ wall - stale[s].since >= After
                   /\ stale[s].count + 1 >= MinUpdates /\ s \notin fired
  <2>1. fired' = StaleAfter(s, p, ts).fired
    BY DEF QTrade
  <2>2. PICK z : z = same
    OBVIOUS
  <2> HIDE DEF same
  <2> QED BY <1>12, <1>13, <2>1 DEF StaleAfter
<1>15. \A x \in Traded : x # s => WatchedFor(x)'
  <2> SUFFICES ASSUME NEW x \in Traded, x # s PROVE WatchedFor(x)'
    OBVIOUS
  <2>1. stale'[x] = stale[x] /\ px'[x] = px[x] /\ Repeats(x)' = Repeats(x)
    BY <1>3, <1>11, <1>12
  <2>2. x \in fired' <=> x \in fired
    BY <1>14
  <2>3. n + 1 \notin Repeats(x)
    <3>1. n + 1 \notin 1 .. n
      BY <1>2
    <3> QED BY <1>10, <3>1
  <2>4. Told(x)' = Told(x)
    BY <1>7, <1>9, <2>1, <2>3
  <2>5. tape'[Min(Repeats(x))] = tape[Min(Repeats(x))] /\ tape'[Max(Repeats(x))] = tape[Max(Repeats(x))]
    BY <1>2, <1>10
  <2>6. Lasts(Repeats(x))' <=> Lasts(Repeats(x))
    BY <2>1, <2>5 DEF Lasts
  <2>7. WatchedFor(x)
    BY DEF Watched
  <2> QED BY <2>1, <2>2, <2>4, <2>5, <2>6, <2>7 DEF WatchedFor

<1>16. CASE same
  <2>1. PICK R : R = Repeats(s)
    OBVIOUS
  <2>2. R \in SUBSET (1 .. n) /\ R # {} /\ Repeats(s)' = R \cup {n + 1}
    BY <1>3, <1>10, <1>16, <2>1
  <2>3. /\ Max(R \cup {n + 1}) = n + 1 /\ Min(R \cup {n + 1}) = Min(R)
        /\ Cardinality(R \cup {n + 1}) = Cardinality(R) + 1 /\ Cardinality(R) \in Nat
    BY <1>2, <2>2, OneMore
  <2>4. WatchedFor(s)
    BY <1>16 DEF Watched
  <2>5. stale[s].since = tape[Min(R)].wall /\ stale[s].count = Cardinality(R)
        /\ (s \in fired <=> Lasts(R))
    BY <2>1, <2>4 DEF WatchedFor
  <2>6. Min(R) \in 1 .. n /\ Max(R) \in 1 .. n
    BY <1>10, <1>16, <2>1
  <2>7. tape'[Min(R)] = tape[Min(R)] /\ tape[Min(R)].wall \in Nat /\ tape[Max(R)].wall \in Nat
        /\ tape[Max(R)].wall <= wall /\ wall \in Nat
    <3>1. \A i \in 1 .. n : tape[i] \in Trade
      BY ElementOfSeq DEF Taped
    <3> QED BY <1>2, <2>6, <3>1 DEF Taped, Trade
  <2>16. PICK Q : Q = R \cup {n + 1}
    OBVIOUS
  <2>8. Lasts(Q)' <=> Cardinality(R) + 1 >= MinUpdates /\ wall - tape[Min(R)].wall >= After
    <3>1. Lasts(Q)' <=> Cardinality(Q) >= MinUpdates /\ tape'[Max(Q)].wall - tape'[Min(Q)].wall >= After
      BY DEF Lasts
    <3>2. Cardinality(Q) = Cardinality(R) + 1 /\ Max(Q) = n + 1 /\ Min(Q) = Min(R)
      BY <2>3, <2>16
    <3>3. tape'[n + 1].wall = wall
      BY <1>1, <1>2
    <3> QED BY <2>7, <3>1, <3>2, <3>3
  <2>9. Lasts(R) => Cardinality(R) + 1 >= MinUpdates /\ wall - tape[Min(R)].wall >= After
    <3>1. Lasts(R) => Cardinality(R) >= MinUpdates /\ tape[Max(R)].wall - tape[Min(R)].wall >= After
      BY DEF Lasts
    <3>2. \A a, b, w, k, c, d \in Nat : k >= c /\ a - b >= d /\ a <= w => k + 1 >= c /\ w - b >= d
      OBVIOUS
    <3>3. MinUpdates \in Nat /\ After \in Nat
      BY QualityAssumption
    <3> QED BY <2>3, <2>7, <3>1, <3>2, <3>3
  <2>10. tell <=> /\ wall - tape[Min(R)].wall >= After
                  /\ Cardinality(R) + 1 >= MinUpdates /\ s \notin fired
    BY <1>14, <1>16, <2>5
  <2>11. s \in fired' <=> s \in fired \/ tell
    BY <1>14, <1>16
  <2>12. s \in fired' <=> Lasts(Repeats(s))'
    <3>1. Lasts(Repeats(s))' <=> Lasts(Q)'
      BY <2>2, <2>16 DEF Lasts
    <3> QED BY <2>5, <2>8, <2>9, <2>10, <2>11, <3>1
  <2>13. stale'[s].ident = <<p, ts>> /\ stale'[s].since = tape'[Min(Repeats(s)')].wall
         /\ stale'[s].count = Cardinality(Repeats(s)')
    BY <1>14, <1>16, <2>2, <2>3, <2>5, <2>7
  <2>14. Cardinality(Told(s)') = IF s \in fired' THEN 1 ELSE 0
    <3>1. Told(s) = ToldOf(events, R) /\ Told(s)' = ToldOf(events', R \cup {n + 1})
      BY <1>9, <2>1, <2>2
    <3>2. CASE tell
      <4>1. PICK k \in DOMAIN checks : Told(s)' = Told(s) \cup {m + k}
        BY <1>7, <3>1, <3>2
      <4>2. s \notin fired /\ s \in fired'
        BY <2>10, <2>11, <3>2
      <4>3. Told(s) \in SUBSET (1 .. m)
        BY <1>6, <3>1 DEF ToldOf
      <4>4. IsFiniteSet(Told(s))
        <5>1. IsFiniteSet(1 .. m)
          BY <1>6, FS_Interval
        <5> QED BY <4>3, <5>1, FS_Subset
      <4>5. Cardinality(Told(s)) = 0
        BY <2>4, <4>2 DEF WatchedFor
      <4>6. Told(s) = {}
        BY <4>4, <4>5, FS_EmptySet
      <4>7. Told(s)' = {m + k}
        BY <4>1, <4>6
      <4> QED BY <4>2, <4>7, FS_Singleton
    <3>3. CASE ~tell
      <4>1. Told(s)' = Told(s)
        BY <1>7, <3>1, <3>3
      <4>2. s \in fired' <=> s \in fired
        BY <2>11, <3>3
      <4> QED BY <2>4, <4>1, <4>2 DEF WatchedFor
    <3> QED BY <3>2, <3>3
  <2>15. WatchedFor(s)'
    BY <1>11, <2>12, <2>13, <2>14 DEF WatchedFor
  <2> QED BY <1>4, <1>8, <1>15, <2>15 DEF Watched
<1>17. CASE ~same
  <2>1. Repeats(s)' = {n + 1} /\ ~tell /\ s \notin fired'
    BY <1>3, <1>14, <1>17
  <2>2. Told(s)' = {}
    <3>1. ToldOf(events', {} \cup {n + 1}) = ToldOf(events, {})
      BY <1>7, <2>1
    <3>2. ToldOf(events, {}) = {} /\ {} \cup {n + 1} = {n + 1}
      BY DEF ToldOf
    <3> QED BY <1>9, <2>1, <3>1, <3>2
  <2>3. Cardinality({n + 1}) = 1 /\ Min({n + 1}) = n + 1
    <3>1. {} \in SUBSET (1 .. n)
      OBVIOUS
    <3>2. Min({} \cup {n + 1}) = n + 1
      BY <1>2, <3>1, OneMore
    <3> QED BY <3>2, FS_Singleton
  <2>4. ~Lasts(Repeats(s))'
    BY <2>1, <2>3, QualityAssumption DEF Lasts
  <2>5. Cardinality(Told(s)') = IF s \in fired' THEN 1 ELSE 0
    BY <2>1, <2>2, FS_EmptySet
  <2>6. stale'[s].ident = <<p, ts>> /\ stale'[s].since = tape'[Min(Repeats(s)')].wall
        /\ stale'[s].count = Cardinality(Repeats(s)')
    BY <1>1, <1>2, <1>14, <1>17, <2>1, <2>3
  <2>7. WatchedFor(s)'
    BY <1>11, <2>1, <2>4, <2>5, <2>6 DEF WatchedFor
  <2> QED BY <1>4, <1>8, <1>15, <2>7 DEF Watched
<1> QED BY <1>16, <1>17

\* The cross-venue check: its last alarm is an event, and it is recent while the rates
\* lie apart.
Alarmed ==
    /\ lastFire \in Nat \cup {NoTime}
    /\ lastFire # NoTime => \E e \in 1 .. Len(events) : events[e].check = "cross" /\ events[e].ts = lastFire
    /\ tape # <<>> /\ Diverges(px) => lastFire # NoTime /\ tape[Len(tape)].ts - lastFire < Quiet

\* It sees a trade.
LEMMA AlarmedTrade ==
    ASSUME Taped, Alarmed, Watched, Ledger, NEW s \in QSym, NEW p \in Nat, NEW ts \in Nat, QTrade(s, p, ts),
           NEW checks \in Seq(Check), NEW crs \in BOOLEAN, crs = CrossFires(px', ts),
           crs => \E k \in DOMAIN checks : checks[k] = "cross",
           events' = events \o Notes(s, ts, checks, Len(tape) + 1)
    PROVE  Alarmed'
<1>1. PICK r : r \in Trade /\ tape' = Append(tape, r) /\ r.ts = ts
  <2> DEFINE r == [sym |-> s, px |-> p, ts |-> ts, wall |-> wall]
  <2>1. r \in Trade /\ tape' = Append(tape, r) /\ r.ts = ts
    BY TapedKeeps
  <2> HIDE DEF r
  <2> QED BY <2>1
<1>2. Len(tape) \in Nat /\ Len(tape') = Len(tape) + 1 /\ tape'[Len(tape')] = r
  BY <1>1, TapeGrows DEF Taped
<1>3. PICK new, n, m : new = events' /\ n = Len(tape) /\ m = Len(events)
  OBVIOUS
<1>4. events \in Seq(Event) /\ s \in QSym \cup {q[1] : q \in Quotes} /\ n \in Nat
      /\ new = events \o Notes(s, ts, checks, n + 1)
  BY <1>2, <1>3 DEF Ledger
<1>5. \A e \in 1 .. Len(events) : events[e].check = "stale" => events[e].at \in 1 .. n
  BY <1>3 DEF Watched, StaleToldIn
<1>6. Grown(events, new, n, checks, ts)
  BY <1>4, <1>5, ToldGrows
<1>7. \A k \in DOMAIN checks : m + k \in 1 .. Len(new) /\ new[m + k].check = checks[k] /\ new[m + k].ts = ts
  BY <1>3, <1>6 DEF Grown
<1>8. \A e \in 1 .. m : e \in 1 .. Len(new) /\ new[e] = events[e]
  BY <1>3, <1>6 DEF Grown
<1>9. lastFire' = IF crs THEN ts ELSE lastFire
  BY DEF QTrade
<1>10. Diverges(px)' <=> Diverges(px')
  OBVIOUS
<1>11. Quiet \in Nat /\ Quiet > 0 /\ NoTime \notin Nat
  BY QualityAssumption DEF NoTime
<1>12. CASE crs
  <2>1. lastFire' = ts /\ lastFire' # NoTime
    BY <1>9, <1>11, <1>12
  <2>2. \E e \in 1 .. Len(new) : new[e].check = "cross" /\ new[e].ts = lastFire'
    BY <1>7, <1>12, <2>1
  <2>3. tape'[Len(tape')].ts - lastFire' < Quiet
    BY <1>1, <1>2, <1>11, <2>1
  <2> QED BY <1>3, <2>1, <2>2, <2>3 DEF Alarmed
<1>13. CASE ~crs
  <2>1. lastFire' = lastFire
    BY <1>9, <1>13
  <2>2. Diverges(px') => lastFire # NoTime /\ ~(ts - lastFire >= Quiet)
    BY <1>13 DEF CrossFires
  <2>3. lastFire # NoTime => ts - lastFire \in Int
    BY DEF Alarmed
  <2>4. Diverges(px') => lastFire # NoTime /\ ts - lastFire < Quiet
    BY <1>11, <2>2, <2>3
  <2>5. lastFire # NoTime => \E e \in 1 .. Len(new) : new[e].check = "cross" /\ new[e].ts = lastFire
    BY <1>3, <1>8 DEF Alarmed
  <2> QED BY <1>1, <1>2, <1>3, <1>10, <2>1, <2>4, <2>5 DEF Alarmed
<1> QED BY <1>12, <1>13

\* A quote changes nothing for the checks of trades.
LEMMA QuoteKeeps ==
    ASSUME Taped, Watched, Alarmed, Ledger, NEW s, NEW bid, NEW ask,
           s \in QSym \cup {q[1] : q \in Quotes}, QQuote(s, bid, ask)
    PROVE  Ledger' /\ Watched' /\ Alarmed'
<1>1. PICK checks : checks = QuoteEvent(bid, ask)
  OBVIOUS
<1>2. checks \in {<<>>, <<"quote_critical">>, <<"quote_warning">>}
  BY <1>1 DEF QuoteEvent
<1>3. checks \in Seq(Check)
  <2>1. <<>> \in Seq(Check) /\ \A w \in Check : <<w>> \in Seq(Check)
    OBVIOUS
  <2>2. "quote_warning" \in Check /\ "quote_critical" \in Check
    BY DEF Check
  <2> QED BY <1>2, <2>1, <2>2
<1>4. \A i \in DOMAIN checks : checks[i] # "stale"
  <2>1. CASE checks = <<>>
    BY <2>1
  <2>2. ASSUME NEW w \in {"quote_critical", "quote_warning"}, checks = <<w>>
        PROVE  \A i \in DOMAIN checks : checks[i] # "stale"
    BY <2>2
  <2> QED BY <1>2, <2>1, <2>2
<1>5. /\ phase = "up" /\ Raise(s, wall, checks)
      /\ UNCHANGED <<writes, orphans, opened, stored, failed, phase>>
      /\ UNCHANGED <<px, moves, stale, fired, lastFire, tape, wall>>
  BY <1>1 DEF QQuote
<1>6. wall \in Nat /\ tape \in Seq(Trade)
  BY DEF Taped
<1>7. Ledger' /\ events' = events \o Notes(s, wall, checks, Len(tape) + 1)
  BY <1>3, <1>5, <1>6, RaiseLedger
<1>8. PICK new, n, m : new = events' /\ n = Len(tape) /\ m = Len(events)
  OBVIOUS
<1>9. events \in Seq(Event) /\ n \in Nat /\ new = events \o Notes(s, wall, checks, n + 1)
  BY <1>6, <1>7, <1>8, LenProperties DEF Ledger
<1>10. \A e \in 1 .. Len(events) : events[e].check = "stale" => events[e].at \in 1 .. n
  BY <1>8 DEF Watched, StaleToldIn
<1>11. Grown(events, new, n, checks, wall)
  BY <1>3, <1>6, <1>9, <1>10, ToldGrows
<1>12. \A e \in 1 .. m : e \in 1 .. Len(new) /\ new[e] = events[e]
  BY <1>8, <1>11 DEF Grown
<1>13. StaleToldIn'
  BY <1>4, <1>5, <1>8, <1>11 DEF Grown, StaleToldIn
<1>14. \A x \in Traded : Told(x)' = Told(x)
  <2> TAKE x \in Traded
  <2>1. n + 1 \notin Repeats(x)
    <3>1. Repeats(x) \in SUBSET (1 .. n)
      BY <1>6, <1>8, RepeatsTypes
    <3>2. n + 1 \notin 1 .. n
      BY <1>9
    <3> QED BY <3>1, <3>2
  <2>2. ToldOf(new, Repeats(x)) = ToldOf(events, Repeats(x))
    BY <1>11, <2>1 DEF Grown
  <2>3. Repeats(x)' = Repeats(x)
    BY <1>5 DEF Repeats, Of
  <2>4. DOMAIN events = 1 .. Len(events) /\ DOMAIN events' = 1 .. Len(events')
    BY <1>7, LenProperties DEF Ledger
  <2>5. Told(x) = ToldOf(events, Repeats(x)) /\ Told(x)' = ToldOf(new, Repeats(x)')
    BY <1>8, <2>4 DEF Told, ToldOf
  <2> QED BY <2>2, <2>3, <2>5
<1>15. Traded' = Traded /\ \A x \in Traded : WatchedFor(x)'
  <2>1. Traded' = Traded
    BY <1>5 DEF Traded
  <2>2. ASSUME NEW x \in Traded PROVE WatchedFor(x)'
    <3>1. WatchedFor(x) /\ Told(x)' = Told(x)
      BY <1>14 DEF Watched
    <3>2. Repeats(x)' = Repeats(x)
      BY <1>5 DEF Repeats, Of
    <3>3. Lasts(Repeats(x))' <=> Lasts(Repeats(x))
      BY <1>5, <3>2 DEF Lasts
    <3> QED BY <1>5, <3>1, <3>2, <3>3 DEF WatchedFor
  <2> QED BY <2>1, <2>2
<1>16. Watched'
  BY <1>13, <1>15 DEF Watched
<1>17. Alarmed'
  <2>1. lastFire # NoTime => \E e \in 1 .. Len(new) : new[e].check = "cross" /\ new[e].ts = lastFire
    BY <1>8, <1>12 DEF Alarmed
  <2> QED BY <1>5, <1>8, <2>1 DEF Alarmed
<1> QED BY <1>7, <1>16, <1>17

\* The jump check: the moves it compares with, in Moves(s).
ComparedFor(s) ==
    /\ moves[s] \in Seq(Nat \X Nat)
    /\ Len(moves[s]) = Min({JumpWindow, Cardinality(Recent(s))})
    /\ \A i \in Recent(s) :
         LET later == Cardinality({j \in Recent(s) : j > i}) IN
         later < JumpWindow =>
             moves[s][Len(moves[s]) - later] = Move(tape[Prior(i)].px, tape[i].px)
Compared == \A s \in Traded : ComparedFor(s)

\* The lesser of two numbers.
LEMMA Lesser ==
    ASSUME NEW a \in Nat, NEW b \in Nat
    PROVE  Min({a, b}) = IF a <= b THEN a ELSE b
<1>1. PICK m \in {a, b} : m = IF a <= b THEN a ELSE b
  OBVIOUS
<1>2. \A y \in {a, b} : m <= y
  BY <1>1
<1>3. Min({a, b}) \in {a, b} /\ \A y \in {a, b} : Min({a, b}) <= y
  BY <1>2 DEF Min
<1>4. Min({a, b}) <= m /\ m <= Min({a, b}) /\ m \in Int /\ Min({a, b}) \in Int
  BY <1>2, <1>3
<1> QED BY <1>1, <1>4

\* A move is a fraction of whole numbers.
LEMMA MoveIs == ASSUME NEW a \in Nat, NEW b \in Nat PROVE Move(a, b) \in Nat \X Nat
<1>1. Dist(a, b) \in Nat
  BY DEF Dist
<1> QED BY <1>1 DEF Move

\* The recent moves of a symbol.
LEMMA RecentTypes ==
    ASSUME tape \in Seq(Trade), NEW s
    PROVE  /\ Recent(s) \in SUBSET (1 .. Len(tape)) /\ IsFiniteSet(Recent(s))
           /\ Cardinality(Recent(s)) \in Nat /\ Recent(s) \subseteq Of(s)
<1>1. Len(tape) \in Nat /\ Of(s) \in SUBSET (1 .. Len(tape))
  BY OfTypes
<1>2. Recent(s) \in SUBSET (1 .. Len(tape)) /\ Recent(s) \subseteq Of(s)
  BY <1>1 DEF Recent
<1>3. IsFiniteSet(1 .. Len(tape))
  BY <1>1, FS_Interval
<1>4. IsFiniteSet(Recent(s))
  BY <1>2, <1>3, FS_Subset
<1> QED BY <1>2, <1>4, FS_CardinalityType

\* A trade of another symbol changes nothing.
LEMMA RecentStays ==
    ASSUME tape \in Seq(Trade), NEW r \in Trade, tape' = Append(tape, r), NEW x, x # r.sym
    PROVE  Recent(x)' = Recent(x)
<1>1. Of(x)' = Of(x) /\ Of(x) \in SUBSET (1 .. Len(tape))
  BY OfGrows, OfTypes
<1>2. \A i \in Of(x) : (IsMove(i)' <=> IsMove(i)) /\ (IsBreak(i)' <=> IsBreak(i))
  BY <1>1, MovesStay
<1>3. \A i : i \in Recent(x)' <=> i \in Of(x) /\ IsMove(i)' /\ \A j \in Of(x) : IsBreak(j)' => j < i
  BY <1>1 DEF Recent
<1>4. \A i : i \in Recent(x)' <=> i \in Recent(x)
  BY <1>2, <1>3 DEF Recent
<1> QED BY <1>4

\* what the last trade of a symbol does: it moves the price, and breaks the series
Moved(s, p) == s \in Traded /\ tape[Max(Of(s))].px > 0 /\ p > 0
Breaks(s, p, ts) == Moved(s, p) /\ Dist(ts, tape[Max(Of(s))].ts) > MaxGap

\* A trade that does not move leaves them, one that breaks ends them, another is added.
LEMMA RecentGrows ==
    ASSUME tape \in Seq(Trade), NEW r \in Trade, tape' = Append(tape, r)
    PROVE  LET s == r.sym IN
           /\ ~Moved(s, r.px) => Recent(s)' = Recent(s)
           /\ Breaks(s, r.px, r.ts) => Recent(s)' = {}
           /\ Moved(s, r.px) /\ ~Breaks(s, r.px, r.ts) => Recent(s)' = Recent(s) \cup {Len(tape) + 1}
           /\ \A k : k = Len(tape) + 1 /\ s \in Traded => tape'[Prior(k)'] = tape[Max(Of(s))]
<1>1. PICK n, k, s : n = Len(tape) /\ k = n + 1 /\ s = r.sym
  OBVIOUS
<1>2. /\ n \in Nat /\ k \in Nat /\ DOMAIN tape = 1 .. n /\ k \notin 1 .. n
      /\ \A j \in 1 .. n : tape'[j] = tape[j] /\ j < k
      /\ tape'[k] = r
  BY <1>1, TapeGrows
<1>3. Of(s)' = Of(s) \cup {k} /\ Of(s) \in SUBSET (1 .. n) /\ (s \in Traded <=> Of(s) # {})
  BY <1>1, OfGrows, OfTypes
<1>4. Earlier(k)' = Of(s)
  <2>1. Earlier(k)' = {j \in Of(s)' : j < k}
    BY <1>1, <1>2 DEF Earlier
  <2>2. ~(k < k)
    BY <1>2
  <2> QED BY <1>2, <1>3, <2>1, <2>2
<1>5. Prior(k)' = Max(Of(s))
  BY <1>4 DEF Prior
<1>6. s \in Traded => Max(Of(s)) \in 1 .. n /\ tape'[Max(Of(s))] = tape[Max(Of(s))]
  <2>1. s \in Traded => Max(Of(s)) \in 1 .. n
    BY <1>1, RepeatsTypes
  <2> QED BY <1>2, <2>1
<1>7. IsMove(k)' <=> Moved(s, r.px)
  BY <1>2, <1>3, <1>4, <1>5, <1>6 DEF IsMove, Moved
<1>8. IsBreak(k)' <=> Breaks(s, r.px, r.ts)
  BY <1>2, <1>5, <1>6, <1>7 DEF IsBreak, Breaks, Moved
<1>9. \A i \in Of(s) : (IsMove(i)' <=> IsMove(i)) /\ (IsBreak(i)' <=> IsBreak(i)) /\ i < k /\ ~(k < i) /\ i # k
  <2>1. \A i \in 1 .. n : (IsMove(i)' <=> IsMove(i)) /\ (IsBreak(i)' <=> IsBreak(i))
    BY <1>1, MovesStay
  <2>2. \A i \in 1 .. n : i < k /\ ~(k < i) /\ i # k
    BY <1>1, <1>2
  <2> QED BY <1>3, <2>1, <2>2
<1>10. \A i : i \in Recent(s)' <=> i \in Of(s) \cup {k} /\ IsMove(i)' /\ \A j \in Of(s) \cup {k} : IsBreak(j)' => j < i
  BY <1>3 DEF Recent
<1>11. \A i \in Of(s) : i \in Recent(s)' <=> i \in Recent(s) /\ ~IsBreak(k)'
  BY <1>9, <1>10 DEF Recent
<1>12. k \in Recent(s)' <=> IsMove(k)' /\ ~IsBreak(k)'
  <2>1. ~(k < k)
    BY <1>2
  <2> QED BY <1>9, <1>10, <2>1
<1>13. Recent(s) \subseteq Of(s) /\ Recent(s)' \subseteq Of(s) \cup {k}
  BY <1>10 DEF Recent
<1>14. ~Moved(s, r.px) => Recent(s)' = Recent(s)
  BY <1>7, <1>8, <1>11, <1>12, <1>13 DEF Breaks
<1>15. Breaks(s, r.px, r.ts) => Recent(s)' = {}
  BY <1>8, <1>11, <1>12, <1>13
<1>16. Moved(s, r.px) /\ ~Breaks(s, r.px, r.ts) => Recent(s)' = Recent(s) \cup {k}
  BY <1>7, <1>8, <1>11, <1>12, <1>13
<1>17. s \in Traded => tape'[Prior(k)'] = tape[Max(Of(s))]
  BY <1>5, <1>6
<1> QED BY <1>1, <1>14, <1>15, <1>16, <1>17

\* what holds of a window of moves w that took one more, v, into the window m
Slid(m, v, size, w) ==
    /\ w \in Seq(Nat \X Nat)
    /\ Len(w) = (IF Len(m) < size THEN Len(m) + 1 ELSE size)
    /\ w[Len(w)] = v
    /\ \A d \in Nat : d < Len(m) /\ d + 1 < Len(w) => w[Len(w) - (d + 1)] = m[Len(m) - d]

\* That is what appending to a bounded deque does.
LEMMA WindowMoves ==
    ASSUME NEW m \in Seq(Nat \X Nat), NEW v \in Nat \X Nat, NEW size \in Nat \ {0}, Len(m) <= size,
           NEW w, w = IF Len(Append(m, v)) > size THEN Tail(Append(m, v)) ELSE Append(m, v)
    PROVE  Slid(m, v, size, w)
<1>1. PICK C : C = Nat \X Nat
  OBVIOUS
<1>2. PICK a, n : a = Append(m, v) /\ n = Len(m)
  OBVIOUS
<1>3. /\ a \in Seq(C) /\ Len(a) = n + 1 /\ n \in Nat
      /\ \A i \in 1 .. n : a[i] = m[i]
      /\ a[n + 1] = v
  <2>1. m \in Seq(C) /\ v \in C
    BY <1>1
  <2>2. Len(m) \in Nat
    BY <2>1, LenProperties
  <2>3. /\ Append(m, v) \in Seq(C) /\ Len(Append(m, v)) = Len(m) + 1
        /\ \A i \in 1 .. Len(m) : Append(m, v)[i] = m[i]
        /\ Append(m, v)[Len(m) + 1] = v
    BY <2>1, AppendProperties
  <2> QED BY <1>2, <2>2, <2>3
<1>4. CASE n < size
  <2>1. ~(Len(a) > size)
    BY <1>3, <1>4
  <2>2. \A d \in Nat : d < n /\ d + 1 < n + 1 => a[n + 1 - (d + 1)] = m[n - d]
    <3> TAKE d \in Nat
    <3> HAVE d < n /\ d + 1 < n + 1
    <3>1. n - d \in 1 .. n /\ n + 1 - (d + 1) = n - d
      BY <1>3
    <3> QED BY <1>3, <3>1
  <2>3. w = a /\ Len(w) = n + 1 /\ w[n + 1] = v
    BY <1>2, <1>3, <2>1
  <2>4. Len(w) = (IF n < size THEN n + 1 ELSE size)
    BY <1>4, <2>3
  <2>5. w \in Seq(Nat \X Nat)
    BY <1>1, <1>3, <2>3
  <2>6. w[Len(w)] = v
    BY <2>3
  <2>7. \A d \in Nat : d < Len(m) /\ d + 1 < Len(w) => w[Len(w) - (d + 1)] = m[Len(m) - d]
    <3> TAKE d \in Nat
    <3> HAVE d < Len(m) /\ d + 1 < Len(w)
    <3>1. d < n /\ d + 1 < n + 1
      BY <1>2, <2>3
    <3>2. a[n + 1 - (d + 1)] = m[n - d]
      BY <2>2, <3>1
    <3>3. Len(m) = n /\ Len(w) = n + 1 /\ w = a
      BY <1>2, <2>3
    <3>4. w[n + 1 - (d + 1)] = m[n - d]
      BY <3>2, <3>3
    <3>5. Len(w) - (d + 1) = n + 1 - (d + 1) /\ Len(m) - d = n - d
      BY <3>3
    <3> QED BY <3>4, <3>5
  <2>8. Len(w) = (IF Len(m) < size THEN Len(m) + 1 ELSE size)
    BY <1>2, <2>4
  <2> QED BY <2>5, <2>6, <2>7, <2>8 DEF Slid
<1>5. CASE n = size
  <2>1. Len(a) > size /\ a # <<>>
    <3>1. Len(a) > size /\ Len(a) # 0
      BY <1>3, <1>5
    <3>2. Len(<<>>) = 0
      BY EmptySeq
    <3> QED BY <3>1, <3>2
  <2>2. w = Tail(a)
    BY <1>2, <2>1
  <2>3. w \in Seq(C) /\ Len(w) = n /\ \A i \in 1 .. n : w[i] = a[i + 1]
    <3>1. Tail(a) \in Seq(C) /\ Len(Tail(a)) = Len(a) - 1 /\ \A i \in 1 .. Len(Tail(a)) : Tail(a)[i] = a[i + 1]
      BY <1>3, <2>1, HeadTailProperties
    <3>2. Len(a) - 1 = n
      BY <1>3
    <3>3. w \in Seq(C) /\ Len(w) = n
      BY <2>2, <3>1, <3>2
    <3>4. \A i \in 1 .. n : w[i] = a[i + 1]
      BY <2>2, <3>1, <3>2
    <3> QED BY <3>3, <3>4
  <2>4. w[n] = v
    <3>1. n \in 1 .. n
      BY <1>3, <1>5
    <3> QED BY <1>3, <2>3, <3>1
  <2>5. \A d \in Nat : d < n /\ d + 1 < n => w[n - (d + 1)] = m[n - d]
    <3> TAKE d \in Nat
    <3> HAVE d < n /\ d + 1 < n
    <3>1. n - d \in 1 .. n /\ n - (d + 1) \in 1 .. n /\ n - (d + 1) + 1 = n - d
      <4>1. \A x, y \in Nat : y + 1 < x => x - y \in 1 .. x /\ x - (y + 1) \in 1 .. x /\ x - (y + 1) + 1 = x - y
        OBVIOUS
      <4> QED BY <1>3, <4>1
    <3> QED BY <1>3, <2>3, <3>1
  <2>6. Len(w) = (IF n < size THEN n + 1 ELSE size)
    BY <1>3, <1>5, <2>3
  <2>7. w \in Seq(Nat \X Nat) /\ Len(w) = n
    BY <1>1, <2>3
  <2>8. w[Len(w)] = v
    BY <2>4, <2>7
  <2>9. \A d \in Nat : d < Len(m) /\ d + 1 < Len(w) => w[Len(w) - (d + 1)] = m[Len(m) - d]
    BY <1>2, <2>5, <2>7
  <2>10. Len(w) = (IF Len(m) < size THEN Len(m) + 1 ELSE size)
    BY <1>2, <2>6
  <2> QED BY <2>7, <2>8, <2>9, <2>10 DEF Slid
<1>6. n < size \/ n = size
  BY <1>2, <1>3
<1> QED BY <1>4, <1>5, <1>6

\* The jump check sees a trade.
LEMMA ComparedTrade ==
    ASSUME Taped, Compared, NEW s \in QSym, NEW p \in Nat, NEW ts \in Nat, QTrade(s, p, ts)
    PROVE  Compared'
<1>1. PICK r : r \in Trade /\ tape' = Append(tape, r) /\ r.sym = s /\ r.px = p /\ r.ts = ts
  <2> DEFINE r == [sym |-> s, px |-> p, ts |-> ts, wall |-> wall]
  <2>1. r \in Trade /\ tape' = Append(tape, r) /\ r.sym = s /\ r.px = p /\ r.ts = ts
    BY TapedKeeps
  <2> HIDE DEF r
  <2> QED BY <2>1
<1>2. PICK n, k : n = Len(tape) /\ k = n + 1
  OBVIOUS
<1>3. /\ n \in Nat /\ k \notin 1 .. n /\ tape'[k] = r /\ tape \in Seq(Trade)
      /\ \A j \in 1 .. n : tape'[j] = tape[j] /\ j < k /\ ~(k < j)
  BY <1>1, <1>2, TapeGrows DEF Taped
<1>4. Traded' = Traded \cup {s} /\ (\A x \in Traded : moves'[x] = IF x = s THEN MovesAfter(s, p, ts) ELSE moves[x])
      /\ moves'[s] = MovesAfter(s, p, ts)
  <2>1. Traded' = Traded \cup {s}
    BY <1>1, <1>3, OfGrows
  <2>2. moves' = Put(moves, s, MovesAfter(s, p, ts))
    BY DEF QTrade
  <2> QED BY <2>1, <2>2 DEF Put, Taped
<1>5. \A x : Recent(x) \in SUBSET (1 .. n) /\ IsFiniteSet(Recent(x)) /\ Cardinality(Recent(x)) \in Nat
  BY <1>2, <1>3, RecentTypes
<1>6. \A x : \A i \in Recent(x) : Move(tape'[Prior(i)'].px, tape'[i].px) = Move(tape[Prior(i)].px, tape[i].px)
  <2> TAKE x
  <2> TAKE i \in Recent(x)
  <2>1. i \in 1 .. Len(tape)
    BY <1>2, <1>5
  <2>2. Prior(i)' = Prior(i) /\ tape'[i] = tape[i] /\ (Earlier(i) # {} => tape'[Prior(i)] = tape[Prior(i)])
    BY <1>1, <1>3, <2>1, MovesStay
  <2>3. Earlier(i) # {}
    BY DEF Recent, IsMove
  <2> QED BY <2>2, <2>3
<1>7. ASSUME NEW x \in Traded, x # s PROVE ComparedFor(x)'
  <2>1. Recent(x)' = Recent(x)
    BY <1>1, <1>3, <1>7, RecentStays
  <2>2. moves'[x] = moves[x]
    BY <1>4, <1>7
  <2> QED BY <1>6, <2>1, <2>2 DEF Compared, ComparedFor
<1>8. /\ ~Moved(s, p) => Recent(s)' = Recent(s)
      /\ Breaks(s, p, ts) => Recent(s)' = {}
      /\ Moved(s, p) /\ ~Breaks(s, p, ts) => Recent(s)' = Recent(s) \cup {k}
      /\ s \in Traded => tape'[Prior(k)'] = tape[Max(Of(s))]
  BY <1>1, <1>2, <1>3, RecentGrows
<1>9. /\ s \in Traded => Before(s) = [px |-> tape[Max(Of(s))].px, ts |-> tape[Max(Of(s))].ts] /\ Moves(s) = moves[s]
      /\ s \notin Traded => Before(s) = [px |-> 0, ts |-> NoTime] /\ Moves(s) = <<>>
  BY DEF Taped, Before, Moves, Get
<1>10. s \in Traded => tape[Max(Of(s))] \in Trade
  BY <1>3, RepeatsTypes, ElementOfSeq
<1>11. Moved(s, p) <=> ~(Before(s).px <= 0 \/ p <= 0)
  BY <1>9, <1>10 DEF Moved, Trade
<1>12. Moved(s, p) => (Breaks(s, p, ts) <=> Broken(s, ts))
  BY <1>9 DEF Moved, Breaks, Broken
<1>13. JumpWindow \in Nat \ {0}
  BY QualityAssumption
<1>14. ComparedFor(s)'
  <2>1. CASE s \notin Traded
    <3>1. ~Moved(s, p) /\ moves'[s] = <<>>
      BY <1>4, <1>9, <1>11, <2>1 DEF Moved, MovesAfter
    <3>2. Recent(s)' = {}
      <4>1. Of(s) = {}
        BY <1>3, <2>1, OfTypes
      <4>2. Recent(s) = {}
        BY <4>1 DEF Recent
      <4> QED BY <1>8, <3>1, <4>2
    <3>3. Min({JumpWindow, 0}) = 0
      BY <1>13, Lesser
    <3>4. <<>> \in Seq(Nat \X Nat) /\ Len(<<>>) = 0
      BY EmptySeq
    <3> QED BY <3>1, <3>2, <3>3, <3>4, FS_EmptySet DEF ComparedFor
  <2>2. CASE s \in Traded /\ ~Moved(s, p)
    <3>1. moves'[s] = moves[s] /\ Recent(s)' = Recent(s)
      BY <1>4, <1>8, <1>9, <1>11, <2>2 DEF MovesAfter
    <3> QED BY <1>6, <2>2, <3>1 DEF Compared, ComparedFor
  <2>3. CASE s \in Traded /\ Breaks(s, p, ts)
    <3>1. Moved(s, p)
      BY <2>3 DEF Breaks
    <3>2. moves'[s] = <<>> /\ Recent(s)' = {}
      BY <1>4, <1>8, <1>11, <1>12, <2>3, <3>1 DEF MovesAfter
    <3>3. Min({JumpWindow, 0}) = 0
      BY <1>13, Lesser
    <3>4. <<>> \in Seq(Nat \X Nat) /\ Len(<<>>) = 0
      BY EmptySeq
    <3> QED BY <3>2, <3>3, <3>4, FS_EmptySet DEF ComparedFor
  <2>4. CASE s \in Traded /\ Moved(s, p) /\ ~Breaks(s, p, ts)
    <3>1. PICK R, m, v, w, c : /\ R = Recent(s) /\ m = moves[s] /\ v = Move(tape[Max(Of(s))].px, p)
                               /\ w = moves'[s] /\ c = Cardinality(R)
      OBVIOUS
    <3>2. R \in SUBSET (1 .. n) /\ IsFiniteSet(R) /\ c \in Nat
      BY <1>5, <3>1
    <3>3. /\ m \in Seq(Nat \X Nat) /\ Len(m) = Min({JumpWindow, c})
          /\ \A i \in R : LET later == Cardinality({j \in R : j > i}) IN
               later < JumpWindow => m[Len(m) - later] = Move(tape[Prior(i)].px, tape[i].px)
      BY <2>4, <3>1 DEF Compared, ComparedFor
    <3>4. Len(m) = (IF JumpWindow <= c THEN JumpWindow ELSE c) /\ Len(m) \in Nat /\ Len(m) <= JumpWindow
      BY <1>13, <3>2, <3>3, Lesser
    <3>5. v \in Nat \X Nat
      BY <1>10, <2>4, <3>1, MoveIs DEF Trade
    <3>6. w = IF Len(Append(m, v)) > JumpWindow THEN Tail(Append(m, v)) ELSE Append(m, v)
      <4>1. Before(s).px = tape[Max(Of(s))].px
        BY <1>9, <2>4
      <4> QED BY <1>4, <1>9, <1>11, <1>12, <2>4, <3>1, <4>1 DEF MovesAfter
    <3>7. /\ w \in Seq(Nat \X Nat)
          /\ Len(w) = (IF Len(m) < JumpWindow THEN Len(m) + 1 ELSE JumpWindow)
          /\ w[Len(w)] = v
          /\ \A d \in Nat : d < Len(m) /\ d + 1 < Len(w) => w[Len(w) - (d + 1)] = m[Len(m) - d]
      <4>1. Slid(m, v, JumpWindow, w)
        BY <1>13, <3>3, <3>4, <3>5, <3>6, WindowMoves
      <4> QED BY <4>1 DEF Slid
    <3>8. Recent(s)' = R \cup {k} /\ k \notin R
      BY <1>3, <1>8, <2>4, <3>1, <3>2
    <3>9. Cardinality(R \cup {k}) = c + 1
      BY <3>1, <3>2, <3>8, FS_AddElement
    <3>10. Len(w) = Min({JumpWindow, c + 1})
      <4>1. Min({JumpWindow, c + 1}) = IF JumpWindow <= c + 1 THEN JumpWindow ELSE c + 1
        BY <1>13, <3>2, Lesser
      <4> QED BY <1>13, <3>2, <3>4, <3>7, <4>1
    <3>11. ASSUME NEW i \in R \cup {k}, Cardinality({j \in R \cup {k} : j > i}) < JumpWindow
           PROVE  w[Len(w) - Cardinality({j \in R \cup {k} : j > i})] = Move(tape'[Prior(i)'].px, tape'[i].px)
      <4>1. CASE i = k
        <5>1. {j \in R \cup {k} : j > i} = {}
          <6>1. ~(k > k) /\ \A j \in R : ~(j > k)
            <7>1. \A j \in 1 .. n : ~(j > n + 1)
              BY <1>3
            <7>2. ~(n + 1 > n + 1)
              BY <1>3
            <7> QED BY <1>2, <3>2, <7>1, <7>2
          <6> QED BY <4>1, <6>1
        <5>2. Len(w) - 0 = Len(w)
          BY <1>13, <3>4, <3>7
        <5>3. Move(tape'[Prior(i)'].px, tape'[i].px) = v
          BY <1>1, <1>3, <1>8, <2>4, <3>1, <4>1
        <5> QED BY <3>7, <5>1, <5>2, <5>3, FS_EmptySet
      <4>2. CASE i \in R
        <5>1. PICK L : L = {j \in R : j > i}
          OBVIOUS
        <5>2. i \in 1 .. n /\ k > i
          BY <1>2, <1>3, <3>2, <4>2
        <5>3. {j \in R \cup {k} : j > i} = L \cup {k}
          BY <5>1, <5>2
        <5>4. L \in SUBSET R /\ IsFiniteSet(L) /\ k \notin L /\ Cardinality(L) \in Nat
          BY <3>2, <3>8, <5>1, FS_Subset, FS_CardinalityType
        <5>5. Cardinality(L \cup {k}) = Cardinality(L) + 1
          BY <5>4, FS_AddElement
        <5>6. Cardinality(L) < c
          <6>1. L \in SUBSET (R \ {i})
            BY <3>2, <5>1
          <6>2. IsFiniteSet(R \ {i}) /\ Cardinality(R \ {i}) = c - 1
            BY <3>1, <3>2, <4>2, FS_RemoveElement
          <6>3. Cardinality(L) <= c - 1
            BY <6>1, <6>2, FS_Subset
          <6> QED BY <3>2, <5>4, <6>3
        <5>7. Cardinality(L) + 1 < JumpWindow
          BY <3>11, <5>3, <5>5
        <5>8. Cardinality(L) < Len(m) /\ Cardinality(L) + 1 < Len(w)
          BY <1>13, <3>2, <3>4, <3>7, <5>4, <5>6, <5>7
        <5>9. w[Len(w) - (Cardinality(L) + 1)] = m[Len(m) - Cardinality(L)]
          BY <3>7, <5>4, <5>8
        <5>10. m[Len(m) - Cardinality(L)] = Move(tape[Prior(i)].px, tape[i].px)
          <6>1. Cardinality(L) < JumpWindow
            BY <1>13, <5>4, <5>7
          <6> QED BY <3>3, <4>2, <5>1, <6>1
        <5>11. Move(tape'[Prior(i)'].px, tape'[i].px) = Move(tape[Prior(i)].px, tape[i].px)
          BY <1>6, <3>1, <4>2
        <5> QED BY <5>3, <5>5, <5>9, <5>10, <5>11
      <4> QED BY <4>1, <4>2
    <3>12. PICK Q : Q = R \cup {k}
      OBVIOUS
    <3>13. \A i \in Q : Cardinality({j \in Q : j > i}) < JumpWindow =>
              w[Len(w) - Cardinality({j \in Q : j > i})] = Move(tape'[Prior(i)'].px, tape'[i].px)
      BY <3>11, <3>12
    <3> QED BY <3>1, <3>7, <3>8, <3>9, <3>10, <3>12, <3>13 DEF ComparedFor
  <2> QED BY <2>1, <2>2, <2>3, <2>4
<1> QED BY <1>4, <1>7, <1>14 DEF Compared

\* the inductive invariant of the quality service
QualityInv == Ledger /\ Taped /\ Watched /\ Compared /\ Alarmed

\* A trade goes through the three checks, and their events are written down.
LEMMA TradeKeeps ==
    ASSUME QualityInv, NEW s \in QSym, NEW p \in Nat, NEW ts \in Nat, QTrade(s, p, ts)
    PROVE  QualityInv'
<1>1. PICK j, tell, crs, checks : /\ j = JumpEvent(s, p, ts) /\ tell = StaleAfter(s, p, ts).tell
                                  /\ crs = CrossFires(px', ts) /\ checks = ChecksOf(j, tell, crs)
  OBVIOUS
<1>2. j \in Jumps
  BY <1>1 DEF JumpEvent, Jumps
<1>3. tell \in BOOLEAN
  BY <1>1 DEF StaleAfter
<1>4. crs \in BOOLEAN
  BY <1>1, Zenon DEF CrossFires
<1>5. /\ checks \in Seq(Check)
      /\ tell => \E k \in DOMAIN checks : \A i \in DOMAIN checks : checks[i] = "stale" <=> i = k
      /\ ~tell => \A i \in DOMAIN checks : checks[i] # "stale"
      /\ crs => \E k \in DOMAIN checks : checks[k] = "cross"
  BY <1>1, <1>2, <1>3, <1>4, KindsAre
<1>6. Raise(s, ts, checks) /\ phase = "up" /\ UNCHANGED <<writes, orphans, opened, stored, failed, phase>>
  BY <1>1 DEF QTrade, ChecksOf
<1>7. Ledger /\ Taped /\ Watched /\ Compared /\ Alarmed /\ tape \in Seq(Trade)
  BY DEF QualityInv, Taped
<1>8. Ledger' /\ events' = events \o Notes(s, ts, checks, Len(tape) + 1)
  BY <1>5, <1>6, <1>7, RaiseLedger
<1>9. Taped'
  BY <1>7, TapedKeeps
<1>10. Watched'
  BY <1>1, <1>3, <1>5, <1>7, <1>8, WatchedTrade
<1>11. Compared'
  BY <1>7, ComparedTrade
<1>12. Alarmed'
  <2>1. crs = CrossFires(px', ts)
    BY <1>1
  <2>2. crs => \E k \in DOMAIN checks : checks[k] = "cross"
    BY <1>5
  <2>3. checks \in Seq(Check)
    BY <1>5
  <2> HIDE DEF Jumps
  <2> QED BY <1>4, <1>7, <1>8, <2>1, <2>2, <2>3, AlarmedTrade
<1> QED BY <1>8, <1>9, <1>10, <1>11, <1>12 DEF QualityInv

\* What leaves the tape, the events and the detectors as they are.
LEMMA DetectorsRest ==
    ASSUME QualityInv, UNCHANGED monitorVars, wall' \in Nat, wall <= wall'
    PROVE  Taped' /\ Watched' /\ Compared' /\ Alarmed'
<1>1. UNCHANGED <<px, moves, stale, fired, lastFire, tape, events>>
  BY DEF monitorVars
<1>2. \A x : Of(x)' = Of(x) /\ Repeats(x)' = Repeats(x) /\ Told(x)' = Told(x) /\ Traded' = Traded
  BY <1>1 DEF Of, Repeats, Told, Traded
<1>3. \A x : Recent(x)' = Recent(x)
  <2>1. \A i : Earlier(i)' = Earlier(i) /\ Prior(i)' = Prior(i)
    BY <1>1 DEF Earlier, Prior, Of
  <2>2. \A i : (IsMove(i)' <=> IsMove(i)) /\ (IsBreak(i)' <=> IsBreak(i))
    BY <1>1, <2>1 DEF IsMove, IsBreak
  <2> TAKE x
  <2>3. Recent(x)' = {i \in Of(x) : IsMove(i)' /\ \A j \in Of(x) : IsBreak(j)' => j < i}
    BY <1>2 DEF Recent
  <2> QED BY <2>2, <2>3 DEF Recent
<1>4. Taped'
  <2>1. \A i \in 1 .. Len(tape) : tape[i].wall <= wall'
    <3>1. \A i \in 1 .. Len(tape) : tape[i].wall \in Nat
      <4>1. \A i \in 1 .. Len(tape) : tape[i] \in Trade
        BY ElementOfSeq DEF QualityInv, Taped
      <4> QED BY <4>1 DEF Trade
    <3> QED BY <3>1 DEF QualityInv, Taped
  <2> QED BY <1>1, <1>2, <2>1 DEF QualityInv, Taped
<1>5. Watched'
  <2>1. StaleToldIn'
    BY <1>1 DEF QualityInv, Watched, StaleToldIn
  <2>2. ASSUME NEW x \in Traded PROVE WatchedFor(x)'
    <3>1. Lasts(Repeats(x))' <=> Lasts(Repeats(x))
      BY <1>1, <1>2 DEF Lasts
    <3>2. WatchedFor(x)
      BY DEF QualityInv, Watched
    <3> QED BY <1>1, <1>2, <3>1, <3>2 DEF WatchedFor
  <2> QED BY <1>2, <2>1, <2>2 DEF Watched
<1>6. Compared'
  <2>1. ASSUME NEW x \in Traded PROVE ComparedFor(x)'
    <3>1. \A i : Prior(i)' = Prior(i)
      BY <1>1 DEF Earlier, Prior, Of
    <3>2. ComparedFor(x)
      BY DEF QualityInv, Compared
    <3> QED BY <1>1, <1>3, <3>1, <3>2 DEF ComparedFor
  <2> QED BY <1>2, <2>1 DEF Compared
<1>7. Alarmed'
  BY <1>1 DEF QualityInv, Alarmed
<1> QED BY <1>4, <1>5, <1>6, <1>7

\* A quote leaves what the jump check knows, and the tape, as they are.
LEMMA QuoteRests ==
    ASSUME QualityInv, NEW s, NEW bid, NEW ask,
           s \in QSym \cup {q[1] : q \in Quotes}, QQuote(s, bid, ask)
    PROVE  QualityInv'
<1>1. Ledger' /\ Watched' /\ Alarmed'
  BY QuoteKeeps DEF QualityInv
<1>2. UNCHANGED <<px, moves, stale, tape, wall>>
  BY DEF QQuote
<1>3. \A x : Of(x)' = Of(x) /\ Traded' = Traded
  BY <1>2 DEF Of, Traded
<1>4. \A i : Earlier(i)' = Earlier(i) /\ Prior(i)' = Prior(i)
  BY <1>2 DEF Earlier, Prior, Of
<1>5. \A i : (IsMove(i)' <=> IsMove(i)) /\ (IsBreak(i)' <=> IsBreak(i))
  BY <1>2, <1>4 DEF IsMove, IsBreak
<1>6. \A x : Recent(x)' = Recent(x)
  <2> TAKE x
  <2>1. Recent(x)' = {i \in Of(x) : IsMove(i)' /\ \A j \in Of(x) : IsBreak(j)' => j < i}
    BY <1>3 DEF Recent
  <2> QED BY <1>5, <2>1 DEF Recent
<1>7. Taped'
  BY <1>2, <1>3 DEF QualityInv, Taped
<1>8. Compared'
  <2>1. ASSUME NEW x \in Traded PROVE ComparedFor(x)'
    <3>1. ComparedFor(x)
      BY DEF QualityInv, Compared
    <3> QED BY <1>2, <1>4, <1>6, <3>1 DEF ComparedFor
  <2> QED BY <1>3, <2>1 DEF Compared
<1> QED BY <1>1, <1>7, <1>8 DEF QualityInv

\* The invariant holds at the start.
LEMMA QualityStarts == ASSUME QualityInit PROVE QualityInv
<1>1. /\ px = <<>> /\ moves = <<>> /\ stale = <<>> /\ fired = {} /\ lastFire = NoTime
      /\ pend = <<>> /\ writes = <<>> /\ orphans = <<>> /\ opened = <<>> /\ stored = <<>> /\ failed = <<>>
      /\ phase = "up" /\ wall = 0 /\ tape = <<>> /\ events = <<>>
  BY DEF QualityInit
<1>2. \A S : <<>> \in Seq(S) /\ Len(<<>>) = 0
  BY EmptySeq
<1>3. 1 .. 0 = {} /\ DOMAIN <<>> = {}
  OBVIOUS
<1>4. Ledger
  <2>1. ToSet(<<>>) = {}
    BY NoRows
  <2>2. 0 + 0 + 0 + 0 + 0 + 0 = 0
    OBVIOUS
  <2> QED BY <1>1, <1>2, <1>3, <2>1, <2>2 DEF Ledger
<1>5. Traded = {}
  BY <1>1, <1>3 DEF Traded
<1>6. Taped
  BY <1>1, <1>2, <1>3, <1>5 DEF Taped
<1>7. Watched /\ Compared
  BY <1>1, <1>2, <1>3, <1>5 DEF Watched, StaleToldIn, Compared
<1>8. Alarmed
  BY <1>1 DEF Alarmed
<1> QED BY <1>4, <1>6, <1>7, <1>8 DEF QualityInv

\* Every step of the service keeps it, and so does every step without the service.
LEMMA QualityStep == ASSUME QualityInv, QualityNext \/ UNCHANGED qualityVars PROVE QualityInv'
<1>1. wall \in Nat
  BY DEF QualityInv, Taped
<1>2. ASSUME NEW t \in Ticks, QTrade(t[1], t[2], wall) PROVE QualityInv'
  <2>1. t[1] \in QSym /\ t[2] \in Nat
    BY QualityAssumption DEF QSym
  <2> QED BY <1>1, <1>2, <2>1, TradeKeeps
<1>3. ASSUME NEW s \in DOMAIN px, QTrade(s, px[s].px, px[s].ts) PROVE QualityInv'
  <2>1. s \in Traded /\ px[s] = [px |-> tape[Max(Of(s))].px, ts |-> tape[Max(Of(s))].ts]
    BY DEF QualityInv, Taped
  <2>2. Max(Of(s)) \in 1 .. Len(tape) /\ tape \in Seq(Trade)
    BY <2>1, RepeatsTypes DEF QualityInv, Taped
  <2>3. tape[Max(Of(s))] \in Trade
    BY <2>2, ElementOfSeq
  <2>4. px[s].px \in Nat /\ px[s].ts \in Nat
    BY <2>1, <2>3 DEF Trade
  <2>5. s \in QSym
    <3>1. \A i \in 1 .. Len(tape) : tape[i] \in Trade
      BY <2>2, ElementOfSeq
    <3>2. DOMAIN tape = 1 .. Len(tape)
      BY <2>2, LenProperties
    <3> QED BY <2>1, <3>1, <3>2 DEF Traded, Trade
  <2> QED BY <1>3, <2>4, <2>5, TradeKeeps
<1>4. ASSUME NEW q \in Quotes, QQuote(q[1], q[2], q[3]) PROVE QualityInv'
  <2>1. q[1] \in QSym \cup {x[1] : x \in Quotes}
    OBVIOUS
  <2> QED BY <1>4, <2>1, QuoteRests
<1>5. CASE QFlush \/ QWriteEnds \/ OrphanEnds \/ QStop \/ QClose
  <2>1. Ledger'
    BY <1>5, RowsMove DEF QualityInv
  <2>2. UNCHANGED monitorVars /\ wall' = wall
    BY <1>5 DEF QFlush, QWriteEnds, OrphanEnds, QStop, QClose
  <2>3. Taped' /\ Watched' /\ Compared' /\ Alarmed'
    BY <1>1, <2>2, DetectorsRest
  <2> QED BY <2>1, <2>3 DEF QualityInv
<1>6. CASE WallPasses
  <2>1. UNCHANGED monitorVars /\ wall' = wall + 1
        /\ UNCHANGED <<pend, writes, orphans, opened, stored, failed, phase>>
    BY <1>6 DEF WallPasses
  <2>2. Taped' /\ Watched' /\ Compared' /\ Alarmed'
    BY <1>1, <2>1, DetectorsRest
  <2>3. Ledger'
    BY <2>1 DEF QualityInv, Ledger, monitorVars
  <2> QED BY <2>2, <2>3 DEF QualityInv
<1>7. CASE UNCHANGED qualityVars
  <2>1. UNCHANGED monitorVars /\ wall' = wall
        /\ UNCHANGED <<pend, writes, orphans, opened, stored, failed, phase>>
    BY <1>7 DEF qualityVars, monitorVars
  <2>2. Taped' /\ Watched' /\ Compared' /\ Alarmed'
    BY <1>1, <2>1, DetectorsRest
  <2>3. Ledger'
    BY <2>1 DEF QualityInv, Ledger, monitorVars
  <2> QED BY <2>2, <2>3 DEF QualityInv
<1> QED BY <1>2, <1>3, <1>4, <1>5, <1>6, <1>7 DEF QualityNext

\* QualityInv holds in every behaviour of the composed consumers.
THEOREM QualityInvariant == Spec => []QualityInv
<1>1. Init => QualityInv
  BY QualityStarts DEF Init
<1>2. QualityInv /\ [Next]_feedVars => QualityInv'
  BY QualityStep DEF Next, feedVars
<1> QED BY <1>1, <1>2, PTL DEF Spec

\* What the detectors should see they tell, once, and what they tell is kept: a record
\* repeated long enough is reported once, moves are compared with the recent ones,
\* diverging rates follow an alarm, and every event is in one place, whatever is
\* raised while a write is under way (quality.py, services/quality.py).
THEOREM DetectionsAreAllTold == Spec => []DetectionsAreTold
<1>1. QualityInv => DetectionsAreTold
  <2> SUFFICES ASSUME QualityInv PROVE DetectionsAreTold
    OBVIOUS
  <2>1. EventsAccounted
    BY LedgerAccounts DEF QualityInv
  <2>2. RepeatsToldOnce
    BY DEF QualityInv, Watched, WatchedFor, RepeatsToldOnce
  <2>3. MovesAreRecent
    <3>1. \A s \in Traded : Moves(s) = moves[s]
      BY DEF QualityInv, Taped, Moves, Get
    <3> QED BY <3>1 DEF QualityInv, Compared, ComparedFor, MovesAreRecent
  <2>4. DivergenceIsTold
    <3>1. DOMAIN events = 1 .. Len(events)
      BY LenProperties DEF QualityInv, Ledger
    <3> QED BY <3>1 DEF QualityInv, Alarmed, DivergenceIsTold
  <2> QED BY <2>1, <2>2, <2>3, <2>4 DEF DetectionsAreTold
<1> QED BY <1>1, QualityInvariant, PTL

(***************************************************************************)
(* THE SESSIONS AND THE POLLERS OF FEEDD                                   *)
(***************************************************************************)

\* How far the readings have come: a loop has none, or one the server had.
PollTypes ==
    /\ rest \in BOOLEAN /\ vol \in Nat
    /\ loop \in [Loops -> {NoTask, NoReading} \cup Nat]
    /\ mine \subseteq Running
    /\ last \in {NoReading} \cup Nat /\ first \in {NoReading} \cup Nat
    /\ published \in Nat /\ regressed \in BOOLEAN

\* Nothing is published before the first answer of kis_rest is remembered.
Counted ==
    rest => IF last = NoReading
            THEN first = NoReading /\ published = 0 /\ ~regressed
            ELSE /\ first # NoReading
                 /\ published >= last - first
                 /\ ~regressed => published = last - first

PollInv == PollTypes /\ Counted

\* The registrations of kis: answers awaited and answers had.
Registered ==
    /\ due \in Nat /\ subs \in Nat /\ due + subs <= Symbols
    /\ limit = Never \/ limit \in 0..Symbols

\* Adapter.run waits for a session that is there, and that nobody cancels; one
\* that ends by itself ends with an error unless it is upbit's.
Waited ==
    /\ chain \in {"session", "abandon1", "abandon2"} => sess # "none"
    /\ chain = "session" => ~cancel
    /\ chain = "session" /\ sess \in {"over", "closing"} /\ res = "cancelled"
           => kind = "upbit"

\* Only kis asks for a key, and only those with a socket connect.
Dials == /\ sess = "key" => kind = "kis"
         /\ sess \in {"connecting", "handshake", "closing"} => isWs
         /\ sess = "subscribing" => kind \in {"upbit", "binance"}

IngestInv == Dials /\ TypeOK /\ OnlyUpbitDies /\ SocketsAreClosed /\ Registered /\ Waited /\ PollInv

-----------------------------------------------------------------------------
(* The pollers.                                                            *)

\* There is a set of places for the loops gather starts, so the one chosen is
\* a set of free places.
LEMMA Places ==
    ASSUME NEW S, IsFiniteSet(S), NEW n \in {1, 2}, Cardinality(S) >= n
    PROVE  \E t \in SUBSET S : Cardinality(t) = n
<1>1. Cardinality(S) \in Nat
  BY FS_CardinalityType
<1>2. S # {}
  BY <1>1, FS_EmptySet
<1>3. PICK x \in S : TRUE
  BY <1>2
<1>4. Cardinality({x}) = 1 /\ IsFiniteSet({x})
  BY FS_Singleton
<1>5. CASE n = 1
  BY <1>3, <1>4, <1>5
<1>6. CASE n = 2
  <2>1. Cardinality(S \ {x}) = Cardinality(S) - 1 /\ IsFiniteSet(S \ {x})
    BY FS_RemoveElement
  <2>2. Cardinality(S \ {x}) # 0
    BY <1>1, <1>6, <2>1
  <2>3. PICK y \in S \ {x} : TRUE
    BY <2>1, <2>2, FS_EmptySet
  <2>4. Cardinality({x} \cup {y}) = Cardinality({x}) + 1
    BY <1>4, <2>3, FS_AddElement
  <2> QED BY <1>3, <1>4, <1>6, <2>3, <2>4
<1> QED BY <1>5, <1>6

\* session() of a poller starts its loops in free places.
LEMMA StartLoopsInv ==
    ASSUME PollInv, StartLoops PROVE PollInv'
<1> DEFINE free == Loops \ Running
           s == CHOOSE t \in SUBSET free : Cardinality(t) = Reaching
<1>1. IsFiniteSet(free) /\ Reaching \in {1, 2} /\ Cardinality(free) >= Reaching
  BY LoopsAssumption, FS_Subset DEF StartLoops, Reaching
<1>2. \E t \in SUBSET free : Cardinality(t) = Reaching
  BY <1>1, Places
<1>3. s \subseteq free
  BY <1>2
<1>4. /\ loop' = [l \in Loops |-> IF l \in s THEN NoReading ELSE loop[l]] /\ mine' = s
      /\ UNCHANGED <<rest, vol, counts>>
  BY DEF StartLoops
<1> HIDE DEF s
<1>5. PollTypes'
  <2>1. loop' \in [Loops -> {NoTask, NoReading} \cup Nat]
    BY <1>4 DEF PollInv, PollTypes
  <2>2. mine' \subseteq Running'
    BY <1>3, <1>4 DEF Running, NoTask, NoReading
  <2> QED BY <1>4, <2>1, <2>2 DEF PollInv, PollTypes, counts
<1>6. Counted'
  BY <1>4 DEF PollInv, Counted, counts
<1> QED BY <1>5, <1>6 DEF PollInv

\* An answer of kis_rest: the growth since the last answer is published.
LEMMA PublishQuoteCounts ==
    ASSUME PollInv, NEW v \in Nat, rest, rest' = rest, PublishQuote(v)
    PROVE  /\ Counted'
           /\ last' \in {NoReading} \cup Nat /\ first' \in {NoReading} \cup Nat
           /\ published' \in Nat /\ regressed' \in BOOLEAN
<1>1. CASE last = NoReading
  BY <1>1 DEF PollInv, PollTypes, Counted, PublishQuote, NoReading
<1>2. CASE last # NoReading
  <2>1. last \in Nat /\ first \in Nat /\ published \in Nat /\ published >= last - first
    BY <1>2 DEF PollInv, PollTypes, Counted
  <2>2. last' = v /\ first' = first /\ v # NoReading /\ first # NoReading
    BY <1>2, <2>1 DEF PublishQuote, NoReading
  <2>3. CASE v > last
    <3>1. published' = published + v - last /\ regressed' = regressed
      BY <1>2, <2>1, <2>3 DEF PublishQuote, PollInv, PollTypes
    <3> QED BY <1>2, <2>1, <2>2, <2>3, <3>1 DEF PollInv, PollTypes, Counted
  <2>4. CASE ~(v > last)
    <3>1. published' = published /\ regressed' = (regressed \/ v < last)
      BY <1>2, <2>4 DEF PublishQuote
    <3>2. published' >= last' - first'
      BY <2>1, <2>2, <2>4, <3>1
    <3>3. ~regressed => published = last - first
      BY <1>2 DEF PollInv, Counted
    <3>7. regressed' <=> regressed \/ v < last
      BY <3>1
    <3>6. ~regressed' => v = last /\ ~regressed
      BY <2>1, <2>4, <3>7
    <3>5. ~regressed' => published' = last' - first'
      BY <2>2, <3>1, <3>3, <3>6
    <3>4. regressed' \in BOOLEAN
      BY <3>1
    <3> QED BY <2>1, <2>2, <3>1, <3>2, <3>4, <3>5 DEF Counted
  <2> QED BY <2>3, <2>4
<1> QED BY <1>1, <1>2

\* Each step of a loop, of its failure and of its end.
LEMMA LoopInv ==
    ASSUME PollInv, NEW l \in Loops,
           Ask(l) \/ AnswerOk(l) \/ AnswerNone(l) \/ LoopRaises(l) \/ OrphanRaises(l)
    PROVE  PollInv'
<1>1. CASE Ask(l) \/ AnswerNone(l) \/ LoopRaises(l) \/ OrphanRaises(l)
  <2>1. UNCHANGED <<rest, vol, counts>>
    BY <1>1 DEF Ask, AnswerNone, LoopRaises, OrphanRaises
  <2>2. loop' \in [Loops -> {NoTask, NoReading} \cup Nat]
    BY <1>1 DEF Ask, AnswerNone, LoopRaises, OrphanRaises, PollInv, PollTypes
  <2>3. mine' \subseteq Running'
    BY <1>1 DEF Ask, AnswerNone, LoopRaises, OrphanRaises, PollInv, PollTypes, Running,
                NoTask, NoReading
  <2>4. PollTypes'
    BY <2>1, <2>2, <2>3 DEF PollInv, PollTypes, counts
  <2> QED BY <2>1, <2>4 DEF PollInv, Counted, counts
<1>2. CASE AnswerOk(l)
  <2>1. /\ loop[l] \in Nat /\ UNCHANGED <<rest, mine, vol>>
        /\ loop' = [loop EXCEPT ![l] = NoReading]
    BY <1>2 DEF AnswerOk, PollInv, PollTypes, NoTask, NoReading
  <2>2. mine' \subseteq Running' /\ loop' \in [Loops -> {NoTask, NoReading} \cup Nat]
    BY <2>1 DEF PollInv, PollTypes, Running, NoTask, NoReading
  <2>3. /\ Counted'
        /\ last' \in {NoReading} \cup Nat /\ first' \in {NoReading} \cup Nat
        /\ published' \in Nat /\ regressed' \in BOOLEAN
    <3>1. CASE rest
      BY <1>2, <2>1, <3>1, PublishQuoteCounts DEF AnswerOk
    <3>2. CASE ~rest
      BY <1>2, <2>1, <3>2 DEF AnswerOk, EmitValue, Counted, PollInv, PollTypes
    <3> QED BY <3>1, <3>2
  <2> QED BY <2>1, <2>2, <2>3 DEF PollInv, PollTypes
<1> QED BY <1>1, <1>2

\* The market, a sibling and the cancellation of the gather.
LEMMA OtherPollInv ==
    ASSUME PollInv, Trades \/ SiblingRaises \/ \E s : CancelLoops(s)
    PROVE  PollInv'
<1>1. CASE Trades
  BY <1>1 DEF Trades, PollInv, PollTypes, Counted, counts, Running
<1>2. CASE SiblingRaises
  BY <1>2 DEF SiblingRaises, PollInv, PollTypes, Counted, counts
<1>3. CASE \E s : CancelLoops(s)
  <2>1. PICK s : CancelLoops(s)
    BY <1>3
  <2> QED BY <2>1 DEF CancelLoops, PollInv, PollTypes, Counted, counts
<1> QED BY <1>1, <1>2, <1>3

\* Nothing of the pollers is touched.
LEMMA PollStays ==
    ASSUME PollInv, UNCHANGED pollVars PROVE PollInv'
  BY DEF PollInv, PollTypes, Counted, Running, pollVars

\* Every step of the feed is a step of the pollers or leaves them alone.
LEMMA PollInvStep ==
    ASSUME PollInv, [IngestNext]_vars PROVE PollInv'
<1>1. CASE UNCHANGED vars
  BY <1>1, PollStays DEF vars
<1>2. CASE StartSession
  BY <1>2, StartLoopsInv, PollStays DEF StartSession
<1>3. CASE PollFails
  BY <1>3, LoopInv, OtherPollInv DEF PollFails
<1>4. CASE TakeCancel
  BY <1>4, OtherPollInv, PollStays DEF TakeCancel
<1>5. CASE PollStep
  BY <1>5, LoopInv, OtherPollInv DEF PollStep
<1>6. CASE ShutdownDone
  BY <1>6, OtherPollInv DEF ShutdownDone
<1>7. CASE \/ ApprovalKey \/ WsConnect \/ WsHandshake \/ Subscribe \/ Message \/ Control
           \/ SessionFails \/ ReplayReturns
           \/ PingFails \/ CloseDone \/ SwallowCancel \/ StrayStep \/ MarketChanges \/ Chain
           \/ HeartbeatDies \/ Supervise \/ SigTerm \/ FeeddStops \/ ForceExit
           \/ TeardownEnds
  <2>1. UNCHANGED pollVars
    BY <1>7 DEF ApprovalKey, WsConnect, WsHandshake, Subscribe, Message, Control, SessionFails, ReplayReturns,
         PingFails, CloseDone, SwallowCancel, StrayStep, MarketChanges, Chain, WatchdogTick,
         AbandonDone, AbandonTimeout, SessionSeen, HeartbeatDies, Supervise, SigTerm,
         FeeddStops, ForceExit, TeardownEnds
  <2> QED BY <2>1, PollStays
<1> QED BY <1>1, <1>2, <1>3, <1>4, <1>5, <1>6, <1>7 DEF IngestNext, Session, Chain, Process

-----------------------------------------------------------------------------
(* The session and those who wait for it.                                  *)

\* Only those with a socket connect, whatever step is taken.
LEMMA DialsStep ==
    ASSUME Dials, [IngestNext]_vars PROVE Dials'
<1>1. kind' = kind
  BY DEF IngestNext, vars, sessVars, kisVars, Session, Chain, Process, StartSession,
     ApprovalKey, WsConnect, WsHandshake, Subscribe, Message, Control, SessionFails, PollFails,
     ReplayReturns, PingFails, CloseDone, TakeCancel, SwallowCancel, PollStep, StrayStep, MarketChanges,
     WatchdogTick, AbandonDone, AbandonTimeout, SessionSeen, HeartbeatDies, Supervise,
     SigTerm, FeeddStops, ShutdownDone, ForceExit, TeardownEnds
<1>2. \/ sess' \in {sess, "none", "over", "live"}
      \/ sess' = "key" /\ kind = "kis"
      \/ sess' \in {"connecting", "handshake", "closing"} /\ isWs
      \/ sess' = "subscribing" /\ kind \in {"upbit", "binance"}
  <2>1. CASE StartSession
    BY <2>1 DEF StartSession, isWs, WsKinds
  <2>2. CASE ApprovalKey \/ WsConnect
    BY <2>2 DEF Dials, ApprovalKey, WsConnect, Over, isWs, WsKinds
  <2>6. CASE WsHandshake
    BY <2>6 DEF Dials, WsHandshake, LeaveEarly, Over, UpbitSession, BinanceSession, KisSession,
       isWs, WsKinds
  <2>7. CASE Subscribe
    BY <2>7 DEF Subscribe, LeaveEarly, Over
  <2>3. CASE SessionFails \/ PollFails \/ ReplayReturns \/ CloseDone \/ TakeCancel
    BY <2>3 DEF SessionFails, PollFails, ReplayReturns, CloseDone, TakeCancel, LeaveLoop,
       LeaveEarly, Over
  <2>4. CASE AbandonTimeout
    BY <2>4 DEF AbandonTimeout
  <2>5. CASE \/ UNCHANGED vars \/ Message \/ Control \/ PingFails \/ SwallowCancel \/ PollStep
             \/ StrayStep \/ MarketChanges \/ WatchdogTick \/ AbandonDone \/ SessionSeen
             \/ Process
    BY <2>5 DEF vars, sessVars, Message, Control, PingFails, SwallowCancel, PollStep,
       StrayStep, MarketChanges, WatchdogTick, AbandonDone, SessionSeen, Process,
       HeartbeatDies, Supervise, SigTerm, FeeddStops, ShutdownDone, ForceExit, TeardownEnds
  <2> QED BY <2>1, <2>2, <2>3, <2>4, <2>5, <2>6, <2>7 DEF IngestNext, Session, Chain
<1> QED BY <1>1, <1>2 DEF Dials, isWs, WsKinds

\* The registrations of kis stay within what it wants.
LEMMA RegisteredStep ==
    ASSUME Dials, Registered, [IngestNext]_vars PROVE Registered'
<1>1. CASE WsHandshake
  <2>1. limit' = limit
    BY <1>1 DEF WsHandshake
  <2>2. UNCHANGED <<due, subs>> \/ KisSession
    BY <1>1 DEF WsHandshake, UpbitSession, BinanceSession, Dials, isWs, WsKinds
  <2>3. ASSUME KisSession PROVE due' \in Nat /\ subs' = 0 /\ due' <= Symbols
    BY <2>3, IngestAssumption DEF KisSession, Registered
  <2> QED BY <2>1, <2>2, <2>3 DEF Registered
<1>2. CASE Control
  <2>1. /\ \/ UNCHANGED <<due, subs>>
           \/ due > 0 /\ due' = due - 1 /\ subs' \in {subs, subs + 1}
        /\ limit' \in {limit, subs}
    BY <1>2 DEF Control
  <2> QED BY <2>1, IngestAssumption DEF Registered
<1>3. ASSUME ~WsHandshake, ~Control PROVE UNCHANGED <<due, subs, limit>>
  BY <1>3 DEF IngestNext, vars, kisVars, Session, Chain, Process, StartSession, ApprovalKey,
     WsConnect, Subscribe, Message, SessionFails, PollFails, ReplayReturns, PingFails, CloseDone, TakeCancel,
     SwallowCancel, PollStep, StrayStep, MarketChanges, WatchdogTick, AbandonDone,
     AbandonTimeout, SessionSeen, HeartbeatDies, Supervise, SigTerm, FeeddStops,
     ShutdownDone, ForceExit, TeardownEnds
<1> QED BY <1>1, <1>2, <1>3 DEF Registered

\* The clocks of the watchdog stop where the deadline is past.
Clocks == /\ lastMsg \in {Never} \cup (0..StaleTicks + 1)
          /\ watch \in 0..(2 * StaleTicks + 1)

\* Only the watchdog's tick moves the clocks; frames and sessions reset them.
LEMMA ClocksStep ==
    ASSUME Clocks, [IngestNext]_vars PROVE Clocks'
<1>1. CASE WatchdogTick
  <2>1. /\ lastMsg' \in {Older(lastMsg), Never}
        /\ watch' \in {watch, 0, IF watch > 2 * StaleTicks THEN watch ELSE watch + 1}
    BY <1>1 DEF WatchdogTick
  <2>2. Older(lastMsg) \in {Never} \cup (0..StaleTicks + 1)
    BY IngestAssumption DEF Older, Clocks
  <2>3. watch' \in 0..(2 * StaleTicks + 1)
    BY <2>1, IngestAssumption DEF Clocks
  <2> QED BY <2>1, <2>2, <2>3 DEF Clocks
<1>2. ASSUME ~WatchdogTick PROVE lastMsg' \in {lastMsg, 0} /\ watch' \in {watch, 0}
  BY <1>2 DEF IngestNext, vars, timeVars, Session, Chain, Process, StartSession, ApprovalKey,
     WsConnect, WsHandshake, Subscribe, Message, Mark, Control, SessionFails, PollFails, ReplayReturns, PingFails,
     CloseDone, TakeCancel, SwallowCancel, PollStep, StrayStep, MarketChanges, AbandonDone,
     AbandonTimeout, SessionSeen, HeartbeatDies, Supervise, SigTerm, FeeddStops,
     ShutdownDone, ForceExit, TeardownEnds
<1> QED BY <1>1, <1>2, IngestAssumption DEF Clocks

\* What kind of session waits for whom, and how it may end.
Modes ==
    /\ kind \in Kinds
    /\ down \in {"up", "stopping", "teardown", "exited", "forced"}
    /\ chain \in {"session", "abandon1", "abandon2", "delay", "dead", "done"}
    /\ sess \in {"none", "key", "connecting", "handshake", "subscribing", "live",
                "closing", "over"}
    /\ res \in {"error", "cancelled", "returned"}
    /\ pinger \in {"off", "on", "failed"} /\ hb \in {"up", "pause", "done"}
    /\ chain \in {"delay", "dead"} => sess \in {"none", "over"}
Flags ==
    /\ stop \in BOOLEAN /\ cancel \in BOOLEAN
    /\ leaked \subseteq {"handshake", "subscribing", "live"}
    /\ open \in BOOLEAN /\ key \in BOOLEAN /\ stray \in BOOLEAN /\ strayCancel \in BOOLEAN

Ends == Modes /\ Flags /\ OnlyUpbitDies /\ SocketsAreClosed /\ Waited

\* The phases of every task stay what they can be.
LEMMA ModesStep ==
    ASSUME Modes, Dials, [IngestNext]_vars PROVE Modes'
<1> USE DEF Modes, sessVars, kisVars, strayVars
<1>1. CASE StartSession
  BY <1>1 DEF StartSession
<1>2. CASE ApprovalKey
  BY <1>2 DEF ApprovalKey, Over
<1>3. CASE WsConnect \/ Subscribe
  BY <1>3 DEF WsConnect, Subscribe, LeaveEarly, Over
<1>16. CASE WsHandshake
  BY <1>16 DEF WsHandshake, LeaveEarly, Over, UpbitSession, BinanceSession, KisSession, Dials,
     isWs, WsKinds
<1>4. CASE Message \/ Control \/ PollStep \/ StrayStep \/ MarketChanges \/ PingFails
  BY <1>4 DEF Message, Control, PollStep, StrayStep, MarketChanges, PingFails
<1>5. CASE SessionFails
  BY <1>5 DEF SessionFails, LeaveLoop, Over
<1>6. CASE PollFails \/ ReplayReturns
  BY <1>6 DEF PollFails, ReplayReturns, Over
<1>7. CASE CloseDone \/ SwallowCancel
  BY <1>7 DEF CloseDone, SwallowCancel
<1>8. CASE TakeCancel
  BY <1>8 DEF TakeCancel, LeaveLoop, LeaveEarly, Over
<1>9. CASE WatchdogTick
  BY <1>9 DEF WatchdogTick
<1>10. CASE AbandonDone \/ AbandonTimeout
  BY <1>10 DEF AbandonDone, AbandonTimeout, AfterAbandon
<1>11. CASE SessionSeen
  BY <1>11 DEF SessionSeen, KeepRunning
<1>12. CASE HeartbeatDies \/ Supervise \/ SigTerm \/ ForceExit \/ TeardownEnds
  BY <1>12 DEF HeartbeatDies, Supervise, SigTerm, ForceExit, TeardownEnds
<1>13. CASE FeeddStops
  BY <1>13 DEF FeeddStops
<1>14. CASE ShutdownDone
  BY <1>14 DEF ShutdownDone
<1>15. CASE UNCHANGED vars
  BY <1>15 DEF vars
<1> QED BY <1>1, <1>2, <1>3, <1>4, <1>5, <1>6, <1>7, <1>8, <1>9, <1>10, <1>11, <1>12, <1>13,
        <1>14, <1>15, <1>16 DEF IngestNext, Session, Chain, Process

\* So do the flags.
LEMMA FlagsStep ==
    ASSUME Flags, Dials, [IngestNext]_vars PROVE Flags'
<1> USE DEF Flags, sessVars, kisVars, strayVars
<1>1. CASE StartSession
  BY <1>1 DEF StartSession
<1>2. CASE ApprovalKey
  BY <1>2 DEF ApprovalKey, Over
<1>3. CASE WsConnect \/ Subscribe
  BY <1>3 DEF WsConnect, Subscribe, LeaveEarly, Over
<1>16. CASE WsHandshake
  BY <1>16 DEF WsHandshake, LeaveEarly, Over, UpbitSession, BinanceSession, KisSession, Dials,
     isWs, WsKinds
<1>4. CASE Message \/ Control \/ PollStep \/ StrayStep \/ MarketChanges \/ PingFails
  BY <1>4 DEF Message, Control, PollStep, StrayStep, MarketChanges, PingFails
<1>5. CASE SessionFails
  BY <1>5 DEF SessionFails, LeaveLoop, Over
<1>6. CASE PollFails \/ ReplayReturns
  BY <1>6 DEF PollFails, ReplayReturns, Over
<1>7. CASE CloseDone \/ SwallowCancel
  BY <1>7 DEF CloseDone, SwallowCancel
<1>8. CASE TakeCancel
  BY <1>8 DEF TakeCancel, LeaveLoop, LeaveEarly, Over
<1>9. CASE WatchdogTick
  BY <1>9 DEF WatchdogTick
<1>10. CASE AbandonDone \/ AbandonTimeout
  BY <1>10 DEF AbandonDone, AbandonTimeout, AfterAbandon
<1>11. CASE SessionSeen
  BY <1>11 DEF SessionSeen, KeepRunning
<1>12. CASE HeartbeatDies \/ Supervise \/ SigTerm \/ ForceExit \/ TeardownEnds
  BY <1>12 DEF HeartbeatDies, Supervise, SigTerm, ForceExit, TeardownEnds
<1>13. CASE FeeddStops
  BY <1>13 DEF FeeddStops
<1>14. CASE ShutdownDone
  BY <1>14 DEF ShutdownDone
<1>15. CASE UNCHANGED vars
  BY <1>15 DEF vars
<1> QED BY <1>1, <1>2, <1>3, <1>4, <1>5, <1>6, <1>7, <1>8, <1>9, <1>10, <1>11, <1>12, <1>13,
        <1>14, <1>15, <1>16 DEF IngestNext, Session, Chain, Process

\* A session is waited for until it is over.
LEMMA WaitedStep ==
    ASSUME Modes, Flags, Waited, Dials, [IngestNext]_vars PROVE Waited'
<1> USE DEF Modes, Flags, Waited, sessVars
<1>1. CASE StartSession
  BY <1>1 DEF StartSession
<1>2. CASE ApprovalKey
  BY <1>2 DEF ApprovalKey, Over
<1>3. CASE WsConnect \/ Subscribe
  BY <1>3 DEF WsConnect, Subscribe, LeaveEarly, Over
<1>16. CASE WsHandshake
  BY <1>16 DEF WsHandshake, LeaveEarly, Over, UpbitSession, BinanceSession, KisSession, Dials,
     isWs, WsKinds
<1>4. CASE Message \/ Control \/ PollStep \/ StrayStep \/ MarketChanges \/ PingFails
  BY <1>4 DEF Message, Control, PollStep, StrayStep, MarketChanges, PingFails
<1>5. CASE SessionFails
  BY <1>5 DEF SessionFails, LeaveLoop, Over
<1>6. CASE PollFails \/ ReplayReturns
  BY <1>6 DEF PollFails, ReplayReturns, Over
<1>7. CASE CloseDone \/ SwallowCancel
  BY <1>7 DEF CloseDone, SwallowCancel
<1>8. CASE TakeCancel
  BY <1>8 DEF TakeCancel, LeaveLoop, LeaveEarly, Over
<1>9. CASE WatchdogTick
  BY <1>9 DEF WatchdogTick
<1>10. CASE AbandonDone \/ AbandonTimeout
  BY <1>10 DEF AbandonDone, AbandonTimeout, AfterAbandon
<1>11. CASE SessionSeen
  BY <1>11 DEF SessionSeen, KeepRunning
<1>12. CASE HeartbeatDies \/ Supervise \/ SigTerm \/ ForceExit \/ TeardownEnds
  BY <1>12 DEF HeartbeatDies, Supervise, SigTerm, ForceExit, TeardownEnds
<1>13. CASE FeeddStops
  BY <1>13 DEF FeeddStops
<1>14. CASE ShutdownDone
  BY <1>14 DEF ShutdownDone
<1>15. CASE UNCHANGED vars
  BY <1>15 DEF vars
<1> QED BY <1>1, <1>2, <1>3, <1>4, <1>5, <1>6, <1>7, <1>8, <1>9, <1>10, <1>11, <1>12, <1>13,
        <1>14, <1>15, <1>16 DEF IngestNext, Session, Chain, Process

\* Only upbit ends Adapter.run or leaves a socket.
LEMMA UpbitStep ==
    ASSUME Ends, Dials, [IngestNext]_vars PROVE OnlyUpbitDies' /\ SocketsAreClosed'
<1> USE DEF isWs, WsKinds, Ends, Modes, Flags, OnlyUpbitDies, SocketsAreClosed, Waited, sessVars
<1>1. CASE StartSession
  BY <1>1 DEF StartSession
<1>2. CASE ApprovalKey
  BY <1>2 DEF ApprovalKey, Over
<1>3. CASE WsConnect
  BY <1>3 DEF WsConnect, Over
<1>16. CASE WsHandshake
  <2>1. UNCHANGED <<kind, chain>> /\ leaked' \in {leaked, leaked \cup {"handshake"}}
    BY <1>16 DEF WsHandshake, LeaveEarly, Over
  <2>2. isWs
    BY <1>16 DEF WsHandshake, Dials
  <2> QED BY <2>1, <2>2 DEF isWs
<1>17. CASE Subscribe
  <2>1. UNCHANGED <<kind, chain>> /\ leaked' \in {leaked, leaked \cup {"subscribing"}}
    BY <1>17 DEF Subscribe, LeaveEarly, Over
  <2>2. kind \in {"upbit", "binance"}
    BY <1>17 DEF Subscribe, Dials
  <2> QED BY <2>1, <2>2 DEF isWs, WsKinds
<1>4. CASE Message \/ Control \/ PollStep \/ StrayStep \/ MarketChanges \/ PingFails
  BY <1>4 DEF Message, Control, PollStep, StrayStep, MarketChanges, PingFails
<1>5. CASE SessionFails
  BY <1>5 DEF SessionFails, LeaveLoop, Over
<1>6. CASE PollFails \/ ReplayReturns
  BY <1>6 DEF PollFails, ReplayReturns, Over
<1>7. CASE CloseDone \/ SwallowCancel
  BY <1>7 DEF CloseDone, SwallowCancel
<1>8. CASE TakeCancel
  <2>1. CASE sess \in {"handshake", "subscribing"}
    <3>1. UNCHANGED <<kind, chain>> /\ leaked' = leaked \cup {sess}
      BY <1>8, <2>1 DEF TakeCancel, LeaveEarly, Over
    <3>2. isWs /\ (sess = "subscribing" => kind \in {"upbit", "binance"})
      BY <2>1 DEF Dials
    <3> QED BY <2>1, <3>1, <3>2
  <2>2. CASE sess = "live"
    <3>1. UNCHANGED <<kind, chain>>
      BY <1>8 DEF TakeCancel
    <3>2. \/ leaked' = leaked
          \/ leaked' = leaked \cup {}
          \/ leaked' = leaked \cup {"live"} /\ kind = "upbit"
      BY <1>8, <2>2 DEF TakeCancel, LeaveLoop, Over
    <3> QED BY <3>1, <3>2
  <2>3. CASE sess \notin {"handshake", "subscribing", "live"}
    <3>1. UNCHANGED <<kind, chain>> /\ leaked' \in {leaked, leaked \cup {}}
      BY <1>8, <2>3 DEF TakeCancel, Over
    <3> QED BY <3>1
  <2> QED BY <2>1, <2>2, <2>3
<1>9. CASE WatchdogTick
  BY <1>9 DEF WatchdogTick
<1>10. CASE AbandonDone \/ AbandonTimeout
  BY <1>10 DEF AbandonDone, AbandonTimeout, AfterAbandon
<1>11. CASE SessionSeen
  BY <1>11 DEF SessionSeen, KeepRunning
<1>12. CASE HeartbeatDies \/ Supervise \/ SigTerm \/ ForceExit \/ TeardownEnds
  BY <1>12 DEF HeartbeatDies, Supervise, SigTerm, ForceExit, TeardownEnds
<1>13. CASE FeeddStops
  BY <1>13 DEF FeeddStops
<1>14. CASE ShutdownDone
  BY <1>14 DEF ShutdownDone
<1>15. CASE UNCHANGED vars
  BY <1>15 DEF vars
<1> QED BY <1>1, <1>2, <1>3, <1>4, <1>5, <1>6, <1>7, <1>8, <1>9, <1>10, <1>11, <1>12, <1>13,
        <1>14, <1>15, <1>16, <1>17 DEF IngestNext, Session, Chain, Process

\* TypeOK is the sum of the parts.
LEMMA TypeParts ==
    ASSUME IngestInv PROVE Ends /\ Dials /\ Registered /\ Clocks /\ PollInv
  BY DEF IngestInv, TypeOK, Ends, Modes, Flags, Clocks

\* The same the other way round.
LEMMA PartsType ==
    ASSUME Ends, Dials, Registered, Clocks, PollInv PROVE IngestInv
<1>1. due + subs \in 0..Symbols
  BY IngestAssumption DEF Registered
<1> QED BY <1>1 DEF IngestInv, TypeOK, Ends, Modes, Flags, Clocks, Registered, Waited, PollInv, PollTypes

\* The invariant holds at the start: no session, no reading.
LEMMA IngestStarts == ASSUME IngestInit PROVE IngestInv
<1>1. PollInv
  BY DEF IngestInit, PollInit, PollInv, PollTypes, Counted, Running, NoTask, NoReading
<1>2. Ends /\ Dials
  BY DEF IngestInit, Ends, Modes, Flags, OnlyUpbitDies, SocketsAreClosed, Waited, Dials
<1>3. Registered /\ Clocks
  BY IngestAssumption DEF IngestInit, Registered, Clocks
<1> QED BY <1>1, <1>2, <1>3, PartsType

\* Every step of feedd and its adapter keeps it.
LEMMA IngestStep == ASSUME IngestInv, [IngestNext]_vars PROVE IngestInv'
<1>1. Ends /\ Dials /\ Registered /\ Clocks /\ PollInv
  BY TypeParts
<1>2. Ends'
  BY <1>1, ModesStep, FlagsStep, WaitedStep, UpbitStep DEF Ends
<1>3. Dials' /\ Registered' /\ Clocks' /\ PollInv'
  BY <1>1, DialsStep, RegisteredStep, ClocksStep, PollInvStep
<1>8. due' \in Nat /\ subs' \in Nat /\ due' + subs' <= Symbols
  BY <1>3 DEF Registered
<1>4. due' + subs' \in 0..Symbols
  <2>1. \A a, b, c \in Nat : a + b <= c => a + b \in 0..c
    OBVIOUS
  <2> QED BY <1>8, <2>1, IngestAssumption
<1>5. (mine \subseteq Running)' /\ (limit = Never \/ limit \in 0..Symbols)'
  BY <1>3 DEF Registered, PollInv, PollTypes
<1>6. (chain \in {"abandon1", "abandon2"} => sess # "none")'
  BY <1>2 DEF Ends, Waited
<1>7. TypeOK'
  BY <1>2, <1>3, <1>4, <1>5, <1>6 DEF TypeOK, Ends, Modes, Flags, Clocks
<1> QED BY <1>2, <1>3, <1>7 DEF IngestInv, Ends

\* IngestInv holds in every behaviour, whatever upstreams, watchdog and signals do.
THEOREM IngestInvariant == IngestSpec => []IngestInv
<1>1. IngestInit => IngestInv
  BY IngestStarts
<1>2. IngestInv /\ [IngestNext]_vars => IngestInv'
  BY IngestStep
<1> QED BY <1>1, <1>2, PTL DEF IngestSpec

\* Adapter.run is left only by the CancelledError of upbit's finally; a session
\* in its receive loop closes its socket unless it is upbit's, and one that never
\* got there leaves it only by a failed handshake or a subscription before the try.
THEOREM SessionsEndSoundly == IngestSpec => []SessionsAreSound
<1>1. IngestInv => SessionsAreSound
  BY DEF IngestInv, SessionsAreSound
<1> QED BY <1>1, IngestInvariant, PTL

\* kis_rest publishes at least the growth of the volume between the first and
\* the last answer it applied, and exactly that while no answer overtakes another.
THEOREM NoVolumeIsLost == IngestSpec => []VolumeCounted
<1>1. IngestInv => VolumeCounted
  BY DEF IngestInv, PollInv, Counted, VolumeCounted
<1> QED BY <1>1, IngestInvariant, PTL
=============================================================================
