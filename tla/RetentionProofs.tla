-------------------------- MODULE RetentionProofs --------------------------
(***************************************************************************)
(* Proofs about Retention for any length of a day, horizon, lag, retention *)
(* time, batch size, late rows, failing transfers, lost files and crashes. *)
(***************************************************************************)
EXTENDS Retention, WellFoundedInduction, TLAPS

-----------------------------------------------------------------------------
(* The inductive invariant.                                                *)

\* A manifest whose digest is that of the rows selected for it.
Honest == {m \in Manifest : m.src = m.sha}
ArchRec == [pc : {"idle", "next", "replace", "manifest", "push", "fetch", "done"},
            todo : SUBSET Seg, seg : Seg \cup {None}, own : Content,
            man : Honest \cup {None}, seen : Honest \cup {None}]
PruneRec == [pc : {"rest", "batch"}, table : {1, 2}, cutoff : Int,
             cur : BOOLEAN, deleted : BOOLEAN]

Typed ==
    /\ db \subseteq stored /\ stored \subseteq Row /\ now \in Nat
    /\ path \in [Seg -> Files] /\ mpath \in [Seg -> Honest \cup {None}]
    /\ versions \in [Seg -> SUBSET [man : Honest, content : Files]]
    /\ DOMAIN obj \subseteq Seg \X Content /\ DOMAIN objman = DOMAIN obj
    /\ \A k \in DOMAIN objman : objman[k] \in Honest
    /\ receipts \in [Seg -> SUBSET [key : Content, man : Honest]]
    /\ progress \in [Seg -> Files] /\ arch \in ArchRec /\ prune \in PruneRec

\* What the archiver has established: no segment of its work list has a receipt,
\* and the object it sends and fetches is named by the manifest it has written.
ArchInv ==
    /\ \A s \in arch.todo : receipts[s] = {}
    /\ arch.pc = "next" => arch.todo # {}
    /\ arch.pc \in {"replace", "manifest", "push", "fetch"} => arch.seg \in arch.todo
    /\ arch.pc \in {"manifest", "push", "fetch"} => arch.man \in Honest
    /\ arch.pc = "push" => mpath[arch.seg] \in {None, arch.man}
    /\ arch.pc = "fetch" => arch.seen = arch.man /\ Object \in DOMAIN obj

\* A receipt is the only one of its segment, its object holds its rows, and what
\* is recorded as left after a delete is a part of them; without a receipt
\* nothing is recorded.
Receipted(s, x) ==
    /\ x.key = x.man.src /\ <<s, x.key>> \in DOMAIN obj
    /\ obj[<<s, x.key>>] # Damaged /\ obj[<<s, x.key>>] = x.man.src
    /\ progress[s] # None => progress[s] \subseteq x.man.src
ReceiptInv ==
    \A s \in Seg : /\ \A x \in receipts[s] : Receipted(s, x)
                   /\ \A x, y \in receipts[s] : x = y
                   /\ receipts[s] = {} => progress[s] = None

\* A row that is gone is in the rows of a receipt.
GoneInv == \A r \in stored \ db : \E x \in receipts[SegOf(r)] : r \in x.man.src

RetInv == Typed /\ ArchInv /\ ReceiptInv /\ GoneInv

-----------------------------------------------------------------------------
(* Lemmas about days, minima and segments.                                 *)

\* A nonempty set of numbers has a least element, and MinOf finds it.
LEMMA MinOfNat ==
    ASSUME NEW T, T \subseteq Nat, T # {}
    PROVE  MinOf(T) \in T /\ \A y \in T : MinOf(T) <= y
  <1>1. PICK R : R = OpToRel(<, Nat)
    OBVIOUS
  <1>2. IsWellFoundedOn(R, Nat)
    BY <1>1, NatLessThanWellFounded
  <1>3. \A x, y \in Nat : <<y, x>> \in R <=> y < x
    BY <1>1 DEF OpToRel
  <1>4. PICK x \in T : \A y \in T : ~ (<<y, x>> \in R)
    BY <1>2, WFMin
  <1>5. \A y \in T : ~(y < x)
    BY <1>3, <1>4, Zenon
  <1>6. \A y \in T : x <= y
    BY <1>5
  <1> QED BY <1>6 DEF MinOf

\* A nonempty set of numbers up to n has a greatest element.
LEMMA MaxOfNat ==
    ASSUME NEW n \in Nat, NEW T, T \subseteq 0..n, T # {}
    PROVE  MaxOf(T) \in T
  <1> DEFINE U == {n - x : x \in T}
  <1>1. U \subseteq Nat /\ U # {}
    <2>1. ASSUME NEW x \in T PROVE n - x \in Nat
      <3>1. x \in 0..n
        OBVIOUS
      <3> QED BY <3>1
    <2>2. U \subseteq Nat
      BY <2>1
    <2> QED BY <2>2
  <1>2. MinOf(U) \in U /\ \A y \in U : MinOf(U) <= y
    BY <1>1, MinOfNat
  <1>3. PICK m \in T : MinOf(U) = n - m
    BY <1>2
  <1>4. \A y \in T : n - m <= n - y
    BY <1>2, <1>3
  <1>5. \A y \in T : m >= y
    BY <1>4
  <1> QED BY <1>5 DEF MaxOf

\* The smaller of two and of three integers.
LEMMA MinOfFew ==
    /\ \A a, b \in Int : MinOf({a, b}) \in Int
    /\ \A a, b, c \in Int : MinOf({a, b, c}) <= c /\ MinOf({a, b, c}) \in Int
  <1>1. ASSUME NEW a \in Int, NEW b \in Int PROVE MinOf({a, b}) \in Int
    <2>1. \E x \in {a, b} : \A y \in {a, b} : x <= y
      BY <1>1
    <2> QED BY <2>1 DEF MinOf
  <1>2. ASSUME NEW a \in Int, NEW b \in Int, NEW c \in Int
        PROVE  MinOf({a, b, c}) <= c /\ MinOf({a, b, c}) \in Int
    <2>1. \E x \in {a, b, c} : \A y \in {a, b, c} : x <= y
      <3>1. a <= b \/ b <= a
        OBVIOUS
      <3>2. PICK m \in {a, b} : m <= a /\ m <= b
        BY <3>1
      <3>3. m <= c \/ c <= m
        OBVIOUS
      <3>4. CASE m <= c
        <4>1. \A y \in {a, b, c} : m <= y
          BY <3>2, <3>4
        <4> QED BY <4>1
      <3>5. CASE c <= m
        <4>1. c <= a /\ c <= b /\ c <= c
          BY <3>2, <3>5
        <4> QED BY <4>1
      <3> QED BY <3>3, <3>4, <3>5
    <2>2. MinOf({a, b, c}) \in {a, b, c} /\ \A y \in {a, b, c} : MinOf({a, b, c}) <= y
      BY <2>1 DEF MinOf
    <2> QED BY <2>2
  <1> QED BY <1>1, <1>2

\* A time stamp before the end of a day is of that day or an earlier one.
LEMMA DayBefore ==
    ASSUME NEW L \in Nat \ {0}, NEW x \in Nat, NEW d \in Nat, x < (d + 1) * L
    PROVE  x \div L <= d /\ x \div L \in Nat
  <1> DEFINE q == x \div L
  <1>1. q \in Nat /\ L * q <= x /\ x < L * q + L
    BY Z3
  <1> HIDE DEF q
  <1>2. ~(q > d)
    <2> SUFFICES ASSUME q > d PROVE FALSE
      OBVIOUS
    <2>1. q >= d + 1
      BY <1>1
    <2>2. q * L >= (d + 1) * L
      BY <1>1, <2>1, Z3
    <2> QED BY <1>1, <2>2, Z3
  <1> QED BY <1>1, <1>2 DEF q

\* Every row is of a segment.
LEMMA SegType ==
    /\ LastTs \div DayLen \in Nat /\ DayLen \in Nat \ {0}
    /\ \A r \in Row : SegOf(r) \in Seg /\ DayOf(r) \in Days /\ r.ts \in Nat /\ r.t \in Tables
  <1>1. DayLen \in Nat \ {0} /\ LastTs \in Nat
    BY RetentionAssumption
  <1>2. LastTs \div DayLen \in Nat /\ LastTs < (LastTs \div DayLen + 1) * DayLen
    <2> DEFINE q == LastTs \div DayLen
    <2>1. q \in Nat /\ LastTs < DayLen * q + DayLen
      BY <1>1, Z3
    <2>2. DayLen * q + DayLen = (q + 1) * DayLen
      BY <1>1, <2>1, Z3
    <2> QED BY <2>1, <2>2
  <1>3. ASSUME NEW r \in Row PROVE DayOf(r) \in Days /\ r.ts \in Nat /\ r.t \in Tables
    <2>1. r.ts \in 0..LastTs /\ r.t \in Tables
      BY DEF Row
    <2>2. PICK d \in Nat : d = LastTs \div DayLen
      BY <1>2
    <2>3. LastTs < (d + 1) * DayLen
      BY <1>2, <2>2
    <2>4. (d + 1) * DayLen \in Nat
      BY <1>1
    <2>5. r.ts \in Nat /\ r.ts < (d + 1) * DayLen
      BY <1>1, <2>1, <2>3, <2>4
    <2>6. r.ts \div DayLen <= d /\ r.ts \div DayLen \in Nat
      BY <1>1, <2>5, DayBefore
    <2> QED BY <2>1, <2>2, <2>5, <2>6 DEF DayOf, Days
  <1> QED BY <1>1, <1>2, <1>3 DEF SegOf, Seg

\* The segment of the work list that comes next is in it.
LEMMA NextSegIn ==
    ASSUME NEW todo \in SUBSET Seg, todo # {}
    PROVE  NextSeg(todo) \in todo
  <1> DEFINE D == {s[2] : s \in todo}
             d == MinOf(D)
             J == {j \in DOMAIN ARCHIVE_TABLES : <<ARCHIVE_TABLES[j], d>> \in todo}
  <1>1. D \subseteq Nat /\ D # {}
    BY DEF Seg, Days
  <1>2. d \in D
    BY <1>1, MinOfNat
  <1>3. DOMAIN ARCHIVE_TABLES = {1, 2}
    BY DEF ARCHIVE_TABLES
  <1>4. PICK s \in todo : s[2] = d
    BY <1>2
  <1>5. s \in Tables \X Days
    BY DEF Seg
  <1>5a. s[1] \in Tables /\ s = <<s[1], s[2]>>
    BY <1>5
  <1>6. PICK j \in DOMAIN ARCHIVE_TABLES : s[1] = ARCHIVE_TABLES[j]
    BY <1>5a, Zenon DEF Tables
  <1>7. j \in J
    <2>1. s = <<ARCHIVE_TABLES[j], d>>
      BY <1>4, <1>5a, <1>6
    <2>2. <<ARCHIVE_TABLES[j], d>> \in todo
      BY <2>1, <1>4
    <2> QED BY <2>2, <1>6
  <1>8. J \subseteq Nat /\ J # {}
    <2>1. J \subseteq {1, 2}
      BY <1>3
    <2> HIDE DEF J
    <2> QED BY <2>1, <1>7
  <1>9. MinOf(J) \in J
    BY <1>8, MinOfNat
  <1> QED BY <1>9 DEF NextSeg

\* The days that are archived for a table are days that have no receipt.
LEMMA PendingIn ==
    ASSUME Typed, NEW t \in Tables, NEW d \in pending_days(t)
    PROVE  <<t, d>> \in Seg /\ receipts[<<t, d>>] = {}
  <1> DEFINE days == {DayOf(r) : r \in {x \in db : x.t = t}}
  <1>1. days \subseteq Days
    BY SegType DEF Typed
  <1>2. days # {} /\ d \in MinOf(days) .. MaxOf(days) /\ d \notin remote_receipt_days(t)
    BY DEF pending_days
  <1>3. PICK M \in Nat : M = LastTs \div DayLen
    BY SegType
  <1>4. Days = 0..M
    BY <1>3 DEF Days
  <1>5. MinOf(days) \in 0..M /\ MaxOf(days) \in 0..M
    <2>1. days \subseteq Nat
      BY <1>1, <1>4
    <2> HIDE DEF days
    <2>2. MinOf(days) \in days
      BY <2>1, <1>2, MinOfNat
    <2>3. MaxOf(days) \in days
      BY <1>1, <1>2, <1>3, <1>4, MaxOfNat
    <2> QED BY <1>1, <1>4, <2>2, <2>3
  <1>6. d \in Days
    <2> HIDE DEF days
    <2> QED BY <1>2, <1>4, <1>5
  <1> QED BY <1>2, <1>6 DEF remote_receipt_days, Seg

\* Going on to the next segment takes the current one off the work list.
LEMMA AfterSegOf ==
    ASSUME arch \in ArchRec
    PROVE  /\ AfterSeg(arch) \in ArchRec
           /\ AfterSeg(arch).todo = arch.todo \ {arch.seg}
           /\ AfterSeg(arch).pc \in {"next", "done"}
           /\ AfterSeg(arch).pc = "next" => AfterSeg(arch).todo # {}
  <1> DEFINE rest == arch.todo \ {arch.seg}
             pc == IF rest = {} THEN "done" ELSE "next"
  <1>1. AfterSeg(arch) = [Idle EXCEPT !.pc = pc, !.todo = rest]
    BY DEF AfterSeg
  <1>2. rest \in SUBSET Seg /\ pc \in {"next", "done"}
    BY DEF ArchRec
  <1>3. pc = "next" => rest # {}
    OBVIOUS
  <1> HIDE DEF rest, pc
  <1>4. AfterSeg(arch) = [pc |-> pc, todo |-> rest, seg |-> None, own |-> {},
                          man |-> None, seen |-> None]
    BY <1>1 DEF Idle
  <1>5. AfterSeg(arch) \in ArchRec
    BY <1>2, <1>4 DEF ArchRec, Content
  <1>6. AfterSeg(arch).todo = rest /\ AfterSeg(arch).pc = pc
    BY <1>4
  <1>7. rest = arch.todo \ {arch.seg}
    BY DEF rest
  <1> QED BY <1>2, <1>3, <1>5, <1>6, <1>7

\* The idle archiver and the resting pruner.
LEMMA IdleOf == Idle \in ArchRec /\ Idle.pc = "idle" /\ Idle.todo = {} /\ Rest \in PruneRec
  BY DEF Idle, ArchRec, Rest, PruneRec, Content

-----------------------------------------------------------------------------
(* Frames: what a step leaves alone.                                       *)

\* A step that leaves the archiver, the receipts, the manifests and the set of
\* objects alone keeps what the archiver has established.
LEMMA ArchSame ==
    ASSUME ArchInv, UNCHANGED <<arch, receipts, mpath, obj>>
    PROVE  ArchInv'
  BY DEF ArchInv, Object

\* An idle archiver has established nothing.
LEMMA ArchIdle == ASSUME arch' = Idle PROVE ArchInv'
  BY IdleOf DEF ArchInv

\* A step that goes on to the next segment keeps ArchInv.
LEMMA ArchNext ==
    ASSUME Typed, ArchInv, arch' = AfterSeg(arch),
           \A s \in Seg : s # arch.seg => receipts'[s] = receipts[s]
    PROVE  ArchInv'
  <1>1. arch \in ArchRec
    BY DEF Typed
  <1>2. /\ arch'.todo = arch.todo \ {arch.seg}
        /\ arch'.pc \in {"next", "done"}
        /\ arch'.pc = "next" => arch'.todo # {}
    BY <1>1, AfterSegOf
  <1>3. arch.todo \subseteq Seg
    BY <1>1 DEF ArchRec
  <1>4. \A s \in arch'.todo : receipts'[s] = {}
    BY <1>2, <1>3 DEF ArchInv
  <1> QED BY <1>2, <1>4 DEF ArchInv

\* Receipts, progress files and objects that stay keep their relation.
LEMMA ReceiptSame ==
    ASSUME ReceiptInv, UNCHANGED <<receipts, progress, obj>>
    PROVE  ReceiptInv'
  BY DEF ReceiptInv, Receipted

\* Nothing more is gone, and the receipts stay.
LEMMA GoneSame ==
    ASSUME GoneInv, UNCHANGED receipts, stored' \ db' \subseteq stored \ db
    PROVE  GoneInv'
  BY DEF GoneInv, SegOf, DayOf

-----------------------------------------------------------------------------
(* The initial state and the steps of the source and of the clock.         *)

\* The first state: nothing is stored, archived or proven.
LEMMA InitRet == Init => RetInv
  <1> SUFFICES ASSUME Init PROVE RetInv
    OBVIOUS
  <1>1. Typed
    BY IdleOf DEF Init, Typed, Files
  <1>2. ArchInv
    BY IdleOf DEF Init, ArchInv
  <1>3. ReceiptInv /\ GoneInv
    BY DEF Init, ReceiptInv, GoneInv
  <1> QED BY <1>1, <1>2, <1>3 DEF RetInv

\* A row arrives, late or in time.
LEMMA InsertInv == ASSUME RetInv, NEW r \in Row, Insert(r) PROVE RetInv'
  <1> USE DEF RetInv, Insert, files
  <1>1. Typed'
    BY DEF Typed
  <1>2. stored' \ db' \subseteq stored \ db
    OBVIOUS
  <1> QED BY <1>1, <1>2, ArchSame, ReceiptSame, GoneSame

\* The clock advances.
LEMMA TickInv == ASSUME RetInv, Tick PROVE RetInv'
  <1> USE DEF RetInv, Tick, files
  <1>1. Typed'
    BY DEF Typed
  <1> QED BY <1>1, ArchSame, ReceiptSame, GoneSame

\* A crash loses where the archiver and the pruner were.
LEMMA CrashInv == ASSUME RetInv, Crash PROVE RetInv'
  <1> USE DEF RetInv, Crash, files
  <1>1. Typed'
    BY IdleOf DEF Typed
  <1> QED BY <1>1, ArchIdle, ReceiptSame, GoneSame

\* A local file disappears.
LEMMA LoseInv == ASSUME RetInv, NEW s \in Seg, LoseLocal(s) PROVE RetInv'
  <1> USE DEF RetInv, LoseLocal
  <1>1. Typed'
    BY DEF Typed, Files
  <1>2. ArchInv'
    <2>1. arch' = arch /\ receipts' = receipts /\ obj' = obj
      OBVIOUS
    <2>2. \A u \in Seg : mpath'[u] \in {None, mpath[u]}
      BY DEF Typed
    <2>3. arch.todo \subseteq Seg
      BY DEF Typed, ArchRec
    <2> QED BY <2>1, <2>2, <2>3 DEF ArchInv, Object
  <1> QED BY <1>1, <1>2, ReceiptSame, GoneSame

\* The pruner's time budget is used up.
LEMMA BudgetInv == ASSUME RetInv, BudgetHit PROVE RetInv'
  <1> USE DEF RetInv, BudgetHit, files
  <1>1. Typed'
    BY IdleOf DEF Typed
  <1> QED BY <1>1, ArchSame, ReceiptSame, GoneSame

-----------------------------------------------------------------------------
(* The archiver's steps.                                                   *)

\* _archive_once makes its work list.
LEMMA StartArchiveInv == ASSUME RetInv, StartArchive PROVE RetInv'
  <1> USE DEF RetInv
  <1>0. UNCHANGED <<db, stored, now, path, mpath, versions, obj, objman, receipts, progress,
                    prune>>
    BY DEF StartArchive, files
  <1> DEFINE todo == UNION {{<<t, d>> : d \in pending_days(t)} : t \in Tables}
             pc == IF todo = {} THEN "done" ELSE "next"
  <1>1. todo \in SUBSET Seg /\ \A s \in todo : receipts[s] = {}
    BY PendingIn
  <1>2. pc \in {"next", "done"} /\ (pc = "next" => todo # {})
    OBVIOUS
  <1>3. arch' = [Idle EXCEPT !.pc = pc, !.todo = todo]
    BY DEF StartArchive
  <1> HIDE DEF todo, pc
  <1>4. arch' = [pc |-> pc, todo |-> todo, seg |-> None, own |-> {},
                 man |-> None, seen |-> None]
    BY <1>3 DEF Idle
  <1>5. arch' \in ArchRec
    BY <1>1, <1>2, <1>4 DEF ArchRec, Content
  <1>6. Typed'
    BY <1>0, <1>5 DEF Typed
  <1>7. ArchInv'
    <2>1. arch'.pc = pc /\ arch'.todo = todo
      BY <1>4
    <2> QED BY <1>0, <1>1, <1>2, <2>1 DEF ArchInv
  <1> QED BY <1>0, <1>6, <1>7, ReceiptSame, GoneSame

\* The segment the archiver takes next has no receipt.
LEMMA NextSegOf ==
    ASSUME Typed, ArchInv, arch.pc = "next"
    PROVE  /\ NextSeg(arch.todo) \in arch.todo /\ NextSeg(arch.todo) \in Seg
           /\ arch.todo \in SUBSET Seg
  <1>1. arch.todo \in SUBSET Seg /\ arch.todo # {}
    BY DEF Typed, ArchRec, ArchInv
  <1> QED BY <1>1, NextSegIn

\* export_day on a segment that is there or can be restored.
LEMMA ExportSkipInv == ASSUME RetInv, ExportSkip PROVE RetInv'
  <1> USE DEF RetInv
  <1>0. UNCHANGED <<db, stored, now, obj, objman, receipts, progress, prune>> /\ arch.pc = "next"
    BY DEF ExportSkip
  <1> DEFINE s == NextSeg(arch.todo)
  <1>1. s \in arch.todo /\ s \in Seg
    BY <1>0, NextSegOf
  <1>2. /\ path' \in [Seg -> Files] /\ mpath' \in [Seg -> Honest \cup {None}]
        /\ versions' \in [Seg -> SUBSET [man : Honest, content : Files]]
        /\ mpath'[s] \in Honest
        /\ arch' = [arch EXCEPT !.pc = "push", !.seg = s, !.man = mpath'[s]]
    <2>1. CASE /\ verify_file(path[s], mpath[s])
               /\ versions' = [versions EXCEPT ![s] = Preserved(s, path[s], mpath[s])]
               /\ UNCHANGED <<path, mpath>>
      <3>1. mpath[s] \in Honest /\ path[s] \in Files
        BY <1>1, <2>1 DEF Typed, verify_file
      <3>2. Preserved(s, path[s], mpath[s]) \in SUBSET [man : Honest, content : Files]
        BY <1>1, <3>1 DEF Preserved, Typed
      <3> QED BY <1>1, <2>1, <3>1, <3>2 DEF ExportSkip, Typed
    <2>2. ASSUME NEW v \in Restorable(s), path' = [path EXCEPT ![s] = v.content],
                 mpath' = [mpath EXCEPT ![s] = v.man], UNCHANGED versions
          PROVE  /\ path' \in [Seg -> Files] /\ mpath' \in [Seg -> Honest \cup {None}]
                 /\ versions' \in [Seg -> SUBSET [man : Honest, content : Files]]
                 /\ mpath'[s] \in Honest
      <3>1. v \in [man : Honest, content : Files]
        BY <1>1 DEF Restorable, Typed
      <3>2. v.man \in Honest /\ v.content \in Files
        BY <3>1
      <3> HIDE DEF s
      <3> QED BY <1>1, <2>2, <3>2 DEF Typed
    <2>3. arch' = [arch EXCEPT !.pc = "push", !.seg = s, !.man = mpath'[s]]
      BY DEF ExportSkip
    <2>4. \/ /\ verify_file(path[s], mpath[s])
             /\ versions' = [versions EXCEPT ![s] = Preserved(s, path[s], mpath[s])]
             /\ UNCHANGED <<path, mpath>>
          \/ \E v \in Restorable(s) : /\ path' = [path EXCEPT ![s] = v.content]
                                      /\ mpath' = [mpath EXCEPT ![s] = v.man]
                                      /\ UNCHANGED versions
      BY DEF ExportSkip
    <2> HIDE DEF s
    <2> QED BY <2>1, <2>2, <2>3, <2>4
  <1> HIDE DEF s
  <1>3. arch' \in ArchRec /\ arch'.pc = "push" /\ arch'.seg = s /\ arch'.man = mpath'[s]
        /\ arch'.todo = arch.todo
    BY <1>1, <1>2 DEF Typed, ArchRec
  <1>4. Typed'
    BY <1>0, <1>2, <1>3 DEF Typed
  <1>5. ArchInv'
    BY <1>0, <1>1, <1>2, <1>3 DEF ArchInv
  <1> QED BY <1>0, <1>4, <1>5, ReceiptSame, GoneSame

\* export_day selects the rows of the day.
LEMMA ExportSelectInv == ASSUME RetInv, ExportSelect PROVE RetInv'
  <1> USE DEF RetInv
  <1>0. UNCHANGED <<db, stored, now, path, mpath, versions, obj, objman, receipts, progress,
                    prune>> /\ arch.pc = "next"
    BY DEF ExportSelect, files
  <1> DEFINE s == NextSeg(arch.todo)
             own == SegRows(db, s)
  <1>1. s \in arch.todo /\ s \in Seg
    BY <1>0, NextSegOf
  <1>2. own \in Content
    BY DEF Typed, SegRows, Content
  <1>3. arch' = [arch EXCEPT !.pc = "replace", !.seg = s, !.own = own]
    BY DEF ExportSelect
  <1> HIDE DEF s, own
  <1>4. arch' \in ArchRec /\ arch'.pc = "replace" /\ arch'.seg = s /\ arch'.todo = arch.todo
    BY <1>1, <1>2, <1>3 DEF Typed, ArchRec
  <1>5. Typed'
    BY <1>0, <1>4 DEF Typed
  <1>6. ArchInv'
    BY <1>0, <1>1, <1>4 DEF ArchInv
  <1> QED BY <1>0, <1>5, <1>6, ReceiptSame, GoneSame

\* The file of the day is replaced.
LEMMA ExportReplaceInv == ASSUME RetInv, ExportReplace PROVE RetInv'
  <1> USE DEF RetInv
  <1>0. UNCHANGED <<db, stored, now, mpath, versions, obj, objman, receipts, progress, prune>>
        /\ arch.pc = "replace"
    BY DEF ExportReplace
  <1> DEFINE m == [src |-> arch.own, sha |-> arch.own]
  <1>1. arch \in ArchRec
    BY DEF Typed
  <1>2. arch.own \in Content /\ m \in Honest
    BY <1>1 DEF ArchRec, Honest, Manifest
  <1>3. arch' = [arch EXCEPT !.pc = "manifest", !.man = m]
        /\ path' = [path EXCEPT ![arch.seg] = arch.own]
    BY DEF ExportReplace
  <1> HIDE DEF m
  <1>4. arch' \in ArchRec /\ arch'.pc = "manifest" /\ arch'.seg = arch.seg
        /\ arch'.todo = arch.todo /\ arch'.man = m
    BY <1>1, <1>2, <1>3 DEF ArchRec
  <1>5. path' \in [Seg -> Files]
    BY <1>2, <1>3 DEF Typed, Files
  <1>6. Typed'
    BY <1>0, <1>4, <1>5 DEF Typed
  <1>7. ArchInv'
    BY <1>0, <1>2, <1>4 DEF ArchInv
  <1> QED BY <1>0, <1>6, <1>7, ReceiptSame, GoneSame

\* The manifest and a versioned copy are written.
LEMMA ExportManifestInv == ASSUME RetInv, ExportManifest PROVE RetInv'
  <1> USE DEF RetInv
  <1>0. UNCHANGED <<db, stored, now, path, obj, objman, receipts, progress, prune>>
        /\ arch.pc = "manifest"
    BY DEF ExportManifest
  <1>1. arch \in ArchRec /\ arch.seg \in arch.todo /\ arch.seg \in Seg /\ arch.man \in Honest
    BY <1>0 DEF Typed, ArchInv, ArchRec
  <1>2. /\ mpath' = [mpath EXCEPT ![arch.seg] = arch.man]
        /\ versions' = [versions EXCEPT ![arch.seg] =
                          Preserved(arch.seg, path[arch.seg], arch.man)]
        /\ arch' = [arch EXCEPT !.pc = "push"]
    BY DEF ExportManifest
  <1>3. arch' \in ArchRec /\ arch'.pc = "push" /\ arch'.seg = arch.seg
        /\ arch'.todo = arch.todo /\ arch'.man = arch.man
    BY <1>1, <1>2 DEF ArchRec
  <1>4. Preserved(arch.seg, path[arch.seg], arch.man) \in SUBSET [man : Honest, content : Files]
    BY <1>1 DEF Preserved, Typed
  <1>5. mpath' \in [Seg -> Honest \cup {None}] /\ mpath'[arch.seg] = arch.man
        /\ versions' \in [Seg -> SUBSET [man : Honest, content : Files]]
    BY <1>1, <1>2, <1>4 DEF Typed
  <1>6. Typed'
    BY <1>0, <1>3, <1>5 DEF Typed
  <1>7. ArchInv'
    BY <1>0, <1>1, <1>3, <1>5 DEF ArchInv
  <1> QED BY <1>0, <1>6, <1>7, ReceiptSame, GoneSame

\* A transfer that fails, and a local file that does not match: the next segment.
LEMMA SkipSegInv ==
    ASSUME RetInv, arch' = AfterSeg(arch),
           UNCHANGED <<db, stored, now, path, mpath, versions, obj, objman, receipts,
                       progress, prune>>
    PROVE  RetInv'
  <1> USE DEF RetInv
  <1>1. arch' \in ArchRec
    BY AfterSegOf DEF Typed
  <1>2. Typed'
    BY <1>1 DEF Typed
  <1>3. ArchInv'
    BY ArchNext
  <1> QED BY <1>2, <1>3, ReceiptSame, GoneSame

\* The artifact and its manifest are pushed. They have a key of their own, of a
\* segment without a receipt, so no proven object is overwritten.
LEMMA PushInv == ASSUME RetInv, Push PROVE RetInv'
  <1> USE DEF RetInv
  <1>0. UNCHANGED <<db, stored, now, path, mpath, versions, receipts, progress, prune>>
        /\ arch.pc = "push"
    BY DEF Push, files
  <1> DEFINE s == arch.seg
  <1>1. arch \in ArchRec /\ s \in arch.todo /\ s \in Seg /\ arch.man \in Honest
        /\ mpath[s] \in {None, arch.man} /\ arch.man.src \in Content /\ receipts[s] = {}
    BY <1>0 DEF Typed, ArchInv, ArchRec, Honest, Manifest
  <1>2. ASSUME verify_file(path[s], mpath[s]), NEW c, obj' = Put(obj, Object, c),
               objman' = Put(objman, Object, mpath[s]),
               arch' = [arch EXCEPT !.pc = "fetch", !.seen = mpath[s]]
        PROVE  RetInv'
    <2>1. mpath[s] = arch.man
      BY <1>1, <1>2 DEF verify_file
    <2>2. arch' \in ArchRec /\ arch'.pc = "fetch" /\ arch'.seg = s /\ arch'.man = arch.man
          /\ arch'.seen = arch.man /\ arch'.todo = arch.todo
      BY <1>1, <1>2, <2>1 DEF ArchRec
    <2>3. Object \in Seg \X Content /\ Object[1] = s /\ Object' = Object
      BY <1>1, <2>2 DEF Object
    <2>4. /\ DOMAIN obj' = DOMAIN obj \cup {Object}
          /\ DOMAIN objman' = DOMAIN objman \cup {Object}
          /\ objman'[Object] = arch.man
          /\ \A k \in DOMAIN obj \ {Object} : obj'[k] = obj[k]
          /\ \A k \in DOMAIN objman \ {Object} : objman'[k] = objman[k]
      BY <1>2, <2>1 DEF Put
    <2>5. Typed'
      BY <1>0, <1>1, <2>2, <2>3, <2>4 DEF Typed
    <2>6. ArchInv'
      BY <1>0, <1>1, <2>2, <2>3, <2>4 DEF ArchInv
    <2>7. ReceiptInv'
      <3>1. ASSUME NEW u \in Seg, NEW x \in receipts[u] PROVE Receipted(u, x)'
        <4>1. u # s /\ Receipted(u, x)
          BY <1>1, <3>1 DEF ReceiptInv
        <4>2. <<u, x.key>> # Object
          BY <4>1, <2>3
        <4>3. obj'[<<u, x.key>>] = obj[<<u, x.key>>] /\ <<u, x.key>> \in DOMAIN obj'
          BY <2>4, <4>1, <4>2 DEF Receipted
        <4> QED BY <1>0, <4>1, <4>3 DEF Receipted
      <3> QED BY <1>0, <3>1 DEF ReceiptInv
    <2> QED BY <1>0, <2>5, <2>6, <2>7, GoneSame
  <1>3. ASSUME arch' = AfterSeg(arch), UNCHANGED <<obj, objman>> PROVE RetInv'
    BY <1>0, <1>3, SkipSegInv
  <1> QED BY <1>2, <1>3 DEF Push

\* The fetched objects are compared and the receipt is written: it names the
\* object that was fetched, which holds the rows of its manifest.
LEMMA FetchInv == ASSUME RetInv, FetchVerify PROVE RetInv'
  <1> USE DEF RetInv
  <1>0. UNCHANGED <<db, stored, now, path, mpath, versions, obj, objman, progress, prune>>
        /\ arch.pc = "fetch" /\ arch' = AfterSeg(arch)
    BY DEF FetchVerify, files
  <1> DEFINE s == arch.seg
             m == objman[Object]
  <1>1. arch \in ArchRec /\ s \in arch.todo /\ s \in Seg /\ arch.man \in Honest
        /\ arch.seen = arch.man /\ receipts[s] = {} /\ progress[s] = None
        /\ Object \in DOMAIN obj
    BY <1>0 DEF Typed, ArchInv, ArchRec, ReceiptInv
  <1>2. arch.man.src \in Content /\ arch.man.src = arch.man.sha
    BY <1>1 DEF Honest, Manifest
  <1>3. CASE receipts' = receipts
    BY <1>0, <1>3, SkipSegInv
  <1>4. ASSUME obj[Object] # Damaged, m = arch.seen, verify_file(obj[Object], m),
               receipts' = [receipts EXCEPT ![s] =
                  {x \in @ : x.key # Object[2]} \cup {[key |-> Object[2], man |-> m]}]
        PROVE  RetInv'
    <2> DEFINE new == [key |-> arch.man.src, man |-> arch.man]
    <2>1. receipts' = [receipts EXCEPT ![s] = {new}]
      BY <1>1, <1>4 DEF Object, Typed
    <2>2. new \in [key : Content, man : Honest] /\ new.key = arch.man.src
          /\ new.man = arch.man
      BY <1>1, <1>2
    <2>3. obj[Object] = arch.man.src /\ Object = <<s, arch.man.src>>
      BY <1>1, <1>2, <1>4 DEF verify_file, Object
    <2>4. receipts \in [Seg -> SUBSET [key : Content, man : Honest]]
      BY DEF Typed
    <2> HIDE DEF new
    <2>5. receipts'[s] = {new} /\ \A u \in Seg : u # s => receipts'[u] = receipts[u]
      BY <1>1, <2>1, <2>4
    <2>6. Typed'
      <3>1. arch' \in ArchRec
        BY <1>0, <1>1, AfterSegOf
      <3>2. receipts' \in [Seg -> SUBSET [key : Content, man : Honest]]
        BY <1>1, <2>1, <2>2, <2>4
      <3> QED BY <1>0, <3>1, <3>2 DEF Typed
    <2>7. ArchInv'
      <3>1. \A u \in Seg : u # arch.seg => receipts'[u] = receipts[u]
        BY <2>5
      <3> QED BY <1>0, <3>1, ArchNext
    <2>8. ReceiptInv'
      <3>0. PICK v \in Seg, n \in [key : Content, man : Honest] : v = s /\ n = new
        BY <1>1, <2>2
      <3>1. ASSUME NEW u \in Seg, u # v
            PROVE  /\ \A x \in receipts'[u] : Receipted(u, x)'
                   /\ \A x, y \in receipts'[u] : x = y
                   /\ receipts'[u] = {} => progress'[u] = None
        BY <1>0, <2>5, <3>0, <3>1 DEF ReceiptInv, Receipted
      <3>2. Receipted(v, n)'
        BY <1>0, <1>1, <1>4, <2>2, <2>3, <3>0 DEF Receipted
      <3>3. receipts'[v] = {n}
        BY <2>5, <3>0
      <3> QED BY <3>1, <3>2, <3>3 DEF ReceiptInv
    <2>9. GoneInv'
      <3>1. ASSUME NEW r \in stored \ db PROVE \E x \in receipts'[SegOf(r)] : r \in x.man.src
        <4>1. PICK x \in receipts[SegOf(r)] : r \in x.man.src
          BY DEF GoneInv
        <4>2. SegOf(r) \in Seg
          BY SegType DEF Typed
        <4>3. SegOf(r) # s
          BY <1>1, <4>1
        <4> QED BY <2>5, <4>1, <4>2, <4>3
      <3> QED BY <1>0, <3>1 DEF GoneInv, SegOf, DayOf
    <2> QED BY <2>6, <2>7, <2>8, <2>9
  <1> QED BY <1>3, <1>4 DEF FetchVerify

\* A transfer command fails.
LEMMA TransferInv == ASSUME RetInv, TransferFails PROVE RetInv'
  BY SkipSegInv DEF TransferFails, files

-----------------------------------------------------------------------------
(* The pruner's steps.                                                     *)

\* Where a deletion may take place: the first day in the tables is covered by a
\* receipt of every table, and what is left of it matches.
LEMMA CutoffOk ==
    ASSUME Typed, retention_cutoff.why = "ok"
    PROVE  /\ db # {} /\ FloorDay \in Days /\ \A r \in db : FloorDay <= DayOf(r)
           /\ \A t \in Tables : receipts[<<t, FloorDay>>] # {} /\ Matches(<<t, FloorDay>>)
           /\ retention_cutoff.day \in Int
  <1>1. /\ db # {} /\ FloorDay \in Common
        /\ \A t \in Tables, d \in FloorDay .. (FirstUncovered - 1) : Matches(<<t, d>>)
        /\ retention_cutoff.day = FirstUncovered
    BY DEF retention_cutoff
  <1> DEFINE F == {DayOf(r) : r \in db}
  <1>2. PICK M \in Nat : M = LastTs \div DayLen
    BY SegType
  <1>3. Days = 0..M
    BY <1>2 DEF Days
  <1>4. F \subseteq Days /\ F # {}
    BY <1>1, SegType DEF Typed
  <1>5. FloorDay \in F /\ \A y \in F : FloorDay <= y
    <2>1. F \subseteq Nat
      BY <1>3, <1>4
    <2> HIDE DEF F
    <2>2. MinOf(F) \in F /\ \A y \in F : MinOf(F) <= y
      BY <1>4, <2>1, MinOfNat
    <2>3. FloorDay = MinOf(F)
      BY DEF FloorDay, F
    <2> QED BY <2>2, <2>3
  <1>6. FloorDay \in 0..M /\ \A r \in db : FloorDay <= DayOf(r)
    BY <1>3, <1>4, <1>5
  <1>7. \A t \in Tables : receipts[<<t, FloorDay>>] # {}
    BY <1>1 DEF Common, remote_receipt_days
  <1> DEFINE S == {d \in 0 .. (LastTs \div DayLen) + 1 : d >= FloorDay /\ d \notin Common}
  <1>8. FirstUncovered \in Nat /\ FirstUncovered >= FloorDay /\ FirstUncovered \notin Common
    <2>1. S \subseteq Nat
      BY <1>2
    <2>2. M + 1 \in S
      <3>1. M + 1 \notin Days /\ M + 1 >= FloorDay /\ M + 1 \in 0 .. M + 1
        BY <1>3, <1>6
      <3>2. M + 1 \notin Common
        BY <3>1 DEF Common
      <3> QED BY <1>2, <3>1, <3>2
    <2>3. FirstUncovered = MinOf(S)
      BY Zenon DEF FirstUncovered
    <2>4. \A d \in S : d \in Nat /\ d >= FloorDay /\ d \notin Common
      BY <2>1
    <2> HIDE DEF S
    <2>5. MinOf(S) \in S
      BY <2>1, <2>2, MinOfNat
    <2> QED BY <2>3, <2>4, <2>5
  <1>9. FloorDay \in FloorDay .. (FirstUncovered - 1)
    BY <1>1, <1>6, <1>8
  <1> QED BY <1>1, <1>3, <1>6, <1>7, <1>8, <1>9

\* What is left of a day that matches is in the rows of its receipt.
LEMMA MatchedRows ==
    ASSUME ReceiptInv, NEW s \in Seg, Matches(s), NEW x \in receipts[s]
    PROVE  SegRows(db, s) \subseteq x.man.src
  <1>1. Receipt(s) = x
    BY DEF ReceiptInv, Receipt
  <1>2. Receipted(s, x)
    BY DEF ReceiptInv
  <1> QED BY <1>1, <1>2 DEF Matches, Receipted

\* The rows of a batch are rows of the first day: they are older than its end.
LEMMA DeletedRows ==
    ASSUME Typed, retention_cutoff.why = "ok", NEW t \in Tables,
           NEW del \in Deletable(t, MinOf({prune.cutoff, retention_cutoff.day * DayLen,
                                           DayHi(FloorDay)}))
    PROVE  del \subseteq SegRows(db, <<t, FloorDay>>)
  <1>1. PICK d \in Nat : d = FloorDay /\ \A r \in db : d <= DayOf(r)
    BY CutoffOk, SegType DEF Days
  <1>2. DayLen \in Nat \ {0} /\ prune.cutoff \in Int
    BY SegType DEF Typed, PruneRec
  <1>3. PICK c \in Int : c = MinOf({prune.cutoff, retention_cutoff.day * DayLen,
                                    DayHi(FloorDay)}) /\ c <= (d + 1) * DayLen
    <2>1. (d + 1) * DayLen \in Int /\ DayHi(FloorDay) = (d + 1) * DayLen
      BY <1>1, <1>2 DEF DayHi
    <2>2. retention_cutoff.day * DayLen \in Int
      BY <1>2, CutoffOk
    <2> QED BY <1>2, <2>1, <2>2, MinOfFew
  <1>4. ASSUME NEW r \in del PROVE r \in db /\ SegOf(r) = <<t, d>>
    <2>1. r \in db /\ r.t = t /\ r.ts < c
      BY <1>3 DEF Deletable
    <2>2. r \in Row /\ r.ts \in Nat
      BY <2>1, SegType DEF Typed
    <2>3. (d + 1) * DayLen \in Int
      BY <1>2
    <2>4. r.ts < (d + 1) * DayLen
      BY <1>3, <2>1, <2>2, <2>3
    <2>5. DayOf(r) <= d /\ DayOf(r) \in Nat
      BY <1>2, <2>2, <2>4, DayBefore DEF DayOf
    <2>6. DayOf(r) = d
      BY <1>1, <2>1, <2>5
    <2> QED BY <2>1, <2>6 DEF SegOf
  <1> QED BY <1>1, <1>4 DEF SegRows

\* The pruner goes on to the next table, or rests.
LEMMA NextTableOf ==
    ASSUME prune \in PruneRec, NEW cur \in BOOLEAN
    PROVE  NextTable(cur) \in PruneRec
  <1>1. Len(ARCHIVE_TABLES) = 2
    BY DEF ARCHIVE_TABLES
  <1>2. CASE prune.table = 2
    BY <1>1, <1>2, IdleOf DEF NextTable
  <1>3. CASE prune.table # 2
    <2>1. prune.table = 1
      BY <1>3 DEF PruneRec
    <2>2. (prune.deleted \/ cur) \in BOOLEAN
      OBVIOUS
    <2>3. PICK b \in BOOLEAN : b = (prune.deleted \/ cur)
      BY <2>2
    <2>4. NextTable(cur) = [prune EXCEPT !.table = 2, !.cur = FALSE, !.deleted = b]
      BY <1>1, <2>1, <2>3 DEF NextTable
    <2> QED BY <2>4 DEF PruneRec
  <1> QED BY <1>2, <1>3

\* retention_cutoff allows a pass, or not.
LEMMA StartPruneInv == ASSUME RetInv, StartPrune PROVE RetInv'
  <1> USE DEF RetInv
  <1>0. UNCHANGED <<db, stored, now, path, mpath, versions, obj, objman, receipts, progress>>
        /\ arch' = Idle
    BY DEF StartPrune, files
  <1>1. prune' \in PruneRec
    <2>1. CASE retention_cutoff.why = "ok"
      <3>1. now - RetentionDays * DayLen \in Int
        BY RetentionAssumption DEF Typed
      <3>2. retention_cutoff.day * DayLen \in Int
        BY <2>1, CutoffOk, SegType
      <3>3. PICK c \in Int : c = PruneCutoff(retention_cutoff)
        BY <3>1, <3>2, MinOfFew DEF PruneCutoff
      <3>4. prune' = [Rest EXCEPT !.pc = "batch", !.cutoff = c]
        BY <2>1, <3>3 DEF StartPrune
      <3> QED BY <3>4 DEF Rest, PruneRec
    <2>2. CASE retention_cutoff.why # "ok"
      BY <2>2, IdleOf DEF StartPrune
    <2> QED BY <2>1, <2>2
  <1>2. Typed'
    BY <1>0, <1>1, IdleOf DEF Typed
  <1> QED BY <1>0, <1>2, ArchIdle, ReceiptSame, GoneSame

\* What a batch does: nothing but a move of the pruner, or a deletion of rows of
\* the first day, whose rest is recorded or not.
LEMMA BatchOf ==
    ASSUME RetInv, NEW f, PruneBatch(f)
    PROVE  \E s \in Seg, del \in SUBSET db :
             /\ db' = db \ del /\ del \subseteq SegRows(db, s)
             /\ progress' \in {progress, Recorded(s, db')}
             /\ del # {} => \A x \in receipts[s] : SegRows(db, s) \subseteq x.man.src
             /\ del # {} => receipts[s] # {}
             /\ progress' # progress => del # {}
             /\ prune' \in PruneRec /\ arch' \in {Idle, arch}
  <1> USE DEF RetInv
  <1> DEFINE t  == ARCHIVE_TABLES[prune.table]
             rc == retention_cutoff
             bc == MinOf({prune.cutoff, rc.day * DayLen, DayHi(FloorDay)})
             s  == <<t, FloorDay>>
  <1>1. prune \in PruneRec /\ prune.cur \in BOOLEAN
    BY DEF Typed, PruneRec
  <1>2. t \in Tables
    BY <1>1 DEF PruneRec, Tables, ARCHIVE_TABLES
  <1>3. CASE rc.why # "ok"
    <2>1. db' = db /\ progress' = progress /\ arch' = arch
      BY <1>3 DEF PruneBatch
    <2>2. prune' \in {Rest, NextTable(prune.cur)}
      BY <1>3 DEF PruneBatch
    <2>3. prune' \in PruneRec
      BY <1>1, <2>2, NextTableOf, IdleOf
    <2>4. <<t, 0>> \in Seg
      BY <1>2, SegType DEF Seg, Days
    <2>5. db' = db \ {} /\ {} \subseteq SegRows(db, <<t, 0>>)
      BY <2>1
    <2> QED BY <2>1, <2>3, <2>4, <2>5
  <1>4. CASE rc.why = "ok"
    <2>1. PICK del \in Deletable(t, bc) :
             /\ db' = db \ del
             /\ progress' = IF del # {} /\ f = "recorded" THEN Recorded(s, db') ELSE progress
             /\ prune' = CASE f = "dies" -> Rest
                           [] f = "unrecorded" -> NextTable(prune.cur)
                           [] Cardinality(del) = DELETE_BATCH -> [prune EXCEPT !.cur = TRUE]
                           [] OTHER -> NextTable(prune.cur \/ del # {})
             /\ arch' = IF f = "dies" THEN Idle ELSE arch
      BY <1>4 DEF PruneBatch
    <2>2. del \subseteq SegRows(db, s)
      BY <1>2, <1>4, DeletedRows
    <2>3. s \in Seg /\ receipts[s] # {} /\ Matches(s)
      BY <1>2, <1>4, CutoffOk DEF Seg
    <2>4. \A x \in receipts[s] : SegRows(db, s) \subseteq x.man.src
      BY <2>3, MatchedRows
    <2>5. prune' \in PruneRec
      <3>1. PICK b \in BOOLEAN : b = (prune.cur \/ del # {})
        OBVIOUS
      <3>2. prune' \in {Rest, NextTable(prune.cur), [prune EXCEPT !.cur = TRUE], NextTable(b)}
        BY <2>1, <3>1
      <3>3. [prune EXCEPT !.cur = TRUE] \in PruneRec
        BY <1>1 DEF PruneRec
      <3> QED BY <1>1, <3>2, <3>3, NextTableOf, IdleOf
    <2>6. del \in SUBSET db
      BY <2>2 DEF SegRows
    <2>7. progress' \in {progress, Recorded(s, db')} /\ arch' \in {Idle, arch}
          /\ (progress' # progress => del # {})
      BY <2>1
    <2> HIDE DEF s
    <2> QED BY <2>1, <2>2, <2>3, <2>4, <2>5, <2>6, <2>7
  <1> QED BY <1>3, <1>4

\* A batch of the pruner keeps the invariant.
LEMMA PruneInv == ASSUME RetInv, NEW f, PruneBatch(f) PROVE RetInv'
  <1> USE DEF RetInv
  <1>0. UNCHANGED <<stored, now, path, mpath, versions, obj, objman, receipts>>
    BY DEF PruneBatch, files
  <1>1. PICK s \in Seg, del \in SUBSET db :
             /\ db' = db \ del /\ del \subseteq SegRows(db, s)
             /\ progress' \in {progress, Recorded(s, db')}
             /\ del # {} => \A x \in receipts[s] : SegRows(db, s) \subseteq x.man.src
             /\ del # {} => receipts[s] # {}
             /\ progress' # progress => del # {}
             /\ prune' \in PruneRec /\ arch' \in {Idle, arch}
    BY BatchOf
  <1>2. SegRows(db', s) \in Content /\ SegRows(db', s) \subseteq SegRows(db, s)
    BY <1>1 DEF SegRows, Content, Typed
  <1>3. progress \in [Seg -> Files]
    BY DEF Typed
  <1>4. progress' \in [Seg -> Files]
    BY <1>1, <1>2, <1>3 DEF Recorded, Files
  <1>5. Typed'
    BY <1>0, <1>1, <1>4, IdleOf DEF Typed
  <1>6. ArchInv'
    BY <1>0, <1>1, ArchIdle, ArchSame
  <1>7. ReceiptInv'
    <2>1. CASE progress' = progress
      BY <1>0, <2>1, ReceiptSame
    <2>2. CASE progress' # progress
      <3>1. progress' = [progress EXCEPT ![s] = SegRows(db', s)] /\ del # {}
        BY <1>1, <2>2 DEF Recorded
      <3>2. progress'[s] = SegRows(db', s) /\ \A u \in Seg : u # s => progress'[u] = progress[u]
        BY <1>3, <3>1
      <3>3. ASSUME NEW x \in receipts[s] PROVE Receipted(s, x)'
        <4>1. progress'[s] \subseteq x.man.src
          BY <1>1, <1>2, <3>1, <3>2
        <4> QED BY <1>0, <4>1 DEF ReceiptInv, Receipted
      <3>4. ASSUME NEW u \in Seg, u # s, NEW x \in receipts[u] PROVE Receipted(u, x)'
        BY <1>0, <3>2, <3>4 DEF ReceiptInv, Receipted
      <3>5. receipts[s] # {}
        BY <1>1, <3>1
      <3> QED BY <1>0, <3>2, <3>3, <3>4, <3>5 DEF ReceiptInv
    <2> QED BY <2>1, <2>2
  <1>8. GoneInv'
    <2>1. ASSUME NEW r \in stored \ db' PROVE \E x \in receipts[SegOf(r)] : r \in x.man.src
      <3>1. CASE r \in db
        <4>1. r \in del /\ SegOf(r) = s
          BY <1>1, <2>1, <3>1 DEF SegRows
        <4>2. r \in SegRows(db, s) /\ receipts[s] # {}
          BY <1>1, <4>1
        <4> QED BY <1>1, <4>1, <4>2
      <3>2. CASE r \notin db
        BY <2>1, <3>2 DEF GoneInv
      <3> QED BY <3>1, <3>2
    <2> QED BY <1>0, <2>1 DEF GoneInv, SegOf, DayOf
  <1> QED BY <1>5, <1>6, <1>7, <1>8

-----------------------------------------------------------------------------
(* The theorems.                                                           *)

\* Every step keeps the invariant.
LEMMA RetStep == RetInv /\ [Next]_vars => RetInv'
  <1> SUFFICES ASSUME RetInv, [Next]_vars PROVE RetInv'
    OBVIOUS
  <1>1. CASE UNCHANGED vars
    BY <1>1, ArchSame, ReceiptSame, GoneSame DEF vars, files, RetInv, Typed
  <1>2. ASSUME NEW r \in Row, Insert(r) PROVE RetInv'
    BY <1>2, InsertInv
  <1>3. CASE Tick
    BY <1>3, TickInv
  <1>4. CASE ArchiveStep
    BY <1>4, StartArchiveInv, ExportSkipInv, ExportSelectInv, ExportReplaceInv,
       ExportManifestInv, PushInv, FetchInv DEF ArchiveStep
  <1>5. CASE TransferFails \/ Crash \/ StartPrune \/ BudgetHit
    BY <1>5, TransferInv, CrashInv, StartPruneInv, BudgetInv
  <1>6. ASSUME NEW f, PruneBatch(f) PROVE RetInv'
    BY <1>6, PruneInv
  <1>7. ASSUME NEW s \in Seg, LoseLocal(s) PROVE RetInv'
    BY <1>7, LoseInv
  <1> QED BY <1>1, <1>2, <1>3, <1>4, <1>5, <1>6, <1>7 DEF Next

\* The inductive invariant holds in every reachable state.
THEOREM RetentionInvariant == Spec => []RetInv
  <1>1. Init => RetInv
    BY InitRet
  <1>2. RetInv /\ [Next]_vars => RetInv'
    BY RetStep
  <1> QED BY <1>1, <1>2, PTL DEF Spec

\* Archive before delete (archive.py, retention.py:473-478): a row that is no
\* longer in the raw tables is in a remote object with a verified receipt,
\* whatever fails or crashes on the way.
THEOREM RowsStaySafe == Spec => []RowsAreSafe
  <1>1. RetInv => RowsAreSafe
    <2> SUFFICES ASSUME RetInv PROVE TypeOK /\ NothingLost
      BY DEF RowsAreSafe
    <2>1. Honest \subseteq Manifest
      BY DEF Honest
    <2>2. [man : Honest, content : Files] \subseteq [man : Manifest, content : Files]
          /\ [key : Content, man : Honest] \subseteq [key : Content, man : Manifest]
      BY <2>1
    <2>3. prune.table \in DOMAIN ARCHIVE_TABLES /\ prune.pc \in {"rest", "batch"}
      BY DEF RetInv, Typed, PruneRec, ARCHIVE_TABLES
    <2>4. arch.pc \in {"idle", "next", "replace", "manifest", "push", "fetch", "done"}
      BY DEF RetInv, Typed, ArchRec
    <2>5. /\ mpath \in [Seg -> Manifest \cup {None}]
          /\ versions \in [Seg -> SUBSET [man : Manifest, content : Files]]
          /\ receipts \in [Seg -> SUBSET [key : Content, man : Manifest]]
      BY <2>1, <2>2 DEF RetInv, Typed
    <2>6. TypeOK
      BY <2>3, <2>4, <2>5 DEF RetInv, Typed, TypeOK
    <2>7. ASSUME NEW r \in stored \ db
          PROVE  \E x \in receipts[SegOf(r)] :
                    /\ <<SegOf(r), x.key>> \in DOMAIN obj
                    /\ obj[<<SegOf(r), x.key>>] # Damaged
                    /\ r \in obj[<<SegOf(r), x.key>>]
      <3>1. PICK x \in receipts[SegOf(r)] : r \in x.man.src
        BY DEF RetInv, GoneInv
      <3>2. SegOf(r) \in Seg
        BY SegType DEF RetInv, Typed
      <3>3. Receipted(SegOf(r), x)
        BY <3>2 DEF RetInv, ReceiptInv
      <3> QED BY <3>1, <3>3 DEF Receipted
    <2> QED BY <2>6, <2>7 DEF NothingLost
  <1> QED BY <1>1, RetentionInvariant, PTL

\* retention.py:388-393, re-checked under the lock: while a day holds a row that
\* its receipt does not prove, no step deletes a row of that day.
THEOREM LateRowsHold == Spec => LateRowsStopDeletion
  <1> DEFINE Held(s) == \E r \in SegRows(db, s) : \A x \in receipts[s] : r \notin x.man.src
             A == \A s \in Seg : Held(s) => SegRows(db, s) \subseteq db'
  <1>1. ASSUME RetInv, [Next]_vars PROVE [A]_vars
    <2>1. CASE UNCHANGED vars
      BY <2>1
    <2>2. CASE db \subseteq db'
      <3>1. \A s \in Seg : SegRows(db, s) \subseteq db'
        BY <2>2 DEF SegRows
      <3> QED BY <3>1
    <2>3. ASSUME NEW f, PruneBatch(f) PROVE A
      <3>1. PICK s \in Seg, del \in SUBSET db :
               /\ db' = db \ del /\ del \subseteq SegRows(db, s)
               /\ del # {} => \A x \in receipts[s] : SegRows(db, s) \subseteq x.man.src
               /\ del # {} => receipts[s] # {}
        BY <1>1, <2>3, BatchOf
      <3> SUFFICES ASSUME NEW u \in Seg, Held(u), NEW q \in SegRows(db, u), q \in del
                   PROVE  FALSE
        BY <3>1 DEF SegRows
      <3>2. u = s
        BY <3>1 DEF SegRows
      <3>3. \A x \in receipts[u] : SegRows(db, u) \subseteq x.man.src
        BY <3>1, <3>2
      <3>4. receipts[u] # {}
        BY <3>1, <3>2
      <3> QED BY <3>3, <3>4
    <2>4. Next => db \subseteq db' \/ \E f : PruneBatch(f)
      BY DEF Next, Insert, Tick, ArchiveStep, StartArchive, ExportSkip, ExportSelect,
             ExportReplace, ExportManifest, Push, FetchVerify, TransferFails, Crash,
             StartPrune, BudgetHit, LoseLocal
    <2> QED BY <1>1, <2>1, <2>2, <2>3, <2>4
  <1>2. [][A]_vars => LateRowsStopDeletion
    BY DEF LateRowsStopDeletion
  <1> QED BY <1>1, <1>2, RetentionInvariant, PTL DEF Spec
=============================================================================
