--------------------------- MODULE RecoveryProofs ---------------------------
(***************************************************************************)
(* Proofs about Recovery: what is shown as recovered has evidence, and     *)
(* what is called a verified backup can be restored, for any number of     *)
(* gaps, commands, receipts, runs and backups, any interleaving and any    *)
(* failures.  First, proofs about the migration it extends, for any        *)
(* catalog, source, chunk size, number of processes and runs, and any      *)
(* crashes and changes from outside.                                       *)
(***************************************************************************)
EXTENDS Recovery, FiniteSetTheorems, SequenceTheorems, TLAPS

-----------------------------------------------------------------------------
(* The inductive invariant of the migration.                               *)

RunRow  == [fp : Digest, state : {"RUNNING", "COMPLETED"}]
Chunk   == [first : Nat, rows : Seq(Val)]
Pcs     == {"off", "lock", "admit", "read", "write", "source", "target", "complete"}
Process == [pc : Pcs, run : RunId \cup {None}, digest : Digest \cup {None},
            table : DOMAIN CATALOG, chunk : Chunk \cup {None}]

Types ==
    /\ src \in [Table -> Seq(Val)] /\ tgt \in [Table -> Seq(TargetRow)]
    /\ runs \in [RunId -> RunRow \cup {None}]
    /\ cps \in [RunId -> [Table -> CheckpointRow \cup {None}]]
    /\ holder \in Proc \cup {None} /\ proc \in [Proc -> Process]

\* What a process has established at each place of run_migration: the lock, the
\* registered run, and a chunk that begins where its checkpoint ends.
Place(p) ==
    /\ proc[p].pc # "off" => proc[p].run \in RunId /\ proc[p].digest \in Digest
    /\ proc[p].pc \notin {"off", "lock"} => holder = p
    /\ proc[p].pc \notin {"off", "lock", "admit"} => runs[proc[p].run] \in RunRow
    /\ proc[p].pc = "write" => proc[p].chunk \in Chunk /\ proc[p].chunk.first = After(p) + 1

\* A run's rows in a table end at its checkpoint, are different source rows, and
\* are as many as the checkpoint says.
Below(t) ==
    \A i \in DOMAIN tgt[t] : tgt[t][i].by # None =>
        /\ cps[tgt[t][i].by][t] # None
        /\ tgt[t][i].rowid <= cps[tgt[t][i].by][t].last
Distinct(t) ==
    \A i, j \in DOMAIN tgt[t] : tgt[t][i].by # None /\ i # j =>
        <<tgt[t][i].by, tgt[t][i].rowid>> # <<tgt[t][j].by, tgt[t][j].rowid>>
Copied(r, t) == IF cps[r][t] = None THEN 0 ELSE cps[r][t].rows
Counted(t) == \A r \in RunId : Cardinality(RowsBy(r, t)) = Copied(r, t)

MigInv ==
    /\ Types
    /\ \A p \in Proc : Place(p)
    /\ \A t \in Table : Below(t) /\ Distinct(t) /\ Counted(t)

-----------------------------------------------------------------------------
(* Lemmas about the operators of the model.                                *)

\* A number of places of a sequence is a number.
LEMMA CountType ==
    ASSUME NEW S, NEW s \in Seq(S), NEW T \in SUBSET DOMAIN s
    PROVE  IsFiniteSet(T) /\ Cardinality(T) \in Nat
  <1>1. Len(s) \in Nat /\ DOMAIN s = 1..Len(s)
    OBVIOUS
  <1>2. IsFiniteSet(DOMAIN s)
    BY <1>1, FS_Interval
  <1>3. IsFiniteSet(T)
    BY <1>2, FS_Subset
  <1> QED BY <1>3, FS_CardinalityType

\* A function on 1..n is a sequence of n elements.
LEMMA SeqOf ==
    ASSUME NEW S, NEW n \in Nat, NEW f \in [1..n -> S]
    PROVE  f \in Seq(S) /\ Len(f) = n
  OBVIOUS

\* The source's digest is a digest.
LEMMA SqliteDigestType == ASSUME Types PROVE SqliteDigest \in Digest
  <1>1. ASSUME NEW t \in Table, NEW v \in Val PROVE Count(src[t], v) \in Nat
    <2>1. src[t] \in Seq(Val)
      BY DEF Types
    <2> QED BY <2>1, CountType DEF Count
  <1> QED BY <1>1 DEF SqliteDigest, Digest

\* The catalog is a sequence of tables.
LEMMA CatalogFacts ==
    /\ DOMAIN CATALOG = 1..Len(CATALOG) /\ Len(CATALOG) \in Nat /\ 1 \in DOMAIN CATALOG
    /\ \A i \in DOMAIN CATALOG : CATALOG[i] \in Table
    /\ None \notin Proc /\ None \notin RunId /\ None \notin CheckpointRow
    /\ chunk_size \in Nat \ {0}
  BY MigrationAssumption, CatalogAssumption

\* Places in a sequence of L elements followed by one of n.
LEMMA Places ==
    ASSUME NEW L \in Nat, NEW n \in Nat
    PROVE  /\ \A i \in (L + 1)..(L + n) : i \in 1..(L + n) /\ ~(i <= L) /\ i - L \in 1..n
           /\ \A i \in 1..L : i \in 1..(L + n) /\ i <= L
           /\ \A i \in 1..(L + n) : i \in 1..L \/ i \in (L + 1)..(L + n)
  OBVIOUS

\* Two sequences one after the other.
LEMMA Joined ==
    ASSUME NEW S, NEW s \in Seq(S), NEW f \in Seq(S)
    PROVE  /\ s \o f \in Seq(S) /\ Len(s \o f) = Len(s) + Len(f)
           /\ DOMAIN (s \o f) = 1..(Len(s) + Len(f))
           /\ \A i \in 1..Len(s) : (s \o f)[i] = s[i]
           /\ \A i \in (Len(s) + 1)..(Len(s) + Len(f)) :
                i - Len(s) \in 1..Len(f) /\ (s \o f)[i] = f[i - Len(s)]
  <1>1. Len(s) \in Nat /\ Len(f) \in Nat
    BY LenProperties
  <1>2. /\ s \o f \in Seq(S) /\ Len(s \o f) = Len(s) + Len(f)
        /\ \A i \in 1..(Len(s) + Len(f)) :
             (s \o f)[i] = IF i <= Len(s) THEN s[i] ELSE f[i - Len(s)]
    BY ConcatProperties
  <1>3. DOMAIN (s \o f) = 1..(Len(s) + Len(f))
    BY <1>2, LenProperties
  <1>4. /\ \A i \in (Len(s) + 1)..(Len(s) + Len(f)) :
             i \in 1..(Len(s) + Len(f)) /\ ~(i <= Len(s)) /\ i - Len(s) \in 1..Len(f)
        /\ \A i \in 1..Len(s) : i \in 1..(Len(s) + Len(f)) /\ i <= Len(s)
    BY <1>1, Places
  <1> QED BY <1>2, <1>3, <1>4

\* What a chunk inserted by a run adds to a table.
LEMMA InsertedFacts ==
    ASSUME NEW t \in Table, tgt[t] \in Seq(TargetRow), NEW c \in Chunk, NEW r \in RunId,
           c.first >= 1
    PROVE  /\ Inserted(t, c, r) \in Seq(TargetRow)
           /\ DOMAIN Inserted(t, c, r) = 1..(Len(tgt[t]) + Len(c.rows))
           /\ \A i \in 1..Len(tgt[t]) : Inserted(t, c, r)[i] = tgt[t][i]
           /\ \A i \in (Len(tgt[t]) + 1)..(Len(tgt[t]) + Len(c.rows)) :
                /\ Inserted(t, c, r)[i].by = r
                /\ Inserted(t, c, r)[i].rowid = c.first + (i - Len(tgt[t])) - 1
  <1> DEFINE new == [i \in 1..Len(c.rows) |->
                       [val |-> c.rows[i], by |-> r, rowid |-> c.first + i - 1]]
  <1>1. c.rows \in Seq(Val) /\ c.first \in Nat
    BY DEF Chunk
  <1>2. ASSUME NEW i \in 1..Len(c.rows)
        PROVE  [val |-> c.rows[i], by |-> r, rowid |-> c.first + i - 1] \in TargetRow
    <2>1. c.rows[i] \in Val
      BY <1>1
    <2>2. c.first + i - 1 \in Nat
      BY <1>1
    <2> QED BY <2>1, <2>2 DEF TargetRow
  <1>a. Len(c.rows) \in Nat
    BY <1>1, LenProperties
  <1>b. new \in [1..Len(c.rows) -> TargetRow]
    BY <1>2, Zenon
  <1>3. new \in [1..Len(c.rows) -> TargetRow] /\ Len(c.rows) \in Nat
    BY <1>a, <1>b
  <1>4. \A i \in 1..Len(c.rows) : new[i].by = r /\ new[i].rowid = c.first + i - 1
    OBVIOUS
  <1>5. Inserted(t, c, r) = tgt[t] \o new
    BY Zenon DEF Inserted
  <1> HIDE DEF new
  <1>6. new \in Seq(TargetRow) /\ Len(new) = Len(c.rows)
    BY <1>3, SeqOf
  <1>7. PICK s \in Seq(TargetRow) : s = tgt[t]
    OBVIOUS
  <1>8. /\ s \o new \in Seq(TargetRow) /\ DOMAIN (s \o new) = 1..(Len(s) + Len(new))
        /\ \A i \in 1..Len(s) : (s \o new)[i] = s[i]
        /\ \A i \in (Len(s) + 1)..(Len(s) + Len(new)) :
             i - Len(s) \in 1..Len(new) /\ (s \o new)[i] = new[i - Len(s)]
    <2>1. s \in Seq(TargetRow) /\ new \in Seq(TargetRow)
      BY <1>6
    <2> QED BY ONLY <2>1, Joined, Zenon
  <1>9. \A i \in (Len(s) + 1)..(Len(s) + Len(new)) :
          (s \o new)[i].by = r /\ (s \o new)[i].rowid = c.first + (i - Len(s)) - 1
    BY <1>4, <1>6, <1>8
  <1>10. Inserted(t, c, r) = s \o new /\ tgt[t] = s
    BY <1>5, <1>7
  <1> QED BY <1>6, <1>8, <1>9, <1>10

-----------------------------------------------------------------------------
(* A step of one process as the others see it.                             *)

\* A step of one process leaves what another has established at its place.
LEMMA OtherPlace ==
    ASSUME NEW p \in Proc, NEW q \in Proc, q # p, Place(q), proc'[q] = proc[q],
           holder' = holder \/ holder \in {None, p},
           \A r \in RunId : runs[r] \in RunRow => runs'[r] \in RunRow,
           cps' = cps \/ holder = p
    PROVE  Place(q)'
  <1>1. CASE proc[q].pc \in {"off", "lock"}
    BY <1>1 DEF Place
  <1>2. CASE proc[q].pc \notin {"off", "lock"}
    <2>1. holder = q /\ holder' = q /\ cps' = cps /\ proc[q].run \in RunId
      BY <1>2, CatalogFacts DEF Place
    <2>2. After(q)' = After(q)
      BY <2>1 DEF After
    <2> QED BY <1>2, <2>1, <2>2 DEF Place
  <1> QED BY <1>1, <1>2

\* Steps that leave the rows, the checkpoints and the runs alone and only move a
\* process.
LEMMA MoveInv ==
    ASSUME MigInv, NEW p \in Proc, NEW rec \in Process, proc' = [proc EXCEPT ![p] = rec],
           src' \in [Table -> Seq(Val)], UNCHANGED <<tgt, cps>>,
           runs' \in [RunId -> RunRow \cup {None}],
           \A r \in RunId : runs[r] \in RunRow => runs'[r] \in RunRow,
           holder' \in Proc \cup {None}, holder' = holder \/ holder \in {None, p},
           Place(p)'
    PROVE  MigInv'
  <1>1. proc' \in [Proc -> Process] /\ proc'[p] = rec
        /\ \A q \in Proc : q # p => proc'[q] = proc[q]
    BY DEF MigInv, Types
  <1>2. Types'
    BY <1>1 DEF MigInv, Types
  <1>3. \A q \in Proc : Place(q)'
    BY <1>1, OtherPlace DEF MigInv
  <1>4. \A t \in Table : Below(t)' /\ Distinct(t)' /\ Counted(t)'
    BY DEF MigInv, Below, Distinct, Counted, Copied, RowsBy
  <1> QED BY <1>2, <1>3, <1>4 DEF MigInv

\* A process that leaves has nothing established.
LEMMA LeaveInv ==
    ASSUME MigInv, NEW p \in Proc, proc' = Left(p), Release(p),
           UNCHANGED <<src, tgt, cps>>, runs' \in [RunId -> RunRow \cup {None}],
           \A r \in RunId : runs[r] \in RunRow => runs'[r] \in RunRow
    PROVE  MigInv'
  <1>1. Off \in Process /\ Off.pc = "off"
    BY CatalogFacts DEF Off, Process, Pcs
  <1>2. proc' = [proc EXCEPT ![p] = Off]
    BY DEF Left
  <1>3. proc'[p] = Off
    BY <1>2 DEF MigInv, Types
  <1>4. Place(p)'
    BY <1>1, <1>3 DEF Place
  <1>5. src' \in [Table -> Seq(Val)] /\ holder' \in Proc \cup {None}
        /\ (holder' = holder \/ holder \in {None, p})
    BY DEF MigInv, Types, Release
  <1> QED BY <1>1, <1>2, <1>4, <1>5, MoveInv

-----------------------------------------------------------------------------
(* The steps.                                                              *)

\* The initial state: no process in the migration, nothing copied.
LEMMA InitMig == MigInit => MigInv
  <1> SUFFICES ASSUME MigInit PROVE MigInv
    OBVIOUS
  <1>1. Off \in Process /\ Off.pc = "off"
    BY CatalogFacts DEF Off, Process, Pcs
  <1>2. Types
    BY <1>1, CatalogAssumption DEF MigInit, Types
  <1>3. \A p \in Proc : Place(p)
    BY <1>1 DEF MigInit, Place
  <1>4. ASSUME NEW t \in Table PROVE Below(t) /\ Distinct(t) /\ Counted(t)
    <2>1. tgt[t] = << >> /\ DOMAIN tgt[t] = {} /\ \A r \in RunId : cps[r][t] = None
      BY <1>4 DEF MigInit
    <2>2. \A r \in RunId : RowsBy(r, t) = {}
      BY <2>1 DEF RowsBy
    <2> QED BY <2>1, <2>2, FS_EmptySet DEF Below, Distinct, Counted, Copied
  <1> QED BY <1>2, <1>3, <1>4 DEF MigInv

\* begin: a process enters with the plan it was given; nothing is written.
LEMMA BeginInv == ASSUME MigInv, NEW p \in Proc, NEW r \in RunId, Begin(p, r) PROVE MigInv'
  <1> DEFINE rec == [Off EXCEPT !.pc = "lock", !.run = r, !.digest = SqliteDigest]
  <1>1. SqliteDigest \in Digest
    BY SqliteDigestType DEF MigInv
  <1>2. Off \in Process
    BY CatalogFacts DEF Off, Process, Pcs
  <1>3. rec \in Process /\ rec.pc = "lock" /\ rec.run = r /\ rec.digest = SqliteDigest
    BY <1>1, <1>2 DEF Process, Pcs
  <1>4. proc' = [proc EXCEPT ![p] = rec] /\ UNCHANGED <<src, tgt, runs, cps, holder>>
    BY DEF Begin
  <1> HIDE DEF rec
  <1>5. proc'[p] = rec
    BY <1>4 DEF MigInv, Types
  <1>6. Place(p)'
    BY <1>1, <1>3, <1>5 DEF Place
  <1> QED BY <1>3, <1>4, <1>6, MoveInv DEF MigInv, Types

\* A failing process leaves the run as it stands and gives the lock back.
LEMMA FailInv == ASSUME MigInv, NEW p \in Proc, Fail(p) PROVE MigInv'
  BY LeaveInv DEF Fail, MigInv, Types

\* A process whose next place is pc, everything else in it as it was.
LEMMA NextPlace ==
    ASSUME MigInv, NEW p \in Proc, NEW pc \in Pcs, proc[p].pc # "off", pc # "write"
    PROVE  /\ [proc[p] EXCEPT !.pc = pc] \in Process
           /\ [proc EXCEPT ![p].pc = pc] = [proc EXCEPT ![p] = [proc[p] EXCEPT !.pc = pc]]
           /\ [proc EXCEPT ![p].pc = pc][p].pc = pc
           /\ [proc EXCEPT ![p].pc = pc][p].run = proc[p].run
           /\ [proc EXCEPT ![p].pc = pc][p].digest = proc[p].digest
           /\ proc[p].run \in RunId /\ proc[p].digest \in Digest
  <1>1. proc[p] \in Process /\ proc \in [Proc -> Process]
    BY DEF MigInv, Types
  <1>2. [proc[p] EXCEPT !.pc = pc] \in Process
    BY <1>1 DEF Process
  <1>3. [proc EXCEPT ![p].pc = pc][p] = [proc[p] EXCEPT !.pc = pc]
    BY <1>1
  <1>4. proc[p].run \in RunId /\ proc[p].digest \in Digest
    BY DEF MigInv, Place
  <1>5. /\ [proc[p] EXCEPT !.pc = pc].pc = pc
        /\ [proc[p] EXCEPT !.pc = pc].run = proc[p].run
        /\ [proc[p] EXCEPT !.pc = pc].digest = proc[p].digest
    BY <1>1 DEF Process
  <1> QED BY <1>2, <1>3, <1>4, <1>5

\* Taking the advisory lock: no other process holds it.
LEMMA LockInv == ASSUME MigInv, NEW p \in Proc, Lock(p) PROVE MigInv'
  <1>1. CASE Fail(p)
    BY <1>1, FailInv
  <1>2. CASE holder = None /\ holder' = p /\ proc' = [proc EXCEPT ![p].pc = "admit"]
             /\ UNCHANGED <<src, tgt, runs, cps>>
    <2>1. "admit" \in Pcs /\ proc[p].pc = "lock"
      BY DEF Lock, Pcs
    <2>2. Place(p)'
      BY <1>2, <2>1, NextPlace DEF Place
    <2> QED BY <1>2, <2>1, <2>2, NextPlace, MoveInv DEF MigInv, Types
  <1> QED BY <1>1, <1>2 DEF Lock

\* Admitting a run under the lock: a new run has no rows, an old one keeps its own.
LEMMA AdmitInv == ASSUME MigInv, NEW p \in Proc, Admit(p) PROVE MigInv'
  <1>1. CASE Fail(p)
    BY <1>1, FailInv
  <1>2. CASE /\ runs' = IF runs[proc[p].run] # None THEN runs
                        ELSE [runs EXCEPT ![proc[p].run] =
                                [fp |-> proc[p].digest, state |-> "RUNNING"]]
             /\ proc' = [proc EXCEPT ![p].pc = "read"]
             /\ UNCHANGED <<src, tgt, cps, holder>>
    <2>1. "read" \in Pcs /\ proc[p].pc = "admit" /\ holder = p
      BY DEF Admit, Pcs, MigInv, Place
    <2>2. proc[p].run \in RunId /\ proc[p].digest \in Digest
      BY <2>1, NextPlace
    <2>3. [fp |-> proc[p].digest, state |-> "RUNNING"] \in RunRow
      BY <2>2 DEF RunRow
    <2>4. /\ runs' \in [RunId -> RunRow \cup {None}] /\ runs'[proc[p].run] \in RunRow
          /\ \A r \in RunId : runs[r] \in RunRow => runs'[r] \in RunRow
      <3>1. CASE runs[proc[p].run] # None
        BY <1>2, <2>2, <3>1 DEF MigInv, Types
      <3>2. CASE runs[proc[p].run] = None
        BY <1>2, <2>2, <2>3, <3>2 DEF MigInv, Types
      <3> QED BY <3>1, <3>2
    <2>5. Place(p)'
      <3>1. proc'[p].pc = "read" /\ proc'[p].run = proc[p].run /\ proc'[p].digest = proc[p].digest
        BY <1>2, <2>1, NextPlace
      <3> QED BY <1>2, <2>1, <2>2, <2>4, <3>1 DEF Place
    <2> QED BY <1>2, <2>1, <2>4, <2>5, NextPlace, MoveInv DEF MigInv, Types
  <1> QED BY <1>1, <1>2 DEF Admit

\* Checking the catalog reads the database and writes nothing of the run.
LEMMA CheckInv ==
    ASSUME MigInv, NEW p \in Proc, CheckSource(p) \/ CheckTarget(p)
    PROVE  MigInv'
  <1>1. CASE Fail(p)
    BY <1>1, FailInv
  <1>2. ASSUME NEW pc \in {"target", "complete"}, proc' = [proc EXCEPT ![p].pc = pc],
               proc[p].pc \in {"source", "target"}, UNCHANGED <<src, tgt, runs, cps, holder>>
        PROVE  MigInv'
    <2>1. pc \in Pcs /\ pc # "write" /\ proc[p].pc # "off"
      BY <1>2 DEF Pcs
    <2>2. holder = p /\ runs[proc[p].run] \in RunRow
      BY <1>2 DEF MigInv, Place
    <2>3. Place(p)'
      BY <1>2, <2>1, <2>2, NextPlace DEF Place
    <2> QED BY <1>2, <2>1, <2>3, NextPlace, MoveInv DEF MigInv, Types
  <1> QED BY <1>1, <1>2 DEF CheckSource, CheckTarget

\* Completing a run: the rows copied so far are what it leaves.
LEMMA CompleteInv == ASSUME MigInv, NEW p \in Proc, Complete(p) PROVE MigInv'
  <1>1. proc[p].pc = "complete" /\ proc[p].run \in RunId /\ runs[proc[p].run] \in RunRow
    BY DEF Complete, MigInv, Place
  <1>2. [runs[proc[p].run] EXCEPT !.state = "COMPLETED"] \in RunRow
    BY <1>1 DEF RunRow
  <1>3. runs' = [runs EXCEPT ![proc[p].run] = [runs[proc[p].run] EXCEPT !.state = "COMPLETED"]]
    BY DEF Complete
  <1>4. /\ runs' \in [RunId -> RunRow \cup {None}]
        /\ \A r \in RunId : runs[r] \in RunRow => runs'[r] \in RunRow
    BY <1>1, <1>2, <1>3 DEF MigInv, Types
  <1> QED BY <1>4, LeaveInv DEF Complete

\* A crash gives the lock back and forgets what the process has read.
LEMMA CrashInv == ASSUME MigInv, NEW p \in Proc, MigCrash(p) PROVE MigInv'
  BY LeaveInv DEF MigCrash, MigInv, Types

\* Reading a chunk: the rows read lie behind the checkpoint of the run.
LEMMA ReadInv == ASSUME MigInv, NEW p \in Proc, ReadChunk(p) PROVE MigInv'
  <1> DEFINE t  == CATALOG[proc[p].table]
             lo == After(p) + 1
             hi == IF After(p) + chunk_size < Len(src[t]) THEN After(p) + chunk_size ELSE Len(src[t])
             c  == [first |-> lo, rows |-> SubSeq(src[t], lo, hi)]
  <1>1. /\ proc[p].pc = "read" /\ proc[p].run \in RunId /\ proc[p].digest \in Digest
        /\ proc[p] \in Process /\ proc \in [Proc -> Process] /\ proc[p].table \in DOMAIN CATALOG
        /\ holder = p /\ runs[proc[p].run] \in RunRow
    BY DEF ReadChunk, MigInv, Place, Types, Process
  <1>2. t \in Table /\ src[t] \in Seq(Val) /\ Len(src[t]) \in Nat
    BY <1>1, CatalogFacts DEF MigInv, Types
  <1>3. After(p) \in Nat
    <2>1. cps[proc[p].run][t] \in CheckpointRow \cup {None}
      BY <1>1, <1>2 DEF MigInv, Types
    <2> QED BY <2>1 DEF After, CheckpointRow
  <1>4. lo \in Nat /\ hi \in Nat /\ hi <= Len(src[t]) /\ lo >= 1
    BY <1>2, <1>3, CatalogFacts
  <1>5. UNCHANGED <<src, tgt, runs, cps, holder>>
    BY DEF ReadChunk
  <1>6. proc' = IF lo <= hi THEN [proc EXCEPT ![p].pc = "write", ![p].chunk = c]
                ELSE IF proc[p].table < Len(CATALOG) THEN [proc EXCEPT ![p].table = @ + 1]
                ELSE [proc EXCEPT ![p].pc = "source"]
    BY DEF ReadChunk
  <1>7. c \in Chunk /\ c.first = After(p) + 1
    <2>1. \A i \in lo..hi : src[t][i] \in Val
      BY <1>2, <1>4
    <2>2. SubSeq(src[t], lo, hi) \in Seq(Val)
      BY <1>4, <2>1, SubSeqProperties
    <2> QED BY <1>4, <2>2 DEF Chunk
  <1> HIDE DEF c, lo, hi
  <1>8. CASE lo <= hi
    <2> DEFINE rec == [proc[p] EXCEPT !.pc = "write", !.chunk = c]
    <2>1. proc' = [proc EXCEPT ![p] = rec]
      BY <1>1, <1>6, <1>8
    <2>2. /\ rec \in Process /\ rec.pc = "write" /\ rec.run = proc[p].run
          /\ rec.digest = proc[p].digest /\ rec.table = proc[p].table /\ rec.chunk = c
      BY <1>1, <1>7 DEF Process, Pcs
    <2> HIDE DEF rec
    <2>3. proc'[p] = rec
      BY <1>1, <2>1
    <2>4. After(p)' = After(p)
      BY <1>5, <2>2, <2>3 DEF After
    <2>5. Place(p)'
      BY <1>1, <1>5, <1>7, <2>2, <2>3, <2>4 DEF Place
    <2> QED BY <1>5, <2>1, <2>2, <2>5, MoveInv DEF MigInv, Types
  <1>9. CASE ~(lo <= hi) /\ proc[p].table < Len(CATALOG)
    <2> DEFINE rec == [proc[p] EXCEPT !.table = @ + 1]
    <2>1. proc' = [proc EXCEPT ![p] = rec]
      BY <1>1, <1>6, <1>9
    <2>2. proc[p].table + 1 \in DOMAIN CATALOG
      BY <1>1, <1>9, CatalogFacts
    <2>3. /\ rec \in Process /\ rec.pc = "read" /\ rec.run = proc[p].run
          /\ rec.digest = proc[p].digest
      BY <1>1, <2>2 DEF Process
    <2> HIDE DEF rec
    <2>4. proc'[p] = rec
      BY <1>1, <2>1
    <2>5. Place(p)'
      BY <1>1, <1>5, <2>3, <2>4 DEF Place
    <2> QED BY <1>5, <2>1, <2>3, <2>5, MoveInv DEF MigInv, Types
  <1>10. CASE ~(lo <= hi) /\ ~(proc[p].table < Len(CATALOG))
    <2>1. proc' = [proc EXCEPT ![p].pc = "source"] /\ "source" \in Pcs
      BY <1>6, <1>10 DEF Pcs
    <2>2. Place(p)'
      BY <1>1, <1>5, <2>1, NextPlace DEF Place
    <2> QED BY <1>1, <1>5, <2>1, <2>2, NextPlace, MoveInv DEF MigInv, Types
  <1> QED BY <1>8, <1>9, <1>10

\* A chunk goes into the target with its checkpoint: the run's rows grow by the
\* chunk's, whose row ids all lie behind the old checkpoint.
LEMMA WriteInv == ASSUME MigInv, NEW p \in Proc, WriteChunk(p) PROVE MigInv'
  <1>a. /\ proc[p].pc = "write" /\ proc[p] \in Process /\ proc \in [Proc -> Process]
        /\ proc[p].run \in RunId /\ holder = p /\ runs[proc[p].run] \in RunRow
        /\ proc[p].chunk \in Chunk /\ proc[p].chunk.first = After(p) + 1
        /\ proc[p].table \in DOMAIN CATALOG /\ proc[p].digest \in Digest
    BY DEF WriteChunk, MigInv, Place, Types, Process
  <1>b. PICK r \in RunId, u \in Table, c \in Chunk :
          r = proc[p].run /\ u = CATALOG[proc[p].table] /\ c = proc[p].chunk
    BY <1>a, CatalogFacts
  <1>k. PICK k : k = Checkpoint(p)
    OBVIOUS
  <1>c. tgt[u] \in Seq(TargetRow) /\ cps[r][u] \in CheckpointRow \cup {None}
    BY DEF MigInv, Types
  <1>d. PICK n \in Nat, L \in Nat : n = Len(c.rows) /\ L = Len(tgt[u])
    BY <1>c, LenProperties DEF Chunk
  <1>1. /\ proc[p].pc = "write" /\ proc[p] \in Process /\ proc \in [Proc -> Process]
        /\ holder = p /\ runs[r] \in RunRow /\ c.first = After(p) + 1
    BY <1>a, <1>b
  <1>2. u \in Table /\ tgt[u] \in Seq(TargetRow) /\ cps[r][u] \in CheckpointRow \cup {None}
    BY <1>c
  <1>3. After(p) = (IF cps[r][u] = None THEN 0 ELSE cps[r][u].last) /\ After(p) \in Nat
    BY <1>b, <1>2 DEF After, CheckpointRow
  <1>4. c.first >= 1 /\ c.first \in Nat /\ n \in Nat /\ c.rows \in Seq(Val)
    BY <1>1, <1>3, <1>d DEF Chunk
  <1>5. /\ k \in CheckpointRow /\ k.last = After(p) + n /\ k.rows = n + Copied(r, u)
        /\ k # None
    <2>1. Copied(r, u) \in Nat
      BY <1>2 DEF Copied, CheckpointRow
    <2>2. k = [first |-> c.first, last |-> c.first + n - 1, rows |-> n + Copied(r, u),
               hash |-> c.rows]
      <3>1. cps[proc[p].run][CATALOG[proc[p].table]] = cps[r][u] /\ proc[p].chunk = c
        BY <1>b
      <3>2. Len(c.rows) = n
        BY <1>d
      <3>3. k = [first |-> c.first, last |-> c.first + n - 1,
                 rows |-> n + (IF cps[r][u] = None THEN 0 ELSE cps[r][u].rows), hash |-> c.rows]
        BY <1>b, <1>k, <3>1, <3>2 DEF Checkpoint
      <3> QED BY <3>3 DEF Copied
    <2>3. c.first + n - 1 = After(p) + n /\ c.first + n - 1 \in Nat /\ n + Copied(r, u) \in Nat
      <3>1. c.first = After(p) + 1 /\ After(p) \in Nat /\ n \in Nat
        BY <1>1, <1>3, <1>4
      <3> QED BY <2>1, <3>1
    <2>4. k \in CheckpointRow
      BY <1>4, <2>2, <2>3 DEF CheckpointRow
    <2>5. k.last = c.first + n - 1 /\ k.rows = n + Copied(r, u)
      BY <2>2
    <2> QED BY <2>3, <2>4, <2>5, CatalogFacts
  <1>6. /\ tgt' = [tgt EXCEPT ![u] = Inserted(u, c, r)] /\ cps' = [cps EXCEPT ![r][u] = k]
        /\ UNCHANGED <<src, runs>>
        /\ \/ proc' = Left(p) /\ holder' = None
           \/ /\ proc' = [proc EXCEPT ![p].pc = "read", ![p].chunk = None]
              /\ holder' = holder
    BY <1>b, <1>k DEF WriteChunk
  <1>7. /\ L \in Nat /\ Inserted(u, c, r) \in Seq(TargetRow)
        /\ DOMAIN Inserted(u, c, r) = 1..(L + n) /\ DOMAIN tgt[u] = 1..L
        /\ \A i \in 1..L : Inserted(u, c, r)[i] = tgt[u][i]
        /\ \A i \in (L + 1)..(L + n) : /\ Inserted(u, c, r)[i].by = r
                                       /\ Inserted(u, c, r)[i].rowid = After(p) + (i - L)
    <2>1. DOMAIN tgt[u] = 1..L
      BY <1>2, <1>d, LenProperties
    <2>2. /\ L \in Nat /\ Inserted(u, c, r) \in Seq(TargetRow)
          /\ DOMAIN Inserted(u, c, r) = 1..(L + n)
          /\ \A i \in 1..L : Inserted(u, c, r)[i] = tgt[u][i]
          /\ \A i \in (L + 1)..(L + n) : /\ Inserted(u, c, r)[i].by = r
                                         /\ Inserted(u, c, r)[i].rowid = c.first + (i - L) - 1
      <3>1. n = Len(c.rows) /\ L = Len(tgt[u]) /\ tgt[u] \in Seq(TargetRow) /\ c.first >= 1
        BY <1>2, <1>4, <1>d
      <3>2. /\ Inserted(u, c, r) \in Seq(TargetRow)
            /\ DOMAIN Inserted(u, c, r) = 1..(Len(tgt[u]) + Len(c.rows))
            /\ \A i \in 1..Len(tgt[u]) : Inserted(u, c, r)[i] = tgt[u][i]
            /\ \A i \in (Len(tgt[u]) + 1)..(Len(tgt[u]) + Len(c.rows)) :
                 /\ Inserted(u, c, r)[i].by = r
                 /\ Inserted(u, c, r)[i].rowid = c.first + (i - Len(tgt[u])) - 1
        BY <3>1, InsertedFacts
      <3> QED BY <3>1, <3>2, Zenon
    <2>3. ASSUME NEW i \in (L + 1)..(L + n)
          PROVE  c.first + (i - L) - 1 = After(p) + (i - L)
      BY <1>1, <1>3, <2>2
    <2> QED BY <2>1, <2>2, <2>3
  <1>8. cps' \in [RunId -> [Table -> CheckpointRow \cup {None}]]
        /\ cps'[r][u] = k
        /\ \A q \in RunId, t \in Table : q # r \/ t # u => cps'[q][t] = cps[q][t]
    <2>1. cps \in [RunId -> [Table -> CheckpointRow \cup {None}]]
      BY DEF MigInv, Types
    <2>2. cps' = [cps EXCEPT ![r] = [cps[r] EXCEPT ![u] = k]]
      BY <1>6
    <2>3. [cps[r] EXCEPT ![u] = k] \in [Table -> CheckpointRow \cup {None}]
      BY <1>1, <1>5, <2>1
    <2> QED BY <1>1, <1>2, <2>1, <2>2, <2>3
  <1>9. /\ tgt' \in [Table -> Seq(TargetRow)] /\ tgt'[u] = Inserted(u, c, r)
        /\ \A t \in Table : t # u => tgt'[t] = tgt[t]
    <2> QED BY <1>2, <1>6, <1>7 DEF MigInv, Types
  <1>10. Below(u) /\ Distinct(u) /\ Counted(u)
    BY <1>2 DEF MigInv
  <1>11. /\ \A i \in 1..L : /\ i \in DOMAIN tgt[u] /\ tgt'[u][i] = tgt[u][i]
                            /\ tgt[u][i] \in TargetRow /\ tgt[u][i].rowid \in Nat
         /\ \A i \in (L + 1)..(L + n) : tgt'[u][i].by = r /\ tgt'[u][i].rowid = After(p) + (i - L)
         /\ DOMAIN tgt'[u] = 1..(L + n)
    <2>1. \A i \in 1..L : tgt[u][i] \in TargetRow
      BY <1>2, <1>7
    <2>2. \A i \in 1..L : tgt[u][i].rowid \in Nat
      BY <2>1 DEF TargetRow
    <2> QED BY <1>7, <1>9, <2>1, <2>2
  <1>12. \A i \in 1..(L + n) : i \in 1..L \/ i \in (L + 1)..(L + n)
    BY <1>4, <1>7
  <1>13. \A i \in 1..L : tgt[u][i].by = r => tgt[u][i].rowid <= After(p)
    <2> SUFFICES ASSUME NEW i \in 1..L, tgt[u][i].by = r PROVE tgt[u][i].rowid <= After(p)
      OBVIOUS
    <2>1. i \in DOMAIN tgt[u] /\ tgt[u][i].by # None
      BY <1>7, CatalogFacts
    <2>2. cps[r][u] # None /\ tgt[u][i].rowid <= cps[r][u].last
      BY <1>10, <2>1 DEF Below
    <2> QED BY <1>3, <2>2
  <1>14. Below(u)'
    <2> SUFFICES ASSUME NEW i \in 1..(L + n), tgt'[u][i].by # None
                 PROVE  /\ cps'[tgt'[u][i].by][u] # None
                        /\ tgt'[u][i].rowid <= cps'[tgt'[u][i].by][u].last
      BY <1>11 DEF Below
    <2>1. CASE i \in (L + 1)..(L + n)
      <3>1. tgt'[u][i].by = r /\ tgt'[u][i].rowid = After(p) + (i - L) /\ i - L <= n
        BY <1>4, <1>7, <1>11, <2>1
      <3>2. tgt'[u][i].rowid <= After(p) + n
        BY <1>3, <1>4, <1>7, <2>1, <3>1
      <3> QED BY <1>5, <1>8, <3>1, <3>2
    <2>2. CASE i \in 1..L
      <3>1. tgt'[u][i] = tgt[u][i] /\ tgt[u][i].by \in RunId
        BY <1>11, <2>2 DEF TargetRow
      <3>2. cps[tgt[u][i].by][u] # None /\ tgt[u][i].rowid <= cps[tgt[u][i].by][u].last
        BY <1>7, <1>10, <2>2, <3>1 DEF Below
      <3>3. CASE tgt[u][i].by = r
        <4>1. tgt[u][i].rowid <= After(p) + n
          BY <1>3, <1>4, <1>11, <1>13, <2>2, <3>3
        <4> QED BY <1>5, <1>8, <3>1, <3>3, <4>1
      <3>4. CASE tgt[u][i].by # r
        BY <1>2, <1>8, <3>1, <3>2, <3>4
      <3> QED BY <3>3, <3>4
    <2> QED BY <1>12, <2>1, <2>2
  <1>15. Distinct(u)'
    <2> SUFFICES ASSUME NEW i \in 1..(L + n), NEW j \in 1..(L + n), tgt'[u][i].by # None, i # j,
                        tgt'[u][i].by = tgt'[u][j].by, tgt'[u][i].rowid = tgt'[u][j].rowid
                 PROVE  FALSE
      BY <1>11 DEF Distinct
    <2>1. CASE i \in 1..L /\ j \in 1..L
      <3>1. tgt'[u][i] = tgt[u][i] /\ tgt'[u][j] = tgt[u][j]
        BY <1>11, <2>1
      <3>2. i \in DOMAIN tgt[u] /\ j \in DOMAIN tgt[u]
        BY <1>7, <2>1
      <3>3. tgt[u][i].by # None /\ tgt[u][i].by = tgt[u][j].by /\ tgt[u][i].rowid = tgt[u][j].rowid
        BY <3>1
      <3>4. <<tgt[u][i].by, tgt[u][i].rowid>> # <<tgt[u][j].by, tgt[u][j].rowid>>
        BY <1>10, <3>2, <3>3, Zenon DEF Distinct
      <3> QED BY <3>3, <3>4
    <2>2. ASSUME NEW x \in 1..L, NEW y \in (L + 1)..(L + n), tgt'[u][x].by = tgt'[u][y].by,
                 tgt'[u][x].rowid = tgt'[u][y].rowid
          PROVE  FALSE
      <3>1. tgt[u][x].by = r /\ tgt[u][x].rowid = After(p) + (y - L) /\ tgt[u][x].rowid <= After(p)
        BY <1>11, <1>13, <2>2
      <3> QED BY <1>3, <1>4, <1>7, <2>2, <3>1
    <2>3. CASE i \in (L + 1)..(L + n) /\ j \in (L + 1)..(L + n)
      <3>1. After(p) + (i - L) = After(p) + (j - L)
        BY <1>11, <2>3
      <3> QED BY <1>3, <1>7, <2>3, <3>1
    <2> QED BY <1>12, <2>1, <2>2, <2>3
  <1>16. Counted(u)'
    <2> SUFFICES ASSUME NEW q \in RunId PROVE Cardinality(RowsBy(q, u)') = Copied(q, u)'
      BY DEF Counted
    <2>1. Cardinality(RowsBy(q, u)) = Copied(q, u)
      BY <1>10 DEF Counted
    <2>2. RowsBy(q, u)' = {i \in 1..(L + n) : tgt'[u][i].by = q}
      BY <1>11 DEF RowsBy
    <2>3. RowsBy(q, u) = {i \in 1..L : tgt[u][i].by = q}
      BY <1>7 DEF RowsBy
    <2>4. CASE q # r
      <3>1. RowsBy(q, u)' = RowsBy(q, u)
        <4>1. \A i \in 1..L : i \in 1..(L + n)
          BY <1>4, <1>7
        <4> QED BY <1>11, <1>12, <2>2, <2>3, <2>4, <4>1
      <3>2. Copied(q, u)' = Copied(q, u)
        BY <1>2, <1>8, <2>4 DEF Copied
      <3> QED BY <2>1, <3>1, <3>2
    <2>5. CASE q = r
      <3>1. RowsBy(q, u)' = RowsBy(q, u) \cup ((L + 1)..(L + n))
        <4>1. \A i \in 1..L : i \in 1..(L + n)
          BY <1>4, <1>7
        <4>2. \A i \in (L + 1)..(L + n) : i \in 1..(L + n)
          BY <1>4, <1>7
        <4> QED BY <1>11, <1>12, <2>2, <2>3, <2>5, <4>1, <4>2
      <3>2. RowsBy(q, u) \cap ((L + 1)..(L + n)) = {}
        BY <1>7, <2>3
      <3>3. IsFiniteSet(RowsBy(q, u)) /\ Cardinality(RowsBy(q, u)) \in Nat
        BY <1>2, CountType DEF RowsBy
      <3>4. IsFiniteSet((L + 1)..(L + n)) /\ Cardinality((L + 1)..(L + n)) = n
        <4>1. L + 1 \in Int /\ L + n \in Int
          BY <1>4, <1>7
        <4>2. /\ IsFiniteSet((L + 1)..(L + n))
              /\ Cardinality((L + 1)..(L + n)) = IF L + 1 > L + n THEN 0 ELSE (L + n) - (L + 1) + 1
          BY <4>1, FS_Interval
        <4>3. (IF L + 1 > L + n THEN 0 ELSE (L + n) - (L + 1) + 1) = n
          BY <1>4, <1>7
        <4> QED BY <4>2, <4>3
      <3>5. Cardinality(RowsBy(q, u)') = Cardinality(RowsBy(q, u)) + n - Cardinality({})
        BY <3>1, <3>2, <3>3, <3>4, FS_Union
      <3>6. Cardinality(RowsBy(q, u)') = Copied(q, u) + n
        <4>1. Cardinality({}) = 0
          BY FS_EmptySet
        <4>2. n \in Nat
          BY <1>4
        <4> QED BY <2>1, <3>3, <3>5, <4>1, <4>2
      <3>7. Copied(q, u)' = n + Copied(q, u)
        BY <1>5, <1>8, <2>5 DEF Copied
      <3>8. n \in Nat /\ Copied(q, u) \in Nat
        BY <1>4, <2>1, <3>3
      <3> QED BY <3>6, <3>7, <3>8
    <2> QED BY <2>4, <2>5
  <1>17. ASSUME NEW t \in Table PROVE Below(t)' /\ Distinct(t)' /\ Counted(t)'
    <2>1. CASE t = u
      BY <1>14, <1>15, <1>16, <2>1
    <2>2. CASE t # u
      <3>1. tgt'[t] = tgt[t] /\ \A q \in RunId : cps'[q][t] = cps[q][t]
        BY <1>8, <1>9, <2>2
      <3>2. \A i \in DOMAIN tgt[t] : tgt[t][i].by # None => tgt[t][i].by \in RunId
        <4>1. tgt[t] \in Seq(TargetRow)
          BY DEF MigInv, Types
        <4>2. \A i \in DOMAIN tgt[t] : tgt[t][i] \in TargetRow
          BY <4>1
        <4> QED BY <4>2 DEF TargetRow
      <3>3. Below(t) /\ Distinct(t) /\ Counted(t)
        BY DEF MigInv
      <3> QED BY <3>1, <3>2, <3>3 DEF Below, Distinct, Counted, Copied, RowsBy
    <2> QED BY <2>1, <2>2
  <1>18. /\ proc' \in [Proc -> Process] /\ holder' \in Proc \cup {None}
         /\ \A q \in Proc : Place(q)'
    <2>1. Off \in Process /\ Off.pc = "off"
      BY CatalogFacts DEF Off, Process, Pcs
    <2>2. CASE proc' = Left(p) /\ holder' = None
      <3>1. proc' \in [Proc -> Process] /\ proc'[p] = Off
            /\ \A q \in Proc : q # p => proc'[q] = proc[q]
        BY <1>1, <2>1, <2>2 DEF Left
      <3>2. Place(p)'
        BY <2>1, <3>1 DEF Place
      <3>3. ASSUME NEW q \in Proc, q # p PROVE Place(q)'
        <4>1. Place(q) /\ proc'[q] = proc[q] /\ holder \in {None, p} /\ runs' = runs
          BY <1>1, <1>6, <3>1, <3>3 DEF MigInv
        <4> QED BY <1>1, <3>3, <4>1, OtherPlace
      <3> QED BY <2>2, <3>1, <3>2, <3>3
    <2>3. CASE proc' = [proc EXCEPT ![p].pc = "read", ![p].chunk = None] /\ holder' = holder
      <3> DEFINE rec == [proc[p] EXCEPT !.pc = "read", !.chunk = None]
      <3>0. proc' = [proc EXCEPT ![p] = rec]
        BY <1>1, <2>3
      <3>1. /\ rec \in Process /\ rec.pc = "read" /\ rec.run = proc[p].run
            /\ rec.digest = proc[p].digest
        BY <1>1 DEF Process, Pcs
      <3> HIDE DEF rec
      <3>2. proc' \in [Proc -> Process] /\ proc'[p] = rec
            /\ \A q \in Proc : q # p => proc'[q] = proc[q]
        BY <1>1, <3>0, <3>1
      <3>3. Place(p)'
        BY <1>a, <1>b, <1>6, <2>3, <3>1, <3>2 DEF Place
      <3>4. ASSUME NEW q \in Proc, q # p PROVE Place(q)'
        <4>1. Place(q) /\ proc'[q] = proc[q] /\ holder \in {None, p} /\ runs' = runs
          BY <1>1, <1>6, <3>2, <3>4 DEF MigInv
        <4> QED BY <1>1, <3>4, <4>1, OtherPlace
      <3> QED BY <1>1, <2>3, <3>2, <3>3, <3>4
    <2> QED BY <1>6, <2>2, <2>3
  <1> QED BY <1>6, <1>8, <1>9, <1>17, <1>18 DEF MigInv, Types

\* A source that changes underneath has still rows of the right type, and nothing
\* else is said of it.
LEMMA ChangeSourceInv ==
    ASSUME MigInv, NEW t \in Table, NEW v \in Val, NEW i \in 1..(Len(src[t]) + 1),
           ChangeSource(t, i, v)
    PROVE  MigInv'
  <1>1. PICK s \in Seq(Val) : s = src[t]
    BY DEF MigInv, Types
  <1>2. Append(s, v) \in Seq(Val)
    BY AppendProperties
  <1>3. Len(s) \in Nat /\ i \in 1..(Len(s) + 1)
    BY <1>1, LenProperties
  <1>4. ASSUME i # Len(s) + 1 PROVE [s EXCEPT ![i] = v] \in Seq(Val)
    <2>1. i \in 1..Len(s)
      BY <1>3, <1>4
    <2> QED BY <2>1, ExceptSeq
  <1>5. src' \in [Table -> Seq(Val)]
    <2>1. src' = [src EXCEPT ![t] = IF i = Len(s) + 1 THEN Append(s, v) ELSE [s EXCEPT ![i] = v]]
      BY <1>1 DEF ChangeSource
    <2> QED BY <1>2, <1>4, <2>1 DEF MigInv, Types
  <1>6. UNCHANGED <<tgt, runs, cps, holder, proc>>
    BY DEF ChangeSource
  <1>7. \A p \in Proc : Place(p)'
    BY <1>6 DEF MigInv, Place, After
  <1>8. \A u \in Table : Below(u)' /\ Distinct(u)' /\ Counted(u)'
    BY <1>6 DEF MigInv, Below, Distinct, Counted, Copied, RowsBy
  <1> QED BY <1>5, <1>6, <1>7, <1>8 DEF MigInv, Types

\* A row of somebody else belongs to no run.
LEMMA ForeignRowInv ==
    ASSUME MigInv, NEW t \in Table, NEW v \in Val, ForeignRow(t, v)
    PROVE  MigInv'
  <1> DEFINE row == [val |-> v, by |-> None, rowid |-> 0]
  <1>1. PICK s \in Seq(TargetRow) : s = tgt[t]
    BY DEF MigInv, Types
  <1>2. row \in TargetRow /\ row.by = None
    BY DEF TargetRow
  <1> HIDE DEF row
  <1>3. PICK a \in Seq(TargetRow) : a = Append(s, row)
    BY <1>2, AppendProperties
  <1>4. PICK n \in Nat : n = Len(s)
    BY LenProperties
  <1>5. DOMAIN a = 1..(n + 1) /\ DOMAIN s = 1..n
    BY <1>2, <1>3, <1>4, AppendProperties, LenProperties
  <1>6. a[n + 1] = row /\ \A i \in 1..n : a[i] = s[i]
    BY <1>2, <1>3, <1>4, AppendProperties
  <1>7. tgt' = [tgt EXCEPT ![t] = a] /\ UNCHANGED <<src, runs, cps, holder, proc>>
    BY <1>1, <1>3 DEF ForeignRow, row
  <1>8. /\ tgt' \in [Table -> Seq(TargetRow)] /\ tgt'[t] = a
        /\ \A u \in Table : u # t => tgt'[u] = tgt[u]
    BY <1>7 DEF MigInv, Types
  <1>9. \A i \in 1..(n + 1) : i = n + 1 \/ i \in 1..n
    OBVIOUS
  <1>10. \A i \in DOMAIN a : a[i].by # None => i \in DOMAIN s /\ a[i] = s[i]
    BY <1>2, <1>5, <1>6, <1>9
  <1>11. Below(t) /\ Distinct(t) /\ Counted(t)
    BY DEF MigInv
  <1>12. Below(t)'
    BY <1>1, <1>7, <1>8, <1>10, <1>11 DEF Below
  <1>13. Distinct(t)'
    <2> SUFFICES ASSUME NEW i \in DOMAIN a, NEW j \in DOMAIN a, a[i].by # None, i # j,
                        a[i].by = a[j].by, a[i].rowid = a[j].rowid
                 PROVE  FALSE
      BY <1>8 DEF Distinct
    <2>1. i \in DOMAIN s /\ j \in DOMAIN s /\ a[i] = s[i] /\ a[j] = s[j]
      BY <1>10
    <2> QED BY <1>1, <1>11, <2>1 DEF Distinct
  <1>14. Counted(t)'
    <2> SUFFICES ASSUME NEW r \in RunId PROVE Cardinality(RowsBy(r, t)') = Copied(r, t)'
      BY DEF Counted
    <2>1. \A i \in DOMAIN s : i \in DOMAIN a /\ a[i] = s[i]
      <3>1. \A i \in 1..n : i \in 1..(n + 1)
        OBVIOUS
      <3> QED BY <1>5, <1>6, <3>1
    <2>2. r # None
      BY CatalogFacts
    <2>3. RowsBy(r, t)' = {i \in DOMAIN a : a[i].by = r} /\ RowsBy(r, t) = {i \in DOMAIN s : s[i].by = r}
      BY <1>1, <1>8 DEF RowsBy
    <2>4. RowsBy(r, t)' = RowsBy(r, t)
      BY <1>10, <2>1, <2>2, <2>3
    <2>5. Copied(r, t)' = Copied(r, t)
      BY <1>7 DEF Copied
    <2> QED BY <1>11, <2>4, <2>5 DEF Counted
  <1>15. \A u \in Table : Below(u)' /\ Distinct(u)' /\ Counted(u)'
    <2> SUFFICES ASSUME NEW u \in Table, u # t PROVE Below(u)' /\ Distinct(u)' /\ Counted(u)'
      BY <1>12, <1>13, <1>14
    <2>1. tgt'[u] = tgt[u] /\ cps' = cps
      BY <1>7, <1>8
    <2> QED BY <2>1 DEF MigInv, Below, Distinct, Counted, Copied, RowsBy
  <1>16. \A p \in Proc : Place(p)'
    BY <1>7 DEF MigInv, Place, After
  <1> QED BY <1>7, <1>8, <1>15, <1>16 DEF MigInv, Types

\* Every step of the migration keeps the invariant.
LEMMA StepMig == MigInv /\ [MigNext]_migVars => MigInv'
  <1> SUFFICES ASSUME MigInv, [MigNext]_migVars PROVE MigInv'
    OBVIOUS
  <1>1. ASSUME NEW p \in Proc, Step(p) PROVE MigInv'
    <2>1. CASE Lock(p)
      BY <2>1, LockInv
    <2>2. CASE Admit(p)
      BY <2>2, AdmitInv
    <2>3. CASE ReadChunk(p)
      BY <2>3, ReadInv
    <2>4. CASE WriteChunk(p)
      BY <2>4, WriteInv
    <2>5. CASE CheckSource(p) \/ CheckTarget(p)
      BY <2>5, CheckInv
    <2>6. CASE Complete(p)
      BY <2>6, CompleteInv
    <2> QED BY <1>1, <2>1, <2>2, <2>3, <2>4, <2>5, <2>6 DEF Step
  <1>2. ASSUME NEW p \in Proc, MigCrash(p) PROVE MigInv'
    BY <1>2, CrashInv
  <1>3. ASSUME NEW p \in Proc, NEW r \in RunId, Begin(p, r) PROVE MigInv'
    BY <1>3, BeginInv
  <1>4. ASSUME NEW t \in Table, NEW v \in Val, ForeignRow(t, v) PROVE MigInv'
    BY <1>4, ForeignRowInv
  <1>5. ASSUME NEW t \in Table, NEW v \in Val, NEW i \in 1..(Len(src[t]) + 1),
               ChangeSource(t, i, v)
        PROVE  MigInv'
    BY <1>5, ChangeSourceInv
  <1>6. CASE UNCHANGED migVars
    <2>1. UNCHANGED <<src, tgt, runs, cps, holder, proc>>
      BY <1>6 DEF migVars
    <2>2. \A p \in Proc : Place(p)'
      BY <2>1 DEF MigInv, Place, After
    <2>3. \A u \in Table : Below(u)' /\ Distinct(u)' /\ Counted(u)'
      BY <2>1 DEF MigInv, Below, Distinct, Counted, Copied, RowsBy
    <2> QED BY <2>1, <2>2, <2>3 DEF MigInv, Types
  <1>7. CASE MigNext
    BY <1>1, <1>2, <1>3, <1>4, <1>5, <1>7 DEF MigNext
  <1> QED BY <1>6, <1>7

\* The invariant of the copy (engine.py:36-170): the lock, the places of the
\* processes, and rows, row ids and checkpoints that go together, for any catalog,
\* source and chunk size and whatever crashes or changes.
THEOREM MigrationInvariant == MigSpec => []MigInv
  BY InitMig, StepMig, PTL DEF MigSpec

\* Under the lock one process copies at a time, and a run inserts no source row
\* twice, whatever crashes and is started again (engine.py:40, 144-170).
THEOREM CopiesAreSound == MigSpec => []CopyIsSound
  <1>1. MigInv => CopyIsSound
    <2> SUFFICES ASSUME MigInv PROVE CopyIsSound
      OBVIOUS
    <2>1. MigTypeOK
      <3>1. \A p \in Proc : proc[p] \in Process
        BY DEF MigInv, Types
      <3>2. \A p \in Proc : proc[p].table \in DOMAIN CATALOG /\ proc[p].run \in RunId \cup {None}
        BY <3>1 DEF Process
      <3> QED BY <3>2 DEF MigTypeOK, MigInv, Types, RunRow
    <2>2. OneCopier
      BY DEF OneCopier, MigInv, Place
    <2>3. CopiedOncePerRun
      BY DEF CopiedOncePerRun, MigInv, Distinct
    <2> QED BY <2>1, <2>2, <2>3 DEF CopyIsSound
  <1> QED BY <1>1, MigrationInvariant, PTL

-----------------------------------------------------------------------------
(* A completed run is complete.                                            *)

\* The sequence s has the values that the digest d of a table counts.
Fits(s, d) == \A v \in Val : Count(s, v) = d[v]

\* The run of p has copied at least as many rows of t as its digest counts.
Reached(p, t) ==
    \A s \in Seq(Val) : Fits(s, proc[p].digest[t]) => Len(s) <= Copied(proc[p].run, t)

\* The rows of run r are what the digest d counts, or more.
HasAll(r, d) ==
    \A t \in Table, v \in Val :
        Cardinality({i \in RowsBy(r, t) : tgt[t][i].val = v}) >= d[t][v]

\* The source of p is no shorter than when p counted it, and p's run is registered
\* with that digest.
SourceKept(p) ==
    \A t \in Table : \A s \in Seq(Val) :
        Fits(s, proc[p].digest[t]) => Len(s) <= Len(src[t])
Registered(p) == runs[proc[p].run] # None /\ runs[proc[p].run].fp = proc[p].digest

\* What a process knows of its copy at each place: the tables before its own are
\* copied, and what it is about to call completed is complete.
Enough(p) ==
    /\ proc[p].pc # "off" => SourceKept(p)
    /\ proc[p].pc \in {"lock", "admit"} => proc[p].table = 1
    /\ proc[p].pc \notin {"off", "lock", "admit"} => Registered(p)
    /\ proc[p].pc \in {"read", "write"} =>
          \A i \in DOMAIN CATALOG : i < proc[p].table => Reached(p, CATALOG[i])
    /\ proc[p].pc \in {"source", "target"} => \A t \in Table : Reached(p, t)
    /\ proc[p].pc = "complete" => HasAll(proc[p].run, proc[p].digest)

\* A checkpoint counts the rows of the source up to its last one.
LastIsRows ==
    \A r \in RunId, t \in Table : cps[r][t] # None => cps[r][t].last = cps[r][t].rows

CompInv == MigInv /\ LastIsRows /\ (\A p \in Proc : Enough(p)) /\ CompletedIsComplete

\* Two sequences in which every value has as many places: one has as many places
\* in all, since the places of each value can be mapped one to one.
LEMMA SameCounts ==
    ASSUME NEW s \in Seq(Val), NEW u \in Seq(Val), \A v \in Val : Count(s, v) = Count(u, v)
    PROVE  Len(s) <= Len(u)
  <1> DEFINE At(w, v) == {i \in DOMAIN w : w[i] = v}
             F(v) == CHOOSE f : f \in Bijection(At(s, v), At(u, v))
             g == [i \in DOMAIN s |-> F(s[i])[i]]
  <1>1. /\ Len(s) \in Nat /\ DOMAIN s = 1..Len(s) /\ Len(u) \in Nat /\ DOMAIN u = 1..Len(u)
        /\ \A i \in DOMAIN s : s[i] \in Val
    BY LenProperties
  <1>2. ASSUME NEW v \in Val PROVE F(v) \in Bijection(At(s, v), At(u, v))
    <2>1. At(s, v) \in SUBSET DOMAIN s /\ At(u, v) \in SUBSET DOMAIN u
      OBVIOUS
    <2>2. IsFiniteSet(At(s, v)) /\ IsFiniteSet(At(u, v))
      BY <2>1, CountType
    <2>3. Cardinality(At(s, v)) = Cardinality(At(u, v))
      BY DEF Count
    <2> HIDE DEF At
    <2>4. ExistsBijection(At(s, v), At(u, v))
      BY <2>2, <2>3, FS_SameCardinalityBij
    <2> QED BY <2>4 DEF ExistsBijection
  <1>3. ASSUME NEW v \in Val, NEW i \in At(s, v)
        PROVE  /\ F(v)[i] \in At(u, v)
               /\ \A j \in At(s, v) : F(v)[i] = F(v)[j] => i = j
    <2> HIDE DEF At, F
    <2> QED BY <1>2, <1>3 DEF Bijection, Injection, IsInjective
  <1>4. ASSUME NEW i \in DOMAIN s PROVE i \in At(s, s[i]) /\ s[i] \in Val /\ g[i] = F(s[i])[i]
    <2> HIDE DEF F
    <2> QED BY <1>1
  <1>5. ASSUME NEW i \in DOMAIN s PROVE g[i] \in DOMAIN u /\ u[g[i]] = s[i]
    <2>1. g[i] \in At(u, s[i])
      <3> HIDE DEF At, F, g
      <3> QED BY <1>3, <1>4
    <2> HIDE DEF F, g
    <2> QED BY <2>1
  <1>6. ASSUME NEW i \in DOMAIN s, NEW j \in DOMAIN s, g[i] = g[j] PROVE i = j
    <2>1. s[i] = s[j]
      <3> HIDE DEF At, F, g
      <3> QED BY <1>5, <1>6
    <2>2. F(s[i])[i] = F(s[i])[j] /\ i \in At(s, s[i]) /\ j \in At(s, s[i]) /\ s[i] \in Val
      <3> HIDE DEF At, F, g
      <3> QED BY <1>4, <1>6, <2>1
    <2> HIDE DEF At, F, g
    <2> QED BY <1>3, <2>2
  <1>7. g \in [DOMAIN s -> DOMAIN u]
    <2>1. g = [i \in DOMAIN s |-> g[i]]
      <3> HIDE DEF F
      <3> QED OBVIOUS
    <2> HIDE DEF g
    <2> QED BY <1>5, <2>1
  <1> HIDE DEF g
  <1>8. g \in Injection(DOMAIN s, DOMAIN u)
    BY <1>6, <1>7 DEF Injection, IsInjective
  <1>9. IsFiniteSet(DOMAIN u) /\ Cardinality(DOMAIN u) = Len(u) /\ Cardinality(DOMAIN s) = Len(s)
    <2>1. /\ Len(s) \in Int /\ Len(u) \in Int /\ 1 \in Int
          /\ Len(s) = IF 1 > Len(s) THEN 0 ELSE Len(s) - 1 + 1
          /\ Len(u) = IF 1 > Len(u) THEN 0 ELSE Len(u) - 1 + 1
      BY <1>1
    <2>2. /\ IsFiniteSet(1..Len(u)) /\ Cardinality(1..Len(u)) = Len(u)
          /\ Cardinality(1..Len(s)) = Len(s)
      BY <2>1, FS_Interval
    <2> QED BY <1>1, <2>2, Zenon
  <1>10. Cardinality(DOMAIN s) <= Cardinality(DOMAIN u)
    BY <1>8, <1>9, FS_Injection
  <1> QED BY <1>9, <1>10

\* What a step leaves or extends: the source, the registered runs, the checkpoints
\* and the target's rows.
Longer(f, g) == Len(f) <= Len(g) /\ \A i \in DOMAIN f : i \in DOMAIN g /\ g[i] = f[i]
Advance ==
    /\ \A t \in Table : Len(src[t]) <= Len(src'[t])
    /\ \A r \in RunId : runs[r] # None => runs'[r] # None /\ runs'[r].fp = runs[r].fp
    /\ \A r \in RunId, t \in Table : Copied(r, t) <= Copied(r, t)'
    /\ \A t \in Table : Longer(tgt[t], tgt'[t])

\* A run that has all rows keeps them.
LEMMA HasAllStays ==
    ASSUME MigInv, MigInv', Advance, NEW r \in RunId, NEW d \in Digest, HasAll(r, d)
    PROVE  HasAll(r, d)'
  <1> SUFFICES ASSUME NEW t \in Table, NEW v \in Val
               PROVE  Cardinality({i \in RowsBy(r, t)' : tgt'[t][i].val = v}) >= d[t][v]
    BY DEF HasAll
  <1> DEFINE A == {i \in RowsBy(r, t) : tgt[t][i].val = v}
             B == {i \in RowsBy(r, t)' : tgt'[t][i].val = v}
  <1>1. A \subseteq B
    BY DEF Advance, Longer, RowsBy
  <1>2. tgt'[t] \in Seq(TargetRow) /\ B \in SUBSET DOMAIN tgt'[t]
    BY DEF MigInv, Types, RowsBy
  <1>3. tgt[t] \in Seq(TargetRow) /\ A \in SUBSET DOMAIN tgt[t]
    BY DEF MigInv, Types, RowsBy
  <1>4. Cardinality(A) >= d[t][v] /\ d[t][v] \in Nat
    BY DEF HasAll, Digest
  <1> HIDE DEF A, B
  <1>5. IsFiniteSet(B) /\ Cardinality(B) \in Nat /\ Cardinality(A) \in Nat
    BY <1>2, <1>3, CountType
  <1>6. Cardinality(A) <= Cardinality(B)
    BY <1>1, <1>5, FS_Subset
  <1>7. Cardinality(B) >= d[t][v]
    BY <1>4, <1>5, <1>6
  <1> QED BY <1>7 DEF B

\* What a process knows of its copy survives every step that leaves its run and
\* its digest.
LEMMA KnownStays ==
    ASSUME MigInv, MigInv', Advance, NEW q \in Proc, Enough(q), proc[q].pc # "off",
           proc'[q].run = proc[q].run, proc'[q].digest = proc[q].digest
    PROVE  /\ SourceKept(q)'
           /\ proc[q].pc \notin {"lock", "admit"} => Registered(q)'
           /\ \A t \in Table : Reached(q, t) => Reached(q, t)'
           /\ HasAll(proc[q].run, proc[q].digest) => HasAll(proc[q].run, proc[q].digest)'
  <1>1. proc[q].run \in RunId /\ proc[q].digest \in Digest
    BY DEF MigInv, Place
  <1>2. /\ \A t \in Table : Len(src[t]) \in Nat /\ Len(src'[t]) \in Nat
        /\ \A r \in RunId, t \in Table : Copied(r, t) \in Nat /\ Copied(r, t)' \in Nat
    <2>1. \A t \in Table : Len(src[t]) \in Nat /\ Len(src'[t]) \in Nat
      BY LenProperties DEF MigInv, Types
    <2>2. \A r \in RunId, t \in Table : cps[r][t] \in CheckpointRow \cup {None}
                                        /\ cps'[r][t] \in CheckpointRow \cup {None}
      BY DEF MigInv, Types
    <2> QED BY <2>1, <2>2 DEF Copied, CheckpointRow
  <1>3. \A s \in Seq(Val) : Len(s) \in Nat
    BY LenProperties
  <1>4. ASSUME NEW t \in Table, Reached(q, t) PROVE Reached(q, t)'
    <2> SUFFICES ASSUME NEW s \in Seq(Val), Fits(s, proc[q].digest[t])
                 PROVE  Len(s) <= Copied(proc[q].run, t)'
      BY DEF Reached, Copied, Fits
    <2>1. Len(s) <= Copied(proc[q].run, t)
      BY <1>4 DEF Reached
    <2>2. Copied(proc[q].run, t) <= Copied(proc[q].run, t)'
      BY <1>1 DEF Advance
    <2> QED BY <1>1, <1>2, <1>3, <2>1, <2>2
  <1>5. SourceKept(q)'
    <2> SUFFICES ASSUME NEW t \in Table, NEW s \in Seq(Val), Fits(s, proc[q].digest[t])
                 PROVE  Len(s) <= Len(src'[t])
      BY DEF SourceKept, Fits
    <2>1. Len(s) <= Len(src[t]) /\ Len(src[t]) <= Len(src'[t])
      BY DEF Enough, SourceKept, Advance
    <2> QED BY <1>2, <1>3, <2>1
  <1>6. proc[q].pc \notin {"lock", "admit"} => Registered(q)'
    BY <1>1 DEF MigInv, Place, Enough, Registered, Advance
  <1>7. HasAll(proc[q].run, proc[q].digest) => HasAll(proc[q].run, proc[q].digest)'
    <2> SUFFICES ASSUME HasAll(proc[q].run, proc[q].digest)
                 PROVE  HasAll(proc[q].run, proc[q].digest)'
      OBVIOUS
    <2>1. PICK r \in RunId, d \in Digest : r = proc[q].run /\ d = proc[q].digest
      BY <1>1
    <2>2. HasAll(r, d)
      BY <2>1
    <2>3. HasAll(r, d)'
      BY <2>2, HasAllStays
    <2>4. r = proc'[q].run /\ d = proc'[q].digest
      BY <2>1
    <2> QED BY <2>3, <2>4 DEF HasAll, RowsBy
  <1> QED BY <1>4, <1>5, <1>6, <1>7

\* It survives the steps of the others.
LEMMA EnoughStays ==
    ASSUME MigInv, MigInv', Advance, NEW q \in Proc, Enough(q), proc'[q] = proc[q]
    PROVE  Enough(q)'
  <1>1. CASE proc[q].pc = "off"
    BY <1>1 DEF Enough
  <1>2. CASE proc[q].pc # "off"
    <2>1. /\ SourceKept(q)'
          /\ proc[q].pc \notin {"lock", "admit"} => Registered(q)'
          /\ \A t \in Table : Reached(q, t) => Reached(q, t)'
          /\ HasAll(proc[q].run, proc[q].digest) => HasAll(proc[q].run, proc[q].digest)'
      BY <1>2, KnownStays
    <2>2. \A i \in DOMAIN CATALOG : CATALOG[i] \in Table
      BY CatalogFacts
    <2>3. proc[q].pc \in {"read", "write"} =>
            \A i \in DOMAIN CATALOG : i < proc[q].table => Reached(q, CATALOG[i])'
      BY <2>1, <2>2 DEF Enough
    <2> QED BY <1>2, <2>1, <2>3 DEF Enough
  <1> QED BY <1>1, <1>2

\* What one transaction of a chunk writes.
LEMMA Written ==
    ASSUME MigInv, NEW p \in Proc, WriteChunk(p)
    PROVE  \E r \in RunId, u \in Table, c \in Chunk, k \in CheckpointRow :
             /\ r = proc[p].run /\ u = CATALOG[proc[p].table] /\ c.first >= 1
             /\ Len(c.rows) \in Nat
             /\ k.last = Len(c.rows) + (IF cps[r][u] = None THEN 0 ELSE cps[r][u].last)
             /\ k.rows = Len(c.rows) + Copied(r, u)
             /\ tgt' = [tgt EXCEPT ![u] = Inserted(u, c, r)] /\ cps'[r][u] = k
             /\ \A q \in RunId, t \in Table : q # r \/ t # u => cps'[q][t] = cps[q][t]
  <1>1. /\ proc[p].pc = "write" /\ proc[p] \in Process /\ proc[p].run \in RunId
        /\ proc[p].chunk \in Chunk /\ proc[p].chunk.first = After(p) + 1
        /\ proc[p].table \in DOMAIN CATALOG
    BY DEF WriteChunk, MigInv, Place, Types, Process
  <1>2. PICK r \in RunId, u \in Table, c \in Chunk :
          r = proc[p].run /\ u = CATALOG[proc[p].table] /\ c = proc[p].chunk
    BY <1>1, CatalogFacts
  <1>3. /\ cps \in [RunId -> [Table -> CheckpointRow \cup {None}]]
        /\ cps[r][u] \in CheckpointRow \cup {None}
    BY DEF MigInv, Types
  <1>4. PICK n \in Nat, a \in Nat : n = Len(c.rows) /\ a = After(p)
    <2>1. c.rows \in Seq(Val)
      BY DEF Chunk
    <2>2. After(p) \in Nat
      BY <1>2, <1>3 DEF After, CheckpointRow
    <2> QED BY <2>1, <2>2, LenProperties
  <1>5. a = (IF cps[r][u] = None THEN 0 ELSE cps[r][u].last) /\ c.first = a + 1
    BY <1>1, <1>2, <1>4 DEF After
  <1>6. Copied(r, u) \in Nat /\ c.first \in Nat /\ c.first >= 1 /\ c.first + n - 1 = n + a
        /\ c.first + n - 1 \in Nat /\ n + Copied(r, u) \in Nat
    <2>1. Copied(r, u) \in Nat
      BY <1>3 DEF Copied, CheckpointRow
    <2>2. c.first = a + 1 /\ a \in Nat /\ n \in Nat
      BY <1>4, <1>5
    <2>3. n + Copied(r, u) \in Nat
      BY <2>1, <2>2
    <2>4. c.first \in Nat /\ c.first >= 1 /\ c.first + n - 1 = n + a /\ c.first + n - 1 \in Nat
      BY <2>2
    <2> QED BY <2>1, <2>3, <2>4
  <1>7. PICK k : k = Checkpoint(p)
    OBVIOUS
  <1>8. k = [first |-> c.first, last |-> c.first + n - 1, rows |-> n + Copied(r, u),
             hash |-> c.rows]
    <2>1. cps[proc[p].run][CATALOG[proc[p].table]] = cps[r][u] /\ proc[p].chunk = c
      BY <1>2
    <2>2. k = [first |-> c.first, last |-> c.first + n - 1,
               rows |-> n + (IF cps[r][u] = None THEN 0 ELSE cps[r][u].rows), hash |-> c.rows]
      BY <1>2, <1>4, <1>7, <2>1 DEF Checkpoint
    <2> QED BY <2>2 DEF Copied
  <1>9. k \in CheckpointRow /\ k.last = n + a /\ k.rows = n + Copied(r, u)
    BY <1>6, <1>8 DEF CheckpointRow, Chunk
  <1>10. tgt' = [tgt EXCEPT ![u] = Inserted(u, c, r)] /\ cps' = [cps EXCEPT ![r][u] = k]
    BY <1>2, <1>7 DEF WriteChunk
  <1>11. /\ cps'[r][u] = k
         /\ \A q \in RunId, t \in Table : q # r \/ t # u => cps'[q][t] = cps[q][t]
    BY <1>3, <1>10
  <1>12. /\ r = proc[p].run /\ u = CATALOG[proc[p].table] /\ c.first >= 1
         /\ Len(c.rows) \in Nat /\ k.rows = Len(c.rows) + Copied(r, u)
         /\ k.last = Len(c.rows) + (IF cps[r][u] = None THEN 0 ELSE cps[r][u].last)
         /\ tgt' = [tgt EXCEPT ![u] = Inserted(u, c, r)]
    BY <1>2, <1>4, <1>5, <1>6, <1>9, <1>10
  <1>13. k \in CheckpointRow
    BY <1>9
  <1> QED BY <1>11, <1>12, <1>13, Zenon

\* The absence of a run is no run.
LEMMA NoneIsNoRun == None \notin RunRow
  BY CatalogAssumption DEF RunRow, Digest

\* A table and what it is after a step, when nothing or one row is put behind it.
LEMMA LongerSame == ASSUME NEW S, NEW s \in Seq(S) PROVE Longer(s, s)
  BY LenProperties DEF Longer

\* Every step leaves or extends the source, the runs, the checkpoints and the rows.
LEMMA Advances == ASSUME MigInv, MigInv', [MigNext]_migVars PROVE Advance
  <1>1. \A t \in Table : Len(src[t]) <= Len(src'[t])
    <2>1. CASE src' = src
      <3>1. \A t \in Table : Len(src[t]) \in Nat
        BY LenProperties DEF MigInv, Types
      <3> QED BY <2>1, <3>1
    <2>2. ASSUME NEW u \in Table, NEW v \in Val, NEW i \in 1..(Len(src[u]) + 1),
                 ChangeSource(u, i, v)
          PROVE  \A t \in Table : Len(src[t]) <= Len(src'[t])
      <3>1. PICK s \in Seq(Val) : s = src[u]
        BY DEF MigInv, Types
      <3>2. Len(s) \in Nat /\ i \in 1..(Len(s) + 1)
        BY <3>1, LenProperties
      <3>3. Len(Append(s, v)) = Len(s) + 1
        BY AppendProperties
      <3>4. ASSUME i # Len(s) + 1 PROVE Len([s EXCEPT ![i] = v]) = Len(s)
        <4>1. i \in 1..Len(s)
          BY <3>2, <3>4
        <4> QED BY <4>1, ExceptSeq
      <3>5. src' = [src EXCEPT ![u] = IF i = Len(s) + 1 THEN Append(s, v) ELSE [s EXCEPT ![i] = v]]
        BY <2>2, <3>1 DEF ChangeSource
      <3>6. /\ src'[u] = IF i = Len(s) + 1 THEN Append(s, v) ELSE [s EXCEPT ![i] = v]
            /\ \A t \in Table : t # u => src'[t] = src[t]
        BY <3>5 DEF MigInv, Types
      <3>7. Len(src[u]) <= Len(src'[u])
        <4>1. CASE i = Len(s) + 1
          <5>1. src'[u] = Append(s, v)
            BY <3>6, <4>1
          <5> QED BY <3>1, <3>2, <3>3, <5>1
        <4>2. CASE i # Len(s) + 1
          <5>1. src'[u] = [s EXCEPT ![i] = v]
            BY <3>6, <4>2
          <5> QED BY <3>1, <3>2, <3>4, <4>2, <5>1
        <4> QED BY <4>1, <4>2
      <3>8. \A t \in Table : Len(src[t]) \in Nat
        BY LenProperties DEF MigInv, Types
      <3>9. ASSUME NEW t \in Table, t # u PROVE Len(src[t]) <= Len(src'[t])
        <4>1. src'[t] = src[t] /\ Len(src[t]) \in Nat
          BY <3>6, <3>8, <3>9
        <4> QED BY <4>1
      <3> QED BY <3>7, <3>9
    <2>3. \/ src' = src
          \/ \E u \in Table, v \in Val : \E i \in 1..(Len(src[u]) + 1) : ChangeSource(u, i, v)
      BY DEF MigNext, migVars, Step, Lock, Admit, ReadChunk, WriteChunk, CheckSource,
             CheckTarget, Complete, MigCrash, Begin, ForeignRow, Fail
    <2> QED BY <2>1, <2>2, <2>3
  <1>2. ASSUME NEW r \in RunId, runs[r] # None
        PROVE  runs'[r] # None /\ runs'[r].fp = runs[r].fp
    <2>0. runs \in [RunId -> RunRow \cup {None}] /\ runs[r] \in RunRow
      BY <1>2 DEF MigInv, Types
    <2>1. CASE runs' = runs
      BY <1>2, <2>1
    <2>2. ASSUME NEW p \in Proc, Admit(p), runs' # runs
          PROVE  runs'[r] # None /\ runs'[r].fp = runs[r].fp
      <3>1. /\ runs[proc[p].run] = None
            /\ runs' = [runs EXCEPT ![proc[p].run] = [fp |-> proc[p].digest, state |-> "RUNNING"]]
        BY <2>2 DEF Admit, Fail
      <3>2. r # proc[p].run
        BY <1>2, <3>1
      <3> QED BY <1>2, <2>0, <3>1, <3>2
    <2>3. ASSUME NEW p \in Proc, Complete(p)
          PROVE  runs'[r] # None /\ runs'[r].fp = runs[r].fp
      <3>1. runs' = [runs EXCEPT ![proc[p].run] = [runs[proc[p].run] EXCEPT !.state = "COMPLETED"]]
        BY <2>3 DEF Complete
      <3>2. CASE r = proc[p].run
        <4>1. runs'[r] = [runs[r] EXCEPT !.state = "COMPLETED"]
          BY <2>0, <3>1, <3>2
        <4>2. runs'[r] \in RunRow /\ runs'[r].fp = runs[r].fp
          BY <2>0, <4>1 DEF RunRow
        <4> QED BY <4>2, NoneIsNoRun
      <3>3. CASE r # proc[p].run
        BY <1>2, <2>0, <3>1, <3>3
      <3> QED BY <3>2, <3>3
    <2>4. runs' = runs \/ \E p \in Proc : Admit(p) \/ Complete(p)
      BY DEF MigNext, migVars, Step, Lock, ReadChunk, WriteChunk, CheckSource,
             CheckTarget, MigCrash, Begin, ForeignRow, Fail, ChangeSource
    <2> QED BY <2>1, <2>2, <2>3, <2>4
  <1>3. \A q \in RunId, t \in Table : Copied(q, t) <= Copied(q, t)'
    <2>0. \A q \in RunId, t \in Table : Copied(q, t) \in Nat
      <3>1. \A q \in RunId, t \in Table : cps[q][t] \in CheckpointRow \cup {None}
        BY DEF MigInv, Types
      <3> QED BY <3>1 DEF Copied, CheckpointRow
    <2>1. CASE cps' = cps
      BY <2>0, <2>1 DEF Copied
    <2>2. ASSUME NEW p \in Proc, WriteChunk(p)
          PROVE  \A q \in RunId, t \in Table : Copied(q, t) <= Copied(q, t)'
      <3>1. PICK r \in RunId, u \in Table, c \in Chunk, k \in CheckpointRow :
              /\ Len(c.rows) \in Nat /\ k.rows = Len(c.rows) + Copied(r, u)
              /\ cps'[r][u] = k
              /\ \A q \in RunId, t \in Table : q # r \/ t # u => cps'[q][t] = cps[q][t]
        BY <2>2, Written
      <3>2. Copied(r, u)' = k.rows
        BY <3>1, CatalogFacts DEF Copied
      <3>3. Copied(r, u) <= Copied(r, u)'
        BY <2>0, <3>1, <3>2
      <3>4. \A q \in RunId, t \in Table : q # r \/ t # u => Copied(q, t)' = Copied(q, t)
        BY <3>1 DEF Copied
      <3> QED BY <2>0, <3>3, <3>4
    <2>3. cps' = cps \/ \E p \in Proc : WriteChunk(p)
      BY DEF MigNext, migVars, Step, Lock, Admit, ReadChunk, CheckSource, Complete,
             CheckTarget, MigCrash, Begin, ForeignRow, Fail, ChangeSource
    <2> QED BY <2>1, <2>2, <2>3
  <1>4. \A t \in Table : Longer(tgt[t], tgt'[t])
    <2>0. \A t \in Table : tgt[t] \in Seq(TargetRow) /\ Longer(tgt[t], tgt[t])
      BY LongerSame DEF MigInv, Types
    <2>1. CASE tgt' = tgt
      BY <2>0, <2>1
    <2>2. ASSUME NEW p \in Proc, WriteChunk(p)
          PROVE  \A t \in Table : Longer(tgt[t], tgt'[t])
      <3>1. PICK r \in RunId, u \in Table, c \in Chunk :
              /\ c.first >= 1 /\ Len(c.rows) \in Nat
              /\ tgt' = [tgt EXCEPT ![u] = Inserted(u, c, r)]
        BY <2>2, Written
      <3>2. /\ Inserted(u, c, r) \in Seq(TargetRow)
            /\ DOMAIN Inserted(u, c, r) = 1..(Len(tgt[u]) + Len(c.rows))
            /\ \A i \in 1..Len(tgt[u]) : Inserted(u, c, r)[i] = tgt[u][i]
        BY <2>0, <3>1, InsertedFacts
      <3>3. PICK a \in Seq(TargetRow), m \in Nat, n \in Nat :
              a = Inserted(u, c, r) /\ m = Len(tgt[u]) /\ n = Len(c.rows)
        BY <2>0, <3>1, <3>2, LenProperties
      <3>4. DOMAIN a = 1..(m + n) /\ DOMAIN tgt[u] = 1..m /\ Len(a) \in Nat /\ DOMAIN a = 1..Len(a)
        BY <2>0, <3>2, <3>3, LenProperties
      <3>5. m <= Len(a)
        <4>1. m >= 1 => m \in 1..(m + n)
          OBVIOUS
        <4>2. m >= 1 => m \in 1..Len(a)
          BY <3>4, <4>1, Zenon
        <4> QED BY <3>4, <4>2
      <3>6. m <= Len(a) /\ \A i \in 1..m : i \in 1..(m + n)
        BY <3>5
      <3>7. Longer(tgt[u], a)
        BY <3>2, <3>3, <3>4, <3>6 DEF Longer
      <3>8. tgt'[u] = a /\ \A t \in Table : t # u => tgt'[t] = tgt[t]
        BY <3>1, <3>3 DEF MigInv, Types
      <3> QED BY <2>0, <3>7, <3>8
    <2>3. ASSUME NEW u \in Table, NEW v \in Val, ForeignRow(u, v)
          PROVE  \A t \in Table : Longer(tgt[t], tgt'[t])
      <3>1. PICK row \in TargetRow : row = [val |-> v, by |-> None, rowid |-> 0]
        BY DEF TargetRow
      <3>2. PICK s \in Seq(TargetRow), n \in Nat : s = tgt[u] /\ n = Len(s)
        BY <2>0, LenProperties
      <3>3. PICK a \in Seq(TargetRow) : a = Append(s, row)
        BY AppendProperties
      <3>4. /\ Len(a) = n + 1 /\ DOMAIN s = 1..n /\ DOMAIN a = 1..(n + 1)
            /\ \A i \in 1..n : a[i] = s[i]
        BY <3>2, <3>3, AppendProperties, LenProperties
      <3>5. n <= n + 1 /\ \A i \in 1..n : i \in 1..(n + 1)
        OBVIOUS
      <3>6. Longer(s, a)
        BY <3>2, <3>4, <3>5 DEF Longer
      <3>7. tgt' = [tgt EXCEPT ![u] = a]
        BY <2>3, <3>1, <3>2, <3>3 DEF ForeignRow
      <3>8. tgt'[u] = a /\ \A t \in Table : t # u => tgt'[t] = tgt[t]
        BY <3>7 DEF MigInv, Types
      <3> QED BY <2>0, <3>2, <3>6, <3>8
    <2>4. \/ tgt' = tgt \/ \E p \in Proc : WriteChunk(p)
          \/ \E u \in Table, v \in Val : ForeignRow(u, v)
      BY DEF MigNext, migVars, Step, Lock, Admit, ReadChunk, CheckSource, Complete,
             CheckTarget, MigCrash, Begin, Fail, ChangeSource
    <2> QED BY <2>1, <2>2, <2>3, <2>4
  <1> QED BY <1>1, <1>2, <1>3, <1>4 DEF Advance

\* Checkpoints go on counting rows of the source from its first.
LEMMA LastStays ==
    ASSUME MigInv, LastIsRows, [MigNext]_migVars
    PROVE  LastIsRows'
  <1>1. CASE cps' = cps
    BY <1>1 DEF LastIsRows
  <1>2. ASSUME NEW p \in Proc, WriteChunk(p) PROVE LastIsRows'
    <2>1. PICK r \in RunId, u \in Table, c \in Chunk, k \in CheckpointRow :
            /\ k.last = Len(c.rows) + (IF cps[r][u] = None THEN 0 ELSE cps[r][u].last)
            /\ k.rows = Len(c.rows) + Copied(r, u) /\ cps'[r][u] = k
            /\ \A q \in RunId, t \in Table : q # r \/ t # u => cps'[q][t] = cps[q][t]
      BY <1>2, Written
    <2>2. Copied(r, u) = (IF cps[r][u] = None THEN 0 ELSE cps[r][u].last)
      BY DEF Copied, LastIsRows
    <2>3. k.last = k.rows
      BY <2>1, <2>2
    <2> QED BY <2>1, <2>3 DEF LastIsRows
  <1>3. cps' = cps \/ \E p \in Proc : WriteChunk(p)
    BY DEF MigNext, migVars, Step, Lock, Admit, ReadChunk, CheckSource, Complete,
           CheckTarget, MigCrash, Begin, ForeignRow, Fail, ChangeSource
  <1> QED BY <1>1, <1>2, <1>3

\* A process that left knows nothing.
LEMMA LeftKnows ==
    ASSUME MigInv, NEW p \in Proc, proc' = Left(p)
    PROVE  Enough(p)'
  <1>1. proc'[p] = Off /\ Off.pc = "off"
    BY DEF MigInv, Types, Left, Off
  <1> QED BY <1>1 DEF Enough

\* begin: the digest was taken of the source as it is.
LEMMA BeginKnows ==
    ASSUME MigInv, NEW p \in Proc, NEW r \in RunId, Begin(p, r)
    PROVE  Enough(p)'
  <1>1. /\ proc'[p] = [Off EXCEPT !.pc = "lock", !.run = r, !.digest = SqliteDigest]
        /\ src' = src
    BY DEF Begin, MigInv, Types
  <1>2. proc'[p].pc = "lock" /\ proc'[p].table = 1 /\ proc'[p].digest = SqliteDigest
    BY <1>1 DEF Off
  <1>3. SourceKept(p)'
    <2> SUFFICES ASSUME NEW t \in Table, NEW s \in Seq(Val), Fits(s, SqliteDigest[t])
                 PROVE  Len(s) <= Len(src[t])
      BY <1>1, <1>2 DEF SourceKept, Fits
    <2>1. src[t] \in Seq(Val)
      BY DEF MigInv, Types
    <2>2. \A v \in Val : SqliteDigest[t][v] = Count(src[t], v)
      BY DEF SqliteDigest
    <2>3. \A v \in Val : Count(s, v) = Count(src[t], v)
      BY <2>2 DEF Fits
    <2> QED BY <2>1, <2>3, SameCounts
  <1> QED BY <1>2, <1>3 DEF Enough

\* Admitting a run: it is registered with the digest of this process.
LEMMA AdmitKnows ==
    ASSUME MigInv, MigInv', Advance, NEW p \in Proc, Enough(p), Admit(p)
    PROVE  Enough(p)'
  <1>1. CASE Fail(p)
    BY <1>1, LeftKnows DEF Fail
  <1>2. CASE /\ EmptyOrMatching(p)
             /\ runs' = IF runs[proc[p].run] # None THEN runs
                        ELSE [runs EXCEPT ![proc[p].run] =
                                [fp |-> proc[p].digest, state |-> "RUNNING"]]
             /\ proc' = [proc EXCEPT ![p].pc = "read"]
    <2>1. /\ proc[p].pc = "admit" /\ proc[p].table = 1 /\ SourceKept(p)
          /\ proc[p].run \in RunId /\ proc[p].digest \in Digest
      BY DEF Admit, Enough, MigInv, Place
    <2>2. /\ proc'[p].pc = "read" /\ proc'[p].run = proc[p].run
          /\ proc'[p].digest = proc[p].digest /\ proc'[p].table = 1
      BY <1>2, <2>1 DEF MigInv, Types, Process
    <2>3. SourceKept(p)'
      BY <2>1, <2>2, KnownStays
    <2>4. Registered(p)'
      <3>1. CASE runs[proc[p].run] # None
        BY <1>2, <2>2, <3>1 DEF EmptyOrMatching, Registered
      <3>2. CASE runs[proc[p].run] = None
        <4>1. runs'[proc[p].run] = [fp |-> proc[p].digest, state |-> "RUNNING"]
          BY <1>2, <2>1, <3>2 DEF MigInv, Types
        <4>2. runs'[proc[p].run] \in RunRow
          BY <2>1, <4>1 DEF RunRow
        <4> QED BY <2>2, <4>1, <4>2, NoneIsNoRun DEF Registered
      <3> QED BY <3>1, <3>2
    <2>5. \A i \in DOMAIN CATALOG : ~(i < 1)
      BY CatalogFacts
    <2> QED BY <2>2, <2>3, <2>4, <2>5 DEF Enough
  <1> QED BY <1>1, <1>2 DEF Admit

\* Reading: no row left behind the checkpoint means that the table is copied.
LEMMA ReadKnows ==
    ASSUME MigInv, MigInv', Advance, LastIsRows, NEW p \in Proc, Enough(p), ReadChunk(p)
    PROVE  Enough(p)'
  <1>1. /\ proc[p].pc = "read" /\ proc[p] \in Process /\ proc \in [Proc -> Process]
        /\ proc[p].run \in RunId /\ proc[p].table \in DOMAIN CATALOG
        /\ \A i \in DOMAIN CATALOG : i < proc[p].table => Reached(p, CATALOG[i])
    BY DEF ReadChunk, MigInv, Place, Types, Process, Enough
  <1>2. PICK u \in Table, n \in DOMAIN CATALOG : n = proc[p].table /\ u = CATALOG[n]
    BY <1>1, CatalogFacts
  <1>3. n \in Nat /\ Len(CATALOG) \in Nat /\ n <= Len(CATALOG)
    BY <1>2, CatalogFacts
  <1>4. PICK a \in Nat, m \in Nat : a = After(p) /\ m = Len(src[u])
    <2>1. cps[proc[p].run][u] \in CheckpointRow \cup {None} /\ src[u] \in Seq(Val)
      BY <1>1 DEF MigInv, Types
    <2>2. After(p) \in Nat
      BY <1>2, <2>1 DEF After, CheckpointRow
    <2> QED BY <2>1, <2>2, LenProperties
  <1>5. a = Copied(proc[p].run, u)
    BY <1>1, <1>2, <1>4 DEF After, Copied, LastIsRows
  <1>6. /\ proc'[p].run = proc[p].run /\ proc'[p].digest = proc[p].digest
        /\ \/ proc'[p].pc = "write" /\ proc'[p].table = n
           \/ a >= m /\ n < Len(CATALOG) /\ proc'[p].pc = "read" /\ proc'[p].table = n + 1
           \/ a >= m /\ ~(n < Len(CATALOG)) /\ proc'[p].pc = "source"
    <2> DEFINE lo == a + 1
               hi == IF a + chunk_size < m THEN a + chunk_size ELSE m
    <2>1. proc' = IF lo <= hi
                  THEN [proc EXCEPT ![p].pc = "write",
                                    ![p].chunk = [first |-> lo, rows |-> SubSeq(src[u], lo, hi)]]
                  ELSE IF n < Len(CATALOG)
                  THEN [proc EXCEPT ![p].table = @ + 1]
                  ELSE [proc EXCEPT ![p].pc = "source"]
      BY <1>2, <1>4 DEF ReadChunk
    <2>2. ~(lo <= hi) => a >= m
      BY <1>4, CatalogFacts
    <2> HIDE DEF lo, hi
    <2>3. CASE lo <= hi
      <3>1. proc'[p] = [proc[p] EXCEPT !.pc = "write",
                                       !.chunk = [first |-> lo, rows |-> SubSeq(src[u], lo, hi)]]
        BY <1>1, <2>1, <2>3
      <3> QED BY <1>1, <1>2, <3>1 DEF Process
    <2>4. CASE ~(lo <= hi) /\ n < Len(CATALOG)
      <3>1. proc'[p] = [proc[p] EXCEPT !.table = @ + 1]
        BY <1>1, <2>1, <2>4
      <3> QED BY <1>1, <1>2, <2>2, <2>4, <3>1 DEF Process
    <2>5. CASE ~(lo <= hi) /\ ~(n < Len(CATALOG))
      <3>1. proc'[p] = [proc[p] EXCEPT !.pc = "source"]
        BY <1>1, <2>1, <2>5
      <3> QED BY <1>1, <1>2, <2>2, <2>5, <3>1 DEF Process
    <2> QED BY <2>3, <2>4, <2>5
  <1>7. /\ SourceKept(p)' /\ Registered(p)'
        /\ \A t \in Table : Reached(p, t) => Reached(p, t)'
    BY <1>1, <1>6, KnownStays
  <1>8. \A i \in DOMAIN CATALOG : i < n => Reached(p, CATALOG[i])'
    BY <1>1, <1>2, <1>7, CatalogFacts
  <1>9. ASSUME a >= m PROVE Reached(p, u)
    <2> SUFFICES ASSUME NEW s \in Seq(Val), Fits(s, proc[p].digest[u])
                 PROVE  Len(s) <= Copied(proc[p].run, u)
      BY DEF Reached
    <2>1. Len(s) <= m /\ Len(s) \in Nat
      BY <1>1, <1>4, LenProperties DEF Enough, SourceKept
    <2> QED BY <1>4, <1>5, <1>9, <2>1
  <1>10. CASE proc'[p].pc = "write" /\ proc'[p].table = n
    BY <1>7, <1>8, <1>10 DEF Enough
  <1>11. CASE a >= m /\ proc'[p].pc = "read" /\ proc'[p].table = n + 1
    <2>1. Reached(p, u)'
      BY <1>7, <1>9, <1>11
    <2>2. \A i \in DOMAIN CATALOG : i < n + 1 => i < n \/ i = n
      BY <1>3, CatalogFacts
    <2>3. \A i \in DOMAIN CATALOG : i < n + 1 => Reached(p, CATALOG[i])'
      BY <1>2, <1>8, <2>1, <2>2
    <2> QED BY <1>7, <1>11, <2>3 DEF Enough
  <1>12. CASE a >= m /\ ~(n < Len(CATALOG)) /\ proc'[p].pc = "source"
    <2>1. Reached(p, u)'
      BY <1>7, <1>9, <1>12
    <2>2. \A i \in DOMAIN CATALOG : i < n \/ i = n
      BY <1>3, <1>12, CatalogFacts
    <2>3. \A i \in DOMAIN CATALOG : Reached(p, CATALOG[i])'
      BY <1>2, <1>8, <2>1, <2>2
    <2>4. \A t \in Table : Reached(p, t)'
      BY <2>3 DEF Table
    <2> QED BY <1>7, <1>12, <2>4 DEF Enough
  <1> QED BY <1>6, <1>10, <1>11, <1>12

\* What is said of completed runs: each has all rows of its fingerprint.
LEMMA CompletedMeans ==
    CompletedIsComplete <=>
        \A r \in RunId : runs[r] # None /\ runs[r].state = "COMPLETED" => HasAll(r, runs[r].fp)
  <1>1. \A r \in RunId : RunState(r) = "COMPLETED" <=> runs[r] # None /\ runs[r].state = "COMPLETED"
    BY GapAssumption DEF RunState
  <1> QED BY <1>1 DEF CompletedIsComplete, HasAll

\* Steps that take p to its next place with the run and the digest it has.
LEMMA MoveKnows ==
    ASSUME MigInv, MigInv', Advance, NEW p \in Proc, Enough(p), proc[p].pc # "off",
           NEW pc, proc' = [proc EXCEPT ![p].pc = pc],
           \/ proc[p].pc = "lock" /\ pc = "admit"
           \/ proc[p].pc = "source" /\ pc = "target"
           \/ proc[p].pc = "target" /\ pc = "complete" /\ HasAll(proc[p].run, proc[p].digest)
    PROVE  Enough(p)'
  <1>1. /\ proc'[p].pc = pc /\ proc'[p].run = proc[p].run
        /\ proc'[p].digest = proc[p].digest /\ proc'[p].table = proc[p].table
    BY DEF MigInv, Types, Process
  <1>2. /\ SourceKept(p)' /\ (proc[p].pc \notin {"lock", "admit"} => Registered(p)')
        /\ \A t \in Table : Reached(p, t) => Reached(p, t)'
        /\ HasAll(proc[p].run, proc[p].digest) => HasAll(proc[p].run, proc[p].digest)'
    BY <1>1, KnownStays
  <1>3. CASE proc[p].pc = "lock" /\ pc = "admit"
    BY <1>1, <1>2, <1>3 DEF Enough
  <1>4. CASE proc[p].pc = "source" /\ pc = "target"
    BY <1>1, <1>2, <1>4 DEF Enough
  <1>5. CASE proc[p].pc = "target" /\ pc = "complete" /\ HasAll(proc[p].run, proc[p].digest)
    BY <1>1, <1>2, <1>5 DEF Enough
  <1> QED BY <1>3, <1>4, <1>5

\* Writing a chunk takes nothing away from what is copied.
LEMMA WriteKnows ==
    ASSUME MigInv, MigInv', Advance, NEW p \in Proc, Enough(p), WriteChunk(p)
    PROVE  Enough(p)'
  <1>1. CASE proc' = Left(p)
    BY <1>1, LeftKnows
  <1>2. CASE proc' = [proc EXCEPT ![p].pc = "read", ![p].chunk = None]
    <2>1. proc[p].pc = "write" /\ \A i \in DOMAIN CATALOG : CATALOG[i] \in Table
      BY CatalogFacts DEF WriteChunk
    <2>2. /\ proc'[p].pc = "read" /\ proc'[p].run = proc[p].run
          /\ proc'[p].digest = proc[p].digest /\ proc'[p].table = proc[p].table
      BY <1>2 DEF MigInv, Types, Process
    <2>3. /\ SourceKept(p)' /\ Registered(p)'
          /\ \A t \in Table : Reached(p, t) => Reached(p, t)'
      BY <2>1, <2>2, KnownStays
    <2>4. \A i \in DOMAIN CATALOG : i < proc[p].table => Reached(p, CATALOG[i])'
      BY <2>1, <2>3 DEF Enough
    <2> QED BY <2>2, <2>3, <2>4 DEF Enough
  <1> QED BY <1>1, <1>2 DEF WriteChunk

\* The target has what the digest counts, and the run has copied as many rows: all
\* rows are its own (engine.py:47-53).
LEMMA TargetIsOwn ==
    ASSUME MigInv, NEW p \in Proc, Enough(p), proc[p].pc = "target",
           PostgresDigest = proc[p].digest
    PROVE  HasAll(proc[p].run, proc[p].digest)
  <1>1. PICK r \in RunId : r = proc[p].run
    BY DEF MigInv, Place
  <1> SUFFICES ASSUME NEW t \in Table, NEW v \in Val
               PROVE  Cardinality({i \in RowsBy(r, t) : tgt[t][i].val = v}) >= proc[p].digest[t][v]
    BY <1>1 DEF HasAll
  <1>2. PICK w \in Seq(TargetRow) : w = tgt[t]
    BY DEF MigInv, Types
  <1>3. PICK n \in Nat : n = Len(w) /\ DOMAIN w = 1..n
    BY LenProperties
  <1>4. PgRows(t) = [i \in 1..n |-> w[i].val]
    BY <1>2, <1>3 DEF PgRows
  <1>5. PICK s : s = [i \in 1..n |-> w[i].val]
    OBVIOUS
  <1>6. s \in Seq(Val) /\ Len(s) = n /\ DOMAIN s = 1..n
    <2>1. \A i \in 1..n : w[i] \in TargetRow
      BY <1>3
    <2>2. s \in [1..n -> Val]
      BY <1>5, <2>1 DEF TargetRow
    <2> QED BY <2>2, SeqOf
  <1>7. \A x \in Val : proc[p].digest[t][x] = Count(s, x)
    <2>1. PgRows(t) = s
      BY <1>4, <1>5
    <2>2. \A x \in Val : PostgresDigest[t][x] = Count(PgRows(t), x)
      BY DEF PostgresDigest
    <2>3. \A x \in Val : PostgresDigest[t][x] = Count(s, x)
      BY <2>1, <2>2, Zenon
    <2> QED BY <2>3
  <1>8. n <= Copied(r, t)
    BY <1>1, <1>6, <1>7 DEF Enough, Reached, Fits
  <1>9. RowsBy(r, t) = 1..n
    <2> DEFINE B == RowsBy(r, t)
    <2>1. B \in SUBSET (1..n)
      BY <1>2, <1>3 DEF RowsBy
    <2>2. Cardinality(B) = Copied(r, t)
      BY DEF MigInv, Counted
    <2>3. n = IF 1 > n THEN 0 ELSE n - 1 + 1
      OBVIOUS
    <2>4. IsFiniteSet(1..n) /\ Cardinality(1..n) = n
      BY <2>3, FS_Interval
    <2> HIDE DEF B
    <2>5. Cardinality(B) \in Nat /\ Cardinality(B) <= n
      BY <2>1, <2>4, FS_Subset, FS_CardinalityType
    <2>6. Cardinality(B) = n
      BY <1>8, <2>2, <2>5
    <2>7. B = 1..n
      BY <2>1, <2>4, <2>6, FS_Subset
    <2> QED BY <2>7 DEF B
  <1>10. {i \in RowsBy(r, t) : tgt[t][i].val = v} = {i \in DOMAIN s : s[i] = v}
    <2>1. \A i \in 1..n : s[i] = w[i].val
      BY <1>5
    <2> QED BY <1>2, <1>6, <1>9, <2>1
  <1>11. Cardinality({i \in RowsBy(r, t) : tgt[t][i].val = v}) = Count(s, v)
    BY <1>10 DEF Count
  <1>12. Count(s, v) \in Nat
    BY <1>6, CountType DEF Count
  <1> QED BY <1>7, <1>11, <1>12

\* Every step leaves each process with what it knows of its copy.
LEMMA KnowsStays ==
    ASSUME MigInv, MigInv', Advance, LastIsRows, [MigNext]_migVars,
           NEW q \in Proc, Enough(q)
    PROVE  Enough(q)'
  <1>1. CASE proc'[q] = proc[q]
    BY <1>1, EnoughStays
  <1>2. CASE Fail(q) \/ MigCrash(q) \/ Complete(q)
    BY <1>2, LeftKnows DEF Fail, MigCrash, Complete
  <1>3. CASE Lock(q) /\ ~Fail(q)
    BY <1>3, MoveKnows DEF Lock
  <1>4. CASE Admit(q)
    BY <1>4, AdmitKnows
  <1>5. CASE ReadChunk(q)
    BY <1>5, ReadKnows
  <1>6. CASE WriteChunk(q)
    BY <1>6, WriteKnows
  <1>7. CASE CheckSource(q) /\ ~Fail(q)
    BY <1>7, MoveKnows DEF CheckSource
  <1>8. CASE CheckTarget(q) /\ ~Fail(q)
    BY <1>8, MoveKnows, TargetIsOwn DEF CheckTarget
  <1>9. ASSUME NEW r \in RunId, Begin(q, r) PROVE Enough(q)'
    BY <1>9, BeginKnows
  <1>10. \/ proc'[q] = proc[q] \/ Step(q) \/ MigCrash(q) \/ \E r \in RunId : Begin(q, r)
    <2>1. proc \in [Proc -> Process]
      BY DEF MigInv, Types
    <2>2. ASSUME NEW p \in Proc, p # q, Step(p) \/ MigCrash(p) \/ \E r \in RunId : Begin(p, r)
          PROVE  proc'[q] = proc[q]
      BY <2>1, <2>2 DEF Step, Lock, Admit, ReadChunk, WriteChunk, CheckSource, CheckTarget,
                        Complete, MigCrash, Begin, Fail, Left
    <2>3. ASSUME NEW t \in Table, NEW v \in Val,
                 \/ ForeignRow(t, v)
                 \/ \E i \in 1 .. Len(src[t]) + 1 : ChangeSource(t, i, v)
          PROVE  proc'[q] = proc[q]
      BY <2>3 DEF ForeignRow, ChangeSource
    <2>4. CASE UNCHANGED migVars
      BY <2>4 DEF migVars
    <2> QED BY <2>2, <2>3, <2>4 DEF MigNext
  <1> QED BY <1>1, <1>2, <1>3, <1>4, <1>5, <1>6, <1>7, <1>8, <1>9, <1>10 DEF Step

\* A completed run stays complete, and a run is completed with all its rows.
LEMMA CompletedStays ==
    ASSUME MigInv, MigInv', Advance, CompletedIsComplete, \A p \in Proc : Enough(p),
           [MigNext]_migVars
    PROVE  CompletedIsComplete'
  <1> SUFFICES ASSUME NEW r \in RunId, runs'[r] # None, runs'[r].state = "COMPLETED"
               PROVE  HasAll(r, runs[r].fp)'
    <2>1. None # "COMPLETED"
      BY GapAssumption
    <2> QED BY <2>1 DEF CompletedIsComplete, RunState, HasAll
  <1>0. runs \in [RunId -> RunRow \cup {None}]
    BY DEF MigInv, Types
  <1>1. CASE runs[r] # None /\ runs[r].state = "COMPLETED"
    <2>1. PICK d \in Digest : d = runs[r].fp
      BY <1>0, <1>1 DEF RunRow
    <2>2. HasAll(r, d)
      BY <1>1, <2>1, CompletedMeans
    <2>3. d = runs'[r].fp
      BY <1>1, <2>1 DEF Advance
    <2>4. HasAll(r, d)'
      BY <2>2, HasAllStays
    <2> QED BY <2>3, <2>4 DEF HasAll, RowsBy
  <1>2. ASSUME NEW p \in Proc, Complete(p), r = proc[p].run PROVE HasAll(r, runs[r].fp)'
    <2>1. proc[p].pc = "complete" /\ proc[p].digest \in Digest
      BY <1>2 DEF Complete, MigInv, Place
    <2>2. PICK d \in Digest : d = proc[p].digest
      BY <2>1
    <2>3. HasAll(r, d) /\ runs[r] # None /\ runs[r].fp = d
      BY <1>2, <2>1, <2>2 DEF Enough, Registered
    <2>4. HasAll(r, d)'
      BY <2>3, HasAllStays
    <2>5. runs'[r].fp = d
      BY <2>3 DEF Advance
    <2> QED BY <2>4, <2>5 DEF HasAll, RowsBy
  <1>3. \/ runs[r] # None /\ runs[r].state = "COMPLETED"
        \/ \E p \in Proc : Complete(p) /\ r = proc[p].run
    <2>1. CASE runs' = runs
      BY <2>1
    <2>2. ASSUME NEW p \in Proc, Admit(p), runs' # runs
          PROVE  runs[r] # None /\ runs[r].state = "COMPLETED"
      <3>1. runs' = [runs EXCEPT ![proc[p].run] = [fp |-> proc[p].digest, state |-> "RUNNING"]]
        BY <2>2 DEF Admit, Fail
      <3> QED BY <1>0, <3>1
    <2>3. ASSUME NEW p \in Proc, Complete(p), r # proc[p].run
          PROVE  runs[r] # None /\ runs[r].state = "COMPLETED"
      <3>1. runs' = [runs EXCEPT ![proc[p].run] = [runs[proc[p].run] EXCEPT !.state = "COMPLETED"]]
        BY <2>3 DEF Complete
      <3> QED BY <1>0, <2>3, <3>1
    <2>4. runs' = runs \/ \E p \in Proc : Admit(p) \/ Complete(p)
      BY DEF MigNext, migVars, Step, Lock, ReadChunk, WriteChunk, CheckSource,
             CheckTarget, MigCrash, Begin, ForeignRow, Fail, ChangeSource
    <2> QED BY <2>1, <2>2, <2>3, <2>4
  <1> QED BY <1>1, <1>2, <1>3

\* What completion rests on: the source is no shorter than when it was counted, the
\* tables behind a process are copied to that length, and a target that counts as
\* many rows of each value then consists of the run's own.  Inductive.
THEOREM CompletionInvariant == MigSpec => []CompInv
  <1>1. MigInit => CompInv
    <2> SUFFICES ASSUME MigInit PROVE CompInv
      OBVIOUS
    <2>1. MigInv
      BY InitMig
    <2>2. Off.pc = "off" /\ \A p \in Proc : proc[p] = Off
      BY DEF MigInit, Off
    <2>3. \A p \in Proc : Enough(p)
      BY <2>2 DEF Enough
    <2>4. LastIsRows
      BY DEF MigInit, LastIsRows
    <2>5. \A r \in RunId : runs[r] = None
      BY DEF MigInit
    <2>6. CompletedIsComplete
      BY <2>5, CompletedMeans
    <2> QED BY <2>1, <2>3, <2>4, <2>6 DEF CompInv
  <1>2. CompInv /\ [MigNext]_migVars => CompInv'
    <2> SUFFICES ASSUME CompInv, [MigNext]_migVars PROVE CompInv'
      OBVIOUS
    <2>1. MigInv /\ MigInv' /\ Advance
      BY StepMig, Advances DEF CompInv
    <2>2. LastIsRows'
      BY <2>1, LastStays DEF CompInv
    <2>3. \A q \in Proc : Enough(q)'
      BY <2>1, KnowsStays DEF CompInv
    <2>4. CompletedIsComplete'
      BY <2>1, CompletedStays DEF CompInv
    <2> QED BY <2>1, <2>2, <2>3, <2>4 DEF CompInv
  <1> QED BY <1>1, <1>2, PTL DEF MigSpec

\* A run called completed has every row of the source it is registered with in the
\* target, also when source and target were changed under it (engine.py:47-53).
THEOREM CompletedStayComplete == MigSpec => []CompletedIsComplete
  <1>1. CompInv => CompletedIsComplete
    BY DEF CompInv
  <1> QED BY <1>1, CompletionInvariant, PTL

-----------------------------------------------------------------------------
(* The inductive invariant of the gap commands.                            *)

IsOn(f, S) == f = [x \in S |-> f[x]]

GapOK(x) ==
    /\ x.state \in {"OPEN", "ENDED_UNRECOVERED", "RECOVERED"}
    /\ x.end \in Ends \cup {None} /\ x.receipt \in ReceiptId \cup {None}
    /\ x.state = "OPEN" <=> x.end = None

\* A receipt has a completed run and a coverage of its fingerprint that begins no
\* later than its gap and does not end before the receipt's interval.
Evidence(id) ==
    LET k == rcpts[id]
    IN  /\ k.run \in RunId /\ RunState(k.run) = "COMPLETED"
        /\ k.cov \in CoverageId /\ cover[k.cov] # None
        /\ cover[k.cov].fp = runs[k.run].fp
        /\ cover[k.cov].hi \in Nat /\ k.hi \in Nat /\ cover[k.cov].hi >= k.hi
        /\ cover[k.cov].lo <= StartedAt[k.gap]

\* The record x of gap g names a receipt for the gap that spans its interval.
Proven(g, x) ==
    /\ x.receipt \in ReceiptId /\ rcpts[x.receipt] # None
    /\ rcpts[x.receipt].gap = g /\ rcpts[x.receipt].hi >= x.end
    /\ g \in Resolved /\ x.end \in Ends

\* What a command holds of the record it has read, and of the one it will save.
Command(c) ==
    /\ IsOn(cli[c], {"pc", "gap", "rec", "new"})
    /\ cli[c].pc # "off" => cli[c].gap \in Gap /\ GapOK(cli[c].rec)
    /\ cli[c].pc = "save" => /\ GapOK(cli[c].new) /\ cli[c].new.state = "RECOVERED"
                             /\ Proven(cli[c].gap, cli[c].new)

GapInv ==
    /\ IsOn(gaps, Gap) /\ IsOn(cover, CoverageId) /\ IsOn(rcpts, ReceiptId) /\ IsOn(cli, Cli)
    /\ \A g \in Gap : gaps[g] # None => GapOK(gaps[g])
    /\ \A g \in Gap : gaps[g] # None /\ gaps[g].state = "RECOVERED" => Proven(g, gaps[g])
    /\ \A v \in CoverageId : cover[v] # None => cover[v].hi \in Nat
    /\ \A id \in ReceiptId : rcpts[id] # None => Evidence(id)
    /\ \A c \in Cli : Command(c)

\* A completed run, a coverage and a receipt are never written again.
EvidenceKept ==
    /\ \A r \in RunId : RunState(r) = "COMPLETED" => runs'[r] = runs[r]
    /\ \A v \in CoverageId : cover[v] # None => cover'[v] = cover[v]
    /\ \A id \in ReceiptId : rcpts[id] # None => rcpts'[id] = rcpts[id]

\* A function stays one when it is changed in one place.
LEMMA OnExcept ==
    ASSUME NEW S, NEW f, IsOn(f, S), NEW a, NEW b
    PROVE  IsOn([f EXCEPT ![a] = b], S)
  BY DEF IsOn

-----------------------------------------------------------------------------
(* The steps of the gap commands.                                          *)

\* Evidence stays evidence.
LEMMA EvidenceStays ==
    ASSUME GapInv, EvidenceKept
    PROVE  /\ \A id \in ReceiptId : rcpts[id] # None => Evidence(id)'
           /\ \A g, x : Proven(g, x) => Proven(g, x)'
  <1>1. ASSUME NEW id \in ReceiptId, rcpts[id] # None PROVE Evidence(id)'
    <2>1. Evidence(id) /\ rcpts'[id] = rcpts[id]
      BY <1>1 DEF GapInv, EvidenceKept
    <2>2. /\ cover'[rcpts[id].cov] = cover[rcpts[id].cov]
          /\ runs'[rcpts[id].run] = runs[rcpts[id].run]
      BY <2>1 DEF Evidence, EvidenceKept
    <2> QED BY <2>1, <2>2 DEF Evidence, RunState
  <1>2. ASSUME NEW g, NEW x, Proven(g, x) PROVE Proven(g, x)'
    BY <1>2 DEF Proven, EvidenceKept
  <1> QED BY <1>1, <1>2

\* Commands that did not move keep what they hold.
LEMMA CommandStays ==
    ASSUME GapInv, EvidenceKept, NEW c \in Cli, cli'[c] = cli[c]
    PROVE  Command(c)'
  <1>1. Command(c)
    BY DEF GapInv
  <1>2. Proven(cli[c].gap, cli[c].new) => Proven(cli[c].gap, cli[c].new)'
    <2>1. PICK g, x : g = cli[c].gap /\ x = cli[c].new
      OBVIOUS
    <2>2. Proven(g, x) => Proven(g, x)'
      BY EvidenceStays
    <2> QED BY <2>1, <2>2 DEF Proven
  <1> QED BY <1>1, <1>2 DEF Command, Proven

\* Steps of others: the table of gaps, the commands, the coverages and the
\* receipts stay.
LEMMA GapStays ==
    ASSUME GapInv, UNCHANGED gapVars,
           \A r \in RunId : RunState(r) = "COMPLETED" => runs'[r] = runs[r]
    PROVE  GapInv'
  <1>1. UNCHANGED <<gaps, cover, rcpts, cli>>
    BY DEF gapVars
  <1>2. EvidenceKept
    BY <1>1 DEF EvidenceKept
  <1>3. \A g \in Gap : gaps[g] # None /\ gaps[g].state = "RECOVERED" => Proven(g, gaps[g])'
    BY <1>1 DEF GapInv, Proven
  <1>4. \A c \in Cli : Command(c)'
    BY <1>1, <1>2, CommandStays
  <1>5. \A id \in ReceiptId : rcpts'[id] # None => Evidence(id)'
    BY <1>1, <1>2, EvidenceStays
  <1> QED BY <1>1, <1>3, <1>4, <1>5 DEF GapInv, IsOn, Proven

\* A command that ends holds nothing; what the others hold stays.
LEMMA EndsInv ==
    ASSUME GapInv, EvidenceKept, NEW c \in Cli, CliEnds(c)
    PROVE  IsOn(cli, Cli)' /\ \A d \in Cli : Command(d)'
  <1>1. IsOn(cli, Cli) /\ cli' = [cli EXCEPT ![c] = CliOff]
    BY DEF GapInv, CliEnds
  <1>2. cli'[c] = CliOff /\ \A d \in Cli : d # c => cli'[d] = cli[d]
    BY <1>1 DEF IsOn
  <1>3. Command(c)'
    BY <1>2 DEF Command, CliOff, IsOn
  <1>4. IsOn(cli, Cli)'
    BY <1>1 DEF IsOn
  <1> QED BY <1>2, <1>3, <1>4, CommandStays

\* Opening the repository seeds what is not there.
LEMMA GetInv ==
    ASSUME GapInv, NEW c \in Cli, NEW g \in Gap, NEW cmd \in {"close", "receipt", "verify"},
           CliGet(c, cmd, g), UNCHANGED runs
    PROVE  GapInv'
  <1>1. gaps' = Seeded(gaps) /\ UNCHANGED <<cover, rcpts, runs>>
    BY DEF CliGet
  <1>2. EvidenceKept
    BY <1>1 DEF EvidenceKept
  <1>3. GapOK(OpenGap) /\ OpenGap.state # "RECOVERED"
    BY DEF GapOK, OpenGap
  <1>4. IsOn(gaps, Gap)' /\ \A h \in Gap : gaps'[h] = IF gaps[h] = None THEN OpenGap ELSE gaps[h]
    BY <1>1 DEF Seeded, IsOn
  <1>5. \A h \in Gap : GapOK(gaps'[h])
    BY <1>3, <1>4 DEF GapInv
  <1>6. \A h \in Gap : gaps'[h].state = "RECOVERED" => Proven(h, gaps'[h])
    BY <1>3, <1>4 DEF GapInv
  <1>7. PICK rec : rec = gaps'[g]
    OBVIOUS
  <1>8. PICK new : new = [CliOff EXCEPT !.pc = cmd, !.gap = g, !.rec = rec]
    OBVIOUS
  <1>9. new.pc = cmd /\ new.gap = g /\ new.rec = rec /\ IsOn(new, {"pc", "gap", "rec", "new"})
    BY <1>8 DEF CliOff, IsOn
  <1>10. cli' = [cli EXCEPT ![c] = new]
    BY <1>7, <1>8 DEF CliGet
  <1>11. IsOn(cli, Cli)' /\ cli'[c] = new /\ \A d \in Cli : d # c => cli'[d] = cli[d]
    BY <1>10 DEF GapInv, IsOn
  <1>12. Command(c)'
    BY <1>5, <1>7, <1>9, <1>11 DEF Command, GapOK, IsOn
  <1>13. \A d \in Cli : Command(d)'
    BY <1>2, <1>11, <1>12, CommandStays
  <1>14. \A h \in Gap : gaps'[h].state = "RECOVERED" => Proven(h, gaps[h])'
    BY <1>1, <1>6 DEF Proven
  <1>15. \A id \in ReceiptId : rcpts'[id] # None => Evidence(id)'
    BY <1>1, <1>2, EvidenceStays
  <1> QED BY <1>1, <1>4, <1>5, <1>11, <1>13, <1>14, <1>15 DEF GapInv, IsOn, GapOK

\* Closing writes an ended gap, which claims nothing.
LEMMA CloseInv ==
    ASSUME GapInv, NEW c \in Cli, NEW e \in Ends, CliClose(c, e), UNCHANGED runs
    PROVE  GapInv'
  <1> DEFINE rec == [state |-> "ENDED_UNRECOVERED", end |-> e, receipt |-> None]
  <1>1. GapOK(rec) /\ rec.state # "RECOVERED"
    BY GapAssumption DEF GapOK
  <1>2. /\ UNCHANGED <<cover, rcpts, runs>> /\ CliEnds(c) /\ cli[c].gap \in Gap
        /\ gaps' = gaps \/ gaps' = [gaps EXCEPT ![cli[c].gap] = rec]
    BY DEF CliClose, GapInv, Command
  <1> HIDE DEF rec
  <1>3. EvidenceKept
    BY <1>2 DEF EvidenceKept
  <1>4. IsOn(cli, Cli)' /\ \A d \in Cli : Command(d)'
    BY <1>2, <1>3, EndsInv
  <1>5. IsOn(gaps, Gap)' /\ \A h \in Gap : gaps'[h] = gaps[h] \/ gaps'[h] = rec
    BY <1>2 DEF GapInv, IsOn
  <1>6. \A h \in Gap : gaps'[h] # None => GapOK(gaps'[h])
    BY <1>1, <1>5 DEF GapInv
  <1>7. \A h \in Gap : gaps'[h] # None /\ gaps'[h].state = "RECOVERED" => Proven(h, gaps'[h])
    BY <1>1, <1>5 DEF GapInv
  <1>8. \A h \in Gap : gaps'[h] # None /\ gaps'[h].state = "RECOVERED" => Proven(h, gaps[h])'
    BY <1>2, <1>7 DEF Proven
  <1>9. \A id \in ReceiptId : rcpts'[id] # None => Evidence(id)'
    BY <1>2, <1>3, EvidenceStays
  <1> QED BY <1>2, <1>4, <1>5, <1>6, <1>8, <1>9 DEF GapInv, IsOn, GapOK

\* A coverage goes where there was none.
LEMMA CoverInv ==
    ASSUME GapInv, NEW id \in CoverageId, NEW g, NEW lo, NEW hi \in Ends, NEW fp, NEW n,
           RecordCoverage(id, g, lo, hi, fp, n), UNCHANGED runs
    PROVE  GapInv'
  <1> DEFINE rec == [gap |-> g, lo |-> lo, hi |-> hi, fp |-> fp, rows |-> n]
  <1>1. rec.hi \in Nat
    BY GapAssumption
  <1>2. /\ UNCHANGED <<gaps, rcpts, cli, runs>>
        /\ cover' = [cover EXCEPT ![id] = IF cover[id] # None THEN cover[id] ELSE rec]
    BY DEF RecordCoverage
  <1> HIDE DEF rec
  <1>3. IsOn(cover, CoverageId)' /\ \A v \in CoverageId :
             cover'[v] = cover[v] \/ (cover[v] = None /\ cover'[v] = rec)
    <2>1. PICK val : val = IF cover[id] # None THEN cover[id] ELSE rec
      OBVIOUS
    <2>2. IsOn(cover, CoverageId) /\ cover' = [cover EXCEPT ![id] = val]
      BY <1>2, <2>1 DEF GapInv
    <2>3. IsOn(cover', CoverageId) /\ \A v \in CoverageId : cover'[v] = IF v = id THEN val ELSE cover[v]
      <3>1. IsOn(cover, CoverageId)
        BY <2>2
      <3>2. IsOn([cover EXCEPT ![id] = val], CoverageId)
        BY <3>1, OnExcept
      <3>3. \A v \in CoverageId : [cover EXCEPT ![id] = val][v] = IF v = id THEN val ELSE cover[v]
        BY <3>1 DEF IsOn
      <3> QED BY <2>2, <3>2, <3>3
    <2>4. IsOn(cover, CoverageId)'
      BY <2>3 DEF IsOn
    <2> QED BY <2>1, <2>3, <2>4
  <1>4. EvidenceKept
    BY <1>2, <1>3 DEF EvidenceKept
  <1>5. \A v \in CoverageId : cover'[v] # None => cover'[v].hi \in Nat
    BY <1>1, <1>3 DEF GapInv
  <1>6. \A d \in Cli : Command(d)'
    BY <1>2, <1>4, CommandStays
  <1>7. \A h \in Gap : gaps[h] # None /\ gaps[h].state = "RECOVERED" => Proven(h, gaps[h])'
    BY <1>2 DEF GapInv, Proven
  <1>8. \A q \in ReceiptId : rcpts'[q] # None => Evidence(q)'
    BY <1>2, <1>4, EvidenceStays
  <1> QED BY <1>2, <1>3, <1>5, <1>6, <1>7, <1>8 DEF GapInv, IsOn, GapOK

\* A receipt is written where there was none, after its run and its coverage have
\* been validated for the end that the command has read.
LEMMA ReceiptInv ==
    ASSUME GapInv, NEW c \in Cli, NEW id \in ReceiptId, NEW run \in RunId,
           NEW v \in CoverageId, CliReceipt(c, id, run, v), UNCHANGED runs
    PROVE  GapInv'
  <1> DEFINE new == [gap |-> cli[c].gap, lo |-> StartedAt[cli[c].gap], hi |-> cli[c].rec.end,
                    run |-> run, cov |-> v]
             ok  == /\ cli[c].rec.end # None /\ rcpts[id] = None
                    /\ ValidAuthorities(cli[c].gap, cli[c].rec.end, run, v)
  <1>1. new.gap = cli[c].gap /\ new.hi = cli[c].rec.end /\ new.run = run /\ new.cov = v
    OBVIOUS
  <1>2. /\ UNCHANGED <<gaps, cover, runs>> /\ CliEnds(c)
        /\ rcpts' = IF ok THEN [rcpts EXCEPT ![id] = new] ELSE rcpts
        /\ GapOK(cli[c].rec)
    BY DEF CliReceipt, GapInv, Command
  <1> HIDE DEF new
  <1>3. /\ IsOn(rcpts, ReceiptId)'
        /\ \A q \in ReceiptId : rcpts'[q] = rcpts[q] \/ (ok /\ q = id /\ rcpts'[q] = new)
    <2>1. CASE ok
      <3>1. IsOn(rcpts, ReceiptId) /\ rcpts' = [rcpts EXCEPT ![id] = new]
        BY <1>2, <2>1 DEF GapInv
      <3>2. /\ IsOn(rcpts', ReceiptId)
            /\ \A q \in ReceiptId : rcpts'[q] = IF q = id THEN new ELSE rcpts[q]
        <4>1. IsOn([rcpts EXCEPT ![id] = new], ReceiptId)
          BY <3>1, OnExcept
        <4>2. \A q \in ReceiptId : [rcpts EXCEPT ![id] = new][q] = IF q = id THEN new ELSE rcpts[q]
          BY <3>1 DEF IsOn
        <4> QED BY <3>1, <4>1, <4>2
      <3> QED BY <2>1, <3>2 DEF IsOn
    <2>2. CASE ~ok
      <3>1. rcpts' = rcpts
        BY <1>2, <2>2
      <3> QED BY <3>1 DEF GapInv, IsOn
    <2> QED BY <2>1, <2>2
  <1>4. EvidenceKept
    BY <1>2, <1>3 DEF EvidenceKept
  <1>5. IsOn(cli, Cli)' /\ \A d \in Cli : Command(d)'
    BY <1>2, <1>4, EndsInv
  <1>6. ASSUME ok, rcpts'[id] = new PROVE Evidence(id)'
    <2>1. /\ RunState(run) = "COMPLETED" /\ cover[v] # None
          /\ cover[v].fp = runs[run].fp /\ cover[v].hi >= cli[c].rec.end
          /\ cover[v].lo <= StartedAt[cli[c].gap]
      BY <1>6 DEF ValidAuthorities
    <2>2. cli[c].rec.end \in Nat /\ cover[v].hi \in Nat
      BY <1>2, <1>6, <2>1, GapAssumption DEF GapOK, GapInv
    <2> QED BY <1>1, <1>2, <1>6, <2>1, <2>2 DEF Evidence, RunState
  <1>7. ASSUME NEW q \in ReceiptId, rcpts'[q] # None PROVE Evidence(q)'
    <2>1. CASE rcpts'[q] = rcpts[q]
      BY <1>4, <1>7, <2>1, EvidenceStays
    <2>2. CASE rcpts'[q] # rcpts[q]
      BY <1>3, <1>6, <2>2
    <2> QED BY <2>1, <2>2
  <1>8. \A h \in Gap : gaps[h] # None /\ gaps[h].state = "RECOVERED" => Proven(h, gaps[h])'
    <2>1. \A h \in Gap : gaps[h] # None /\ gaps[h].state = "RECOVERED" => Proven(h, gaps[h])
      BY DEF GapInv
    <2> QED BY <1>2, <1>4, <2>1 DEF Proven, EvidenceKept
  <1> QED BY <1>2, <1>3, <1>5, <1>7, <1>8 DEF GapInv, IsOn, GapOK

\* What verify will save claims a receipt that it has just validated.
LEMMA VerifyInv ==
    ASSUME GapInv, NEW c \in Cli, NEW id \in ReceiptId, CliVerify(c, id), UNCHANGED runs
    PROVE  GapInv'
  <1> DEFINE new == [state |-> "RECOVERED", end |-> cli[c].rec.end, receipt |-> id]
             ok  == GetVerified(id) /\ MarkRecovered(cli[c].gap, cli[c].rec, id)
  <1>1. new.state = "RECOVERED" /\ new.end = cli[c].rec.end /\ new.receipt = id
    OBVIOUS
  <1>2. UNCHANGED <<gaps, cover, rcpts, runs>>
    BY DEF CliVerify
  <1>3. cli[c].pc = "verify" /\ cli[c].gap \in Gap /\ GapOK(cli[c].rec)
    BY DEF CliVerify, GapInv, Command
  <1>4. cli' = [cli EXCEPT ![c] = IF ok THEN [cli[c] EXCEPT !.pc = "save", !.new = new] ELSE CliOff]
    BY DEF CliVerify
  <1> HIDE DEF new
  <1>5. EvidenceKept
    BY <1>2 DEF EvidenceKept
  <1>6. IsOn(cli, Cli)' /\ \A d \in Cli : d # c => cli'[d] = cli[d]
    BY <1>4 DEF GapInv, IsOn
  <1>7. Command(c)'
    <2>1. CASE ~ok
      <3>1. cli'[c] = CliOff
        BY <1>4, <2>1 DEF GapInv, IsOn
      <3> QED BY <3>1 DEF Command, CliOff, IsOn
    <2>2. CASE ok
      <3>1. cli'[c] = [cli[c] EXCEPT !.pc = "save", !.new = new]
        BY <1>4, <2>2 DEF GapInv, IsOn
      <3>2. PICK g, rec, was : g = cli[c].gap /\ rec = cli[c].rec /\ was = cli[c]
        OBVIOUS
      <3>3. Proven(g, new)
        BY <1>1, <1>3, <2>2, <3>2 DEF Proven, MarkRecovered, GetVerified, GapOK
      <3>4. GapOK(new)
        BY <1>1, <1>3, <2>2, <3>2 DEF GapOK, MarkRecovered
      <3>5. Command(c) /\ cli[c].pc # "off"
        BY <1>3 DEF GapInv
      <3>6. /\ cli'[c].gap = g /\ cli'[c].rec = rec /\ cli'[c].new = new
            /\ IsOn(cli'[c], {"pc", "gap", "rec", "new"})
        BY <3>1, <3>2, <3>5 DEF Command, IsOn
      <3>7. cli'[c].gap \in Gap /\ GapOK(cli'[c].rec) /\ GapOK(cli'[c].new)
            /\ cli'[c].new.state = "RECOVERED" /\ Proven(cli'[c].gap, cli'[c].new)
        BY <1>1, <1>3, <3>2, <3>3, <3>4, <3>6
      <3> QED BY <1>2, <3>6, <3>7 DEF Command, Proven, GapOK, IsOn
    <2> QED BY <2>1, <2>2
  <1>8. \A d \in Cli : Command(d)'
    BY <1>5, <1>6, <1>7, CommandStays
  <1>9. \A h \in Gap : gaps[h] # None /\ gaps[h].state = "RECOVERED" => Proven(h, gaps[h])'
    BY <1>2 DEF GapInv, Proven
  <1>10. \A q \in ReceiptId : rcpts'[q] # None => Evidence(q)'
    BY <1>2, <1>5, EvidenceStays
  <1> QED BY <1>2, <1>6, <1>8, <1>9, <1>10 DEF GapInv, IsOn, GapOK

\* What is saved is a recovered record with its receipt.
LEMMA SaveInv ==
    ASSUME GapInv, NEW c \in Cli, CliSave(c), UNCHANGED runs
    PROVE  GapInv'
  <1>1. PICK g \in Gap : g = cli[c].gap
    BY DEF CliSave, GapInv, Command
  <1>2. PICK new : new = cli[c].new
    OBVIOUS
  <1>3. GapOK(new) /\ new.state = "RECOVERED" /\ Proven(g, new)
    BY <1>1, <1>2 DEF CliSave, GapInv, Command
  <1>4. UNCHANGED <<cover, rcpts, runs>> /\ CliEnds(c) /\ gaps' = [gaps EXCEPT ![g] = new]
    BY <1>1, <1>2 DEF CliSave
  <1>5. EvidenceKept
    BY <1>4 DEF EvidenceKept
  <1>6. IsOn(cli, Cli)' /\ \A d \in Cli : Command(d)'
    BY <1>4, <1>5, EndsInv
  <1>7. IsOn(gaps, Gap)' /\ \A h \in Gap : gaps'[h] = IF h = g THEN new ELSE gaps[h]
    BY <1>4 DEF GapInv, IsOn
  <1>8. \A h \in Gap : gaps'[h] # None => GapOK(gaps'[h])
    BY <1>3, <1>7 DEF GapInv
  <1>9. \A h \in Gap : gaps'[h] # None /\ gaps'[h].state = "RECOVERED" => Proven(h, gaps'[h])
    BY <1>3, <1>7 DEF GapInv
  <1>10. \A h \in Gap : gaps'[h] # None /\ gaps'[h].state = "RECOVERED" => Proven(h, gaps[h])'
    BY <1>4, <1>9 DEF Proven
  <1>11. \A id \in ReceiptId : rcpts'[id] # None => Evidence(id)'
    BY <1>4, <1>5, EvidenceStays
  <1> QED BY <1>4, <1>6, <1>7, <1>8, <1>10, <1>11 DEF GapInv, IsOn, GapOK

\* Every gap command keeps the invariant.
LEMMA GapStep == ASSUME GapInv, GapNext, UNCHANGED runs PROVE GapInv'
  <1>1. ASSUME NEW c \in Cli, NEW g \in Gap, NEW cmd \in {"close", "receipt", "verify"},
               CliGet(c, cmd, g)
        PROVE  GapInv'
    BY <1>1, GetInv
  <1>2. ASSUME NEW c \in Cli, NEW e \in Ends, CliClose(c, e) PROVE GapInv'
    BY <1>2, CloseInv
  <1>3. ASSUME NEW c \in Cli, NEW id \in ReceiptId, NEW run \in RunId, NEW v \in CoverageId,
               CliReceipt(c, id, run, v)
        PROVE  GapInv'
    BY <1>3, ReceiptInv
  <1>4. ASSUME NEW c \in Cli, NEW id \in ReceiptId, CliVerify(c, id) PROVE GapInv'
    BY <1>4, VerifyInv
  <1>5. ASSUME NEW c \in Cli, CliSave(c) PROVE GapInv'
    BY <1>5, SaveInv
  <1>6. ASSUME NEW id \in CoverageId, NEW g \in Gap, NEW lo \in Starts, NEW hi \in Ends,
               NEW fp, NEW n, RecordCoverage(id, g, lo, hi, fp, n)
        PROVE  GapInv'
    BY <1>6, CoverInv
  <1> QED BY <1>1, <1>2, <1>3, <1>4, <1>5, <1>6 DEF GapNext

\* A run that is completed stays as it is registered: a run is registered once, and
\* Complete changes nothing of a completed one.
LEMMA RunsKept ==
    ASSUME MigInv, MigNext, NEW r \in RunId, RunState(r) = "COMPLETED"
    PROVE  runs'[r] = runs[r]
  <1>1. runs[r] # None /\ runs[r] \in RunRow /\ runs[r].state = "COMPLETED"
    BY GapAssumption DEF RunState, MigInv, Types
  <1>2. CASE \E p \in Proc : Admit(p)
    <2>1. PICK p \in Proc : Admit(p)
      BY <1>2
    <2>2. proc[p].run \in RunId
      BY <2>1 DEF Admit, MigInv, Place
    <2>3. CASE runs' = runs
      BY <2>3
    <2>4. CASE runs' # runs
      <3>1. /\ runs[proc[p].run] = None
            /\ runs' = [runs EXCEPT ![proc[p].run] = [fp |-> proc[p].digest, state |-> "RUNNING"]]
        BY <2>1, <2>4 DEF Admit, Fail
      <3> QED BY <1>1, <3>1 DEF MigInv, Types
    <2> QED BY <2>3, <2>4
  <1>3. CASE \E p \in Proc : Complete(p)
    <2>1. PICK p \in Proc : Complete(p)
      BY <1>3
    <2>2. runs' = [runs EXCEPT ![proc[p].run].state = "COMPLETED"]
      BY <2>1 DEF Complete
    <2>3. CASE proc[p].run # r
      BY <2>2, <2>3 DEF MigInv, Types
    <2>4. CASE proc[p].run = r
      <3>1. runs'[r] = [runs[r] EXCEPT !.state = "COMPLETED"]
        BY <2>2, <2>4 DEF MigInv, Types
      <3> QED BY <1>1, <3>1 DEF RunRow
    <2> QED BY <2>3, <2>4
  <1>4. CASE UNCHANGED runs
    BY <1>4
  <1> QED BY <1>2, <1>3, <1>4 DEF MigNext, Step, Lock, ReadChunk, WriteChunk, CheckSource,
             CheckTarget, MigCrash, Begin, ForeignRow, ChangeSource, Fail

-----------------------------------------------------------------------------
(* The inductive invariant of the backup.                                  *)

\* A snapshot has the rows and the bookkeeping of one moment.
SnapOK(s) ==
    /\ s \in Snapshots
    /\ \A r \in RunId, t \in Table :
         Cardinality({i \in DOMAIN s.rows[t] : s.rows[t][i].by = r})
           = IF s.cps[r][t] = None THEN 0 ELSE s.cps[r][t].rows
Described(m) == m \in Manifests /\ DigestOf(m.sha) = m.digest

\* The files: dumps, manifests, and the remote pairs that have been verified.
FilesInv ==
    /\ IsOn(dump, Bid) /\ IsOn(bman, Bid) /\ IsOn(robj, Bid) /\ IsOn(rman, Bid)
    /\ \A b \in Bid : dump[b] # None => SnapOK(dump[b])
    /\ \A b \in Bid : bman[b] # None => Described(bman[b])
    /\ \A b \in brec : /\ b \in Bid /\ bman[b] # None
                        /\ robj[b] = bman[b].sha /\ rman[b] = bman[b]

\* The backup under way: not verified yet, and what it has written so far.
MakingInv ==
    /\ IsOn(bk, {"pc", "id", "snap"})
    /\ bk.pc # "off" => bk.id \in Bid /\ SnapOK(bk.snap) /\ bk.id \notin brec
    /\ bk.pc = "manifest" => dump[bk.id] = bk.snap
    /\ bk.pc \in {"push", "fetch"} => bman[bk.id] # None

Single(s) == s = <<s[1]>>
\* One scratch database while a drill runs, none before and after it.
DrillInv ==
    /\ IsOn(drill, {"pc", "art", "man"})
    /\ broken \/ IF drill.pc = "off" THEN scratch = << >> ELSE Single(scratch)

BakInv == FilesInv /\ MakingInv /\ DrillInv

-----------------------------------------------------------------------------
(* The steps of the backup.                                                *)

\* The digests of a snapshot make its manifest.
LEMMA ManifestType ==
    ASSUME NEW s \in Snapshots
    PROVE  Described([sha |-> s, digest |-> DigestOf(s)])
  <1>1. ASSUME NEW t \in Table, NEW v \in Val
        PROVE  Cardinality({i \in DOMAIN s.rows[t] : s.rows[t][i].val = v}) \in Nat
    <2>1. s.rows[t] \in Seq(TargetRow)
      BY DEF Snapshots
    <2> QED BY <2>1, CountType
  <1>2. DigestOf(s) \in [Table -> [Val -> Nat]]
    BY <1>1 DEF DigestOf
  <1> QED BY <1>2 DEF Described, Manifests

\* The database at any moment is a snapshot that can be resumed.
LEMMA SnapshotOK == ASSUME MigInv PROVE SnapOK(Snapshot)
  <1>1. PICK s : s = Snapshot
    OBVIOUS
  <1>2. s.rows = tgt /\ s.cps = cps /\ s \in Snapshots
    BY <1>1 DEF Snapshot, Snapshots, MigInv, Types
  <1>3. ASSUME NEW r \in RunId, NEW t \in Table
        PROVE  Cardinality({i \in DOMAIN tgt[t] : tgt[t][i].by = r})
                 = IF cps[r][t] = None THEN 0 ELSE cps[r][t].rows
    BY DEF MigInv, Counted, Copied, RowsBy
  <1> QED BY <1>1, <1>2, <1>3 DEF SnapOK

\* The record of the backup and that of the drill at another place.
LEMMA NextPc ==
    ASSUME NEW S, NEW f, IsOn(f, S), "pc" \in S, NEW pc, NEW g, g = [f EXCEPT !.pc = pc]
    PROVE  IsOn(g, S) /\ g.pc = pc /\ \A x \in S : x # "pc" => g[x] = f[x]
  <1>2. IsOn(g, S)
    BY OnExcept
  <1>3. g.pc = pc
    BY DEF IsOn
  <1>4. \A x \in S : x # "pc" => g[x] = f[x]
    BY DEF IsOn
  <1> QED BY <1>2, <1>3, <1>4

\* The drill has nothing to do with the files.
LEMMA DrillStays == ASSUME DrillInv, UNCHANGED <<drill, scratch, broken>> PROVE DrillInv'
  BY DEF DrillInv, IsOn
\* What is said of the files holds while the files and records do not change.
LEMMA FilesStay == ASSUME FilesInv, UNCHANGED <<dump, bman, robj, rman, brec>> PROVE FilesInv'
  BY DEF FilesInv, IsOn
\* What is said of a backup being made holds while it is left alone.
LEMMA MakingStays == ASSUME MakingInv, UNCHANGED <<bk, dump, bman, brec>> PROVE MakingInv'
  BY DEF MakingInv, IsOn, SnapOK

\* A backup starts from a snapshot, under an id that has no file.
LEMMA BackupStartInv ==
    ASSUME MigInv, BakInv, NEW b \in Bid, BackupStart(b)
    PROVE  BakInv'
  <1>1. UNCHANGED <<dump, bman, robj, rman, brec, drill, scratch, broken>> /\ bman[b] = None
    BY DEF BackupStart
  <1>2. PICK s : s = Snapshot
    OBVIOUS
  <1>3. SnapOK(s)
    BY <1>2, SnapshotOK
  <1>4. bk' = [pc |-> "dump", id |-> b, snap |-> s]
    BY <1>2 DEF BackupStart
  <1>5. b \notin brec
    BY <1>1 DEF BakInv, FilesInv
  <1>6. IsOn(bk', {"pc", "id", "snap"}) /\ bk'.pc = "dump" /\ bk'.id = b /\ bk'.snap = s
    BY <1>4 DEF IsOn
  <1>7. MakingInv'
    BY <1>1, <1>3, <1>5, <1>6 DEF MakingInv, SnapOK, IsOn
  <1> QED BY <1>1, <1>7, FilesStay, DrillStays DEF BakInv

\* The dump is the snapshot.
LEMMA BackupDumpInv == ASSUME BakInv, BackupDump PROVE BakInv'
  <1>1. PICK b \in Bid, s \in Snapshots : b = bk.id /\ s = bk.snap
    BY DEF BackupDump, BakInv, MakingInv, SnapOK
  <1>2. /\ bk' = [bk EXCEPT !.pc = "manifest"] /\ dump' = [dump EXCEPT ![b] = s]
        /\ UNCHANGED <<bman, robj, rman, brec, drill, scratch, broken>>
        /\ SnapOK(s) /\ b \notin brec
    BY <1>1 DEF BackupDump, BakInv, MakingInv
  <1>3. IsOn(dump', Bid) /\ \A x \in Bid : dump'[x] = IF x = b THEN s ELSE dump[x]
    BY <1>2 DEF BakInv, FilesInv, IsOn
  <1>4. IsOn(bk', {"pc", "id", "snap"}) /\ bk'.pc = "manifest" /\ bk'.id = b /\ bk'.snap = s
    BY <1>1, <1>2, NextPc DEF BakInv, MakingInv
  <1>5. FilesInv'
    <2>1. \A x \in Bid : dump'[x] # None => SnapOK(dump'[x])
      BY <1>2, <1>3 DEF BakInv, FilesInv
    <2> QED BY <1>2, <1>3, <2>1 DEF BakInv, FilesInv, IsOn
  <1>6. MakingInv'
    BY <1>2, <1>3, <1>4 DEF MakingInv, SnapOK, IsOn
  <1> QED BY <1>2, <1>5, <1>6, DrillStays DEF BakInv

\* The manifest describes the dump, which is the snapshot still.
LEMMA WriteManifestInv == ASSUME BakInv, WriteManifest PROVE BakInv'
  <1>1. PICK b \in Bid, s \in Snapshots : b = bk.id /\ s = bk.snap
    BY DEF WriteManifest, BakInv, MakingInv, SnapOK
  <1>2. PICK m : m = [sha |-> s, digest |-> DigestOf(s)]
    OBVIOUS
  <1>3. Described(m) /\ m # None
    BY <1>2, ManifestType, BackupAssumption DEF Described
  <1>4. dump[b] = s /\ SnapOK(s) /\ b \notin brec
    BY <1>1 DEF WriteManifest, BakInv, MakingInv
  <1>5. /\ bk' = [bk EXCEPT !.pc = "push"] /\ bman' = [bman EXCEPT ![b] = m]
        /\ UNCHANGED <<dump, robj, rman, brec, drill, scratch, broken>>
    BY <1>1, <1>2, <1>4 DEF WriteManifest
  <1>6. IsOn(bman', Bid) /\ \A x \in Bid : bman'[x] = IF x = b THEN m ELSE bman[x]
    BY <1>5 DEF BakInv, FilesInv, IsOn
  <1>7. IsOn(bk', {"pc", "id", "snap"}) /\ bk'.pc = "push" /\ bk'.id = b /\ bk'.snap = s
    BY <1>1, <1>5, NextPc DEF BakInv, MakingInv
  <1>8. FilesInv'
    <2>1. \A x \in Bid : bman'[x] # None => Described(bman'[x])
      BY <1>3, <1>6 DEF BakInv, FilesInv
    <2>2. \A x \in brec : x \in Bid /\ bman'[x] = bman[x]
      BY <1>4, <1>6 DEF BakInv, FilesInv
    <2> QED BY <1>5, <1>6, <2>1, <2>2 DEF BakInv, FilesInv, IsOn
  <1>9. MakingInv'
    BY <1>3, <1>4, <1>5, <1>6, <1>7 DEF MakingInv, SnapOK, IsOn
  <1> QED BY <1>5, <1>8, <1>9, DrillStays DEF BakInv

\* The remote pair of a backup that has no receipt changes.
LEMMA BackupPushInv == ASSUME BakInv, NEW c, BackupPush(c) PROVE BakInv'
  <1>1. PICK b \in Bid : b = bk.id
    BY DEF BackupPush, BakInv, MakingInv
  <1>m. PICK m : m = bman[b]
    OBVIOUS
  <1>2. /\ bk' = [bk EXCEPT !.pc = "fetch"]
        /\ robj' = [robj EXCEPT ![b] = c] /\ rman' = [rman EXCEPT ![b] = m]
        /\ UNCHANGED <<dump, bman, brec, drill, scratch, broken>>
        /\ b \notin brec /\ bman[b] # None /\ bk.pc = "push" /\ SnapOK(bk.snap)
    BY <1>1, <1>m DEF BackupPush, BakInv, MakingInv
  <1>3. IsOn(robj', Bid) /\ \A x \in Bid : x # b => robj'[x] = robj[x]
    BY <1>2 DEF BakInv, FilesInv, IsOn
  <1>4. IsOn(rman', Bid) /\ \A x \in Bid : x # b => rman'[x] = rman[x]
    BY <1>2 DEF BakInv, FilesInv, IsOn
  <1>5. IsOn(bk', {"pc", "id", "snap"}) /\ bk'.pc = "fetch" /\ bk'.id = b /\ bk'.snap = bk.snap
    BY <1>1, <1>2, NextPc DEF BakInv, MakingInv
  <1>6. FilesInv'
    <2>1. \A x \in brec : x \in Bid /\ robj'[x] = robj[x] /\ rman'[x] = rman[x]
      BY <1>2, <1>3, <1>4 DEF BakInv, FilesInv
    <2> QED BY <1>2, <1>3, <1>4, <2>1 DEF BakInv, FilesInv, IsOn
  <1>7. MakingInv'
    BY <1>2, <1>5 DEF MakingInv, SnapOK, IsOn
  <1> QED BY <1>2, <1>6, <1>7, DrillStays DEF BakInv

\* A backup that ends leaves no record; a receipt is written when both files match.
LEMMA BackupEndInv == ASSUME BakInv, BackupVerify \/ BackupFails PROVE BakInv'
  <1>1. MakingInv'
    BY DEF BackupVerify, BackupFails, BkOff, MakingInv, IsOn
  <1>2. UNCHANGED <<dump, bman, robj, rman, drill, scratch, broken>>
    BY DEF BackupVerify, BackupFails
  <1>3. \A b \in brec' : b \in Bid /\ bman[b] # None /\ robj[b] = bman[b].sha /\ rman[b] = bman[b]
    <2>1. CASE BackupFails
      BY <2>1 DEF BackupFails, BakInv, FilesInv
    <2>2. CASE BackupVerify
      <3>1. bk.pc = "fetch" /\ bk.id \in Bid /\ bman[bk.id] # None
        BY <2>2 DEF BackupVerify, BakInv, MakingInv
      <3>2. brec' = brec \/ (brec' = brec \cup {bk.id} /\ FetchMatches(bk.id))
        BY <2>2 DEF BackupVerify
      <3> QED BY <3>1, <3>2 DEF FetchMatches, BakInv, FilesInv
    <2> QED BY <2>1, <2>2
  <1>4. FilesInv'
    BY <1>2, <1>3 DEF BakInv, FilesInv, IsOn
  <1> QED BY <1>1, <1>2, <1>4, DrillStays DEF BakInv

\* A drill creates its scratch database, restores into it and drops it.
LEMMA DrillSteps ==
    ASSUME BakInv, (\E r \in BOOLEAN : DrillStart(r)) \/ DrillRestore \/ RestoreFails \/ DrillDrop
                   \/ DrillBreaks
    PROVE  BakInv'
  <1>1. UNCHANGED <<bk, dump, bman, robj, rman, brec>>
    BY DEF DrillStart, DrillRestore, RestoreFails, DrillDrop, DrillBreaks
  <1>2. IsOn(drill, {"pc", "art", "man"}) /\ (broken => broken')
    BY DEF BakInv, DrillInv, DrillStart, DrillRestore, RestoreFails, DrillDrop, DrillBreaks
  <1>3. broken \/ IF drill.pc = "off" THEN scratch = << >> ELSE Single(scratch)
    BY DEF BakInv, DrillInv
  <1>a. ASSUME NEW f, NEW s, NEW bad, f = drill', s = scratch', bad = broken',
               IsOn(f, {"pc", "art", "man"}),
               bad \/ IF f.pc = "off" THEN s = << >> ELSE Single(s)
        PROVE  DrillInv'
    BY <1>a, Zenon DEF DrillInv, IsOn, Single
  <1>4. ASSUME \E r \in BOOLEAN : DrillStart(r) PROVE DrillInv'
    <2>1. IsOn(drill', {"pc", "art", "man"}) /\ drill'.pc = "restore"
      BY <1>4 DEF DrillStart, IsOn
    <2>2. drill.pc = "off" /\ scratch' = Append(scratch, None)
      BY <1>4 DEF DrillStart
    <2>3. scratch = << >> => Single(scratch')
      BY <2>2 DEF Single
    <2> QED BY <1>2, <1>3, <2>1, <2>2, <2>3, <1>a, Zenon
  <1>5. ASSUME DrillRestore PROVE DrillInv'
    <2>a. PICK pc : pc = IF DigestOf(drill.art) = drill.man.digest THEN "drop" ELSE "failed"
      OBVIOUS
    <2>1. drill' = [drill EXCEPT !.pc = pc] /\ pc # "off"
      BY <1>5, <2>a DEF DrillRestore
    <2>2. IsOn(drill', {"pc", "art", "man"}) /\ drill'.pc # "off"
      BY <1>2, <2>1, NextPc
    <2>3. drill.pc # "off" /\ scratch' = [scratch EXCEPT ![Len(scratch)] = drill.art]
      BY <1>5 DEF DrillRestore
    <2>4. ASSUME NEW x, NEW a, scratch = <<x>> PROVE [scratch EXCEPT ![Len(scratch)] = a] = <<a>>
      BY <2>4
    <2>5. ASSUME NEW a PROVE <<a>> = << <<a>>[1] >>
      OBVIOUS
    <2>6. Single(scratch) => Single(scratch')
      BY <2>3, <2>4, <2>5 DEF Single
    <2> QED BY <1>2, <1>3, <2>2, <2>3, <2>6, <1>a, Zenon
  <1>6. ASSUME RestoreFails PROVE DrillInv'
    <2>1. /\ drill' = [drill EXCEPT !.pc = "failed"] /\ UNCHANGED scratch
          /\ drill.pc = "restore"
      BY <1>6 DEF RestoreFails
    <2>2. IsOn(drill', {"pc", "art", "man"}) /\ drill'.pc = "failed"
      BY <1>2, <2>1, NextPc
    <2> QED BY <1>2, <1>3, <2>1, <2>2, <1>a, Zenon
  <1>7. ASSUME DrillDrop \/ DrillBreaks PROVE DrillInv'
    <2>1. IsOn(drill', {"pc", "art", "man"}) /\ drill'.pc = "off"
      BY <1>7 DEF DrillDrop, DrillBreaks, DrillOff, IsOn
    <2>2. drill.pc # "off" /\ (broken' \/ scratch' = SubSeq(scratch, 1, Len(scratch) - 1))
      BY <1>7 DEF DrillDrop, DrillBreaks
    <2>3. ASSUME NEW x, scratch = <<x>> PROVE SubSeq(scratch, 1, Len(scratch) - 1) = << >>
      BY <2>3
    <2>4. Single(scratch) => SubSeq(scratch, 1, Len(scratch) - 1) = << >>
      BY <2>3 DEF Single
    <2> QED BY <1>2, <1>3, <2>1, <2>2, <2>4, <1>a, Zenon
  <1>8. DrillInv'
    BY <1>4, <1>5, <1>6, <1>7
  <1> QED BY <1>1, <1>8, FilesStay, MakingStays DEF BakInv

\* Every step of the backup and of the drill keeps the invariant.
LEMMA BakSteps == ASSUME MigInv, BakInv, BakStep \/ BakFault PROVE BakInv'
  <1>1. ASSUME NEW b \in Bid, BackupStart(b) PROVE BakInv'
    BY <1>1, BackupStartInv
  <1>2. ASSUME NEW c, BackupPush(c) PROVE BakInv'
    BY <1>2, BackupPushInv
  <1> QED BY <1>1, <1>2, BackupDumpInv, WriteManifestInv, BackupEndInv, DrillSteps DEF BakStep, BakFault

-----------------------------------------------------------------------------
(* The theorems.                                                           *)

RecoveryInv == MigInv /\ GapInv /\ BakInv

\* The initial state: no gap, no evidence, no backup.
LEMMA InitRec == Init => RecoveryInv
  <1> SUFFICES ASSUME Init PROVE RecoveryInv
    OBVIOUS
  <1>1. MigInv
    BY InitMig DEF Init
  <1>2. GapInv
    <2>1. /\ gaps = [g \in Gap |-> None] /\ cover = [v \in CoverageId |-> None]
          /\ rcpts = [r \in ReceiptId |-> None] /\ cli = [c \in Cli |-> CliOff]
      BY DEF Init, GapInit
    <2>2. \A c \in Cli : Command(c)
      BY <2>1 DEF Command, CliOff, IsOn
    <2>3. IsOn(gaps, Gap) /\ IsOn(cover, CoverageId) /\ IsOn(rcpts, ReceiptId) /\ IsOn(cli, Cli)
      BY <2>1 DEF IsOn
    <2> QED BY <2>1, <2>2, <2>3 DEF GapInv
  <1>3. BakInv
    <2>1. /\ dump = [b \in Bid |-> None] /\ bman = [b \in Bid |-> None]
          /\ robj = [b \in Bid |-> None] /\ rman = [b \in Bid |-> None]
          /\ bk = BkOff /\ drill = DrillOff /\ brec = {} /\ scratch = << >>
      BY DEF Init, BakInit
    <2>2. FilesInv
      BY <2>1 DEF FilesInv, IsOn
    <2>3. MakingInv
      BY <2>1 DEF MakingInv, BkOff, IsOn
    <2>4. DrillInv
      BY <2>1 DEF DrillInv, DrillOff, IsOn
    <2> QED BY <2>2, <2>3, <2>4 DEF BakInv
  <1> QED BY <1>1, <1>2, <1>3 DEF RecoveryInv

\* Steps that leave the migration's tables alone leave its invariant.
LEMMA MigStays == ASSUME MigInv, UNCHANGED <<src, tgt, runs, cps, holder, proc>> PROVE MigInv'
  <1>1. \A p \in Proc : Place(p)'
    BY DEF MigInv, Place, After
  <1>2. \A t \in Table : Below(t)' /\ Distinct(t)' /\ Counted(t)'
    BY DEF MigInv, Below, Distinct, Counted, Copied, RowsBy
  <1> QED BY <1>1, <1>2 DEF MigInv, Types

\* The backup invariant holds over a step of the other two parts.
LEMMA BakStays == ASSUME BakInv, UNCHANGED bakVars PROVE BakInv'
  BY FilesStay, MakingStays, DrillStays DEF BakInv, bakVars

\* Every step of the three parts preserves the invariant.
LEMMA StepRec == RecoveryInv /\ [Next]_allVars => RecoveryInv'
  <1> SUFFICES ASSUME RecoveryInv, [Next]_allVars PROVE RecoveryInv'
    OBVIOUS
  <1>1. CASE MigNext /\ UNCHANGED <<gapVars, bakVars>>
    <2>1. MigInv'
      BY <1>1, StepMig DEF RecoveryInv
    <2>2. GapInv'
      BY <1>1, RunsKept, GapStays DEF RecoveryInv
    <2> QED BY <1>1, <2>1, <2>2, BakStays DEF RecoveryInv
  <1>2. CASE GapNext /\ UNCHANGED <<migVars, bakVars>>
    BY <1>2, GapStep, MigStays, BakStays DEF RecoveryInv, migVars
  <1>3. CASE (BakStep \/ BakFault)
             /\ UNCHANGED <<src, tgt, runs, cps, holder, proc, gapVars>>
    BY <1>3, BakSteps, MigStays, GapStays DEF RecoveryInv
  <1>4. CASE UNCHANGED allVars
    BY <1>4, MigStays, GapStays, BakStays DEF RecoveryInv, allVars, migVars
  <1> QED BY <1>1, <1>2, <1>3, <1>4 DEF Next, migVars

\* The invariant of migration, gap commands and backup on one database.
THEOREM RecoveryInvariant == Spec => []RecoveryInv
  BY InitRec, StepRec, PTL DEF Spec

\* A gap that is shown as recovered has a receipt of a completed run, with a coverage
\* of the same fingerprint over its whole interval, whatever commands overwrite of each
\* other (gap_repository.py:313-333).
THEOREM GapsStaySound == Spec => []GapsAreSound
  <1>1. RecoveryInv => GapsAreSound
    <2> SUFFICES ASSUME RecoveryInv PROVE GapsAreSound
      OBVIOUS
    <2>1. GapTypeOK
      BY DEF GapTypeOK, RecoveryInv, GapInv, GapOK
    <2>2. ASSUME NEW g \in Gap, gaps[g] # None, gaps[g].state = "RECOVERED"
          PROVE  LET r == rcpts[gaps[g].receipt]
                 IN  /\ r # None /\ r.gap = g /\ g \in Resolved /\ RunState(r.run) = "COMPLETED"
                     /\ cover[r.cov].lo <= StartedAt[g] /\ cover[r.cov].hi >= gaps[g].end
                     /\ cover[r.cov].fp = runs[r.run].fp
      <3>1. Proven(g, gaps[g])
        BY <2>2 DEF RecoveryInv, GapInv
      <3>2. PICK k : k = rcpts[gaps[g].receipt]
        OBVIOUS
      <3>3. Evidence(gaps[g].receipt)
        BY <3>1 DEF Proven, RecoveryInv, GapInv
      <3>4. cover[k.cov].hi >= gaps[g].end
        <4>1. /\ cover[k.cov].hi \in Nat /\ k.hi \in Nat /\ cover[k.cov].hi >= k.hi
              /\ k.hi >= gaps[g].end /\ gaps[g].end \in Nat
          BY <3>1, <3>2, <3>3, GapAssumption DEF Proven, Evidence
        <4> QED BY <4>1
      <3> QED BY <3>1, <3>2, <3>3, <3>4 DEF Proven, Evidence
    <2> QED BY <2>1, <2>2 DEF GapsAreSound, RecoveredHasEvidence
  <1> QED BY <1>1, RecoveryInvariant, PTL

\* A recovered gap loses that state only to a command that read it before: closing
\* is refused for what was read as closed, and verifying saves a recovered record
\* (gaps.py:159-173).
THEOREM RecoveredStays == Spec => RecoveredIsKept
  <1>1. RecoveryInv /\ [Next]_allVars =>
          [\A g \in Gap : gaps[g] # None /\ gaps[g].state = "RECOVERED" =>
             \/ gaps'[g].state = "RECOVERED"
             \/ \E c \in Cli : cli[c].gap = g /\ cli[c].rec.state # "RECOVERED"]_gapVars
    <2> SUFFICES ASSUME RecoveryInv, Next, NEW g \in Gap, gaps[g] # None,
                        gaps[g].state = "RECOVERED", ~UNCHANGED gapVars
                 PROVE  \/ gaps'[g].state = "RECOVERED"
                        \/ \E c \in Cli : cli[c].gap = g /\ cli[c].rec.state # "RECOVERED"
      BY DEF allVars
    <2>0. IsOn(gaps, Gap)
      BY DEF RecoveryInv, GapInv
    <2>1. GapNext
      BY DEF Next, gapVars
    <2>2. CASE gaps' = gaps
      BY <2>2
    <2>3. ASSUME NEW c \in Cli, NEW h \in Gap, NEW cmd \in {"close", "receipt", "verify"},
                 CliGet(c, cmd, h)
          PROVE  gaps'[g] = gaps[g]
      BY <2>3 DEF CliGet, Seeded
    <2>4. ASSUME NEW c \in Cli, NEW e \in Ends, CliClose(c, e), gaps'[g] # gaps[g]
          PROVE  cli[c].gap = g /\ cli[c].rec.state # "RECOVERED"
      <3>1. MayClose(cli[c].rec) /\ gaps' = [gaps EXCEPT ![cli[c].gap] =
                        [state |-> "ENDED_UNRECOVERED", end |-> e, receipt |-> None]]
        BY <2>4 DEF CliClose
      <3>2. cli[c].gap = g
        BY <2>0, <2>4, <3>1 DEF IsOn
      <3> QED BY <3>1, <3>2 DEF MayClose
    <2>5. ASSUME NEW c \in Cli, CliSave(c), gaps'[g] # gaps[g]
          PROVE  gaps'[g].state = "RECOVERED"
      <3>1. cli[c].new.state = "RECOVERED" /\ gaps' = [gaps EXCEPT ![cli[c].gap] = cli[c].new]
        BY <2>5 DEF CliSave, RecoveryInv, GapInv, Command
      <3> QED BY <2>0, <2>5, <3>1 DEF IsOn
    <2> QED BY <2>1, <2>2, <2>3, <2>4, <2>5 DEF GapNext, CliReceipt, CliVerify, RecordCoverage
  <1> QED BY <1>1, RecoveryInvariant, PTL DEF Spec, RecoveredIsKept

\* A manifest describes its dump, the remote pair of a verified backup is that dump,
\* a dump can be resumed without copying a row twice, and a drill leaves no scratch
\* database unless its process dies or the DROP fails (backup.py:405-525).
THEOREM BackupsAreSound == Spec => []BackupIsSound
  <1>1. RecoveryInv => BackupIsSound
    <2> SUFFICES ASSUME RecoveryInv PROVE BackupIsSound
      OBVIOUS
    <2>1. ManifestIsOfDump
      BY DEF ManifestIsOfDump, RecoveryInv, BakInv, FilesInv, Described
    <2>2. VerifiedIsRestorable
      BY DEF VerifiedIsRestorable, RecoveryInv, BakInv, FilesInv, Described
    <2>3. DumpIsResumable
      BY DEF DumpIsResumable, RecoveryInv, BakInv, FilesInv, SnapOK
    <2>4. NoScratchLeft
      BY DEF NoScratchLeft, RecoveryInv, BakInv, DrillInv
    <2> QED BY <2>1, <2>2, <2>3, <2>4 DEF BackupIsSound
  <1> QED BY <1>1, RecoveryInvariant, PTL
=============================================================================
