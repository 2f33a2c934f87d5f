----------------------------- MODULE Migration -----------------------------
(***************************************************************************)
(* The resumable copy of the SQLite store into Postgres (migration/):      *)
(* `python -m mdfeed.migration run`, several processes and run ids, crash  *)
(* and restart, a source or a target that changes underneath.              *)
(*                                                                         *)
(* A row is a value; a source table is a sequence of rows, the index being *)
(* the rowid. A target row also says who inserted it (history). A digest   *)
(* is the bag of the rows of every table: both sides sort before hashing.  *)
(***************************************************************************)
EXTENDS Integers, Sequences, FiniteSets

CONSTANTS Proc, RunId,
          Val,             \* contents of a row
          Source0,         \* the source at the start, table -> sequence of Val
          CATALOG,         \* the tables, in copying order
          chunk_size,
          MaxStarts,       \* bound: commands for a run that is not under way
          MaxFaults,       \* bound: crashes, changes of the source and rows in the
                           \* target by others, together
          None

ASSUME MigrationAssumption ==
    /\ chunk_size \in Nat \ {0} /\ {MaxStarts, MaxFaults} \subseteq Nat
    /\ None \notin Proc \cup RunId

Table == {CATALOG[i] : i \in DOMAIN CATALOG}
TargetRow == [val : Val, by : RunId \cup {None}, rowid : Nat]
CheckpointRow == [first : Nat, last : Nat, rows : Nat, hash : Seq(Val)]

ASSUME CatalogAssumption ==
    /\ CATALOG \in Seq(Table) /\ CATALOG # << >>
    /\ Source0 \in [Table -> Seq(Val)] /\ IsFiniteSet(Val)
    /\ None \notin CheckpointRow
    /\ None \notin [fp : [Table -> [Val -> Nat]], state : {"RUNNING", "COMPLETED"}]

VARIABLES
    src,       \* the SQLite file
    tgt,       \* the Postgres tables: sequences of [val, by, rowid]
    runs,      \* migration_runs: run id -> [fp, state] or None
    cps,       \* migration_checkpoints: run id, table -> checkpoint or None
    holder,    \* holder of the advisory lock on the target
    proc,      \* per process: [pc, run, digest, table, chunk]
    touched,   \* somebody else changed the source or the target (history)
    starts, faults

migVars == <<src, tgt, runs, cps, holder, proc, touched, starts, faults>>

Off == [pc |-> "off", run |-> None, digest |-> None, table |-> 1, chunk |-> None]

MigInit ==
    /\ src = Source0 /\ tgt = [t \in Table |-> << >>]
    /\ runs = [r \in RunId |-> None]
    /\ cps = [r \in RunId |-> [t \in Table |-> None]]
    /\ holder = None /\ proc = [p \in Proc |-> Off]
    /\ touched = FALSE /\ starts = 0 /\ faults = 0

Count(s, v) == Cardinality({i \in DOMAIN s : s[i] = v})
SqliteDigest == [t \in Table |-> [v \in Val |-> Count(src[t], v)]]
PgRows(t) == [i \in DOMAIN tgt[t] |-> tgt[t][i].val]
PostgresDigest == [t \in Table |-> [v \in Val |-> Count(PgRows(t), v)]]
RunState(r) == IF runs[r] = None THEN None ELSE runs[r].state
RowCount(digest, t) == Cardinality(UNION {{v} \X (1..digest[t][v]) : v \in Val})
----------------------------------------------------------------------------
(* run_migration                                                           *)

\* The finally clause: the lock is given back and the connections are closed.
Left(p) == [proc EXCEPT ![p] = Off]
Release(p) == holder' = IF holder = p THEN None ELSE holder
Fail(p) == proc' = Left(p) /\ Release(p) /\ UNCHANGED <<src, tgt, runs, cps, touched, starts, faults>>

\* The digest of the source is taken before the lock.
Begin(p, r) ==
    /\ proc[p].pc = "off"
    /\ starts' = IF RunState(r) = "RUNNING" THEN starts ELSE starts + 1
    /\ starts' <= MaxStarts
    /\ proc' = [proc EXCEPT ![p] = [Off EXCEPT !.pc = "lock", !.run = r,
                                               !.digest = SqliteDigest]]
    /\ UNCHANGED <<src, tgt, runs, cps, holder, touched, faults>>

\* pg_try_advisory_lock.
Lock(p) ==
    /\ proc[p].pc = "lock"
    /\ \/ /\ holder = None /\ holder' = p
          /\ proc' = [proc EXCEPT ![p].pc = "admit"]
          /\ UNCHANGED <<src, tgt, runs, cps, touched, starts, faults>>
       \/ holder # None /\ Fail(p)

\* assert_empty_or_matching: the run is known with this source, or it is new and
\* the target has no rows.
EmptyOrMatching(p) ==
    LET run == runs[proc[p].run]
    IN  IF run # None THEN run.fp = proc[p].digest ELSE \A t \in Table : tgt[t] = << >>

\* what the source has between two row ids
ChunkHash(t, first, last) == SubSeq(src[t], first, last)
\* _validate_checkpoints: the last chunk of each table is still what the source
\* has there, and the target has as many rows as were copied.
\* mutant: the target's rows are compared with those of the last chunk
CheckpointsValidByChunk(r) ==
    \A t \in Table : cps[r][t] # None => Len(tgt[t]) = Len(cps[r][t].hash)
CheckpointsValid(r) ==
    \A t \in Table : cps[r][t] # None =>
        LET c == cps[r][t] IN c.hash = ChunkHash(t, c.first, c.last) /\ Len(tgt[t]) = c.rows

\* The two checks, then _ensure_run: a run that exists keeps its state.
Admit(p) ==
    /\ proc[p].pc = "admit"
    /\ LET r == proc[p].run
       IN  \/ /\ EmptyOrMatching(p) /\ CheckpointsValid(r)
              /\ runs' = IF runs[r] # None THEN runs
                         ELSE [runs EXCEPT ![r] = [fp |-> proc[p].digest, state |-> "RUNNING"]]
              /\ proc' = [proc EXCEPT ![p].pc = "read"]
              /\ UNCHANGED <<src, tgt, cps, holder, touched, starts, faults>>
           \/ ~(EmptyOrMatching(p) /\ CheckpointsValid(r)) /\ Fail(p)

\* _migrate_table: read the chunk after the checkpoint; none left, next table.
After(p) == LET c == cps[proc[p].run][CATALOG[proc[p].table]] IN IF c = None THEN 0 ELSE c.last
ReadChunk(p) ==
    /\ proc[p].pc = "read"
    /\ LET t  == CATALOG[proc[p].table]
           lo == After(p) + 1
           hi == IF After(p) + chunk_size < Len(src[t]) THEN After(p) + chunk_size ELSE Len(src[t])
       IN  proc' = IF lo <= hi
                   THEN [proc EXCEPT ![p].pc = "write",
                                     ![p].chunk = [first |-> lo, rows |-> SubSeq(src[t], lo, hi)]]
                   ELSE IF proc[p].table < Len(CATALOG)
                   THEN [proc EXCEPT ![p].table = @ + 1]
                   ELSE [proc EXCEPT ![p].pc = "source"]
    /\ UNCHANGED <<src, tgt, runs, cps, holder, touched, starts, faults>>

Inserted(t, chunk, r) ==
    tgt[t] \o [i \in 1 .. Len(chunk.rows) |->
                 [val |-> chunk.rows[i], by |-> r, rowid |-> chunk.first + i - 1]]

Checkpoint(p) ==
    LET st  == proc[p]
        old == cps[st.run][CATALOG[st.table]]
        n   == Len(st.chunk.rows)
    IN  [first |-> st.chunk.first,
         last  |-> st.chunk.first + n - 1,
         rows  |-> n + IF old = None THEN 0 ELSE old.rows,
         hash  |-> st.chunk.rows]

\* The chunk and its checkpoint in one transaction; more rows than the digest
\* counted is an error, after the commit.
\* mutant: the chunk is committed, and the process may end before its checkpoint
WriteChunkFirst(p) ==
    /\ proc[p].pc = "write"
    /\ LET r == proc[p].run
           t == CATALOG[proc[p].table]
       IN  /\ tgt' = [tgt EXCEPT ![t] = Inserted(t, proc[p].chunk, r)]
           /\ cps' \in {cps, [cps EXCEPT ![r][t] = Checkpoint(p)]}
    /\ proc' = [proc EXCEPT ![p].pc = "read", ![p].chunk = None]
    /\ UNCHANGED <<src, runs, holder, touched, starts, faults>>
WriteChunk(p) ==
    /\ proc[p].pc = "write"
    /\ LET r == proc[p].run
           t == CATALOG[proc[p].table]
           c == Checkpoint(p)
           over == c.rows > RowCount(proc[p].digest, t)
       IN  /\ tgt' = [tgt EXCEPT ![t] = Inserted(t, proc[p].chunk, r)]
           /\ cps' = [cps EXCEPT ![r][t] = c]
           /\ proc' = IF over THEN Left(p)
                      ELSE [proc EXCEPT ![p].pc = "read", ![p].chunk = None]
           /\ holder' = IF over THEN None ELSE holder
    /\ UNCHANGED <<src, runs, touched, starts, faults>>

CheckSource(p) ==
    /\ proc[p].pc = "source"
    /\ \/ /\ SqliteDigest = proc[p].digest
          /\ proc' = [proc EXCEPT ![p].pc = "target"]
          /\ UNCHANGED <<src, tgt, runs, cps, holder, touched, starts, faults>>
       \/ SqliteDigest # proc[p].digest /\ Fail(p)

\* mutant: only the number of rows is compared
CheckTargetCounts(p) ==
    /\ proc[p].pc = "target"
    /\ \A t \in Table : Len(tgt[t]) = RowCount(proc[p].digest, t)
    /\ proc' = [proc EXCEPT ![p].pc = "complete"]
    /\ UNCHANGED <<src, tgt, runs, cps, holder, touched, starts, faults>>
CheckTarget(p) ==
    /\ proc[p].pc = "target"
    /\ \/ /\ PostgresDigest = proc[p].digest
          /\ proc' = [proc EXCEPT ![p].pc = "complete"]
          /\ UNCHANGED <<src, tgt, runs, cps, holder, touched, starts, faults>>
       \/ PostgresDigest # proc[p].digest /\ Fail(p)

Complete(p) ==
    /\ proc[p].pc = "complete"
    /\ runs' = [runs EXCEPT ![proc[p].run].state = "COMPLETED"]
    /\ proc' = Left(p) /\ Release(p)
    /\ UNCHANGED <<src, tgt, cps, touched, starts, faults>>
----------------------------------------------------------------------------
(* The rest of the world                                                   *)

\* The lock belongs to the connection and goes with it.
MigCrash(p) ==
    /\ proc[p].pc # "off" /\ faults < MaxFaults /\ faults' = faults + 1
    /\ proc' = Left(p) /\ Release(p)
    /\ UNCHANGED <<src, tgt, runs, cps, touched, starts>>

\* The file is opened immutable, which does not keep others from writing to it. Rows
\* are changed and added; that the source loses rows is not modelled.
ChangeSource(t, i, v) ==
    /\ faults < MaxFaults /\ faults' = faults + 1 /\ touched' = TRUE
    /\ src' = [src EXCEPT ![t] = IF i = Len(@) + 1 THEN Append(@, v) ELSE [@ EXCEPT ![i] = v]]
    /\ src' # src
    /\ UNCHANGED <<tgt, runs, cps, holder, proc, starts>>

ForeignRow(t, v) ==
    /\ faults < MaxFaults /\ faults' = faults + 1 /\ touched' = TRUE
    /\ tgt' = [tgt EXCEPT ![t] = Append(@, [val |-> v, by |-> None, rowid |-> 0])]
    /\ UNCHANGED <<src, runs, cps, holder, proc, starts>>

Step(p) == Lock(p) \/ Admit(p) \/ ReadChunk(p) \/ WriteChunk(p)
           \/ CheckSource(p) \/ CheckTarget(p) \/ Complete(p)

MigNext ==
    \/ \E p \in Proc : Step(p) \/ MigCrash(p) \/ \E r \in RunId : Begin(p, r)
    \/ \E t \in Table, v \in Val : \/ ForeignRow(t, v)
                                  \/ \E i \in 1 .. Len(src[t]) + 1 : ChangeSource(t, i, v)

\* A started migration goes on, and the operator runs a run id again while it is
\* not completed.
MigFairness ==
    /\ \A p \in Proc : WF_migVars(Step(p))
    /\ WF_migVars(\E p \in Proc, r \in RunId : RunState(r) = "RUNNING" /\ Begin(p, r))

MigSpec == MigInit /\ [][MigNext]_migVars /\ MigFairness
----------------------------------------------------------------------------
(* Properties                                                              *)

Digest == [Table -> [Val -> Nat]]
MigTypeOK ==
    /\ src \in [Table -> Seq(Val)]
    /\ cps \in [RunId -> [Table -> CheckpointRow \cup {None}]]
    /\ tgt \in [Table -> Seq(TargetRow)]
    /\ \A r \in RunId : runs[r] = None \/ runs[r] \in [fp : Digest, state : {"RUNNING", "COMPLETED"}]
    /\ holder \in Proc \cup {None}
    /\ \A p \in Proc : proc[p].table \in DOMAIN CATALOG /\ proc[p].run \in RunId \cup {None}

\* Checkpoint and rows go together: whatever crashes, retries and competing
\* processes do, a run inserts a source row at most once (engine.py:144-170).
CopiedOncePerRun ==
    \A t \in Table : \A i, j \in DOMAIN tgt[t] :
        tgt[t][i].by # None /\ i # j =>
            <<tgt[t][i].by, tgt[t][i].rowid>> # <<tgt[t][j].by, tgt[t][j].rowid>>

\* A COMPLETED run has put every row of the source it is registered with into the
\* target, also when the source was changed and changed back while it was copied
\* (engine.py:47-53). Rows beyond those can only come from running it again.
RowsBy(r, t) == {i \in DOMAIN tgt[t] : tgt[t][i].by = r}
CompletedIsComplete ==
    \A r \in RunId : RunState(r) = "COMPLETED" =>
        \A t \in Table, v \in Val :
            Cardinality({i \in RowsBy(r, t) : tgt[t][i].val = v}) >= runs[r].fp[t][v]

\* While a process copies, it alone holds the lock (engine.py:40, 239-244).
OneCopier ==
    \A p \in Proc : proc[p].pc \notin {"off", "lock"} => holder = p

\* The copy under the lock: one process at a time, and no row twice.
CopyIsSound == MigTypeOK /\ OneCopier /\ CopiedOncePerRun

\* A registered run is completed in the end if nobody touches the source or the
\* target and no second run is registered (a crash does not matter).
Untouched == ~touched /\ Cardinality({r \in RunId : runs[r] # None}) = 1
RunFinishes ==
    \A r \in RunId :
        (RunState(r) # None) ~> (~Untouched \/ RunState(r) = "COMPLETED")
=============================================================================
