----------------------------- MODULE Retention -----------------------------
(***************************************************************************)
(* Archive before delete: archive.py, retention.py and the archive and     *)
(* retention loop of services/writer.py (one process archives and prunes). *)
(*                                                                         *)
(* A row is a table and a time stamp; a segment is one table of one day;   *)
(* the content of a file is the set of rows in it, and a SHA-256 digest is *)
(* that set. Covered: late rows, damaged uploads, failing transfers, a     *)
(* crash between any two steps, a local file that gets lost. The profile   *)
(* is the production one: retention requires the remote archive.          *)
(***************************************************************************)
EXTENDS Integers, FiniteSets, Sequences

CONSTANTS DayLen,         \* time stamps per day (DAY_US)
          LastTs,         \* time stamps are 0..LastTs
          Lag,            \* archive_lag_s
          RetentionDays,  \* retention_days; with 0 of them prune deletes nothing
          DELETE_BATCH,   \* rows per DELETE
          MaxLate,        \* bound: rows that arrive for a day already over
          MaxFaults,      \* bound: transfer failures, lost files and crashes
          None, Damaged   \* no file; an upload that arrived broken

ASSUME RetentionAssumption ==
    /\ {DayLen, RetentionDays, DELETE_BATCH} \subseteq Nat \ {0}
    /\ {LastTs, Lag, MaxLate, MaxFaults} \subseteq Nat

ARCHIVE_TABLES == <<"trades", "book_top">>
Tables  == {ARCHIVE_TABLES[i] : i \in DOMAIN ARCHIVE_TABLES}
Days    == 0 .. (LastTs \div DayLen)
Row     == [t : Tables, ts : 0..LastTs]
Seg     == Tables \X Days
Content == SUBSET Row
Manifest == [src : Content, sha : Content]    \* what was selected, what is in the file
Idle    == [pc |-> "idle", todo |-> {}, seg |-> None, own |-> {}, man |-> None, seen |-> None]

VARIABLES
    db,         \* rows in the raw tables
    stored,     \* every row ever written to them (history)
    now,        \* the clock, in time stamps
    path,       \* per segment: content of <table>-<day>.csv.gz
    mpath,      \* per segment: its manifest
    versions,   \* per segment: the versioned copies, [man, content]
    obj,        \* remote artifacts: <<segment, src>> -> content
    objman,     \* remote manifests: <<segment, src>> -> manifest
    receipts,   \* per segment: verified receipts, [key, man], key = object id
    progress,   \* per segment: rows left after the last recorded delete
    arch,       \* the archiving thread: [pc, todo, seg, own, man, seen]
    prune,      \* the pruning thread: [pc, table, cutoff, cur, deleted]
    spoiled,    \* days whose source no longer matches what was proven (history)
    late, faults

files == <<path, mpath, versions>>
vars  == <<db, stored, now, files, obj, objman, receipts, progress, arch, prune,
           spoiled, late, faults>>

DayOf(r)   == r.ts \div DayLen
SegOf(r)   == <<r.t, DayOf(r)>>
SegRows(S, s) == {r \in S : SegOf(r) = s}
DayHi(d)   == (d + 1) * DayLen
MinOf(S)   == CHOOSE x \in S : \A y \in S : x <= y
MaxOf(S)   == CHOOSE x \in S : \A y \in S : x >= y

Rest == [pc |-> "rest", table |-> 1, cutoff |-> 0, cur |-> FALSE, deleted |-> FALSE]

Init ==
    /\ db = {} /\ stored = {} /\ now = 0
    /\ path = [s \in Seg |-> None]
    /\ mpath = [s \in Seg |-> None] /\ versions = [s \in Seg |-> {}]
    /\ obj = [k \in {} |-> {}] /\ objman = [k \in {} |-> {}]
    /\ receipts = [s \in Seg |-> {}] /\ progress = [s \in Seg |-> None]
    /\ arch = Idle /\ prune = Rest
    /\ spoiled = {} /\ late = 0 /\ faults = 0

----------------------------------------------------------------------------
(* The source: rows of any time up to now may arrive, also for past days.  *)

\* A segment has been read for the archive: a further row is a late one.
Read(s) == arch.seg = s \/ path[s] # None \/ versions[s] # {} \/ receipts[s] # {}

Insert(r) ==
    /\ r \notin stored /\ r.ts <= now
    /\ late' = IF Read(SegOf(r)) THEN late + 1 ELSE late
    /\ late' <= MaxLate
    /\ db' = db \cup {r} /\ stored' = stored \cup {r}
    /\ spoiled' = IF Read(SegOf(r)) THEN spoiled \cup {DayOf(r)} ELSE spoiled
    /\ UNCHANGED <<now, files, obj, objman, receipts, progress, arch, prune, faults>>

Tick ==
    /\ now <= LastTs + Lag + RetentionDays * DayLen    \* bound: every row has expired
    /\ now' = now + 1
    /\ UNCHANGED <<db, stored, files, obj, objman, receipts, progress, arch, prune,
                   spoiled, late, faults>>

----------------------------------------------------------------------------
(* Archive                                                                 *)

\* verify_file: the file has the size and digest of its manifest and as many rows.
verify_file(content, m) == m # None /\ content = m.sha
                           /\ Cardinality(content) = Cardinality(m.src)

\* remote_receipt_days: the days of a table that have a verified receipt.
remote_receipt_days(t) == {d \in Days : receipts[<<t, d>>] # {}}

\* pending_days: settled days between the first and the last row of the table
\* that have no receipt yet.
pending_days(t) ==
    LET days == {DayOf(r) : r \in {x \in db : x.t = t}}
    IN  IF days = {} THEN {}
        ELSE {d \in MinOf(days) .. MaxOf(days) :
                 DayHi(d) <= now - Lag /\ d \notin remote_receipt_days(t)}

\* _archive_once: the work list is made once, before the first export.
StartArchive ==
    /\ arch.pc = "idle"
    /\ prune.pc = "rest"
    /\ LET todo == UNION {{<<t, d>> : d \in pending_days(t)} : t \in Tables}
       IN  arch' = [Idle EXCEPT !.pc = IF todo = {} THEN "done" ELSE "next", !.todo = todo]
    /\ UNCHANGED <<db, stored, now, files, obj, objman, receipts, progress, prune,
                   spoiled, late, faults>>

\* Days outside, tables inside.
NextSeg(todo) ==
    LET d == MinOf({s[2] : s \in todo})
        i == MinOf({j \in DOMAIN ARCHIVE_TABLES : <<ARCHIVE_TABLES[j], d>> \in todo})
    IN  <<ARCHIVE_TABLES[i], d>>

AfterSeg(st) ==
    LET rest == st.todo \ {st.seg}
    IN  [Idle EXCEPT !.pc = IF rest = {} THEN "done" ELSE "next", !.todo = rest]

\* _preserve_versioned_archive: a copy named after the source digest, made once.
Preserved(s, content, m) ==
    IF \E v \in versions[s] : v.man.src = m.src THEN versions[s]
    ELSE versions[s] \cup {[man |-> m, content |-> content]}
Restorable(s) == {v \in versions[s] : verify_file(v.content, v.man)}

\* export_day on a segment whose file is there and verified, or whose versioned
\* copy can be restored: nothing is selected again.
ExportSkip ==
    /\ arch.pc = "next"
    /\ LET s == NextSeg(arch.todo)
       IN  /\ \/ /\ verify_file(path[s], mpath[s])
                 /\ versions' = [versions EXCEPT ![s] = Preserved(s, path[s], mpath[s])]
                 /\ UNCHANGED <<path, mpath>>
              \/ /\ ~verify_file(path[s], mpath[s])
                 /\ \E v \in Restorable(s) :
                       /\ \A w \in Restorable(s) :
                             Cardinality(w.man.src) <= Cardinality(v.man.src)
                       /\ path' = [path EXCEPT ![s] = v.content]
                       /\ mpath' = [mpath EXCEPT ![s] = v.man]
                 /\ UNCHANGED versions
           /\ arch' = [arch EXCEPT !.pc = "push", !.seg = s, !.man = mpath'[s]]
    /\ UNCHANGED <<db, stored, now, obj, objman, receipts, progress, prune,
                   spoiled, late, faults>>

\* export_day otherwise: select the day in one snapshot into a .partial file
\* (a leftover of a crash is removed first).
ExportSelect ==
    /\ arch.pc = "next"
    /\ LET s == NextSeg(arch.todo)
       IN  /\ ~verify_file(path[s], mpath[s]) /\ Restorable(s) = {}
           /\ arch' = [arch EXCEPT !.pc = "replace", !.seg = s, !.own = SegRows(db, s)]
    /\ UNCHANGED <<db, stored, now, files, obj, objman, receipts, progress, prune,
                   spoiled, late, faults>>

\* The .partial file is renamed; an old manifest stays until the next step.
ExportReplace ==
    /\ arch.pc = "replace"
    /\ path' = [path EXCEPT ![arch.seg] = arch.own]
    /\ arch' = [arch EXCEPT !.pc = "manifest", !.man = [src |-> arch.own, sha |-> arch.own]]
    /\ UNCHANGED <<db, stored, now, mpath, versions, obj, objman, receipts, progress,
                   prune, spoiled, late, faults>>

\* Write the manifest and keep a versioned copy of whatever path holds now.
ExportManifest ==
    /\ arch.pc = "manifest"
    /\ LET s == arch.seg
           m == arch.man
       IN  /\ mpath' = [mpath EXCEPT ![s] = m]
           /\ versions' = [versions EXCEPT ![s] = Preserved(s, path[s], m)]
    /\ arch' = [arch EXCEPT !.pc = "push"]
    /\ UNCHANGED <<db, stored, now, path, obj, objman, receipts, progress, prune,
                   spoiled, late, faults>>

Put(f, k, v) == [x \in DOMAIN f \cup {k} |-> IF x = k THEN v ELSE f[x]]
Object    == <<arch.seg, arch.man.src>>

\* verify_remote_roundtrip, first half: the local file must match its manifest
\* as it is on disk; then the artifact and the manifest are pushed. The upload
\* may arrive damaged although the command reports success.
Push ==
    /\ arch.pc = "push"
    /\ LET s == arch.seg
       IN  \/ /\ verify_file(path[s], mpath[s])
              /\ \E c \in {path[s]} \cup IF faults < MaxFaults THEN {Damaged} ELSE {} :
                    /\ obj' = Put(obj, Object, c)
                    /\ faults' = IF c = Damaged THEN faults + 1 ELSE faults
              /\ objman' = Put(objman, Object, mpath[s])
              /\ arch' = [arch EXCEPT !.pc = "fetch", !.seen = mpath[s]]
           \/ /\ ~verify_file(path[s], mpath[s])
              /\ arch' = AfterSeg(arch)
              /\ UNCHANGED <<obj, objman, faults>>
    /\ UNCHANGED <<db, stored, now, files, receipts, progress, prune, spoiled, late>>

\* mutant: the fetched artifact is not compared
FetchVerifyManifestOnly ==
    /\ arch.pc = "fetch"
    /\ receipts' = [receipts EXCEPT ![arch.seg] =
          @ \cup {[key |-> Object[2], man |-> objman[Object]]}]
    /\ arch' = AfterSeg(arch)
    /\ UNCHANGED <<db, stored, now, files, obj, objman, progress, prune, spoiled, late, faults>>

\* verify_remote_roundtrip, second half: fetch both objects, compare the
\* manifest with the local one, the artifact with the manifest, write the receipt.
FetchVerify ==
    /\ arch.pc = "fetch"
    /\ LET st == arch
           k  == Object
           m  == objman[k]
       IN  receipts' =
             IF obj[k] # Damaged /\ m = st.seen /\ verify_file(obj[k], m)
             THEN [receipts EXCEPT ![st.seg] =
                     {x \in @ : x.key # k[2]} \cup {[key |-> k[2], man |-> m]}]
             ELSE receipts
    /\ arch' = AfterSeg(arch)
    /\ UNCHANGED <<db, stored, now, files, obj, objman, progress, prune, spoiled, late, faults>>

\* A transfer command fails or times out: the segment counts as failed.
TransferFails ==
    /\ arch.pc \in {"push", "fetch"}
    /\ faults < MaxFaults /\ faults' = faults + 1
    /\ arch' = AfterSeg(arch)
    /\ UNCHANGED <<db, stored, now, files, obj, objman, receipts, progress, prune, spoiled, late>>

----------------------------------------------------------------------------
(* Retention                                                               *)

FloorDay == MinOf({DayOf(r) : r \in db})

\* The one verified receipt of a segment (pending_days leaves out a segment that
\* has one, so a single archiver never writes a second).
Receipt(s) == CHOOSE x \in receipts[s] : TRUE

\* _source_matches_receipt: what is left of the day is what the progress file
\* says, or, with no progress file, what the receipt says.
\* mutant: a day once begun is trusted
MatchesTrusting(s) == progress[s] # None \/ SegRows(db, s) = Receipt(s).man.src
\* mutant: progress is never read back
MatchesNoProgress(s) == SegRows(db, s) = Receipt(s).man.src
Matches(s) == SegRows(db, s) = IF progress[s] # None THEN progress[s] ELSE Receipt(s).man.src

Common == {d \in Days : \A t \in Tables : d \in remote_receipt_days(t)}
FirstUncovered == MinOf({d \in 0 .. (LastTs \div DayLen) + 1 :
                            d >= FloorDay /\ d \notin Common})

\* retention_cutoff: the reason it is refused, or "ok" with the first day that
\* is not covered.
retention_cutoff ==
    IF db = {} THEN [why |-> "no_source_rows", day |-> 0]
    ELSE IF FloorDay \notin Common THEN [why |-> "missing_remote_coverage", day |-> 0]
    ELSE IF \A t \in Tables, d \in FloorDay .. (FirstUncovered - 1) :
               Matches(<<t, d>>)
    THEN [why |-> "ok", day |-> FirstUncovered]
    ELSE [why |-> "source_day_changed", day |-> 0]

\* The head of prune: the age limit and the archive floor, whichever is earlier.
PruneCutoff(rc) == MinOf({now - RetentionDays * DayLen, rc.day * DayLen})

\* _archive_floor_us, _prune_locked: the floor is computed once, before the lock
\* is taken; no floor, nothing to do.
StartPrune ==
    /\ arch.pc = "done" /\ prune.pc = "rest"
    /\ LET rc == retention_cutoff
       IN  prune' = IF rc.why = "ok"
                    THEN [Rest EXCEPT !.pc = "batch", !.cutoff = PruneCutoff(rc)]
                    ELSE Rest
    /\ arch' = Idle
    /\ UNCHANGED <<db, stored, now, files, obj, objman, receipts, progress, spoiled, late, faults>>

NextTable(cur) ==
    IF prune.table = Len(ARCHIVE_TABLES) THEN Rest
    ELSE [prune EXCEPT !.table = @ + 1, !.cur = FALSE, !.deleted = @ \/ cur]

\* delete_older_than: any DELETE_BATCH of the rows before the cutoff (LIMIT
\* without ORDER BY), or all of them.
Deletable(t, cutoff) ==
    LET old == {r \in db : r.t = t /\ r.ts < cutoff}
    IN  {del \in SUBSET old : Cardinality(del) = MinOf({Cardinality(old), DELETE_BATCH})}

\* _write_progress: the rows of the day that are left.
Recorded(s, rows) == [progress EXCEPT ![s] = SegRows(rows, s)]

\* One batch of prune, under the lock the writer's inserts take: the cutoff is
\* checked again, at most DELETE_BATCH rows of the oldest day go, and the rows
\* left are recorded. `fate`: the record is written, cannot be written, or the
\* process dies first.
PruneBatch(fate) ==
    /\ prune.pc = "batch"
    /\ fate # "recorded" => faults < MaxFaults
    /\ LET t  == ARCHIVE_TABLES[prune.table]
           rc == retention_cutoff
           bc == MinOf({prune.cutoff, rc.day * DayLen, DayHi(FloorDay)})
           s  == <<t, FloorDay>>
       IN  IF rc.why # "ok"
           THEN /\ fate = "recorded"
                /\ prune' = IF rc.why = "no_source_rows" /\ prune.deleted
                            THEN NextTable(prune.cur) ELSE Rest
                /\ UNCHANGED <<db, progress, spoiled, faults, arch>>
           ELSE \E del \in Deletable(t, bc) :
                /\ fate # "recorded" => del # {}
                /\ db' = db \ del
                /\ faults' = IF fate = "recorded" THEN faults ELSE faults + 1
                /\ progress' = IF del # {} /\ fate = "recorded"
                               THEN Recorded(s, db') ELSE progress
                /\ spoiled' = IF fate = "recorded" THEN spoiled ELSE spoiled \cup {s[2]}
                /\ prune' = CASE fate = "dies" -> Rest
                              [] fate = "unrecorded" -> NextTable(prune.cur)
                              [] Cardinality(del) = DELETE_BATCH -> [prune EXCEPT !.cur = TRUE]
                              [] OTHER -> NextTable(prune.cur \/ del # {})
                /\ arch' = IF fate = "dies" THEN Idle ELSE arch
    /\ UNCHANGED <<stored, now, files, obj, objman, receipts, late>>

\* The time budget is used up between two batches.
BudgetHit ==
    /\ prune.pc = "batch" /\ faults < MaxFaults
    /\ prune' = Rest /\ faults' = faults + 1
    /\ UNCHANGED <<db, stored, now, files, obj, objman, receipts, progress, arch, spoiled, late>>

----------------------------------------------------------------------------
(* Faults                                                                  *)

Crash ==
    /\ faults < MaxFaults /\ faults' = faults + 1
    /\ arch # Idle \/ prune # Rest
    /\ arch' = Idle /\ prune' = Rest
    /\ UNCHANGED <<db, stored, now, files, obj, objman, receipts, progress, spoiled, late>>

\* The file or its manifest disappears from the archive directory, which may be
\* a synchronised folder.
LoseLocal(s) ==
    /\ faults < MaxFaults /\ faults' = faults + 1
    /\ path[s] # None
    /\ path' = [path EXCEPT ![s] = None] /\ mpath' = [mpath EXCEPT ![s] = None]
    /\ UNCHANGED <<db, stored, now, versions, obj, objman, receipts, progress, arch,
                   prune, spoiled, late>>

ArchiveStep == StartArchive \/ ExportSkip \/ ExportSelect \/ ExportReplace
               \/ ExportManifest \/ Push \/ FetchVerify

Next ==
    \/ \E r \in Row : Insert(r)
    \/ Tick \/ ArchiveStep \/ TransferFails \/ Crash \/ StartPrune \/ BudgetHit
    \/ \E f \in {"recorded", "unrecorded", "dies"} : PruneBatch(f)
    \/ \E s \in Seg : LoseLocal(s)

\* The clock runs, the retention loop comes round again and again (its wait has
\* a timeout), and each of its calls returns (every transfer has a timeout).
Fairness == WF_vars(Tick) /\ WF_vars(ArchiveStep)
            /\ WF_vars(StartPrune) /\ WF_vars(PruneBatch("recorded"))

Spec == Init /\ [][Next]_vars /\ Fairness
----------------------------------------------------------------------------
(* Properties                                                              *)

Files == Content \cup {None}
TypeOK ==
    /\ db \subseteq stored /\ stored \subseteq Row /\ now \in Nat
    /\ path \in [Seg -> Files] /\ mpath \in [Seg -> Manifest \cup {None}]
    /\ versions \in [Seg -> SUBSET [man : Manifest, content : Files]]
    /\ DOMAIN obj \subseteq Seg \X Content /\ DOMAIN objman = DOMAIN obj
    /\ receipts \in [Seg -> SUBSET [key : Content, man : Manifest]]
    /\ progress \in [Seg -> Files]
    /\ prune.pc \in {"rest", "batch"} /\ prune.table \in DOMAIN ARCHIVE_TABLES
    /\ arch.pc \in
          {"idle", "next", "replace", "manifest", "push", "fetch", "done"}

\* A row that was stored and is gone from the raw tables can be read back from a
\* remote object for which there is a verified receipt (archive.py: move before
\* delete; retention.py:473-478 re-checks under the lock).
NothingLost ==
    \A r \in stored \ db :
       \E x \in receipts[SegOf(r)] :
          /\ <<SegOf(r), x.key>> \in DOMAIN obj
          /\ obj[<<SegOf(r), x.key>>] # Damaged
          /\ r \in obj[<<SegOf(r), x.key>>]

\* Whatever crashes, a row is in the tables or in a verified remote object.
RowsAreSafe == TypeOK /\ NothingLost

\* A day with a row newer than its proof loses nothing more: while a late row is
\* present none of its day's rows is deleted.
LateRowsStopDeletion ==
    [][\A s \in Seg :
         (\E r \in SegRows(db, s) : \A x \in receipts[s] : r \notin x.man.src)
            => SegRows(db, s) \subseteq db']_vars

\* An expired row that stays for ever is held back by something that keeps a day
\* from being proven: a late row or an unrecorded delete on any covered day
\* (retention.py:388-393 refuses the whole pass for one such day, the days
\* before it included), or an earlier day for which a table has nothing to
\* archive (retention.py:385-386: the floor must be covered by every table).
Unprovable(d) == \E t \in Tables : receipts[<<t, d>>] = {}
                    /\ d \notin {DayOf(r) : r \in {x \in stored : x.t = t}}
ExpiredRowsGo ==
    <>[](\A r \in db : r.ts < now - RetentionDays * DayLen =>
            spoiled # {} \/ \E d \in 0 .. DayOf(r) : Unprovable(d))
=============================================================================
