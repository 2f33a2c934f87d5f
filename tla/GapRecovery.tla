---------------------------- MODULE GapRecovery ----------------------------
(***************************************************************************)
(* The life of a data gap (gaps.py, gap_repository.py, `mdfeed gap`): it is *)
(* closed with an end time and marked recovered on evidence, which is a    *)
(* completed migration (Migration), a coverage record bound to the same    *)
(* fingerprint and a receipt that names both. Commands are processes that  *)
(* read the record, decide and save it; nothing locks the record.          *)
(***************************************************************************)
EXTENDS Migration

CONSTANTS Gap, Cli, CoverageId, ReceiptId,
          StartedAt,  \* started_at of each gap, which no command changes
          Starts,     \* when a coverage may begin
          Ends,       \* end times an operator may enter, or a coverage has
          Resolved    \* gaps whose required scope names venues and symbols

ASSUME GapAssumption ==
    /\ StartedAt \in [Gap -> Nat] /\ Starts \cup Ends \subseteq Nat /\ Resolved \subseteq Gap
    /\ None \notin Gap \cup CoverageId \cup ReceiptId \cup Ends /\ None # "COMPLETED"

VARIABLES
    gaps,     \* data_gaps: gap -> [state, end, receipt], None before it is seeded
    cover,    \* authoritative_gap_coverages: id -> [gap, lo, hi, fp, rows] or None
    rcpts,    \* gap_recovery_receipts: id -> [gap, lo, hi, run, cov] or None
    cli       \* per command: [pc, gap, rec, new]

gapVars == <<gaps, cover, rcpts, cli>>
CliOff  == [pc |-> "off", gap |-> None, rec |-> None, new |-> None]
OpenGap == [state |-> "OPEN", end |-> None, receipt |-> None]

GapInit ==
    /\ gaps = [g \in Gap |-> None]
    /\ cover = [c \in CoverageId |-> None] /\ rcpts = [r \in ReceiptId |-> None]
    /\ cli = [c \in Cli |-> CliOff]

\* open_repository inserts the known incidents unless they are there.
Seeded(gs) == [g \in Gap |-> IF gs[g] = None THEN OpenGap ELSE gs[g]]

\* Every command opens the repository and reads its record.
CliGet(c, cmd, g) ==
    /\ cli[c].pc = "off"
    /\ gaps' = Seeded(gaps)
    /\ cli' = [cli EXCEPT ![c] = [CliOff EXCEPT !.pc = cmd, !.gap = g, !.rec = gaps'[g]]]
    /\ UNCHANGED <<cover, rcpts>>

CliEnds(c) == cli' = [cli EXCEPT ![c] = CliOff]

\* close_gap: only a gap that was open when it was read. The end is not compared
\* with the start.
\* mutant: any state can be closed
MayCloseAny(rec) == TRUE
MayClose(rec) == rec.state = "OPEN"
CliClose(c, e) ==
    /\ cli[c].pc = "close" /\ CliEnds(c)
    /\ gaps' = IF MayClose(cli[c].rec)
               THEN [gaps EXCEPT ![cli[c].gap] =
                        [state |-> "ENDED_UNRECOVERED", end |-> e, receipt |-> None]]
               ELSE gaps
    /\ UNCHANGED <<cover, rcpts>>

\* record_trusted_coverage: the first record under an id stays, a second one only
\* sets its status.
RecordCoverage(id, g, lo, hi, fp, n) ==
    /\ cover' = [cover EXCEPT ![id] = IF @ # None THEN @
                    ELSE [gap |-> g, lo |-> lo, hi |-> hi, fp |-> fp, rows |-> n]]
    /\ cover' # cover
    /\ UNCHANGED <<gaps, rcpts, cli>>

\* _completed_migration: the run is completed and the tables still are what it
\* left; _validate_authorities: the coverage is bound to the same fingerprint,
\* spans the gap, has its scope (each gap has its own) and the right row counts.
\* mutant: a coverage may begin after the gap
ValidAuthoritiesAnyStart(g, end, run, id) ==
    /\ RunState(run) = "COMPLETED" /\ PostgresDigest = runs[run].fp
    /\ cover[id] # None /\ cover[id].fp = runs[run].fp
    /\ cover[id].hi >= end /\ cover[id].gap = g
    /\ \A t \in Table : cover[id].rows[t] = RowCount(PostgresDigest, t)
ValidAuthorities(g, end, run, id) ==
    /\ RunState(run) = "COMPLETED" /\ PostgresDigest = runs[run].fp
    /\ cover[id] # None /\ cover[id].fp = runs[run].fp
    /\ cover[id].lo <= StartedAt[g] /\ cover[id].hi >= end /\ cover[id].gap = g
    /\ \A t \in Table : cover[id].rows[t] = RowCount(PostgresDigest, t)

\* record_trusted_receipt, after its read of the record.
CliReceipt(c, id, run, cov) ==
    /\ cli[c].pc = "receipt" /\ CliEnds(c)
    /\ LET rec == cli[c].rec
           ok  == /\ rec.end # None /\ rcpts[id] = None
                  /\ ValidAuthorities(cli[c].gap, rec.end, run, cov)
       IN  rcpts' = IF ok THEN [rcpts EXCEPT ![id] =
                          [gap |-> cli[c].gap, lo |-> StartedAt[cli[c].gap], hi |-> rec.end,
                           run |-> run, cov |-> cov]]
                    ELSE rcpts
    /\ UNCHANGED <<gaps, cover>>

\* get_verified: the receipt is validated again against the gap as it is now.
GetVerified(id) ==
    /\ rcpts[id] # None
    /\ LET r   == rcpts[id]
           rec == gaps[r.gap]
       IN  /\ rec.end # None /\ ValidAuthorities(r.gap, rec.end, r.run, r.cov)
           /\ r.lo = StartedAt[r.gap] /\ r.hi = rec.end

\* mark_recovered, on the record this command has read.
MarkRecovered(g, rec, id) ==
    /\ rec.state # "OPEN" /\ rec.end # None /\ g \in Resolved
    /\ rcpts[id].lo <= StartedAt[g] /\ rcpts[id].hi >= rec.end /\ rcpts[id].gap = g

CliVerify(c, id) ==
    /\ cli[c].pc = "verify"
    /\ cli' = [cli EXCEPT ![c] =
                 IF GetVerified(id) /\ MarkRecovered(cli[c].gap, cli[c].rec, id)
                 THEN [@ EXCEPT !.pc = "save", !.new =
                         [state |-> "RECOVERED", end |-> cli[c].rec.end, receipt |-> id]]
                 ELSE CliOff]
    /\ UNCHANGED <<gaps, cover, rcpts>>

\* StorageGapRepository.save: an unconditional upsert.
CliSave(c) ==
    /\ cli[c].pc = "save" /\ CliEnds(c)
    /\ gaps' = [gaps EXCEPT ![cli[c].gap] = cli[c].new]
    /\ UNCHANGED <<cover, rcpts>>

Fingerprints == {runs[r].fp : r \in {x \in RunId : runs[x] # None}} \cup {SqliteDigest}
Counts(fp) == [t \in Table |-> RowCount(fp, t)]
GapNext ==
    \/ \E c \in Cli :
          \/ \E g \in Gap, cmd \in {"close", "receipt", "verify"} : CliGet(c, cmd, g)
          \/ \E e \in Ends : CliClose(c, e)
          \/ \E id \in ReceiptId, run \in RunId, cov \in CoverageId : CliReceipt(c, id, run, cov)
          \/ \E id \in ReceiptId : CliVerify(c, id)
          \/ CliSave(c)
    \/ \E id \in CoverageId, g \in Gap, lo \in Starts, hi \in Ends, fp \in Fingerprints :
          \E n \in {Counts(fp), [t \in Table |-> 0]} : RecordCoverage(id, g, lo, hi, fp, n)
----------------------------------------------------------------------------
(* Properties                                                              *)

GapTypeOK ==
    /\ \A g \in Gap : gaps[g] = None \/
          /\ gaps[g].state \in {"OPEN", "ENDED_UNRECOVERED", "RECOVERED"}
          /\ gaps[g].end \in Ends \cup {None} /\ gaps[g].receipt \in ReceiptId \cup {None}
    /\ \A g \in Gap : gaps[g] # None => (gaps[g].state = "OPEN" <=> gaps[g].end = None)

\* A gap shown as recovered has a receipt whose migration is completed, with a
\* coverage of the same fingerprint that spans the recorded interval, from its
\* start to its end: whatever two commands on one record overwrite of each other
\* (gap_repository.py:313-333).
RecoveredHasEvidence ==
    \A g \in Gap : gaps[g] # None /\ gaps[g].state = "RECOVERED" =>
        LET r == rcpts[gaps[g].receipt]
        IN  /\ r # None /\ r.gap = g /\ g \in Resolved /\ RunState(r.run) = "COMPLETED"
            /\ cover[r.cov].lo <= StartedAt[g] /\ cover[r.cov].hi >= gaps[g].end
            /\ cover[r.cov].fp = runs[r.run].fp

\* What the table of gaps says is covered by evidence, whoever wrote it last.
GapsAreSound == GapTypeOK /\ RecoveredHasEvidence

\* A recovered gap goes back only through a command that read it before it was
\* recovered: without a race the state never returns (gaps.py:159-173).
RecoveredIsKept ==
    [][\A g \in Gap : gaps[g] # None /\ gaps[g].state = "RECOVERED" =>
          \/ gaps'[g].state = "RECOVERED"
          \/ \E c \in Cli : cli[c].gap = g /\ cli[c].rec.state # "RECOVERED"]_gapVars
=============================================================================
