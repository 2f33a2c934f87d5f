------------------------------- MODULE Backup -------------------------------
(***************************************************************************)
(* backup.py and ops/backup_*.py on the database of Migration: a dump of   *)
(* one snapshot with its digests, its remote copy verified by a round      *)
(* trip, and the drill that restores it into a scratch database.           *)
(***************************************************************************)
EXTENDS Migration

CONSTANTS Bid,        \* backups, in the order they are made: 1..n
          Damaged     \* an upload that arrived broken

Snapshots == [rows : [Table -> Seq(TargetRow)],
              cps  : [RunId -> [Table -> CheckpointRow \cup {None}]]]
Manifests == [sha : Snapshots, digest : [Table -> [Val -> Nat]]]

ASSUME BackupAssumption ==
    Bid \subseteq Nat /\ None # Damaged /\ None \notin Manifests \cup Bid

VARIABLES
    bk,       \* create_backup: [pc, id, snap]
    dump,     \* id -> the local dump, None when there is none
    bman,     \* id -> the local manifest [sha, digest]
    robj,     \* id -> the remote dump
    rman,     \* id -> the remote manifest
    brec,     \* ids with a verified receipt
    drill,    \* restore_drill: [pc, art, man]
    scratch,  \* scratch databases left: one per entry, the dump restored into it
    broken    \* a crash or a failed DROP (history)

bakVars == <<bk, dump, bman, robj, rman, brec, drill, scratch, broken>>
BkOff    == [pc |-> "off", id |-> None, snap |-> None]
DrillOff == [pc |-> "off", art |-> None, man |-> None]

BakInit ==
    /\ bk = BkOff /\ drill = DrillOff
    /\ dump = [b \in Bid |-> None] /\ bman = dump /\ robj = dump /\ rman = dump
    /\ brec = {} /\ scratch = << >> /\ broken = FALSE

Snapshot == [rows |-> tgt, cps |-> cps]
DigestOf(snap) == [t \in Table |-> [v \in Val |->
    Cardinality({i \in DOMAIN snap.rows[t] : snap.rows[t][i].val = v})]]

\* The transaction is REPEATABLE READ and its snapshot is exported; the digests
\* are computed in it.
BackupStart(b) ==
    /\ bk.pc = "off" /\ \A x \in Bid : x < b => dump[x] # None \/ bman[x] # None
    /\ dump[b] = None /\ bman[b] = None
    /\ bk' = [pc |-> "dump", id |-> b, snap |-> Snapshot]
    /\ UNCHANGED <<dump, bman, robj, rman, brec, drill, scratch, broken>>

\* pg_dump --snapshot into .partial, renamed when it is complete.
\* mutant: rows and bookkeeping dumped at two moments
BackupDumpTorn ==
    /\ bk.pc = "dump" /\ bk' = [bk EXCEPT !.pc = "manifest"]
    /\ dump' = [dump EXCEPT ![bk.id] = [rows |-> bk.snap.rows, cps |-> cps]]
    /\ UNCHANGED <<bman, robj, rman, brec, drill, scratch, broken>>
BackupDump ==
    /\ bk.pc = "dump" /\ bk' = [bk EXCEPT !.pc = "manifest"]
    /\ dump' = [dump EXCEPT ![bk.id] = bk.snap]
    /\ UNCHANGED <<bman, robj, rman, brec, drill, scratch, broken>>

WriteManifest ==
    /\ bk.pc = "manifest" /\ bk' = [bk EXCEPT !.pc = "push"]
    /\ bman' = [bman EXCEPT ![bk.id] = [sha |-> dump[bk.id], digest |-> DigestOf(bk.snap)]]
    /\ UNCHANGED <<dump, robj, rman, brec, drill, scratch, broken>>

\* verify_remote_backup: the dump is compared with its manifest, both are pushed
\* (the upload may arrive broken) ...
BackupPush(c) ==
    /\ bk.pc = "push" /\ dump[bk.id] = bman[bk.id].sha
    /\ c \in {dump[bk.id], Damaged}
    /\ robj' = [robj EXCEPT ![bk.id] = c] /\ rman' = [rman EXCEPT ![bk.id] = bman[bk.id]]
    /\ bk' = [bk EXCEPT !.pc = "fetch"]
    /\ UNCHANGED <<dump, bman, brec, drill, scratch, broken>>

\* ... and fetched again: the receipt is written when both match.
FetchMatches(b) == rman[b] = bman[b] /\ robj[b] = bman[b].sha
BackupVerify ==
    /\ bk.pc = "fetch" /\ bk' = BkOff
    /\ brec' = IF FetchMatches(bk.id) THEN brec \cup {bk.id} ELSE brec
    /\ UNCHANGED <<dump, bman, robj, rman, drill, scratch, broken>>

\* A tool or a transfer fails or the process dies: what is done stays.
BackupFails ==
    /\ bk.pc # "off" /\ bk' = BkOff
    /\ UNCHANGED <<dump, bman, robj, rman, brec, drill, scratch, broken>>

\* The drill takes the latest manifest, whose dump must be there; with a fetch
\* command it takes the remote pair, once that has been verified again.
Latest == {b \in Bid : bman[b] # None /\ \A x \in Bid : bman[x] # None => x <= b}
Fetched(b, remote) == IF remote THEN robj[b] ELSE dump[b]
\* Then CREATE DATABASE under a random name.
DrillStart(remote) ==
    /\ drill.pc = "off"
    /\ \E b \in Latest :
          /\ dump[b] # None /\ Fetched(b, remote) = bman[b].sha
          /\ remote => rman[b] = bman[b]
          /\ drill' = [pc |-> "restore", art |-> Fetched(b, remote), man |-> bman[b]]
    /\ scratch' = Append(scratch, None)
    /\ UNCHANGED <<bk, dump, bman, robj, rman, brec, broken>>

\* pg_restore, then the digests of what is in it against the manifest.
DrillRestore ==
    /\ drill.pc = "restore"
    /\ scratch' = [scratch EXCEPT ![Len(scratch)] = drill.art]
    /\ drill' = [drill EXCEPT !.pc = IF DigestOf(drill.art) = drill.man.digest
                                     THEN "drop" ELSE "failed"]
    /\ UNCHANGED <<bk, dump, bman, robj, rman, brec, broken>>

\* pg_restore fails: the finally clause still drops the database.
RestoreFails ==
    /\ drill.pc = "restore" /\ drill' = [drill EXCEPT !.pc = "failed"]
    /\ UNCHANGED <<bk, dump, bman, robj, rman, brec, scratch, broken>>

DrillDrop ==
    /\ drill.pc \in {"drop", "failed"} /\ drill' = DrillOff
    /\ scratch' = SubSeq(scratch, 1, Len(scratch) - 1)
    /\ UNCHANGED <<bk, dump, bman, robj, rman, brec, broken>>

\* The DROP fails, or the process dies.
DrillBreaks ==
    /\ drill.pc # "off" /\ drill' = DrillOff /\ broken' = TRUE
    /\ UNCHANGED <<bk, dump, bman, robj, rman, brec, scratch>>

BakStep == BackupDump \/ WriteManifest \/ BackupVerify \/ DrillRestore
           \/ DrillDrop \/ (\E r \in BOOLEAN : DrillStart(r))
           \/ (\E b \in Bid : BackupStart(b) \/ BackupPush(dump[b]))
BakFault == BackupFails \/ RestoreFails \/ DrillBreaks \/ BackupPush(Damaged)
----------------------------------------------------------------------------
(* Properties                                                              *)

\* The digests in a manifest are those of the dump beside it, whatever is
\* committed while the dump is made (backup.py:405-425).
ManifestIsOfDump ==
    \A b \in Bid : bman[b] # None => DigestOf(bman[b].sha) = bman[b].digest

\* A receipt promises that the remote copy is the dump the manifest describes, so
\* a drill from the remote copy of a verified backup succeeds.
VerifiedIsRestorable ==
    \A b \in brec : robj[b] = bman[b].sha /\ DigestOf(robj[b]) = rman[b].digest

\* A dump holds the rows and the migration's bookkeeping of one moment: restored,
\* it can be resumed without copying a row twice.
DumpIsResumable ==
    \A b \in Bid : dump[b] # None => \A r \in RunId, t \in Table :
        LET copied == Cardinality({i \in DOMAIN dump[b].rows[t] : dump[b].rows[t][i].by = r})
        IN  copied = IF dump[b].cps[r][t] = None THEN 0 ELSE dump[b].cps[r][t].rows

\* The drill leaves no database behind, unless its process dies or the DROP
\* itself fails (backup.py:513-525).
NoScratchLeft == drill.pc = "off" /\ scratch # << >> => broken
\* A backup is one moment of the database, described by its manifest, and what
\* is called verified can be restored; trying it leaves nothing behind.
BackupIsSound ==
    ManifestIsOfDump /\ VerifiedIsRestorable /\ DumpIsResumable /\ NoScratchLeft
=============================================================================
