------------------------------ MODULE Recovery ------------------------------
(***************************************************************************)
(* Migration, gap recovery and backup on one Postgres database.            *)
(***************************************************************************)
EXTENDS GapRecovery, Backup

allVars == <<migVars, gapVars, bakVars>>

Init == MigInit /\ GapInit /\ BakInit

\* The gap commands and the backup meet only through the migration: neither reads
\* what the other writes.  A behaviour follows one of the two (bound: their
\* product would add no state of either).
NoGapCommand == gaps = [g \in Gap |-> None] /\ cover = [c \in CoverageId |-> None]
NoBackup     == bk = BkOff /\ \A b \in Bid : dump[b] = None /\ bman[b] = None

\* Failures of the backup count with the migration's faults.
Next ==
    \/ MigNext /\ UNCHANGED <<gapVars, bakVars>>
    \/ NoBackup /\ GapNext /\ UNCHANGED <<migVars, bakVars>>
    \/ NoGapCommand /\ BakStep /\ UNCHANGED <<migVars, gapVars>>
    \/ /\ NoGapCommand /\ BakFault /\ faults < MaxFaults /\ faults' = faults + 1
       /\ UNCHANGED <<src, tgt, runs, cps, holder, proc, touched, starts, gapVars>>

Spec == Init /\ [][Next]_allVars
=============================================================================
