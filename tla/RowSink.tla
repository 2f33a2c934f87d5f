------------------------------ MODULE RowSink -------------------------------
(***************************************************************************)
(* What a persistence stage promises of its rows: a row is accepted once,  *)
(* later becomes stored or lost, never both, and stays so.  Rows are       *)
(* stored or lost in groups (a batch is one transaction).                  *)
(***************************************************************************)
CONSTANT Rows
VARIABLES accepted, stored, lost

vars == <<accepted, stored, lost>>

Init == accepted = {} /\ stored = {} /\ lost = {}

InFlight == accepted \ (stored \cup lost)

Accept ==
    /\ \E r \in Rows \ accepted : accepted' = accepted \cup {r}
    /\ UNCHANGED <<stored, lost>>

Store ==
    /\ \E S \in SUBSET InFlight : stored' = stored \cup S
    /\ UNCHANGED <<accepted, lost>>

Lose ==
    /\ \E S \in SUBSET InFlight : lost' = lost \cup S
    /\ UNCHANGED <<accepted, stored>>

Next == Accept \/ Store \/ Lose

Spec == Init /\ [][Next]_vars
=============================================================================
