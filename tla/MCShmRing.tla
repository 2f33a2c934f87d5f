------------------------------ MODULE MCShmRing ------------------------------
(* The ring on small instances.                                            *)
EXTENDS ShmRing

CONSTANTS r1
MCReaders == {r1}
=============================================================================
