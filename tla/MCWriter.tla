------------------------------ MODULE MCWriter ------------------------------
(* The writer on small instances.                                          *)
EXTENDS Writer

CONSTANTS s1, btc
MCSources     == {s1}
MCInstruments == {btc}
=============================================================================
