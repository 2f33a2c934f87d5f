------------------------------ MODULE MCIngest ------------------------------
(* One adapter of each kind, two watchdog periods of patience, one symbol   *)
(* of kis, three places for poll loops and one trade per symbol.           *)
EXTENDS Ingest

MCKinds == {"upbit", "binance", "kis", "replay", "poll"}
MCLoops == 1..3
=============================================================================
