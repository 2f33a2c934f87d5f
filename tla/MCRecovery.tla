----------------------------- MODULE MCRecovery -----------------------------
EXTENDS Recovery, TLC
MCCatalog == <<"trades">>
MCSource  == [t \in {"trades"} |-> <<1, 2>>]
MCStartedAt == [g \in Gap |-> 1]
Commands  == Permutations(Cli)
=============================================================================
