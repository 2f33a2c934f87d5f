---------------------------- MODULE MCMigration ----------------------------
EXTENDS Migration, TLC
MCCatalog == <<"trades", "latest">>
MCSource  == [t \in {"trades", "latest"} |-> IF t = "trades" THEN <<1, 2>> ELSE << >>]
=============================================================================
