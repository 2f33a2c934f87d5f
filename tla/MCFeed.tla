------------------------------- MODULE MCFeed -------------------------------
(* The gateway: three frames of three kinds over a queue and a pipe of a   *)
(* frame or two, two faults, and one browser that connects once. The       *)
(* strategy engine: five trades of one symbol over five bars. The quality  *)
(* service: four messages, two assets with a won and a dollar price each.  *)
EXTENDS Feed
CONSTANTS k1, k2
MCBody == {[type |-> "trade", key |-> k1], [type |-> "book", key |-> k2],
           [type |-> "signal", key |-> k2]}
MCFilters == {{}, {k2}}
MCStrategies == <<"sma_cross", "rsi_revert", "bb_break">>
MCTicks == {<<"ka", 100>>, <<"ka", 104>>, <<"ka", 120>>, <<"kb", 100>>, <<"ua", 1>>, <<"ub", 1>>}
MCQuotes == {<<"ka", 101, 100>>, <<"ka", 100, 120>>}
MCPairs == [a |-> <<"ka", "ua">>, b |-> <<"kb", "ub">>]
=============================================================================
