-------------------------------- MODULE Feed --------------------------------
(***************************************************************************)
(* The consumers behind the bus. For the WebSocket gateway the bus is part *)
(* of the behaviour: consume_forever passes each frame that comes out of   *)
(* the parser to _ingest, and the frames of one chunk are handled before   *)
(* the event loop turns to anything else. The strategy engine and the      *)
(* quality service are processes of their own that share nothing with the  *)
(* gateway; they are followed from the trades and books they are given.    *)
(***************************************************************************)
EXTENDS Bus, WsGateway, Strategy, Quality

\* what a symbol is quoted with is of a symbol the gateway keeps
ASSUME FeedAssumption ==
    \A b \in Body : b.type \in {"trade", "book", "signal"} => b.key \in Key

VARIABLE consumer   \* bound: the one consumer a behaviour follows

feedVars == <<busVars, wsVars, stratVars, qualityVars, consumer>>

Init ==
    /\ consumer \in {"ws_gateway", "strategy", "quality"}
    /\ BusInit /\ WsInit /\ StratInit /\ QualityInit
    /\ consumer # "ws_gateway" => kept

OnFrame == Deliver /\ Ingest(buf[1].f.body.type, buf[1].f.body.key, buf[1].f.id)

\* bound: a failure of the bus and a command of a browser, or a second failure and a
\* browser, are not followed in one behaviour, neither sees anything of the other
Apart == (faults' > 0 => cmds' = 0) /\ (faults' > 1 => conns' = 0)

GatewayNext ==
    \/ OnFrame
    \/ (Resync \/ ConsumerDies) /\ UNCHANGED wsVars /\ Apart
    \/ ~Parsing /\ (PubNext \/ SubNext) /\ UNCHANGED wsVars /\ Apart
    \/ ~Parsing /\ WsNext /\ UNCHANGED busVars /\ Apart

Next ==
    /\ UNCHANGED consumer
    /\ \/ consumer = "ws_gateway" /\ GatewayNext /\ UNCHANGED <<stratVars, qualityVars>>
       \/ consumer = "strategy" /\ StratNext /\ UNCHANGED <<busVars, wsVars, qualityVars>>
       \/ consumer = "quality" /\ QualityNext /\ UNCHANGED <<busVars, wsVars, stratVars>>

Spec == Init /\ [][Next]_feedVars
=============================================================================
