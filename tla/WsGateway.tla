----------------------------- MODULE WsGateway -----------------------------
(***************************************************************************)
(* ws_gateway.py: the newest state of every symbol is merged for browsers  *)
(* and sent every 100 ms, signals and raw trades are passed on one by one, *)
(* each client has a bounded queue, and a client that lost a message gets  *)
(* the whole snapshot again. A symbol's state is the serial number of the  *)
(* frame that last changed it, 0 for none.                                 *)
(***************************************************************************)
EXTENDS Naturals, Sequences, FiniteSets, SequencesExt, FiniteSetsExt

CONSTANTS Client, Key,
          ClientQueue,          \* client_queue_size
          Filters,              \* symbol filters a client may ask for; {} is none
          MaxConns, MaxCmds     \* bounds: connections and commands in all

ASSUME WsAssumption ==
    ClientQueue \in Nat \ {0} /\ Filters \subseteq SUBSET Key /\ {MaxConns, MaxCmds} \subseteq Nat

VARIABLES
    snapshot,   \* newest state of each key
    dirty,      \* _dirty
    cl,         \* the connections, WSClientConn with its FrameDecoder and its browser
    conns, cmds \* connections and commands so far

wsVars == <<snapshot, dirty, cl, conns, cmds>>

Commands == [op : {"mode"}, raw : BOOLEAN, symbols : {{}}]
                \cup [op : {"subscribe"}, raw : {FALSE}, symbols : Filters]
Idle == [op |-> "none", raw |-> FALSE, symbols |-> {}]
Nothing == [k \in Key |-> 0]

\* frag is the decoder's; view, seen, sent, typing and plain are of the browser:
\* its screen, the signals it saw and should see, the command it is in the middle of,
\* and whether it is a merged client that never sent one.
Off == [on |-> FALSE, raw |-> FALSE, symbols |-> {}, queue |-> <<>>, resync |-> FALSE,
        dropped |-> 0, frag |-> Idle, view |-> Nothing, seen |-> 0, sent |-> 0,
        typing |-> Idle, plain |-> FALSE, want |-> Idle]

WsInit ==
    /\ snapshot = Nothing /\ dirty = {} /\ cl = [c \in Client |-> Off] /\ conns = 0 /\ cmds = 0

Items(keys) == [type |-> "items", items |-> [k \in Key |-> IF k \in keys THEN snapshot[k] ELSE 0], n |-> 0]
Wanted(c)   == {k \in Key : c.symbols = {} \/ k \in c.symbols}
Known       == {k \in Key : snapshot[k] # 0}

\* mutant: the client is not marked for a resync
EnqueueUnmarked(c, msg) ==
    [c EXCEPT !.queue = Append(IF Len(@) = ClientQueue THEN Tail(@) ELSE @, msg),
              !.dropped = IF Len(c.queue) = ClientQueue THEN @ + 1 ELSE @]
\* _enqueue
Enqueue(c, msg) ==
    [c EXCEPT !.queue = Append(IF Len(@) = ClientQueue THEN Tail(@) ELSE @, msg),
              !.dropped = IF Len(c.queue) = ClientQueue THEN @ + 1 ELSE @,
              !.resync = @ \/ Len(c.queue) = ClientQueue]

\* _push_raw of a trade, a signal or a heartbeat (key is then outside Key)
PushRaw(c, type, key, n) ==
    IF ~c.on \/ (type = "trade" /\ ~c.raw) \/ (key \in Key /\ key \notin Wanted(c)) THEN c
    ELSE Enqueue(c, [type |-> type, items |-> Nothing, n |-> n])

Noted(c, type, key) ==
    [c EXCEPT !.sent = IF c.on /\ type = "signal" /\ key \in Wanted(c) THEN @ + 1 ELSE @]

\* _ingest of a frame numbered n
Ingest(type, key, n) ==
    /\ IF type \in {"trade", "book"}
       THEN snapshot' = [snapshot EXCEPT ![key] = n] /\ dirty' = dirty \cup {key}
       ELSE UNCHANGED <<snapshot, dirty>>
    /\ cl' = IF type = "book" THEN cl ELSE [c \in Client |-> PushRaw(Noted(cl[c], type, key), type, key, n)]
    /\ UNCHANGED <<conns, cmds>>

\* One client's share of a pass of _coalesce_loop.
Tick(c) ==
    IF ~c.on \/ c.raw THEN c
    ELSE IF c.resync
    THEN IF Known \cap Wanted(c) = {} THEN [c EXCEPT !.resync = FALSE]
         ELSE [c EXCEPT !.resync = FALSE, !.queue = <<Items(Known \cap Wanted(c))>>]
    ELSE IF dirty \cap Wanted(c) = {} THEN c ELSE Enqueue(c, Items(dirty \cap Wanted(c)))

\* _coalesce_loop, every COALESCE_MS; nothing changed means nothing is done.
Coalesce ==
    /\ dirty # {} /\ dirty' = {} /\ cl' = [c \in Client |-> Tick(cl[c])]
    /\ UNCHANGED <<snapshot, conns, cmds>>

\* _ws_handler up to its loop: the query's mode and filter, then the snapshot of
\* everything, whatever the filter.
Accept(c) ==
    /\ ~cl[c].on /\ conns < MaxConns /\ conns' = conns + 1
    /\ \E raw \in BOOLEAN, f \in Filters :
         cl' = [cl EXCEPT ![c] =
                   Enqueue([Off EXCEPT !.on = TRUE, !.raw = raw, !.symbols = f, !.plain = ~raw,
                                       !.want = [Idle EXCEPT !.raw = raw, !.symbols = f]],
                           Items(Known))]
    /\ UNCHANGED <<snapshot, dirty, cmds>>

\* What the browser of c shows when it gets m.
Shown(c, m) ==
    [c EXCEPT !.queue = Tail(@), !.seen = IF m.type = "signal" THEN @ + 1 ELSE @,
              !.view = [k \in Key |-> IF m.items[k] # 0 THEN m.items[k] ELSE @[k]]]
\* _ws_send
Send(c) ==
    /\ cl[c].on /\ cl[c].queue # <<>>
    /\ cl' = [cl EXCEPT ![c] = Shown(@, Head(@.queue))]
    /\ UNCHANGED <<snapshot, dirty, conns, cmds>>

\* _on_command
Apply(c, cmd) ==
    IF cmd.op = "mode" THEN [c EXCEPT !.raw = cmd.raw]
    ELSE IF cmd.op = "subscribe" THEN [c EXCEPT !.symbols = cmd.symbols]
    ELSE c
Asked(c, cmd) ==
    [c EXCEPT !.plain = FALSE,
              !.want = IF cmd.op = "mode" THEN [@ EXCEPT !.raw = cmd.raw]
                       ELSE [@ EXCEPT !.symbols = cmd.symbols]]

\* FrameDecoder.feed: a whole text frame, the first frame of a fragmented message, a
\* control frame that may come between its frames, and the frame that ends it.
Text(c) ==
    /\ cl[c].on /\ cl[c].typing = Idle /\ cmds < MaxCmds /\ cmds' = cmds + 1
    /\ \E cmd \in Commands : cl' = [cl EXCEPT ![c] = Apply(Asked(@, cmd), cmd)]
    /\ UNCHANGED <<snapshot, dirty, conns>>
First(c) ==
    /\ cl[c].on /\ cl[c].typing = Idle /\ cmds < MaxCmds /\ cmds' = cmds + 1
    /\ \E cmd \in Commands : cl' = [cl EXCEPT ![c].typing = cmd, ![c].frag = cmd]
    /\ UNCHANGED <<snapshot, dirty, conns>>
Ping(c) == cl[c].on /\ UNCHANGED wsVars
Final(c) ==
    /\ cl[c].on /\ cl[c].typing # Idle
    /\ cl' = [cl EXCEPT ![c] = [Apply(Asked(@, @.typing), @.frag) EXCEPT !.typing = Idle, !.frag = Idle]]
    /\ UNCHANGED <<snapshot, dirty, conns, cmds>>

\* The end of _ws_handler: a close frame, a lost connection or a WSError (a frame
\* without mask, too long, or continuing nothing).
Close(c) ==
    /\ cl[c].on /\ cl' = [cl EXCEPT ![c] = Off] /\ UNCHANGED <<snapshot, dirty, conns, cmds>>

WsNext ==
    \/ Coalesce
    \/ \E c \in Client : Accept(c) \/ Send(c) \/ Text(c) \/ First(c) \/ Ping(c) \/ Final(c) \/ Close(c)

-----------------------------------------------------------------------------
(* Properties. *)

Shows(c, k) ==
    LET at == {i \in DOMAIN c.queue : c.queue[i].items[k] # 0}
    IN  IF at = {} THEN c.view[k] ELSE c.queue[Max(at)].items[k]

\* The screen of a client in merged mode that sent no command is current: what it
\* shows once its queue is written is the newest state of every symbol it asked for,
\* except of those still to be sent in the next pass, and unless _enqueue dropped a
\* message and marked it for a resync. Drops, resyncs and passes of the coalescer may
\* come in any order.
ScreenIsCurrent ==
    \A c \in Client : cl[c].on /\ cl[c].plain /\ ~cl[c].resync =>
        \A k \in Wanted(cl[c]) \ dirty : Shows(cl[c], k) = snapshot[k]

Queued(c) == Cardinality({i \in DOMAIN c.queue : c.queue[i].type = "signal"})

\* Signals are not merged (_ingest): a client from whose queue nothing was dropped
\* sees every signal that passed its filter, however often symbols changed meanwhile.
SignalsArrive ==
    \A c \in Client : cl[c].dropped = 0 => cl[c].sent = cl[c].seen + Queued(cl[c])

\* The mode and the filter are those of the last command the browser finished, also
\* when it was fragmented around control frames (FrameDecoder.feed).
CommandsIntact ==
    \A c \in Client : cl[c].on => cl[c].raw = cl[c].want.raw /\ cl[c].symbols = cl[c].want.symbols
\* What a browser asked for is what it is shown.
BrowsersAreServed == ScreenIsCurrent /\ SignalsArrive /\ CommandsIntact
=============================================================================
