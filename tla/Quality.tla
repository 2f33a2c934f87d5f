------------------------------ MODULE Quality ------------------------------
(***************************************************************************)
(* The quality service (services/quality.py) and its checks (quality.py):  *)
(* every trade goes through the jump, the repeated-record and the cross-   *)
(* venue check, every quote through the sanity check, and the events that  *)
(* come out are written by a flush task.                                   *)
(*                                                                         *)
(* Prices and times are whole numbers, a percentage and an implied rate a  *)
(* fraction <<numerator, denominator>>. The wording of events is left out. *)
(***************************************************************************)
EXTENDS Integers, FiniteSets, FiniteSetsExt, SequencesExt

CONSTANTS
    Ticks,                      \* the <<symbol, price>> that trades may bring
    Quotes,                     \* the <<symbol, bid, ask>> that books may bring
    Pairs,                      \* CrossVenueCheck.PAIRS: asset -> <<krw symbol, usd symbol>>
    AbsPct, Sigma, JumpWindow, WarmUp, MaxGap,      \* PriceJumpCheck
    MaxSpread,                                      \* QuoteSanityCheck, per cent
    After, MinUpdates,                              \* StaleValueCheck
    Divergence, MinAssets, Quiet,                   \* CrossVenueCheck
    MaxChecks, MaxWall, MaxFlushes, MaxWriteFails   \* bounds: messages, time, writes, failed writes

ASSUME QualityAssumption ==
    /\ \A t \in Ticks : t[2] \in Nat
    /\ {AbsPct, Sigma, JumpWindow, WarmUp, MaxSpread, Divergence, MinAssets} \subseteq Nat \ {0}
    /\ {MaxGap, After} \subseteq Nat /\ MinUpdates \in Nat /\ MinUpdates > 1    \* 20 in the code
    /\ Quiet \in Nat \ {0}                                                    \* 60 in the code

VARIABLES
    px,         \* prices of trades: PriceJumpCheck._last and CrossVenueCheck.prices
    moves,      \* PriceJumpCheck._moves
    stale,      \* StaleValueCheck._state: symbol -> [ident, since, count]
    fired,      \* StaleValueCheck._fired
    lastFire,   \* CrossVenueCheck._last_fire, NoTime before the first alarm
    pend, writes, orphans,      \* _pending, the rows of the flush in progress, of a cancelled one
    opened, stored, failed,     \* rows of an open transaction, in quality_events, given up
    phase,      \* "up", "stopping" (the last flush), "closed"
    wall, checked, flushes, writeFails,
    tape, events    \* the messages received and the events raised (history)

qualityVars == <<px, moves, stale, fired, lastFire, pend, writes, orphans, opened, stored, failed,
                 phase, wall, checked, flushes, writeFails, tape, events>>
monitorVars == <<px, moves, stale, fired, lastFire, tape, events>>

NoTime == -1
Put(d, k, v) == [x \in DOMAIN d \cup {k} |-> IF x = k THEN v ELSE d[x]]
Get(d, k, none) == IF k \in DOMAIN d THEN d[k] ELSE none
Before(s) == Get(px, s, [px |-> 0, ts |-> NoTime])
Moves(s) == Get(moves, s, <<>>)
-----------------------------------------------------------------------------
\* quality.py

Dist(a, b) == IF a > b THEN a - b ELSE b - a
Less(a, b) == a[1] * b[2] < b[1] * a[2]
\* sorted(values)[len(values) // 2]
Median(I, v(_)) ==
    LET half == Cardinality(I) \div 2
        i == CHOOSE m \in I : /\ Cardinality({j \in I : Less(v(j), v(m))}) <= half
                              /\ Cardinality({j \in I : ~Less(v(m), v(j))}) > half
    IN  v(i)

Move(old, new) == <<Dist(old, new) * 100, old>>
Broken(s, ts) == Dist(ts, Before(s).ts) > MaxGap
MovesAfter(s, p, ts) ==
    IF Before(s).px <= 0 \/ p <= 0 THEN Moves(s)
    ELSE IF Broken(s, ts) THEN <<>>
    ELSE LET m == Append(Moves(s), Move(Before(s).px, p)) IN
         IF Len(m) > JumpWindow THEN Tail(m) ELSE m

\* PriceJumpCheck.check: beyond the absolute limit, or beyond Sigma usual moves
JumpEvent(s, p, ts) ==
    LET m == Move(Before(s).px, p)
        large == m[1] >= AbsPct * m[2]
        usual == Median(DOMAIN Moves(s), LAMBDA i : Moves(s)[i])
    IN  IF Before(s).px <= 0 \/ p <= 0 THEN <<>>
        ELSE IF large THEN <<IF Broken(s, ts) THEN "jump_warning" ELSE "jump_critical">>
        ELSE IF ~Broken(s, ts) /\ Len(Moves(s)) >= WarmUp
                /\ usual[1] > 0 /\ m[1] * usual[2] > Sigma * usual[1] * m[2] /\ 2 * m[1] > m[2]
             THEN <<"jump_warning">> ELSE <<>>

\* StaleValueCheck.check: the same record, price and time, again and again
StaleAfter(s, p, ts) ==
    LET same == s \in DOMAIN stale /\ stale[s].ident = <<p, ts>>
        n == IF same THEN stale[s].count + 1 ELSE 1
        since == IF same THEN stale[s].since ELSE wall
        tell == same /\ wall - since >= After /\ n >= MinUpdates /\ s \notin fired
    IN  [state |-> [ident |-> <<p, ts>>, since |-> since, count |-> n],
         fired |-> IF tell THEN fired \cup {s} ELSE IF same THEN fired ELSE fired \ {s},
         tell |-> tell]

\* implied_fx: won per dollar, of the assets with both prices
Implied(prices) ==
    {a \in DOMAIN Pairs : \A i \in 1 .. 2 : Pairs[a][i] \in DOMAIN prices /\ prices[Pairs[a][i]].px > 0}
Rate(prices, a) == <<prices[Pairs[a][1]].px, prices[Pairs[a][2]].px>>
Diverges(prices) ==
    LET S == Implied(prices)
        mid == Median(S, LAMBDA a : Rate(prices, a))
    IN  /\ Cardinality(S) >= MinAssets
        /\ \E a \in S : LET r == Rate(prices, a) IN
             Dist(r[1] * mid[2], mid[1] * r[2]) * 100 >= Divergence * mid[1] * r[2]
\* CrossVenueCheck.check
CrossFires(prices, ts) ==
    Diverges(prices) /\ (lastFire = NoTime \/ ts - lastFire >= Quiet)

\* QuoteSanityCheck.check
QuoteEvent(bid, ask) ==
    IF bid <= 0 \/ ask <= 0 THEN <<>>
    ELSE IF bid > ask THEN <<"quote_critical">>
    ELSE IF (ask - bid) * 200 > MaxSpread * (bid + ask) THEN <<"quote_warning">> ELSE <<>>
-----------------------------------------------------------------------------
\* services/quality.py

QualityInit ==
    /\ px = <<>> /\ moves = <<>> /\ stale = <<>>    \* empty dicts
    /\ fired = {} /\ lastFire = NoTime
    /\ pend = <<>> /\ writes = <<>> /\ orphans = <<>> /\ opened = <<>> /\ stored = <<>> /\ failed = <<>>
    /\ phase = "up" /\ wall = 0 /\ checked = 0 /\ flushes = 0 /\ writeFails = 0
    /\ tape = <<>> /\ events = <<>>

\* _on_event for each event of a message
Raise(s, ts, checks) ==
    /\ events' = events \o [i \in DOMAIN checks |->
                     [check |-> checks[i], sym |-> s, ts |-> ts, at |-> Len(tape) + 1]]
    /\ pend' = pend \o [i \in DOMAIN checks |-> Len(events) + i]

\* _ingest of a trade, QualityMonitor.on_trade
QTrade(s, p, ts) ==
    /\ phase = "up" /\ checked < MaxChecks /\ checked' = checked + 1
    /\ tape' = Append(tape, [sym |-> s, px |-> p, ts |-> ts, wall |-> wall])
    /\ px' = Put(px, s, [px |-> p, ts |-> ts])
    /\ moves' = Put(moves, s, MovesAfter(s, p, ts))
    /\ stale' = Put(stale, s, StaleAfter(s, p, ts).state)
    /\ fired' = StaleAfter(s, p, ts).fired
    /\ lastFire' = IF CrossFires(px', ts) THEN ts ELSE lastFire
    /\ Raise(s, ts, JumpEvent(s, p, ts)
                    \o (IF StaleAfter(s, p, ts).tell THEN <<"stale">> ELSE <<>>)
                    \o (IF CrossFires(px', ts) THEN <<"cross">> ELSE <<>>))
    /\ UNCHANGED <<writes, orphans, opened, stored, failed, phase, wall, flushes, writeFails>>

\* _ingest of a book, QualityMonitor.on_quote
QQuote(s, bid, ask) ==
    /\ phase = "up" /\ checked < MaxChecks /\ checked' = checked + 1
    /\ Raise(s, wall, QuoteEvent(bid, ask))
    /\ UNCHANGED <<px, moves, stale, fired, lastFire, tape, writes, orphans, opened, stored,
                   failed, phase, wall, flushes, writeFails>>

\* mutant: the rows stay in the list while they are written
FlushCopies ==
    /\ phase = "up" /\ flushes < MaxFlushes /\ pend # <<>> /\ writes = <<>>
    /\ writes' = pend /\ flushes' = flushes + 1
    /\ UNCHANGED <<monitorVars, pend, orphans, opened, stored, failed, phase, wall, checked, writeFails>>
\* _flush by the flush task: the list is replaced before the thread starts
QFlush ==
    /\ phase = "up" /\ flushes < MaxFlushes /\ pend # <<>> /\ writes = <<>>
    /\ writes' = pend /\ pend' = <<>> /\ flushes' = flushes + 1
    /\ UNCHANGED <<monitorVars, orphans, opened, stored, failed, phase, wall, checked, writeFails>>

\* _many: the commit also takes what an earlier insert left in the transaction
InsertWorks(rows) ==
    stored' = stored \o opened \o rows /\ opened' = <<>> /\ UNCHANGED <<failed, writeFails>>
\* executemany or the commit raises: the rows so far stay in the open transaction of the
\* connection (none with Postgres, which rolls back), and nobody tries the others again
InsertFails(rows) ==
    /\ writeFails < MaxWriteFails /\ writeFails' = writeFails + 1
    /\ \E k \in 0 .. Len(rows) :
         /\ opened' = opened \o SubSeq(rows, 1, k)
         /\ failed' = failed \o SubSeq(rows, k + 1, Len(rows))
    /\ UNCHANGED stored
QWriteEnds ==
    /\ writes # <<>> /\ (InsertWorks(writes) \/ InsertFails(writes))
    /\ writes' = <<>>
    /\ UNCHANGED <<monitorVars, pend, orphans, phase, wall, checked, flushes>>
\* the thread of a cancelled flush goes on; a closed database refuses its rows
OrphanEnds ==
    /\ orphans # <<>> /\ orphans' = <<>>
    /\ \/ phase # "closed" /\ (InsertWorks(orphans) \/ InsertFails(orphans))
       \/ phase = "closed" /\ failed' = failed \o orphans /\ UNCHANGED <<stored, opened, writeFails>>
    /\ UNCHANGED <<monitorVars, pend, writes, phase, wall, checked, flushes>>

\* run after stop: the tasks are cancelled, what is pending is flushed, the storage closed
QStop ==
    /\ phase = "up" /\ phase' = "stopping"
    /\ orphans' = writes /\ writes' = pend /\ pend' = <<>>
    /\ UNCHANGED <<monitorVars, opened, stored, failed, wall, checked, flushes, writeFails>>
QClose ==
    /\ phase = "stopping" /\ writes = <<>> /\ phase' = "closed"
    /\ failed' = failed \o opened /\ opened' = <<>>     \* an open transaction is rolled back
    /\ UNCHANGED <<monitorVars, pend, writes, orphans, stored, wall, checked, flushes, writeFails>>

WallPasses ==
    /\ phase = "up" /\ wall < MaxWall /\ wall' = wall + 1
    /\ UNCHANGED <<monitorVars, pend, writes, orphans, opened, stored, failed, phase, checked,
                   flushes, writeFails>>

\* bound: the writes are followed in behaviours without trades: an event is an event
NoTrades == tape = <<>>
NoQuotes == checked = Len(tape)

\* a record is new, stamped with the time, or the symbol's last one once more
QualityNext ==
    \/ NoQuotes /\ \E t \in Ticks : QTrade(t[1], t[2], wall)
    \/ NoQuotes /\ \E s \in DOMAIN px : px[s].ts < wall /\ QTrade(s, px[s].px, px[s].ts)
    \/ NoTrades /\ \E q \in Quotes : QQuote(q[1], q[2], q[3])
    \/ NoTrades /\ checked > 0 /\ (QFlush \/ QWriteEnds \/ OrphanEnds \/ QStop \/ QClose)
    \/ tape # <<>> /\ tape[Len(tape)].wall = wall /\ WallPasses    \* bound: not twice in a row
-----------------------------------------------------------------------------
(* Properties                                                              *)

\* Every event raised is in one place, once: waiting, being written, stored or
\* given up, whatever is raised while a write is under way, and nothing waits once the
\* storage is closed (services/quality.py:110-123, 178-182).
EventsAccounted ==
    LET all == pend \o writes \o orphans \o opened \o stored \o failed IN
    /\ Len(all) = Len(events) /\ ToSet(all) = 1 .. Len(events)
    /\ phase = "closed" => pend \o writes \o opened = <<>>

Traded == {tape[i].sym : i \in DOMAIN tape}
Of(s) == {i \in DOMAIN tape : tape[i].sym = s}
Earlier(i) == {j \in Of(tape[i].sym) : j < i}
Prior(i) == Max(Earlier(i))
IsMove(i) == Earlier(i) # {} /\ tape[Prior(i)].px > 0 /\ tape[i].px > 0
IsBreak(i) == IsMove(i) /\ Dist(tape[i].ts, tape[Prior(i)].ts) > MaxGap
Recent(s) == {i \in Of(s) : IsMove(i) /\ \A j \in Of(s) : IsBreak(j) => j < i}
\* What PriceJumpCheck compares a move with are the last moves since the last break in
\* the symbol's trades, in their order, and no older ones (quality.py:96-131).
MovesAreRecent ==
    \A s \in Traded :
        /\ Len(Moves(s)) = Min({JumpWindow, Cardinality(Recent(s))})
        /\ \A i \in Recent(s) :
             LET later == Cardinality({j \in Recent(s) : j > i}) IN
             later < JumpWindow =>
                 Moves(s)[Len(Moves(s)) - later] = Move(tape[Prior(i)].px, tape[i].px)

\* the trades with which a symbol's last record was brought, and what was said of them
Repeats(s) ==
    {i \in Of(s) : \A j \in Of(s) : j >= i => tape[j].px = tape[i].px /\ tape[j].ts = tape[i].ts}
Told(s) == {e \in DOMAIN events : events[e].check = "stale" /\ events[e].at \in Repeats(s)}
Lasts(I) == Cardinality(I) >= MinUpdates /\ tape[Max(I)].wall - tape[Min(I)].wall >= After
\* A record repeated often and long enough is reported once, and again when another
\* record is repeated later (quality.py:213-236).
RepeatsToldOnce ==
    \A s \in Traded : Cardinality(Told(s)) = (IF Lasts(Repeats(s)) THEN 1 ELSE 0)

\* While the implied rates of the assets lie apart, the last trade is less than Quiet
\* after an alarm, from the first time on (quality.py:283-286, 325-327).
DivergenceIsTold ==
    tape # <<>> /\ Diverges(px)
        => \E e \in DOMAIN events : /\ events[e].check = "cross"
                                    /\ tape[Len(tape)].ts - events[e].ts < Quiet
\* What the detectors should see they tell, once, and what they tell is kept.
DetectionsAreTold == EventsAccounted /\ MovesAreRecent /\ RepeatsToldOnce /\ DivergenceIsTold
=============================================================================
