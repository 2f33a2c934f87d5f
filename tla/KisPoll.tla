------------------------------ MODULE KisPoll ------------------------------
(***************************************************************************)
(* The two adapters that poll KIS over REST, adapters/kis_rest.py and      *)
(* adapters/kis_macro.py.  A session is an asyncio.gather of endless       *)
(* loops; a loop asks, waits for the answer of the worker thread and       *)
(* applies it.  kis_rest turns the increase of the accumulated volume into *)
(* synthetic trades, kis_macro emits a value when it changed.              *)
(*                                                                         *)
(* One stock (or index) is followed; the server's reading of it only       *)
(* grows.  Its pace (the rate limiter), the token and the other stocks are *)
(* left out.                                                               *)
(***************************************************************************)
EXTENDS Integers, FiniteSets

CONSTANTS
    Loops,          \* places for loop tasks, orphans included
    MaxVol          \* bound: the largest reading

VARIABLES
    rest,           \* kis_rest (TRUE) or kis_macro
    loop,           \* place -> NoTask, NoReading or the reading it has in flight
    mine,           \* places of the session's own loops (the rest: orphans)
    vol,            \* the server's reading now
    last,           \* _last_vol / _last, NoReading for none yet
    first,          \* the first reading applied (history)
    published,      \* sum of the quantities emitted (history)
    regressed       \* an answer older than _last_vol was applied (history)

pollVars == <<rest, loop, mine, vol, last, first, published, regressed>>
counts == <<last, first, published, regressed>>

ASSUME LoopsAssumption == IsFiniteSet(Loops) /\ MaxVol \in Nat

NoTask == -2
NoReading == -1
Running == {l \in Loops : loop[l] # NoTask}

PollInit == /\ rest \in BOOLEAN
            /\ loop = [l \in Loops |-> NoTask] /\ mine = {}
            /\ vol = 0 /\ last = NoReading /\ first = NoReading
            /\ published = 0 /\ regressed = FALSE

\* the market trades: the accumulated volume (or the index) moves
Trades == /\ vol < MaxVol
          /\ vol' = vol + 1
          /\ UNCHANGED <<rest, loop, mine, counts>>

\* session(): gather starts its loops.  Both loops of kis_rest reach the stock,
\* one of the three of kis_macro the index
Reaching == IF rest THEN 2 ELSE 1
StartLoops ==
    LET free == Loops \ Running
        s == CHOOSE t \in SUBSET free : Cardinality(t) = Reaching
    IN  /\ Cardinality(free) >= Reaching
        /\ loop' = [l \in Loops |-> IF l \in s THEN NoReading ELSE loop[l]]
        /\ mine' = s
        /\ UNCHANGED <<rest, vol, counts>>

\* _call up to the worker thread: the server reads its value for the answer
Ask(l) == /\ loop[l] = NoReading
          /\ loop' = [loop EXCEPT ![l] = vol]
          /\ UNCHANGED <<rest, mine, vol, counts>>

\* mutant: the remembered volume is left as it was when the answer is newer
PublishQuoteKeeping(v) ==
    /\ last' = IF last = NoReading THEN v ELSE last
    /\ first' = IF first = NoReading THEN v ELSE first
    /\ published' = IF last # NoReading /\ v > last THEN published + v - last ELSE published
    /\ regressed' = (regressed \/ (last # NoReading /\ v < last))

\* _publish_quote: the increase since the last answer is a synthetic trade
PublishQuote(v) ==
    /\ last' = v
    /\ first' = IF first = NoReading THEN v ELSE first
    /\ published' = IF last # NoReading /\ v > last THEN published + v - last ELSE published
    /\ regressed' = (regressed \/ (last # NoReading /\ v < last))

\* _emit_value: emitted when it differs from the last one
EmitValue(v) == last' = v /\ UNCHANGED <<first, published, regressed>>

\* does applying v emit a message (and so refresh last_msg_at)?
Emits(v) == IF rest THEN last # NoReading /\ v > last ELSE v # last

\* the answer arrives: rt_cd "0"
AnswerOk(l) ==
    /\ loop[l] >= 0
    /\ loop' = [loop EXCEPT ![l] = NoReading]
    /\ IF rest THEN PublishQuote(loop[l]) ELSE EmitValue(loop[l])
    /\ UNCHANGED <<rest, mine, vol>>

\* EGW00201 or another rt_cd: _call answers None and the loop goes on
AnswerNone(l) ==
    /\ loop[l] >= 0
    /\ loop' = [loop EXCEPT ![l] = NoReading]
    /\ UNCHANGED <<rest, mine, vol, counts>>

\* urlopen or the token raises in a loop of the session: gather hands the
\* exception on and does not cancel the other loop, which runs on
LoopRaises(l) ==
    /\ l \in mine /\ loop[l] >= 0
    /\ Cardinality(Loops \ Running) >= 1        \* bound: room for the next pair
    /\ loop' = [loop EXCEPT ![l] = NoTask]
    /\ mine' = {}
    /\ UNCHANGED <<rest, vol, counts>>

\* a loop of kis_macro that does not reach the index raises
SiblingRaises ==
    /\ ~rest /\ mine # {}
    /\ Cardinality(Loops \ Running) >= 1        \* bound: room for the next one
    /\ mine' = {}
    /\ UNCHANGED <<rest, loop, vol, counts>>

\* the same in an orphan: nobody reads it
OrphanRaises(l) ==
    /\ l \in Running \ mine /\ loop[l] >= 0
    /\ loop' = [loop EXCEPT ![l] = NoTask]
    /\ UNCHANGED <<rest, mine, vol, counts>>

\* the gather is cancelled with its loops; at the end of the process every
\* loop is
CancelLoops(s) ==
    /\ loop' = [l \in Loops |-> IF l \in s THEN NoTask ELSE loop[l]]
    /\ mine' = {}
    /\ UNCHANGED <<rest, vol, counts>>

(* kis_rest never loses volume: what it has emitted is at least the growth *)
(* between the first and the last answer it applied, and exactly that when *)
(* no answer of one loop overtook a newer one of the other; an overtaken   *)
(* answer puts _last_vol back and the volume is emitted twice.             *)
VolumeCounted ==
    last # NoReading /\ rest =>
        /\ published >= last - first
        /\ ~regressed => published = last - first
=============================================================================
