------------------------------- MODULE Ingest -------------------------------
(***************************************************************************)
(* feedd and one of its upstream adapters, from the signal handler down to *)
(* the socket: runtime.run, FeedDaemon.run, Supervisor._run,               *)
(* FeedDaemon._keep_running, Adapter.run, _session_with_watchdog, _abandon *)
(* and the session() of the adapter (upbit, binance, kis, replay, or one   *)
(* of the pollers of KisPoll).                                             *)
(*                                                                         *)
(* Every task runs on one event loop; an action is what a task does        *)
(* between two awaits.  A WatchdogTick is one period of the watchdog.  A   *)
(* cancellation is a request (task.cancel()) the task takes at its await,  *)
(* or swallows: asyncio.wait_for of Python 3.10 and 3.11 returns the       *)
(* result and drops the request when a frame came at the same moment.      *)
(***************************************************************************)
EXTENDS KisPoll

CONSTANTS
    Kinds,          \* the adapters of the instance
    HasHours,       \* bound: those whose market opens and closes
    HeartbeatFails, \* bound: those beside which the heartbeat task dies
    StaleTicks,     \* stale_after_s in watchdog periods (at least 2)
    Symbols,        \* number of symbols kis wants
    Never           \* last_msg_at = 0, or no limit learned

VARIABLES
    kind,           \* which adapter this is
    stop,           \* the stop event
    down,           \* the process: up, stopping, teardown, exited, forced
    chain,          \* Adapter.run under its keepers: session, abandon1,
                    \* abandon2, delay, dead (pause of _keep_running), done
    sess,           \* session(): none, key, connecting, handshake, subscribing,
                    \* live, closing, over
    res,            \* how it ended: error, cancelled, returned
    cancel,         \* a cancellation it has not taken yet
    pinger,         \* upbit's ping task: off, on, failed
    lastMsg,        \* periods since last_msg_at, or Never
    watch,          \* periods since the watchdog set its deadline
    open,           \* expects_data()
    key,            \* kis has its approval key
    due,            \* kis: registration answers to come
    subs,           \* kis: len(subscribed)
    limit,          \* kis: effective_limit
    stray,          \* an abandoned session is still running
    strayCancel,    \* with a cancellation it has not taken yet
    leaked,         \* history: where the last session was when it ended without
                    \* closing the socket it had opened
    hb              \* the heartbeat task under Supervisor: up, pause, done

sessVars == <<sess, res, cancel, pinger>>
timeVars == <<lastMsg, watch>>
kisVars == <<key, due, subs, limit>>
strayVars == <<stray, strayCancel>>
vars == <<kind, stop, down, chain, sessVars, timeVars, open, kisVars, strayVars,
          leaked, hb, pollVars>>

ASSUME IngestAssumption == StaleTicks \in Nat /\ Symbols \in Nat

WsKinds == {"upbit", "binance", "kis"}
isWs == kind \in WsKinds
isPoll == kind = "poll"
Older(t) == IF t = Never \/ t > StaleTicks THEN t ELSE t + 1

IngestInit ==
    /\ kind \in Kinds
    /\ PollInit /\ (kind = "poll" \/ rest)
    /\ stop = FALSE /\ down = "up" /\ chain = "delay"
    /\ sess = "none" /\ res = "error" /\ cancel = FALSE /\ pinger = "off"
    /\ lastMsg = Never /\ watch = 0
    /\ open \in IF kind \in HasHours THEN BOOLEAN ELSE {TRUE}
    /\ key = FALSE /\ due = 0 /\ subs = 0 /\ limit = Never
    /\ stray = FALSE /\ strayCancel = FALSE /\ leaked = {} /\ hb = "up"

-----------------------------------------------------------------------------
\* session()

\* Adapter.run (again) after its delay, or _keep_running after a death
StartSession ==
    /\ \/ chain = "delay" /\ down = "up"
       \/ chain = "dead" /\ ~stop
    /\ chain' = "session" /\ watch' = 0 /\ cancel' = FALSE /\ pinger' = "off"
    /\ sess' = CASE kind = "kis" /\ ~key -> "key"
                 [] isWs /\ ~(kind = "kis" /\ ~key) -> "connecting"
                 [] OTHER -> "live"
    /\ IF isPoll THEN StartLoops ELSE UNCHANGED pollVars
    /\ leaked' = {}
    /\ UNCHANGED <<kind, stop, down, res, lastMsg, open, kisVars, strayVars, hb>>

\* the session is over; places: {sess} if it leaves its socket open
Over(how, places) == sess' = "over" /\ res' = how /\ leaked' = leaked \cup places

\* _get_approval_key in its thread: asked for once in the life of the adapter
ApprovalKey ==
    /\ sess = "key" /\ ~cancel
    /\ \/ /\ key' = TRUE /\ sess' = "connecting" /\ UNCHANGED <<res, leaked>>
       \/ /\ Over("error", {}) /\ UNCHANGED key
    /\ UNCHANGED <<kind, stop, down, chain, cancel, pinger, timeVars, open, due, subs,
                   limit, strayVars, hb, pollVars>>

\* what session() does between the handshake and its receive loop: upbit sends
\* one request, binance its chunks if the symbols do not fit the address, and
\* both do so before their try; kis registers symbol by symbol inside its try,
\* no more than the limit it has learned
UpbitSession == sess' = "subscribing" /\ UNCHANGED <<subs, due>>
BinanceSession == sess' \in {"subscribing", "live"} /\ UNCHANGED <<subs, due>>
KisSession ==
    /\ due' = IF limit # Never /\ limit < Symbols THEN limit ELSE Symbols
    /\ sess' = "live" /\ subs' = 0

\* WSClient.connect, first half: open_connection, or its failure
WsConnect ==
    /\ sess = "connecting" /\ ~cancel
    /\ \/ sess' = "handshake" /\ UNCHANGED <<res, leaked>>
       \/ Over("error", {})
    /\ UNCHANGED <<kind, stop, down, chain, cancel, pinger, timeVars, open, kisVars,
                   strayVars, hb, pollVars>>

\* what goes wrong before the try of session() leaves the socket to the
\* garbage collector: connect has no finally, and close() is not reached
LeaveEarly(how) == Over(how, {sess})

\* the second half: the request is written, the answer read and checked, within
\* the timeout, or it is not
WsHandshake ==
    /\ sess = "handshake" /\ ~cancel
    /\ \/ /\ UNCHANGED <<res, leaked>>
          /\ CASE kind = "upbit" -> UpbitSession
               [] kind = "binance" -> BinanceSession
               [] kind = "kis" -> KisSession
       \/ LeaveEarly("error") /\ UNCHANGED <<subs, due>>
    /\ UNCHANGED <<kind, stop, down, chain, cancel, pinger, timeVars, open, key, limit,
                   strayVars, hb, pollVars>>

\* the request is sent and upbit's pinger starts, or send_text raises
Subscribe ==
    /\ sess = "subscribing" /\ ~cancel
    /\ \/ /\ sess' = "live" /\ UNCHANGED <<res, leaked>>
          /\ pinger' = IF kind = "upbit" THEN "on" ELSE pinger
       \/ LeaveEarly("error") /\ UNCHANGED pinger
    /\ UNCHANGED <<kind, stop, down, chain, cancel, timeVars, open, kisVars, strayVars,
                   hb, pollVars>>

\* What a frame is: a trade, something else, not parsable at all, or a trade
\* whose fields are missing.  What _on_message (or _play_once) makes of it: a
\* message (mark), nothing (skip), or an exception that ends the session
Frames == {"trade", "other", "garbled", "partial"}
UpbitOnMessage(f) ==
    CASE f = "trade" -> "mark" [] f = "partial" -> "raise" [] OTHER -> "skip"
BinanceOnMessage(f) ==
    CASE f = "trade" -> "mark" [] f = "partial" -> "raise" [] OTHER -> "skip"
KisOnMessage(f) == IF f = "trade" THEN "mark" ELSE "skip"
ReplayFrame(f) == IF f = "trade" THEN "mark" ELSE "skip"
OnMessage(f) == CASE kind = "upbit" -> UpbitOnMessage(f)
                  [] kind = "binance" -> BinanceOnMessage(f)
                  [] kind = "kis" -> KisOnMessage(f)
                  [] kind = "replay" -> ReplayFrame(f)

\* _mark: the message is published and last_msg_at is now
Mark == lastMsg' = 0

Message ==
    /\ sess = "live" /\ ~isPoll /\ open
    /\ \E f \in Frames : OnMessage(f) = "mark"
    /\ Mark
    /\ UNCHANGED <<kind, stop, down, chain, sessVars, watch, open, kisVars, strayVars,
                   leaked, hb, pollVars>>


\* a frame that is no market data; for kis an answer to a registration:
\* accepted, refused for the account's limit, or refused otherwise
Control ==
    /\ sess = "live" /\ isWs
    /\ \/ UNCHANGED <<due, subs, limit>>
       \/ /\ due > 0 /\ due' = due - 1
          /\ \/ subs' = subs + 1 /\ UNCHANGED limit
             \/ /\ limit' = IF limit = Never \/ subs < limit THEN subs ELSE limit
                /\ UNCHANGED subs
             \/ UNCHANGED <<subs, limit>>
    /\ UNCHANGED <<kind, stop, down, chain, sessVars, timeVars, open, key, strayVars,
                   leaked, hb, pollVars>>

\* mutant: the socket is only closed when the session failed by itself
LeaveLoopQuick(how) ==
    IF kind = "upbit" /\ pinger = "on" THEN Over("cancelled", {sess})
    ELSE IF isWs /\ how = "error" THEN sess' = "closing" /\ res' = how /\ UNCHANGED leaked
    ELSE Over(how, {sess})

\* the finally of session(): upbit cancels its pinger and awaits it, which
\* raises CancelledError past suppress(Exception) and past ws.close();
\* a pinger that had failed raises its own error and is suppressed
LeaveLoop(how) ==
    IF kind = "upbit" /\ pinger = "on" THEN Over("cancelled", {sess})
    ELSE IF isWs THEN sess' = "closing" /\ res' = how /\ UNCHANGED leaked
    ELSE Over(how, {})

\* recv raises: an empty read, a close frame, nothing for stale_after_s
RecvRaises == isWs

\* recv raises, or _on_message does
SessionFails ==
    /\ sess = "live" /\ ~isPoll
    /\ RecvRaises \/ \E f \in Frames : OnMessage(f) = "raise"
    /\ LeaveLoop("error")
    /\ UNCHANGED <<kind, stop, down, chain, cancel, pinger, timeVars, open, kisVars,
                   strayVars, hb, pollVars>>

\* a poller's session ends with the first of its loops that raises
PollFails ==
    /\ sess = "live" /\ isPoll /\ Over("error", {})
    /\ \/ \E l \in Loops : LoopRaises(l)
       \/ SiblingRaises
    /\ UNCHANGED <<kind, stop, down, chain, cancel, pinger, timeVars, open, kisVars,
                   strayVars, hb>>

\* replay without loop: the file was played to its end
ReplayReturns ==
    /\ sess = "live" /\ kind = "replay" /\ Over("returned", {})
    /\ UNCHANGED <<kind, stop, down, chain, cancel, pinger, timeVars, open, kisVars,
                   strayVars, hb, pollVars>>

\* _ping_loop: the ping cannot be written
PingFails ==
    /\ sess = "live" /\ pinger = "on" /\ pinger' = "failed"
    /\ UNCHANGED <<kind, stop, down, chain, sess, res, cancel, timeVars, open, kisVars,
                   strayVars, leaked, hb, pollVars>>

\* WSClient.close: drained or not within CLOSE_TIMEOUT_S, the socket is closed
CloseDone ==
    /\ sess = "closing" /\ ~cancel /\ sess' = "over"
    /\ UNCHANGED <<kind, stop, down, chain, res, cancel, pinger, timeVars, open, kisVars,
                   strayVars, leaked, hb, pollVars>>


\* CancelledError is raised where the session waits
TakeCancel ==
    /\ cancel /\ cancel' = FALSE
    /\ CASE sess = "live" -> LeaveLoop("cancelled")
         [] sess \in {"handshake", "subscribing"} -> LeaveEarly("cancelled")
         [] sess \in {"key", "connecting", "closing"} -> Over("cancelled", {})
         [] OTHER -> UNCHANGED <<sess, res, leaked>>
    /\ IF sess = "live" /\ isPoll THEN CancelLoops(mine) ELSE UNCHANGED pollVars
    /\ UNCHANGED <<kind, stop, down, chain, pinger, timeVars, open, kisVars, strayVars, hb>>

\* wait_for has its result at the same moment: the request is gone.  On recv
\* that is a frame, which is handled; on open_connection, on the answer to the
\* handshake and on the drain of close() the session goes on
SwallowCancel ==
    /\ cancel /\ sess \in {"connecting", "handshake", "live", "closing"} /\ isWs
    /\ chain = "abandon2" => ~stray             \* bound: one abandoned session
    /\ cancel' = FALSE
    /\ lastMsg' = IF sess = "live" /\ open THEN 0 ELSE lastMsg
    /\ UNCHANGED <<kind, stop, down, chain, sess, res, pinger, watch, open, kisVars,
                   strayVars, leaked, hb, pollVars>>
-----------------------------------------------------------------------------
\* a poller's loops, the session's own and the orphans

PollStep ==
    /\ isPoll /\ down \in {"up", "stopping"}
    /\ \/ Trades /\ UNCHANGED lastMsg
       \/ \E l \in Loops :
            \/ Ask(l) /\ UNCHANGED lastMsg
            \/ AnswerNone(l) /\ UNCHANGED lastMsg
            \/ OrphanRaises(l) /\ UNCHANGED lastMsg
            \/ /\ AnswerOk(l)
               /\ lastMsg' = IF Emits(loop[l]) THEN 0 ELSE lastMsg
    /\ UNCHANGED <<kind, stop, down, chain, sessVars, watch, open, kisVars, strayVars,
                   leaked, hb>>

\* an abandoned session that is still alive goes on publishing, ends by
\* itself, or takes or swallows the cancellation of the teardown
StrayStep ==
    /\ stray
    /\ \/ /\ ~strayCancel /\ lastMsg' = 0 /\ UNCHANGED strayVars
       \/ /\ stray' = FALSE /\ strayCancel' = FALSE /\ UNCHANGED lastMsg
       \/ /\ strayCancel /\ strayCancel' = FALSE /\ UNCHANGED <<stray, lastMsg>>
    /\ UNCHANGED <<kind, stop, down, chain, sessVars, watch, open, kisVars, leaked, hb,
                   pollVars>>

\* the market opens or closes; kis_macro learns of a holiday
MarketChanges ==
    /\ kind \in HasHours /\ down = "up" /\ open' = ~open
    /\ UNCHANGED <<kind, stop, down, chain, sessVars, timeVars, kisVars, strayVars,
                   leaked, hb, pollVars>>

-----------------------------------------------------------------------------
\* the watchdog, _abandon and Adapter.run

\* mutant: a session without a first message has no deadline
IdlingHeard(l, w) == IF l = Never THEN FALSE ELSE l > StaleTicks

Idling(l, w) == IF l = Never THEN w > 2 * StaleTicks ELSE l > StaleTicks

\* one period: _stale_watchdog wakes while a session runs.  With no message yet
\* it measures from the deadline it set, StaleTicks after its start
WatchdogTick ==
    /\ down = "up"
    /\ LET l == Older(lastMsg)
           w == IF watch > 2 * StaleTicks THEN watch ELSE watch + 1
       IN  IF chain # "session" THEN lastMsg' = l /\ UNCHANGED <<watch, chain, cancel>>
           ELSE IF ~open THEN lastMsg' = Never /\ watch' = 0 /\ UNCHANGED <<chain, cancel>>
           ELSE /\ lastMsg' = l /\ watch' = w
                /\ IF Idling(l, w) /\ sess # "over"
                   THEN chain' = "abandon1" /\ cancel' = TRUE
                   ELSE UNCHANGED <<chain, cancel>>
    /\ UNCHANGED <<kind, stop, down, sess, res, pinger, open, kisVars, strayVars,
                   leaked, hb, pollVars>>


\* _session_with_watchdog after _abandon: StaleSessionError, an error of the
\* session like any other; or the cancellation of the shutdown
AfterAbandon == IF down = "up" THEN "delay" ELSE "done"

\* _abandon: the session ended within CANCEL_TIMEOUT_S
AbandonDone ==
    /\ chain \in {"abandon1", "abandon2"} /\ sess = "over"
    /\ chain' = AfterAbandon /\ cancel' = FALSE
    /\ UNCHANGED <<kind, stop, down, sess, res, pinger, timeVars, open, kisVars,
                   strayVars, leaked, hb, pollVars>>


\* it did not (a close in progress would: CLOSE_TIMEOUT_S is shorter): the
\* second attempt, then the session is left to itself
AbandonTimeout ==
    /\ chain \in {"abandon1", "abandon2"}
    /\ sess \notin {"over", "closing"} /\ ~cancel
    /\ IF chain = "abandon1"
       THEN chain' = "abandon2" /\ cancel' = TRUE /\ UNCHANGED <<sess, stray>>
       ELSE chain' = AfterAbandon /\ stray' = TRUE /\ sess' = "none" /\ UNCHANGED cancel
    /\ UNCHANGED <<kind, stop, down, res, pinger, timeVars, open, kisVars, strayCancel,
                   leaked, hb, pollVars>>

\* _keep_running: Adapter.run left through an exception, or was stopped
KeepRunning == IF stop THEN "done" ELSE "dead"

\* the session ended first: Adapter.run reconnects after its delay, a
\* CancelledError nobody asked for leaves it and _keep_running counts a death
SessionSeen ==
    /\ chain = "session" /\ sess = "over"
    /\ chain' = IF res = "cancelled" THEN KeepRunning ELSE "delay"
    /\ UNCHANGED <<kind, stop, down, sessVars, timeVars, open, kisVars, strayVars,
                   leaked, hb, pollVars>>

-----------------------------------------------------------------------------
\* the heartbeat task under Supervisor._run, and the way down

\* the task raises or returns without being asked to
HeartbeatDies ==
    /\ hb = "up" /\ down = "up" /\ ~stop /\ hb' = "pause"
    /\ kind \in HeartbeatFails
    /\ UNCHANGED <<kind, stop, down, chain, sessVars, timeVars, open, kisVars, strayVars,
                   leaked, pollVars>>


\* Supervisor._run after its backoff
Supervise ==
    /\ hb = "pause" /\ down = "up" /\ hb' = IF stop THEN "done" ELSE "up"
    /\ UNCHANGED <<kind, stop, down, chain, sessVars, timeVars, open, kisVars, strayVars,
                   leaked, pollVars>>

\* SIGTERM or SIGINT: _term sets the stop event
SigTerm ==
    /\ ~stop /\ stop' = TRUE
    /\ UNCHANGED <<kind, down, chain, sessVars, timeVars, open, kisVars, strayVars,
                   leaked, hb, pollVars>>

\* FeedDaemon.run wakes: a.stop(), then Supervisor.shutdown cancels the tasks.
\* In _session_with_watchdog the CancelledError runs its finally: _abandon
FeeddStops ==
    /\ stop /\ down = "up" /\ down' = "stopping" /\ hb' = "done"
    /\ LET in == chain \in {"session", "abandon1", "abandon2"} /\ sess # "over"
       IN  /\ chain' = IF in THEN "abandon1" ELSE "done"
           /\ cancel' = in
    /\ UNCHANGED <<kind, stop, sess, res, pinger, timeVars, open, kisVars, strayVars,
                   leaked, pollVars>>

\* shutdown is done with its tasks or its 5 s are over; feedd closes its servers
\* and returns, asyncio.run cancels every task that is left and waits for them
ShutdownDone ==
    /\ down = "stopping"
    /\ chain = "done" \/ (sess \notin {"over", "closing"} /\ ~cancel)
    /\ down' = "teardown" /\ chain' = "done"
    /\ cancel' = (sess \notin {"none", "over"})
    /\ strayCancel' = stray
    /\ CancelLoops(Loops)
    /\ UNCHANGED <<kind, stop, sess, res, pinger, timeVars, open, kisVars, stray, leaked, hb>>

\* runtime.run: main is not done shutdown_grace_s after the signal
ForceExit ==
    /\ stop /\ down \in {"up", "stopping"} /\ down' = "forced"
    /\ UNCHANGED <<kind, stop, chain, sessVars, timeVars, open, kisVars, strayVars,
                   leaked, hb, pollVars>>

\* the teardown of asyncio.run has seen every task end
TeardownEnds ==
    /\ down = "teardown" /\ sess \in {"none", "over"} /\ ~stray /\ down' = "exited"
    /\ UNCHANGED <<kind, stop, chain, sessVars, timeVars, open, kisVars, strayVars,
                   leaked, hb, pollVars>>

-----------------------------------------------------------------------------
Session == \/ StartSession \/ ApprovalKey \/ WsConnect \/ WsHandshake \/ Subscribe \/ Message \/ Control
           \/ SessionFails \/ PollFails \/ ReplayReturns \/ PingFails \/ CloseDone
           \/ TakeCancel \/ SwallowCancel \/ PollStep \/ StrayStep \/ MarketChanges
Chain == WatchdogTick \/ AbandonDone \/ AbandonTimeout \/ SessionSeen
Process == \/ HeartbeatDies \/ Supervise \/ SigTerm \/ FeeddStops \/ ShutdownDone
           \/ ForceExit \/ TeardownEnds

IngestNext == down \notin {"exited", "forced"} /\ (Session \/ Chain \/ Process)

\* the event loop runs whatever is ready and every timer fires; what the
\* upstream, the market and the operator do is left open.  At most one of the
\* steps of Progress is possible at a time
Progress == \/ StartSession \/ ApprovalKey \/ WsConnect \/ WsHandshake \/ Subscribe
            \/ CloseDone \/ SessionSeen
            \/ AbandonDone \/ AbandonTimeout
Fairness == /\ WF_vars(Progress) /\ WF_vars(TakeCancel \/ SwallowCancel)
            /\ WF_vars(WatchdogTick) /\ WF_vars(Supervise)
            /\ WF_vars(FeeddStops) /\ WF_vars(ShutdownDone) /\ WF_vars(TeardownEnds)
            /\ WF_vars(stray /\ strayCancel /\ StrayStep)

IngestSpec == IngestInit /\ [][IngestNext]_vars /\ Fairness

-----------------------------------------------------------------------------
TypeOK ==
    /\ kind \in Kinds /\ stop \in BOOLEAN
    /\ down \in {"up", "stopping", "teardown", "exited", "forced"}
    /\ chain \in {"session", "abandon1", "abandon2", "delay", "dead", "done"}
    /\ sess \in {"none", "key", "connecting", "handshake", "subscribing", "live",
                "closing", "over"}
    /\ res \in {"error", "cancelled", "returned"} /\ cancel \in BOOLEAN
    /\ pinger \in {"off", "on", "failed"}
    /\ lastMsg \in {Never} \cup (0..StaleTicks + 1) /\ watch \in 0..(2 * StaleTicks + 1)
    /\ open \in BOOLEAN /\ key \in BOOLEAN /\ stray \in BOOLEAN /\ strayCancel \in BOOLEAN
    /\ due + subs \in 0..Symbols /\ (limit = Never \/ limit \in 0..Symbols)
    /\ leaked \subseteq {"handshake", "subscribing", "live"} /\ hb \in {"up", "pause", "done"}
    /\ chain \in {"delay", "dead"} => sess \in {"none", "over"}
    /\ chain \in {"abandon1", "abandon2"} => sess # "none"
    /\ mine \subseteq Running

(* Adapter.run is left only by a CancelledError no one asked for, and only *)
(* upbit raises one: every disconnect of upbit counts as a death of the    *)
(* task, a stale or failed session of the others never does.               *)
OnlyUpbitDies == chain = "dead" => kind = "upbit"

(* Once in its receive loop a session closes its socket however it ends,   *)
(* except upbit's, which leaves through the await of its pinger; the ways  *)
(* to leave a socket behind before that are a handshake that fails and a   *)
(* subscription sent outside the try, which kis does not do.  A session    *)
(* without a socket of its own leaves none.                                *)
SocketsAreClosed ==
    /\ "live" \in leaked => kind = "upbit"
    /\ "subscribing" \in leaked => kind \in {"upbit", "binance"}
    /\ leaked # {} => isWs

(* A session ends as its adapter's code has it: who dies of it, and which  *)
(* socket it may leave open.                                               *)
SessionsAreSound == TypeOK /\ OnlyUpbitDies /\ SocketsAreClosed

(* Whatever a session does when it is cancelled, the adapter connects      *)
(* again, and the supervised heartbeat comes back: recovery never depends  *)
(* on the success of the cleanup.                                          *)
Recovers ==
    /\ []<>(stop \/ (chain = "session" /\ sess \in {"key", "connecting", "handshake",
                                                             "subscribing", "live"}))
    /\ []<>(stop \/ hb = "up")

(* A session that stays up while data is expected delivers market data: a  *)
(* socket that only answers pings is cut by the watchdog, unless something *)
(* left over from an earlier session goes on publishing in its place.      *)
StallIsBroken ==
    <>[](chain = "session" /\ sess = "live" /\ open /\ down = "up")
        => \/ []<><<Message>>_vars
           \/ []<>(isPoll /\ lastMsg = 0)
           \/ []<>(stray \/ Running \ mine # {})

(* After SIGTERM the process ends, and without the help of the forced exit *)
(* after shutdown_grace_s (which has no fairness here), unless a session   *)
(* swallows the one cancellation of the teardown, which no limit covers.   *)
StopEnds ==
    stop ~> \/ down \in {"exited", "forced"}
            \/ down = "teardown" /\ sess = "live" /\ ~cancel
            \/ down = "teardown" /\ stray /\ ~strayCancel
(* The feed gets on: it connects again, it delivers, and it stops when     *)
(* told to.                                                                *)
FeedGetsOn == Recovers /\ StallIsBroken /\ StopEnds
=============================================================================
