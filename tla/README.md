# Verification of the market feed platform

TLA+ models of the platform, model-checked with TLC and, where it says so,
proved with TLAPS for every value of the constants. Paths such as `writer.py`
are relative to `src/mdfeed/` (services under `services/`).

## 1. The system

```
exchanges, KIS -> feedd (adapters, supervisor) -> UDS bus -+-> tcp-gateway (Python, C++) -> TCP subscribers
                                                           +-> ws-gateway -> browsers
                                                           +-> writer -> SQLite / Postgres -> rest-api
                                                           +-> strategy -> signals     +-> quality -> events
                                                           +-> mcast publisher -> mcast clients
shared-memory ring: one producer, readers in other processes
writer's loop: archive -> remote copy -> retention (delete)
commands on Postgres: migration, gap, backup
order desk -> ledger (SQLite) <-> KIS broker (orders, day totals, fill notices)
contest (paper trading) -> its own ledger (SQLite), quotes of KIS, token shared with feedd
```

| component | state it keeps | operations | what is hard | what makes it correct |
|---|---|---|---|---|
| writer (`writer.py`, `storage/db.py`) | row lists, open bars, one batch to be acknowledged, tables, receipts | ingest, flush (in a thread), retry, final flush | event loop and flush threads share containers; answers lost after a commit; SIGTERM | a row is stored once and leaves the writer's hands only by being stored; bars add up |
| shared-memory ring (`ringbuffer.py`, `ringbuffer.hpp`) | header, slots; a reader's cursor and loss counters | push, poll, attach, re-create | no lock, overwriting while copying, producer crash | losses are counted exactly; what is delivered was pushed |
| tcp-gateway (`tcp_gateway.py`, `entitlements.py`) | latest frames; per subscriber queue, merged values, numbering, filter | connect, subscribe, fan-out, send, stop | slow subscribers, merging, overflow, two moments of numbering | gaps are losses and losses are gaps; latest values reach who reads |
| C++ gateway (`tcp_gateway.cpp`, `event_loop.hpp`) | the same, in one event loop with partial writes | accept, subscribe, fan-out, write, drain | a full socket, write interest, SIGTERM with a stuck subscriber | as above; while it is not stopped a backlog is written; the loop ends |
| UDS bus, frame protocol (`bus.py`, `protocol.py`) | queue, parser buffer, expected number | publish, subscribe, reconnect, parse | drop-oldest, half frames across a reconnect, restart of the numbering | forward, intact, or counted as lost |
| multicast feed (`mcast_publisher.cpp`, `mcast_client.py`) | retransmission ring; pending frames, expected number | publish, request, snapshot | loss, repetition, reordering, ranges nobody has | the newest value per key, every number accounted for |
| ws-gateway (`ws_gateway.py`) | merged state, a queue per browser | ingest, snapshot, delta loop, commands | a browser that reads slowly | the screen converges; signals are not merged away |
| supervisor, feedd, adapters | task table, connection, watchdog | spawn, restart, abandon, shutdown | restart racing shutdown, silent connections, swallowed cancellation | a dead or silent feed is replaced; which session may leave its socket open; shutdown ends |
| KIS pollers, tokens (`kis_rest.py`, `kis_macro.py`, `kis_token.py`) | last volume; token in memory and in a file | poll, renew | two loops, overtaking answers; tasks and processes that renew at once | volume counted at least once, exactly once unless an answer overtakes another; one issue per life |
| strategy, quality | bars, indicators, gates; windows, pending events | trade, quote, sweep, flush | late trades, the sweep, failing writes | bars are the trades; a detection is told once and kept |
| archive, retention (`archive.py`, `retention.py`) | receipts, progress, tables | archive, upload, verify, delete | a crash between a delete and its record; late rows; damaged uploads | nothing is deleted that no verified copy holds |
| migration, gaps, backup (`migration/`, `gaps.py`, `backup.py`) | checkpoints, gap records, manifests | copy, close and recover, dump, drill | crash and resume, two commands on one record, a dump during a migration | copied once and completely; recovery has evidence; a backup can be restored |
| order desk and ledger (`order_desk.py`, `ledger.py`) | orders, baselines, notices, day close | submit, reconcile, notice, close, restart | an await may see the world changed; timeouts of orders that arrived | no order twice, no wrong verdict, no invented fill, no wrong day made final |
| contest (`services/contest.py`, `contest.py`, `auth.py`) | accounts, orders, journal with a hash chain, sessions, prices | sign-up, order, integrity check, halt | requests that wait for one price call; an edited account, order or journal row | accounts are what the journal adds up to; what does not add up is halted |

`PROJECT.json` lists every component with its status and every hazard, at its
line, with the properties that would catch it.

## 2. Modules

| module | models | proofs |
|---|---|---|
| `Writer`, `RowSink` | the writer and its abstract specification: a row is accepted, then stored or lost, once | `WriterProofs` |
| `ShmRing` | the ring, access by access | `StreamProofs` |
| `Mcast` | publisher, channel and client | `StreamProofs` |
| `TcpGateway` | the Python gateway and its clients' tracker | `GatewayProofs` |
| `OrderDesk` | desk, ledger and broker for one day, symbol and side | `OrderDeskProofs` |
| `Retention` | archive, retention and the loop that drives them | `RetentionProofs` |
| `Migration`; `GapRecovery`, `Backup`; `Recovery` | the copy; gap commands and backup on the same database; all of them together | `RecoveryProofs` |
| `KisToken`; `Contest` | the token store; the contest with its quotes and its caller of the token store | `ContestProofs` |
| `CppGateway` | the C++ gateway | `GatewayProofs` |
| `Bus`, `WsGateway`, `Strategy`, `Quality`; `Feed` | the bus and its consumers; `Feed` composes them | `FeedProofs` (bus, WebSocket gateway and quality service) |
| `KisPoll`; `Ingest` | the polling adapters; one adapter under feedd and the supervisor | `FeedProofs` |
| `MC*` | instances for TLC | |

Operators marked `mutant` stand before the definition they are a faulty form
of. No action uses them; with one of them in place of its original the
property named in `PROJECT.json` is violated.

A property that a run checks is a conjunction of named parts, each with a
comment of its own: `RowsAccounted` is types, one holder per row, no second
writing and no leak but the known ones.

**Writer.** Frames are numbered by arrival; a bar is the set of its trades,
`{}` for no entry in `_bars`. A flush thread is cut where the interpreter may
switch and another thread can notice: waiting for `_db_lock`, the scan of
`_bars`, the database call, the pop. The event loop is cut once, inside the
append of a book row, whose list is loaded before `spread_bp` is evaluated. A
thread outlives its cancelled task. The database fails by rolling back, by
committing without an answer, or by losing the connection. Left out: metrics,
the `latest` table, numbers inside a bar, receipts of a foreign writer.

**ShmRing.** Every field and payload word is one access, in program order; a
ring created again is a new segment. Left out: the bytes of an 8-byte field,
`close`.

**TcpGateway, CppGateway.** One action per run of the event loop between two
awaits (waits, in C++). History variables say what may explain a gap or a
missing frame. The client's tracker advances with the write, since TCP keeps
the order. In C++ the socket takes a bounded number of frames and is written to
again only while write interest is registered. The bus connection may end in the
middle of a batch (`OnBusCut`): what came before is fanned out and nobody is
written to. SIGTERM may come at any moment, the wait included.

**OrderDesk.** `submit` and `reconcile_once` end at their awaits; a broker call
has a moment at which the broker answers and a later one at which the desk
reads it. The ledger commits statement by statement (`isolation_level=None`,
`ledger.py:108`): between two commits nothing else runs, so the handlers stay one
action, and `Dies` is the crash inside one, after any prefix of what it commits
(`CrashInNewOrder`, `CrashInNotice`, `CrashInTotals`, `CrashInClose`); `Crash` is
one between the handlers. Left out: amounts and money limits, the
holdings reconciliation (it can only delay the close), sessions, the audit
tables, a row of the table of fills written twice, the next day. One assumption on the outside is part of the model: a
request reaches the broker within `UNKNOWN_GRACE_S` of its order's creation or
never, and an answer is not held back across the end of that period
(`BrokerAccepts`, `GracePasses`). Rule 2 of the ledger cannot work without it
and the code does not enforce it.

**Retention.** A row is a table and a time stamp, a digest is the set of rows
it is taken of. Archive, upload, round trip, receipt, delete by chunks and
progress are steps a crash may separate. Deletion is on (`RetentionDays` is at
least 1: with `retention_days` 0, the default, nothing is ever deleted).

**Migration, GapRecovery, Backup.** A row is a value, a digest the bag of
values per table. Two processes, crashes and changes of the source and the
target interleave with the steps under the advisory lock; rows of the source are
changed and added, not deleted. The interval of a gap has both its ends: where
the range the receipt was asked for begins, where the coverage begins, and where
they end are compared as `gaps.py:199` and `gap_repository.py:293-383` do. `Recovery` puts the
gap commands and the backup on the same tables. Neither reads what the other
writes, so a behaviour follows one of them (a bound, in the guards of `Next`).

**Mcast.** A frame is its number. The channel is a set of datagrams that may be
lost, repeated and taken in any order; the TCP recovery channel is a queue that
may be cut.

**Bus, Feed.** A frame on the socket is a head and a rest, so a connection can
end in the middle of one. The publisher registers a subscriber's queue, waits for
its name and makes its statistic only then (`Handle`, `Named`), while it goes on
publishing. `Feed` picks one consumer per behaviour: with the
WebSocket gateway the bus is part of the behaviour; strategy and quality share
nothing with it but the frames and are followed from those. Strategy: one
symbol, whole-number prices, averages kept as sums so that comparisons are
exact. Quality: whole-number prices and times, fractions as pairs; a write that
fails after some of its rows leaves them in the open transaction (`opened`).

**Ingest, KisPoll.** The supervisor's tasks and an adapter's session, cut at
the awaits: connecting, handshake and subscription are steps that may fail or be
cancelled with the socket open, and `leaked` remembers where that happened. A
cancellation is a request that the task takes at its next await
or swallows, as `asyncio.wait_for` of Python 3.10 and 3.11 may.

**Contest, KisToken.** A handler runs to its next await; requests that miss the
price cache share one call. The hash of a journal row stands for the version of
the row it was taken of. `EditFile` is one edit of the ledger file from
outside: the cash of an account, the money of a filled order, a row of the
journal. Edits that `integrity()` does not look at (`positions.cost`,
`orders.side`, an account taken out: `contest.py:284-320`) are not among them. In
the run each process has one caller of the token at a time; the proofs are for
any number. A cancellation inside `to_thread` is not modelled.

## 3. Runs

| run | shows | bounds, and why they are enough |
|---|---|---|
| `writer` | rows are stored once, have one holder, leak only by two races; memory is bounded; without a failure bars are exact while the writer runs and SIGTERM leaves no row behind; a trade is added twice to a bar at most once per failure and once at the shutdown; `Writer` implements `RowSink`; a row is stored in the end | three frames of every kind, two buckets, a batch of two, a failure of every kind (the bound of two limits on the memory takes more frames to break; it is proved): a flush, its retry and newer rows meet, as do a task's thread, the flush loop's and the final one |
| `ring` | exact accounting, no false loss, a bad copy is always one of a push under way, a polling reader passes every frame | two slots, two words, four pushes: the ring is lapped and a copy can be overtaken at every access; one producer crash |
| `gateways` | Python: gaps are losses and losses are gaps, one place per key, no hole between snapshot and increments, who reads is served. C++: numbers, places, newest values, rights; a backlog is written while the process is not stopped, the loop ends after SIGTERM | a behaviour is of one of them, the other ends at its start. Python: one subscriber (subscribers share only `last` and `frames`), four frames (three with entitlements), a queue of two, a drop limit of one: overflow and cut-off in both modes, with and without entitlements. C++: one subscriber, two keys of which its token allows one, a queue and a socket of one |
| `desk` | verdicts, one open order, ids, fills and the close are right; a round without failure settles doubts | two orders with partial fills and notices, and one of: crash at any commit, failing call, order placed elsewhere |
| `retention` | a deleted row is in a verified copy, late rows stop a deletion, expired rows go | three time stamps over two days, kept for a day, two tables, chunks of one, one late row, one fault of any kind: a crash falls between any two steps |
| `migration` | one copier, no row twice, completion only of a complete copy, a run finishes | two processes, two run ids, two tables of which one is empty, two rows, chunks of one, two faults: a resumed run meets a second process and a changed source |
| `recovery` | recovery has evidence and is kept, backups are restorable | two commands on one gap, two backups, one migration, one fault |
| `mcast` | the newest value per key, every number accounted for, the client catches up | a retransmission ring of two under four numbers: both a repairable and an unrecoverable range; two faults |
| `feed` | no silent loss on the bus, browsers, bars and signals, detections | three frames over a queue of one, cut in up to three pieces, two faults: a half frame of one connection meets the next, and a restart meets a frame left behind; five trades over five bars; four messages, two assets with two legs each |
| `ingest` | a dead or silent connection is replaced, shutdown ends; a session that reached its receive loop closes its socket, except upbit's; volume is counted at least once, and exactly once unless an answer overtakes another | each kind of adapter, two periods of patience |
| `contest` | books balance, one seat per invite, one fill per id, edits of money and journal are halted, one token issue per life | two people, one code, two requests at a time, three orders of two ids, two rare events (failures, crashes, edits) |
| `cppdrain` | **violated** by the code: SIGTERM during the wait ends the process before its drain (`DrainIsKept`, §5) | the C++ half of `gateways` |

`CHECK_DEADLOCK FALSE` stands where the system really stops: a finished
migration, archive, backup or recovery, a feed or a gateway told to stop, an exhausted bound.

### Fairness

- `Writer`: a thread that was started ends, `_flush_loop` comes round, the
  event loop finishes its statement. Failures are finitely many.
- `ShmRing`: a reader keeps polling. Nothing is assumed of the producer.
- `TcpGateway`: the sender task of a subscriber in `Fast` gets on, which is
  what "this client reads its socket" means.
- `Retention`: time passes, the loop of the writer calls the archiver and the
  pruner again and again (`asyncio.sleep` in a `while`).
- `Migration`: a process takes its next step; an operator starts a run that was
  left over again.
- `Mcast`: the publisher's heartbeat and its recovery thread run; the client
  polls; a datagram that stays in the net is delivered. Losses are bounded.
- `CppGateway`: the loop turns, time passes, a client in the property reads;
  strong fairness for "the socket can be written" because it is disabled while
  the loop is busy.
- `Ingest`: the event loop runs its ready tasks, time passes, answers and
  time-outs come.
- `OrderDesk`, `Recovery`, `Feed`, `Contest`: safety only; `RoundConverges` says
  what one round achieves and needs no fairness.

## 4. Proofs

For every value of the constants, under the named assumptions of each module.
These say what the code's configuration says (sizes are positive, tables are
finite). Three are worth a reader's notice: `InstrumentsAssumption` (finitely
many instruments), `ContestAssumption` (the start capital is not 0, by which
standings are divided, and fee and tax together do not exceed the amount; the
defaults are a fraction of a percent), `CallersAssumption` (every caller of the
token belongs to a process).

**`WriterProofs`.** `RowsAccounted`, `PendingBounded`, `CleanWithoutFault`,
`IsRowSink`. The row properties need to know that a batch overlaps the tables
only when its receipt is there, that one thread is inside the lock and where it
stands (`LockDiscipline`), and that whatever is held has arrived (`RowInv`). The
memory bound counts lists, the swapped rows and the batch together (`Counted`):
each list is cut to the limit, and what was swapped out is at most one limit.
Without failures (`CleanInv`) a bar is in the tables, in `_bars` or in the
batch, once, and a shutdown drains the lists before it closes. `IsRowSink`: each
step accepts a row, stores a set of rows in flight, loses one, or stutters.

**`StreamProofs`**, the two transports that number their frames. Ring:
`LossAccounting`, `PollIsSound`. A slot serves one residue class, so what is
found in it is of the seq asked for or of a later lap (`SlotsFit`), and
`seq_head` is never behind the rest of its slot (`HeadLeads`). A reader inside
`poll` has copied words that fit its seq (`Reading`), and its losses add up
(`Accounted`). Multicast: `StreamIsSound`, by `McastInv`. What is on the recovery
channel speaks of frames that were published, and a snapshot is what the
publisher's cache held before its number (`ChannelIsTrue`). One snapshot is asked
for and given, before anything else (`Handshake`): without that, a second
snapshot could set the expected number back. A subscriber that expects `n` has
everything before `n`, or has counted it and the publisher's ring no longer had
it (`UpTo`); a run of pending frames, a recovered frame and an unrecoverable
range each carry that from one number to a later one (`AdvanceRuns`).

**`FeedProofs`.** `NoSilentLoss`, by `BusInv`. Everything between the publisher's
queue and the consumer is one line of cells, `Wire`, parser buffer and socket
together: heads and rests alternate, and ids ascend from what was delivered over
the wire to the queue (`InOrder`). What a connection may leave behind is said by
`Left`, a stub only at its end. The loss is accounted for by what a process's
numbers lag behind the frames made: the lag grows with each process, so the
tracker never counts more than the frames missing (`Lags`), and exactly those as
long as there was one process (`FirstProcess`). The statistic of a subscriber lags
behind the publisher's count by what was dropped before it had a name
(`DropsHaveAName`). `BrowsersAreServed`, by `WsInv`, which is per browser: its
queue, read on top of what it shows, gives the newest state of every symbol it
wants but the dirty ones (`Current`), and signals sent, seen and queued agree
(`Counts`). It is proved for a gateway behind any behaviour of the bus;
`FeedAssumption` says that what is quoted is of a symbol the gateway keeps.
`DetectionsAreTold`, by `QualityInv`, which says of each thing a detector keeps
what it is in terms of the trades recorded so far. The record a repetition is
compared with is the last of its symbol (`Taped`); since, count and fired are
those of the trades that repeat it, told once (`Watched`); the window holds the
last moves since the break of a symbol's trades, newest last, each found by how
many came after it (`Compared`); the last alarm of the rates is an event and is
recent as long as they lie apart (`Alarmed`); and a row of the event table is in
one of six places, from the pending list to what a failed insert dropped
(`Ledger`). `QualityAssumption` asks that a repetition needs more than one record
and that the quiet time is positive: `min_updates`
is 20 (`quality.py:209`) and the time between two alarms 60 (`quality.py:325`).
`SessionsAreSound` and `VolumeCounted`, by `IngestInv`: whom `Adapter.run` waits
for is there and was not cancelled (`Waited`), registrations awaited and had fit
the symbols (`Registered`), and nothing is published before the first answer is
remembered (`Counted`). A socket is left open only where no `try` covers it:
in the handshake, in the subscription of upbit and binance, and by upbit's wait
for its ping task (`SocketsAreClosed`).

**`GatewayProofs`.** `QueuesAreSound`, `GapsAreLosses`, `NoHole`. Per
subscriber: numbers in the queue ascend to the last one given (`Ordered`,
`Streaming`), the tracker's gaps and the drops counted differ by what is still
in the queue (`Tracked`), and the latest frame of a followed key was sent or has
its place (`Placed`, `Current`). `SubscribersAreSound` of the C++ gateway, by
`CppInv`: what is under way to a subscriber is one `Tape`, its socket, its wbuf
and, in stream mode, its queue. Numbers on it ascend (`Rising`), gaps and drops
balance over it (`Balanced`), and the values of a key do not go back
(`Forward`); a waiting value has one place (`Merged`), and what a subscriber is
owed was sent or waits (`Newest`, `Entitled`). A batch from the bus reaches
everybody in one step: it is a chain of states, and a first one without
`CppInv` would follow one that has it. A batch cut short is the same chain
without the writes at its end.

**`OrderDeskProofs`.** All five properties. `NoOrderTwice` rests on what
`submit` has checked still holding after its awaits (`Checked`, `Written`).
`VerdictIsTrue` and `CloseIsSound` rest on `Verdicts`: a baseline and the totals
read bound what was ordered elsewhere (`Based`, `Covered`), and an answer about
to be applied was true of orders the broker had (`AnswerWasTrue`).
`FillsAreReal` rests on `Fills`: totals read are never ahead of the broker, an
order has at most what the broker filled or its notices carry, and the day sums
agree (`TotalsReal`, `Read`, `Rest`). A crash between two commits leaves no
more than that undone, but for one case, which is why the property exempts an
order made after another one expired: an open order beside an expired one can
only be a later one (`Settled`), since a day is closed with all its orders.

**`RetentionProofs`.** `RowsAreSafe`, `LateRowsStopDeletion`. What the archiver
sends is what its manifest names (`ArchInv`), a segment has one receipt and the
receipt was given on a round trip of the object (`ReceiptInv`), and what is gone
is in it (`GoneInv`).

**`RecoveryProofs`.** `CopyIsSound`, `CompletedIsComplete`, `GapsAreSound`, `RecoveredIsKept`,
`BackupIsSound`. The copy: what a process has established at each place under
the lock (`Place`), rows and row ids of a run below its checkpoint (`Below`,
`Counted`), no row twice (`Distinct`). Completion: the source is no shorter than
when its digest was taken (`SourceKept`) and the tables behind a process are
copied to that length (`Reached`), so a target that counts as many rows of each
value consists of the run's own rows (`TargetIsOwn`). Two sequences with the
same counts have the same length by a map between the places of each value,
without induction (`SameCounts`). Gaps: completed runs, coverages and
receipts are never rewritten, so evidence stays evidence (`Evidence`, `Proven`),
and a command that is about to save "recovered" has it (`Command`): a coverage of
the gap's fingerprint that begins no later than the gap and ends no earlier. Backup: a
file describes its snapshot and a verified one was restored (`FilesInv`,
`MakingInv`, `DrillInv`).

**`ContestProofs`.** `BooksAreSound`, `QuotesAreShared`.
`TokenInv`: issues are counted against the tokens used up and the one in the
file, and only the holder of the flock issues. `FlightInv`: who waits has a
call under way. `BookInv`: accounts equal the sums of the journal's rows
(`BooksBalance`), a filled order has one row, the chain holds; once the file was
edited there is a difference (`Discrepant`) that no step of the program takes
away, which is why a later check still finds it.

Sums (`OrderDeskProofs`, `ContestProofs`): the sum over a finite set is the sum
over a part and over the rest (`SumSplit`). What a recursive function computes is
proved without induction over an operator: a smallest set, or number, for which
the fact failed would have a smaller one.

### Only model-checked

- Liveness, which TLAPS cannot prove under fairness: `EventuallyStored`,
  `CatchesUp` (ring), `SubscriberCatchesUp` (multicast), `FastIsServed`,
  `ExpiredRowsGo`, `RunFinishes`, `LoopGetsOn`, `FeedGetsOn`.
- `BarsOvercountBounded`, which counts how often a trade is in a bar.
- `SignalsFollowTrades`: what the indicators say of the whole series is given by
  sums and powers over it, which needs induction over data.

## 5. What the code does that a reader may not expect

One run shows the code against its own words; `PROJECT.json` lists it as a finding.

- **SIGTERM ends the C++ gateway without its drain** (run `cppdrain`). The loop
  condition `!g_stop || draining_` is tested before the body sets `draining_`
  (`tcp_gateway.cpp:255`), so a signal that arrives during the wait, where the
  process spends its time, ends it at once. `tcp_gateway.cpp:19-25` says that
  existing subscribers are served for `MDFEED_DRAIN_SECONDS`. The test of it
  (`tests/test_cpp_gateway.py:461-541`) does not notice: what it counts includes
  the frames received before the signal. A backlog is then not written either,
  which is why `BacklogIsSent` is about a process that was not stopped.

Each of the following is in a model, and unless it says otherwise a property
carries it as an exception or bounds it.

- `writer.py:19` promises a flush on SIGTERM; with a batch waiting for its retry
  the last flush writes that batch and leaves the newer rows (`writer.py:544`).
  `CleanWithoutFault` is about behaviours without a database failure.
- A bar may be added to the table twice: after a failure the acknowledged retry
  does not pop its bars (`writer.py:216`), and **without any failure** the final
  upsert of the open bars (`writer.py:546`) adds those that a thread of a
  cancelled flush has written and not popped yet. `BarsOvercountBounded` says how
  often: once per failure and once at the shutdown.
- A scan of `_bars` broken by the event loop loses the rows swapped out, and a
  book row appended to a list already copied is lost; a late trade added to a
  bar after its row was captured goes away with the pop.
- `PostgresStorage._reconnect` has no caller: a broken connection is never
  replaced, so `EventuallyStored` ends with the connection.
- `ringbuffer.py:16` describes the head and tail check as detecting torn reads;
  a mixture of two frames can pass it (`ringbuffer.py:129`). `PollIsSound` says
  which bytes can be foreign.
- In conflate mode of the Python gateway an overflow drops the oldest place of the
  queue but leaves its key in `pending` (`tcp_gateway.py:192-205`). Later frames
  of that key only replace the pending value (`:220-224`) and are never queued, so
  the instrument **stays stuck** for that subscriber until it changes its mode or
  connects again. `NoHole` and `FastIsServed` are about subscribers that dropped
  nothing. The C++ gateway erases the key (`tcp_gateway.cpp:457`).
- A merged key numbered when sent can leave a gap without a loss;
  `GapsAreLosses` is about subscribers that never conflated.
- When the bus connection of the C++ gateway ends in the middle of a batch
  (`tcp_gateway.cpp:419-423`), the frames before it are fanned out but nobody is
  written to or armed; they wait until something else makes the gateway write to
  that subscriber. `BacklogIsSent` leaves such a subscriber out (`unsent`).
- The bus registers a subscriber, waits up to two seconds for its name, and makes
  its statistic only then (`bus.py:103-116`). Frames its queue drops meanwhile
  are in the publisher's total and in no subscriber's statistic; `DropsHaveAName`
  counts from the name on.
- A socket stays open when the handshake fails or is cancelled
  (`wsproto.py:199-212`: no path closes the writer) or when the subscription does
  (`binance.py:71-74`, `upbit.py:43-51`: before the `try`). upbit leaves it open
  as well when a session is cancelled or its connection ends while the ping task
  is alive: the `CancelledError` of the awaited ping task is no `Exception`, so
  `close` is not reached (`upbit.py:57-63`), and the adapter's task dies of it
  until `_keep_running` starts it again. `SessionsAreSound` says there is no other
  way, and `FeedGetsOn` that the feed comes back.
- When an older REST answer arrives after a newer one, the last volume falls back
  and the next answer emits the same growth again (`kis_rest.py:258-263`).
  `VolumeCounted` is a lower bound always, and exact while no answer overtakes.
- A gap command that read a gap before another one recovered it writes its stale
  state over it (`gap_repository.py:88`). `RecoveredIsKept` exempts this and says
  that nothing else undoes a recovery.
- The ledger commits statement by statement (`ledger.py:108`), and a crash between
  the commits that expire the orders and the one that closes the day
  (`ledger.py:387-403`) leaves the day open: a new order of the same symbol and side
  is taken, and a fill of the expired one that the totals show late is booked for
  it, against rules 4 and 6 of the ledger. This needs the broker to take an order
  after 15:40. `FillsAreReal` exempts an order made after another one expired, and
  only that.
- A late notice after the totals adds the same fill again (`ledger.py:324`);
  an order placed elsewhere that was resting when the baseline was taken has its
  fill booked for the desk's order. `FillsAreReal` and `VerdictIsTrue` except
  these.
- An unrecoverable range moves the multicast client past frames it holds
  (`mcast_client.py:200`); they are counted.
- The contest looks at the halt before it waits for a price and not after
  (`services/contest.py:259`), so an order that was waiting is filled though
  `contest.py:11-12` says orders are halted. No property excludes it.

## 6. Not modelled

The REST API and HTTP server (stateless reads), metrics, clock and
configuration, the printing commands of the CLI, research scripts, web pages and
deployment files. Within modelled components: field encodings and CRC, message
decoding, floating-point rounding, compression, pacing of REST calls, the
reconnects of the notice channel.

## 7. What remains

1. A proof of the parts of `SignalsFollowTrades` that do not depend on what a
   fold computes.
2. The refinements by which a gateway and the multicast client implement a lossy
   ordered channel whose losses are told, step by step.
