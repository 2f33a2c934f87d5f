------------------------------- MODULE Writer -------------------------------
(***************************************************************************)
(* services/writer.py with the batch path of storage/db.py.                *)
(*                                                                         *)
(* The event loop runs one consume task per bus source, the flush task and *)
(* run().  A flush is handed to a worker thread (asyncio.to_thread) which  *)
(* works under the threading lock _db_lock while the event loop keeps      *)
(* ingesting; cancelling the task does not stop its thread.  Python's GIL  *)
(* makes single list/dict operations atomic and nothing more, so a thread  *)
(* is cut at the points where the interpreter may switch.                  *)
(*                                                                         *)
(* A frame is the number of its arrival; a Bar is the set of the trades it *)
(* aggregates, {} standing for "no entry in _bars"; a table row is counted *)
(* by how many times its frame was written.  batch_id is a fresh uuid, so  *)
(* the only receipt a look-up can ever meet is the current batch's own.    *)
(***************************************************************************)
EXTENDS Integers, FiniteSets

CONSTANTS
    Sources,        \* bus paths, one consume task each
    Instruments,    \* (venue, symbol) pairs
    MaxBucket,      \* bound: bar buckets are 0..MaxBucket
    MaxFrames,      \* bound: frames that ever arrive
    WriteBatch,     \* cfg.write_batch
    PendingMax,     \* cfg.writer_pending_max_rows
    Kinds,          \* message types on the buses
    Faults,         \* ways the database may fail a call
    MaxFaults       \* bound: database failures that ever happen

ASSUME BoundsAssumption ==
    /\ MaxBucket \in Nat /\ MaxFrames \in Nat
    /\ WriteBatch \in Nat \ {0} /\ PendingMax \in Nat
    /\ MaxFaults \in Nat

ASSUME KindsAssumption ==
    /\ Kinds \subseteq {"trade", "book", "signal"}
    /\ Faults \subseteq {"rollback", "lostAck", "connLoss"}

ASSUME SourcesAssumption == Sources \cap {"flush", "main", "free"} = {}
ASSUME InstrumentsAssumption == IsFiniteSet(Instruments)    \* the keys of a dict

Ids     == 1..MaxFrames
Buckets == 0..MaxBucket
BarKeys == Instruments \X Buckets
NoBatch == [rows |-> {}, bars |-> [k \in BarKeys |-> {}], set |-> FALSE]
NoBars  == [k \in BarKeys |-> {}]
Callers == Sources \cup {"flush", "main"}   \* tasks that may await a flush

VARIABLES
    framesIn,       \* frames_in
    now,            \* bucket of the wall clock
    trades,         \* _trades
    books,          \* _books
    signals,        \* _signals
    bars,           \* _bars
    sampledAt,      \* keys of _last_book_at
    appending,      \* the book row whose list is loaded but not yet appended to
    retry,          \* _retry_batch
    lock,           \* holder of _db_lock
    thread,         \* where the flush thread of each caller is
    swapped,        \* rows the lock holder took out of the lists
    cut,            \* the lock holder's cutoff bucket
    resized,        \* _bars got a new key since the lock holder began its scan
    done,           \* keys of the finished bars the lock holder captured
    main,           \* where run() is
    finalBars,      \* the bars run() captured for _final
    conn,           \* the storage connection
    dbRows,         \* trades, book_top and signals: copies of each frame
    dbBars,         \* bars_1m: times each trade was added
    receipted,      \* ingest_batch_receipts holds the current batch
    faults,         \* history: database failures so far
    accepted,       \* history: rows that entered the writer
    lost            \* history: rows dropped on the floor by a race

memory == <<framesIn, now, trades, books, signals, bars, sampledAt, appending>>
flush  == <<retry, lock, thread, swapped, cut, resized, done>>
store  == <<conn, dbRows, dbBars, receipted>>
vars   == <<memory, flush, main, finalBars, store, faults, accepted, lost>>

NoAppend == [id |-> 0, list |-> "none", src |-> "main"]

Init ==
    /\ framesIn = 0 /\ now = 0
    /\ trades = {} /\ books = {} /\ signals = {}
    /\ bars = NoBars /\ sampledAt = {} /\ appending = NoAppend
    /\ retry = NoBatch /\ lock = "free"
    /\ thread = [c \in Callers |-> "none"]
    /\ swapped = {} /\ cut = 0 /\ resized = FALSE /\ done = {}
    /\ main = "running" /\ finalBars = NoBars
    /\ conn = "open"
    /\ dbRows = [i \in Ids |-> 0] /\ dbBars = [i \in Ids |-> 0]
    /\ receipted = FALSE
    /\ faults = 0 /\ accepted = {} /\ lost = {}

-----------------------------------------------------------------------------
(* Event loop: ingest.                                                     *)

BarRows(b) == {k \in BarKeys : b[k] # {}}

PendingWithoutBooks ==              \* mutant: a list is forgotten
    Cardinality(retry.rows) + Cardinality(BarRows(retry.bars))
      + Cardinality(trades) + Cardinality(signals)
PendingRowCount ==
    Cardinality(retry.rows) + Cardinality(BarRows(retry.bars))
      + Cardinality(trades) + Cardinality(books) + Cardinality(signals)

\* The event loop is a single thread: while it stands inside the append of a
\* book row, none of its other steps can happen.
LoopFree == appending = NoAppend

\* The frame whose turn it is; the next one if the task is not in a flush.
Arrives(s) ==
    /\ main = "running" /\ LoopFree
    /\ thread[s] = "none"
    /\ framesIn < MaxFrames
    /\ framesIn' = framesIn + 1

Frame == framesIn + 1

\* _consume, after every frame it ingested: a full batch is flushed at once.
FlushIfFull(s) ==
    thread' = IF Cardinality(trades') >= WriteBatch
              THEN [thread EXCEPT ![s] = "lock"] ELSE thread

IngestDroppedKeeps(s) ==            \* mutant: the return after the drop is missing
    /\ Arrives(s)
    /\ PendingRowCount >= PendingMax
    /\ signals' = signals \cup {Frame}
    /\ UNCHANGED trades
    /\ FlushIfFull(s)
    /\ UNCHANGED <<now, books, bars, sampledAt, appending, retry, lock, swapped,
                   cut, resized, done, main, finalBars, store, faults,
                   accepted, lost>>

\* _ingest: the pending buffer is full, the frame is dropped and counted.
IngestDropped(s) ==
    /\ Arrives(s)
    /\ PendingRowCount >= PendingMax
    /\ UNCHANGED trades
    /\ FlushIfFull(s)
    /\ UNCHANGED <<now, books, signals, bars, sampledAt, appending, retry, lock,
                   swapped, cut, resized, done, main, finalBars, store, faults,
                   accepted, lost>>

\* _ingest of a trade with _accumulate_bar.  A new key in a non-empty _bars breaks a scan under way.
IngestTrade(s) ==
    /\ "trade" \in Kinds
    /\ Arrives(s)
    /\ PendingRowCount < PendingMax
    /\ trades' = trades \cup {Frame}
    /\ \E k \in BarKeys :
         /\ bars' = [bars EXCEPT ![k] = @ \cup {Frame}]
         /\ resized' = (resized \/ (bars[k] = {} /\ BarRows(bars) # {}))
    /\ FlushIfFull(s)
    /\ accepted' = accepted \cup {Frame}
    /\ UNCHANGED <<now, books, signals, sampledAt, appending, retry, lock,
                   swapped, cut, done, main, finalBars, store, faults, lost>>

\* _ingest of a book top of instrument x: thinned out when the last sample of
\* x is less than BOOK_SAMPLE_S old, otherwise the list object is loaded and
\* spread_bp, a property, is evaluated before the append.
IngestBook(s) ==
    /\ "book" \in Kinds
    /\ Arrives(s)
    /\ PendingRowCount < PendingMax
    /\ UNCHANGED trades
    /\ \E x \in Instruments :
         \/ /\ x \in sampledAt
            /\ FlushIfFull(s)
            /\ UNCHANGED <<sampledAt, appending, accepted>>
         \/ /\ sampledAt' = sampledAt \cup {x}
            /\ appending' = [id |-> Frame, list |-> "live", src |-> s]
            /\ accepted' = accepted \cup {Frame}
            /\ UNCHANGED thread
    /\ UNCHANGED <<now, books, signals, bars, retry, lock, swapped, cut, resized,
                   done, main, finalBars, store, faults, lost>>

\* The append itself: to _books, to the list a flush has swapped out but not
\* yet copied into its batch, or to one nobody will read again.
AppendBook ==
    /\ appending # NoAppend
    /\ appending' = NoAppend
    /\ UNCHANGED trades
    /\ FlushIfFull(appending.src)
    /\ books' = IF appending.list = "live" THEN books \cup {appending.id} ELSE books
    /\ swapped' = IF appending.list = "swapped" THEN swapped \cup {appending.id} ELSE swapped
    /\ lost' = IF appending.list = "dead" THEN lost \cup {appending.id} ELSE lost
    /\ UNCHANGED <<framesIn, now, signals, bars, sampledAt, retry, lock, cut, resized, done, main, finalBars, store, faults,
                   accepted>>

IngestSignal(s) ==
    /\ "signal" \in Kinds
    /\ Arrives(s)
    /\ PendingRowCount < PendingMax
    /\ signals' = signals \cup {Frame}
    /\ accepted' = accepted \cup {Frame}
    /\ UNCHANGED trades
    /\ FlushIfFull(s)
    /\ UNCHANGED <<now, books, bars, sampledAt, appending, retry, lock, swapped,
                   cut, resized, done, main, finalBars, store, faults, lost>>

-----------------------------------------------------------------------------
(* Event loop: _flush starts a thread; the wall clock passes buckets.      *)

NewRowsToFlush ==                   \* mutant: the early return forgets the retry
    trades # {} \/ books # {} \/ signals # {} \/ BarRows(bars) # {}
SomethingToFlush ==
    retry.set \/ trades # {} \/ books # {} \/ signals # {} \/ BarRows(bars) # {}

\* One turn of _flush_loop; it may still turn once after stop was set.
FlushTick ==
    /\ main \in {"running", "stopping"} /\ LoopFree
    /\ thread["flush"] = "none"
    /\ SomethingToFlush
    /\ thread' = [thread EXCEPT !["flush"] = "lock"]
    /\ UNCHANGED <<memory, retry, lock, swapped, cut, resized, done, main,
                   finalBars, store, faults, accepted, lost>>

ClockTick ==
    /\ now < MaxBucket
    /\ now' = now + 1
    /\ UNCHANGED <<framesIn, trades, books, signals, bars, sampledAt, appending,
                   flush, main, finalBars, store, faults, accepted, lost>>

-----------------------------------------------------------------------------
(* Flush thread: _flush_sync / _flush_locked.                              *)

\* What has become of the list object the event loop is about to append to.
Relisted(l) == [id |-> appending.id, list |-> l, src |-> appending.src]

\* Take _db_lock; a batch still to be acknowledged is written again first.
AcquireRetry(c) ==
    /\ thread[c] = "lock" /\ lock = "free"
    /\ retry.set
    /\ lock' = c
    /\ thread' = [thread EXCEPT ![c] = "rewrite"]
    /\ UNCHANGED <<memory, retry, swapped, cut, resized, done, main, finalBars,
                   store, faults, accepted, lost>>

\* Take _db_lock, swap the three lists for empty ones, read the clock and
\* begin the scan of _bars.
AcquireSwap(c) ==
    /\ thread[c] = "lock" /\ lock = "free"
    /\ ~retry.set
    /\ lock' = c
    /\ thread' = [thread EXCEPT ![c] = "scan"]
    /\ swapped' = trades \cup books \cup signals
    /\ trades' = {} /\ books' = {} /\ signals' = {}
    /\ appending' = IF appending.list = "live"
                    THEN Relisted("swapped") ELSE appending
    /\ cut' = now
    /\ resized' = FALSE
    /\ UNCHANGED <<framesIn, now, bars, sampledAt, retry, done, main, finalBars,
                   store, faults, accepted, lost>>

Release(c) ==
    /\ lock' = "free"
    /\ thread' = [thread EXCEPT ![c] = "none"]

\* A swapped-out list that has been copied, or given up, is read by nobody.
BuryAppend ==
    appending' = IF appending.list = "swapped"
                 THEN Relisted("dead") ELSE appending

\* "dictionary changed size during iteration": the exception leaves
\* _flush_locked before _retry_batch is set and the swapped rows go with it.
ScanRaises(c) ==
    /\ thread[c] = "scan" /\ resized
    /\ lost' = lost \cup swapped
    /\ swapped' = {}
    /\ BuryAppend
    /\ Release(c)
    /\ UNCHANGED <<framesIn, now, trades, books, signals, bars, sampledAt,
                   retry, cut, resized, done, main, finalBars, store, faults,
                   accepted>>

DoneBars == {k \in BarRows(bars) : k[2] < cut}

\* make_storage_batch draws a new uuid, which no receipt carries yet.
FreshBatchId  == receipted' = FALSE


\* Capture the rows of the finished bars, make the batch with a new batch_id
\* and publish it as _retry_batch before the first write.
MakeBatch(c) ==
    /\ thread[c] = "scan" /\ ~resized
    /\ done' = DoneBars
    /\ retry' = [rows |-> swapped, set |-> TRUE,
                 bars |-> [k \in BarKeys |-> IF k \in DoneBars THEN bars[k] ELSE {}]]
    /\ FreshBatchId
    /\ swapped' = {}
    /\ BuryAppend
    /\ thread' = [thread EXCEPT ![c] = "write"]
    /\ UNCHANGED <<framesIn, now, trades, books, signals, bars, sampledAt, lock,
                   cut, resized, main, finalBars, conn, dbRows, dbBars, faults,
                   accepted, lost>>

-----------------------------------------------------------------------------
(* Storage.write_batch, one transaction with its receipts.                 *)

EmptyBatch(b) == b.rows = {} /\ BarRows(b.bars) = {}

InBars(b, i) == \E k \in BarKeys : i \in b[k]

\* The effect of the transaction: plain inserts, and the additive upsert of
\* bars_1m (volume = volume + excluded.volume).
AddBars(b) == dbBars' = [i \in Ids |-> IF InBars(b, i) THEN dbBars[i] + 1 ELSE dbBars[i]]

Commit(b) ==
    /\ dbRows' = [i \in Ids |-> IF i \in b.rows THEN dbRows[i] + 1 ELSE dbRows[i]]
    /\ AddBars(b.bars)
    /\ receipted' = TRUE

WriteAgain ==                       \* mutant: the receipt is not looked up
    IF EmptyBatch(retry) THEN UNCHANGED <<dbRows, dbBars, receipted>>
                         ELSE Commit(retry)

\* What write_batch does to the tables when it gets through.
WriteBatchEffect ==
    IF EmptyBatch(retry) \/ receipted
    THEN UNCHANGED <<dbRows, dbBars, receipted>>
    ELSE Commit(retry)

\* write_batch returns: the batch is acknowledged.  After a first write the
\* finished bars are still to be popped, after a retry the flush is over.
WriteReturns(c) ==
    /\ thread[c] \in {"write", "rewrite"}
    /\ EmptyBatch(retry) \/ conn = "open"
    /\ WriteBatchEffect
    /\ retry' = NoBatch
    /\ IF thread[c] = "write"
       THEN thread' = [thread EXCEPT ![c] = "pop"] /\ UNCHANGED lock
       ELSE Release(c)
    /\ UNCHANGED <<memory, swapped, cut, resized, done, main, finalBars, conn,
                   faults, accepted, lost>>

\* How the database fails a call: it rolls back, or commits without the answer
\* reaching us, or the connection dies before or after the commit.  Nothing
\* reopens a connection: PostgresStorage._reconnect has no caller.
DatabaseFails ==
    \/ /\ conn = "open" /\ faults < MaxFaults
       /\ faults' = faults + 1
       /\ \/ /\ "rollback" \in Faults
             /\ UNCHANGED store
          \/ /\ "lostAck" \in Faults
             /\ WriteBatchEffect
             /\ UNCHANGED conn
          \/ /\ "connLoss" \in Faults
             /\ conn' = "broken"
             /\ WriteBatchEffect \/ UNCHANGED <<dbRows, dbBars, receipted>>
    \/ /\ conn # "open"
       /\ UNCHANGED <<store, faults>>

\* write_batch raises; _flush logs it and _retry_batch stays.
WriteRaises(c) ==
    /\ thread[c] \in {"write", "rewrite"}
    /\ ~EmptyBatch(retry)
    /\ DatabaseFails
    /\ Release(c)
    /\ UNCHANGED <<memory, retry, swapped, cut, resized, done, main, finalBars,
                   accepted, lost>>


\* Pop the captured bars, with whatever was added to them since.  A pop while
\* run() is listing _bars breaks its iteration.
PopNothing(c) ==                    \* mutant: what was written stays in _bars
    /\ thread[c] = "pop"
    /\ done' = {}
    /\ Release(c)
    /\ UNCHANGED <<framesIn, now, trades, books, signals, bars, sampledAt, appending,
                   retry, swapped, cut, resized, main, finalBars, store, faults,
                   accepted, lost>>
PopBars(c) ==
    /\ thread[c] = "pop"
    /\ bars' = [k \in BarKeys |-> IF k \in done THEN {} ELSE bars[k]]
    /\ done' = {}
    /\ Release(c)
    /\ main' = IF main = "listing" /\ done # {} THEN "listBroken" ELSE main
    /\ UNCHANGED <<framesIn, now, trades, books, signals, sampledAt, appending,
                   retry, swapped, cut, resized, finalBars, store, faults,
                   accepted, lost>>

-----------------------------------------------------------------------------
(* run(): shutdown.                                                        *)

\* SIGTERM sets stop; consume tasks take no further frame.
Stop ==
    /\ main = "running" /\ LoopFree
    /\ main' = "stopping"
    /\ UNCHANGED <<memory, flush, finalBars, store, faults, accepted, lost>>

FinalFlushSkipped ==                \* mutant: no flush before the close
    /\ main = "stopping"
    /\ main' = "flushed"
    /\ UNCHANGED <<memory, flush, finalBars, store, faults, accepted, lost>>

\* sup.shutdown() cancels the tasks, their threads run on; then _flush().
FinalFlush ==
    /\ main = "stopping"
    /\ IF SomethingToFlush
       THEN /\ main' = "flushing"
            /\ thread' = [thread EXCEPT !["main"] = "lock"]
       ELSE /\ main' = "flushed"
            /\ UNCHANGED thread
    /\ UNCHANGED <<memory, retry, lock, swapped, cut, resized, done, finalBars,
                   store, faults, accepted, lost>>

FinalFlushed ==
    /\ main = "flushing" /\ thread["main"] = "none"
    /\ main' = "flushed"
    /\ UNCHANGED <<memory, flush, finalBars, store, faults, accepted, lost>>

\* The rows of every bar left, finished or not, are listed while the thread of
\* a cancelled task may still be popping.
ListFinalBars ==
    /\ main = "flushed"
    /\ main' = "listing"
    /\ UNCHANGED <<memory, flush, finalBars, store, faults, accepted, lost>>

FinalBarsListed ==
    /\ main = "listing"
    /\ finalBars' = bars
    /\ main' = IF BarRows(bars) = {} THEN "closing" ELSE "final"
    /\ UNCHANGED <<memory, flush, store, faults, accepted, lost>>

\* The iteration raised: the exception is logged and the bars are given up.
FinalListRaises ==
    /\ main = "listBroken"
    /\ main' = "closing"
    /\ UNCHANGED <<memory, flush, finalBars, store, faults, accepted, lost>>

\* _final: upsert_bars under the lock, without a receipt; _bars is not emptied
\* and a failure is only logged.
WriteFinalBars ==
    /\ main = "final" /\ lock = "free"
    /\ main' = "closing"
    /\ \/ conn = "open" /\ AddBars(finalBars) /\ UNCHANGED faults
       \/ /\ conn = "open" /\ Faults # {} /\ faults < MaxFaults
          /\ faults' = faults + 1
          /\ \/ UNCHANGED dbBars
             \/ Faults # {"rollback"} /\ AddBars(finalBars)
       \/ conn # "open" /\ UNCHANGED <<dbBars, faults>>
    /\ UNCHANGED <<memory, flush, finalBars, conn, dbRows, receipted, accepted,
                   lost>>

\* _close_storage waits for the lock.
CloseStorage ==
    /\ main = "closing" /\ lock = "free"
    /\ main' = "closed"
    /\ conn' = "closed"
    /\ UNCHANGED <<memory, flush, finalBars, dbRows, dbBars, receipted, faults,
                   accepted, lost>>

-----------------------------------------------------------------------------
FlushThread(c) ==
    \/ AcquireRetry(c) \/ AcquireSwap(c)
    \/ ScanRaises(c) \/ MakeBatch(c)
    \/ WriteReturns(c) \/ WriteRaises(c)
    \/ PopBars(c)

Ingest(s) ==
    IngestDropped(s) \/ IngestTrade(s) \/ IngestBook(s) \/ IngestSignal(s)

Shutdown ==
    \/ FinalFlush \/ FinalFlushed
    \/ ListFinalBars \/ FinalBarsListed \/ FinalListRaises
    \/ WriteFinalBars \/ CloseStorage

\* The process is gone once storage is closed and no thread is left.
Terminated ==
    /\ main = "closed"
    /\ \A c \in Callers : thread[c] = "none"
    /\ UNCHANGED vars

Next ==
    \/ \E s \in Sources : Ingest(s)
    \/ AppendBook
    \/ FlushTick
    \/ ClockTick
    \/ \E c \in Callers : FlushThread(c)
    \/ Stop
    \/ Shutdown
    \/ Terminated

Spec == Init /\ [][Next]_vars

\* A thread that was started is scheduled until it ends; _flush_loop comes
\* round; the event loop finishes the statement it is in.
Fairness ==
    /\ \A c \in Callers : WF_vars(FlushThread(c))
    /\ WF_vars(FlushTick)
    /\ WF_vars(AppendBook)

FairSpec == Spec /\ Fairness

-----------------------------------------------------------------------------
(* Properties.                                                             *)

Lists     == trades \cup books \cup signals
Appending == IF appending = NoAppend THEN {} ELSE {appending.id}
Held      == Lists \cup swapped \cup Appending \cup retry.rows
Stored    == {i \in Ids : dbRows[i] > 0}

AppendSlots ==
    [id : Ids, list : {"live", "swapped", "dead"}, src : Sources] \cup {NoAppend}
ThreadStates == {"none", "lock", "scan", "write", "rewrite", "pop"}

TypeOK ==
    /\ framesIn \in 0..MaxFrames /\ now \in Buckets /\ cut \in Buckets
    /\ trades \subseteq Ids /\ books \subseteq Ids /\ signals \subseteq Ids
    /\ bars \in [BarKeys -> SUBSET Ids]
    /\ sampledAt \subseteq Instruments
    /\ appending \in AppendSlots
    /\ retry \in [rows : SUBSET Ids, bars : [BarKeys -> SUBSET Ids], set : BOOLEAN]
    /\ lock \in Callers \cup {"free"}
    /\ thread \in [Callers -> ThreadStates]
    /\ swapped \subseteq Ids /\ resized \in BOOLEAN /\ done \subseteq BarKeys
    /\ main \in {"running", "stopping", "flushing", "flushed", "listing",
                 "listBroken", "final", "closing", "closed"}
    /\ finalBars \in [BarKeys -> SUBSET Ids]
    /\ conn \in {"open", "broken", "closed"}
    /\ dbRows \in [Ids -> Nat] /\ dbBars \in [Ids -> Nat]
    /\ receipted \in BOOLEAN /\ faults \in 0..MaxFaults
    /\ accepted \subseteq Ids /\ lost \subseteq Ids

\* Retries, answers lost after a commit and threads that outlive their task
\* never put a row in the database twice.
RowsWrittenOnce == \A i \in Ids : dbRows[i] <= 1

\* A row the writer accepted is in the database, or still in its hands, or
\* was lost by one of the two races on shared containers (a scan of _bars that
\* raised, an append to a list already handed over); there is no other leak,
\* whatever fails.
NoOtherLeak == accepted \subseteq Held \cup Stored \cup lost

\* At any moment a row has one holder: the lists, the append under way, the
\* rows a thread took, the batch to be acknowledged, the tables or the lost.
\* Only the batch may share rows with the tables, and only once its receipt is
\* there: that is why a retry is safe.
OneHolder ==
    /\ Lists \cap swapped = {}
    /\ Appending \cap (Lists \cup swapped) = {}
    /\ (Lists \cup swapped \cup Appending) \cap (retry.rows \cup Stored \cup lost) = {}
    /\ lost \cap (retry.rows \cup Stored) = {}
    /\ retry.rows \cap Stored = IF receipted THEN retry.rows ELSE {}

\* Every accepted row is in exactly one place, once: in the writer's hands, in
\* the database, or with those the two races have lost.
RowsAccounted == RowsWrittenOnce /\ NoOtherLeak /\ OneHolder

\* The writer is a row sink: a row that is in the database stays there once,
\* one that was lost never shows up again.
Sink == INSTANCE RowSink WITH Rows <- Ids, stored <- Stored
IsRowSink == Sink!Spec

\* Memory in an outage: the lists never exceed the pending limit; what a
\* thread took out before the limit could see it adds at most one limit more (the
\* second bound takes more frames to break than MCWriter has; it is proved).
PendingBounded ==
    /\ Cardinality(trades) + Cardinality(books) + Cardinality(signals) <= PendingMax
    /\ Cardinality(Held) <= 2 * PendingMax

\* The upsert of bars_1m adds: a bar that is written again is counted again.  Every
\* database failure costs a trade one count more at most (the acknowledged retry does
\* not pop its bars), and the shutdown one (the last list holds what a thread writes).
BarsOvercountBounded ==
    \A i \in Ids : dbBars[i] <= 1 + faults + IF main = "running" THEN 0 ELSE 1

\* As long as no database call has failed and the writer is not shutting down,
\* the additive upsert counts no trade twice in bars_1m.
BarsCountedOnceWithoutFault ==
    faults = 0 /\ main = "running" => \A i \in Ids : dbBars[i] <= 1

\* Without database failures, SIGTERM leaves no row behind but those of the two races.
CleanShutdownStoresAll ==
    main = "closed" /\ faults = 0 => accepted \subseteq Stored \cup lost

\* While the database does not fail, a running writer counts no trade twice and SIGTERM
\* loses no row; at shutdown it may count a bar twice, BarsOvercountBounded says how often.
CleanWithoutFault == BarsCountedOnceWithoutFault /\ CleanShutdownStoresAll

\* A row accepted while the writer runs reaches the database however often
\* the database fails before it recovers, as long as the connection survives:
\* PostgresStorage._reconnect (db.py:613, "reattach, do not die") has no caller.
EventuallyStored ==
    \A i \in Ids :
      i \in accepted ~> i \in Stored \cup lost \/ main # "running" \/ conn = "broken"
=============================================================================
