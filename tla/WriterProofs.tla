---------------------------- MODULE WriterProofs ----------------------------
(***************************************************************************)
(* Proofs about Writer for every number of sources, instruments, frames,   *)
(* buckets and database failures.                                          *)
(***************************************************************************)
EXTENDS Writer, FiniteSetTheorems, TLAPS

\* The parts of the type invariant, grouped as the variables are.
LEMMA NoBarsType == NoBars \in [BarKeys -> SUBSET Ids]
  BY DEF NoBars

\* The empty batch is a batch.
LEMMA NoBatchType ==
    NoBatch \in [rows : SUBSET Ids, bars : [BarKeys -> SUBSET Ids], set : BOOLEAN]
  BY DEF NoBatch

\* Init establishes the type invariant.
LEMMA InitType == Init => TypeOK
  <1> SUFFICES ASSUME Init PROVE TypeOK
    OBVIOUS
  <1>1. 0 \in 0..MaxFrames /\ 0 \in Buckets /\ 0 \in 0..MaxFaults
    BY BoundsAssumption DEF Buckets
  <1>2. dbRows \in [Ids -> Nat] /\ dbBars \in [Ids -> Nat]
    BY DEF Init
  <1>3. thread \in [Callers -> ThreadStates]
    BY DEF Init, ThreadStates
  <1> QED
    BY <1>1, <1>2, <1>3, NoBarsType, NoBatchType DEF Init, TypeOK, AppendSlots

\* Starting a flush thread keeps the thread table well typed.
LEMMA FlushIfFullType ==
  ASSUME TypeOK, NEW s \in Sources, FlushIfFull(s)
  PROVE  thread' \in [Callers -> ThreadStates]
  BY DEF TypeOK, FlushIfFull, Callers, ThreadStates

\* Releasing the flush lock keeps its type.
LEMMA ReleaseType ==
  ASSUME TypeOK, NEW c \in Callers, Release(c)
  PROVE  /\ lock' \in Callers \cup {"free"}
         /\ thread' \in [Callers -> ThreadStates]
  BY DEF TypeOK, Release, ThreadStates

\* Appending to a list that was swapped out in between keeps the type of the append.
LEMMA RelistedType ==
  ASSUME TypeOK, NEW l \in {"live", "swapped", "dead"}, appending.list # "none"
  PROVE  appending \in AppendSlots /\ Relisted(l) \in AppendSlots
  BY DEF TypeOK, AppendSlots, Relisted, NoAppend

\* A frame of a source is in range.
LEMMA FrameType ==
  ASSUME TypeOK, NEW s \in Sources, Arrives(s)
  PROVE  Frame \in Ids /\ framesIn' \in 0..MaxFrames /\ framesIn' = Frame
  BY BoundsAssumption DEF TypeOK, Arrives, Frame, Ids

\* Writing a batch keeps the types of the stored rows, the bars and the receipt.
LEMMA EffectType ==
  ASSUME TypeOK, WriteBatchEffect
  PROVE  /\ dbRows' \in [Ids -> Nat] /\ dbBars' \in [Ids -> Nat]
         /\ receipted' \in BOOLEAN
  <1>1. CASE EmptyBatch(retry) \/ receipted
    BY <1>1 DEF TypeOK, WriteBatchEffect
  <1>2. CASE ~(EmptyBatch(retry) \/ receipted)
    <2>1. /\ dbRows' = [i \in Ids |-> IF i \in retry.rows THEN dbRows[i] + 1 ELSE dbRows[i]]
          /\ dbBars' = [i \in Ids |-> IF InBars(retry.bars, i) THEN dbBars[i] + 1 ELSE dbBars[i]]
          /\ receipted' = TRUE
      BY <1>2 DEF WriteBatchEffect, Commit, AddBars
    <2> QED
      BY <2>1 DEF TypeOK
  <1> QED
    BY <1>1, <1>2

\* Every step of the event loop and of a flush thread keeps the types.
LEMMA IngestTypes == ASSUME TypeOK, NEW s \in Sources, Ingest(s) PROVE TypeOK'
  <1> USE DEF TypeOK, ThreadStates
  <1>1. CASE IngestDropped(s)
    BY <1>1, FrameType, FlushIfFullType DEF IngestDropped, store
  <1>2. CASE IngestTrade(s)
    <2>1. PICK k \in BarKeys :
            /\ bars' = [bars EXCEPT ![k] = @ \cup {Frame}]
            /\ resized' = (resized \/ (bars[k] = {} /\ BarRows(bars) # {}))
      BY <1>2 DEF IngestTrade
    <2>2. Frame \in Ids /\ framesIn' \in 0..MaxFrames
      BY <1>2, FrameType DEF IngestTrade
    <2>3. bars' \in [BarKeys -> SUBSET Ids] /\ resized' \in BOOLEAN
      BY <2>1, <2>2
    <2> QED
      BY <1>2, <2>2, <2>3, FlushIfFullType DEF IngestTrade, store
  <1>3. CASE IngestBook(s)
    <2>1. Frame \in Ids /\ framesIn' \in 0..MaxFrames
      BY <1>3, FrameType DEF IngestBook
    <2>2. PICK x \in Instruments :
            \/ /\ x \in sampledAt
               /\ FlushIfFull(s)
               /\ UNCHANGED <<sampledAt, appending, accepted>>
            \/ /\ sampledAt' = sampledAt \cup {x}
               /\ appending' = [id |-> Frame, list |-> "live", src |-> s]
               /\ accepted' = accepted \cup {Frame}
               /\ UNCHANGED thread
      BY <1>3 DEF IngestBook
    <2>3. thread' \in [Callers -> ThreadStates]
      BY <2>2, FlushIfFullType
    <2> QED
      BY <1>3, <2>1, <2>2, <2>3 DEF IngestBook, store, AppendSlots
  <1>4. CASE IngestSignal(s)
    BY <1>4, FrameType, FlushIfFullType DEF IngestSignal, store
  <1> QED
    BY <1>1, <1>2, <1>3, <1>4 DEF Ingest

\* A step of a flush keeps the types.
LEMMA FlushThreadTypes == ASSUME TypeOK, NEW c \in Callers, FlushThread(c) PROVE TypeOK'
  <1> USE DEF TypeOK, ThreadStates
  <1>1. CASE AcquireRetry(c)
    BY <1>1 DEF AcquireRetry, memory, store
  <1>2. CASE AcquireSwap(c)
    <2>1. appending' \in AppendSlots
      BY <1>2, RelistedType DEF AcquireSwap
    <2>2. /\ lock' \in Callers \cup {"free"}
          /\ thread' \in [Callers -> ThreadStates]
      BY <1>2 DEF AcquireSwap
    <2>3. swapped' \subseteq Ids
      BY <1>2 DEF AcquireSwap
    <2> QED
      BY <1>2, <2>1, <2>2, <2>3 DEF AcquireSwap, store, AppendSlots
  <1>3. CASE ScanRaises(c)
    <2>1. appending' \in AppendSlots
      BY <1>3, RelistedType DEF ScanRaises, BuryAppend
    <2> QED
      BY <1>3, <2>1, ReleaseType DEF ScanRaises, store, AppendSlots
  <1>4. CASE MakeBatch(c)
    <2>1. DoneBars \subseteq BarKeys
      BY DEF DoneBars, BarRows
    <2>2. retry' \in [rows : SUBSET Ids, bars : [BarKeys -> SUBSET Ids], set : BOOLEAN]
      BY <1>4 DEF MakeBatch
    <2>3. appending' \in AppendSlots
      BY <1>4, RelistedType DEF MakeBatch, BuryAppend
    <2> QED
      BY <1>4, <2>1, <2>2, <2>3 DEF MakeBatch, FreshBatchId, AppendSlots
  <1>5. CASE WriteReturns(c)
    <2>1. /\ lock' \in Callers \cup {"free"}
          /\ thread' \in [Callers -> ThreadStates]
      BY <1>5, ReleaseType DEF WriteReturns
    <2> QED
      BY <1>5, <2>1, EffectType, NoBatchType DEF WriteReturns, memory
  <1>6. CASE WriteRaises(c)
    <2>1. /\ dbRows' \in [Ids -> Nat] /\ dbBars' \in [Ids -> Nat]
          /\ receipted' \in BOOLEAN /\ conn' \in {"open", "broken", "closed"}
          /\ faults' \in 0..MaxFaults
      BY <1>6, EffectType, BoundsAssumption DEF WriteRaises, DatabaseFails, store
    <2> QED
      BY <1>6, <2>1, ReleaseType DEF WriteRaises, memory
  <1>7. CASE PopBars(c)
    BY <1>7, ReleaseType DEF PopBars, store
  <1> QED
    BY <1>1, <1>2, <1>3, <1>4, <1>5, <1>6, <1>7 DEF FlushThread

\* A step of the shutdown keeps the types.
LEMMA ShutdownTypes == ASSUME TypeOK, Shutdown PROVE TypeOK'
  <1> USE DEF TypeOK, ThreadStates, memory, flush, store
  <1>1. CASE FinalFlush
    BY <1>1 DEF FinalFlush, Callers
  <1>2. CASE FinalFlushed \/ ListFinalBars \/ FinalListRaises \/ CloseStorage
    BY <1>2 DEF FinalFlushed, ListFinalBars, FinalListRaises, CloseStorage
  <1>3. CASE FinalBarsListed
    BY <1>3 DEF FinalBarsListed
  <1>4. CASE WriteFinalBars
    <2>1. dbBars' \in [Ids -> Nat] /\ faults' \in 0..MaxFaults
      BY <1>4, BoundsAssumption DEF WriteFinalBars, AddBars
    <2> QED
      BY <1>4, <2>1 DEF WriteFinalBars
  <1> QED
    BY <1>1, <1>2, <1>3, <1>4 DEF Shutdown

\* Every step keeps the types.
LEMMA NextType == TypeOK /\ [Next]_vars => TypeOK'
  <1> SUFFICES ASSUME TypeOK, [Next]_vars PROVE TypeOK'
    OBVIOUS
  <1> USE DEF TypeOK, ThreadStates
  <1>1. ASSUME NEW s \in Sources, Ingest(s) PROVE TypeOK'
    BY <1>1, IngestTypes
  <1>2. CASE AppendBook
    <2>1. appending.id \in Ids /\ appending.src \in Sources
      BY <1>2 DEF AppendBook, AppendSlots
    <2> QED
      BY <1>2, <2>1, FlushIfFullType DEF AppendBook, store, AppendSlots
  <1>3. CASE FlushTick
    BY <1>3 DEF FlushTick, memory, store, Callers
  <1>4. CASE ClockTick
    <2>1. now' \in Buckets
      BY <1>4, BoundsAssumption DEF ClockTick, Buckets
    <2> QED
      BY <1>4, <2>1 DEF ClockTick, flush, store
  <1>5. ASSUME NEW c \in Callers, FlushThread(c) PROVE TypeOK'
    BY <1>5, FlushThreadTypes
  <1>6. CASE Stop
    BY <1>6 DEF Stop, memory, flush, store
  <1>7. CASE Shutdown
    BY <1>7, ShutdownTypes
  <1>8. CASE UNCHANGED vars
    BY <1>8 DEF vars, memory, flush, store
  <1> QED
    BY <1>1, <1>2, <1>3, <1>4, <1>5, <1>6, <1>7, <1>8 DEF Next, Terminated

\* Type correctness of the writer.
THEOREM TypeCorrect == Spec => []TypeOK
  <1>1. Init => TypeOK
    BY InitType
  <1>2. TypeOK /\ [Next]_vars => TypeOK'
    BY NextType
  <1> QED
    BY <1>1, <1>2, PTL DEF Spec

-----------------------------------------------------------------------------
(* Who holds the lock, and what a thread at each point may rely on.        *)

Inside == {"scan", "write", "rewrite", "pop"}

LockDiscipline ==
    /\ \A c \in Callers : thread[c] \in Inside => lock = c
    /\ \A c \in Callers : thread[c] = "scan" => ~retry.set
    /\ \A c \in Callers : thread[c] \in {"write", "rewrite"} => retry.set
    /\ swapped # {} \/ appending.list = "swapped"
         => lock \in Callers /\ thread[lock] = "scan"
    /\ ~retry.set => retry.rows = {}
    /\ appending # NoAppend => thread[appending.src] = "none"
    /\ main \in {"running", "stopping"} => thread["main"] = "none"

\* Nothing is held, stored or lost that was not accepted, and nothing was
\* accepted that has not arrived.
Arrived ==
    /\ Held \cup Stored \cup lost \subseteq accepted
    /\ accepted \subseteq 1..framesIn

\* The free lock is held by no caller.
LEMMA FreeIsNoCaller ==
    "free" \notin Callers /\ "main" \notin Sources /\ "main" \in Callers
  BY SourcesAssumption DEF Callers

\* A task that is not in a flush may start one: nobody inside is disturbed.
LEMMA StartFlushKeepsLock ==
  ASSUME TypeOK, LockDiscipline, NEW s \in Sources, thread[s] = "none",
         FlushIfFull(s), UNCHANGED <<lock, retry, swapped, main>>,
         appending' = NoAppend \/ (appending' = appending /\ appending = NoAppend)
  PROVE  LockDiscipline'
  <1>1. \A c \in Callers : thread'[c] = thread[c] \/ (c = s /\ thread'[c] = "lock")
    BY DEF TypeOK, FlushIfFull
  <1>2. appending' = NoAppend /\ appending'.list = "none"
    BY DEF NoAppend
  <1> QED
    BY <1>1, <1>2, FreeIsNoCaller DEF TypeOK, LockDiscipline, Inside, Callers

\* At first nobody is in a flush.
LEMMA LockInit == Init => LockDiscipline
  BY DEF Init, LockDiscipline, Inside, NoBatch, NoAppend, Callers

\* Ingesting a frame does not touch the flush lock.
LEMMA LockIngest == ASSUME TypeOK, LockDiscipline, NEW s \in Sources, Ingest(s) PROVE LockDiscipline'
  <1>1. thread[s] = "none" /\ appending = NoAppend
    BY DEF Ingest, IngestDropped, IngestTrade, IngestBook, IngestSignal, Arrives, LoopFree
  <1>2. CASE IngestDropped(s)
    BY <1>1, <1>2, StartFlushKeepsLock DEF IngestDropped
  <1>3. CASE IngestTrade(s)
    BY <1>1, <1>3, StartFlushKeepsLock DEF IngestTrade
  <1>4. CASE IngestBook(s)
    <2>1. PICK x \in Instruments :
            \/ /\ x \in sampledAt
               /\ FlushIfFull(s)
               /\ UNCHANGED <<sampledAt, appending, accepted>>
            \/ /\ sampledAt' = sampledAt \cup {x}
               /\ appending' = [id |-> Frame, list |-> "live", src |-> s]
               /\ accepted' = accepted \cup {Frame}
               /\ UNCHANGED thread
      BY <1>4 DEF IngestBook
    <2>2. CASE FlushIfFull(s) /\ UNCHANGED appending
      BY <1>1, <1>4, <2>2, StartFlushKeepsLock DEF IngestBook
    <2>3. CASE appending' = [id |-> Frame, list |-> "live", src |-> s] /\ UNCHANGED thread
      BY <1>1, <1>4, <2>3 DEF IngestBook, LockDiscipline
    <2> QED
      BY <2>1, <2>2, <2>3
  <1>5. CASE IngestSignal(s)
    BY <1>1, <1>5, StartFlushKeepsLock DEF IngestSignal
  <1> QED
    BY <1>2, <1>3, <1>4, <1>5 DEF Ingest

\* A flush holds the lock between taking and releasing it.
LEMMA LockThread == ASSUME TypeOK, LockDiscipline, NEW c \in Callers, FlushThread(c) PROVE LockDiscipline'
  <1> USE FreeIsNoCaller DEF TypeOK, LockDiscipline, Inside
  <1>0. \A d \in Callers : d # c => thread'[d] = thread[d]
    BY DEF FlushThread, AcquireRetry, AcquireSwap, ScanRaises, MakeBatch, WriteReturns,
           WriteRaises, PopBars, Release
  <1>1. CASE AcquireRetry(c)
    BY <1>0, <1>1 DEF AcquireRetry, memory, AppendSlots
  <1>2. CASE AcquireSwap(c)
    <2>1. thread'[c] = "scan" /\ lock' = c
      BY <1>2 DEF AcquireSwap
    <2>2. appending' # NoAppend => appending # NoAppend /\ appending'.src = appending.src
      BY <1>2 DEF AcquireSwap, Relisted, NoAppend
    <2> QED
      BY <1>0, <1>2, <2>1, <2>2 DEF AcquireSwap, AppendSlots
  <1>3. CASE ScanRaises(c)
    <2>1. thread'[c] = "none" /\ swapped' = {}
      BY <1>3 DEF ScanRaises, Release
    <2>2. appending'.list # "swapped"
      BY <1>3 DEF ScanRaises, BuryAppend, Relisted
    <2>3. appending' # NoAppend => appending # NoAppend /\ appending'.src = appending.src
      BY <1>3 DEF ScanRaises, BuryAppend, Relisted, NoAppend
    <2> QED
      BY <1>0, <1>3, <2>1, <2>2, <2>3 DEF ScanRaises, Release, AppendSlots
  <1>4. CASE MakeBatch(c)
    <2>1. thread'[c] = "write" /\ swapped' = {} /\ retry'.set /\ lock = c
      BY <1>4 DEF MakeBatch
    <2>2. appending'.list # "swapped"
      BY <1>4 DEF MakeBatch, BuryAppend, Relisted
    <2>3. appending' # NoAppend => appending # NoAppend /\ appending'.src = appending.src
      BY <1>4 DEF MakeBatch, BuryAppend, Relisted, NoAppend
    <2> QED
      BY <1>0, <1>4, <2>1, <2>2, <2>3 DEF MakeBatch, FreshBatchId, AppendSlots
  <1>5. CASE WriteReturns(c)
    <2>1. /\ lock = c /\ thread[c] # "none" /\ thread'[c] \in {"pop", "none"}
          /\ ~retry'.set /\ retry'.rows = {}
      BY <1>5 DEF WriteReturns, Release, NoBatch
    <2>2. thread'[c] = "pop" => lock' = c
      BY <1>5, <2>1 DEF WriteReturns, Release
    <2>3. swapped = {} /\ appending.list # "swapped"
      BY <1>5, <2>1 DEF WriteReturns
    <2>4. UNCHANGED <<swapped, appending, main>>
      BY <1>5 DEF WriteReturns, memory
    <2>5. appending # NoAppend => appending.src \in Callers
      BY DEF AppendSlots, Callers
    <2> QED
      BY <1>0, <2>1, <2>2, <2>3, <2>4, <2>5
  <1>6. CASE WriteRaises(c)
    <2>1. lock = c /\ thread[c] # "none" /\ thread'[c] = "none"
      BY <1>6 DEF WriteRaises, Release
    <2>2. swapped = {} /\ appending.list # "swapped"
      BY <1>6, <2>1 DEF WriteRaises
    <2>3. UNCHANGED <<swapped, appending, main, retry>>
      BY <1>6 DEF WriteRaises, memory
    <2>4. appending # NoAppend => appending.src \in Callers
      BY DEF AppendSlots, Callers
    <2> QED
      BY <1>0, <2>1, <2>2, <2>3, <2>4
  <1>7. CASE PopBars(c)
    <2>1. lock = c /\ thread[c] # "none" /\ thread'[c] = "none"
      BY <1>7 DEF PopBars, Release
    <2>2. swapped = {} /\ appending.list # "swapped"
      BY <1>7, <2>1 DEF PopBars
    <2>3. UNCHANGED <<swapped, appending, retry>>
      BY <1>7 DEF PopBars
    <2>4. main' \in {"running", "stopping"} => main' = main
      BY <1>7 DEF PopBars
    <2>5. appending # NoAppend => appending.src \in Callers
      BY DEF AppendSlots, Callers
    <2> QED
      BY <1>0, <2>1, <2>2, <2>3, <2>4, <2>5
  <1> QED
    BY <1>1, <1>2, <1>3, <1>4, <1>5, <1>6, <1>7 DEF FlushThread

\* Every step keeps the flush lock with the one who flushes.
LEMMA LockNext == TypeOK /\ LockDiscipline /\ [Next]_vars => LockDiscipline'
  <1> SUFFICES ASSUME TypeOK, LockDiscipline, [Next]_vars PROVE LockDiscipline'
    OBVIOUS
  <1>1. ASSUME NEW s \in Sources, Ingest(s) PROVE LockDiscipline'
    BY <1>1, LockIngest
  <1>2. CASE AppendBook
    <2>1. thread[appending.src] = "none" /\ appending.src \in Sources
      BY <1>2 DEF AppendBook, LockDiscipline, TypeOK, AppendSlots
    <2>2. \A c \in Callers : thread'[c] = thread[c]
                             \/ (c = appending.src /\ thread'[c] = "lock")
      BY <1>2, <2>1 DEF AppendBook, FlushIfFull, TypeOK
    <2>3. swapped' # {} => lock \in Callers /\ thread[lock] = "scan"
      BY <1>2 DEF AppendBook, LockDiscipline
    <2> QED
      BY <1>2, <2>1, <2>2, <2>3, FreeIsNoCaller
         DEF AppendBook, LockDiscipline, Inside, NoAppend, TypeOK, Callers
  <1>3. CASE FlushTick
    <2>1. \A c \in Callers : thread'[c] = thread[c]
                             \/ (c = "flush" /\ thread[c] = "none" /\ thread'[c] = "lock")
      BY <1>3 DEF FlushTick, TypeOK
    <2> QED
      BY <1>3, <2>1 DEF FlushTick, LoopFree, LockDiscipline, Inside, memory, Callers
  <1>4. CASE ClockTick
    BY <1>4 DEF ClockTick, LockDiscipline, flush
  <1>5. ASSUME NEW c \in Callers, FlushThread(c) PROVE LockDiscipline'
    BY <1>5, LockThread
  <1>6. CASE Stop
    BY <1>6 DEF Stop, LockDiscipline, memory, flush
  <1>7. CASE FinalFlush
    <2>1. \A c \in Callers : thread'[c] = thread[c]
                             \/ (c = "main" /\ thread[c] = "none" /\ thread'[c] = "lock")
      BY <1>7 DEF FinalFlush, TypeOK, LockDiscipline
    <2>2. main' \in {"flushing", "flushed"}
      BY <1>7 DEF FinalFlush
    <2> QED
      BY <1>7, <2>1, <2>2, FreeIsNoCaller
         DEF FinalFlush, LockDiscipline, Inside, memory, Callers, TypeOK, AppendSlots
  <1>8. CASE FinalFlushed \/ ListFinalBars \/ FinalBarsListed \/ FinalListRaises
             \/ WriteFinalBars \/ CloseStorage
    <2>1. UNCHANGED <<memory, flush>> /\ main' \notin {"running", "stopping"}
      BY <1>8 DEF FinalFlushed, ListFinalBars, FinalBarsListed, FinalListRaises,
                  WriteFinalBars, CloseStorage
    <2> QED
      BY <2>1 DEF LockDiscipline, memory, flush
  <1>9. CASE UNCHANGED vars
    BY <1>9 DEF vars, memory, flush, LockDiscipline
  <1> QED
    BY <1>1, <1>2, <1>3, <1>4, <1>5, <1>6, <1>7, <1>8, <1>9 DEF Next, Shutdown, Terminated

-----------------------------------------------------------------------------
(* Where the rows are.                                                     *)

RowInv == Arrived /\ OneHolder /\ RowsWrittenOnce /\ NoOtherLeak

rowVars == <<framesIn, trades, books, signals, appending, swapped, retry,
             dbRows, receipted, accepted, lost>>

\* At first no row has been accepted.
LEMMA RowInit == Init => RowInv
  <1> SUFFICES ASSUME Init PROVE RowInv
    OBVIOUS
  <1>1. Stored = {} /\ Lists = {} /\ Appending = {} /\ retry.rows = {}
    BY DEF Init, Stored, Lists, Appending, NoBatch
  <1>2. RowsWrittenOnce
    BY DEF Init, RowsWrittenOnce
  <1> QED
    BY <1>1, <1>2 DEF Init, RowInv, Arrived, OneHolder, NoOtherLeak, Held

\* A step that moves no row keeps the account of rows.
LEMMA RowsUntouched == RowInv /\ UNCHANGED rowVars => RowInv'
  BY DEF rowVars, RowInv, Arrived, OneHolder, RowsWrittenOnce, NoOtherLeak, Held,
         Lists, Appending, Stored

\* A frame just arriving is nowhere yet.
LEMMA FrameIsFresh ==
  ASSUME TypeOK, RowInv, NEW s \in Sources, Arrives(s)
  PROVE  /\ Frame \notin accepted /\ Frame \notin Held \cup Stored \cup lost
         /\ accepted \subseteq 1..framesIn' /\ Frame \in 1..framesIn'
  <1>1. Frame = framesIn + 1 /\ framesIn' = framesIn + 1 /\ framesIn \in Nat
    BY BoundsAssumption DEF Frame, Arrives, TypeOK
  <1>2. Frame \notin 1..framesIn /\ Frame \in 1..framesIn'
    BY <1>1
  <1>3. 1..framesIn \subseteq 1..framesIn'
    BY <1>1
  <1> QED
    BY <1>2, <1>3 DEF RowInv, Arrived

\* The frame's row enters the lists or the append under way.
LEMMA RowIngested ==
  ASSUME TypeOK, RowInv, NEW s \in Sources, Arrives(s),
         UNCHANGED <<swapped, retry, dbRows, receipted, lost>>,
         accepted' = accepted \cup {Frame},
         \/ Lists' = Lists \cup {Frame} /\ Appending' = Appending
         \/ Lists' = Lists /\ Appending = {} /\ Appending' = {Frame}
  PROVE  RowInv'
  <1> USE FrameIsFresh
  <1>1. Stored' = Stored
    BY DEF Stored
  <1>2. Held' = Held \cup {Frame}
    BY DEF Held
  <1>3. Arrived'
    BY <1>1, <1>2 DEF RowInv, Arrived
  <1>4. OneHolder'
    BY <1>1 DEF RowInv, OneHolder, Held
  <1>5. RowsWrittenOnce' /\ NoOtherLeak'
    BY <1>1, <1>2 DEF RowInv, RowsWrittenOnce, NoOtherLeak
  <1> QED
    BY <1>3, <1>4, <1>5 DEF RowInv

\* Only the frame counter moves.
LEMMA FrameDropped ==
  ASSUME TypeOK, RowInv, NEW s \in Sources, Arrives(s),
         UNCHANGED <<trades, books, signals, appending, swapped, retry, dbRows,
                     receipted, accepted, lost>>
  PROVE  RowInv'
  <1>1. accepted' \subseteq 1..framesIn'
    BY FrameIsFresh
  <1> QED
    BY <1>1 DEF RowInv, Arrived, OneHolder, RowsWrittenOnce, NoOtherLeak, Held,
                Lists, Appending, Stored

\* An accepted frame is a new row in the list of its table.
LEMMA RowIngest == ASSUME TypeOK, RowInv, NEW s \in Sources, Ingest(s) PROVE RowInv'
  <1>1. Arrives(s) /\ appending = NoAppend
    BY DEF Ingest, IngestDropped, IngestTrade, IngestBook, IngestSignal, Arrives, LoopFree
  <1>2. CASE IngestDropped(s)
    BY <1>1, <1>2, FrameDropped DEF IngestDropped, store
  <1>3. CASE IngestTrade(s)
    <2>1. Lists' = Lists \cup {Frame} /\ Appending' = Appending
      BY <1>3 DEF IngestTrade, Lists, Appending
    <2> QED
      BY <1>1, <1>3, <2>1, RowIngested DEF IngestTrade, store
  <1>4. CASE IngestBook(s)
    <2>1. CASE UNCHANGED <<sampledAt, appending, accepted>>
      BY <1>1, <1>4, <2>1, FrameDropped DEF IngestBook, store
    <2>2. CASE /\ appending' = [id |-> Frame, list |-> "live", src |-> s]
               /\ accepted' = accepted \cup {Frame}
      <3>1. Lists' = Lists /\ Appending = {}
        BY <1>1, <1>4 DEF IngestBook, Lists, Appending
      <3>2. appending' # NoAppend /\ appending'.id = Frame
        BY <2>2 DEF NoAppend
      <3>3. Appending' = {Frame}
        BY <3>2 DEF Appending
      <3> QED
        BY <1>1, <1>4, <2>2, <3>1, <3>3, RowIngested DEF IngestBook, store
    <2> QED
      BY <1>4, <2>1, <2>2 DEF IngestBook
  <1>5. CASE IngestSignal(s)
    <2>1. Lists' = Lists \cup {Frame} /\ Appending' = Appending
      BY <1>5 DEF IngestSignal, Lists, Appending
    <2> QED
      BY <1>1, <1>5, <2>1, RowIngested DEF IngestSignal, store
  <1> QED
    BY <1>2, <1>3, <1>4, <1>5 DEF Ingest

\* Finishing an append puts the row in the list it was read from.
LEMMA RowAppend == ASSUME TypeOK, RowInv, AppendBook PROVE RowInv'
  <1>1. /\ Appending = {appending.id} /\ Appending' = {}
        /\ appending.list \in {"live", "swapped", "dead"}
        /\ Stored' = Stored /\ retry' = retry /\ receipted' = receipted
        /\ accepted' = accepted /\ framesIn' = framesIn /\ dbRows' = dbRows
    BY DEF AppendBook, Appending, TypeOK, AppendSlots, Stored, store
  <1>2. \/ /\ Lists' = Lists \cup Appending /\ swapped' = swapped /\ lost' = lost
        \/ /\ Lists' = Lists /\ swapped' = swapped \cup Appending /\ lost' = lost
        \/ /\ Lists' = Lists /\ swapped' = swapped /\ lost' = lost \cup Appending
    BY <1>1 DEF AppendBook, Lists
  <1> QED
    BY <1>1, <1>2 DEF RowInv, Arrived, OneHolder, RowsWrittenOnce, NoOtherLeak, Held

\* What a write that reached the tables did: the batch is stored, once.
LEMMA EffectOnRows ==
  ASSUME TypeOK, RowInv, WriteBatchEffect
  PROVE  /\ Stored' = Stored \cup retry.rows
         /\ RowsWrittenOnce'
         /\ ~EmptyBatch(retry) => receipted'
         /\ EmptyBatch(retry) => retry.rows = {}
  <1>1. CASE EmptyBatch(retry) \/ receipted
    <2>1. Stored' = Stored /\ RowsWrittenOnce' /\ receipted' = receipted
      BY <1>1 DEF WriteBatchEffect, Stored, RowsWrittenOnce, RowInv
    <2>2. retry.rows \subseteq Stored
      BY <1>1 DEF RowInv, OneHolder, EmptyBatch
    <2> QED
      BY <1>1, <2>1, <2>2 DEF EmptyBatch
  <1>2. CASE ~(EmptyBatch(retry) \/ receipted)
    <2>1. /\ dbRows' = [i \in Ids |-> IF i \in retry.rows THEN dbRows[i] + 1 ELSE dbRows[i]]
          /\ receipted'
      BY <1>2 DEF WriteBatchEffect, Commit
    <2>2. retry.rows \subseteq Ids /\ dbRows \in [Ids -> Nat]
      BY DEF TypeOK
    <2>3. \A i \in retry.rows : dbRows[i] = 0
      BY <1>2, <2>2 DEF RowInv, OneHolder, Stored
    <2>4. \A i \in Ids : dbRows'[i] <= 1
      BY <2>1, <2>2, <2>3 DEF RowInv, RowsWrittenOnce
    <2>5. Stored' = Stored \cup retry.rows
      BY <2>1, <2>2 DEF Stored
    <2> QED
      BY <1>2, <2>1, <2>4, <2>5 DEF RowsWrittenOnce
  <1> QED
    BY <1>1, <1>2

\* A step of a flush moves rows between holders and loses them only in a race.
LEMMA RowThread ==
  ASSUME TypeOK, LockDiscipline, RowInv, NEW c \in Callers, FlushThread(c)
  PROVE  RowInv'
  <1>1. CASE AcquireRetry(c)
    BY <1>1, RowsUntouched DEF AcquireRetry, memory, store, rowVars
  <1>2. CASE AcquireSwap(c)
    <2>1. swapped = {} /\ lock = "free"
      BY <1>2, FreeIsNoCaller DEF AcquireSwap, LockDiscipline
    <2>2. Lists' = {} /\ swapped' = Lists
      BY <1>2 DEF AcquireSwap, Lists
    <2>3. Appending' = Appending
      BY <1>2 DEF AcquireSwap, Appending, Relisted, NoAppend
    <2>4. Stored' = Stored
      BY <1>2 DEF AcquireSwap, Stored, store
    <2> QED
      BY <1>2, <2>1, <2>2, <2>3, <2>4
         DEF AcquireSwap, store, RowInv, Arrived, OneHolder, RowsWrittenOnce, NoOtherLeak, Held
  <1>3. CASE ScanRaises(c)
    <2>1. Lists' = Lists /\ swapped' = {} /\ lost' = lost \cup swapped /\ Stored' = Stored
      BY <1>3 DEF ScanRaises, Lists, Stored, store
    <2>2. Appending' = Appending
      BY <1>3 DEF ScanRaises, BuryAppend, Appending, Relisted, NoAppend
    <2> QED
      BY <1>3, <2>1, <2>2
         DEF ScanRaises, store, RowInv, Arrived, OneHolder, RowsWrittenOnce, NoOtherLeak, Held
  <1>4. CASE MakeBatch(c)
    <2>1. retry.rows = {}
      BY <1>4 DEF MakeBatch, LockDiscipline
    <2>2. Lists' = Lists /\ swapped' = {} /\ retry'.rows = swapped /\ Stored' = Stored
      BY <1>4 DEF MakeBatch, Lists, Stored
    <2>3. Appending' = Appending
      BY <1>4 DEF MakeBatch, BuryAppend, Appending, Relisted, NoAppend
    <2>4. receipted' = FALSE /\ UNCHANGED <<dbRows, accepted, lost, framesIn>>
      BY <1>4 DEF MakeBatch, FreshBatchId
    <2> QED
      BY <2>1, <2>2, <2>3, <2>4
         DEF RowInv, Arrived, OneHolder, RowsWrittenOnce, NoOtherLeak, Held
  <1>5. CASE WriteReturns(c)
    <2>1. Lists' = Lists /\ Appending' = Appending /\ retry'.rows = {}
      BY <1>5 DEF WriteReturns, Lists, Appending, memory, NoBatch
    <2>2. Stored' = Stored \cup retry.rows /\ RowsWrittenOnce'
      BY <1>5, EffectOnRows DEF WriteReturns
    <2>3. UNCHANGED <<swapped, accepted, lost, framesIn>>
      BY <1>5 DEF WriteReturns, memory
    <2> QED
      BY <2>1, <2>2, <2>3 DEF RowInv, Arrived, OneHolder, NoOtherLeak, Held
  <1>6. CASE WriteRaises(c)
    <2>1. CASE UNCHANGED <<dbRows, receipted>>
      BY <1>6, <2>1, RowsUntouched DEF WriteRaises, memory, rowVars
    <2>2. CASE WriteBatchEffect
      <3>1. Lists' = Lists /\ Appending' = Appending /\ retry' = retry
        BY <1>6 DEF WriteRaises, Lists, Appending, memory
      <3>2. Stored' = Stored \cup retry.rows /\ RowsWrittenOnce' /\ receipted'
        BY <1>6, <2>2, EffectOnRows DEF WriteRaises
      <3>3. UNCHANGED <<swapped, accepted, lost, framesIn>>
        BY <1>6 DEF WriteRaises, memory
      <3> QED
        BY <3>1, <3>2, <3>3 DEF RowInv, Arrived, OneHolder, NoOtherLeak, Held
    <2> QED
      BY <1>6, <2>1, <2>2 DEF WriteRaises, DatabaseFails, store
  <1>7. CASE PopBars(c)
    BY <1>7, RowsUntouched DEF PopBars, store, rowVars
  <1> QED
    BY <1>1, <1>2, <1>3, <1>4, <1>5, <1>6, <1>7 DEF FlushThread

\* Every step keeps the account of rows.
LEMMA RowNext == TypeOK /\ LockDiscipline /\ RowInv /\ [Next]_vars => RowInv'
  <1> SUFFICES ASSUME TypeOK, LockDiscipline, RowInv, [Next]_vars PROVE RowInv'
    OBVIOUS
  <1>1. ASSUME NEW s \in Sources, Ingest(s) PROVE RowInv'
    BY <1>1, RowIngest
  <1>2. CASE AppendBook
    BY <1>2, RowAppend
  <1>3. ASSUME NEW c \in Callers, FlushThread(c) PROVE RowInv'
    BY <1>3, RowThread
  <1>4. CASE FlushTick \/ ClockTick \/ Stop
    BY <1>4, RowsUntouched DEF FlushTick, ClockTick, Stop, memory, flush, store, rowVars
  <1>5. CASE Shutdown
    BY <1>5, RowsUntouched
       DEF Shutdown, FinalFlush, FinalFlushed, ListFinalBars, FinalBarsListed,
           FinalListRaises, WriteFinalBars, CloseStorage, memory, flush, store, rowVars
  <1>6. CASE UNCHANGED vars
    BY <1>6, RowsUntouched DEF vars, memory, flush, store, rowVars
  <1> QED
    BY <1>1, <1>2, <1>3, <1>4, <1>5, <1>6 DEF Next, Terminated

\* The inductive invariant.
THEOREM InductiveInvariant == Spec => [](TypeOK /\ LockDiscipline /\ RowInv)
  <1>1. Init => TypeOK /\ LockDiscipline /\ RowInv
    BY InitType, LockInit, RowInit
  <1>2. (TypeOK /\ LockDiscipline /\ RowInv) /\ [Next]_vars
          => (TypeOK /\ LockDiscipline /\ RowInv)'
    BY NextType, LockNext, RowNext
  <1> QED
    BY <1>1, <1>2, PTL DEF Spec

\* No row is written twice, whatever fails and whichever thread retries.
THEOREM ExactlyOnce == Spec => []RowsWrittenOnce
  BY InductiveInvariant, PTL DEF RowInv

\* The writer has no leak but the two races.
THEOREM LeaksAreRaces == Spec => []NoOtherLeak
  BY InductiveInvariant, PTL DEF RowInv

\* A row has one holder; a batch shares its rows with the tables only when its
\* receipt is there.
THEOREM HoldersDisjoint == Spec => []OneHolder
  BY InductiveInvariant, PTL DEF RowInv

-----------------------------------------------------------------------------
(* The writer implements the row sink.                                     *)

\* Steps that leave the three sets alone are stuttering steps of the sink.
LEMMA SinkStutter ==
  ASSUME UNCHANGED <<accepted, dbRows, lost>>
  PROVE  UNCHANGED Sink!vars
  BY DEF Sink!vars, Stored

\* Every step of the writer is a step of the row sink or a stutter.
LEMMA SinkStep ==
  ASSUME TypeOK, LockDiscipline, RowInv, [Next]_vars
  PROVE  [Sink!Next]_(Sink!vars)
  <1> DEFINE InFlight == accepted \ (Stored \cup lost)
  <1>1. ASSUME NEW s \in Sources, Ingest(s) PROVE [Sink!Next]_(Sink!vars)
    <2>1. Arrives(s) /\ UNCHANGED <<dbRows, lost>>
      BY <1>1 DEF Ingest, IngestDropped, IngestTrade, IngestBook, IngestSignal, store
    <2>2. accepted' = accepted \/ accepted' = accepted \cup {Frame}
      BY <1>1 DEF Ingest, IngestDropped, IngestTrade, IngestBook, IngestSignal
    <2>3. Frame \in Ids \ accepted
      BY <2>1, FrameType, FrameIsFresh
    <2>4. Stored' = Stored
      BY <2>1 DEF Stored
    <2> QED
      BY <2>1, <2>2, <2>3, <2>4 DEF Sink!Next, Sink!Accept, Sink!vars
  <1>2. CASE AppendBook
    <2>1. UNCHANGED <<accepted, dbRows>> /\ Stored' = Stored
      BY <1>2 DEF AppendBook, store, Stored
    <2>2. lost' = lost \/ lost' = lost \cup {appending.id}
      BY <1>2 DEF AppendBook
    <2>3. Appending = {appending.id}
      BY <1>2 DEF AppendBook, Appending
    <2>4. {appending.id} \in SUBSET InFlight
      BY <2>3 DEF RowInv, Arrived, OneHolder, Held
    <2> QED
      BY <2>1, <2>2, <2>4 DEF Sink!Next, Sink!Lose, Sink!InFlight, Sink!vars
  <1>3. ASSUME NEW c \in Callers, FlushThread(c) PROVE [Sink!Next]_(Sink!vars)
    <2>1. CASE ScanRaises(c)
      <3>1. swapped \in SUBSET InFlight
        BY DEF RowInv, Arrived, OneHolder, Held
      <3>2. lost' = lost \cup swapped /\ accepted' = accepted /\ Stored' = Stored
        BY <2>1 DEF ScanRaises, store, Stored
      <3> QED
        BY <3>1, <3>2 DEF Sink!Next, Sink!Lose, Sink!InFlight
    <2>2. CASE WriteBatchEffect /\ (WriteReturns(c) \/ WriteRaises(c))
      <3>1. Stored' = Stored \cup (retry.rows \ Stored)
        BY <2>2, EffectOnRows
      <3>2. retry.rows \ Stored \in SUBSET InFlight
        BY DEF RowInv, Arrived, OneHolder, Held
      <3>3. UNCHANGED <<accepted, lost>>
        BY <2>2 DEF WriteReturns, WriteRaises
      <3> QED
        BY <3>1, <3>2, <3>3 DEF Sink!Next, Sink!Store, Sink!InFlight
    <2>3. CASE UNCHANGED <<accepted, dbRows, lost>>
      BY <2>3, SinkStutter
    <2> QED
      BY <1>3, <2>1, <2>2, <2>3
         DEF FlushThread, AcquireRetry, AcquireSwap, MakeBatch, WriteReturns,
             WriteRaises, DatabaseFails, PopBars, store
  <1>4. CASE FlushTick \/ ClockTick \/ Stop \/ Shutdown \/ Terminated \/ UNCHANGED vars
    <2>1. UNCHANGED <<accepted, dbRows, lost>>
      BY <1>4 DEF FlushTick, ClockTick, Stop, Shutdown, FinalFlush, FinalFlushed,
                  ListFinalBars, FinalBarsListed, FinalListRaises, WriteFinalBars,
                  CloseStorage, Terminated, vars, store
    <2> QED
      BY <2>1, SinkStutter
  <1> QED
    BY <1>1, <1>2, <1>3, <1>4 DEF Next

\* The initial state of the writer is one of the row sink.
LEMMA SinkInit == Init => Sink!Init
  BY DEF Init, Sink!Init, Stored

\* Every behaviour of the writer is one of the row sink.
THEOREM ImplementsRowSink == Spec => IsRowSink
  <1>1. Init => Sink!Init
    BY SinkInit
  <1>2. TypeOK /\ LockDiscipline /\ RowInv /\ [Next]_vars => [Sink!Next]_(Sink!vars)
    BY SinkStep
  <1> QED
    BY <1>1, <1>2, InductiveInvariant, PTL DEF Spec, IsRowSink, Sink!Spec

\* Every accepted row is in one place, once, for any number of sources, frames,
\* failures and threads (writer.py, _flush_locked; db.py, write_batch).
THEOREM RowsAreAccounted == Spec => []RowsAccounted
  BY ExactlyOnce, LeaksAreRaces, HoldersDisjoint, PTL DEF RowsAccounted

-----------------------------------------------------------------------------
(* How many rows there can be in memory.                                   *)

Rows3 == Cardinality(trades) + Cardinality(books) + Cardinality(signals)
On(l) == IF appending.list = l THEN 1 ELSE 0

\* The lists, with the append that is on its way to them, respect the limit; so
\* do the rows a thread took, with the append that is on its way to those. While
\* an append is on its way to rows a thread took, no frame refills the lists.
Counted ==
    /\ Rows3 + On("live") <= PendingMax
    /\ Cardinality(swapped) + Cardinality(retry.rows) + On("swapped") <= PendingMax
    /\ appending # NoAppend => PendingMax >= 1
    /\ appending.list \in {"swapped", "dead"} => Lists = {}

\* A set of frames is finite; one more frame adds at most one to its size.
LEMMA IdSets ==
    /\ \A S \in SUBSET Ids : Cardinality(S) \in Nat
    /\ \A S \in SUBSET Ids, x \in Ids : Cardinality(S \cup {x}) <= Cardinality(S) + 1
    /\ \A S, T \in SUBSET Ids : Cardinality(S \cup T) <= Cardinality(S) + Cardinality(T)
  <1>1. IsFiniteSet(Ids)
    BY BoundsAssumption, FS_Interval DEF Ids
  <1>2. ASSUME NEW S \in SUBSET Ids PROVE IsFiniteSet(S) /\ Cardinality(S) \in Nat
    BY <1>1, FS_Subset, FS_CardinalityType
  <1>3. ASSUME NEW S \in SUBSET Ids, NEW x \in Ids
        PROVE  Cardinality(S \cup {x}) <= Cardinality(S) + 1
    <2>1. Cardinality(S \cup {x}) = IF x \in S THEN Cardinality(S) ELSE Cardinality(S) + 1
      BY <1>2, FS_AddElement
    <2> QED BY <1>2, <2>1
  <1>4. ASSUME NEW S \in SUBSET Ids, NEW T \in SUBSET Ids
        PROVE  Cardinality(S \cup T) <= Cardinality(S) + Cardinality(T)
    <2>1. S \cap T \in SUBSET Ids /\ S \cup T \in SUBSET Ids
      OBVIOUS
    <2>2. /\ Cardinality(S) \in Nat /\ Cardinality(T) \in Nat
          /\ Cardinality(S \cap T) \in Nat /\ Cardinality(S \cup T) \in Nat
      BY <1>2, <2>1
    <2>3. Cardinality(S \cup T) = Cardinality(S) + Cardinality(T) - Cardinality(S \cap T)
      BY <1>2, FS_Union
    <2> QED BY <2>2, <2>3
  <1> QED BY <1>2, <1>3, <1>4

\* The sizes that are compared are numbers, and the rows of the lists are among
\* those that are counted as pending.
LEMMA Sizes ==
    ASSUME TypeOK
    PROVE  /\ Cardinality(trades) \in Nat /\ Cardinality(books) \in Nat
           /\ Cardinality(signals) \in Nat /\ Cardinality(swapped) \in Nat
           /\ Cardinality(retry.rows) \in Nat /\ Rows3 \in Nat
           /\ PendingMax \in Nat /\ (PendingRowCount < PendingMax => Rows3 + 1 <= PendingMax)
  <1>1. /\ Cardinality(trades) \in Nat /\ Cardinality(books) \in Nat
        /\ Cardinality(signals) \in Nat /\ Cardinality(swapped) \in Nat
        /\ Cardinality(retry.rows) \in Nat
    BY IdSets DEF TypeOK
  <1>2. IsFiniteSet(BarKeys)
    <2>1. IsFiniteSet(Buckets)
      BY BoundsAssumption, FS_Interval DEF Buckets
    <2> QED BY <2>1, InstrumentsAssumption, FS_Product DEF BarKeys
  <1>3. Cardinality(BarRows(retry.bars)) \in Nat
    <2>1. BarRows(retry.bars) \in SUBSET BarKeys
      BY DEF BarRows
    <2> QED BY <1>2, <2>1, FS_Subset, FS_CardinalityType
  <1>4. PendingMax \in Nat
    BY BoundsAssumption
  <1> QED BY <1>1, <1>3, <1>4 DEF Rows3, PendingRowCount

\* Nothing is counted at the start.
LEMMA CountInit == Init => Counted
  <1> SUFFICES ASSUME Init PROVE Counted
    OBVIOUS
  <1>1. Cardinality({}) = 0
    BY FS_EmptySet
  <1> QED BY <1>1, BoundsAssumption DEF Init, Counted, Rows3, On, NoBatch, NoAppend

\* A step that leaves the rows in memory alone.
LEMMA CountSame ==
    Counted /\ UNCHANGED <<trades, books, signals, appending, swapped, retry>> => Counted'
  BY DEF Counted, Rows3, On, Lists

\* A frame is taken only below the limit, so its row still fits.
LEMMA CountIngest == ASSUME TypeOK, Counted, NEW s \in Sources, Ingest(s) PROVE Counted'
  <1>0. Arrives(s) /\ appending = NoAppend /\ UNCHANGED <<swapped, retry>>
    BY DEF Ingest, IngestDropped, IngestTrade, IngestBook, IngestSignal, Arrives, LoopFree
  <1>1. Frame \in Ids
    BY <1>0, FrameType
  <1>2. CASE UNCHANGED <<trades, books, signals, appending>>
    BY <1>0, <1>2, CountSame
  <1>3. CASE /\ PendingRowCount < PendingMax /\ appending' = NoAppend
             /\ \/ trades' = trades \cup {Frame} /\ UNCHANGED <<books, signals>>
                \/ signals' = signals \cup {Frame} /\ UNCHANGED <<trades, books>>
    <2>1. /\ Cardinality(trades') + Cardinality(books') + Cardinality(signals') <= Rows3 + 1
          /\ Cardinality(trades') + Cardinality(books') + Cardinality(signals') \in Nat
      <3>1. /\ Cardinality(trades \cup {Frame}) <= Cardinality(trades) + 1
            /\ Cardinality(signals \cup {Frame}) <= Cardinality(signals) + 1
            /\ Cardinality(trades \cup {Frame}) \in Nat
            /\ Cardinality(signals \cup {Frame}) \in Nat
        BY <1>1, IdSets DEF TypeOK
      <3>2. CASE trades' = trades \cup {Frame} /\ UNCHANGED <<books, signals>>
        BY <3>1, <3>2, Sizes DEF Rows3
      <3>3. CASE signals' = signals \cup {Frame} /\ UNCHANGED <<trades, books>>
        BY <3>1, <3>3, Sizes DEF Rows3
      <3> QED BY <1>3, <3>2, <3>3
    <2>2. Rows3 + 1 <= PendingMax /\ Rows3 \in Nat /\ PendingMax \in Nat
      BY <1>3, Sizes
    <2>3. Cardinality(trades') + Cardinality(books') + Cardinality(signals') <= PendingMax
      BY <2>1, <2>2
    <2>4. Rows3' <= PendingMax /\ Rows3' \in Nat
      BY <2>1, <2>3 DEF Rows3
    <2>5. appending'.list = "none" /\ appending.list = "none"
      BY <1>0, <1>3 DEF NoAppend
    <2>6. swapped' = swapped /\ retry' = retry /\ appending' = appending
      BY <1>0, <1>3
    <2>7. On("live")' = 0 /\ On("swapped")' = On("swapped")
      BY <2>5, <2>6 DEF On
    <2>8. appending'.list \notin {"swapped", "dead"} /\ appending' = NoAppend
      BY <1>3, <2>5
    <2>9. Rows3' + On("live")' <= PendingMax
      BY <2>2, <2>4, <2>7
    <2> QED BY <2>6, <2>7, <2>8, <2>9 DEF Counted
  <1>4. CASE /\ PendingRowCount < PendingMax /\ UNCHANGED <<trades, books, signals>>
             /\ appending' = [id |-> Frame, list |-> "live", src |-> s]
    <2>1. Rows3 + 1 <= PendingMax /\ Rows3 \in Nat /\ PendingMax \in Nat
      BY <1>4, Sizes
    <2>2. Rows3' = Rows3 /\ appending'.list = "live" /\ appending.list = "none"
      BY <1>0, <1>4 DEF Rows3, NoAppend
    <2> QED BY <1>0, <2>1, <2>2 DEF Counted, On
  <1>5. CASE IngestDropped(s)
    BY <1>2, <1>5 DEF IngestDropped
  <1>6. CASE IngestTrade(s)
    BY <1>0, <1>3, <1>6 DEF IngestTrade
  <1>7. CASE IngestBook(s)
    BY <1>2, <1>4, <1>7 DEF IngestBook
  <1>8. CASE IngestSignal(s)
    BY <1>0, <1>3, <1>8 DEF IngestSignal
  <1> QED BY <1>5, <1>6, <1>7, <1>8 DEF Ingest

\* The append that had been counted arrives.
LEMMA CountAppend == ASSUME TypeOK, Counted, AppendBook PROVE Counted'
  <1>1. /\ appending.id \in Ids /\ appending.list \in {"live", "swapped", "dead"}
        /\ appending' = NoAppend /\ UNCHANGED <<trades, signals, retry>>
    BY DEF AppendBook, TypeOK, AppendSlots
  <1>2. appending'.list = "none"
    BY <1>1 DEF NoAppend
  <1>3. /\ Cardinality(books \cup {appending.id}) <= Cardinality(books) + 1
        /\ Cardinality(swapped \cup {appending.id}) <= Cardinality(swapped) + 1
        /\ Cardinality(books \cup {appending.id}) \in Nat
        /\ Cardinality(swapped \cup {appending.id}) \in Nat
    BY <1>1, IdSets DEF TypeOK
  <1>4. CASE appending.list = "live"
    <2>1. books' = books \cup {appending.id} /\ swapped' = swapped
      BY <1>4 DEF AppendBook
    <2>2. Rows3 + 1 <= PendingMax
      BY <1>4 DEF Counted, On
    <2>3. Rows3' <= PendingMax /\ Rows3' \in Nat
      BY <1>1, <1>3, <2>1, <2>2, Sizes DEF Rows3
    <2> QED BY <1>1, <1>2, <1>4, <2>1, <2>3, Sizes DEF Counted, On
  <1>5. CASE appending.list = "swapped"
    <2>1. swapped' = swapped \cup {appending.id} /\ books' = books
      BY <1>5 DEF AppendBook
    <2>2. Cardinality(swapped) + Cardinality(retry.rows) + 1 <= PendingMax
      BY <1>5 DEF Counted, On
    <2>3. Cardinality(swapped') + Cardinality(retry.rows) <= PendingMax
      BY <1>3, <2>1, <2>2, Sizes
    <2>4. Rows3' = Rows3
      BY <1>1, <2>1 DEF Rows3
    <2>5. Cardinality(swapped') \in Nat
      BY <1>3, <2>1
    <2> QED BY <1>1, <1>2, <1>5, <2>3, <2>4, <2>5, Sizes DEF Counted, On
  <1>6. CASE appending.list = "dead"
    <2>1. swapped' = swapped /\ books' = books
      BY <1>6 DEF AppendBook
    <2>2. Rows3' = Rows3
      BY <1>1, <2>1 DEF Rows3
    <2> QED BY <1>1, <1>2, <1>6, <2>1, <2>2, Sizes DEF Counted, On
  <1> QED BY <1>1, <1>4, <1>5, <1>6

\* What a thread takes out of the lists had been counted there; what it makes a
\* batch of had been counted as taken.
LEMMA CountThread ==
    ASSUME TypeOK, LockDiscipline, Counted, NEW c \in Callers, FlushThread(c)
    PROVE  Counted'
  <1>0. Cardinality({}) = 0
    BY FS_EmptySet
  <1>1. CASE AcquireRetry(c)
    BY <1>1, CountSame DEF AcquireRetry, memory
  <1>2. CASE AcquireSwap(c)
    <2>1. retry.rows = {} /\ swapped = {} /\ UNCHANGED retry
      BY <1>2, FreeIsNoCaller DEF AcquireSwap, LockDiscipline
    <2>2. /\ trades' = {} /\ books' = {} /\ signals' = {}
          /\ swapped' = trades \cup books \cup signals
      BY <1>2 DEF AcquireSwap
    <2>3. Rows3' = 0 /\ Lists' = {}
      BY <1>0, <2>2 DEF Rows3, Lists
    <2>4. Cardinality(swapped') <= Rows3 /\ Cardinality(swapped') \in Nat
      <3>1. /\ trades \in SUBSET Ids /\ books \in SUBSET Ids /\ signals \in SUBSET Ids
            /\ trades \cup books \in SUBSET Ids /\ trades \cup books \cup signals \in SUBSET Ids
        BY DEF TypeOK
      <3>2. /\ Cardinality(trades \cup books) <= Cardinality(trades) + Cardinality(books)
            /\ Cardinality(trades \cup books \cup signals)
                 <= Cardinality(trades \cup books) + Cardinality(signals)
            /\ Cardinality(trades \cup books) \in Nat
            /\ Cardinality(trades \cup books \cup signals) \in Nat
        BY <3>1, IdSets
      <3> QED BY <2>2, <3>2, Sizes DEF Rows3
    <2>5. \/ appending.list = "live" /\ appending'.list = "swapped"
          \/ appending.list # "live" /\ appending' = appending
      BY <1>2 DEF AcquireSwap, Relisted
    <2>6. appending' # NoAppend => appending # NoAppend
      BY <2>5 DEF NoAppend
    <2>7. Cardinality(retry'.rows) = 0
      BY <1>0, <2>1
    <2>8. appending.list # "swapped"
      BY <1>2, FreeIsNoCaller DEF AcquireSwap, LockDiscipline
    <2>9. Cardinality(swapped') + On("live") <= PendingMax
      BY <2>4, Sizes DEF Counted, On
    <2>10. On("swapped")' = On("live") /\ On("live")' = 0
      BY <2>5, <2>8 DEF On
    <2>11. On("live") \in {0, 1} /\ PendingMax \in Nat
      BY Sizes DEF On
    <2>12. Rows3' + On("live")' <= PendingMax
      BY <2>3, <2>10, <2>11
    <2>13. Cardinality(swapped') + Cardinality(retry'.rows) + On("swapped")' <= PendingMax
      BY <2>4, <2>7, <2>9, <2>10, <2>11
    <2> QED BY <2>3, <2>6, <2>12, <2>13 DEF Counted
  <1>3. CASE ScanRaises(c)
    <2>1. swapped' = {} /\ UNCHANGED <<trades, books, signals, retry>>
      BY <1>3 DEF ScanRaises
    <2>2. \/ appending.list = "swapped" /\ appending'.list = "dead"
          \/ appending.list # "swapped" /\ appending' = appending
      BY <1>3 DEF ScanRaises, BuryAppend, Relisted
    <2>3. Rows3' = Rows3 /\ Lists' = Lists
      BY <2>1 DEF Rows3, Lists
    <2>4. appending' # NoAppend => appending # NoAppend
      BY <2>2 DEF NoAppend
    <2> QED BY <1>0, <2>1, <2>2, <2>3, <2>4, Sizes DEF Counted, On
  <1>4. CASE MakeBatch(c)
    <2>1. retry.rows = {} /\ retry'.rows = swapped /\ swapped' = {}
          /\ UNCHANGED <<trades, books, signals>>
      BY <1>4 DEF MakeBatch, LockDiscipline
    <2>2. \/ appending.list = "swapped" /\ appending'.list = "dead"
          \/ appending.list # "swapped" /\ appending' = appending
      BY <1>4 DEF MakeBatch, BuryAppend, Relisted
    <2>3. Rows3' = Rows3 /\ Lists' = Lists
      BY <2>1 DEF Rows3, Lists
    <2>4. appending' # NoAppend => appending # NoAppend
      BY <2>2 DEF NoAppend
    <2> QED BY <1>0, <2>1, <2>2, <2>3, <2>4, Sizes DEF Counted, On
  <1>5. CASE WriteReturns(c)
    <2>1. retry'.rows = {} /\ UNCHANGED <<trades, books, signals, appending, swapped>>
      BY <1>5 DEF WriteReturns, memory, NoBatch
    <2>2. Rows3' = Rows3 /\ Lists' = Lists
      BY <2>1 DEF Rows3, Lists
    <2> QED BY <1>0, <2>1, <2>2, Sizes DEF Counted, On
  <1>6. CASE WriteRaises(c)
    BY <1>6, CountSame DEF WriteRaises, memory
  <1>7. CASE PopBars(c)
    BY <1>7, CountSame DEF PopBars
  <1> QED BY <1>1, <1>2, <1>3, <1>4, <1>5, <1>6, <1>7 DEF FlushThread

\* The limits are kept by every step.
LEMMA CountNext == TypeOK /\ LockDiscipline /\ Counted /\ [Next]_vars => Counted'
  <1> SUFFICES ASSUME TypeOK, LockDiscipline, Counted, [Next]_vars PROVE Counted'
    OBVIOUS
  <1>1. ASSUME NEW s \in Sources, Ingest(s) PROVE Counted'
    BY <1>1, CountIngest
  <1>2. CASE AppendBook
    BY <1>2, CountAppend
  <1>3. ASSUME NEW c \in Callers, FlushThread(c) PROVE Counted'
    BY <1>3, CountThread
  <1>4. CASE FlushTick \/ ClockTick \/ Stop \/ Shutdown
    BY <1>4, CountSame
       DEF FlushTick, ClockTick, Stop, Shutdown, FinalFlush, FinalFlushed, ListFinalBars,
           FinalBarsListed, FinalListRaises, WriteFinalBars, CloseStorage, memory, flush
  <1>5. CASE UNCHANGED vars
    BY <1>5, CountSame DEF vars, memory, flush
  <1> QED BY <1>1, <1>2, <1>3, <1>4, <1>5 DEF Next, Terminated

\* writer.py:172: in an outage the lists stay within writer_pending_max_rows
\* and everything the writer holds within twice that.
THEOREM MemoryIsBounded == Spec => []PendingBounded
  <1>1. TypeOK /\ Counted => PendingBounded
    <2> SUFFICES ASSUME TypeOK, Counted PROVE PendingBounded
      OBVIOUS
    <2>1. Rows3 <= PendingMax
      BY Sizes DEF Counted, On
    <2>2. Lists \in SUBSET Ids /\ Cardinality(Lists) <= Rows3 /\ Cardinality(Lists) \in Nat
      <3>1. /\ trades \in SUBSET Ids /\ books \in SUBSET Ids /\ signals \in SUBSET Ids
            /\ trades \cup books \in SUBSET Ids /\ trades \cup books \cup signals \in SUBSET Ids
        BY DEF TypeOK
      <3>2. /\ Cardinality(trades \cup books) <= Cardinality(trades) + Cardinality(books)
            /\ Cardinality(trades \cup books \cup signals)
                 <= Cardinality(trades \cup books) + Cardinality(signals)
            /\ Cardinality(trades \cup books) \in Nat
            /\ Cardinality(trades \cup books \cup signals) \in Nat
        BY <3>1, IdSets
      <3> QED BY <3>1, <3>2, Sizes DEF Rows3, Lists
    <2> DEFINE T == swapped \cup retry.rows
    <2>3. T \in SUBSET Ids /\ Cardinality(T) <= Cardinality(swapped) + Cardinality(retry.rows)
          /\ Cardinality(T) \in Nat
      BY IdSets DEF TypeOK
    <2>4. Lists \cup T \in SUBSET Ids /\ Cardinality(Lists \cup T) \in Nat
          /\ Cardinality(Lists \cup T) <= Cardinality(Lists) + Cardinality(T)
      BY <2>2, <2>3, IdSets
    <2>5. CASE appending = NoAppend
      <3>1. Held = Lists \cup T
        BY <2>5 DEF Held, Appending
      <3>2. Cardinality(swapped) + Cardinality(retry.rows) <= PendingMax
        BY Sizes DEF Counted, On
      <3>3. Cardinality(Held) <= 2 * PendingMax
        BY <2>1, <2>2, <2>3, <2>4, <3>1, <3>2, Sizes
      <3> QED BY <2>1, <3>3 DEF PendingBounded, Rows3
    <2>6. CASE appending # NoAppend
      <3>1. appending.id \in Ids /\ appending.list \in {"live", "swapped", "dead"}
        BY <2>6 DEF TypeOK, AppendSlots
      <3>2. Held = (Lists \cup T) \cup {appending.id}
        BY <2>6 DEF Held, Appending
      <3>3. Cardinality((Lists \cup T) \cup {appending.id}) <= Cardinality(Lists \cup T) + 1
        BY <2>4, <3>1, IdSets
      <3>3a. Cardinality(Held) <= Cardinality(Lists \cup T) + 1 /\ Cardinality(Held) \in Nat
        <4>1. (Lists \cup T) \cup {appending.id} \in SUBSET Ids
          BY <2>4, <3>1
        <4> QED BY <3>2, <3>3, <4>1, IdSets
      <3>4. CASE appending.list = "live"
        <4>1. Rows3 + 1 <= PendingMax
              /\ Cardinality(swapped) + Cardinality(retry.rows) <= PendingMax
          BY <3>4, Sizes DEF Counted, On
        <4>2. Cardinality(Held) <= 2 * PendingMax
          BY <2>2, <2>3, <2>4, <3>3a, <4>1, Sizes
        <4> QED BY <2>1, <4>2 DEF PendingBounded, Rows3
      <3>5. CASE appending.list \in {"swapped", "dead"}
        <4>1. Lists = {} /\ PendingMax >= 1
              /\ Cardinality(swapped) + Cardinality(retry.rows) <= PendingMax
          BY <2>6, <3>5, Sizes DEF Counted, On
        <4>2. Lists \cup T = T
          BY <4>1
        <4>3. Cardinality(Held) <= 2 * PendingMax
          BY <2>3, <3>3a, <4>1, <4>2, Sizes
        <4> QED BY <2>1, <4>3 DEF PendingBounded, Rows3
      <3> QED BY <3>1, <3>4, <3>5
    <2> QED BY <2>5, <2>6
  <1>2. Init => Counted
    BY CountInit
  <1>3. TypeOK /\ LockDiscipline /\ Counted /\ [Next]_vars => Counted'
    BY CountNext
  <1> QED BY <1>1, <1>2, <1>3, InductiveInvariant, PTL DEF Spec

-----------------------------------------------------------------------------
(* What holds while no database call has failed.                           *)

\* While the writer runs a trade is in one bar; its bar has not been counted
\* unless the thread that counted it is about to pop it; the batch holds what
\* its bars held when they were captured.
BarsOnce ==
    /\ conn = "open"
    /\ retry.set => lock \in Callers /\ thread[lock] = "write" /\ ~receipted
    /\ retry.set => \A k \in BarKeys : \/ retry.bars[k] = {}
                                       \/ k \in done /\ retry.bars[k] \subseteq bars[k]
    /\ \A k \in BarKeys : \A i \in bars[k] :
          /\ i <= framesIn
          /\ dbBars[i] # 0 => lock \in Callers /\ thread[lock] = "pop" /\ k \in done
          /\ \A l \in BarKeys : i \in bars[l] => k = l
    /\ \A i \in Ids : dbBars[i] <= 1 /\ (dbBars[i] # 0 => i <= framesIn)

\* On the way down the lists are empty once the last flush has taken them, and
\* at the end nothing is in the hands of a thread.
Drained ==
    /\ main # "closed" => /\ conn = "open"
                          /\ retry.set => lock \in Callers /\ thread[lock] = "write"
                          /\ \A c \in Callers : thread[c] # "rewrite"
    /\ main # "running" => appending = NoAppend
    /\ \/ main \in {"running", "stopping"}
       \/ main = "flushing" /\ thread["main"] = "lock"
       \/ Lists = {}
    /\ main = "closed" => swapped = {} /\ retry.rows = {}

CleanInv == faults = 0 => Drained /\ (main = "running" => BarsOnce)

\* Without a failure nothing has failed before.
LEMMA FaultsGrow ==
    ASSUME TypeOK, [Next]_vars, faults' = 0
    PROVE  faults = 0
  <1>1. faults \in Nat
    BY BoundsAssumption DEF TypeOK
  <1>2. faults' = faults \/ faults' = faults + 1
    BY DEF Next, Ingest, IngestDropped, IngestTrade, IngestBook, IngestSignal, AppendBook,
           FlushTick, ClockTick, FlushThread, AcquireRetry, AcquireSwap, ScanRaises, MakeBatch,
           WriteReturns, WriteRaises, DatabaseFails, PopBars, Stop, Shutdown, FinalFlush,
           FinalFlushed, ListFinalBars, FinalBarsListed, FinalListRaises, WriteFinalBars,
           CloseStorage, Terminated, vars
  <1> QED BY <1>1, <1>2

\* The writer starts clean.
LEMMA CleanInit == Init => CleanInv
  BY DEF Init, CleanInv, Drained, BarsOnce, NoBatch, NoBars, Lists, Callers, Ids

\* A step that leaves the rows, the batch, the threads, the connection and run() alone.
LEMMA DrainedSame ==
    Drained /\ UNCHANGED <<trades, books, signals, appending, swapped, retry, lock, thread,
                           main, conn>> => Drained'
  BY DEF Drained, Lists

\* While run() has not been told to stop only the database's part matters.
LEMMA DrainedRunning ==
    ASSUME main' = "running",
           conn' = "open",
           retry'.set => lock' \in Callers /\ thread'[lock'] = "write",
           \A c \in Callers : thread'[c] # "rewrite"
    PROVE  Drained'
  BY DEF Drained

\* A task that starts a flush is not one that writes.
LEMMA StartDrained ==
    ASSUME TypeOK, LockDiscipline, Drained, NEW s \in Sources, FlushIfFull(s), main = "running",
           thread[s] = "none", UNCHANGED <<lock, retry, main, conn>>
    PROVE  /\ Drained'
           /\ lock \in Callers => thread'[lock] = thread[lock] \/ thread[lock] = "none"
           /\ lock \in Callers /\ thread[lock] # "none" => thread'[lock] = thread[lock]
  <1>1. \A c \in Callers : thread'[c] = thread[c] \/ (c = s /\ thread'[c] = "lock")
    BY DEF TypeOK, FlushIfFull
  <1>2. \A c \in Callers : thread[c] # "none" => thread'[c] = thread[c]
    BY <1>1
  <1> QED BY <1>1, <1>2, DrainedRunning DEF Drained

\* A frame taken while the writer runs leaves the threads to their work.
LEMMA DrainedIngest ==
    ASSUME TypeOK, LockDiscipline, Drained, NEW s \in Sources, Ingest(s)
    PROVE  /\ Drained'
           /\ lock \in Callers /\ thread[lock] # "none" => thread'[lock] = thread[lock]
  <1>1. /\ thread[s] = "none" /\ main = "running" /\ UNCHANGED <<lock, retry, main, conn>>
        /\ FlushIfFull(s) \/ UNCHANGED thread
    BY DEF Ingest, IngestDropped, IngestTrade, IngestBook, IngestSignal, Arrives, store
  <1>2. CASE FlushIfFull(s)
    BY <1>1, <1>2, StartDrained
  <1>3. CASE UNCHANGED thread
    BY <1>1, <1>3, DrainedRunning DEF Drained
  <1> QED BY <1>1, <1>2, <1>3

\* The flush threads: without a failure a batch is written by the thread that
\* made it, and the thread of the last flush takes what is left in the lists.
LEMMA DrainedThread ==
    ASSUME TypeOK, LockDiscipline, Drained, faults' = 0, faults = 0,
           NEW c \in Callers, FlushThread(c)
    PROVE  Drained'
  <1> USE FreeIsNoCaller
  <1>0. \A d \in Callers : d # c => thread'[d] = thread[d]
    BY DEF FlushThread, AcquireRetry, AcquireSwap, ScanRaises, MakeBatch, WriteReturns,
           WriteRaises, PopBars, Release, TypeOK
  <1>1. CASE AcquireRetry(c)
    <2>1. main = "closed"
      BY <1>1 DEF AcquireRetry, Drained
    <2>2. UNCHANGED <<trades, books, signals, appending, swapped, retry, main>>
      BY <1>1 DEF AcquireRetry, memory
    <2> QED BY <2>1, <2>2 DEF Drained, Lists
  <1>2. CASE AcquireSwap(c)
    <2>1. /\ ~retry.set /\ UNCHANGED <<retry, main, conn>> /\ Lists' = {} /\ swapped' = Lists
          /\ thread'[c] = "scan"
      BY <1>2 DEF AcquireSwap, store, Lists, TypeOK
    <2>2. main # "running" => appending' = NoAppend
      BY <1>2 DEF AcquireSwap, Drained, NoAppend
    <2>3. \A d \in Callers : thread'[d] = "rewrite" => thread[d] = "rewrite"
      BY <1>0, <2>1
    <2>4. main = "closed" => Lists = {}
      BY DEF Drained
    <2> QED BY <2>1, <2>2, <2>3, <2>4 DEF Drained
  <1>3. CASE ScanRaises(c)
    <2>1. /\ ~retry.set /\ UNCHANGED <<retry, main, conn>> /\ Lists' = Lists /\ swapped' = {}
          /\ thread'[c] = "none" /\ thread[c] = "scan"
      BY <1>3 DEF ScanRaises, store, Lists, TypeOK, Release, LockDiscipline
    <2>2. main # "running" => appending' = NoAppend
      BY <1>3 DEF ScanRaises, BuryAppend, Drained, NoAppend
    <2>3. \A d \in Callers : thread'[d] = "rewrite" => thread[d] = "rewrite"
      BY <1>0, <2>1
    <2>4. main = "flushing" /\ thread["main"] = "lock" => thread'["main"] = "lock"
      BY <1>0, <2>1
    <2> QED BY <2>1, <2>2, <2>3, <2>4 DEF Drained
  <1>4. CASE MakeBatch(c)
    <2>1. /\ UNCHANGED <<main, conn, lock>> /\ Lists' = Lists /\ swapped' = {}
          /\ retry'.rows = swapped /\ lock = c /\ thread'[c] = "write" /\ thread[c] = "scan"
      BY <1>4 DEF MakeBatch, Lists, TypeOK, LockDiscipline, Inside
    <2>2. main # "running" => appending' = NoAppend
      BY <1>4 DEF MakeBatch, BuryAppend, Drained, NoAppend
    <2>3. \A d \in Callers : thread'[d] = "rewrite" => thread[d] = "rewrite"
      BY <1>0, <2>1
    <2>4. main = "flushing" /\ thread["main"] = "lock" => thread'["main"] = "lock"
      BY <1>0, <2>1
    <2> QED BY <2>1, <2>2, <2>3, <2>4 DEF Drained
  <1>5. CASE WriteReturns(c)
    <2>1. /\ UNCHANGED <<main, conn, swapped, appending>> /\ Lists' = Lists
          /\ retry'.rows = {} /\ ~retry'.set
          /\ thread[c] \in {"write", "rewrite"} /\ thread'[c] \in {"pop", "none"}
      BY <1>5 DEF WriteReturns, memory, Lists, NoBatch, Release, TypeOK
    <2>3. \A d \in Callers : thread'[d] = "rewrite" => thread[d] = "rewrite"
      BY <1>0, <2>1
    <2>4. main = "flushing" /\ thread["main"] = "lock" => thread'["main"] = "lock"
      BY <1>0, <2>1
    <2> QED BY <2>1, <2>3, <2>4 DEF Drained
  <1>6. CASE WriteRaises(c)
    <2>1. faults' = faults + 1 \/ conn # "open"
      BY <1>6 DEF WriteRaises, DatabaseFails
    <2>2. main = "closed"
      BY <2>1 DEF Drained
    <2>3. UNCHANGED <<trades, books, signals, appending, swapped, retry, main>>
      BY <1>6 DEF WriteRaises, memory
    <2> QED BY <2>2, <2>3 DEF Drained, Lists
  <1>7. CASE PopBars(c)
    <2>1. /\ UNCHANGED <<conn, swapped, appending, retry>> /\ Lists' = Lists
          /\ thread[c] = "pop" /\ thread'[c] = "none" /\ lock = c
      BY <1>7 DEF PopBars, store, Lists, Release, TypeOK, LockDiscipline, Inside
    <2>2. main' = main \/ (main = "listing" /\ main' = "listBroken")
      BY <1>7 DEF PopBars
    <2>3. \A d \in Callers : thread'[d] = "rewrite" => thread[d] = "rewrite"
      BY <1>0, <2>1
    <2>4. main = "flushing" /\ thread["main"] = "lock" => thread'["main"] = "lock"
      BY <1>0, <2>1
    <2>5. main # "closed" => ~retry.set
      BY <2>1 DEF Drained
    <2> QED BY <2>1, <2>2, <2>3, <2>4, <2>5 DEF Drained
  <1> QED BY <1>1, <1>2, <1>3, <1>4, <1>5, <1>6, <1>7 DEF FlushThread

\* run() on its way down: the storage is closed only when no thread is at work.
LEMMA DrainedShutdown ==
    ASSUME TypeOK, LockDiscipline, Drained, Shutdown
    PROVE  Drained'
  <1> USE FreeIsNoCaller
  <1>1. CASE FinalFlush
    <2>1. /\ main = "stopping" /\ UNCHANGED <<memory, retry, lock, swapped, store>>
      BY <1>1 DEF FinalFlush
    <2>2. \/ main' = "flushing" /\ thread' = [thread EXCEPT !["main"] = "lock"]
          \/ main' = "flushed" /\ thread' = thread /\ Lists = {}
      BY <1>1 DEF FinalFlush, SomethingToFlush, Lists
    <2>3. Lists' = Lists /\ appending' = appending /\ conn' = conn
      BY <2>1 DEF memory, store, Lists
    <2>4. thread["main"] = "none"
      BY <2>1 DEF LockDiscipline
    <2>5. /\ \A c \in Callers : thread'[c] = "rewrite" => thread[c] = "rewrite"
          /\ \A c \in Callers : thread[c] = "write" => thread'[c] = "write"
          /\ main' = "flushing" => thread'["main"] = "lock"
      BY <2>2, <2>4 DEF TypeOK
    <2> QED BY <2>1, <2>2, <2>3, <2>5 DEF Drained
  <1>2. CASE FinalFlushed \/ ListFinalBars \/ FinalListRaises \/ FinalBarsListed
             \/ WriteFinalBars
    <2>1. /\ UNCHANGED <<trades, books, signals, appending, swapped, retry, lock, thread, conn>>
          /\ main \notin {"running", "stopping"} /\ main \notin {"closed"}
          /\ main = "flushing" => thread["main"] = "none"
          /\ main' \in {"flushed", "listing", "closing", "final"}
      BY <1>2 DEF FinalFlushed, ListFinalBars, FinalListRaises, FinalBarsListed,
                  WriteFinalBars, memory, flush, store
    <2>2. Lists' = Lists
      BY <2>1 DEF Lists
    <2> QED BY <2>1, <2>2 DEF Drained
  <1>3. CASE CloseStorage
    <2>1. /\ UNCHANGED <<memory, flush>> /\ main = "closing" /\ main' = "closed" /\ lock = "free"
      BY <1>3 DEF CloseStorage
    <2>2. swapped = {} /\ retry.rows = {}
      BY <2>1 DEF Drained, LockDiscipline
    <2>3. Lists' = Lists /\ appending' = appending /\ swapped' = swapped /\ retry' = retry
      BY <2>1 DEF memory, flush, Lists
    <2> QED BY <2>1, <2>2, <2>3 DEF Drained
  <1> QED BY <1>1, <1>2, <1>3 DEF Shutdown

\* Every step without a failure keeps what the way down relies on.
LEMMA DrainedNext ==
    ASSUME TypeOK, LockDiscipline, Drained, faults' = 0, faults = 0, [Next]_vars
    PROVE  Drained'
  <1>1. ASSUME NEW s \in Sources, Ingest(s) PROVE Drained'
    BY <1>1, DrainedIngest
  <1>2. CASE AppendBook
    <2>1. /\ main = "running" /\ UNCHANGED <<retry, lock, main, conn>>
          /\ appending.src \in Sources /\ thread[appending.src] = "none"
          /\ FlushIfFull(appending.src)
      BY <1>2 DEF AppendBook, Drained, store, LockDiscipline, TypeOK, AppendSlots
    <2> QED BY <2>1, StartDrained
  <1>3. CASE FlushTick
    <2>1. /\ UNCHANGED <<trades, books, signals, appending, retry, lock, swapped, main, conn>>
          /\ main \in {"running", "stopping"} /\ thread["flush"] = "none"
          /\ thread' = [thread EXCEPT !["flush"] = "lock"]
      BY <1>3 DEF FlushTick, memory, store
    <2>2. /\ \A c \in Callers : thread'[c] = "rewrite" => thread[c] = "rewrite"
          /\ \A c \in Callers : thread[c] = "write" => thread'[c] = "write"
      BY <2>1 DEF TypeOK
    <2> QED BY <2>1, <2>2 DEF Drained, Lists
  <1>4. CASE ClockTick \/ Terminated \/ UNCHANGED vars
    BY <1>4, DrainedSame DEF ClockTick, Terminated, vars, memory, flush, store
  <1>5. ASSUME NEW c \in Callers, FlushThread(c) PROVE Drained'
    BY <1>5, DrainedThread
  <1>6. CASE Stop
    <2>1. /\ UNCHANGED <<trades, books, signals, appending, swapped, retry, lock, thread, conn>>
          /\ main = "running" /\ main' = "stopping" /\ appending = NoAppend
      BY <1>6 DEF Stop, memory, flush, store, LoopFree
    <2> QED BY <2>1 DEF Drained
  <1>7. CASE Shutdown
    BY <1>7, DrainedShutdown
  <1> QED BY <1>1, <1>2, <1>3, <1>4, <1>5, <1>6, <1>7 DEF Next

\* A step that leaves bars, batch, database and threads alone.
LEMMA BarsSame ==
    ASSUME BarsOnce, UNCHANGED <<conn, retry, receipted, bars, done, dbBars, lock>>,
           framesIn \in Nat, framesIn' \in Nat, framesIn <= framesIn',
           TypeOK, lock \in Callers /\ thread[lock] # "none" => thread'[lock] = thread[lock]
    PROVE  BarsOnce'
  <1>1. \A i \in Ids : i <= framesIn => i <= framesIn'
    BY BoundsAssumption DEF Ids
  <1>2. \A k \in BarKeys : bars[k] \subseteq Ids
    BY DEF TypeOK
  <1>3. lock \in Callers /\ thread[lock] \in {"write", "pop"} => thread'[lock] = thread[lock]
    OBVIOUS
  <1> QED BY <1>1, <1>2, <1>3 DEF BarsOnce

\* A trade that arrives goes to one bar and is not in the database.
LEMMA BarsIngest ==
    ASSUME TypeOK, LockDiscipline, Drained, BarsOnce, NEW s \in Sources, Ingest(s)
    PROVE  BarsOnce'
  <1>1. Arrives(s) /\ UNCHANGED <<conn, retry, receipted, done, dbBars, lock>>
    BY DEF Ingest, IngestDropped, IngestTrade, IngestBook, IngestSignal, store
  <1>2. lock \in Callers /\ thread[lock] # "none" => thread'[lock] = thread[lock]
    BY DrainedIngest
  <1>3. /\ Frame \in Ids /\ Frame = framesIn + 1 /\ framesIn' = framesIn + 1
        /\ framesIn \in Nat /\ framesIn' \in Nat /\ framesIn <= framesIn'
    <2>1. framesIn \in 0..MaxFrames
      BY DEF TypeOK
    <2>2. framesIn \in Nat
      BY <2>1, BoundsAssumption
    <2> QED BY <1>1, <2>2, FrameType DEF Arrives, Frame
  <1>4. CASE bars' = bars
    BY <1>1, <1>2, <1>3, <1>4, BarsSame
  <1>5. CASE IngestTrade(s)
    <2>1. PICK k \in BarKeys : bars' = [bars EXCEPT ![k] = @ \cup {Frame}]
      BY <1>5 DEF IngestTrade
    <2>2. PICK n \in Ids : n = Frame
      BY <1>3
    <2>3. /\ bars'[k] = bars[k] \cup {n} /\ \A l \in BarKeys : l # k => bars'[l] = bars[l]
          /\ \A l \in BarKeys : bars[l] \subseteq Ids
      BY <2>1, <2>2 DEF TypeOK
    <2>4. \A i \in Ids : i <= framesIn => i <= framesIn' /\ i # n
      BY <1>3, <2>2, BoundsAssumption DEF Ids
    <2>5. n <= framesIn'
      BY <1>3, <2>2
    <2>6. dbBars[n] = 0
      BY <2>4 DEF BarsOnce
    <2>7. \A l \in BarKeys : n \notin bars[l]
      BY <2>3, <2>4 DEF BarsOnce
    <2>8. retry'.set => lock' \in Callers /\ thread'[lock'] = "write" /\ ~receipted'
      BY <1>1, <1>2 DEF BarsOnce
    <2>9. retry'.set => \A l \in BarKeys : \/ retry'.bars[l] = {}
                                           \/ l \in done' /\ retry'.bars[l] \subseteq bars'[l]
      BY <1>1, <2>3 DEF BarsOnce
    <2>10. ASSUME NEW l \in BarKeys, NEW i \in bars'[l]
           PROVE  /\ i <= framesIn'
                  /\ dbBars'[i] # 0 => lock' \in Callers /\ thread'[lock'] = "pop" /\ l \in done'
                  /\ \A m \in BarKeys : i \in bars'[m] => l = m
      <3>1. CASE i = n
        <4>1. l = k /\ \A m \in BarKeys : n \in bars'[m] => m = k
          BY <2>3, <2>7, <2>10, <3>1
        <4> QED BY <1>1, <2>5, <2>6, <3>1, <4>1
      <3>2. CASE i # n
        <4>1. i \in bars[l] /\ i \in Ids /\ \A m \in BarKeys : i \in bars'[m] => i \in bars[m]
          BY <2>3, <2>10, <3>2
        <4>2. /\ i <= framesIn /\ \A m \in BarKeys : i \in bars[m] => l = m
              /\ dbBars[i] # 0 => lock \in Callers /\ thread[lock] = "pop" /\ l \in done
          BY <4>1 DEF BarsOnce
        <4> QED BY <1>1, <1>2, <2>4, <4>1, <4>2
      <3> QED BY <3>1, <3>2
    <2>11. \A i \in Ids : dbBars'[i] <= 1 /\ (dbBars'[i] # 0 => i <= framesIn')
      BY <1>1, <2>4 DEF BarsOnce
    <2> QED BY <1>1, <2>8, <2>9, <2>10, <2>11 DEF BarsOnce
  <1> QED BY <1>4, <1>5 DEF Ingest, IngestDropped, IngestBook, IngestSignal

\* The thread that makes a batch of finished bars, writes it and pops them:
\* in between no other one can.
LEMMA BarsThread ==
    ASSUME TypeOK, LockDiscipline, Drained, BarsOnce, main = "running", faults = 0, faults' = 0,
           NEW c \in Callers, FlushThread(c)
    PROVE  BarsOnce'
  <1> USE FreeIsNoCaller
  <1>a. framesIn' = framesIn
    BY DEF FlushThread, AcquireRetry, AcquireSwap, ScanRaises, MakeBatch, WriteReturns,
           WriteRaises, PopBars, memory
  <1>b. thread \in [Callers -> ThreadStates]
    BY DEF TypeOK
  <1>1. ~AcquireRetry(c)
    BY DEF AcquireRetry, Drained
  <1>2. CASE AcquireSwap(c) \/ ScanRaises(c)
    <2>1. /\ UNCHANGED <<conn, retry, receipted, bars, done, dbBars>>
          /\ ~retry.set
      BY <1>2 DEF AcquireSwap, ScanRaises, store, LockDiscipline
    <2>2. lock \notin Callers \/ thread[lock] = "scan"
      BY <1>2 DEF AcquireSwap, ScanRaises, LockDiscipline, Inside
    <2> QED BY <1>a, <2>1, <2>2 DEF BarsOnce
  <1>4. CASE MakeBatch(c)
    <2>1. /\ lock = c /\ lock' = c /\ thread[c] = "scan" /\ thread'[c] = "write"
      BY <1>4, <1>b DEF MakeBatch, LockDiscipline, Inside
    <2>2. /\ UNCHANGED <<conn, bars, dbBars>> /\ receipted' = FALSE /\ done' = DoneBars
          /\ retry'.bars = [k \in BarKeys |-> IF k \in DoneBars THEN bars[k] ELSE {}]
      BY <1>4 DEF MakeBatch, FreshBatchId
    <2>3. \A k \in BarKeys : \/ retry'.bars[k] = {}
                             \/ k \in done' /\ retry'.bars[k] \subseteq bars[k]
      BY <2>2
    <2> QED BY <1>a, <2>1, <2>2, <2>3 DEF BarsOnce
  <1>5. CASE WriteReturns(c)
    <2>1. /\ thread[c] = "write" /\ lock = c /\ retry.set /\ ~receipted
      <3>1. thread[c] = "write"
        BY <1>5 DEF WriteReturns, Drained
      <3> QED BY <3>1 DEF LockDiscipline, Inside, BarsOnce
    <2>2. /\ UNCHANGED <<conn, bars, done, lock>> /\ ~retry'.set /\ thread'[c] = "pop"
      BY <1>5, <2>1, <1>b DEF WriteReturns, memory, NoBatch
    <2>3. \/ dbBars' = dbBars
          \/ dbBars' = [i \in Ids |-> IF InBars(retry.bars, i) THEN dbBars[i] + 1 ELSE dbBars[i]]
      BY <1>5 DEF WriteReturns, WriteBatchEffect, Commit, AddBars
    <2>4. dbBars \in [Ids -> Nat] /\ bars \in [BarKeys -> SUBSET Ids]
      BY DEF TypeOK
    <2>5. \A k \in BarKeys : \A i \in bars[k] : dbBars[i] = 0
      BY <2>1 DEF BarsOnce
    <2>6. ASSUME NEW i \in Ids, dbBars'[i] # dbBars[i]
          PROVE  /\ dbBars'[i] = 1
                 /\ \E l \in BarKeys : i \in bars[l] /\ l \in done
      <3>1. InBars(retry.bars, i) /\ dbBars'[i] = dbBars[i] + 1
        BY <2>3, <2>6
      <3>2. PICK l \in BarKeys : i \in retry.bars[l]
        BY <3>1 DEF InBars
      <3>3. l \in done /\ i \in bars[l]
        BY <2>1, <3>2 DEF BarsOnce
      <3> QED BY <2>5, <3>1, <3>3
    <2>7. ASSUME NEW k \in BarKeys, NEW i \in bars[k], dbBars'[i] # 0 PROVE k \in done
      <3>1. i \in Ids /\ dbBars[i] = 0
        BY <2>4, <2>5
      <3>2. PICK l \in BarKeys : i \in bars[l] /\ l \in done
        BY <2>6, <2>7, <3>1
      <3>3. k = l
        BY <3>2 DEF BarsOnce
      <3> QED BY <3>2, <3>3
    <2>8. ASSUME NEW i \in Ids PROVE dbBars'[i] <= 1 /\ (dbBars'[i] # 0 => i <= framesIn)
      <3>1. CASE dbBars'[i] = dbBars[i]
        BY <3>1 DEF BarsOnce
      <3>2. CASE dbBars'[i] # dbBars[i]
        BY <2>6, <3>2 DEF BarsOnce
      <3> QED BY <3>1, <3>2
    <2> QED BY <1>a, <2>1, <2>2, <2>7, <2>8 DEF BarsOnce
  <1>6. ~WriteRaises(c)
    <2> SUFFICES ASSUME WriteRaises(c) PROVE FALSE
      OBVIOUS
    <2>1. faults' = faults + 1 \/ conn # "open"
      BY DEF WriteRaises, DatabaseFails
    <2> QED BY <2>1 DEF BarsOnce
  <1>7. CASE PopBars(c)
    <2>1. /\ thread[c] = "pop" /\ lock = c /\ ~retry.set
      <3>1. thread[c] = "pop"
        BY <1>7 DEF PopBars
      <3> QED BY <3>1 DEF LockDiscipline, Inside, BarsOnce
    <2>2. /\ UNCHANGED <<conn, retry, dbBars>>
          /\ bars' = [k \in BarKeys |-> IF k \in done THEN {} ELSE bars[k]]
      BY <1>7 DEF PopBars, store
    <2>3. ASSUME NEW k \in BarKeys, NEW i \in bars'[k]
          PROVE  i \in bars[k] /\ dbBars[i] = 0
      BY <2>2, <2>3 DEF BarsOnce
    <2>4. \A k \in BarKeys : bars'[k] \subseteq bars[k]
      BY <2>2
    <2> QED BY <1>a, <2>1, <2>2, <2>3, <2>4 DEF BarsOnce
  <1> QED BY <1>1, <1>2, <1>4, <1>5, <1>6, <1>7 DEF FlushThread

\* The other steps while the writer runs.
LEMMA BarsNext ==
    ASSUME TypeOK, LockDiscipline, Drained, BarsOnce, main = "running", main' = "running",
           faults = 0, faults' = 0, [Next]_vars
    PROVE  BarsOnce'
  <1>0. framesIn \in Nat
    <2>1. framesIn \in 0..MaxFrames
      BY DEF TypeOK
    <2> QED BY <2>1, BoundsAssumption
  <1>1. ASSUME NEW s \in Sources, Ingest(s) PROVE BarsOnce'
    BY <1>1, BarsIngest
  <1>2. CASE AppendBook
    <2>1. /\ UNCHANGED <<framesIn, conn, retry, receipted, bars, done, dbBars, lock, main>>
          /\ appending.src \in Sources /\ thread[appending.src] = "none"
          /\ FlushIfFull(appending.src)
      BY <1>2 DEF AppendBook, store, LockDiscipline, TypeOK, AppendSlots
    <2>2. lock \in Callers /\ thread[lock] # "none" => thread'[lock] = thread[lock]
      BY <2>1, StartDrained
    <2> QED BY <1>0, <2>1, <2>2, BarsSame
  <1>3. CASE FlushTick
    <2>1. /\ UNCHANGED <<framesIn, conn, retry, receipted, bars, done, dbBars, lock>>
          /\ thread["flush"] = "none" /\ thread' = [thread EXCEPT !["flush"] = "lock"]
      BY <1>3 DEF FlushTick, memory, store
    <2>2. lock \in Callers /\ thread[lock] # "none" => thread'[lock] = thread[lock]
      BY <2>1 DEF TypeOK
    <2> QED BY <1>0, <2>1, <2>2, BarsSame
  <1>4. CASE ClockTick \/ Terminated \/ UNCHANGED vars
    <2>1. UNCHANGED <<framesIn, conn, retry, receipted, bars, done, dbBars, lock, thread>>
      BY <1>4 DEF ClockTick, Terminated, vars, memory, flush, store
    <2> QED BY <1>0, <2>1, BarsSame
  <1>5. ASSUME NEW c \in Callers, FlushThread(c) PROVE BarsOnce'
    BY <1>5, BarsThread
  <1>6. ~Stop /\ ~Shutdown
    BY DEF Stop, Shutdown, FinalFlush, FinalFlushed, ListFinalBars, FinalBarsListed,
           FinalListRaises, WriteFinalBars, CloseStorage
  <1> QED BY <1>1, <1>2, <1>3, <1>4, <1>5, <1>6 DEF Next

\* run() never starts again.
LEMMA RunningBefore ==
    ASSUME [Next]_vars, main' = "running"
    PROVE  main = "running"
  BY DEF Next, Ingest, IngestDropped, IngestTrade, IngestBook, IngestSignal, AppendBook,
         FlushTick, ClockTick, FlushThread, AcquireRetry, AcquireSwap, ScanRaises, MakeBatch,
         WriteReturns, WriteRaises, PopBars, Stop, Shutdown, FinalFlush, FinalFlushed,
         ListFinalBars, FinalBarsListed, FinalListRaises, WriteFinalBars, CloseStorage,
         Terminated, vars

\* What holds without failures is kept by every step without a failure.
LEMMA CleanNext == TypeOK /\ LockDiscipline /\ CleanInv /\ [Next]_vars => CleanInv'
  <1> SUFFICES ASSUME TypeOK, LockDiscipline, CleanInv, [Next]_vars, faults' = 0
               PROVE  Drained' /\ (main' = "running" => BarsOnce')
    BY DEF CleanInv
  <1>1. faults = 0
    BY FaultsGrow
  <1>2. Drained /\ (main = "running" => BarsOnce)
    BY <1>1 DEF CleanInv
  <1>3. Drained'
    BY <1>1, <1>2, DrainedNext
  <1>4. ASSUME main' = "running" PROVE BarsOnce'
    BY <1>1, <1>2, <1>4, RunningBefore, BarsNext
  <1> QED BY <1>3, <1>4

\* While the database does not fail, the additive upsert of bars_1m counts no
\* trade twice as long as the writer runs, and a shutdown leaves no row behind
\* (writer.py, _flush_locked and run).
THEOREM CleanRuns == Spec => []CleanWithoutFault
  <1>1. TypeOK /\ RowInv /\ CleanInv => CleanWithoutFault
    <2> SUFFICES ASSUME TypeOK, RowInv, CleanInv
                 PROVE  BarsCountedOnceWithoutFault /\ CleanShutdownStoresAll
      BY DEF CleanWithoutFault
    <2>1. BarsCountedOnceWithoutFault
      BY DEF BarsCountedOnceWithoutFault, CleanInv, BarsOnce
    <2>2. ASSUME main = "closed", faults = 0 PROVE accepted \subseteq Stored \cup lost
      <3>1. Lists = {} /\ swapped = {} /\ retry.rows = {} /\ appending = NoAppend
        BY <2>2 DEF CleanInv, Drained
      <3>2. Held = {}
        BY <3>1 DEF Held, Appending
      <3> QED BY <3>2 DEF RowInv, NoOtherLeak
    <2> QED BY <2>1, <2>2 DEF CleanShutdownStoresAll
  <1>2. Init => CleanInv
    BY CleanInit
  <1>3. TypeOK /\ LockDiscipline /\ CleanInv /\ [Next]_vars => CleanInv'
    BY CleanNext
  <1> QED BY <1>1, <1>2, <1>3, InductiveInvariant, PTL DEF Spec
=============================================================================
