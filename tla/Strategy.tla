------------------------------ MODULE Strategy ------------------------------
(***************************************************************************)
(* The strategy engine (services/strategy.py) for one symbol: trades are   *)
(* folded into bars, a closed bar goes through the strategies              *)
(* (strategies.py) over their incremental indicators (indicators.py), and  *)
(* SignalGate spaces the signals that come out.                            *)
(*                                                                         *)
(* Prices are whole numbers.  An average is kept as its sum and a relative *)
(* strength as its two scaled averages, so that comparisons are exact; the *)
(* rounding of floats is left out.                                         *)
(***************************************************************************)
EXTENDS Integers, FiniteSets, FiniteSetsExt, SequencesExt

CONSTANTS
    TradePrices,
    Strategies,                     \* cfg.strategies, a sequence of names
    Fast, Slow,                     \* SMACross
    RsiN, RsiLow, RsiHigh,          \* RSIRevert
    BandN, BandK,                   \* BollingerBreak
    Cooldown,                       \* signal_cooldown_s, in bars
    MaxTrades, MaxBucket            \* bounds: trades and the end of time, in bars

ASSUME StrategyAssumption ==
    /\ TradePrices \subseteq Nat \ {0} /\ {Fast, Slow, RsiN} \subseteq Nat \ {0} /\ BandN > 1
    /\ Range(Strategies) \subseteq {"sma_cross", "rsi_revert", "bb_break"}

VARIABLES
    bar,        \* _bars[key]: [bucket, close, ticks], ticks 0 when there is none
    strat,      \* _strats[key]: what the strategies remember, <<>> before the first bar
    lastSig,    \* SignalGate._last: strategy -> bucket
    signals,    \* what was published: [strategy, action, bucket]
    bucketNow,  \* the bucket of now_ns()
    seen,       \* trades received
    closed,     \* the bars closed, with what each strategy said (history)
    lateTrade   \* a trade came after its bucket was over (history)

stratVars == <<bar, strat, lastSig, signals, bucketNow, seen, closed, lateTrade>>

NoBar == [bucket |-> 0, close |-> 0, ticks |-> 0]
HOLD == 0
-----------------------------------------------------------------------------
\* indicators.py

\* SMA and RollingStd: a window with its sum and its sum of squares
Window0 == [q |-> <<>>, sum |-> 0, sq |-> 0]
WindowUpdate(w, n, x) ==
    LET old == IF Len(w.q) = n THEN Head(w.q) ELSE 0 IN
    [q |-> Append(IF Len(w.q) = n THEN Tail(w.q) ELSE w.q, x),
     sum |-> w.sum + x - old, sq |-> w.sq + x * x - old * old]

\* Crossover: prev is 1 above, -1 below, 0 unknown.  Equal is no crossing
Sign(x) == IF x > 0 THEN 1 ELSE IF x < 0 THEN -1 ELSE 0
\* mutant: equal is below
CrossoverTie(prev, d) ==
    LET cur == IF d > 0 THEN 1 ELSE -1 IN
    [prev |-> cur, out |-> IF prev \in {0, cur} THEN 0 ELSE cur]
Crossover(prev, d) ==
    IF d = 0 THEN [prev |-> prev, out |-> 0]
    ELSE [prev |-> Sign(d), out |-> IF prev \in {0, Sign(d)} THEN 0 ELSE Sign(d)]

\* RSI: gain and loss are RsiN * scale times the averages, scale is 0 while they
\* are being seeded, and prev 0 before the first price
Rsi0 == [prev |-> 0, count |-> 0, gain |-> 0, loss |-> 0, scale |-> 0]
RsiUpdate(r, x) ==
    LET up == IF x > r.prev THEN x - r.prev ELSE 0
        down == IF x < r.prev THEN r.prev - x ELSE 0
    IN  IF r.prev = 0 THEN [r EXCEPT !.prev = x]
        ELSE IF r.scale = 0
        THEN [prev |-> x, count |-> r.count + 1, gain |-> r.gain + up, loss |-> r.loss + down,
              scale |-> IF r.count + 1 = RsiN THEN 1 ELSE 0]
        ELSE [prev |-> x, count |-> r.count, scale |-> r.scale * RsiN,
              gain |-> r.gain * (RsiN - 1) + up * r.scale * RsiN,
              loss |-> r.loss * (RsiN - 1) + down * r.scale * RsiN]
\* 100 - 100 / (1 + gain / loss), and 100 without a loss
RsiAtMost(gain, loss, v) == IF loss = 0 THEN 100 <= v ELSE 100 * gain <= v * (gain + loss)
RsiAtLeast(gain, loss, v) == IF loss = 0 THEN TRUE ELSE 100 * gain >= v * (gain + loss)

\* Bollinger: beyond a band is more than BandK sample deviations from the mean
Beyond(w, x) ==
    LET d == BandN * x - w.sum IN
    IF d * d * (BandN - 1) > BandK * BandK * BandN * (BandN * w.sq - w.sum * w.sum)
    THEN Sign(d) ELSE 0
-----------------------------------------------------------------------------
\* strategies.py: what a strategy remembers, and what it says of a bar
Strat0 == [sma |-> [fast |-> Window0, slow |-> Window0, prev |-> 0],
           rsi |-> [rsi |-> Rsi0, low |-> FALSE, high |-> FALSE],
           band |-> [w |-> Window0, inside |-> TRUE]]

SmaCross(s, x) ==
    LET f == WindowUpdate(s.fast, Fast, x)
        w == WindowUpdate(s.slow, Slow, x)
        c == Crossover(s.prev, f.sum * Slow - w.sum * Fast)
        ready == Len(f.q) = Fast /\ Len(w.q) = Slow
    IN  [st |-> [fast |-> f, slow |-> w, prev |-> IF ready THEN c.prev ELSE s.prev],
         act |-> IF ready THEN c.out ELSE HOLD]

RsiRevert(s, x) ==
    LET r == RsiUpdate(s.rsi, x)
        atLow == RsiAtMost(r.gain, r.loss, RsiLow)
        atHigh == RsiAtLeast(r.gain, r.loss, RsiHigh)
    IN  IF r.scale = 0 THEN [st |-> [s EXCEPT !.rsi = r], act |-> HOLD]
        ELSE [st |-> [rsi |-> r, low |-> atLow, high |-> atHigh],
              act |-> IF s.low /\ ~atLow THEN 1 ELSE IF s.high /\ ~atHigh THEN -1 ELSE HOLD]

BollingerBreak(s, x) ==
    LET w == WindowUpdate(s.w, BandN, x) IN
    IF Len(w.q) < BandN THEN [st |-> [s EXCEPT !.w = w], act |-> HOLD]
    ELSE [st |-> [w |-> w, inside |-> Beyond(w, x) = 0],
          act |-> IF s.inside THEN Beyond(w, x) ELSE HOLD]

\* SignalGate.allow
Allow(n, b) == Cooldown = 0 \/ n \notin DOMAIN lastSig \/ b - lastSig[n] >= Cooldown
-----------------------------------------------------------------------------
StratInit ==
    /\ bar = NoBar /\ strat = <<>> /\ lastSig = <<>>
    /\ signals = <<>> /\ bucketNow = 0 /\ seen = 0 /\ closed = <<>> /\ lateTrade = FALSE

\* _close_bar, with _emit for the strategies that have something to say
CloseBar ==
    LET st == IF closed = <<>> THEN Strat0 ELSE strat
        sma == SmaCross(st.sma, bar.close)
        rsi == RsiRevert(st.rsi, bar.close)
        band == BollingerBreak(st.band, bar.close)
        act == [n \in Range(Strategies) |->
                  CASE n = "sma_cross" -> sma.act [] n = "rsi_revert" -> rsi.act
                    [] n = "bb_break" -> band.act]
        out(n) == act[n] # HOLD /\ Allow(n, bar.bucket)
        emit == SelectSeq(Strategies, out)
    IN  /\ strat' = [sma |-> sma.st, rsi |-> rsi.st, band |-> band.st]
        /\ lastSig' = IF Cooldown = 0 THEN lastSig
                      ELSE [n \in DOMAIN lastSig \cup Range(emit) |->
                              IF out(n) THEN bar.bucket ELSE lastSig[n]]
        /\ signals' = signals \o [i \in DOMAIN emit |->
                         [strategy |-> emit[i], action |-> act[emit[i]], bucket |-> bar.bucket]]
        /\ closed' = Append(closed, [bucket |-> bar.bucket, close |-> bar.close,
                                      ticks |-> bar.ticks, act |-> act])

\* _on_trade: a trade of another bucket closes the bar, whichever is the later
OnTrade(b, px) ==
    /\ seen < MaxTrades /\ seen' = seen + 1
    /\ lateTrade' = (lateTrade \/ b < bucketNow)
    /\ IF bar.ticks > 0 /\ bar.bucket # b
       THEN CloseBar /\ bar' = [bucket |-> b, close |-> px, ticks |-> 1]
       ELSE /\ bar' = [bucket |-> b, close |-> px, ticks |-> bar.ticks + 1]
            /\ UNCHANGED <<strat, lastSig, signals, closed>>
    /\ UNCHANGED bucketNow

\* _sweep: a bar whose time is over is closed without another trade
Sweep ==
    /\ bar.ticks > 0 /\ bar.bucket < bucketNow /\ CloseBar /\ bar' = NoBar
    /\ UNCHANGED <<bucketNow, seen, lateTrade>>

BucketPasses ==
    /\ bucketNow < MaxBucket /\ bucketNow' = bucketNow + 1
    /\ UNCHANGED <<bar, strat, lastSig, signals, seen, closed, lateTrade>>

\* bound: one trade comes late, by one bucket
Punctual(b) == b = bucketNow \/ (b + 1 = bucketNow /\ ~lateTrade)

StratNext ==
    \/ Sweep \/ BucketPasses
    \/ \E px \in TradePrices, b \in 0 .. MaxBucket : Punctual(b) /\ OnTrade(b, px)
-----------------------------------------------------------------------------
(* Properties                                                              *)

Total(f(_), S) == MapThenSumSet(f, S)

\* Every trade is in one bar, closed or open, in whatever order trades of two
\* buckets, the clock and the sweep meet (strategy.py:86-92, 150-153).
TradesInOneBar == seen = bar.ticks + Total(LAMBDA i : closed[i].ticks, DOMAIN closed)

\* Without a late trade the strategies see every bucket at most once and in order:
\* the sweep and the next trade never close the same bar twice.
BarsInOrder ==
    ~lateTrade => \A i, j \in DOMAIN closed : i < j => closed[i].bucket < closed[j].bucket

\* Signals of one strategy are a cooldown apart in market time, also when late
\* trades close bars out of order (strategies.py:42-51).
SignalsApart ==
    \A i, j \in DOMAIN signals :
        i < j /\ signals[i].strategy = signals[j].strategy
            => signals[j].bucket - signals[i].bucket >= Cooldown

\* The incremental indicators say of the bar just closed what the definitions
\* say of the whole series of closes: moving averages that crossed, ties left aside; Wilder's
\* averages written out; deviations from the mean of the window.
CloseOf(i) == closed[i].close
Mean(n, i) == Total(CloseOf, (i - n + 1) .. i)
Spread(i) == Sign(Mean(Fast, i) * Slow - Mean(Slow, i) * Fast)
SmaOf(i) ==
    LET before == {j \in Slow .. (i - 1) : Spread(j) # 0} IN
    IF i < Slow \/ i < Fast \/ before = {} \/ Spread(i) = 0 THEN HOLD
    ELSE IF Spread(Max(before)) # Spread(i) THEN Spread(i) ELSE HOLD
Wilder(i, change(_)) ==
    LET m == i - 1 - RsiN
        w(j) == IF j <= RsiN + 1 THEN (RsiN - 1) ^ m
                ELSE RsiN ^ (j - 1 - RsiN) * (RsiN - 1) ^ (i - j)
    IN  Total(LAMBDA j : w(j) * change(j), 2 .. i)
Gain(j) == IF CloseOf(j) > CloseOf(j - 1) THEN CloseOf(j) - CloseOf(j - 1) ELSE 0
Loss(j) == IF CloseOf(j) < CloseOf(j - 1) THEN CloseOf(j - 1) - CloseOf(j) ELSE 0
Oversold(i) == i > RsiN /\ RsiAtMost(Wilder(i, Gain), Wilder(i, Loss), RsiLow)
Overbought(i) == i > RsiN /\ RsiAtLeast(Wilder(i, Gain), Wilder(i, Loss), RsiHigh)
RsiOf(i) ==
    IF Oversold(i - 1) /\ ~Oversold(i) THEN 1
    ELSE IF Overbought(i - 1) /\ ~Overbought(i) THEN -1 ELSE HOLD
Outside(i) ==
    LET m == Mean(BandN, i)
        d(j) == BandN * CloseOf(j) - m
    IN  IF i >= BandN /\ d(i) * d(i) * (BandN - 1)
                           > BandK * BandK * Total(LAMBDA j : d(j) * d(j), (i - BandN + 1) .. i)
        THEN Sign(d(i)) ELSE 0
BandOf(i) == IF i > 1 /\ Outside(i - 1) # 0 THEN HOLD ELSE Outside(i)
SaysTheSeries ==
    closed # <<>> => LET i == Len(closed) IN \A n \in Range(Strategies) :
        closed[i].act[n] = CASE n = "sma_cross" -> SmaOf(i)
                             [] n = "rsi_revert" -> RsiOf(i)
                             [] n = "bb_break" -> BandOf(i)
\* Bars and signals are those of the trades, in whatever order trades, clock and sweep
\* meet.
SignalsFollowTrades == TradesInOneBar /\ BarsInOrder /\ SignalsApart /\ SaysTheSeries
=============================================================================
