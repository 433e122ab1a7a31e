------------------------------ MODULE Candles ------------------------------
(***************************************************************************)
(* From a tick to a stored candle: the validator and the normalizer that   *)
(* let a tick through, the aggregator that builds one-minute candles in    *)
(* memory, the historical service that buffers the closed ones and inserts *)
(* them in batches, and its shutdown. Higher timeframes are aggregated     *)
(* from the stored minutes when they are asked for.                        *)
(***************************************************************************)
EXTENDS MarketSymbols, Integers, Sequences, FiniteSets, SequencesExt, FiniteSetsExt, Functions

CONSTANTS
    Prices,
    Period,       \* length of the base timeframe
    MaxAge,       \* MAX_TICK_AGE_MS of the validator
    MaxFuture,    \* MAX_FUTURE_MS of the validator
    RepeatWindow, \* ticks of one price that are closer than this are duplicates
    BufferSize,   \* BUFFER_SIZE: candles that fill the buffer
    MaxTime,      \* bound on the clock
    MaxTicks      \* bound on the ticks let through

ASSUME CandleBounds ==
    /\ IsFiniteSet(Symbols) /\ Prices \subseteq Int
    /\ Period \in Nat \ {0} /\ BufferSize \in Nat \ {0}
    /\ MaxAge \in Nat /\ MaxFuture \in Nat /\ RepeatWindow \in Nat
    /\ MaxTime \in Nat /\ MaxTicks \in Nat

VARIABLES
    now,       \* the clock of this process
    lastTick,  \* lastTicks of the normalizer: per symbol, <<tick>> or <<>>
    builders,  \* per symbol, the candle that is built, or <<>>
    buffer,    \* candleBuffer: closed candles to save
    saving,    \* batches whose transaction is running
    saved,     \* the candles in market_prices, in the order of their insertion
    dropped,   \* candles of transactions that failed
    phase,     \* how far the shutdown is
    flushed,   \* how many batches the shutdown awaits
    accepted,  \* history: the ticks let through
    late       \* history: symbols and periods that a late tick disturbed

candleVars == <<now, lastTick, builders, buffer, saving, saved, dropped, phase, flushed, accepted, late>>

Times == 0..(MaxTime + MaxFuture)
Tick == [symbol : Symbols, last : Prices, timestamp : Times]
Candle == [symbol : Symbols, timestamp : Times, open : Prices, high : Prices,
           low : Prices, close : Prices, tickCount : Nat \ {0}]

\* getCandleStart
CandleStart(t, length) == (t \div length) * length

\* The period of the base timeframe that a time is in.
PeriodOf(t) == CandleStart(t, Period)

CandleTypeOK ==
    /\ now \in 0..MaxTime
    /\ lastTick \in [Symbols -> Seq(Tick)] /\ builders \in [Symbols -> Seq(Candle)]
    /\ \A s \in Symbols : Len(lastTick[s]) <= 1 /\ Len(builders[s]) <= 1
    /\ buffer \in Seq(Candle) /\ saved \in Seq(Candle) /\ dropped \in Seq(Candle)
    /\ saving \in Seq(Seq(Candle))
    /\ phase \in {"running", "stopping", "closing", "closed"}
    /\ flushed \in Nat
    /\ accepted \in Seq(Tick) /\ late \subseteq Symbols \X Times

CandleInit ==
    /\ now = 0
    /\ lastTick = [s \in Symbols |-> <<>>] /\ builders = [s \in Symbols |-> <<>>]
    /\ buffer = <<>> /\ saving = <<>> /\ saved = <<>> /\ dropped = <<>>
    /\ phase = "running" /\ flushed = 0
    /\ accepted = <<>> /\ late = {}

-----------------------------------------------------------------------------
(* Building and closing candles                                             *)

NewBuilder(t) ==
    [symbol |-> t.symbol, timestamp |-> PeriodOf(t.timestamp),
     open |-> t.last, high |-> t.last, low |-> t.last, close |-> t.last, tickCount |-> 1]

Larger(a, b) == IF a > b THEN a ELSE b
Smaller(a, b) == IF a < b THEN a ELSE b

Updated(b, t) ==
    [b EXCEPT !.high = Larger(@, t.last), !.low = Smaller(@, t.last),
              !.close = t.last, !.tickCount = @ + 1]

\* A closed candle is buffered, and a full buffer starts a batch.
BufferCandle(acc, c) ==
    IF Len(acc.buffer) + 1 >= BufferSize
    THEN [buffer |-> <<>>, saving |-> Append(acc.saving, Append(acc.buffer, c))]
    ELSE [acc EXCEPT !.buffer = Append(@, c)]

\* closeCandle for each of "closed" in turn.
Buffered(closed) == FoldLeft(BufferCandle, [buffer |-> buffer, saving |-> saving], closed)

Close(closed) == buffer' = Buffered(closed).buffer /\ saving' = Buffered(closed).saving

\* validateTick: not too far in the future, not too old.
Reasonable(t) == t.timestamp <= now + MaxFuture /\ t.timestamp >= now - MaxAge

\* The normalizer skips a tick with the price of the last one of its symbol, when the
\* times of the two are close, whichever is the earlier.
Duplicate(t) ==
    \E previous \in ToSet(lastTick[t.symbol]) :
        /\ previous.last = t.last
        /\ t.timestamp - previous.timestamp \in (1 - RepeatWindow)..(RepeatWindow - 1)

\* The periods that a tick disturbs: its own, when the clock, a newer tick or the stop
\* of the aggregator has left it behind, and then also the newest one, whose candle it closes.
Disturbed(t) ==
    LET start == PeriodOf(t.timestamp)
        newer == {PeriodOf(accepted[i].timestamp) :
                    i \in {j \in DOMAIN accepted : /\ accepted[j].symbol = t.symbol
                                                  /\ PeriodOf(accepted[j].timestamp) > start}}
    IN  IF newer # {} THEN {t.symbol} \X {start, Max(newer)}
        ELSE IF start < PeriodOf(now) \/ phase = "closing" THEN {<<t.symbol, start>>}
        ELSE {}

\* A tick goes through to processTick. Sources that were stopped may still deliver one.
Receive(t) ==
    /\ phase # "closed"
    /\ Reasonable(t) /\ ~Duplicate(t)
    /\ lastTick' = [lastTick EXCEPT ![t.symbol] = <<t>>]
    /\ accepted' = Append(accepted, t)
    /\ late' = late \cup Disturbed(t)
    /\ LET b == builders[t.symbol]
           same == b # <<>> /\ b[1].timestamp = PeriodOf(t.timestamp)
       IN  /\ builders' = [builders EXCEPT ![t.symbol] =
                             IF same THEN <<Updated(b[1], t)>> ELSE <<NewBuilder(t)>>]
           /\ Close(IF same THEN <<>> ELSE b)
    /\ UNCHANGED <<now, saved, dropped, phase, flushed>>

\* The builders of a set of symbols close, in any order.
CloseAll(S) ==
    /\ \E order \in SetToSeqs(S) : Close([i \in DOMAIN order |-> builders[order[i]][1]])
    /\ builders' = [s \in Symbols |-> IF s \in S THEN <<>> ELSE builders[s]]

Building == {s \in Symbols : builders[s] # <<>>}

Completed == {s \in Building : builders[s][1].timestamp < PeriodOf(now)}

\* A plausible slip: the period of now counts as complete.
FlushCurrentCandles ==
    /\ phase \in {"running", "stopping"}
    /\ LET S == {s \in Building : builders[s][1].timestamp <= PeriodOf(now)}
       IN  S # {} /\ CloseAll(S)
    /\ UNCHANGED <<now, lastTick, saved, dropped, phase, flushed, accepted, late>>

\* A plausible slip: the builder of a closed candle is not deleted.
FlushAndKeep ==
    /\ phase \in {"running", "stopping"}
    /\ Completed # {}
    /\ \E order \in SetToSeqs(Completed) : Close([i \in DOMAIN order |-> builders[order[i]][1]])
    /\ UNCHANGED <<now, lastTick, builders, saved, dropped, phase, flushed, accepted, late>>

\* The timer of the aggregator: flushCompletedCandles.
FlushCompletedCandles ==
    /\ phase \in {"running", "stopping"}
    /\ Completed # {} /\ CloseAll(Completed)
    /\ UNCHANGED <<now, lastTick, saved, dropped, phase, flushed, accepted, late>>

-----------------------------------------------------------------------------
(* Saving                                                                   *)

\* flushBuffer takes what is buffered before it awaits the transaction.
StartBatch == buffer' = <<>> /\ saving' = IF buffer = <<>> THEN saving ELSE Append(saving, buffer)

\* The timer of the service.
FlushBuffer ==
    /\ phase = "running" /\ buffer # <<>>
    /\ StartBatch
    /\ UNCHANGED <<now, lastTick, builders, saved, dropped, phase, flushed, accepted, late>>

\* What happens to the shutdown's batch when batch i has ended: it waits for the one
\* at position "flushed", 0 when there is none.
Awaited(i) == flushed' = IF flushed = i THEN 0 ELSE IF flushed > i THEN flushed - 1 ELSE flushed

Commit(i) ==
    /\ saved' = saved \o saving[i]
    /\ saving' = RemoveAt(saving, i)
    /\ Awaited(i)
    /\ UNCHANGED <<now, lastTick, builders, buffer, dropped, phase, accepted, late>>

\* saveCandleBatch logs a failure and forgets the batch.
Fail(i) ==
    /\ dropped' = dropped \o saving[i]
    /\ saving' = RemoveAt(saving, i)
    /\ Awaited(i)
    /\ UNCHANGED <<now, lastTick, builders, buffer, saved, phase, accepted, late>>

-----------------------------------------------------------------------------
(* Shutdown and time                                                        *)

\* stop() of the service ends the timer of the buffer and flushes it first ...
StopService ==
    /\ phase = "running"
    /\ phase' = "stopping"
    /\ StartBatch
    /\ flushed' = IF buffer = <<>> THEN 0 ELSE Len(saving) + 1
    /\ UNCHANGED <<now, lastTick, builders, saved, dropped, accepted, late>>

\* ... and, when that batch has ended, stops the aggregator, which closes what it builds ...
StopAggregator ==
    /\ phase = "stopping" /\ flushed = 0
    /\ phase' = "closing"
    /\ CloseAll(Building)
    /\ UNCHANGED <<now, lastTick, saved, dropped, flushed, accepted, late>>

\* ... and closes the database, which waits for the transactions that run.
CloseDatabase ==
    /\ phase = "closing" /\ saving = <<>>
    /\ phase' = "closed"
    /\ UNCHANGED <<now, lastTick, builders, buffer, saving, saved, dropped, flushed, accepted, late>>

Advance ==
    /\ now < MaxTime /\ phase = "running"
    /\ now' = now + 1
    /\ UNCHANGED <<lastTick, builders, buffer, saving, saved, dropped, phase, flushed, accepted, late>>

CandleNext ==
    \/ \E t \in Tick : Len(accepted) < MaxTicks /\ Receive(t)
    \/ FlushCompletedCandles \/ FlushBuffer
    \/ \E i \in DOMAIN saving : Commit(i) \/ Fail(i)
    \/ StopService \/ StopAggregator \/ CloseDatabase
    \/ Advance

CandleSpec == CandleInit /\ [][CandleNext]_candleVars

-----------------------------------------------------------------------------
(* What the candles should say                                              *)

Merged(a, c) ==
    [a EXCEPT !.high = Larger(@, c.high), !.low = Smaller(@, c.low),
              !.close = c.close, !.tickCount = @ + c.tickCount]

\* A candle goes into the last one of its longer period, or starts one.
AddCandle(acc, c, start) ==
    IF acc # <<>> /\ Last(acc).timestamp = start
    THEN Append(Front(acc), Merged(Last(acc), c))
    ELSE Append(acc, [c EXCEPT !.timestamp = start])

\* aggregateCandles: consecutive candles of one longer period become one.
Aggregate(candles, longer) ==
    FoldLeft(LAMBDA acc, c : AddCandle(acc, c, CandleStart(c.timestamp, longer)), <<>>, candles)

\* The rows of a symbol from one time to before another.
Rows(s, from, to) ==
    {i \in DOMAIN saved : saved[i].symbol = s /\ from <= saved[i].timestamp /\ saved[i].timestamp < to}

\* The answers queryCandles may give: the first "limit" of these rows by time; rows of
\* one time come in any order.
Query(s, from, to, limit) ==
    LET sorted(f) == \A m, n \in DOMAIN f : m < n => saved[f[m]].timestamp <= saved[f[n]].timestamp
    IN  {[n \in 1..Smaller(limit, Len(f)) |-> saved[f[n]]] :
            f \in {g \in SetToSeqs(Rows(s, from, to)) : sorted(g)}}

\* getCandles of the timeframe of two base periods: it asks for twice as many minutes, of
\* the same range, and aggregates them.
GetCandles(s, from, to, limit) ==
    {Aggregate(minutes, 2 * Period) : minutes \in Query(s, from, to, 2 * limit)}

\* The positions in "accepted" of the ticks of a symbol in a period.
TicksOf(s, start, length) ==
    {i \in DOMAIN accepted : accepted[i].symbol = s /\ CandleStart(accepted[i].timestamp, length) = start}

\* The candle that the ticks at these positions make, by definition.
CandleOf(s, start, ticks) ==
    LET prices == {accepted[i].last : i \in ticks}
    IN  [symbol |-> s, timestamp |-> start,
         open |-> accepted[Min(ticks)].last, close |-> accepted[Max(ticks)].last,
         high |-> Max(prices), low |-> Min(prices), tickCount |-> Cardinality(ticks)]

\* Where a candle of a symbol may be: stored, dropped by a failed insert, buffered,
\* being built, or in a batch that is being saved; and its place there.
Shelves(s) == <<saved, dropped, buffer, builders[s]>> \o saving

CandleAt(s, p) == Shelves(s)[p[1]][p[2]]

Places(s, start) ==
    {p \in UNION {{h} \X DOMAIN Shelves(s)[h] : h \in DOMAIN Shelves(s)} :
        CandleAt(s, p).symbol = s /\ CandleAt(s, p).timestamp = start}

Starts(length) == {CandleStart(t, length) : t \in Times}

\* No longer period that starts by the last time ends after this.
MaxTo == MaxTime + MaxFuture + 2 * Period

\* No tick is lost or counted twice on its way: the candles of a period that are
\* built, buffered, being saved, stored or dropped by a failed insert count exactly
\* the ticks of that period that processTick received.
EveryTickCounted ==
    \A s \in Symbols, start \in Starts(Period) :
        SumFunctionOnSet([p \in Places(s, start) |-> CandleAt(s, p).tickCount], Places(s, start))
            = Cardinality(TicksOf(s, start, Period))

\* A period that no late tick disturbed (one that came when the clock, a newer tick or
\* the shutdown had left its period) has one candle, with open, high, low and close as in
\* its ticks; and when the minutes of a longer period are such and stored, getCandles
\* makes one candle of it, that of all its ticks, whenever the range that was asked for
\* holds the whole period and no more rows up to its end than the query may return.  (A
\* period at the edge of the range, as the first one of getRecentCandles is, or at the
\* limit is cut short.)
OneCandlePerPeriod ==
    \A s \in Symbols, start \in Starts(Period) :
        LET ticks == TicksOf(s, start, Period)
        IN  ticks # {} /\ <<s, start>> \notin late
               => \E p \in Places(s, start) : /\ Places(s, start) = {p}
                                             /\ CandleAt(s, p) = CandleOf(s, start, ticks)

AggregatesTellTicks ==
    \A s \in Symbols, start \in Starts(2 * Period) :
        LET end == start + 2 * Period
            ticks == TicksOf(s, start, 2 * Period)
            minutes == {p \in {start, start + Period} : TicksOf(s, p, Period) # {}}
        IN  /\ ticks # {}
            /\ \A p \in minutes : /\ <<s, p>> \notin late
                                  /\ \E i \in DOMAIN saved : saved[i].symbol = s /\ saved[i].timestamp = p
            => \A from \in 0..start, to \in end..MaxTo, limit \in 1..MaxTicks :
                  Cardinality(Rows(s, from, end)) <= 2 * limit =>
                     \A candles \in GetCandles(s, from, to, limit) :
                        \E n \in DOMAIN candles :
                           /\ candles[n] = CandleOf(s, start, ticks)
                           /\ \A m \in DOMAIN candles : candles[m].timestamp = start => m = n

CandlesTellTicks == OneCandlePerPeriod /\ AggregatesTellTicks

\* The shutdown sequence in the header of index.ts: "2. Flush remaining candles to DB".
\* When the service has stopped, no candle is left in memory.
RemainingAreFlushed == phase = "closed" => Building = {} /\ buffer = <<>>
=============================================================================
