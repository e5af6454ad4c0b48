-------------------------- MODULE CandleFunctions --------------------------
(***************************************************************************)
(* The pure functions of the candle service, each compared with what it is *)
(* for on every input of a bounded set.  A behaviour is one input.         *)
(***************************************************************************)
EXTENDS MarketSessions, CandleRequests, CandleProviders

CONSTANTS
  Symbols,     \* rows of the registry, one per policy and schedule
  Instants,    \* the instants at which a grid is asked for its opens
  MaxRows      \* the rows of a provider's answer, at most

VARIABLE input

(* The resolutions of a historical price are whole candles of a grid, and  *)
(* no candle is a single tick.                                             *)
ASSUME InputsAssumption ==
  /\ Day >= 48 /\ Instants \subseteq Int /\ MaxCandles \in Nat /\ MaxRows \in Nat
  /\ Resolutions \in Seq(Timeframes \ {"1mo"})
  /\ \A i \in DOMAIN Resolutions : Duration(Resolutions[i]) > 1

Hours == FixedSchedule(Hour, 0)
Months == [FixedSchedule(31 * Day, 0) EXCEPT !.month = TRUE]

(* The first n opens of a schedule.                                        *)
Grid(sch, n) == IF sch.month THEN {MonthStart[i] : i \in 0 .. n - 1}
                             ELSE {sch.offset + i * sch.duration : i \in 0 .. n - 1}

(* All of the opens of a grid that counts from EPOCH.                      *)
Multiples(duration) == {t \in Int : t % duration = 0}

(* The opens of the grid around an instant at which the symbol trades.     *)
Reach(tf) == CASE tf = "1mo" -> 2 [] tf = "1w" -> 3 [] OTHER -> (5 * Day) \div Duration(tf)
OpensAround(symbol, tf, t) ==
  LET sch   == CandleSchedule(symbol, tf)
      steps == -Reach(tf) .. Reach(tf)
      grid  == IF sch.month THEN {MonthStart[MonthOf(t) + k] : k \in steps}
                            ELSE {FirstOpen(sch, t) + k * sch.duration : k \in steps}
  IN  {o \in grid : IsEligible(symbol, o, tf)}

RawTimes == {Absent, Malformed, 13, 14, 19, 20, 21}
RawNumbers == {Absent, Malformed, 0, 1, 3, 4}
Rows == [open : {Unparsable} \cup 1 .. 5, value : {"good", "invalid", "bounds"}]
RawRequests == [from : RawTimes, to : RawTimes, limit : RawNumbers, count : RawNumbers,
                before : {Absent, 4}, symbol : {"", "BTC/USD"}, timeframe : {"1h", "2h"}]
Items == [symbol : {"a", "b", "x"}, good : BOOLEAN]

(* The candles of these slots at each resolution, from that of at back.    *)
Slots == [ToSet(Resolutions) -> SUBSET (0 .. 2)]
CandlesIn(slots, at) ==
  [tf \in ToSet(Resolutions) |-> {at - (at % Duration(tf)) - i * Duration(tf) : i \in slots[tf]}]

PastInputs ==
  {[kind |-> "past", at |-> at, now |-> at - early, failing |-> failing, has |-> CandlesIn(slots, at)] :
   at \in {95, 96, 97, 103, 104}, early \in {0, 1}, failing \in SUBSET ToSet(Resolutions), slots \in Slots}

InitGrid == \E symbol \in Symbols, tf \in Timeframes, t \in Instants :
  input = [kind |-> "grid", symbol |-> symbol, tf |-> tf, at |-> t]
InitGaps == \E sch \in {Hours, Months}, El \in SUBSET Grid(Hours, 6), have \in SUBSET (0 .. 5) :
  input = [kind |-> "gaps", sch |-> sch, have |-> have,
           El |-> IF sch.month THEN {MonthStart[t \div Hour] : t \in El} ELSE El]
InitChunks == \E s \in 0 .. 5, length \in 0 .. 9, n \in 1 .. 3 :
  \/ input = [kind |-> "chunks", sch |-> Hours, start |-> s, end |-> s + length, n |-> n]
  \/ input = [kind |-> "chunks", sch |-> Months, n |-> n,
              start |-> (25 + 2 * s) * Day, end |-> (25 + 2 * s + 11 * length) * Day]
InitParse == \E raw \in RawRequests : input = [kind |-> "parse", raw |-> raw]
InitRows == \E rows \in BoundedSeq(Rows, MaxRows), outcome \in {"rows", "failed", "no data"}, supported \in BOOLEAN :
  /\ outcome = "rows" \/ rows = <<>>
  /\ input = [kind |-> "rows", rows |-> rows, outcome |-> outcome, supported |-> supported]
InitPrices == \E requested \in SUBSET {"a", "b", "c"} :
  \/ \E items \in BoundedSeq(Items, 3) :
       input = [kind |-> "items", requested |-> requested, items |-> items]
  \/ \E supported, good \in SUBSET {"a", "b", "c"} :
       input = [kind |-> "prices", requested |-> requested, supported |-> supported, good |-> good]
InitPast == input \in PastInputs

InputInit == InitGrid \/ InitGaps \/ InitChunks \/ InitParse \/ InitRows \/ InitPrices \/ InitPast

InputNext == UNCHANGED input

InputSpec == InputInit /\ [][InputNext]_input

OfKind(kind) == input.kind = kind

-----------------------------------------------------------------------------
(* latest_opens and next_opens loop until they have found enough opens:    *)
(* for every row of the registry and every timeframe the grid of the       *)
(* schedule and the hours of the market must meet, before and after any    *)
(* instant, or the request never returns (candle_schedules.py:85, :100).   *)
EveryScheduleTrades ==
  OfKind("grid") => LET around == OpensAround(input.symbol, input.tf, input.at) IN
                (\E o \in around : o < input.at) /\ (\E o \in around : o >= input.at)

(* The opens of the grid nearest to an instant, in order and without a     *)
(* gap, are the ones the loops return, and expected_opens is the part of   *)
(* the grid between two of them (candle_schedules.py:59-104, :163-201).    *)
OpensAreExact ==
  OfKind("grid") =>
    LET sch    == CandleSchedule(input.symbol, input.tf)
        around == OpensAround(input.symbol, input.tf, input.at)
        before == {o \in around : o < input.at}
        after  == {o \in around : o >= input.at}
        latest == LatestOpens(sch, input.at, 2, around)
        next   == NextOpens(sch, input.at, 2, around)
        both   == latest \o next
    IN  Cardinality(before) >= 2 /\ Cardinality(after) >= 2 =>
        /\ \A i \in 1 .. 3 : both[i] < both[i + 1]
        /\ {o \in around : o >= both[1] /\ o <= both[4]} = ToSet(both)
        /\ both[2] < input.at /\ input.at <= both[3]
        /\ ExpectedOpens(sch, both[1], EndAfter(sch, both[4]), around) = both

(* The sections that are fetched cover the missing opens, each once, and   *)
(* no open that is there already; the window each provider is asked for,   *)
(* with its own idea of an end, holds exactly the opens of the section     *)
(* (candle_schedules.py:109, :206, twelvedata_market_data.py:262,          *)
(* binance_spot.py:184).                                                   *)
SectionsAreExact ==
  OfKind("gaps") =>
    LET have     == {IF input.sch.month THEN MonthStart[i] ELSE i * Hour : i \in input.have}
        expected == ExpectedOpens(input.sch, 0, Step(input.sch, 0, 6), input.El)
        sections == FindGaps(input.sch, have, expected, {})
        opens(i) == {o \in input.El : sections[i].start <= o /\ o < sections[i].end}
    IN  /\ UNION {opens(i) : i \in DOMAIN sections} = input.El \ have
        /\ \A i, j \in DOMAIN sections : i < j => sections[i].end < sections[j].start
        /\ \A i \in DOMAIN sections :
             /\ Cardinality(opens(i)) = sections[i].count
             /\ opens(i) = {o \in input.El : sections[i].start <= o
                                             /\ o <= LastOpenBefore(input.sch, sections[i].end)}
             /\ Grid(input.sch, 7) \cap (sections[i].start .. sections[i].end - 1) = opens(i)

(* The chunks of a backfill and the ranges of a Yahoo request follow each  *)
(* other from the start to the end, months of any length included, and no  *)
(* chunk has more opens than a request may have (backfill_candles.py:100,  *)
(* yfinance_market_data.py:366, candles.py:282).                           *)
ChunksAreExact ==
  OfKind("chunks") =>
    LET Follow(parts) ==
          /\ parts # <<>> <=> input.start < input.end
          /\ \A i \in DOMAIN parts : /\ parts[i].start < parts[i].end
                                     /\ parts[i].start = (IF i = 1 THEN input.start ELSE parts[i - 1].end)
          /\ parts # <<>> => Last(parts).end = input.end
        chunks == Chunks(input.sch, input.start, input.end, input.n)
    IN  /\ Follow(chunks)
        /\ Follow(HistoryRanges(input.start, input.end, (input.n - 1) * input.sch.duration))
        /\ \A c \in ToSet(chunks) :
             Len(ExpectedOpens(input.sch, c.start, c.end, Grid(input.sch, 30))) <= input.n

(* A request that is accepted is in one mode, and never has more opens     *)
(* than a request may have: the second check, after the symbol and its     *)
(* schedule are known, does not fail (candles.py:36, :164, :282).          *)
AcceptedFits ==
  OfKind("parse") =>
    LET raw == input.raw
        req == ParseRequest(raw, Hours, 17)
        opens == Window(req, Hours, Multiples(Hour)).opens
    IN  req.error = "" =>
          /\ (Given(raw.limit) \/ Given(raw.count)) => ~(Given(raw.from) /\ Given(raw.to))
          /\ Len(opens) <= MaxCandles
          /\ req.mode # "range" => Len(opens) = req.n
          /\ \A o \in ToSet(opens) : IF req.direction = "backward" THEN o < req.end ELSE o >= req.start

(* What a provider makes of an answer has only sound rows of the window,   *)
(* all of those, and none from an answer with the same open twice; and a   *)
(* quote batch splits what was asked for into prices that are beyond doubt *)
(* and unavailable symbols (twelvedata_market_data.py:490,                 *)
(* yfinance_market_data.py:411, binance_spot.py:118, :359).                *)
AnswersAreSound ==
  /\ OfKind("rows") =>
       LET rows   == input.rows
           inside == {i \in DOMAIN rows : rows[i].open \in 2 .. 4}
           good   == {rows[i].open : i \in {j \in inside : rows[j].value = "good"}}
           half   == [i \in 1 .. 2 |-> rows]
           Sound(answer) == answer.ok => /\ answer.opens = good
                                         /\ Cardinality({rows[i].open : i \in inside}) = Cardinality(inside)
       IN  /\ Sound(TwelveDataCandles(input.supported, input.outcome, rows, 2, 5, 0 .. 9))
           /\ Sound(BinanceCandles(input.outcome, rows, 2, 5))
           /\ Sound(YFinanceCandles(input.supported, HistoryRanges(2, 5, 2), input.outcome, half))
  /\ OfKind("items") =>
       LET batch == BinancePrices(input.requested, input.items)
           of(x) == {i \in DOMAIN input.items : input.items[i].symbol = x}
       IN  /\ batch.prices = {x \in input.requested : \E i \in of(x) : of(x) = {i} /\ input.items[i].good}
           /\ batch.unavailable = input.requested \ batch.prices
  /\ OfKind("prices") =>
       LET priced == (input.requested \cap input.supported) \cap input.good IN
       /\ TwelveDataPrices(input.requested, input.supported, input.good) = Batch(priced, input.requested)
       /\ YFinancePrices(input.requested, input.supported, input.good) = Batch(priced, input.requested)

(* A historical price is that of a candle which had closed at the instant  *)
(* asked for, the last such one in the two slots of its resolution; a      *)
(* finer resolution neither had one nor failed: a failure is not hidden by *)
(* a coarser resolution (historical_prices.py:77-107).                     *)
NeverLooksAhead ==
  OfKind("past") =>
    LET sch   == [tf \in ToSet(Resolutions) |-> FixedSchedule(Duration(tf), 0)]
        all   == [tf \in ToSet(Resolutions) |-> Multiples(Duration(tf))]
        price == HistoricalPrice(sch, input.at, input.now, input.has, input.failing, all)
        closed(tf) == {o \in input.has[tf] : o + Duration(tf) - 1 <= input.at /\ o + 2 * Duration(tf) >= input.at}
    IN  price.error = "" => \E used \in DOMAIN Resolutions :
          /\ price.resolution = Resolutions[used]
          /\ price.pricedAt \in closed(price.resolution)
          /\ \A o \in closed(price.resolution) : o <= price.pricedAt
          /\ \A i \in 1 .. used - 1 : closed(Resolutions[i]) = {}
          /\ \A i \in 1 .. used : Resolutions[i] \notin input.failing
=============================================================================
