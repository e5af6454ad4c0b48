-------------------------- MODULE CandleProviders --------------------------
(***************************************************************************)
(* What the REST providers make of an answer from upstream:                *)
(* src/app/providers/twelvedata_market_data.py, yfinance_market_data.py    *)
(* and binance_spot.py.  An answer to the caller is a set of candles, by   *)
(* their opens, or prices, or ProviderUnavailableError.                    *)
(*                                                                         *)
(* A row of a payload has an open time, or none that parses, and its value *)
(* is "good", "invalid" (a number is missing or does not parse) or         *)
(* "bounds" (high and low do not enclose open and close).                  *)
(***************************************************************************)
EXTENDS CandleSchedules

Unparsable == -1

Unavailable == [ok |-> FALSE, opens |-> {}]
Candles(opens) == [ok |-> TRUE, opens |-> opens]

(* Mutant of InWindow: the end of a window is one of its opens.            *)
InWindowClosed(row, s, e) == row.open \in s .. e

InWindow(row, s, e) == row.open \in s .. e - 1

-----------------------------------------------------------------------------
(* _normalize_time_series: rows outside the window or the session are      *)
(* passed over, and any other row must be sound and new.                   *)
TakeRow(answer, row, s, e, El) ==
  IF ~answer.ok \/ row.open = Unparsable THEN Unavailable
  ELSE IF ~InWindow(row, s, e) \/ row.open \notin El THEN answer
  ELSE IF row.open \in answer.opens \/ row.value # "good" THEN Unavailable
  ELSE Candles(answer.opens \cup {row.open})

NormalizeTimeSeries(rows, s, e, El) ==
  LET read[i \in 0 .. Len(rows)] ==
        IF i = 0 THEN Candles({}) ELSE TakeRow(read[i - 1], rows[i], s, e, El)
  IN  read[Len(rows)]

(* fetch_candles.                                                          *)
TwelveDataCandles(supported, outcome, rows, s, e, El) ==
  IF ~supported \/ outcome \notin {"no data", "rows"} THEN Unavailable
  ELSE IF outcome = "no data" THEN Candles({}) ELSE NormalizeTimeSeries(rows, s, e, El)

(* last_open_before: Twelve Data takes the last open, not the end.         *)
LastOpenBefore(sch, e) ==
  IF sch.month
  THEN LET start == MonthStart[MonthOf(e)] IN IF start >= e THEN AddMonth(start, -1) ELSE start
  ELSE e - sch.duration

-----------------------------------------------------------------------------
(* Yahoo, _normalize_history: a row that violates the OHLC bounds is       *)
(* quarantined, unless there would be no candle left.                      *)
Refused == [ok |-> FALSE, opens |-> {}, seen |-> {}]

TakeHistoryRow(read, row, s, e) ==
  IF ~read.ok \/ row.open = Unparsable THEN Refused
  ELSE IF ~InWindow(row, s, e) THEN read
  ELSE IF row.open \in read.seen \/ row.value = "invalid" THEN Refused
  ELSE [ok |-> TRUE, seen |-> read.seen \cup {row.open},
        opens |-> IF row.value = "good" THEN read.opens \cup {row.open} ELSE read.opens]

NormalizeHistory(rows, s, e) ==
  LET read[i \in 0 .. Len(rows)] ==
        IF i = 0 THEN [ok |-> TRUE, opens |-> {}, seen |-> {}]
        ELSE TakeHistoryRow(read[i - 1], rows[i], s, e)
      all == read[Len(rows)]
  IN  IF ~all.ok \/ (all.opens = {} /\ all.seen # {}) THEN Unavailable ELSE Candles(all.opens)

(* fetch_candles: one request per range Yahoo accepts; a window of which   *)
(* one part fails is lost, and so is one of which a part is all invalid.   *)
YFinanceCandles(supported, ranges, outcome, payloads) ==
  LET parts == {NormalizeHistory(payloads[i], ranges[i].start, ranges[i].end) : i \in DOMAIN ranges} IN
  IF ~supported \/ outcome # "rows" \/ (\E p \in parts : ~p.ok) THEN Unavailable
  ELSE Candles(UNION {p.opens : p \in parts})

-----------------------------------------------------------------------------
(* Binance, _normalize_klines: any row that is not exactly a candle of the *)
(* window makes the whole answer invalid.                                  *)
NormalizeKlines(rows, s, e) ==
  IF /\ \A i \in DOMAIN rows : InWindow(rows[i], s, e) /\ rows[i].value = "good"
     /\ Cardinality({row.open : row \in ToSet(rows)}) = Len(rows)
  THEN Candles({row.open : row \in ToSet(rows)})
  ELSE Unavailable

BinanceCandles(outcome, rows, s, e) ==
  IF outcome # "rows" THEN Unavailable ELSE NormalizeKlines(rows, s, e)

-----------------------------------------------------------------------------
(* fetch_latest_prices.  Upstream has answered with a sequence of items    *)
(* (Binance) or for each symbol (the others), "good" or not.               *)
Batch(prices, requested) == [prices |-> prices, unavailable |-> requested \ prices]

TwelveDataPrices(requested, supported, good) == Batch((requested \cap supported) \cap good, requested)

YFinancePrices(requested, supported, good) ==
  LET asked == requested \cap supported
  IN  [prices |-> asked \cap good, unavailable |-> (requested \ supported) \cup (asked \ good)]

(* A symbol that Binance has priced twice is unavailable.                  *)
TakeItem(batch, item, requested) ==
  IF item.symbol \notin requested THEN batch
  ELSE IF item.symbol \in batch.prices \cup batch.unavailable \/ ~item.good
       THEN [prices |-> batch.prices \ {item.symbol}, unavailable |-> batch.unavailable \cup {item.symbol}]
  ELSE [batch EXCEPT !.prices = @ \cup {item.symbol}]

BinancePrices(requested, items) ==
  LET read[i \in 0 .. Len(items)] ==
        IF i = 0 THEN [prices |-> {}, unavailable |-> {}] ELSE TakeItem(read[i - 1], items[i], requested)
      all == read[Len(items)]
  IN  [all EXCEPT !.unavailable = @ \cup (requested \ all.prices)]

=============================================================================
