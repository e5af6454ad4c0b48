--------------------------- MODULE CandleRequests ---------------------------
(***************************************************************************)
(* What a client asks for: parse_candle_request and the windows of         *)
(* CandleService (src/app/services/candles.py) and the historical price    *)
(* (src/app/services/historical_prices.py).                                *)
(***************************************************************************)
EXTENDS CandleSchedules

CONSTANTS
  MaxCandles,    \* MAX_CANDLES_PER_REQUEST
  Resolutions    \* HISTORICAL_PRICE_RESOLUTIONS: timeframes, from fine to coarse

(* Of a raw parameter that is a time or a number: not given, or not one.   *)
Absent == -1
Malformed == -2

Given(v) == v # Absent
Error(code) == [error |-> code]

Request(mode, n, direction, s, e) ==
  [error |-> "", mode |-> mode, n |-> n, direction |-> direction, start |-> s, end |-> e]

(* Mutant of TooLong: a part of a candle is not counted.                   *)
TooLongFloor(sch, s, e) == ~sch.month /\ (e - s) \div sch.duration > MaxCandles

TooLong(sch, s, e) == ConservativeCount(sch, s, e) > MaxCandles

(* parse_candle_request.                                                   *)
ParseRequest(raw, sch, now) ==
  LET mode == IF Given(raw.count) THEN "count" ELSE IF Given(raw.limit) THEN "limit" ELSE "range"
      n    == IF mode = "count" THEN raw.count ELSE raw.limit
      end  == IF Given(raw.to) THEN raw.to ELSE now
      invalid == Error("INVALID_TIME_RANGE")
  IN
  IF Given(raw.before) THEN invalid
  ELSE IF raw.symbol = "" THEN Error("UNSUPPORTED_SYMBOL")
  ELSE IF raw.timeframe \notin Timeframes THEN Error("UNSUPPORTED_TIMEFRAME")
  ELSE IF Given(raw.limit) /\ Given(raw.count) THEN invalid
  ELSE IF mode # "range" /\ (n \notin 1 .. MaxCandles \/ (Given(raw.from) /\ Given(raw.to))) THEN invalid
  ELSE IF mode # "range" /\ Given(raw.from)
       THEN IF raw.from = Malformed THEN invalid ELSE Request(mode, n, "forward", raw.from, raw.from)
  ELSE IF end = Malformed THEN invalid
  ELSE IF mode # "range" THEN Request(mode, n, "backward", end, end)
  ELSE IF raw.from < 0 \/ end <= raw.from \/ TooLong(sch, raw.from, end) THEN invalid
  ELSE Request("range", 0, "range", raw.from, end)

(* The opens a request of _get_candles expects, and the range it reads.    *)
Window(req, sch, El) ==
  LET opens == IF req.mode = "range" THEN ExpectedOpens(sch, req.start, req.end, El)
               ELSE IF req.direction = "forward" THEN NextOpens(sch, req.start, req.n, El)
               ELSE LatestOpens(sch, req.end, req.n, El)
  IN  [opens |-> opens,
       start |-> IF req.mode = "range" THEN req.start ELSE Head(opens),
       end   |-> IF req.direction = "forward" THEN EndAfter(sch, Last(opens)) ELSE req.end]

-----------------------------------------------------------------------------
(* The candles of get_candles(limit=2, to=at) at one resolution, when      *)
(* upstream has those of the set has.                                      *)
LatestTwo(sch, at, has, El) == ToSet(LatestOpens(sch, at, 2, El)) \cap has

(* Mutant of PricedBy: any candle that opened before at may price it.      *)
PricedByOpen(sch, at, opens) == opens

(* The candles that had closed at the instant asked for.                   *)
PricedBy(sch, at, opens) == {o \in opens : CloseTime(sch, o) <= at}

(* The candles of the i-th resolution that may price the instant: has[tf]  *)
(* is what upstream has, El[tf] what the policy lets through.              *)
Eligible(schedules, at, has, El, i) ==
  LET tf == Resolutions[i]
  IN  PricedBy(schedules[tf], at, LatestTwo(schedules[tf], at, has[tf], El[tf]))

(* get_historical_price: the first resolution that has a closed candle,    *)
(* failing the resolutions that fail.                                      *)
HistoricalPrice(schedules, at, now, has, failing, El) ==
  LET eligible(i) == Eligible(schedules, at, has, El, i)
      try[i \in 1 .. Len(Resolutions) + 1] ==
        IF i > Len(Resolutions) THEN Error("PRICE_NOT_FOUND")
        ELSE IF Resolutions[i] \in failing THEN Error("PROVIDER_UNAVAILABLE")
        ELSE IF eligible(i) = {} THEN try[i + 1]
        ELSE [error |-> "", resolution |-> Resolutions[i], pricedAt |-> Max(eligible(i))]
  IN  IF at > now THEN Error("INVALID_TIME_RANGE") ELSE try[1]
=============================================================================
