------------------------- MODULE MCCandleFunctions -------------------------
EXTENDS CandleFunctions

(* Half-hour ticks.  The weekend is that of 8 March 1970, 2:00 in New York *)
(* on day 66 being the instant at which the clocks move.                   *)
MCDay == 48
MCDstStart == 66 * 48 + 14

(* A calendar with sessions on weekdays but one, from and to ticks of the  *)
(* wall clock of New York relative to the midnight that begins the date.   *)
MCSessions(from, to, breakFrom, breakTo, holiday) ==
  LET utc(day, tick) == day * 48 + tick + (IF day < 66 THEN 10 ELSE 8) IN
  {[date |-> d, open |-> utc(d, from), close |-> utc(d, to),
    breakStart |-> utc(d, breakFrom), breakEnd |-> utc(d, breakTo)] :
   d \in {day \in (50 .. 80) \cup {4, 32, 92, 123} : (day + 3) % 7 < 5 /\ day # holiday}}

MCCalendars ==
  "NYSE" :> MCSessions(19, 32, 0, 0, 64) @@
  "CMEGlobex_Energy" :> MCSessions(-12, 34, 0, 0, 67) @@
  "CMEGlobex_Grains" :> MCSessions(-8, 29, 18, 19, 67)

MCSymbol(symbol, class, provider, providerSymbol, source, calendar) ==
  [symbol |-> symbol, asset_class |-> class, provider |-> provider,
   provider_symbol |-> providerSymbol, calendar_source |-> source, calendar_name |-> calendar]

MCSymbols == {
  MCSymbol("BTC/USD", "CRYPTO", "BINANCE_SPOT", "BTCUSDT", "internal", "24/7"),
  MCSymbol("EUR/USD", "FOREX", "TWELVE_DATA", "EUR/USD", "pandas", "FOREX"),
  MCSymbol("XAU/USD", "COMMODITY", "TWELVE_DATA", "XAU/USD", "pandas", "OTHER"),
  MCSymbol("SPY", "ETF", "TWELVE_DATA", "SPY", "pandas", "NYSE"),
  MCSymbol("SPY", "ETF", "YFINANCE", "SPY", "pandas", "NYSE"),
  MCSymbol("SPY", "ETF", "TWELVE_DATA", "SPY", "", ""),
  MCSymbol("WTI", "COMMODITY", "TWELVE_DATA", "WTI", "pandas", "CMEGlobex_Energy"),
  MCSymbol("WTI", "COMMODITY", "TWELVE_DATA", "WTI", "", ""),
  MCSymbol("AUD/USD", "FOREX", "YFINANCE", "AUDUSD=X", "", ""),
  MCSymbol("CORN", "COMMODITY", "YFINANCE", "ZC=F", "pandas", "CMEGlobex_Grains")}

(* From Thursday to Tuesday, at instants that drift through the hours.     *)
MCInstants == {63 * 48 + 41 * i : i \in 0 .. 5}

MCResolutions == <<"1h", "4h", "1d">>
=============================================================================
