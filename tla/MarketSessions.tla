--------------------------- MODULE MarketSessions ---------------------------
(***************************************************************************)
(* src/app/domain/market_sessions.py: which candle opens are eligible.     *)
(***************************************************************************)
EXTENDS CandleSchedules

CONSTANTS
  DstStart,     \* the tick at which New York moves its clocks to UTC-4
  Calendars     \* the calendars of the library: [names -> sets of sessions]

(* zoneinfo: the wall clock of New York.                                   *)
NewYork(t) == t - ((IF t < DstStart THEN 5 ELSE 4) * Hour)

(* datetime.weekday(), Monday = 0; EPOCH was a Thursday.                   *)
Weekday(t) == ((t \div Day) + 3) % 7

At(hour, minute) == hour * Hour + (minute * Hour) \div 60
TimeOfDay(t) == t % Day

(* The internal policies: every month, the days and weeks that open on a   *)
(* weekday, and by the wall clock of New York below that.                  *)
Coarse(t, tf, open) ==
  CASE tf = "1mo" -> TRUE
    [] tf \in {"1d", "1w"} -> Weekday(t) < 5
    [] OTHER -> open

ForexWeekly(t, tf) ==
  LET ny == NewYork(t) IN
  Coarse(t, tf, CASE Weekday(ny) < 4 -> TRUE
                  [] Weekday(ny) = 4 -> TimeOfDay(ny) < At(17, 0)
                  [] Weekday(ny) = 5 -> FALSE
                  [] OTHER -> TimeOfDay(ny) >= At(17, 0))

UsEtfRegular(t, tf) ==
  LET ny == NewYork(t) IN
  Coarse(t, tf, Weekday(ny) < 5 /\ TimeOfDay(ny) \in At(9, 30) .. At(16, 0) - 1)

WtiEnergy(t, tf) ==
  LET ny == NewYork(t) IN
  Coarse(t, tf, CASE Weekday(ny) = 5 -> FALSE
                  [] Weekday(ny) = 6 -> TimeOfDay(ny) >= At(18, 0)
                  [] Weekday(ny) = 4 -> TimeOfDay(ny) < At(17, 0)
                  [] OTHER -> TimeOfDay(ny) < At(17, 0) \/ TimeOfDay(ny) >= At(18, 0))

(* _calendar_sessions: the sessions whose date is in a range of dates.     *)
SessionsBetween(calendar, first, last) ==
  {s \in Calendars[calendar] : s.date \in first .. last}

(* PandasMarketCalendarSessionPolicy.                                      *)
PandasMarketCalendar(calendar, t, tf) ==
  LET date == t \div Day
      nextMonth == AddMonth(t, 1) \div Day
  IN  CASE tf = "1d"  -> SessionsBetween(calendar, date, date) # {}
        [] tf = "1w"  -> SessionsBetween(calendar, date, date + 6) # {}
        [] tf = "1mo" -> SessionsBetween(calendar, date, nextMonth - 1) # {}
        [] OTHER -> \E s \in SessionsBetween(calendar, date - 1, date + 1) :
                      /\ t \in s.open .. s.close - 1
                      /\ t \notin s.breakStart .. s.breakEnd - 1

(* get_market_session_policy and its fallback to the asset class.          *)
Policy(symbol) ==
  LET pandas == symbol.calendar_source = "pandas" /\ symbol.calendar_name # "" IN
  IF symbol.calendar_source = "internal" /\ symbol.calendar_name = "24/7" THEN "24/7"
  ELSE IF pandas /\ (symbol.calendar_name = "FOREX" \/ symbol.symbol = "XAU/USD") THEN "FOREX"
  ELSE IF pandas /\ symbol.calendar_name \in DOMAIN Calendars THEN symbol.calendar_name
  ELSE IF symbol.symbol = "WTI" THEN "WTI"
  ELSE IF symbol.asset_class \in {"FOREX", "ETF"} THEN symbol.asset_class ELSE "24/7"

IsEligible(symbol, t, tf) ==
  LET policy == Policy(symbol) IN
  CASE policy = "24/7"  -> TRUE
    [] policy = "FOREX" -> ForexWeekly(t, tf)
    [] policy = "ETF"   -> UsEtfRegular(t, tf)
    [] policy = "WTI"   -> WtiEnergy(t, tf)
    [] OTHER -> PandasMarketCalendar(policy, t, tf)
=============================================================================
