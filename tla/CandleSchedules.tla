-------------------------- MODULE CandleSchedules --------------------------
(***************************************************************************)
(* When candles open: src/app/domain/timeframes.py,                        *)
(* src/app/domain/candle_schedules.py, and the functions that cut a time   *)
(* range into fetches and chunks.                                          *)
(*                                                                         *)
(* A time is a number of ticks since EPOCH.  A schedule is a grid of       *)
(* opens, of a fixed duration and offset or of the calendar's months, and  *)
(* El is the set of times at which the market session policy lets a candle *)
(* open.  A close time is the last tick before the next open.              *)
(***************************************************************************)
EXTENDS Integers, Sequences, FiniteSets, SequencesExt

CONSTANT Day   \* ticks in a day

ASSUME DayAssumption == Day \in Nat \ {0} /\ Day % 24 = 0

Hour == Day \div 24

-----------------------------------------------------------------------------
(* Months since January 1970.                                              *)
DaysInMonth(i) ==
  LET year == 1970 + i \div 12
      leap == (year % 4 = 0 /\ year % 100 # 0) \/ year % 400 = 0
  IN  <<31, IF leap THEN 29 ELSE 28, 31, 30, 31, 30, 31, 31, 30, 31, 30, 31>>[(i % 12) + 1]

MonthStart[i \in Int] ==
  IF i = 0 THEN 0
  ELSE IF i > 0 THEN MonthStart[i - 1] + Day * DaysInMonth(i - 1)
  ELSE MonthStart[i + 1] - Day * DaysInMonth(i)

(* A month has 28 days at least, so that it is not beyond the n-th.        *)
MonthOf(t) ==
  LET n == t \div (28 * Day)
  IN  CHOOSE i \in (n .. 0) \cup (0 .. n) : MonthStart[i] <= t /\ t < MonthStart[i + 1]

(* Mutant of AddMonth: the day is not clamped to the target month.         *)
AddMonthOverflow(t, k) == MonthStart[MonthOf(t) + k] + t - MonthStart[MonthOf(t)]

(* add_month: the day of the month is clamped to the target month.         *)
AddMonth(t, k) ==
  LET from  == MonthOf(t)
      to    == from + k
      day   == (t - MonthStart[from]) \div Day
      last  == DaysInMonth(to) - 1
  IN  MonthStart[to] + Day * (IF day < last THEN day ELSE last) + (t % Day)

(* _month_start and the step to the first month that starts at or after t. *)
FirstMonthAtOrAfter(t) ==
  LET start == MonthStart[MonthOf(t)] IN IF start < t THEN AddMonth(start, 1) ELSE start

MonthOpens(s, e) ==
  LET walk[c \in Int] == IF c < e THEN <<c>> \o walk[AddMonth(c, 1)] ELSE <<>>
  IN  walk[FirstMonthAtOrAfter(s)]

-----------------------------------------------------------------------------
(* TIMEFRAMES, without those below half an hour: they are the same         *)
(* schedule with a smaller duration.                                       *)
Timeframes == {"30m", "1h", "4h", "1d", "1w", "1mo"}

Duration(tf) ==
  CASE tf = "30m" -> Hour \div 2 [] tf = "1h" -> Hour [] tf = "4h" -> 4 * Hour
    [] tf = "1d" -> Day [] tf = "1w" -> 7 * Day [] tf = "1mo" -> 31 * Day

FixedSchedule(duration, offset) == [month |-> FALSE, duration |-> duration, offset |-> offset]

(* Mutant of CandleSchedule: weeks are counted from EPOCH, plus two days.  *)
ScheduleOfSaturdays(symbol, tf) == FixedSchedule(Duration(tf), IF tf = "1w" THEN 2 * Day ELSE 0)

(* get_candle_schedule.                                                    *)
CandleSchedule(symbol, tf) ==
  LET halfHour ==
        /\ tf = "1h"
        /\ \/ symbol.provider = "TWELVE_DATA" /\ symbol.provider_symbol \in {"WTI", "SPY", "QQQ"}
           \/ symbol.provider = "YFINANCE" /\ symbol.calendar_name = "NYSE"
      offset == IF halfHour THEN Hour \div 2 ELSE IF tf = "1w" THEN 4 * Day ELSE 0
  IN  [FixedSchedule(Duration(tf), offset) EXCEPT !.month = (tf = "1mo")]

Step(sch, t, k) == IF sch.month THEN AddMonth(t, k) ELSE t + k * sch.duration

EndAfter(sch, t) == Step(sch, t, 1)
CloseTime(sch, t) == EndAfter(sch, t) - 1

(* Mutant of FirstOpen: the open before t is not passed over.              *)
FirstOpenBefore(sch, t) ==
  IF sch.month THEN MonthStart[MonthOf(t)]
               ELSE sch.offset + ((t - sch.offset) \div sch.duration) * sch.duration

(* _first_open_at_or_after.                                                *)
FirstOpen(sch, t) ==
  IF sch.month
  THEN FirstMonthAtOrAfter(t)
  ELSE LET c == sch.offset + ((t - sch.offset) \div sch.duration) * sch.duration
       IN  IF c < t THEN c + sch.duration ELSE c

IfOpen(El, t) == IF t \in El THEN <<t>> ELSE <<>>

ExpectedOpens(sch, s, e, El) ==
  LET walk[c \in Int] == IF c < e THEN IfOpen(El, c) \o walk[EndAfter(sch, c)] ELSE <<>>
  IN  walk[FirstOpen(sch, s)]

(* At a time, with so many opens to find: how many are left to find.       *)
StillToFind(El, at) == IF at[1] \in El THEN at[2] - 1 ELSE at[2]

(* latest_opens walks back until it has found enough: if the policy never  *)
(* lets a candle of this schedule open, it does not return.                *)
LatestOpens(sch, e, limit, El) ==
  LET walk[at \in Int \X Nat] ==
        IF at[2] = 0 THEN <<>>
        ELSE walk[<<Step(sch, at[1], -1), StillToFind(El, at)>>] \o IfOpen(El, at[1])
  IN  walk[<<Step(sch, FirstOpen(sch, e), -1), limit>>]

NextOpens(sch, s, limit, El) ==
  LET walk[at \in Int \X Nat] ==
        IF at[2] = 0 THEN <<>>
        ELSE IfOpen(El, at[1]) \o walk[<<EndAfter(sch, at[1]), StillToFind(El, at)>>]
  IN  walk[<<FirstOpen(sch, s), limit>>]

-----------------------------------------------------------------------------
Section(s, e, n) == [start |-> s, end |-> e, count |-> n]

(* Mutant of MissingSections: the sections next to each other are merged   *)
(* over a closed session.                                                  *)
OneSection(sch, expected, available) ==
  LET missing == SelectSeq(expected, LAMBDA t : t \notin available)
  IN  IF missing = <<>> THEN <<>>
      ELSE <<Section(Head(missing), EndAfter(sch, Last(missing)), Len(missing))>>

(* One more missing open extends the last section, or begins one.         *)
AddMissing(sch, secs, t) ==
  IF secs # <<>> /\ Last(secs).end = t
  THEN Front(secs) \o <<Section(Last(secs).start, EndAfter(sch, t), Last(secs).count + 1)>>
  ELSE Append(secs, Section(t, EndAfter(sch, t), 1))

(* missing_sections: runs of adjacent opens that are not available.        *)
MissingSections(sch, expected, available) ==
  LET walk[i \in 0 .. Len(expected)] ==
        IF i = 0 THEN <<>>
        ELSE IF expected[i] \in available THEN walk[i - 1]
        ELSE AddMissing(sch, walk[i - 1], expected[i])
  IN  walk[Len(expected)]

(* _find_gaps.                                                             *)
FindGaps(sch, persisted, expected, cached) ==
  MissingSections(sch, expected, (persisted \cup cached) \cap ToSet(expected))

(* iter_chunks: the command's range, a request at a time.                  *)
Chunks(sch, s, e, maxCandles) ==
  LET walk[c \in Int] ==
        IF c >= e THEN <<>>
        ELSE LET next == Step(sch, c, maxCandles)
                 end  == IF next < e THEN next ELSE e
             IN  <<Section(c, end, 0)>> \o walk[end]
  IN  walk[s]

(* _history_ranges: windows Yahoo accepts, and one if it has no limit.     *)
HistoryRanges(s, e, maximum) ==
  LET walk[c \in Int] ==
        IF c >= e THEN <<>>
        ELSE LET end == IF c + maximum < e THEN c + maximum ELSE e
             IN  <<Section(c, end, 0)>> \o walk[end]
  IN  IF e <= s THEN <<>> ELSE IF maximum = 0 THEN <<Section(s, e, 0)>> ELSE walk[s]

(* _conservative_count: what _validate_range compares with the limit.      *)
ConservativeCount(sch, s, e) ==
  IF sch.month THEN Len(MonthOpens(s, e)) ELSE (e - s + sch.duration - 1) \div sch.duration
=============================================================================
