\* Every function on every input of small sets: 10 registry rows, 6 timeframes,
\* 6 instants around a weekend, grids of 6 opens, answers of 2 rows.
CONSTANTS
  Day <- MCDay
  DstStart <- MCDstStart
  Calendars <- MCCalendars
  MaxCandles = 3
  Resolutions <- MCResolutions
  Symbols <- MCSymbols
  Instants <- MCInstants
  MaxRows = 2
SPECIFICATION InputSpec
INVARIANTS
  EveryScheduleTrades
  OpensAreExact
  SectionsAreExact
  ChunksAreExact
  AcceptedFits
  AnswersAreSound
  NeverLooksAhead
