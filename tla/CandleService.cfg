\* Two clients and a backfill of one chunk; eligible opens -12, -9, -6, 0 and 3.
CONSTANTS
  Day <- MCDay
  Resolutions <- MCResolutions
  El <- MCEl
  Requests <- MCRequests
  MaxCandles = 3
  Start = 0
  End = 6
  Ttl = 0
  ScanBudget = 4
  MaxNow = 3
  Clients = {c1, c2}
  Backfill = backfill
SPECIFICATION Spec
INVARIANTS
  StoredFinal
  AnswerFresh
  ServedForever
  ExitZeroMeansStored
  SingleFlight
SYMMETRY MCSymmetry
CHECK_DEADLOCK FALSE
