\* Two symbols of Twelve Data, two of Binance, two sockets, one cancellation,
\* queues of one event.
CONSTANTS
  Symbols = {s1, s2}
  Pairs = {p1, p2}
  MaxSockets = 2
  Capacity = 1
  PairCapacity = 1
  MaxCancels = 1
SPECIFICATION Spec
INVARIANTS
  InterestsServed
  OneSocket
  RouterAgrees
SYMMETRY MCSymmetry
CHECK_DEADLOCK FALSE
