\* Two gateways, two events, two days, two contents of one of them.
CONSTANTS
  e1 = e1
  e2 = e2
  Events = {e1, e2}
  TypeOf <- MCTypeOf
  Scheduled <- MCScheduled
  Gateways = {g1, g2}
  MaxDay = 2
  Contents <- MCContents
SPECIFICATION Spec
INVARIANTS
  OncePerDay
  RunningIsTrue
PROPERTY
  RowsImprove
SYMMETRY MCSymmetry
