-------------------------- MODULE MCCandleService --------------------------
EXTENDS CandleService

(* A candle of an hour lasts three ticks: it is forming for two of them.   *)
MCDay == 72
MCResolutions == <<>>

MCSymmetry == Permutations(Clients)

(* The market is closed for one slot, from -3 to 0.                        *)
MCEl == {3 * i : i \in -12 .. 12} \ {-3}

MCRequests == {
  Request("limit", 1, "backward", Absent, Absent),
  Request("range", 0, "range", 0, 6),
  Request("count", 2, "backward", Absent, Absent)}
=============================================================================
