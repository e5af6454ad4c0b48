-------------------------- MODULE MCCalendarJobs ---------------------------
(* Two gateways; an event of today, and one that enters the window of the  *)
(* refresh tomorrow.                                                       *)
EXTENDS CalendarJobs, TLC

CONSTANTS e1, e2

MCTypeOf == e1 :> "FOREX" @@ e2 :> "METALS"
MCScheduled == e1 :> 1 @@ e2 :> 8
MCContents == e1 :> 2 @@ e2 :> 1
MCSymmetry == Permutations(Gateways)
=============================================================================
