-------------------------- MODULE EconomicCalendar --------------------------
(***************************************************************************)
(* The persisted events of the economic calendar: the window of a refresh  *)
(* (src/app/services/economic_calendar_refresh.py), what the provider      *)
(* answers (src/app/providers/market_calendar_tool.py) and what the        *)
(* transactions of PostgresEconomicCalendarRepository leave in a row       *)
(* (src/app/db/repositories.py).                                           *)
(***************************************************************************)
EXTENDS Integers

CONSTANTS
  Events,      \* identities: (calendar_type, external_event_id)
  TypeOf,      \* [Events -> calendar type]
  Scheduled    \* [Events -> the day it is scheduled on]

(* CALENDAR_TYPES, in the order they are fetched; the model has two.       *)
CalendarTypes == <<"FOREX", "METALS">>

(* The optional columns that only the details of an event can fill.        *)
Fields == {"description", "news_url"}

(* version: the content the base fetch gives, 0 for no row; by: who wrote  *)
(* it last (history).                                                      *)
Rows == [version : Nat, details : SUBSET Fields, attempted : Nat]

Lookback == 2
Lookahead == 7

(* The scraper is asked for whole days, the last of them included; the     *)
(* repository for the time before that day.                                *)
Fetched(e, today) == Scheduled[e] \in today - Lookback .. today + Lookahead
InWindow(e, today) == Scheduled[e] \in today - Lookback .. today + Lookahead - 1

(* fetch_events of one type: the base of the SDK has no details.           *)
FetchEvents(type, today, upstream) ==
  [e \in {x \in Events : TypeOf[x] = type /\ Fetched(x, today)} |->
     [version |-> upstream[e], details |-> {}]]

(* Mutant of Upserted: the details are overwritten as the rest is.         *)
Replaced(row, event) == [row EXCEPT !.version = event.version, !.details = event.details]

(* upsert_events, one row: a null description or news_url keeps the old.   *)
Upserted(row, event) == [row EXCEPT !.version = event.version, !.details = @ \cup event.details]

(* Mutant of Unattempted: any attempt before now is before the day.        *)
AttemptedLongAgo(row, today) == row.attempted <= today

(* No attempt since the start of the UTC day of the refresh.               *)
Unattempted(row, today) == row.attempted < today

(* claim_enrichment_candidates.                                            *)
Candidate(e, row, today) ==
  /\ row.version > 0 /\ InWindow(e, today)
  /\ row.details # Fields /\ Unattempted(row, today)

Claimed(row, today) == [row EXCEPT !.attempted = today]

(* update_enrichments: the fields that are not null.                       *)
Enriched(row, found) == [row EXCEPT !.details = @ \cup found]
=============================================================================
