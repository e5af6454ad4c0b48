---------------------------- MODULE CalendarJobs ----------------------------
(***************************************************************************)
(* CronjobManager (src/app/core/cronjob.py) with the one job the lifespan  *)
(* (src/app/main.py) registers, the refresh of the economic calendar, in   *)
(* gateways that share a database and start, stop and crash on their own.  *)
(*                                                                         *)
(* A run is begun by the loop of the job or by a call of run_once, and     *)
(* waits in at most one call at a time: a fetch, or a transaction, which   *)
(* when it fails, is cancelled or loses its process has been committed or  *)
(* has not.                                                                *)
(***************************************************************************)
EXTENDS EconomicCalendar, Sequences, FiniteSets

CONSTANTS
  Gateways,
  MaxDay,       \* bound: days
  Contents      \* bound: [Events -> contents of it, one after the other]

ASSUME BoundsAssumption == MaxDay \in Nat \ {0} /\ Contents \in [Events -> Nat \ {0}]

VARIABLES
  day,        \* the UTC day
  upstream,   \* [Events -> the content the calendar site has]
  rows,       \* the table, each row with the gateway that upserted it last
  crons,      \* [Gateways -> the manager, or none in a process that is down]
  runs,       \* [Gateways -> [Callers -> the run it has begun]]
  requests    \* history: [Events -> [days -> times the details were requested]]

vars == <<day, upstream, rows, crons, runs, requests>>

Callers == {"loop", "run_once"}

(* got: events fetched; picked: candidates locked or claimed; found: their *)
(* details.                                                                *)
NoRun == [at |-> "idle", today |-> 0, types |-> <<>>, got |-> [e \in {} |-> 0], picked |-> {},
          found |-> [e \in {} |-> {}]]

Idle == [c \in Callers |-> NoRun]
Manager(state) == [state |-> state, running |-> FALSE]

Init ==
  /\ day = 1
  /\ upstream = [e \in Events |-> 1]
  /\ rows = [e \in Events |-> [version |-> 0, details |-> {}, attempted |-> 0, by |-> "nobody"]]
  /\ crons = [g \in Gateways |-> Manager("down")]
  /\ runs = [g \in Gateways |-> Idle]
  /\ requests = [e \in Events |-> [d \in 1 .. MaxDay |-> 0]]

-----------------------------------------------------------------------------
(* Transactions.                                                           *)

Overlay(part) == [e \in Events |-> IF e \in DOMAIN part THEN part[e] ELSE rows[e]]

(* The table once the transaction a run waits for has been committed.      *)
Committed(g, run) ==
  CASE run.at = "upserting" ->
         Overlay([e \in DOMAIN run.got |-> [Upserted(rows[e], run.got[e]) EXCEPT !.by = g]])
    [] run.at = "claiming" -> Overlay([e \in run.picked |-> Claimed(rows[e], run.today)])
    [] run.at = "updating" -> Overlay([e \in DOMAIN run.found |-> Enriched(rows[e], run.found[e])])
    [] OTHER -> rows

AllRuns == {<<g, c>> : g \in Gateways, c \in Callers}
Others(g, c) == {runs[r[1]][r[2]] : r \in AllRuns \ {<<g, c>>}}

(* Rows a claim holds, and rows a transaction that is under way may hold.  *)
Locked(run) == IF run.at = "claiming" THEN run.picked ELSE {}
MayLock(run) ==
  CASE run.at = "upserting" -> DOMAIN run.got
    [] run.at = "updating" -> DOMAIN run.found
    [] OTHER -> {}

(* Every write waits for the rows that a claim holds.                      *)
NotHeldUp(g, c) == \A other \in Others(g, c) : MayLock(runs[g][c]) \cap Locked(other) = {}

-----------------------------------------------------------------------------
(* The manager.                                                            *)

(* Mutant of MayBegin: two callers may be at work at once.                 *)
MayBeginAnyway(g) == TRUE

MayBegin(g) == ~crons[g].running

(* _run_once, unless the job is running already; refresh reads the clock.  *)
Begin(g, c) ==
  /\ crons[g].state \in (IF c = "loop" THEN {"started"} ELSE {"started", "stopped"})
  /\ runs[g][c].at = "idle" /\ MayBegin(g)
  /\ crons' = [crons EXCEPT ![g].running = TRUE]
  /\ runs' = [runs EXCEPT ![g][c] = [NoRun EXCEPT !.at = "fetching", !.today = day, !.types = CalendarTypes]]
  /\ UNCHANGED <<day, upstream, rows, requests>>

(* The finally of _run_once, whatever the outcome.                         *)
Ended(g) == [crons EXCEPT ![g].running = FALSE]

Proceed(g, c, run) ==
  /\ runs' = [runs EXCEPT ![g][c] = IF run.at = "idle" THEN NoRun ELSE run]
  /\ crons' = IF run.at = "idle" THEN Ended(g) ELSE crons

Fail(g, c) == runs' = [runs EXCEPT ![g][c] = NoRun] /\ crons' = Ended(g)

(* start of the lifespan, or start after stop.                             *)
Start(g) ==
  /\ crons[g].state \in {"down", "stopped"}
  /\ crons' = [crons EXCEPT ![g].state = "started"]
  /\ UNCHANGED <<day, upstream, rows, runs, requests>>

(* The runs of the callers end where they are.                             *)
Interrupt(g, callers) ==
  /\ runs' = [runs EXCEPT ![g] = [c \in Callers |-> IF c \in callers THEN NoRun ELSE @[c]]]
  /\ rows' \in {rows} \cup {Committed(g, runs[g][c]) : c \in callers}
  /\ UNCHANGED <<day, upstream, requests>>

(* stop cancels the loop and waits for it; a run_once call goes on.        *)
Stop(g) ==
  /\ crons[g].state = "started"
  /\ Interrupt(g, {"loop"})
  /\ crons' = [crons EXCEPT ![g].state = "stopped",
                            ![g].running = @ /\ runs[g]["loop"].at = "idle"]

(* The process ends: after stop, at the end of the lifespan, or any time.  *)
Down(g) ==
  /\ crons[g].state # "down"
  /\ Interrupt(g, Callers)
  /\ crons' = [crons EXCEPT ![g] = Manager("down")]

-----------------------------------------------------------------------------
(* refresh.                                                                *)

(* One type after the other: the first that fails ends the run, with       *)
(* nothing stored.                                                         *)
Fetch(g, c) ==
  LET run == runs[g][c]
      events == FetchEvents(Head(run.types), run.today, upstream)
      got == [e \in DOMAIN run.got \cup DOMAIN events |->
                IF e \in DOMAIN events THEN events[e] ELSE run.got[e]]
  IN  /\ run.at = "fetching"
      /\ \/ Proceed(g, c, [run EXCEPT !.got = got, !.types = Tail(@),
                                      !.at = IF Len(run.types) = 1 THEN "upserting" ELSE @])
         \/ Fail(g, c)
      /\ UNCHANGED <<day, upstream, rows, requests>>

(* upsert_events, in one transaction.                                      *)
Upsert(g, c) ==
  LET run == runs[g][c] IN
  /\ run.at = "upserting" /\ NotHeldUp(g, c)
  /\ \/ Proceed(g, c, [run EXCEPT !.at = "selecting", !.got = NoRun.got]) /\ rows' = Committed(g, run)
     \/ Fail(g, c) /\ rows' \in {rows, Committed(g, run)}
  /\ UNCHANGED <<day, upstream, requests>>

(* claim_enrichment_candidates locks the rows it can have at once ...      *)
Select(g, c) ==
  LET run == runs[g][c]
      free == Events \ UNION {Locked(other) : other \in Others(g, c)}
  IN  /\ run.at = "selecting"
      /\ \/ \E skipped \in SUBSET UNION {MayLock(other) : other \in Others(g, c)} :
              Proceed(g, c, [run EXCEPT !.at = "claiming",
                !.picked = {e \in free \ skipped : Candidate(e, rows[e], run.today)}])
         \/ Fail(g, c)
      /\ UNCHANGED <<day, upstream, rows, requests>>

(* ... and marks them as attempted; only then are the details requested.   *)
Claim(g, c) ==
  LET run == runs[g][c] IN
  /\ run.at = "claiming"
  /\ \/ /\ Proceed(g, c, [run EXCEPT !.at = IF run.picked = {} THEN "idle" ELSE "requesting"])
        /\ rows' = Committed(g, run)
        /\ requests' = [e \in Events |->
             IF e \in run.picked THEN [requests[e] EXCEPT ![run.today] = @ + 1] ELSE requests[e]]
     \/ Fail(g, c) /\ rows' \in {rows, Committed(g, run)} /\ UNCHANGED requests
  /\ UNCHANGED <<day, upstream>>

(* fetch_event_details: an event whose request fails has no details, and   *)
(* update_enrichments leaves out those.                                    *)
Request(g, c) ==
  LET run == runs[g][c] IN
  /\ run.at = "requesting"
  /\ \E found \in [run.picked -> SUBSET Fields] :
       LET usable == {e \in run.picked : found[e] # {}} IN
       Proceed(g, c, [run EXCEPT !.picked = {}, !.found = [e \in usable |-> found[e]],
                                 !.at = IF usable = {} THEN "idle" ELSE "updating"])
  /\ UNCHANGED <<day, upstream, rows, requests>>

Update(g, c) ==
  LET run == runs[g][c] IN
  /\ run.at = "updating" /\ NotHeldUp(g, c)
  /\ \/ Proceed(g, c, [run EXCEPT !.at = "idle"]) /\ rows' = Committed(g, run)
     \/ Fail(g, c) /\ rows' \in {rows, Committed(g, run)}
  /\ UNCHANGED <<day, upstream, requests>>

-----------------------------------------------------------------------------
NextDay ==
  /\ day < MaxDay /\ day' = day + 1
  /\ UNCHANGED <<upstream, rows, crons, runs, requests>>

(* The calendar site has a new actual value of an event.                   *)
Publish ==
  /\ \E e \in Events : upstream[e] < Contents[e] /\ upstream' = [upstream EXCEPT ![e] = @ + 1]
  /\ UNCHANGED <<day, rows, crons, runs, requests>>

Next ==
  \/ NextDay \/ Publish
  \/ \E g \in Gateways : Start(g) \/ Stop(g) \/ Down(g)
  \/ \E g \in Gateways, c \in Callers :
       Begin(g, c) \/ Fetch(g, c) \/ Upsert(g, c) \/ Select(g, c) \/ Claim(g, c) \/ Request(g, c) \/ Update(g, c)

Spec == Init /\ [][Next]_vars

-----------------------------------------------------------------------------
(* The details of an event are requested at most once for a UTC day, by    *)
(* however many gateways, run_once calls, failures and restarts            *)
(* (repositories.py:343, economic_calendar_refresh.py:44).                 *)
OncePerDay == \A e \in Events, d \in 1 .. MaxDay : requests[e][d] <= 1

(* No more than one run of the job is at work in a process, the status     *)
(* says so exactly, and after stop no run of the loop is left, however     *)
(* runs end (cronjob.py:81, :141-212).                                     *)
RunningIsTrue ==
  \A g \in Gateways :
    LET working == {c \in Callers : runs[g][c].at # "idle"} IN
    /\ crons[g].running = (working # {})
    /\ Cardinality(working) <= 1
    /\ crons[g].state # "started" => "loop" \notin working

(* A row never loses its details or an attempt, and goes back to an older  *)
(* content only where another gateway's refresh has overtaken this one     *)
(* (repositories.py:282-289, :387, :417-424; cronjob.py:143).              *)
RowsImprove ==
  [][\A e \in Events :
       /\ rows[e].details \subseteq rows'[e].details
       /\ rows[e].attempted <= rows'[e].attempted
       /\ rows'[e].version < rows[e].version => rows'[e].by # rows[e].by]_vars
=============================================================================
