------------------------- MODULE CalendarJobsProofs -------------------------
(***************************************************************************)
(* Theorems about CalendarJobs, for any sets of gateways and events and    *)
(* any number of days.                                                     *)
(*                                                                         *)
(* JobsInv is inductive.  A row is claimed under its lock: while a run     *)
(* holds it the day of its last attempt stays before the run's day, which  *)
(* is why no second request for a day is ever made.                        *)
(***************************************************************************)
EXTENDS CalendarJobs, FiniteSetTheorems, SequenceTheorems, TLAPS

TypeNames == {"FOREX", "METALS"}
Phases == {"idle", "fetching", "upserting", "selecting", "claiming", "requesting", "updating"}
Parts == UNION {[S -> [version : Nat, details : SUBSET Fields]] : S \in SUBSET Events}
Details == UNION {[S -> SUBSET Fields] : S \in SUBSET Events}
RunType == [at : Phases, today : Nat, types : Seq(TypeNames), got : Parts, picked : SUBSET Events, found : Details]
RowType == [version : Nat, details : SUBSET Fields, attempted : Nat, by : Gateways \cup {"nobody"}]

CronsOK == crons \in [Gateways -> [state : {"down", "started", "stopped"}, running : BOOLEAN]]
TypeOK ==
  /\ day \in 1 .. MaxDay
  /\ upstream \in [Events -> Nat]
  /\ rows \in [Events -> RowType]
  /\ runs \in [Gateways -> [Callers -> RunType]]
  /\ requests \in [Events -> [1 .. MaxDay -> Nat]]

(* A run at work has the day it began on, and while it fetches a type to   *)
(* fetch; one that is over has nothing.                                    *)
Dated ==
  \A g \in Gateways, c \in Callers :
    /\ runs[g][c].at # "idle" => runs[g][c].today \in 1 .. MaxDay
    /\ runs[g][c].at = "fetching" => runs[g][c].types # <<>>
    /\ runs[g][c].at = "idle" => DOMAIN runs[g][c].got = {}

(* RunningIsTrue without sets: the two callers are not at work together.   *)
OneRun ==
  \A g \in Gateways :
    /\ crons[g].running <=> (\E c \in Callers : runs[g][c].at # "idle")
    /\ runs[g]["loop"].at = "idle" \/ runs[g]["run_once"].at = "idle"
    /\ crons[g].state # "started" => runs[g]["loop"].at = "idle"

(* What a claim holds has not been attempted on its day, and nobody else   *)
(* holds it.                                                               *)
Claims ==
  \A g \in Gateways, c \in Callers : \A e \in Locked(runs[g][c]) :
    /\ rows[e].attempted < runs[g][c].today
    /\ \A h \in Gateways, d \in Callers : e \in Locked(runs[h][d]) => <<h, d>> = <<g, c>>

(* A request has been made once, and the row says so.                      *)
Counted ==
  \A e \in Events, d \in 1 .. MaxDay :
    requests[e][d] <= 1 /\ (requests[e][d] = 1 => d <= rows[e].attempted)

(* Content comes from upstream, which never goes back, and what a run has  *)
(* fetched is no older than what its gateway has written before.           *)
Newer ==
  /\ \A e \in Events : rows[e].version <= upstream[e]
  /\ \A g \in Gateways, c \in Callers : \A e \in DOMAIN runs[g][c].got :
       /\ runs[g][c].got[e].version <= upstream[e]
       /\ rows[e].by = g => rows[e].version <= runs[g][c].got[e].version

RowsInv == TypeOK /\ Dated /\ Claims /\ Counted /\ Newer
JobsInv == CronsOK /\ OneRun /\ RowsInv
-----------------------------------------------------------------------------
LEMMA NoRunType == NoRun \in RunType
  <1>1. NoRun.got \in Parts /\ NoRun.found \in Details
    <2>1. NoRun.got \in [{} -> [version : Nat, details : SUBSET Fields]] /\ NoRun.found \in [{} -> SUBSET Fields]
      BY DEF NoRun
    <2>2. {} \in SUBSET Events
      OBVIOUS
    <2>3. QED
      BY <2>1, <2>2, Zenon DEF Parts, Details
  <1>2. NoRun.at = "idle" /\ NoRun.today = 0 /\ NoRun.types = <<>> /\ NoRun.picked = {}
    BY DEF NoRun
  <1>3. QED
    BY <1>1, <1>2 DEF NoRun, RunType, Phases

LEMMA PartType ==
  ASSUME NEW f \in Parts
  PROVE  /\ DOMAIN f \subseteq Events
         /\ f \in [DOMAIN f -> [version : Nat, details : SUBSET Fields]]
  <1>1. PICK S \in SUBSET Events : f \in [S -> [version : Nat, details : SUBSET Fields]]
    BY DEF Parts
  <1>2. QED
    BY <1>1

LEMMA DetailType ==
  ASSUME NEW f \in Details
  PROVE  DOMAIN f \subseteq Events /\ f \in [DOMAIN f -> SUBSET Fields]
  <1>1. PICK S \in SUBSET Events : f \in [S -> SUBSET Fields]
    BY DEF Details
  <1>2. QED
    BY <1>1

(* What a transaction leaves in a row, whether it commits or not: details  *)
(* and attempts are never lost, the content is that of the run that        *)
(* upserts, and only a claim attempts.                                     *)
LEMMA WriteFacts ==
  ASSUME JobsInv, NEW g \in Gateways, NEW c \in Callers,
         NEW table \in {rows, Committed(g, runs[g][c])}
  PROVE  /\ table \in [Events -> RowType]
         /\ \A e \in Events :
              /\ rows[e].details \subseteq table[e].details
              /\ rows[e].attempted <= table[e].attempted
              /\ table[e].attempted # rows[e].attempted =>
                   e \in Locked(runs[g][c]) /\ table[e].attempted = runs[g][c].today
              /\ \/ table[e].version = rows[e].version /\ table[e].by = rows[e].by
                 \/ /\ e \in DOMAIN runs[g][c].got
                    /\ table[e].version = runs[g][c].got[e].version /\ table[e].by = g
  <1> DEFINE run == runs[g][c]
  <1>1. run \in RunType /\ rows \in [Events -> RowType] /\ run.got \in Parts /\ run.found \in Details
        /\ run.picked \in SUBSET Events /\ run.today \in Nat
    BY DEF JobsInv, RowsInv, TypeOK, RunType
  <1>2. CASE table = rows
    BY <1>1, <1>2 DEF RowType
  <1>3. CASE run.at = "upserting" /\ table = Committed(g, run)
    <2>1. table = [e \in Events |-> IF e \in DOMAIN run.got
                                     THEN [Upserted(rows[e], run.got[e]) EXCEPT !.by = g] ELSE rows[e]]
      BY <1>1, <1>3, PartType DEF Committed, Overlay
    <2>2. ASSUME NEW e \in DOMAIN run.got
          PROVE  run.got[e].version \in Nat /\ run.got[e].details \in SUBSET Fields /\ e \in Events
      BY <1>1, PartType
    <2>3. ASSUME NEW e \in Events, e \in DOMAIN run.got
          PROVE  table[e] = [rows[e] EXCEPT !.version = run.got[e].version,
                                            !.details = @ \cup run.got[e].details, !.by = g]
      BY <1>1, <2>1, <2>3 DEF Upserted, RowType
    <2>4. ASSUME NEW e \in Events, e \notin DOMAIN run.got
          PROVE  table[e] = rows[e]
      BY <2>1, <2>4
    <2>5. QED
      <3>1. ASSUME NEW e \in Events PROVE rows[e] \in RowType
        BY <1>1
      <3>2. ASSUME NEW e \in Events, e \in DOMAIN run.got
            PROVE  /\ table[e] \in RowType /\ rows[e].details \subseteq table[e].details
                   /\ table[e].attempted = rows[e].attempted
                   /\ table[e].version = run.got[e].version /\ table[e].by = g
        <4>1. table[e] = [version |-> run.got[e].version, details |-> rows[e].details \cup run.got[e].details,
                          attempted |-> rows[e].attempted, by |-> g]
          BY <2>3, <3>1, <3>2 DEF RowType
        <4>2. /\ run.got[e].version \in Nat /\ run.got[e].details \in SUBSET Fields
              /\ rows[e].details \in SUBSET Fields /\ rows[e].attempted \in Nat
          BY <2>2, <3>1, <3>2 DEF RowType
        <4>3. QED
          BY <4>1, <4>2 DEF RowType
      <3>3. table \in [Events -> RowType]
        BY <2>1, <2>4, <3>1, <3>2
      <3>4. \A e \in Events : rows[e].attempted \in Nat
        BY <3>1 DEF RowType
      <3>5. QED
        BY <2>4, <3>2, <3>3, <3>4
  <1>4. CASE run.at = "claiming" /\ table = Committed(g, run)
    <2>1. table = [e \in Events |-> IF e \in run.picked THEN [rows[e] EXCEPT !.attempted = run.today]
                                                       ELSE rows[e]]
      BY <1>1, <1>4 DEF Committed, Overlay, Claimed
    <2>2. Locked(run) = run.picked /\ \A e \in run.picked : rows[e].attempted < run.today
      BY <1>4 DEF Locked, JobsInv, RowsInv, Claims
    <2>3. ASSUME NEW e \in Events PROVE rows[e] \in RowType /\ table[e] \in RowType
      BY <1>1, <2>1 DEF RowType
    <2>4. table \in [Events -> RowType]
      BY <2>1, <2>3
    <2>5. QED
      BY <1>1, <2>1, <2>2, <2>3, <2>4 DEF RowType
  <1>5. CASE run.at = "updating" /\ table = Committed(g, run)
    <2>1. table = [e \in Events |-> IF e \in DOMAIN run.found
                                     THEN [rows[e] EXCEPT !.details = @ \cup run.found[e]] ELSE rows[e]]
      BY <1>1, <1>5, DetailType DEF Committed, Overlay, Enriched
    <2>2. ASSUME NEW e \in DOMAIN run.found PROVE run.found[e] \in SUBSET Fields
      BY <1>1, DetailType
    <2>3. ASSUME NEW e \in Events PROVE rows[e] \in RowType
      BY <1>1
    <2>4. ASSUME NEW e \in Events, e \in DOMAIN run.found
          PROVE  /\ table[e] \in RowType /\ rows[e].details \subseteq table[e].details
                 /\ table[e].attempted = rows[e].attempted
                 /\ table[e].version = rows[e].version /\ table[e].by = rows[e].by
      BY <2>1, <2>2, <2>3, <2>4 DEF RowType
    <2>5. ASSUME NEW e \in Events, e \notin DOMAIN run.found
          PROVE  table[e] = rows[e]
      BY <2>1, <2>5
    <2>6. table \in [Events -> RowType]
      BY <2>1, <2>3, <2>4, <2>5
    <2>7. \A e \in Events : rows[e].attempted \in Nat
      BY <2>3 DEF RowType
    <2>8. QED
      BY <2>4, <2>5, <2>6, <2>7
  <1>6. CASE run.at \notin {"upserting", "claiming", "updating"} /\ table = Committed(g, run)
    BY <1>2, <1>6 DEF Committed
  <1>7. QED
    BY <1>2, <1>3, <1>4, <1>5, <1>6

-----------------------------------------------------------------------------
(* The initial state.                                                      *)
LEMMA InitSafe == Init => JobsInv
  <1> SUFFICES ASSUME Init PROVE JobsInv
    OBVIOUS
  <1>1. runs \in [Gateways -> [Callers -> RunType]]
    BY NoRunType DEF Init, Idle
  <1>2. \A g \in Gateways, c \in Callers : runs[g][c] = NoRun
    BY DEF Init, Idle
  <1>3. NoRun.at = "idle" /\ DOMAIN NoRun.got = {}
    BY DEF NoRun
  <1>4. TypeOK /\ CronsOK
    BY <1>1, BoundsAssumption DEF Init, TypeOK, CronsOK, RowType, Manager
  <1>5. Dated
    BY <1>2, <1>3 DEF Dated
  <1>6. OneRun
    BY <1>2, <1>3 DEF OneRun, Init, Manager, Callers
  <1>7. Claims
    BY <1>2, <1>3 DEF Claims, Locked
  <1>8. Counted
    BY DEF Init, Counted
  <1>9. Newer
    BY <1>2, <1>3 DEF Newer, Init
  <1>10. QED
    BY <1>4, <1>5, <1>6, <1>7, <1>8, <1>9 DEF JobsInv, RowsInv

(* A step that changes nothing.                                            *)
LEMMA StutterSafe == JobsInv /\ UNCHANGED vars => JobsInv'
  BY DEF JobsInv, RowsInv, TypeOK, CronsOK, Dated, OneRun, Claims, Counted, Newer, Locked, vars

(* The clock.                                                              *)
LEMMA NextDaySafe == JobsInv /\ NextDay => JobsInv'
  BY BoundsAssumption
  DEF JobsInv, RowsInv, TypeOK, CronsOK, Dated, OneRun, Claims, Counted, Newer, Locked, NextDay

(* New content upstream makes what was there before older.                 *)
LEMMA PublishSafe == JobsInv /\ Publish => JobsInv'
  <1> SUFFICES ASSUME JobsInv, Publish PROVE JobsInv'
    OBVIOUS
  <1>1. PICK x \in Events : upstream' = [upstream EXCEPT ![x] = @ + 1]
    BY DEF Publish
  <1>2. upstream' \in [Events -> Nat] /\ \A e \in Events : upstream[e] \in Nat /\ upstream[e] <= upstream'[e]
    BY <1>1 DEF JobsInv, RowsInv, TypeOK
  <1>3. UNCHANGED <<day, rows, crons, runs, requests>>
    BY DEF Publish
  <1>4. \A g \in Gateways, c \in Callers : \A e \in DOMAIN runs[g][c].got :
          e \in Events /\ runs[g][c].got[e].version \in Nat
    BY PartType DEF JobsInv, RowsInv, TypeOK, RunType
  <1>5. Newer'
    BY <1>2, <1>3, <1>4 DEF JobsInv, RowsInv, TypeOK, Newer, RowType
  <1>6. QED
    BY <1>2, <1>3, <1>5 DEF JobsInv, RowsInv, TypeOK, CronsOK, Dated, OneRun, Claims, Counted, Locked

-----------------------------------------------------------------------------
(* Runs of a gateway end, and the transaction of one of them has been      *)
(* committed or not.                                                       *)
LEMMA RunsEnd ==
  ASSUME JobsInv, NEW g \in Gateways, NEW ended \in SUBSET Callers, NEW c \in ended,
         rows' \in {rows, Committed(g, runs[g][c])},
         runs' = [runs EXCEPT ![g] = [d \in Callers |-> IF d \in ended THEN NoRun ELSE runs[g][d]]],
         UNCHANGED <<day, upstream, requests>>
  PROVE  RowsInv'
  <1>1. /\ rows' \in [Events -> RowType]
        /\ \A e \in Events :
             /\ rows[e].attempted <= rows'[e].attempted
             /\ rows'[e].attempted # rows[e].attempted => e \in Locked(runs[g][c])
             /\ \/ rows'[e].version = rows[e].version /\ rows'[e].by = rows[e].by
                \/ /\ e \in DOMAIN runs[g][c].got
                   /\ rows'[e].version = runs[g][c].got[e].version /\ rows'[e].by = g
    BY WriteFacts
  <1>2. \A h \in Gateways, d \in Callers :
          runs'[h][d] = IF h = g /\ d \in ended THEN NoRun ELSE runs[h][d]
    BY DEF JobsInv, RowsInv, TypeOK
  <1>3. NoRun.at = "idle" /\ DOMAIN NoRun.got = {} /\ Locked(NoRun) = {}
    BY DEF NoRun, Locked
  <1>4. \A e \in Events : /\ rows[e].attempted \in Nat /\ rows[e].version \in Nat
                          /\ rows'[e].attempted \in Nat /\ rows'[e].version \in Nat /\ upstream[e] \in Nat
    BY <1>1 DEF JobsInv, RowsInv, TypeOK, RowType
  <1>5. TypeOK'
    <2>1. [d \in Callers |-> IF d \in ended THEN NoRun ELSE runs[g][d]] \in [Callers -> RunType]
      BY NoRunType DEF JobsInv, RowsInv, TypeOK
    <2>2. runs' \in [Gateways -> [Callers -> RunType]]
      BY <2>1 DEF JobsInv, RowsInv, TypeOK
    <2>3. QED
      BY <1>1, <2>2 DEF JobsInv, RowsInv, TypeOK
  <1>6. Dated'
    BY <1>2, <1>3 DEF JobsInv, RowsInv, Dated
  <1>7. Claims'
    <2> SUFFICES ASSUME NEW h \in Gateways, NEW d \in Callers, NEW e \in Locked(runs'[h][d])
                 PROVE  /\ rows'[e].attempted < runs'[h][d].today
                        /\ \A k \in Gateways, b \in Callers :
                             e \in Locked(runs'[k][b]) => <<k, b>> = <<h, d>>
      BY DEF Claims, Locked
    <2>1. ~(h = g /\ d \in ended) /\ runs'[h][d] = runs[h][d] /\ e \in Locked(runs[h][d])
      BY <1>2, <1>3
    <2>2. e \notin Locked(runs[g][c])
      BY <2>1 DEF JobsInv, RowsInv, Claims
    <2>3. e \in Events
      BY <2>1 DEF JobsInv, RowsInv, TypeOK, RunType, Locked
    <2>4. rows'[e].attempted = rows[e].attempted
      BY <1>1, <2>2, <2>3
    <2>5. \A k \in Gateways, b \in Callers : e \in Locked(runs'[k][b]) => e \in Locked(runs[k][b])
      BY <1>2, <1>3
    <2>6. QED
      BY <2>1, <2>4, <2>5 DEF JobsInv, RowsInv, Claims
  <1>8. Counted'
    <2> SUFFICES ASSUME NEW e \in Events, NEW d \in 1 .. MaxDay
                 PROVE  requests[e][d] <= 1 /\ (requests[e][d] = 1 => d <= rows'[e].attempted)
      BY DEF Counted
    <2>1. requests[e][d] <= 1 /\ (requests[e][d] = 1 => d <= rows[e].attempted)
      BY DEF JobsInv, RowsInv, Counted
    <2>2. QED
      BY <1>1, <1>4, <2>1
  <1>9. Newer'
    <2>1. ASSUME NEW e \in Events PROVE rows'[e].version <= upstream[e]
      BY <1>1 DEF JobsInv, RowsInv, Newer
    <2>2. ASSUME NEW h \in Gateways, NEW d \in Callers, NEW e \in DOMAIN runs'[h][d].got
          PROVE  /\ runs'[h][d].got[e].version <= upstream[e]
                 /\ rows'[e].by = h => rows'[e].version <= runs'[h][d].got[e].version
      <3>1. ~(h = g /\ d \in ended) /\ runs'[h][d] = runs[h][d] /\ e \in DOMAIN runs[h][d].got
        BY <1>2, <1>3
      <3>2. e \in Events
        BY <3>1, PartType DEF JobsInv, RowsInv, TypeOK, RunType
      <3>3. h = g => e \notin DOMAIN runs[g][c].got
        BY <3>1 DEF JobsInv, RowsInv, Dated, OneRun, Callers
      <3>4. QED
        BY <1>1, <3>1, <3>2, <3>3 DEF JobsInv, RowsInv, Newer
    <2>3. QED
      BY <2>1, <2>2 DEF Newer
  <1>10. QED
    BY <1>5, <1>6, <1>7, <1>8, <1>9 DEF RowsInv

(* One run ends.                                                           *)
LEMMA RunEnds ==
  ASSUME JobsInv, NEW g \in Gateways, NEW c \in Callers, runs[g][c].at # "idle",
         rows' \in {rows, Committed(g, runs[g][c])}, Fail(g, c), UNCHANGED <<day, upstream, requests>>
  PROVE  JobsInv'
  <1>1. runs' = [runs EXCEPT ![g] = [d \in Callers |-> IF d \in {c} THEN NoRun ELSE runs[g][d]]]
    <2>1. [runs[g] EXCEPT ![c] = NoRun] = [d \in Callers |-> IF d \in {c} THEN NoRun ELSE runs[g][d]]
      BY DEF JobsInv, RowsInv, TypeOK
    <2>2. QED
      BY <2>1 DEF Fail
  <1>2. RowsInv'
    BY <1>1, RunsEnd
  <1>3. CronsOK'
    BY DEF JobsInv, CronsOK, Fail, Ended
  <1>4. OneRun'
    BY <1>1 DEF JobsInv, RowsInv, TypeOK, CronsOK, OneRun, Fail, Ended, NoRun, Callers
  <1>5. QED
    BY <1>2, <1>3, <1>4 DEF JobsInv

(* A run goes on, and no row is written.                                   *)
LEMMA RunMoves ==
  ASSUME JobsInv, NEW g \in Gateways, NEW c \in Callers, NEW run \in RunType,
         run.at # "idle", run.today \in 1 .. MaxDay, run.at = "fetching" => run.types # <<>>,
         \A e \in DOMAIN run.got : /\ run.got[e].version <= upstream[e]
                                   /\ rows[e].by = g => rows[e].version <= run.got[e].version,
         \A e \in Locked(run) :
           /\ rows[e].attempted < run.today
           /\ \A h \in Gateways, d \in Callers : e \in Locked(runs[h][d]) => <<h, d>> = <<g, c>>,
         runs' = [runs EXCEPT ![g][c] = run],
         UNCHANGED <<day, upstream, rows, requests>>
  PROVE  RowsInv'
  <1>1. \A h \in Gateways, d \in Callers :
          runs'[h][d] = IF h = g /\ d = c THEN run ELSE runs[h][d]
    BY DEF JobsInv, RowsInv, TypeOK
  <1>2. TypeOK'
    BY DEF JobsInv, RowsInv, TypeOK
  <1>3. Dated'
    BY <1>1 DEF JobsInv, RowsInv, Dated
  <1>4. Claims'
    <2> SUFFICES ASSUME NEW h \in Gateways, NEW d \in Callers, NEW e \in Locked(runs'[h][d])
                 PROVE  /\ rows[e].attempted < runs'[h][d].today
                        /\ \A k \in Gateways, b \in Callers :
                             e \in Locked(runs'[k][b]) => <<k, b>> = <<h, d>>
      BY DEF Claims, Locked
    <2>1. CASE h = g /\ d = c
      BY <1>1, <2>1
    <2>2. CASE ~(h = g /\ d = c)
      <3>1. e \in Locked(runs[h][d]) /\ runs'[h][d] = runs[h][d]
        BY <1>1, <2>2
      <3>2. e \notin Locked(run)
        BY <2>2, <3>1
      <3>3. QED
        BY <1>1, <3>1, <3>2 DEF JobsInv, RowsInv, Claims
    <2>3. QED
      BY <2>1, <2>2
  <1>5. Counted'
    BY DEF JobsInv, RowsInv, Counted
  <1>6. Newer'
    <2>1. ASSUME NEW h \in Gateways, NEW d \in Callers, NEW e \in DOMAIN runs'[h][d].got
          PROVE  /\ runs'[h][d].got[e].version <= upstream[e]
                 /\ rows[e].by = h => rows[e].version <= runs'[h][d].got[e].version
      BY <1>1, <2>1 DEF JobsInv, RowsInv, Newer
    <2>2. QED
      BY <2>1 DEF JobsInv, RowsInv, Newer
  <1>7. QED
    BY <1>2, <1>3, <1>4, <1>5, <1>6 DEF RowsInv

(* The callers: who is at work in a gateway whose run c is, or becomes, at *)
(* work.                                                                   *)
LEMMA StaysAtWork ==
  ASSUME JobsInv, NEW g \in Gateways, NEW c \in Callers, NEW run \in RunType,
         runs[g][c].at # "idle", run.at # "idle",
         runs' = [runs EXCEPT ![g][c] = run], crons' = crons
  PROVE  CronsOK' /\ OneRun'
  BY DEF JobsInv, RowsInv, TypeOK, CronsOK, OneRun, Callers

-----------------------------------------------------------------------------
(* The manager.                                                            *)
LEMMA StartSafe ==
  ASSUME JobsInv, NEW g \in Gateways, Start(g)
  PROVE  JobsInv'
  <1>1. CronsOK' /\ OneRun'
    BY DEF JobsInv, CronsOK, OneRun, Start
  <1>2. RowsInv'
    BY DEF JobsInv, RowsInv, TypeOK, Dated, Claims, Counted, Newer, Locked, Start
  <1>3. QED
    BY <1>1, <1>2 DEF JobsInv

LEMMA BeginSafe ==
  ASSUME JobsInv, NEW g \in Gateways, NEW c \in Callers, Begin(g, c)
  PROVE  JobsInv'
  <1> DEFINE run == [NoRun EXCEPT !.at = "fetching", !.today = day, !.types = CalendarTypes]
  <1>1. run.at = "fetching" /\ run.today = day /\ run.types = <<"FOREX", "METALS">> /\ run.got = NoRun.got
        /\ run.picked = {} /\ run.found = NoRun.found
    BY DEF NoRun, CalendarTypes
  <1>2. run \in RunType
    <2>1. \A r \in RunType, d \in Nat, s \in Seq(TypeNames) :
            [r EXCEPT !.at = "fetching", !.today = d, !.types = s] \in RunType
      BY DEF RunType, Phases
    <2>2. day \in Nat
      BY BoundsAssumption DEF JobsInv, RowsInv, TypeOK
    <2>3. CalendarTypes \in Seq(TypeNames)
      <3>1. \A S : \A x, y \in S : <<x, y>> \in Seq(S)
        OBVIOUS
      <3>2. QED
        BY <3>1 DEF CalendarTypes, TypeNames
    <2>4. QED
      BY <2>1, <2>2, <2>3, NoRunType
  <1>3. DOMAIN run.got = {} /\ Locked(run) = {}
    BY <1>1 DEF NoRun, Locked
  <1>4. runs' = [runs EXCEPT ![g][c] = run] /\ UNCHANGED <<day, upstream, rows, requests>>
    BY DEF Begin
  <1>5. run.today \in 1 .. MaxDay /\ run.types # <<>> /\ run.at # "idle"
    <2>1. day \in 1 .. MaxDay
      BY DEF JobsInv, RowsInv, TypeOK
    <2>2. <<"FOREX", "METALS">> # <<>>
      OBVIOUS
    <2>3. QED
      BY <1>1, <2>1, <2>2
  <1>6. RowsInv'
    BY <1>2, <1>3, <1>4, <1>5, RunMoves
  <1>7. CronsOK'
    BY DEF JobsInv, CronsOK, Begin
  <1>8. OneRun'
    <2>1. \A h \in Gateways, d \in Callers :
            runs'[h][d].at = IF h = g /\ d = c THEN "fetching" ELSE runs[h][d].at
      BY <1>1, <1>4 DEF JobsInv, RowsInv, TypeOK
    <2>2. \A h \in Gateways : /\ crons'[h].state = crons[h].state
                              /\ crons'[h].running = IF h = g THEN TRUE ELSE crons[h].running
      BY DEF Begin, JobsInv, CronsOK
    <2>3. \A d \in Callers : runs[g][d].at = "idle"
      BY DEF JobsInv, OneRun, Begin, MayBegin
    <2>4. crons[g].state # "started" => c # "loop"
      BY DEF Begin
    <2>5. ASSUME NEW h \in Gateways, h # g
          PROVE  /\ crons'[h].running <=> (\E d \in Callers : runs'[h][d].at # "idle")
                 /\ runs'[h]["loop"].at = "idle" \/ runs'[h]["run_once"].at = "idle"
                 /\ crons'[h].state # "started" => runs'[h]["loop"].at = "idle"
      <3>1. crons'[h] = crons[h]
        BY <2>5 DEF Begin, JobsInv, CronsOK
      <3>2. \A d \in Callers : runs'[h][d].at = runs[h][d].at
        BY <2>1, <2>5
      <3>3. QED
        BY <3>1, <3>2 DEF JobsInv, OneRun, Callers
    <2>6. /\ crons'[g].running <=> (\E d \in Callers : runs'[g][d].at # "idle")
          /\ runs'[g]["loop"].at = "idle" \/ runs'[g]["run_once"].at = "idle"
          /\ crons'[g].state # "started" => runs'[g]["loop"].at = "idle"
      <3>1. crons'[g].running /\ runs'[g][c].at = "fetching" /\ \A d \in Callers \ {c} : runs'[g][d].at = "idle"
        BY <2>1, <2>2, <2>3
      <3>2. QED
        BY <2>2, <2>4, <3>1 DEF Callers
    <2>7. QED
      BY <2>5, <2>6 DEF OneRun
  <1>9. QED
    BY <1>6, <1>7, <1>8 DEF JobsInv

LEMMA StopSafe ==
  ASSUME JobsInv, NEW g \in Gateways, Stop(g)
  PROVE  JobsInv'
  <1>1. /\ runs' = [runs EXCEPT ![g] = [d \in Callers |-> IF d \in {"loop"} THEN NoRun ELSE runs[g][d]]]
        /\ rows' \in {rows, Committed(g, runs[g]["loop"])} /\ UNCHANGED <<day, upstream, requests>>
    BY DEF JobsInv, RowsInv, TypeOK, Stop, Interrupt
  <1>2. RowsInv'
    BY <1>1, RunsEnd DEF Callers
  <1>3. CronsOK'
    BY DEF JobsInv, CronsOK, Stop
  <1>4. OneRun'
    <2>1. \A h \in Gateways \ {g} : crons'[h] = crons[h] /\ \A d \in Callers : runs'[h][d] = runs[h][d]
      BY <1>1 DEF Stop, JobsInv, RowsInv, TypeOK, CronsOK
    <2>2. runs'[g]["loop"].at = "idle" /\ runs'[g]["run_once"].at = runs[g]["run_once"].at
      BY <1>1 DEF JobsInv, RowsInv, TypeOK, NoRun, Callers
    <2>3. crons'[g].running <=> crons[g].running /\ runs[g]["loop"].at = "idle"
      BY DEF Stop, JobsInv, CronsOK
    <2>4. ASSUME NEW h \in Gateways \ {g}
          PROVE  /\ crons'[h].running <=> (\E d \in Callers : runs'[h][d].at # "idle")
                 /\ runs'[h]["loop"].at = "idle" \/ runs'[h]["run_once"].at = "idle"
                 /\ crons'[h].state # "started" => runs'[h]["loop"].at = "idle"
      BY <2>1 DEF JobsInv, OneRun, Callers
    <2>5. crons'[g].running <=> (\E d \in Callers : runs'[g][d].at # "idle")
      BY <2>2, <2>3 DEF JobsInv, OneRun, Callers
    <2>6. ASSUME NEW h \in Gateways
          PROVE  /\ crons'[h].running <=> (\E d \in Callers : runs'[h][d].at # "idle")
                 /\ runs'[h]["loop"].at = "idle" \/ runs'[h]["run_once"].at = "idle"
                 /\ crons'[h].state # "started" => runs'[h]["loop"].at = "idle"
      <3>1. CASE h = g
        BY <2>2, <2>5, <3>1
      <3>2. CASE h # g
        BY <2>4, <3>2
      <3>3. QED
        BY <3>1, <3>2
    <2>7. QED
      BY <2>6 DEF OneRun
  <1>5. QED
    BY <1>2, <1>3, <1>4 DEF JobsInv

LEMMA DownSafe ==
  ASSUME JobsInv, NEW g \in Gateways, Down(g)
  PROVE  JobsInv'
  <1>1. /\ runs' = [runs EXCEPT ![g] = [d \in Callers |-> IF d \in Callers THEN NoRun ELSE runs[g][d]]]
        /\ UNCHANGED <<day, upstream, requests>>
    BY DEF JobsInv, RowsInv, TypeOK, Down, Interrupt
  <1>2. PICK c \in Callers : rows' \in {rows, Committed(g, runs[g][c])}
    BY DEF Down, Interrupt, Callers
  <1>3. RowsInv'
    BY <1>1, <1>2, RunsEnd
  <1>4. CronsOK'
    BY DEF JobsInv, CronsOK, Down, Manager
  <1>5. OneRun'
    <2>1. \A h \in Gateways \ {g} : crons'[h] = crons[h] /\ \A d \in Callers : runs'[h][d] = runs[h][d]
      BY <1>1 DEF Down, JobsInv, RowsInv, TypeOK, CronsOK
    <2>2. \A d \in Callers : runs'[g][d].at = "idle"
      BY <1>1 DEF JobsInv, RowsInv, TypeOK, NoRun
    <2>3. ~crons'[g].running
      BY DEF Down, Manager, JobsInv, CronsOK
    <2>4. ASSUME NEW h \in Gateways \ {g}
          PROVE  /\ crons'[h].running <=> (\E d \in Callers : runs'[h][d].at # "idle")
                 /\ runs'[h]["loop"].at = "idle" \/ runs'[h]["run_once"].at = "idle"
                 /\ crons'[h].state # "started" => runs'[h]["loop"].at = "idle"
      BY <2>1 DEF JobsInv, OneRun, Callers
    <2>5. QED
      BY <2>2, <2>3, <2>4 DEF OneRun, Callers
  <1>6. QED
    BY <1>3, <1>4, <1>5 DEF JobsInv
-----------------------------------------------------------------------------
(* refresh.  A run that writes goes on with nothing locked.                *)
LEMMA RunWrites ==
  ASSUME JobsInv, NEW g \in Gateways, NEW c \in Callers, NEW run \in RunType,
         run.at \notin {"idle", "fetching", "claiming"}, run.today \in 1 .. MaxDay,
         \A e \in DOMAIN run.got : e \in DOMAIN runs[g][c].got /\ run.got[e] = runs[g][c].got[e],
         runs' = [runs EXCEPT ![g][c] = run],
         rows' \in {rows, Committed(g, runs[g][c])},
         requests' \in [Events -> [1 .. MaxDay -> Nat]], Counted', runs[g][c].at # "idle",
         UNCHANGED <<day, upstream>>
  PROVE  RowsInv'
  <1>1. /\ rows' \in [Events -> RowType]
        /\ \A e \in Events :
             /\ rows'[e].attempted # rows[e].attempted => e \in Locked(runs[g][c])
             /\ \/ rows'[e].version = rows[e].version /\ rows'[e].by = rows[e].by
                \/ /\ e \in DOMAIN runs[g][c].got
                   /\ rows'[e].version = runs[g][c].got[e].version /\ rows'[e].by = g
    BY WriteFacts
  <1>2. \A h \in Gateways, d \in Callers :
          runs'[h][d] = IF h = g /\ d = c THEN run ELSE runs[h][d]
    BY DEF JobsInv, RowsInv, TypeOK
  <1>3. Locked(run) = {}
    BY DEF Locked
  <1>4. TypeOK'
    BY <1>1 DEF JobsInv, RowsInv, TypeOK
  <1>5. Dated'
    BY <1>2 DEF JobsInv, RowsInv, Dated
  <1>6. Claims'
    <2> SUFFICES ASSUME NEW h \in Gateways, NEW d \in Callers, NEW e \in Locked(runs'[h][d])
                 PROVE  /\ rows'[e].attempted < runs'[h][d].today
                        /\ \A k \in Gateways, b \in Callers :
                             e \in Locked(runs'[k][b]) => <<k, b>> = <<h, d>>
      BY DEF Claims, Locked
    <2>1. ~(h = g /\ d = c) /\ runs'[h][d] = runs[h][d] /\ e \in Locked(runs[h][d])
      BY <1>2, <1>3
    <2>2. ASSUME e \in Locked(runs[g][c]) PROVE FALSE
      <3>1. <<g, c>> = <<h, d>>
        BY <2>1, <2>2 DEF JobsInv, RowsInv, Claims
      <3>2. QED
        BY <2>1, <3>1
    <2>3. e \in Events
      BY <2>1 DEF JobsInv, RowsInv, TypeOK, RunType, Locked
    <2>4. rows'[e].attempted = rows[e].attempted
      BY <1>1, <2>2, <2>3
    <2>5. \A k \in Gateways, b \in Callers : e \in Locked(runs'[k][b]) => e \in Locked(runs[k][b])
      BY <1>2, <1>3
    <2>6. QED
      BY <2>1, <2>4, <2>5 DEF JobsInv, RowsInv, Claims
  <1>7. Newer'
    <2>1. ASSUME NEW e \in Events PROVE rows'[e].version <= upstream[e]
      BY <1>1 DEF JobsInv, RowsInv, Newer
    <2>2. ASSUME NEW h \in Gateways, NEW d \in Callers, NEW e \in DOMAIN runs'[h][d].got
          PROVE  /\ runs'[h][d].got[e].version <= upstream[e]
                 /\ rows'[e].by = h => rows'[e].version <= runs'[h][d].got[e].version
      <3>1. e \in DOMAIN runs[h][d].got /\ runs'[h][d].got[e] = runs[h][d].got[e]
        BY <1>2, <2>2
      <3>2. e \in Events /\ runs[h][d].got[e].version \in Nat
        BY <3>1, PartType DEF JobsInv, RowsInv, TypeOK, RunType
      <3>3. h = g /\ e \in DOMAIN runs[g][c].got => d = c
        BY <3>1 DEF JobsInv, RowsInv, Dated, OneRun, Callers
      <3>4. /\ runs[h][d].got[e].version <= upstream[e]
            /\ rows[e].by = h => rows[e].version <= runs[h][d].got[e].version
        BY <3>1 DEF JobsInv, RowsInv, Newer
      <3>5. CASE rows'[e].version = rows[e].version /\ rows'[e].by = rows[e].by
        BY <3>1, <3>4, <3>5
      <3>6. CASE /\ e \in DOMAIN runs[g][c].got
                 /\ rows'[e].version = runs[g][c].got[e].version /\ rows'[e].by = g
        <4>1. CASE h = g
          BY <3>1, <3>2, <3>3, <3>4, <3>6, <4>1
        <4>2. CASE h # g
          BY <3>1, <3>4, <3>6, <4>2
        <4>3. QED
          BY <4>1, <4>2
      <3>7. QED
        BY <1>1, <3>2, <3>5, <3>6
    <2>3. QED
      BY <2>1, <2>2 DEF Newer
  <1>8. QED
    BY <1>4, <1>5, <1>6, <1>7 DEF RowsInv

LEMMA FetchSafe ==
  ASSUME JobsInv, NEW g \in Gateways, NEW c \in Callers, Fetch(g, c)
  PROVE  JobsInv'
  <1> DEFINE run == runs[g][c]
             events == FetchEvents(Head(run.types), run.today, upstream)
             got == [e \in DOMAIN run.got \cup DOMAIN events |->
                       IF e \in DOMAIN events THEN events[e] ELSE run.got[e]]
             next == [run EXCEPT !.got = got, !.types = Tail(@),
                                 !.at = IF Len(run.types) = 1 THEN "upserting" ELSE @]
  <1>1. run \in RunType /\ run.at = "fetching" /\ run.types \in Seq(TypeNames) /\ run.types # <<>>
        /\ run.got \in Parts /\ run.today \in 1 .. MaxDay /\ UNCHANGED <<day, upstream, rows, requests>>
    BY DEF Fetch, JobsInv, RowsInv, TypeOK, RunType, Dated
  <1>2. CASE Fail(g, c)
    BY <1>1, <1>2, RunEnds
  <1>3. CASE Proceed(g, c, next)
    <2>1. \A e \in DOMAIN events : e \in Events /\ events[e] = [version |-> upstream[e], details |-> {}]
      BY DEF FetchEvents
    <2>2. \A e \in DOMAIN run.got : e \in Events /\ run.got[e] \in [version : Nat, details : SUBSET Fields]
      BY <1>1, PartType
    <2>3. got \in Parts
      <3>1. DOMAIN run.got \cup DOMAIN events \in SUBSET Events
        BY <2>1, <2>2
      <3>2. \A e \in Events : [version |-> upstream[e], details |-> {}] \in [version : Nat, details : SUBSET Fields]
        BY DEF JobsInv, RowsInv, TypeOK
      <3> HIDE DEF events
      <3>3. got \in [DOMAIN run.got \cup DOMAIN events -> [version : Nat, details : SUBSET Fields]]
        BY <2>1, <2>2, <3>2
      <3>4. QED
        BY <3>1, <3>3 DEF Parts
    <2>4. Tail(run.types) \in Seq(TypeNames) /\ (Len(run.types) # 1 => Tail(run.types) # <<>>)
      <3>1. Tail(run.types) \in Seq(TypeNames) /\ Len(Tail(run.types)) = Len(run.types) - 1
        <4>1. \A S : \A s \in Seq(S) : s # <<>> => Tail(s) \in Seq(S) /\ Len(Tail(s)) = Len(s) - 1
          BY HeadTailProperties, Zenon
        <4>2. QED
          BY <1>1, <4>1
      <3>2. Len(<<>>) = 0 /\ Len(run.types) \in Nat
        BY <1>1, LenProperties, EmptySeq, Zenon
      <3>3. Tail(run.types) = <<>> => Len(Tail(run.types)) = 0
        BY <3>2, Zenon
      <3>4. Len(Tail(run.types)) = 0 => Len(run.types) = 1
        BY <3>1, <3>2
      <3>5. QED
        BY <3>1, <3>3, <3>4, Zenon
    <2>5. /\ next.got = got /\ next.types = Tail(run.types) /\ next.today = run.today
          /\ next.at = IF Len(run.types) = 1 THEN "upserting" ELSE "fetching"
          /\ next \in RunType
      <3> HIDE DEF got
      <3>1. QED
        BY <1>1, <2>3, <2>4 DEF RunType, Phases
    <2> HIDE DEF next, events
    <2>6. runs' = [runs EXCEPT ![g][c] = next] /\ crons' = crons
      BY <1>3, <2>5 DEF Proceed
    <2>7. Locked(next) = {}
      BY <2>5 DEF Locked
    <2>8. ASSUME NEW e \in DOMAIN next.got
          PROVE  /\ next.got[e].version <= upstream[e]
                 /\ rows[e].by = g => rows[e].version <= next.got[e].version
      <3>1. CASE e \in DOMAIN events
        <4>1. next.got[e].version = upstream[e] /\ e \in Events
          BY <2>1, <2>5, <3>1
        <4>2. QED
          BY <4>1 DEF JobsInv, RowsInv, TypeOK, Newer
      <3>2. CASE e \notin DOMAIN events
        <4>1. e \in DOMAIN run.got /\ next.got[e] = run.got[e]
          BY <2>5, <2>8, <3>2
        <4>2. QED
          BY <4>1 DEF JobsInv, RowsInv, Newer
      <3>3. QED
        BY <3>1, <3>2
    <2>9. RowsInv'
      BY <1>1, <2>4, <2>5, <2>6, <2>7, <2>8, RunMoves
    <2>10. CronsOK' /\ OneRun'
      BY <1>1, <2>5, <2>6, StaysAtWork
    <2>11. QED
      BY <2>9, <2>10 DEF JobsInv
  <1>4. QED
    BY <1>2, <1>3 DEF Fetch

LEMMA UpsertSafe ==
  ASSUME JobsInv, NEW g \in Gateways, NEW c \in Callers, Upsert(g, c)
  PROVE  JobsInv'
  <1> DEFINE run == runs[g][c]
             next == [run EXCEPT !.at = "selecting", !.got = NoRun.got]
  <1>1. run \in RunType /\ run.at = "upserting" /\ run.today \in 1 .. MaxDay /\ UNCHANGED <<day, upstream, requests>>
    BY DEF Upsert, JobsInv, RowsInv, TypeOK, Dated
  <1>2. CASE Fail(g, c) /\ rows' \in {rows, Committed(g, run)}
    BY <1>1, <1>2, RunEnds
  <1>3. CASE Proceed(g, c, next) /\ rows' = Committed(g, run)
    <2>1. NoRun.got \in Parts /\ DOMAIN NoRun.got = {}
      BY NoRunType DEF RunType, NoRun
    <2>2. next.at = "selecting" /\ next.got = NoRun.got /\ next.today = run.today /\ next \in RunType
      BY <1>1, <2>1 DEF RunType, Phases
    <2> HIDE DEF next
    <2>3. runs' = [runs EXCEPT ![g][c] = next] /\ crons' = crons
      BY <1>3, <2>2 DEF Proceed
    <2>4. requests' \in [Events -> [1 .. MaxDay -> Nat]]
      BY <1>1 DEF JobsInv, RowsInv, TypeOK
    <2>5. Counted'
      <3>1. \A e \in Events : rows[e].attempted \in Nat /\ rows'[e].attempted \in Nat
                              /\ rows[e].attempted <= rows'[e].attempted
        BY <1>3, WriteFacts DEF JobsInv, RowsInv, TypeOK, RowType
      <3>2. QED
        BY <1>1, <3>1 DEF JobsInv, RowsInv, Counted
    <2>6. RowsInv'
      BY <1>1, <1>3, <2>1, <2>2, <2>3, <2>4, <2>5, RunWrites
    <2>7. CronsOK' /\ OneRun'
      BY <1>1, <2>2, <2>3, StaysAtWork
    <2>8. QED
      BY <2>6, <2>7 DEF JobsInv
  <1>4. QED
    BY <1>2, <1>3 DEF Upsert

LEMMA SelectSafe ==
  ASSUME JobsInv, NEW g \in Gateways, NEW c \in Callers, Select(g, c)
  PROVE  JobsInv'
  <1> DEFINE run == runs[g][c]
             free == Events \ UNION {Locked(other) : other \in Others(g, c)}
             picked(skipped) == {e \in free \ skipped : Candidate(e, rows[e], run.today)}
             next(skipped) == [run EXCEPT !.at = "claiming", !.picked = picked(skipped)]
  <1>1. run \in RunType /\ run.at = "selecting" /\ run.today \in 1 .. MaxDay
        /\ UNCHANGED <<day, upstream, rows, requests>>
    BY DEF Select, JobsInv, RowsInv, TypeOK, Dated
  <1>2. CASE Fail(g, c)
    BY <1>1, <1>2, RunEnds
  <1>3. ASSUME NEW skipped, Proceed(g, c, next(skipped))
        PROVE  JobsInv'
    <2>1. picked(skipped) \in SUBSET Events
      OBVIOUS
    <2>2. \A e \in picked(skipped) : e \in free /\ rows[e].attempted < run.today
      BY DEF Candidate, Unattempted
    <2> DEFINE new == next(skipped)
    <2>3. new.at = "claiming" /\ new.picked = picked(skipped) /\ new.today = run.today /\ new.got = run.got
          /\ new \in RunType
      <3> HIDE DEF picked
      <3>1. QED
        BY <1>1, <2>1 DEF RunType, Phases
    <2> HIDE DEF next
    <2>4. runs' = [runs EXCEPT ![g][c] = new] /\ crons' = crons
      BY <1>3, <2>3 DEF Proceed
    <2> HIDE DEF new
    <2>5. ASSUME NEW e \in Locked(new)
          PROVE  /\ rows[e].attempted < new.today
                 /\ \A h \in Gateways, d \in Callers : e \in Locked(runs[h][d]) => <<h, d>> = <<g, c>>
      <3>1. e \in picked(skipped)
        BY <2>3, <2>5 DEF Locked
      <3>2. e \in free /\ rows[e].attempted < new.today
        BY <2>2, <2>3, <3>1
      <3>3. ASSUME NEW h \in Gateways, NEW d \in Callers, <<h, d>> # <<g, c>>
            PROVE  e \notin Locked(runs[h][d])
        <4>1. <<h, d>> \in AllRuns \ {<<g, c>>}
          BY <3>3 DEF AllRuns
        <4>2. runs[h][d] \in Others(g, c)
          BY <4>1 DEF Others
        <4>3. QED
          BY <3>2, <4>2
      <3>4. QED
        BY <3>2, <3>3
    <2>6. \A e \in DOMAIN new.got : /\ new.got[e].version <= upstream[e]
                                    /\ rows[e].by = g => rows[e].version <= new.got[e].version
      BY <2>3 DEF JobsInv, RowsInv, Newer
    <2>7. RowsInv'
      BY <1>1, <2>3, <2>4, <2>5, <2>6, RunMoves
    <2>8. CronsOK' /\ OneRun'
      BY <1>1, <2>3, <2>4, StaysAtWork
    <2>9. QED
      BY <2>7, <2>8 DEF JobsInv
  <1>4. QED
    BY <1>2, <1>3 DEF Select

LEMMA ClaimSafe ==
  ASSUME JobsInv, NEW g \in Gateways, NEW c \in Callers, Claim(g, c)
  PROVE  JobsInv'
  <1> DEFINE run == runs[g][c]
             next == [run EXCEPT !.at = IF run.picked = {} THEN "idle" ELSE "requesting"]
             asked == [e \in Events |-> IF e \in run.picked THEN [requests[e] EXCEPT ![run.today] = @ + 1]
                                                            ELSE requests[e]]
  <1>1. run \in RunType /\ run.at = "claiming" /\ run.today \in 1 .. MaxDay /\ UNCHANGED <<day, upstream>>
        /\ run.picked \in SUBSET Events /\ requests \in [Events -> [1 .. MaxDay -> Nat]]
    BY DEF Claim, JobsInv, RowsInv, TypeOK, Dated, RunType
  <1>2. CASE Fail(g, c) /\ rows' \in {rows, Committed(g, run)} /\ UNCHANGED requests
    BY <1>1, <1>2, RunEnds
  <1>3. ASSUME Proceed(g, c, next), rows' = Committed(g, run), requests' = asked
        PROVE  JobsInv'
    <2>1. /\ next.at = IF run.picked = {} THEN "idle" ELSE "requesting"
          /\ next.got = run.got /\ next.today = run.today /\ next \in RunType
      BY <1>1 DEF RunType, Phases
    <2> HIDE DEF next
    <2>2. CASE run.picked = {}
      <3>1. Fail(g, c)
        BY <1>3, <2>1, <2>2 DEF Proceed, Fail
      <3>2. requests' = requests
        BY <1>1, <1>3, <2>2
      <3>3. QED
        BY <1>1, <1>3, <3>1, <3>2, RunEnds
    <2>3. CASE run.picked # {}
      <3>1. runs' = [runs EXCEPT ![g][c] = next] /\ crons' = crons /\ next.at = "requesting"
        BY <1>3, <2>1, <2>3 DEF Proceed
      <3>2. requests' \in [Events -> [1 .. MaxDay -> Nat]]
        <4>1. \A f \in [1 .. MaxDay -> Nat], d \in 1 .. MaxDay : [f EXCEPT ![d] = @ + 1] \in [1 .. MaxDay -> Nat]
          OBVIOUS
        <4>2. QED
          BY <1>1, <1>3, <4>1
      <3>3. Counted'
        <4>1. ASSUME NEW e \in Events, NEW d \in 1 .. MaxDay
              PROVE  requests'[e][d] <= 1 /\ (requests'[e][d] = 1 => d <= rows'[e].attempted)
          <5>1. requests[e][d] \in Nat /\ requests[e][d] <= 1 /\ (requests[e][d] = 1 => d <= rows[e].attempted)
            BY <1>1 DEF JobsInv, RowsInv, Counted
          <5>2. rows[e].attempted \in Nat /\ rows'[e].attempted \in Nat /\ rows[e].attempted <= rows'[e].attempted
            BY <1>3, WriteFacts DEF JobsInv, RowsInv, TypeOK, RowType
          <5>3. CASE e \in run.picked /\ d = run.today
            <6>1. rows[e].attempted < run.today
              BY <1>1, <5>3 DEF JobsInv, RowsInv, Claims, Locked
            <6>2. rows'[e].attempted = run.today
              BY <1>1, <1>3, <5>3 DEF Committed, Overlay, Claimed, JobsInv, RowsInv, TypeOK, RowType
            <6>3. requests'[e][d] = requests[e][d] + 1
              BY <1>1, <1>3, <5>3
            <6>4. QED
              BY <1>1, <5>1, <5>2, <5>3, <6>1, <6>2, <6>3
          <5>4. CASE ~(e \in run.picked /\ d = run.today)
            <6>1. requests'[e][d] = requests[e][d]
              BY <1>1, <1>3, <5>4
            <6>2. QED
              BY <5>1, <5>2, <6>1
          <5>5. QED
            BY <5>3, <5>4
        <4>2. QED
          BY <4>1 DEF Counted
      <3>4. RowsInv'
        BY <1>1, <1>3, <2>1, <3>1, <3>2, <3>3, RunWrites
      <3>5. CronsOK' /\ OneRun'
        BY <1>1, <2>1, <3>1, StaysAtWork
      <3>6. QED
        BY <3>4, <3>5 DEF JobsInv
    <2>4. QED
      BY <2>2, <2>3
  <1>4. QED
    BY <1>2, <1>3 DEF Claim

LEMMA RequestSafe ==
  ASSUME JobsInv, NEW g \in Gateways, NEW c \in Callers, Request(g, c)
  PROVE  JobsInv'
  <1> DEFINE run == runs[g][c]
             usable(found) == {e \in run.picked : found[e] # {}}
             next(found) == [run EXCEPT !.picked = {}, !.found = [e \in usable(found) |-> found[e]],
                                        !.at = IF usable(found) = {} THEN "idle" ELSE "updating"]
  <1>1. run \in RunType /\ run.at = "requesting" /\ run.today \in 1 .. MaxDay
        /\ run.picked \in SUBSET Events /\ UNCHANGED <<day, upstream, rows, requests>>
    BY DEF Request, JobsInv, RowsInv, TypeOK, Dated, RunType
  <1>2. PICK found \in [run.picked -> SUBSET Fields] : Proceed(g, c, next(found))
    BY DEF Request
  <1> DEFINE new == next(found)
  <1>3. [e \in usable(found) |-> found[e]] \in Details
    <2>1. usable(found) \in SUBSET Events
      BY <1>1
    <2>2. [e \in usable(found) |-> found[e]] \in [usable(found) -> SUBSET Fields]
      OBVIOUS
    <2>3. QED
      BY <2>1, <2>2, Zenon DEF Details
  <1>4. /\ new.at \in {"idle", "updating"} /\ new.picked = {} /\ new.today = run.today /\ new.got = run.got
        /\ new \in RunType
    <2> HIDE DEF usable
    <2>1. QED
      BY <1>1, <1>3 DEF RunType, Phases
  <1> HIDE DEF next
  <1>5. Proceed(g, c, new)
    BY <1>2
  <1> HIDE DEF new
  <1>6. CASE new.at = "idle"
    <2>1. Fail(g, c)
      BY <1>5, <1>6 DEF Proceed, Fail
    <2>2. QED
      BY <1>1, <2>1, RunEnds
  <1>7. CASE new.at = "updating"
    <2>1. runs' = [runs EXCEPT ![g][c] = new] /\ crons' = crons
      BY <1>5, <1>7 DEF Proceed
    <2>2. Locked(new) = {}
      BY <1>7 DEF Locked
    <2>3. \A e \in DOMAIN new.got : /\ new.got[e].version <= upstream[e]
                                    /\ rows[e].by = g => rows[e].version <= new.got[e].version
      BY <1>4 DEF JobsInv, RowsInv, Newer
    <2>4. RowsInv'
      BY <1>1, <1>4, <1>7, <2>1, <2>2, <2>3, RunMoves
    <2>5. CronsOK' /\ OneRun'
      BY <1>1, <1>4, <1>7, <2>1, StaysAtWork
    <2>6. QED
      BY <2>4, <2>5 DEF JobsInv
  <1>8. QED
    BY <1>4, <1>6, <1>7

LEMMA UpdateSafe ==
  ASSUME JobsInv, NEW g \in Gateways, NEW c \in Callers, Update(g, c)
  PROVE  JobsInv'
  <1>1. runs[g][c].at # "idle" /\ rows' \in {rows, Committed(g, runs[g][c])} /\ UNCHANGED <<day, upstream, requests>>
    BY DEF Update
  <1>2. [runs[g][c] EXCEPT !.at = "idle"].at = "idle"
    BY DEF JobsInv, RowsInv, TypeOK, RunType
  <1>3. Fail(g, c)
    BY <1>2 DEF Update, Proceed, Fail
  <1>4. QED
    BY <1>1, <1>3, RunEnds

-----------------------------------------------------------------------------
LEMMA NextSafe == JobsInv /\ [Next]_vars => JobsInv'
  <1> SUFFICES ASSUME JobsInv, [Next]_vars PROVE JobsInv'
    OBVIOUS
  <1>1. ASSUME NEW g \in Gateways, Start(g) \/ Stop(g) \/ Down(g)
        PROVE  JobsInv'
    BY <1>1, StartSafe, StopSafe, DownSafe
  <1>2. ASSUME NEW g \in Gateways, NEW c \in Callers,
               \/ Begin(g, c) \/ Fetch(g, c) \/ Upsert(g, c) \/ Select(g, c)
               \/ Claim(g, c) \/ Request(g, c) \/ Update(g, c)
        PROVE  JobsInv'
    BY <1>2, BeginSafe, FetchSafe, UpsertSafe, SelectSafe, ClaimSafe, RequestSafe, UpdateSafe
  <1>3. QED
    BY <1>1, <1>2, NextDaySafe, PublishSafe, StutterSafe DEF Next

(* However many gateways refresh the calendar, start, stop and crash: the  *)
(* types, the rows, the locks and the requests agree (cronjob.py,          *)
(* economic_calendar_refresh.py, repositories.py).                         *)
THEOREM JobsCorrect == Spec => []JobsInv
  BY InitSafe, NextSafe, PTL DEF Spec

(* An event's details are requested at most once for a UTC day             *)
(* (repositories.py:343, economic_calendar_refresh.py:44).                 *)
THEOREM OncePerDayCorrect == Spec => []OncePerDay
  <1>1. JobsInv => OncePerDay
    BY DEF JobsInv, RowsInv, Counted, OncePerDay
  <1>2. QED
    BY <1>1, JobsCorrect, PTL

(* At most one run of the job is at work in a process, and the status says *)
(* so exactly (cronjob.py:81, :141-212).                                   *)
THEOREM RunningIsTrueCorrect == Spec => []RunningIsTrue
  <1>1. JobsInv => RunningIsTrue
    <2> SUFFICES ASSUME JobsInv, NEW g \in Gateways
                 PROVE  LET working == {c \in Callers : runs[g][c].at # "idle"} IN
                        /\ crons[g].running = (working # {})
                        /\ Cardinality(working) <= 1
                        /\ crons[g].state # "started" => "loop" \notin working
      BY DEF RunningIsTrue
    <2> DEFINE working == {c \in Callers : runs[g][c].at # "idle"}
    <2>1. working \in {{}, {"loop"}, {"run_once"}}
      BY DEF JobsInv, OneRun, Callers
    <2>2. Cardinality(working) <= 1
      <3>1. Cardinality({}) = 0 /\ Cardinality({"loop"}) = 1 /\ Cardinality({"run_once"}) = 1
        BY FS_EmptySet, FS_Singleton
      <3> HIDE DEF working
      <3>2. CASE working = {}
        BY <3>1, <3>2
      <3>3. CASE working = {"loop"}
        BY <3>1, <3>3
      <3>4. CASE working = {"run_once"}
        BY <3>1, <3>4
      <3>5. QED
        BY <2>1, <3>2, <3>3, <3>4
    <2>3. crons[g].running \in BOOLEAN /\ (crons[g].running <=> working # {})
      BY DEF JobsInv, CronsOK, OneRun
    <2>4. crons[g].state # "started" => "loop" \notin working
      BY DEF JobsInv, OneRun
    <2> HIDE DEF working
    <2>5. crons[g].running = (working # {})
      BY <2>3, Zenon
    <2>6. QED
      BY <2>2, <2>4, <2>5 DEF working
  <1>2. QED
    BY <1>1, JobsCorrect, PTL

(* What a step does to the table: nothing, or what the transaction of one  *)
(* run does.                                                               *)
LEMMA OneWriter ==
  ASSUME JobsInv, [Next]_vars
  PROVE  \/ rows' = rows
         \/ \E g \in Gateways, c \in Callers : rows' = Committed(g, runs[g][c])
  <1>1. ASSUME NEW g \in Gateways, Start(g) \/ Stop(g) \/ Down(g)
        PROVE  rows' = rows \/ \E c \in Callers : rows' = Committed(g, runs[g][c])
    BY <1>1 DEF Start, Stop, Down, Interrupt, Callers
  <1>2. ASSUME NEW g \in Gateways, NEW c \in Callers,
               \/ Begin(g, c) \/ Fetch(g, c) \/ Upsert(g, c) \/ Select(g, c)
               \/ Claim(g, c) \/ Request(g, c) \/ Update(g, c)
        PROVE  rows' = rows \/ rows' = Committed(g, runs[g][c])
    BY <1>2 DEF Begin, Fetch, Upsert, Select, Claim, Request, Update
  <1>3. CASE NextDay \/ Publish \/ UNCHANGED vars
    BY <1>3 DEF NextDay, Publish, vars
  <1>4. QED
    BY <1>1, <1>2, <1>3 DEF Next

(* A row never loses details or an attempt, and a refresh never puts back  *)
(* older content over what its own gateway wrote (repositories.py:282-289, *)
(* :387, :417-424; cronjob.py:143).                                        *)
THEOREM RowsImproveCorrect == Spec => RowsImprove
  <1> DEFINE Improves == \A e \in Events :
               /\ rows[e].details \subseteq rows'[e].details
               /\ rows[e].attempted <= rows'[e].attempted
               /\ rows'[e].version < rows[e].version => rows'[e].by # rows[e].by
  <1>1. JobsInv /\ [Next]_vars => [Improves]_vars
    <2> SUFFICES ASSUME JobsInv, [Next]_vars PROVE Improves
      BY DEF Improves
    <2>1. ASSUME NEW e \in Events
          PROVE  rows[e].attempted \in Nat /\ rows[e].version \in Nat
      BY DEF JobsInv, RowsInv, TypeOK, RowType
    <2>2. CASE rows' = rows
      BY <2>1, <2>2
    <2>3. ASSUME NEW g \in Gateways, NEW c \in Callers, rows' = Committed(g, runs[g][c])
          PROVE  Improves
      <3>1. ASSUME NEW e \in Events
            PROVE  /\ rows[e].details \subseteq rows'[e].details
                   /\ rows[e].attempted <= rows'[e].attempted
                   /\ \/ rows'[e].version = rows[e].version /\ rows'[e].by = rows[e].by
                      \/ /\ e \in DOMAIN runs[g][c].got
                         /\ rows'[e].version = runs[g][c].got[e].version /\ rows'[e].by = g
        BY <2>3, WriteFacts
      <3>2. ASSUME NEW e \in Events, rows'[e].version < rows[e].version, rows'[e].by = rows[e].by
            PROVE  FALSE
        <4>1. CASE rows'[e].version = rows[e].version
          BY <2>1, <3>2, <4>1
        <4>2. CASE e \in DOMAIN runs[g][c].got /\ rows'[e].version = runs[g][c].got[e].version /\ rows'[e].by = g
          <5>1. rows[e].version <= runs[g][c].got[e].version /\ runs[g][c].got[e].version \in Nat
            BY <3>2, <4>2, PartType DEF JobsInv, RowsInv, Newer, TypeOK, RunType
          <5>2. QED
            BY <2>1, <3>2, <4>2, <5>1
        <4>3. QED
          BY <3>1, <4>1, <4>2
      <3>3. QED
        BY <3>1, <3>2
    <2>4. QED
      BY <2>2, <2>3, OneWriter
  <1>2. QED
    BY <1>1, JobsCorrect, PTL DEF Spec, RowsImprove
=============================================================================
