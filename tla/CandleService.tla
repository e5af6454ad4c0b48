--------------------------- MODULE CandleService ---------------------------
(***************************************************************************)
(* CandleService and CountQueryExecution (src/app/services/candles.py,     *)
(* candle_count.py) with CandleCache, the candle table and the backfill    *)
(* command, for one symbol and timeframe.                                  *)
(*                                                                         *)
(* Gateway requests of the same key wait in line for one lock; the         *)
(* backfill is another process, with the same database, no cache and no    *)
(* lock.  Every await is a step boundary, at which time may pass, others   *)
(* may run, the call may fail and the client may be gone.                  *)
(*                                                                         *)
(* A candle is known by its open.  Its content is the time it was fetched, *)
(* until it closes: a version is final if it is the close time.            *)
(***************************************************************************)
EXTENDS CandleRequests

CONSTANTS
  Clients,      \* gateway requests
  Backfill,     \* the backfill process
  Requests,     \* what a client may ask for
  Start, End,   \* the range of the backfill
  El,           \* the opens the session policy admits
  Ttl,          \* CANDLE_FORMING_CACHE_TTL_SECONDS, in ticks
  ScanBudget,   \* slots a count may scan
  MaxNow        \* bound on the clock

Tasks == Clients \cup {Backfill}

ASSUME TasksAssumption == Backfill \notin Clients
ASSUME BoundsAssumption == Ttl \in Nat /\ ScanBudget \in Nat /\ MaxCandles \in Nat \ {0}

(* What parse_candle_request lets through.                                 *)
ASSUME RequestsAssumption ==
  \A r \in Requests :
    /\ DOMAIN r = {"error", "mode", "n", "direction", "start", "end"}
    /\ r.mode \in {"limit", "range", "count"} /\ r.direction \in {"forward", "backward", "range"}
    /\ r.start \in Int /\ r.end \in Int
    /\ r.mode # "range" => r.n \in 1 .. MaxCandles

VARIABLES
  now,      \* the clock
  db,       \* market_data_candles: [opens -> versions]
  cache,    \* the forming candle: None or [open, version, storedAt]
  line,     \* the single_flight lock: its holder and the tasks behind
  task,     \* the requests
  job,      \* the backfill: the chunks ahead and whether one has failed
  served    \* history: opens that clients have been answered as complete

vars == <<now, db, cache, line, task, job, served>>

None == [open |-> "none"]
Empty == [o \in {} |-> 0]

sch == FixedSchedule(Hour, 0)

(* The policy is only asked about the opens of the schedule.               *)
ASSUME ElAssumption == El \subseteq Int /\ \A o \in El : FirstOpen(sch, o) = o

Idle == [pc |-> "idle", req |-> Error(""), opens |-> <<>>, now |-> 0, current |-> None,
         have |-> Empty, todo |-> <<>>, got |-> Empty, merged |-> Empty,
         seen |-> {}, must |-> {}, offered |-> {}]

Init ==
  /\ now = 0
  /\ db = Empty /\ cache = None /\ line = <<>>
  /\ task = [c \in Tasks |-> Idle]
  /\ job = [chunks |-> Chunks(sch, Start, End, MaxCandles), failed |-> FALSE]
  /\ served = {}

-----------------------------------------------------------------------------
(* CandleCache.                                                            *)

(* Mutant of Valid: a snapshot lasts until its candle closes.              *)
ValidUntilClose(t) == cache # None /\ t < CloseTime(sch, cache.open)

Valid(t) == cache # None /\ t < CloseTime(sch, cache.open) /\ t - cache.storedAt <= Ttl

(* get evicts what is not valid.                                           *)
Lookup(c, t) == IF c = Backfill \/ Valid(t) THEN cache ELSE None

(* put, of every forming candle of a fetch, in the order of opens; the     *)
(* last one stays.                                                         *)
Put(forming, versions, t) ==
  LET new == {o \in forming : t < CloseTime(sch, o)} IN
  IF new = {} THEN cache
  ELSE [open |-> Max(new), version |-> versions[Max(new)], storedAt |-> t]

(* Mutant of Leave: the lock is not released.                              *)
LeaveHeld(c) == line

(* The end of async with single_flight, however the request ends.  The     *)
(* backfill is never in line.                                              *)
Leave(c) ==
  IF c = Backfill THEN line ELSE RemoveAt(line, CHOOSE i \in DOMAIN line : line[i] = c)

-----------------------------------------------------------------------------
(* The cursor of a count: the next page, or none left.                     *)
PageSize(t) ==
  LET capacity == IF MaxCandles > 1 THEN MaxCandles - 1 ELSE 1
      sizes    == {capacity, ScanBudget - Cardinality(t.seen)}
                  \cup (IF t.seen = {} THEN {t.req.n} ELSE {})
  IN  Min(sizes)

Page(t) ==
  IF t.req.direction = "forward"
  THEN NextOpens(sch, IF t.seen = {} THEN t.req.start ELSE Max(t.seen) + Hour, PageSize(t), El)
  ELSE LatestOpens(sch, IF t.seen = {} THEN t.req.end ELSE Min(t.seen), PageSize(t), El)

(* The task with a window of opens to resolve.                             *)
Resolve(t, opens) ==
  [t EXCEPT !.pc = "read", !.opens = opens, !.seen = @ \cup ToSet(opens), !.got = Empty]

(* The open of the window that the cache has.                              *)
Cached(t) == IF t.current = None THEN {} ELSE {t.current.open} \cap ToSet(t.opens)

(* The opens to fetch.  A count asks for its whole page.                   *)
Gaps(t) ==
  LET gaps == FindGaps(sch, DOMAIN t.have, t.opens, Cached(t))
  IN  IF t.req.mode = "count" /\ gaps # <<>>
      THEN <<Section(Head(t.opens), EndAfter(sch, Last(t.opens)), Len(t.opens))>>
      ELSE gaps

Plan(t) == [t EXCEPT !.pc = "fetch", !.todo = Gaps(t)]

(* Mutant of ClosedAt: the clock is read when the answer is here.          *)
ClosedAtStore(t, o) == CloseTime(sch, o) <= now

(* complete: had the candle closed when the request looked at the clock?   *)
ClosedAt(t, o) == CloseTime(sch, o) <= t.now

(* What is persisted wins over what was fetched, and that over the cache.  *)
Merged(t) ==
  [o \in DOMAIN t.have \cup DOMAIN t.got \cup Cached(t) \cup DOMAIN t.merged |->
     CASE o \in DOMAIN t.have -> [version |-> t.have[o], complete |-> TRUE]
       [] o \in DOMAIN t.got \ DOMAIN t.have -> [version |-> t.got[o], complete |-> ClosedAt(t, o)]
       [] o \in Cached(t) \ (DOMAIN t.have \cup DOMAIN t.got) ->
            [version |-> t.current.version, complete |-> FALSE]
       [] OTHER -> t.merged[o]]

(* limit=1 falls back to the open before, once; a count goes on to the     *)
(* next page until it has enough or has used up its budget.                *)
FallsBack(t) ==
  /\ t.req.mode = "limit" /\ t.req.n = 1 /\ t.req.direction = "backward"
  /\ Cardinality(t.seen) = 1 /\ t.merged = Empty
Continues(t) ==
  t.req.mode = "count" /\ Cardinality(DOMAIN t.merged) < t.req.n /\ Cardinality(t.seen) < ScanBudget

After(t) ==
  CASE FallsBack(t) -> Resolve(t, LatestOpens(sch, Head(t.opens), 1, El))
    [] Continues(t) -> Resolve(t, Page(t))
    [] OTHER -> [Idle EXCEPT !.pc = "respond", !.req = t.req, !.now = t.now, !.merged = t.merged,
                             !.seen = t.seen, !.must = t.must, !.offered = t.offered]

(* The first n rows of a count from one end, or all rows.                  *)
Foremost(t, direction) ==
  LET rows == DOMAIN t.merged
      ahead(o) == {p \in rows : IF direction = "forward" THEN p < o ELSE p > o}
  IN  Restrict(t.merged, {o \in rows : t.req.mode # "count" \/ Cardinality(ahead(o)) < t.req.n})

(* Mutant of Answer: the n first rows, in either direction.                *)
AnswerHead(t) == Foremost(t, "forward")

Answer(t) == Foremost(t, t.req.direction)

-----------------------------------------------------------------------------
Tick == now < MaxNow /\ now' = now + 1 /\ UNCHANGED <<db, cache, line, task, job, served>>

(* A request arrives; without to, its end is the clock of its parsing.     *)
Ask(c) ==
  /\ c # Backfill /\ task[c].pc = "idle"
  /\ \E r \in Requests :
       task' = [task EXCEPT ![c].pc = "queued", ![c].must = served,
                            ![c].req = IF Given(r.end) THEN r ELSE [r EXCEPT !.end = now]]
  /\ line' = Append(line, c)
  /\ UNCHANGED <<now, db, cache, job, served>>

(* get_candles with the lock.  A count reads the clock and the cache once, *)
(* for all of its pages.                                                   *)
Enter(c) ==
  /\ task[c].pc = "queued" /\ Head(line) = c
  /\ IF task[c].req.mode = "count"
     THEN /\ cache' = Lookup(c, now)
          /\ LET t == [task[c] EXCEPT !.now = now, !.current = cache'] IN
             task' = [task EXCEPT ![c] = Resolve(t, Page(t))]
     ELSE /\ task' = [task EXCEPT ![c] = Resolve(@, Window(@.req, sch, El).opens)]
          /\ cache' = cache
  /\ UNCHANGED <<now, db, line, job, served>>

(* The next chunk of the backfill.                                         *)
NextChunk ==
  /\ task[Backfill].pc = "idle" /\ job.chunks # <<>>
  /\ LET req == Request("range", 0, "range", Head(job.chunks).start, Head(job.chunks).end) IN
     task' = [task EXCEPT ![Backfill] = Resolve([@ EXCEPT !.req = req], Window(req, sch, El).opens)]
  /\ UNCHANGED <<now, db, cache, line, job, served>>

(* list_complete.  The fallback and the pages of a count plan at once.     *)
Read(c) ==
  /\ task[c].pc = "read"
  /\ LET t == [task[c] EXCEPT !.have = Restrict(db, DOMAIN db \cap ToSet(task[c].opens))]
         first == t.req.mode # "count" /\ t.seen = ToSet(t.opens)
     IN  task' = [task EXCEPT ![c] = IF first THEN [t EXCEPT !.pc = "look"] ELSE Plan(t)]
  /\ UNCHANGED <<now, db, cache, line, job, served>>

(* The clock and the cache are read when the rows are here.                *)
Look(c) ==
  /\ task[c].pc = "look"
  /\ cache' = Lookup(c, now)
  /\ task' = [task EXCEPT ![c] =
       Plan([@ EXCEPT !.now = now, !.current = IF c = Backfill THEN None ELSE cache'])]
  /\ UNCHANGED <<now, db, line, job, served>>

(* fetch_candles of the next section: the candles that have begun, as they *)
(* are at this moment, without the oldest if upstream has dropped it.      *)
Fetch(c) ==
  /\ task[c].pc = "fetch" /\ task[c].todo # <<>>
  /\ LET section == Head(task[c].todo) IN
     LET begun == {o \in El \cap ToSet(task[c].opens) : section.start <= o /\ o < section.end /\ o <= now} IN
     \E opens \in {begun} \cup {{o \in begun : \E older \in begun : older < o}} :
       task' = [task EXCEPT
         ![c].todo = Tail(@),
         ![c].got = [o \in opens \cup DOMAIN @ |->
                       IF o \in opens THEN Min({now, CloseTime(sch, o)}) ELSE @[o]],
         ![c].offered = IF c = Backfill THEN @ \cup {o \in opens : CloseTime(sch, o) <= task[c].now}
                                        ELSE {}]
  /\ UNCHANGED <<now, db, cache, line, job, served>>

Complete(t) == {o \in DOMAIN t.got : ClosedAt(t, o)}
Upsert(t) ==
  [o \in Complete(t) \cup DOMAIN db |-> IF o \in Complete(t) THEN t.got[o] ELSE db[o]]

(* store_normalized, and what the request does next.                       *)
Store(c) ==
  /\ task[c].pc = "fetch" /\ task[c].todo = <<>>
  /\ LET t == task[c] IN
     /\ db' = Upsert(t)
     /\ cache' = IF c = Backfill THEN cache ELSE Put(DOMAIN t.got \ Complete(t), t.got, t.now)
     /\ task' = [task EXCEPT ![c] = After([t EXCEPT !.merged = Merged(t)])]
  /\ UNCHANGED <<now, line, job, served>>

(* The task is over; what the backfill has been offered is remembered.     *)
Ended(c) == [Idle EXCEPT !.offered = task[c].offered, !.pc = IF c = Backfill THEN "idle" ELSE "ended"]

Respond(c) ==
  /\ task[c].pc = "respond"
  /\ line' = Leave(c)
  /\ LET answer == Answer(task[c]) IN
     served' = IF c = Backfill THEN served
               ELSE served \cup {o \in DOMAIN answer : answer[o].complete}
  /\ job' = IF c = Backfill THEN [job EXCEPT !.chunks = Tail(@)] ELSE job
  /\ task' = [task EXCEPT ![c] = Ended(c)]
  /\ UNCHANGED <<now, db, cache>>

(* Mutant of AfterFailure: the exit code forgets the chunk.                *)
ForgetFailure == [job EXCEPT !.chunks = Tail(@)]

AfterFailure == [job EXCEPT !.chunks = Tail(@), !.failed = TRUE]

(* The database or the provider fails: the client is told so, the backfill *)
(* goes on.  A write that is reported as failed may have been committed.   *)
Fail(c) ==
  /\ task[c].pc \in {"read", "fetch"}
  /\ db' \in (IF task[c].pc = "fetch" /\ task[c].todo = <<>> THEN {db, Upsert(task[c])} ELSE {db})
  /\ task[c].pc = "fetch" /\ task[c].todo = <<>> => Complete(task[c]) # {}
  /\ line' = Leave(c)
  /\ job' = IF c = Backfill THEN AfterFailure ELSE job
  /\ task' = [task EXCEPT ![c] = Ended(c)]
  /\ UNCHANGED <<now, cache, served>>

(* The request is cancelled where it awaits.                               *)
Cancel(c) ==
  /\ c # Backfill /\ task[c].pc \in {"queued", "read", "fetch"}
  /\ line' = Leave(c)
  /\ task' = [task EXCEPT ![c] = Ended(c)]
  /\ UNCHANGED <<now, db, cache, job, served>>

Next ==
  \/ Tick
  \/ NextChunk
  \/ \E c \in Tasks : \/ Ask(c) \/ Enter(c) \/ Read(c) \/ Look(c) \/ Fetch(c) \/ Store(c)
                      \/ Respond(c) \/ Fail(c) \/ Cancel(c)

Spec == Init /\ [][Next]_vars

-----------------------------------------------------------------------------
(* What is in the table is final: no row was written while its candle was  *)
(* forming, whenever the clock is read, the answer comes and the write is  *)
(* made, and whichever process makes it (candles.py:311, :318).            *)
StoredFinal == \A o \in DOMAIN db : db[o] = CloseTime(sch, o)

Answered(c) == task[c].pc = "respond"

(* In the rows a request takes its answer from, a candle that had closed   *)
(* when the request looked at the clock has its final content and is       *)
(* complete, never from the cache; one that was forming has content at     *)
(* most Ttl old (candle_cache.py:93, candles.py:353-360,                   *)
(* candle_count.py:313-316).                                               *)
AnswerFresh ==
  \A c \in Clients : Answered(c) =>
    \A o \in DOMAIN task[c].merged :
      LET candle == task[c].merged[o] IN
      IF CloseTime(sch, o) <= task[c].now \/ candle.complete
      THEN candle.complete /\ candle.version = CloseTime(sch, o)
      ELSE candle.version >= task[c].now - Ttl

(* What an answer is about: all that was scanned, unless the n rows that   *)
(* were asked for are there, and then no further than those.               *)
Covered(t) ==
  LET rows == DOMAIN Answer(t) IN
  IF t.req.mode # "count" \/ Cardinality(rows) < t.req.n THEN t.seen
  ELSE {o \in t.seen : IF t.req.direction = "forward" THEN o <= Max(rows) ELSE o >= Min(rows)}

(* A complete candle a client has been shown is in every answer about its  *)
(* time to a request that comes later, even if the provider no longer has  *)
(* it; and a count has neither more rows than it asked for, nor fewer      *)
(* while there are slots to scan (candles.py:351, :411,                    *)
(* candle_count.py:150, :236).                                             *)
ServedForever ==
  \A c \in Clients : Answered(c) =>
    LET t == task[c]
        answer == Answer(t)
        rows == Cardinality(DOMAIN answer)
    IN  /\ \A o \in Covered(t) \cap t.must : o \in DOMAIN answer /\ answer[o].complete
        /\ t.req.mode = "count" => rows <= t.req.n
        /\ t.req.mode = "count" /\ rows < t.req.n => Cardinality(t.seen) = ScanBudget

(* If the backfill exits with 0, every candle that upstream gave it and    *)
(* that had closed is in the table (backfill_candles.py:144, :188).        *)
ExitZeroMeansStored ==
  job.chunks = <<>> /\ ~job.failed => task[Backfill].offered \subseteq DOMAIN db

(* Single flight: of the requests of a key one at a time is past the lock, *)
(* and those that have ended, in an answer, a failure or a cancellation,   *)
(* do not stand in the way of the others (candle_cache.py:79).             *)
SingleFlight ==
  \A c \in Clients :
    LET pc == task[c].pc IN
    /\ c \in ToSet(line) <=> pc \notin {"idle", "ended"}
    /\ pc \notin {"idle", "queued", "ended"} => Head(line) = c
=============================================================================
