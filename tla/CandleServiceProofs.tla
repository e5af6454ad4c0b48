------------------------ MODULE CandleServiceProofs ------------------------
(***************************************************************************)
(* Theorems about CandleService, for any clients, requests, eligible       *)
(* opens, cache lifetime, limits and backfill range.                       *)
(*                                                                         *)
(* CandlesInv is inductive.  What a request holds is judged by the one     *)
(* clock it has read, which is never after the clock of an answer: a       *)
(* candle that had closed by then was fetched whole.  LineOK says who      *)
(* waits for whom in the single flight, and PromisesOK where a promised    *)
(* candle is on its way to the answer.                                     *)
(***************************************************************************)
EXTENDS CandleService, CandleFunctionsProofs, FiniteSetTheorems, TLAPS

Close(o) == CloseTime(sch, o)

(* Content that a request may trust: its candle had closed when the        *)
(* request read the clock and it is final, or it is at most age old.       *)
Sound(version, o, t, age) ==
  version \in Int /\ IF Close(o) <= t.now THEN version = Close(o) ELSE version >= t.now - age

GotOK(t) == \A o \in DOMAIN t.got : o \in Int /\ Sound(t.got[o], o, t, 0)
HaveOK(t) == \A o \in DOMAIN t.have : t.have[o] = Close(o)
CurrentOK(t) ==
  t.current # None => /\ t.current.open \in Int /\ t.now < Close(t.current.open)
                      /\ t.current.version \in Int /\ t.current.version >= t.now - Ttl
MergedOK(t) ==
  \A o \in DOMAIN t.merged :
    IF Close(o) <= t.now \/ t.merged[o].complete
    THEN t.merged[o].complete /\ t.merged[o].version = Close(o)
    ELSE t.merged[o].version >= t.now - Ttl

(* Nothing is held over from an earlier look at the clock.                 *)
NothingOld(t) ==
  /\ t.pc # "fetch" => t.got = Empty
  /\ t.pc \in {"idle", "queued", "look", "ended"} => t.merged = Empty
  /\ t.pc = "read" /\ t.req.mode # "count" => t.merged = Empty

TaskOK(t) ==
  /\ DOMAIN t = DOMAIN Idle /\ t.now \in Int
  /\ GotOK(t) /\ HaveOK(t) /\ CurrentOK(t) /\ MergedOK(t) /\ NothingOld(t)

TasksOK ==
  /\ DOMAIN task = Tasks
  /\ \A c \in Tasks : TaskOK(task[c]) /\ task[c].now <= now /\ \A o \in DOMAIN task[c].got : o <= now

CacheOK ==
  cache # None => /\ cache.open \in Int /\ cache.version \in Int /\ cache.storedAt \in Int
                  /\ cache.storedAt <= cache.version

(* What upstream has given the backfill is stored or about to be, unless   *)
(* a chunk has failed.                                                     *)
JobOK ==
  /\ DOMAIN job = {"chunks", "failed"}
  /\ task[Backfill].pc # "queued"
  /\ task[Backfill].pc # "idle" => job.chunks # <<>>
  /\ ~job.failed => task[Backfill].offered \subseteq DOMAIN db \cup Complete(task[Backfill])

CandlesInv == now \in Nat /\ TasksOK /\ StoredFinal /\ CacheOK /\ JobOK

-----------------------------------------------------------------------------
LEMMA CloseIsInt == \A o \in Int : Close(o) \in Int
  <1>1. Hour \in Int
    BY DayAssumption DEF Hour
  <1>2. QED
    BY <1>1 DEF Close, CloseTime, EndAfter, Step, sch, FixedSchedule

(* A set of integers that has a bound has a maximum.                       *)
LEMMA MaxOfBounded ==
  ASSUME NEW S \in SUBSET Int, NEW b \in Int, S # {}, \A x \in S : x <= b
  PROVE  Max(S) \in S
  <1> DEFINE T == {n \in Nat : b - n \in S}
  <1>1. T # {}
    <2>1. PICK x \in S : TRUE
      OBVIOUS
    <2>2. b - x \in Nat /\ b - (b - x) = x
      BY <2>1
    <2>3. QED
      BY <2>1, <2>2
  <1>2. \E n \in T : \A m \in T : ~(<<m, n>> \in OpToRel(<, Nat))
    BY <1>1, WFMin, NatLessThanWellFounded
  <1>3. PICK n \in T : \A m \in T : ~(m < n)
    BY <1>2 DEF OpToRel
  <1>4. ASSUME NEW y \in S PROVE b - n >= y
    <2>1. b - y \in Nat /\ b - (b - y) = y
      BY <1>4
    <2>2. b - y \in T
      BY <2>1, <1>4
    <2>3. QED
      BY <1>3, <2>1, <2>2
  <1>5. \E x \in S : \A y \in S : x >= y
    BY <1>3, <1>4
  <1>6. QED
    BY <1>5 DEF Max

-----------------------------------------------------------------------------
(* What the steps make of a request.                                       *)
LEMMA IdleOK ==
  /\ Idle.pc = "idle" /\ Idle.now = 0 /\ Idle.got = Empty /\ Idle.have = Empty /\ Idle.merged = Empty
  /\ Idle.current = None /\ Idle.offered = {} /\ DOMAIN Empty = {} /\ TaskOK(Idle)
  <1>1. /\ Idle.pc = "idle" /\ Idle.now = 0 /\ Idle.got = Empty /\ Idle.have = Empty /\ Idle.merged = Empty
        /\ Idle.current = None /\ Idle.offered = {}
    BY DEF Idle
  <1>2. DOMAIN Empty = {}
    BY DEF Empty
  <1>3. QED
    BY <1>1, <1>2 DEF TaskOK, GotOK, HaveOK, CurrentOK, MergedOK, NothingOld

LEMMA ResolveOK ==
  ASSUME NEW t, NEW opens, TaskOK(t), t.req.mode # "count" => t.merged = Empty
  PROVE  LET u == Resolve(t, opens) IN
         TaskOK(u) /\ u.pc = "read" /\ u.now = t.now /\ u.got = Empty /\ u.offered = t.offered
  <1> DEFINE u == Resolve(t, opens)
  <1>1. /\ DOMAIN u = DOMAIN t /\ u.pc = "read" /\ u.got = Empty /\ u.now = t.now /\ u.req = t.req
        /\ u.current = t.current /\ u.have = t.have /\ u.merged = t.merged /\ u.offered = t.offered
    BY DEF TaskOK, Resolve, Idle
  <1> HIDE DEF u
  <1>2. TaskOK(u)
    BY <1>1, IdleOK DEF TaskOK, GotOK, HaveOK, CurrentOK, MergedOK, NothingOld
  <1>3. QED
    BY <1>1, <1>2 DEF u

LEMMA PlanOK ==
  ASSUME NEW t, TaskOK(t), t.got = Empty
  PROVE  LET u == Plan(t) IN
         TaskOK(u) /\ u.pc = "fetch" /\ u.now = t.now /\ u.got = Empty /\ u.offered = t.offered
  <1> DEFINE u == Plan(t)
  <1>1. /\ DOMAIN u = DOMAIN t /\ u.pc = "fetch" /\ u.got = t.got /\ u.now = t.now /\ u.req = t.req
        /\ u.current = t.current /\ u.have = t.have /\ u.merged = t.merged /\ u.offered = t.offered
    BY DEF TaskOK, Plan, Idle
  <1> HIDE DEF u
  <1>2. TaskOK(u)
    BY <1>1, IdleOK DEF TaskOK, GotOK, HaveOK, CurrentOK, MergedOK, NothingOld
  <1>3. QED
    BY <1>1, <1>2 DEF u

LEMMA EndedOK ==
  ASSUME NEW c \in Tasks
  PROVE  /\ TaskOK(Ended(c)) /\ Ended(c).now = 0 /\ Ended(c).got = Empty
         /\ Ended(c).offered = task[c].offered /\ Ended(c).pc = (IF c = Backfill THEN "idle" ELSE "ended")
  <1> DEFINE u == Ended(c)
  <1>1. /\ DOMAIN u = DOMAIN Idle /\ u.pc = (IF c = Backfill THEN "idle" ELSE "ended") /\ u.now = 0
        /\ u.got = Empty /\ u.have = Empty /\ u.merged = Empty /\ u.current = None
        /\ u.offered = task[c].offered
    BY DEF Ended, Idle
  <1> HIDE DEF u
  <1>2. TaskOK(u)
    BY <1>1, IdleOK DEF TaskOK, GotOK, HaveOK, CurrentOK, MergedOK, NothingOld
  <1>3. QED
    BY <1>1, <1>2 DEF u

(* The rows a request has when a window is resolved.                       *)
LEMMA MergedStaysOK ==
  ASSUME NEW t, TaskOK(t), NEW u, u = [t EXCEPT !.merged = Merged(t)]
  PROVE  /\ DOMAIN u = DOMAIN t /\ \A f \in DOMAIN t \ {"merged"} : u[f] = t[f]
         /\ MergedOK(u)
  <1>1. DOMAIN u = DOMAIN t /\ u.merged = Merged(t) /\ \A f \in DOMAIN t \ {"merged"} : u[f] = t[f]
    BY DEF TaskOK, Idle
  <1>2. ASSUME NEW o \in DOMAIN Merged(t)
        PROVE  IF Close(o) <= t.now \/ Merged(t)[o].complete
               THEN Merged(t)[o].complete /\ Merged(t)[o].version = Close(o)
               ELSE Merged(t)[o].version >= t.now - Ttl
    <2>1. CASE o \in DOMAIN t.have
      <3>1. Merged(t)[o] = [version |-> t.have[o], complete |-> TRUE]
        BY <1>2, <2>1 DEF Merged
      <3>2. QED
        BY <2>1, <3>1 DEF TaskOK, HaveOK
    <2>2. CASE o \in DOMAIN t.got \ DOMAIN t.have
      <3>1. Merged(t)[o] = [version |-> t.got[o], complete |-> ClosedAt(t, o)]
        BY <1>2, <2>2 DEF Merged
      <3>2. Merged(t)[o].version = t.got[o] /\ Merged(t)[o].complete = ClosedAt(t, o)
        BY <3>1
      <3>3. Merged(t)[o].complete <=> ClosedAt(t, o)
        BY <3>2, Zenon
      <3>4. Sound(t.got[o], o, t, 0) /\ Close(o) \in Int /\ t.now \in Int
        BY <2>2, CloseIsInt DEF TaskOK, GotOK
      <3>5. QED
        BY <3>2, <3>3, <3>4, BoundsAssumption DEF Sound, ClosedAt, Close
    <2>3. CASE o \in Cached(t) \ (DOMAIN t.have \cup DOMAIN t.got)
      <3>1. Merged(t)[o] = [version |-> t.current.version, complete |-> FALSE]
        BY <1>2, <2>3 DEF Merged
      <3>2. o = t.current.open /\ t.current # None
        BY <2>3 DEF Cached
      <3>3. t.now < Close(o) /\ t.current.version >= t.now - Ttl /\ o \in Int /\ t.now \in Int
        BY <3>2 DEF TaskOK, CurrentOK
      <3>4. ~(Close(o) <= t.now)
        BY <3>3, CloseIsInt
      <3>5. Merged(t)[o].version = t.current.version /\ ~Merged(t)[o].complete
        BY <3>1
      <3>6. QED
        BY <3>3, <3>4, <3>5
    <2>4. CASE o \notin DOMAIN t.have \cup DOMAIN t.got \cup Cached(t)
      <3>1. Merged(t)[o] = t.merged[o] /\ o \in DOMAIN t.merged
        BY <1>2, <2>4 DEF Merged
      <3>2. QED
        BY <3>1 DEF TaskOK, MergedOK
    <2>5. QED
      BY <2>1, <2>2, <2>3, <2>4
  <1>3. MergedOK(u)
    <2>1. u.now = t.now
      BY <1>1 DEF TaskOK, Idle
    <2>2. QED
      BY <1>1, <1>2, <2>1 DEF MergedOK
  <1>4. QED
    BY <1>1, <1>3

LEMMA MergedTaskOK ==
  ASSUME NEW t, TaskOK(t), t.pc = "fetch"
  PROVE  LET u == [t EXCEPT !.merged = Merged(t)] IN
         TaskOK(u) /\ u.pc = "fetch" /\ u.now = t.now /\ u.offered = t.offered
  <1> DEFINE u == [t EXCEPT !.merged = Merged(t)]
  <1>1. DOMAIN u = DOMAIN t /\ (\A f \in DOMAIN t \ {"merged"} : u[f] = t[f]) /\ MergedOK(u)
    BY MergedStaysOK
  <1> HIDE DEF u
  <1>2. /\ u.pc = "fetch" /\ u.req = t.req /\ u.now = t.now /\ u.current = t.current
        /\ u.have = t.have /\ u.got = t.got /\ u.offered = t.offered /\ DOMAIN u = DOMAIN Idle
    BY <1>1 DEF TaskOK, Idle
  <1>3. TaskOK(u)
    BY <1>1, <1>2 DEF TaskOK, GotOK, HaveOK, CurrentOK, NothingOld, Sound
  <1>4. QED
    BY <1>2, <1>3 DEF u

LEMMA AfterOK ==
  ASSUME NEW t, TaskOK(t)
  PROVE  LET u == After(t) IN
         TaskOK(u) /\ u.pc \in {"read", "respond"} /\ u.now = t.now /\ u.got = Empty /\ u.offered = t.offered
  <1> DEFINE answered == [Idle EXCEPT !.pc = "respond", !.req = t.req, !.now = t.now, !.merged = t.merged,
                                      !.seen = t.seen, !.must = t.must, !.offered = t.offered]
  <1>1. CASE FallsBack(t)
    <2>1. After(t) = Resolve(t, LatestOpens(sch, Head(t.opens), 1, El)) /\ t.merged = Empty
      BY <1>1 DEF After, FallsBack, Continues
    <2>2. QED
      BY <2>1, ResolveOK
  <1>2. CASE ~FallsBack(t) /\ Continues(t)
    <2>1. After(t) = Resolve(t, Page(t)) /\ t.req.mode = "count"
      BY <1>2 DEF After, Continues
    <2>2. QED
      BY <2>1, ResolveOK
  <1>3. CASE ~FallsBack(t) /\ ~Continues(t)
    <2>1. After(t) = answered
      BY <1>3 DEF After
    <2>2. /\ DOMAIN answered = DOMAIN Idle /\ answered.pc = "respond" /\ answered.req = t.req
          /\ answered.now = t.now /\ answered.merged = t.merged /\ answered.offered = t.offered
          /\ answered.got = Empty /\ answered.have = Empty /\ answered.current = None
      BY DEF Idle
    <2> HIDE DEF answered
    <2>3. TaskOK(answered)
      BY <2>2, IdleOK DEF TaskOK, GotOK, HaveOK, CurrentOK, MergedOK, NothingOld
    <2>4. QED
      BY <2>1, <2>2, <2>3
  <1>4. QED
    BY <1>1, <1>2, <1>3

LEMMA UpsertOK ==
  ASSUME StoredFinal, NEW t, TaskOK(t)
  PROVE  /\ DOMAIN Upsert(t) = DOMAIN db \cup Complete(t)
         /\ \A o \in DOMAIN Upsert(t) : Upsert(t)[o] = CloseTime(sch, o)
  BY DEF StoredFinal, TaskOK, GotOK, Sound, Complete, ClosedAt, Close, Upsert

LEMMA PutOK ==
  ASSUME CacheOK, NEW t, TaskOK(t), now \in Int, \A o \in DOMAIN t.got : o <= now,
         cache' = Put(DOMAIN t.got \ Complete(t), t.got, t.now)
  PROVE  CacheOK'
  <1> DEFINE new == {o \in DOMAIN t.got \ Complete(t) : t.now < CloseTime(sch, o)}
  <1>1. CASE new = {}
    BY <1>1 DEF Put, CacheOK
  <1>2. CASE new # {}
    <2>1. new \in SUBSET Int /\ \A o \in new : o <= now
      BY DEF TaskOK, GotOK
    <2>2. Max(new) \in new
      <3> HIDE DEF new
      <3>1. QED
        BY <1>2, <2>1, MaxOfBounded
    <2>3. cache' = [open |-> Max(new), version |-> t.got[Max(new)], storedAt |-> t.now]
      BY <1>2 DEF Put
    <2>4. t.got[Max(new)] \in Int /\ t.got[Max(new)] >= t.now /\ t.now \in Int /\ Max(new) \in Int
      <3>1. \A o \in new : o \in Int /\ Sound(t.got[o], o, t, 0) /\ t.now < Close(o)
        BY DEF TaskOK, GotOK, Close
      <3> HIDE DEF new
      <3>2. \A o \in new : o \in Int /\ t.got[o] \in Int /\ t.got[o] >= t.now
        BY <3>1, CloseIsInt DEF Sound, TaskOK
      <3>3. QED
        BY <2>2, <3>2 DEF TaskOK
    <2>5. QED
      <3> HIDE DEF new
      <3>1. QED
        BY <2>3, <2>4 DEF CacheOK
  <1>3. QED
    BY <1>1, <1>2

-----------------------------------------------------------------------------
(* One task takes a step.                                                  *)
LEMMA OneTask ==
  ASSUME CandlesInv, NEW c \in Tasks, NEW u, TaskOK(u), u.now <= now, \A o \in DOMAIN u.got : o <= now,
         task' = [task EXCEPT ![c] = u], now' = now
  PROVE  TasksOK' /\ \A d \in Tasks : task'[d] = IF d = c THEN u ELSE task[d]
  <1>1. DOMAIN task' = Tasks /\ \A d \in Tasks : task'[d] = IF d = c THEN u ELSE task[d]
    BY DEF CandlesInv, TasksOK
  <1>2. QED
    BY <1>1 DEF CandlesInv, TasksOK

(* What the backfill has been offered, when no chunk ends.                 *)
LEMMA JobGoesOn ==
  ASSUME CandlesInv, NEW c \in Tasks, NEW u, \A d \in Tasks : task'[d] = IF d = c THEN u ELSE task[d],
         job' = job, DOMAIN db \subseteq DOMAIN db',
         c = Backfill => /\ u.pc # "queued" /\ (u.pc # "idle" => job.chunks # <<>>)
                         /\ ~job.failed => u.offered \subseteq DOMAIN db' \cup Complete(u)
  PROVE  JobOK'
  <1>1. Backfill \in Tasks
    BY DEF Tasks
  <1>2. CASE c = Backfill
    BY <1>1, <1>2 DEF CandlesInv, JobOK, Complete, ClosedAt
  <1>3. CASE c # Backfill
    <2>1. task'[Backfill] = task[Backfill]
      BY <1>1, <1>3
    <2>2. QED
      BY <2>1 DEF CandlesInv, JobOK, Complete, ClosedAt
  <1>4. QED
    BY <1>2, <1>3

-----------------------------------------------------------------------------
(* The initial state, and the steps of none.                               *)
LEMMA InitSafe == Init => CandlesInv
  <1> SUFFICES ASSUME Init PROVE CandlesInv
    OBVIOUS
  <1>1. \A c \in Tasks : task[c] = Idle
    BY DEF Init
  <1>2. TasksOK
    BY <1>1, IdleOK DEF Init, TasksOK
  <1>3. JobOK
    BY <1>1, IdleOK DEF Init, JobOK, Tasks
  <1>4. StoredFinal /\ CacheOK
    BY IdleOK DEF Init, StoredFinal, CacheOK
  <1>5. QED
    BY <1>2, <1>3, <1>4 DEF Init, CandlesInv

LEMMA StutterSafe == CandlesInv /\ UNCHANGED vars => CandlesInv'
  BY DEF CandlesInv, TasksOK, StoredFinal, CacheOK, JobOK, Complete, ClosedAt, vars

LEMMA TickSafe == CandlesInv /\ Tick => CandlesInv'
  <1> SUFFICES ASSUME CandlesInv, Tick PROVE CandlesInv'
    OBVIOUS
  <1>1. now' = now + 1 /\ UNCHANGED <<db, cache, line, task, job, served>> /\ now \in Int
    BY DEF Tick, CandlesInv
  <1>2. ASSUME NEW c \in Tasks
        PROVE  TaskOK(task[c]) /\ task[c].now <= now' /\ \A o \in DOMAIN task[c].got : o <= now'
    BY <1>1 DEF CandlesInv, TasksOK, TaskOK, GotOK
  <1>3. TasksOK'
    BY <1>1, <1>2 DEF CandlesInv, TasksOK
  <1>4. QED
    BY <1>1, <1>3 DEF CandlesInv, StoredFinal, CacheOK, JobOK, Complete, ClosedAt

(* The steps of a task.                                                    *)
LEMMA AskSafe ==
  ASSUME CandlesInv, NEW c \in Tasks, Ask(c)
  PROVE  CandlesInv'
  <1>1. PICK r \in Requests :
          task' = [task EXCEPT ![c].pc = "queued", ![c].must = served,
                               ![c].req = IF Given(r.end) THEN r ELSE [r EXCEPT !.end = now]]
    BY DEF Ask
  <1> DEFINE req == IF Given(r.end) THEN r ELSE [r EXCEPT !.end = now]
             u == [task[c] EXCEPT !.pc = "queued", !.must = served, !.req = req]
  <1>2. task' = [task EXCEPT ![c] = u] /\ UNCHANGED <<now, db, cache, job>> /\ c # Backfill /\ task[c].pc = "idle"
    BY <1>1 DEF Ask
  <1>3. TaskOK(task[c]) /\ task[c].now <= now /\ task[c].got = Empty /\ task[c].merged = Empty
    BY <1>2 DEF CandlesInv, TasksOK, TaskOK, NothingOld
  <1>4. /\ DOMAIN u = DOMAIN task[c] /\ u.pc = "queued" /\ u.now = task[c].now /\ u.current = task[c].current
        /\ u.have = task[c].have /\ u.got = task[c].got /\ u.merged = task[c].merged
    <2> HIDE DEF req
    <2>1. QED
      BY <1>3 DEF TaskOK, Idle
  <1> HIDE DEF u
  <1>5. TaskOK(u)
    BY <1>3, <1>4, IdleOK DEF TaskOK, GotOK, HaveOK, CurrentOK, MergedOK, NothingOld
  <1>6. TasksOK' /\ \A d \in Tasks : task'[d] = IF d = c THEN u ELSE task[d]
    <2>1. u.now <= now /\ \A o \in DOMAIN u.got : o <= now
      BY <1>3, <1>4, IdleOK
    <2>2. QED
      BY <1>2, <1>5, <2>1, OneTask
  <1>7. JobOK'
    BY <1>2, <1>6, JobGoesOn
  <1>8. QED
    BY <1>2, <1>6, <1>7 DEF CandlesInv, StoredFinal, CacheOK

LEMMA ResolvesSafe ==
  ASSUME CandlesInv, NEW c \in Tasks, c # Backfill, NEW t, NEW opens, TaskOK(t), t.now <= now, t.merged = Empty,
         task' = [task EXCEPT ![c] = Resolve(t, opens)], UNCHANGED <<now, db, job>>, CacheOK'
  PROVE  CandlesInv'
  <1> DEFINE u == Resolve(t, opens)
  <1>1. TaskOK(u) /\ u.now = t.now /\ u.got = Empty
    BY ResolveOK
  <1>2. u.now <= now /\ \A o \in DOMAIN u.got : o <= now
    BY <1>1, IdleOK
  <1>3. TasksOK' /\ \A d \in Tasks : task'[d] = IF d = c THEN u ELSE task[d]
    BY <1>1, <1>2, OneTask
  <1> HIDE DEF u
  <1>4. JobOK'
    BY <1>3, JobGoesOn
  <1>5. QED
    BY <1>3, <1>4 DEF CandlesInv, StoredFinal

LEMMA EnterSafe ==
  ASSUME CandlesInv, NEW c \in Tasks, Enter(c)
  PROVE  CandlesInv'
  <1>1. TaskOK(task[c]) /\ task[c].now <= now /\ task[c].pc = "queued" /\ task[c].got = Empty
        /\ task[c].merged = Empty /\ c # Backfill /\ UNCHANGED <<now, db, job>> /\ now \in Int
    BY DEF Enter, CandlesInv, TasksOK, TaskOK, NothingOld, JobOK
  <1>2. CacheOK' /\ (task[c].req.mode = "count" => cache' = Lookup(c, now))
        /\ (task[c].req.mode # "count" => cache' = cache)
    BY DEF Enter, Lookup, CandlesInv, CacheOK
  <1>3. CASE task[c].req.mode = "count"
    <2> DEFINE t == [task[c] EXCEPT !.now = now, !.current = cache']
    <2>1. task' = [task EXCEPT ![c] = Resolve(t, Page(t))]
      BY <1>3 DEF Enter
    <2>2. /\ DOMAIN t = DOMAIN task[c] /\ t.pc = "queued" /\ t.now = now /\ t.current = cache'
          /\ t.have = task[c].have /\ t.got = Empty /\ t.merged = Empty
      BY <1>1 DEF TaskOK, Idle
    <2>3. t.current # None => /\ t.current.open \in Int /\ now < Close(t.current.open)
                              /\ t.current.version \in Int /\ t.current.version >= now - Ttl
      BY <1>1, <1>2, <1>3, <2>2, BoundsAssumption DEF Lookup, Valid, Close, CandlesInv, CacheOK
    <2> HIDE DEF t
    <2>4. TaskOK(t)
      BY <1>1, <2>2, <2>3, IdleOK DEF TaskOK, GotOK, HaveOK, CurrentOK, MergedOK, NothingOld
    <2>5. t.now <= now
      BY <1>1, <2>2
    <2>6. QED
      BY <1>1, <1>2, <2>1, <2>2, <2>4, <2>5, ResolvesSafe
  <1>4. CASE task[c].req.mode # "count"
    <2>1. task' = [task EXCEPT ![c] = Resolve(task[c], Window(task[c].req, sch, El).opens)]
      BY <1>4 DEF Enter
    <2>2. QED
      BY <1>1, <1>2, <2>1, ResolvesSafe
  <1>5. QED
    BY <1>3, <1>4

LEMMA NextChunkSafe == CandlesInv /\ NextChunk => CandlesInv'
  <1> SUFFICES ASSUME CandlesInv, NextChunk PROVE CandlesInv'
    OBVIOUS
  <1> DEFINE req == Request("range", 0, "range", Head(job.chunks).start, Head(job.chunks).end)
             t == [task[Backfill] EXCEPT !.req = req]
             u == Resolve(t, Window(req, sch, El).opens)
  <1>1. Backfill \in Tasks /\ UNCHANGED <<now, db, cache, job>> /\ job.chunks # <<>>
        /\ task' = [task EXCEPT ![Backfill] = u] /\ task[Backfill].pc = "idle"
    BY DEF Tasks, NextChunk
  <1>2. TaskOK(task[Backfill]) /\ task[Backfill].now <= now /\ task[Backfill].got = Empty
        /\ task[Backfill].merged = Empty
    BY <1>1 DEF CandlesInv, TasksOK, TaskOK, NothingOld
  <1>3. /\ DOMAIN t = DOMAIN task[Backfill] /\ t.pc = "idle" /\ t.now = task[Backfill].now
        /\ t.current = task[Backfill].current /\ t.have = task[Backfill].have /\ t.got = Empty
        /\ t.merged = Empty /\ t.offered = task[Backfill].offered
    <2> HIDE DEF req
    <2>1. QED
      BY <1>1, <1>2 DEF TaskOK, Idle
  <1> HIDE DEF t
  <1>4. TaskOK(t)
    BY <1>2, <1>3, IdleOK DEF TaskOK, GotOK, HaveOK, CurrentOK, MergedOK, NothingOld
  <1>5. TaskOK(u) /\ u.pc = "read" /\ u.now = t.now /\ u.got = Empty /\ u.offered = t.offered
    BY <1>3, <1>4, ResolveOK
  <1> HIDE DEF u
  <1>6. TasksOK' /\ \A d \in Tasks : task'[d] = IF d = Backfill THEN u ELSE task[d]
    <2>1. u.now <= now /\ \A o \in DOMAIN u.got : o <= now
      BY <1>2, <1>3, <1>5, IdleOK
    <2>2. QED
      BY <1>1, <1>5, <2>1, OneTask
  <1>7. ~job.failed => u.offered \subseteq DOMAIN db
    BY <1>2, <1>3, <1>5, IdleOK DEF CandlesInv, JobOK, Complete
  <1>8. JobOK'
    BY <1>1, <1>5, <1>6, <1>7, JobGoesOn
  <1>9. QED
    BY <1>1, <1>6, <1>8 DEF CandlesInv, StoredFinal, CacheOK

(* A task that has read nothing or fetched nothing goes on.                *)
LEMMA GoesOnSafe ==
  ASSUME CandlesInv, NEW c \in Tasks, NEW u, TaskOK(u), u.now <= now, u.got = Empty,
         u.offered = task[c].offered, task[c].got = Empty, u.pc \in {"look", "fetch"},
         task[c].pc \notin {"idle", "queued"}, task' = [task EXCEPT ![c] = u], UNCHANGED <<now, db, job>>, CacheOK'
  PROVE  CandlesInv'
  <1>1. \A o \in DOMAIN u.got : o <= now
    BY IdleOK
  <1>2. TasksOK' /\ \A d \in Tasks : task'[d] = IF d = c THEN u ELSE task[d]
    BY <1>1, OneTask
  <1>3. c = Backfill => job.chunks # <<>> /\ (~job.failed => u.offered \subseteq DOMAIN db)
    BY IdleOK DEF CandlesInv, JobOK, Complete
  <1>4. JobOK'
    BY <1>2, <1>3, JobGoesOn
  <1>5. QED
    BY <1>2, <1>4 DEF CandlesInv, StoredFinal

LEMMA ReadSafe ==
  ASSUME CandlesInv, NEW c \in Tasks, Read(c)
  PROVE  CandlesInv'
  <1> DEFINE have == Restrict(db, DOMAIN db \cap ToSet(task[c].opens))
             t == [task[c] EXCEPT !.have = have]
             first == t.req.mode # "count" /\ t.seen = ToSet(t.opens)
             look == [t EXCEPT !.pc = "look"]
  <1>1. TaskOK(task[c]) /\ task[c].now <= now /\ task[c].pc = "read" /\ task[c].got = Empty
        /\ (task[c].req.mode # "count" => task[c].merged = Empty) /\ UNCHANGED <<now, db, cache, job>>
    BY DEF Read, CandlesInv, TasksOK, TaskOK, NothingOld
  <1>2. task' = [task EXCEPT ![c] = IF first THEN look ELSE Plan(t)]
    BY DEF Read
  <1>3. \A o \in DOMAIN have : have[o] = Close(o)
    BY DEF Restrict, Close, CandlesInv, StoredFinal
  <1>4. /\ DOMAIN t = DOMAIN task[c] /\ t.pc = "read" /\ t.now = task[c].now /\ t.current = task[c].current
        /\ t.have = have /\ t.got = Empty /\ t.merged = task[c].merged /\ t.req = task[c].req
        /\ t.offered = task[c].offered
    <2> HIDE DEF have
    <2>1. QED
      BY <1>1 DEF TaskOK, Idle
  <1> HIDE DEF have, t
  <1>5. TaskOK(t)
    BY <1>1, <1>3, <1>4, IdleOK DEF TaskOK, GotOK, HaveOK, CurrentOK, MergedOK, NothingOld
  <1>6. CASE first
    <2>1. /\ DOMAIN look = DOMAIN t /\ look.pc = "look" /\ look.now = t.now /\ look.current = t.current
          /\ look.have = t.have /\ look.got = Empty /\ look.merged = t.merged /\ look.offered = t.offered
      BY <1>4, <1>5 DEF TaskOK, Idle
    <2>2. look.merged = Empty
      BY <1>1, <1>4, <1>6, <2>1
    <2> HIDE DEF look
    <2>3. TaskOK(look)
      BY <1>5, <2>1, <2>2, IdleOK DEF TaskOK, GotOK, HaveOK, CurrentOK, MergedOK, NothingOld
    <2>4. task' = [task EXCEPT ![c] = look]
      BY <1>2, <1>6
    <2>5. QED
      BY <1>1, <1>4, <2>1, <2>3, <2>4, GoesOnSafe DEF CandlesInv, CacheOK
  <1>7. CASE ~first
    <2>1. task' = [task EXCEPT ![c] = Plan(t)]
      BY <1>2, <1>7
    <2>2. TaskOK(Plan(t)) /\ Plan(t).pc = "fetch" /\ Plan(t).now = t.now /\ Plan(t).got = Empty
          /\ Plan(t).offered = t.offered
      BY <1>4, <1>5, PlanOK
    <2>3. QED
      BY <1>1, <1>4, <2>1, <2>2, GoesOnSafe DEF CandlesInv, CacheOK
  <1>8. QED
    BY <1>6, <1>7

LEMMA LookSafe ==
  ASSUME CandlesInv, NEW c \in Tasks, Look(c)
  PROVE  CandlesInv'
  <1> DEFINE current == IF c = Backfill THEN None ELSE cache'
             t == [task[c] EXCEPT !.now = now, !.current = current]
  <1>1. TaskOK(task[c]) /\ task[c].pc = "look" /\ task[c].got = Empty /\ task[c].merged = Empty
        /\ UNCHANGED <<now, db, job>> /\ now \in Int
    BY DEF Look, CandlesInv, TasksOK, TaskOK, NothingOld
  <1>2. cache' = Lookup(c, now) /\ CacheOK'
    BY DEF Look, Lookup, CandlesInv, CacheOK
  <1>3. task' = [task EXCEPT ![c] = Plan(t)]
    BY DEF Look
  <1>4. current # None => /\ current.open \in Int /\ now < Close(current.open)
                          /\ current.version \in Int /\ current.version >= now - Ttl
    BY <1>1, <1>2, BoundsAssumption DEF Lookup, Valid, Close, CandlesInv, CacheOK
  <1>5. /\ DOMAIN t = DOMAIN task[c] /\ t.pc = "look" /\ t.now = now /\ t.current = current
        /\ t.have = task[c].have /\ t.got = Empty /\ t.merged = Empty /\ t.offered = task[c].offered
    <2> HIDE DEF current
    <2>1. QED
      BY <1>1 DEF TaskOK, Idle
  <1> HIDE DEF current, t
  <1>6. TaskOK(t)
    BY <1>1, <1>4, <1>5, IdleOK DEF TaskOK, GotOK, HaveOK, CurrentOK, MergedOK, NothingOld
  <1>7. TaskOK(Plan(t)) /\ Plan(t).pc = "fetch" /\ Plan(t).now = t.now /\ Plan(t).got = Empty
        /\ Plan(t).offered = t.offered
    BY <1>5, <1>6, PlanOK
  <1>8. Plan(t).now <= now
    BY <1>1, <1>5, <1>7
  <1>9. QED
    BY <1>1, <1>2, <1>3, <1>5, <1>7, <1>8, GoesOnSafe

(* The clock of an answer is not before the clock the request has read.    *)
LEMMA FetchSafe ==
  ASSUME CandlesInv, NEW c \in Tasks, Fetch(c)
  PROVE  CandlesInv'
  <1> DEFINE section == Head(task[c].todo)
             begun == {o \in El \cap ToSet(task[c].opens) : section.start <= o /\ o < section.end /\ o <= now}
  <1>1. TaskOK(task[c]) /\ task[c].pc = "fetch" /\ task[c].now <= now /\ task[c].now \in Int
        /\ (\A o \in DOMAIN task[c].got : o <= now) /\ UNCHANGED <<now, db, cache, job>> /\ now \in Nat
    BY DEF Fetch, CandlesInv, TasksOK, TaskOK
  <1>2. PICK opens \in {begun} \cup {{o \in begun : \E older \in begun : older < o}} :
          task' = [task EXCEPT
            ![c].todo = Tail(@),
            ![c].got = [o \in opens \cup DOMAIN @ |->
                          IF o \in opens THEN Min({now, CloseTime(sch, o)}) ELSE @[o]],
            ![c].offered = IF c = Backfill THEN @ \cup {o \in opens : CloseTime(sch, o) <= task[c].now} ELSE {}]
    BY DEF Fetch
  <1>3. opens \subseteq Int /\ \A o \in opens : o <= now
    BY ElAssumption
  <1> HIDE DEF begun
  <1> DEFINE got == [o \in opens \cup DOMAIN task[c].got |->
                       IF o \in opens THEN Min({now, CloseTime(sch, o)}) ELSE task[c].got[o]]
             offered == IF c = Backfill THEN task[c].offered \cup {o \in opens : CloseTime(sch, o) <= task[c].now}
                                        ELSE {}
             u == [task[c] EXCEPT !.todo = Tail(task[c].todo), !.got = got, !.offered = offered]
  <1>4. task' = [task EXCEPT ![c] = u]
    BY <1>1, <1>2 DEF CandlesInv, TasksOK, TaskOK, Idle
  <1>5. ASSUME NEW o \in DOMAIN got
        PROVE  o \in Int /\ o <= now /\ Sound(got[o], o, task[c], 0)
    <2>1. CASE o \in opens
      <3>1. o \in Int /\ o <= now /\ Close(o) \in Int
        BY <1>3, <2>1, CloseIsInt
      <3>2. got[o] = Min({now, Close(o)})
        BY <2>1 DEF Close
      <3>3. got[o] \in {now, Close(o)} /\ got[o] <= now /\ got[o] <= Close(o)
        BY <1>1, <3>1, <3>2 DEF Min
      <3>4. QED
        BY <1>1, <3>1, <3>3 DEF Sound
    <2>2. CASE o \notin opens
      BY <1>1, <2>2 DEF TaskOK, GotOK
    <2>3. QED
      BY <2>1, <2>2
  <1>6. DOMAIN got = opens \cup DOMAIN task[c].got
    OBVIOUS
  <1>7. /\ DOMAIN u = DOMAIN task[c] /\ u.pc = "fetch" /\ u.now = task[c].now /\ u.current = task[c].current
        /\ u.have = task[c].have /\ u.got = got /\ u.merged = task[c].merged /\ u.offered = offered
    <2> HIDE DEF got, offered
    <2>1. QED
      BY <1>1 DEF TaskOK, Idle
  <1> HIDE DEF got, u
  <1>8. TaskOK(u)
    BY <1>1, <1>5, <1>7 DEF TaskOK, GotOK, HaveOK, CurrentOK, MergedOK, NothingOld, Sound
  <1>9. u.now <= now /\ \A o \in DOMAIN u.got : o <= now
    BY <1>1, <1>5, <1>7
  <1>10. TasksOK' /\ \A d \in Tasks : task'[d] = IF d = c THEN u ELSE task[d]
    BY <1>1, <1>4, <1>8, <1>9, OneTask
  <1>11. c = Backfill => /\ job.chunks # <<>>
                         /\ ~job.failed => u.offered \subseteq DOMAIN db \cup Complete(u)
    BY <1>1, <1>6, <1>7 DEF CandlesInv, JobOK, Complete, ClosedAt
  <1>12. JobOK'
    BY <1>1, <1>7, <1>10, <1>11, JobGoesOn
  <1>13. QED
    BY <1>1, <1>10, <1>12 DEF CandlesInv, StoredFinal, CacheOK

LEMMA StoreSafe ==
  ASSUME CandlesInv, NEW c \in Tasks, Store(c)
  PROVE  CandlesInv'
  <1> DEFINE t == task[c]
             full == [t EXCEPT !.merged = Merged(t)]
             u == After(full)
  <1>1. TaskOK(t) /\ t.pc = "fetch" /\ t.now <= now /\ (\A o \in DOMAIN t.got : o <= now)
        /\ UNCHANGED <<now, job>> /\ now \in Int
    BY DEF Store, CandlesInv, TasksOK
  <1>2. task' = [task EXCEPT ![c] = u] /\ db' = Upsert(t)
        /\ cache' = IF c = Backfill THEN cache ELSE Put(DOMAIN t.got \ Complete(t), t.got, t.now)
    BY DEF Store
  <1>3. TaskOK(full) /\ full.now = t.now /\ full.offered = t.offered
    BY <1>1, MergedTaskOK
  <1> HIDE DEF full
  <1>4. TaskOK(u) /\ u.pc \in {"read", "respond"} /\ u.now = t.now /\ u.got = Empty /\ u.offered = t.offered
    BY <1>3, AfterOK
  <1> HIDE DEF u
  <1>5. u.now <= now /\ \A o \in DOMAIN u.got : o <= now
    BY <1>1, <1>4, IdleOK
  <1>6. TasksOK' /\ \A d \in Tasks : task'[d] = IF d = c THEN u ELSE task[d]
    BY <1>1, <1>2, <1>4, <1>5, OneTask
  <1>7. DOMAIN db' = DOMAIN db \cup Complete(t) /\ StoredFinal'
    BY <1>1, <1>2, UpsertOK DEF CandlesInv, StoredFinal
  <1>8. c = Backfill => job.chunks # <<>> /\ (~job.failed => u.offered \subseteq DOMAIN db')
    BY <1>1, <1>4, <1>7 DEF CandlesInv, JobOK
  <1>9. JobOK'
    BY <1>1, <1>4, <1>6, <1>7, <1>8, JobGoesOn
  <1>10. CacheOK'
    <2>1. CASE c = Backfill
      BY <1>2, <2>1 DEF CandlesInv, CacheOK
    <2>2. CASE c # Backfill
      BY <1>1, <1>2, <2>2, PutOK DEF CandlesInv
    <2>3. QED
      BY <2>1, <2>2
  <1>11. QED
    BY <1>1, <1>6, <1>7, <1>9, <1>10 DEF CandlesInv

(* A task is over: the backfill counts what has failed.                    *)
LEMMA EndsSafe ==
  ASSUME CandlesInv, NEW c \in Tasks, task' = [task EXCEPT ![c] = Ended(c)], UNCHANGED <<now, cache>>,
         db' \in {db, Upsert(task[c])}, task[c].pc = "respond" => db' = db,
         c # Backfill => job' = job,
         c = Backfill => job' = AfterFailure \/ (task[c].pc = "respond" /\ job' = [job EXCEPT !.chunks = Tail(@)])
  PROVE  CandlesInv'
  <1>1. TaskOK(task[c]) /\ now \in Int /\ (task[c].pc = "respond" => task[c].got = Empty)
    BY DEF CandlesInv, TasksOK, TaskOK, NothingOld
  <1>2. TaskOK(Ended(c)) /\ Ended(c).now = 0 /\ Ended(c).got = Empty /\ Ended(c).offered = task[c].offered
        /\ Ended(c).pc = (IF c = Backfill THEN "idle" ELSE "ended")
    BY EndedOK
  <1>3. DOMAIN task' = Tasks /\ \A d \in Tasks : task'[d] = IF d = c THEN Ended(c) ELSE task[d]
    BY DEF CandlesInv, TasksOK
  <1>4. DOMAIN db \subseteq DOMAIN db' /\ StoredFinal'
    BY <1>1, UpsertOK DEF CandlesInv, StoredFinal
  <1>5. JobOK'
    <2>1. CASE c # Backfill
      BY <1>2, <1>3, <1>4, <2>1, JobGoesOn
    <2>2. CASE c = Backfill
      <3>1. task'[Backfill] = Ended(c) /\ Backfill \in Tasks
        BY <1>3, <2>2
      <3>2. DOMAIN job' = {"chunks", "failed"} /\ (~job'.failed => task[c].pc = "respond" /\ ~job.failed)
        BY <2>2 DEF CandlesInv, JobOK, AfterFailure
      <3>3. ~job'.failed => task[c].offered \subseteq DOMAIN db'
        BY <1>1, <1>4, <2>2, <3>2, IdleOK DEF CandlesInv, JobOK, Complete
      <3>4. QED
        BY <1>2, <2>2, <3>1, <3>2, <3>3 DEF JobOK
    <2>3. QED
      BY <2>1, <2>2
  <1>6. TasksOK'
    <2>1. Ended(c).now <= now
      BY <1>1, <1>2 DEF CandlesInv
    <2>2. QED
      BY <1>1, <1>2, <1>3, <2>1, IdleOK DEF CandlesInv, TasksOK
  <1>7. QED
    BY <1>4, <1>5, <1>6 DEF CandlesInv, CacheOK

LEMMA RespondSafe ==
  ASSUME CandlesInv, NEW c \in Tasks, Respond(c)
  PROVE  CandlesInv'
  BY EndsSafe DEF Respond

LEMMA FailSafe ==
  ASSUME CandlesInv, NEW c \in Tasks, Fail(c)
  PROVE  CandlesInv'
  BY EndsSafe DEF Fail

LEMMA CancelSafe ==
  ASSUME CandlesInv, NEW c \in Tasks, Cancel(c)
  PROVE  CandlesInv'
  BY EndsSafe DEF Cancel

-----------------------------------------------------------------------------
LEMMA NextSafe == CandlesInv /\ [Next]_vars => CandlesInv'
  BY TickSafe, NextChunkSafe, AskSafe, EnterSafe, ReadSafe, LookSafe, FetchSafe, StoreSafe, RespondSafe,
     FailSafe, CancelSafe, StutterSafe DEF Next

(* What every request holds, what is cached, what is stored and what the   *)
(* backfill has been offered agree (candles.py, candle_count.py,           *)
(* candle_cache.py, backfill_candles.py).                                  *)
THEOREM CandlesCorrect == Spec => []CandlesInv
  BY InitSafe, NextSafe, PTL DEF Spec

(* No row of the table was written while its candle was forming            *)
(* (candles.py:311, :318).                                                 *)
THEOREM StoredFinalCorrect == Spec => []StoredFinal
  <1>1. CandlesInv => StoredFinal
    BY DEF CandlesInv
  <1>2. QED
    BY <1>1, CandlesCorrect, PTL

(* A closed candle is answered whole, and a forming one with content no    *)
(* older than the lifetime of the cache (candle_cache.py:93,               *)
(* candles.py:353-360, candle_count.py:313-316).                           *)
THEOREM AnswerFreshCorrect == Spec => []AnswerFresh
  <1>1. CandlesInv => AnswerFresh
    BY DEF CandlesInv, TasksOK, TaskOK, MergedOK, AnswerFresh, Close, Tasks
  <1>2. QED
    BY <1>1, CandlesCorrect, PTL

(* The backfill exits with 0 only if all it was offered is stored          *)
(* (backfill_candles.py:144, :188).                                        *)
THEOREM ExitZeroCorrect == Spec => []ExitZeroMeansStored
  <1>1. CandlesInv => ExitZeroMeansStored
    BY IdleOK DEF CandlesInv, JobOK, TasksOK, TaskOK, NothingOld, Complete, ExitZeroMeansStored, Tasks
  <1>2. QED
    BY <1>1, CandlesCorrect, PTL

-----------------------------------------------------------------------------
(* The line: a request is in it once, from its arrival to its end, and     *)
(* whoever is past the lock is its head.                                   *)
Waits(pc) == pc \notin {"idle", "ended"}
Past(pc) == pc \notin {"idle", "queued", "ended"}

LineOK ==
  /\ line \in Seq(Clients)
  /\ \A i, j \in 1 .. Len(line) : line[i] = line[j] => i = j
  /\ \A c \in Clients : Waits(task[c].pc) <=> \E i \in 1 .. Len(line) : line[i] = c
  /\ \A c \in Clients : Past(task[c].pc) => line[1] = c

LEMMA ConcatOK ==
  ASSUME NEW S, NEW p \in Seq(S), NEW q \in Seq(S)
  PROVE  /\ p \o q \in Seq(S) /\ Len(p \o q) = Len(p) + Len(q)
         /\ \A j \in 1 .. Len(p \o q) : (p \o q)[j] = IF j <= Len(p) THEN p[j] ELSE q[j - Len(p)]
  OBVIOUS

(* What is left of a sequence without one of its elements.                 *)
LEMMA WithoutOne ==
  \A S : \A s \in Seq(S) : \A k \in 1 .. Len(s) :
    LET r == SubSeq(s, 1, k - 1) \o SubSeq(s, k + 1, Len(s)) IN
    /\ r \in Seq(S) /\ Len(r) = Len(s) - 1
    /\ \A j \in 1 .. Len(r) : r[j] = IF j < k THEN s[j] ELSE s[j + 1]
  <1> SUFFICES ASSUME NEW S, NEW s \in Seq(S), NEW k \in 1 .. Len(s)
               PROVE  LET r == SubSeq(s, 1, k - 1) \o SubSeq(s, k + 1, Len(s)) IN
                      /\ r \in Seq(S) /\ Len(r) = Len(s) - 1
                      /\ \A j \in 1 .. Len(r) : r[j] = IF j < k THEN s[j] ELSE s[j + 1]
    OBVIOUS
  <1> DEFINE p == SubSeq(s, 1, k - 1)
             q == SubSeq(s, k + 1, Len(s))
  <1>1. p \in Seq(S) /\ Len(p) = k - 1 /\ \A j \in 1 .. Len(p) : p[j] = s[j]
    OBVIOUS
  <1>2. q \in Seq(S) /\ Len(q) = Len(s) - k /\ \A j \in 1 .. Len(q) : q[j] = s[j + k]
    OBVIOUS
  <1> HIDE DEF p, q
  <1>3. /\ p \o q \in Seq(S) /\ Len(p \o q) = Len(p) + Len(q)
        /\ \A j \in 1 .. Len(p \o q) : (p \o q)[j] = IF j <= Len(p) THEN p[j] ELSE q[j - Len(p)]
    BY <1>1, <1>2, ConcatOK
  <1>4. Len(p \o q) = Len(s) - 1 /\ Len(s) \in Nat
    BY <1>1, <1>2, <1>3
  <1>5. ASSUME NEW j \in 1 .. Len(p \o q)
        PROVE  (p \o q)[j] = IF j < k THEN s[j] ELSE s[j + 1]
    <2>1. CASE j < k
      BY <1>1, <1>3, <1>4, <2>1
    <2>2. CASE ~(j < k)
      <3>1. (p \o q)[j] = q[j - (k - 1)] /\ j - (k - 1) \in 1 .. Len(q)
        BY <1>1, <1>2, <1>3, <1>4, <2>2
      <3>2. q[j - (k - 1)] = s[(j - (k - 1)) + k] /\ (j - (k - 1)) + k = j + 1
        BY <1>2, <3>1
      <3>3. QED
        BY <2>2, <3>1, <3>2
    <2>3. QED
      BY <2>1, <2>2
  <1>6. QED
    BY <1>3, <1>4, <1>5 DEF p, q

(* l is k without c: nobody else is removed, and the head is kept.         *)
Without(l, k, c) ==
  /\ l \in Seq(Clients)
  /\ \A i, j \in 1 .. Len(l) : l[i] = l[j] => i = j
  /\ \A d \in Clients : (\E i \in 1 .. Len(l) : l[i] = d) <=> d # c /\ \E i \in 1 .. Len(k) : k[i] = d
  /\ k[1] # c => l[1] = k[1]

LEMMA LeaveOK ==
  ASSUME LineOK, NEW c \in Clients, Waits(task[c].pc), NEW l, l = Leave(c)
  PROVE  Without(l, line, c)
  <1> DEFINE at == CHOOSE i \in DOMAIN line : line[i] = c
  <1>1. line \in Seq(Clients) /\ DOMAIN line = 1 .. Len(line) /\ Len(line) \in Nat
    BY DEF LineOK
  <1>2. at \in 1 .. Len(line) /\ line[at] = c
    BY <1>1 DEF LineOK
  <1>3. l = SubSeq(line, 1, at - 1) \o SubSeq(line, at + 1, Len(line))
    BY TasksAssumption DEF Leave, RemoveAt
  <1> HIDE DEF at
  <1>4. /\ l \in Seq(Clients) /\ Len(l) = Len(line) - 1
        /\ \A j \in 1 .. Len(l) : l[j] = IF j < at THEN line[j] ELSE line[j + 1]
    BY <1>1, <1>2, <1>3, WithoutOne
  <1>5. \A i, j \in 1 .. Len(l) : l[i] = l[j] => i = j
    BY <1>1, <1>2, <1>4 DEF LineOK
  <1>6. ASSUME NEW d \in Clients, NEW i \in 1 .. Len(l), l[i] = d
        PROVE  d # c /\ \E j \in 1 .. Len(line) : line[j] = d
    BY <1>1, <1>2, <1>4, <1>6 DEF LineOK
  <1>7. ASSUME NEW d \in Clients, d # c, NEW i \in 1 .. Len(line), line[i] = d
        PROVE  \E j \in 1 .. Len(l) : l[j] = d
    <2>1. CASE i < at
      BY <1>1, <1>2, <1>4, <1>7, <2>1
    <2>2. CASE i > at
      <3>1. i - 1 \in 1 .. Len(l) /\ l[i - 1] = line[i]
        BY <1>1, <1>2, <1>4, <2>2
      <3>2. QED
        BY <1>7, <3>1
    <2>3. QED
      BY <1>1, <1>2, <1>7, <2>1, <2>2
  <1>8. line[1] # c => l[1] = line[1]
    BY <1>1, <1>2, <1>4
  <1>9. QED
    BY <1>4, <1>5, <1>6, <1>7, <1>8 DEF Without

(* A step in which one task changes, to phase pc.                          *)
Turns(c, pc) == task'[c].pc = pc /\ \A d \in Tasks \ {c} : task'[d] = task[d]

LEMMA LineStays ==
  ASSUME LineOK, NEW c \in Clients, NEW pc, Turns(c, pc), line' = line,
         Waits(task[c].pc), Waits(pc), Past(pc) => line[1] = c
  PROVE  LineOK'
  BY DEF LineOK, Turns, Tasks

LEMMA LineGrows ==
  ASSUME LineOK, NEW c \in Clients, Turns(c, "queued"), line' = Append(line, c),
         ~Waits(task[c].pc)
  PROVE  LineOK'
  <1>1. /\ line' \in Seq(Clients) /\ Len(line') = Len(line) + 1 /\ Len(line) \in Nat
        /\ \A i \in 1 .. Len(line) : line'[i] = line[i]
        /\ line'[Len(line) + 1] = c
    BY DEF LineOK
  <1>2. \A i \in 1 .. Len(line) : line[i] # c
    BY DEF LineOK
  <1>3. \A i, j \in 1 .. Len(line') : line'[i] = line'[j] => i = j
    BY <1>1, <1>2 DEF LineOK
  <1>4. ASSUME NEW d \in Clients
        PROVE  Waits(task'[d].pc) <=> \E i \in 1 .. Len(line') : line'[i] = d
    <2>1. CASE d = c
      <3>1. Waits(task'[d].pc)
        BY <2>1 DEF Turns, Waits
      <3>2. QED
        BY <1>1, <2>1, <3>1
    <2>2. CASE d # c
      <3>1. task'[d] = task[d]
        BY <2>2 DEF Turns, Tasks
      <3>2. QED
        BY <1>1, <2>2, <3>1 DEF LineOK
    <2>3. QED
      BY <2>1, <2>2
  <1>5. ASSUME NEW d \in Clients, Past(task'[d].pc) PROVE line'[1] = d
    <2>1. d # c
      BY <1>5 DEF Turns, Past
    <2>2. Past(task[d].pc) /\ Waits(task[d].pc)
      BY <1>5, <2>1 DEF Turns, Past, Waits, Tasks
    <2>3. line[1] = d /\ Len(line) > 0
      BY <1>1, <2>2 DEF LineOK
    <2>4. QED
      BY <1>1, <2>3
  <1>6. QED
    BY <1>1, <1>3, <1>4, <1>5 DEF LineOK

LEMMA LineShrinks ==
  ASSUME LineOK, NEW c \in Clients, Turns(c, "ended"), line' = Leave(c), Waits(task[c].pc)
  PROVE  LineOK'
  <1>1. /\ line' \in Seq(Clients)
        /\ \A i, j \in 1 .. Len(line') : line'[i] = line'[j] => i = j
        /\ \A d \in Clients : (\E i \in 1 .. Len(line') : line'[i] = d)
                                <=> d # c /\ \E i \in 1 .. Len(line) : line[i] = d
        /\ line[1] # c => line'[1] = line[1]
    <2>1. Without(line', line, c)
      BY LeaveOK
    <2>2. QED
      BY <2>1 DEF Without
  <1>2. ~Waits(task'[c].pc) /\ ~Past(task'[c].pc)
    BY DEF Turns, Waits, Past
  <1>3. ASSUME NEW d \in Clients
        PROVE  Waits(task'[d].pc) <=> \E i \in 1 .. Len(line') : line'[i] = d
    <2>1. CASE d = c
      BY <1>1, <1>2, <2>1
    <2>2. CASE d # c
      <3>1. task'[d] = task[d]
        BY <2>2 DEF Turns, Tasks
      <3>2. Waits(task[d].pc) <=> \E i \in 1 .. Len(line) : line[i] = d
        BY DEF LineOK
      <3>3. (\E i \in 1 .. Len(line') : line'[i] = d) <=> \E i \in 1 .. Len(line) : line[i] = d
        BY <1>1, <2>2
      <3>4. QED
        BY <3>1, <3>2, <3>3
    <2>3. QED
      BY <2>1, <2>2
  <1>4. ASSUME NEW d \in Clients, Past(task'[d].pc) PROVE line'[1] = d
    <2>1. d # c /\ task'[d] = task[d]
      BY <1>2, <1>4 DEF Turns, Tasks
    <2>2. line[1] = d /\ line'[1] = line[1]
      BY <1>1, <1>4, <2>1 DEF LineOK
    <2>3. QED
      BY <2>2
  <1>5. QED
    BY <1>1, <1>3, <1>4 DEF LineOK

(* The backfill does not stand in the line.                                *)
LEMMA BackfillOutOfLine ==
  ASSUME LineOK, NEW pc, Turns(Backfill, pc), line' = line
  PROVE  LineOK'
  <1>1. \A c \in Clients : task'[c] = task[c]
    BY TasksAssumption DEF Turns, Tasks
  <1>2. QED
    BY <1>1 DEF LineOK

(* The phase that a step leaves its task in.                               *)
LEMMA Turned ==
  ASSUME CandlesInv, NEW c \in Tasks, NEW u, task' = [task EXCEPT ![c] = u]
  PROVE  Turns(c, u.pc)
  BY DEF CandlesInv, TasksOK, Turns

LEMMA PhaseAfter ==
  ASSUME NEW t, DOMAIN t = DOMAIN Idle
  PROVE  /\ \A opens : Resolve(t, opens).pc = "read"
         /\ Plan(t).pc = "fetch"
         /\ After(t).pc \in {"read", "respond"}
  <1>1. \A opens : Resolve(t, opens).pc = "read"
    BY DEF Resolve, Idle
  <1>2. Plan(t).pc = "fetch"
    BY DEF Plan, Idle
  <1>3. [Idle EXCEPT !.pc = "respond", !.req = t.req, !.now = t.now, !.merged = t.merged,
                     !.seen = t.seen, !.must = t.must, !.offered = t.offered].pc = "respond"
    BY DEF Idle
  <1>4. After(t).pc \in {"read", "respond"}
    BY <1>1, <1>3 DEF After
  <1>5. QED
    BY <1>1, <1>2, <1>4

(* A request that is past the lock goes on, and keeps its place.           *)
LEMMA GoesOnInLine ==
  ASSUME CandlesInv, LineOK, NEW c \in Tasks, NEW pc, Turns(c, pc), line' = line,
         Past(task[c].pc), Past(pc)
  PROVE  LineOK'
  <1>1. CASE c = Backfill
    BY <1>1, BackfillOutOfLine
  <1>2. CASE c \in Clients
    <2>1. Waits(task[c].pc) /\ Waits(pc) /\ line[1] = c
      BY <1>2 DEF LineOK, Past, Waits
    <2>2. QED
      BY <1>2, <2>1, LineStays
  <1>3. QED
    BY <1>1, <1>2 DEF Tasks

(* A request ends, however it does, and leaves the line.                   *)
LEMMA EndsInLine ==
  ASSUME CandlesInv, LineOK, NEW c \in Tasks, task' = [task EXCEPT ![c] = Ended(c)],
         line' = Leave(c), Waits(task[c].pc)
  PROVE  LineOK'
  <1>1. Turns(c, Ended(c).pc) /\ Ended(c).pc = (IF c = Backfill THEN "idle" ELSE "ended")
    BY Turned, EndedOK
  <1>2. CASE c = Backfill
    BY <1>1, <1>2, BackfillOutOfLine DEF Leave
  <1>3. CASE c \in Clients
    <2>1. Turns(c, "ended")
      BY <1>1, <1>3, TasksAssumption
    <2>2. QED
      BY <1>3, <2>1, LineShrinks
  <1>4. QED
    BY <1>2, <1>3 DEF Tasks

LEMMA AskInLine ==
  ASSUME CandlesInv, LineOK, NEW c \in Tasks, Ask(c)
  PROVE  LineOK'
  <1>1. PICK r \in Requests :
          task' = [task EXCEPT ![c].pc = "queued", ![c].must = served,
                               ![c].req = IF Given(r.end) THEN r ELSE [r EXCEPT !.end = now]]
    BY DEF Ask
  <1> DEFINE req == IF Given(r.end) THEN r ELSE [r EXCEPT !.end = now]
             u == [task[c] EXCEPT !.pc = "queued", !.must = served, !.req = req]
  <1>2. task' = [task EXCEPT ![c] = u] /\ line' = Append(line, c) /\ task[c].pc = "idle"
    BY <1>1 DEF Ask
  <1>3. c \in Clients
    BY DEF Ask, Tasks
  <1>4. u.pc = "queued"
    <2> HIDE DEF req
    <2>1. QED
      BY DEF CandlesInv, TasksOK, TaskOK, Idle
  <1> HIDE DEF u
  <1>5. Turns(c, "queued")
    BY <1>2, <1>4, Turned
  <1>6. ~Waits(task[c].pc)
    BY <1>2 DEF Waits
  <1>7. QED
    BY <1>2, <1>3, <1>5, <1>6, LineGrows

(* Enter waits for its turn at the head of the line.                       *)
LEMMA EnterInLine ==
  ASSUME CandlesInv, LineOK, NEW c \in Tasks, Enter(c)
  PROVE  LineOK'
  <1>1. task[c].pc = "queued" /\ Head(line) = c /\ line' = line /\ DOMAIN task[c] = DOMAIN Idle
    BY DEF Enter, CandlesInv, TasksOK, TaskOK
  <1>2. c \in Clients
    BY <1>1 DEF CandlesInv, JobOK, Tasks
  <1>3. Turns(c, "read")
    <2>1. CASE task[c].req.mode = "count"
      <3> DEFINE t == [task[c] EXCEPT !.now = now, !.current = cache']
      <3>1. task' = [task EXCEPT ![c] = Resolve(t, Page(t))]
        BY <2>1 DEF Enter
      <3>2. DOMAIN t = DOMAIN Idle
        BY <1>1
      <3> HIDE DEF t
      <3>3. Resolve(t, Page(t)).pc = "read"
        BY <3>2, PhaseAfter
      <3>4. QED
        BY <3>1, <3>3, Turned
    <2>2. CASE task[c].req.mode # "count"
      <3> DEFINE opens == Window(task[c].req, sch, El).opens
      <3>1. task' = [task EXCEPT ![c] = Resolve(task[c], opens)]
        BY <2>2 DEF Enter
      <3> HIDE DEF opens
      <3>2. Resolve(task[c], opens).pc = "read"
        BY <1>1, PhaseAfter
      <3>3. QED
        BY <3>1, <3>2, Turned
    <2>3. QED
      BY <2>1, <2>2
  <1>4. line[1] = c /\ Waits(task[c].pc)
    <2>1. Waits(task[c].pc)
      BY <1>1 DEF Waits
    <2>2. line \in Seq(Clients) /\ \E i \in 1 .. Len(line) : line[i] = c
      BY <1>2, <2>1 DEF LineOK
    <2>3. QED
      BY <1>1, <2>1, <2>2
  <1>5. Waits("read")
    BY DEF Waits
  <1>6. QED
    BY <1>1, <1>2, <1>3, <1>4, <1>5, LineStays

LEMMA NextChunkInLine ==
  ASSUME CandlesInv, LineOK, NextChunk
  PROVE  LineOK'
  <1> DEFINE req == Request("range", 0, "range", Head(job.chunks).start, Head(job.chunks).end)
             t == [task[Backfill] EXCEPT !.req = req]
             u == Resolve(t, Window(req, sch, El).opens)
  <1>1. task' = [task EXCEPT ![Backfill] = u] /\ line' = line /\ Backfill \in Tasks
    BY DEF NextChunk, Tasks
  <1> HIDE DEF u
  <1>2. QED
    BY <1>1, Turned, BackfillOutOfLine

LEMMA WorksInLine ==
  ASSUME CandlesInv, LineOK, NEW c \in Tasks, Read(c) \/ Look(c) \/ Fetch(c) \/ Store(c)
  PROVE  LineOK'
  <1>1. DOMAIN task[c] = DOMAIN Idle /\ line' = line /\ Past(task[c].pc)
    BY DEF Read, Look, Fetch, Store, CandlesInv, TasksOK, TaskOK, Past
  <1>2. Past("read") /\ Past("look") /\ Past("fetch") /\ Past("respond")
    BY DEF Past
  <1>3. CASE Read(c)
    <2> DEFINE have == Restrict(db, DOMAIN db \cap ToSet(task[c].opens))
               t == [task[c] EXCEPT !.have = have]
               look == [t EXCEPT !.pc = "look"]
    <2>1. task' = [task EXCEPT ![c] = look] \/ task' = [task EXCEPT ![c] = Plan(t)]
      BY <1>3 DEF Read
    <2>2. DOMAIN t = DOMAIN Idle
      BY <1>1
    <2> HIDE DEF t
    <2>3. look.pc = "look" /\ Plan(t).pc = "fetch"
      BY <2>2, PhaseAfter DEF Idle
    <2>4. Turns(c, "look") \/ Turns(c, "fetch")
      BY <2>1, <2>3, Turned
    <2>5. QED
      BY <1>1, <1>2, <2>4, GoesOnInLine
  <1>4. CASE Look(c)
    <2> DEFINE t == [task[c] EXCEPT !.now = now, !.current = IF c = Backfill THEN None ELSE cache']
    <2>1. task' = [task EXCEPT ![c] = Plan(t)] /\ DOMAIN t = DOMAIN Idle
      BY <1>1, <1>4 DEF Look
    <2> HIDE DEF t
    <2>2. Turns(c, "fetch")
      BY <2>1, PhaseAfter, Turned
    <2>3. QED
      BY <1>1, <1>2, <2>2, GoesOnInLine
  <1>5. CASE Fetch(c)
    <2>1. Turns(c, "fetch")
      <3>1. task[c].pc = "fetch" /\ DOMAIN task = Tasks
        BY <1>5 DEF Fetch, CandlesInv, TasksOK
      <3>2. PICK opens, got, offered :
              task' = [task EXCEPT ![c].todo = Tail(@), ![c].got = got, ![c].offered = offered]
        BY <1>5 DEF Fetch
      <3> DEFINE u == [task[c] EXCEPT !.todo = Tail(task[c].todo), !.got = got, !.offered = offered]
      <3>3. task' = [task EXCEPT ![c] = u]
        BY <3>1, <3>2
      <3>4. u.pc = "fetch"
        BY <1>1, <3>1 DEF Idle
      <3> HIDE DEF u
      <3>5. QED
        BY <3>3, <3>4, Turned
    <2>2. QED
      BY <1>1, <1>2, <2>1, GoesOnInLine
  <1>6. CASE Store(c)
    <2> DEFINE t == [task[c] EXCEPT !.merged = Merged(task[c])]
    <2>1. task' = [task EXCEPT ![c] = After(t)] /\ DOMAIN t = DOMAIN Idle
      BY <1>1, <1>6 DEF Store
    <2> HIDE DEF t
    <2>2. Turns(c, "read") \/ Turns(c, "respond")
      BY <2>1, PhaseAfter, Turned
    <2>3. QED
      BY <1>1, <1>2, <2>2, GoesOnInLine
  <1>7. QED
    BY <1>3, <1>4, <1>5, <1>6

LEMMA LineNext == CandlesInv /\ LineOK /\ [Next]_vars => LineOK'
  <1> SUFFICES ASSUME CandlesInv, LineOK, [Next]_vars PROVE LineOK'
    OBVIOUS
  <1>1. ASSUME NEW c \in Tasks, Respond(c) \/ Fail(c) \/ Cancel(c)
        PROVE  LineOK'
    <2>1. /\ task' = [task EXCEPT ![c] = Ended(c)] /\ line' = Leave(c)
          /\ task[c].pc \in {"respond", "queued", "read", "fetch"}
      BY <1>1 DEF Respond, Fail, Cancel
    <2>2. QED
      BY <2>1, EndsInLine DEF Waits
  <1>2. ASSUME Tick \/ UNCHANGED vars PROVE LineOK'
    BY <1>2 DEF Tick, vars, LineOK
  <1>3. QED
    BY <1>1, <1>2, NextChunkInLine, AskInLine, EnterInLine, WorksInLine DEF Next

(* The requests of one key: nobody is past the lock but the head of the    *)
(* line, every request that has come and not ended is in line, and none    *)
(* that has ended, in an answer, a failure or a cancellation, is left in   *)
(* it (candle_cache.py:79).                                                *)
THEOREM SingleFlightCorrect == Spec => []SingleFlight
  <1>1. Init => LineOK
    <2> SUFFICES ASSUME Init PROVE LineOK
      OBVIOUS
    <2>1. line = <<>> /\ \A c \in Clients : task[c].pc = "idle"
      BY IdleOK DEF Init, Tasks
    <2>2. QED
      BY <2>1 DEF LineOK, Waits, Past
  <1>2. CandlesInv /\ LineOK => SingleFlight
    <2> SUFFICES ASSUME LineOK, NEW c \in Clients
                 PROVE  /\ c \in ToSet(line) <=> Waits(task[c].pc)
                        /\ Past(task[c].pc) => Head(line) = c
      BY DEF SingleFlight, Waits, Past
    <2>1. line \in Seq(Clients) /\ (c \in ToSet(line) <=> \E i \in 1 .. Len(line) : line[i] = c)
      BY DEF LineOK, ToSet
    <2>2. Past(task[c].pc) => Waits(task[c].pc)
      BY DEF Past, Waits
    <2>3. QED
      BY <2>1, <2>2 DEF LineOK
  <1>3. QED
    BY <1>1, <1>2, LineNext, CandlesCorrect, PTL DEF Spec

-----------------------------------------------------------------------------
(* What a count answers: of a finite set of opens the n foremost, from     *)
(* either end.                                                             *)
Precedes(way, p, o) == IF way = "on" THEN p < o ELSE p > o
AheadOf(way, R, o) == {p \in R : Precedes(way, p, o)}
FiniteOpens(R) == R \in SUBSET Int /\ IsFiniteSet(R)
TheForemost(way, R, n) == {o \in R : Cardinality(AheadOf(way, R, o)) < n}

LEMMA SomeOpens ==
  ASSUME NEW R, FiniteOpens(R), NEW T, T \subseteq R
  PROVE  FiniteOpens(T) /\ Cardinality(T) \in Nat /\ Cardinality(T) <= Cardinality(R)
  <1>1. IsFiniteSet(T) /\ Cardinality(T) <= Cardinality(R)
    BY FS_Subset DEF FiniteOpens
  <1>2. Cardinality(T) \in Nat
    BY <1>1, FS_CardinalityType
  <1>3. QED
    BY <1>1, <1>2 DEF FiniteOpens

(* Fewer opens are ahead of the one that is ahead.                         *)
LEMMA RankFalls ==
  ASSUME NEW way, NEW R, FiniteOpens(R), NEW o \in R
  PROVE  /\ Cardinality(AheadOf(way, R, o)) \in Nat
         /\ \A q \in AheadOf(way, R, o) : Cardinality(AheadOf(way, R, q)) < Cardinality(AheadOf(way, R, o))
  <1>1. FiniteOpens(AheadOf(way, R, o)) /\ Cardinality(AheadOf(way, R, o)) \in Nat
    BY SomeOpens DEF AheadOf
  <1>2. ASSUME NEW q \in AheadOf(way, R, o)
        PROVE  Cardinality(AheadOf(way, R, q)) < Cardinality(AheadOf(way, R, o))
    <2>1. q \in R /\ q \in Int /\ o \in Int /\ Precedes(way, q, o)
      BY <1>2 DEF AheadOf, FiniteOpens
    <2>2. AheadOf(way, R, q) \subseteq AheadOf(way, R, o) /\ q \notin AheadOf(way, R, q)
      <3>1. \A p \in R : p \in Int
        BY DEF FiniteOpens
      <3>2. \A p \in R : Precedes(way, p, q) => Precedes(way, p, o) /\ p # q
        BY <2>1, <3>1 DEF Precedes
      <3>3. QED
        BY <3>2 DEF AheadOf
    <2>3. /\ Cardinality(AheadOf(way, R, q)) \in Nat
          /\ Cardinality(AheadOf(way, R, q)) <= Cardinality(AheadOf(way, R, o))
      BY <1>1, <2>2, SomeOpens
    <2>4. IsFiniteSet(AheadOf(way, R, o)) /\ AheadOf(way, R, q) \in SUBSET AheadOf(way, R, o)
      BY <1>1, <2>2 DEF FiniteOpens
    <2>5. Cardinality(AheadOf(way, R, o)) # Cardinality(AheadOf(way, R, q))
      BY <1>2, <2>2, <2>4, FS_Subset
    <2>6. QED
      BY <1>1, <2>3, <2>5
  <1>3. QED
    BY <1>1, <1>2

LEMMA FirstOf ==
  ASSUME NEW way, NEW R, FiniteOpens(R), R # {}
  PROVE  \E f \in R : \A o \in R : o = f \/ Precedes(way, f, o)
  <1> DEFINE m == [o \in R |-> Cardinality(AheadOf(way, R, o))]
  <1>1. m \in [R -> Nat]
    BY RankFalls
  <1>2. PICK f \in R : \A o \in R : m[f] <= m[o]
    <2> HIDE DEF m
    <2>1. R \in SUBSET R
      OBVIOUS
    <2>2. QED
      BY <1>1, <2>1, SmallestNat
  <1>3. AheadOf(way, R, f) = {}
    <2>1. ASSUME NEW q \in AheadOf(way, R, f) PROVE FALSE
      <3>1. q \in R
        BY <2>1 DEF AheadOf
      <3>2. m[q] < m[f]
        BY <2>1, <3>1, RankFalls
      <3>3. m[f] <= m[q] /\ m[f] \in Nat /\ m[q] \in Nat
        BY <1>1, <1>2, <3>1
      <3> HIDE DEF m
      <3>4. QED
        BY <3>2, <3>3
    <2>2. QED
      BY <2>1
  <1>4. \A o \in R : o \in Int
    BY DEF FiniteOpens
  <1>5. QED
    BY <1>3, <1>4 DEF AheadOf, Precedes

(* A finite set of opens has a last one and a first one.                   *)
LEMMA EndsOf ==
  ASSUME NEW R, FiniteOpens(R), R # {}
  PROVE  /\ Max(R) \in R /\ \A o \in R : o <= Max(R)
         /\ Min(R) \in R /\ \A o \in R : Min(R) <= o
  <1>1. \A o \in R : o \in Int
    BY DEF FiniteOpens
  <1>2. PICK a \in R : \A o \in R : o = a \/ Precedes("on", a, o)
    BY FirstOf
  <1>3. PICK b \in R : \A o \in R : o = b \/ Precedes("back", b, o)
    BY FirstOf
  <1>4. \E x \in R : \A y \in R : x <= y
    BY <1>1, <1>2 DEF Precedes
  <1>5. \E x \in R : \A y \in R : x >= y
    BY <1>1, <1>3 DEF Precedes
  <1>6. Min(R) \in R /\ \A o \in R : Min(R) <= o
    BY <1>4 DEF Min
  <1>7. Max(R) \in R /\ \A o \in R : Max(R) >= o
    BY <1>5 DEF Max
  <1>8. QED
    BY <1>1, <1>6, <1>7

(* They are no more than n, all of them if they are fewer, and every open  *)
(* that is ahead of one of them is one of them.                            *)
LEMMA ForemostAre ==
  ASSUME NEW way, NEW R, FiniteOpens(R), NEW n \in Nat, NEW A, A = TheForemost(way, R, n)
  PROVE  /\ A \subseteq R /\ FiniteOpens(A) /\ Cardinality(A) \in Nat /\ Cardinality(A) <= n
         /\ Cardinality(A) < n => A = R
         /\ \A a \in A, o \in R : Precedes(way, o, a) => o \in A
  <1>1. A \subseteq R /\ FiniteOpens(A) /\ Cardinality(A) \in Nat
    BY SomeOpens DEF TheForemost
  <1>2. ASSUME NEW a \in A, NEW o \in R, Precedes(way, o, a)
        PROVE  o \in A
    <2>1. o \in AheadOf(way, R, a) /\ a \in R
      BY <1>1, <1>2 DEF AheadOf
    <2>2. /\ Cardinality(AheadOf(way, R, o)) < Cardinality(AheadOf(way, R, a))
          /\ Cardinality(AheadOf(way, R, a)) \in Nat /\ Cardinality(AheadOf(way, R, o)) \in Nat
      BY <2>1, RankFalls
    <2>3. Cardinality(AheadOf(way, R, a)) < n
      BY DEF TheForemost
    <2>4. QED
      BY <2>2, <2>3 DEF TheForemost
  <1>3. Cardinality(A) <= n
    <2>1. CASE A = {}
      BY <2>1, FS_EmptySet
    <2>2. CASE A # {}
      <3> DEFINE other == IF way = "on" THEN "back" ELSE "on"
      <3>1. PICK l \in A : \A o \in A : o = l \/ Precedes(other, l, o)
        BY <1>1, <2>2, FirstOf
      <3>2. \A o \in A : o = l \/ Precedes(way, o, l)
        BY <1>1, <3>1 DEF Precedes, FiniteOpens
      <3>3. A \ {l} \subseteq AheadOf(way, R, l)
        BY <1>1, <3>2 DEF AheadOf
      <3>4. l \in R /\ FiniteOpens(AheadOf(way, R, l)) /\ Cardinality(AheadOf(way, R, l)) \in Nat
        BY <1>1, SomeOpens DEF AheadOf
      <3>5. Cardinality(A \ {l}) <= Cardinality(AheadOf(way, R, l))
        BY <3>3, <3>4, SomeOpens
      <3>6. Cardinality(A \ {l}) = Cardinality(A) - 1
        BY <1>1, FS_RemoveElement DEF FiniteOpens
      <3>7. Cardinality(AheadOf(way, R, l)) < n
        BY DEF TheForemost
      <3>8. QED
        BY <1>1, <3>4, <3>5, <3>6, <3>7
    <2>3. QED
      BY <2>1, <2>2
  <1>4. ASSUME Cardinality(A) < n PROVE A = R
    <2>1. ASSUME R \ A # {} PROVE FALSE
      <3>1. FiniteOpens(R \ A)
        BY SomeOpens
      <3>2. PICK f \in R \ A : \A o \in R \ A : o = f \/ Precedes(way, f, o)
        BY <2>1, <3>1, FirstOf
      <3>3. AheadOf(way, R, f) \subseteq A
        <4>1. \A p \in R : p \in Int
          BY DEF FiniteOpens
        <4>2. QED
          BY <3>2, <4>1 DEF AheadOf, Precedes
      <3>4. Cardinality(AheadOf(way, R, f)) \in Nat /\ Cardinality(AheadOf(way, R, f)) <= Cardinality(A)
        BY <1>1, <3>3, SomeOpens
      <3>5. Cardinality(AheadOf(way, R, f)) < n
        BY <1>1, <1>4, <3>4
      <3>6. QED
        BY <3>2, <3>5 DEF TheForemost
    <2>2. QED
      BY <1>1, <2>1
  <1>5. QED
    BY <1>1, <1>2, <1>3, <1>4

(* A list has no more opens than places.                                   *)
LEMMA ListIsFinite ==
  ASSUME NEW s \in Seq(Int)
  PROVE  FiniteOpens(ToSet(s)) /\ Cardinality(ToSet(s)) <= Len(s) /\ Cardinality(ToSet(s)) \in Nat
  <1>1. Len(s) \in Nat /\ DOMAIN s = 1 .. Len(s) /\ ToSet(s) \in SUBSET Int
    BY DEF ToSet
  <1>2. s \in Surjection(1 .. Len(s), ToSet(s))
    BY <1>1 DEF Surjection, ToSet
  <1>3. IsFiniteSet(1 .. Len(s)) /\ Cardinality(1 .. Len(s)) = Len(s)
    <2>1. 1 \in Int /\ Len(s) \in Int
      BY <1>1
    <2>2. IsFiniteSet(1 .. Len(s)) /\ Cardinality(1 .. Len(s)) = IF 1 > Len(s) THEN 0 ELSE Len(s) - 1 + 1
      BY <2>1, FS_Interval
    <2>3. QED
      BY <1>1, <2>2
  <1>4. IsFiniteSet(ToSet(s)) /\ Cardinality(ToSet(s)) <= Len(s)
    BY <1>2, <1>3, FS_Surjection
  <1>5. QED
    BY <1>1, <1>4, FS_CardinalityType DEF FiniteOpens

-----------------------------------------------------------------------------
(* What a request has scanned, and what it has of the opens its client has *)
(* been promised.                                                          *)
RequestOK(r) ==
  r.start \in Int /\ r.end \in Int /\ (r.mode # "range" => r.n \in Nat \ {0})

Scanned(t) ==
  /\ FiniteOpens(t.seen)
  /\ t.opens \in Seq(Int) /\ ToSet(t.opens) \subseteq t.seen
  /\ DOMAIN t.merged \subseteq t.seen /\ DOMAIN t.have \subseteq t.seen /\ DOMAIN t.got \subseteq ToSet(t.opens)
  /\ t.seen # {} /\ t.req.mode = "count" => Cardinality(t.seen) <= ScanBudget

(* What it has been promised, has read or shows as complete is stored.     *)
Shows(t, o) == o \in DOMAIN t.merged /\ t.merged[o].complete
Known(t, stored) ==
  t.must \subseteq stored /\ DOMAIN t.have \subseteq stored /\ \A o \in DOMAIN t.merged : Shows(t, o) => o \in stored

(* It shows what it must, or is about to read it, or has read it.          *)
Whole(t) == \A o \in t.must \cap t.seen : Shows(t, o)
Pending(t) ==
  /\ \A o \in t.must \cap t.seen : o \in ToSet(t.opens) \/ Shows(t, o)
  /\ t.pc \in {"look", "fetch"} => t.must \cap ToSet(t.opens) \subseteq DOMAIN t.have
  /\ t.req.mode = "limit" => t.opens # <<>>

Enough(t) ==
  t.req.mode = "count" /\ Cardinality(DOMAIN t.merged) < t.req.n => Cardinality(t.seen) = ScanBudget

Promised(t, stored) ==
  /\ Scanned(t) /\ Known(t, stored)
  /\ t.pc \in {"idle", "queued", "ended"} => t.seen = {}
  /\ t.pc \notin {"idle", "ended"} => RequestOK(t.req)
  /\ t.pc \in {"read", "look", "fetch"} => Pending(t)
  /\ t.pc = "respond" => Whole(t) /\ Enough(t)

PromisesOK ==
  served \subseteq DOMAIN db /\ \A c \in Clients : Promised(task[c], DOMAIN db)

LEMMA SlotsAreOpens ==
  Schedule(sch) /\ El \in SUBSET Opens(sch) /\ Hour \in Int
  <1>1. Hour \in Nat \ {0}
    BY DayAssumption DEF Hour
  <1>2. Schedule(sch)
    BY <1>1 DEF Schedule, Fixed, sch, FixedSchedule
  <1>3. ASSUME NEW o \in El PROVE o \in Opens(sch)
    <2>1. o \in Int /\ FirstOpen(sch, o) = o
      BY <1>3, ElAssumption
    <2>2. QED
      BY <1>2, <2>1, FirstOpenIs
  <1>4. QED
    BY <1>1, <1>2, <1>3

LEMMA LatestAre ==
  ASSUME Recurs(El), NEW e \in Int, NEW n \in Nat
  PROVE  LatestOpens(sch, e, n, El) \in Seq(Int) /\ Len(LatestOpens(sch, e, n, El)) = n
  <1>1. /\ Len(LatestOpens(sch, e, n, El)) = n
        /\ \E b \in Int : Lists(LatestOpens(sch, e, n, El), OpensIn(El, b, e))
    BY SlotsAreOpens, LatestOpensExact
  <1>2. QED
    BY <1>1 DEF Lists

LEMMA NextAre ==
  ASSUME Recurs(El), NEW s \in Int, NEW n \in Nat
  PROVE  NextOpens(sch, s, n, El) \in Seq(Int) /\ Len(NextOpens(sch, s, n, El)) = n
  <1>1. /\ Len(NextOpens(sch, s, n, El)) = n
        /\ \E b \in Int : Lists(NextOpens(sch, s, n, El), OpensIn(El, s, b))
    BY SlotsAreOpens, NextOpensExact
  <1>2. QED
    BY <1>1 DEF Lists

(* The opens of a request that is not a count.                             *)
LEMMA WindowOK ==
  ASSUME Recurs(El), NEW r, RequestOK(r)
  PROVE  Window(r, sch, El).opens \in Seq(Int) /\ (r.mode = "limit" => Window(r, sch, El).opens # <<>>)
  <1>1. CASE r.mode = "range"
    <2>1. Window(r, sch, El).opens = ExpectedOpens(sch, r.start, r.end, El)
      BY <1>1 DEF Window
    <2>2. Lists(ExpectedOpens(sch, r.start, r.end, El), OpensIn(El, r.start, r.end))
      BY SlotsAreOpens, ExpectedOpensExact DEF RequestOK
    <2>3. QED
      BY <1>1, <2>1, <2>2 DEF Lists
  <1>2. CASE r.mode # "range"
    <2>1. Window(r, sch, El).opens = IF r.direction = "forward" THEN NextOpens(sch, r.start, r.n, El)
                                                                ELSE LatestOpens(sch, r.end, r.n, El)
      BY <1>2 DEF Window
    <2>2. r.start \in Int /\ r.end \in Int /\ r.n \in Nat /\ r.n # 0
      BY <1>2 DEF RequestOK
    <2>3. /\ NextOpens(sch, r.start, r.n, El) \in Seq(Int) /\ Len(NextOpens(sch, r.start, r.n, El)) = r.n
          /\ LatestOpens(sch, r.end, r.n, El) \in Seq(Int) /\ Len(LatestOpens(sch, r.end, r.n, El)) = r.n
      BY <2>2, NextAre, LatestAre
    <2>4. Window(r, sch, El).opens \in Seq(Int) /\ Len(Window(r, sch, El).opens) = r.n
      BY <2>1, <2>3
    <2>5. QED
      BY <2>2, <2>4
  <1>3. QED
    BY <1>1, <1>2

(* A page of a count goes no further than the budget.                      *)
LEMMA PageOK ==
  ASSUME Recurs(El), NEW t, RequestOK(t.req), t.req.mode = "count", FiniteOpens(t.seen),
         Cardinality(t.seen) <= ScanBudget
  PROVE  Page(t) \in Seq(Int) /\ Len(Page(t)) <= ScanBudget - Cardinality(t.seen)
  <1> DEFINE capacity == IF MaxCandles > 1 THEN MaxCandles - 1 ELSE 1
             left == ScanBudget - Cardinality(t.seen)
             sizes == {capacity, left} \cup (IF t.seen = {} THEN {t.req.n} ELSE {})
  <1>1. Cardinality(t.seen) \in Nat
    BY FS_CardinalityType DEF FiniteOpens
  <1>2. capacity \in Nat /\ left \in Nat /\ t.req.n \in Nat
    BY <1>1, BoundsAssumption DEF RequestOK
  <1>3. FiniteOpens(sizes) /\ sizes \in SUBSET Nat /\ left \in sizes
    <2>1. IsFiniteSet(sizes)
      <3> HIDE DEF capacity, left
      <3>1. IsFiniteSet({} \cup {capacity}) /\ IsFiniteSet(({} \cup {capacity}) \cup {left})
            /\ IsFiniteSet((({} \cup {capacity}) \cup {left}) \cup {t.req.n})
        BY FS_EmptySet, FS_AddElement
      <3>2. sizes = ({} \cup {capacity}) \cup {left} \/ sizes = (({} \cup {capacity}) \cup {left}) \cup {t.req.n}
        OBVIOUS
      <3>3. QED
        BY <3>1, <3>2
    <2> HIDE DEF capacity, left
    <2>2. QED
      BY <1>2, <2>1 DEF FiniteOpens
  <1>4. PageSize(t) = Min(sizes)
    BY DEF PageSize
  <1> HIDE DEF sizes
  <1>5. PageSize(t) \in Nat /\ PageSize(t) <= left
    <2>1. sizes # {}
      BY <1>3
    <2>2. Min(sizes) \in sizes /\ \A o \in sizes : Min(sizes) <= o
      BY <1>3, <2>1, EndsOf
    <2> HIDE DEF left
    <2>3. QED
      BY <1>3, <1>4, <2>2
  <1>6. CASE t.req.direction = "forward"
    <2> DEFINE s == IF t.seen = {} THEN t.req.start ELSE Max(t.seen) + Hour
    <2>1. Page(t) = NextOpens(sch, s, PageSize(t), El)
      BY <1>6 DEF Page
    <2>2. s \in Int
      BY EndsOf, SlotsAreOpens DEF RequestOK, FiniteOpens
    <2> HIDE DEF s
    <2>3. QED
      BY <1>5, <2>1, <2>2, NextAre
  <1>7. CASE t.req.direction # "forward"
    <2> DEFINE e == IF t.seen = {} THEN t.req.end ELSE Min(t.seen)
    <2>1. Page(t) = LatestOpens(sch, e, PageSize(t), El)
      BY <1>7 DEF Page
    <2>2. e \in Int
      BY EndsOf DEF RequestOK, FiniteOpens
    <2> HIDE DEF e
    <2>3. QED
      BY <1>5, <2>1, <2>2, LatestAre
  <1>8. QED
    BY <1>6, <1>7

(* A request between two windows: what it must show of what it has scanned *)
(* it shows.                                                               *)
Ready(t, stored) ==
  /\ DOMAIN t = DOMAIN Idle
  /\ FiniteOpens(t.seen) /\ DOMAIN t.merged \subseteq t.seen /\ DOMAIN t.have \subseteq t.seen
  /\ Known(t, stored) /\ RequestOK(t.req) /\ Whole(t)
  /\ t.req.mode = "count" => Cardinality(t.seen) <= ScanBudget

LEMMA ResolvePromised ==
  ASSUME NEW t, NEW stored, Ready(t, stored), NEW opens \in Seq(Int), t.req.mode = "limit" => opens # <<>>,
         t.req.mode = "count" => Len(opens) <= ScanBudget - Cardinality(t.seen), NEW u, u = Resolve(t, opens)
  PROVE  Promised(u, stored)
  <1>1. /\ u.pc = "read" /\ u.opens = opens /\ u.seen = t.seen \cup ToSet(opens) /\ u.got = Empty
        /\ u.req = t.req /\ u.have = t.have /\ u.merged = t.merged /\ u.must = t.must
    BY DEF Ready, Resolve, Idle
  <1>2. FiniteOpens(ToSet(opens)) /\ Cardinality(ToSet(opens)) <= Len(opens) /\ Cardinality(ToSet(opens)) \in Nat
    BY ListIsFinite
  <1>3. FiniteOpens(u.seen) /\ (t.req.mode = "count" => Cardinality(u.seen) <= ScanBudget)
    <2>1. IsFiniteSet(t.seen) /\ IsFiniteSet(ToSet(opens))
      BY <1>2 DEF Ready, FiniteOpens
    <2>2. IsFiniteSet(u.seen)
          /\ Cardinality(u.seen) = Cardinality(t.seen) + Cardinality(ToSet(opens)) - Cardinality(t.seen \cap ToSet(opens))
      BY <1>1, <2>1, FS_Union
    <2>3. IsFiniteSet(t.seen \cap ToSet(opens))
      BY <2>1, FS_Intersection
    <2>4. Cardinality(t.seen) \in Nat /\ Cardinality(t.seen \cap ToSet(opens)) \in Nat
      BY <2>1, <2>3, FS_CardinalityType
    <2>5. Len(opens) \in Nat /\ ScanBudget \in Nat
      BY BoundsAssumption
    <2>6. t.req.mode = "count" => Cardinality(u.seen) <= ScanBudget
      BY <1>2, <2>2, <2>4, <2>5
    <2>7. QED
      BY <1>1, <1>2, <2>2, <2>6 DEF Ready, FiniteOpens
  <1>4. Scanned(u)
    BY <1>1, <1>3, IdleOK DEF Scanned, Ready
  <1>5. Known(u, stored) /\ RequestOK(u.req)
    BY <1>1 DEF Known, Shows, Ready
  <1>6. Pending(u)
    BY <1>1 DEF Pending, Ready, Whole, Shows
  <1>7. QED
    BY <1>1, <1>4, <1>5, <1>6 DEF Promised

LEMMA PlanPromised ==
  ASSUME NEW t, NEW stored, DOMAIN t = DOMAIN Idle, Scanned(t), Known(t, stored), RequestOK(t.req), Pending(t),
         t.must \cap ToSet(t.opens) \subseteq DOMAIN t.have, NEW u, u = Plan(t)
  PROVE  Promised(u, stored)
  <1>1. /\ u.pc = "fetch" /\ u.opens = t.opens /\ u.seen = t.seen /\ u.got = t.got
        /\ u.req = t.req /\ u.have = t.have /\ u.merged = t.merged /\ u.must = t.must
    BY DEF Plan, Idle
  <1>2. Scanned(u) /\ Known(u, stored) /\ RequestOK(u.req) /\ Pending(u)
    BY <1>1 DEF Scanned, Known, Shows, Pending
  <1>3. QED
    BY <1>1, <1>2 DEF Promised

LEMMA NotEmpty == \A s : Len(s) = 1 => s # <<>>
  <1>1. Len(<<>>) # 1
    OBVIOUS
  <1>2. QED
    BY <1>1, Zenon

LEMMA AfterPromised ==
  ASSUME Recurs(El), NEW t, NEW stored, Ready(t, stored), t.opens \in Seq(Int),
         t.req.mode = "limit" => t.opens # <<>>, NEW u, u = After(t)
  PROVE  Promised(u, stored)
  <1>1. CASE FallsBack(t)
    <2> DEFINE opens == LatestOpens(sch, Head(t.opens), 1, El)
    <2>0. t.req.mode = "limit" /\ ~Continues(t)
      BY <1>1 DEF FallsBack, Continues
    <2>1. u = Resolve(t, opens) /\ t.req.mode = "limit"
      BY <1>1, <2>0 DEF After
    <2>2. Head(t.opens) \in Int
      BY <2>1
    <2>3. opens \in Seq(Int) /\ Len(opens) = 1
      BY <2>2, LatestAre
    <2> HIDE DEF opens
    <2>4. opens # <<>>
      BY <2>3, NotEmpty
    <2>5. t.req.mode # "count"
      BY <2>1
    <2>6. QED
      BY <2>1, <2>3, <2>4, <2>5, ResolvePromised
  <1>2. CASE ~FallsBack(t) /\ Continues(t)
    <2>1. u = Resolve(t, Page(t)) /\ t.req.mode = "count"
      BY <1>2 DEF After, Continues
    <2>2. Page(t) \in Seq(Int) /\ Len(Page(t)) <= ScanBudget - Cardinality(t.seen)
      BY <2>1, PageOK DEF Ready
    <2>3. QED
      BY <2>1, <2>2, ResolvePromised
  <1>3. CASE ~FallsBack(t) /\ ~Continues(t)
    <2>1. u = [Idle EXCEPT !.pc = "respond", !.req = t.req, !.now = t.now, !.merged = t.merged,
                           !.seen = t.seen, !.must = t.must, !.offered = t.offered]
      BY <1>3 DEF After
    <2>2. /\ u.pc = "respond" /\ u.opens = <<>> /\ u.seen = t.seen /\ u.got = Empty
          /\ u.req = t.req /\ u.have = Empty /\ u.merged = t.merged /\ u.must = t.must
      BY <2>1 DEF Idle
    <2>3. ToSet(<<>>) = {} /\ <<>> \in Seq(Int)
      BY DEF ToSet
    <2>4. Scanned(u)
      BY <2>2, <2>3, IdleOK DEF Scanned, Ready
    <2>5. Known(u, stored) /\ RequestOK(u.req) /\ Whole(u)
      BY <2>2, IdleOK DEF Known, Shows, Ready, Whole
    <2>6. Enough(u)
      <3>1. Cardinality(t.seen) \in Nat /\ ScanBudget \in Nat
        BY FS_CardinalityType, BoundsAssumption DEF Ready, FiniteOpens
      <3>2. QED
        BY <1>3, <2>2, <3>1 DEF Enough, Continues, Ready
    <2>7. QED
      BY <2>2, <2>4, <2>5, <2>6 DEF Promised
  <1>4. QED
    BY <1>1, <1>2, <1>3

(* A row that is shown as complete is stored, or about to be; what was     *)
(* read stays complete, and what is not of the window is as it was.        *)
LEMMA MergedShows ==
  ASSUME NEW t, DOMAIN t = DOMAIN Idle, NEW u, u = [t EXCEPT !.merged = Merged(t)], NEW o
  PROVE  /\ o \in DOMAIN t.have => Shows(u, o)
         /\ Shows(u, o) => o \in DOMAIN t.have \cup Complete(t) \/ Shows(t, o)
         /\ Shows(t, o) /\ o \notin DOMAIN t.got \cup Cached(t) => Shows(u, o)
  <1>1. u.merged = Merged(t)
    BY DEF Idle
  <1>2. DOMAIN Merged(t) = DOMAIN t.have \cup DOMAIN t.got \cup Cached(t) \cup DOMAIN t.merged
    BY DEF Merged
  <1>3. CASE o \in DOMAIN t.have
    <2>1. Merged(t)[o] = [version |-> t.have[o], complete |-> TRUE]
      BY <1>3 DEF Merged
    <2>2. Merged(t)[o].complete
      BY <2>1
    <2>3. QED
      BY <1>1, <1>2, <1>3, <2>2 DEF Shows
  <1>4. CASE o \in DOMAIN t.got \ DOMAIN t.have
    <2>1. Merged(t)[o] = [version |-> t.got[o], complete |-> ClosedAt(t, o)]
      BY <1>4 DEF Merged
    <2>2. Merged(t)[o].complete = ClosedAt(t, o)
      BY <2>1
    <2>3. Merged(t)[o].complete <=> ClosedAt(t, o)
      BY <2>2, Zenon
    <2>4. QED
      BY <1>1, <1>4, <2>3 DEF Shows, Complete
  <1>5. CASE o \in Cached(t) \ (DOMAIN t.have \cup DOMAIN t.got)
    <2>1. Merged(t)[o] = [version |-> t.current.version, complete |-> FALSE]
      BY <1>5 DEF Merged
    <2>2. ~Merged(t)[o].complete
      BY <2>1
    <2>3. QED
      BY <1>1, <1>5, <2>2 DEF Shows
  <1>6. CASE o \notin DOMAIN t.have \cup DOMAIN t.got \cup Cached(t)
    <2>1. o \in DOMAIN t.merged => Merged(t)[o] = t.merged[o]
      BY <1>6 DEF Merged
    <2>2. QED
      BY <1>1, <1>2, <1>6, <2>1 DEF Shows
  <1>7. QED
    BY <1>3, <1>4, <1>5, <1>6

LEMMA MergedReady ==
  ASSUME NEW t, DOMAIN t = DOMAIN Idle, NEW stored, Promised(t, stored), t.pc = "fetch",
         NEW u, u = [t EXCEPT !.merged = Merged(t)], NEW after, after = stored \cup Complete(t)
  PROVE  Ready(u, after) /\ u.opens = t.opens /\ (t.req.mode = "limit" => t.opens # <<>>) /\ u.req = t.req
  <1>1. /\ DOMAIN u = DOMAIN Idle /\ u.merged = Merged(t) /\ u.seen = t.seen /\ u.req = t.req
        /\ u.must = t.must /\ u.have = t.have /\ u.opens = t.opens
    BY DEF Idle
  <1>2. Scanned(t) /\ Known(t, stored) /\ RequestOK(t.req) /\ Pending(t)
    BY DEF Promised
  <1>3. t.must \cap ToSet(t.opens) \subseteq DOMAIN t.have
    BY <1>2 DEF Pending
  <1>4. DOMAIN t.got \cup Cached(t) \subseteq ToSet(t.opens)
    BY <1>2 DEF Scanned, Cached
  <1>5. Whole(u)
    <2>1. ASSUME NEW o \in t.must \cap t.seen PROVE Shows(u, o)
      <3>1. CASE o \in ToSet(t.opens)
        BY <1>3, <2>1, <3>1, MergedShows
      <3>2. CASE o \notin ToSet(t.opens)
        <4>1. Shows(t, o) /\ o \notin DOMAIN t.got \cup Cached(t)
          BY <1>2, <1>4, <2>1, <3>2 DEF Pending
        <4>2. QED
          BY <4>1, MergedShows
      <3>3. QED
        BY <3>1, <3>2
    <2>2. QED
      BY <1>1, <2>1 DEF Whole
  <1>6. Known(u, after)
    <2>1. ASSUME NEW o, Shows(u, o) PROVE o \in after
      <3>1. o \in DOMAIN t.have \cup Complete(t) \/ Shows(t, o)
        BY <2>1, MergedShows
      <3>2. Shows(t, o) => o \in DOMAIN t.merged
        BY DEF Shows
      <3>3. QED
        BY <1>2, <3>1, <3>2 DEF Known
    <2>2. QED
      BY <1>1, <1>2, <2>1 DEF Known
  <1>7. DOMAIN u.merged \subseteq u.seen
    <2>1. DOMAIN Merged(t) = DOMAIN t.have \cup DOMAIN t.got \cup Cached(t) \cup DOMAIN t.merged
      BY DEF Merged
    <2>2. /\ DOMAIN t.have \subseteq t.seen /\ DOMAIN t.merged \subseteq t.seen
          /\ ToSet(t.opens) \subseteq t.seen
      BY <1>2 DEF Scanned
    <2>3. QED
      BY <1>1, <1>4, <2>1, <2>2
  <1>8. t.req.mode = "count" => Cardinality(u.seen) <= ScanBudget
    <2>1. CASE t.seen = {}
      <3>1. Cardinality(u.seen) = 0
        BY <1>1, <2>1, FS_EmptySet
      <3>2. QED
        BY <3>1, BoundsAssumption
    <2>2. CASE t.seen # {}
      BY <1>1, <1>2, <2>2 DEF Scanned
    <2>3. QED
      BY <2>1, <2>2
  <1>9. QED
    BY <1>1, <1>2, <1>5, <1>6, <1>7, <1>8 DEF Ready, Scanned, Pending

-----------------------------------------------------------------------------
(* The answer: of all rows, or of a count the foremost in its direction.   *)
Way(t) == IF t.req.direction = "forward" THEN "on" ELSE "back"

LEMMA AnswerIs ==
  ASSUME NEW t
  PROVE  /\ DOMAIN Answer(t) = {o \in DOMAIN t.merged :
                                  t.req.mode # "count" \/ o \in TheForemost(Way(t), DOMAIN t.merged, t.req.n)}
         /\ \A o \in DOMAIN Answer(t) : Answer(t)[o] = t.merged[o]
  <1> DEFINE rows == DOMAIN t.merged
             ahead(o) == {p \in rows : IF t.req.direction = "forward" THEN p < o ELSE p > o}
  <1>1. Answer(t) = [o \in {o \in rows : t.req.mode # "count" \/ Cardinality(ahead(o)) < t.req.n} |-> t.merged[o]]
    BY DEF Answer, Foremost, Restrict
  <1>2. \A o : AheadOf(Way(t), rows, o) = ahead(o)
    BY DEF AheadOf, Precedes, Way
  <1>3. QED
    BY <1>1, <1>2 DEF TheForemost

(* A request that shows what it must answers what it has promised.         *)
LEMMA AnswerKeepsPromises ==
  ASSUME NEW t, NEW stored, Promised(t, stored), t.pc = "respond"
  PROVE  /\ \A o \in Covered(t) \cap t.must : o \in DOMAIN Answer(t) /\ Answer(t)[o].complete
         /\ t.req.mode = "count" => Cardinality(DOMAIN Answer(t)) <= t.req.n
         /\ t.req.mode = "count" /\ Cardinality(DOMAIN Answer(t)) < t.req.n => Cardinality(t.seen) = ScanBudget
  <1> DEFINE rows == DOMAIN Answer(t)
  <1>1. FiniteOpens(t.seen) /\ DOMAIN t.merged \subseteq t.seen /\ RequestOK(t.req) /\ Whole(t) /\ Enough(t)
    BY DEF Promised, Scanned
  <1>2. FiniteOpens(DOMAIN t.merged)
    BY <1>1, SomeOpens
  <1>3. \A o \in t.seen \cap t.must : o \in DOMAIN t.merged /\ t.merged[o].complete
    BY <1>1 DEF Whole, Shows
  <1>4. CASE t.req.mode # "count"
    <2>1. rows = DOMAIN t.merged /\ \A o \in rows : Answer(t)[o] = t.merged[o]
      BY <1>4, AnswerIs
    <2>2. Covered(t) = t.seen
      BY <1>4 DEF Covered
    <2>3. QED
      BY <1>3, <1>4, <2>1, <2>2
  <1>5. CASE t.req.mode = "count"
    <2>1. rows = TheForemost(Way(t), DOMAIN t.merged, t.req.n) /\ \A o \in rows : Answer(t)[o] = t.merged[o]
      <3>1. TheForemost(Way(t), DOMAIN t.merged, t.req.n) \subseteq DOMAIN t.merged
        BY DEF TheForemost
      <3>2. QED
        BY <1>5, <3>1, AnswerIs
    <2>2. t.req.n \in Nat /\ t.req.n # 0
      BY <1>1, <1>5 DEF RequestOK
    <2> HIDE DEF rows
    <2>3. /\ rows \subseteq DOMAIN t.merged /\ FiniteOpens(rows) /\ Cardinality(rows) \in Nat
          /\ Cardinality(rows) <= t.req.n
          /\ Cardinality(rows) < t.req.n => rows = DOMAIN t.merged
          /\ \A a \in rows, o \in DOMAIN t.merged : Precedes(Way(t), o, a) => o \in rows
      BY <1>2, <2>1, <2>2, ForemostAre
    <2>4. Cardinality(rows) < t.req.n => Cardinality(t.seen) = ScanBudget
      BY <1>1, <1>5, <2>3 DEF Enough
    <2>5. ASSUME NEW o \in Covered(t) \cap t.must PROVE o \in rows /\ t.merged[o].complete
      <3>1. CASE Cardinality(rows) < t.req.n
        <4>1. Covered(t) = t.seen
          BY <3>1 DEF Covered, rows
        <4>2. QED
          BY <1>3, <2>3, <2>5, <3>1, <4>1
      <3>2. CASE ~(Cardinality(rows) < t.req.n)
        <4>1. o \in t.seen /\ IF t.req.direction = "forward" THEN o <= Max(rows) ELSE o >= Min(rows)
          BY <1>5, <2>5, <3>2 DEF Covered, rows
        <4>2. rows # {}
          <5>1. Cardinality(rows) # 0
            BY <2>2, <2>3, <3>2
          <5>2. QED
            BY <5>1, FS_EmptySet
        <4>3. Max(rows) \in rows /\ Min(rows) \in rows
          BY <2>3, <4>2, EndsOf
        <4>4. o \in DOMAIN t.merged /\ t.merged[o].complete /\ \A p \in rows : p \in Int
          BY <1>3, <2>3, <2>5, <4>1 DEF FiniteOpens
        <4>5. o \in Int
          BY <1>2, <4>4 DEF FiniteOpens
        <4>6. CASE t.req.direction = "forward"
          <5>1. o = Max(rows) \/ Precedes(Way(t), o, Max(rows))
            BY <4>1, <4>3, <4>4, <4>5, <4>6 DEF Precedes, Way
          <5>2. QED
            BY <2>3, <4>3, <4>4, <5>1
        <4>7. CASE t.req.direction # "forward"
          <5>1. o = Min(rows) \/ Precedes(Way(t), o, Min(rows))
            BY <4>1, <4>3, <4>4, <4>5, <4>7 DEF Precedes, Way
          <5>2. QED
            BY <2>3, <4>3, <4>4, <5>1
        <4>8. QED
          BY <4>6, <4>7
      <3>3. QED
        BY <3>1, <3>2
    <2>6. QED
      BY <2>1, <2>3, <2>4, <2>5 DEF rows
  <1>6. QED
    BY <1>4, <1>5

-----------------------------------------------------------------------------
(* The table only grows, and a step is of one task.                        *)
LEMMA PromiseLasts ==
  ASSUME NEW t, NEW d, NEW e, Promised(t, d), d \subseteq e
  PROVE  Promised(t, e)
  BY DEF Promised, Known

LEMMA OnePromise ==
  ASSUME CandlesInv, PromisesOK, NEW c \in Tasks, NEW u, task' = [task EXCEPT ![c] = u],
         DOMAIN db \subseteq DOMAIN db', served' = served, c \in Clients => Promised(u, DOMAIN db')
  PROVE  PromisesOK'
  <1>1. \A d \in Clients : task'[d] = IF d = c THEN u ELSE task[d]
    BY DEF CandlesInv, TasksOK, Tasks
  <1>2. ASSUME NEW d \in Clients PROVE Promised(task'[d], DOMAIN db')
    <2>1. CASE d = c
      BY <1>1, <2>1
    <2>2. CASE d # c
      <3>1. Promised(task[d], DOMAIN db)
        BY DEF PromisesOK
      <3>2. QED
        BY <1>1, <2>2, <3>1, PromiseLasts
    <2>3. QED
      BY <2>1, <2>2
  <1>3. QED
    BY <1>2 DEF PromisesOK

LEMMA EndedPromised ==
  ASSUME NEW c, NEW stored
  PROVE  Promised(Ended(c), stored)
  <1> DEFINE u == Ended(c)
  <1>1. /\ u.pc = "idle" \/ u.pc = "ended"
        /\ u.seen = {} /\ u.opens = <<>> /\ u.must = {} /\ u.got = Empty /\ u.have = Empty /\ u.merged = Empty
    BY DEF Ended, Idle
  <1> HIDE DEF u
  <1>2. FiniteOpens({}) /\ ToSet(<<>>) = {} /\ <<>> \in Seq(Int)
    BY FS_EmptySet DEF FiniteOpens, ToSet
  <1>3. Scanned(u) /\ Known(u, stored)
    BY <1>1, <1>2, IdleOK DEF Scanned, Known
  <1>4. Promised(u, stored)
    BY <1>1, <1>3 DEF Promised
  <1>5. QED
    BY <1>4 DEF u

LEMMA UpsertGrows == \A t : DOMAIN Upsert(t) = DOMAIN db \cup Complete(t)
  BY DEF Upsert

LEMMA AskPromised ==
  ASSUME CandlesInv, PromisesOK, NEW c \in Tasks, Ask(c)
  PROVE  PromisesOK'
  <1>1. PICK r \in Requests :
          task' = [task EXCEPT ![c].pc = "queued", ![c].must = served,
                               ![c].req = IF Given(r.end) THEN r ELSE [r EXCEPT !.end = now]]
    BY DEF Ask
  <1> DEFINE req == IF Given(r.end) THEN r ELSE [r EXCEPT !.end = now]
             u == [task[c] EXCEPT !.pc = "queued", !.must = served, !.req = req]
  <1>2. task' = [task EXCEPT ![c] = u] /\ UNCHANGED <<db, served>> /\ c \in Clients /\ task[c].pc = "idle"
    BY <1>1 DEF Ask, Tasks
  <1>3. RequestOK(req)
    <2>1. now \in Int /\ r.start \in Int /\ r.end \in Int /\ (r.mode # "range" => r.n \in Nat \ {0})
          /\ DOMAIN r = {"error", "mode", "n", "direction", "start", "end"}
      <3>1. r.mode # "range" => r.n \in 1 .. MaxCandles
        BY RequestsAssumption
      <3>2. r.mode # "range" => r.n \in Nat \ {0}
        BY <3>1, BoundsAssumption
      <3>3. QED
        BY <3>2, RequestsAssumption DEF CandlesInv
    <2>2. /\ req.start = r.start /\ req.mode = r.mode /\ req.n = r.n
          /\ req.end = r.end \/ req.end = now
      BY <2>1
    <2> HIDE DEF req
    <2>3. QED
      BY <2>1, <2>2 DEF RequestOK
  <1>4. /\ u.pc = "queued" /\ u.must = served /\ u.req = req /\ u.opens = task[c].opens /\ u.seen = task[c].seen
        /\ u.have = task[c].have /\ u.got = task[c].got /\ u.merged = task[c].merged
    <2>1. DOMAIN task[c] = DOMAIN Idle
      BY DEF CandlesInv, TasksOK, TaskOK
    <2> HIDE DEF req
    <2>2. QED
      BY <2>1 DEF Idle
  <1> HIDE DEF u, req
  <1>5. Promised(task[c], DOMAIN db) /\ served \subseteq DOMAIN db
    BY <1>2 DEF PromisesOK
  <1>6. u.seen = {} /\ Scanned(u) /\ Known(u, DOMAIN db)
    BY <1>2, <1>4, <1>5 DEF Promised, Scanned, Known, Shows
  <1>7. Promised(u, DOMAIN db)
    BY <1>3, <1>4, <1>6 DEF Promised
  <1>8. QED
    BY <1>2, <1>7, OnePromise

LEMMA EnterPromised ==
  ASSUME Recurs(El), CandlesInv, PromisesOK, NEW c \in Tasks, Enter(c)
  PROVE  PromisesOK'
  <1>1. DOMAIN task[c] = DOMAIN Idle /\ task[c].pc = "queued" /\ c \in Clients /\ UNCHANGED <<db, served>>
    BY DEF Enter, CandlesInv, TasksOK, TaskOK, JobOK, Tasks
  <1>2. Promised(task[c], DOMAIN db)
    BY <1>1 DEF PromisesOK
  <1>3. Scanned(task[c]) /\ Known(task[c], DOMAIN db) /\ RequestOK(task[c].req) /\ task[c].seen = {}
    BY <1>1, <1>2 DEF Promised
  <1>4. Cardinality({}) = 0 /\ ScanBudget \in Nat
    BY FS_EmptySet, BoundsAssumption
  <1>5. CASE task[c].req.mode = "count"
    <2> DEFINE t == [task[c] EXCEPT !.now = now, !.current = cache']
    <2>1. task' = [task EXCEPT ![c] = Resolve(t, Page(t))]
      BY <1>5 DEF Enter
    <2>2. /\ DOMAIN t = DOMAIN Idle /\ t.seen = task[c].seen /\ t.merged = task[c].merged
          /\ t.have = task[c].have /\ t.must = task[c].must /\ t.req = task[c].req
      BY <1>1 DEF Idle
    <2> HIDE DEF t
    <2>3. Ready(t, DOMAIN db)
      BY <1>3, <1>4, <2>2 DEF Ready, Scanned, Known, Shows, Whole
    <2>4. Page(t) \in Seq(Int) /\ Len(Page(t)) <= ScanBudget - Cardinality(t.seen)
      BY <1>5, <2>2, <2>3, PageOK DEF Ready
    <2>5. t.req.mode # "limit"
      BY <1>5, <2>2
    <2>6. Promised(Resolve(t, Page(t)), DOMAIN db)
      BY <2>3, <2>4, <2>5, ResolvePromised
    <2>7. QED
      BY <1>1, <2>1, <2>6, OnePromise
  <1>6. CASE task[c].req.mode # "count"
    <2> DEFINE opens == Window(task[c].req, sch, El).opens
    <2>1. task' = [task EXCEPT ![c] = Resolve(task[c], opens)]
      BY <1>6 DEF Enter
    <2>2. opens \in Seq(Int) /\ (task[c].req.mode = "limit" => opens # <<>>)
      BY <1>3, WindowOK
    <2> HIDE DEF opens
    <2>3. Ready(task[c], DOMAIN db)
      BY <1>1, <1>3, <1>4, <1>6 DEF Ready, Scanned, Whole
    <2>4. Promised(Resolve(task[c], opens), DOMAIN db)
      BY <1>6, <2>2, <2>3, ResolvePromised
    <2>5. QED
      BY <1>1, <2>1, <2>4, OnePromise
  <1>7. QED
    BY <1>5, <1>6

LEMMA ReadPromised ==
  ASSUME CandlesInv, PromisesOK, NEW c \in Tasks, Read(c)
  PROVE  PromisesOK'
  <1> DEFINE have == Restrict(db, DOMAIN db \cap ToSet(task[c].opens))
             t == [task[c] EXCEPT !.have = have]
             first == t.req.mode # "count" /\ t.seen = ToSet(t.opens)
             look == [t EXCEPT !.pc = "look"]
  <1>1. DOMAIN task[c] = DOMAIN Idle /\ task[c].pc = "read" /\ UNCHANGED <<db, served>>
    BY DEF Read, CandlesInv, TasksOK, TaskOK
  <1>2. task' = [task EXCEPT ![c] = IF first THEN look ELSE Plan(t)]
    BY DEF Read
  <1>3. DOMAIN have = DOMAIN db \cap ToSet(task[c].opens)
    BY DEF Restrict
  <1>4. /\ DOMAIN t = DOMAIN Idle /\ t.have = have /\ t.pc = "read" /\ t.opens = task[c].opens
        /\ t.seen = task[c].seen /\ t.got = task[c].got /\ t.merged = task[c].merged
        /\ t.must = task[c].must /\ t.req = task[c].req
    <2> HIDE DEF have
    <2>1. QED
      BY <1>1 DEF Idle
  <1> HIDE DEF have, t
  <1>5. ASSUME c \in Clients PROVE Promised(look, DOMAIN db) /\ Promised(Plan(t), DOMAIN db)
    <2>1. /\ Scanned(task[c]) /\ Known(task[c], DOMAIN db) /\ RequestOK(task[c].req) /\ Pending(task[c])
      BY <1>1, <1>5 DEF PromisesOK, Promised
    <2>2. Scanned(t) /\ Known(t, DOMAIN db) /\ RequestOK(t.req)
      BY <1>3, <1>4, <2>1 DEF Scanned, Known, Shows
    <2>3. t.must \cap ToSet(t.opens) \subseteq DOMAIN t.have
      BY <1>3, <1>4, <2>1 DEF Known
    <2>4. Pending(t)
      BY <1>4, <2>1 DEF Pending, Shows
    <2>5. Promised(Plan(t), DOMAIN db)
      BY <1>4, <2>2, <2>3, <2>4, PlanPromised
    <2>6. /\ look.pc = "look" /\ look.have = t.have /\ look.opens = t.opens /\ look.seen = t.seen
          /\ look.got = t.got /\ look.merged = t.merged /\ look.must = t.must /\ look.req = t.req
      BY <1>4 DEF Idle
    <2> HIDE DEF look
    <2>7. Scanned(look) /\ Known(look, DOMAIN db) /\ RequestOK(look.req) /\ Pending(look)
      BY <2>2, <2>3, <2>4, <2>6 DEF Scanned, Known, Shows, Pending
    <2>8. QED
      BY <2>5, <2>6, <2>7 DEF Promised
  <1> DEFINE u == IF first THEN look ELSE Plan(t)
  <1>6. c \in Clients => Promised(u, DOMAIN db')
    BY <1>1, <1>5
  <1>7. task' = [task EXCEPT ![c] = u] /\ DOMAIN db \subseteq DOMAIN db' /\ served' = served
    BY <1>1, <1>2
  <1> HIDE DEF u
  <1>8. QED
    BY <1>6, <1>7, OnePromise

LEMMA LookPromised ==
  ASSUME CandlesInv, PromisesOK, NEW c \in Tasks, Look(c)
  PROVE  PromisesOK'
  <1> DEFINE current == IF c = Backfill THEN None ELSE cache'
             t == [task[c] EXCEPT !.now = now, !.current = current]
  <1>1. DOMAIN task[c] = DOMAIN Idle /\ task[c].pc = "look" /\ UNCHANGED <<db, served>>
    BY DEF Look, CandlesInv, TasksOK, TaskOK
  <1>2. task' = [task EXCEPT ![c] = Plan(t)]
    BY DEF Look
  <1>3. /\ DOMAIN t = DOMAIN Idle /\ t.have = task[c].have /\ t.pc = "look" /\ t.opens = task[c].opens
        /\ t.seen = task[c].seen /\ t.got = task[c].got /\ t.merged = task[c].merged
        /\ t.must = task[c].must /\ t.req = task[c].req
    <2> HIDE DEF current
    <2>1. QED
      BY <1>1 DEF Idle
  <1> HIDE DEF t
  <1>4. ASSUME c \in Clients PROVE Promised(Plan(t), DOMAIN db)
    <2>1. Scanned(task[c]) /\ Known(task[c], DOMAIN db) /\ RequestOK(task[c].req) /\ Pending(task[c])
      BY <1>1, <1>4 DEF PromisesOK, Promised
    <2>2. Scanned(t) /\ Known(t, DOMAIN db) /\ RequestOK(t.req) /\ Pending(t)
      BY <1>1, <1>3, <2>1 DEF Scanned, Known, Shows, Pending
    <2>3. t.must \cap ToSet(t.opens) \subseteq DOMAIN t.have
      BY <1>3, <2>2 DEF Pending
    <2>4. QED
      BY <1>3, <2>2, <2>3, PlanPromised
  <1>5. QED
    BY <1>1, <1>2, <1>4, OnePromise

LEMMA FetchPromised ==
  ASSUME CandlesInv, PromisesOK, NEW c \in Tasks, Fetch(c)
  PROVE  PromisesOK'
  <1> DEFINE section == Head(task[c].todo)
             begun == {o \in El \cap ToSet(task[c].opens) : section.start <= o /\ o < section.end /\ o <= now}
  <1>1. DOMAIN task[c] = DOMAIN Idle /\ DOMAIN task = Tasks /\ task[c].pc = "fetch" /\ UNCHANGED <<db, served>>
    BY DEF Fetch, CandlesInv, TasksOK, TaskOK
  <1>2. PICK opens \in {begun} \cup {{o \in begun : \E older \in begun : older < o}} :
          \E offered : task' = [task EXCEPT
            ![c].todo = Tail(@),
            ![c].got = [o \in opens \cup DOMAIN @ |->
                          IF o \in opens THEN Min({now, CloseTime(sch, o)}) ELSE @[o]],
            ![c].offered = offered]
    BY DEF Fetch
  <1>3. opens \subseteq ToSet(task[c].opens)
    OBVIOUS
  <1> HIDE DEF begun
  <1> DEFINE got == [o \in opens \cup DOMAIN task[c].got |->
                       IF o \in opens THEN Min({now, CloseTime(sch, o)}) ELSE task[c].got[o]]
  <1>9. PICK offered :
          task' = [task EXCEPT ![c].todo = Tail(@), ![c].got = [o \in opens \cup DOMAIN @ |->
                     IF o \in opens THEN Min({now, CloseTime(sch, o)}) ELSE @[o]], ![c].offered = offered]
    BY <1>2
  <1> DEFINE u == [task[c] EXCEPT !.todo = Tail(task[c].todo), !.got = got, !.offered = offered]
  <1>4. task' = [task EXCEPT ![c] = u]
    BY <1>1, <1>9 DEF Idle
  <1>5. DOMAIN got = opens \cup DOMAIN task[c].got
    OBVIOUS
  <1>6. /\ u.pc = "fetch" /\ u.have = task[c].have /\ u.opens = task[c].opens /\ u.seen = task[c].seen
        /\ u.got = got /\ u.merged = task[c].merged /\ u.must = task[c].must /\ u.req = task[c].req
    <2> HIDE DEF got
    <2>1. QED
      BY <1>1 DEF Idle
  <1> HIDE DEF got, u
  <1>7. ASSUME c \in Clients PROVE Promised(u, DOMAIN db)
    <2>1. Scanned(task[c]) /\ Known(task[c], DOMAIN db) /\ RequestOK(task[c].req) /\ Pending(task[c])
      BY <1>1, <1>7 DEF PromisesOK, Promised
    <2>2. Scanned(u) /\ Known(u, DOMAIN db) /\ RequestOK(u.req) /\ Pending(u)
      BY <1>1, <1>3, <1>5, <1>6, <2>1 DEF Scanned, Known, Shows, Pending
    <2>3. QED
      BY <1>6, <2>2 DEF Promised
  <1>8. QED
    BY <1>1, <1>4, <1>7, OnePromise

LEMMA StorePromised ==
  ASSUME Recurs(El), CandlesInv, PromisesOK, NEW c \in Tasks, Store(c)
  PROVE  PromisesOK'
  <1> DEFINE t == task[c]
             full == [t EXCEPT !.merged = Merged(t)]
  <1>1. DOMAIN t = DOMAIN Idle /\ t.pc = "fetch" /\ served' = served
    BY DEF Store, CandlesInv, TasksOK, TaskOK
  <1>2. task' = [task EXCEPT ![c] = After(full)] /\ db' = Upsert(t)
    BY DEF Store
  <1>3. DOMAIN db' = DOMAIN db \cup Complete(t)
    BY <1>2, UpsertGrows
  <1>4. ASSUME c \in Clients PROVE Promised(After(full), DOMAIN db')
    <2>1. Promised(t, DOMAIN db)
      BY <1>4 DEF PromisesOK
    <2>2. /\ Ready(full, DOMAIN db') /\ full.opens = t.opens /\ full.req = t.req
          /\ (t.req.mode = "limit" => t.opens # <<>>)
      BY <1>1, <1>3, <2>1, MergedReady
    <2>3. t.opens \in Seq(Int)
      BY <2>1 DEF Promised, Scanned
    <2> HIDE DEF full, t
    <2>4. QED
      BY <2>2, <2>3, AfterPromised
  <1> HIDE DEF full
  <1>5. QED
    BY <1>1, <1>2, <1>3, <1>4, OnePromise

(* What an answer shows as complete is stored.                             *)
LEMMA RespondPromised ==
  ASSUME CandlesInv, PromisesOK, NEW c \in Tasks, Respond(c)
  PROVE  PromisesOK'
  <1>1. task' = [task EXCEPT ![c] = Ended(c)] /\ db' = db /\ served \subseteq DOMAIN db
    BY DEF Respond, PromisesOK
  <1>2. \A d \in Clients : task'[d] = IF d = c THEN Ended(c) ELSE task[d]
    BY <1>1 DEF CandlesInv, TasksOK, Tasks
  <1>3. \A d \in Clients : Promised(task'[d], DOMAIN db')
    BY <1>1, <1>2, EndedPromised DEF PromisesOK
  <1>4. served' \subseteq DOMAIN db
    <2>1. CASE c = Backfill
      BY <1>1, <2>1 DEF Respond
    <2>2. CASE c \in Clients
      <3>1. c # Backfill
        BY <2>2, TasksAssumption
      <3>2. served' = served \cup {o \in DOMAIN Answer(task[c]) : Answer(task[c])[o].complete}
        BY <3>1 DEF Respond
      <3>3. Known(task[c], DOMAIN db)
        BY <2>2 DEF PromisesOK, Promised
      <3>4. ASSUME NEW o \in DOMAIN Answer(task[c]), Answer(task[c])[o].complete PROVE o \in DOMAIN db
        <4>1. o \in DOMAIN task[c].merged /\ Answer(task[c])[o] = task[c].merged[o]
          BY <3>4, AnswerIs
        <4>2. Shows(task[c], o)
          BY <3>4, <4>1 DEF Shows
        <4>3. QED
          BY <3>3, <4>1, <4>2 DEF Known
      <3>5. QED
        BY <1>1, <3>2, <3>4
    <2>3. QED
      BY <2>1, <2>2 DEF Tasks
  <1>5. QED
    BY <1>1, <1>3, <1>4 DEF PromisesOK

LEMMA EndsPromised ==
  ASSUME CandlesInv, PromisesOK, NEW c \in Tasks, Fail(c) \/ Cancel(c)
  PROVE  PromisesOK'
  <1>1. task' = [task EXCEPT ![c] = Ended(c)] /\ db' \in {db, Upsert(task[c])} /\ served' = served
    BY DEF Fail, Cancel
  <1>2. DOMAIN db \subseteq DOMAIN db'
    BY <1>1, UpsertGrows
  <1>3. QED
    BY <1>1, <1>2, EndedPromised, OnePromise

LEMMA NextChunkPromised ==
  ASSUME CandlesInv, PromisesOK, NextChunk
  PROVE  PromisesOK'
  <1> DEFINE req == Request("range", 0, "range", Head(job.chunks).start, Head(job.chunks).end)
             t == [task[Backfill] EXCEPT !.req = req]
             u == Resolve(t, Window(req, sch, El).opens)
  <1>1. task' = [task EXCEPT ![Backfill] = u] /\ UNCHANGED <<db, served>> /\ Backfill \in Tasks
    BY DEF NextChunk, Tasks
  <1> HIDE DEF u
  <1>2. QED
    BY <1>1, TasksAssumption, OnePromise

LEMMA PromisesNext == Recurs(El) /\ CandlesInv /\ PromisesOK /\ [Next]_vars => PromisesOK'
  <1> SUFFICES ASSUME Recurs(El), CandlesInv, PromisesOK, [Next]_vars PROVE PromisesOK'
    OBVIOUS
  <1>1. ASSUME Tick \/ UNCHANGED vars PROVE PromisesOK'
    BY <1>1 DEF Tick, vars, PromisesOK
  <1>2. QED
    BY <1>1, NextChunkPromised, AskPromised, EnterPromised, ReadPromised, LookPromised, FetchPromised,
       StorePromised, RespondPromised, EndsPromised DEF Next

(* A candle a client has been shown as complete is in every later answer   *)
(* about its time, although the provider may have dropped it; and a count  *)
(* has the rows that were asked for, or has used up its budget.  It is so  *)
(* wherever the session policy always lets a candle open sooner or later   *)
(* (candles.py:351, :411, candle_count.py:150, :236).                      *)
THEOREM ServedForeverCorrect == Recurs(El) => (Spec => []ServedForever)
  <1> SUFFICES ASSUME Recurs(El) PROVE Spec => []ServedForever
    OBVIOUS
  <1>1. Init => PromisesOK
    <2> SUFFICES ASSUME Init PROVE PromisesOK
      OBVIOUS
    <2>1. \A c \in Clients : task[c] = Idle
      BY DEF Init, Tasks
    <2>2. /\ Idle.pc = "idle" /\ Idle.seen = {} /\ Idle.opens = <<>> /\ Idle.must = {}
          /\ Idle.got = Empty /\ Idle.have = Empty /\ Idle.merged = Empty
      BY DEF Idle
    <2>3. FiniteOpens({}) /\ ToSet(<<>>) = {} /\ <<>> \in Seq(Int)
      BY FS_EmptySet DEF FiniteOpens, ToSet
    <2>4. Scanned(Idle) /\ Known(Idle, DOMAIN db)
      BY <2>2, <2>3, IdleOK DEF Scanned, Known
    <2>5. Promised(Idle, DOMAIN db)
      BY <2>2, <2>4 DEF Promised
    <2>6. QED
      BY <2>1, <2>5 DEF Init, PromisesOK
  <1>2. PromisesOK => ServedForever
    BY AnswerKeepsPromises DEF PromisesOK, ServedForever, Answered
  <1>3. CandlesInv /\ PromisesOK /\ [Next]_vars => PromisesOK'
    BY PromisesNext
  <1>4. QED
    BY <1>1, <1>2, <1>3, CandlesCorrect, PTL DEF Spec
=============================================================================
