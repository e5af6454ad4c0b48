------------------------ MODULE QuoteServiceProofs ------------------------
(***************************************************************************)
(* Theorems about QuoteService, for any clients, requests, registry, keys, *)
(* ages and responses of Twelve Data.                                      *)
(*                                                                         *)
(* ServiceInv is inductive.  QuotesInv holds the lock (who fetches is at   *)
(* the head of the line, so nothing but a stream writes the cache while a  *)
(* request is out) and the bookkeeping of a request (each symbol it was    *)
(* asked for is quoted, pending or an error, and what is gathered is what  *)
(* each provider told).  KeysOK and CallsOK hold the keys and the threads. *)
(***************************************************************************)
EXTENDS QuoteService, WellFoundedInduction, TLAPS

Waiting == {"queued", "fetch", "thread"}

TypeOK ==
  /\ now \in Nat
  /\ DOMAIN task = Clients
  /\ \A c \in Clients : DOMAIN task[c] = DOMAIN Idle /\ task[c].now \in Nat /\ task[c].start \in Nat
  /\ \A s \in DOMAIN cache : cache[s].at \in Int

(* The line: a request is in it once, while it waits and while it fetches, *)
(* and fetches only at its head.                                           *)
LineOK ==
  /\ line \in Seq(Clients)
  /\ \A i, j \in 1 .. Len(line) : line[i] = line[j] => i = j
  /\ \A c \in Clients : task[c].pc \in Waiting <=> \E i \in 1 .. Len(line) : line[i] = c
  /\ \A c \in Clients : task[c].pc \in {"fetch", "thread"} => line[1] = c

(* A thread: what it asks with was free when it took it, and is not a key *)
(* it has seen rejected.                                                   *)
CallOK(c, call) ==
  /\ DOMAIN call = DOMAIN NoCall
  /\ call.refused \subseteq ToSet(Keys) /\ \A k1, k2 \in call.refused : k1 = k2
  /\ call.pc \in {"ask", "cool"} => call.key \in ToSet(Keys) \ call.refused
  /\ call.pc = "ask" => cooled[call.key] + Cooldown <= now \/ c \in overtaken

(* The keys: a key is free again Cooldown after it was last cooled down.   *)
KeysOK ==
  /\ now \in Nat
  /\ DOMAIN pool = {"index", "until"} /\ pool.index \in Nat
  /\ pool.until \in [ToSet(Keys) -> Int] /\ cooled \in [ToSet(Keys) -> Int]
  /\ \A key \in ToSet(Keys) : pool.until[key] = cooled[key] + Cooldown
  /\ DOMAIN thread = Clients
  /\ \A c \in Clients : CallOK(c, thread[c])

-----------------------------------------------------------------------------
(* A set of naturals that is not empty has a least element.                *)
LEMMA MinOfNat ==
  ASSUME NEW S \in SUBSET Nat, S # {}
  PROVE  Min(S) \in S
  <1>1. \E n \in S : \A m \in S : ~(<<m, n>> \in OpToRel(<, Nat))
    BY WFMin, NatLessThanWellFounded
  <1>2. PICK n \in S : \A m \in S : ~(m < n)
    BY <1>1 DEF OpToRel
  <1>3. \E x \in S : \A y \in S : x <= y
    BY <1>2
  <1>4. QED
    BY <1>3 DEF Min

(* next_key returns a key that is not cooling down and not the excluded    *)
(* one, and puts none to rest.                                             *)
LEMMA NextKeyOK ==
  ASSUME NEW p, DOMAIN p = {"index", "until"}, p.index \in Nat, NEW exclude, NEW t,
         NEW next, next = NextKey(p, exclude, t), next.key # NoKey
  PROVE  /\ next.key \in ToSet(Keys) /\ next.key # exclude /\ p.until[next.key] <= t
         /\ DOMAIN next.pool = {"index", "until"} /\ next.pool.index \in Nat
         /\ next.pool.until = p.until
  <1> DEFINE at(i)  == Keys[((p.index + i) % Len(Keys)) + 1]
             usable == {i \in 0 .. Len(Keys) - 1 : at(i) # exclude /\ p.until[at(i)] <= t}
  <1>1. next = IF usable = {} THEN [key |-> NoKey, pool |-> p]
               ELSE [key |-> at(Min(usable)),
                     pool |-> [p EXCEPT !.index = (@ + Min(usable) + 1) % Len(Keys)]]
    BY DEF NextKey
  <1>2. usable # {}
    <2> HIDE DEF usable, at
    <2>1. QED
      BY <1>1
  <1>3. usable \in SUBSET Nat /\ Len(Keys) \in Nat \ {0}
    BY KeysAssumption
  <1>4. Min(usable) \in usable
    <2> HIDE DEF usable
    <2>1. QED
      BY <1>2, <1>3, MinOfNat
  <1>5. PICK i \in 0 .. Len(Keys) - 1 : i = Min(usable) /\ at(i) # exclude /\ p.until[at(i)] <= t
    BY <1>4
  <1>6. ((p.index + i) % Len(Keys)) + 1 \in 1 .. Len(Keys) /\ (p.index + i + 1) % Len(Keys) \in Nat
    BY <1>3
  <1>7. at(i) \in ToSet(Keys)
    BY <1>6, KeysAssumption DEF ToSet
  <1>8. next.key = at(i) /\ next.pool = [p EXCEPT !.index = (@ + i + 1) % Len(Keys)]
    <2> HIDE DEF at, usable
    <2>1. QED
      BY <1>1, <1>2, <1>5
  <1>9. QED
    <2> HIDE DEF at, usable
    <2>1. QED
      BY <1>5, <1>6, <1>7, <1>8

LEMMA CoolDownOK ==
  ASSUME KeysOK, NEW key \in ToSet(Keys), NEW p, p = CoolDown(pool, key, now)
  PROVE  /\ DOMAIN p = {"index", "until"} /\ p.index \in Nat /\ p.until \in [ToSet(Keys) -> Int]
         /\ p.until = [pool.until EXCEPT ![key] = now + Cooldown]
  BY KeysAssumption DEF KeysOK, CoolDown

-----------------------------------------------------------------------------
(* The keys.                                                               *)
LEMMA NoCallOK ==
  /\ NoCall.pc = "none" /\ \A c : CallOK(c, NoCall)
  /\ LET call(W) == [NoCall EXCEPT !.pc = "pick", !.wanted = W]
     IN  \A W : \A c : CallOK(c, call(W))
  BY DEF NoCall, CallOK

LEMMA KeysInit == Init => KeysOK
  <1> SUFFICES ASSUME Init PROVE KeysOK
    OBVIOUS
  <1>1. pool = [index |-> 0, until |-> [key \in ToSet(Keys) |-> 0]]
    BY DEF Init, NewPool
  <1>2. cooled = [key \in ToSet(Keys) |-> 0 - Cooldown] /\ thread = [c \in Clients |-> NoCall] /\ now = 0
    BY DEF Init
  <1>3. \A c \in Clients : CallOK(c, thread[c])
    BY <1>2, NoCallOK
  <1>4. pool.until = [key \in ToSet(Keys) |-> 0] /\ DOMAIN pool = {"index", "until"} /\ pool.index = 0
    BY <1>1
  <1>5. \A key \in ToSet(Keys) : pool.until[key] = cooled[key] + Cooldown
    BY <1>2, <1>4, KeysAssumption
  <1>6. QED
    BY <1>2, <1>3, <1>4, <1>5, KeysAssumption DEF KeysOK

(* One thread changes, and the keys do not.                                *)
LEMMA OneCall ==
  ASSUME KeysOK, NEW c \in Clients, NEW call, thread' = [thread EXCEPT ![c] = call],
         CallOK(c, call), UNCHANGED <<now, pool, cooled, overtaken>>
  PROVE  KeysOK'
  <1>1. DOMAIN thread' = Clients /\ \A d \in Clients : thread'[d] = IF d = c THEN call ELSE thread[d]
    BY DEF KeysOK
  <1>2. QED
    BY <1>1 DEF KeysOK, CallOK

LEMMA FetchTwelveDataKeys ==
  ASSUME KeysOK, NEW c \in Clients, FetchTwelveData(c)
  PROVE  KeysOK'
  <1>1. UNCHANGED <<now, pool, cooled, overtaken>>
    BY DEF FetchTwelveData
  <1>2. CASE thread' = thread
    BY <1>1, <1>2 DEF KeysOK, CallOK
  <1>3. CASE thread' = [thread EXCEPT ![c] =
                          [NoCall EXCEPT !.pc = "pick", !.wanted = Wanted(task[c], TwelveData) \cap Known]]
    BY <1>1, <1>3, NoCallOK, OneCall
  <1>4. QED
    BY <1>2, <1>3 DEF FetchTwelveData

(* A thread takes a key that is free and that it has not seen rejected.    *)
LEMMA PickKeyKeys ==
  ASSUME KeysOK, NEW c \in Clients, PickKey(c)
  PROVE  KeysOK'
  <1> DEFINE call == thread[c]
  <1>1. PICK exclude \in IF call.refused = {} THEN {NoKey} ELSE call.refused :
          LET next == NextKey(pool, exclude, now) IN
          IF next.key = NoKey THEN ThreadEnds(c, {}) /\ UNCHANGED <<pool, overtaken>>
          ELSE /\ pool' = next.pool /\ overtaken' = overtaken \ {c}
               /\ thread' = [thread EXCEPT ![c].pc = "ask", ![c].key = next.key, ![c].todo = call.wanted]
    BY DEF PickKey
  <1> DEFINE next == NextKey(pool, exclude, now)
             u    == [call EXCEPT !.pc = "ask", !.key = next.key, !.todo = call.wanted]
  <1>2. now' = now /\ cooled' = cooled /\ CallOK(c, call)
    BY DEF PickKey, KeysOK
  <1>3. CASE ThreadEnds(c, {}) /\ UNCHANGED <<pool, overtaken>>
    BY <1>2, <1>3, NoCallOK, OneCall DEF ThreadEnds
  <1>4. CASE next.key # NoKey /\ pool' = next.pool /\ overtaken' = overtaken \ {c}
             /\ thread' = [thread EXCEPT ![c].pc = "ask", ![c].key = next.key, ![c].todo = call.wanted]
    <2>1. /\ next.key \in ToSet(Keys) /\ next.key # exclude /\ pool.until[next.key] <= now
          /\ DOMAIN next.pool = {"index", "until"} /\ next.pool.index \in Nat /\ next.pool.until = pool.until
      BY <1>4, NextKeyOK DEF KeysOK
    <2> HIDE DEF next
    <2>2. thread' = [thread EXCEPT ![c] = u]
      BY <1>4 DEF KeysOK
    <2>3. u.pc = "ask" /\ u.key = next.key /\ u.refused = call.refused /\ DOMAIN u = DOMAIN NoCall
      BY <1>2 DEF CallOK, NoCall
    <2>4. next.key \notin call.refused
      BY <1>2, <2>1 DEF CallOK
    <2>5. cooled[next.key] + Cooldown <= now
      BY <2>1 DEF KeysOK
    <2>6. call.refused \subseteq ToSet(Keys) /\ \A k1, k2 \in call.refused : k1 = k2
      BY <1>2 DEF CallOK
    <2>7. DOMAIN thread' = Clients /\ \A d \in Clients : thread'[d] = IF d = c THEN u ELSE thread[d]
      BY <2>2 DEF KeysOK
    <2> HIDE DEF u, call
    <2>8. CallOK(c, thread[c])'
      BY <1>2, <2>1, <2>3, <2>4, <2>5, <2>6, <2>7 DEF CallOK
    <2>9. ASSUME NEW d \in Clients \ {c} PROVE CallOK(d, thread[d])'
      <3>1. thread'[d] = thread[d] /\ CallOK(d, thread[d])
        BY <2>7 DEF KeysOK
      <3>2. QED
        BY <1>2, <1>4, <3>1 DEF CallOK
    <2>10. QED
      BY <1>2, <1>4, <2>1, <2>7, <2>8, <2>9 DEF KeysOK
  <1>5. QED
    BY <1>1, <1>3, <1>4

LEMMA RequestKeys ==
  ASSUME KeysOK, NEW c \in Clients, Request(c)
  PROVE  KeysOK'
  <1>1. UNCHANGED <<now, pool, cooled, overtaken>> /\ thread[c].pc = "ask" /\ CallOK(c, thread[c])
    BY DEF Request, KeysOK
  <1>2. CASE \E good : ThreadEnds(c, good)
    BY <1>1, <1>2, NoCallOK, OneCall DEF ThreadEnds
  <1>3. CASE thread' = [thread EXCEPT ![c].pc = "cool", ![c].todo = {}, ![c].good = {}]
    <2> DEFINE u == [thread[c] EXCEPT !.pc = "cool", !.todo = {}, !.good = {}]
    <2>1. thread' = [thread EXCEPT ![c] = u]
      BY <1>3 DEF KeysOK
    <2>2. CallOK(c, u)
      BY <1>1 DEF CallOK, NoCall
    <2>3. QED
      BY <1>1, <2>1, <2>2, OneCall
  <1>4. ASSUME NEW symbol, NEW priced,
               thread' = [thread EXCEPT ![c].todo = @ \ {symbol}, ![c].good = @ \cup priced]
        PROVE  KeysOK'
    <2> DEFINE u == [thread[c] EXCEPT !.todo = @ \ {symbol}, !.good = @ \cup priced]
    <2>1. thread' = [thread EXCEPT ![c] = u]
      BY <1>4 DEF KeysOK
    <2>2. CallOK(c, u)
      BY <1>1 DEF CallOK, NoCall
    <2>3. QED
      BY <1>1, <2>1, <2>2, OneCall
  <1>5. QED
    BY <1>2, <1>3, <1>4 DEF Request

(* A key is cooled down: whoever asks with it is overtaken.                *)
LEMMA KeyRejectedKeys ==
  ASSUME KeysOK, NEW c \in Clients, KeyRejected(c)
  PROVE  KeysOK'
  <1> DEFINE call == thread[c]
             key  == call.key
             u    == IF call.refused = {} THEN [call EXCEPT !.pc = "pick", !.refused = {key}] ELSE NoCall
  <1>1. /\ call.pc = "cool" /\ CallOK(c, call) /\ now' = now
        /\ pool' = CoolDown(pool, key, now) /\ cooled' = [cooled EXCEPT ![key] = now]
        /\ overtaken' = overtaken \cup {d \in Clients : thread[d].pc = "ask" /\ thread[d].key = key}
    BY DEF KeyRejected, KeysOK
  <1>2. key \in ToSet(Keys)
    BY <1>1 DEF CallOK
  <1>3. /\ DOMAIN pool' = {"index", "until"} /\ pool'.index \in Nat /\ pool'.until \in [ToSet(Keys) -> Int]
        /\ pool'.until = [pool.until EXCEPT ![key] = now + Cooldown]
    BY <1>1, <1>2, CoolDownOK
  <1>4. thread' = [thread EXCEPT ![c] = u]
    BY DEF KeyRejected, ThreadEnds, KeysOK
  <1>5. DOMAIN thread' = Clients /\ \A d \in Clients : thread'[d] = IF d = c THEN u ELSE thread[d]
    BY <1>4 DEF KeysOK
  <1>6. CallOK(c, thread[c])'
    <2>1. CASE call.refused = {}
      <3>1. u.pc = "pick" /\ u.refused = {key} /\ DOMAIN u = DOMAIN NoCall
        BY <1>1, <2>1 DEF CallOK, NoCall
      <3> HIDE DEF u, key
      <3>2. thread'[c] = u
        BY <1>5
      <3>3. QED
        BY <1>2, <3>1, <3>2 DEF CallOK
    <2>2. CASE call.refused # {}
      <3>1. thread'[c] = NoCall
        BY <1>5, <2>2
      <3>2. QED
        BY <3>1 DEF CallOK, NoCall
    <2>3. QED
      BY <2>1, <2>2
  <1> HIDE DEF u
  <1>7. ASSUME NEW d \in Clients \ {c}
        PROVE  CallOK(d, thread[d])'
    <2>1. thread'[d] = thread[d] /\ CallOK(d, thread[d])
      BY <1>5 DEF KeysOK
    <2>2. CASE thread[d].pc = "ask" /\ thread[d].key = key
      BY <1>1, <2>1, <2>2 DEF CallOK
    <2>3. CASE thread[d].pc = "ask" /\ thread[d].key # key
      <3>1. cooled'[thread[d].key] = cooled[thread[d].key]
        BY <1>1, <2>1, <2>3 DEF CallOK, KeysOK
      <3>2. QED
        BY <1>1, <2>1, <2>3, <3>1 DEF CallOK
    <2>4. CASE thread[d].pc # "ask"
      BY <2>1, <2>4 DEF CallOK
    <2>5. QED
      BY <2>2, <2>3, <2>4
  <1>8. \A k \in ToSet(Keys) : pool'.until[k] = cooled'[k] + Cooldown
    <2> HIDE DEF key
    <2>1. QED
      BY <1>1, <1>2, <1>3 DEF KeysOK
  <1>9. cooled' \in [ToSet(Keys) -> Int]
    BY <1>1, <1>2 DEF KeysOK
  <1>10. QED
    BY <1>1, <1>3, <1>5, <1>6, <1>7, <1>8, <1>9 DEF KeysOK

LEMMA KeysNext == KeysOK /\ [Next]_vars => KeysOK'
  <1> SUFFICES ASSUME KeysOK, [Next]_vars PROVE KeysOK'
    OBVIOUS
  <1>1. ASSUME UNCHANGED threads, now' \in Nat, now' >= now PROVE KeysOK'
    BY <1>1, KeysAssumption DEF KeysOK, CallOK, threads
  <1>2. CASE Tick
    BY <1>1, <1>2 DEF Tick, KeysOK
  <1>3. CASE StreamPut \/ UNCHANGED vars
    BY <1>1, <1>3 DEF StreamPut, vars, KeysOK
  <1>4. ASSUME NEW c \in Clients,
               Ask(c) \/ Enter(c) \/ FetchPlain(c) \/ Refresh(c) \/ Respond(c) \/ Cancel(c)
        PROVE  KeysOK'
    <2>1. UNCHANGED <<now, threads>> /\ now \in Nat
      BY <1>4 DEF Ask, Enter, FetchPlain, Refresh, Respond, Cancel, KeysOK
    <2>2. QED
      BY <1>1, <2>1
  <1>5. ASSUME NEW c \in Clients, ThreadReturns(c) PROVE KeysOK'
    BY <1>5, NoCallOK, OneCall DEF ThreadReturns, ThreadEnds
  <1>6. QED
    BY <1>2, <1>3, <1>4, <1>5, FetchTwelveDataKeys, PickKeyKeys, RequestKeys, KeyRejectedKeys DEF Next

(* A thread asks upstream with a key that is not cooling down, unless      *)
(* another has cooled it down since the thread took it, and never with one *)
(* it has seen rejected: for any number of keys, symbols and requests,     *)
(* orphan threads included (twelvedata_market_data.py:368-406,             *)
(* twelvedata_keys.py:29).                                                 *)
THEOREM KeysRestCorrect == Spec => []KeysRest
  <1>1. KeysOK => KeysRest
    BY DEF KeysOK, CallOK, KeysRest
  <1>2. QED
    BY KeysInit, KeysNext, <1>1, PTL DEF Spec

-----------------------------------------------------------------------------
(* The line.                                                               *)
LEMMA ConcatOK ==
  ASSUME NEW S, NEW p \in Seq(S), NEW q \in Seq(S)
  PROVE  /\ p \o q \in Seq(S) /\ Len(p \o q) = Len(p) + Len(q)
         /\ \A j \in 1 .. Len(p \o q) : (p \o q)[j] = IF j <= Len(p) THEN p[j] ELSE q[j - Len(p)]
  OBVIOUS

LEMMA LeaveOK ==
  ASSUME LineOK, NEW c \in Clients, task[c].pc \in Waiting, NEW l, l = Leave(c)
  PROVE  /\ l \in Seq(Clients)
         /\ \A i, j \in 1 .. Len(l) : l[i] = l[j] => i = j
         /\ \A d \in Clients : (\E i \in 1 .. Len(l) : l[i] = d) <=> d # c /\ \E i \in 1 .. Len(line) : line[i] = d
         /\ line[1] # c => l[1] = line[1]
  <1> DEFINE at == CHOOSE i \in DOMAIN line : line[i] = c
  <1>1. line \in Seq(Clients) /\ DOMAIN line = 1 .. Len(line) /\ Len(line) \in Nat
    BY DEF LineOK
  <1>2. at \in 1 .. Len(line) /\ line[at] = c
    BY <1>1 DEF LineOK
  <1>3. l = SubSeq(line, 1, at - 1) \o SubSeq(line, at + 1, Len(line))
    BY DEF Leave, RemoveAt
  <1> HIDE DEF at
  <1>4. /\ l \in Seq(Clients) /\ Len(l) = Len(line) - 1
        /\ \A j \in 1 .. Len(l) : l[j] = IF j < at THEN line[j] ELSE line[j + 1]
    <2>1. \A S : \A s \in Seq(S) : \A k \in 1 .. Len(s) :
            LET r == SubSeq(s, 1, k - 1) \o SubSeq(s, k + 1, Len(s)) IN
            /\ r \in Seq(S) /\ Len(r) = Len(s) - 1
            /\ \A j \in 1 .. Len(r) : r[j] = IF j < k THEN s[j] ELSE s[j + 1]
      <3> SUFFICES ASSUME NEW S, NEW s \in Seq(S), NEW k \in 1 .. Len(s)
                   PROVE  LET r == SubSeq(s, 1, k - 1) \o SubSeq(s, k + 1, Len(s)) IN
                          /\ r \in Seq(S) /\ Len(r) = Len(s) - 1
                          /\ \A j \in 1 .. Len(r) : r[j] = IF j < k THEN s[j] ELSE s[j + 1]
        OBVIOUS
      <3> DEFINE p == SubSeq(s, 1, k - 1)
                 q == SubSeq(s, k + 1, Len(s))
      <3>1. p \in Seq(S) /\ Len(p) = k - 1 /\ \A j \in 1 .. Len(p) : p[j] = s[j]
        OBVIOUS
      <3>2. q \in Seq(S) /\ Len(q) = Len(s) - k /\ \A j \in 1 .. Len(q) : q[j] = s[j + k]
        OBVIOUS
      <3> HIDE DEF p, q
      <3>3. /\ p \o q \in Seq(S) /\ Len(p \o q) = Len(p) + Len(q)
            /\ \A j \in 1 .. Len(p \o q) : (p \o q)[j] = IF j <= Len(p) THEN p[j] ELSE q[j - Len(p)]
        BY <3>1, <3>2, ConcatOK
      <3>4. Len(p \o q) = Len(s) - 1 /\ Len(s) \in Nat
        BY <3>1, <3>2, <3>3
      <3>5. ASSUME NEW j \in 1 .. Len(p \o q)
            PROVE  (p \o q)[j] = IF j < k THEN s[j] ELSE s[j + 1]
        <4>1. CASE j < k
          BY <3>1, <3>3, <3>4, <4>1
        <4>2. CASE ~(j < k)
          <5>1. (p \o q)[j] = q[j - (k - 1)] /\ j - (k - 1) \in 1 .. Len(q)
            BY <3>1, <3>2, <3>3, <3>4, <4>2
          <5>2. q[j - (k - 1)] = s[(j - (k - 1)) + k] /\ (j - (k - 1)) + k = j + 1
            BY <3>2, <5>1
          <5>3. QED
            BY <4>2, <5>1, <5>2
        <4>3. QED
          BY <4>1, <4>2
      <3>6. QED
        BY <3>3, <3>4, <3>5 DEF p, q
    <2>2. QED
      BY <1>1, <1>2, <1>3, <2>1
  <1>5. \A i, j \in 1 .. Len(l) : l[i] = l[j] => i = j
    BY <1>1, <1>2, <1>4 DEF LineOK
  <1>6. ASSUME NEW d \in Clients, NEW i \in 1 .. Len(l), l[i] = d
        PROVE  d # c /\ \E j \in 1 .. Len(line) : line[j] = d
    BY <1>1, <1>2, <1>4, <1>6 DEF LineOK
  <1>7. ASSUME NEW d \in Clients, d # c, NEW i \in 1 .. Len(line), line[i] = d
        PROVE  \E j \in 1 .. Len(l) : l[j] = d
    <2>1. CASE i < at
      BY <1>1, <1>2, <1>4, <1>7, <2>1
    <2>2. CASE i > at
      <3>1. i - 1 \in 1 .. Len(l) /\ l[i - 1] = line[i]
        BY <1>1, <1>2, <1>4, <2>2
      <3>2. QED
        BY <1>7, <3>1
    <2>3. QED
      BY <1>1, <1>2, <1>7, <2>1, <2>2
  <1>8. line[1] # c => l[1] = line[1]
    BY <1>1, <1>2, <1>4
  <1>9. QED
    BY <1>4, <1>5, <1>6, <1>7, <1>8

(* What the steps do to the requests: one of them changes.                 *)
Only(c, u) == DOMAIN task' = Clients /\ \A d \in Clients : task'[d] = IF d = c THEN u ELSE task[d]

LEMMA OnlyOne ==
  ASSUME TypeOK, NEW c \in Clients, NEW u, task' = [task EXCEPT ![c] = u]
  PROVE  Only(c, u)
  BY DEF TypeOK, Only

LEMMA LineStays ==
  ASSUME LineOK, NEW c \in Clients, NEW u, Only(c, u), line' = line,
         task[c].pc \in Waiting <=> u.pc \in Waiting,
         u.pc \in {"fetch", "thread"} => task[c].pc \in {"fetch", "thread"} \/ line[1] = c
  PROVE  LineOK'
  BY DEF LineOK, Only

LEMMA LineGrows ==
  ASSUME LineOK, NEW c \in Clients, NEW u, Only(c, u), line' = Append(line, c),
         task[c].pc \notin Waiting, u.pc = "queued"
  PROVE  LineOK'
  <1>1. /\ line' \in Seq(Clients) /\ Len(line') = Len(line) + 1 /\ Len(line) \in Nat
        /\ \A i \in 1 .. Len(line) : line'[i] = line[i]
        /\ line'[Len(line) + 1] = c
    BY DEF LineOK
  <1>2. \A i \in 1 .. Len(line) : line[i] # c
    BY DEF LineOK
  <1>3. \A i, j \in 1 .. Len(line') : line'[i] = line'[j] => i = j
    BY <1>1, <1>2 DEF LineOK
  <1>4. ASSUME NEW d \in Clients
        PROVE  task'[d].pc \in Waiting <=> \E i \in 1 .. Len(line') : line'[i] = d
    BY <1>1 DEF LineOK, Only, Waiting
  <1>5. ASSUME NEW d \in Clients, task'[d].pc \in {"fetch", "thread"} PROVE line'[1] = d
    <2>1. task[d].pc \in {"fetch", "thread"} /\ task[d].pc \in Waiting
      BY <1>5 DEF Only, Waiting
    <2>2. line[1] = d /\ Len(line) > 0
      BY <1>1, <2>1 DEF LineOK
    <2>3. QED
      BY <1>1, <2>2
  <1>6. QED
    BY <1>1, <1>3, <1>4, <1>5 DEF LineOK

LEMMA LineShrinks ==
  ASSUME LineOK, NEW c \in Clients, NEW u, Only(c, u), line' = Leave(c),
         task[c].pc \in Waiting, u.pc \notin Waiting
  PROVE  LineOK'
  <1>1. /\ line' \in Seq(Clients)
        /\ \A i, j \in 1 .. Len(line') : line'[i] = line'[j] => i = j
        /\ \A d \in Clients : (\E i \in 1 .. Len(line') : line'[i] = d)
                                <=> d # c /\ \E i \in 1 .. Len(line) : line[i] = d
        /\ line[1] # c => line'[1] = line[1]
    BY LeaveOK
  <1>2. ASSUME NEW d \in Clients
        PROVE  task'[d].pc \in Waiting <=> \E i \in 1 .. Len(line') : line'[i] = d
    BY <1>1 DEF LineOK, Only
  <1>3. ASSUME NEW d \in Clients, task'[d].pc \in {"fetch", "thread"} PROVE line'[1] = d
    BY <1>1, <1>3 DEF LineOK, Only, Waiting
  <1>4. QED
    BY <1>1, <1>2, <1>3 DEF LineOK

(* Who fetches is alone.                                                   *)
LEMMA OneFetcher ==
  ASSUME LineOK, NEW c \in Clients, NEW d \in Clients,
         task[c].pc \in {"fetch", "thread"}, task[d].pc \in {"fetch", "thread"}
  PROVE  c = d
  BY DEF LineOK

-----------------------------------------------------------------------------
(* The bookkeeping of a request.                                           *)
NamesOf(S) == {s.symbol : s \in S}

(* Every symbol asked for is quoted, pending or an error, under its own    *)
(* selection, and what is quoted was fresh when the request came.          *)
Booked(t) ==
  /\ \A s \in DOMAIN t.quotes \cup t.pending : s = Selection(s.symbol, t.ask.provider)
  /\ \A s, r \in t.pending : s.providerSymbol = r.providerSymbol => s = r
  /\ DOMAIN t.quotes \cap t.pending = {}
  /\ NamesOf(DOMAIN t.quotes \cup t.pending) \cup DOMAIN t.errors = t.ask.symbols
  /\ NamesOf(DOMAIN t.quotes \cup t.pending) \cap DOMAIN t.errors = {}
  /\ \A s \in DOMAIN t.quotes : t.quotes[s].at \in Int /\ t.quotes[s].at >= t.start - Ttl
  /\ \A s \in DOMAIN t.snapshot : t.snapshot[s].at \in Int
  /\ \A x \in DOMAIN t.errors : t.errors[x] \in {"UNSUPPORTED_PROVIDER", "UNSUPPORTED_SYMBOL"}

(* What the router has gathered is what each provider has told it.         *)
Accounted(t) ==
  /\ \A s \in t.pending : s.provider \in t.groups \cup DOMAIN t.told
  /\ t.groups \cap DOMAIN t.told = {}
  /\ \A p \in DOMAIN t.told : t.told[p] \subseteq Wanted(t, p)
  /\ t.prices = UNION {t.told[p] : p \in DOMAIN t.told}
  /\ t.unavailable = UNION {Wanted(t, p) \ t.told[p] : p \in DOMAIN t.told}

Asked(t, s) == s \in t.pending /\ s.provider \in DOMAIN t.told

Got(t, s) == Asked(t, s) /\ s.providerSymbol \in t.told[s.provider]

Missed(t, s) == Asked(t, s) /\ s.providerSymbol \notin t.told[s.provider]

(* AnswerSound, of one request.                                            *)
Answered(t) ==
  /\ NamesOf(DOMAIN t.quotes) \cup DOMAIN t.errors = t.ask.symbols
  /\ NamesOf(DOMAIN t.quotes) \cap DOMAIN t.errors = {}
  /\ \A s \in t.pending : Got(t, s) => s \in DOMAIN t.quotes /\ t.quotes[s].at = t.now
  /\ \A s \in DOMAIN t.quotes :
       /\ s = Selection(s.symbol, t.ask.provider)
       /\ \/ Got(t, s)
          \/ Missed(t, s) /\ t.quotes[s].at >= t.now - StaleAfter
          \/ s \notin t.pending /\ t.quotes[s].at >= t.start - Ttl
  /\ \A x \in DOMAIN t.errors : t.errors[x] \in {"DATA_STALE", "PROVIDER_UNAVAILABLE"} =>
       Missed(t, Selection(x, t.ask.provider))

RequestOK(t) ==
  /\ t.start <= now
  /\ t.pc \in Waiting => Booked(t)
  /\ t.pc = "queued" => t.told = Empty /\ t.prices = {} /\ t.unavailable = {}
  /\ t.pc \in {"fetch", "thread"} => Accounted(t)
  /\ t.pc = "respond" => Answered(t)

RequestsOK == \A c \in Clients : RequestOK(task[c])

QuotesInv == TypeOK /\ LineOK /\ RequestsOK /\ OneRefresh

(* The thread of a request that waits for it has nothing but its symbols.  *)
CallsOK ==
  \A c \in Clients : task[c].pc = "thread" =>
    /\ TwelveData \in task[c].groups
    /\ thread[c].wanted \cup thread[c].todo \cup thread[c].good \subseteq Wanted(task[c], TwelveData)

Shaped(t) == DOMAIN t = DOMAIN Idle /\ t.now \in Nat /\ t.start \in Nat

LEMMA IdleOK ==
  /\ Idle.pc = "idle" /\ Idle.start = 0 /\ Idle.now = 0 /\ Idle.quotes = Empty
  /\ Idle.told = Empty /\ Idle.prices = {} /\ Idle.unavailable = {}
  /\ DOMAIN Empty = {}
  /\ LET ended == [Idle EXCEPT !.pc = "ended"] IN
     Shaped(ended) /\ ended.pc = "ended" /\ ended.start = 0
  BY DEF Idle, Empty, Shaped

LEMMA AgeOK ==
  ASSUME NEW quote, quote.at \in Int, NEW t \in Nat, NEW k \in Nat
  PROVE  (Age(quote, t) <= k <=> quote.at >= t - k) /\ (~(Age(quote, t) <= k) => Age(quote, t) > k)
  BY DEF Age

-----------------------------------------------------------------------------
(* Different symbols have different provider symbols, whichever providers  *)
(* serve them.                                                             *)
LEMMA SelectionsApart ==
  ASSUME NEW provider, NEW x \in Supported, NEW y \in Supported,
         Chosen(x, provider) # {}, Chosen(y, provider) # {},
         Selection(x, provider).providerSymbol = Selection(y, provider).providerSymbol
  PROVE  x = y
  <1>1. ASSUME NEW z \in Supported, Chosen(z, provider) # {}
        PROVE  /\ RowOf(z) \in Registry /\ RowOf(z).symbol = z
               /\ \E m \in RowOf(z).mappings : Selection(z, provider).providerSymbol = m.providerSymbol
    <2>1. \E row \in Enabled : row.symbol = z
      BY DEF Supported
    <2>2. RowOf(z) \in Enabled /\ RowOf(z).symbol = z
      BY <2>1 DEF RowOf
    <2>3. Chosen(z, provider) \subseteq RowOf(z).mappings
      BY DEF Chosen, Active
    <2> DEFINE m == CHOOSE mapping \in Chosen(z, provider) : TRUE
    <2>4. m \in Chosen(z, provider) /\ Selection(z, provider).providerSymbol = m.providerSymbol
      BY <1>1 DEF Selection
    <2> HIDE DEF m
    <2>5. QED
      BY <2>2, <2>3, <2>4 DEF Enabled
  <1>2. QED
    BY <1>1, ProviderSymbolsApart

(* A symbol is priced exactly if its own provider priced it.               *)
LEMMA PricedByItsOwn ==
  ASSUME NEW t, Booked(t), Accounted(t), NEW s \in t.pending, s.provider \in DOMAIN t.told
  PROVE  s \in Priced(t) <=> s.providerSymbol \in t.told[s.provider]
  <1>1. \A p \in DOMAIN t.told : s.providerSymbol \in Wanted(t, p) => p = s.provider
    BY DEF Booked, Wanted
  <1>2. s.providerSymbol \in Wanted(t, s.provider)
    BY DEF Wanted
  <1>3. s.providerSymbol \in t.prices <=> s.providerSymbol \in t.told[s.provider]
    BY <1>1 DEF Accounted
  <1>4. s.providerSymbol \in t.unavailable <=> s.providerSymbol \notin t.told[s.provider]
    BY <1>1, <1>2 DEF Accounted
  <1>5. QED
    BY <1>3, <1>4 DEF Priced

(* What taking fresh quotes from the cache makes of a request.             *)
LEMMA TakeOK ==
  ASSUME TypeOK, NEW t, Shaped(t), NEW wanted, NEW u, u = Take(t, wanted, now)
  PROVE  /\ Shaped(u) /\ u.pc = t.pc /\ u.ask = t.ask /\ u.start = t.start /\ u.errors = t.errors
         /\ u.groups = t.groups /\ u.told = t.told /\ u.prices = t.prices /\ u.unavailable = t.unavailable
         /\ u.now = now
         /\ u.pending \subseteq wanted
         /\ DOMAIN u.quotes = (wanted \ u.pending) \cup DOMAIN t.quotes
         /\ \A s \in wanted \ u.pending : u.quotes[s].at \in Int /\ u.quotes[s].at >= now - Ttl
         /\ \A s \in DOMAIN t.quotes \ (wanted \ u.pending) : u.quotes[s] = t.quotes[s]
         /\ \A s \in DOMAIN u.snapshot : u.snapshot[s].at \in Int
         /\ \A s \in u.pending \cap DOMAIN cache : Age(cache[s], now) > Ttl
  <1> DEFINE fresh == FreshIn(cache, wanted, now)
  <1>1. /\ DOMAIN u = DOMAIN Idle /\ u.pc = t.pc /\ u.ask = t.ask /\ u.start = t.start /\ u.errors = t.errors
        /\ u.groups = t.groups /\ u.told = t.told /\ u.prices = t.prices /\ u.unavailable = t.unavailable
        /\ u.now = now
        /\ u.quotes = Over(Restrict(cache, fresh), t.quotes)
        /\ u.pending = wanted \ fresh
        /\ u.snapshot = Restrict(cache, DOMAIN cache \cap wanted)
    BY DEF Take, Shaped, Idle
  <1>2. fresh \subseteq wanted \cap DOMAIN cache /\ \A s \in wanted \cap DOMAIN cache : s \in fresh <=> Age(cache[s], now) <= Ttl
    BY DEF FreshIn
  <1> HIDE DEF fresh
  <1>3. wanted \ u.pending = fresh
    BY <1>1, <1>2
  <1>4. DOMAIN u.quotes = fresh \cup DOMAIN t.quotes
    BY <1>1 DEF Over, Restrict
  <1>5. ASSUME NEW s \in fresh PROVE u.quotes[s] = cache[s] /\ cache[s].at \in Int /\ Age(cache[s], now) <= Ttl
    BY <1>1, <1>2, <1>4 DEF Over, Restrict, TypeOK
  <1>6. \A s \in fresh : u.quotes[s].at \in Int /\ u.quotes[s].at >= now - Ttl
    BY <1>5, AgeOK, AgesAssumption DEF TypeOK
  <1>7. \A s \in DOMAIN t.quotes \ fresh : u.quotes[s] = t.quotes[s]
    BY <1>1 DEF Over, Restrict
  <1>8. \A s \in DOMAIN u.snapshot : u.snapshot[s].at \in Int
    BY <1>1 DEF Restrict, TypeOK
  <1>9. ASSUME NEW s \in u.pending \cap DOMAIN cache PROVE Age(cache[s], now) > Ttl
    <2>1. cache[s].at \in Int /\ ~(Age(cache[s], now) <= Ttl)
      BY <1>1, <1>2, <1>9 DEF TypeOK
    <2>2. QED
      BY <2>1, AgeOK, AgesAssumption DEF TypeOK
  <1>10. QED
    BY <1>1, <1>3, <1>4, <1>6, <1>7, <1>8, <1>9 DEF Shaped, TypeOK

(* One request changes, and no other is disturbed.                         *)
LEMMA OneRequest ==
  ASSUME QuotesInv, NEW c \in Clients, NEW u, task' = [task EXCEPT ![c] = u],
         Shaped(u), RequestOK(u), now' = now, \A s \in DOMAIN cache' : cache'[s].at \in Int
  PROVE  TypeOK' /\ RequestsOK' /\ Only(c, u)
  <1>1. Only(c, u)
    BY OnlyOne DEF QuotesInv
  <1>2. TypeOK'
    BY <1>1 DEF QuotesInv, TypeOK, Only, Shaped
  <1>3. RequestsOK'
    BY <1>1 DEF QuotesInv, RequestsOK, RequestOK, Only
  <1>4. QED
    BY <1>1, <1>2, <1>3

(* Ask: the request is new.                                                *)
LEMMA AskSafe ==
  ASSUME QuotesInv, NEW c \in Clients, Ask(c)
  PROVE  QuotesInv' /\ \E u : Only(c, u) /\ u.pc # "thread"
  <1>1. PICK ask \in Asks :
          LET known    == ask.symbols \cap Supported
              selected == {x \in known : Chosen(x, ask.provider) # {}}
              t        == Take([Idle EXCEPT !.ask = ask, !.start = now],
                               {Selection(x, ask.provider) : x \in selected}, now)
              errors   == [x \in ask.symbols \ selected |->
                            IF x \in known THEN "UNSUPPORTED_PROVIDER" ELSE "UNSUPPORTED_SYMBOL"]
              pc       == IF t.pending = {} THEN "respond" ELSE "queued"
          IN  /\ task' = [task EXCEPT ![c] = [t EXCEPT !.errors = errors, !.pc = pc]]
              /\ line' = IF pc = "queued" THEN Append(line, c) ELSE line
    BY DEF Ask
  <1> DEFINE selected == {x \in ask.symbols \cap Supported : Chosen(x, ask.provider) # {}}
             wanted   == {Selection(x, ask.provider) : x \in selected}
             new      == [Idle EXCEPT !.ask = ask, !.start = now]
             t        == Take(new, wanted, now)
             errors   == [x \in ask.symbols \ selected |->
                           IF x \in ask.symbols \cap Supported THEN "UNSUPPORTED_PROVIDER" ELSE "UNSUPPORTED_SYMBOL"]
             pc       == IF t.pending = {} THEN "respond" ELSE "queued"
             u        == [t EXCEPT !.errors = errors, !.pc = pc]
  <1>2. task' = [task EXCEPT ![c] = u] /\ line' = IF pc = "queued" THEN Append(line, c) ELSE line
    BY <1>1
  <1>3. /\ Shaped(new) /\ new.quotes = Empty /\ new.ask = ask /\ new.start = now
        /\ new.told = Empty /\ new.prices = {} /\ new.unavailable = {}
        /\ now \in Nat /\ TypeOK
    BY DEF Shaped, Idle, QuotesInv, TypeOK
  <1>4. selected \subseteq ask.symbols /\ DOMAIN errors = ask.symbols \ selected
        /\ \A x \in DOMAIN errors : errors[x] \in {"UNSUPPORTED_PROVIDER", "UNSUPPORTED_SYMBOL"}
    OBVIOUS
  <1>5. /\ NamesOf(wanted) = selected /\ \A s \in wanted : s = Selection(s.symbol, ask.provider)
        /\ \A s, r \in wanted : s.providerSymbol = r.providerSymbol => s = r
    <2>1. \A x : Selection(x, ask.provider).symbol = x
      BY DEF Selection
    <2>2. \A x \in selected : x \in Supported /\ Chosen(x, ask.provider) # {}
      OBVIOUS
    <2> HIDE DEF selected
    <2>3. NamesOf(wanted) = selected /\ \A s \in wanted : s = Selection(s.symbol, ask.provider)
      BY <2>1 DEF NamesOf
    <2>4. ASSUME NEW s \in wanted, NEW r \in wanted, s.providerSymbol = r.providerSymbol PROVE s = r
      <3>1. PICK x \in selected : s = Selection(x, ask.provider)
        OBVIOUS
      <3>2. PICK y \in selected : r = Selection(y, ask.provider)
        OBVIOUS
      <3>3. x = y
        BY <2>2, <2>4, <3>1, <3>2, SelectionsApart
      <3>4. QED
        BY <3>1, <3>2, <3>3
    <2>5. QED
      BY <2>3, <2>4
  <1> HIDE DEF selected, wanted, new, errors
  <1>6. /\ Shaped(t) /\ t.ask = ask /\ t.start = now /\ t.pending \subseteq wanted
        /\ t.told = Empty /\ t.prices = {} /\ t.unavailable = {}
        /\ DOMAIN t.quotes = wanted \ t.pending
        /\ \A s \in DOMAIN t.quotes : t.quotes[s].at \in Int /\ t.quotes[s].at >= now - Ttl
        /\ \A s \in DOMAIN t.snapshot : t.snapshot[s].at \in Int
    BY <1>3, TakeOK, IdleOK
  <1> HIDE DEF t
  <1>7. /\ DOMAIN u = DOMAIN Idle /\ u.now = t.now /\ u.start = now /\ u.ask = ask /\ u.pending = t.pending
        /\ u.quotes = t.quotes /\ u.snapshot = t.snapshot /\ u.errors = errors /\ u.pc = pc
        /\ u.told = t.told /\ u.prices = t.prices /\ u.unavailable = t.unavailable
    BY <1>6 DEF Shaped, Idle
  <1>8. (u.pc = "respond" /\ u.pending = {}) \/ u.pc = "queued"
    BY <1>7
  <1> HIDE DEF u, pc
  <1>9. Shaped(u)
    BY <1>3, <1>6, <1>7 DEF Shaped
  <1>10. Booked(u)
    <2>1. DOMAIN u.quotes \cup u.pending = wanted /\ DOMAIN u.quotes \cap u.pending = {}
      BY <1>6, <1>7
    <2>2. QED
      BY <1>3, <1>4, <1>5, <1>6, <1>7, <2>1 DEF Booked
  <1>11. u.pc = "respond" => Answered(u)
    <2> SUFFICES ASSUME u.pending = {} PROVE Answered(u)
      BY <1>8
    <2>1. DOMAIN u.quotes \cup u.pending = DOMAIN u.quotes
      OBVIOUS
    <2>2. QED
      BY <1>10, <2>1 DEF Booked, Answered
  <1>12. RequestOK(u)
    BY <1>3, <1>6, <1>7, <1>8, <1>10, <1>11 DEF RequestOK
  <1>13. TypeOK' /\ RequestsOK' /\ Only(c, u)
    BY <1>2, <1>3, <1>9, <1>12, OneRequest DEF Ask, TypeOK
  <1>14. task[c].pc = "idle" /\ LineOK
    BY DEF Ask, QuotesInv
  <1>15. LineOK'
    BY <1>2, <1>7, <1>8, <1>13, <1>14, LineGrows, LineStays DEF Waiting
  <1>16. OneRefresh'
    BY <1>8, <1>13 DEF Ask, QuotesInv, OneRefresh, Only, Age
  <1>17. QED
    BY <1>8, <1>13, <1>15, <1>16 DEF QuotesInv

(* Enter: with the lock, the cache is looked at once more.                 *)
LEMMA EnterSafe ==
  ASSUME QuotesInv, NEW c \in Clients, Enter(c)
  PROVE  QuotesInv'
  <1> DEFINE old == task[c]
             t   == Take(old, old.pending, now)
             u   == [t EXCEPT !.groups = {s.provider : s \in t.pending}, !.pc = "fetch"]
  <1>1. /\ old.pc = "queued" /\ Head(line) = c /\ UNCHANGED <<now, cache, line>>
        /\ task' = [task EXCEPT ![c] = u]
    BY DEF Enter, Recheck
  <1>2. /\ Shaped(old) /\ Booked(old) /\ old.start <= now /\ now \in Nat /\ TypeOK
        /\ old.told = Empty /\ old.prices = {} /\ old.unavailable = {}
    BY <1>1 DEF QuotesInv, TypeOK, RequestsOK, RequestOK, Shaped, Waiting
  <1> HIDE DEF old
  <1>3. /\ Shaped(t) /\ t.ask = old.ask /\ t.start = old.start /\ t.errors = old.errors /\ t.now = now
        /\ t.told = Empty /\ t.prices = {} /\ t.unavailable = {}
        /\ t.pending \subseteq old.pending
        /\ DOMAIN t.quotes = (old.pending \ t.pending) \cup DOMAIN old.quotes
        /\ \A s \in old.pending \ t.pending : t.quotes[s].at \in Int /\ t.quotes[s].at >= now - Ttl
        /\ \A s \in DOMAIN old.quotes \ (old.pending \ t.pending) : t.quotes[s] = old.quotes[s]
        /\ \A s \in DOMAIN t.snapshot : t.snapshot[s].at \in Int
        /\ \A s \in t.pending \cap DOMAIN cache : Age(cache[s], now) > Ttl
    BY <1>2, TakeOK
  <1> HIDE DEF t
  <1>4. /\ DOMAIN u = DOMAIN Idle /\ u.now = now /\ u.start = old.start /\ u.ask = old.ask
        /\ u.pending = t.pending /\ u.quotes = t.quotes /\ u.snapshot = t.snapshot /\ u.errors = old.errors
        /\ u.pc = "fetch" /\ u.groups = {s.provider : s \in t.pending}
        /\ u.told = Empty /\ u.prices = {} /\ u.unavailable = {}
    BY <1>3 DEF Shaped, Idle
  <1> HIDE DEF u
  <1>5. Shaped(u)
    BY <1>2, <1>4 DEF Shaped
  <1>6. Booked(u)
    <2>1. /\ DOMAIN u.quotes \cup u.pending = DOMAIN old.quotes \cup old.pending
          /\ DOMAIN u.quotes \cap u.pending = {}
      BY <1>2, <1>3, <1>4 DEF Booked
    <2>2. old.start \in Nat /\ Ttl \in Nat
      BY <1>2, AgesAssumption DEF Shaped
    <2>3. \A s \in DOMAIN u.quotes : u.quotes[s].at \in Int /\ u.quotes[s].at >= u.start - Ttl
      BY <1>2, <1>3, <1>4, <2>2 DEF Booked
    <2>4. QED
      BY <1>2, <1>3, <1>4, <2>1, <2>3 DEF Booked
  <1>7. RequestOK(u)
    <2>1. Accounted(u)
      BY <1>4 DEF Accounted, Empty
    <2>2. QED
      BY <1>2, <1>4, <1>6, <2>1 DEF RequestOK
  <1>8. TypeOK' /\ RequestsOK' /\ Only(c, u)
    BY <1>1, <1>2, <1>5, <1>7, OneRequest DEF TypeOK
  <1>9. line[1] = c
    <2>1. line \in Seq(Clients) /\ \E i \in 1 .. Len(line) : line[i] = c
      BY <1>1 DEF QuotesInv, LineOK, Waiting, old
    <2>2. QED
      BY <1>1, <2>1
  <1>10. LineOK'
    BY <1>1, <1>4, <1>8, <1>9, LineStays DEF QuotesInv, Waiting, old
  <1>11. OneRefresh'
    <2>1. \A d \in Clients : task'[d].pc \in {"fetch", "thread"} => d = c
      BY <1>1, <1>9, <1>10 DEF LineOK
    <2>2. \A s \in u.pending \cap DOMAIN cache : Age(cache[s], u.now) > Ttl
      BY <1>3, <1>4
    <2>3. QED
      BY <1>1, <1>8, <2>1, <2>2 DEF OneRefresh, Only, Age
  <1>12. QED
    BY <1>8, <1>10, <1>11 DEF QuotesInv

-----------------------------------------------------------------------------
(* While a request fetches, only what it has heard changes.                *)
LEMMA FetchGoesOn ==
  ASSUME QuotesInv, NEW c \in Clients, NEW u, task' = [task EXCEPT ![c] = u],
         UNCHANGED <<now, cache, line>>, task[c].pc \in {"fetch", "thread"},
         u.pc \in {"fetch", "thread"}, DOMAIN u = DOMAIN Idle, Accounted(u),
         \A f \in DOMAIN Idle \ {"pc", "groups", "told", "prices", "unavailable"} : u[f] = task[c][f]
  PROVE  QuotesInv'
  <1>1. Shaped(task[c]) /\ Booked(task[c]) /\ task[c].start <= now
    BY DEF QuotesInv, TypeOK, RequestsOK, RequestOK, Shaped, Waiting
  <1>2. /\ u.ask = task[c].ask /\ u.start = task[c].start /\ u.now = task[c].now
        /\ u.pending = task[c].pending /\ u.snapshot = task[c].snapshot
        /\ u.quotes = task[c].quotes /\ u.errors = task[c].errors
    BY DEF Idle
  <1>3. Shaped(u) /\ RequestOK(u)
    BY <1>1, <1>2 DEF Shaped, Booked, RequestOK
  <1>4. TypeOK' /\ RequestsOK' /\ Only(c, u)
    BY <1>3, OneRequest DEF QuotesInv, TypeOK
  <1>5. LineOK'
    BY <1>4, LineStays DEF QuotesInv, Waiting
  <1>6. OneRefresh'
    BY <1>2, <1>4 DEF QuotesInv, OneRefresh, Only, Age
  <1>7. QED
    BY <1>4, <1>5, <1>6 DEF QuotesInv

LEMMA HeardSafe ==
  ASSUME QuotesInv, NEW c \in Clients, NEW provider, NEW good,
         task' = [task EXCEPT ![c] = Heard(task[c], provider, good)],
         UNCHANGED <<now, cache, line>>, task[c].pc \in {"fetch", "thread"},
         provider \in task[c].groups, good \subseteq Wanted(task[c], provider)
  PROVE  QuotesInv'
  <1> DEFINE t == task[c]
             u == Heard(t, provider, good)
  <1>1. DOMAIN t = DOMAIN Idle /\ Accounted(t)
    BY DEF QuotesInv, TypeOK, RequestsOK, RequestOK
  <1>2. /\ DOMAIN u = DOMAIN Idle /\ u.pc = "fetch"
        /\ \A f \in DOMAIN Idle \ {"pc", "groups", "told", "prices", "unavailable"} : u[f] = t[f]
        /\ u.groups = t.groups \ {provider} /\ u.told = Over([p \in {provider} |-> good], t.told)
        /\ u.prices = t.prices \cup good
        /\ u.unavailable = t.unavailable \cup (Wanted(t, provider) \ good)
    BY <1>1 DEF Heard, Idle
  <1>3. u.pending = t.pending
    BY <1>2 DEF Idle
  <1> HIDE DEF u
  <1>4. /\ DOMAIN u.told = DOMAIN t.told \cup {provider} /\ provider \notin DOMAIN t.told
        /\ u.told[provider] = good /\ \A p \in DOMAIN t.told : u.told[p] = t.told[p]
    BY <1>1, <1>2 DEF Accounted, Over
  <1>5. \A p : Wanted(u, p) = Wanted(t, p)
    BY <1>3 DEF Wanted
  <1> HIDE DEF t
  <1>6. Accounted(u)
    <2>1. u.prices = UNION {u.told[p] : p \in DOMAIN u.told}
      BY <1>1, <1>2, <1>4 DEF Accounted
    <2>2. u.unavailable = UNION {Wanted(u, p) \ u.told[p] : p \in DOMAIN u.told}
      BY <1>1, <1>2, <1>4, <1>5 DEF Accounted
    <2>3. \A s \in u.pending : s.provider \in u.groups \cup DOMAIN u.told
      BY <1>1, <1>2, <1>3, <1>4 DEF Accounted
    <2>4. u.groups \cap DOMAIN u.told = {} /\ \A p \in DOMAIN u.told : u.told[p] \subseteq Wanted(u, p)
      BY <1>1, <1>2, <1>4, <1>5 DEF Accounted, t
    <2>5. QED
      BY <2>1, <2>2, <2>3, <2>4 DEF Accounted
  <1>7. QED
    BY <1>2, <1>6, FetchGoesOn DEF u, t

LEMMA FetchPlainSafe ==
  ASSUME QuotesInv, NEW c \in Clients, FetchPlain(c)
  PROVE  QuotesInv'
  <1>1. PICK provider \in task[c].groups : \E good \in SUBSET Wanted(task[c], provider) :
          task' = [task EXCEPT ![c] = Heard(@, provider, good)]
    BY DEF FetchPlain
  <1>2. PICK good \in SUBSET Wanted(task[c], provider) :
          task' = [task EXCEPT ![c] = Heard(task[c], provider, good)]
    BY <1>1 DEF QuotesInv, TypeOK
  <1>3. QED
    BY <1>2, HeardSafe DEF FetchPlain

LEMMA FetchTwelveDataSafe ==
  ASSUME QuotesInv, NEW c \in Clients, FetchTwelveData(c)
  PROVE  QuotesInv'
  <1>1. task[c].pc = "fetch" /\ TwelveData \in task[c].groups /\ UNCHANGED <<now, cache, line>>
    BY DEF FetchTwelveData
  <1>2. CASE task' = [task EXCEPT ![c] = Heard(@, TwelveData, {})]
    <2>1. PICK good \in SUBSET Wanted(task[c], TwelveData) :
            task' = [task EXCEPT ![c] = Heard(task[c], TwelveData, good)]
      BY <1>2 DEF QuotesInv, TypeOK
    <2>2. QED
      BY <1>1, <2>1, HeardSafe
  <1>3. CASE task' = [task EXCEPT ![c].pc = "thread"]
    <2> DEFINE u == [task[c] EXCEPT !.pc = "thread"]
    <2>1. task' = [task EXCEPT ![c] = u]
      BY <1>3 DEF QuotesInv, TypeOK
    <2>2. DOMAIN task[c] = DOMAIN Idle /\ Accounted(task[c])
      BY <1>1 DEF QuotesInv, TypeOK, RequestsOK, RequestOK
    <2>3. DOMAIN u = DOMAIN Idle /\ u.pc = "thread" /\ \A f \in DOMAIN Idle \ {"pc"} : u[f] = task[c][f]
      BY <2>2 DEF Idle
    <2>4. /\ u.pending = task[c].pending /\ u.groups = task[c].groups /\ u.told = task[c].told
          /\ u.prices = task[c].prices /\ u.unavailable = task[c].unavailable
      BY <2>3 DEF Idle
    <2> HIDE DEF u
    <2>5. Accounted(u)
      BY <2>2, <2>4 DEF Accounted, Wanted
    <2>6. QED
      BY <1>1, <2>1, <2>3, <2>5, FetchGoesOn
  <1>4. QED
    BY <1>2, <1>3 DEF FetchTwelveData

(* A thread goes on, or ends and is heard.                                 *)
LEMMA ThreadEndsSafe ==
  ASSUME QuotesInv, CallsOK, NEW c \in Clients, NEW good, ThreadEnds(c, good),
         good \subseteq thread[c].good, UNCHANGED <<now, cache, line>>
  PROVE  QuotesInv'
  <1>1. CASE task[c].pc = "thread"
    <2>1. task' = [task EXCEPT ![c] = Heard(task[c], TwelveData, good)]
      BY <1>1 DEF ThreadEnds, QuotesInv, TypeOK
    <2>2. TwelveData \in task[c].groups /\ good \subseteq Wanted(task[c], TwelveData)
      BY <1>1 DEF CallsOK
    <2>3. QED
      BY <1>1, <2>1, <2>2, HeardSafe
  <1>2. CASE task[c].pc # "thread"
    BY <1>2 DEF ThreadEnds, QuotesInv, TypeOK, LineOK, RequestsOK, RequestOK, OneRefresh, Age
  <1>3. QED
    BY <1>1, <1>2

LEMMA ThreadSafe ==
  ASSUME QuotesInv, CallsOK, NEW c \in Clients,
         PickKey(c) \/ Request(c) \/ KeyRejected(c) \/ ThreadReturns(c)
  PROVE  QuotesInv'
  <1>1. UNCHANGED <<now, cache, line>>
    BY DEF PickKey, Request, KeyRejected, ThreadReturns
  <1>2. CASE task' = task
    BY <1>1, <1>2 DEF QuotesInv, TypeOK, LineOK, RequestsOK, RequestOK, OneRefresh, Age
  <1>3. CASE ThreadEnds(c, {}) \/ ThreadEnds(c, thread[c].good)
    BY <1>1, <1>3, ThreadEndsSafe
  <1>4. QED
    BY <1>2, <1>3 DEF PickKey, Request, KeyRejected, ThreadReturns

(* CallsOK: only FetchTwelveData starts a thread, and only its own steps   *)
(* change it.                                                              *)
LEMMA CallsNext ==
  ASSUME QuotesInv, KeysOK, CallsOK, [Next]_vars
  PROVE  CallsOK'
  <1>1. ASSUME NEW c \in Clients, NEW u, task' = [task EXCEPT ![c] = u], u.pc # "thread",
               \A d \in Clients \ {c} : thread'[d] = thread[d]
        PROVE  CallsOK'
    BY <1>1 DEF CallsOK, QuotesInv, TypeOK
  <1>2. CASE (Tick \/ StreamPut) \/ UNCHANGED vars
    BY <1>2 DEF Tick, StreamPut, vars, threads, CallsOK
  <1>3. ASSUME NEW c \in Clients, Ask(c) PROVE CallsOK'
    <2>1. PICK u : Only(c, u) /\ u.pc # "thread"
      BY <1>3, AskSafe
    <2>2. QED
      BY <1>3, <2>1 DEF CallsOK, Only, Ask, threads
  <1>4. ASSUME NEW c \in Clients, Enter(c) PROVE CallsOK'
    <2> DEFINE t == Recheck(task[c], now)
               u == [t EXCEPT !.groups = {s.provider : s \in t.pending}, !.pc = "fetch"]
    <2>1. u.pc = "fetch"
      BY DEF Recheck, Take, QuotesInv, TypeOK, Idle
    <2>2. task' = [task EXCEPT ![c] = u] /\ thread' = thread
      BY <1>4 DEF Enter, threads
    <2> HIDE DEF u
    <2>3. QED
      BY <1>1, <2>1, <2>2
  <1>5. ASSUME NEW c \in Clients, Respond(c) \/ Cancel(c) PROVE CallsOK'
    BY <1>1, <1>5, IdleOK DEF Respond, Cancel, threads
  <1>6. ASSUME NEW c \in Clients, Refresh(c) PROVE CallsOK'
    <2>1. task'[c].pc = "respond" /\ \A d \in Clients \ {c} : task'[d] = task[d]
      BY <1>6 DEF Refresh, QuotesInv, TypeOK, Idle
    <2>2. QED
      BY <1>6, <2>1 DEF Refresh, threads, CallsOK
  <1>7. ASSUME NEW c \in Clients, NEW provider, NEW good,
               task' = [task EXCEPT ![c] = Heard(@, provider, good)],
               \A d \in Clients \ {c} : thread'[d] = thread[d]
        PROVE  CallsOK'
    <2>1. task' = [task EXCEPT ![c] = Heard(task[c], provider, good)]
      BY <1>7 DEF QuotesInv, TypeOK
    <2>2. Heard(task[c], provider, good).pc = "fetch"
      BY DEF Heard, QuotesInv, TypeOK, Idle
    <2>3. QED
      BY <1>1, <1>7, <2>1, <2>2
  <1>8. ASSUME NEW c \in Clients, FetchPlain(c) PROVE CallsOK'
    BY <1>7, <1>8 DEF FetchPlain, threads
  <1>9. ASSUME NEW c \in Clients, FetchTwelveData(c) PROVE CallsOK'
    <2>1. CASE task' = [task EXCEPT ![c] = Heard(@, TwelveData, {})] /\ thread' = thread
      BY <1>7, <2>1
    <2>2. CASE /\ task' = [task EXCEPT ![c].pc = "thread"]
               /\ thread' = [thread EXCEPT ![c] =
                               [NoCall EXCEPT !.pc = "pick", !.wanted = Wanted(task[c], TwelveData) \cap Known]]
      <3>1. /\ \A d \in Clients \ {c} : task'[d] = task[d] /\ thread'[d] = thread[d]
            /\ task'[c].groups = task[c].groups /\ task'[c].pending = task[c].pending
            /\ thread'[c].wanted = Wanted(task[c], TwelveData) \cap Known
            /\ thread'[c].todo = {} /\ thread'[c].good = {}
        BY <2>2 DEF QuotesInv, TypeOK, KeysOK, Idle, NoCall
      <3>2. Wanted(task[c], TwelveData)' = Wanted(task[c], TwelveData)
        BY <3>1 DEF Wanted, TwelveData
      <3>3. QED
        BY <1>9, <3>1, <3>2 DEF CallsOK, FetchTwelveData, TwelveData
    <2>3. QED
      BY <1>9, <2>1, <2>2 DEF FetchTwelveData
  <1>10. ASSUME NEW c \in Clients, NEW good, ThreadEnds(c, good) PROVE CallsOK'
    <2>1. \A d \in Clients \ {c} : thread'[d] = thread[d]
      BY <1>10 DEF ThreadEnds, KeysOK
    <2>2. CASE task[c].pc = "thread"
      BY <1>7, <1>10, <2>1, <2>2 DEF ThreadEnds
    <2>3. CASE task[c].pc # "thread"
      BY <1>10, <2>1, <2>3 DEF ThreadEnds, CallsOK
    <2>4. QED
      BY <2>2, <2>3
  <1>11. ASSUME NEW c \in Clients, NEW call, thread' = [thread EXCEPT ![c] = call], task' = task,
                call.wanted \cup call.todo \cup call.good
                  \subseteq thread[c].wanted \cup thread[c].todo \cup thread[c].good
         PROVE  CallsOK'
    <2>1. thread'[c] = call /\ \A d \in Clients \ {c} : thread'[d] = thread[d]
      BY <1>11 DEF KeysOK
    <2>2. QED
      BY <1>11, <2>1 DEF CallsOK
  <1>12. ASSUME NEW c \in Clients, PickKey(c) PROVE CallsOK'
    <2>1. CASE ThreadEnds(c, {})
      BY <1>10, <2>1
    <2>2. ASSUME NEW key, task' = task,
                 thread' = [thread EXCEPT ![c].pc = "ask", ![c].key = key, ![c].todo = thread[c].wanted]
          PROVE  CallsOK'
      <3> DEFINE u == [thread[c] EXCEPT !.pc = "ask", !.key = key, !.todo = thread[c].wanted]
      <3>1. thread' = [thread EXCEPT ![c] = u]
        BY <2>2 DEF KeysOK
      <3>2. u.wanted = thread[c].wanted /\ u.todo = thread[c].wanted /\ u.good = thread[c].good
        BY DEF KeysOK, CallOK, NoCall
      <3> HIDE DEF u
      <3>3. QED
        BY <1>11, <2>2, <3>1, <3>2
    <2>3. QED
      BY <1>12, <2>1, <2>2 DEF PickKey
  <1>13. ASSUME NEW c \in Clients, Request(c) PROVE CallsOK'
    <2>1. CASE ThreadEnds(c, {})
      BY <1>10, <2>1
    <2>2. ASSUME NEW symbol \in thread[c].todo, NEW priced \in SUBSET {symbol}, task' = task,
                 thread' = [thread EXCEPT ![c].todo = @ \ {symbol}, ![c].good = @ \cup priced]
          PROVE  CallsOK'
      <3> DEFINE u == [thread[c] EXCEPT !.todo = @ \ {symbol}, !.good = @ \cup priced]
      <3>1. thread' = [thread EXCEPT ![c] = u]
        BY <2>2 DEF KeysOK
      <3>2. /\ u.wanted = thread[c].wanted /\ u.todo = thread[c].todo \ {symbol}
            /\ u.good = thread[c].good \cup priced
        BY DEF KeysOK, CallOK, NoCall
      <3> HIDE DEF u
      <3>3. QED
        BY <1>11, <2>2, <3>1, <3>2
    <2>3. CASE task' = task /\ thread' = [thread EXCEPT ![c].pc = "cool", ![c].todo = {}, ![c].good = {}]
      <3> DEFINE u == [thread[c] EXCEPT !.pc = "cool", !.todo = {}, !.good = {}]
      <3>1. thread' = [thread EXCEPT ![c] = u]
        BY <2>3 DEF KeysOK
      <3>2. u.wanted = thread[c].wanted /\ u.todo = {} /\ u.good = {}
        BY DEF KeysOK, CallOK, NoCall
      <3> HIDE DEF u
      <3>3. QED
        BY <1>11, <2>3, <3>1, <3>2
    <2>4. QED
      BY <1>13, <2>1, <2>2, <2>3 DEF Request
  <1>14. ASSUME NEW c \in Clients, KeyRejected(c) PROVE CallsOK'
    <2>1. CASE ThreadEnds(c, {})
      BY <1>10, <2>1
    <2>2. CASE /\ task' = task
               /\ thread' = [thread EXCEPT ![c].pc = "pick", ![c].refused = {thread[c].key}]
      <3> DEFINE u == [thread[c] EXCEPT !.pc = "pick", !.refused = {thread[c].key}]
      <3>1. thread' = [thread EXCEPT ![c] = u]
        BY <2>2 DEF KeysOK
      <3>2. u.wanted = thread[c].wanted /\ u.todo = thread[c].todo /\ u.good = thread[c].good
        BY DEF KeysOK, CallOK, NoCall
      <3> HIDE DEF u
      <3>3. QED
        BY <1>11, <2>2, <3>1, <3>2
    <2>3. QED
      BY <1>14, <2>1, <2>2 DEF KeyRejected
  <1>15. ASSUME NEW c \in Clients, ThreadReturns(c) PROVE CallsOK'
    BY <1>10, <1>15 DEF ThreadReturns
  <1>16. QED
    BY <1>2, <1>3, <1>4, <1>5, <1>6, <1>8, <1>9, <1>12, <1>13, <1>14, <1>15 DEF Next

-----------------------------------------------------------------------------
(* Refresh: what has a price is quoted, the rest falls back or fails.      *)
LEMMA RefreshAnswers ==
  ASSUME NEW t, Shaped(t), Booked(t), Accounted(t), t.groups = {}, t.start <= now, now \in Nat,
         NEW quotes, quotes = [s \in Priced(t) |-> [at |-> now, streamed |-> FALSE]],
         NEW fallback, fallback = UseFallback(t, now),
         NEW failures, DOMAIN failures = NamesOf(DOMAIN fallback.errors),
         NEW u, u = [t EXCEPT !.pc = "respond", !.now = now, !.quotes = Over(quotes, Over(fallback.quotes, @)),
                              !.errors = Over(failures, @)]
  PROVE  Shaped(u) /\ u.pc = "respond" /\ u.start = t.start /\ Answered(u)
  <1> DEFINE failed == t.pending \ Priced(t)
             useful == {s \in failed \cap DOMAIN t.snapshot : Age(t.snapshot[s], now) <= StaleAfter}
  <1>1. /\ DOMAIN u = DOMAIN Idle /\ u.pc = "respond" /\ u.start = t.start /\ u.now = now /\ u.ask = t.ask
        /\ u.pending = t.pending /\ u.told = t.told
        /\ u.quotes = Over(quotes, Over(fallback.quotes, t.quotes)) /\ u.errors = Over(failures, t.errors)
    BY DEF Shaped, Idle
  <1>2. /\ fallback.quotes = Restrict(t.snapshot, useful) /\ DOMAIN fallback.errors = failed \ useful
    BY DEF UseFallback
  <1>3. Priced(t) \subseteq t.pending
    BY DEF Priced
  <1>4. \A s \in useful : t.snapshot[s].at \in Int /\ t.snapshot[s].at >= now - StaleAfter
    BY AgeOK, AgesAssumption DEF Booked
  <1>5. useful \subseteq failed /\ failed \subseteq t.pending /\ Priced(t) \cup failed = t.pending
    BY <1>3
  <1>6. /\ DOMAIN u.quotes = Priced(t) \cup useful \cup DOMAIN t.quotes
        /\ \A s \in Priced(t) : u.quotes[s].at = now
        /\ \A s \in useful \ Priced(t) : u.quotes[s] = t.snapshot[s]
        /\ \A s \in DOMAIN t.quotes \ (Priced(t) \cup useful) : u.quotes[s] = t.quotes[s]
    <2> HIDE DEF useful
    <2>1. /\ DOMAIN quotes = Priced(t) /\ DOMAIN fallback.quotes = useful
          /\ \A s \in Priced(t) : quotes[s].at = now
          /\ \A s \in useful : fallback.quotes[s] = t.snapshot[s]
      BY <1>2 DEF Restrict
    <2>2. QED
      BY <1>1, <2>1 DEF Over
  <1>7. /\ DOMAIN u.errors = NamesOf(failed \ useful) \cup DOMAIN t.errors
        /\ \A x \in DOMAIN t.errors \ NamesOf(failed \ useful) : u.errors[x] = t.errors[x]
    BY <1>1, <1>2 DEF Over
  <1>8. /\ \A s \in failed : Missed(u, s)
        /\ \A s \in t.pending : Got(u, s) <=> s \in Priced(t)
    <2>1. ASSUME NEW s \in t.pending
          PROVE  Asked(u, s) /\ (s \in Priced(t) <=> s.providerSymbol \in u.told[s.provider])
      <3>1. s.provider \in DOMAIN t.told
        BY DEF Accounted
      <3>2. QED
        BY <1>1, <3>1, PricedByItsOwn DEF Asked
    <2>2. QED
      BY <2>1 DEF Got, Missed
  <1>9. \A s \in failed \cap Priced(t) : FALSE
    OBVIOUS
  <1> HIDE DEF failed, useful
  <1>10. NamesOf(DOMAIN u.quotes) \cup DOMAIN u.errors = t.ask.symbols
    <2>1. DOMAIN u.quotes \cup (failed \ useful) = DOMAIN t.quotes \cup t.pending
      BY <1>5, <1>6
    <2>2. \A S, T : NamesOf(S) \cup NamesOf(T) = NamesOf(S \cup T)
      BY DEF NamesOf
    <2>3. NamesOf(DOMAIN t.quotes \cup t.pending) \cup DOMAIN t.errors = t.ask.symbols
      BY DEF Booked
    <2>4. NamesOf(DOMAIN u.quotes) \cup NamesOf(failed \ useful) = NamesOf(DOMAIN t.quotes \cup t.pending)
      <3>1. NamesOf(DOMAIN u.quotes) \cup NamesOf(failed \ useful) = NamesOf(DOMAIN u.quotes \cup (failed \ useful))
        BY <2>2, Zenon
      <3>2. QED
        BY <2>1, <3>1, Zenon
    <2>5. QED
      BY <1>7, <2>3, <2>4
  <1>11. NamesOf(DOMAIN u.quotes) \cap DOMAIN u.errors = {}
    <2> SUFFICES ASSUME NEW s \in DOMAIN u.quotes, s.symbol \in DOMAIN u.errors PROVE FALSE
      BY DEF NamesOf
    <2>1. s \in DOMAIN t.quotes \cup t.pending /\ s \notin failed \ useful
      BY <1>5, <1>6, <1>9 DEF Booked
    <2>2. s.symbol \notin DOMAIN t.errors
      BY <2>1 DEF Booked, NamesOf
    <2>3. PICK r \in failed \ useful : r.symbol = s.symbol
      BY <1>7, <2>2 DEF NamesOf
    <2>4. r = s
      BY <1>5, <2>1, <2>3 DEF Booked
    <2>5. QED
      BY <2>1, <2>3, <2>4
  <1>12. ASSUME NEW s \in DOMAIN u.quotes
         PROVE  /\ s = Selection(s.symbol, u.ask.provider)
                /\ \/ Got(u, s)
                   \/ Missed(u, s) /\ u.quotes[s].at >= u.now - StaleAfter
                   \/ s \notin u.pending /\ u.quotes[s].at >= u.start - Ttl
    <2>1. s = Selection(s.symbol, u.ask.provider)
      BY <1>1, <1>5, <1>6, <1>12 DEF Booked
    <2>2. CASE s \in Priced(t)
      BY <1>3, <1>8, <2>1, <2>2
    <2>3. CASE s \in useful \ Priced(t)
      BY <1>1, <1>4, <1>5, <1>6, <1>8, <2>1, <2>3
    <2>4. CASE s \notin Priced(t) \cup useful
      BY <1>1, <1>6, <1>12, <2>1, <2>4 DEF Booked
    <2>5. QED
      BY <2>2, <2>3, <2>4
  <1>13. ASSUME NEW x \in DOMAIN u.errors, u.errors[x] \in {"DATA_STALE", "PROVIDER_UNAVAILABLE"}
         PROVE  Missed(u, Selection(x, u.ask.provider))
    <2>1. x \in NamesOf(failed \ useful)
      BY <1>7, <1>13 DEF Booked
    <2>2. PICK s \in failed \ useful : s.symbol = x
      BY <2>1 DEF NamesOf
    <2>3. s = Selection(x, u.ask.provider)
      BY <1>1, <1>5, <2>2 DEF Booked
    <2>4. QED
      BY <1>8, <2>2, <2>3
  <1>14. \A s \in u.pending : Got(u, s) => s \in DOMAIN u.quotes /\ u.quotes[s].at = u.now
    BY <1>1, <1>6, <1>8
  <1>15. Answered(u)
    BY <1>1, <1>10, <1>11, <1>12, <1>13, <1>14 DEF Answered
  <1>16. QED
    BY <1>1, <1>15 DEF Shaped

LEMMA RefreshSafe ==
  ASSUME QuotesInv, NEW c \in Clients, Refresh(c)
  PROVE  QuotesInv'
  <1> DEFINE t        == task[c]
             fallback == UseFallback(t, now)
             quotes   == [s \in Priced(t) |-> [at |-> now, streamed |-> FALSE]]
             failures == [x \in {s.symbol : s \in DOMAIN fallback.errors} |->
                           fallback.errors[CHOOSE s \in DOMAIN fallback.errors : s.symbol = x]]
             u        == [t EXCEPT !.pc = "respond", !.now = now, !.quotes = Over(quotes, Over(fallback.quotes, @)),
                                   !.errors = Over(failures, @)]
  <1>1. /\ t.pc = "fetch" /\ t.groups = {} /\ cache' = Over(quotes, cache)
        /\ line' = Leave(c) /\ now' = now
    BY DEF Refresh
  <1>2. Shaped(t) /\ Booked(t) /\ Accounted(t) /\ t.start <= now /\ now \in Nat
    BY <1>1 DEF QuotesInv, TypeOK, RequestsOK, RequestOK, Shaped, Waiting
  <1>3. task' = [task EXCEPT ![c] = u]
    <2>1. task' = [task EXCEPT ![c].pc = "respond", ![c].now = now, ![c].quotes = Over(quotes, Over(fallback.quotes, @)),
                      ![c].errors = Over(failures, @)]
      BY DEF Refresh
    <2> HIDE DEF quotes, fallback, failures
    <2>2. QED
      BY <1>2, <2>1 DEF QuotesInv, TypeOK, Shaped, Idle
  <1>4. DOMAIN failures = NamesOf(DOMAIN fallback.errors)
    BY DEF NamesOf
  <1>5. \A s \in DOMAIN cache' : cache'[s].at \in Int
    BY <1>1, <1>2 DEF Over, QuotesInv, TypeOK
  <1>6. Shaped(u) /\ u.pc = "respond" /\ u.start = t.start /\ Answered(u)
    <2> HIDE DEF failures
    <2>1. QED
      BY <1>1, <1>2, <1>4, RefreshAnswers
  <1> HIDE DEF u
  <1>7. RequestOK(u)
    BY <1>2, <1>6 DEF RequestOK, Waiting
  <1>8. TypeOK' /\ RequestsOK' /\ Only(c, u)
    BY <1>1, <1>3, <1>5, <1>6, <1>7, OneRequest
  <1>9. LineOK'
    BY <1>1, <1>6, <1>8, LineShrinks DEF QuotesInv, Waiting
  <1>10. \A d \in Clients : task'[d].pc \notin {"fetch", "thread"}
    BY <1>1, <1>6, <1>8, OneFetcher DEF QuotesInv, Only
  <1>11. OneRefresh'
    BY <1>10 DEF OneRefresh
  <1>12. QED
    BY <1>8, <1>9, <1>11 DEF QuotesInv

(* Respond, Cancel: the request ends.                                      *)
LEMMA EndSafe ==
  ASSUME QuotesInv, NEW c \in Clients, Respond(c) \/ Cancel(c)
  PROVE  QuotesInv'
  <1> DEFINE u == [Idle EXCEPT !.pc = "ended"]
  <1>1. task' = [task EXCEPT ![c] = u] /\ now' = now /\ cache' = cache
    BY DEF Respond, Cancel
  <1>2. Shaped(u) /\ u.pc = "ended" /\ u.start = 0
    BY IdleOK
  <1> HIDE DEF u
  <1>3. RequestOK(u)
    BY <1>2 DEF RequestOK, Waiting, QuotesInv, TypeOK
  <1>4. TypeOK' /\ RequestsOK' /\ Only(c, u)
    BY <1>1, <1>2, <1>3, OneRequest DEF QuotesInv, TypeOK
  <1>5. LineOK'
    <2>1. CASE Respond(c)
      BY <1>2, <1>4, <2>1, LineStays DEF Respond, QuotesInv, Waiting
    <2>2. CASE Cancel(c)
      BY <1>2, <1>4, <2>2, LineShrinks DEF Cancel, QuotesInv, Waiting
    <2>3. QED
      BY <2>1, <2>2
  <1>6. OneRefresh'
    BY <1>1, <1>2, <1>4 DEF QuotesInv, OneRefresh, Only, Age
  <1>7. QED
    BY <1>4, <1>5, <1>6 DEF QuotesInv

LEMMA TickSafe ==
  ASSUME QuotesInv, Tick
  PROVE  QuotesInv'
  <1>1. now' = now + 1 /\ UNCHANGED <<cache, line, task>> /\ now \in Nat
    BY DEF Tick, QuotesInv, TypeOK
  <1>2. TypeOK' /\ LineOK' /\ OneRefresh'
    BY <1>1 DEF QuotesInv, TypeOK, LineOK, OneRefresh, Age
  <1>3. RequestsOK'
    BY <1>1 DEF QuotesInv, TypeOK, RequestsOK, RequestOK
  <1>4. QED
    BY <1>2, <1>3 DEF QuotesInv

LEMMA StreamPutSafe ==
  ASSUME QuotesInv, StreamPut
  PROVE  QuotesInv'
  <1>1. PICK s \in {x \in Selections : x.symbol \in Streams}, at \in {now, now - 1} :
          at >= 0 /\ cache' = Over([x \in {s} |-> [at |-> at, streamed |-> TRUE]], cache)
    BY DEF StreamPut
  <1>2. UNCHANGED <<now, line, task>> /\ now \in Nat
    BY DEF StreamPut, QuotesInv, TypeOK
  <1>3. /\ DOMAIN cache' = {s} \cup DOMAIN cache
        /\ cache'[s].at = at /\ cache'[s].streamed = TRUE
        /\ \A r \in DOMAIN cache \ {s} : cache'[r] = cache[r]
    BY <1>1 DEF Over
  <1>4. TypeOK'
    BY <1>2, <1>3 DEF QuotesInv, TypeOK
  <1>5. LineOK' /\ RequestsOK'
    BY <1>2 DEF QuotesInv, LineOK, RequestsOK, RequestOK
  <1>6. OneRefresh'
    BY <1>2, <1>3 DEF QuotesInv, OneRefresh, Age
  <1>7. QED
    BY <1>4, <1>5, <1>6 DEF QuotesInv

-----------------------------------------------------------------------------
LEMMA InitSafe == Init => QuotesInv /\ CallsOK
  <1> SUFFICES ASSUME Init PROVE QuotesInv /\ CallsOK
    OBVIOUS
  <1>1. /\ now = 0 /\ cache = Empty /\ line = <<>> /\ task = [c \in Clients |-> Idle]
        /\ \A c \in Clients : task[c] = Idle
    BY DEF Init
  <1>2. TypeOK
    BY <1>1, IdleOK DEF TypeOK
  <1>3. LineOK
    BY <1>1, IdleOK DEF LineOK, Waiting
  <1>4. RequestsOK /\ OneRefresh
    BY <1>1, IdleOK DEF RequestsOK, RequestOK, OneRefresh, Waiting
  <1>5. QED
    BY <1>1, <1>2, <1>3, <1>4, IdleOK DEF QuotesInv, CallsOK

ServiceInv == QuotesInv /\ KeysOK /\ CallsOK

LEMMA NextSafe == ServiceInv /\ [Next]_vars => ServiceInv'
  <1> SUFFICES ASSUME ServiceInv, [Next]_vars PROVE ServiceInv'
    OBVIOUS
  <1>1. QuotesInv /\ KeysOK /\ CallsOK
    BY DEF ServiceInv
  <1>2. KeysOK' /\ CallsOK'
    BY <1>1, KeysNext, CallsNext
  <1>3. CASE UNCHANGED vars
    <2>1. QuotesInv'
      BY <1>1, <1>3 DEF vars, QuotesInv, TypeOK, LineOK, RequestsOK, RequestOK, OneRefresh, Age
    <2>2. QED
      BY <1>2, <2>1 DEF ServiceInv
  <1>4. ASSUME NEW c \in Clients,
               \/ Ask(c) \/ Enter(c) \/ FetchPlain(c) \/ FetchTwelveData(c)
               \/ PickKey(c) \/ Request(c) \/ KeyRejected(c) \/ ThreadReturns(c)
               \/ Refresh(c) \/ Respond(c) \/ Cancel(c)
        PROVE  QuotesInv'
    BY <1>1, <1>4, AskSafe, EnterSafe, FetchPlainSafe, FetchTwelveDataSafe, ThreadSafe, RefreshSafe, EndSafe
  <1>5. CASE Next
    <2>1. QuotesInv'
      BY <1>1, <1>4, <1>5, TickSafe, StreamPutSafe DEF Next
    <2>2. QED
      BY <1>2, <2>1 DEF ServiceInv
  <1>6. QED
    BY <1>3, <1>5

(* The lock of a refresh, the bookkeeping of the requests and the threads  *)
(* with their keys, in every state (quotes.py:74-230).                     *)
THEOREM QuotesCorrect == Spec => []ServiceInv
  <1>1. Init => ServiceInv
    BY InitSafe, KeysInit DEF ServiceInv
  <1>2. QED
    BY <1>1, NextSafe, PTL DEF Spec

(* Requests that wait for the same refresh share it, for any requests and  *)
(* lifetime of the cache (quotes.py:127-144).                              *)
THEOREM OneRefreshCorrect == Spec => []OneRefresh
  <1>1. ServiceInv => OneRefresh
    BY DEF ServiceInv, QuotesInv
  <1>2. QED
    BY QuotesCorrect, <1>1, PTL

(* Every symbol asked for is quoted or an error, a fetched one as its own  *)
(* provider decided, and no quote is older than the two ages allow, for    *)
(* any requests, registry and providers (quotes.py:74, :146-230,           *)
(* quote_provider_router.py:31-58).                                        *)
THEOREM AnswerSoundCorrect == Spec => []AnswerSound
  <1>1. ServiceInv => AnswerSound
    <2> SUFFICES ASSUME ServiceInv, NEW c \in Clients, task[c].pc = "respond"
                 PROVE  LET t == task[c]
                            quoted == {s.symbol : s \in DOMAIN t.quotes}
                            Asked0(s) == s \in t.pending /\ s.provider \in DOMAIN t.told
                            Got0(s) == Asked0(s) /\ s.providerSymbol \in t.told[s.provider]
                            Missed0(s) == Asked0(s) /\ s.providerSymbol \notin t.told[s.provider]
                        IN  /\ quoted \cup DOMAIN t.errors = t.ask.symbols
                            /\ quoted \cap DOMAIN t.errors = {}
                            /\ \A s \in t.pending : Got0(s) => s \in DOMAIN t.quotes /\ t.quotes[s].at = t.now
                            /\ \A s \in DOMAIN t.quotes :
                                 /\ s \in {Selection(s.symbol, t.ask.provider)}
                                 /\ \/ Got0(s)
                                    \/ Missed0(s) /\ t.quotes[s].at >= t.now - StaleAfter
                                    \/ s \notin t.pending /\ t.quotes[s].at >= t.start - Ttl
                            /\ \A x \in DOMAIN t.errors : t.errors[x] \in {"DATA_STALE", "PROVIDER_UNAVAILABLE"} =>
                                 Missed0(Selection(x, t.ask.provider))
      BY DEF AnswerSound
    <2>1. Answered(task[c])
      BY DEF ServiceInv, QuotesInv, RequestsOK, RequestOK
    <2>2. QED
      BY <2>1 DEF Answered, NamesOf, Asked, Got, Missed
  <1>2. QED
    BY QuotesCorrect, <1>1, PTL
=============================================================================
