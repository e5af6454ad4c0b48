---------------------------- MODULE QuoteService ----------------------------
(***************************************************************************)
(* QuoteService (src/app/services/quotes.py) with QuoteCache, the          *)
(* QuoteProviderRouter and the providers behind it.  A call of Twelve Data *)
(* runs in a thread: it takes a key of the pool that all threads share,    *)
(* makes one HTTP request for each symbol, and goes on when the request    *)
(* that made it is cancelled.  The stream manager writes the same cache.   *)
(***************************************************************************)
EXTENDS SymbolRegistry, TwelveDataKeys

CONSTANTS
  Clients,      \* requests
  Asks,         \* what a request may ask for: [symbols, provider]
  Configured,   \* providers of the router
  Ttl,          \* QUOTE_CACHE_TTL_SECONDS, in ticks
  StaleAfter,   \* QUOTE_STALE_AFTER_SECONDS, in ticks
  Known,        \* SUPPORTED_TWELVEDATA_PROVIDER_SYMBOLS
  Responses,    \* what Twelve Data may respond
  Streams,      \* symbols that clients have streams of
  MaxNow        \* bound on the clock

ASSUME AgesAssumption == Ttl \in Nat /\ StaleAfter \in Nat /\ MaxNow \in Nat

TwelveData == "TWELVE_DATA"

VARIABLES
  now,       \* the clock
  cache,     \* QuoteCache: [selections -> [at, streamed]], at the receipt
  line,      \* refresh_lock: its holder and the tasks behind it
  task,      \* the requests
  pool,      \* the keys of Twelve Data
  thread,    \* the Twelve Data call of a request, in its thread
  cooled,    \* history: when a key was last cooled down
  overtaken  \* history: threads whose key another has cooled down since they took it

threads == <<pool, thread, cooled, overtaken>>

vars == <<now, cache, line, task, threads>>

Empty == [s \in {} |-> 0]

Selections == UNION {{Selection(row.symbol, m.provider) : m \in row.mappings} : row \in Enabled}

Idle == [pc |-> "idle", ask |-> [symbols |-> {}, provider |-> NoProvider], start |-> 0, now |-> 0,
         pending |-> {}, snapshot |-> Empty, groups |-> {}, prices |-> {}, unavailable |-> {},
         told |-> Empty,   \* history: [providers asked -> the provider symbols each has priced]
         quotes |-> Empty, errors |-> Empty]

NoCall == [pc |-> "none", key |-> NoKey, refused |-> {}, wanted |-> {}, todo |-> {}, good |-> {}]

Init ==
  /\ now = 0 /\ cache = Empty /\ line = <<>>
  /\ task = [c \in Clients |-> Idle]
  /\ pool = NewPool /\ thread = [c \in Clients |-> NoCall]
  /\ cooled = [key \in ToSet(Keys) |-> 0 - Cooldown] /\ overtaken = {}

-----------------------------------------------------------------------------
Age(quote, t) == IF t > quote.at THEN t - quote.at ELSE 0

FreshIn(quotes, wanted, t) == {s \in wanted \cap DOMAIN quotes : Age(quotes[s], t) <= Ttl}

Leave(c) == RemoveAt(line, CHOOSE i \in DOMAIN line : line[i] = c)

(* What dict.update leaves of a dictionary.                                *)
Over(new, old) == [x \in DOMAIN new \cup DOMAIN old |-> IF x \in DOMAIN new THEN new[x] ELSE old[x]]

(* The task with its fresh quotes; the rest is pending.                    *)
Take(t, wanted, time) ==
  LET fresh == FreshIn(cache, wanted, time)
  IN  [t EXCEPT !.quotes = Over(Restrict(cache, fresh), @), !.pending = wanted \ fresh,
                !.snapshot = Restrict(cache, DOMAIN cache \cap wanted), !.now = time]

(* Mutant of Recheck: what was pending before the lock is fetched.         *)
NoRecheck(t, time) == [t EXCEPT !.snapshot = Restrict(cache, DOMAIN cache \cap t.pending), !.now = time]

Recheck(t, time) == Take(t, t.pending, time)

(* The symbols of a refresh that have a price; a price is of a provider    *)
(* symbol, whichever provider it came from.                                *)
Priced(t) == {s \in t.pending : s.providerSymbol \in t.prices \ t.unavailable}

(* _use_fallback, for every pending symbol that has no price: the snapshot *)
(* taken with the lock, unless it is stale by now.                         *)
UseFallback(t, time) ==
  LET failed == t.pending \ Priced(t)
      useful == {s \in failed \cap DOMAIN t.snapshot : Age(t.snapshot[s], time) <= StaleAfter}
  IN  [quotes |-> Restrict(t.snapshot, useful),
       errors |-> [s \in failed \ useful |->
                    IF s \in DOMAIN t.snapshot THEN "DATA_STALE" ELSE "PROVIDER_UNAVAILABLE"]]

Wanted(t, provider) == {s.providerSymbol : s \in {p \in t.pending : p.provider = provider}}

(* Mutant of Heard: the failure of a provider is put down to every symbol. *)
HeardOfAll(t, provider, good) ==
  [t EXCEPT !.groups = @ \ {provider}, !.told = Over([p \in {provider} |-> good], @), !.prices = @ \cup good,
            !.unavailable = @ \cup ((IF good = {} THEN {s.providerSymbol : s \in t.pending}
                                                 ELSE Wanted(t, provider)) \ good), !.pc = "fetch"]

(* The router has heard from a provider, or has not: good are the provider *)
(* symbols it has priced, the others are unavailable.                      *)
Heard(t, provider, good) ==
  [t EXCEPT !.groups = @ \ {provider}, !.told = Over([p \in {provider} |-> good], @), !.prices = @ \cup good,
            !.unavailable = @ \cup (Wanted(t, provider) \ good), !.pc = "fetch"]

-----------------------------------------------------------------------------
Tick == now < MaxNow /\ now' = now + 1 /\ UNCHANGED <<cache, line, task, threads>>

(* A streamed quote enters the cache, some time after it was received.     *)
StreamPut ==
  /\ \E s \in {x \in Selections : x.symbol \in Streams}, at \in {now, now - 1} :
       at >= 0 /\ cache' = Over([x \in {s} |-> [at |-> at, streamed |-> TRUE]], cache)
  /\ UNCHANGED <<now, line, task, threads>>

(* get_latest_quotes: the registry, the selections, the cache.             *)
Ask(c) ==
  /\ task[c].pc = "idle" /\ RegistryReadable
  /\ \E ask \in Asks :
       LET known    == ask.symbols \cap Supported
           selected == {x \in known : Chosen(x, ask.provider) # {}}
           t        == Take([Idle EXCEPT !.ask = ask, !.start = now],
                            {Selection(x, ask.provider) : x \in selected}, now)
           errors   == [x \in ask.symbols \ selected |->
                         IF x \in known THEN "UNSUPPORTED_PROVIDER" ELSE "UNSUPPORTED_SYMBOL"]
           pc       == IF t.pending = {} THEN "respond" ELSE "queued"
       IN  /\ task' = [task EXCEPT ![c] = [t EXCEPT !.errors = errors, !.pc = pc]]
           /\ line' = IF pc = "queued" THEN Append(line, c) ELSE line
  /\ UNCHANGED <<now, cache, threads>>

(* With the lock: what is still pending goes to the router, by provider.   *)
Enter(c) ==
  /\ task[c].pc = "queued" /\ Head(line) = c
  /\ LET t == Recheck(task[c], now) IN
     task' = [task EXCEPT ![c] = [t EXCEPT !.groups = {s.provider : s \in t.pending}, !.pc = "fetch"]]
  /\ UNCHANGED <<now, cache, line, threads>>

(* A provider that answers at once, or fails: only its symbols suffer.     *)
FetchPlain(c) ==
  /\ task[c].pc = "fetch"
  /\ \E provider \in task[c].groups \ {TwelveData} :
       \E good \in SUBSET Wanted(task[c], provider) :
         /\ provider \in Configured \/ good = {}
         /\ task' = [task EXCEPT ![c] = Heard(@, provider, good)]
  /\ UNCHANGED <<now, cache, line, threads>>

(* Twelve Data: its lock is free, as refresh_lock lets one request in; a   *)
(* thread is started.                                                      *)
FetchTwelveData(c) ==
  /\ task[c].pc = "fetch" /\ TwelveData \in task[c].groups
  /\ IF TwelveData \notin Configured
     THEN task' = [task EXCEPT ![c] = Heard(@, TwelveData, {})] /\ thread' = thread
     ELSE /\ task' = [task EXCEPT ![c].pc = "thread"]
          /\ thread' = [thread EXCEPT ![c] =
                         [NoCall EXCEPT !.pc = "pick", !.wanted = Wanted(task[c], TwelveData) \cap Known]]
  /\ UNCHANGED <<now, cache, line, pool, cooled, overtaken>>

(* The end of a thread: the request, if it is still there, hears of it.    *)
ThreadEnds(c, good) ==
  /\ thread' = [thread EXCEPT ![c] = NoCall]
  /\ task' = IF task[c].pc = "thread" THEN [task EXCEPT ![c] = Heard(@, TwelveData, good)] ELSE task

(* _with_key_retry: next_key, the first or the alternate, and the symbols  *)
(* from the start.                                                         *)
PickKey(c) ==
  /\ thread[c].pc = "pick"
  /\ \E exclude \in IF thread[c].refused = {} THEN {NoKey} ELSE thread[c].refused :
       LET next == NextKey(pool, exclude, now) IN
       IF next.key = NoKey THEN ThreadEnds(c, {}) /\ UNCHANGED <<pool, overtaken>>
       ELSE /\ pool' = next.pool /\ overtaken' = overtaken \ {c}
            /\ thread' = [thread EXCEPT ![c].pc = "ask", ![c].key = next.key, ![c].todo = thread[c].wanted]
            /\ task' = task
  /\ UNCHANGED <<now, cache, line, cooled>>

(* One HTTP request, for one symbol: a price or a payload without one, an  *)
(* error that ends the call, or a rejection of the key.                    *)
Request(c) ==
  /\ thread[c].pc = "ask"
  /\ \E symbol \in thread[c].todo, response \in Responses :
       \/ /\ HttpOutcome(response) = "answer"
          /\ \E priced \in SUBSET {symbol} :
               thread' = [thread EXCEPT ![c].todo = @ \ {symbol}, ![c].good = @ \cup priced]
          /\ task' = task
       \/ /\ HttpOutcome(response) = "key"
          /\ thread' = [thread EXCEPT ![c].pc = "cool", ![c].todo = {}, ![c].good = {}]
          /\ task' = task
       \/ HttpOutcome(response) \notin {"answer", "key"} /\ ThreadEnds(c, {})
  /\ UNCHANGED <<now, cache, line, pool, cooled, overtaken>>

(* cool_down of the rejected key: one alternate is tried.                  *)
KeyRejected(c) ==
  /\ thread[c].pc = "cool"
  /\ LET key == thread[c].key IN
     /\ pool' = CoolDown(pool, key, now)
     /\ cooled' = [cooled EXCEPT ![key] = now]
     /\ overtaken' = overtaken \cup {d \in Clients : thread[d].pc = "ask" /\ thread[d].key = key}
     /\ IF thread[c].refused = {}
        THEN thread' = [thread EXCEPT ![c].pc = "pick", ![c].refused = {key}] /\ task' = task
        ELSE ThreadEnds(c, {})
  /\ UNCHANGED <<now, cache, line>>

(* Every symbol has been asked for.                                        *)
ThreadReturns(c) ==
  /\ thread[c].pc = "ask" /\ thread[c].todo = {}
  /\ ThreadEnds(c, thread[c].good)
  /\ UNCHANGED <<now, cache, line, pool, cooled, overtaken>>

(* The router is done: prices become quotes, received now, and all of them *)
(* enter the cache over whatever is there; the others fall back.           *)
Refresh(c) ==
  /\ task[c].pc = "fetch" /\ task[c].groups = {}
  /\ LET t        == task[c]
         fallback == UseFallback(t, now)
         quotes   == [s \in Priced(t) |-> [at |-> now, streamed |-> FALSE]]
     IN  /\ cache' = Over(quotes, cache)
         /\ task' = [task EXCEPT ![c].pc = "respond", ![c].now = now,
                      ![c].quotes = Over(quotes, Over(fallback.quotes, @)),
                      ![c].errors = Over([x \in {s.symbol : s \in DOMAIN fallback.errors} |->
                        fallback.errors[CHOOSE s \in DOMAIN fallback.errors : s.symbol = x]], @)]
  /\ line' = Leave(c)
  /\ UNCHANGED <<now, threads>>

Respond(c) ==
  /\ task[c].pc = "respond"
  /\ task' = [task EXCEPT ![c] = [Idle EXCEPT !.pc = "ended"]]
  /\ UNCHANGED <<now, cache, line, threads>>

(* A request is cancelled where it waits: its locks are released, that of  *)
(* Twelve Data too, while its thread goes on.                              *)
Cancel(c) ==
  /\ task[c].pc \in {"queued", "fetch", "thread"}
  /\ task' = [task EXCEPT ![c] = [Idle EXCEPT !.pc = "ended"]]
  /\ line' = Leave(c)
  /\ UNCHANGED <<now, cache, threads>>

Next ==
  \/ Tick \/ StreamPut
  \/ \E c \in Clients : \/ Ask(c) \/ Enter(c) \/ FetchPlain(c) \/ FetchTwelveData(c)
                        \/ PickKey(c) \/ Request(c) \/ KeyRejected(c) \/ ThreadReturns(c)
                        \/ Refresh(c) \/ Respond(c) \/ Cancel(c)

Spec == Init /\ [][Next]_vars

-----------------------------------------------------------------------------
(* Every symbol asked for is either quoted or an error, from its own       *)
(* selection.  A symbol that was fetched is quoted as of the answer if its *)
(* own provider priced it, whatever became of the other providers; it      *)
(* falls back to a quote that is not stale at the answer, or fails, only   *)
(* if its own provider was asked and had no price for it.  One that was    *)
(* not fetched is no older than Ttl when the request came (quotes.py:74,   *)
(* :146-230, quote_provider_router.py:31-58).                              *)
AnswerSound ==
  \A c \in Clients : task[c].pc = "respond" =>
    LET t == task[c]
        quoted == {s.symbol : s \in DOMAIN t.quotes}
        Asked(s) == s \in t.pending /\ s.provider \in DOMAIN t.told
        Got(s) == Asked(s) /\ s.providerSymbol \in t.told[s.provider]
        Missed(s) == Asked(s) /\ s.providerSymbol \notin t.told[s.provider]
    IN  /\ quoted \cup DOMAIN t.errors = t.ask.symbols
        /\ quoted \cap DOMAIN t.errors = {}
        /\ \A s \in t.pending : Got(s) => s \in DOMAIN t.quotes /\ t.quotes[s].at = t.now
        /\ \A s \in DOMAIN t.quotes :
             /\ s \in {Selection(s.symbol, t.ask.provider)}
             /\ \/ Got(s)
                \/ Missed(s) /\ t.quotes[s].at >= t.now - StaleAfter
                \/ s \notin t.pending /\ t.quotes[s].at >= t.start - Ttl
        /\ \A x \in DOMAIN t.errors : t.errors[x] \in {"DATA_STALE", "PROVIDER_UNAVAILABLE"} =>
             Missed(Selection(x, t.ask.provider))

(* Requests that wait for the same refresh share it: while a provider is   *)
(* asked for a symbol the cache has no refreshed quote of it that is       *)
(* fresh (quotes.py:127-144).                                              *)
OneRefresh ==
  \A c \in Clients : task[c].pc \in {"fetch", "thread"} =>
    \A s \in task[c].pending \cap DOMAIN cache :
      cache[s].streamed \/ Age(cache[s], task[c].now) > Ttl

(* A thread asks upstream with a key that is not cooling down, unless      *)
(* another has cooled it down since the thread took it: then it goes on    *)
(* with it, over its remaining symbols, until it is itself rejected.  It   *)
(* never goes back to a key that it has seen rejected, and tries no third  *)
(* (twelvedata_market_data.py:368-406, twelvedata_keys.py:29).             *)
KeysRest ==
  \A c \in Clients : thread[c].pc = "ask" =>
    /\ cooled[thread[c].key] + Cooldown <= now \/ c \in overtaken
    /\ thread[c].key \notin thread[c].refused
    /\ \A k1, k2 \in thread[c].refused : k1 = k2
=============================================================================
