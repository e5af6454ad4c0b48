--------------------------- MODULE YFinanceStream ---------------------------
(***************************************************************************)
(* The YFinance stream provider,                                           *)
(* src/app/providers/yfinance_market_data_stream.py: subscriptions, the    *)
(* listener task with its reconnects, and close.                           *)
(*                                                                         *)
(* The router calls one operation of a provider at a time and holds its    *)
(* own lock until the operation returns, so all callers are one task.  It  *)
(* meets the listener at the provider's lock.  The lock is a holder and    *)
(* whoever waits may be next; that it is FIFO is used as fairness only.    *)
(*                                                                         *)
(* A provider symbol belongs to one interest (the database has a unique    *)
(* constraint), so a reference count is 0 or 1 and refs is a set.          *)
(* Not modelled: the cancellation of a caller.                             *)
(***************************************************************************)
EXTENDS FiniteSets

CONSTANTS
  Interests,    \* the interests of this provider, one per provider symbol
  Listeners,    \* names for listener tasks
  Clients,      \* names for AsyncWebSocket objects
  Caller,       \* the task that calls subscribe_quote, unsubscribe, close
  None

ASSUME NamesAssumption ==
  /\ Caller \notin Listeners
  /\ None \notin Interests \cup Listeners \cup Clients \cup {Caller}

VARIABLES
  caller,     \* phase of the calling task
  arg,        \* the interest it was called with
  victim,     \* the listener task it has detached and cancels
  interests,  \* _quote_interests
  refs,       \* keys of _provider_symbol_refs and _symbols_by_provider_symbol
  client,     \* _client
  listener,   \* _listener_task
  closing,    \* _closing
  holder,     \* the task that holds _lock
  phase,      \* [Listeners -> phase of _supervise_listener], "none": not running
  cancelled,  \* listener tasks whose CancelledError is not delivered yet
  mine,       \* [tasks -> the local variable client, candidate or client_to_close]
  open,       \* clients created and not closed
  subs        \* [Clients -> the interests each is subscribed to]

callerVars == <<caller, arg, victim>>
bookVars   == <<interests, refs, closing>>
taskVars   == <<phase, cancelled>>
linkVars   == <<open, subs>>
vars == <<callerVars, bookVars, client, listener, holder, taskVars, mine, linkVars>>

Tasks == Listeners \cup {Caller}

CallerPhases ==
  {"idle", "subscribing", "connecting", "adding", "discarding", "unsubscribing",
   "removing", "closing", "cancelling", "closingClient", "closed"}
ListenerPhases ==
  {"none", "starting", "listening", "lost", "closing", "sleeping",
   "reconnecting", "connecting"}

(* The type of every variable.                                             *)
TypeOK ==
  /\ caller    \in CallerPhases
  /\ arg       \in Interests \cup {None}
  /\ victim    \in Listeners \cup {None}
  /\ interests \in SUBSET Interests
  /\ refs      \in SUBSET Interests
  /\ client    \in Clients \cup {None}
  /\ listener  \in Listeners \cup {None}
  /\ closing   \in BOOLEAN
  /\ holder    \in Tasks \cup {None}
  /\ phase     \in [Listeners -> ListenerPhases]
  /\ cancelled \in SUBSET Listeners
  /\ mine      \in [Tasks -> Clients \cup {None}]
  /\ open      \in SUBSET Clients
  /\ subs      \in [Clients -> SUBSET Interests]

(* Lazy: no client and no task before the first subscription.              *)
Init ==
  /\ caller = "idle" /\ arg = None /\ victim = None
  /\ interests = {} /\ refs = {} /\ closing = FALSE
  /\ client = None /\ listener = None /\ holder = None
  /\ phase = [l \in Listeners |-> "none"]
  /\ cancelled = {}
  /\ mine = [t \in Tasks |-> None]
  /\ open = {}
  /\ subs = [k \in Clients |-> {}]

-----------------------------------------------------------------------------
CallerMoves(from, to) == caller = from /\ caller' = to
ListenerMoves(l, from, to) ==
  /\ l \notin cancelled
  /\ phase[l] = from
  /\ phase' = [phase EXCEPT ![l] = to]

(* A client name that nobody uses.                                         *)
Fresh(k) == k \notin open /\ k # client /\ \A t \in Tasks : mine[t] # k

(* The factory: a new client in a task's local variable.                   *)
Create(t, k) ==
  /\ Fresh(k)
  /\ open' = open \cup {k}
  /\ subs' = [subs EXCEPT ![k] = {}]
  /\ mine' = [mine EXCEPT ![t] = k]

(* _close_client, which logs a failure: the task is rid of its client.     *)
CloseMine(t) ==
  /\ open' = open \ {mine[t]}
  /\ mine' = [mine EXCEPT ![t] = None]

(* _rollback_provider_symbol.                                              *)
Rollback == refs' = refs \ {arg}

(* Mutant of EnsureListener: a running task is not noticed.                *)
EnsureListenerAlways ==
  \E l \in Listeners :
    /\ phase[l] = "none"
    /\ listener' = l
    /\ phase' = [phase EXCEPT ![l] = "starting"]

(* _ensure_listener.                                                       *)
EnsureListener ==
  IF listener # None /\ phase[listener] # "none"
  THEN UNCHANGED <<listener, phase>>
  ELSE \E l \in Listeners :
         /\ phase[l] = "none"
         /\ listener' = l
         /\ phase' = [phase EXCEPT ![l] = "starting"]

-----------------------------------------------------------------------------
(* subscribe_quote.                                                        *)

Subscribe(i) ==
  /\ CallerMoves("idle", "subscribing")
  /\ arg' = i
  /\ UNCHANGED <<victim, bookVars, client, listener, holder, taskVars, mine, linkVars>>

(* The lock is granted; an interest that is known returns at once.         *)
SubscribeAgain ==
  /\ holder = None
  /\ arg \in interests
  /\ CallerMoves("subscribing", "idle")
  /\ UNCHANGED <<arg, victim, bookVars, client, listener, holder, taskVars, mine,
                 linkVars>>

(* _add_provider_symbol counts the symbol before it awaits the network:    *)
(* a candidate for all counted symbols if there is no client, else the     *)
(* client for this one.                                                    *)
SubscribeCounts ==
  /\ holder = None
  /\ arg \notin interests
  /\ refs' = refs \cup {arg}
  /\ holder' = Caller
  /\ \/ /\ client = None
        /\ CallerMoves("subscribing", "connecting")
        /\ \E k \in Clients : Create(Caller, k)
     \/ /\ client # None
        /\ CallerMoves("subscribing", "adding")
        /\ UNCHANGED <<mine, linkVars>>
  /\ UNCHANGED <<arg, victim, interests, closing, client, listener, taskVars>>

(* Mutant of ConnectDone: the candidate subscribes to its symbol only.     *)
ConnectDoneForOne ==
  /\ CallerMoves("connecting", "idle")
  /\ client' = mine[Caller]
  /\ subs' = [subs EXCEPT ![mine[Caller]] = {arg}]
  /\ mine' = [mine EXCEPT ![Caller] = None]
  /\ interests' = interests \cup {arg}
  /\ EnsureListener
  /\ holder' = None
  /\ UNCHANGED <<arg, victim, refs, closing, cancelled, open>>

(* The candidate has subscribed: it becomes _client, and there is no       *)
(* suspension to the end of subscribe_quote.                               *)
ConnectDone ==
  /\ CallerMoves("connecting", "idle")
  /\ client' = mine[Caller]
  /\ subs' = [subs EXCEPT ![mine[Caller]] = refs]
  /\ mine' = [mine EXCEPT ![Caller] = None]
  /\ interests' = interests \cup {arg}
  /\ EnsureListener
  /\ holder' = None
  /\ UNCHANGED <<arg, victim, refs, closing, cancelled, open>>

(* It has not: the symbol is rolled back and the candidate closed, with    *)
(* the lock still held.                                                    *)
ConnectFails ==
  /\ CallerMoves("connecting", "discarding")
  /\ Rollback
  /\ UNCHANGED <<arg, victim, interests, closing, client, listener, holder,
                 taskVars, mine, linkVars>>

Discarded ==
  /\ CallerMoves("discarding", "idle")
  /\ CloseMine(Caller)
  /\ holder' = None
  /\ UNCHANGED <<arg, victim, bookVars, client, listener, taskVars, subs>>

AddDone ==
  /\ CallerMoves("adding", "idle")
  /\ subs' = [subs EXCEPT ![client] = @ \cup {arg}]
  /\ interests' = interests \cup {arg}
  /\ EnsureListener
  /\ holder' = None
  /\ UNCHANGED <<arg, victim, refs, closing, client, cancelled, mine, open>>

(* Mutant of AddFails: the count is not rolled back.                       *)
AddFailsCounted ==
  /\ CallerMoves("adding", "idle")
  /\ holder' = None
  /\ \E sent \in {{}, {arg}} : subs' = [subs EXCEPT ![client] = @ \cup sent]
  /\ UNCHANGED <<arg, victim, bookVars, client, listener, taskVars, mine, open>>

(* The request may have reached the provider all the same.                 *)
AddFails ==
  /\ CallerMoves("adding", "idle")
  /\ Rollback
  /\ holder' = None
  /\ \E sent \in {{}, {arg}} : subs' = [subs EXCEPT ![client] = @ \cup sent]
  /\ UNCHANGED <<arg, victim, interests, closing, client, listener, taskVars, mine,
                 open>>

-----------------------------------------------------------------------------
(* unsubscribe and close.                                                  *)

Unsubscribe(i) ==
  /\ CallerMoves("idle", "unsubscribing")
  /\ arg' = i
  /\ UNCHANGED <<victim, bookVars, client, listener, holder, taskVars, mine, linkVars>>

UnsubscribeUnknown ==
  /\ holder = None
  /\ arg \notin interests
  /\ CallerMoves("unsubscribing", "idle")
  /\ UNCHANGED <<arg, victim, bookVars, client, listener, holder, taskVars, mine,
                 linkVars>>

(* _detach_resources, the release of the lock and task.cancel().           *)
Detach ==
  /\ victim' = listener
  /\ cancelled' = cancelled \cup {l \in Listeners : l = listener /\ phase[l] # "none"}
  /\ mine' = [mine EXCEPT ![Caller] = client]
  /\ listener' = None
  /\ client' = None
  /\ holder' = None

(* The interest and its count go before the network is awaited; without a  *)
(* client there is nothing to await.                                       *)
UnsubscribeCounts ==
  /\ holder = None
  /\ arg \in interests
  /\ interests' = interests \ {arg}
  /\ refs' = refs \ {arg}
  /\ \/ /\ client # None
        /\ CallerMoves("unsubscribing", "removing")
        /\ holder' = Caller
        /\ UNCHANGED <<victim, cancelled, mine, listener, client>>
     \/ /\ client = None /\ refs' # {}
        /\ CallerMoves("unsubscribing", "idle")
        /\ UNCHANGED <<victim, cancelled, mine, listener, client, holder>>
     \/ /\ client = None /\ refs' = {}
        /\ CallerMoves("unsubscribing", "cancelling")
        /\ Detach
  /\ UNCHANGED <<arg, closing, phase, linkVars>>

(* client.unsubscribe returns, or raises and is logged.                    *)
Removed ==
  /\ caller = "removing"
  /\ \E kept \in {{}, {arg}} : subs' = [subs EXCEPT ![client] = (@ \ {arg}) \cup kept]
  /\ \/ /\ refs # {}
        /\ CallerMoves("removing", "idle")
        /\ holder' = None
        /\ UNCHANGED <<victim, cancelled, mine, listener, client>>
     \/ /\ refs = {}
        /\ CallerMoves("removing", "cancelling")
        /\ Detach
  /\ UNCHANGED <<arg, bookVars, phase, open>>

Close ==
  /\ CallerMoves("idle", "closing")
  /\ UNCHANGED <<arg, victim, bookVars, client, listener, holder, taskVars, mine,
                 linkVars>>

CloseDetaches ==
  /\ holder = None
  /\ CallerMoves("closing", "cancelling")
  /\ closing' = TRUE
  /\ interests' = {}
  /\ refs' = {}
  /\ Detach
  /\ UNCHANGED <<arg, phase, linkVars>>

(* Mutant of Cancelled: the cancelled task is not awaited.                 *)
CancelledUnawaited ==
  /\ CallerMoves("cancelling", "closingClient")
  /\ victim' = None
  /\ UNCHANGED <<arg, bookVars, client, listener, holder, taskVars, mine, linkVars>>

(* gather() has seen the cancelled listener end.                           *)
Cancelled ==
  /\ CallerMoves("cancelling", "closingClient")
  /\ victim # None => phase[victim] = "none"
  /\ victim' = None
  /\ UNCHANGED <<arg, bookVars, client, listener, holder, taskVars, mine, linkVars>>

(* The detached client, if any, is closed.  The router calls nothing after *)
(* close.                                                                  *)
CallerDone ==
  /\ CallerMoves("closingClient", IF closing THEN "closed" ELSE "idle")
  /\ CloseMine(Caller)
  /\ UNCHANGED <<arg, victim, bookVars, client, listener, holder, taskVars, subs>>

-----------------------------------------------------------------------------
(* _supervise_listener and _reconnect.  A task that is cancelled does      *)
(* nothing more, except where CancelDelivered says so.                     *)

Idle == closing \/ refs = {}

(* The top of the loop: end, listen to the client, or make one.            *)
ListenerStarts(l) ==
  /\ holder = None
  /\ mine' = [mine EXCEPT ![l] = IF Idle THEN None ELSE client]
  /\ ListenerMoves(l, "starting",
       IF Idle THEN "none" ELSE IF client = None THEN "reconnecting" ELSE "listening")
  /\ UNCHANGED <<callerVars, bookVars, client, listener, holder, cancelled, linkVars>>

(* client.listen returns or raises.                                        *)
ConnectionLost(l) ==
  /\ ListenerMoves(l, "listening", "lost")
  /\ UNCHANGED <<callerVars, bookVars, client, listener, holder, cancelled, mine,
                 linkVars>>

(* The client is given up, unless all is over; RECONNECTING is queued.     *)
ListenerGivesUp(l) ==
  /\ holder = None
  /\ \/ /\ Idle
        /\ ListenerMoves(l, "lost", "none")
        /\ mine' = [mine EXCEPT ![l] = None]
        /\ UNCHANGED client
     \/ /\ ~Idle
        /\ ListenerMoves(l, "lost", "closing")
        /\ client' = IF client = mine[l] THEN None ELSE client
        /\ UNCHANGED mine
  /\ UNCHANGED <<callerVars, bookVars, listener, holder, cancelled, linkVars>>

ListenerClosed(l) ==
  /\ ListenerMoves(l, "closing", "sleeping")
  /\ CloseMine(l)
  /\ UNCHANGED <<callerVars, bookVars, client, listener, holder, cancelled, subs>>

(* The reconnect delay is over.                                            *)
ListenerWakes(l) ==
  /\ ListenerMoves(l, "sleeping", "reconnecting")
  /\ UNCHANGED <<callerVars, bookVars, client, listener, holder, cancelled, mine,
                 linkVars>>

(* Mutant of ReconnectChecks: a client made meanwhile is not noticed.      *)
ReconnectRegardless(l) ==
  /\ holder = None
  /\ \/ /\ Idle
        /\ ListenerMoves(l, "reconnecting", "none")
        /\ UNCHANGED <<mine, linkVars, holder>>
     \/ /\ ~Idle
        /\ ListenerMoves(l, "reconnecting", "connecting")
        /\ \E k \in Clients : Create(l, k)
        /\ holder' = l
  /\ UNCHANGED <<callerVars, bookVars, client, listener, cancelled>>

(* Mutant of ReconnectChecks: a client made meanwhile ends the listener.   *)
ReconnectReturnsFalse(l) ==
  /\ holder = None
  /\ \/ /\ Idle \/ client # None
        /\ ListenerMoves(l, "reconnecting", "none")
        /\ UNCHANGED <<mine, linkVars, holder>>
     \/ /\ ~Idle /\ client = None
        /\ ListenerMoves(l, "reconnecting", "connecting")
        /\ \E k \in Clients : Create(l, k)
        /\ holder' = l
  /\ UNCHANGED <<callerVars, bookVars, client, listener, cancelled>>

(* One turn of _reconnect: end, go back to the client that a subscription  *)
(* has made meanwhile, or make one with the lock held.                     *)
ReconnectChecks(l) ==
  /\ holder = None
  /\ \/ /\ Idle
        /\ ListenerMoves(l, "reconnecting", "none")
        /\ UNCHANGED <<mine, linkVars, holder>>
     \/ /\ ~Idle /\ client # None
        /\ ListenerMoves(l, "reconnecting", "starting")
        /\ UNCHANGED <<mine, linkVars, holder>>
     \/ /\ ~Idle /\ client = None
        /\ ListenerMoves(l, "reconnecting", "connecting")
        /\ \E k \in Clients : Create(l, k)
        /\ holder' = l
  /\ UNCHANGED <<callerVars, bookVars, client, listener, cancelled>>

ReconnectDone(l) ==
  /\ ListenerMoves(l, "connecting", "starting")
  /\ client' = mine[l]
  /\ subs' = [subs EXCEPT ![mine[l]] = refs]
  /\ mine' = [mine EXCEPT ![l] = None]
  /\ holder' = None
  /\ UNCHANGED <<callerVars, bookVars, listener, cancelled, open>>

(* Mutant of ReconnectFails: the retry never releases the lock.            *)
ReconnectFailsLocked(l) ==
  /\ ListenerMoves(l, "connecting", "closing")
  /\ UNCHANGED <<callerVars, bookVars, client, listener, holder, cancelled, mine, linkVars>>

(* Mutant of ReconnectFails: no second attempt.                            *)
ReconnectGivesUp(l) ==
  /\ ListenerMoves(l, "connecting", "none")
  /\ CloseMine(l)
  /\ holder' = None
  /\ UNCHANGED <<callerVars, bookVars, client, listener, cancelled, subs>>

(* The lock is released; the client is closed and the delay slept again.   *)
ReconnectFails(l) ==
  /\ ListenerMoves(l, "connecting", "closing")
  /\ holder' = None
  /\ UNCHANGED <<callerVars, bookVars, client, listener, cancelled, mine, linkVars>>

(* CancelledError ends the task wherever it waits; a close() that it       *)
(* interrupts counts as done.                                              *)
CancelDelivered(l) ==
  /\ l \in cancelled
  /\ cancelled' = cancelled \ {l}
  /\ phase' = [phase EXCEPT ![l] = "none"]
  /\ mine' = [mine EXCEPT ![l] = None]
  /\ open' = IF phase[l] = "closing" THEN open \ {mine[l]} ELSE open
  /\ UNCHANGED <<callerVars, bookVars, client, listener, holder, subs>>

(* A library's listen() may also swallow the CancelledError and return.    *)
CancelSwallowed(l) ==
  /\ l \in cancelled
  /\ phase[l] = "listening"
  /\ cancelled' = cancelled \ {l}
  /\ phase' = [phase EXCEPT ![l] = "lost"]
  /\ UNCHANGED <<callerVars, bookVars, client, listener, holder, mine, linkVars>>

-----------------------------------------------------------------------------
Called ==
  \/ \E i \in Interests : Subscribe(i) \/ Unsubscribe(i)
  \/ Close

(* The steps that need the lock first.                                     *)
CallerLocks ==
  \/ SubscribeAgain
  \/ SubscribeCounts
  \/ UnsubscribeUnknown
  \/ UnsubscribeCounts
  \/ CloseDetaches
ListenerLocks(l) ==
  \/ ListenerStarts(l)
  \/ ListenerGivesUp(l)
  \/ ReconnectChecks(l)

CallerStep ==
  \/ ConnectDone \/ ConnectFails \/ Discarded
  \/ AddDone \/ AddFails
  \/ Removed
  \/ Cancelled \/ CallerDone
ListenerStep(l) ==
  \/ ListenerClosed(l)
  \/ ListenerWakes(l)
  \/ ReconnectDone(l)
  \/ ReconnectFails(l)
  \/ CancelDelivered(l)
  \/ CancelSwallowed(l)

(* After close the provider rests.                                         *)
Rests ==
  /\ caller = "closed"
  /\ UNCHANGED vars

Next ==
  \/ Called
  \/ CallerLocks
  \/ CallerStep
  \/ \E l \in Listeners : ListenerLocks(l) \/ ListenerStep(l) \/ ConnectionLost(l)
  \/ Rests

Spec == Init /\ [][Next]_vars

(* Ready tasks run and network calls end; the lock is FIFO, so a task that *)
(* waits gets it; attempts to connect that go on for ever do not all fail. *)
(* Nothing makes the router call, or a connection break.                   *)
Fairness ==
  /\ WF_vars(CallerStep)
  /\ SF_vars(CallerLocks)
  /\ \A l \in Listeners :
       /\ WF_vars(ListenerStep(l))
       /\ SF_vars(ListenerLocks(l))
       /\ SF_vars(ReconnectDone(l))

FairSpec == Spec /\ Fairness

-----------------------------------------------------------------------------
(* Safety.                                                                 *)

(* Whatever the client is - the first, one made by a reconnect, or one     *)
(* made by a subscription during the back-off - it is open and subscribed  *)
(* to every interest the provider has accepted.                            *)
Carried == client # None => client \in open /\ interests \subseteq subs[client]

Running == {l \in Listeners : phase[l] # "none"}

(* No two listener tasks run: a detached one has ended before the next is  *)
(* made, even if the library swallows its cancellation.                    *)
OneListener == \A l, m \in Running : l = m

(* While the provider has interests the current listener is alive and not  *)
(* about to end.                                                           *)
Supervised ==
  interests # {} =>
    /\ listener # None
    /\ phase[listener] # "none"
    /\ listener \notin cancelled

(* Every open client is the current one, or in the hands of a task that is *)
(* going to install or close it.                                           *)
NothingLeaks ==
  \A k \in open :
    \/ k = client
    \/ mine[Caller] = k /\ caller \in
         {"connecting", "discarding", "cancelling", "closingClient"}
    \/ \E l \in Listeners :
         mine[l] = k /\ phase[l] \in {"connecting", "closing"}

(* When close returns nothing is open and nothing runs.                    *)
ClosedIsFinal ==
  caller = "closed" => open = {} /\ Running = {} /\ client = None /\ interests = {}

-----------------------------------------------------------------------------
(* The inductive invariant behind the safety properties.                   *)

(* What is counted is what is accepted, but for the one symbol that is     *)
(* being added.                                                            *)
BooksAgree ==
  /\ IF caller \in {"connecting", "adding"}
     THEN arg \in Interests \ interests /\ refs = interests \cup {arg}
     ELSE refs = interests
  /\ caller = "removing" => arg \in Interests \ interests
  /\ closing => caller \in {"cancelling", "closingClient", "closed"}
  /\ caller = "closed" => closing
  /\ caller \in {"subscribing", "unsubscribing"} => arg \in Interests

(* Who holds the lock, and what it protects meanwhile.                     *)
LockHeld ==
  /\ holder = Caller <=> caller \in {"connecting", "adding", "discarding", "removing"}
  /\ \A l \in Listeners :
       /\ holder = l <=> phase[l] = "connecting"
       /\ holder = l => client = None
  /\ caller \in {"connecting", "discarding"} => client = None
  /\ caller \in {"adding", "removing"} => client # None

(* The running listener is the current one, or the one that the caller has *)
(* detached and waits for.                                                 *)
Roles ==
  /\ \A l \in Running : l = listener \/ l = victim
  /\ listener # None =>
       /\ listener \in Running \ cancelled
       /\ interests # {} \/ caller = "removing"
  /\ interests # {} \/ client # None => listener # None
  /\ victim # None => caller = "cancelling"
  /\ caller \in {"cancelling", "closingClient", "closed"} =>
       interests = {} /\ client = None
  /\ cancelled \subseteq Running
  /\ \A l \in Running \ cancelled : l = victim => phase[l] = "lost"
  /\ \A l \in cancelled : l = victim /\ phase[l] # "connecting"

(* Whose hands a client is in.                                             *)
Hands ==
  /\ caller \in {"connecting", "discarding"} => mine[Caller] \in open
  /\ caller \in {"connecting", "discarding", "cancelling", "closingClient"}
       \/ mine[Caller] = None
  /\ \A l \in Listeners :
       /\ phase[l] \in {"connecting", "closing"} =>
            mine[l] \in open /\ mine[l] # client /\ mine[l] # mine[Caller]
       /\ phase[l] \in {"listening", "lost"} /\ l = listener =>
            mine[l] = client /\ client # None

FeedInv ==
  /\ TypeOK
  /\ BooksAgree
  /\ LockHeld
  /\ Roles
  /\ Hands
  /\ Carried
  /\ NothingLeaks
  /\ ClosedIsFinal

-----------------------------------------------------------------------------
(* Liveness, under FairSpec.                                               *)

(* A provider that has interests and no client gets one.                   *)
Reconnects ==
  (interests # {} /\ client = None) ~> (client # None \/ interests = {})

(* Every call returns, in whatever state it finds the listener.            *)
CallReturns == caller \notin {"idle", "closed"} ~> caller \in {"idle", "closed"}
=============================================================================
