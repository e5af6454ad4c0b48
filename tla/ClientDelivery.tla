---------------------------- MODULE ClientDelivery ----------------------------
(***************************************************************************)
(* From a provider event to the WebSocket: fan-out, status and freshness   *)
(* of src/app/services/stream_manager.py, and the sender and the handler   *)
(* loop of src/app/api/routes_stream.py.                                   *)
(*                                                                         *)
(* Tasks of one event loop: the consumer of the router's queue, the        *)
(* freshness monitor, stop, and for each client a sender and a handler.    *)
(* Waiting for the manager lock is a suspension of any length up to MaxLag *)
(* ticks; who holds it meanwhile is the subject of StreamManager.  Nothing *)
(* between the grant of the lock and the last put_nowait suspends, so one  *)
(* action fans an event out to all its clients.                            *)
(***************************************************************************)
EXTENDS Integers, Sequences

CONSTANTS
  Clients,        \* WebSocket connections
  Interests,      \* quote interests
  Wants,          \* [Clients -> the interests each subscribes to]
  Capacity,       \* client_queue_capacity
  StaleAfter,     \* stale_after_seconds, in ticks
  MaxLag          \* bound: ticks a task may wait for the manager lock

ASSUME WantsAssumption == Wants \in [Clients -> (SUBSET Interests) \ {{}}]
ASSUME CapacityAssumption == Capacity \in Nat \ {0}
ASSUME TimeAssumption == StaleAfter \in Nat /\ MaxLag \in Nat

VARIABLES
  reg,       \* [Clients -> the ClientRegistration]
  clients,   \* keys of StreamManager._clients
  sender,    \* phase of the client's _send_events task
  outgoing,  \* the event a sender is sending: a sequence of at most one
  handler,   \* phase of the client's handler task
  socket,    \* "open", "left", "abandoned", or the close code sent
  shown,     \* the last status the client has received
  consumer,  \* _consume_provider: phase, event in hand and age of its `now`
  monitor,   \* _monitor_freshness: phase and age of its `now`
  stopped    \* stop has cleared the maps

clientVars == <<reg, clients, sender, outgoing, handler, socket, shown>>
vars == <<clientVars, consumer, monitor, stopped>>

States == {"CONNECTING", "SUBSCRIBED", "STALE", "RECONNECTING", "ERROR"}
Codes == {"1000", "1011", "1012", "1013"}

(* Times are ages in ticks, exact up to MaxAge: an older event is as stale *)
(* for every comparison the code makes.                                    *)
MaxAge == StaleAfter + 1 + MaxLag
Never == -1

ProviderEvents ==
  [kind : {"quote"}, interests : {{i} : i \in Interests}]
    \cup [kind : {"RECONNECTING", "ERROR"}, interests : (SUBSET Interests) \ {{}}]

Registrations ==
  [state : States, age : Never..MaxAge, queue : Seq(States \cup {"quote"}),
   closed : BOOLEAN, code : Codes]

(* Every variable has its type and no queue exceeds its capacity.          *)
TypeOK ==
  /\ reg      \in [Clients -> Registrations]
  /\ clients  \in SUBSET Clients
  /\ sender   \in [Clients -> {"none", "waiting", "sending", "done"}]
  /\ outgoing \in [Clients -> {<<>>} \cup {<<e>> : e \in States \cup {"quote"}}]
  /\ handler  \in [Clients -> {"new", "receiving", "unregistering", "gone"}]
  /\ socket   \in [Clients -> {"open", "left", "abandoned"} \cup Codes]
  /\ shown    \in [Clients -> States \cup {"none"}]
  /\ consumer \in [phase : {"idle", "locking", "cancelled"},
                   hand : {<<>>} \cup {<<e>> : e \in ProviderEvents}, lag : 0..MaxLag]
  /\ monitor  \in [phase : {"sleeping", "locking", "cancelled"}, lag : 0..MaxLag]
  /\ stopped  \in BOOLEAN
  /\ \A c \in Clients : Len(reg[c].queue) <= Capacity

NewRegistration ==
  [state |-> "CONNECTING", age |-> Never, queue |-> <<>>, closed |-> FALSE,
   code |-> "1000"]

(* No client, no event.                                                    *)
Init ==
  /\ reg = [c \in Clients |-> NewRegistration]
  /\ clients = {}
  /\ sender = [c \in Clients |-> "none"]
  /\ outgoing = [c \in Clients |-> <<>>]
  /\ handler = [c \in Clients |-> "new"]
  /\ socket = [c \in Clients |-> "open"]
  /\ shown = [c \in Clients |-> "none"]
  /\ consumer = [phase |-> "idle", hand |-> <<>>, lag |-> 0]
  /\ monitor = [phase |-> "sleeping", lag |-> 0]
  /\ stopped = FALSE

-----------------------------------------------------------------------------
(* _enqueue and the handling of one event for one registration.            *)

(* Mutant of Enqueue: one event more than the capacity is accepted.        *)
EnqueueOneMore(r, e) ==
  IF r.closed THEN r
  ELSE IF Len(r.queue) <= Capacity THEN [r EXCEPT !.queue = Append(@, e)]
  ELSE [r EXCEPT !.closed = TRUE, !.code = "1013"]

(* Mutant of Enqueue: the code is set, the close event is not.                 *)
EnqueueKeepsOpen(r, e) ==
  IF r.closed THEN r
  ELSE IF Len(r.queue) < Capacity THEN [r EXCEPT !.queue = Append(@, e)]
  ELSE [r EXCEPT !.code = "1013"]

(* A full queue closes the registration instead of blocking.               *)
Enqueue(r, e) ==
  IF r.closed THEN r
  ELSE IF Len(r.queue) < Capacity THEN [r EXCEPT !.queue = Append(@, e)]
  ELSE [r EXCEPT !.closed = TRUE, !.code = "1013"]

SetState(r, s) == Enqueue([r EXCEPT !.state = s], s)

(* Mutant of Quoted: a reconnecting client is not told that it is back.    *)
QuotedUnlessReconnecting(r, lag) ==
  LET q == Enqueue([r EXCEPT !.age = lag], "quote")
  IN IF r.state \in {"SUBSCRIBED", "RECONNECTING"}
     THEN [q EXCEPT !.state = "SUBSCRIBED"] ELSE SetState(q, "SUBSCRIBED")

(* A quote: last_event_at is the consumer's `now`, lag ticks old.          *)
Quoted(r, lag) ==
  LET q == Enqueue([r EXCEPT !.age = lag], "quote")
  IN IF r.state = "SUBSCRIBED" THEN q ELSE SetState(q, "SUBSCRIBED")

(* Mutant of Failed: the registration is closed without its reason.        *)
FailedUnreasoned(r) == [SetState(r, "ERROR") EXCEPT !.closed = TRUE]

(* An ERROR signal: the status, then the close.                            *)
Failed(r) == [SetState(r, "ERROR") EXCEPT !.code = "1011", !.closed = TRUE]

(* Mutant of Aged: only a subscribed client can become stale.              *)
AgedIfSubscribed(r, lag) ==
  IF r.age # Never /\ r.age - lag > StaleAfter /\ r.state = "SUBSCRIBED"
  THEN SetState(r, "STALE") ELSE r

(* _update_registration_state with the monitor's `now`, lag ticks old.     *)
Aged(r, lag) ==
  IF r.age # Never /\ r.age - lag > StaleAfter /\ r.state # "STALE"
  THEN SetState(r, "STALE") ELSE r

Handled(r, e, lag) ==
  CASE e.kind = "quote"        -> Quoted(r, lag)
    [] e.kind = "RECONNECTING" -> SetState(r, "RECONNECTING")
    [] e.kind = "ERROR"        -> Failed(r)

-----------------------------------------------------------------------------
(* The manager's tasks.                                                    *)

(* register's end: the client enters _clients, and CONNECTING is queued    *)
(* before anybody else runs; then the handler starts the sender.           *)
Register(c) ==
  /\ ~stopped
  /\ handler[c] = "new"
  /\ handler' = [handler EXCEPT ![c] = "receiving"]
  /\ clients' = clients \cup {c}
  /\ reg' = [reg EXCEPT ![c] = Enqueue(NewRegistration, "CONNECTING")]
  /\ sender' = [sender EXCEPT ![c] = "waiting"]
  /\ UNCHANGED <<outgoing, socket, shown, consumer, monitor, stopped>>

(* The consumer takes an event, reads the clock and asks for the lock.     *)
(* Every queue between a provider and the consumer drops what it has no    *)
(* room for, so any event may be the next one.                             *)
ConsumerTakes(e) ==
  /\ consumer.phase = "idle"
  /\ consumer' = [phase |-> "locking", hand |-> <<e>>, lag |-> 0]
  /\ UNCHANGED <<clientVars, monitor, stopped>>

(* The lock is granted: the registrations of the event's subscribers that  *)
(* are still in _clients get the event.                                    *)
FanOut ==
  /\ consumer.phase = "locking"
  /\ consumer' = [phase |-> "idle", hand |-> <<>>, lag |-> 0]
  /\ LET event == Head(consumer.hand)
     IN reg' = [c \in Clients |->
          IF c \in clients /\ Wants[c] \cap event.interests # {}
          THEN Handled(reg[c], event, consumer.lag) ELSE reg[c]]
  /\ UNCHANGED <<clients, sender, outgoing, handler, socket, shown,
                 monitor, stopped>>

(* The monitor wakes, reads the clock and asks for the lock.               *)
MonitorWakes ==
  /\ monitor.phase = "sleeping"
  /\ monitor' = [phase |-> "locking", lag |-> 0]
  /\ UNCHANGED <<clientVars, consumer, stopped>>

MonitorChecks ==
  /\ monitor.phase = "locking"
  /\ monitor' = [phase |-> "sleeping", lag |-> 0]
  /\ reg' = [c \in Clients |->
       IF c \in clients THEN Aged(reg[c], monitor.lag) ELSE reg[c]]
  /\ UNCHANGED <<clients, sender, outgoing, handler, socket, shown,
                 consumer, stopped>>

(* stop: the maps are cleared, every registration is closed with 1012, and *)
(* the consumer and the monitor are cancelled.                             *)
StopClears ==
  /\ ~stopped
  /\ stopped' = TRUE
  /\ clients' = {}
  /\ reg' = [c \in Clients |->
       IF c \in clients THEN [reg[c] EXCEPT !.code = "1012", !.closed = TRUE]
       ELSE reg[c]]
  /\ consumer' = [phase |-> "cancelled", hand |-> <<>>, lag |-> 0]
  /\ monitor' = [phase |-> "cancelled", lag |-> 0]
  /\ UNCHANGED <<sender, outgoing, handler, socket, shown>>

-----------------------------------------------------------------------------
(* The sender.                                                             *)

(* queue.get() yields the next event, and send_json begins.                *)
SenderTakes(c) ==
  /\ sender[c] = "waiting"
  /\ reg[c].queue # <<>>
  /\ sender' = [sender EXCEPT ![c] = "sending"]
  /\ outgoing' = [outgoing EXCEPT ![c] = <<Head(reg[c].queue)>>]
  /\ reg' = [reg EXCEPT ![c].queue = Tail(@)]
  /\ UNCHANGED <<clients, handler, socket, shown, consumer, monitor, stopped>>

(* send_json returns: the client has the event.                            *)
SenderSends(c) ==
  /\ sender[c] = "sending"
  /\ socket[c] = "open"
  /\ sender' = [sender EXCEPT ![c] = "waiting"]
  /\ outgoing' = [outgoing EXCEPT ![c] = <<>>]
  /\ shown' = [shown EXCEPT ![c] =
       IF outgoing[c] = <<"quote">> THEN @ ELSE Head(outgoing[c])]
  /\ UNCHANGED <<reg, clients, handler, socket, consumer, monitor, stopped>>

(* The client is gone: WebSocketDisconnect closes the registration.        *)
SenderFails(c) ==
  /\ sender[c] = "sending"
  /\ socket[c] = "left"
  /\ sender' = [sender EXCEPT ![c] = "done"]
  /\ reg' = [reg EXCEPT ![c].closed = TRUE]
  /\ UNCHANGED <<clients, outgoing, handler, socket, shown, consumer,
                 monitor, stopped>>

(* Mutant of SenderCloses: the close does not wait for the queue.          *)
SenderClosesAtOnce(c) ==
  /\ sender[c] = "waiting"
  /\ reg[c].closed
  /\ sender' = [sender EXCEPT ![c] = "done"]
  /\ socket' = [socket EXCEPT ![c] = IF @ = "open" THEN reg[c].code ELSE @]
  /\ UNCHANGED <<reg, clients, outgoing, handler, shown, consumer,
                 monitor, stopped>>

(* Closed and drained: the close frame carries the registration's code.    *)
SenderCloses(c) ==
  /\ sender[c] = "waiting"
  /\ reg[c].closed
  /\ reg[c].queue = <<>>
  /\ sender' = [sender EXCEPT ![c] = "done"]
  /\ socket' = [socket EXCEPT ![c] = IF @ = "open" THEN reg[c].code ELSE @]
  /\ UNCHANGED <<reg, clients, outgoing, handler, shown, consumer,
                 monitor, stopped>>

-----------------------------------------------------------------------------
(* The handler and its client.                                             *)

(* The client leaves, or the network does.                                 *)
Leave(c) ==
  /\ handler[c] # "new"
  /\ socket[c] = "open"
  /\ socket' = [socket EXCEPT ![c] = "left"]
  /\ UNCHANGED <<reg, clients, sender, outgoing, handler, shown, consumer,
                 monitor, stopped>>

(* receive_text returns a text of the client, which ends the loop if the   *)
(* registration is closed and changes nothing otherwise.                   *)
ReceiveText(c) ==
  /\ handler[c] = "receiving"
  /\ socket[c] = "open"
  /\ reg[c].closed
  /\ handler' = [handler EXCEPT ![c] = "unregistering"]
  /\ UNCHANGED <<reg, clients, sender, outgoing, socket, shown, consumer,
                 monitor, stopped>>

(* receive_text raises WebSocketDisconnect.                                *)
ReceiveDisconnect(c) ==
  /\ handler[c] = "receiving"
  /\ socket[c] # "open"
  /\ handler' = [handler EXCEPT ![c] = "unregistering"]
  /\ UNCHANGED <<reg, clients, sender, outgoing, socket, shown, consumer,
                 monitor, stopped>>

(* The handler's finally: unregister closes a registration it still finds, *)
(* and the sender is cancelled before any other task runs.  A socket that  *)
(* nobody has closed ends without the registration's code.  What is left   *)
(* in the queue goes with the registration.                                *)
Unregister(c) ==
  /\ handler[c] = "unregistering"
  /\ handler' = [handler EXCEPT ![c] = "gone"]
  /\ clients' = clients \ {c}
  /\ reg' = [reg EXCEPT ![c].closed = @ \/ c \in clients, ![c].queue = <<>>]
  /\ sender' = [sender EXCEPT ![c] = "done"]
  /\ socket' = [socket EXCEPT ![c] = IF @ = "open" THEN "abandoned" ELSE @]
  /\ outgoing' = [outgoing EXCEPT ![c] = <<>>]
  /\ UNCHANGED <<shown, consumer, monitor, stopped>>

-----------------------------------------------------------------------------
Older(age) == IF age = Never \/ age = MaxAge THEN age ELSE age + 1

(* Time passes, unless a task has waited MaxLag ticks for the lock.  The   *)
(* monitor reads the age of a registration only while it is in _clients.   *)
Tick ==
  /\ consumer.phase = "locking" => consumer.lag < MaxLag
  /\ monitor.phase = "locking" => monitor.lag < MaxLag
  /\ reg' = [c \in Clients |->
       IF c \in clients THEN [reg[c] EXCEPT !.age = Older(@)] ELSE reg[c]]
  /\ consumer' = [consumer EXCEPT !.lag = IF consumer.hand # <<>> THEN @ + 1 ELSE @]
  /\ monitor' = [monitor EXCEPT !.lag = IF monitor.phase = "locking" THEN @ + 1 ELSE @]
  /\ UNCHANGED <<clients, sender, outgoing, handler, socket, shown, stopped>>

SenderStep(c) ==
  \/ SenderTakes(c)
  \/ SenderSends(c)
  \/ SenderFails(c)
  \/ SenderCloses(c)

HandlerStep(c) ==
  \/ ReceiveDisconnect(c)
  \/ Unregister(c)

Next ==
  \/ \E c \in Clients : Register(c) \/ Leave(c) \/ ReceiveText(c)
  \/ \E c \in Clients : SenderStep(c)
  \/ \E c \in Clients : HandlerStep(c)
  \/ \E e \in ProviderEvents : ConsumerTakes(e)
  \/ FanOut
  \/ MonitorWakes
  \/ MonitorChecks
  \/ StopClears
  \/ Tick

Spec == Init /\ [][Next]_vars

(* The event loop runs every ready task, the lock is granted within MaxLag *)
(* ticks, time passes, and a client that has not left keeps reading.       *)
(* Nothing makes a provider emit, or a client connect, write or leave.     *)
Fairness ==
  /\ \A c \in Clients : WF_vars(SenderStep(c)) /\ WF_vars(HandlerStep(c))
  /\ WF_vars(FanOut)
  /\ WF_vars(MonitorWakes) /\ WF_vars(MonitorChecks)
  /\ WF_vars(Tick)

FairSpec == Spec /\ Fairness

-----------------------------------------------------------------------------
(* Safety.                                                                 *)

(* The events accepted for a client that it has not received yet.          *)
Pipe(c) == outgoing[c] \o reg[c].queue

(* What a client has been told, or will have been when its queue is        *)
(* drained.  The last status of a sequence is what only quotes follow.     *)
Told(c) == (<<shown[c]>> \o outgoing[c]) \o reg[c].queue
LastStatus(w, s) ==
  \E k \in 1..Len(w) :
    /\ w[k] = s
    /\ \A j \in 1..Len(w) : j > k => w[j] = "quote"

(* The registration's state is never a secret: an open client has been     *)
(* told it, or finds it as the last status still in its queue.  Quotes,    *)
(* signals and the monitor change the state; a full queue loses the news,  *)
(* and must then have closed the registration.                             *)
StateIsTold ==
  \A c \in clients : ~reg[c].closed => LastStatus(Told(c), reg[c].state)

(* The gateway never ends a stream with the default code 1000: every close *)
(* frame carries a reason.  unregister and a failing sender set `closed`   *)
(* and leave the code alone, so this rests on when they can run.           *)
CloseHasReason == \A c \in Clients : socket[c] # "1000"

-----------------------------------------------------------------------------
(* The inductive invariant behind the two, and behind the refinement.      *)

(* The phases of handler, sender and registration of one connection agree. *)
Lifecycle ==
  /\ \A c \in clients : handler[c] \in {"receiving", "unregistering"}
  /\ \A c \in Clients :
       /\ sender[c] = "none" <=> handler[c] = "new"
       /\ sender[c] = "none" => shown[c] = "none" /\ outgoing[c] = <<>>
       /\ sender[c] = "waiting" => outgoing[c] = <<>>
       /\ sender[c] = "sending" => outgoing[c] # <<>>
       /\ sender[c] = "done" => reg[c].closed
       /\ handler[c] = "gone" => sender[c] = "done"
       /\ handler[c] \in {"receiving", "unregistering"} =>
            c \in clients \/ reg[c].closed
  /\ consumer.phase = "locking" <=> consumer.hand # <<>>

(* A closed registration without a reason has no sender that could use it. *)
ReasonBeforeClose ==
  \A c \in Clients :
    sender[c] # "done" /\ reg[c].closed => reg[c].code # "1000"

(* A close frame is the last thing sent: nothing was left to send, and a   *)
(* closed registration accepts nothing more.                               *)
NothingAfterClose ==
  \A c \in Clients :
    socket[c] \in Codes => sender[c] = "done" /\ outgoing[c] = <<>> /\ reg[c].queue = <<>>

DeliveryInv ==
  /\ TypeOK
  /\ Lifecycle
  /\ ReasonBeforeClose
  /\ NothingAfterClose
  /\ CloseHasReason
  /\ StateIsTold

-----------------------------------------------------------------------------
(* Refinement.                                                             *)

(* The stream of each client, as its client sees it, is a ClientStream.    *)
Phase(c) ==
  IF sender[c] = "none" THEN "none"
  ELSE IF sender[c] # "done" THEN (IF reg[c].closed THEN "ending" ELSE "open")
  ELSE IF socket[c] \in Codes THEN "closed" ELSE "broken"

Stream == INSTANCE ClientStream WITH
  Events <- States \cup {"quote"},
  pipe   <- [c \in Clients |-> IF Phase(c) = "broken" THEN <<>> ELSE Pipe(c)],
  phase  <- [c \in Clients |-> Phase(c)]

ImplementsStream == Stream!Spec

-----------------------------------------------------------------------------
(* Liveness, under FairSpec.                                               *)

(* The last event is older than StaleAfter, even by a clock that was read  *)
(* before the wait for the lock.                                           *)
Silent(c) == reg[c].age > StaleAfter + MaxLag

(* A client of a silent stream is told so, whatever state it was in,       *)
(* unless an event arrives or its stream ends first.                       *)
SilenceIsTold ==
  \A c \in Clients :
    (c \in clients /\ Silent(c)) ~> (shown[c] = "STALE" \/ ~Silent(c) \/ reg[c].closed)

(* A stream that the gateway has decided to end does end: the code given   *)
(* for it (overload, provider error, restart) is followed by the close and *)
(* by the return of the handler.                                           *)
DecidedMeansClosed ==
  \A c \in Clients :
    reg[c].code # "1000" ~> (socket[c] # "open" /\ handler[c] = "gone")

-----------------------------------------------------------------------------
(* What the documents say and the code does not do.                        *)

(* docs/system-design.md: an overloaded client is closed with 1013.        *)
OverloadedGets1013 ==
  [][\A c \in Clients :
       reg[c].code = "1013" =>
         /\ reg'[c].code = "1013"
         /\ socket'[c] \in {"open", "left", "1013"}]_vars
=============================================================================
