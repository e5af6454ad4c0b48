-------------------------- MODULE TwelveDataStream --------------------------
(***************************************************************************)
(* TwelveDataMarketDataStreamProvider                                      *)
(* (src/app/providers/twelvedata_market_data_stream.py) and the sockets it *)
(* has upstream.  The calls of the SDK run in threads: an operation that   *)
(* is cancelled lets go of the provider's lock, and its thread goes on.  A *)
(* socket that is lost upstream stays the provider's: nothing looks for it.*)
(***************************************************************************)
EXTENDS Naturals

CONSTANTS
  Symbols,      \* provider symbols, each of one canonical symbol
  MaxSockets,   \* bound: sockets ever made
  Capacity      \* PROVIDER_EVENT_QUEUE_CAPACITY

VARIABLES
  td,        \* the provider, with the operation that holds its lock
  sockets,   \* upstream: [open sockets -> symbols they are subscribed to]
  orphans,   \* calls in threads whose operation has been cancelled
  lost,      \* history: sockets lost upstream while they were the provider's
  tainted,   \* history: symbols of which a call was cancelled
  leaked     \* history: the start or the end of a connection was cancelled, or its end failed

tdVars == <<td, sockets, orphans, lost, tainted, leaked>>

None == 0

(* at: the call the operation waits for, on a socket, or "done".           *)
Free == [kind |-> "free", symbol |-> None, at |-> "free", ws |-> None, ok |-> TRUE]

TDInit ==
  /\ td = [op |-> Free, made |-> 0, ws |-> None, connected |-> FALSE, heartbeat |-> None,
           refs |-> [s \in Symbols |-> 0], known |-> {}, interests |-> {}, queued |-> 0]
  /\ sockets = [ws \in {} |-> {}] /\ orphans = {} /\ lost = {} /\ tainted = {} /\ leaked = FALSE

Operation(kind, s) == [Free EXCEPT !.kind = kind, !.symbol = s]
Await(t, call) == [t EXCEPT !.op.at = call, !.op.ws = t.ws]
Return(t, ok) == [t EXCEPT !.op.at = "done", !.op.ok = ok]

-----------------------------------------------------------------------------
(* _subscribe_provider_symbol: the reference is counted before the call.   *)
Referred(t, s) == [t EXCEPT !.refs[s] = @ + 1, !.known = @ \cup {s}]

(* subscribe_quote, once connected.                                        *)
Subscribing(t, s) ==
  IF s \in t.interests THEN Return(t, TRUE)
  ELSE IF t.refs[s] > 0 THEN Return([Referred(t, s) EXCEPT !.interests = @ \cup {s}], TRUE)
  ELSE Await(Referred(t, s), "subscribe")

(* Mutant of Forget: the socket is forgotten and stays open.               *)
Abandon(t) == Return([t EXCEPT !.ws = None, !.connected = FALSE], TRUE)

(* _disconnect: the socket is forgotten, then closed.                      *)
Forget(t) ==
  LET u == [t EXCEPT !.ws = None, !.connected = FALSE]
  IN  IF t.ws = None THEN Return(u, TRUE) ELSE [u EXCEPT !.op.at = "disconnect", !.op.ws = t.ws]

(* Before that the heartbeat ends, which is waited for.                    *)
Disconnecting(t) ==
  IF t.heartbeat = None THEN Forget(t) ELSE [t EXCEPT !.heartbeat = None, !.op.at = "heartbeat"]

UnlessUsed(t) == IF t.interests = {} THEN Disconnecting(t) ELSE Return(t, TRUE)

(* Mutant of Unreferred: the reference stays.                              *)
StillReferred(t, s) == [t EXCEPT !.known = @ \ {s}]

(* The last reference of a symbol is given up before upstream hears of it. *)
Unreferred(t, s) ==
  IF t.refs[s] <= 1 THEN [t EXCEPT !.refs[s] = 0, !.known = @ \ {s}] ELSE [t EXCEPT !.refs[s] = @ - 1]

(* subscribe_quote: _ensure_connected makes a socket unless there is one   *)
(* that is connected; the socket is kept before it is connected.           *)
TDSubscribe(s) ==
  /\ td.op = Free
  /\ LET t == [td EXCEPT !.op = Operation("subscribe", s)] IN
     IF td.connected /\ td.ws # None
     THEN td' = Subscribing(t, s)
     ELSE \/ td' = Return(t, FALSE)   \* next_key has no key
          \/ /\ td.made < MaxSockets
             /\ td' = Await([t EXCEPT !.made = @ + 1, !.ws = td.made + 1], "connect")
  /\ UNCHANGED <<sockets, orphans, lost, tainted, leaked>>

TDUnsubscribe(s) ==
  /\ td.op = Free
  /\ LET t    == [td EXCEPT !.op = Operation("unsubscribe", s)]
         left == Unreferred([t EXCEPT !.interests = @ \ {s}], s)
     IN  td' = IF s \notin td.interests \/ s \notin td.known THEN Return(t, TRUE)
               ELSE IF td.refs[s] <= 1 /\ td.ws # None THEN Await(left, "unsubscribe")
               ELSE UnlessUsed(left)
  /\ UNCHANGED <<sockets, orphans, lost, tainted, leaked>>

TDClose ==
  /\ td.op = Free
  /\ td' = Disconnecting([td EXCEPT !.op = Operation("close", None), !.interests = {}, !.known = {},
                                    !.refs = [s \in Symbols |-> 0]])
  /\ UNCHANGED <<sockets, orphans, lost, tainted, leaked>>

-----------------------------------------------------------------------------
(* What a call does upstream, when it succeeds.                            *)
Effect(call) ==
  CASE call.at = "connect" -> [ws \in DOMAIN sockets \cup {call.ws} |->
                                IF ws \in DOMAIN sockets THEN sockets[ws] ELSE {}]
    [] call.at = "disconnect" -> [ws \in DOMAIN sockets \ {call.ws} |-> sockets[ws]]
    [] call.at = "heartbeat" -> sockets
    [] call.at = "subscribe" ->
         [ws \in DOMAIN sockets |-> sockets[ws] \cup {s \in {call.symbol} : ws = call.ws}]
    [] call.at = "unsubscribe" ->
         [ws \in DOMAIN sockets |-> sockets[ws] \ {s \in {call.symbol} : ws = call.ws}]

(* The operation goes on.  A failed connection leaves its socket behind, a *)
(* failed subscription the symbol; other failures are logged.              *)
Resume(t, ok) ==
  LET s == t.op.symbol IN
  CASE t.op.at = "connect" ->
         IF ok THEN Subscribing([t EXCEPT !.connected = TRUE, !.heartbeat = t.ws], s) ELSE Return(t, FALSE)
    [] t.op.at = "subscribe" ->
         IF ok THEN Return([t EXCEPT !.interests = @ \cup {s}], TRUE)
               ELSE Return([t EXCEPT !.refs[s] = 0], FALSE)
    [] t.op.at = "unsubscribe" -> UnlessUsed(t)
    [] t.op.at = "heartbeat" -> Forget(t)
    [] OTHER -> Return(t, TRUE)

Waits == td.op.at \in {"connect", "subscribe", "unsubscribe", "heartbeat", "disconnect"}

TDResume ==
  /\ Waits
  /\ \E ok \in BOOLEAN :
       /\ td' = Resume(td, ok)
       /\ sockets' = IF ok THEN Effect(td.op) ELSE sockets
       /\ leaked' = (leaked \/ (~ok /\ td.op.at = "disconnect"))
  /\ UNCHANGED <<orphans, lost, tainted>>

(* The operation is cancelled while it waits; its thread goes on.          *)
TDCancel ==
  /\ Waits
  /\ td' = [td EXCEPT !.op = Return(td, FALSE).op]
  /\ orphans' = IF td.op.at = "heartbeat" THEN orphans ELSE orphans \cup {td.op}
  /\ tainted' = IF td.op.at \in {"subscribe", "unsubscribe"} THEN tainted \cup {td.op.symbol} ELSE tainted
  /\ leaked' = (leaked \/ td.op.at \in {"connect", "heartbeat", "disconnect"})
  /\ UNCHANGED <<sockets, lost>>

OrphanEnds ==
  /\ \E call \in orphans, ok \in BOOLEAN :
       orphans' = orphans \ {call} /\ sockets' = IF ok THEN Effect(call) ELSE sockets
  /\ UNCHANGED <<td, lost, tainted, leaked>>

(* An open socket is lost with its subscriptions; the provider keeps it as *)
(* its own, connected, and calls on it may return or raise.                *)
TDLost ==
  /\ \E ws \in DOMAIN sockets :
       sockets' = [open \in DOMAIN sockets \ {ws} |-> sockets[open]] /\ lost' = lost \cup ({ws} \cap {td.ws})
  /\ UNCHANGED <<td, orphans, tainted, leaked>>

-----------------------------------------------------------------------------
(* _put_event: what does not fit is dropped.  Only the number of events is *)
(* kept here; what becomes of them is told by ClientDelivery.              *)
Put(t) == IF t.queued < Capacity THEN [t EXCEPT !.queued = @ + 1] ELSE t

(* A price of any open socket reaches the loop.                            *)
TDPrice ==
  /\ \E ws \in DOMAIN sockets : sockets[ws] \cap td.known \cap td.interests # {}
  /\ td' = Put(td)
  /\ UNCHANGED <<sockets, orphans, lost, tainted, leaked>>

(* A heartbeat fails, on a lost socket or not: the clients are told of a   *)
(* reconnection, which nobody makes.                                       *)
TDHeartbeatFails ==
  /\ td.heartbeat # None /\ td.ws # None
  /\ td' = Put(td)
  /\ UNCHANGED <<sockets, orphans, lost, tainted, leaked>>
=============================================================================
