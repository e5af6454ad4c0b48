---------------------------- MODULE StreamRouter ----------------------------
(***************************************************************************)
(* MultiProviderStreamProvider (src/app/services/stream_provider_router.py)*)
(* in front of Twelve Data and Binance.  Its lock is held from the start   *)
(* of a provider's operation to its end; close gives it up before the      *)
(* providers close, at the same time.  Calls that come after close, from a *)
(* registration that has slipped past the stream manager's check, are left *)
(* to StreamManager.                                                       *)
(***************************************************************************)
EXTENDS TwelveDataStream, BinanceStream

CONSTANT MaxCancels   \* bound: operations cancelled

ASSUME InterestsAssumption == Symbols \cap Pairs = {}

VARIABLES
  routed,    \* _interest_providers
  forward,   \* the providers with a task that forwards their events
  closed,    \* close has been called, which the stream manager does once
  unclosed,  \* the providers close has not come to
  cancels    \* operations cancelled so far

routerVars == <<routed, forward, closed, unclosed, cancels>>
vars == <<tdVars, bnVars, routerVars>>

Init ==
  /\ TDInit /\ BNInit
  /\ routed = {} /\ forward = {} /\ closed = FALSE /\ unclosed = {"td", "bn"} /\ cancels = 0

LockFree == {td.op.kind, bn.op.kind} \cap {"subscribe", "unsubscribe"} = {}

(* _ensure_forwarding: a task of the provider's own takes its events.      *)
EnsureForwarding(provider) == forward' = forward \cup {provider}

(* subscribe_quote: the forwarding task first, then the provider.          *)
Subscribe ==
  /\ LockFree /\ ~closed
  /\ \/ /\ \E s \in Symbols : TDSubscribe(s)
        /\ EnsureForwarding("td") /\ UNCHANGED bnVars
     \/ /\ \E p \in Pairs : BNSubscribe(p)
        /\ EnsureForwarding("bn") /\ UNCHANGED tdVars
  /\ UNCHANGED <<routed, closed, unclosed, cancels>>

(* unsubscribe: the router forgets the interest before the provider does.  *)
Unsubscribe ==
  /\ LockFree /\ ~closed
  /\ \E i \in routed :
       /\ routed' = routed \ {i}
       /\ \/ i \in Symbols /\ TDUnsubscribe(i) /\ UNCHANGED bnVars
          \/ i \in Pairs /\ BNUnsubscribe(i) /\ UNCHANGED tdVars
  /\ UNCHANGED <<forward, closed, unclosed, cancels>>

Close ==
  /\ LockFree /\ ~closed
  /\ closed' = TRUE /\ routed' = {} /\ forward' = {}
  /\ UNCHANGED <<tdVars, bnVars, unclosed, cancels>>

CloseProvider ==
  /\ closed
  /\ \/ "td" \in unclosed /\ TDClose /\ unclosed' = unclosed \ {"td"} /\ UNCHANGED bnVars
     \/ "bn" \in unclosed /\ BNClose /\ unclosed' = unclosed \ {"bn"} /\ UNCHANGED tdVars
  /\ UNCHANGED <<routed, forward, closed, cancels>>

(* A provider's operation ends, in success, failure or cancellation, and   *)
(* with it the router's.                                                   *)
TDReturns ==
  /\ td.op.at = "done"
  /\ td' = [td EXCEPT !.op = Free]
  /\ routed' = IF td.op.kind = "subscribe" /\ td.op.ok THEN routed \cup {td.op.symbol} ELSE routed
  /\ UNCHANGED <<sockets, orphans, lost, tainted, leaked, bnVars, forward, closed, unclosed, cancels>>

BNReturns ==
  /\ bn.op.at = "done"
  /\ bn' = [bn EXCEPT !.op = BNFree]
  /\ routed' = IF bn.op.kind = "subscribe" /\ bn.op.ok THEN routed \cup {bn.op.pair} ELSE routed
  /\ UNCHANGED <<streams, cut, tdVars, forward, closed, unclosed, cancels>>

(* _forward_events takes an event for the stream manager, whose queue may  *)
(* have no room for it.                                                    *)
Forward ==
  /\ \/ "td" \in forward /\ td.queued > 0 /\ td' = [td EXCEPT !.queued = @ - 1] /\ UNCHANGED bn
     \/ "bn" \in forward /\ bn.queued > 0 /\ bn' = [bn EXCEPT !.queued = @ - 1] /\ UNCHANGED td
  /\ UNCHANGED <<sockets, orphans, lost, tainted, leaked, streams, cut, routerVars>>

(* The caller of the router is cancelled.                                  *)
Cancel ==
  /\ cancels < MaxCancels /\ cancels' = cancels + 1
  /\ (TDCancel /\ UNCHANGED bnVars) \/ (BNCancel /\ UNCHANGED tdVars)
  /\ UNCHANGED <<routed, forward, closed, unclosed>>

Next ==
  \/ Subscribe \/ Unsubscribe \/ Close \/ CloseProvider \/ TDReturns \/ BNReturns
  \/ Forward \/ Cancel
  \/ (TDResume \/ OrphanEnds \/ TDLost \/ TDPrice \/ TDHeartbeatFails) /\ UNCHANGED <<bnVars, routerVars>>
  \/ (BNResume \/ BNLost \/ BNPrice) /\ UNCHANGED <<tdVars, routerVars>>

Spec == Init /\ [][Next]_vars

-----------------------------------------------------------------------------
(* An interest a provider has accepted is subscribed upstream, on the      *)
(* socket the provider has, for as long as it is held, whichever calls     *)
(* fail and whichever connections are made and closed around it.  What the *)
(* code does not repair is named: the loss of that socket, or of the       *)
(* Binance connection since the pair was subscribed, and a cancelled call  *)
(* for that symbol of Twelve Data                                          *)
(* (twelvedata_market_data_stream.py:111-176, binance_spot_stream.py:56).  *)
InterestsServed ==
  /\ \A s \in td.interests \ tainted :
       td.ws \in lost \/ (td.ws \in DOMAIN sockets /\ s \in sockets[td.ws])
  /\ \A p \in bn.handles \ cut : streams.open /\ p \in streams.pairs

(* A socket that is open is the provider's, or about to be closed, and the *)
(* one heartbeat is that of the provider's socket, unless a connection or  *)
(* the end of one was cancelled or failed                                  *)
(* (twelvedata_market_data_stream.py:111, :197).                           *)
OneSocket ==
  /\ ~leaked => DOMAIN sockets \subseteq {td.ws, td.op.ws}
  /\ td.heartbeat \in {None, td.ws}
  /\ ~leaked /\ td.connected /\ td.op.at # "heartbeat" => td.heartbeat = td.ws

(* Until it is closed the router knows exactly the interests the providers *)
(* hold whenever nothing is under way, after failures and cancellations    *)
(* too: none is left that nobody can unsubscribe                           *)
(* (stream_provider_router.py:32, :41).                                    *)
RouterAgrees == LockFree /\ ~closed => routed = td.interests \cup bn.handles
=============================================================================
