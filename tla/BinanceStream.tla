--------------------------- MODULE BinanceStream ---------------------------
(***************************************************************************)
(* BinanceSpotStreamProvider (src/app/providers/binance_spot_stream.py).   *)
(* The SDK runs in the event loop: a call that is cancelled or fails may   *)
(* have had its effect upstream, or not.  A connection that is lost takes  *)
(* its streams along, and the next one is made without them.               *)
(***************************************************************************)
EXTENDS Naturals

CONSTANTS
  Pairs,         \* provider symbols of Binance
  PairCapacity   \* PROVIDER_EVENT_QUEUE_CAPACITY

VARIABLES
  bn,        \* the provider, with the operation that holds its lock
  streams,   \* upstream: [open |-> is there a connection, pairs |-> its streams]
  cut        \* history: handles whose stream was lost with the connection

bnVars == <<bn, streams, cut>>

BNFree == [kind |-> "free", pair |-> "", at |-> "free", ok |-> TRUE, rest |-> {}]

BNInit ==
  /\ bn = [op |-> BNFree, handles |-> {}, connected |-> FALSE, queued |-> 0]
  /\ streams = [open |-> FALSE, pairs |-> {}]
  /\ cut = {}

BNReturn(b, ok) == [b EXCEPT !.op.at = "done", !.op.ok = ok, !.op.rest = {}]
BNAwait(b, call) == [b EXCEPT !.op.at = call]

(* _close_connection, when no handle is left.                              *)
Closing(b) == IF ~b.connected /\ ~streams.open THEN BNReturn(b, TRUE) ELSE BNAwait(b, "close")

BNSubscribe(p) ==
  /\ bn.op = BNFree
  /\ LET b == [bn EXCEPT !.op = [BNFree EXCEPT !.kind = "subscribe", !.pair = p]] IN
     bn' = IF p \in bn.handles THEN BNReturn(b, TRUE)
           ELSE BNAwait(b, IF bn.connected /\ streams.open THEN "ticker" ELSE "connect")
  /\ UNCHANGED <<streams, cut>>

(* The handle is given up before upstream hears of it.                     *)
BNUnsubscribe(p) ==
  /\ bn.op = BNFree
  /\ LET b == [bn EXCEPT !.op = [BNFree EXCEPT !.kind = "unsubscribe", !.pair = p]] IN
     bn' = IF p \in bn.handles
           THEN BNAwait([b EXCEPT !.handles = @ \ {p}, !.op.rest = {p}], "unsubscribe")
           ELSE BNReturn(b, TRUE)
  /\ cut' = cut \ {p}
  /\ UNCHANGED streams

BNClose ==
  /\ bn.op = BNFree
  /\ LET b == [bn EXCEPT !.op = [BNFree EXCEPT !.kind = "close", !.rest = bn.handles], !.handles = {}] IN
     bn' = IF b.op.rest = {} THEN Closing(b) ELSE BNAwait(b, "unsubscribe")
  /\ cut' = {}
  /\ UNCHANGED streams

-----------------------------------------------------------------------------
Connected(b, ok) ==
  IF ok THEN BNAwait([b EXCEPT !.connected = TRUE], "ticker") ELSE BNReturn(b, FALSE)

(* Mutant of Handled: the handle is kept though upstream has refused.      *)
HandledAnyway(b, ok) == BNReturn([b EXCEPT !.handles = @ \cup {b.op.pair}], ok)

Handled(b, ok) == BNReturn(IF ok THEN [b EXCEPT !.handles = @ \cup {b.op.pair}] ELSE b, ok)

(* The calls of create_connection, ticker, handle.unsubscribe and          *)
(* close_connection return, or raise: done says whether upstream has done  *)
(* it.  A ticker may be answered though the connection is lost by now; the *)
(* end of a connection is the end of its streams.                          *)
BNResume ==
  \E ok, done \in BOOLEAN :
    /\ ok => done
    /\ \/ /\ bn.op.at = "connect"
          /\ bn' = Connected(bn, ok)
          /\ streams' = [streams EXCEPT !.open = @ \/ done]
          /\ cut' = cut
       \/ /\ bn.op.at = "ticker"
          /\ bn' = Handled(bn, ok)
          /\ streams' = IF done /\ streams.open THEN [streams EXCEPT !.pairs = @ \cup {bn.op.pair}] ELSE streams
          /\ cut' = IF ok /\ ~streams.open THEN cut \cup {bn.op.pair} ELSE cut
       \/ /\ bn.op.at = "unsubscribe"
          /\ \E p \in bn.op.rest :
               LET b == [bn EXCEPT !.op.rest = @ \ {p}] IN
               /\ bn' = IF b.op.rest # {} THEN b
                      ELSE IF b.handles = {} THEN Closing(b) ELSE BNReturn(b, TRUE)
               /\ streams' = IF done THEN [streams EXCEPT !.pairs = @ \ {p}] ELSE streams
          /\ cut' = cut
       \/ /\ bn.op.at = "close"
          /\ bn' = BNReturn([bn EXCEPT !.connected = FALSE], TRUE)
          /\ streams' = IF done THEN [open |-> FALSE, pairs |-> {}] ELSE streams
          /\ cut' = cut

BNCancel ==
  /\ bn.op.at \in {"connect", "ticker", "unsubscribe", "close"}
  /\ bn' = BNReturn([bn EXCEPT !.connected = @ /\ bn.op.at # "close"], FALSE)
  /\ cut' = cut
  /\ streams' \in {streams,
       CASE bn.op.at = "connect" -> [streams EXCEPT !.open = TRUE]
         [] bn.op.at = "ticker" -> [streams EXCEPT !.pairs = @ \cup {p \in {bn.op.pair} : streams.open}]
         [] bn.op.at = "unsubscribe" -> [streams EXCEPT !.pairs = @ \ bn.op.rest]
         [] bn.op.at = "close" -> [open |-> FALSE, pairs |-> {}]}

(* The connection is lost: `connections` is empty while handles are held,  *)
(* so that the next subscription makes another, without the old streams.   *)
BNLost ==
  /\ streams.open
  /\ streams' = [open |-> FALSE, pairs |-> {}]
  /\ cut' = bn.handles
  /\ bn' = bn

(* The SDK calls back for every stream that is open, handled or not.       *)
BNPrice ==
  /\ streams.pairs # {} /\ bn.queued < PairCapacity
  /\ bn' = [bn EXCEPT !.queued = @ + 1]
  /\ UNCHANGED <<streams, cut>>
=============================================================================
