------------------------ MODULE StreamRouterProofs ------------------------
(***************************************************************************)
(* Theorems about StreamRouter, for any symbols and pairs, any number of   *)
(* sockets and of cancelled operations.                                    *)
(*                                                                         *)
(* RouterInv is inductive.  A Twelve Data interest keeps its socket        *)
(* because the socket is forgotten only when no interest is left, and a    *)
(* call that goes on in its thread can only close a socket of the past or  *)
(* take back a symbol that is tainted.  It is served from the moment it is *)
(* accepted until the socket is lost, if it is; a Binance pair likewise,   *)
(* until its connection is lost.                                           *)
(***************************************************************************)
EXTENDS StreamRouter, TLAPS

(* The provider of Twelve Data by itself.                                  *)
TDShape(t) ==
  /\ DOMAIN t = {"op", "made", "ws", "connected", "heartbeat", "refs", "known", "interests", "queued"}
  /\ DOMAIN t.op = {"kind", "symbol", "at", "ws", "ok"}
  /\ t.made \in Nat /\ t.ws \in 0 .. t.made /\ t.op.ws \in 0 .. t.made
  /\ t.connected \in BOOLEAN /\ t.op.ok \in BOOLEAN
  /\ t.refs \in [Symbols -> Nat] /\ t.known \subseteq Symbols /\ t.interests \subseteq t.known

TDHeld(t) ==
  /\ t.connected => t.ws # None
  /\ t.interests # {} => t.connected
  /\ t.heartbeat # None => t.connected /\ t.heartbeat = t.ws

TDPhase(t) ==
  /\ t.op.kind = "subscribe" => t.op.symbol \in Symbols /\ t.op.at \in {"connect", "subscribe", "done"}
  /\ t.op.kind = "subscribe" /\ t.op.at = "done" /\ t.op.ok => t.op.symbol \in t.interests
  /\ t.op.at \in {"connect", "subscribe"} => t.op.kind = "subscribe" /\ t.op.ws = t.ws /\ t.ws # None
  /\ t.op.at = "connect" => ~t.connected
  /\ t.op.at = "subscribe" => t.connected /\ t.op.symbol \in t.known
  /\ t.op.at = "unsubscribe" => t.op.ws # None /\ t.op.symbol \in Symbols \ t.interests
  /\ t.op.at \in {"heartbeat", "disconnect"} => t.interests = {}
  /\ t.op.at = "heartbeat" => t.heartbeat = None
  /\ t.op.at = "disconnect" => t.ws = None /\ t.op.ws # None

TDLocal(t) == TDShape(t) /\ TDHeld(t) /\ TDPhase(t)

(* The references of a symbol whose calls have not been cancelled.         *)
TDRefs(t, ta) ==
  \A s \in Symbols \ ta :
    t.refs[s] <= 1 /\ (t.refs[s] = 1 => s \in t.interests \/ (t.op.at = "subscribe" /\ t.op.symbol = s))

(* The sockets upstream, but for one that was lost.                        *)
TDServed(t, sk, ta) ==
  t.connected /\ t.ws \notin lost => t.ws \in DOMAIN sk /\ \A s \in t.interests \ ta : s \in sk[t.ws]

Known(t) == (IF t.connected THEN {t.ws} ELSE {}) \cup (IF t.op.at = "disconnect" THEN {t.op.ws} ELSE {})

TDKnown(t, sk, lk) ==
  /\ ~lk => DOMAIN sk \subseteq Known(t)
  /\ ~lk /\ t.connected /\ t.op.at # "heartbeat" => t.heartbeat = t.ws

(* The calls that go on without their operation.                           *)
TDOrphans(t, ta, lk) ==
  \A call \in orphans :
    /\ call.ws \in 1 .. t.made
    /\ call.at = "disconnect" => call.ws # t.ws
    /\ call.at \in {"connect", "disconnect"} => lk
    /\ call.at \in {"connect", "subscribe", "unsubscribe", "disconnect"}
    /\ call.at = "unsubscribe" => call.symbol \in ta

TDInv ==
  /\ TDLocal(td) /\ TDRefs(td, tainted) /\ TDServed(td, sockets, tainted)
  /\ TDKnown(td, sockets, leaked) /\ TDOrphans(td, tainted, leaked) /\ leaked \in BOOLEAN

(* Binance.                                                                *)
BNShape(b) ==
  DOMAIN b = {"op", "handles", "connected", "queued"} /\ DOMAIN b.op = {"kind", "pair", "at", "ok", "rest"}

BNLocal(b) ==
  /\ b.handles \subseteq Pairs /\ b.op.rest \cap b.handles = {}
  /\ b.op.kind = "subscribe" => b.op.pair \in Pairs /\ b.op.at \in {"connect", "ticker", "done"}
  /\ b.op.kind = "subscribe" /\ b.op.at = "done" /\ b.op.ok => b.op.pair \in b.handles
  /\ b.op.at \in {"connect", "ticker"} => b.op.kind = "subscribe"
  /\ b.op.at = "close" => b.handles = {}

BNServed(b, st, cu) ==
  /\ DOMAIN st = {"open", "pairs"}
  /\ \A p \in b.handles \ cu : st.open /\ p \in st.pairs

BNInv == BNShape(bn) /\ BNLocal(bn) /\ BNServed(bn, streams, cut)

(* The router: what it knows, and what it is about to learn.               *)
TDNew(t) == {s \in {t.op.symbol} : t.op.kind = "subscribe" /\ t.op.at = "done" /\ t.op.ok}
BNNew(b) == {p \in {b.op.pair} : b.op.kind = "subscribe" /\ b.op.at = "done" /\ b.op.ok}

Agrees == ~closed => routed \cup TDNew(td) \cup BNNew(bn) = td.interests \cup bn.handles

RouterInv == TDInv /\ BNInv /\ Agrees

-----------------------------------------------------------------------------
(* What the provider of Twelve Data makes of its own state.                *)
Same(u, t) ==
  /\ u.made = t.made /\ u.ws = t.ws /\ u.connected = t.connected /\ u.heartbeat = t.heartbeat
  /\ u.refs = t.refs /\ u.known = t.known /\ u.interests = t.interests

LEMMA ReturnIs ==
  ASSUME NEW t, TDShape(t), NEW ok \in BOOLEAN, NEW u, u = Return(t, ok)
  PROVE  /\ Same(u, t) /\ TDShape(u) /\ u.op.at = "done" /\ u.op.ok = ok /\ u.op.kind = t.op.kind
         /\ u.op.symbol = t.op.symbol /\ u.op.ws = t.op.ws
  BY DEF Return, TDShape, Same

LEMMA AwaitIs ==
  ASSUME NEW t, TDShape(t), NEW call, NEW u, u = Await(t, call)
  PROVE  /\ Same(u, t) /\ TDShape(u) /\ u.op.at = call /\ u.op.ok = t.op.ok /\ u.op.kind = t.op.kind
         /\ u.op.symbol = t.op.symbol /\ u.op.ws = t.ws
  BY DEF Await, TDShape, Same

(* Between two calls: nothing is under way that the state depends on.      *)
Quiet(t, sk, ta, lk) ==
  /\ TDShape(t) /\ TDHeld(t) /\ TDServed(t, sk, ta) /\ TDOrphans(t, ta, lk)
  /\ \A s \in Symbols \ ta : t.refs[s] <= 1 /\ (t.refs[s] = 1 => s \in t.interests)
  /\ ~lk => DOMAIN sk \subseteq IF t.connected THEN {t.ws} ELSE {}

Beats(t, lk) == ~lk /\ t.connected => t.heartbeat = t.ws

Sound(t, sk, ta, lk) ==
  TDLocal(t) /\ TDRefs(t, ta) /\ TDServed(t, sk, ta) /\ TDKnown(t, sk, lk) /\ TDOrphans(t, ta, lk)

(* An operation that is new, or whose call has ended, may rest on TDInv.   *)
LEMMA QuietIs ==
  ASSUME NEW sk, NEW ta, NEW lk, NEW t, Sound(t, sk, ta, lk), t.op.at \notin {"subscribe", "heartbeat", "disconnect"},
         NEW u, Same(u, t), TDShape(u)
  PROVE  Quiet(u, sk, ta, lk) /\ Beats(u, lk)
  BY DEF Sound, TDLocal, TDHeld, TDRefs, TDServed, TDKnown, Known, TDOrphans, Quiet, Beats, Same

(* The operation is over.                                                  *)
Done(t) == Return(t, TRUE)
Refused(t) == Return(t, FALSE)

MaySucceed(t) == t.op.kind = "subscribe" => t.op.symbol \in Symbols /\ t.op.symbol \in t.interests
MayFail(t) == t.op.kind = "subscribe" => t.op.symbol \in Symbols

LEMMA EndOK ==
  ASSUME NEW sk, NEW ta, NEW lk, NEW t, Quiet(t, sk, ta, lk), Beats(t, lk),
         NEW u, Same(u, t), TDShape(u), u.op.at = "done",
         u.op.kind = "subscribe" => u.op.symbol \in Symbols /\ (u.op.ok => u.op.symbol \in t.interests)
  PROVE  Sound(u, sk, ta, lk)
  <1>1. TDLocal(u)
    BY DEF Quiet, TDLocal, TDHeld, TDPhase, Same
  <1>2. TDRefs(u, ta) /\ TDServed(u, sk, ta) /\ TDKnown(u, sk, lk) /\ TDOrphans(u, ta, lk)
    BY DEF Quiet, Beats, TDRefs, TDServed, TDKnown, Known, TDOrphans, Same
  <1>3. QED
    BY <1>1, <1>2 DEF Sound

LEMMA SucceedOK ==
  ASSUME NEW sk, NEW ta, NEW lk, NEW t, Quiet(t, sk, ta, lk), Beats(t, lk),
         MaySucceed(t),
         NEW u, u = Done(t)
  PROVE  /\ Sound(u, sk, ta, lk) /\ u.interests = t.interests /\ u.op.kind = t.op.kind
         /\ u.op.at = "done" /\ u.op.ok /\ u.op.symbol = t.op.symbol
  <1>1. /\ Same(u, t) /\ TDShape(u) /\ u.op.at = "done" /\ u.op.ok /\ u.op.kind = t.op.kind
        /\ u.op.symbol = t.op.symbol
    <2>1. TDShape(t) /\ TRUE \in BOOLEAN
      BY DEF Quiet
    <2>2. QED
      BY <2>1, ReturnIs, Zenon DEF Done, Refused
  <1>2. QED
    BY <1>1, EndOK DEF Same, MaySucceed, MayFail

LEMMA FailOK ==
  ASSUME NEW sk, NEW ta, NEW lk, NEW t, Quiet(t, sk, ta, lk), Beats(t, lk),
         MayFail(t),
         NEW u, u = Refused(t)
  PROVE  /\ Sound(u, sk, ta, lk) /\ u.interests = t.interests /\ u.op.kind = t.op.kind
         /\ u.op.at = "done" /\ ~u.op.ok /\ u.op.symbol = t.op.symbol
  <1>1. /\ Same(u, t) /\ TDShape(u) /\ u.op.at = "done" /\ ~u.op.ok /\ u.op.kind = t.op.kind
        /\ u.op.symbol = t.op.symbol
    <2>1. TDShape(t) /\ FALSE \in BOOLEAN
      BY DEF Quiet
    <2>2. QED
      BY <2>1, ReturnIs, Zenon DEF Done, Refused
  <1>2. QED
    BY <1>1, EndOK DEF Same, MaySucceed, MayFail

(* subscribe_quote on a socket that is connected.                          *)
LEMMA SubscribingOK ==
  ASSUME NEW sk, NEW ta, NEW lk, NEW s \in Symbols, NEW t, Quiet(t, sk, ta, lk), Beats(t, lk), t.connected,
         t.op.kind = "subscribe", t.op.symbol = s,
         NEW u, u = Subscribing(t, s)
  PROVE  Sound(u, sk, ta, lk) /\ u.interests = t.interests \cup TDNew(u)
  <1> DEFINE referred == Referred(t, s)
             joined == [referred EXCEPT !.interests = @ \cup {s}]
  <1>1. CASE s \in t.interests
    <2>1. u = Done(t)
      BY <1>1 DEF Subscribing, Done
    <2>2. MaySucceed(t)
      BY <1>1 DEF MaySucceed
    <2>3. Sound(u, sk, ta, lk) /\ u.interests = t.interests /\ u.op.symbol = s
      BY <2>1, <2>2, SucceedOK
    <2>4. TDNew(u) \subseteq {s}
      BY <2>3 DEF TDNew
    <2>5. QED
      BY <1>1, <2>3, <2>4
  <1>2. /\ DOMAIN referred = DOMAIN t /\ referred.op = t.op /\ referred.made = t.made /\ referred.ws = t.ws
        /\ referred.connected = t.connected /\ referred.heartbeat = t.heartbeat
        /\ referred.interests = t.interests /\ referred.known = t.known \cup {s}
        /\ referred.refs = [t.refs EXCEPT ![s] = t.refs[s] + 1]
    BY DEF Referred, Quiet, TDShape
  <1>3. TDShape(referred)
    BY <1>2 DEF Quiet, TDShape
  <1>4. CASE s \notin t.interests /\ t.refs[s] > 0
    <2>1. u = Done(joined)
      BY <1>4 DEF Subscribing, Done
    <2>2. /\ DOMAIN joined = DOMAIN t /\ joined.op = t.op /\ joined.made = t.made /\ joined.ws = t.ws
          /\ joined.connected = t.connected /\ joined.heartbeat = t.heartbeat
          /\ joined.interests = t.interests \cup {s} /\ joined.known = t.known \cup {s}
          /\ joined.refs = [t.refs EXCEPT ![s] = t.refs[s] + 1]
      BY <1>2 DEF Quiet, TDShape
    <2> HIDE DEF joined, referred
    <2>3. s \in ta
      BY <1>4 DEF Quiet, TDShape
    <2>4. TDShape(joined)
      BY <2>2 DEF Quiet, TDShape
    <2>5. Quiet(joined, sk, ta, lk) /\ Beats(joined, lk)
      BY <2>2, <2>3, <2>4 DEF Quiet, Beats, TDShape, TDHeld, TDServed, TDOrphans
    <2>6. /\ Sound(u, sk, ta, lk) /\ u.interests = t.interests \cup {s}
          /\ u.op.at = "done" /\ u.op.ok /\ u.op.kind = "subscribe" /\ u.op.symbol = s
      <3>1. MaySucceed(joined)
        BY <2>2 DEF MaySucceed
      <3>2. QED
        BY <2>1, <2>2, <2>5, <3>1, SucceedOK
    <2>7. TDNew(u) = {s}
      BY <2>6 DEF TDNew
    <2>8. QED
      BY <2>6, <2>7
  <1>5. CASE s \notin t.interests /\ ~(t.refs[s] > 0)
    <2>1. u = Await(referred, "subscribe")
      BY <1>5 DEF Subscribing
    <2> HIDE DEF referred
    <2>2. /\ Same(u, referred) /\ TDShape(u) /\ u.op.at = "subscribe" /\ u.op.kind = "subscribe"
          /\ u.op.symbol = s /\ u.op.ws = t.ws
      BY <1>2, <1>3, <2>1, AwaitIs
    <2>3. /\ u.made = t.made /\ u.ws = t.ws /\ u.connected = t.connected /\ u.heartbeat = t.heartbeat
          /\ u.interests = t.interests /\ u.refs = [t.refs EXCEPT ![s] = t.refs[s] + 1] /\ t.refs[s] = 0
          /\ u.known = t.known \cup {s}
      BY <1>2, <1>5, <2>2 DEF Same, Quiet, TDShape
    <2>4. TDLocal(u)
      BY <2>2, <2>3 DEF Quiet, TDLocal, TDHeld, TDPhase
    <2>5. TDRefs(u, ta)
      <3> SUFFICES ASSUME NEW x \in Symbols \ ta
                   PROVE  u.refs[x] <= 1 /\ (u.refs[x] = 1 => x \in u.interests \/ (u.op.at = "subscribe" /\ u.op.symbol = x))
        BY DEF TDRefs
      <3>1. t.refs \in [Symbols -> Nat] /\ t.refs[x] <= 1 /\ (t.refs[x] = 1 => x \in t.interests)
        BY DEF Quiet, TDShape
      <3>2. u.refs[x] = IF x = s THEN t.refs[x] + 1 ELSE t.refs[x]
        BY <2>3, <3>1
      <3>3. QED
        BY <2>2, <2>3, <3>1, <3>2
    <2>6. TDServed(u, sk, ta) /\ TDKnown(u, sk, lk) /\ TDOrphans(u, ta, lk)
      BY <2>2, <2>3 DEF Quiet, Beats, TDServed, TDKnown, Known, TDOrphans
    <2>7. TDNew(u) = {}
      BY <2>2 DEF TDNew
    <2>8. QED
      BY <2>3, <2>4, <2>5, <2>6, <2>7 DEF Sound
  <1>6. QED
    BY <1>1, <1>4, <1>5

(* _disconnect: the socket is forgotten.                                   *)
LEMMA ForgetOK ==
  ASSUME NEW sk, NEW ta, NEW lk, NEW t, Quiet(t, sk, ta, lk), t.interests = {}, t.heartbeat = None,
         t.op.kind # "subscribe",
         NEW u, u = Forget(t)
  PROVE  Sound(u, sk, ta, lk) /\ u.interests = {} /\ u.op.kind = t.op.kind
  <1> DEFINE v == [t EXCEPT !.ws = None, !.connected = FALSE]
  <1>1. /\ DOMAIN v = DOMAIN t /\ v.op = t.op /\ v.made = t.made /\ v.ws = None /\ v.connected = FALSE
        /\ v.heartbeat = None /\ v.interests = {} /\ v.known = t.known /\ v.refs = t.refs
    BY DEF Quiet, TDShape
  <1>2. TDShape(v)
    BY <1>1 DEF Quiet, TDShape, None
  <1>3. CASE t.ws = None
    <2>1. u = Done(v)
      BY <1>3 DEF Forget, Done
    <2> HIDE DEF v
    <2>2. ~t.connected
      BY <1>3 DEF Quiet, TDHeld
    <2>3. Quiet(v, sk, ta, lk) /\ Beats(v, lk)
      BY <1>1, <1>2, <1>3, <2>2 DEF Quiet, Beats, TDShape, TDHeld, TDServed, TDOrphans
    <2>4. MaySucceed(v)
      BY <1>1 DEF MaySucceed
    <2>5. QED
      BY <1>1, <2>1, <2>3, <2>4, SucceedOK
  <1>4. CASE t.ws # None
    <2>1. u = [v EXCEPT !.op.at = "disconnect", !.op.ws = t.ws]
      BY <1>4 DEF Forget
    <2> HIDE DEF v
    <2>2. /\ Same(u, v) /\ TDShape(u) /\ u.op.at = "disconnect" /\ u.op.ws = t.ws /\ u.op.kind = t.op.kind
      <3>1. DOMAIN v = DOMAIN u /\ \A f \in DOMAIN v \ {"op"} : u[f] = v[f]
        BY <2>1
      <3>2. DOMAIN v.op = DOMAIN u.op /\ u.op.at = "disconnect" /\ u.op.ws = t.ws
            /\ u.op.kind = v.op.kind /\ u.op.ok = v.op.ok
        <4> DEFINE w == [v EXCEPT !.op.at = "disconnect"]
        <4>1. /\ DOMAIN w = DOMAIN v /\ DOMAIN w.op = DOMAIN v.op /\ w.op.at = "disconnect"
              /\ w.op.kind = v.op.kind /\ w.op.ok = v.op.ok
          BY <1>2 DEF TDShape
        <4>2. DOMAIN v.op = {"kind", "symbol", "at", "ws", "ok"} /\ "op" \in DOMAIN v
          BY <1>2 DEF TDShape
        <4>3. u = [w EXCEPT !.op.ws = t.ws]
          BY <2>1
        <4> HIDE DEF w
        <4>4. QED
          BY <4>1, <4>2, <4>3
      <3>3. Same(u, v)
        BY <1>2, <3>1 DEF Same, TDShape
      <3>4. TDShape(u)
        BY <1>1, <1>2, <3>1, <3>2, <3>3 DEF TDShape, Same, Quiet
      <3>5. QED
        BY <1>1, <3>2, <3>3, <3>4
    <2>3. /\ u.made = t.made /\ u.ws = None /\ u.connected = FALSE /\ u.heartbeat = None /\ u.interests = {}
          /\ u.refs = t.refs
      BY <1>1, <2>2 DEF Same
    <2>4. TDLocal(u)
      BY <1>4, <2>2, <2>3 DEF TDLocal, TDHeld, TDPhase
    <2>5. TDRefs(u, ta) /\ TDServed(u, sk, ta) /\ TDKnown(u, sk, lk)
      BY <2>2, <2>3 DEF Quiet, TDRefs, TDServed, TDKnown, Known
    <2>6. TDOrphans(u, ta, lk)
      BY <2>3 DEF Quiet, TDOrphans, TDShape, None
    <2>7. QED
      BY <2>2, <2>3, <2>4, <2>5, <2>6 DEF Sound
  <1>5. QED
    BY <1>3, <1>4

LEMMA DisconnectingOK ==
  ASSUME NEW sk, NEW ta, NEW lk, NEW t, Quiet(t, sk, ta, lk), Beats(t, lk), t.interests = {},
         t.op.kind # "subscribe",
         NEW u, u = Disconnecting(t)
  PROVE  Sound(u, sk, ta, lk) /\ u.interests = {} /\ u.op.kind = t.op.kind
  <1>1. CASE t.heartbeat = None
    BY <1>1, ForgetOK DEF Disconnecting
  <1>2. CASE t.heartbeat # None
    <2>1. u = [t EXCEPT !.heartbeat = None, !.op.at = "heartbeat"]
      BY <1>2 DEF Disconnecting
    <2>2. /\ TDShape(u) /\ u.op.at = "heartbeat" /\ u.op.kind = t.op.kind /\ u.heartbeat = None
          /\ u.made = t.made /\ u.ws = t.ws /\ u.connected = t.connected /\ u.interests = {} /\ u.refs = t.refs
      BY <2>1 DEF TDShape, Quiet
    <2>3. TDLocal(u)
      BY <2>2 DEF Quiet, TDLocal, TDHeld, TDPhase
    <2>4. TDRefs(u, ta) /\ TDServed(u, sk, ta) /\ TDKnown(u, sk, lk) /\ TDOrphans(u, ta, lk)
      BY <2>2 DEF Quiet, TDRefs, TDServed, TDKnown, Known, TDOrphans
    <2>5. QED
      BY <2>2, <2>3, <2>4 DEF Sound
  <1>3. QED
    BY <1>1, <1>2

LEMMA UnlessUsedOK ==
  ASSUME NEW sk, NEW ta, NEW lk, NEW t, Quiet(t, sk, ta, lk), Beats(t, lk), t.op.kind # "subscribe",
         NEW u, u = UnlessUsed(t)
  PROVE  Sound(u, sk, ta, lk) /\ u.interests = t.interests /\ u.op.kind = t.op.kind
  <1>1. CASE t.interests = {}
    BY <1>1, DisconnectingOK DEF UnlessUsed
  <1>2. CASE t.interests # {}
    <2>1. u = Done(t)
      BY <1>2 DEF UnlessUsed, Done
    <2>2. MaySucceed(t)
      BY DEF MaySucceed
    <2>3. QED
      BY <2>1, <2>2, SucceedOK
  <1>3. QED
    BY <1>1, <1>2

-----------------------------------------------------------------------------
(* The steps of Twelve Data.                                               *)
LEMMA TDInvIs ==
  ASSUME Sound(td', sockets', tainted', leaked'), orphans' = orphans, lost' = lost, leaked' \in BOOLEAN
  PROVE  TDInv'
  BY DEF Sound, TDInv, TDOrphans, TDServed

Begun(t, kind, s) == [t EXCEPT !.op = Operation(kind, s)]

LEMMA OperationIs ==
  ASSUME NEW kind, NEW s, NEW t, TDShape(t), NEW u, u = Begun(t, kind, s)
  PROVE  Same(u, t) /\ TDShape(u) /\ u.op.kind = kind /\ u.op.symbol = s
  <1>1. /\ DOMAIN Operation(kind, s) = {"kind", "symbol", "at", "ws", "ok"}
        /\ Operation(kind, s).kind = kind /\ Operation(kind, s).symbol = s
        /\ Operation(kind, s).ws = 0 /\ Operation(kind, s).ok = Free.ok
    BY DEF Operation, Free, None
  <1>2. Free.ok \in BOOLEAN
    BY DEF Free
  <1>3. DOMAIN u = DOMAIN t /\ u.op = Operation(kind, s) /\ \A f \in DOMAIN t \ {"op"} : u[f] = t[f]
    BY DEF TDShape, Begun
  <1>4. Same(u, t) /\ u.op.kind = kind /\ u.op.symbol = s
    BY <1>1, <1>3 DEF TDShape, Same
  <1>5. DOMAIN u.op = {"kind", "symbol", "at", "ws", "ok"} /\ u.op.ws \in 0 .. t.made /\ u.op.ok \in BOOLEAN
    BY <1>1, <1>2, <1>3 DEF TDShape
  <1>6. TDShape(u)
    BY <1>3, <1>4, <1>5 DEF TDShape, Same
  <1>7. QED
    BY <1>4, <1>6

(* A new operation begins where nothing is under way.                      *)
LEMMA BeginOK ==
  ASSUME TDInv, td.op = Free, NEW kind, NEW s, NEW u, u = Begun(td, kind, s)
  PROVE  /\ Quiet(u, sockets, tainted, leaked) /\ Beats(u, leaked) /\ Same(u, td)
         /\ u.op.kind = kind /\ u.op.symbol = s /\ TDNew(td) = {}
  <1>1. Sound(td, sockets, tainted, leaked) /\ TDShape(td)
    BY DEF TDInv, Sound, TDLocal
  <1>2. td.op.at = "free" /\ TDNew(td) = {}
    BY DEF Free, TDNew
  <1>3. Same(u, td) /\ TDShape(u) /\ u.op.kind = kind /\ u.op.symbol = s
    BY <1>1, OperationIs
  <1>4. QED
    BY <1>1, <1>2, <1>3, QuietIs

LEMMA TDSubscribeOK ==
  ASSUME TDInv, NEW s \in Symbols, TDSubscribe(s)
  PROVE  TDInv' /\ TDNew(td) = {} /\ td'.interests = td.interests \cup TDNew(td')
  <1> DEFINE t == Begun(td, "subscribe", s)
             v == [t EXCEPT !.made = @ + 1, !.ws = td.made + 1]
  <1>1. td.op = Free /\ UNCHANGED <<sockets, orphans, lost, tainted, leaked>> /\ leaked \in BOOLEAN
    BY DEF TDSubscribe, TDInv
  <1>2. /\ Quiet(t, sockets, tainted, leaked) /\ Beats(t, leaked) /\ Same(t, td)
        /\ t.op.kind = "subscribe" /\ t.op.symbol = s /\ TDNew(td) = {}
    BY <1>1, BeginOK
  <1>3. CASE td.connected /\ td.ws # None
    <2>1. td' = Subscribing(t, s)
      BY <1>3 DEF TDSubscribe, Begun
    <2> HIDE DEF t
    <2>2. t.connected
      BY <1>2, <1>3 DEF Same
    <2>3. Sound(td', sockets, tainted, leaked) /\ td'.interests = t.interests \cup TDNew(td')
      BY <1>2, <2>1, <2>2, SubscribingOK
    <2>4. QED
      BY <1>1, <1>2, <2>3, TDInvIs DEF Same
  <1>4. CASE ~(td.connected /\ td.ws # None) /\ td' = Refused(t)
    <2>1. MayFail(t)
      BY <1>2 DEF MayFail
    <2> HIDE DEF t
    <2>2. Sound(td', sockets, tainted, leaked) /\ td'.interests = t.interests /\ ~td'.op.ok
      BY <1>2, <1>4, <2>1, FailOK
    <2>3. TDNew(td') = {}
      BY <2>2 DEF TDNew
    <2>4. QED
      BY <1>1, <1>2, <2>2, <2>3, TDInvIs DEF Same
  <1>5. CASE ~(td.connected /\ td.ws # None) /\ td' = Await(v, "connect")
    <2>1. td' = Await(v, "connect")
      BY <1>5
    <2>2. td.made \in Nat /\ TDHeld(td)
      BY DEF TDInv, TDLocal, TDShape
    <2> HIDE DEF t
    <2>3. /\ DOMAIN v = DOMAIN t /\ v.op = t.op /\ v.made = t.made + 1 /\ v.ws = t.made + 1
          /\ v.connected = t.connected /\ v.heartbeat = t.heartbeat /\ v.interests = t.interests
          /\ v.known = t.known /\ v.refs = t.refs
      BY <1>2 DEF Quiet, TDShape, Same
    <2>4. TDShape(v)
      BY <1>2, <2>3 DEF Quiet, TDShape
    <2> HIDE DEF v
    <2>5. /\ Same(td', v) /\ TDShape(td') /\ td'.op.at = "connect" /\ td'.op.kind = "subscribe"
          /\ td'.op.symbol = s /\ td'.op.ws = t.made + 1
      BY <1>2, <2>1, <2>3, <2>4, AwaitIs
    <2>6. /\ td'.made = t.made + 1 /\ td'.ws = t.made + 1 /\ td'.connected = t.connected
          /\ td'.heartbeat = t.heartbeat /\ td'.interests = t.interests /\ td'.refs = t.refs
      BY <2>3, <2>5 DEF Same
    <2>7. ~t.connected /\ t.interests = {} /\ t.heartbeat = None /\ t.made \in Nat
      BY <1>2, <1>5, <2>2 DEF Same, TDHeld
    <2>8. TDLocal(td')
      BY <2>5, <2>6, <2>7 DEF TDLocal, TDHeld, TDPhase, None
    <2>9. TDRefs(td', tainted) /\ TDServed(td', sockets, tainted) /\ TDKnown(td', sockets, leaked)
      BY <1>2, <2>5, <2>6, <2>7 DEF Quiet, TDRefs, TDServed, TDKnown, Known
    <2>10. TDOrphans(td', tainted, leaked)
      BY <1>2, <2>6, <2>7 DEF Quiet, TDOrphans
    <2>11. TDNew(td') = {}
      BY <2>5 DEF TDNew
    <2>12. QED
      BY <1>1, <1>2, <2>6, <2>8, <2>9, <2>10, <2>11, TDInvIs DEF Same, Sound
  <1>6. QED
    BY <1>3, <1>4, <1>5 DEF TDSubscribe, Begun, Refused

LEMMA NotNew ==
  ASSUME NEW t, t.op.kind # "subscribe"
  PROVE  TDNew(t) = {}
  BY DEF TDNew

LEMMA TDUnsubscribeOK ==
  ASSUME TDInv, NEW s \in Symbols, TDUnsubscribe(s)
  PROVE  TDInv' /\ TDNew(td) = {} /\ TDNew(td') = {} /\ td'.interests = td.interests \ {s}
  <1> DEFINE t == Begun(td, "unsubscribe", s)
             w == [t EXCEPT !.interests = @ \ {s}]
             left == Unreferred(w, s)
  <1>1. td.op = Free /\ UNCHANGED <<sockets, orphans, lost, tainted, leaked>> /\ leaked \in BOOLEAN
    BY DEF TDUnsubscribe, TDInv
  <1>2. /\ Quiet(t, sockets, tainted, leaked) /\ Beats(t, leaked) /\ Same(t, td)
        /\ t.op.kind = "unsubscribe" /\ t.op.symbol = s /\ TDNew(td) = {}
    BY <1>1, BeginOK
  <1>3. td' = IF s \notin td.interests \/ s \notin td.known THEN Return(t, TRUE)
              ELSE IF td.refs[s] <= 1 /\ td.ws # None THEN Await(left, "unsubscribe")
              ELSE UnlessUsed(left)
    BY DEF TDUnsubscribe, Begun
  <1>4. td.interests \subseteq td.known /\ (s \in td.interests => td.ws # None)
    BY DEF TDInv, TDLocal, TDShape, TDHeld
  <1> HIDE DEF t
  <1>5. CASE s \notin td.interests
    <2>1. td' = Done(t) /\ MaySucceed(t)
      BY <1>2, <1>3, <1>5 DEF Done, MaySucceed
    <2>2. Sound(td', sockets, tainted, leaked) /\ td'.interests = t.interests /\ td'.op.kind = "unsubscribe"
      BY <1>2, <2>1, SucceedOK
    <2>3. QED
      BY <1>1, <1>2, <1>5, <2>2, TDInvIs, NotNew DEF Same
  <1>6. CASE s \in td.interests
    <2>1. /\ DOMAIN w = DOMAIN t /\ w.op = t.op /\ w.made = t.made /\ w.ws = t.ws /\ w.connected = t.connected
          /\ w.heartbeat = t.heartbeat /\ w.interests = t.interests \ {s} /\ w.known = t.known /\ w.refs = t.refs
      BY <1>2 DEF Quiet, TDShape
    <2>2. t.refs \in [Symbols -> Nat] /\ t.interests \subseteq t.known /\ t.known \subseteq Symbols
      BY <1>2 DEF Quiet, TDShape
    <2> HIDE DEF w
    <2>3. /\ DOMAIN left = DOMAIN t /\ left.op = t.op /\ left.made = t.made /\ left.ws = t.ws
          /\ left.connected = t.connected /\ left.heartbeat = t.heartbeat
          /\ left.interests = t.interests \ {s} /\ left.known \in {t.known \ {s}, t.known}
          /\ left.refs \in [Symbols -> Nat] /\ \A x \in Symbols \ {s} : left.refs[x] = t.refs[x]
          /\ t.refs[s] <= 1 => left.refs[s] = 0
      BY <1>2, <2>1, <2>2 DEF Unreferred, Quiet, TDShape
    <2> HIDE DEF left
    <2>4. TDShape(left)
      BY <1>2, <2>2, <2>3 DEF Quiet, TDShape
    <2>5. Quiet(left, sockets, tainted, leaked) /\ Beats(left, leaked)
      <3>1. ASSUME NEW x \in Symbols \ tainted PROVE left.refs[x] <= 1 /\ (left.refs[x] = 1 => x \in left.interests)
        <4>1. t.refs[x] <= 1 /\ (t.refs[x] = 1 => x \in t.interests)
          BY <1>2 DEF Quiet
        <4>2. QED
          BY <2>2, <2>3, <4>1
      <3>2. TDHeld(left) /\ TDServed(left, sockets, tainted) /\ TDOrphans(left, tainted, leaked)
        BY <1>2, <2>3 DEF Quiet, TDHeld, TDServed, TDOrphans
      <3>3. QED
        BY <1>2, <2>3, <2>4, <3>1, <3>2 DEF Quiet, Beats
    <2>6. CASE td.refs[s] <= 1
      <3>1. td' = Await(left, "unsubscribe")
        BY <1>3, <1>4, <1>6, <2>6
      <3>2. /\ Same(td', left) /\ TDShape(td') /\ td'.op.at = "unsubscribe" /\ td'.op.kind = "unsubscribe"
            /\ td'.op.symbol = s /\ td'.op.ws = left.ws
        BY <1>2, <2>3, <2>4, <3>1, AwaitIs
      <3>3. left.ws # None
        BY <1>2, <1>4, <1>6, <2>3 DEF Same
      <3>4. TDLocal(td')
        BY <2>3, <2>5, <3>2, <3>3 DEF Quiet, TDLocal, TDHeld, TDPhase, Same
      <3>5. /\ TDRefs(td', tainted) /\ TDServed(td', sockets, tainted) /\ TDKnown(td', sockets, leaked)
            /\ TDOrphans(td', tainted, leaked)
        BY <2>5, <3>2 DEF Quiet, Beats, TDRefs, TDServed, TDKnown, Known, TDOrphans, Same
      <3>6. td'.interests = td.interests \ {s}
        BY <1>2, <2>3, <3>2 DEF Same
      <3>7. QED
        BY <1>1, <1>2, <3>2, <3>4, <3>5, <3>6, TDInvIs, NotNew DEF Sound
    <2>7. CASE ~(td.refs[s] <= 1)
      <3>1. td' = UnlessUsed(left) /\ left.op.kind = "unsubscribe"
        BY <1>2, <1>3, <1>4, <1>6, <2>3, <2>7
      <3>2. Sound(td', sockets, tainted, leaked) /\ td'.interests = left.interests /\ td'.op.kind = "unsubscribe"
        BY <2>5, <3>1, UnlessUsedOK
      <3>3. td'.interests = td.interests \ {s}
        BY <1>2, <2>3, <3>2 DEF Same
      <3>4. QED
        BY <1>1, <1>2, <3>2, <3>3, TDInvIs, NotNew
    <2>8. QED
      BY <2>6, <2>7
  <1>7. QED
    BY <1>5, <1>6

LEMMA TDCloseOK ==
  ASSUME TDInv, TDClose
  PROVE  TDInv'
  <1> DEFINE t == Begun(td, "close", None)
             v == [td EXCEPT !.op = Operation("close", None), !.interests = {}, !.known = {},
                             !.refs = [s \in Symbols |-> 0]]
  <1>1. /\ td.op = Free /\ UNCHANGED <<sockets, orphans, lost, tainted, leaked>> /\ leaked \in BOOLEAN
        /\ td' = Disconnecting(v)
    BY DEF TDClose, TDInv
  <1>2. Quiet(t, sockets, tainted, leaked) /\ Beats(t, leaked) /\ t.op.kind = "close"
    BY <1>1, BeginOK
  <1>3. /\ DOMAIN v = DOMAIN t /\ v.op = t.op /\ v.made = t.made /\ v.ws = t.ws /\ v.connected = t.connected
        /\ v.heartbeat = t.heartbeat /\ v.interests = {} /\ v.known = {} /\ v.refs = [s \in Symbols |-> 0]
    BY DEF TDInv, TDLocal, TDShape, Begun
  <1> HIDE DEF t, v
  <1>4. TDShape(v)
    BY <1>2, <1>3 DEF Quiet, TDShape
  <1>5. Quiet(v, sockets, tainted, leaked) /\ Beats(v, leaked)
    BY <1>2, <1>3, <1>4 DEF Quiet, Beats, TDHeld, TDServed, TDOrphans
  <1>6. Sound(td', sockets, tainted, leaked)
    BY <1>1, <1>2, <1>3, <1>5, DisconnectingOK
  <1>7. QED
    BY <1>1, <1>6, TDInvIs

(* What a call that succeeds leaves of the sockets.                        *)
LEMMA EffectIs ==
  ASSUME NEW call, NEW e, e = Effect(call)
  PROVE  /\ call.at = "connect" => /\ DOMAIN e = DOMAIN sockets \cup {call.ws}
                                   /\ \A ws \in DOMAIN sockets : e[ws] = sockets[ws]
         /\ call.at = "disconnect" => /\ DOMAIN e = DOMAIN sockets \ {call.ws}
                                      /\ \A ws \in DOMAIN e : e[ws] = sockets[ws]
         /\ call.at = "heartbeat" => e = sockets
         /\ call.at = "subscribe" => /\ DOMAIN e = DOMAIN sockets
                                     /\ \A ws \in DOMAIN e : sockets[ws] \subseteq e[ws]
                                     /\ call.ws \in DOMAIN e => call.symbol \in e[call.ws]
         /\ call.at = "unsubscribe" => /\ DOMAIN e = DOMAIN sockets
                                       /\ \A ws \in DOMAIN e : sockets[ws] \ {call.symbol} \subseteq e[ws]
  BY DEF Effect

LEMMA ConnectOK ==
  ASSUME TDInv, td.op.at = "connect", NEW ok \in BOOLEAN, td' = Resume(td, ok),
         NEW sk, sk = IF ok THEN Effect(td.op) ELSE sockets
  PROVE  Sound(td', sk, tainted, leaked) /\ td'.interests = td.interests \cup TDNew(td')
  <1>1. Sound(td, sockets, tainted, leaked) /\ TDShape(td) /\ TDHeld(td) /\ TDPhase(td)
    BY DEF TDInv, Sound, TDLocal
  <1>2. Quiet(td, sockets, tainted, leaked) /\ Beats(td, leaked)
    BY <1>1, QuietIs DEF Same
  <1>3. td.op.kind = "subscribe" /\ td.op.symbol \in Symbols /\ td.op.ws = td.ws /\ td.ws # None /\ ~td.connected
    BY <1>1 DEF TDPhase
  <1>4. CASE ~ok
    <2>1. td' = Refused(td) /\ sk = sockets
      BY <1>4 DEF Resume, Refused
    <2>2. Sound(td', sk, tainted, leaked) /\ td'.interests = td.interests /\ ~td'.op.ok
      BY <1>2, <1>3, <2>1, FailOK DEF MayFail
    <2>3. QED
      BY <2>2 DEF TDNew
  <1>5. CASE ok
    <2> DEFINE v == [td EXCEPT !.connected = TRUE, !.heartbeat = td.ws]
               s == td.op.symbol
    <2>1. td' = Subscribing(v, s) /\ sk = Effect(td.op)
      BY <1>5 DEF Resume
    <2>2. /\ DOMAIN v = DOMAIN td /\ v.op = td.op /\ v.made = td.made /\ v.ws = td.ws /\ v.connected
          /\ v.heartbeat = td.ws /\ v.interests = td.interests /\ v.known = td.known /\ v.refs = td.refs
      BY <1>1 DEF TDShape
    <2>3. v.connected \in BOOLEAN
      BY <1>1 DEF TDShape
    <2> HIDE DEF v
    <2>4. TDShape(v)
      BY <1>1, <2>2, <2>3 DEF TDShape
    <2>5. DOMAIN sk = DOMAIN sockets \cup {td.ws} /\ \A ws \in DOMAIN sockets : sk[ws] = sockets[ws]
      <3>1. DOMAIN sk = DOMAIN sockets \cup {td.op.ws} /\ \A ws \in DOMAIN sockets : sk[ws] = sockets[ws]
        BY <2>1, EffectIs
      <3>2. QED
        BY <1>3, <3>1
    <2>6. td.interests = {}
      BY <1>1, <1>3 DEF TDHeld
    <2>7. Quiet(v, sk, tainted, leaked) /\ Beats(v, leaked)
      BY <1>2, <1>3, <2>2, <2>4, <2>5, <2>6 DEF Quiet, Beats, TDHeld, TDServed, TDOrphans
    <2>8. Sound(td', sk, tainted, leaked) /\ td'.interests = v.interests \cup TDNew(td')
      BY <1>3, <2>1, <2>2, <2>7, SubscribingOK
    <2>9. QED
      BY <2>2, <2>8
  <1>6. QED
    BY <1>4, <1>5

LEMMA SubscribedOK ==
  ASSUME TDInv, td.op.at = "subscribe", NEW ok \in BOOLEAN, td' = Resume(td, ok),
         NEW sk, sk = IF ok THEN Effect(td.op) ELSE sockets
  PROVE  Sound(td', sk, tainted, leaked) /\ td'.interests = td.interests \cup TDNew(td')
  <1>1. /\ Sound(td, sockets, tainted, leaked) /\ TDShape(td) /\ TDHeld(td) /\ TDPhase(td) /\ TDRefs(td, tainted)
        /\ TDServed(td, sockets, tainted) /\ TDKnown(td, sockets, leaked) /\ TDOrphans(td, tainted, leaked)
    BY DEF TDInv, Sound, TDLocal
  <1> DEFINE s == td.op.symbol
  <1>2. /\ td.op.kind = "subscribe" /\ s \in Symbols /\ td.op.ws = td.ws /\ td.ws # None /\ td.connected
        /\ s \in td.known
    BY <1>1 DEF TDPhase
  <1>3. CASE ok
    <2> DEFINE v == [td EXCEPT !.interests = @ \cup {s}]
    <2>1. td' = Done(v) /\ sk = Effect(td.op)
      BY <1>3 DEF Resume, Done
    <2>2. /\ DOMAIN v = DOMAIN td /\ v.op = td.op /\ v.made = td.made /\ v.ws = td.ws /\ v.connected = td.connected
          /\ v.heartbeat = td.heartbeat /\ v.interests = td.interests \cup {s} /\ v.known = td.known
          /\ v.refs = td.refs
      BY <1>1 DEF TDShape
    <2> HIDE DEF v
    <2>3. TDShape(v)
      BY <1>1, <1>2, <2>2 DEF TDShape
    <2>4. /\ DOMAIN sk = DOMAIN sockets /\ \A ws \in DOMAIN sk : sockets[ws] \subseteq sk[ws]
          /\ td.ws \in DOMAIN sk => s \in sk[td.ws]
      BY <1>2, <2>1, EffectIs
    <2>5. TDServed(v, sk, tainted) /\ TDHeld(v) /\ TDOrphans(v, tainted, leaked)
      BY <1>1, <1>2, <2>2, <2>4 DEF TDServed, TDHeld, TDOrphans
    <2>6. \A x \in Symbols \ tainted : v.refs[x] <= 1 /\ (v.refs[x] = 1 => x \in v.interests)
      BY <1>1, <2>2 DEF TDRefs
    <2>7. (~leaked => DOMAIN sk \subseteq IF v.connected THEN {v.ws} ELSE {}) /\ Beats(v, leaked)
      BY <1>1, <2>2, <2>4 DEF TDKnown, Known, Beats
    <2>8. Quiet(v, sk, tainted, leaked) /\ MaySucceed(v)
      BY <1>2, <2>2, <2>3, <2>5, <2>6, <2>7 DEF Quiet, MaySucceed
    <2>9. /\ Sound(td', sk, tainted, leaked) /\ td'.interests = v.interests /\ td'.op.kind = "subscribe"
          /\ td'.op.at = "done" /\ td'.op.ok /\ td'.op.symbol = s
      BY <1>2, <2>1, <2>2, <2>7, <2>8, SucceedOK
    <2>10. TDNew(td') = {s}
      BY <2>9 DEF TDNew
    <2>11. QED
      BY <2>2, <2>9, <2>10
  <1>4. CASE ~ok
    <2> DEFINE v == [td EXCEPT !.refs[s] = 0]
    <2>1. td' = Refused(v) /\ sk = sockets
      BY <1>4 DEF Resume, Refused
    <2>2. /\ DOMAIN v = DOMAIN td /\ v.op = td.op /\ v.made = td.made /\ v.ws = td.ws /\ v.connected = td.connected
          /\ v.heartbeat = td.heartbeat /\ v.interests = td.interests /\ v.known = td.known
          /\ v.refs = [td.refs EXCEPT ![s] = 0]
      BY <1>1 DEF TDShape
    <2> HIDE DEF v
    <2>3. TDShape(v)
      BY <1>1, <1>2, <2>2 DEF TDShape
    <2>4. \A x \in Symbols \ tainted : v.refs[x] <= 1 /\ (v.refs[x] = 1 => x \in v.interests)
      <3> SUFFICES ASSUME NEW x \in Symbols \ tainted PROVE v.refs[x] <= 1 /\ (v.refs[x] = 1 => x \in v.interests)
        OBVIOUS
      <3>1. td.refs[x] <= 1 /\ (td.refs[x] = 1 => x \in td.interests \/ x = s) /\ td.refs \in [Symbols -> Nat]
        BY <1>1 DEF TDRefs, TDShape
      <3>2. v.refs[x] = IF x = s THEN 0 ELSE td.refs[x]
        BY <2>2, <3>1
      <3>3. QED
        BY <2>2, <3>1, <3>2
    <2>5. Quiet(v, sk, tainted, leaked) /\ Beats(v, leaked) /\ MayFail(v)
      BY <1>1, <1>2, <2>1, <2>2, <2>3, <2>4
         DEF Quiet, Beats, MayFail, TDServed, TDHeld, TDOrphans, TDKnown, Known
    <2>6. Sound(td', sk, tainted, leaked) /\ td'.interests = v.interests /\ ~td'.op.ok
      BY <2>1, <2>5, FailOK
    <2>7. QED
      BY <2>2, <2>6 DEF TDNew
  <1>5. QED
    BY <1>3, <1>4

LEMMA UnsubscribedOK ==
  ASSUME TDInv, td.op.at = "unsubscribe", NEW ok \in BOOLEAN, td' = Resume(td, ok),
         NEW sk, sk = IF ok THEN Effect(td.op) ELSE sockets
  PROVE  Sound(td', sk, tainted, leaked) /\ td'.interests = td.interests \cup TDNew(td')
  <1>1. /\ Sound(td, sockets, tainted, leaked) /\ TDShape(td) /\ TDPhase(td) /\ TDServed(td, sockets, tainted)
        /\ TDHeld(td)
    BY DEF TDInv, Sound, TDLocal
  <1>2. Quiet(td, sockets, tainted, leaked) /\ Beats(td, leaked)
    BY <1>1, QuietIs DEF Same
  <1>3. DOMAIN sk = DOMAIN sockets /\ \A ws \in DOMAIN sk : sockets[ws] \ {td.op.symbol} \subseteq sk[ws]
    BY EffectIs
  <1>4. td.op.symbol \notin td.interests /\ td.op.kind # "subscribe"
    BY <1>1 DEF TDPhase
  <1>5. TDServed(td, sk, tainted)
    BY <1>1, <1>3, <1>4 DEF TDServed, TDHeld
  <1>6. Quiet(td, sk, tainted, leaked)
    BY <1>2, <1>3, <1>5 DEF Quiet
  <1>7. td' = UnlessUsed(td)
    BY DEF Resume
  <1>8. Sound(td', sk, tainted, leaked) /\ td'.interests = td.interests /\ td'.op.kind # "subscribe"
    BY <1>2, <1>4, <1>6, <1>7, UnlessUsedOK
  <1>9. QED
    BY <1>8, NotNew

LEMMA HeartbeatEndedOK ==
  ASSUME TDInv, td.op.at = "heartbeat", NEW ok \in BOOLEAN, td' = Resume(td, ok),
         NEW sk, sk = IF ok THEN Effect(td.op) ELSE sockets
  PROVE  Sound(td', sk, tainted, leaked) /\ td'.interests = td.interests \cup TDNew(td')
  <1>1. /\ TDShape(td) /\ TDHeld(td) /\ TDPhase(td) /\ TDRefs(td, tainted) /\ TDServed(td, sockets, tainted)
        /\ TDKnown(td, sockets, leaked) /\ TDOrphans(td, tainted, leaked)
    BY DEF TDInv, TDLocal
  <1>2. sk = sockets
    BY EffectIs
  <1>3. td.interests = {} /\ td.heartbeat = None /\ td.op.kind # "subscribe"
    BY <1>1 DEF TDPhase
  <1>4. Quiet(td, sk, tainted, leaked)
    BY <1>1, <1>2 DEF Quiet, TDRefs, TDKnown, Known
  <1>5. td' = Forget(td)
    BY DEF Resume
  <1>6. Sound(td', sk, tainted, leaked) /\ td'.interests = {} /\ td'.op.kind # "subscribe"
    BY <1>3, <1>4, <1>5, ForgetOK
  <1>7. QED
    BY <1>3, <1>6, NotNew

LEMMA DisconnectedOK ==
  ASSUME TDInv, td.op.at = "disconnect", NEW ok \in BOOLEAN, td' = Resume(td, ok),
         NEW sk, sk = IF ok THEN Effect(td.op) ELSE sockets,
         NEW lk, lk = (leaked \/ ~ok)
  PROVE  Sound(td', sk, tainted, lk) /\ td'.interests = td.interests \cup TDNew(td')
  <1>1. /\ TDShape(td) /\ TDHeld(td) /\ TDPhase(td) /\ TDRefs(td, tainted) /\ TDServed(td, sockets, tainted)
        /\ TDKnown(td, sockets, leaked) /\ TDOrphans(td, tainted, leaked)
    BY DEF TDInv, TDLocal
  <1>2. td.ws = None /\ td.interests = {} /\ td.op.kind # "subscribe" /\ ~td.connected
    BY <1>1 DEF TDPhase, TDHeld
  <1>3. ok => DOMAIN sk = DOMAIN sockets \ {td.op.ws}
    BY EffectIs
  <1>4. ~lk => DOMAIN sk = {}
    BY <1>1, <1>2, <1>3 DEF TDKnown, Known
  <1>5. TDOrphans(td, tainted, lk)
    BY <1>1 DEF TDOrphans
  <1>6. Quiet(td, sk, tainted, lk) /\ Beats(td, lk) /\ MaySucceed(td)
    BY <1>1, <1>2, <1>4, <1>5 DEF Quiet, Beats, MaySucceed, TDServed, TDRefs
  <1>7. td' = Done(td)
    BY DEF Resume, Done
  <1>8. Sound(td', sk, tainted, lk) /\ td'.interests = td.interests /\ td'.op.kind # "subscribe"
    BY <1>2, <1>6, <1>7, SucceedOK
  <1>9. QED
    BY <1>8, NotNew

LEMMA TDResumeOK ==
  ASSUME TDInv, TDResume
  PROVE  TDInv' /\ TDNew(td) = {} /\ td'.interests = td.interests \cup TDNew(td')
  <1>1. PICK ok \in BOOLEAN :
          /\ td' = Resume(td, ok)
          /\ sockets' = IF ok THEN Effect(td.op) ELSE sockets
          /\ leaked' = (leaked \/ (~ok /\ td.op.at = "disconnect"))
    BY DEF TDResume
  <1>2. UNCHANGED <<orphans, lost, tainted>> /\ leaked' \in BOOLEAN
    BY <1>1 DEF TDResume
  <1>3. td.op.at # "done" /\ TDNew(td) = {}
    BY DEF TDResume, Waits, TDNew
  <1>4. CASE td.op.at \in {"connect", "subscribe", "unsubscribe", "heartbeat"}
    <2>1. leaked' = leaked
      BY <1>1, <1>4 DEF TDInv
    <2>2. Sound(td', sockets', tainted, leaked) /\ td'.interests = td.interests \cup TDNew(td')
      BY <1>1, <1>4, ConnectOK, SubscribedOK, UnsubscribedOK, HeartbeatEndedOK
    <2>3. QED
      BY <1>2, <1>3, <2>1, <2>2, TDInvIs
  <1>5. CASE td.op.at = "disconnect"
    <2>1. leaked' = (leaked \/ ~ok)
      BY <1>1, <1>5
    <2>2. Sound(td', sockets', tainted, leaked') /\ td'.interests = td.interests \cup TDNew(td')
      BY <1>1, <1>5, <2>1, DisconnectedOK
    <2>3. QED
      BY <1>2, <1>3, <2>2, TDInvIs
  <1>6. QED
    BY <1>4, <1>5 DEF TDResume, Waits

(* An operation that is cancelled leaves its call behind.                  *)
LEMMA TDCancelOK ==
  ASSUME TDInv, TDCancel
  PROVE  TDInv' /\ TDNew(td) = {} /\ TDNew(td') = {} /\ td'.interests = td.interests
  <1> DEFINE t == Refused(td)
  <1>1. /\ TDShape(td) /\ TDHeld(td) /\ TDPhase(td) /\ TDRefs(td, tainted) /\ TDServed(td, sockets, tainted)
        /\ TDKnown(td, sockets, leaked) /\ TDOrphans(td, tainted, leaked) /\ leaked \in BOOLEAN
    BY DEF TDInv, TDLocal
  <1>2. td.op.at \in {"connect", "subscribe", "unsubscribe", "heartbeat", "disconnect"}
    BY DEF TDCancel, Waits
  <1>3. /\ Same(t, td) /\ TDShape(t) /\ t.op.at = "done" /\ ~t.op.ok /\ t.op.kind = td.op.kind
        /\ t.op.symbol = td.op.symbol
    <2>1. FALSE \in BOOLEAN
      OBVIOUS
    <2>2. QED
      BY <1>1, <2>1, ReturnIs, Zenon DEF Refused
  <1>4. td' = t
    <2>1. DOMAIN td' = DOMAIN td /\ td'.op = t.op /\ \A f \in DOMAIN td \ {"op"} : td'[f] = td[f]
      BY <1>1 DEF TDCancel, TDShape, Refused
    <2>2. DOMAIN t = DOMAIN td /\ \A f \in DOMAIN td \ {"op"} : t[f] = td[f]
      BY <1>1 DEF TDShape, Refused, Return
    <2>3. td' = [f \in DOMAIN td' |-> td'[f]] /\ t = [f \in DOMAIN t |-> t[f]]
      BY DEF TDCancel, Refused, Return
    <2> HIDE DEF t
    <2>4. QED
      BY <2>1, <2>2, <2>3
  <1> HIDE DEF t
  <1>5. /\ orphans' = IF td.op.at = "heartbeat" THEN orphans ELSE orphans \cup {td.op}
        /\ tainted' = IF td.op.at \in {"subscribe", "unsubscribe"} THEN tainted \cup {td.op.symbol} ELSE tainted
        /\ leaked' = (leaked \/ td.op.at \in {"connect", "heartbeat", "disconnect"})
        /\ sockets' = sockets /\ lost' = lost
    BY DEF TDCancel
  <1>6. TDLocal(td')
    BY <1>1, <1>3, <1>4 DEF TDLocal, TDHeld, TDPhase, Same
  <1>7. TDRefs(td', tainted')
    BY <1>1, <1>3, <1>4, <1>5 DEF TDRefs, Same
  <1>8. TDServed(td, sockets, tainted)'
    BY <1>1, <1>3, <1>4, <1>5 DEF TDServed, Same
  <1>9. TDKnown(td', sockets', leaked')
    BY <1>1, <1>3, <1>4, <1>5 DEF TDKnown, Known, Same
  <1>10. TDOrphans(td, tainted, leaked)'
    <2> SUFFICES ASSUME NEW call \in orphans'
                 PROVE  /\ call.ws \in 1 .. td'.made
                        /\ call.at = "disconnect" => call.ws # td'.ws
                        /\ call.at \in {"connect", "disconnect"} => leaked'
                        /\ call.at \in {"connect", "subscribe", "unsubscribe", "disconnect"}
                        /\ call.at = "unsubscribe" => call.symbol \in tainted'
      BY DEF TDOrphans
    <2>1. td'.made = td.made /\ td'.ws = td.ws /\ td.made \in Nat
      BY <1>1, <1>3, <1>4 DEF Same, TDShape
    <2>2. CASE call \in orphans
      BY <1>1, <1>5, <2>1, <2>2 DEF TDOrphans
    <2>3. CASE call = td.op /\ td.op.at # "heartbeat"
      <3>1. td.op.ws # None /\ td.op.ws \in 0 .. td.made
        BY <1>1, <1>2, <2>3 DEF TDPhase, TDShape
      <3>2. td.op.ws \in 1 .. td.made
        BY <2>1, <3>1 DEF None
      <3>3. QED
        BY <1>1, <1>2, <1>5, <2>1, <2>3, <3>1, <3>2 DEF TDPhase
    <2>4. QED
      BY <1>5, <2>2, <2>3
  <1>11. leaked' \in BOOLEAN
    BY <1>1, <1>5
  <1>12. TDNew(td) = {} /\ TDNew(td') = {}
    BY <1>2, <1>3, <1>4 DEF TDNew
  <1>13. QED
    BY <1>3, <1>4, <1>6, <1>7, <1>8, <1>9, <1>10, <1>11, <1>12 DEF TDInv, Same

(* A call that nobody waits for ends.                                      *)
LEMMA OrphanEndsOK ==
  ASSUME TDInv, OrphanEnds
  PROVE  TDInv'
  <1>1. PICK call \in orphans, ok \in BOOLEAN :
          orphans' = orphans \ {call} /\ sockets' = IF ok THEN Effect(call) ELSE sockets
    BY DEF OrphanEnds
  <1>2. UNCHANGED <<td, lost, tainted, leaked>>
    BY DEF OrphanEnds
  <1>3. /\ TDHeld(td) /\ TDServed(td, sockets, tainted) /\ TDKnown(td, sockets, leaked) /\ TDOrphans(td, tainted, leaked)
    BY DEF TDInv, TDLocal
  <1>4. /\ call.at = "disconnect" => call.ws # td.ws
        /\ call.at \in {"connect", "disconnect"} => leaked
        /\ call.at \in {"connect", "subscribe", "unsubscribe", "disconnect"}
        /\ call.at = "unsubscribe" => call.symbol \in tainted
    BY <1>1, <1>3 DEF TDOrphans
  <1>5. TDOrphans(td, tainted, leaked)'
    BY <1>1, <1>2, <1>3 DEF TDOrphans
  <1>6. CASE ~ok
    BY <1>1, <1>2, <1>5, <1>6 DEF TDInv, TDServed
  <1>7. CASE ok
    <2> DEFINE e == Effect(call)
    <2>1. sockets' = e
      BY <1>1, <1>7
    <2>2. /\ call.at = "connect" => /\ DOMAIN e = DOMAIN sockets \cup {call.ws}
                                    /\ \A ws \in DOMAIN sockets : e[ws] = sockets[ws]
          /\ call.at = "disconnect" => /\ DOMAIN e = DOMAIN sockets \ {call.ws}
                                       /\ \A ws \in DOMAIN e : e[ws] = sockets[ws]
          /\ call.at = "heartbeat" => e = sockets
          /\ call.at = "subscribe" => /\ DOMAIN e = DOMAIN sockets
                                      /\ \A ws \in DOMAIN e : sockets[ws] \subseteq e[ws]
          /\ call.at = "unsubscribe" => /\ DOMAIN e = DOMAIN sockets
                                        /\ \A ws \in DOMAIN e : sockets[ws] \ {call.symbol} \subseteq e[ws]
      BY EffectIs
    <2> HIDE DEF e
    <2>3. TDServed(td, e, tainted) /\ TDKnown(td, e, leaked)
      BY <1>3, <1>4, <2>2 DEF TDServed, TDHeld, TDKnown
    <2>4. QED
      BY <1>2, <1>5, <2>1, <2>3 DEF TDInv, TDServed
  <1>8. QED
    BY <1>6, <1>7

(* A socket that is lost is closed, and excused.                           *)
LEMMA TDLostOK ==
  ASSUME TDInv, TDLost
  PROVE  TDInv' /\ td' = td
  <1>1. PICK ws \in DOMAIN sockets :
          /\ sockets' = [open \in DOMAIN sockets \ {ws} |-> sockets[open]]
          /\ lost' = lost \cup ({ws} \cap {td.ws})
    BY DEF TDLost
  <1>2. UNCHANGED <<td, orphans, tainted, leaked>>
    BY DEF TDLost
  <1>3. TDServed(td, sockets, tainted)'
    BY <1>1, <1>2 DEF TDInv, TDServed
  <1>4. TDKnown(td, sockets, leaked)'
    BY <1>1, <1>2 DEF TDInv, TDKnown, Known
  <1>5. TDOrphans(td, tainted, leaked)'
    BY <1>2 DEF TDInv, TDOrphans
  <1>6. QED
    BY <1>2, <1>3, <1>4, <1>5 DEF TDInv

(* Prices and heartbeats only fill the queue.                              *)
LEMMA QueuedOK ==
  ASSUME TDInv, NEW n, td' = [td EXCEPT !.queued = n], UNCHANGED <<sockets, orphans, lost, tainted, leaked>>
  PROVE  TDInv' /\ TDNew(td') = TDNew(td) /\ td'.interests = td.interests /\ td'.op = td.op
  <1>1. TDShape(td)
    BY DEF TDInv, TDLocal
  <1>2. Same(td', td) /\ DOMAIN td' = DOMAIN td /\ td'.op = td.op
    BY <1>1 DEF Same, TDShape
  <1>3. TDLocal(td')
    BY <1>2 DEF TDInv, TDLocal, TDShape, TDHeld, TDPhase, Same
  <1>4. TDRefs(td', tainted) /\ TDServed(td', sockets, tainted) /\ TDKnown(td', sockets, leaked)
    BY <1>2 DEF TDInv, TDRefs, TDServed, TDKnown, Known, Same
  <1>5. TDOrphans(td', tainted, leaked)
    BY <1>2 DEF TDInv, TDOrphans, Same
  <1>6. Sound(td', sockets', tainted', leaked') /\ leaked' \in BOOLEAN
    BY <1>3, <1>4, <1>5 DEF Sound, TDInv
  <1>7. QED
    BY <1>2, <1>6, TDInvIs DEF Same, TDNew

LEMMA TDPutOK ==
  ASSUME TDInv, TDPrice \/ TDHeartbeatFails
  PROVE  TDInv' /\ TDNew(td') = TDNew(td) /\ td'.interests = td.interests /\ td'.op = td.op
  <1>1. td' = Put(td) /\ UNCHANGED <<sockets, orphans, lost, tainted, leaked>>
    BY DEF TDPrice, TDHeartbeatFails
  <1>2. CASE td.queued < Capacity
    BY <1>1, <1>2, QueuedOK DEF Put
  <1>3. CASE ~(td.queued < Capacity)
    <2>1. td' = td
      BY <1>1, <1>3 DEF Put
    <2>2. Sound(td', sockets', tainted', leaked') /\ leaked' \in BOOLEAN
      BY <1>1, <2>1 DEF TDInv, Sound
    <2>3. QED
      BY <1>1, <2>1, <2>2, TDInvIs
  <1>4. QED
    BY <1>2, <1>3

LEMMA TDReturnsOK ==
  ASSUME TDInv, TDReturns
  PROVE  TDInv' /\ TDNew(td') = {} /\ td'.interests = td.interests
  <1>1. /\ TDShape(td) /\ TDHeld(td) /\ TDRefs(td, tainted) /\ TDServed(td, sockets, tainted)
        /\ TDKnown(td, sockets, leaked) /\ TDOrphans(td, tainted, leaked) /\ leaked \in BOOLEAN
    BY DEF TDInv, TDLocal
  <1>2. td.op.at = "done" /\ UNCHANGED <<sockets, orphans, lost, tainted, leaked>>
    BY DEF TDReturns
  <1>3. Same(td', td) /\ DOMAIN td' = DOMAIN td /\ td'.op = Free
    BY <1>1 DEF TDReturns, Same, TDShape
  <1>4. /\ DOMAIN Free = {"kind", "symbol", "at", "ws", "ok"} /\ Free.kind = "free" /\ Free.at = "free"
        /\ Free.ws = 0 /\ Free.ok \in BOOLEAN
    BY DEF Free, None
  <1>5. TDShape(td')
    BY <1>1, <1>3, <1>4 DEF TDShape, Same
  <1>6. TDLocal(td')
    BY <1>1, <1>3, <1>4, <1>5 DEF TDLocal, TDHeld, TDPhase, Same
  <1>7. TDRefs(td', tainted) /\ TDServed(td', sockets, tainted) /\ TDKnown(td', sockets, leaked)
    BY <1>1, <1>2, <1>3, <1>4 DEF TDRefs, TDServed, TDKnown, Known, Same
  <1>8. TDOrphans(td', tainted, leaked)
    BY <1>1, <1>3 DEF TDOrphans, Same
  <1>9. TDNew(td') = {}
    BY <1>3, <1>4 DEF TDNew
  <1>10. QED
    BY <1>1, <1>2, <1>3, <1>6, <1>7, <1>8, <1>9, TDInvIs DEF Sound, Same

-----------------------------------------------------------------------------
(* The steps of Binance.                                                   *)
LEMMA BNReturnIs ==
  ASSUME NEW b, BNShape(b), NEW ok \in BOOLEAN, NEW u, u = BNReturn(b, ok)
  PROVE  /\ BNShape(u) /\ u.handles = b.handles /\ u.op.at = "done" /\ u.op.ok = ok /\ u.op.rest = {}
         /\ u.op.kind = b.op.kind /\ u.op.pair = b.op.pair /\ u.connected = b.connected
  BY DEF BNReturn, BNShape

LEMMA BNAwaitIs ==
  ASSUME NEW b, BNShape(b), NEW call, NEW u, u = BNAwait(b, call)
  PROVE  /\ BNShape(u) /\ u.handles = b.handles /\ u.op.at = call /\ u.op.ok = b.op.ok /\ u.op.rest = b.op.rest
         /\ u.op.kind = b.op.kind /\ u.op.pair = b.op.pair /\ u.connected = b.connected
  BY DEF BNAwait, BNShape

BNDone(b) == BNReturn(b, TRUE)
BNRefused(b) == BNReturn(b, FALSE)

LEMMA BNDoneIs ==
  ASSUME NEW b, BNShape(b), NEW u, u = BNDone(b)
  PROVE  /\ BNShape(u) /\ u.handles = b.handles /\ u.op.at = "done" /\ u.op.ok /\ u.op.rest = {}
         /\ u.op.kind = b.op.kind /\ u.op.pair = b.op.pair
  BY DEF BNDone, BNReturn, BNShape

LEMMA BNRefusedIs ==
  ASSUME NEW b, BNShape(b), NEW u, u = BNRefused(b)
  PROVE  /\ BNShape(u) /\ u.handles = b.handles /\ u.op.at = "done" /\ ~u.op.ok /\ u.op.rest = {}
         /\ u.op.kind = b.op.kind /\ u.op.pair = b.op.pair
  BY DEF BNRefused, BNReturn, BNShape

(* An operation that ends changes nothing but itself.                      *)
LEMMA BNEndOK ==
  ASSUME NEW b, BNLocal(b), NEW st, NEW cu, BNServed(b, st, cu),
         NEW u, BNShape(u), u.handles = b.handles, u.op.at = "done", u.op.rest = {},
         u.op.kind = "subscribe" => u.op.pair \in Pairs /\ (u.op.ok => u.op.pair \in b.handles)
  PROVE  BNLocal(u) /\ BNServed(u, st, cu)
  BY DEF BNLocal, BNServed

LEMMA ClosingOK ==
  ASSUME NEW b, BNShape(b), BNLocal(b), b.handles = {}, b.op.kind # "subscribe", b.op.at # "ticker",
         NEW cu, BNServed(b, streams, cu), NEW u, u = Closing(b)
  PROVE  BNShape(u) /\ BNLocal(u) /\ BNServed(u, streams, cu) /\ u.handles = {} /\ u.op.kind = b.op.kind
  <1>1. CASE ~b.connected /\ ~streams.open
    <2>1. u = BNDone(b)
      BY <1>1 DEF Closing, BNDone
    <2>2. BNShape(u) /\ u.handles = b.handles /\ u.op.at = "done" /\ u.op.rest = {} /\ u.op.kind = b.op.kind
      BY <2>1, BNDoneIs
    <2>3. QED
      BY <2>2, BNEndOK
  <1>2. CASE ~(~b.connected /\ ~streams.open)
    <2>1. u = BNAwait(b, "close")
      BY <1>2 DEF Closing
    <2>2. BNShape(u) /\ u.handles = b.handles /\ u.op.at = "close" /\ u.op.rest = b.op.rest /\ u.op.kind = b.op.kind
      BY <2>1, BNAwaitIs
    <2>3. QED
      BY <2>2 DEF BNLocal, BNServed
  <1>3. QED
    BY <1>1, <1>2

BNBegun(b, kind, p) == [b EXCEPT !.op = [BNFree EXCEPT !.kind = kind, !.pair = p]]

LEMMA BNBegunIs ==
  ASSUME NEW b, BNShape(b), NEW kind, NEW p, NEW u, u = BNBegun(b, kind, p)
  PROVE  /\ BNShape(u) /\ u.handles = b.handles /\ u.connected = b.connected /\ u.op.kind = kind
         /\ u.op.pair = p /\ u.op.at = "free" /\ u.op.rest = {}
  <1> DEFINE o == [BNFree EXCEPT !.kind = kind, !.pair = p]
  <1>1. /\ DOMAIN o = {"kind", "pair", "at", "ok", "rest"} /\ o.kind = kind /\ o.pair = p /\ o.at = "free"
        /\ o.rest = {}
    BY DEF BNFree
  <1>2. u = [b EXCEPT !.op = o]
    BY DEF BNBegun
  <1> HIDE DEF o
  <1>3. DOMAIN u = DOMAIN b /\ u.op = o /\ u.handles = b.handles /\ u.connected = b.connected
    BY <1>2 DEF BNShape
  <1>4. QED
    BY <1>1, <1>3 DEF BNShape

LEMMA BNSubscribeOK ==
  ASSUME BNInv, NEW p \in Pairs, BNSubscribe(p)
  PROVE  BNInv' /\ BNNew(bn) = {} /\ bn'.handles = bn.handles \cup BNNew(bn')
  <1> DEFINE b == BNBegun(bn, "subscribe", p)
  <1>1. BNShape(bn) /\ BNLocal(bn) /\ BNServed(bn, streams, cut) /\ UNCHANGED <<streams, cut>>
    BY DEF BNInv, BNSubscribe
  <1>2. BNNew(bn) = {}
    <2>1. bn.op = BNFree /\ BNFree.kind = "free"
      BY DEF BNSubscribe, BNFree
    <2>2. QED
      BY <2>1 DEF BNNew
  <1>3. /\ BNShape(b) /\ b.handles = bn.handles /\ b.connected = bn.connected /\ b.op.kind = "subscribe"
        /\ b.op.pair = p /\ b.op.at = "free" /\ b.op.rest = {}
    BY <1>1, BNBegunIs
  <1>4. bn' = IF p \in bn.handles THEN BNReturn(b, TRUE)
              ELSE BNAwait(b, IF bn.connected /\ streams.open THEN "ticker" ELSE "connect")
    BY DEF BNSubscribe, BNBegun
  <1> HIDE DEF b
  <1>5. CASE p \in bn.handles
    <2>1. bn' = BNDone(b)
      BY <1>4, <1>5 DEF BNDone
    <2>2. /\ BNShape(bn') /\ bn'.handles = bn.handles /\ bn'.op.at = "done" /\ bn'.op.ok /\ bn'.op.rest = {}
          /\ bn'.op.kind = "subscribe" /\ bn'.op.pair = p
      BY <1>3, <2>1, BNDoneIs
    <2>3. BNLocal(bn') /\ BNServed(bn', streams, cut)
      BY <1>1, <1>5, <2>2, BNEndOK
    <2>4. BNNew(bn') = {p}
      BY <2>2 DEF BNNew
    <2>5. QED
      BY <1>1, <1>2, <1>5, <2>2, <2>3, <2>4 DEF BNInv
  <1>6. CASE p \notin bn.handles
    <2> DEFINE call == IF bn.connected /\ streams.open THEN "ticker" ELSE "connect"
    <2>1. bn' = BNAwait(b, call)
      BY <1>4, <1>6
    <2>2. call \in {"connect", "ticker"} /\ (call = "ticker" => streams.open)
      OBVIOUS
    <2> HIDE DEF call
    <2>3. /\ BNShape(bn') /\ bn'.handles = bn.handles /\ bn'.op.at = call /\ bn'.op.rest = {}
          /\ bn'.op.kind = "subscribe" /\ bn'.op.pair = p
      BY <1>3, <2>1, BNAwaitIs
    <2>4. BNLocal(bn') /\ BNServed(bn', streams, cut)
      BY <1>1, <2>2, <2>3 DEF BNLocal, BNServed
    <2>5. BNNew(bn') = {}
      BY <2>2, <2>3 DEF BNNew
    <2>6. QED
      BY <1>1, <1>2, <2>3, <2>4, <2>5 DEF BNInv
  <1>7. QED
    BY <1>5, <1>6

LEMMA BNUnsubscribeOK ==
  ASSUME BNInv, NEW p \in Pairs, BNUnsubscribe(p)
  PROVE  BNInv' /\ BNNew(bn) = {} /\ BNNew(bn') = {} /\ bn'.handles = bn.handles \ {p}
  <1> DEFINE b == BNBegun(bn, "unsubscribe", p)
             v == [b EXCEPT !.handles = @ \ {p}, !.op.rest = {p}]
  <1>1. BNShape(bn) /\ BNLocal(bn) /\ BNServed(bn, streams, cut) /\ UNCHANGED streams /\ cut' = cut \ {p}
    BY DEF BNInv, BNUnsubscribe
  <1>2. BNNew(bn) = {}
    <2>1. bn.op = BNFree /\ BNFree.kind = "free"
      BY DEF BNUnsubscribe, BNFree
    <2>2. QED
      BY <2>1 DEF BNNew
  <1>3. /\ BNShape(b) /\ b.handles = bn.handles /\ b.op.kind = "unsubscribe" /\ b.op.at = "free"
    BY <1>1, BNBegunIs
  <1>4. bn' = IF p \in bn.handles THEN BNAwait(v, "unsubscribe") ELSE BNReturn(b, TRUE)
    BY DEF BNUnsubscribe, BNBegun
  <1> HIDE DEF b
  <1>5. BNShape(v) /\ v.handles = bn.handles \ {p} /\ v.op.rest = {p} /\ v.op.kind = "unsubscribe"
    BY <1>3 DEF BNShape
  <1> HIDE DEF v
  <1>6. /\ BNShape(bn') /\ bn'.handles = bn.handles \ {p} /\ bn'.op.at \in {"unsubscribe", "done"}
        /\ bn'.op.rest \subseteq {p} /\ bn'.op.kind = "unsubscribe"
    <2>1. CASE p \in bn.handles
      BY <1>4, <1>5, <2>1, BNAwaitIs
    <2>2. CASE p \notin bn.handles
      <3>1. bn' = BNDone(b)
        BY <1>4, <2>2 DEF BNDone
      <3>2. BNShape(bn') /\ bn'.handles = b.handles /\ bn'.op.at = "done" /\ bn'.op.rest = {} /\ bn'.op.kind = b.op.kind
        BY <1>3, <3>1, BNDoneIs
      <3>3. QED
        BY <1>3, <2>2, <3>2
    <2>3. QED
      BY <2>1, <2>2
  <1>7. BNLocal(bn') /\ BNServed(bn', streams, cut')
    BY <1>1, <1>6 DEF BNLocal, BNServed
  <1>8. BNNew(bn') = {}
    BY <1>6 DEF BNNew
  <1>9. QED
    BY <1>1, <1>2, <1>6, <1>7, <1>8 DEF BNInv

LEMMA BNCloseOK ==
  ASSUME BNInv, BNClose
  PROVE  BNInv'
  <1> DEFINE o == [BNFree EXCEPT !.kind = "close", !.rest = bn.handles]
             b == [bn EXCEPT !.op = o, !.handles = {}]
  <1>1. BNShape(bn) /\ BNLocal(bn) /\ BNServed(bn, streams, cut) /\ UNCHANGED streams
    BY DEF BNInv, BNClose
  <1>2. bn' = IF b.op.rest = {} THEN Closing(b) ELSE BNAwait(b, "unsubscribe")
    BY DEF BNClose
  <1>3. DOMAIN o = {"kind", "pair", "at", "ok", "rest"} /\ o.kind = "close" /\ o.at = "free"
    BY DEF BNFree
  <1> HIDE DEF o
  <1>4. BNShape(b) /\ b.handles = {} /\ b.op = o
    BY <1>1, <1>3 DEF BNShape
  <1> HIDE DEF b
  <1>5. BNLocal(b) /\ BNServed(b, streams, cut')
    BY <1>1, <1>3, <1>4 DEF BNLocal, BNServed
  <1>6. CASE b.op.rest = {}
    <2>1. bn' = Closing(b)
      BY <1>2, <1>6
    <2>2. BNShape(bn') /\ BNLocal(bn') /\ BNServed(bn', streams, cut')
      BY <1>3, <1>4, <1>5, <2>1, ClosingOK
    <2>3. QED
      BY <1>1, <2>2 DEF BNInv
  <1>7. CASE b.op.rest # {}
    <2>1. /\ BNShape(bn') /\ bn'.handles = {} /\ bn'.op.at = "unsubscribe" /\ bn'.op.kind = "close"
      BY <1>2, <1>3, <1>4, <1>7, BNAwaitIs
    <2>2. BNLocal(bn') /\ BNServed(bn', streams, cut')
      BY <1>1, <2>1 DEF BNLocal, BNServed
    <2>3. QED
      BY <1>1, <2>1, <2>2 DEF BNInv
  <1>8. QED
    BY <1>6, <1>7

(* A call returns or raises, and upstream has done it or not.              *)
LEMMA BNResumeOK ==
  ASSUME BNInv, BNResume
  PROVE  BNInv' /\ BNNew(bn) = {} /\ bn'.handles = bn.handles \cup BNNew(bn')
  <1>1. BNShape(bn) /\ BNLocal(bn) /\ BNServed(bn, streams, cut)
    BY DEF BNInv
  <1>2. BNNew(bn) = {}
    <2>1. bn.op.at # "done"
      BY DEF BNResume
    <2>2. QED
      BY <2>1 DEF BNNew
  <1>3. PICK ok \in BOOLEAN, done \in BOOLEAN :
          /\ ok => done
          /\ \/ /\ bn.op.at = "connect"
                /\ bn' = Connected(bn, ok)
                /\ streams' = [streams EXCEPT !.open = @ \/ done]
                /\ cut' = cut
             \/ /\ bn.op.at = "ticker"
                /\ bn' = Handled(bn, ok)
                /\ streams' = IF done /\ streams.open THEN [streams EXCEPT !.pairs = @ \cup {bn.op.pair}] ELSE streams
                /\ cut' = IF ok /\ ~streams.open THEN cut \cup {bn.op.pair} ELSE cut
             \/ /\ bn.op.at = "unsubscribe"
                /\ \E p \in bn.op.rest :
                     LET b == [bn EXCEPT !.op.rest = @ \ {p}] IN
                     /\ bn' = IF b.op.rest # {} THEN b
                            ELSE IF b.handles = {} THEN Closing(b) ELSE BNReturn(b, TRUE)
                     /\ streams' = IF done THEN [streams EXCEPT !.pairs = @ \ {p}] ELSE streams
                /\ cut' = cut
             \/ /\ bn.op.at = "close"
                /\ bn' = BNReturn([bn EXCEPT !.connected = FALSE], TRUE)
                /\ streams' = IF done THEN [open |-> FALSE, pairs |-> {}] ELSE streams
                /\ cut' = cut
    BY DEF BNResume
  <1>4. ASSUME bn.op.at = "connect", bn' = Connected(bn, ok),
               streams' = [streams EXCEPT !.open = @ \/ done], cut' = cut
        PROVE  BNInv' /\ bn'.handles = bn.handles \cup BNNew(bn')
    <2>1. /\ DOMAIN streams' = {"open", "pairs"} /\ streams'.pairs = streams.pairs
          /\ (streams.open => streams'.open) /\ (done => streams'.open)
      BY <1>1, <1>4 DEF BNServed
    <2>2. BNServed(bn, streams', cut)
      BY <1>1, <2>1 DEF BNServed
    <2>3. CASE ok
      <3> DEFINE v == [bn EXCEPT !.connected = TRUE]
      <3>1. bn' = BNAwait(v, "ticker")
        BY <1>4, <2>3 DEF Connected
      <3>2. BNShape(v) /\ v.handles = bn.handles /\ v.op = bn.op
        BY <1>1 DEF BNShape
      <3> HIDE DEF v
      <3>3. /\ BNShape(bn') /\ bn'.handles = bn.handles /\ bn'.op.at = "ticker" /\ bn'.op.rest = bn.op.rest
            /\ bn'.op.kind = bn.op.kind /\ bn'.op.pair = bn.op.pair
        BY <3>1, <3>2, BNAwaitIs
      <3>4. BNLocal(bn') /\ BNServed(bn', streams', cut) /\ BNNew(bn') = {}
        BY <1>1, <1>3, <1>4, <2>1, <2>2, <2>3, <3>3 DEF BNLocal, BNServed, BNNew
      <3>5. QED
        BY <1>4, <3>3, <3>4 DEF BNInv
    <2>4. CASE ~ok
      <3>1. bn' = BNRefused(bn)
        BY <1>4, <2>4 DEF Connected, BNRefused
      <3>2. /\ BNShape(bn') /\ bn'.handles = bn.handles /\ bn'.op.at = "done" /\ bn'.op.rest = {} /\ ~bn'.op.ok
            /\ bn'.op.kind = bn.op.kind /\ bn'.op.pair = bn.op.pair
        BY <1>1, <3>1, BNRefusedIs
      <3>3. BNLocal(bn') /\ BNServed(bn', streams', cut) /\ BNNew(bn') = {}
        BY <1>1, <1>4, <2>2, <3>2 DEF BNLocal, BNServed, BNNew
      <3>4. QED
        BY <1>4, <3>2, <3>3 DEF BNInv
    <2>5. QED
      BY <2>3, <2>4
  <1>5. ASSUME bn.op.at = "ticker", bn' = Handled(bn, ok),
               streams' = (IF done /\ streams.open THEN [streams EXCEPT !.pairs = @ \cup {bn.op.pair}] ELSE streams),
               cut' = (IF ok /\ ~streams.open THEN cut \cup {bn.op.pair} ELSE cut)
        PROVE  BNInv' /\ bn'.handles = bn.handles \cup BNNew(bn')
    <2> DEFINE p == bn.op.pair
    <2>1. bn.op.kind = "subscribe" /\ p \in Pairs
      BY <1>1, <1>5 DEF BNLocal
    <2>2. /\ DOMAIN streams' = {"open", "pairs"} /\ streams'.open = streams.open
          /\ streams.pairs \subseteq streams'.pairs /\ (done /\ streams.open => p \in streams'.pairs)
      BY <1>1, <1>5, <2>1 DEF BNServed
    <2>3. CASE ok
      <3> DEFINE v == [bn EXCEPT !.handles = @ \cup {p}]
      <3>1. bn' = BNDone(v) /\ cut' = (IF streams.open THEN cut ELSE cut \cup {p})
        BY <1>5, <2>3 DEF Handled, BNDone
      <3>2. BNShape(v) /\ v.handles = bn.handles \cup {p} /\ v.op = bn.op
        BY <1>1 DEF BNShape
      <3> HIDE DEF v
      <3>3. /\ BNShape(bn') /\ bn'.handles = bn.handles \cup {p} /\ bn'.op.at = "done" /\ bn'.op.rest = {} /\ bn'.op.ok
            /\ bn'.op.kind = "subscribe" /\ bn'.op.pair = p
        BY <2>1, <3>1, <3>2, BNDoneIs
      <3>4. BNLocal(bn') /\ BNServed(bn', streams', cut') /\ BNNew(bn') = {p}
        BY <1>1, <1>3, <2>1, <2>2, <2>3, <3>1, <3>3 DEF BNLocal, BNServed, BNNew
      <3>5. QED
        BY <3>3, <3>4 DEF BNInv
    <2>4. CASE ~ok
      <3>1. bn' = BNRefused(bn)
        BY <1>5, <2>4 DEF Handled, BNRefused
      <3>2. /\ BNShape(bn') /\ bn'.handles = bn.handles /\ bn'.op.at = "done" /\ bn'.op.rest = {} /\ ~bn'.op.ok
            /\ bn'.op.kind = bn.op.kind /\ bn'.op.pair = bn.op.pair
        BY <1>1, <3>1, BNRefusedIs
      <3>3. BNLocal(bn') /\ BNServed(bn', streams', cut') /\ BNNew(bn') = {}
        BY <1>1, <1>5, <2>1, <2>2, <2>4, <3>2 DEF BNLocal, BNServed, BNNew
      <3>4. QED
        BY <3>2, <3>3 DEF BNInv
    <2>5. QED
      BY <2>3, <2>4
  <1>6. ASSUME bn.op.at = "unsubscribe", NEW p \in bn.op.rest, NEW b, b = [bn EXCEPT !.op.rest = @ \ {p}],
               bn' = (IF b.op.rest # {} THEN b ELSE IF b.handles = {} THEN Closing(b) ELSE BNReturn(b, TRUE)),
               streams' = (IF done THEN [streams EXCEPT !.pairs = @ \ {p}] ELSE streams),
               cut' = cut
        PROVE  BNInv' /\ bn'.handles = bn.handles \cup BNNew(bn')
    <2>1. /\ BNShape(b) /\ b.handles = bn.handles /\ b.op.at = "unsubscribe" /\ b.op.rest = bn.op.rest \ {p}
          /\ b.op.kind = bn.op.kind
      BY <1>1, <1>6 DEF BNShape
    <2>2. bn.op.kind # "subscribe" /\ p \notin bn.handles
      BY <1>1, <1>6 DEF BNLocal
    <2>3. /\ DOMAIN streams' = {"open", "pairs"} /\ streams'.open = streams.open
          /\ streams.pairs \ {p} \subseteq streams'.pairs /\ cut \subseteq cut'
      BY <1>1, <1>6 DEF BNServed
    <2>4. BNLocal(b) /\ BNServed(b, streams', cut')
      BY <1>1, <2>1, <2>2, <2>3 DEF BNLocal, BNServed
    <2>5. CASE b.op.rest # {}
      <3>1. bn' = b
        BY <1>6, <2>5
      <3>2. QED
        BY <2>1, <2>2, <2>4, <3>1 DEF BNInv, BNNew
    <2>6. CASE b.op.rest = {} /\ b.handles = {}
      <3>1. bn' = Closing(b)
        BY <1>6, <2>6
      <3>2. BNServed(b, streams, {}) /\ BNLocal(b)
        BY <1>1, <2>1, <2>4, <2>6 DEF BNServed
      <3>3. BNShape(bn') /\ BNLocal(bn') /\ BNServed(bn', streams, {}) /\ bn'.handles = {} /\ bn'.op.kind = b.op.kind
        BY <2>1, <2>2, <2>6, <3>1, <3>2, ClosingOK
      <3>4. bn'.op.at # "ticker"
        BY <2>1, <2>2, <3>3 DEF BNLocal
      <3>5. BNServed(bn', streams', cut') /\ BNNew(bn') = {}
        BY <2>1, <2>2, <2>3, <3>3, <3>4 DEF BNServed, BNNew
      <3>6. QED
        BY <2>1, <2>6, <3>3, <3>5 DEF BNInv
    <2>7. CASE b.op.rest = {} /\ b.handles # {}
      <3>1. bn' = BNDone(b)
        BY <1>6, <2>7 DEF BNDone
      <3>2. /\ BNShape(bn') /\ bn'.handles = bn.handles /\ bn'.op.at = "done" /\ bn'.op.rest = {}
            /\ bn'.op.kind = bn.op.kind
        BY <2>1, <3>1, BNDoneIs
      <3>3. BNLocal(bn') /\ BNServed(bn', streams', cut') /\ BNNew(bn') = {}
        BY <2>1, <2>2, <2>4, <3>2 DEF BNLocal, BNServed, BNNew
      <3>4. QED
        BY <3>2, <3>3 DEF BNInv
    <2>8. QED
      BY <2>5, <2>6, <2>7
  <1>7. ASSUME bn.op.at = "close", bn' = BNReturn([bn EXCEPT !.connected = FALSE], TRUE),
               streams' = (IF done THEN [open |-> FALSE, pairs |-> {}] ELSE streams),
               cut' = cut
        PROVE  BNInv' /\ bn'.handles = bn.handles \cup BNNew(bn')
    <2> DEFINE v == [bn EXCEPT !.connected = FALSE]
    <2>1. bn' = BNDone(v)
      BY <1>7 DEF BNDone
    <2>2. BNShape(v) /\ v.handles = bn.handles /\ v.op = bn.op
      BY <1>1 DEF BNShape
    <2> HIDE DEF v
    <2>3. /\ BNShape(bn') /\ bn'.handles = bn.handles /\ bn'.op.at = "done" /\ bn'.op.rest = {}
          /\ bn'.op.kind = bn.op.kind
      BY <2>1, <2>2, BNDoneIs
    <2>4. bn.handles = {} /\ bn.op.kind # "subscribe"
      BY <1>1, <1>7 DEF BNLocal
    <2>5. DOMAIN streams' = {"open", "pairs"}
      BY <1>1, <1>7 DEF BNServed
    <2>6. BNLocal(bn') /\ BNServed(bn', streams', cut') /\ BNNew(bn') = {}
      BY <2>3, <2>4, <2>5 DEF BNLocal, BNServed, BNNew
    <2>7. QED
      BY <2>3, <2>6 DEF BNInv
  <1>8. QED
    BY <1>2, <1>3, <1>4, <1>5, <1>6, <1>7

LEMMA BNCancelOK ==
  ASSUME BNInv, BNCancel
  PROVE  BNInv' /\ BNNew(bn) = {} /\ BNNew(bn') = {} /\ bn'.handles = bn.handles
  <1> DEFINE v == [bn EXCEPT !.connected = @ /\ bn.op.at # "close"]
  <1>1. BNShape(bn) /\ BNLocal(bn) /\ BNServed(bn, streams, cut)
    BY DEF BNInv
  <1>2. bn' = BNRefused(v)
    BY DEF BNCancel, BNRefused
  <1>3. BNShape(v) /\ v.handles = bn.handles /\ v.op = bn.op
    BY <1>1 DEF BNShape
  <1> HIDE DEF v
  <1>4. /\ BNShape(bn') /\ bn'.handles = bn.handles /\ bn'.op.at = "done" /\ bn'.op.rest = {} /\ ~bn'.op.ok
        /\ bn'.op.kind = bn.op.kind /\ bn'.op.pair = bn.op.pair
    BY <1>2, <1>3, BNRefusedIs
  <1>5. BNLocal(bn')
    BY <1>1, <1>4 DEF BNLocal
  <1>6. BNServed(bn', streams', cut')
    <2>1. bn.op.at = "close" => bn.handles = {}
      BY <1>1 DEF BNLocal
    <2>2. cut' = cut /\ bn.op.rest \cap bn.handles = {}
      BY <1>1 DEF BNCancel, BNLocal
    <2>3. \/ streams' = streams
          \/ bn.op.at = "connect" /\ streams' = [streams EXCEPT !.open = TRUE]
          \/ bn.op.at = "ticker" /\ streams' = [streams EXCEPT !.pairs = @ \cup {p \in {bn.op.pair} : streams.open}]
          \/ bn.op.at = "unsubscribe" /\ streams' = [streams EXCEPT !.pairs = @ \ bn.op.rest]
          \/ bn.op.at = "close" /\ streams' = [open |-> FALSE, pairs |-> {}]
      BY DEF BNCancel
    <2>4. DOMAIN streams' = {"open", "pairs"}
      BY <1>1, <2>3 DEF BNServed
    <2>5. \A p \in bn.handles \ cut' : streams'.open /\ p \in streams'.pairs
      BY <1>1, <2>1, <2>2, <2>3 DEF BNServed
    <2>6. QED
      BY <1>4, <2>4, <2>5 DEF BNServed
  <1>7. bn.op.at # "done"
    BY DEF BNCancel
  <1>8. QED
    BY <1>4, <1>5, <1>6, <1>7 DEF BNInv, BNNew

(* A connection that is lost takes the streams of all handles along.       *)
LEMMA BNLostOK ==
  ASSUME BNInv, BNLost
  PROVE  BNInv' /\ bn' = bn
  <1>1. bn' = bn /\ streams' = [open |-> FALSE, pairs |-> {}] /\ cut' = bn.handles
    BY DEF BNLost
  <1>2. QED
    BY <1>1 DEF BNInv, BNServed

LEMMA BNQueuedOK ==
  ASSUME BNInv, NEW n, bn' = [bn EXCEPT !.queued = n], UNCHANGED <<streams, cut>>
  PROVE  BNInv' /\ BNNew(bn') = BNNew(bn) /\ bn'.handles = bn.handles /\ bn'.op = bn.op
  <1>1. BNShape(bn') /\ bn'.handles = bn.handles /\ bn'.op = bn.op
    BY DEF BNInv, BNShape
  <1>2. QED
    BY <1>1 DEF BNInv, BNLocal, BNServed, BNNew

LEMMA BNReturnsOK ==
  ASSUME BNInv, BNReturns
  PROVE  BNInv' /\ BNNew(bn') = {} /\ bn'.handles = bn.handles
  <1>1. BNShape(bn) /\ BNLocal(bn) /\ BNServed(bn, streams, cut) /\ UNCHANGED <<streams, cut>>
    BY DEF BNInv, BNReturns
  <1>2. DOMAIN bn' = DOMAIN bn /\ bn'.handles = bn.handles /\ bn'.op = BNFree
    BY <1>1 DEF BNReturns, BNShape
  <1>3. /\ DOMAIN BNFree = {"kind", "pair", "at", "ok", "rest"} /\ BNFree.kind = "free" /\ BNFree.at = "free"
        /\ BNFree.rest = {}
    BY DEF BNFree
  <1>4. QED
    BY <1>1, <1>2, <1>3 DEF BNInv, BNShape, BNLocal, BNServed, BNNew

-----------------------------------------------------------------------------
(* The router.                                                             *)
LEMMA Unmoved ==
  /\ TDInv /\ UNCHANGED tdVars => TDInv' /\ td' = td /\ TDNew(td') = TDNew(td)
  /\ BNInv /\ UNCHANGED bnVars => BNInv' /\ bn' = bn /\ BNNew(bn') = BNNew(bn)
  <1>1. ASSUME TDInv, UNCHANGED tdVars PROVE TDInv' /\ td' = td /\ TDNew(td') = TDNew(td)
    <2>1. td' = td /\ UNCHANGED <<sockets, orphans, lost, tainted, leaked>>
      BY <1>1 DEF tdVars
    <2>2. Sound(td', sockets', tainted', leaked') /\ leaked' \in BOOLEAN
      BY <1>1, <2>1 DEF TDInv, Sound
    <2>3. QED
      BY <2>1, <2>2, TDInvIs
  <1>2. ASSUME BNInv, UNCHANGED bnVars PROVE BNInv' /\ bn' = bn /\ BNNew(bn') = BNNew(bn)
    BY <1>2 DEF bnVars, BNInv
  <1>3. QED
    BY <1>1, <1>2

LEMMA InitRouterInv == Init => RouterInv
  <1> SUFFICES ASSUME Init PROVE RouterInv
    OBVIOUS
  <1>1. /\ td = [op |-> Free, made |-> 0, ws |-> None, connected |-> FALSE, heartbeat |-> None,
                 refs |-> [s \in Symbols |-> 0], known |-> {}, interests |-> {}, queued |-> 0]
        /\ sockets = [ws \in {} |-> {}] /\ orphans = {} /\ lost = {} /\ tainted = {} /\ leaked = FALSE
    BY DEF Init, TDInit
  <1>2. /\ DOMAIN td = {"op", "made", "ws", "connected", "heartbeat", "refs", "known", "interests", "queued"}
        /\ td.op = Free /\ td.made = 0 /\ td.ws = 0 /\ td.heartbeat = 0 /\ td.connected = FALSE
        /\ td.refs = [s \in Symbols |-> 0] /\ td.known = {} /\ td.interests = {}
    BY <1>1 DEF None
  <1>3. /\ DOMAIN Free = {"kind", "symbol", "at", "ws", "ok"} /\ Free.kind = "free" /\ Free.at = "free"
        /\ Free.ws = 0 /\ Free.ok \in BOOLEAN
    BY DEF Free, None
  <1>4. TDShape(td)
    <2>1. td.ws \in 0 .. td.made /\ td.op.ws \in 0 .. td.made /\ td.made \in Nat
      BY <1>2, <1>3
    <2>2. td.connected \in BOOLEAN /\ td.op.ok \in BOOLEAN
      BY <1>2, <1>3
    <2>3. td.refs \in [Symbols -> Nat]
      BY <1>2
    <2>4. QED
      BY <1>2, <1>3, <2>1, <2>2, <2>3 DEF TDShape
  <1>5. TDLocal(td)
    BY <1>2, <1>3, <1>4 DEF TDLocal, TDHeld, TDPhase, None
  <1>6. TDRefs(td, tainted) /\ TDServed(td, sockets, tainted) /\ TDKnown(td, sockets, leaked)
    BY <1>1, <1>2, <1>3 DEF TDRefs, TDServed, TDKnown
  <1>7. TDOrphans(td, tainted, leaked) /\ leaked \in BOOLEAN /\ TDNew(td) = {}
    BY <1>1, <1>2, <1>3 DEF TDOrphans, TDNew
  <1>8. /\ bn = [op |-> BNFree, handles |-> {}, connected |-> FALSE, queued |-> 0]
        /\ streams = [open |-> FALSE, pairs |-> {}] /\ cut = {}
    BY DEF Init, BNInit
  <1>9. /\ DOMAIN BNFree = {"kind", "pair", "at", "ok", "rest"} /\ BNFree.kind = "free" /\ BNFree.at = "free"
        /\ BNFree.rest = {}
    BY DEF BNFree
  <1>10. BNInv /\ BNNew(bn) = {} /\ bn.handles = {}
    BY <1>8, <1>9 DEF BNInv, BNShape, BNLocal, BNServed, BNNew
  <1>11. Agrees
    BY <1>2, <1>7, <1>10 DEF Agrees, Init
  <1>12. QED
    BY <1>5, <1>6, <1>7, <1>10, <1>11 DEF RouterInv, TDInv

LEMMA NextRouterInv == RouterInv /\ [Next]_vars => RouterInv'
  <1> SUFFICES ASSUME RouterInv, [Next]_vars PROVE RouterInv'
    OBVIOUS
  <1>1. TDInv /\ BNInv /\ Agrees
    BY DEF RouterInv
  <1>2. LockFree => TDNew(td) = {} /\ BNNew(bn) = {}
    BY DEF LockFree, TDNew, BNNew
  <1>3. td.interests \subseteq Symbols /\ bn.handles \subseteq Pairs
    BY <1>1 DEF TDInv, TDLocal, TDShape, BNInv, BNLocal
  <1>4. CASE Subscribe
    <2>1. ASSUME NEW s \in Symbols, TDSubscribe(s), UNCHANGED bnVars PROVE RouterInv'
      BY <1>1, <1>4, <2>1, TDSubscribeOK, Unmoved DEF RouterInv, Agrees, Subscribe
    <2>2. ASSUME NEW p \in Pairs, BNSubscribe(p), UNCHANGED tdVars PROVE RouterInv'
      BY <1>1, <1>4, <2>2, BNSubscribeOK, Unmoved DEF RouterInv, Agrees, Subscribe
    <2>3. QED
      BY <1>4, <2>1, <2>2 DEF Subscribe
  <1>5. CASE Unsubscribe
    <2>1. PICK i \in routed :
            /\ routed' = routed \ {i}
            /\ \/ i \in Symbols /\ TDUnsubscribe(i) /\ UNCHANGED bnVars
               \/ i \in Pairs /\ BNUnsubscribe(i) /\ UNCHANGED tdVars
      BY <1>5 DEF Unsubscribe
    <2>2. closed' = closed /\ ~closed /\ LockFree
      BY <1>5 DEF Unsubscribe
    <2>3. routed = td.interests \cup bn.handles
      BY <1>1, <1>2, <2>2 DEF Agrees
    <2>4. CASE i \in Symbols /\ TDUnsubscribe(i) /\ UNCHANGED bnVars
      <3>1. TDInv' /\ BNInv' /\ TDNew(td') = {} /\ BNNew(bn') = {} /\ bn' = bn
            /\ td'.interests = td.interests \ {i}
        BY <1>1, <1>2, <2>2, <2>4, TDUnsubscribeOK, Unmoved
      <3>2. i \notin bn.handles
        BY <1>3, <2>4, InterestsAssumption
      <3>3. QED
        BY <2>1, <2>3, <3>1, <3>2 DEF RouterInv, Agrees
    <2>5. CASE i \in Pairs /\ BNUnsubscribe(i) /\ UNCHANGED tdVars
      <3>1. TDInv' /\ BNInv' /\ TDNew(td') = {} /\ BNNew(bn') = {} /\ td' = td
            /\ bn'.handles = bn.handles \ {i}
        BY <1>1, <1>2, <2>2, <2>5, BNUnsubscribeOK, Unmoved
      <3>2. i \notin td.interests
        BY <1>3, <2>5, InterestsAssumption
      <3>3. QED
        BY <2>1, <2>3, <3>1, <3>2 DEF RouterInv, Agrees
    <2>6. QED
      BY <2>1, <2>4, <2>5
  <1>6. CASE Close
    BY <1>1, <1>6, Unmoved DEF RouterInv, Agrees, Close
  <1>7. CASE CloseProvider
    <2>1. closed'
      BY <1>7 DEF CloseProvider
    <2>2. TDInv' /\ BNInv'
      BY <1>1, <1>7, TDCloseOK, BNCloseOK, Unmoved DEF CloseProvider
    <2>3. QED
      BY <2>1, <2>2 DEF RouterInv, Agrees
  <1>8. CASE TDReturns
    <2>1. routed' = routed \cup TDNew(td)
      BY <1>8 DEF TDReturns, TDNew
    <2>2. TDInv' /\ TDNew(td') = {} /\ td'.interests = td.interests
      BY <1>1, <1>8, TDReturnsOK
    <2>3. BNInv' /\ bn' = bn /\ closed' = closed
      BY <1>1, <1>8, Unmoved DEF TDReturns
    <2>4. QED
      BY <1>1, <2>1, <2>2, <2>3 DEF RouterInv, Agrees
  <1>9. CASE BNReturns
    <2>1. routed' = routed \cup BNNew(bn)
      BY <1>9 DEF BNReturns, BNNew
    <2>2. BNInv' /\ BNNew(bn') = {} /\ bn'.handles = bn.handles
      BY <1>1, <1>9, BNReturnsOK
    <2>3. TDInv' /\ td' = td /\ closed' = closed
      BY <1>1, <1>9, Unmoved DEF BNReturns
    <2>4. QED
      BY <1>1, <2>1, <2>2, <2>3 DEF RouterInv, Agrees
  <1>10. CASE Forward
    <2>1. UNCHANGED <<sockets, orphans, lost, tainted, leaked, streams, cut>> /\ routed' = routed /\ closed' = closed
      BY <1>10 DEF Forward, routerVars
    <2>2. CASE td' = [td EXCEPT !.queued = @ - 1] /\ bn' = bn
      <3>1. TDInv' /\ TDNew(td') = TDNew(td) /\ td'.interests = td.interests
        BY <1>1, <2>1, <2>2, QueuedOK
      <3>2. BNInv'
        BY <1>1, <2>1, <2>2, Unmoved DEF bnVars
      <3>3. QED
        BY <1>1, <2>1, <2>2, <3>1, <3>2 DEF RouterInv, Agrees
    <2>3. CASE bn' = [bn EXCEPT !.queued = @ - 1] /\ td' = td
      <3>1. BNInv' /\ BNNew(bn') = BNNew(bn) /\ bn'.handles = bn.handles
        BY <1>1, <2>1, <2>3, BNQueuedOK
      <3>2. TDInv'
        BY <1>1, <2>1, <2>3, Unmoved DEF tdVars
      <3>3. QED
        BY <1>1, <2>1, <2>3, <3>1, <3>2 DEF RouterInv, Agrees
    <2>4. QED
      BY <1>10, <2>2, <2>3 DEF Forward
  <1>11. CASE Cancel
    <2>1. routed' = routed /\ closed' = closed
      BY <1>11 DEF Cancel
    <2>2. CASE TDCancel /\ UNCHANGED bnVars
      BY <1>1, <2>1, <2>2, TDCancelOK, Unmoved DEF RouterInv, Agrees
    <2>3. CASE BNCancel /\ UNCHANGED tdVars
      BY <1>1, <2>1, <2>3, BNCancelOK, Unmoved DEF RouterInv, Agrees
    <2>4. QED
      BY <1>11, <2>2, <2>3 DEF Cancel
  <1>12. CASE (TDResume \/ OrphanEnds \/ TDLost \/ TDPrice \/ TDHeartbeatFails) /\ UNCHANGED <<bnVars, routerVars>>
    <2>1. routed' = routed /\ closed' = closed /\ BNInv' /\ bn' = bn
      BY <1>1, <1>12, Unmoved DEF routerVars
    <2>2. CASE TDResume
      BY <1>1, <2>1, <2>2, TDResumeOK DEF RouterInv, Agrees
    <2>3. CASE OrphanEnds
      BY <1>1, <2>1, <2>3, OrphanEndsOK DEF RouterInv, Agrees, OrphanEnds
    <2>4. CASE TDPrice \/ TDHeartbeatFails
      BY <1>1, <2>1, <2>4, TDPutOK DEF RouterInv, Agrees
    <2>5. CASE TDLost
      BY <1>1, <2>1, <2>5, TDLostOK DEF RouterInv, Agrees
    <2>6. QED
      BY <1>12, <2>2, <2>3, <2>4, <2>5
  <1>13. CASE (BNResume \/ BNLost \/ BNPrice) /\ UNCHANGED <<tdVars, routerVars>>
    <2>1. routed' = routed /\ closed' = closed /\ TDInv' /\ td' = td
      BY <1>1, <1>13, Unmoved DEF routerVars
    <2>2. CASE BNResume
      BY <1>1, <2>1, <2>2, BNResumeOK DEF RouterInv, Agrees
    <2>3. CASE BNPrice
      <3>1. BNInv' /\ BNNew(bn') = BNNew(bn) /\ bn'.handles = bn.handles
        BY <1>1, <2>3, BNQueuedOK DEF BNPrice
      <3>2. QED
        BY <1>1, <2>1, <3>1 DEF RouterInv, Agrees
    <2>4. CASE BNLost
      BY <1>1, <2>1, <2>4, BNLostOK DEF RouterInv, Agrees
    <2>5. QED
      BY <1>13, <2>2, <2>3, <2>4
  <1>14. CASE UNCHANGED vars
    BY <1>1, <1>14, Unmoved DEF RouterInv, Agrees, vars, routerVars
  <1>15. QED
    BY <1>4, <1>5, <1>6, <1>7, <1>8, <1>9, <1>10, <1>11, <1>12, <1>13, <1>14 DEF Next

(* RouterInv holds in every state.                                         *)
THEOREM RouterCorrect == Spec => []RouterInv
  BY InitRouterInv, NextRouterInv, PTL DEF Spec

(* A symbol or a pair a provider has accepted is subscribed upstream, on   *)
(* the socket the provider has, unless that socket, or the connection that *)
(* had the stream of the pair, was lost upstream, or a call for the symbol *)
(* was cancelled: InterestsServed                                          *)
(* (twelvedata_market_data_stream.py:145-176, binance_spot_stream.py:58).  *)
THEOREM InterestsServedCorrect == Spec => []InterestsServed
  <1>1. RouterInv => InterestsServed
    <2> SUFFICES ASSUME RouterInv PROVE InterestsServed
      OBVIOUS
    <2>1. TDHeld(td) /\ TDServed(td, sockets, tainted) /\ BNServed(bn, streams, cut)
      BY DEF RouterInv, TDInv, TDLocal, BNInv
    <2>2. QED
      BY <2>1 DEF InterestsServed, TDHeld, TDServed, BNServed
  <1>2. QED
    BY <1>1, RouterCorrect, PTL

(* Twelve Data has one socket and one heartbeat, unless the start or the   *)
(* end of a connection was cancelled or failed: OneSocket                  *)
(* (twelvedata_market_data_stream.py:111, :197).                           *)
THEOREM OneSocketCorrect == Spec => []OneSocket
  <1>1. RouterInv => OneSocket
    <2> SUFFICES ASSUME RouterInv PROVE OneSocket
      OBVIOUS
    <2>1. TDHeld(td) /\ TDKnown(td, sockets, leaked)
      BY DEF RouterInv, TDInv, TDLocal
    <2>2. QED
      BY <2>1 DEF OneSocket, TDHeld, TDKnown, Known
  <1>2. QED
    BY <1>1, RouterCorrect, PTL

(* The router knows exactly the interests the providers hold: RouterAgrees *)
(* (stream_provider_router.py:32, :41).                                    *)
THEOREM RouterAgreesCorrect == Spec => []RouterAgrees
  <1>1. RouterInv => RouterAgrees
    BY DEF RouterInv, Agrees, RouterAgrees, LockFree, TDNew, BNNew
  <1>2. QED
    BY <1>1, RouterCorrect, PTL
=============================================================================
