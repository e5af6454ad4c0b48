------------------------- MODULE ClientDeliveryProofs -------------------------
(***************************************************************************)
(* For any number of clients, interests and any queue capacity: the types, *)
(* that an open client has been told the state of its registration, that   *)
(* no stream ends without a reason, and that the streams implement         *)
(* ClientStream.                                                           *)
(***************************************************************************)
EXTENDS ClientDelivery, SequenceTheorems, TLAPS

Entries == States \cup {"quote"}
Heard == States \cup {"none", "quote"}

-----------------------------------------------------------------------------
(* Sequences of entries.                                                   *)

(* A quote at the end leaves the last status what it was.                  *)
LEMMA QuoteKeepsStatus ==
  ASSUME NEW w \in Seq(Heard), NEW s \in States, LastStatus(w, s)
  PROVE  LastStatus(Append(w, "quote"), s)
  BY DEF LastStatus, Heard

(* A status at the end is the last one.                                    *)
LEMMA StatusIsLast ==
  ASSUME NEW w \in Seq(Heard), NEW s \in States
  PROVE  LastStatus(Append(w, s), s)
  BY DEF LastStatus, Heard

(* The first entry may go if a status follows it, or else the quote that   *)
(* follows it may.                                                         *)
LEMMA ShowKeepsStatus ==
  ASSUME NEW a \in Heard, NEW e \in Entries, NEW q \in Seq(Heard), NEW s \in States,
         LastStatus((<<a>> \o <<e>>) \o q, s)
  PROVE  LastStatus((<<IF e = "quote" THEN a ELSE e>> \o <<>>) \o q, s)
  <1> DEFINE b == IF e = "quote" THEN a ELSE e
             w == (<<a>> \o <<e>>) \o q
             v == (<<b>> \o <<>>) \o q
  <1>1. /\ Len(w) = Len(q) + 2 /\ Len(v) = Len(q) + 1 /\ Len(q) \in Nat
        /\ w[1] = a /\ w[2] = e /\ v[1] = b
        /\ \A j \in 2..Len(v) : v[j] = w[j + 1]
    OBVIOUS
  <1> HIDE DEF w, v
  <1>2. PICK k \in 1..Len(w) :
          w[k] = s /\ \A j \in 1..Len(w) : j > k => w[j] = "quote"
    <2>1. LastStatus(w, s)
      BY DEF w
    <2>2. QED
      BY <2>1 DEF LastStatus
  <1>3. \A j \in 2..Len(v) : j + 1 > k => v[j] = "quote"
    BY <1>1, <1>2
  <1>4. LastStatus(v, s)
    <2>1. CASE k > 2
      <3>1. k - 1 \in 2..Len(v) /\ v[k - 1] = w[(k - 1) + 1] /\ (k - 1) + 1 = k
        BY <1>1, <2>1
      <3>2. v[k - 1] = s
        BY <1>2, <3>1
      <3>3. \A j \in 1..Len(v) : j > k - 1 => v[j] = "quote"
        BY <1>1, <1>3, <2>1
      <3>4. QED
        BY <1>1, <3>1, <3>2, <3>3 DEF LastStatus
    <2>2. CASE k <= 2
      <3>1. v[1] = s
        BY <1>1, <1>2, <2>2 DEF b, States
      <3>2. \A j \in 1..Len(v) : j > 1 => v[j] = "quote"
        BY <1>1, <1>3, <2>2
      <3>3. QED
        BY <1>1, <3>1, <3>2 DEF LastStatus
    <2>3. QED
      BY <2>1, <2>2, <1>1
  <1>5. QED
    BY <1>4 DEF v

(* Appending to the queue appends to the whole.                            *)
LEMMA AppendMoves ==
  ASSUME NEW S, NEW p \in Seq(S), NEW q \in Seq(S), NEW e \in S
  PROVE  p \o Append(q, e) = Append(p \o q, e)
  OBVIOUS

-----------------------------------------------------------------------------
(* One registration.                                                       *)

(* A registration of the right type whose queue is within its capacity.    *)
Fits(r) == r \in Registrations /\ Len(r.queue) <= Capacity

(* Whoever has heard p and will hear the queue has then heard the state.   *)
Tells(p, r) == ~r.closed => LastStatus(p \o r.queue, r.state)

(* What a registration holds can be heard.                                 *)
LEMMA QueueIsHeard ==
  ASSUME NEW r, Fits(r)
  PROVE  r.queue \in Seq(Heard) /\ r.state \in States /\ r.closed \in BOOLEAN
  <1>1. r.queue \in Seq(Entries) /\ Entries \subseteq Heard
    BY DEF Fits, Registrations, Entries, Heard
  <1>2. r.queue \in Seq(Heard)
    BY <1>1, SeqMonotonic
  <1>3. QED
    BY <1>2 DEF Fits, Registrations

(* _enqueue keeps the registration well formed and changes only its queue, *)
(* or closes it with a reason.                                             *)
LEMMA EnqueueFits ==
  ASSUME NEW r, Fits(r), NEW e \in Entries
  PROVE  /\ Fits(Enqueue(r, e))
         /\ Enqueue(r, e).state = r.state
         /\ r.closed => Enqueue(r, e) = r
         /\ Enqueue(r, e).closed /\ ~r.closed => Enqueue(r, e).code = "1013"
         /\ ~Enqueue(r, e).closed => Enqueue(r, e).queue = Append(r.queue, e)
  <1>0. /\ r.queue \in Seq(Entries) /\ Len(r.queue) \in Nat /\ Len(r.queue) <= Capacity
        /\ Capacity \in Nat /\ r \in Registrations
    BY CapacityAssumption DEF Fits, Registrations, Entries
  <1>1. CASE r.closed
    BY <1>1 DEF Enqueue
  <1>2. CASE ~r.closed /\ Len(r.queue) < Capacity
    <2> DEFINE q == Append(r.queue, e)
    <2>1. Enqueue(r, e) = [r EXCEPT !.queue = q]
      BY <1>2 DEF Enqueue
    <2>2. q \in Seq(Entries) /\ Len(q) <= Capacity
      BY <1>0, <1>2
    <2> HIDE DEF q
    <2>3. [r EXCEPT !.queue = q] \in Registrations
      BY <1>0, <2>2 DEF Registrations, Entries
    <2>4. /\ [r EXCEPT !.queue = q].queue = q
          /\ [r EXCEPT !.queue = q].state = r.state
          /\ [r EXCEPT !.queue = q].closed = r.closed
      BY <1>0 DEF Registrations
    <2>5. QED
      BY <1>2, <2>1, <2>2, <2>3, <2>4 DEF Fits, q
  <1>3. CASE ~r.closed /\ ~(Len(r.queue) < Capacity)
    <2> DEFINE n == [r EXCEPT !.closed = TRUE, !.code = "1013"]
    <2>1. Enqueue(r, e) = n
      BY <1>3 DEF Enqueue
    <2>2. /\ n \in Registrations /\ n.closed = TRUE /\ n.code = "1013"
          /\ n.state = r.state /\ n.queue = r.queue
      BY <1>0 DEF Registrations, Codes
    <2>3. QED
      BY <1>0, <1>3, <2>1, <2>2 DEF Fits
  <1>4. QED
    BY <1>1, <1>2, <1>3

(* A quote, once queued, does not change what the client has been told.    *)
LEMMA EnqueueQuoteTells ==
  ASSUME NEW r, Fits(r), NEW p \in Seq(Heard), Tells(p, r)
  PROVE  Tells(p, Enqueue(r, "quote"))
  <1> DEFINE n == Enqueue(r, "quote")
  <1> SUFFICES ASSUME ~n.closed PROVE LastStatus(p \o n.queue, n.state)
    BY DEF Tells
  <1>1. /\ n.state = r.state /\ ~r.closed /\ n.queue = Append(r.queue, "quote")
    BY EnqueueFits DEF Entries
  <1>2. r.queue \in Seq(Heard) /\ r.state \in States
    BY QueueIsHeard
  <1>3. p \o n.queue = Append(p \o r.queue, "quote")
    <2>1. "quote" \in Heard
      BY DEF Heard
    <2>2. p \o Append(r.queue, "quote") = Append(p \o r.queue, "quote")
      BY <1>2, <2>1, AppendMoves
    <2>3. QED
      BY <1>1, <2>2
  <1>4. LastStatus(p \o r.queue, r.state) /\ p \o r.queue \in Seq(Heard)
    BY <1>1, <1>2 DEF Tells
  <1>5. QED
    BY <1>1, <1>2, <1>3, <1>4, QuoteKeepsStatus

(* After a change of state, an open registration tells the new state.      *)
LEMMA SetStateTells ==
  ASSUME NEW r, Fits(r), NEW s \in States, NEW p \in Seq(Heard)
  PROVE  /\ Fits(SetState(r, s))
         /\ Tells(p, SetState(r, s))
         /\ r.closed => /\ SetState(r, s).closed /\ SetState(r, s).code = r.code
                        /\ SetState(r, s).queue = r.queue
         /\ SetState(r, s).closed /\ ~r.closed => SetState(r, s).code = "1013"
  <1> DEFINE t == [r EXCEPT !.state = s]
             n == Enqueue(t, s)
  <1>1. Fits(t) /\ t.state = s /\ t.closed = r.closed /\ t.code = r.code /\ t.queue = r.queue
    BY DEF Fits, Registrations
  <1>2. /\ Fits(n) /\ n.state = s
        /\ t.closed => n = t
        /\ n.closed /\ ~t.closed => n.code = "1013"
        /\ ~n.closed => n.queue = Append(t.queue, s)
    BY <1>1, EnqueueFits DEF Entries
  <1>3. r.queue \in Seq(Heard)
    BY QueueIsHeard
  <1>4. Tells(p, n)
    <2> SUFFICES ASSUME ~n.closed PROVE LastStatus(p \o n.queue, n.state)
      BY DEF Tells
    <2>1. p \o n.queue = Append(p \o r.queue, s)
      <3>1. s \in Heard
        BY DEF Heard
      <3>2. p \o Append(r.queue, s) = Append(p \o r.queue, s)
        BY <1>3, <3>1, AppendMoves
      <3>3. QED
        BY <1>1, <1>2, <3>2
    <2>2. p \o r.queue \in Seq(Heard)
      BY <1>3
    <2>3. QED
      BY <1>2, <2>1, <2>2, StatusIsLast
  <1>5. QED
    BY <1>1, <1>2, <1>4 DEF SetState

(* A closed registration carries a reason.                                 *)
Reasoned(r) == r.closed => r.code # "1000"

(* What the manager may do to a registration: it still fits and tells the  *)
(* state to whoever has heard p, a close, if any, has a reason, and what is *)
(* closed accepts nothing.                                                 *)
Becomes(p, r, n) ==
  /\ Fits(n)
  /\ Tells(p, n)
  /\ Reasoned(r) => Reasoned(n)
  /\ r.closed => n.closed /\ n.queue = r.queue

(* A change of state is such a step.                                       *)
LEMMA SetStateBecomes ==
  ASSUME NEW r, Fits(r), NEW s \in States, NEW p \in Seq(Heard)
  PROVE  Becomes(p, r, SetState(r, s))
  BY SetStateTells, QueueIsHeard DEF Becomes, Reasoned

(* A quote is, whether or not it changes the state and whether or not the  *)
(* queue has room for it and for the status.                               *)
LEMMA QuotedBecomes ==
  ASSUME NEW r, Fits(r), NEW p \in Seq(Heard), Tells(p, r), NEW lag \in 0..MaxLag
  PROVE  Becomes(p, r, Quoted(r, lag))
  <1> DEFINE t == [r EXCEPT !.age = lag]
             q == Enqueue(t, "quote")
  <1>1. /\ Fits(t) /\ t.state = r.state /\ t.closed = r.closed /\ t.code = r.code
        /\ t.queue = r.queue
    <2>1. lag \in Never..MaxAge
      BY TimeAssumption DEF Never, MaxAge
    <2>2. QED
      BY <2>1 DEF Fits, Registrations
  <1>2. Tells(p, t)
    BY <1>1 DEF Tells
  <1>3. /\ Fits(q) /\ Tells(p, q)
        /\ t.closed => q = t
        /\ q.closed /\ ~t.closed => q.code = "1013"
    BY <1>1, <1>2, EnqueueFits, EnqueueQuoteTells DEF Entries
  <1>4. Becomes(p, r, q)
    BY <1>1, <1>3, QueueIsHeard DEF Becomes, Reasoned
  <1>5. Becomes(p, q, SetState(q, "SUBSCRIBED"))
    BY <1>3, SetStateBecomes DEF States
  <1> HIDE DEF q
  <1>6. Becomes(p, r, SetState(q, "SUBSCRIBED"))
    BY <1>4, <1>5 DEF Becomes
  <1>7. QED
    BY <1>4, <1>6 DEF Quoted, q

(* An ERROR is: the registration is closed for it.                         *)
LEMMA FailedBecomes ==
  ASSUME NEW r, Fits(r), NEW p \in Seq(Heard)
  PROVE  Becomes(p, r, Failed(r))
  <1> DEFINE n == SetState(r, "ERROR")
  <1>1. Fits(n) /\ (r.closed => n.queue = r.queue)
    BY SetStateTells DEF States
  <1> HIDE DEF n
  <1>2. LET f == [n EXCEPT !.code = "1011", !.closed = TRUE]
        IN Fits(f) /\ f.closed = TRUE /\ f.code = "1011" /\ f.queue = n.queue
    BY <1>1 DEF Fits, Registrations, Codes
  <1>3. QED
    BY <1>1, <1>2 DEF Failed, Becomes, Tells, Reasoned, n

(* Any event the consumer can have in hand is.                             *)
LEMMA HandledBecomes ==
  ASSUME NEW r, Fits(r), NEW p \in Seq(Heard), Tells(p, r), NEW lag \in 0..MaxLag,
         NEW e \in ProviderEvents
  PROVE  Becomes(p, r, Handled(r, e, lag))
  <1>1. e.kind \in {"quote", "RECONNECTING", "ERROR"}
    BY DEF ProviderEvents
  <1>2. CASE e.kind = "quote"
    BY <1>2, QuotedBecomes DEF Handled
  <1>3. CASE e.kind = "RECONNECTING"
    BY <1>3, SetStateBecomes DEF Handled, States
  <1>4. CASE e.kind = "ERROR"
    BY <1>4, FailedBecomes DEF Handled
  <1>5. QED
    BY <1>1, <1>2, <1>3, <1>4

(* The monitor's verdict is.                                               *)
LEMMA AgedBecomes ==
  ASSUME NEW r, Fits(r), NEW p \in Seq(Heard), Tells(p, r), NEW lag \in 0..MaxLag
  PROVE  Becomes(p, r, Aged(r, lag))
  <1>1. Becomes(p, r, r)
    BY DEF Becomes
  <1>2. Becomes(p, r, SetState(r, "STALE"))
    BY SetStateBecomes DEF States
  <1>3. QED
    BY <1>1, <1>2 DEF Aged

-----------------------------------------------------------------------------
(* The invariant, client by client.                                        *)

(* The sequence that client c has heard.                                   *)
HeardBy(c) == <<shown[c]>> \o outgoing[c]

Local(c) ==
  /\ Fits(reg[c])
  /\ sender[c] \in {"none", "waiting", "sending", "done"}
  /\ outgoing[c] \in {<<>>} \cup {<<e>> : e \in Entries}
  /\ handler[c] \in {"new", "receiving", "unregistering", "gone"}
  /\ socket[c] \in {"open", "left", "abandoned"} \cup Codes
  /\ shown[c] \in States \cup {"none"}
  /\ c \in clients => handler[c] \in {"receiving", "unregistering"}
  /\ sender[c] = "none" <=> handler[c] = "new"
  /\ sender[c] = "none" => shown[c] = "none" /\ outgoing[c] = <<>>
  /\ sender[c] = "waiting" => outgoing[c] = <<>>
  /\ sender[c] = "sending" => outgoing[c] # <<>>
  /\ sender[c] = "done" => reg[c].closed
  /\ handler[c] = "gone" => sender[c] = "done"
  /\ handler[c] \in {"receiving", "unregistering"} => c \in clients \/ reg[c].closed
  /\ sender[c] # "done" => Reasoned(reg[c])
  /\ socket[c] # "1000"
  /\ socket[c] \in Codes => sender[c] = "done" /\ outgoing[c] = <<>> /\ reg[c].queue = <<>>
  /\ c \in clients => Tells(HeardBy(c), reg[c])

AllLocal == \A c \in Clients : Local(c)

Shape ==
  /\ reg = [c \in Clients |-> reg[c]]
  /\ sender = [c \in Clients |-> sender[c]]
  /\ outgoing = [c \in Clients |-> outgoing[c]]
  /\ handler = [c \in Clients |-> handler[c]]
  /\ socket = [c \in Clients |-> socket[c]]
  /\ shown = [c \in Clients |-> shown[c]]
  /\ clients \in SUBSET Clients

Tasks ==
  /\ consumer \in [phase : {"idle", "locking", "cancelled"},
                   hand : {<<>>} \cup {<<e>> : e \in ProviderEvents}, lag : 0..MaxLag]
  /\ monitor  \in [phase : {"sleeping", "locking", "cancelled"}, lag : 0..MaxLag]
  /\ stopped  \in BOOLEAN
  /\ consumer.phase = "locking" <=> consumer.hand # <<>>

(* The invariant is what holds of every client and of the two tasks.       *)
LEMMA InvIsLocal == DeliveryInv <=> Shape /\ Tasks /\ AllLocal
  <1>1. ASSUME DeliveryInv PROVE Shape /\ Tasks
    BY <1>1 DEF DeliveryInv, TypeOK, Lifecycle, Shape, Tasks
  <1>2. ASSUME DeliveryInv, NEW c \in Clients PROVE Local(c)
    <2>1. /\ Fits(reg[c])
          /\ sender[c] \in {"none", "waiting", "sending", "done"}
          /\ outgoing[c] \in {<<>>} \cup {<<e>> : e \in Entries}
          /\ handler[c] \in {"new", "receiving", "unregistering", "gone"}
          /\ socket[c] \in {"open", "left", "abandoned"} \cup Codes
          /\ shown[c] \in States \cup {"none"}
      BY <1>2 DEF DeliveryInv, TypeOK, Fits, Entries
    <2>2. /\ c \in clients => handler[c] \in {"receiving", "unregistering"}
          /\ sender[c] = "none" <=> handler[c] = "new"
          /\ sender[c] = "none" => shown[c] = "none" /\ outgoing[c] = <<>>
          /\ sender[c] = "waiting" => outgoing[c] = <<>>
          /\ sender[c] = "sending" => outgoing[c] # <<>>
          /\ sender[c] = "done" => reg[c].closed
          /\ handler[c] = "gone" => sender[c] = "done"
          /\ handler[c] \in {"receiving", "unregistering"} => c \in clients \/ reg[c].closed
      BY <1>2 DEF DeliveryInv, Lifecycle
    <2>3. /\ sender[c] # "done" => Reasoned(reg[c])
          /\ socket[c] # "1000"
          /\ socket[c] \in Codes =>
               sender[c] = "done" /\ outgoing[c] = <<>> /\ reg[c].queue = <<>>
      BY <1>2 DEF DeliveryInv, ReasonBeforeClose, CloseHasReason, NothingAfterClose, Reasoned
    <2>4. c \in clients => Tells(HeardBy(c), reg[c])
      BY <1>2 DEF DeliveryInv, StateIsTold, Told, Tells, HeardBy
    <2>5. QED
      BY <2>1, <2>2, <2>3, <2>4 DEF Local
  <1>3. ASSUME Shape, Tasks, \A c \in Clients : Local(c) PROVE DeliveryInv
    <2>1. TypeOK
      <3>1. /\ reg \in [Clients -> Registrations]
            /\ \A c \in Clients : Len(reg[c].queue) <= Capacity
        BY <1>3 DEF Shape, Local, Fits
      <3>2. /\ sender \in [Clients -> {"none", "waiting", "sending", "done"}]
            /\ outgoing \in [Clients -> {<<>>} \cup {<<e>> : e \in States \cup {"quote"}}]
            /\ handler \in [Clients -> {"new", "receiving", "unregistering", "gone"}]
            /\ socket \in [Clients -> {"open", "left", "abandoned"} \cup Codes]
            /\ shown \in [Clients -> States \cup {"none"}]
        BY <1>3 DEF Shape, Local, Entries
      <3>3. QED
        BY <1>3, <3>1, <3>2 DEF TypeOK, Shape, Tasks
    <2>2. Lifecycle
      BY <1>3 DEF Shape, Tasks, Local, Lifecycle
    <2>3. ReasonBeforeClose /\ CloseHasReason /\ NothingAfterClose
      BY <1>3 DEF Local, ReasonBeforeClose, CloseHasReason, NothingAfterClose, Reasoned
    <2>4. StateIsTold
      BY <1>3 DEF Shape, Local, StateIsTold, Told, Tells, HeardBy
    <2>5. QED
      BY <2>1, <2>2, <2>3, <2>4 DEF DeliveryInv
  <1>4. QED
    BY <1>1, <1>2, <1>3 DEF AllLocal

(* The same of the next state.                                             *)
LEMMA InvIsLocalNext == DeliveryInv' <=> Shape' /\ Tasks' /\ AllLocal'
  BY InvIsLocal, PTL

(* What the invariant says of one client.                                  *)
LEMMA InvOf ==
  ASSUME DeliveryInv, NEW c \in Clients
  PROVE  Local(c)
  BY InvIsLocal DEF AllLocal

(* A sequence heard is one of statuses and quotes.                         *)
LEMMA HeardIsSeq ==
  ASSUME NEW c \in Clients, Local(c)
  PROVE  HeardBy(c) \in Seq(Heard)
  <1>1. shown[c] \in Heard
    BY DEF Local, Heard
  <1>2. outgoing[c] \in Seq(Heard)
    <2>1. CASE outgoing[c] = <<>>
      BY <2>1
    <2>2. ASSUME NEW e \in Entries, outgoing[c] = <<e>>
          PROVE  outgoing[c] \in Seq(Heard)
      BY <2>2 DEF Entries, Heard
    <2>3. QED
      BY <2>1, <2>2 DEF Local
  <1>3. QED
    BY <1>1, <1>2 DEF HeardBy

(* A step of one connection's own tasks: the others are as they were.      *)
OnlyClient(c) ==
  /\ Shape'
  /\ UNCHANGED <<consumer, monitor>>
  /\ stopped' = stopped
  /\ \A d \in Clients \ {c} :
       /\ reg'[d] = reg[d] /\ sender'[d] = sender[d] /\ outgoing'[d] = outgoing[d]
       /\ handler'[d] = handler[d] /\ socket'[d] = socket[d] /\ shown'[d] = shown[d]
       /\ d \in clients' <=> d \in clients

(* Such a step preserves the invariant if it does so for its own client.  *)
LEMMA ClientStepSafe ==
  ASSUME DeliveryInv, NEW c \in Clients, OnlyClient(c), Local(c)'
  PROVE  DeliveryInv'
  <1>1. Tasks'
    BY InvIsLocal DEF OnlyClient, Tasks
  <1>2. ASSUME NEW d \in Clients PROVE Local(d)'
    <2>1. CASE d = c
      BY <2>1
    <2>2. CASE d # c
      <3>1. Local(d)
        BY InvOf
      <3>2. /\ reg'[d] = reg[d] /\ sender'[d] = sender[d] /\ outgoing'[d] = outgoing[d]
            /\ handler'[d] = handler[d] /\ socket'[d] = socket[d] /\ shown'[d] = shown[d]
            /\ d \in clients' <=> d \in clients
        BY <2>2 DEF OnlyClient
      <3>3. QED
        BY <3>1, <3>2 DEF Local, HeardBy
    <2>3. QED
      BY <2>1, <2>2
  <1>3. Shape'
    BY DEF OnlyClient
  <1>4. QED
    BY <1>1, <1>2, <1>3, InvIsLocalNext DEF AllLocal

(* A step of the manager: registrations change, nothing else of a client,  *)
(* and nobody enters _clients.                                             *)
OnlyRegistrations ==
  /\ UNCHANGED <<sender, outgoing, handler, socket, shown>>
  /\ clients' \subseteq clients
  /\ reg' = [c \in Clients |-> reg'[c]]
  /\ \A c \in Clients :
       /\ Fits(reg'[c])
       /\ reg[c].closed => reg'[c].closed /\ reg'[c].queue = reg[c].queue
       /\ Reasoned(reg[c]) => Reasoned(reg'[c])
       /\ c \in clients' => Tells(HeardBy(c), reg'[c])
       /\ c \in clients \ clients' => reg'[c].closed

(* Such a step preserves the invariant.                                    *)
LEMMA ManagerStepSafe ==
  ASSUME DeliveryInv, OnlyRegistrations, Tasks'
  PROVE  DeliveryInv'
  <1>1. Shape'
    BY InvIsLocal DEF OnlyRegistrations, Shape
  <1>2. ASSUME NEW c \in Clients PROVE Local(c)'
    <2>1. Local(c)
      BY InvOf
    <2>2. /\ sender'[c] = sender[c] /\ outgoing'[c] = outgoing[c]
          /\ handler'[c] = handler[c] /\ socket'[c] = socket[c] /\ shown'[c] = shown[c]
          /\ c \in clients' => c \in clients
          /\ Fits(reg'[c])
          /\ reg[c].closed => reg'[c].closed /\ reg'[c].queue = reg[c].queue
          /\ Reasoned(reg[c]) => Reasoned(reg'[c])
          /\ c \in clients' => Tells(HeardBy(c), reg'[c])
          /\ c \in clients \ clients' => reg'[c].closed
      BY DEF OnlyRegistrations
    <2>3. QED
      BY <2>1, <2>2 DEF Local, HeardBy
  <1>3. QED
    BY <1>1, <1>2, InvIsLocalNext DEF AllLocal

-----------------------------------------------------------------------------
(* The steps of one connection.                                            *)

(* Register: CONNECTING is both the state and the only entry of the queue. *)
LEMMA RegisterSafe ==
  ASSUME DeliveryInv, NEW c \in Clients, Register(c)
  PROVE  DeliveryInv'
  <1> DEFINE n == Enqueue(NewRegistration, "CONNECTING")
  <1>1. Local(c) /\ sender[c] = "none" /\ outgoing[c] = <<>> /\ shown[c] = "none"
    BY InvOf DEF Local, Register
  <1>2. OnlyClient(c)
    BY InvIsLocal DEF Register, OnlyClient, Shape
  <1>3. Fits(NewRegistration) /\ ~NewRegistration.closed /\ NewRegistration.queue = <<>>
    BY CapacityAssumption, TimeAssumption
    DEF Fits, NewRegistration, Registrations, States, Codes, Never, MaxAge
  <1>4. /\ n = [NewRegistration EXCEPT !.queue = Append(<<>>, "CONNECTING")]
        /\ Fits(n)
    <2>1. "CONNECTING" \in Entries
      BY DEF Entries, States
    <2>2. Fits(n)
      BY <1>3, <2>1, EnqueueFits
    <2>3. Len(<<>>) < Capacity
      BY CapacityAssumption
    <2>4. QED
      BY <1>3, <2>2, <2>3 DEF Enqueue
  <1>5. ~n.closed /\ n.state = "CONNECTING" /\ n.queue = <<"CONNECTING">>
    <2>1. Append(<<>>, "CONNECTING") = <<"CONNECTING">>
      OBVIOUS
    <2>2. QED
      BY <1>4, <2>1 DEF NewRegistration
  <1> HIDE DEF n
  <1>6. /\ reg'[c] = n /\ sender'[c] = "waiting" /\ handler'[c] = "receiving"
        /\ outgoing'[c] = <<>> /\ shown'[c] = "none" /\ socket'[c] = socket[c]
        /\ c \in clients'
    BY <1>1, InvIsLocal DEF Register, Shape, n
  <1>7. LastStatus((<<"none">> \o <<>>) \o <<"CONNECTING">>, "CONNECTING")
    BY DEF LastStatus
  <1>8. Tells(HeardBy(c), reg[c])'
    BY <1>5, <1>6, <1>7 DEF Tells, HeardBy
  <1>9. Local(c)'
    BY <1>1, <1>4, <1>5, <1>6, <1>8 DEF Local, Reasoned
  <1>10. QED
    BY <1>2, <1>9, ClientStepSafe

(* SenderTakes: the head of the queue is on its way, nothing is lost.      *)
LEMMA SenderTakesSafe ==
  ASSUME DeliveryInv, NEW c \in Clients, SenderTakes(c)
  PROVE  DeliveryInv'
  <1> DEFINE q == reg[c].queue
  <1>1. Local(c) /\ outgoing[c] = <<>> /\ q # <<>> /\ sender[c] = "waiting"
    BY InvOf DEF Local, SenderTakes
  <1>2. OnlyClient(c)
    BY InvIsLocal DEF SenderTakes, OnlyClient, Shape
  <1>3. /\ reg'[c] = [reg[c] EXCEPT !.queue = Tail(q)] /\ sender'[c] = "sending"
        /\ outgoing'[c] = <<Head(q)>>
        /\ handler'[c] = handler[c] /\ shown'[c] = shown[c] /\ socket'[c] = socket[c]
        /\ clients' = clients
    BY InvIsLocal DEF SenderTakes, Shape
  <1>4. q \in Seq(Entries) /\ Len(q) <= Capacity /\ reg[c] \in Registrations
    BY <1>1 DEF Local, Fits, Registrations, Entries
  <1>5. /\ Head(q) \in Entries /\ Tail(q) \in Seq(Entries) /\ Len(Tail(q)) <= Capacity
    BY <1>1, <1>4, CapacityAssumption
  <1>6. /\ Fits(reg'[c]) /\ reg'[c].state = reg[c].state /\ reg'[c].code = reg[c].code
        /\ reg'[c].closed = reg[c].closed /\ reg'[c].queue = Tail(q)
    BY <1>3, <1>4, <1>5 DEF Fits, Registrations, Entries
  <1>7. (<<shown[c]>> \o <<Head(q)>>) \o Tail(q) = (<<shown[c]>> \o <<>>) \o q
    <2>1. q \in Seq(Heard) /\ Tail(q) \in Seq(Heard) /\ Head(q) \in Heard /\ shown[c] \in Heard
      <3>1. q \in Seq(Heard)
        BY <1>1, QueueIsHeard DEF Local
      <3>2. QED
        BY <1>1, <3>1 DEF Local, Heard
    <2> HIDE DEF q
    <2>2. QED
      BY <1>1, <2>1
  <1> HIDE DEF q
  <1>8. c \in clients' => Tells(HeardBy(c), reg[c])'
    BY <1>1, <1>3, <1>6, <1>7 DEF Local, Tells, HeardBy, q
  <1>9. Local(c)'
    <2>1. outgoing'[c] \in {<<>>} \cup {<<e>> : e \in Entries} /\ outgoing'[c] # <<>>
      BY <1>3, <1>5
    <2>2. Reasoned(reg[c]) => Reasoned(reg'[c])
      BY <1>6 DEF Reasoned
    <2>3. QED
      BY <1>1, <1>3, <1>6, <1>8, <2>1, <2>2 DEF Local
  <1>10. QED
    BY <1>2, <1>9, ClientStepSafe

(* SenderSends: what was on its way has been heard.                        *)
LEMMA SenderSendsSafe ==
  ASSUME DeliveryInv, NEW c \in Clients, SenderSends(c)
  PROVE  DeliveryInv'
  <1>1. Local(c) /\ outgoing[c] # <<>>
    BY InvOf DEF Local, SenderSends
  <1>2. OnlyClient(c)
    BY InvIsLocal DEF SenderSends, OnlyClient, Shape
  <1>3. PICK e \in Entries : outgoing[c] = <<e>>
    BY <1>1 DEF Local
  <1>4. /\ reg'[c] = reg[c] /\ sender'[c] = "waiting" /\ outgoing'[c] = <<>>
        /\ handler'[c] = handler[c] /\ socket'[c] = socket[c] /\ clients' = clients
        /\ shown'[c] = IF e = "quote" THEN shown[c] ELSE e
    BY <1>3, InvIsLocal DEF SenderSends, Shape
  <1>5. shown'[c] \in States \cup {"none"}
    BY <1>1, <1>4 DEF Local, Entries
  <1>6. shown[c] \in Heard /\ reg[c].queue \in Seq(Heard) /\ reg[c].state \in States
    BY <1>1, QueueIsHeard DEF Local, Heard
  <1>7. c \in clients' => Tells(HeardBy(c), reg[c])'
    BY <1>1, <1>3, <1>4, <1>6, ShowKeepsStatus DEF Local, Tells, HeardBy
  <1>8. Local(c)'
    BY <1>1, <1>4, <1>5, <1>7 DEF Local, SenderSends
  <1>9. QED
    BY <1>2, <1>8, ClientStepSafe

(* Closing a registration keeps it well formed.                            *)
LEMMA CloseFits ==
  ASSUME NEW r, Fits(r)
  PROVE  LET n == [r EXCEPT !.closed = TRUE]
         IN Fits(n) /\ n.closed = TRUE /\ n.code = r.code
  BY DEF Fits, Registrations

(* SenderFails: the registration closes and its sender ends together.      *)
LEMMA SenderFailsSafe ==
  ASSUME DeliveryInv, NEW c \in Clients, SenderFails(c)
  PROVE  DeliveryInv'
  <1>1. Local(c)
    BY InvOf
  <1>2. OnlyClient(c)
    BY InvIsLocal DEF SenderFails, OnlyClient, Shape
  <1>3. /\ reg'[c] = [reg[c] EXCEPT !.closed = TRUE] /\ sender'[c] = "done"
        /\ outgoing'[c] = outgoing[c] /\ handler'[c] = handler[c]
        /\ socket'[c] = socket[c] /\ shown'[c] = shown[c] /\ clients' = clients
    BY InvIsLocal DEF SenderFails, Shape
  <1>4. Fits(reg'[c]) /\ reg'[c].closed
    BY <1>1, <1>3, CloseFits DEF Local
  <1>5. Local(c)'
    BY <1>1, <1>3, <1>4 DEF Local, SenderFails, Tells
  <1>6. QED
    BY <1>2, <1>5, ClientStepSafe

(* SenderCloses: a sender that still runs has a reason to give.            *)
LEMMA SenderClosesSafe ==
  ASSUME DeliveryInv, NEW c \in Clients, SenderCloses(c)
  PROVE  DeliveryInv'
  <1>1. Local(c)
    BY InvOf
  <1>2. OnlyClient(c)
    BY InvIsLocal DEF SenderCloses, OnlyClient, Shape
  <1>3. /\ reg'[c] = reg[c] /\ sender'[c] = "done"
        /\ outgoing'[c] = outgoing[c] /\ handler'[c] = handler[c]
        /\ shown'[c] = shown[c] /\ clients' = clients
        /\ socket'[c] = IF socket[c] = "open" THEN reg[c].code ELSE socket[c]
    BY InvIsLocal DEF SenderCloses, Shape
  <1>4. reg[c].code \in Codes /\ reg[c].code # "1000"
    BY <1>1 DEF SenderCloses, Local, Reasoned, Fits, Registrations
  <1>5. outgoing'[c] = <<>> /\ reg'[c].queue = <<>>
    BY <1>1, <1>3 DEF SenderCloses, Local
  <1>6. Local(c)'
    <2>1. socket'[c] \in {"open", "left", "abandoned"} \cup Codes /\ socket'[c] # "1000"
      BY <1>1, <1>3, <1>4 DEF Local
    <2>2. c \in clients' => Tells(HeardBy(c), reg[c])'
      BY <1>1, <1>3 DEF Local, Tells, HeardBy
    <2>3. QED
      BY <1>1, <1>3, <1>5, <2>1, <2>2 DEF Local, SenderCloses
  <1>7. QED
    BY <1>2, <1>6, ClientStepSafe

(* Leave, ReceiveText, ReceiveDisconnect: the registration is untouched.   *)
LEMMA ClientSideSafe ==
  ASSUME DeliveryInv, NEW c \in Clients,
         Leave(c) \/ ReceiveText(c) \/ ReceiveDisconnect(c)
  PROVE  DeliveryInv'
  <1>1. Local(c)
    BY InvOf
  <1>2. OnlyClient(c)
    BY InvIsLocal DEF Leave, ReceiveText, ReceiveDisconnect, OnlyClient, Shape
  <1>3. /\ reg'[c] = reg[c] /\ sender'[c] = sender[c] /\ outgoing'[c] = outgoing[c]
        /\ shown'[c] = shown[c] /\ clients' = clients
        /\ \/ socket'[c] = "left" /\ handler'[c] = handler[c]
           \/ /\ socket'[c] = socket[c] /\ handler[c] = "receiving"
              /\ handler'[c] = "unregistering"
    BY InvIsLocal DEF Leave, ReceiveText, ReceiveDisconnect, Shape
  <1>4. Local(c)'
    BY <1>1, <1>3 DEF Local, HeardBy, Codes
  <1>5. QED
    BY <1>2, <1>4, ClientStepSafe

(* Unregister: registration, sender and handler end together.              *)
LEMMA UnregisterSafe ==
  ASSUME DeliveryInv, NEW c \in Clients, Unregister(c)
  PROVE  DeliveryInv'
  <1>1. Local(c)
    BY InvOf
  <1>2. OnlyClient(c)
    BY InvIsLocal DEF Unregister, OnlyClient, Shape
  <1>3. /\ sender'[c] = "done" /\ outgoing'[c] = <<>> /\ handler'[c] = "gone"
        /\ shown'[c] = shown[c] /\ c \notin clients'
        /\ socket'[c] = IF socket[c] = "open" THEN "abandoned" ELSE socket[c]
        /\ reg'[c] = [reg[c] EXCEPT !.closed = @ \/ c \in clients, !.queue = <<>>]
    BY InvIsLocal DEF Unregister, Shape
  <1>4. Fits(reg'[c]) /\ reg'[c].closed /\ reg'[c].queue = <<>>
    <2>1. reg[c] \in Registrations /\ (c \in clients \/ reg[c].closed = TRUE)
      BY <1>1 DEF Local, Fits, Unregister, Registrations
    <2>2. reg'[c] = [reg[c] EXCEPT !.closed = TRUE, !.queue = <<>>]
      BY <1>3, <2>1
    <2>3. QED
      <3> DEFINE n == [reg[c] EXCEPT !.closed = TRUE]
                 m == [n EXCEPT !.queue = <<>>]
      <3>1. n \in Registrations /\ n.closed = TRUE
        BY <2>1 DEF Registrations
      <3> HIDE DEF n
      <3>2. m \in Registrations /\ m.closed = TRUE /\ m.queue = <<>>
        <4> DEFINE e == <<>>
        <4>1. e \in Seq(States \cup {"quote"})
          OBVIOUS
        <4> HIDE DEF e
        <4>2. LET k == [n EXCEPT !.queue = e]
              IN k \in Registrations /\ k.closed = TRUE /\ k.queue = e
          BY <3>1, <4>1 DEF Registrations
        <4>3. QED
          BY <4>2 DEF e
      <3>3. reg'[c] = m
        BY <2>2 DEF n
      <3>4. Len(<<>>) <= Capacity
        BY CapacityAssumption
      <3>5. QED
        BY <3>2, <3>3, <3>4 DEF Fits
  <1>5. Local(c)'
    BY <1>1, <1>3, <1>4 DEF Local, Unregister, Codes
  <1>6. QED
    BY <1>2, <1>5, ClientStepSafe

-----------------------------------------------------------------------------
(* The steps of the manager's tasks.                                       *)

(* What every such step may rely on for a client of _clients.              *)
LEMMA ClientFacts ==
  ASSUME DeliveryInv, NEW c \in Clients
  PROVE  /\ Fits(reg[c]) /\ HeardBy(c) \in Seq(Heard)
         /\ c \in clients => Tells(HeardBy(c), reg[c])
  BY InvOf, HeardIsSeq DEF Local

(* FanOut: each client of the event's interests is handled.                *)
LEMMA FanOutSafe ==
  ASSUME DeliveryInv, FanOut
  PROVE  DeliveryInv'
  <1> DEFINE e == Head(consumer.hand)
  <1>1. Tasks
    BY InvIsLocal
  <1>2. consumer.lag \in 0..MaxLag /\ e \in ProviderEvents
    <2>1. consumer.hand # <<>>
      BY <1>1 DEF Tasks, FanOut
    <2>2. PICK d \in ProviderEvents : consumer.hand = <<d>>
      BY <1>1, <2>1 DEF Tasks
    <2>3. QED
      BY <1>1, <2>2 DEF Tasks
  <1> HIDE DEF e
  <1>3. OnlyRegistrations
    <2>1. ASSUME NEW c \in Clients
          PROVE  /\ Fits(reg'[c])
                 /\ reg[c].closed => reg'[c].closed /\ reg'[c].queue = reg[c].queue
                 /\ Reasoned(reg[c]) => Reasoned(reg'[c])
                 /\ c \in clients' => Tells(HeardBy(c), reg'[c])
      <3>1. \/ reg'[c] = reg[c]
            \/ c \in clients /\ reg'[c] = Handled(reg[c], e, consumer.lag)
        <4>1. reg' = [d \in Clients |->
                 IF d \in clients /\ Wants[d] \cap e.interests # {}
                 THEN Handled(reg[d], e, consumer.lag) ELSE reg[d]]
          BY Zenon DEF FanOut, e
        <4> DEFINE new(d) == IF d \in clients /\ Wants[d] \cap e.interests # {}
                             THEN Handled(reg[d], e, consumer.lag) ELSE reg[d]
        <4>2. reg' = [d \in Clients |-> new(d)]
          BY <4>1, Zenon
        <4> HIDE DEF new
        <4>3. reg'[c] = new(c)
          BY <4>2
        <4>4. QED
          BY <4>3, Zenon DEF new
      <3>2. c \in clients => Becomes(HeardBy(c), reg[c], Handled(reg[c], e, consumer.lag))
        BY <1>2, ClientFacts, HandledBecomes
      <3>3. QED
        BY <3>1, <3>2, ClientFacts DEF Becomes, FanOut
    <2>2. QED
      BY <2>1 DEF FanOut, OnlyRegistrations
  <1>4. Tasks'
    BY <1>1, TimeAssumption DEF Tasks, FanOut
  <1>5. QED
    BY <1>3, <1>4, ManagerStepSafe

(* MonitorChecks: each client is judged by its age.                        *)
LEMMA MonitorChecksSafe ==
  ASSUME DeliveryInv, MonitorChecks
  PROVE  DeliveryInv'
  <1>1. Tasks /\ monitor.lag \in 0..MaxLag
    BY InvIsLocal DEF Tasks
  <1>2. OnlyRegistrations
    <2>1. ASSUME NEW c \in Clients
          PROVE  /\ Fits(reg'[c])
                 /\ reg[c].closed => reg'[c].closed /\ reg'[c].queue = reg[c].queue
                 /\ Reasoned(reg[c]) => Reasoned(reg'[c])
                 /\ c \in clients' => Tells(HeardBy(c), reg'[c])
      <3>1. reg'[c] = IF c \in clients THEN Aged(reg[c], monitor.lag) ELSE reg[c]
        BY DEF MonitorChecks
      <3>2. c \in clients => Becomes(HeardBy(c), reg[c], Aged(reg[c], monitor.lag))
        BY <1>1, ClientFacts, AgedBecomes
      <3>3. QED
        BY <3>1, <3>2, ClientFacts DEF Becomes, MonitorChecks
    <2>2. QED
      BY <2>1 DEF MonitorChecks, OnlyRegistrations
  <1>3. Tasks'
    BY <1>1, TimeAssumption DEF Tasks, MonitorChecks
  <1>4. QED
    BY <1>2, <1>3, ManagerStepSafe

(* ConsumerTakes and MonitorWakes: no client is touched.                   *)
LEMMA WaitSafe ==
  ASSUME DeliveryInv,
         (\E e \in ProviderEvents : ConsumerTakes(e)) \/ MonitorWakes
  PROVE  DeliveryInv'
  <1>1. Shape /\ Tasks
    BY InvIsLocal
  <1>2. UNCHANGED clientVars
    BY DEF ConsumerTakes, MonitorWakes
  <1>3. OnlyRegistrations
    <2>1. ASSUME NEW c \in Clients
          PROVE  /\ Fits(reg'[c])
                 /\ reg[c].closed => reg'[c].closed /\ reg'[c].queue = reg[c].queue
                 /\ Reasoned(reg[c]) => Reasoned(reg'[c])
                 /\ c \in clients' => Tells(HeardBy(c), reg'[c])
      BY <1>2, ClientFacts DEF clientVars
    <2>2. QED
      BY <1>1, <1>2, <2>1 DEF OnlyRegistrations, clientVars, Shape
  <1>4. Tasks'
    <2>1. 0 \in 0..MaxLag
      BY TimeAssumption
    <2>2. ASSUME NEW e \in ProviderEvents, ConsumerTakes(e)
          PROVE  Tasks'
      <3>1. /\ consumer' = [phase |-> "locking", hand |-> <<e>>, lag |-> 0]
            /\ monitor' = monitor
            /\ stopped' = stopped
        BY <2>2 DEF ConsumerTakes
      <3> DEFINE h == <<e>>
      <3>2. h \in {<<>>} \cup {<<d>> : d \in ProviderEvents} /\ h # <<>>
        OBVIOUS
      <3>3. consumer' = [phase |-> "locking", hand |-> h, lag |-> 0]
        BY <3>1
      <3> HIDE DEF h
      <3>4. QED
        BY <1>1, <2>1, <3>1, <3>2, <3>3 DEF Tasks
    <2>3. CASE MonitorWakes
      BY <1>1, <2>1, <2>3 DEF Tasks, MonitorWakes
    <2>4. QED
      BY <2>2, <2>3
  <1>5. QED
    BY <1>3, <1>4, ManagerStepSafe

(* StopClears: whoever is thrown out is closed with a reason.              *)
LEMMA StopClearsSafe ==
  ASSUME DeliveryInv, StopClears
  PROVE  DeliveryInv'
  <1>1. Tasks
    BY InvIsLocal
  <1>2. ASSUME NEW r, Fits(r)
        PROVE  LET n == [r EXCEPT !.code = "1012", !.closed = TRUE]
               IN Fits(n) /\ n.closed = TRUE /\ Reasoned(n) /\ n.queue = r.queue
    BY <1>2 DEF Fits, Registrations, Codes, Reasoned
  <1>3. OnlyRegistrations
    <2>1. ASSUME NEW c \in Clients
          PROVE  /\ Fits(reg'[c])
                 /\ reg[c].closed => reg'[c].closed /\ reg'[c].queue = reg[c].queue
                 /\ Reasoned(reg[c]) => Reasoned(reg'[c])
                 /\ c \in clients => reg'[c].closed
      <3>1. reg'[c] = IF c \in clients
                      THEN [reg[c] EXCEPT !.code = "1012", !.closed = TRUE] ELSE reg[c]
        BY DEF StopClears
      <3>2. QED
        BY <1>2, <3>1, ClientFacts
    <2>2. QED
      BY <2>1 DEF StopClears, OnlyRegistrations
  <1>4. Tasks'
    <2>1. 0 \in 0..MaxLag
      BY TimeAssumption
    <2>2. /\ consumer' = [phase |-> "cancelled", hand |-> <<>>, lag |-> 0]
          /\ monitor' = [phase |-> "cancelled", lag |-> 0]
          /\ stopped' = TRUE
      BY DEF StopClears
    <2> DEFINE e == <<>>
    <2>3. /\ e = <<>>
          /\ consumer' = [phase |-> "cancelled", hand |-> e, lag |-> 0]
      BY <2>2
    <2> HIDE DEF e
    <2>4. consumer'.phase = "cancelled" /\ consumer'.hand = e
      BY <2>3
    <2>5. /\ consumer' \in [phase : {"idle", "locking", "cancelled"},
                   hand : {<<>>} \cup {<<d>> : d \in ProviderEvents}, lag : 0..MaxLag]
          /\ monitor' \in [phase : {"sleeping", "locking", "cancelled"}, lag : 0..MaxLag]
      BY <2>1, <2>2, <2>3
    <2>6. QED
      BY <2>2, <2>3, <2>4, <2>5 DEF Tasks
  <1>5. QED
    BY <1>3, <1>4, ManagerStepSafe

(* Tick: ages grow, up to MaxAge.                                          *)
LEMMA TickSafe ==
  ASSUME DeliveryInv, Tick
  PROVE  DeliveryInv'
  <1>1. Tasks
    BY InvIsLocal
  <1>2. ASSUME NEW r, Fits(r), NEW p
        PROVE  LET n == [r EXCEPT !.age = Older(r.age)]
               IN /\ Fits(n) /\ n.closed = r.closed /\ n.code = r.code
                  /\ n.queue = r.queue
                  /\ Tells(p, r) => Tells(p, n)
    <2>1. Older(r.age) \in Never..MaxAge
      BY <1>2, TimeAssumption DEF Fits, Registrations, Older, Never, MaxAge
    <2> DEFINE a == Older(r.age)
    <2> HIDE DEF a
    <2>2. LET n == [r EXCEPT !.age = a]
          IN /\ Fits(n) /\ n.closed = r.closed /\ n.code = r.code
             /\ n.queue = r.queue /\ n.state = r.state
      BY <1>2, <2>1 DEF Fits, Registrations, a
    <2>3. QED
      BY <2>2 DEF Tells, a
  <1>3. OnlyRegistrations
    <2>1. ASSUME NEW c \in Clients
          PROVE  /\ Fits(reg'[c])
                 /\ reg[c].closed => reg'[c].closed /\ reg'[c].queue = reg[c].queue
                 /\ Reasoned(reg[c]) => Reasoned(reg'[c])
                 /\ c \in clients' => Tells(HeardBy(c), reg'[c])
      <3>1. /\ clients' = clients
            /\ reg'[c] = IF c \in clients
                         THEN [reg[c] EXCEPT !.age = Older(reg[c].age)] ELSE reg[c]
        BY DEF Tick
      <3>2. QED
        BY <1>2, <3>1, ClientFacts DEF Reasoned
    <2>2. QED
      BY <2>1 DEF Tick, OnlyRegistrations
  <1>4. Tasks'
    <2>1. consumer.hand # <<>> => consumer.lag + 1 \in 0..MaxLag
      BY <1>1, TimeAssumption DEF Tasks, Tick
    <2>2. monitor.phase = "locking" => monitor.lag + 1 \in 0..MaxLag
      BY <1>1, TimeAssumption DEF Tasks, Tick
    <2>3. QED
      BY <1>1, <2>1, <2>2 DEF Tasks, Tick
  <1>5. QED
    BY <1>3, <1>4, ManagerStepSafe

-----------------------------------------------------------------------------
(* The theorems.                                                           *)

(* Nobody is connected at first.                                           *)
LEMMA InitSafe == Init => DeliveryInv
  <1> SUFFICES ASSUME Init PROVE DeliveryInv
    OBVIOUS
  <1>1. Fits(NewRegistration) /\ ~NewRegistration.closed
    BY CapacityAssumption, TimeAssumption
    DEF Fits, NewRegistration, Registrations, States, Codes, Never, MaxAge
  <1>2. Shape
    BY DEF Init, Shape
  <1>3. Tasks
    <2>1. 0 \in 0..MaxLag
      BY TimeAssumption
    <2> DEFINE e == <<>>
    <2>2. /\ e = <<>>
          /\ consumer = [phase |-> "idle", hand |-> e, lag |-> 0]
          /\ monitor = [phase |-> "sleeping", lag |-> 0]
          /\ stopped = FALSE
      BY DEF Init
    <2> HIDE DEF e
    <2>3. consumer.phase = "idle" /\ consumer.hand = e
      BY <2>2
    <2>4. /\ consumer \in [phase : {"idle", "locking", "cancelled"},
                   hand : {<<>>} \cup {<<d>> : d \in ProviderEvents}, lag : 0..MaxLag]
          /\ monitor \in [phase : {"sleeping", "locking", "cancelled"}, lag : 0..MaxLag]
      BY <2>1, <2>2
    <2>5. QED
      BY <2>2, <2>3, <2>4 DEF Tasks
  <1>4. ASSUME NEW c \in Clients PROVE Local(c)
    BY <1>1 DEF Init, Local, Reasoned, Codes
  <1>5. QED
    BY <1>2, <1>3, <1>4, InvIsLocal DEF AllLocal

(* Every step of every task keeps the invariant.                           *)
LEMMA NextSafe == DeliveryInv /\ [Next]_vars => DeliveryInv'
  <1> SUFFICES ASSUME DeliveryInv, [Next]_vars PROVE DeliveryInv'
    OBVIOUS
  <1>1. ASSUME NEW c \in Clients, Register(c) \/ Leave(c) \/ ReceiveText(c)
        PROVE  DeliveryInv'
    BY <1>1, RegisterSafe, ClientSideSafe
  <1>2. ASSUME NEW c \in Clients, SenderStep(c)
        PROVE  DeliveryInv'
    BY <1>2, SenderTakesSafe, SenderSendsSafe, SenderFailsSafe, SenderClosesSafe
    DEF SenderStep
  <1>3. ASSUME NEW c \in Clients, HandlerStep(c)
        PROVE  DeliveryInv'
    BY <1>3, ClientSideSafe, UnregisterSafe DEF HandlerStep
  <1>4. ASSUME (\E e \in ProviderEvents : ConsumerTakes(e)) \/ MonitorWakes
        PROVE  DeliveryInv'
    BY <1>4, WaitSafe
  <1>5. ASSUME FanOut \/ MonitorChecks \/ StopClears \/ Tick
        PROVE  DeliveryInv'
    BY <1>5, FanOutSafe, MonitorChecksSafe, StopClearsSafe, TickSafe
  <1>6. CASE UNCHANGED vars
    BY <1>6, InvIsLocal, InvIsLocalNext
    DEF vars, clientVars, Shape, Tasks, AllLocal, Local, HeardBy
  <1>7. QED
    BY <1>1, <1>2, <1>3, <1>4, <1>5, <1>6 DEF Next

(* The invariant of the delivery, with the types and the queue bound: it   *)
(* holds for any number of clients and any capacity.                       *)
THEOREM DeliveryCorrect == Spec => []DeliveryInv
  BY InitSafe, NextSafe, PTL DEF Spec

(* An open client has been told the state of its registration, or will be  *)
(* when its queue is drained.                                              *)
THEOREM StateToldCorrect == Spec => []StateIsTold
  <1>1. DeliveryInv => StateIsTold
    BY DEF DeliveryInv
  <1>2. QED
    BY <1>1, DeliveryCorrect, PTL

(* No stream of the gateway ends with the default close code.              *)
THEOREM CloseHasReasonCorrect == Spec => []CloseHasReason
  <1>1. DeliveryInv => CloseHasReason
    BY DEF DeliveryInv
  <1>2. QED
    BY <1>1, DeliveryCorrect, PTL

-----------------------------------------------------------------------------
(* The refinement of ClientStream.  What a client sees of its stream.      *)

View(c) == IF Phase(c) = "broken" THEN <<>> ELSE Pipe(c)
Views == [c \in Clients |-> View(c)]
Phases == [c \in Clients |-> Phase(c)]

(* What an event may add to an open queue: nothing, one entry or two, the  *)
(* last of which may be an ERROR, after which the queue is closed.         *)
Adds(r, n) ==
  \E b \in Stream!Bundles :
    /\ n.queue = r.queue \o b
    /\ \A k \in DOMAIN b : b[k] = "ERROR" => k = Len(b) /\ n.closed

(* Entries alone or in pairs are bundles.                                  *)
LEMMA SmallBundles ==
  /\ <<>> \in Stream!Bundles
  /\ \A e \in Entries : <<e>> \in Stream!Bundles
  /\ \A e, f \in Entries : <<e, f>> \in Stream!Bundles
  BY DEF Stream!Bundles, Entries

(* The first views and phases are those of the abstract stream.            *)
LEMMA InitMaps == Init => Stream!Init
  <1> SUFFICES ASSUME Init PROVE Stream!Init
    OBVIOUS
  <1>1. ASSUME NEW c \in Clients PROVE Phase(c) = "none" /\ View(c) = <<>>
    BY <1>1 DEF Init, Phase, View, Pipe, NewRegistration
  <1>2. Views = [c \in Clients |-> <<>>] /\ Phases = [c \in Clients |-> "none"]
    BY <1>1 DEF Views, Phases
  <1>3. QED
    BY <1>2 DEF Stream!Init, Views, Phases, View, Init

(* _enqueue adds its entry, or closes the queue.                           *)
LEMMA EnqueueAdds ==
  ASSUME NEW r, Fits(r), ~r.closed, NEW e \in Entries
  PROVE  \/ Enqueue(r, e).closed /\ Enqueue(r, e).queue = r.queue
         \/ ~Enqueue(r, e).closed /\ Enqueue(r, e).queue = r.queue \o <<e>>
  <1>1. r.queue \in Seq(Entries) /\ r \in Registrations
    BY DEF Fits, Registrations, Entries
  <1>2. CASE Len(r.queue) < Capacity
    <2> DEFINE q == Append(r.queue, e)
    <2>1. Enqueue(r, e) = [r EXCEPT !.queue = q]
      BY <1>2 DEF Enqueue
    <2> HIDE DEF q
    <2>2. [r EXCEPT !.queue = q].queue = q /\ [r EXCEPT !.queue = q].closed = r.closed
      BY <1>1 DEF Registrations
    <2>3. q = r.queue \o <<e>>
      BY <1>1 DEF q
    <2>4. QED
      BY <2>1, <2>2, <2>3
  <1>3. CASE ~(Len(r.queue) < Capacity)
    <2> DEFINE n == [r EXCEPT !.closed = TRUE, !.code = "1013"]
    <2>1. Enqueue(r, e) = n
      BY <1>3 DEF Enqueue
    <2>2. n.closed /\ n.queue = r.queue
      BY <1>1 DEF Registrations
    <2>3. QED
      BY <2>1, <2>2
  <1>4. QED
    BY <1>2, <1>3

(* A change of state adds its status, or closes the queue.                 *)
LEMMA SetStateAdds ==
  ASSUME NEW r, Fits(r), ~r.closed, NEW s \in States
  PROVE  \/ SetState(r, s).closed /\ SetState(r, s).queue = r.queue
         \/ ~SetState(r, s).closed /\ SetState(r, s).queue = r.queue \o <<s>>
  <1> DEFINE t == [r EXCEPT !.state = s]
  <1>1. Fits(t) /\ ~t.closed /\ t.queue = r.queue
    BY DEF Fits, Registrations
  <1> HIDE DEF t
  <1>2. \/ Enqueue(t, s).closed /\ Enqueue(t, s).queue = t.queue
        \/ ~Enqueue(t, s).closed /\ Enqueue(t, s).queue = t.queue \o <<s>>
    BY <1>1, EnqueueAdds DEF Entries
  <1>3. QED
    BY <1>1, <1>2 DEF SetState, t

(* One of these two ways is a way to add a bundle, if it is not an ERROR.  *)
LEMMA OneAdds ==
  ASSUME NEW r, Fits(r), NEW n, NEW e \in Entries \ {"ERROR"},
         n.queue = r.queue \/ n.queue = r.queue \o <<e>>
  PROVE  Adds(r, n)
  <1>1. r.queue \in Seq(Entries)
    BY DEF Fits, Registrations, Entries
  <1>2. CASE n.queue = r.queue
    <2>1. r.queue = r.queue \o <<>>
      BY <1>1
    <2>2. \A k \in DOMAIN <<>> : FALSE
      OBVIOUS
    <2>3. QED
      BY <1>2, <2>1, <2>2, SmallBundles DEF Adds
  <1>3. CASE n.queue = r.queue \o <<e>>
    <2>1. \A k \in DOMAIN <<e>> : <<e>>[k] # "ERROR"
      OBVIOUS
    <2>2. QED
      BY <1>3, <2>1, SmallBundles DEF Adds
  <1>4. QED
    BY <1>2, <1>3

(* A quote adds itself and, if need be, the status it brings about.        *)
LEMMA QuotedAdds ==
  ASSUME NEW r, Fits(r), ~r.closed, NEW lag \in 0..MaxLag
  PROVE  Adds(r, Quoted(r, lag))
  <1> DEFINE t == [r EXCEPT !.age = lag]
             q == Enqueue(t, "quote")
             u == SetState(q, "SUBSCRIBED")
  <1>1. Fits(t) /\ t.queue = r.queue /\ ~t.closed
    <2>1. lag \in Never..MaxAge
      BY TimeAssumption DEF Never, MaxAge
    <2>2. QED
      BY <2>1 DEF Fits, Registrations
  <1>2. /\ Fits(q)
        /\ \/ q.closed /\ q.queue = r.queue
           \/ ~q.closed /\ q.queue = r.queue \o <<"quote">>
    <2> HIDE DEF t
    <2>1. QED
      BY <1>1, EnqueueFits, EnqueueAdds DEF Entries
  <1>3. Quoted(r, lag) = q \/ Quoted(r, lag) = u
    BY DEF Quoted
  <1> HIDE DEF q
  <1>4. "quote" \in Entries \ {"ERROR"} /\ "SUBSCRIBED" \in States
        /\ "SUBSCRIBED" \in Entries
    BY DEF Entries, States
  <1>5. CASE Quoted(r, lag) = q
    BY <1>2, <1>4, <1>5, OneAdds
  <1>6. CASE Quoted(r, lag) = u
    <2>1. CASE q.closed
      <3>1. u.queue = q.queue
        <4>1. <<>> \in Seq(Heard)
          OBVIOUS
        <4>2. QED
          BY <1>2, <1>4, <2>1, <4>1, SetStateTells
      <3>2. QED
        BY <1>2, <1>4, <1>6, <2>1, <3>1, OneAdds
    <2>2. CASE ~q.closed /\ u.queue = q.queue
      BY <1>2, <1>4, <1>6, <2>2, OneAdds
    <2>3. CASE ~q.closed /\ u.queue = q.queue \o <<"SUBSCRIBED">>
      <3> DEFINE b == <<"quote", "SUBSCRIBED">>
      <3>1. r.queue \in Seq(Entries)
        BY DEF Fits, Registrations, Entries
      <3>2. (r.queue \o <<"quote">>) \o <<"SUBSCRIBED">> = r.queue \o b
        BY <1>4, <3>1
      <3>3. \A k \in DOMAIN b : b[k] # "ERROR"
        OBVIOUS
      <3>4. b \in Stream!Bundles
        BY <1>4, SmallBundles
      <3> HIDE DEF b
      <3>5. u.queue = r.queue \o b
        BY <1>2, <2>3, <3>2
      <3>6. QED
        BY <1>6, <3>3, <3>4, <3>5 DEF Adds
    <2>4. QED
      BY <1>2, <1>4, <2>1, <2>2, <2>3, SetStateAdds
  <1>7. QED
    BY <1>3, <1>5, <1>6

(* A provider error adds an ERROR and closes the queue.                    *)
LEMMA FailedAdds ==
  ASSUME NEW r, Fits(r), ~r.closed
  PROVE  Adds(r, Failed(r))
  <1> DEFINE n == SetState(r, "ERROR")
             f == [n EXCEPT !.code = "1011", !.closed = TRUE]
  <1>1. /\ Fits(n)
        /\ n.queue = r.queue \/ n.queue = r.queue \o <<"ERROR">>
    <2>1. <<>> \in Seq(Heard) /\ "ERROR" \in States
      BY DEF States
    <2>2. Fits(SetState(r, "ERROR"))
      BY <2>1, SetStateTells
    <2>3. n.queue = r.queue \/ n.queue = r.queue \o <<"ERROR">>
      BY <2>1, SetStateAdds
    <2>4. QED
      BY <2>2, <2>3
  <1> HIDE DEF n
  <1>2. f.closed /\ f.queue = n.queue
    BY <1>1 DEF Fits, Registrations
  <1>3. f = Failed(r)
    BY DEF Failed, n
  <1> HIDE DEF f
  <1>4. "ERROR" \in Entries /\ r.queue \in Seq(Entries)
    BY DEF Entries, States, Fits, Registrations
  <1>5. CASE n.queue = r.queue
    <2>1. r.queue = r.queue \o <<>> /\ \A k \in DOMAIN <<>> : FALSE
      BY <1>4
    <2>2. QED
      BY <1>2, <1>3, <1>5, <2>1, SmallBundles DEF Adds
  <1>6. CASE n.queue = r.queue \o <<"ERROR">>
    <2> DEFINE b == <<"ERROR">>
    <2>1. b \in Stream!Bundles /\ \A k \in DOMAIN b : k = Len(b)
      BY <1>4, SmallBundles
    <2>2. f.queue = r.queue \o b
      BY <1>2, <1>6
    <2> HIDE DEF b
    <2>3. QED
      BY <1>2, <1>3, <2>1, <2>2 DEF Adds
  <1>7. QED
    BY <1>1, <1>5, <1>6

(* Any event adds a bundle to an open queue.                               *)
LEMMA HandledAdds ==
  ASSUME NEW r, Fits(r), ~r.closed, NEW lag \in 0..MaxLag, NEW e \in ProviderEvents
  PROVE  Adds(r, Handled(r, e, lag))
  <1>1. e.kind \in {"quote", "RECONNECTING", "ERROR"}
    BY DEF ProviderEvents
  <1>2. CASE e.kind = "quote"
    BY <1>2, QuotedAdds DEF Handled
  <1>3. CASE e.kind = "RECONNECTING"
    <2>1. Adds(r, SetState(r, "RECONNECTING"))
      BY SetStateAdds, OneAdds DEF States, Entries
    <2>2. QED
      BY <1>3, <2>1 DEF Handled
  <1>4. CASE e.kind = "ERROR"
    BY <1>4, FailedAdds DEF Handled
  <1>5. QED
    BY <1>1, <1>2, <1>3, <1>4

(* So does the monitor's verdict.                                          *)
LEMMA AgedAdds ==
  ASSUME NEW r, Fits(r), ~r.closed, NEW lag \in 0..MaxLag
  PROVE  Adds(r, Aged(r, lag))
  <1>1. "STALE" \in States /\ "STALE" \in Entries \ {"ERROR"}
    BY DEF States, Entries
  <1>2. Adds(r, r) /\ Adds(r, SetState(r, "STALE"))
    BY <1>1, SetStateAdds, OneAdds
  <1>3. QED
    BY <1>2 DEF Aged

(* Concatenation is associative.                                           *)
LEMMA ConcatAssoc ==
  ASSUME NEW S, NEW p \in Seq(S), NEW q \in Seq(S), NEW b \in Seq(S)
  PROVE  p \o (q \o b) = (p \o q) \o b
  BY ConcatAssociative

(* What Accept asks of one client, in terms of its view and its phase.     *)
Accepts(c) ==
  \/ View(c)' = View(c) /\ Phase(c)' = Phase(c)
  \/ /\ Phase(c) = "open"
     /\ Phase(c)' \in {"open", "ending"}
     /\ \E b \in Stream!Bundles :
          /\ View(c)' = View(c) \o b
          /\ \A k \in DOMAIN b : b[k] = "ERROR" => k = Len(b) /\ Phase(c)' = "ending"

LEMMA AcceptsMap ==
  ASSUME \A c \in Clients : Accepts(c), UNCHANGED shown
  PROVE  Stream!Accept
  <1>1. /\ DOMAIN Views' = Clients /\ DOMAIN Phases' = Clients
        /\ \A c \in Clients : /\ Views[c] = View(c) /\ Views'[c] = View(c)'
                              /\ Phases[c] = Phase(c) /\ Phases'[c] = Phase(c)'
    BY DEF Views, Phases
  <1>2. ASSUME NEW c \in Clients
        PROVE  \/ Views'[c] = Views[c] /\ Phases'[c] = Phases[c]
               \/ /\ Phases[c] = "open"
                  /\ Phases'[c] \in {"open", "ending"}
                  /\ \E b \in Stream!Bundles :
                       /\ Views'[c] = Views[c] \o b
                       /\ \A k \in DOMAIN b :
                            b[k] = "ERROR" => k = Len(b) /\ Phases'[c] = "ending"
    BY <1>1, <1>2, Zenon DEF Accepts
  <1>3. QED
    BY <1>1, <1>2, Zenon DEF Stream!Accept, Views, Phases, View

(* A step of the manager: each registration stays as it is, or takes a     *)
(* bundle if it is that of a started, open client.                         *)
LEMMA ManagerStepMaps ==
  ASSUME DeliveryInv, UNCHANGED <<sender, outgoing, socket, shown>>,
         \A c \in Clients :
           \/ reg'[c].queue = reg[c].queue /\ reg'[c].closed = reg[c].closed
           \/ /\ c \in clients
              /\ reg[c].closed => reg'[c].closed /\ reg'[c].queue = reg[c].queue
              /\ ~reg[c].closed => Adds(reg[c], reg'[c])
  PROVE  Stream!Accept
  <1>1. ASSUME NEW c \in Clients PROVE Accepts(c)
    <2>1. Local(c) /\ outgoing'[c] = outgoing[c] /\ sender'[c] = sender[c]
          /\ socket'[c] = socket[c]
      BY InvOf
    <2>2. CASE reg'[c].queue = reg[c].queue /\ (reg'[c].closed <=> reg[c].closed)
      BY <2>1, <2>2 DEF Accepts, View, Phase, Pipe
    <2>3. CASE c \in clients /\ ~reg[c].closed /\ Adds(reg[c], reg'[c])
      <3>1. sender[c] # "none" /\ sender[c] # "done"
        BY <2>1, <2>3 DEF Local
      <3>2. /\ Phase(c) = "open"
            /\ Phase(c)' = IF reg'[c].closed THEN "ending" ELSE "open"
            /\ View(c) = outgoing[c] \o reg[c].queue
            /\ View(c)' = outgoing[c] \o reg'[c].queue
        BY <2>1, <2>3, <3>1 DEF Phase, View, Pipe
      <3>3. PICK b \in Stream!Bundles :
              /\ reg'[c].queue = reg[c].queue \o b
              /\ \A k \in DOMAIN b : b[k] = "ERROR" => k = Len(b) /\ reg'[c].closed
        BY <2>3 DEF Adds
      <3>4. b \in Seq(Entries) /\ outgoing[c] \in Seq(Entries) /\ reg[c].queue \in Seq(Entries)
        <4>1. b \in Seq(Entries)
          <5>1. CASE b = <<>>
            BY <5>1
          <5>2. ASSUME NEW e \in Entries, b = <<e>> PROVE b \in Seq(Entries)
            BY <5>2
          <5>3. ASSUME NEW e \in Entries, NEW f \in Entries, b = <<e, f>>
                PROVE  b \in Seq(Entries)
            BY <5>3
          <5>4. QED
            BY <5>1, <5>2, <5>3 DEF Stream!Bundles, Entries
        <4>2. outgoing[c] \in Seq(Entries)
          <5>1. CASE outgoing[c] = <<>>
            BY <5>1
          <5>2. ASSUME NEW e \in Entries, outgoing[c] = <<e>>
                PROVE  outgoing[c] \in Seq(Entries)
            BY <5>2
          <5>3. QED
            BY <2>1, <5>1, <5>2 DEF Local
        <4>3. reg[c].queue \in Seq(Entries)
          BY <2>1 DEF Local, Fits, Registrations, Entries
        <4>4. QED
          BY <4>1, <4>2, <4>3
      <3>5. outgoing[c] \o (reg[c].queue \o b) = (outgoing[c] \o reg[c].queue) \o b
        <4>1. \A p, q, s \in Seq(Entries) : p \o (q \o s) = (p \o q) \o s
          BY ConcatAssoc
        <4>2. QED
          BY <3>4, <4>1
      <3>6. View(c)' = View(c) \o b
        BY <3>2, <3>3, <3>5
      <3>7. QED
        BY <3>2, <3>3, <3>6 DEF Accepts
    <2>4. QED
      BY <2>2, <2>3
  <1>2. QED
    BY <1>1, AcceptsMap

(* A step of one connection changes the view and the phase of no other.    *)
LEMMA OthersKeepView ==
  ASSUME NEW c \in Clients, OnlyClient(c)
  PROVE  /\ Views' = [Views EXCEPT ![c] = View(c)']
         /\ Phases' = [Phases EXCEPT ![c] = Phase(c)']
         /\ Views[c] = View(c) /\ Phases[c] = Phase(c)
  <1>1. ASSUME NEW d \in Clients \ {c} PROVE View(d)' = View(d) /\ Phase(d)' = Phase(d)
    BY <1>1 DEF OnlyClient, View, Phase, Pipe
  <1>2. QED
    BY <1>1 DEF Views, Phases

(* A step of one connection that leaves its own view and phase, and what   *)
(* is shown to all, is a stutter.                                          *)
LEMMA StutterMaps ==
  ASSUME NEW c \in Clients, OnlyClient(c), UNCHANGED shown,
         View(c)' = View(c), Phase(c)' = Phase(c)
  PROVE  UNCHANGED Stream!vars
  <1>1. Views' = Views /\ Phases' = Phases
    BY OthersKeepView DEF Views, Phases
  <1>2. QED
    BY <1>1 DEF Stream!vars, Views, Phases, View

(* A stream that breaks: what was not shown is gone.                       *)
LEMMA BreakMaps ==
  ASSUME NEW c \in Clients, OnlyClient(c), UNCHANGED shown,
         Phase(c) \in {"open", "ending"}, Phase(c)' = "broken"
  PROVE  Stream!Break(c)
  <1>1. View(c)' = <<>>
    BY DEF View
  <1>2. QED
    BY <1>1, OthersKeepView DEF Stream!Break, Views, Phases, View

-----------------------------------------------------------------------------
(* The steps of one connection, mapped.                                    *)

(* Register starts the stream.                                             *)
LEMMA RegisterMaps ==
  ASSUME DeliveryInv, NEW c \in Clients, Register(c)
  PROVE  Stream!Start(c)
  <1>1. Local(c) /\ sender[c] = "none" /\ outgoing[c] = <<>>
    BY InvOf DEF Local, Register
  <1>2. OnlyClient(c)
    BY InvIsLocal DEF Register, OnlyClient, Shape
  <1> DEFINE n == Enqueue(NewRegistration, "CONNECTING")
  <1>3. Fits(NewRegistration) /\ ~NewRegistration.closed /\ NewRegistration.queue = <<>>
    BY CapacityAssumption, TimeAssumption
    DEF Fits, NewRegistration, Registrations, States, Codes, Never, MaxAge
  <1>4. ~n.closed /\ n.queue = <<"CONNECTING">>
    <2>1. n = [NewRegistration EXCEPT !.queue = Append(<<>>, "CONNECTING")]
      <3>1. Len(<<>>) < Capacity
        BY CapacityAssumption
      <3>2. QED
        BY <1>3, <3>1 DEF Enqueue
    <2>2. Append(<<>>, "CONNECTING") = <<"CONNECTING">>
      OBVIOUS
    <2>3. QED
      BY <2>1, <2>2 DEF NewRegistration
  <1> HIDE DEF n
  <1>5. reg'[c] = n /\ sender'[c] = "waiting" /\ outgoing'[c] = <<>>
    BY <1>1, InvIsLocal DEF Register, Shape, n
  <1>6. /\ Phase(c) = "none" /\ Phase(c)' = "open"
        /\ View(c)' = <<"CONNECTING">>
    BY <1>1, <1>4, <1>5 DEF Phase, View, Pipe
  <1>7. QED
    BY <1>2, <1>6, OthersKeepView DEF Stream!Start, Views, Phases, View, Register

(* SenderTakes moves an event within the pipe.                             *)
LEMMA SenderTakesMaps ==
  ASSUME DeliveryInv, NEW c \in Clients, SenderTakes(c)
  PROVE  UNCHANGED Stream!vars
  <1> DEFINE q == reg[c].queue
  <1>1. Local(c) /\ outgoing[c] = <<>> /\ q # <<>> /\ sender[c] = "waiting"
    BY InvOf DEF Local, SenderTakes
  <1>2. OnlyClient(c)
    BY InvIsLocal DEF SenderTakes, OnlyClient, Shape
  <1>3. /\ reg'[c] = [reg[c] EXCEPT !.queue = Tail(q)] /\ sender'[c] = "sending"
        /\ outgoing'[c] = <<Head(q)>> /\ socket'[c] = socket[c]
    BY InvIsLocal DEF SenderTakes, Shape
  <1>4. q \in Seq(Entries) /\ reg[c] \in Registrations
    BY <1>1 DEF Local, Fits, Registrations, Entries
  <1>5. reg'[c].closed = reg[c].closed /\ reg'[c].queue = Tail(q)
    BY <1>3, <1>4 DEF Registrations
  <1> HIDE DEF q
  <1>6. <<Head(q)>> \o Tail(q) = <<>> \o q
    BY <1>1, <1>4
  <1>7. View(c)' = View(c) /\ Phase(c)' = Phase(c)
    BY <1>1, <1>3, <1>5, <1>6 DEF View, Phase, Pipe, q
  <1>8. QED
    BY <1>2, <1>7, StutterMaps DEF SenderTakes

(* SenderSends shows the event to the client.                              *)
LEMMA SenderSendsMaps ==
  ASSUME DeliveryInv, NEW c \in Clients, SenderSends(c)
  PROVE  Stream!Show(c)
  <1>1. Local(c) /\ outgoing[c] # <<>> /\ sender[c] = "sending"
    BY InvOf DEF Local, SenderSends
  <1>2. OnlyClient(c)
    BY InvIsLocal DEF SenderSends, OnlyClient, Shape
  <1>3. PICK e \in Entries : outgoing[c] = <<e>>
    BY <1>1 DEF Local
  <1>4. /\ reg'[c] = reg[c] /\ sender'[c] = "waiting" /\ outgoing'[c] = <<>>
        /\ socket'[c] = socket[c]
        /\ shown' = [shown EXCEPT ![c] = IF e = "quote" THEN shown[c] ELSE e]
    <2>1. shown' = [shown EXCEPT ![c] =
                      IF outgoing[c] = <<"quote">> THEN shown[c] ELSE Head(outgoing[c])]
      BY DEF SenderSends
    <2>2. (outgoing[c] = <<"quote">> <=> e = "quote") /\ Head(outgoing[c]) = e
      BY <1>3
    <2>3. QED
      BY <2>1, <2>2, InvIsLocal DEF SenderSends, Shape
  <1> DEFINE q == reg[c].queue
  <1>5. q \in Seq(Entries)
    BY <1>1 DEF Local, Fits, Registrations, Entries
  <1>6. /\ Phase(c) \in {"open", "ending"} /\ Phase(c)' = Phase(c)
        /\ View(c) = <<e>> \o q /\ View(c)' = <<>> \o q
    BY <1>1, <1>3, <1>4 DEF Phase, View, Pipe
  <1> HIDE DEF q
  <1>7. View(c) # <<>> /\ Head(View(c)) = e /\ Tail(View(c)) = View(c)'
    BY <1>5, <1>6
  <1>8. /\ Views[c] # <<>>
        /\ Views' = [Views EXCEPT ![c] = Tail(Views[c])]
        /\ Phases[c] \in {"open", "ending"}
        /\ Phases' = Phases
        /\ shown' = [shown EXCEPT ![c] =
                       IF Head(Views[c]) = "quote" THEN shown[c] ELSE Head(Views[c])]
    <2>1. /\ Views' = [Views EXCEPT ![c] = View(c)']
          /\ Phases' = [Phases EXCEPT ![c] = Phase(c)]
          /\ Views[c] = View(c) /\ Phases[c] = Phase(c)
      BY <1>2, <1>6, OthersKeepView
    <2>2. Phases' = Phases
      BY <2>1 DEF Phases
    <2>3. QED
      BY <1>4, <1>6, <1>7, <2>1, <2>2
  <1>9. QED
    BY <1>8, Zenon DEF Stream!Show, Views, Phases, View

(* SenderFails breaks the stream.                                          *)
LEMMA SenderFailsMaps ==
  ASSUME DeliveryInv, NEW c \in Clients, SenderFails(c)
  PROVE  Stream!Break(c)
  <1>1. Local(c) /\ sender[c] = "sending" /\ socket[c] = "left"
    BY InvOf DEF SenderFails
  <1>2. OnlyClient(c)
    BY InvIsLocal DEF SenderFails, OnlyClient, Shape
  <1>3. sender'[c] = "done" /\ socket'[c] = socket[c] /\ UNCHANGED shown
    BY InvIsLocal DEF SenderFails, Shape
  <1>4. Phase(c) \in {"open", "ending"} /\ Phase(c)' = "broken"
    BY <1>1, <1>3 DEF Phase, Codes
  <1>5. QED
    BY <1>2, <1>3, <1>4, BreakMaps

(* SenderCloses closes the drained stream, or breaks it if nobody is left  *)
(* to be told.                                                             *)
LEMMA SenderClosesMaps ==
  ASSUME DeliveryInv, NEW c \in Clients, SenderCloses(c)
  PROVE  Stream!Close(c) \/ Stream!Break(c)
  <1>1. /\ Local(c) /\ sender[c] = "waiting" /\ reg[c].closed /\ reg[c].queue = <<>>
        /\ outgoing[c] = <<>>
    BY InvOf DEF SenderCloses, Local
  <1>2. OnlyClient(c)
    BY InvIsLocal DEF SenderCloses, OnlyClient, Shape
  <1>3. /\ sender'[c] = "done" /\ reg'[c] = reg[c] /\ outgoing'[c] = outgoing[c]
        /\ socket'[c] = (IF socket[c] = "open" THEN reg[c].code ELSE socket[c])
        /\ UNCHANGED shown
    BY InvIsLocal DEF SenderCloses, Shape
  <1>4. Phase(c) = "ending" /\ View(c) = <<>>
    BY <1>1 DEF Phase, View, Pipe
  <1>5. CASE socket'[c] \in Codes
    <2>1. Phase(c)' = "closed" /\ View(c)' = <<>>
      BY <1>1, <1>3, <1>5 DEF Phase, View, Pipe
    <2>2. Views' = Views
      BY <1>2, <1>4, <2>1, OthersKeepView DEF Views
    <2>3. QED
      BY <1>2, <1>3, <1>4, <2>1, <2>2, OthersKeepView DEF Stream!Close, Views, Phases, View
  <1>6. CASE socket'[c] \notin Codes
    <2>1. Phase(c)' = "broken"
      BY <1>3, <1>6 DEF Phase
    <2>2. QED
      BY <1>2, <1>3, <1>4, <2>1, BreakMaps
  <1>7. QED
    BY <1>5, <1>6

(* Leave, ReceiveText, ReceiveDisconnect: the pipe is untouched.           *)
LEMMA ClientSideMaps ==
  ASSUME DeliveryInv, NEW c \in Clients,
         Leave(c) \/ ReceiveText(c) \/ ReceiveDisconnect(c)
  PROVE  UNCHANGED Stream!vars
  <1>1. OnlyClient(c) /\ Local(c)
    BY InvIsLocal, InvOf DEF Leave, ReceiveText, ReceiveDisconnect, OnlyClient, Shape
  <1>2. /\ reg'[c] = reg[c] /\ sender'[c] = sender[c] /\ outgoing'[c] = outgoing[c]
        /\ UNCHANGED shown
        /\ socket'[c] = socket[c] \/ (socket[c] = "open" /\ socket'[c] = "left")
    BY InvIsLocal DEF Leave, ReceiveText, ReceiveDisconnect, Shape
  <1>3. View(c)' = View(c) /\ Phase(c)' = Phase(c)
    BY <1>2 DEF View, Phase, Pipe, Codes
  <1>4. QED
    BY <1>1, <1>2, <1>3, StutterMaps

(* Unregister breaks a stream that its sender has not ended.               *)
LEMMA UnregisterMaps ==
  ASSUME DeliveryInv, NEW c \in Clients, Unregister(c)
  PROVE  Stream!Break(c) \/ UNCHANGED Stream!vars
  <1>1. Local(c) /\ handler[c] = "unregistering"
    BY InvOf DEF Unregister
  <1>2. OnlyClient(c)
    BY InvIsLocal DEF Unregister, OnlyClient, Shape
  <1>3. /\ sender'[c] = "done" /\ outgoing'[c] = <<>> /\ UNCHANGED shown
        /\ socket'[c] = (IF socket[c] = "open" THEN "abandoned" ELSE socket[c])
    BY InvIsLocal DEF Unregister, Shape
  <1>4. sender[c] \in {"waiting", "sending", "done"}
    BY <1>1 DEF Local
  <1>5. CASE socket[c] \in Codes
    <2>1. socket'[c] = socket[c] /\ sender[c] = "done" /\ outgoing[c] = <<>>
          /\ reg[c].queue = <<>>
      BY <1>1, <1>3, <1>5 DEF Local, Codes
    <2>2. reg'[c].queue = <<>>
      BY <1>5, <2>1, UnregisterSafe, InvIsLocalNext DEF AllLocal, Local
    <2>3. View(c)' = View(c) /\ Phase(c)' = Phase(c)
      BY <1>3, <1>5, <2>1, <2>2 DEF View, Phase, Pipe
    <2>4. QED
      BY <1>2, <1>3, <2>3, StutterMaps
  <1>6. CASE socket[c] \notin Codes /\ sender[c] = "done"
    <2>1. Phase(c) = "broken" /\ Phase(c)' = "broken"
      BY <1>3, <1>6 DEF Phase, Codes
    <2>2. View(c)' = View(c)
      BY <2>1 DEF View
    <2>3. QED
      BY <1>2, <1>3, <2>1, <2>2, StutterMaps
  <1>7. CASE socket[c] \notin Codes /\ sender[c] # "done"
    <2>1. Phase(c) \in {"open", "ending"} /\ Phase(c)' = "broken"
      BY <1>3, <1>4, <1>7 DEF Phase, Codes
    <2>2. QED
      BY <1>2, <1>3, <2>1, BreakMaps
  <1>8. QED
    BY <1>5, <1>6, <1>7

-----------------------------------------------------------------------------
(* The steps of the manager, mapped.                                       *)

(* FanOut is an Accept.                                                    *)
LEMMA FanOutMaps ==
  ASSUME DeliveryInv, FanOut
  PROVE  Stream!Accept
  <1> DEFINE e == Head(consumer.hand)
  <1>1. Tasks
    BY InvIsLocal
  <1>2. consumer.lag \in 0..MaxLag /\ e \in ProviderEvents
    <2>1. consumer.hand # <<>>
      BY <1>1 DEF Tasks, FanOut
    <2>2. PICK d \in ProviderEvents : consumer.hand = <<d>>
      BY <1>1, <2>1 DEF Tasks
    <2>3. QED
      BY <1>1, <2>2 DEF Tasks
  <1>3. ASSUME NEW c \in Clients
        PROVE  \/ reg'[c] = reg[c]
               \/ c \in clients /\ reg'[c] = Handled(reg[c], e, consumer.lag)
    <2> DEFINE new(d) == IF d \in clients /\ Wants[d] \cap e.interests # {}
                         THEN Handled(reg[d], e, consumer.lag) ELSE reg[d]
    <2>1. reg' = [d \in Clients |-> new(d)]
      BY Zenon DEF FanOut, e
    <2> HIDE DEF new
    <2>2. reg'[c] = new(c)
      BY <2>1
    <2>3. QED
      BY <2>2, Zenon DEF new
  <1> HIDE DEF e
  <1>4. ASSUME NEW c \in Clients
        PROVE  \/ reg'[c].queue = reg[c].queue /\ reg'[c].closed = reg[c].closed
               \/ /\ c \in clients
                  /\ reg[c].closed => reg'[c].closed /\ reg'[c].queue = reg[c].queue
                  /\ ~reg[c].closed => Adds(reg[c], reg'[c])
    <2>1. CASE reg'[c] = reg[c]
      BY <2>1
    <2>2. CASE c \in clients /\ reg'[c] = Handled(reg[c], e, consumer.lag)
      <3>1. Becomes(HeardBy(c), reg[c], reg'[c])
        BY <1>2, <2>2, ClientFacts, HandledBecomes
      <3>2. ~reg[c].closed => Adds(reg[c], reg'[c])
        BY <1>2, <2>2, ClientFacts, HandledAdds
      <3>3. QED
        BY <2>2, <3>1, <3>2 DEF Becomes
    <2>3. QED
      BY <1>3, <2>1, <2>2
  <1>5. QED
    BY <1>4, ManagerStepMaps DEF FanOut

(* MonitorChecks is one.                                                   *)
LEMMA MonitorChecksMaps ==
  ASSUME DeliveryInv, MonitorChecks
  PROVE  Stream!Accept
  <1>1. monitor.lag \in 0..MaxLag
    BY InvIsLocal DEF Tasks
  <1>2. ASSUME NEW c \in Clients
        PROVE  \/ reg'[c].queue = reg[c].queue /\ reg'[c].closed = reg[c].closed
               \/ /\ c \in clients
                  /\ reg[c].closed => reg'[c].closed /\ reg'[c].queue = reg[c].queue
                  /\ ~reg[c].closed => Adds(reg[c], reg'[c])
    <2>1. reg'[c] = IF c \in clients THEN Aged(reg[c], monitor.lag) ELSE reg[c]
      BY DEF MonitorChecks
    <2>2. CASE c \in clients
      <3>1. Becomes(HeardBy(c), reg[c], reg'[c])
        BY <1>1, <2>1, <2>2, ClientFacts, AgedBecomes
      <3>2. ~reg[c].closed => Adds(reg[c], reg'[c])
        BY <1>1, <2>1, <2>2, ClientFacts, AgedAdds
      <3>3. QED
        BY <2>2, <3>1, <3>2 DEF Becomes
    <2>3. QED
      BY <2>1, <2>2
  <1>3. QED
    BY <1>2, ManagerStepMaps DEF MonitorChecks

(* StopClears is one: every open stream of _clients begins to end.         *)
LEMMA StopClearsMaps ==
  ASSUME DeliveryInv, StopClears
  PROVE  Stream!Accept
  <1>1. ASSUME NEW c \in Clients
        PROVE  \/ reg'[c].queue = reg[c].queue /\ reg'[c].closed = reg[c].closed
               \/ /\ c \in clients
                  /\ reg[c].closed => reg'[c].closed /\ reg'[c].queue = reg[c].queue
                  /\ ~reg[c].closed => Adds(reg[c], reg'[c])
    <2>1. reg'[c] = IF c \in clients
                    THEN [reg[c] EXCEPT !.code = "1012", !.closed = TRUE] ELSE reg[c]
      BY DEF StopClears
    <2>2. CASE c \in clients
      <3>1. Fits(reg[c]) /\ reg[c].queue \in Seq(Entries)
        BY ClientFacts DEF Fits, Registrations, Entries
      <3>2. reg'[c].closed /\ reg'[c].queue = reg[c].queue
        BY <2>1, <2>2, <3>1 DEF Fits, Registrations
      <3>3. reg[c].queue = reg[c].queue \o <<>> /\ \A k \in DOMAIN <<>> : FALSE
        BY <3>1
      <3>4. Adds(reg[c], reg'[c])
        BY <3>2, <3>3, SmallBundles DEF Adds
      <3>5. QED
        BY <2>2, <3>2, <3>4
    <2>3. QED
      BY <2>1, <2>2
  <1>2. QED
    BY <1>1, ManagerStepMaps DEF StopClears

(* Time passing is, of nothing.                                            *)
LEMMA TickMaps ==
  ASSUME DeliveryInv, Tick
  PROVE  Stream!Accept
  <1>1. ASSUME NEW c \in Clients
        PROVE  reg'[c].queue = reg[c].queue /\ reg'[c].closed = reg[c].closed
    <2>1. reg'[c] = IF c \in clients
                    THEN [reg[c] EXCEPT !.age = Older(reg[c].age)] ELSE reg[c]
      BY DEF Tick
    <2>2. Fits(reg[c])
      BY ClientFacts
    <2>3. QED
      BY <2>1, <2>2 DEF Fits, Registrations
  <1>2. QED
    BY <1>1, ManagerStepMaps DEF Tick

(* Every step of every task is a step of the abstract stream or a stutter. *)
LEMMA NextMaps == DeliveryInv /\ [Next]_vars => [Stream!Next]_Stream!vars
  <1> SUFFICES ASSUME DeliveryInv, [Next]_vars PROVE Stream!Next \/ UNCHANGED Stream!vars
    BY Zenon
  <1>1. ASSUME NEW c \in Clients, Register(c) \/ Leave(c) \/ ReceiveText(c)
        PROVE  Stream!Next \/ UNCHANGED Stream!vars
    BY <1>1, RegisterMaps, ClientSideMaps, Zenon DEF Stream!Next
  <1>2. ASSUME NEW c \in Clients, SenderStep(c)
        PROVE  Stream!Next \/ UNCHANGED Stream!vars
    BY <1>2, SenderTakesMaps, SenderSendsMaps, SenderFailsMaps, SenderClosesMaps, Zenon
    DEF SenderStep, Stream!Next
  <1>3. ASSUME NEW c \in Clients, HandlerStep(c)
        PROVE  Stream!Next \/ UNCHANGED Stream!vars
    BY <1>3, ClientSideMaps, UnregisterMaps, Zenon DEF HandlerStep, Stream!Next
  <1>4. ASSUME (\E e \in ProviderEvents : ConsumerTakes(e)) \/ MonitorWakes
        PROVE  UNCHANGED Stream!vars
    BY <1>4 DEF ConsumerTakes, MonitorWakes, clientVars, Stream!vars, Phase, Pipe
  <1>5. ASSUME FanOut \/ MonitorChecks \/ StopClears \/ Tick
        PROVE  Stream!Next
    BY <1>5, FanOutMaps, MonitorChecksMaps, StopClearsMaps, TickMaps, Zenon
    DEF Stream!Next
  <1>6. CASE UNCHANGED vars
    BY <1>6 DEF vars, clientVars, Stream!vars, Phase, Pipe
  <1>7. QED
    BY <1>1, <1>2, <1>3, <1>4, <1>5, <1>6 DEF Next

(* The gateway implements the abstract stream of each client: CONNECTING   *)
(* first, what is accepted shown once and in order, nothing after an       *)
(* ERROR, and no close before the last event.                              *)
THEOREM StreamImplemented == Spec => ImplementsStream
  BY InitMaps, NextMaps, DeliveryCorrect, PTL DEF Spec, ImplementsStream, Stream!Spec
=============================================================================
