----------------------------- MODULE QuoteDemand -----------------------------
(***************************************************************************)
(* What the stream manager promises about upstream subscriptions, without  *)
(* locks, tasks or bookkeeping: a client is served only while everything   *)
(* it asked for is live, an interest is given up only when no client is    *)
(* served from it, and a shutdown lets nobody in again and ends with       *)
(* nothing live.  An interest in Failable is exempt from the first clause: *)
(* its upstream may be missing.                                            *)
(***************************************************************************)
CONSTANTS Clients, Interests, Failable

VARIABLES
  served,  \* the clients that receive the stream
  wants,   \* [Clients -> the interests each has asked for]
  live,    \* the interests with an upstream subscription
  phase    \* "open", then "draining", then "closed"

vars == <<served, wants, live, phase>>

Init ==
  /\ served = {}
  /\ wants = [c \in Clients |-> {}]
  /\ live = {}
  /\ phase = "open"

(* A client that is not served yet says what it wants.                     *)
Ask(c, w) ==
  /\ phase = "open"
  /\ c \notin served
  /\ wants' = [wants EXCEPT ![c] = w]
  /\ UNCHANGED <<served, live, phase>>

Acquire(i) ==
  /\ phase = "open"
  /\ live' = live \cup {i}
  /\ UNCHANGED <<served, wants, phase>>

Serve(c) ==
  /\ phase = "open"
  /\ wants[c] \ Failable \subseteq live
  /\ served' = served \cup {c}
  /\ UNCHANGED <<wants, live, phase>>

Leave(c) ==
  /\ served' = served \ {c}
  /\ UNCHANGED <<wants, live, phase>>

Release(i) ==
  /\ \A c \in served : i \notin wants[c]
  /\ live' = live \ {i}
  /\ UNCHANGED <<served, wants, phase>>

Drain ==
  /\ phase = "open"
  /\ phase' = "draining"
  /\ served' = {}
  /\ UNCHANGED <<wants, live>>

Close ==
  /\ phase = "draining"
  /\ phase' = "closed"
  /\ live' = {}
  /\ UNCHANGED <<served, wants>>

Next ==
  \/ \E c \in Clients, w \in SUBSET Interests : Ask(c, w)
  \/ \E i \in Interests : Acquire(i) \/ Release(i)
  \/ \E c \in Clients : Serve(c) \/ Leave(c)
  \/ Drain
  \/ Close

Spec == Init /\ [][Next]_vars
=============================================================================
