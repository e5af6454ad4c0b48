----------------------------- MODULE ClientStream -----------------------------
(***************************************************************************)
(* What a connected client may rely on, without tasks, clocks or locks:    *)
(* its stream starts with CONNECTING, what is accepted for it is shown to  *)
(* it once and in order, nothing follows an ERROR, and a stream that the   *)
(* gateway ends is shown to the last event before the close.  A connection *)
(* may break at any time.                                                  *)
(***************************************************************************)
EXTENDS Sequences

CONSTANTS Clients, Events

VARIABLES
  pipe,   \* [Clients -> events accepted and not shown yet, in order]
  shown,  \* [Clients -> the last status shown, "none" before the first]
  phase   \* [Clients -> "none", "open", "ending", "closed" or "broken"]

vars == <<pipe, shown, phase>>

Init ==
  /\ pipe = [c \in Clients |-> <<>>]
  /\ shown = [c \in Clients |-> "none"]
  /\ phase = [c \in Clients |-> "none"]

Start(c) ==
  /\ phase[c] = "none"
  /\ phase' = [phase EXCEPT ![c] = "open"]
  /\ pipe' = [pipe EXCEPT ![c] = <<"CONNECTING">>]
  /\ UNCHANGED shown

(* At most two events at a time: a quote and the status it brings about.   *)
Bundles == {<<>>} \cup {<<e>> : e \in Events} \cup (Events \X Events)

(* One step may accept events for many clients; the stream of one that is  *)
(* told of an ERROR, or falls behind, is ending.                           *)
Accept ==
  /\ \A c \in Clients :
       \/ UNCHANGED <<pipe[c], phase[c]>>
       \/ /\ phase[c] = "open"
          /\ phase'[c] \in {"open", "ending"}
          /\ \E b \in Bundles :
               /\ pipe'[c] = pipe[c] \o b
               /\ \A k \in DOMAIN b :
                    b[k] = "ERROR" => k = Len(b) /\ phase'[c] = "ending"
  /\ DOMAIN pipe' = Clients
  /\ DOMAIN phase' = Clients
  /\ UNCHANGED shown

Show(c) ==
  /\ phase[c] \in {"open", "ending"}
  /\ pipe[c] # <<>>
  /\ pipe' = [pipe EXCEPT ![c] = Tail(@)]
  /\ shown' = [shown EXCEPT ![c] = IF Head(pipe[c]) = "quote" THEN @ ELSE Head(pipe[c])]
  /\ UNCHANGED phase

Close(c) ==
  /\ phase[c] = "ending"
  /\ pipe[c] = <<>>
  /\ phase' = [phase EXCEPT ![c] = "closed"]
  /\ UNCHANGED <<pipe, shown>>

Break(c) ==
  /\ phase[c] \in {"open", "ending"}
  /\ phase' = [phase EXCEPT ![c] = "broken"]
  /\ pipe' = [pipe EXCEPT ![c] = <<>>]
  /\ UNCHANGED shown

Next ==
  \/ \E c \in Clients : Start(c) \/ Show(c) \/ Close(c) \/ Break(c)
  \/ Accept

Spec == Init /\ [][Next]_vars
=============================================================================
