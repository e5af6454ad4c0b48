--------------------------- MODULE MCClientDelivery ---------------------------
(* ClientDelivery for TLC: one connection.  Connections share nothing but  *)
(* the events that are fanned out to them.                                 *)
EXTENDS ClientDelivery

CONSTANTS c1, i1

MCClients == {c1}
MCInterests == {i1}
MCWants == [c \in MCClients |-> MCInterests]
=============================================================================
