-------------------------- MODULE MCYFinanceStream --------------------------
(* An instance for TLC: two interests, two listener tasks, two clients.    *)
EXTENDS YFinanceStream

CONSTANTS i1, i2, l1, l2, k1, k2

MCInterests == {i1, i2}
MCListeners == {l1, l2}
MCClients == {k1, k2}
=============================================================================
