--------------------------- MODULE MCStreamManager ---------------------------
(* StreamManager for TLC: three connections compete for two interests, of  *)
(* which one may fail to open.                                             *)
EXTENDS StreamManager, TLC

CONSTANTS c1, c2, c3, i1, i2

MCClients3 == {c1, c2, c3}
MCClients2 == {c1, c2}
MCInterests == {i1, i2}
MCFailable == {i2}
Symmetry == Permutations(MCClients3)
=============================================================================
