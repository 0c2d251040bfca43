--------------------------- MODULE MCWalDatabase ---------------------------
(* Finite instances of WalDatabase for TLC.                                *)
EXTENDS WalDatabase, TLC

CONSTANTS c1, c2, k1, k2

TwoClients == {c1, c2}
ClientSymmetry == Permutations(TwoClients)
=============================================================================
