----------------------------- MODULE MCDbProxy -----------------------------
(* DbProxy for TLC: clients are interchangeable. *)
EXTENDS DbProxy, TLC

Symmetry == Permutations(Client)
=============================================================================
