----------------------------- MODULE MCDbCache -----------------------------
(* DbCache for TLC: tables are interchangeable. *)
EXTENDS DbCache, TLC

Symmetry == Permutations(Table)
=============================================================================
