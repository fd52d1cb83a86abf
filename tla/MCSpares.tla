----------------------------- MODULE MCSpares -----------------------------
(***************************************************************************)
(* Spares on small instances; the creates are interchangeable.             *)
(***************************************************************************)
EXTENDS Spares, TLC

Symmetric == Permutations(Create)
=============================================================================
