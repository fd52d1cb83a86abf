--------------------------- MODULE MCGroupLimits ---------------------------
(***************************************************************************)
(* GroupLimits on small instances; workspace ids are interchangeable.      *)
(***************************************************************************)
EXTENDS GroupLimits, TLC

Symmetric == Permutations(Workspace)
=============================================================================
