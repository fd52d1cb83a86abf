------------------------------ MODULE MCSites ------------------------------
(* Releases are interchangeable. *)
EXTENDS Sites, TLC
Symmetric == Permutations(Release)
=============================================================================
