--------------------- MODULE MCQueuedWorkspacesHistory ---------------------
(***************************************************************************)
(* QueuedWorkspacesHistory on small instances; see MCQueuedWorkspaces.     *)
(***************************************************************************)
EXTENDS QueuedWorkspacesHistory, QueuedWorkspacesRefinement, TLC

Symmetric == Permutations(Workspace \ Existing) \cup Permutations(Launcher) \cup Permutations(Requester)
=============================================================================
