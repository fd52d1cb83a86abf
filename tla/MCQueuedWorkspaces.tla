------------------------ MODULE MCQueuedWorkspaces ------------------------
(***************************************************************************)
(* QueuedWorkspaces on small instances. The uuids launches draw, the       *)
(* launchers and the requesters are interchangeable. A run that turns      *)
(* deadlock checking off may stop because its uuids are used up.           *)
(***************************************************************************)
EXTENDS QueuedWorkspaces, TLC

Symmetric == Permutations(Workspace \ Existing) \cup Permutations(Launcher) \cup Permutations(Requester)
=============================================================================
