-------------------- MODULE QueuedWorkspacesRefinement --------------------
(***************************************************************************)
(* QueuedWorkspaces implements QueueContract.                              *)
(***************************************************************************)
EXTENDS QueuedWorkspaces

PhaseOf(row) ==
    CASE row.state = "unused"                       -> "absent"
      [] row.state = "pending" /\ row.claim = Null  -> "waiting"
      [] row.state = "pending" /\ row.claim # Null  -> "launching"
      [] row.state = "launched"                     -> "launched"
      [] row.state = "deleted"                      -> "gone"

Queued == INSTANCE QueueContract WITH
    phase   <- [e \in Entry |-> PhaseOf(queue[e])],
    attempt <- [e \in Entry |-> queue[e].claim],
    used    <- {w \in Workspace : workspace[w] \notin {"unused", "drawn"}}

\* Every step of the queue, a crash and a stale caller's included, is one of
\* the contract's or leaves its view unchanged.
KeepsContract == Queued!Contract
=============================================================================
