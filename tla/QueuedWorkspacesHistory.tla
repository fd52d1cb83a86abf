---------------------- MODULE QueuedWorkspacesHistory ----------------------
(***************************************************************************)
(* QueuedWorkspaces with history: which entry each workspace was launched  *)
(* for, which entries were run by hand, and which workspaces stopped       *)
(* naturally or were restarted by the user. The history records steps and  *)
(* constrains none.                                                        *)
(***************************************************************************)
EXTENDS QueuedWorkspaces, FiniteSets

VARIABLES origin, ranByHand, stoppedNaturally, restarted

historyVars == <<origin, ranByHand, stoppedNaturally, restarted>>

HistoryInit ==
    /\ Init
    /\ origin = [w \in Workspace |-> Null]
    /\ ranByHand = {}
    /\ stoppedNaturally = {}
    /\ restarted = {}

HistoryNext ==
    /\ Next
    /\ origin' = [w \in Workspace |->
           IF \E e \in Entry : queue'[e].claim = w
           THEN CHOOSE e \in Entry : queue'[e].claim = w
           ELSE origin[w]]
    /\ ranByHand' = ranByHand \cup {e \in Entry : \E p \in Launcher : RunNow(e, p)}
    /\ stoppedNaturally' = stoppedNaturally
           \cup {w \in Workspace : stopping[w] = "asked" /\ stopping'[w] = "recorded"}
    /\ restarted' = restarted \cup {w \in Workspace : Restart(w)}

HistorySpec == HistoryInit /\ [][HistoryNext]_<<vars, historyVars>>

\* The workspaces up that the server launched for an entry; one that a user
\* started again is the user's.
Up(e) == {w \in Workspace \ restarted : origin[w] = e /\ workspace[w] \in {"creating", "running"}}

\* However launches, failures, crashes and second attempts follow each
\* other, the server never has two workspaces up for one entry.
OneWorkspacePerEntry == \A e \in Entry : Cardinality(Up(e)) <= 1

\* A launch that is given up leaves no workspace of its running: otherwise
\* running the entry again would start a second one beside it.
NothingRunsAfterFailure ==
    [][\A e \in Entry :
         Pending(queue, e) /\ queue[e].claim # Null /\ queue'[e].claim = Null
            => queue[e].claim \notin Up(e)
      ]_<<vars, historyVars>>

\* An entry nobody ran is released only once what it waits on has happened:
\* its parent workspace stopped naturally, or its start time came.
ReleasedByItsParent ==
    \A e \in Entry :
        NotLaunching(queue, e) /\ queue[e].released /\ e \notin ranByHand =>
            \/ queue[e].parent.workspace \in stoppedNaturally
            \/ queue[e].parent.at # Null /\ queue[e].parent.at <= now
=============================================================================
