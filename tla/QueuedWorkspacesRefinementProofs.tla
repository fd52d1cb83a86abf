----------------- MODULE QueuedWorkspacesRefinementProofs -----------------
(***************************************************************************)
(* QueuedWorkspaces implements QueueContract, for every value of the       *)
(* constants: each step of the queue is a step of the contract on what     *)
(* KeepsContract maps it to.                                               *)
(***************************************************************************)
EXTENDS QueuedWorkspacesRefinement, QueuedWorkspacesProofs

\* The view of a row.
LEMMA Phases ==
    \A row \in Row :
        /\ row.state = "unused" => PhaseOf(row) = "absent"
        /\ row.state = "pending" /\ row.claim = Null => PhaseOf(row) = "waiting"
        /\ row.state = "pending" /\ row.claim # Null => PhaseOf(row) = "launching"
        /\ row.state = "launched" => PhaseOf(row) = "launched"
        /\ row.state = "deleted" => PhaseOf(row) = "gone"
BY DEF PhaseOf

\* Rows with the same state and claim look the same.
LEMMA SameView ==
    \A x, y \in Row : x.state = y.state /\ x.claim = y.claim => PhaseOf(x) = PhaseOf(y)
BY Phases DEF Row, RowState

\* A step that changes no row's state or claim only spends ids.
LEMMA ViewKept ==
    ASSUME TypeOK, TypeOK', SpentIds \subseteq SpentIds',
           \A e \in Entry : queue'[e].state = queue[e].state /\ queue'[e].claim = queue[e].claim
    PROVE  Queued!ContractNext
<1>1. \A e \in Entry : PhaseOf(queue'[e]) = PhaseOf(queue[e])
  BY SameView DEF TypeOK, Queue
<1>2. [e \in Entry |-> PhaseOf(queue'[e])] = [e \in Entry |-> PhaseOf(queue[e])]  BY <1>1
<1>3. [e \in Entry |-> queue'[e].claim] = [e \in Entry |-> queue[e].claim]  OBVIOUS
<1>4. Queued!Spend  BY <1>2, <1>3 DEF Queued!Spend, SpentIds
<1>. QED  BY <1>4 DEF Queued!ContractNext

\* A step that moves the one row `e` along.
LEMMA ViewMoved ==
    ASSUME TypeOK, TypeOK', NEW e \in Entry,
           \A c \in Entry \ {e} : queue'[c].state = queue[c].state /\ queue'[c].claim = queue[c].claim
    PROVE  /\ [c \in Entry |-> PhaseOf(queue'[c])]
                = [[c \in Entry |-> PhaseOf(queue[c])] EXCEPT ![e] = PhaseOf(queue'[e])]
           /\ [c \in Entry |-> queue'[c].claim]
                = [[c \in Entry |-> queue[c].claim] EXCEPT ![e] = queue'[e].claim]
<1>1. \A c \in Entry \ {e} : PhaseOf(queue'[c]) = PhaseOf(queue[c])
  BY SameView DEF TypeOK, Queue
<1>. QED  BY <1>1

-----------------------------------------------------------------------------
(***************************************************************************)
(* What a step does to the states and claims of the rows.                  *)
(***************************************************************************)
Same == \A c \in Entry : queue'[c].state = queue[c].state /\ queue'[c].claim = queue[c].claim

\* The row `e` alone gets this state and claim.
Moves(e, state, claim) ==
    /\ queue'[e].state = state /\ queue'[e].claim = claim
    /\ \A c \in Entry \ {e} : queue'[c].state = queue[c].state /\ queue'[c].claim = queue[c].claim

Launching(e) == Pending(queue, e) /\ queue[e].claim # Null

Enqueues == \E e \in Entry : queue[e].state = "unused" /\ Moves(e, "pending", Null)
Withdraws == \E e \in Entry : NotLaunching(queue, e) /\ Moves(e, "deleted", Null)
Completes == \E e \in Entry : Launching(e) /\ Moves(e, "launched", queue[e].claim)
GivesBack == \E e \in Entry : Launching(e) /\ Moves(e, "pending", Null)
Forgets == \E w \in Workspace : queue' = Cascaded(queue, w)
Launches ==
    \E e \in Entry, w \in Workspace \ SpentIds :
        NotLaunching(queue, e) /\ Moves(e, "pending", w) /\ SpentIds' = SpentIds \cup {w}

Effect ==
    \/ Same /\ SpentIds \subseteq SpentIds'
    \/ Launches
    \/ (Enqueues \/ Withdraws \/ Completes \/ GivesBack \/ Forgets) /\ SpentIds' = SpentIds

LEMMA InsertedMoves ==
    ASSUME TypeOK, NEW e \in Entry, NEW p, NEW g, queue' = Inserted(queue, e, p, g)
    PROVE  Moves(e, "pending", Null)
BY DEF Inserted, Moves, TypeOK, Queue

LEMMA UpdatedSame ==
    ASSUME TypeOK, NEW e \in Entry, NEW p, NEW g, queue' = Updated(queue, e, p, g)
    PROVE  Same
BY DEF Updated, Same, TypeOK, Queue, Row

LEMMA DeletedMoves ==
    ASSUME TypeOK, NEW e \in Entry, queue' = Deleted(queue, e, now)
    PROVE  Moves(e, "deleted", Null)
<1>1. queue'[e] = NoRow("deleted")  BY DEF Deleted
<1>2. ASSUME NEW c \in Entry \ {e}
      PROVE  queue'[c].state = queue[c].state /\ queue'[c].claim = queue[c].claim
  <2>1. queue[c] \in Row /\ queue[e] \in Row  BY DEF TypeOK, Queue
  <2>2. queue'[c] = queue[c] \/ queue'[c] = Spliced(queue[c], queue[e], now)  BY DEF Deleted
  <2>. QED  BY <2>1, <2>2 DEF Spliced, Row
<1>. QED  BY <1>1, <1>2 DEF Moves, NoRow

LEMMA ReleasesSame ==
    ASSUME TypeOK,
           \/ \E w \in Workspace : queue' = ChildrenReleased(queue, w)
           \/ queue' = DueReleased(queue, now)
           \/ \E e \in Entry : queue' = Released(queue, e)
    PROVE  Same
<1>. SUFFICES ASSUME NEW c \in Entry
              PROVE  queue'[c].state = queue[c].state /\ queue'[c].claim = queue[c].claim
  BY DEF Same
<1>1. queue[c] \in Row  BY DEF TypeOK, Queue
<1>2. \/ queue'[c] = queue[c]
      \/ queue'[c] = [queue[c] EXCEPT !.released = TRUE]
      \/ queue'[c] = [queue[c] EXCEPT !.released = TRUE, !.error = FALSE]
  BY DEF ChildrenReleased, DueReleased, Released, TypeOK, Queue
<1>. QED  BY <1>1, <1>2 DEF Row

LEMMA ClaimedMoves ==
    ASSUME TypeOK, NEW e \in Entry, NEW w, NotLaunching(queue, e), queue' = Claimed(queue, e, w)
    PROVE  Moves(e, "pending", w)
BY DEF Claimed, ChildrenMoved, NotLaunching, Pending, Moves, TypeOK, Queue, Row

LEMMA FinishedEffect ==
    ASSUME TypeOK, NEW e \in Entry, NEW w, w # Null, queue' = Finished(queue, e, w)
    PROVE  Same \/ Completes
<1>1. CASE ClaimedBy(queue, e, w)
  <2>1. Moves(e, "launched", queue[e].claim)
    BY <1>1 DEF Finished, ChildrenMoved, Moves, TypeOK, Queue, Row
  <2>. QED  BY <1>1, <2>1 DEF Completes, Launching, ClaimedBy
<1>2. CASE ~ClaimedBy(queue, e, w)  BY <1>2 DEF Finished, Same
<1>. QED  BY <1>1, <1>2

LEMMA FailedEffect ==
    ASSUME TypeOK, NEW e \in Entry, NEW w, NEW error, w # Null, queue' = Failed(queue, e, w, error)
    PROVE  Same \/ GivesBack
<1>1. CASE ClaimedBy(queue, e, w)
  <2>1. Moves(e, "pending", Null)
    BY <1>1 DEF Failed, ClaimedBy, Pending, Moves, TypeOK, Queue, Row
  <2>. QED  BY <1>1, <2>1 DEF GivesBack, Launching, ClaimedBy
<1>2. CASE ~ClaimedBy(queue, e, w)  BY <1>2 DEF Failed, Same
<1>. QED  BY <1>1, <1>2

LEMMA LauncherEffect ==
    ASSUME Inv, NEW p \in Launcher, LauncherStep(p)
    PROVE  Effect
<1>1. TypeOK  BY DEF Inv
<1>2. CASE ListWaiting(p) \/ LoseRow(p) \/ FindFull(p)
  BY <1>2 DEF ListWaiting, LoseRow, FindFull, Effect, Same, SpentIds
<1>3. CASE TakeSlot(p)
  BY <1>1, <1>3 DEF TakeSlot, Effect, Same, SpentIds, TypeOK
<1>4. CASE ClaimLaunch(p)
  <2>. DEFINE e == launcher[p].entry
              w == launcher[p].workspace
  <2>1. launcher[p] \in Claiming /\ launcher[p].stage = "claim"  BY <1>1, <1>4, Stages DEF ClaimLaunch
  <2>2. e \in Entry /\ w \in Workspace /\ workspace[w] = "drawn"
    BY <2>1 DEF Claiming, Inv, DrawnHeld
  <2>3. \E s \in {"creating", "gone"} : workspace' = [workspace EXCEPT ![w] = s]
    BY <1>4 DEF ClaimLaunch
  <2>4. SpentIds' = SpentIds \cup {w} /\ w \notin SpentIds
    BY <1>1, <2>2, <2>3 DEF SpentIds, TypeOK
  <2>5. CASE NotLaunching(queue, e)
    <3>1. queue' = Claimed(queue, e, w)  BY <1>4, <2>5 DEF ClaimLaunch
    <3>2. Moves(e, "pending", w)  BY <1>1, <2>2, <2>5, <3>1, ClaimedMoves
    <3>. QED  BY <2>2, <2>4, <2>5, <3>2 DEF Effect, Launches
  <2>6. CASE ~NotLaunching(queue, e)
    BY <1>4, <2>4, <2>6 DEF ClaimLaunch, Effect, Same
  <2>. QED  BY <2>5, <2>6
<1>. QED  BY <1>2, <1>3, <1>4 DEF LauncherStep

LEMMA LaunchEffect ==
    ASSUME Inv, NEW l \in launches, LaunchStep(l)
    PROVE  Effect
<1>. DEFINE w == l.workspace
<1>1. TypeOK  BY DEF Inv
<1>2. l.entry \in Entry /\ w \in SpentIds /\ w # Null
  BY <1>1, StoreAssumption DEF Inv, LaunchesSpent, TypeOK, Launch
<1>3. \/ workspace' = workspace
      \/ \E s \in WorkspaceState \ {"unused", "drawn"} : workspace' = [workspace EXCEPT ![w] = s]
  BY DEF LaunchStep, LaunchRuns, LaunchFails, LaunchStopped, RecordFinish, RecordFailure, SettleLaunch,
         WorkspaceState
<1>4. SpentIds' = SpentIds  BY <1>1, <1>2, <1>3, SpentKept
<1>5. \/ queue' = queue
      \/ queue' = Finished(queue, l.entry, w)
      \/ queue' = Failed(queue, l.entry, w, LaunchError(l))
  BY DEF LaunchStep, LaunchRuns, LaunchFails, LaunchStopped, RecordFinish, RecordFailure, SettleLaunch
<1>. HIDE DEF w
<1>6. Same \/ Completes \/ GivesBack
  BY <1>1, <1>2, <1>5, FinishedEffect, FailedEffect DEF Same
<1>. QED  BY <1>4, <1>6 DEF Effect

LEMMA RequestEffect ==
    ASSUME Inv, NEW r \in Requester, RequestStep(r)
    PROVE  Effect
<1>1. TypeOK  BY DEF Inv
<1>2. SpentIds' = SpentIds
  BY DEF RequestStep, ResolveQueue, InsertQueued, WriteEdit, ResolveEdit, SpentIds
<1>3. CASE InsertQueued(r)
  <2>1. queue' = queue \/ Enqueues
    BY <1>1, <1>3, InsertedMoves DEF InsertQueued, Enqueues
  <2>. QED  BY <1>2, <2>1 DEF Effect, Same
<1>4. CASE WriteEdit(r)
  <2>1. request[r].entry \in Entry  BY <1>1, <1>4, Stages DEF WriteEdit, Editing
  <2>2. Same  BY <1>1, <1>4, <2>1, UpdatedSame DEF WriteEdit, Same
  <2>. QED  BY <1>2, <2>2 DEF Effect
<1>5. CASE ResolveQueue(r) \/ \E e \in Entry : ResolveEdit(r, e)
  BY <1>2, <1>5 DEF ResolveQueue, ResolveEdit, Effect, Same
<1>. QED  BY <1>3, <1>4, <1>5 DEF RequestStep

\* Commands on entries and workspaces, and the clock.
LEMMA CommandEffect ==
    ASSUME Inv, EntryCommand \/ WorkspaceCommand \/ (\E w \in Workspace : StopStep(w))
                \/ Tick \/ ReleaseDue \/ ReconcilePass
    PROVE  Effect
<1>1. TypeOK  BY DEF Inv
<1>2. ASSUME NEW e \in Entry, Discard(e)  PROVE Effect
  BY <1>1, <1>2, DeletedMoves DEF Discard, Effect, Withdraws, SpentIds
<1>3. ASSUME NEW e \in Entry, NEW p \in Launcher, RunNow(e, p)  PROVE Effect
  BY <1>1, <1>3, ReleasesSame DEF RunNow, Effect, SpentIds
<1>4. ASSUME NEW w \in Workspace,
             StopStep(w) \/ AskStop(w) \/ Die(w) \/ Restart(w) \/ HoldForDelete(w) \/ CheckDelete(w)
             \/ DeleteWorkspace(w)
      PROVE  Effect
  <2>1. \/ workspace' = workspace
        \/ w \in SpentIds /\ \E s \in WorkspaceState \ {"unused", "drawn"} : workspace' = [workspace EXCEPT ![w] = s]
    <3>1. CASE DeleteWorkspace(w)
      BY <3>1 DEF DeleteWorkspace, Inv, HoldsSpent, WorkspaceState
    <3>2. CASE ~DeleteWorkspace(w)
      BY <1>4, <3>2 DEF StopStep, RecordStop, ReleaseChildren, AskStop, Die, Restart, memory,
                        HoldForDelete, CheckDelete, SpentIds, WorkspaceState
    <3>. QED  BY <3>1, <3>2
  <2>2. SpentIds' = SpentIds  BY <1>1, <2>1, SpentKept
  <2>3. queue' = queue \/ queue' = ChildrenReleased(queue, w) \/ queue' = Cascaded(queue, w)
    BY <1>4 DEF StopStep, RecordStop, ReleaseChildren, AskStop, Die, Restart, memory,
                HoldForDelete, CheckDelete, DeleteWorkspace
  <2>4. Same \/ Forgets  BY <1>1, <2>3, ReleasesSame DEF Same, Forgets
  <2>. QED  BY <2>2, <2>4 DEF Effect
<1>5. CASE Tick \/ ReleaseDue \/ ReconcilePass
  <2>1. queue' = queue \/ queue' = DueReleased(queue, now)
    BY <1>5 DEF Tick, ReleaseDue, ReconcilePass
  <2>2. Same  BY <1>1, <2>1, ReleasesSame DEF Same
  <2>. QED  BY <1>5, <2>2 DEF Tick, ReleaseDue, ReconcilePass, Effect, SpentIds
<1>. QED  BY <1>2, <1>3, <1>4, <1>5 DEF EntryCommand, WorkspaceCommand

LEMMA CrashEffect ==
    ASSUME Inv, Crash
    PROVE  Effect
<1>1. PICK up \in SUBSET {w \in Workspace : workspace[w] = "creating"} :
        workspace' = [w \in Workspace |->
           IF w \in up THEN "running"
           ELSE IF workspace[w] \in {"creating", "drawn"} THEN "gone"
           ELSE workspace[w]]
  BY DEF Crash
<1>2. SpentIds \subseteq SpentIds'  BY <1>1 DEF SpentIds
<1>. QED  BY <1>2 DEF Crash, Effect, Same

LEMMA ResumeEffect ==
    ASSUME Inv, ResumeStep
    PROVE  Effect
<1>1. TypeOK  BY DEF Inv
<1>2. SpentIds' = SpentIds
  BY DEF ResumeStep, ResumeList, ResumeRow, ResumeResolve, ResumeDone, SpentIds
<1>3. CASE ResumeResolve
  <2>. DEFINE e == boot.entry
              w == boot.todo[e].claim
  <2>1. boot \in Settling  BY <1>1, <1>3, Stages DEF ResumeResolve
  <2>2. e \in Entry /\ w # Null  BY <1>3, <2>1 DEF Settling, ResumeResolve, Inv, ResumesClaimed
  <2>3. queue' \in {queue, Finished(queue, e, w), Failed(queue, e, w, TRUE)}
    <3>1. boot.verdict \in {"finish", "fail"}  BY <2>1 DEF Settling
    <3>. QED  BY <1>3, <3>1 DEF ResumeResolve
  <2>. HIDE DEF e, w
  <2>4. Same \/ Completes \/ GivesBack
    BY <1>1, <2>2, <2>3, FinishedEffect, FailedEffect DEF Same
  <2>. QED  BY <1>2, <2>4 DEF Effect
<1>4. CASE ResumeList \/ ResumeRow \/ ResumeDone
  BY <1>2, <1>4 DEF ResumeList, ResumeRow, ResumeDone, Effect, Same
<1>. QED  BY <1>3, <1>4 DEF ResumeStep

LEMMA NextEffect == Inv /\ [Next]_vars => Effect
<1>1. UNCHANGED vars => Effect  BY DEF vars, Effect, Same, SpentIds
<1>. QED
  BY <1>1, LauncherEffect, LaunchEffect, RequestEffect, CommandEffect, CrashEffect, ResumeEffect DEF Next
-----------------------------------------------------------------------------
(***************************************************************************)
(* Each effect is a step of the contract.                                  *)
(***************************************************************************)
\* A row not queued yet holds no claim.
Blank == \A e \in Entry : queue[e].state = "unused" => queue[e].claim = Null

LEMMA BlankKept == TypeOK /\ Blank /\ Effect => Blank'
<1>. SUFFICES ASSUME TypeOK, Blank, Effect PROVE Blank'  OBVIOUS
<1>1. CASE Same  BY <1>1 DEF Same, Blank
<1>2. CASE Launches  BY <1>2 DEF Launches, Moves, Blank
<1>3. CASE Enqueues  BY <1>3 DEF Enqueues, Moves, Blank
<1>4. CASE Withdraws  BY <1>4 DEF Withdraws, Moves, Blank
<1>5. CASE Completes  BY <1>5 DEF Completes, Moves, Blank
<1>6. CASE GivesBack  BY <1>6 DEF GivesBack, Moves, Blank
<1>7. CASE Forgets
  <2>1. \A e \in Entry : queue'[e] \in {queue[e], NoRow("deleted")}  BY <1>7 DEF Forgets, Cascaded
  <2>. QED  BY <2>1 DEF Blank, NoRow
<1>. QED  BY <1>1, <1>2, <1>3, <1>4, <1>5, <1>6, <1>7 DEF Effect

LEMMA InitKeeps == Init => Queued!ContractInit /\ Blank
<1>1. Init => \A e \in Entry : queue[e] = NoRow("unused")  BY DEF Init
<1>2. NoRow("unused") \in Row /\ NoRow("unused").state = "unused" /\ NoRow("unused").claim = Null
  BY NoRowTyped DEF NoRow, RowState
<1>3. PhaseOf(NoRow("unused")) = "absent"  BY <1>2, Phases
<1>4. Init => [e \in Entry |-> PhaseOf(queue[e])] = [e \in Entry |-> "absent"]  BY <1>1, <1>3
<1>5. Init => [e \in Entry |-> queue[e].claim] = [e \in Entry |-> Null]  BY <1>1, <1>2
<1>. QED  BY <1>1, <1>2, <1>4, <1>5 DEF Queued!ContractInit, Blank

\* The effects on one row.
LEMMA RowKeeps ==
    ASSUME TypeOK, TypeOK', Blank, SpentIds' = SpentIds,
           Enqueues \/ Withdraws \/ Completes \/ GivesBack
    PROVE  Queued!ContractNext
<1>1. \A e \in Entry : queue[e] \in Row /\ queue'[e] \in Row  BY DEF TypeOK, Queue
<1>2. ASSUME NEW e \in Entry, queue[e].state = "unused", Moves(e, "pending", Null)
      PROVE  Queued!ContractNext
  <2>1. queue[e].claim = Null /\ queue'[e].claim = Null  BY <1>2 DEF Blank, Moves
  <2>2. PhaseOf(queue[e]) = "absent" /\ PhaseOf(queue'[e]) = "waiting"
    BY <1>1, <1>2, Phases DEF Moves
  <2>3. [c \in Entry |-> queue'[c].claim] = [c \in Entry |-> queue[c].claim]
    BY <1>2, <2>1 DEF Moves
  <2>4. Queued!Enqueue(e)
    BY <1>2, <2>2, <2>3, ViewMoved DEF Moves, Queued!Enqueue, SpentIds
  <2>. QED  BY <2>4 DEF Queued!ContractNext
<1>3. ASSUME NEW e \in Entry, NotLaunching(queue, e), Moves(e, "deleted", Null)
      PROVE  Queued!ContractNext
  <2>1. queue[e].claim = Null /\ queue'[e].claim = Null  BY <1>3 DEF NotLaunching, Moves
  <2>2. PhaseOf(queue[e]) = "waiting" /\ PhaseOf(queue'[e]) = "gone"
    BY <1>1, <1>3, Phases DEF NotLaunching, Pending, Moves
  <2>3. [c \in Entry |-> queue'[c].claim] = [c \in Entry |-> queue[c].claim]
    BY <1>3, <2>1 DEF Moves
  <2>4. Queued!Withdraw(e)
    BY <1>3, <2>2, <2>3, ViewMoved DEF Moves, Queued!Withdraw, SpentIds
  <2>. QED  BY <2>4 DEF Queued!ContractNext
<1>4. ASSUME NEW e \in Entry, Launching(e), Moves(e, "launched", queue[e].claim)
      PROVE  Queued!ContractNext
  <2>1. PhaseOf(queue[e]) = "launching" /\ PhaseOf(queue'[e]) = "launched"
    BY <1>1, <1>4, Phases DEF Launching, Pending, Moves
  <2>2. [c \in Entry |-> queue'[c].claim] = [c \in Entry |-> queue[c].claim]
    BY <1>4 DEF Moves
  <2>3. Queued!Complete(e)
    BY <1>4, <2>1, <2>2, ViewMoved DEF Moves, Queued!Complete, SpentIds
  <2>. QED  BY <2>3 DEF Queued!ContractNext
<1>5. ASSUME NEW e \in Entry, Launching(e), Moves(e, "pending", Null)
      PROVE  Queued!ContractNext
  <2>1. PhaseOf(queue[e]) = "launching" /\ PhaseOf(queue'[e]) = "waiting" /\ queue'[e].claim = Null
    BY <1>1, <1>5, Phases DEF Launching, Pending, Moves
  <2>2. Queued!GiveBack(e)
    BY <1>5, <2>1, ViewMoved DEF Moves, Queued!GiveBack, SpentIds
  <2>. QED  BY <2>2 DEF Queued!ContractNext
<1>. QED  BY <1>2, <1>3, <1>4, <1>5 DEF Enqueues, Withdraws, Completes, GivesBack

LEMMA LaunchesKeep ==
    ASSUME TypeOK, TypeOK', Launches
    PROVE  Queued!ContractNext
<1>1. PICK e \in Entry, w \in Workspace \ SpentIds :
        NotLaunching(queue, e) /\ Moves(e, "pending", w) /\ SpentIds' = SpentIds \cup {w}
  BY DEF Launches
<1>2. queue[e] \in Row /\ queue'[e] \in Row /\ w # Null  BY StoreAssumption DEF TypeOK, Queue
<1>3. /\ PhaseOf(queue[e]) = "waiting" /\ PhaseOf(queue'[e]) = "launching"
      /\ queue'[e].claim = w
  BY <1>1, <1>2, Phases DEF NotLaunching, Pending, Moves
<1>4. Queued!Launch(e, w)
  BY <1>1, <1>3, ViewMoved DEF Moves, Queued!Launch, SpentIds
<1>. QED  BY <1>4 DEF Queued!ContractNext

LEMMA ForgetsKeep ==
    ASSUME TypeOK, TypeOK', SpentIds' = SpentIds, Forgets
    PROVE  Queued!ContractNext
<1>1. PICK w \in Workspace : queue' = Cascaded(queue, w)  BY DEF Forgets
<1>2. \A e \in Entry : queue[e] \in Row /\ queue'[e] \in Row  BY DEF TypeOK, Queue
<1>3. \A e \in Entry : (PhaseOf(queue[e]) = "launched") <=> (queue[e].state = "launched")
  BY <1>2, Phases DEF Row, RowState
<1>4. \A e \in Entry : queue'[e] = IF queue[e].state = "launched" /\ queue[e].claim = w
                                   THEN NoRow("deleted") ELSE queue[e]
  BY <1>1 DEF Cascaded
<1>5. PhaseOf(NoRow("deleted")) = "gone" /\ NoRow("deleted").claim = Null
  <2>1. NoRow("deleted") \in Row  BY NoRowTyped DEF RowState
  <2>2. NoRow("deleted").state = "deleted" /\ NoRow("deleted").claim = Null  BY DEF NoRow
  <2>. QED  BY <2>1, <2>2, Phases
<1>6. CASE \E e \in Entry : queue[e].state = "launched" /\ queue[e].claim = w
  <2>1. [e \in Entry |-> PhaseOf(queue'[e])] =
          [e \in Entry |-> IF PhaseOf(queue[e]) = "launched" /\ queue[e].claim = w THEN "gone" ELSE PhaseOf(queue[e])]
    BY <1>3, <1>4, <1>5
  <2>2. [e \in Entry |-> queue'[e].claim] =
          [e \in Entry |-> IF PhaseOf(queue[e]) = "launched" /\ queue[e].claim = w THEN Null ELSE queue[e].claim]
    BY <1>3, <1>4, <1>5
  <2>3. \E e \in Entry : PhaseOf(queue[e]) = "launched" /\ queue[e].claim = w  BY <1>3, <1>6
  <2>4. Queued!Forget(w)  BY <2>1, <2>2, <2>3 DEF Queued!Forget, SpentIds
  <2>. QED  BY <2>4 DEF Queued!ContractNext
<1>7. CASE ~\E e \in Entry : queue[e].state = "launched" /\ queue[e].claim = w
  <2>1. \A e \in Entry : queue'[e] = queue[e]  BY <1>4, <1>7
  <2>. QED  BY <2>1, ViewKept
<1>. QED  BY <1>6, <1>7

LEMMA NextKeeps == Inv /\ Blank /\ [Next]_vars => Blank' /\ [Queued!ContractNext]_(Queued!contractVars)
<1>. SUFFICES ASSUME Inv, Blank, [Next]_vars PROVE Blank' /\ Queued!ContractNext  OBVIOUS
<1>1. TypeOK /\ TypeOK' /\ Effect  BY NextTyped, NextEffect DEF Inv
<1>2. Queued!ContractNext
  BY <1>1, ViewKept, LaunchesKeep, RowKeeps, ForgetsKeep DEF Effect, Same
<1>. QED  BY <1>1, <1>2, BlankKept

\* However passes, Run nows, edits, discards, stops, failures, deletes and
\* crashes interleave: an entry is launched under an id never used before and
\* by one launch at a time, a launch is recorded once and for good or given
\* back, and nothing takes the entry away from it.
THEOREM KeepsContractCorrect == Spec => KeepsContract
BY InitKeeps, NextKeeps, InvCorrect, PTL DEF Spec, KeepsContract, Queued!Contract
=============================================================================
