---------------------- MODULE QueuedWorkspacesProofs ----------------------
(***************************************************************************)
(* Theorems about QueuedWorkspaces, for any number of entries, workspaces, *)
(* passes, requests and crashes.                                           *)
(***************************************************************************)
EXTENDS QueuedWorkspaces, QueuedWorkspaceStoreProofs, WellFoundedInduction

(***************************************************************************)
(* Typing.                                                                 *)
(***************************************************************************)
\* A set of entries that is not empty has an oldest one.
LEMMA OldestExists ==
    ASSUME NEW T \in SUBSET Entry, T # {}
    PROVE  \E e \in T : \A x \in T : e <= x
<1>1. T \subseteq Nat /\ Entry \subseteq Nat  BY StoreAssumption DEF Entry
<1>2. PICK e \in T : \A x \in T : ~(<<x, e>> \in OpToRel(<, Nat))
  BY <1>1, NatLessThanWellFounded, WFMin
<1>3. \A x \in T : ~(x < e)  BY <1>1, <1>2 DEF OpToRel
<1>. QED  BY <1>1, <1>3

LEMMA OldestTyped ==
    ASSUME NEW todo \in Rows, todo # NoRows
    PROVE  Oldest(todo) \in Entry /\ todo[Oldest(todo)] # Null
<1>1. {e \in Entry : todo[e] # Null} # {}  BY DEF Rows, NoRows
<1>2. \E e \in Entry : todo[e] # Null /\ \A x \in Entry : todo[x] # Null => e <= x
  BY <1>1, OldestExists
<1>. QED  BY <1>2 DEF Oldest

\* The loop of a pass stops at a row it reads the room of, or ends.
LEMMA NextRowTyped ==
    ASSUME NEW todo \in Rows, NEW full \in SUBSET (Group \cup {Null}), NEW busy
    PROVE  NextRow(todo, full, busy) \in {Idle} \cup Reading
<1>. DEFINE ready == [e \in Entry |-> IF todo[e] # Null /\ e \notin busy /\ todo[e].group \notin full
                                      THEN todo[e] ELSE Null]
            e == Oldest(ready)
            rest == [x \in Entry |-> IF x <= e THEN Null ELSE todo[x]]
<1>1. CASE ready = NoRows
  BY <1>1 DEF NextRow
<1>2. CASE ready # NoRows
  <2>1. ready \in Rows  BY DEF Rows
  <2>2. e \in Entry /\ ready[e] # Null  BY <1>2, <2>1, OldestTyped
  <2>3. todo[e] \in Row  BY <2>2 DEF Rows
  <2>4. rest \in Rows  BY DEF Rows
  <2>5. NextRow(todo, full, busy) =
          [stage |-> "room", todo |-> rest, full |-> full, entry |-> e, row |-> todo[e], workspace |-> Null]
    BY <1>2 DEF NextRow
  <2>. QED  BY <2>2, <2>3, <2>4, <2>5 DEF Reading
<1>. QED  BY <1>1, <1>2

\* What a launcher, a request and the resume hold at each of their stages.
LEMMA Stages ==
    ASSUME TypeOK
    PROVE  /\ \A p \in Launcher : launcher[p].stage = "room" => launcher[p] \in Reading
           /\ \A p \in Launcher : launcher[p].stage = "claim" => launcher[p] \in Claiming
           /\ \A r \in Requester : request[r].stage = "queue" => request[r] \in Queueing
           /\ \A r \in Requester : request[r].stage \in {"edit", "keep"} => request[r] \in Editing
           /\ boot.stage = "rows" => boot \in Resuming
           /\ boot.stage = "resolve" => boot \in Settling
BY DEF TypeOK, Idle, Reading, Claiming, Waiting, Queueing, Editing, BootDue, BootDone, Resuming, Settling

LEMMA InitTyped == Init => TypeOK
<1>1. \A e \in Entry : NoRow("unused") \in Row  BY NoRowTyped DEF RowState
<1>2. 0 \in 0 .. MaxTime /\ 0 \in 0 .. MaxCrashes  BY QueuedWorkspacesAssumption
<1>3. Init => passDue \in BOOLEAN  BY DEF Init
<1>4. Init => /\ queue \in Queue
              /\ workspace \in [Workspace -> WorkspaceState]
  BY <1>1 DEF Init, Queue, WorkspaceState
<1>5. Init => launcher \in [Launcher -> {Idle} \cup Reading \cup Claiming]
  BY DEF Init
<1>. QED  BY <1>2, <1>3, <1>4, <1>5 DEF Init, TypeOK

\* A pass, and a Run now past its release.
LEMMA LauncherTyped ==
    ASSUME TypeOK, NEW p \in Launcher, LauncherStep(p)
    PROVE  TypeOK'
<1>1. CASE ListWaiting(p)
  <2>1. [e \in Entry |-> IF WaitsForRoom(queue[e]) THEN queue[e] ELSE Null] \in Rows
    BY DEF TypeOK, Queue, Rows
  <2>. QED  BY <1>1, <2>1, NextRowTyped DEF ListWaiting, TypeOK
<1>2. CASE LoseRow(p)
  <2>1. launcher[p] \in Reading  BY <1>2, Stages DEF LoseRow
  <2>2. launcher[p].todo \in Rows /\ launcher[p].full \in SUBSET (Group \cup {Null})
    BY <2>1 DEF Reading
  <2>. QED  BY <1>2, <2>2, NextRowTyped DEF LoseRow, TypeOK
<1>3. CASE FindFull(p)
  <2>1. launcher[p] \in Reading  BY <1>3, Stages DEF FindFull
  <2>2. /\ launcher[p].todo \in Rows
        /\ launcher[p].full \cup {launcher[p].row.group} \in SUBSET (Group \cup {Null})
    BY <2>1 DEF Reading, Row
  <2>. QED  BY <1>3, <2>2, NextRowTyped DEF FindFull, TypeOK
<1>4. CASE TakeSlot(p)
  <2>1. launcher[p] \in Reading  BY <1>4, Stages DEF TakeSlot
  <2>2. PICK w \in Workspace :
          /\ workspace' = [workspace EXCEPT ![w] = "drawn"]
          /\ launcher' = [launcher EXCEPT ![p] = [launcher[p] EXCEPT !.stage = "claim", !.workspace = w]]
    BY <1>4 DEF TakeSlot
  <2>3. [launcher[p] EXCEPT !.stage = "claim", !.workspace = w] \in Claiming
    BY <2>1 DEF Reading, Claiming
  <2>4. launching' \subseteq Entry  BY <1>4, <2>1 DEF TakeSlot, TypeOK, Reading
  <2>. QED  BY <1>4, <2>2, <2>3, <2>4 DEF TakeSlot, TypeOK, WorkspaceState
<1>5. CASE ClaimLaunch(p)
  <2>. DEFINE e == launcher[p].entry
              w == launcher[p].workspace
              l == [entry |-> e, workspace |-> w, row |-> launcher[p].row, stage |-> "provisioning"]
  <2>1. launcher[p] \in Claiming  BY <1>5, Stages DEF ClaimLaunch
  <2>2. /\ e \in Entry /\ w \in Workspace
        /\ launcher[p].todo \in Rows /\ launcher[p].full \in SUBSET (Group \cup {Null})
        /\ l \in Launch
    BY <2>1 DEF Claiming, Launch
  <2>3. NextRow(launcher[p].todo, launcher[p].full, launching') \in {Idle} \cup Reading
    BY <2>2, NextRowTyped
  <2>4. launcher' \in [Launcher -> {Idle} \cup Reading \cup Claiming]
    BY <1>5, <2>3 DEF ClaimLaunch, TypeOK
  <2>5. Claimed(queue, e, w) \in Queue  BY <2>2, ClaimedTyped DEF TypeOK
  <2>6. CASE NotLaunching(queue, e)
    <3>1. /\ queue' = Claimed(queue, e, w)
          /\ workspace' = [workspace EXCEPT ![w] = "creating"]
          /\ launches' = launches \cup {l}
          /\ launching' = launching
          /\ UNCHANGED <<now, passDue, request, stopping, deleting, boot, crashes>>
      BY <1>5, <2>6 DEF ClaimLaunch
    <3>. QED  BY <2>2, <2>4, <2>5, <3>1 DEF TypeOK, WorkspaceState
  <2>7. CASE ~NotLaunching(queue, e)
    <3>1. /\ launching' = launching \ {e}
          /\ workspace' = [workspace EXCEPT ![w] = "gone"]
          /\ UNCHANGED <<queue, launches, now, passDue, request, stopping, deleting, boot, crashes>>
      BY <1>5, <2>7 DEF ClaimLaunch
    <3>. QED  BY <2>4, <3>1 DEF TypeOK, WorkspaceState
  <2>. QED  BY <2>6, <2>7
<1>. QED  BY <1>1, <1>2, <1>3, <1>4, <1>5 DEF LauncherStep

\* The detached half of a launch.
LEMMA LaunchTyped ==
    ASSUME TypeOK, NEW l \in launches, LaunchStep(l)
    PROVE  TypeOK'
<1>1. l \in Launch  BY DEF TypeOK
<1>2. l.entry \in Entry /\ l.workspace \in Workspace  BY <1>1 DEF Launch
<1>3. ASSUME NEW stage \in {"ran", "failed", "stopped", "recorded", "returned"}, Advance(l, stage)
      PROVE  launches' \subseteq Launch
  <2>1. [l EXCEPT !.stage = stage] \in Launch  BY <1>1 DEF Launch
  <2>. QED  BY <1>3, <2>1 DEF Advance, TypeOK
<1>4. CASE LaunchRuns(l)
  BY <1>2, <1>3, <1>4 DEF LaunchRuns, TypeOK, WorkspaceState
<1>5. CASE LaunchFails(l)
  <2>1. passDue' \in BOOLEAN  BY <1>5 DEF LaunchFails, TypeOK
  <2>. QED  BY <1>2, <1>3, <1>5, <2>1 DEF LaunchFails, TypeOK, WorkspaceState
<1>6. CASE LaunchStopped(l)
  BY <1>2, <1>3, <1>6 DEF LaunchStopped, StartWaiting, TypeOK, WorkspaceState
<1>7. CASE RecordFinish(l)
  <2>1. launches' \subseteq Launch  BY <1>3, <1>7 DEF RecordFinish
  <2>2. queue' \in Queue  BY <1>2, <1>7, FinishedTyped DEF RecordFinish, TypeOK
  <2>. QED  BY <1>7, <2>1, <2>2 DEF RecordFinish, TypeOK
<1>8. CASE RecordFailure(l)
  <2>1. launches' \subseteq Launch  BY <1>3, <1>8 DEF RecordFailure
  <2>2. LaunchError(l) \in BOOLEAN  BY DEF LaunchError
  <2>3. queue' \in Queue  BY <1>2, <1>8, <2>2, FailedTyped DEF RecordFailure, TypeOK
  <2>. QED  BY <1>8, <2>1, <2>3 DEF RecordFailure, TypeOK
<1>9. CASE SettleLaunch(l)
  <2>1. passDue' \in BOOLEAN  BY <1>9 DEF SettleLaunch, StartWaiting, TypeOK
  <2>. QED  BY <1>9, <2>1 DEF SettleLaunch, TypeOK
<1>. QED  BY <1>4, <1>5, <1>6, <1>7, <1>8, <1>9 DEF LaunchStep

\* What a parent resolves to is a parent.
LEMMA ResolvableTyped == TypeOK => Resolvable \subseteq Parent
<1>1. ASSUME TypeOK, NEW e \in Entry, queue[e].claim # Null
      PROVE  queue[e].claim \in Workspace
  BY <1>1 DEF TypeOK, Queue, Row
<1>. QED  BY <1>1, ParentsTyped DEF Resolvable

LEMMA RequestTyped ==
    ASSUME TypeOK, NEW r \in Requester, RequestStep(r)
    PROVE  TypeOK'
<1>1. CASE ResolveQueue(r)
  <2>1. PICK parent \in Resolvable, g \in Group :
          request' = [request EXCEPT ![r] = [stage |-> "queue", entry |-> Null, parent |-> parent, group |-> g]]
    BY <1>1 DEF ResolveQueue
  <2>2. [stage |-> "queue", entry |-> Null, parent |-> parent, group |-> g] \in Queueing
    BY ResolvableTyped DEF Queueing
  <2>3. request' \in [Requester -> {Waiting} \cup Queueing \cup Editing]
    BY <2>1, <2>2 DEF TypeOK
  <2>. QED  BY <1>1, <2>3 DEF ResolveQueue, TypeOK
<1>2. CASE InsertQueued(r)
  <2>1. request[r] \in Queueing  BY <1>2, Stages DEF InsertQueued
  <2>2. request[r].parent \in Parent /\ request[r].group \in Group  BY <2>1 DEF Queueing
  <2>3. queue' \in Queue /\ passDue' \in BOOLEAN
    BY <1>2, <2>2, InsertedTyped DEF InsertQueued, StartWaiting, TypeOK
  <2>. QED  BY <1>2, <2>3 DEF InsertQueued, TypeOK
<1>3. CASE WriteEdit(r)
  <2>1. request[r] \in Editing  BY <1>3, Stages DEF WriteEdit
  <2>2. request[r].entry \in Entry /\ request[r].parent \in Parent /\ request[r].group \in Group
    BY <2>1 DEF Editing
  <2>. DEFINE parent == IF request[r].stage = "edit" THEN request[r].parent ELSE Null
  <2>3. Updated(queue, request[r].entry, parent, request[r].group) \in Queue
    BY <2>2, UpdatedTyped DEF TypeOK
  <2>4. queue' \in {queue, Updated(queue, request[r].entry, parent, request[r].group)}
    BY <1>3 DEF WriteEdit
  <2>5. passDue' \in BOOLEAN  BY <1>3 DEF WriteEdit, StartWaiting, TypeOK
  <2>. QED  BY <1>3, <2>3, <2>4, <2>5 DEF WriteEdit, TypeOK
<1>4. ASSUME NEW e \in Entry, ResolveEdit(r, e)
      PROVE  TypeOK'
  <2>1. queue[e].parent \in Parent  BY DEF TypeOK, Queue, Row
  <2>2. PICK stage \in {"edit", "keep"}, parent \in Parent, g \in Group :
          request' = [request EXCEPT ![r] = [stage |-> stage, entry |-> e, parent |-> parent, group |-> g]]
    BY <1>4, <2>1, ResolvableTyped DEF ResolveEdit
  <2>3. [stage |-> stage, entry |-> e, parent |-> parent, group |-> g] \in Editing
    BY DEF Editing
  <2>4. request' \in [Requester -> {Waiting} \cup Queueing \cup Editing]
    BY <2>2, <2>3 DEF TypeOK
  <2>. QED  BY <1>4, <2>4 DEF ResolveEdit, TypeOK
<1>. QED  BY <1>1, <1>2, <1>3, <1>4 DEF RequestStep

LEMMA EntryCommandTyped == TypeOK /\ EntryCommand => TypeOK'
<1>2. ASSUME TypeOK, NEW e \in Entry, Discard(e)
      PROVE  TypeOK'
  <2>1. now \in Nat  BY <1>2, QueuedWorkspacesAssumption DEF TypeOK
  <2>. QED  BY <1>2, <2>1, DeletedTyped DEF Discard, StartWaiting, TypeOK
<1>3. ASSUME TypeOK, NEW e \in Entry, NEW p \in Launcher, RunNow(e, p)
      PROVE  TypeOK'
  <2>1. queue' \in Queue  BY <1>3, ReleasesTyped DEF RunNow, TypeOK
  <2>2. [NoRows EXCEPT ![e] = queue'[e]] \in Rows  BY <2>1 DEF NoRows, Rows, Queue
  <2>3. launcher' \in [Launcher -> {Idle} \cup Reading \cup Claiming]
    BY <1>3, <2>2, NextRowTyped DEF RunNow, TypeOK
  <2>. QED  BY <1>3, <2>1, <2>3 DEF RunNow, TypeOK
<1>. QED  BY <1>2, <1>3 DEF EntryCommand

\* Stops, deaths, restarts and deletes of workspaces.
LEMMA WorkspaceTyped ==
    ASSUME TypeOK, NEW w \in Workspace
    PROVE  /\ StopStep(w) => TypeOK'
           /\ AskStop(w) => TypeOK'
           /\ Die(w) => TypeOK'
           /\ Restart(w) => TypeOK'
           /\ HoldForDelete(w) \/ CheckDelete(w) \/ DeleteWorkspace(w) => TypeOK'
<1>1. RecordStop(w) => TypeOK'  BY DEF RecordStop, TypeOK, WorkspaceState
<1>2. ReleaseChildren(w) => TypeOK'  BY ReleasesTyped DEF ReleaseChildren, StartWaiting, TypeOK
<1>3. AskStop(w) => TypeOK'  BY DEF AskStop, TypeOK
<1>4. Die(w) => TypeOK'  BY DEF Die, StartWaiting, TypeOK, WorkspaceState
<1>5. Restart(w) => TypeOK'  BY DEF Restart, memory, TypeOK, WorkspaceState
<1>6. HoldForDelete(w) => TypeOK'  BY DEF HoldForDelete, TypeOK
<1>7. CheckDelete(w) => TypeOK'  BY DEF CheckDelete, TypeOK
<1>8. DeleteWorkspace(w) => TypeOK'  BY CascadedTyped DEF DeleteWorkspace, TypeOK, WorkspaceState
<1>. QED  BY <1>1, <1>2, <1>3, <1>4, <1>5, <1>6, <1>7, <1>8 DEF StopStep

LEMMA ClockTyped ==
    ASSUME TypeOK
    PROVE  /\ Tick => TypeOK'
           /\ ReleaseDue => TypeOK'
           /\ ReconcilePass => TypeOK'
<1>1. now \in Nat  BY QueuedWorkspacesAssumption DEF TypeOK
<1>2. Tick => TypeOK'  BY QueuedWorkspacesAssumption DEF Tick, memory, TypeOK
<1>3. ReleaseDue => TypeOK'  BY <1>1, ReleasesTyped DEF ReleaseDue, StartWaiting, TypeOK
<1>4. ReconcilePass => TypeOK'  BY DEF ReconcilePass, StartWaiting, TypeOK
<1>. QED  BY <1>2, <1>3, <1>4

LEMMA CrashTyped == TypeOK /\ Crash => TypeOK'
<1>. SUFFICES ASSUME TypeOK, Crash PROVE TypeOK'  OBVIOUS
<1>1. workspace' \in [Workspace -> WorkspaceState]
  <2>1. PICK up \in SUBSET {w \in Workspace : workspace[w] = "creating"} :
          workspace' = [w \in Workspace |->
             IF w \in up THEN "running"
             ELSE IF workspace[w] \in {"creating", "drawn"} THEN "gone"
             ELSE workspace[w]]
    BY DEF Crash
  <2>. QED  BY <2>1 DEF TypeOK, WorkspaceState
<1>2. crashes' \in 0 .. MaxCrashes  BY QueuedWorkspacesAssumption DEF Crash, TypeOK
<1>3. passDue' \in BOOLEAN  BY DEF Crash
<1>4. /\ launcher' \in [Launcher -> {Idle} \cup Reading \cup Claiming]
      /\ request' \in [Requester -> {Waiting} \cup Queueing \cup Editing]
  BY DEF Crash
<1>. QED  BY <1>1, <1>2, <1>3, <1>4 DEF Crash, TypeOK

\* resumeQueuedWorkspaces.
LEMMA ResumeTyped == TypeOK /\ ResumeStep => TypeOK'
<1>. SUFFICES ASSUME TypeOK, ResumeStep PROVE TypeOK'  OBVIOUS
<1>1. CASE ResumeList
  <2>1. [e \in Entry |-> IF Pending(queue, e) /\ queue[e].claim # Null THEN queue[e] ELSE Null] \in Rows
    BY DEF TypeOK, Queue, Rows
  <2>2. boot' \in Resuming  BY <1>1, <2>1 DEF ResumeList, BootDone, Resuming
  <2>. QED  BY <1>1, <2>2 DEF ResumeList, TypeOK
<1>2. CASE ResumeRow
  <2>1. boot \in Resuming  BY <1>2, Stages DEF ResumeRow
  <2>2. boot.todo \in Rows /\ boot.todo # NoRows  BY <1>2, <2>1 DEF ResumeRow, Resuming
  <2>. DEFINE e == Oldest(boot.todo)
  <2>3. e \in Entry  BY <2>2, OldestTyped
  <2>4. [boot.todo EXCEPT ![e] = Null] \in Rows  BY <2>2 DEF Rows
  <2>. HIDE DEF e
  <2>5. [boot EXCEPT !.todo = [boot.todo EXCEPT ![e] = Null]] \in Resuming
    BY <2>1, <2>4 DEF Resuming
  <2>6. \A v \in {"finish", "fail"} : [boot EXCEPT !.stage = "resolve", !.entry = e, !.verdict = v] \in Settling
    BY <2>1, <2>3 DEF Resuming, Settling
  <2>7. boot' \in Resuming \cup Settling  BY <1>2, <2>5, <2>6 DEF ResumeRow, e
  <2>. QED  BY <1>2, <2>7 DEF ResumeRow, TypeOK
<1>3. CASE ResumeResolve
  <2>1. boot \in Settling  BY <1>3, Stages DEF ResumeResolve
  <2>2. boot.entry \in Entry /\ boot.todo \in Rows /\ boot.verdict \in {"finish", "fail"}
    BY <2>1 DEF Settling
  <2>3. queue' \in Queue
    BY <1>3, <2>2, FinishedTyped, FailedTyped DEF ResumeResolve, TypeOK
  <2>4. [boot.todo EXCEPT ![boot.entry] = Null] \in Rows  BY <2>2 DEF Rows
  <2>5. boot' \in Resuming  BY <1>3, <2>4 DEF ResumeResolve, BootDone, Resuming
  <2>. QED  BY <1>3, <2>3, <2>5 DEF ResumeResolve, TypeOK
<1>4. CASE ResumeDone
  BY <1>4 DEF ResumeDone, StartWaiting, TypeOK
<1>. QED  BY <1>1, <1>2, <1>3, <1>4 DEF ResumeStep

LEMMA NextTyped == TypeOK /\ [Next]_vars => TypeOK'
<1>. SUFFICES ASSUME TypeOK, [Next]_vars PROVE TypeOK'  OBVIOUS
<1>1. CASE UNCHANGED vars  BY <1>1 DEF vars, memory, TypeOK
<1>2. CASE WorkspaceCommand
  BY <1>2, WorkspaceTyped DEF WorkspaceCommand
<1>. QED
  BY <1>1, <1>2, LauncherTyped, LaunchTyped, RequestTyped, EntryCommandTyped, WorkspaceTyped,
     ClockTyped, CrashTyped, ResumeTyped DEF Next

\* The table and the server's memory stay well formed: every listed row a
\* pass or a resume goes back to, and every pointer a request carries over an
\* await, is still one.
THEOREM TypeCorrect == Spec => []TypeOK
BY InitTyped, NextTyped, PTL DEF Spec
-----------------------------------------------------------------------------
(***************************************************************************)
(* The inductive invariant. Acyclicity and the shape of a parent are not   *)
(* inductive alone: a claim must draw an id nothing names yet, a finish    *)
(* and a failure must be of the one entry that holds the claim, and what a *)
(* request carries over its awaits must still be a parent when it writes.  *)
(***************************************************************************)
SpentIds == {w \in Workspace : workspace[w] \notin {"unused", "drawn"}}

\* A request carries a parent the table could hold.
RequestsSound ==
    \A r \in Requester :
        request[r].stage # "idle" => Sound(queue, SpentIds, request[r].parent)

\* A launcher about to claim holds an id no other launcher holds.
DrawnHeld ==
    /\ \A p \in Launcher : launcher[p].stage = "claim" => workspace[launcher[p].workspace] = "drawn"
    /\ \A p, o \in Launcher :
          /\ launcher[p].stage = "claim" /\ launcher[o].stage = "claim"
          /\ launcher[p].workspace = launcher[o].workspace
          => p = o

LaunchesSpent == \A l \in launches : l.workspace \in SpentIds

HoldsSpent == \A w \in Workspace : deleting[w] # "no" => w \in SpentIds

\* The resume goes through rows that were claimed when it listed them.
ResumesClaimed ==
    /\ \A e \in Entry : boot.todo[e] # Null => boot.todo[e].claim # Null
    /\ boot.stage = "resolve" => boot.todo[boot.entry] # Null

Inv ==
    /\ TypeOK
    /\ Acyclic(queue)
    /\ Consistent(queue, SpentIds)
    /\ RequestsSound
    /\ DrawnHeld
    /\ LaunchesSpent
    /\ HoldsSpent
    /\ ResumesClaimed

LEMMA InitInv == Init => Inv
<1>. SUFFICES ASSUME Init PROVE Inv  OBVIOUS
<1>1. \A e \in Entry : queue[e] = NoRow("unused")  BY DEF Init
<1>2. \A e \in Entry : Named(queue, queue[e].parent) = {}
  BY <1>1 DEF Named, Pending, NoRow
<1>3. Acyclic(queue)  BY <1>2 DEF Acyclic
<1>4. Consistent(queue, SpentIds)
  BY <1>1 DEF Consistent, DistinctClaims, Sound, Exclusive, NoRow, Room
<1>5. RequestsSound  BY DEF RequestsSound, Init, Waiting
<1>6. DrawnHeld  BY DEF DrawnHeld, Init, Idle
<1>7. LaunchesSpent /\ HoldsSpent  BY DEF LaunchesSpent, HoldsSpent, Init
<1>8. ResumesClaimed  BY DEF ResumesClaimed, Init, BootDue, BootDone, NoRows
<1>. QED  BY <1>3, <1>4, <1>5, <1>6, <1>7, <1>8, InitTyped DEF Inv

(***************************************************************************)
(* What most steps leave alone.                                            *)
(***************************************************************************)
\* A step that spends no id: the workspaces stay, or one already spent moves on.
LEMMA SpentKept ==
    ASSUME TypeOK,
           \/ workspace' = workspace
           \/ \E w \in SpentIds, s \in WorkspaceState \ {"unused", "drawn"} :
                 workspace' = [workspace EXCEPT ![w] = s]
    PROVE  /\ SpentIds' = SpentIds
           /\ \A w \in Workspace : workspace[w] = "drawn" => workspace'[w] = "drawn"
BY DEF SpentIds, TypeOK

\* What remains to be shown of a step that spends no id, claims nothing, and
\* writes the queue through one of the store's functions.
LEMMA Framed ==
    ASSUME Inv, TypeOK',
           Acyclic(queue'), Consistent(queue', SpentIds), UsedKept(queue, queue'),
           \/ workspace' = workspace
           \/ \E w \in SpentIds, s \in WorkspaceState \ {"unused", "drawn"} :
                 workspace' = [workspace EXCEPT ![w] = s],
           \A r \in Requester : \/ request'[r] \in {request[r], Waiting}
                                \/ Sound(queue, SpentIds, request'[r].parent),
           \A p \in Launcher : launcher'[p] = launcher[p] \/ launcher'[p].stage # "claim",
           \A l \in launches' : \E m \in launches : l.workspace = m.workspace,
           \A w \in Workspace : deleting'[w] # "no" => w \in SpentIds,
           boot' = boot \/ ResumesClaimed'
    PROVE  Inv'
<1>1. /\ SpentIds' = SpentIds
      /\ \A w \in Workspace : workspace[w] = "drawn" => workspace'[w] = "drawn"
  BY SpentKept DEF Inv
<1>2. Acyclic(queue)' /\ Consistent(queue, SpentIds)'  BY <1>1
<1>3. RequestsSound'
  <2>. SUFFICES ASSUME NEW r \in Requester, request'[r].stage # "idle"
                PROVE  Sound(queue', SpentIds, request'[r].parent)
    BY <1>1 DEF RequestsSound
  <2>1. request'[r].parent \in Parent
    BY DEF TypeOK, Waiting, Queueing, Editing
  <2>2. Sound(queue, SpentIds, request'[r].parent)
    BY DEF Inv, RequestsSound, Waiting
  <2>. QED  BY <2>1, <2>2, SoundKept
<1>4. DrawnHeld'
  <2>1. \A p \in Launcher : launcher[p].stage = "claim" => launcher[p].workspace \in Workspace
    BY Stages DEF Inv, Claiming
  <2>. QED  BY <1>1, <2>1 DEF Inv, DrawnHeld
<1>5. LaunchesSpent'  BY <1>1 DEF Inv, LaunchesSpent
<1>6. HoldsSpent'  BY <1>1 DEF HoldsSpent
<1>7. ResumesClaimed'  BY DEF Inv, ResumesClaimed
<1>. QED  BY <1>2, <1>3, <1>4, <1>5, <1>6, <1>7 DEF Inv

\* A step that leaves the table alone.
LEMMA QueueKept ==
    ASSUME Inv, queue' = queue
    PROVE  Acyclic(queue') /\ Consistent(queue', SpentIds) /\ UsedKept(queue, queue')
BY DEF Inv, UsedKept

\* A pass, up to the slot it takes.
LEMMA ListingInv ==
    ASSUME Inv, NEW p \in Launcher, ListWaiting(p) \/ LoseRow(p) \/ FindFull(p)
    PROVE  Inv'
<1>1. TypeOK /\ TypeOK'  BY LauncherTyped DEF LauncherStep, Inv
<1>2. \E r \in {Idle} \cup Reading : launcher' = [launcher EXCEPT ![p] = r]
  <2>1. CASE ListWaiting(p)
    <3>1. [e \in Entry |-> IF WaitsForRoom(queue[e]) THEN queue[e] ELSE Null] \in Rows
      BY <1>1 DEF TypeOK, Queue, Rows
    <3>. QED  BY <2>1, <3>1, NextRowTyped DEF ListWaiting
  <2>2. CASE LoseRow(p)
    <3>1. launcher[p] \in Reading  BY <1>1, <2>2, Stages DEF LoseRow
    <3>2. launcher[p].todo \in Rows /\ launcher[p].full \in SUBSET (Group \cup {Null})
      BY <3>1 DEF Reading
    <3>. QED  BY <2>2, <3>2, NextRowTyped DEF LoseRow
  <2>3. CASE FindFull(p)
    <3>1. launcher[p] \in Reading  BY <1>1, <2>3, Stages DEF FindFull
    <3>2. /\ launcher[p].todo \in Rows
          /\ launcher[p].full \cup {launcher[p].row.group} \in SUBSET (Group \cup {Null})
      BY <3>1 DEF Reading, Row
    <3>. QED  BY <2>3, <3>2, NextRowTyped DEF FindFull
  <2>. QED  BY <2>1, <2>2, <2>3
<1>3. \A o \in Launcher : launcher'[o] = launcher[o] \/ launcher'[o].stage # "claim"
  BY <1>1, <1>2 DEF TypeOK, Idle, Reading
<1>4. UNCHANGED <<queue, workspace, launches, request, deleting, boot>>
  BY DEF ListWaiting, LoseRow, FindFull
<1>5. \A w \in Workspace : deleting'[w] # "no" => w \in SpentIds
  BY <1>4 DEF Inv, HoldsSpent
<1>. QED  BY <1>1, <1>3, <1>4, <1>5, QueueKept, Framed

\* The slot: the id it draws is new, so no other launcher holds it.
LEMMA SlotInv ==
    ASSUME Inv, NEW p \in Launcher, TakeSlot(p)
    PROVE  Inv'
<1>1. TypeOK /\ TypeOK'  BY LauncherTyped DEF LauncherStep, Inv
<1>2. PICK w \in Workspace :
        /\ workspace[w] = "unused"
        /\ workspace' = [workspace EXCEPT ![w] = "drawn"]
        /\ launcher' = [launcher EXCEPT ![p] = [launcher[p] EXCEPT !.stage = "claim", !.workspace = w]]
  BY DEF TakeSlot
<1>3. SpentIds' = SpentIds  BY <1>1, <1>2 DEF SpentIds, TypeOK
<1>4. UNCHANGED <<queue, launches, request, deleting, boot>>  BY DEF TakeSlot
<1>5. DrawnHeld'
  <2>1. launcher[p] \in Reading  BY <1>1, Stages DEF TakeSlot
  <2>2. launcher'[p].stage = "claim" /\ launcher'[p].workspace = w
    BY <1>1, <1>2, <2>1 DEF TypeOK, Reading
  <2>3. \A o \in Launcher \ {p} : launcher'[o] = launcher[o]
    BY <1>1, <1>2 DEF TypeOK
  <2>4. \A o \in Launcher : launcher[o].stage = "claim" =>
            launcher[o].workspace \in Workspace \ {w} /\ workspace'[launcher[o].workspace] = "drawn"
    BY <1>1, <1>2, Stages DEF Inv, DrawnHeld, Claiming, TypeOK
  <2>5. workspace'[w] = "drawn"  BY <1>1, <1>2 DEF TypeOK
  <2>. QED  BY <2>2, <2>3, <2>4, <2>5 DEF Inv, DrawnHeld
<1>. QED
  BY <1>1, <1>3, <1>4, <1>5
     DEF Inv, Consistent, DistinctClaims, Sound, RequestsSound, LaunchesSpent, HoldsSpent, ResumesClaimed

\* The claim: the id is spent by no earlier launch, so nothing names it yet.
LEMMA ClaimInv ==
    ASSUME Inv, NEW p \in Launcher, ClaimLaunch(p)
    PROVE  Inv'
<1>. DEFINE e == launcher[p].entry
            w == launcher[p].workspace
            next == NextRow(launcher[p].todo, launcher[p].full, launching')
<1>1. TypeOK /\ TypeOK'  BY LauncherTyped DEF LauncherStep, Inv
<1>2. launcher[p] \in Claiming /\ launcher[p].stage = "claim"  BY <1>1, Stages DEF ClaimLaunch
<1>3. e \in Entry /\ w \in Workspace  BY <1>2 DEF Claiming
<1>4. launcher' = [launcher EXCEPT ![p] = next] /\ next \in {Idle} \cup Reading
  BY <1>2, NextRowTyped DEF ClaimLaunch, Claiming
<1>5. /\ launcher'[p].stage # "claim"
      /\ \A o \in Launcher \ {p} : launcher'[o] = launcher[o]
  <2>1. launcher'[p] = next  BY <1>1, <1>4 DEF TypeOK
  <2>2. launcher'[p].stage # "claim"  BY <1>4, <2>1 DEF Idle, Reading
  <2>3. \A o \in Launcher \ {p} : launcher'[o] = launcher[o]  BY <1>1, <1>4 DEF TypeOK
  <2>. QED  BY <2>2, <2>3
<1>6. workspace[w] = "drawn"  BY <1>2 DEF Inv, DrawnHeld
<1>7. \E s \in {"creating", "gone"} : workspace' = [workspace EXCEPT ![w] = s]
  BY DEF ClaimLaunch
<1>8. SpentIds' = SpentIds \cup {w} /\ w \notin SpentIds
  BY <1>1, <1>3, <1>6, <1>7 DEF SpentIds, TypeOK
<1>. HIDE DEF next
<1>9. DrawnHeld'
  <2>1. \A o \in Launcher \ {p} : launcher[o].stage = "claim" =>
            launcher[o].workspace \in Workspace \ {w} /\ workspace[launcher[o].workspace] = "drawn"
    BY <1>1, <1>2, Stages DEF Inv, DrawnHeld, Claiming
  <2>2. \A o \in Launcher \ {p} : launcher[o].stage = "claim" => workspace'[launcher[o].workspace] = "drawn"
    BY <1>1, <1>7, <2>1 DEF TypeOK
  <2>. QED  BY <1>5, <2>2 DEF Inv, DrawnHeld
<1>10. /\ Acyclic(queue') /\ Consistent(queue', SpentIds') /\ UsedKept(queue, queue')
       /\ \A l \in launches' : l.workspace \in SpentIds'
  <2>1. CASE NotLaunching(queue, e)
    <3>1. queue' = Claimed(queue, e, w)  BY <2>1 DEF ClaimLaunch
    <3>2. Unnamed(queue, w)  BY <1>3, <1>8, FreshUnnamed DEF Inv
    <3>3. Acyclic(queue')  BY <1>1, <1>3, <2>1, <3>1, <3>2, ClaimedAcyclic DEF Inv, TypeOK
    <3>4. Consistent(queue', SpentIds \cup {w}) /\ UsedKept(queue, queue')
      BY <1>1, <1>3, <2>1, <3>1, <3>2, ClaimedConsistent DEF Inv, TypeOK
    <3>5. launches' = launches \cup {[entry |-> e, workspace |-> w, row |-> launcher[p].row, stage |-> "provisioning"]}
      BY <2>1 DEF ClaimLaunch
    <3>. QED  BY <1>8, <3>3, <3>4, <3>5 DEF Inv, LaunchesSpent
  <2>2. CASE ~NotLaunching(queue, e)
    <3>1. queue' = queue /\ launches' = launches  BY <2>2 DEF ClaimLaunch
    <3>2. Consistent(queue, SpentIds')  BY <1>1, <1>8, MoreSpent DEF Inv, TypeOK
    <3>. QED  BY <1>8, <3>1, <3>2 DEF Inv, LaunchesSpent, UsedKept
  <2>. QED  BY <2>1, <2>2
<1>11. UNCHANGED <<request, deleting, boot>>  BY DEF ClaimLaunch
<1>12. RequestsSound'
  <2>. SUFFICES ASSUME NEW r \in Requester, request[r].stage # "idle"
                PROVE  Sound(queue', SpentIds', request[r].parent)
    BY <1>11 DEF RequestsSound
  <2>1. request[r].parent \in Parent  BY <1>1 DEF TypeOK, Waiting, Queueing, Editing
  <2>2. Sound(queue, SpentIds, request[r].parent)  BY DEF Inv, RequestsSound
  <2>3. SpentIds \subseteq SpentIds'  BY <1>8
  <2>. QED  BY <1>10, <2>1, <2>2, <2>3, SoundKept
<1>13. HoldsSpent'  BY <1>8, <1>11 DEF Inv, HoldsSpent
<1>14. ResumesClaimed'  BY <1>11 DEF Inv, ResumesClaimed
<1>15. LaunchesSpent' /\ Acyclic(queue)' /\ Consistent(queue, SpentIds)'
  BY <1>10 DEF LaunchesSpent
<1>. QED  BY <1>1, <1>9, <1>12, <1>13, <1>14, <1>15 DEF Inv

LEMMA LauncherInv ==
    ASSUME Inv, NEW p \in Launcher, LauncherStep(p)
    PROVE  Inv'
BY ListingInv, SlotInv, ClaimInv DEF LauncherStep

\* The detached half of a launch: its workspace is spent, so what it records
\* is about the entry that holds the claim, or about none.
LEMMA LaunchInv ==
    ASSUME Inv, NEW l \in launches, LaunchStep(l)
    PROVE  Inv'
<1>. DEFINE w == l.workspace
<1>1. TypeOK /\ TypeOK'  BY LaunchTyped DEF Inv
<1>2. l.entry \in Entry /\ w \in Workspace /\ w \in SpentIds /\ w # Null
  BY <1>1, StoreAssumption DEF Inv, LaunchesSpent, TypeOK, Launch
<1>3. UNCHANGED <<launcher, request, deleting, boot>>
  BY DEF LaunchStep, LaunchRuns, LaunchFails, LaunchStopped, RecordFinish, RecordFailure, SettleLaunch
<1>4. \A m \in launches' : \E k \in launches : m.workspace = k.workspace
  <2>1. ASSUME NEW stage, Advance(l, stage)
        PROVE  \A m \in launches' : \E k \in launches : m.workspace = k.workspace
    <3>1. [l EXCEPT !.stage = stage].workspace = w  BY <1>1 DEF TypeOK, Launch
    <3>. QED  BY <2>1, <3>1 DEF Advance
  <2>2. SettleLaunch(l) => launches' \subseteq launches  BY DEF SettleLaunch
  <2>. QED
    BY <2>1, <2>2 DEF LaunchStep, LaunchRuns, LaunchFails, LaunchStopped, RecordFinish, RecordFailure
<1>5. \/ workspace' = workspace
      \/ \E s \in WorkspaceState \ {"unused", "drawn"} : workspace' = [workspace EXCEPT ![w] = s]
  BY DEF LaunchStep, LaunchRuns, LaunchFails, LaunchStopped, RecordFinish, RecordFailure, SettleLaunch,
         WorkspaceState
<1>6. Acyclic(queue') /\ Consistent(queue', SpentIds) /\ UsedKept(queue, queue')
  <2>1. CASE queue' = queue  BY <2>1, QueueKept
  <2>2. CASE queue' = Finished(queue, l.entry, w)
    <3>1. DistinctClaims(queue)  BY DEF Inv, Consistent
    <3>. QED
      BY <1>1, <1>2, <2>2, <3>1, FinishedAcyclic, FinishedConsistent DEF Inv, TypeOK
  <2>3. CASE queue' = Failed(queue, l.entry, w, LaunchError(l))
    <3>1. LaunchError(l) \in BOOLEAN  BY DEF LaunchError
    <3>. QED
      BY <1>1, <1>2, <2>3, <3>1, FailedAcyclic, FailedConsistent DEF Inv, TypeOK
  <2>. QED
    BY <2>1, <2>2, <2>3
       DEF LaunchStep, LaunchRuns, LaunchFails, LaunchStopped, RecordFinish, RecordFailure, SettleLaunch
<1>7. \A x \in Workspace : deleting'[x] # "no" => x \in SpentIds  BY <1>3 DEF Inv, HoldsSpent
<1>8. \A p \in Launcher : launcher'[p] = launcher[p]  BY <1>3
<1>9. \A r \in Requester : request'[r] \in {request[r], Waiting}  BY <1>3
<1>. HIDE DEF w
<1>. QED  BY <1>1, <1>2, <1>3, <1>4, <1>5, <1>6, <1>7, <1>8, <1>9, Framed

\* What a parent resolves to is one pointer, to a workspace that was launched
\* or existed before, or to an entry in the queue.
LEMMA ResolvableSound ==
    ASSUME Inv
    PROVE  /\ \A parent \in Resolvable : Sound(queue, SpentIds, parent)
           /\ \A e \in Entry : Sound(queue, SpentIds, queue[e].parent)
<1>1. Sound(queue, SpentIds, Room)  BY DEF Sound, Exclusive, Room
<1>2. \A t \in StartTime : Sound(queue, SpentIds, AtTime(t))  BY DEF Sound, Exclusive, AtTime
<1>3. \A w \in SpentIds : Sound(queue, SpentIds, AfterWorkspace(w))
  BY DEF Sound, Exclusive, AfterWorkspace
<1>4. \A e \in Entry : NotLaunching(queue, e) => Sound(queue, SpentIds, AfterEntry(e))
  BY DEF Sound, Exclusive, AfterEntry, NotLaunching, Pending
<1>5. \A w \in Workspace : workspace[w] \in {"creating", "running", "stopped"} => w \in SpentIds
  BY DEF SpentIds
<1>6. \A e \in Entry : queue[e].claim # Null => queue[e].claim \in SpentIds  BY DEF Inv, Consistent
<1>7. ASSUME NEW parent \in Resolvable
      PROVE  Sound(queue, SpentIds, parent)
  BY <1>1, <1>2, <1>3, <1>4, <1>5, <1>6 DEF Resolvable
<1>8. \A e \in Entry : Sound(queue, SpentIds, queue[e].parent)  BY DEF Inv, Consistent
<1>. QED  BY <1>7, <1>8

\* Queue and edit requests: what they carry stays a parent over their awaits,
\* and the write of an edit refuses the one that closes a cycle.
LEMMA RequestInv ==
    ASSUME Inv, NEW r \in Requester, RequestStep(r)
    PROVE  Inv'
<1>1. TypeOK /\ TypeOK'  BY RequestTyped DEF Inv
<1>2. UNCHANGED <<workspace, launches, launcher, deleting, boot>>
  BY DEF RequestStep, ResolveQueue, InsertQueued, WriteEdit, ResolveEdit
<1>3. /\ \A p \in Launcher : launcher'[p] = launcher[p]
      /\ \A x \in Workspace : deleting'[x] # "no" => x \in SpentIds
      /\ \A m \in launches' : \E k \in launches : m.workspace = k.workspace
  BY <1>2 DEF Inv, HoldsSpent
<1>4. ASSUME NEW req, request' = [request EXCEPT ![r] = req],
             req = Waiting \/ Sound(queue, SpentIds, req.parent)
      PROVE  \A x \in Requester : \/ request'[x] \in {request[x], Waiting}
                                  \/ Sound(queue, SpentIds, request'[x].parent)
  BY <1>1, <1>4 DEF TypeOK
<1>5. CASE ResolveQueue(r)
  <2>1. queue' = queue  BY <1>5 DEF ResolveQueue
  <2>2. \A x \in Requester : \/ request'[x] \in {request[x], Waiting}
                             \/ Sound(queue, SpentIds, request'[x].parent)
    BY <1>4, <1>5, ResolvableSound DEF ResolveQueue
  <2>. QED  BY <1>1, <1>2, <1>3, <2>1, <2>2, QueueKept, Framed
<1>6. ASSUME NEW e \in Entry, ResolveEdit(r, e)
      PROVE  Inv'
  <2>1. queue' = queue  BY <1>6 DEF ResolveEdit
  <2>2. \A x \in Requester : \/ request'[x] \in {request[x], Waiting}
                             \/ Sound(queue, SpentIds, request'[x].parent)
    BY <1>4, <1>6, ResolvableSound DEF ResolveEdit
  <2>. QED  BY <1>1, <1>2, <1>3, <2>1, <2>2, QueueKept, Framed
<1>7. CASE InsertQueued(r)
  <2>1. request[r] \in Queueing  BY <1>1, <1>7, Stages DEF InsertQueued
  <2>2. request[r].parent \in Parent /\ request[r].group \in Group  BY <2>1 DEF Queueing
  <2>3. Sound(queue, SpentIds, request[r].parent)  BY <1>7 DEF InsertQueued, Inv, RequestsSound
  <2>4. Acyclic(queue') /\ Consistent(queue', SpentIds) /\ UsedKept(queue, queue')
    <3>1. ASSUME NEW e \in Entry, queue[e].state = "unused",
                 queue' = Inserted(queue, e, request[r].parent, request[r].group)
          PROVE  Acyclic(queue') /\ Consistent(queue', SpentIds) /\ UsedKept(queue, queue')
      <4>1. e # Null  BY StoreAssumption
      <4>2. request[r].parent.entry # e  BY <2>3, <3>1, <4>1 DEF Sound
      <4>3. \A c \in Entry : queue[c].parent.entry # e  BY <3>1, <4>1 DEF Inv, Consistent, Sound
      <4>. QED
        BY <1>1, <2>2, <2>3, <3>1, <4>2, <4>3, InsertedAcyclic, InsertedConsistent DEF Inv, TypeOK
    <3>. QED  BY <1>7, <3>1, QueueKept DEF InsertQueued
  <2>5. \A x \in Requester : \/ request'[x] \in {request[x], Waiting}
                             \/ Sound(queue, SpentIds, request'[x].parent)
    BY <1>4, <1>7 DEF InsertQueued
  <2>. QED  BY <1>1, <1>2, <1>3, <2>4, <2>5, Framed
<1>8. CASE WriteEdit(r)
  <2>. DEFINE e == request[r].entry
              parent == IF request[r].stage = "edit" THEN request[r].parent ELSE Null
  <2>1. request[r] \in Editing  BY <1>1, <1>8, Stages DEF WriteEdit
  <2>2. /\ e \in Entry /\ request[r].group \in Group
        /\ request[r].parent \in Parent
        /\ parent \in Parent \cup {Null}
    BY <2>1 DEF Editing
  <2>3. Sound(queue, SpentIds, request[r].parent)  BY <1>8 DEF WriteEdit, Inv, RequestsSound
  <2>4. parent # Null => Sound(queue, SpentIds, parent)  BY <2>3
  <2>5. \/ queue' = queue
        \/ /\ queue' = Updated(queue, e, parent, request[r].group)
           /\ parent = Null \/ ~ClosesCycle(queue, e, parent)
    BY <1>8 DEF WriteEdit
  <2>. HIDE DEF parent
  <2>6. Acyclic(queue') /\ Consistent(queue', SpentIds) /\ UsedKept(queue, queue')
    BY <1>1, <2>2, <2>4, <2>5, UpdatedAcyclic, UpdatedConsistent, QueueKept DEF Inv, TypeOK
  <2>7. \A x \in Requester : \/ request'[x] \in {request[x], Waiting}
                             \/ Sound(queue, SpentIds, request'[x].parent)
    BY <1>4, <1>8 DEF WriteEdit
  <2>. QED  BY <1>1, <1>2, <1>3, <2>6, <2>7, Framed
<1>. QED  BY <1>5, <1>6, <1>7, <1>8 DEF RequestStep

\* Discards and Run nows.
LEMMA EntryCommandInv == Inv /\ EntryCommand => Inv'
<1>. SUFFICES ASSUME Inv, EntryCommand PROVE Inv'  OBVIOUS
<1>1. TypeOK /\ TypeOK'  BY EntryCommandTyped DEF Inv
<1>2. UNCHANGED <<workspace, launches, request, deleting, boot>>
  BY DEF EntryCommand, Discard, RunNow
<1>3. /\ \A r \in Requester : request'[r] \in {request[r], Waiting}
      /\ \A x \in Workspace : deleting'[x] # "no" => x \in SpentIds
      /\ \A m \in launches' : \E k \in launches : m.workspace = k.workspace
  BY <1>2 DEF Inv, HoldsSpent
<1>4. ASSUME NEW e \in Entry, Discard(e)
      PROVE  Inv'
  <2>1. now \in Nat  BY <1>1, QueuedWorkspacesAssumption DEF TypeOK
  <2>2. NotLaunching(queue, e) /\ queue' = Deleted(queue, e, now)  BY <1>4 DEF Discard
  <2>3. Acyclic(queue') /\ Consistent(queue', SpentIds) /\ UsedKept(queue, queue')
    BY <1>1, <2>1, <2>2, DeletedAcyclic, DeletedConsistent DEF Inv, TypeOK
  <2>4. \A p \in Launcher : launcher'[p] = launcher[p]  BY <1>4 DEF Discard
  <2>. QED  BY <1>1, <1>2, <1>3, <2>3, <2>4, Framed
<1>5. ASSUME NEW e \in Entry, NEW p \in Launcher, RunNow(e, p)
      PROVE  Inv'
  <2>1. queue' = Released(queue, e)  BY <1>5 DEF RunNow
  <2>2. Acyclic(queue') /\ Consistent(queue', SpentIds) /\ UsedKept(queue, queue')
    BY <1>1, <2>1, ReleasesAcyclic, ReleasesConsistent DEF Inv, TypeOK
  <2>3. [NoRows EXCEPT ![e] = queue'[e]] \in Rows  BY <1>1 DEF NoRows, Rows, Queue, TypeOK
  <2>4. \E r \in {Idle} \cup Reading : launcher' = [launcher EXCEPT ![p] = r]
    BY <1>5, <2>3, NextRowTyped DEF RunNow
  <2>5. \A o \in Launcher : launcher'[o] = launcher[o] \/ launcher'[o].stage # "claim"
    BY <1>1, <2>4 DEF TypeOK, Idle, Reading
  <2>. QED  BY <1>1, <1>2, <1>3, <2>2, <2>5, Framed
<1>. QED  BY <1>4, <1>5 DEF EntryCommand

\* Stops, deaths, restarts and deletes move spent workspaces on.
LEMMA WorkspaceInv ==
    ASSUME Inv, NEW w \in Workspace,
           \/ StopStep(w) \/ AskStop(w) \/ Die(w) \/ Restart(w)
           \/ HoldForDelete(w) \/ CheckDelete(w) \/ DeleteWorkspace(w)
    PROVE  Inv'
<1>1. TypeOK /\ TypeOK'  BY WorkspaceTyped DEF Inv
<1>2. UNCHANGED <<launches, request, launcher, boot>>
  BY DEF StopStep, RecordStop, ReleaseChildren, AskStop, Die, Restart, memory,
         HoldForDelete, CheckDelete, DeleteWorkspace
<1>3. /\ \A r \in Requester : request'[r] \in {request[r], Waiting}
      /\ \A p \in Launcher : launcher'[p] = launcher[p]
      /\ \A m \in launches' : \E k \in launches : m.workspace = k.workspace
  BY <1>2
<1>4. \A x \in Workspace : deleting'[x] # "no" => x \in SpentIds
  <2>1. \/ UNCHANGED deleting
        \/ deleting' = [deleting EXCEPT ![w] = "held"] /\ workspace[w] = "stopped"
        \/ \E s \in {"checked", "no"} : deleting' = [deleting EXCEPT ![w] = s] /\ deleting[w] # "no"
    BY DEF StopStep, RecordStop, ReleaseChildren, AskStop, Die, Restart, memory,
           HoldForDelete, CheckDelete, DeleteWorkspace
  <2>. QED  BY <1>1, <2>1 DEF Inv, HoldsSpent, SpentIds, TypeOK
<1>5. \/ workspace' = workspace
      \/ w \in SpentIds /\ \E s \in WorkspaceState \ {"unused", "drawn"} : workspace' = [workspace EXCEPT ![w] = s]
  <2>1. CASE DeleteWorkspace(w)
    BY <2>1 DEF DeleteWorkspace, Inv, HoldsSpent, WorkspaceState
  <2>2. CASE ~DeleteWorkspace(w)
    BY <2>2 DEF StopStep, RecordStop, ReleaseChildren, AskStop, Die, Restart, memory,
                HoldForDelete, CheckDelete, SpentIds, WorkspaceState
  <2>. QED  BY <2>1, <2>2
<1>6. Acyclic(queue') /\ Consistent(queue', SpentIds) /\ UsedKept(queue, queue')
  <2>1. queue' = queue \/ queue' = ChildrenReleased(queue, w) \/ queue' = Cascaded(queue, w)
    BY DEF StopStep, RecordStop, ReleaseChildren, AskStop, Die, Restart, memory,
           HoldForDelete, CheckDelete, DeleteWorkspace
  <2>. QED
    BY <1>1, <2>1, ReleasesAcyclic, CascadedAcyclic, ReleasesConsistent, QueueKept DEF Inv, TypeOK
<1>. QED  BY <1>1, <1>2, <1>3, <1>4, <1>5, <1>6, Framed

LEMMA ClockInv ==
    ASSUME Inv, Tick \/ ReleaseDue \/ ReconcilePass
    PROVE  Inv'
<1>1. TypeOK /\ TypeOK'  BY ClockTyped DEF Inv
<1>2. UNCHANGED <<workspace, launches, request, launcher, deleting, boot>>
  BY DEF Tick, memory, ReleaseDue, ReconcilePass
<1>3. /\ \A r \in Requester : request'[r] \in {request[r], Waiting}
      /\ \A p \in Launcher : launcher'[p] = launcher[p]
      /\ \A m \in launches' : \E k \in launches : m.workspace = k.workspace
      /\ \A x \in Workspace : deleting'[x] # "no" => x \in SpentIds
  BY <1>2 DEF Inv, HoldsSpent
<1>4. now \in Nat  BY <1>1, QueuedWorkspacesAssumption DEF TypeOK
<1>5. queue' = queue \/ queue' = DueReleased(queue, now)
  BY DEF Tick, ReleaseDue, ReconcilePass
<1>6. Acyclic(queue') /\ Consistent(queue', SpentIds) /\ UsedKept(queue, queue')
  BY <1>1, <1>4, <1>5, ReleasesAcyclic, ReleasesConsistent, QueueKept DEF Inv, TypeOK
<1>. QED  BY <1>1, <1>2, <1>3, <1>6, Framed

\* A crash forgets every launcher, launch and request, and spends the ids
\* drawn but not claimed.
LEMMA CrashInv == Inv /\ Crash => Inv'
<1>. SUFFICES ASSUME Inv, Crash PROVE Inv'  OBVIOUS
<1>1. TypeOK /\ TypeOK'  BY CrashTyped DEF Inv
<1>2. SpentIds \subseteq SpentIds'
  <2>1. PICK up \in SUBSET {w \in Workspace : workspace[w] = "creating"} :
          workspace' = [w \in Workspace |->
             IF w \in up THEN "running"
             ELSE IF workspace[w] \in {"creating", "drawn"} THEN "gone"
             ELSE workspace[w]]
    BY DEF Crash
  <2>. QED  BY <2>1 DEF SpentIds
<1>3. Consistent(queue, SpentIds')  BY <1>1, <1>2, MoreSpent DEF Inv, TypeOK
<1>4. Acyclic(queue)' /\ Consistent(queue, SpentIds)'  BY <1>3 DEF Inv, Crash
<1>5. RequestsSound'  BY DEF Crash, RequestsSound, Waiting
<1>6. DrawnHeld'  BY DEF Crash, DrawnHeld, Idle
<1>7. LaunchesSpent' /\ HoldsSpent'  BY DEF Crash, LaunchesSpent, HoldsSpent
<1>8. ResumesClaimed'  BY DEF Crash, ResumesClaimed, BootDue, BootDone, NoRows
<1>. QED  BY <1>1, <1>4, <1>5, <1>6, <1>7, <1>8 DEF Inv

\* The resume settles rows that were claimed when it listed them.
LEMMA ResumeInv == Inv /\ ResumeStep => Inv'
<1>. SUFFICES ASSUME Inv, ResumeStep PROVE Inv'  OBVIOUS
<1>1. TypeOK /\ TypeOK'  BY ResumeTyped DEF Inv
<1>2. UNCHANGED <<workspace, launches, request, launcher, deleting>>
  BY DEF ResumeStep, ResumeList, ResumeRow, ResumeResolve, ResumeDone
<1>3. /\ \A r \in Requester : request'[r] \in {request[r], Waiting}
      /\ \A p \in Launcher : launcher'[p] = launcher[p]
      /\ \A m \in launches' : \E k \in launches : m.workspace = k.workspace
      /\ \A x \in Workspace : deleting'[x] # "no" => x \in SpentIds
  BY <1>2 DEF Inv, HoldsSpent
<1>4. CASE ResumeList
  <2>1. queue' = queue  BY <1>4 DEF ResumeList
  <2>2. boot'.stage = "rows"
    BY <1>4 DEF ResumeList, BootDone
  <2>3. \A e \in Entry : boot'.todo[e] # Null => boot'.todo[e].claim # Null
    BY <1>4 DEF ResumeList, BootDone
  <2>4. ResumesClaimed'  BY <2>2, <2>3 DEF ResumesClaimed
  <2>. QED  BY <1>1, <1>2, <1>3, <2>1, <2>4, QueueKept, Framed
<1>5. CASE ResumeRow
  <2>1. queue' = queue  BY <1>5 DEF ResumeRow
  <2>2. boot \in Resuming  BY <1>1, <1>5, Stages DEF ResumeRow
  <2>3. boot.todo \in Rows /\ boot.todo # NoRows  BY <1>5, <2>2 DEF ResumeRow, Resuming
  <2>. DEFINE e == Oldest(boot.todo)
  <2>4. e \in Entry /\ boot.todo[e] # Null  BY <2>3, OldestTyped
  <2>. HIDE DEF e
  <2>5. \/ boot' = [boot EXCEPT !.todo = [boot.todo EXCEPT ![e] = Null]]
        \/ \E v : boot' = [boot EXCEPT !.stage = "resolve", !.entry = e, !.verdict = v]
    BY <1>5 DEF ResumeRow, e
  <2>6. ResumesClaimed'
    <3>1. CASE boot' = [boot EXCEPT !.todo = [boot.todo EXCEPT ![e] = Null]]
      BY <2>2, <2>3, <2>4, <3>1 DEF Inv, ResumesClaimed, Resuming, Rows
    <3>2. ASSUME NEW v, boot' = [boot EXCEPT !.stage = "resolve", !.entry = e, !.verdict = v]
          PROVE  ResumesClaimed'
      <4>1. boot'.todo = boot.todo /\ boot'.entry = e  BY <2>2, <3>2 DEF Resuming
      <4>. QED  BY <2>4, <4>1 DEF Inv, ResumesClaimed
    <3>. QED  BY <2>5, <3>1, <3>2
  <2>. QED  BY <1>1, <1>2, <1>3, <2>1, <2>6, QueueKept, Framed
<1>6. CASE ResumeResolve
  <2>. DEFINE e == boot.entry
              w == boot.todo[e].claim
  <2>1. boot \in Settling  BY <1>1, <1>6, Stages DEF ResumeResolve
  <2>2. e \in Entry /\ boot.todo \in Rows  BY <2>1 DEF Settling
  <2>3. w # Null  BY <1>6, <2>2 DEF ResumeResolve, Inv, ResumesClaimed
  <2>4. queue' \in {queue, Finished(queue, e, w), Failed(queue, e, w, TRUE)}
    <3>1. boot.verdict \in {"finish", "fail"}  BY <2>1 DEF Settling
    <3>. QED  BY <1>6, <3>1 DEF ResumeResolve
  <2>5. boot' = [BootDone EXCEPT !.stage = "rows", !.todo = [boot.todo EXCEPT ![e] = Null]]
    BY <1>6 DEF ResumeResolve
  <2>6. boot'.stage = "rows" /\ boot'.todo = [boot.todo EXCEPT ![e] = Null]
    BY <2>5 DEF BootDone
  <2>7. ResumesClaimed'  BY <2>2, <2>6 DEF Inv, ResumesClaimed, Rows
  <2>. HIDE DEF e, w
  <2>8. DistinctClaims(queue)  BY DEF Inv, Consistent
  <2>9. Acyclic(queue') /\ Consistent(queue', SpentIds) /\ UsedKept(queue, queue')
    BY <1>1, <2>2, <2>3, <2>4, <2>8, FinishedAcyclic, FinishedConsistent, FailedAcyclic, FailedConsistent,
       QueueKept DEF Inv, TypeOK
  <2>. QED  BY <1>1, <1>2, <1>3, <2>7, <2>9, Framed
<1>7. CASE ResumeDone
  <2>1. queue' = queue  BY <1>7 DEF ResumeDone
  <2>2. ResumesClaimed'  BY <1>7 DEF ResumeDone, ResumesClaimed, BootDone, NoRows
  <2>. QED  BY <1>1, <1>2, <1>3, <2>1, <2>2, QueueKept, Framed
<1>. QED  BY <1>4, <1>5, <1>6, <1>7 DEF ResumeStep

LEMMA NextInv == Inv /\ [Next]_vars => Inv'
<1>. SUFFICES ASSUME Inv, [Next]_vars PROVE Inv'  OBVIOUS
<1>1. CASE UNCHANGED vars
  BY <1>1 DEF vars, memory, Inv, TypeOK, SpentIds, RequestsSound, DrawnHeld, LaunchesSpent, HoldsSpent,
              ResumesClaimed
<1>2. CASE WorkspaceCommand
  BY <1>2, WorkspaceInv DEF WorkspaceCommand
<1>. QED
  BY <1>1, <1>2, LauncherInv, LaunchInv, RequestInv, EntryCommandInv, WorkspaceInv, ClockInv,
     CrashInv, ResumeInv DEF Next

LEMMA InvCorrect == Spec => []Inv
BY InitInv, NextInv, PTL DEF Spec

\* No entry ever waits, through entries and the workspaces entries are
\* launching, on itself, however edits, discards, claims, failures and
\* crashes interleave.
THEOREM NoCycleCorrect == Spec => []NoCycle
<1>1. Inv => NoCycle  BY DEF Inv, NoCycle
<1>. QED  BY <1>1, InvCorrect, PTL

\* A row never has two of its three parent columns set.
THEOREM OneParentCorrect == Spec => []OneParent
<1>1. Inv => OneParent  BY DEF Inv, Consistent, Sound, OneParent
<1>. QED  BY <1>1, InvCorrect, PTL
=============================================================================
