-------------------- MODULE QueuedWorkspacesClaimsProofs --------------------
(***************************************************************************)
(* Who holds an entry, from the claim of a launch to its end: theorems of  *)
(* QueuedWorkspaces and its history about claims, the launches behind      *)
(* them, and what the writes of the table leave alone.                     *)
(***************************************************************************)
EXTENDS QueuedWorkspacesHistory, QueuedWorkspacesProofs, FiniteSetTheorems

(***************************************************************************)
(* The invariant.                                                          *)
(***************************************************************************)
\* A row outside the table holds no claim.
BlankUnclaimed == \A e \in Entry : queue[e].state \in {"unused", "deleted"} => queue[e].claim = Null

\* A workspace of the start is no launch's.
FreshClaims == Existing \subseteq SpentIds /\ \A e \in Entry : queue[e].claim \notin Existing

\* An entry in `launching` has one holder: a launcher about to claim it, or
\* the one detached launch of it.
OneHolder ==
    /\ \A l \in launches : l.entry \in launching
    /\ \A l, m \in launches : l.entry = m.entry => l = m
    /\ \A p \in Launcher : launcher[p].stage = "claim" => launcher[p].entry \in launching
    /\ \A p, o \in Launcher :
          /\ launcher[p].stage = "claim" /\ launcher[o].stage = "claim"
          /\ launcher[p].entry = launcher[o].entry
          => p = o
    /\ \A p \in Launcher, l \in launches : launcher[p].stage = "claim" => launcher[p].entry # l.entry

\* A launch ends by giving its claim up, after a failure with its workspace gone.
LaunchesEnd ==
    /\ \A l \in launches : l.stage \in {"recorded", "returned"} => ~ClaimedBy(queue, l.entry, l.workspace)
    /\ \A l \in launches : l.stage \in {"failed", "stopped"} => workspace[l.workspace] = "gone"

\* A claim without a launch: one that a crash interrupted.
Orphan(e, w) ==
    /\ ClaimedBy(queue, e, w)
    /\ \A l \in launches : ~(l.entry = e /\ l.workspace = w)

Clean(e) == \A w \in Workspace : ~Orphan(e, w)

\* No launcher or launch of this process works on such an entry.
Listed(r) == r.stage # "idle" => Clean(r.entry) /\ \A x \in Entry : r.todo[x] # Null => Clean(x)
HeldAreClean == (\A e \in launching : Clean(e)) /\ \A p \in Launcher : Listed(launcher[p])

Deletes == "delete" \in Commands
Removed(w) == Deletes /\ workspace[w] = "gone"
DeletesAsked == \A w \in Workspace : deleting[w] # "no" => Deletes

OrphansSettled ==
    \A e \in Entry, w \in Workspace :
        Orphan(e, w) => crashes > 0 /\ workspace[w] \in {"running", "stopped", "gone"}

\* The resume knows every orphan by the claim it listed, and what it decided
\* of one stands: no launch holds that claim, and a workspace found running
\* is gone since only by a delete.
ResumeKnows ==
    /\ \A e \in Entry : boot.todo[e] # Null =>
          /\ boot.todo[e].claim \in SpentIds
          /\ \A w \in Workspace : Orphan(e, w) => w = boot.todo[e].claim
    /\ boot.stage = "resolve" =>
          /\ \A l \in launches : ~(l.entry = boot.entry /\ l.workspace = boot.todo[boot.entry].claim)
          /\ boot.verdict = "finish" => \A w \in Workspace : Orphan(boot.entry, w) =>
                workspace[w] \in {"running", "stopped"} \/ Removed(w)

OrphansResumed ==
    \A e \in Entry, w \in Workspace :
        Orphan(e, w) => boot.stage = "due" \/ boot.todo[e] # Null \/ Removed(w)

HeldInv ==
    /\ BlankUnclaimed
    /\ FreshClaims
    /\ OneHolder
    /\ LaunchHoldsClaim
    /\ LaunchesEnd
    /\ HeldAreClean
    /\ DeletesAsked
    /\ OrphansSettled
    /\ ResumeKnows
    /\ OrphansResumed

LEMMA InitHeld == Init => HeldInv
<1>. SUFFICES ASSUME Init PROVE HeldInv  OBVIOUS
<1>1. \A e \in Entry : queue[e].state = "unused" /\ queue[e].claim = Null  BY DEF Init, NoRow
<1>2. \A e \in Entry, w \in Workspace : ~Orphan(e, w)  BY <1>1 DEF Orphan, ClaimedBy, Pending
<1>3. BlankUnclaimed  BY <1>1 DEF BlankUnclaimed
<1>8. FreshClaims
  BY <1>1, StoreAssumption, QueuedWorkspacesAssumption DEF FreshClaims, SpentIds, Init
<1>4. OneHolder /\ LaunchHoldsClaim /\ LaunchesEnd /\ DeletesAsked
  BY DEF Init, Idle, OneHolder, LaunchHoldsClaim, LaunchesEnd, DeletesAsked
<1>5. HeldAreClean  BY DEF Init, Idle, HeldAreClean, Listed
<1>6. OrphansSettled /\ OrphansResumed  BY <1>2 DEF OrphansSettled, OrphansResumed
<1>7. ResumeKnows  BY DEF Init, BootDue, BootDone, NoRows, ResumeKnows
<1>. QED  BY <1>3, <1>4, <1>5, <1>6, <1>7, <1>8 DEF HeldInv
-----------------------------------------------------------------------------
(***************************************************************************)
(* What the writes do to claims.                                           *)
(***************************************************************************)
SameClaims(q, r) == \A f \in Entry, x \in Workspace : ClaimedBy(r, f, x) <=> ClaimedBy(q, f, x)

\* The writes that launch and end nothing.
LEMMA OtherWrites ==
    ASSUME NEW q \in Queue, NEW r
    PROVE  /\ \A p, g : \A e \in Entry : q[e].state = "unused" /\ r = Inserted(q, e, p, g) => SameClaims(q, r)
           /\ \A p, g : \A e \in Entry : r = Updated(q, e, p, g) => SameClaims(q, r)
           /\ \A t : \A e \in Entry : NotLaunching(q, e) /\ r = Deleted(q, e, t) => SameClaims(q, r)
           /\ \A w \in Workspace : r = ChildrenReleased(q, w) => SameClaims(q, r)
           /\ \A t : r = DueReleased(q, t) => SameClaims(q, r)
           /\ \A e \in Entry : r = Released(q, e) => SameClaims(q, r)
           /\ \A w \in Workspace : r = Cascaded(q, w) => SameClaims(q, r)
<1>0. \A f \in Entry : q[f] \in Row  BY DEF Queue
<1>a. \A x \in Workspace : x # Null  BY StoreAssumption
<1>b. ASSUME \A f \in Entry : r[f].state = q[f].state /\ r[f].claim = q[f].claim
      PROVE  SameClaims(q, r)
  BY <1>b DEF SameClaims, ClaimedBy, Pending
<1>1. ASSUME NEW e \in Entry, NEW p, NEW g, q[e].state = "unused", r = Inserted(q, e, p, g)
      PROVE  SameClaims(q, r)
  <2>1. r[e].claim = Null /\ \A f \in Entry \ {e} : r[f] = q[f]  BY <1>1 DEF Inserted, Queue
  <2>. QED  BY <1>1, <1>a, <2>1 DEF SameClaims, ClaimedBy, Pending
<1>2. ASSUME NEW e \in Entry, NEW p, NEW g, r = Updated(q, e, p, g)
      PROVE  SameClaims(q, r)
  <2>1. \A f \in Entry : r[f].state = q[f].state /\ r[f].claim = q[f].claim
    BY <1>2 DEF Updated, Queue, Row
  <2>. QED  BY <1>b, <2>1
<1>3. ASSUME NEW e \in Entry, NEW t, NotLaunching(q, e), r = Deleted(q, e, t)
      PROVE  SameClaims(q, r)
  <2>1. r[e] = NoRow("deleted")  BY <1>3 DEF Deleted
  <2>2. ASSUME NEW f \in Entry \ {e}  PROVE r[f].state = q[f].state /\ r[f].claim = q[f].claim
    <3>1. r[f] = q[f] \/ r[f] = Spliced(q[f], q[e], t)  BY <1>3 DEF Deleted
    <3>. QED  BY <1>0, <3>1 DEF Spliced, Row
  <2>. QED  BY <1>3, <1>a, <2>1, <2>2 DEF SameClaims, ClaimedBy, NotLaunching, Pending, NoRow
<1>4. ASSUME \/ \E w \in Workspace : r = ChildrenReleased(q, w)
             \/ \E t : r = DueReleased(q, t)
             \/ \E e \in Entry : r = Released(q, e)
      PROVE  SameClaims(q, r)
  <2>1. ASSUME NEW f \in Entry  PROVE r[f].state = q[f].state /\ r[f].claim = q[f].claim
    <3>1. \/ r[f] = q[f]
          \/ r[f] = [q[f] EXCEPT !.released = TRUE]
          \/ r[f] = [q[f] EXCEPT !.released = TRUE, !.error = FALSE]
      BY <1>4 DEF ChildrenReleased, DueReleased, Released, Queue
    <3>. QED  BY <1>0, <3>1 DEF Row
  <2>. QED  BY <1>b, <2>1
<1>5. ASSUME NEW w \in Workspace, r = Cascaded(q, w)
      PROVE  SameClaims(q, r)
  <2>1. \A f \in Entry : r[f] = IF q[f].state = "launched" /\ q[f].claim = w THEN NoRow("deleted") ELSE q[f]
    BY <1>5 DEF Cascaded
  <2>2. NoRow("deleted").state = "deleted"  BY DEF NoRow
  <2>3. \A f \in Entry : Pending(r, f) \/ Pending(q, f) => r[f] = q[f]  BY <2>1, <2>2 DEF Pending
  <2>. QED  BY <2>3 DEF SameClaims, ClaimedBy, Pending
<1>. QED  BY <1>1, <1>2, <1>3, <1>4, <1>5

\* The claim, and the two writes that end one.
LEMMA ClaimWrites ==
    ASSUME NEW q \in Queue, NEW e \in Entry, NEW w \in Workspace
    PROVE  /\ NotLaunching(q, e) => \A f \in Entry, x \in Workspace :
                 ClaimedBy(Claimed(q, e, w), f, x) <=> (f = e /\ x = w) \/ ClaimedBy(q, f, x)
           /\ \A f \in Entry, x \in Workspace :
                 ClaimedBy(Finished(q, e, w), f, x) <=> ClaimedBy(q, f, x) /\ ~(f = e /\ x = w)
           /\ \A error : \A f \in Entry, x \in Workspace :
                 ClaimedBy(Failed(q, e, w, error), f, x) <=> ClaimedBy(q, f, x) /\ ~(f = e /\ x = w)
<1>0. \A f \in Entry : q[f] \in Row  BY DEF Queue
<1>1. \A x \in Workspace : x # Null  BY StoreAssumption
<1>2. ASSUME NotLaunching(q, e), NEW f \in Entry, NEW x \in Workspace
      PROVE  ClaimedBy(Claimed(q, e, w), f, x) <=> (f = e /\ x = w) \/ ClaimedBy(q, f, x)
  <2>. DEFINE r == Claimed(q, e, w)
  <2>1. r[e].state = q[e].state /\ r[e].claim = w  BY <1>0 DEF Claimed, ChildrenMoved, Row
  <2>2. \A c \in Entry \ {e} : r[c].state = q[c].state /\ r[c].claim = q[c].claim
    BY <1>0 DEF Claimed, ChildrenMoved, Row
  <2>. HIDE DEF r
  <2>. QED  BY <1>1, <1>2, <2>1, <2>2 DEF r, ClaimedBy, NotLaunching, Pending
<1>3. ASSUME NEW f \in Entry, NEW x \in Workspace
      PROVE  ClaimedBy(Finished(q, e, w), f, x) <=> ClaimedBy(q, f, x) /\ ~(f = e /\ x = w)
  <2>. DEFINE r == Finished(q, e, w)
  <2>1. CASE ClaimedBy(q, e, w)
    <3>1. r[e].state = "launched"  BY <1>0, <2>1 DEF Finished, ChildrenMoved, Row
    <3>2. \A c \in Entry \ {e} : r[c].state = q[c].state /\ r[c].claim = q[c].claim
      BY <1>0, <2>1 DEF Finished, ChildrenMoved, Row
    <3>. HIDE DEF r
    <3>. QED  BY <2>1, <3>1, <3>2 DEF r, ClaimedBy, Pending
  <2>2. CASE ~ClaimedBy(q, e, w)  BY <2>2 DEF Finished
  <2>. QED  BY <2>1, <2>2
<1>4. ASSUME NEW error, NEW f \in Entry, NEW x \in Workspace
      PROVE  ClaimedBy(Failed(q, e, w, error), f, x) <=> ClaimedBy(q, f, x) /\ ~(f = e /\ x = w)
  <2>. DEFINE r == Failed(q, e, w, error)
  <2>1. CASE ClaimedBy(q, e, w)
    <3>1. r[e].claim = Null  BY <1>0, <2>1 DEF Failed, Row
    <3>2. \A c \in Entry \ {e} : r[c].state = q[c].state /\ r[c].claim = q[c].claim
      BY <1>0, <2>1 DEF Failed, Row
    <3>. HIDE DEF r
    <3>. QED  BY <1>1, <2>1, <3>1, <3>2 DEF r, ClaimedBy, Pending
  <2>2. CASE ~ClaimedBy(q, e, w)  BY <2>2 DEF Failed
  <2>. QED  BY <2>1, <2>2
<1>. QED  BY <1>2, <1>3, <1>4

(***************************************************************************)
(* Every step writes the table through one of its functions, or not at     *)
(* all.                                                                    *)
(***************************************************************************)
Inserts == \E e \in Entry, p \in Parent, g \in Group :
    queue[e].state = "unused" /\ ~ParentHeld(p) /\ queue' = Inserted(queue, e, p, g)
Updates == \E e \in Entry, p \in Parent \cup {Null}, g \in Group :
    NotLaunching(queue, e) /\ (p # Null => ~ParentHeld(p)) /\ queue' = Updated(queue, e, p, g)
Deletions == \E e \in Entry : NotLaunching(queue, e) /\ queue' = Deleted(queue, e, now)
Releases ==
    \/ \E w \in Workspace : queue' = ChildrenReleased(queue, w)
    \/ queue' = DueReleased(queue, now)
    \/ \E e \in Entry : NotLaunching(queue, e) /\ queue' = Released(queue, e)
Cascades == \E w \in Workspace : queue' = Cascaded(queue, w) /\ workspace' = [workspace EXCEPT ![w] = "gone"]
Claims == \E e \in Entry, w \in Workspace \ SpentIds : NotLaunching(queue, e) /\ queue' = Claimed(queue, e, w)
Finishes == \E e \in Entry, w \in Workspace : ClaimedBy(queue, e, w) /\ queue' = Finished(queue, e, w)
Fails == \E e \in Entry, w \in Workspace, error \in BOOLEAN :
    ClaimedBy(queue, e, w) /\ queue' = Failed(queue, e, w, error)

OtherWrite == queue' = queue \/ Inserts \/ Updates \/ Deletions \/ Releases \/ Cascades
Writes == OtherWrite \/ Claims \/ Finishes \/ Fails

LEMMA LaunchWrites ==
    ASSUME Inv, NEW l \in launches, LaunchStep(l)
    PROVE  Writes
<1>1. l.entry \in Entry /\ l.workspace \in Workspace  BY DEF Inv, TypeOK, Launch
<1>2. LaunchError(l) \in BOOLEAN  BY DEF LaunchError
<1>3. \/ queue' = queue
      \/ queue' = Finished(queue, l.entry, l.workspace)
      \/ queue' = Failed(queue, l.entry, l.workspace, LaunchError(l))
  BY DEF LaunchStep, LaunchRuns, LaunchFails, LaunchStopped, RecordFinish, RecordFailure, SettleLaunch
<1>4. CASE ClaimedBy(queue, l.entry, l.workspace)
  BY <1>1, <1>2, <1>3, <1>4 DEF Writes, OtherWrite, Finishes, Fails
<1>5. CASE ~ClaimedBy(queue, l.entry, l.workspace)
  <2>1. queue' = queue  BY <1>3, <1>5 DEF Finished, Failed
  <2>. QED  BY <2>1 DEF Writes, OtherWrite
<1>. QED  BY <1>4, <1>5

LEMMA ResumeWrites ==
    ASSUME Inv, ResumeStep
    PROVE  Writes
<1>1. CASE ResumeResolve
  <2>. DEFINE e == boot.entry
              w == boot.todo[e].claim
  <2>1. boot \in Settling /\ boot.stage = "resolve"  BY <1>1, Stages DEF Inv, ResumeResolve
  <2>2. e \in Entry /\ w # Null /\ boot.todo[e] \in Row
    BY <2>1 DEF Settling, Inv, ResumesClaimed, Rows
  <2>3. w \in Workspace  BY <2>2 DEF Row
  <2>4. queue' \in {queue, Finished(queue, e, w), Failed(queue, e, w, TRUE)}
    <3>1. boot.verdict \in {"finish", "fail"}  BY <2>1 DEF Settling
    <3>. QED  BY <1>1, <3>1 DEF ResumeResolve
  <2>. HIDE DEF e, w
  <2>5. CASE ClaimedBy(queue, e, w)
    BY <2>2, <2>3, <2>4, <2>5 DEF Writes, OtherWrite, Finishes, Fails
  <2>6. CASE ~ClaimedBy(queue, e, w)
    <3>1. queue' = queue  BY <2>4, <2>6 DEF Finished, Failed
    <3>. QED  BY <3>1 DEF Writes, OtherWrite
  <2>. QED  BY <2>5, <2>6
<1>2. CASE ResumeList \/ ResumeRow \/ ResumeDone
  BY <1>2 DEF ResumeList, ResumeRow, ResumeDone, Writes, OtherWrite
<1>. QED  BY <1>1, <1>2 DEF ResumeStep

LEMMA LauncherWrites ==
    ASSUME Inv, NEW p \in Launcher, LauncherStep(p)
    PROVE  Writes
<1>1. CASE ClaimLaunch(p)
  <2>1. launcher[p] \in Claiming /\ launcher[p].stage = "claim"
    BY <1>1, Stages DEF Inv, ClaimLaunch
  <2>2. launcher[p].entry \in Entry /\ launcher[p].workspace \in Workspace \ SpentIds
    BY <2>1 DEF Claiming, Inv, DrawnHeld, SpentIds
  <2>. QED  BY <1>1, <2>2 DEF ClaimLaunch, Writes, OtherWrite, Claims
<1>2. CASE ListWaiting(p) \/ LoseRow(p) \/ FindFull(p) \/ TakeSlot(p)
  BY <1>2 DEF ListWaiting, LoseRow, FindFull, TakeSlot, Writes, OtherWrite
<1>. QED  BY <1>1, <1>2 DEF LauncherStep

LEMMA RequestWrites ==
    ASSUME Inv, NEW r \in Requester, RequestStep(r)
    PROVE  OtherWrite
<1>1. CASE InsertQueued(r)
  <2>1. request[r] \in Queueing  BY <1>1, Stages DEF Inv, InsertQueued
  <2>2. request[r].parent \in Parent /\ request[r].group \in Group  BY <2>1 DEF Queueing
  <2>. QED  BY <1>1, <2>2 DEF InsertQueued, OtherWrite, Inserts
<1>2. CASE WriteEdit(r)
  <2>. DEFINE parent == IF request[r].stage = "edit" THEN request[r].parent ELSE Null
  <2>1. request[r] \in Editing  BY <1>2, Stages DEF Inv, WriteEdit
  <2>2. /\ request[r].entry \in Entry /\ request[r].group \in Group
        /\ parent \in Parent \cup {Null} /\ parent \in {Null, request[r].parent}
    BY <2>1 DEF Editing
  <2>3. \/ queue' = queue
        \/ /\ ~ParentHeld(request[r].parent) /\ NotLaunching(queue, request[r].entry)
           /\ queue' = Updated(queue, request[r].entry, parent, request[r].group)
    BY <1>2 DEF WriteEdit
  <2>. HIDE DEF parent
  <2>. QED  BY <2>2, <2>3 DEF OtherWrite, Updates
<1>3. CASE ResolveQueue(r) \/ \E e \in Entry : ResolveEdit(r, e)
  BY <1>3 DEF ResolveQueue, ResolveEdit, OtherWrite
<1>. QED  BY <1>1, <1>2, <1>3 DEF RequestStep

\* Commands on entries and workspaces, the clock and a crash.
LEMMA CommandWrites ==
    ASSUME EntryCommand \/ WorkspaceCommand \/ (\E w \in Workspace : StopStep(w))
           \/ Tick \/ ReleaseDue \/ ReconcilePass \/ Crash
    PROVE  OtherWrite
<1>1. ASSUME NEW e \in Entry, Discard(e) \/ \E p \in Launcher : RunNow(e, p)
      PROVE  OtherWrite
  BY <1>1 DEF Discard, RunNow, OtherWrite, Deletions, Releases
<1>2. ASSUME NEW w \in Workspace,
             StopStep(w) \/ AskStop(w) \/ Die(w) \/ Restart(w) \/ HoldForDelete(w) \/ CheckDelete(w)
             \/ DeleteWorkspace(w)
      PROVE  OtherWrite
  BY <1>2 DEF StopStep, RecordStop, ReleaseChildren, AskStop, Die, Restart, HoldForDelete, CheckDelete,
              DeleteWorkspace, OtherWrite, Releases, Cascades
<1>3. CASE Tick \/ ReleaseDue \/ ReconcilePass \/ Crash
  BY <1>3 DEF Tick, ReleaseDue, ReconcilePass, Crash, OtherWrite, Releases
<1>. QED  BY <1>1, <1>2, <1>3 DEF EntryCommand, WorkspaceCommand

LEMMA NextWrites == Inv /\ Next => Writes
BY LauncherWrites, LaunchWrites, RequestWrites, CommandWrites, ResumeWrites DEF Next, Writes

LEMMA OtherWriteKeepsClaims == TypeOK /\ OtherWrite => SameClaims(queue, queue')
<1>. SUFFICES ASSUME TypeOK, OtherWrite PROVE SameClaims(queue, queue')  OBVIOUS
<1>1. queue \in Queue  BY DEF TypeOK
<1>2. queue' = queue => SameClaims(queue, queue')  BY DEF SameClaims
<1>. QED
  BY <1>1, <1>2, OtherWrites DEF OtherWrite, Inserts, Updates, Deletions, Releases, Cascades

\* No id is unspent.
LEMMA SpentGrows == Inv /\ Next => SpentIds \subseteq SpentIds'
<1>. SUFFICES ASSUME Inv, Next PROVE SpentIds \subseteq SpentIds'  OBVIOUS
<1>1. TypeOK  BY DEF Inv
<1>2. ASSUME \/ workspace' = workspace
             \/ \E w \in Workspace, s \in WorkspaceState \ {"unused", "drawn"} :
                   workspace' = [workspace EXCEPT ![w] = s]
      PROVE  SpentIds \subseteq SpentIds'
  BY <1>1, <1>2 DEF SpentIds, TypeOK
<1>3. ASSUME NEW p \in Launcher, LauncherStep(p)
      PROVE  SpentIds \subseteq SpentIds'
  <2>1. CASE TakeSlot(p)  BY <1>1, <2>1 DEF TakeSlot, SpentIds, TypeOK
  <2>2. CASE ClaimLaunch(p)
    <3>1. launcher[p].workspace \in Workspace  BY <1>1, <2>2, Stages DEF ClaimLaunch, Claiming
    <3>. QED  BY <1>2, <2>2, <3>1 DEF ClaimLaunch, WorkspaceState
  <2>3. CASE ListWaiting(p) \/ LoseRow(p) \/ FindFull(p)
    BY <1>2, <2>3 DEF ListWaiting, LoseRow, FindFull
  <2>. QED  BY <1>3, <2>1, <2>2, <2>3 DEF LauncherStep
<1>4. ASSUME NEW l \in launches, LaunchStep(l)
      PROVE  SpentIds \subseteq SpentIds'
  <2>1. l.workspace \in Workspace  BY <1>1 DEF TypeOK, Launch
  <2>. QED
    BY <1>2, <1>4, <2>1 DEF LaunchStep, LaunchRuns, LaunchFails, LaunchStopped, RecordFinish, RecordFailure,
                            SettleLaunch, WorkspaceState
<1>5. ASSUME NEW w \in Workspace,
             StopStep(w) \/ AskStop(w) \/ Die(w) \/ Restart(w) \/ HoldForDelete(w) \/ CheckDelete(w)
             \/ DeleteWorkspace(w)
      PROVE  SpentIds \subseteq SpentIds'
  BY <1>2, <1>5 DEF StopStep, RecordStop, ReleaseChildren, AskStop, Die, Restart, HoldForDelete, CheckDelete,
                    DeleteWorkspace, WorkspaceState
<1>6. CASE Crash
  <2>1. PICK up \in SUBSET {w \in Workspace : workspace[w] = "creating"} :
          workspace' = [w \in Workspace |->
             IF w \in up THEN "running"
             ELSE IF workspace[w] \in {"creating", "drawn"} THEN "gone"
             ELSE workspace[w]]
    BY <1>6 DEF Crash
  <2>. QED  BY <2>1 DEF SpentIds
<1>7. CASE (\E r \in Requester : RequestStep(r)) \/ EntryCommand \/ Tick \/ ReleaseDue \/ ReconcilePass \/ ResumeStep
  <2>1. workspace' = workspace
    BY <1>7 DEF RequestStep, ResolveQueue, InsertQueued, WriteEdit, ResolveEdit, EntryCommand, Discard, RunNow,
                Tick, ReleaseDue, ReconcilePass, ResumeStep, ResumeList, ResumeRow, ResumeResolve, ResumeDone
  <2>. QED  BY <1>2, <2>1
<1>. QED  BY <1>3, <1>4, <1>5, <1>6, <1>7 DEF Next, WorkspaceCommand

\* What a row's state, claim, group and parent become.
LEMMA RowWritten ==
    ASSUME Inv, Writes, NEW e \in Entry
    PROVE  LET old == queue[e]
               new == queue'[e]
           IN  \/ new.state = old.state /\ new.claim = old.claim /\ (new.group = old.group \/ NotLaunching(queue, e))
                  /\ (new = old \/ Pending(queue, e))
               \/ old.state = "unused" /\ new.state = "pending" /\ new.claim = Null
               \/ NotLaunching(queue, e) /\ new = NoRow("deleted") /\ queue' = Deleted(queue, e, now)
               \/ old.state = "launched" /\ new = NoRow("deleted")
                  /\ workspace' = [workspace EXCEPT ![old.claim] = "gone"]
               \/ NotLaunching(queue, e) /\ new.state = "pending" /\ new.claim \in Workspace \ SpentIds
                  /\ new.group = old.group
               \/ Pending(queue, e) /\ old.claim # Null /\ new.state = "launched" /\ new.claim = old.claim
                  /\ new.group = old.group /\ queue' = Finished(queue, e, old.claim)
               \/ Pending(queue, e) /\ old.claim # Null /\ new.state = "pending" /\ new.claim = Null
                  /\ \E error \in BOOLEAN : queue' = Failed(queue, e, old.claim, error)
<1>0. \A c \in Entry : queue[c] \in Row  BY DEF Inv, TypeOK, Queue
<1>a. \A x \in Workspace : x # Null  BY StoreAssumption
<1>1. CASE queue' = queue  BY <1>1
<1>2. CASE Inserts
  <2>1. PICK c \in Entry, p \in Parent, g \in Group :
          queue[c].state = "unused" /\ queue' = Inserted(queue, c, p, g)
    BY <1>2 DEF Inserts
  <2>2. queue'[c].state = "pending" /\ queue'[c].claim = Null /\ \A f \in Entry \ {c} : queue'[f] = queue[f]
    BY <2>1 DEF Inserted, Inv, TypeOK, Queue
  <2>. QED  BY <2>1, <2>2
<1>3. CASE Updates
  <2>1. PICK c \in Entry, p \in Parent \cup {Null}, g \in Group :
          NotLaunching(queue, c) /\ queue' = Updated(queue, c, p, g)
    BY <1>3 DEF Updates
  <2>2. /\ queue'[c].state = queue[c].state /\ queue'[c].claim = queue[c].claim
        /\ \A f \in Entry \ {c} : queue'[f] = queue[f]
    BY <2>1, <1>0 DEF Updated, Inv, TypeOK, Queue, Row
  <2>. QED  BY <2>1, <2>2 DEF NotLaunching
<1>4. CASE Deletions
  <2>1. PICK c \in Entry : NotLaunching(queue, c) /\ queue' = Deleted(queue, c, now)
    BY <1>4 DEF Deletions
  <2>2. queue'[c] = NoRow("deleted")  BY <2>1 DEF Deleted
  <2>3. ASSUME e # c
        PROVE  /\ queue'[e].state = queue[e].state /\ queue'[e].claim = queue[e].claim
               /\ queue'[e].group = queue[e].group /\ (queue'[e] = queue[e] \/ Pending(queue, e))
    <3>1. queue'[e] = IF IsChild(queue, e, c) THEN Spliced(queue[e], queue[c], now) ELSE queue[e]
      BY <2>1, <2>3 DEF Deleted
    <3>2. IsChild(queue, e, c) => Pending(queue, e)  BY DEF IsChild
    <3>. QED  BY <1>0, <3>1, <3>2 DEF Spliced, Row
  <2>. QED  BY <2>1, <2>2, <2>3
<1>5. CASE Releases
  <2>1. \/ queue'[e] = queue[e]
        \/ Pending(queue, e) /\ queue'[e] = [queue[e] EXCEPT !.released = TRUE]
        \/ Pending(queue, e) /\ queue'[e] = [queue[e] EXCEPT !.released = TRUE, !.error = FALSE]
    BY <1>5 DEF Releases, ChildrenReleased, DueReleased, Released, Inv, TypeOK, Queue, IsDue, NotLaunching
  <2>. QED  BY <1>0, <2>1 DEF Row
<1>6. CASE Cascades
  <2>1. PICK w \in Workspace : queue' = Cascaded(queue, w) /\ workspace' = [workspace EXCEPT ![w] = "gone"]
    BY <1>6 DEF Cascades
  <2>2. queue'[e] = IF queue[e].state = "launched" /\ queue[e].claim = w THEN NoRow("deleted") ELSE queue[e]
    BY <2>1 DEF Cascaded
  <2>. QED  BY <2>1, <2>2
<1>7. CASE Claims
  <2>1. PICK c \in Entry, w \in Workspace \ SpentIds : NotLaunching(queue, c) /\ queue' = Claimed(queue, c, w)
    BY <1>7 DEF Claims
  <2>2. queue'[c] = [queue[c] EXCEPT !.claim = w]  BY <2>1 DEF Claimed, ChildrenMoved
  <2>3. e # c => /\ queue'[e].state = queue[e].state /\ queue'[e].claim = queue[e].claim
                 /\ queue'[e].group = queue[e].group /\ (queue'[e] = queue[e] \/ Pending(queue, e))
    BY <1>0, <2>1 DEF Claimed, ChildrenMoved, IsChild, Row
  <2>. QED  BY <1>0, <2>1, <2>2, <2>3 DEF NotLaunching, Pending, Row
<1>8. CASE Finishes
  <2>1. PICK c \in Entry, w \in Workspace : ClaimedBy(queue, c, w) /\ queue' = Finished(queue, c, w)
    BY <1>8 DEF Finishes
  <2>2. queue'[c] = [queue[c] EXCEPT !.state = "launched"]  BY <2>1 DEF Finished, ChildrenMoved
  <2>3. e # c => /\ queue'[e].state = queue[e].state /\ queue'[e].claim = queue[e].claim
                 /\ queue'[e].group = queue[e].group /\ (queue'[e] = queue[e] \/ Pending(queue, e))
    BY <1>0, <2>1 DEF Finished, ChildrenMoved, IsChild, Row
  <2>. QED  BY <1>0, <1>a, <2>1, <2>2, <2>3 DEF ClaimedBy, Row
<1>9. CASE Fails
  <2>1. PICK c \in Entry, w \in Workspace, error \in BOOLEAN :
          ClaimedBy(queue, c, w) /\ queue' = Failed(queue, c, w, error)
    BY <1>9 DEF Fails
  <2>2. queue'[c] = [queue[c] EXCEPT !.claim = Null, !.released = FALSE, !.error = error]
    BY <2>1 DEF Failed
  <2>3. e # c => /\ queue'[e].state = queue[e].state /\ queue'[e].claim = queue[e].claim
                 /\ queue'[e].group = queue[e].group /\ (queue'[e] = queue[e] \/ Pending(queue, e))
    BY <1>0, <2>1 DEF Failed, NotLaunching, Row
  <2>4. queue'[c].state = queue[c].state /\ queue'[c].claim = Null  BY <1>0, <2>2 DEF Row
  <2>. QED  BY <1>a, <2>1, <2>3, <2>4 DEF ClaimedBy, Pending
<1>. QED  BY <1>1, <1>2, <1>3, <1>4, <1>5, <1>6, <1>7, <1>8, <1>9 DEF Writes, OtherWrite

LEMMA BlanksKept ==
    ASSUME Inv, Next, BlankUnclaimed, FreshClaims
    PROVE  BlankUnclaimed' /\ FreshClaims'
<1>1. Writes /\ SpentIds \subseteq SpentIds'  BY NextWrites, SpentGrows
<1>2. NoRow("deleted").state = "deleted" /\ NoRow("deleted").claim = Null  BY DEF NoRow
<1>3. Null \notin Existing  BY StoreAssumption, QueuedWorkspacesAssumption
<1>4. ASSUME NEW e \in Entry
      PROVE  /\ queue'[e].state \in {"unused", "deleted"} => queue'[e].claim = Null
             /\ queue'[e].claim \notin Existing
  BY <1>1, <1>2, <1>3, <1>4, RowWritten DEF BlankUnclaimed, FreshClaims
<1>. QED  BY <1>1, <1>4 DEF BlankUnclaimed, FreshClaims
-----------------------------------------------------------------------------
(***************************************************************************)
(* What no write does.                                                     *)
(***************************************************************************)
\* No child is left pointing at an entry that is discarded or launched, nor,
\* unreleased, at the workspace of a launch that came back.
LEMMA NoneLeft ==
    ASSUME NEW q \in Queue, NEW e \in Entry, Acyclic(q)
    PROVE  /\ NotLaunching(q, e) => \A t : \A c \in Entry :
                 Pending(Deleted(q, e, t), c) => Deleted(q, e, t)[c].parent.entry # e
           /\ \A w \in Workspace, c \in Entry : ClaimedBy(q, e, w) /\ Pending(Finished(q, e, w), c)
                 => Finished(q, e, w)[c].parent.entry # e
           /\ \A w \in Workspace, error \in BOOLEAN, c \in Entry :
                 ClaimedBy(q, e, w) /\ Waits(Failed(q, e, w, error), c)
                 => Failed(q, e, w, error)[c].parent.workspace # w
<1>0. /\ \A c \in Entry : q[c] \in Row /\ q[c].parent \in Parent
      /\ e # Null /\ \A w \in Workspace : w # Null
  BY StoreAssumption DEF Queue, Row
<1>1. Pending(q, e) => q[e].parent.entry # e /\ (q[e].claim \in Workspace => q[e].parent.workspace # q[e].claim)
  <2>1. Named(q, q[e].parent) \cap {e} = {}  BY DEF Acyclic
  <2>. QED  BY <1>0, <2>1 DEF Named
<1>2. ASSUME NotLaunching(q, e), NEW t, NEW c \in Entry, Pending(Deleted(q, e, t), c)
      PROVE  Deleted(q, e, t)[c].parent.entry # e
  <2>1. c # e  BY <1>2 DEF Deleted, Pending, NoRow
  <2>2. Deleted(q, e, t)[c] = IF IsChild(q, c, e) THEN Spliced(q[c], q[e], t) ELSE q[c]
    BY <2>1 DEF Deleted
  <2>3. Spliced(q[c], q[e], t).parent = q[e].parent  BY <1>0 DEF Spliced, Row
  <2>4. CASE IsChild(q, c, e)  BY <1>1, <1>2, <2>2, <2>3, <2>4 DEF NotLaunching
  <2>5. CASE ~IsChild(q, c, e)  BY <1>2, <2>2, <2>5 DEF IsChild, Pending
  <2>. QED  BY <2>4, <2>5
<1>3. ASSUME NEW w \in Workspace, NEW c \in Entry, ClaimedBy(q, e, w), Pending(Finished(q, e, w), c)
      PROVE  Finished(q, e, w)[c].parent.entry # e
  <2>. DEFINE r == Finished(q, e, w)
              moved == [q[c] EXCEPT !.parent = [q[c].parent EXCEPT !.workspace = w, !.entry = Null]]
  <2>1. r[e].state = "launched"  BY <1>0, <1>3 DEF Finished, ChildrenMoved, Row
  <2>2. c # e  BY <1>3, <2>1 DEF Pending
  <2>3. r[c] = IF IsChild(q, c, e) THEN moved ELSE q[c]
    BY <1>3, <2>2 DEF Finished, ChildrenMoved
  <2>4. moved.parent.entry = Null  BY <1>0 DEF Row, Parent
  <2>. HIDE DEF moved
  <2>5. CASE IsChild(q, c, e)  BY <1>0, <2>3, <2>4, <2>5
  <2>6. CASE ~IsChild(q, c, e)  BY <1>3, <2>3, <2>6 DEF IsChild, Pending
  <2>. QED  BY <2>5, <2>6
<1>4. ASSUME NEW w \in Workspace, NEW error \in BOOLEAN, NEW c \in Entry,
             ClaimedBy(q, e, w), Waits(Failed(q, e, w, error), c)
      PROVE  Failed(q, e, w, error)[c].parent.workspace # w
  <2>. DEFINE r == Failed(q, e, w, error)
              back == NotLaunching(q, c) /\ q[c].parent.workspace = w /\ ~q[c].released
              moved == [q[c] EXCEPT !.parent = [q[c].parent EXCEPT !.workspace = Null, !.entry = e]]
  <2>1. CASE c = e
    <3>1. r[e].parent = q[e].parent  BY <1>0, <1>4 DEF Failed, Row
    <3>. QED  BY <1>1, <1>4, <2>1, <3>1 DEF ClaimedBy
  <2>2. CASE c # e /\ back
    <3>1. r[c] = moved  BY <1>4, <2>2 DEF Failed
    <3>2. moved.parent.workspace = Null  BY <1>0 DEF Row, Parent
    <3>. QED  BY <1>0, <3>1, <3>2
  <2>3. CASE c # e /\ ~back
    <3>1. r[c] = q[c]  BY <1>4, <2>3 DEF Failed
    <3>. QED  BY <1>4, <2>3, <3>1 DEF Waits, NotLaunching, Pending
  <2>. QED  BY <2>1, <2>2, <2>3
<1>. QED  BY <1>2, <1>3, <1>4

LEMMA ChildrenStep ==
    ASSUME Inv, Next, NEW e \in Entry, NEW c \in Entry
    PROVE  /\ Pending(queue, e) /\ ~Pending(queue', e) /\ Pending(queue', c)
              => queue'[c].parent.entry # e
           /\ Pending(queue, e) /\ Pending(queue', e) /\ queue[e].claim # Null /\ queue'[e].claim = Null
              /\ Waits(queue', c)
              => queue'[c].parent.workspace # queue[e].claim
<1>1. Writes /\ queue \in Queue /\ Acyclic(queue)  BY NextWrites DEF Inv, TypeOK
<1>2. queue[e].claim # Null => queue[e].claim \in Workspace  BY <1>1 DEF Queue, Row
<1>3. NoRow("deleted").state = "deleted"  BY DEF NoRow
<1>4. ASSUME Pending(queue, e), ~Pending(queue', e), Pending(queue', c)
      PROVE  queue'[c].parent.entry # e
  <2>1. \/ NotLaunching(queue, e) /\ queue' = Deleted(queue, e, now)
        \/ queue[e].claim # Null /\ queue' = Finished(queue, e, queue[e].claim)
    BY <1>1, <1>3, <1>4, RowWritten DEF Pending
  <2>2. CASE NotLaunching(queue, e) /\ queue' = Deleted(queue, e, now)
    BY <1>1, <1>4, <2>2, NoneLeft
  <2>3. CASE queue[e].claim # Null /\ queue' = Finished(queue, e, queue[e].claim)
    <3>1. ClaimedBy(queue, e, queue[e].claim)  BY <1>4 DEF ClaimedBy
    <3>. QED  BY <1>1, <1>2, <1>4, <2>3, <3>1, NoneLeft
  <2>. QED  BY <2>1, <2>2, <2>3
<1>5. ASSUME Pending(queue, e), Pending(queue', e), queue[e].claim # Null, queue'[e].claim = Null, Waits(queue', c)
      PROVE  queue'[c].parent.workspace # queue[e].claim
  <2>1. \E error \in BOOLEAN : queue' = Failed(queue, e, queue[e].claim, error)
    BY <1>1, <1>3, <1>5, RowWritten DEF NotLaunching, Pending
  <2>2. ClaimedBy(queue, e, queue[e].claim)  BY <1>5 DEF ClaimedBy
  <2>. QED  BY <1>1, <1>2, <1>5, <2>1, <2>2, NoneLeft
<1>. QED  BY <1>4, <1>5

\* A row whose launch came back was pending.
LEMMA CameBack ==
    ASSUME Inv, BlankUnclaimed, Next, NEW e \in Entry,
           Pending(queue', e), queue[e].claim # Null, queue'[e].claim = Null
    PROVE  Pending(queue, e)
<1>1. Writes  BY NextWrites
<1>2. NoRow("deleted").state = "deleted"  BY DEF NoRow
<1>3. queue[e].state \notin {"unused", "deleted"}  BY DEF BlankUnclaimed
<1>. QED  BY <1>1, <1>2, <1>3, RowWritten DEF NotLaunching, Pending

LEMMA FrozenStep ==
    ASSUME Inv, Next, NEW e \in Entry
    PROVE  /\ queue[e].claim # Null /\ queue'[e].claim = queue[e].claim => queue'[e].group = queue[e].group
           /\ queue[e].state = "launched" => queue'[e] \in {queue[e], NoRow("deleted")}
<1>1. Writes  BY NextWrites
<1>2. NoRow("deleted").claim = Null  BY DEF NoRow
<1>3. \A w \in Workspace \ SpentIds : queue[e].claim # w
  <2>1. queue[e].claim # Null => queue[e].claim \in SpentIds  BY DEF Inv, Consistent
  <2>. QED  BY <2>1, StoreAssumption
<1>. QED  BY <1>1, <1>2, <1>3, RowWritten DEF NotLaunching, Pending

\* No write makes a row wait on a workspace that a delete holds.
LEMMA HoldStep ==
    ASSUME Inv, FreshClaims, Next, NEW w \in Existing, deleting[w] # "no", HasQueued(w)'
    PROVE  HasQueued(w)
<1>0. /\ w \in Workspace /\ w # Null /\ w \in SpentIds
      /\ \A c \in Entry : queue[c] \in Row /\ queue[c].parent \in Parent
  BY StoreAssumption, QueuedWorkspacesAssumption DEF FreshClaims, Inv, TypeOK, Queue, Row
<1>1. PICK e \in Entry : Pending(queue', e) /\ queue'[e].parent.workspace = w  BY DEF HasQueued
<1>2. Writes  BY NextWrites
<1>3. ASSUME NEW c \in Entry, Pending(queue, c), queue'[e].parent = queue[c].parent
      PROVE  HasQueued(w)
  BY <1>1, <1>3 DEF HasQueued
<1>4. CASE queue' = queue  BY <1>1, <1>3, <1>4
<1>5. CASE Inserts
  <2>1. PICK c \in Entry, p \in Parent, g \in Group :
          ~ParentHeld(p) /\ queue' = Inserted(queue, c, p, g)
    BY <1>5 DEF Inserts
  <2>2. queue'[c].parent = p /\ \A f \in Entry \ {c} : queue'[f] = queue[f]
    BY <2>1 DEF Inserted, Inv, TypeOK, Queue
  <2>3. e # c  BY <1>0, <1>1, <2>1, <2>2 DEF ParentHeld
  <2>. QED  BY <1>1, <1>3, <2>2, <2>3 DEF Pending
<1>6. CASE Updates
  <2>1. PICK c \in Entry, p \in Parent \cup {Null}, g \in Group :
          NotLaunching(queue, c) /\ (p # Null => ~ParentHeld(p)) /\ queue' = Updated(queue, c, p, g)
    BY <1>6 DEF Updates
  <2>2. /\ queue'[c].parent = (IF p = Null THEN queue[c].parent ELSE p)
        /\ \A f \in Entry \ {c} : queue'[f] = queue[f]
    BY <1>0, <2>1 DEF Updated, Inv, TypeOK, Queue, Row
  <2>3. e = c => p = Null  BY <1>0, <1>1, <2>1, <2>2 DEF ParentHeld
  <2>. QED  BY <1>1, <1>3, <2>1, <2>2, <2>3 DEF NotLaunching, Pending
<1>7. CASE Deletions
  <2>1. PICK c \in Entry : NotLaunching(queue, c) /\ queue' = Deleted(queue, c, now)
    BY <1>7 DEF Deletions
  <2>2. e # c  BY <1>1, <2>1 DEF Deleted, Pending, NoRow
  <2>3. queue'[e] = IF IsChild(queue, e, c) THEN Spliced(queue[e], queue[c], now) ELSE queue[e]
    BY <2>1, <2>2 DEF Deleted
  <2>4. CASE IsChild(queue, e, c)
    <3>1. queue'[e].parent = queue[c].parent  BY <1>0, <2>3, <2>4 DEF Spliced, Row
    <3>. QED  BY <1>3, <2>1, <3>1 DEF NotLaunching
  <2>5. CASE ~IsChild(queue, e, c)  BY <1>1, <1>3, <2>3, <2>5 DEF Pending
  <2>. QED  BY <2>4, <2>5
<1>8. CASE Releases
  <2>1. \/ queue'[e] = queue[e]
        \/ queue'[e] = [queue[e] EXCEPT !.released = TRUE]
        \/ queue'[e] = [queue[e] EXCEPT !.released = TRUE, !.error = FALSE]
    BY <1>8 DEF Releases, ChildrenReleased, DueReleased, Released, Inv, TypeOK, Queue
  <2>2. queue'[e].parent = queue[e].parent /\ queue'[e].state = queue[e].state  BY <1>0, <2>1 DEF Row
  <2>. QED  BY <1>1, <1>3, <2>2 DEF Pending
<1>9. CASE Cascades
  <2>1. PICK x \in Workspace : queue' = Cascaded(queue, x)  BY <1>9 DEF Cascades
  <2>2. queue'[e] = IF queue[e].state = "launched" /\ queue[e].claim = x THEN NoRow("deleted") ELSE queue[e]
    BY <2>1 DEF Cascaded
  <2>3. queue'[e] = queue[e]  BY <1>1, <2>2 DEF Pending, NoRow
  <2>. QED  BY <1>1, <1>3, <2>3 DEF Pending
<1>10. ASSUME NEW c \in Entry, NEW x \in Workspace, x # w, NEW row,
              queue' = ChildrenMoved(queue, c, row, x), row.parent = queue[c].parent, Pending(queue, c)
       PROVE  HasQueued(w)
  <2>. DEFINE moved == [queue[e] EXCEPT !.parent = [queue[e].parent EXCEPT !.workspace = x, !.entry = Null]]
  <2>1. CASE e = c
    <3>1. queue'[e] = row  BY <1>10, <2>1 DEF ChildrenMoved
    <3>. QED  BY <1>3, <1>10, <2>1, <3>1
  <2>2. CASE e # c /\ IsChild(queue, e, c)
    <3>1. queue'[e] = moved  BY <1>10, <2>2 DEF ChildrenMoved
    <3>2. moved.parent.workspace = x  BY <1>0 DEF Row, Parent
    <3>. QED  BY <1>1, <1>10, <3>1, <3>2
  <2>3. CASE e # c /\ ~IsChild(queue, e, c)
    <3>1. queue'[e] = queue[e]  BY <1>10, <2>3 DEF ChildrenMoved
    <3>. QED  BY <1>1, <1>3, <3>1 DEF Pending
  <2>. QED  BY <2>1, <2>2, <2>3
<1>11. CASE Claims
  <2>1. PICK c \in Entry, x \in Workspace \ SpentIds : NotLaunching(queue, c) /\ queue' = Claimed(queue, c, x)
    BY <1>11 DEF Claims
  <2>2. [queue[c] EXCEPT !.claim = x].parent = queue[c].parent  BY <1>0 DEF Row
  <2>. QED  BY <1>0, <1>10, <2>1, <2>2 DEF Claimed, NotLaunching
<1>12. CASE Finishes
  <2>1. PICK c \in Entry, x \in Workspace : ClaimedBy(queue, c, x) /\ queue' = Finished(queue, c, x)
    BY <1>12 DEF Finishes
  <2>2. [queue[c] EXCEPT !.state = "launched"].parent = queue[c].parent  BY <1>0 DEF Row
  <2>3. x # w  BY <2>1 DEF ClaimedBy, FreshClaims
  <2>. QED  BY <1>10, <2>1, <2>2, <2>3 DEF Finished, ClaimedBy
<1>13. CASE Fails
  <2>1. PICK c \in Entry, x \in Workspace, error \in BOOLEAN :
          ClaimedBy(queue, c, x) /\ queue' = Failed(queue, c, x, error)
    BY <1>13 DEF Fails
  <2>. DEFINE moved == [queue[e] EXCEPT !.parent = [queue[e].parent EXCEPT !.workspace = Null, !.entry = c]]
  <2>2. CASE e = c
    <3>1. queue'[e].parent = queue[e].parent  BY <1>0, <2>1, <2>2 DEF Failed, Row
    <3>. QED  BY <1>3, <2>1, <2>2, <3>1 DEF ClaimedBy
  <2>3. CASE e # c /\ queue'[e] = moved
    <3>1. moved.parent.workspace = Null  BY <1>0 DEF Row, Parent
    <3>. QED  BY <1>0, <1>1, <2>3, <3>1
  <2>4. CASE e # c /\ queue'[e] # moved
    <3>1. queue'[e] = queue[e]  BY <2>1, <2>4 DEF Failed
    <3>. QED  BY <1>1, <1>3, <3>1 DEF Pending
  <2>. QED  BY <2>2, <2>3, <2>4
<1>. QED
  BY <1>2, <1>4, <1>5, <1>6, <1>7, <1>8, <1>9, <1>11, <1>12, <1>13 DEF Writes, OtherWrite
-----------------------------------------------------------------------------
(***************************************************************************)
(* The claims are kept. Only a crash makes an orphan; every other step may *)
(* settle some, and moves their workspaces only as commands do.            *)
(***************************************************************************)
Moved(w) ==
    \/ workspace'[w] = workspace[w]
    \/ workspace[w] \in {"running", "stopped"} /\ workspace'[w] \in {"running", "stopped"}
    \/ Deletes /\ workspace'[w] = "gone"

LEMMA OrphansShrink ==
    ASSUME Inv, HeldInv, TypeOK', SpentIds \subseteq SpentIds', UNCHANGED <<crashes, boot>>,
           \A e \in Entry, w \in Workspace : Orphan(e, w)' => Orphan(e, w) /\ Moved(w),
           \A l \in launches' : \/ l.workspace \notin SpentIds
                                \/ \E m \in launches : m.entry = l.entry /\ m.workspace = l.workspace,
           \A e \in launching' : e \in launching \/ Clean(e),
           \A p \in Launcher : launcher'[p] = launcher[p] \/ Listed(launcher'[p]),
           \A w \in Workspace : deleting'[w] # "no" => deleting[w] # "no" \/ Deletes
    PROVE  HeldAreClean' /\ DeletesAsked' /\ OrphansSettled' /\ ResumeKnows' /\ OrphansResumed'
<1>1. \A e \in Entry : Clean(e) => Clean(e)'  BY DEF Clean
<1>2. \A p \in Launcher : launcher'[p].stage # "idle" => launcher'[p].entry \in Entry
  BY DEF TypeOK, Idle, Reading, Claiming
<1>3. HeldAreClean'
  <2>1. \A p \in Launcher : Listed(launcher'[p])  BY DEF HeldInv, HeldAreClean
  <2>2. launching' \subseteq Entry  BY DEF TypeOK
  <2>. QED  BY <1>1, <1>2, <2>1, <2>2 DEF HeldInv, HeldAreClean, Listed
<1>4. DeletesAsked'  BY DEF HeldInv, DeletesAsked, Deletes
<1>5. OrphansSettled'  BY DEF HeldInv, OrphansSettled, Moved
<1>6. \A w \in Workspace : Removed(w) /\ Moved(w) => Removed(w)'  BY DEF Removed, Moved, Deletes
<1>7. OrphansResumed'
  BY <1>6 DEF HeldInv, OrphansResumed, OrphansSettled, Moved, Removed, Deletes
<1>8. ResumeKnows'
  <2>1. ASSUME boot.stage = "resolve"
        PROVE  boot.entry \in Entry /\ boot.todo[boot.entry] # Null
    BY <2>1, Stages DEF Settling, Inv, ResumesClaimed
  <2>2. ASSUME boot.stage = "resolve", NEW l \in launches'
        PROVE  ~(l.entry = boot.entry /\ l.workspace = boot.todo[boot.entry].claim)
    BY <2>1, <2>2 DEF HeldInv, ResumeKnows
  <2>3. ASSUME boot.stage = "resolve", boot.verdict = "finish", NEW w \in Workspace, Orphan(boot.entry, w)'
        PROVE  workspace'[w] \in {"running", "stopped"} \/ Removed(w)'
    BY <1>6, <2>1, <2>3 DEF HeldInv, ResumeKnows, Moved, Removed, Deletes
  <2>. QED  BY <2>2, <2>3 DEF HeldInv, ResumeKnows
<1>. QED  BY <1>3, <1>4, <1>5, <1>7, <1>8

\* Steps that start and end no launch.
LEMMA HoldersKept ==
    ASSUME Inv, HeldInv, UNCHANGED <<launches, launching>>, SameClaims(queue, queue'),
           \A p \in Launcher : launcher'[p] = launcher[p] \/ launcher'[p].stage # "claim",
           \A w \in SpentIds : Moved(w)
    PROVE  /\ OneHolder' /\ LaunchHoldsClaim' /\ LaunchesEnd'
           /\ \A e \in Entry, w \in Workspace : Orphan(e, w)' => Orphan(e, w) /\ Moved(w)
<1>1. \A l \in launches : l.entry \in Entry /\ l.workspace \in Workspace /\ l.workspace \in SpentIds
  BY DEF Inv, TypeOK, Launch, LaunchesSpent
<1>2. OneHolder'  BY DEF HeldInv, OneHolder
<1>3. LaunchHoldsClaim'  BY <1>1 DEF HeldInv, LaunchHoldsClaim, SameClaims
<1>4. LaunchesEnd'  BY <1>1 DEF HeldInv, LaunchesEnd, SameClaims, Moved
<1>5. ASSUME NEW e \in Entry, NEW w \in Workspace, Orphan(e, w)'
      PROVE  Orphan(e, w) /\ Moved(w)
  <2>1. Orphan(e, w)  BY <1>5 DEF Orphan, SameClaims
  <2>2. w \in SpentIds  BY <2>1 DEF HeldInv, OrphansSettled, SpentIds
  <2>. QED  BY <2>1, <2>2
<1>. QED  BY <1>2, <1>3, <1>4, <1>5

\* The loop of a pass goes on with rows it listed.
LEMMA NextRowListed ==
    ASSUME NEW todo \in Rows, NEW full \in SUBSET (Group \cup {Null}), NEW busy,
           \A x \in Entry : todo[x] # Null => Clean(x)
    PROVE  Listed(NextRow(todo, full, busy)) /\ NextRow(todo, full, busy).stage # "claim"
<1>. DEFINE ready == [e \in Entry |-> IF todo[e] # Null /\ e \notin busy /\ todo[e].group \notin full
                                      THEN todo[e] ELSE Null]
            e == Oldest(ready)
            rest == [x \in Entry |-> IF x <= e THEN Null ELSE todo[x]]
<1>1. CASE ready = NoRows
  BY <1>1 DEF NextRow, Idle, Listed
<1>2. CASE ready # NoRows
  <2>1. ready \in Rows  BY DEF Rows
  <2>2. e \in Entry /\ ready[e] # Null  BY <1>2, <2>1, OldestTyped
  <2>3. NextRow(todo, full, busy) =
          [stage |-> "room", todo |-> rest, full |-> full, entry |-> e, row |-> todo[e], workspace |-> Null]
    BY <1>2 DEF NextRow
  <2>4. Clean(e)  BY <2>2
  <2>5. \A x \in Entry : rest[x] # Null => Clean(x)  OBVIOUS
  <2>. HIDE DEF e, rest
  <2>. QED  BY <2>3, <2>4, <2>5 DEF Listed
<1>. QED  BY <1>1, <1>2

LEMMA QuietHeld ==
    ASSUME Inv, HeldInv, Next, OtherWrite, UNCHANGED <<launching, launches, crashes, boot>>,
           \A p \in Launcher : \/ launcher'[p] = launcher[p]
                               \/ launcher'[p].stage # "claim" /\ Listed(launcher'[p]),
           \A w \in SpentIds : Moved(w),
           \A w \in Workspace : deleting'[w] # "no" => deleting[w] # "no" \/ Deletes
    PROVE  HeldInv'
<1>1. TypeOK /\ TypeOK'  BY NextInv DEF Inv
<1>2. BlankUnclaimed' /\ FreshClaims'  BY BlanksKept DEF HeldInv
<1>3. SameClaims(queue, queue')  BY <1>1, OtherWriteKeepsClaims
<1>4. \A e \in Entry, w \in Workspace : Orphan(e, w)' => Orphan(e, w) /\ Moved(w)
  BY <1>3, HoldersKept
<1>5. OneHolder' /\ LaunchHoldsClaim' /\ LaunchesEnd'  BY <1>3, HoldersKept
<1>6. /\ \A l \in launches' : \E m \in launches : m.entry = l.entry /\ m.workspace = l.workspace
      /\ \A e \in launching' : e \in launching
  OBVIOUS
<1>7. SpentIds \subseteq SpentIds'  BY SpentGrows
<1>8. HeldAreClean' /\ DeletesAsked' /\ OrphansSettled' /\ ResumeKnows' /\ OrphansResumed'
  BY <1>1, <1>4, <1>6, <1>7, OrphansShrink
<1>. QED  BY <1>2, <1>5, <1>8 DEF HeldInv

LEMMA UnclaimedIsClean == \A e \in Entry : queue[e].claim = Null => Clean(e)
<1>1. \A w \in Workspace : w # Null  BY StoreAssumption
<1>. QED  BY <1>1 DEF Clean, Orphan, ClaimedBy

\* A pass, up to the slot it takes.
LEMMA ListingHeld ==
    ASSUME Inv, HeldInv, NEW p \in Launcher, ListWaiting(p) \/ LoseRow(p) \/ FindFull(p)
    PROVE  HeldInv'
<1>1. TypeOK  BY DEF Inv
<1>2. Next  BY DEF Next, LauncherStep
<1>3. UNCHANGED <<queue, workspace, launching, launches, deleting, boot, crashes>>
  BY DEF ListWaiting, LoseRow, FindFull
<1>4. PICK todo \in Rows, full \in SUBSET (Group \cup {Null}) :
        /\ \A x \in Entry : todo[x] # Null => Clean(x)
        /\ launcher' = [launcher EXCEPT ![p] = NextRow(todo, full, launching)]
  <2>1. CASE ListWaiting(p)
    <3>. DEFINE todo == [e \in Entry |-> IF WaitsForRoom(queue[e]) THEN queue[e] ELSE Null]
    <3>1. todo \in Rows  BY <1>1 DEF TypeOK, Queue, Rows
    <3>2. \A x \in Entry : todo[x] # Null => Clean(x)  BY UnclaimedIsClean DEF WaitsForRoom
    <3>3. launcher' = [launcher EXCEPT ![p] = NextRow(todo, {}, launching)]  BY <2>1 DEF ListWaiting
    <3>. HIDE DEF todo
    <3>. QED  BY <3>1, <3>2, <3>3
  <2>2. CASE LoseRow(p) \/ FindFull(p)
    <3>1. launcher[p].stage = "room"  BY <2>2 DEF LoseRow, FindFull
    <3>2. launcher[p] \in Reading  BY <1>1, <3>1, Stages
    <3>3. /\ launcher[p].todo \in Rows /\ launcher[p].full \in SUBSET (Group \cup {Null})
          /\ launcher[p].full \cup {launcher[p].row.group} \in SUBSET (Group \cup {Null})
      BY <3>2 DEF Reading, Row
    <3>4. \A x \in Entry : launcher[p].todo[x] # Null => Clean(x)
      BY <3>1 DEF HeldInv, HeldAreClean, Listed
    <3>. QED  BY <2>2, <3>3, <3>4 DEF LoseRow, FindFull
  <2>. QED  BY <2>1, <2>2
<1>5. Listed(NextRow(todo, full, launching)) /\ NextRow(todo, full, launching).stage # "claim"
  BY <1>4, NextRowListed
<1>6. \A o \in Launcher : \/ launcher'[o] = launcher[o]
                          \/ launcher'[o].stage # "claim" /\ Listed(launcher'[o])
  BY <1>1, <1>4, <1>5 DEF TypeOK
<1>7. OtherWrite /\ \A w \in SpentIds : Moved(w)  BY <1>3 DEF OtherWrite, Moved
<1>. QED  BY <1>2, <1>3, <1>6, <1>7, QuietHeld

LEMMA RequestHeld ==
    ASSUME Inv, HeldInv, NEW r \in Requester, RequestStep(r)
    PROVE  HeldInv'
<1>1. UNCHANGED <<workspace, launching, launches, launcher, deleting, boot, crashes>>
  BY DEF RequestStep, ResolveQueue, InsertQueued, WriteEdit, ResolveEdit
<1>2. Next /\ OtherWrite  BY RequestWrites DEF Next
<1>3. \A w \in SpentIds : Moved(w)  BY <1>1 DEF Moved
<1>. QED  BY <1>1, <1>2, <1>3, QuietHeld

LEMMA EntryCommandHeld == Inv /\ HeldInv /\ EntryCommand => HeldInv'
<1>. SUFFICES ASSUME Inv, HeldInv, EntryCommand PROVE HeldInv'  OBVIOUS
<1>1. TypeOK  BY DEF Inv
<1>2. Next /\ OtherWrite  BY CommandWrites DEF Next
<1>3. UNCHANGED <<workspace, launching, launches, deleting, boot, crashes>>
  BY DEF EntryCommand, Discard, RunNow
<1>4. \A o \in Launcher : \/ launcher'[o] = launcher[o]
                          \/ launcher'[o].stage # "claim" /\ Listed(launcher'[o])
  <2>1. CASE \E e \in Entry : Discard(e)  BY <2>1 DEF Discard
  <2>2. ASSUME NEW e \in Entry, NEW p \in Launcher, RunNow(e, p)
        PROVE  \A o \in Launcher : \/ launcher'[o] = launcher[o]
                                   \/ launcher'[o].stage # "claim" /\ Listed(launcher'[o])
    <3>. DEFINE todo == [NoRows EXCEPT ![e] = queue'[e]]
    <3>1. queue'[e] \in Row  BY <1>1, EntryCommandTyped DEF TypeOK, Queue
    <3>2. todo \in Rows  BY <3>1 DEF NoRows, Rows
    <3>3. \A x \in Entry : todo[x] # Null => Clean(x)
      BY <2>2, UnclaimedIsClean DEF RunNow, NotLaunching, NoRows
    <3>4. launcher' = [launcher EXCEPT ![p] = NextRow(todo, {}, launching)]  BY <2>2 DEF RunNow
    <3>. HIDE DEF todo
    <3>5. Listed(NextRow(todo, {}, launching)) /\ NextRow(todo, {}, launching).stage # "claim"
      BY <3>2, <3>3, NextRowListed
    <3>. QED  BY <1>1, <3>4, <3>5 DEF TypeOK
  <2>. QED  BY <2>1, <2>2 DEF EntryCommand
<1>5. \A w \in SpentIds : Moved(w)  BY <1>3 DEF Moved
<1>. QED  BY <1>2, <1>3, <1>4, <1>5, QuietHeld

\* Stops, deaths, restarts and deletes, and the clock.
LEMMA CommandHeld ==
    ASSUME Inv, HeldInv,
           \/ \E w \in Workspace : StopStep(w)
           \/ WorkspaceCommand \/ Tick \/ ReleaseDue \/ ReconcilePass
    PROVE  HeldInv'
<1>1. TypeOK  BY DEF Inv
<1>2. Next /\ OtherWrite  BY CommandWrites DEF Next
<1>3. UNCHANGED <<launching, launches, launcher, boot, crashes>>
  BY DEF StopStep, RecordStop, ReleaseChildren, WorkspaceCommand, AskStop, Die, Restart, memory,
         HoldForDelete, CheckDelete, DeleteWorkspace, Tick, ReleaseDue, ReconcilePass
<1>4. \A x \in SpentIds : Moved(x)
  <2>1. \/ workspace' = workspace
        \/ \E w \in Workspace, s \in {"running", "stopped"} :
              workspace[w] \in {"running", "stopped"} /\ workspace' = [workspace EXCEPT ![w] = s]
        \/ \E w \in Workspace : deleting[w] # "no" /\ workspace' = [workspace EXCEPT ![w] = "gone"]
    BY DEF StopStep, RecordStop, ReleaseChildren, WorkspaceCommand, AskStop, Die, Restart,
           HoldForDelete, CheckDelete, DeleteWorkspace, Tick, ReleaseDue, ReconcilePass
  <2>. QED  BY <1>1, <2>1 DEF Moved, SpentIds, TypeOK, HeldInv, DeletesAsked
<1>5. \A w \in Workspace : deleting'[w] # "no" => deleting[w] # "no" \/ Deletes
  <2>1. \/ UNCHANGED deleting
        \/ \E w \in Workspace : deleting' = [deleting EXCEPT ![w] = "held"] /\ Deletes
        \/ \E w \in Workspace, s \in {"checked", "no"} :
              deleting' = [deleting EXCEPT ![w] = s] /\ deleting[w] # "no"
    BY DEF StopStep, RecordStop, ReleaseChildren, WorkspaceCommand, AskStop, Die, Restart, memory,
           HoldForDelete, CheckDelete, DeleteWorkspace, Tick, ReleaseDue, ReconcilePass, Deletes
  <2>. QED  BY <1>1, <2>1 DEF TypeOK
<1>. QED  BY <1>2, <1>3, <1>4, <1>5, QuietHeld

\* The synchronous half of a launch: the entry was not launching, so nothing
\* else holds it.
LEMMA SlotHeld ==
    ASSUME Inv, HeldInv, NEW p \in Launcher, TakeSlot(p)
    PROVE  HeldInv'
<1>0. PICK w \in Workspace :
        /\ workspace[w] = "unused"
        /\ workspace' = [workspace EXCEPT ![w] = "drawn"]
        /\ launcher' = [launcher EXCEPT ![p] = [launcher[p] EXCEPT !.stage = "claim", !.workspace = w]]
  BY Zenon DEF TakeSlot
<1>. DEFINE e == launcher[p].entry
<1>1. TypeOK /\ Next  BY DEF Inv, Next, LauncherStep
<1>2. TypeOK'  BY <1>1, NextTyped
<1>3. BlankUnclaimed' /\ FreshClaims'  BY <1>1, BlanksKept DEF HeldInv
<1>4. UNCHANGED <<queue, launches, deleting, boot, crashes>>  BY DEF TakeSlot
<1>5. launcher[p] \in Reading  BY <1>1, Stages DEF TakeSlot
<1>6. e \in Entry /\ e \notin launching  BY <1>5 DEF TakeSlot, Reading
<1>7. launching' = launching \cup {e}  BY DEF TakeSlot
<1>9. /\ launcher'[p].stage = "claim" /\ launcher'[p].entry = e /\ launcher'[p].todo = launcher[p].todo
      /\ \A o \in Launcher \ {p} : launcher'[o] = launcher[o]
  BY <1>1, <1>5, <1>0 DEF TypeOK, Reading
<1>10. Clean(e) /\ Listed(launcher'[p])
  BY <1>9 DEF HeldInv, HeldAreClean, Listed, TakeSlot
<1>. HIDE DEF e
<1>11. \A x \in Entry, y \in Workspace : Orphan(x, y)' => Orphan(x, y) /\ Moved(y)
  <2>1. ASSUME NEW x \in Entry, NEW y \in Workspace, Orphan(x, y)  PROVE Moved(y)
    <3>1. y # w  BY <1>0, <2>1 DEF HeldInv, OrphansSettled
    <3>. QED  BY <1>1, <1>0, <3>1 DEF Moved, TypeOK
  <2>. QED  BY <1>4, <2>1 DEF Orphan
<1>12. OneHolder'
  BY <1>4, <1>6, <1>7, <1>9 DEF HeldInv, OneHolder
<1>13. LaunchHoldsClaim'  BY <1>4, <1>7 DEF HeldInv, LaunchHoldsClaim
<1>14. LaunchesEnd'
  <2>1. \A l \in launches : l.workspace \in Workspace /\ l.workspace \in SpentIds
    BY <1>1 DEF TypeOK, Launch, Inv, LaunchesSpent
  <2>2. \A l \in launches : workspace'[l.workspace] = workspace[l.workspace]
    BY <1>1, <1>0, <2>1 DEF SpentIds, TypeOK
  <2>. QED  BY <1>4, <2>2 DEF HeldInv, LaunchesEnd
<1>15. HeldAreClean' /\ DeletesAsked' /\ OrphansSettled' /\ ResumeKnows' /\ OrphansResumed'
  <2>1. \A x \in launching' : x \in launching \/ Clean(x)  BY <1>7, <1>10
  <2>2. \A o \in Launcher : launcher'[o] = launcher[o] \/ Listed(launcher'[o])  BY <1>9, <1>10
  <2>3. \A l \in launches' : \E m \in launches : m.entry = l.entry /\ m.workspace = l.workspace
    BY <1>4
  <2>. QED  BY <1>1, <1>2, <1>4, <1>11, <2>1, <2>2, <2>3, SpentGrows, OrphansShrink
<1>. QED  BY <1>3, <1>12, <1>13, <1>14, <1>15 DEF HeldInv

\* The claim. The entry was no orphan, so a claim refused means that the
\* entry is gone, and one written is the new launch's.
LEMMA ClaimHeld ==
    ASSUME Inv, HeldInv, NEW p \in Launcher, ClaimLaunch(p)
    PROVE  HeldInv'
<1>. DEFINE e == launcher[p].entry
            w == launcher[p].workspace
            next == NextRow(launcher[p].todo, launcher[p].full, launching')
            new == [entry |-> e, workspace |-> w, row |-> launcher[p].row, stage |-> "provisioning"]
<1>1. TypeOK /\ Next  BY DEF Inv, Next, LauncherStep
<1>2. TypeOK'  BY <1>1, NextTyped
<1>3. BlankUnclaimed' /\ FreshClaims'  BY <1>1, BlanksKept DEF HeldInv
<1>4. UNCHANGED <<deleting, boot, crashes>>  BY DEF ClaimLaunch
<1>5. launcher[p] \in Claiming /\ launcher[p].stage = "claim"  BY <1>1, Stages DEF ClaimLaunch
<1>6. e \in Entry /\ w \in Workspace /\ workspace[w] = "drawn" /\ w \notin SpentIds
  BY <1>5 DEF Claiming, Inv, DrawnHeld, SpentIds
<1>7. Listed(next) /\ next.stage # "claim"
  <2>1. /\ launcher[p].todo \in Rows /\ launcher[p].full \in SUBSET (Group \cup {Null})
        /\ \A x \in Entry : launcher[p].todo[x] # Null => Clean(x)
    BY <1>5 DEF Claiming, HeldInv, HeldAreClean, Listed
  <2>. QED  BY <2>1, NextRowListed
<1>8. launcher' = [launcher EXCEPT ![p] = next]  BY DEF ClaimLaunch
<1>. HIDE DEF next
<1>9. launcher'[p] = next /\ \A o \in Launcher \ {p} : launcher'[o] = launcher[o]
  BY <1>1, <1>8 DEF TypeOK
<1>10. /\ e \in launching /\ \A l \in launches : l.entry # e
       /\ \A o \in Launcher \ {p} : launcher[o].stage = "claim" => launcher[o].entry # e
  BY <1>5 DEF HeldInv, OneHolder
<1>11. \A l \in launches : /\ l.entry \in Entry /\ l.workspace \in Workspace
                           /\ l.workspace # w /\ l.workspace \in SpentIds
  BY <1>1, <1>6 DEF TypeOK, Launch, Inv, LaunchesSpent
<1>12. \A x \in Workspace \ {w} : workspace'[x] = workspace[x]
  BY <1>1, <1>6 DEF ClaimLaunch, TypeOK
<1>13. \A x \in Entry, y \in Workspace : Orphan(x, y) => y # w /\ Moved(y)
  <2>1. \A x \in Entry, y \in Workspace : Orphan(x, y) => y # w
    BY <1>6 DEF HeldInv, OrphansSettled
  <2>. QED  BY <1>12, <2>1 DEF Moved
<1>14. \A o \in Launcher : launcher'[o] = launcher[o] \/ Listed(launcher'[o])  BY <1>7, <1>9
<1>15. CASE NotLaunching(queue, e)
  <2>1. /\ queue' = Claimed(queue, e, w) /\ launches' = launches \cup {new}
        /\ launching' = launching
    BY <1>15 DEF ClaimLaunch
  <2>2. /\ new.entry = e /\ new.workspace = w /\ new.stage = "provisioning"
    OBVIOUS
  <2>3. \A f \in Entry, x \in Workspace :
            ClaimedBy(queue', f, x) <=> (f = e /\ x = w) \/ ClaimedBy(queue, f, x)
    BY <1>1, <1>6, <1>15, <2>1, ClaimWrites DEF TypeOK
  <2>. HIDE DEF new, e, w
  <2>4. OneHolder'
    BY <1>7, <1>9, <1>10, <2>1, <2>2 DEF HeldInv, OneHolder
  <2>5. LaunchHoldsClaim'
    BY <1>6, <1>10, <1>11, <2>1, <2>2, <2>3 DEF HeldInv, LaunchHoldsClaim
  <2>6. LaunchesEnd'
    BY <1>11, <1>12, <2>1, <2>2, <2>3 DEF HeldInv, LaunchesEnd
  <2>7. \A x \in Entry, y \in Workspace : Orphan(x, y)' => Orphan(x, y) /\ Moved(y)
    <3>1. ASSUME NEW x \in Entry, NEW y \in Workspace, Orphan(x, y)'  PROVE Orphan(x, y)
      <4>1. ~(x = e /\ y = w)  BY <2>1, <2>2, <3>1 DEF Orphan
      <4>. QED  BY <2>1, <2>3, <3>1, <4>1 DEF Orphan
    <3>. QED  BY <1>13, <3>1
  <2>8. \A l \in launches' : \/ l.workspace \notin SpentIds
                             \/ \E m \in launches : m.entry = l.entry /\ m.workspace = l.workspace
    BY <1>6, <2>1, <2>2
  <2>9. HeldAreClean' /\ DeletesAsked' /\ OrphansSettled' /\ ResumeKnows' /\ OrphansResumed'
    BY <1>1, <1>2, <1>4, <1>14, <2>1, <2>7, <2>8, SpentGrows, OrphansShrink
  <2>. QED  BY <1>3, <2>4, <2>5, <2>6, <2>9 DEF HeldInv
<1>16. CASE ~NotLaunching(queue, e)
  <2>1. queue' = queue /\ launches' = launches /\ launching' = launching \ {e}
    BY <1>16 DEF ClaimLaunch
  <2>. HIDE DEF new, e, w
  <2>2. OneHolder'
    BY <1>7, <1>9, <1>10, <2>1 DEF HeldInv, OneHolder
  <2>3. LaunchHoldsClaim'
    BY <1>10, <2>1 DEF HeldInv, LaunchHoldsClaim
  <2>4. LaunchesEnd'
    BY <1>11, <1>12, <2>1 DEF HeldInv, LaunchesEnd
  <2>5. \A x \in Entry, y \in Workspace : Orphan(x, y)' => Orphan(x, y) /\ Moved(y)
    BY <1>13, <2>1 DEF Orphan
  <2>6. /\ \A l \in launches' : \E m \in launches : m.entry = l.entry /\ m.workspace = l.workspace
        /\ \A x \in launching' : x \in launching
    BY <2>1
  <2>7. HeldAreClean' /\ DeletesAsked' /\ OrphansSettled' /\ ResumeKnows' /\ OrphansResumed'
    BY <1>1, <1>2, <1>4, <1>14, <2>5, <2>6, SpentGrows, OrphansShrink
  <2>. QED  BY <1>3, <2>2, <2>3, <2>4, <2>7 DEF HeldInv
<1>. QED  BY <1>15, <1>16

\* The detached half of a launch: no other launch has its entry or, while it
\* is provisioning, its workspace, so its step is about no other.
LEMMA LaunchHeld ==
    ASSUME Inv, HeldInv, NEW l \in launches, LaunchStep(l)
    PROVE  HeldInv'
<1>. DEFINE e == l.entry
            w == l.workspace
<1>1. TypeOK /\ Next  BY DEF Inv, Next
<1>2. TypeOK'  BY <1>1, NextTyped
<1>3. BlankUnclaimed' /\ FreshClaims'  BY <1>1, BlanksKept DEF HeldInv
<1>4. UNCHANGED <<launcher, deleting, boot, crashes>>
  BY DEF LaunchStep, LaunchRuns, LaunchFails, LaunchStopped, RecordFinish, RecordFailure, SettleLaunch
<1>5. \A m \in launches : m \in Launch /\ m.entry \in Entry /\ m.workspace \in Workspace
  BY <1>1 DEF TypeOK, Launch
<1>6. queue \in Queue /\ e \in Entry /\ w \in Workspace  BY <1>1, <1>5 DEF TypeOK
<1>7. LaunchError(l) \in BOOLEAN  BY DEF LaunchError
<1>8. \A m \in launches : m # l => m.entry # e  BY DEF HeldInv, OneHolder
<1>9. \A p \in Launcher : launcher[p].stage = "claim" => launcher[p].entry # e  BY DEF HeldInv, OneHolder
<1>10. \A f \in Entry, x \in Workspace :
          /\ ClaimedBy(queue', f, x) => ClaimedBy(queue, f, x)
          /\ ClaimedBy(queue, f, x) /\ f # e => ClaimedBy(queue', f, x)
  <2>1. \/ queue' = queue
        \/ queue' = Finished(queue, e, w)
        \/ queue' = Failed(queue, e, w, LaunchError(l))
    BY DEF LaunchStep, LaunchRuns, LaunchFails, LaunchStopped, RecordFinish, RecordFailure, SettleLaunch
  <2>. HIDE DEF e, w
  <2>. QED  BY <1>6, <2>1, ClaimWrites
<1>11. CASE SettleLaunch(l)
  <2>1. /\ l.stage \in {"recorded", "returned"} /\ launches' = launches \ {l}
        /\ launching' = launching \ {e} /\ queue' = queue /\ workspace' = workspace
    BY <1>11 DEF SettleLaunch
  <2>2. ~ClaimedBy(queue, e, w)  BY <2>1 DEF HeldInv, LaunchesEnd
  <2>3. OneHolder'  BY <1>4, <1>8, <1>9, <2>1 DEF HeldInv, OneHolder
  <2>4. LaunchHoldsClaim'  BY <1>8, <2>1 DEF HeldInv, LaunchHoldsClaim
  <2>5. LaunchesEnd'  BY <2>1 DEF HeldInv, LaunchesEnd
  <2>6. \A x \in Entry, y \in Workspace : Orphan(x, y)' => Orphan(x, y) /\ Moved(y)
    BY <2>1, <2>2 DEF Orphan, Moved
  <2>7. /\ \A k \in launches' : \E m \in launches : m.entry = k.entry /\ m.workspace = k.workspace
        /\ \A x \in launching' : x \in launching
    BY <2>1
  <2>8. HeldAreClean' /\ DeletesAsked' /\ OrphansSettled' /\ ResumeKnows' /\ OrphansResumed'
    BY <1>1, <1>2, <1>4, <2>6, <2>7, SpentGrows, OrphansShrink
  <2>. QED  BY <1>3, <2>3, <2>4, <2>5, <2>8 DEF HeldInv
<1>12. CASE ~SettleLaunch(l)
  <2>1. PICK s \in {"ran", "failed", "stopped", "recorded", "returned"} :
          /\ Advance(l, s) /\ launching' = launching
          /\ \/ /\ s \in {"ran", "failed", "stopped"} /\ queue' = queue
                /\ l.stage \in {"provisioning", "ran"}
                /\ \/ workspace' = workspace
                   \/ l.stage = "provisioning"
                      /\ \E t \in {"running", "gone"} : workspace' = [workspace EXCEPT ![w] = t]
                /\ s # "ran" => workspace'[w] = "gone"
             \/ s = "recorded" /\ workspace' = workspace /\ queue' = Finished(queue, e, w)
             \/ s = "returned" /\ workspace' = workspace /\ queue' = Failed(queue, e, w, LaunchError(l))
    <3>1. CASE LaunchRuns(l)  BY <1>1, <1>6, <3>1 DEF LaunchRuns
    <3>2. CASE LaunchFails(l)  BY <1>1, <1>6, <3>2 DEF LaunchFails, TypeOK
    <3>3. CASE LaunchStopped(l)  BY <1>1, <1>6, <3>3 DEF LaunchStopped, TypeOK
    <3>4. CASE RecordFinish(l)  BY <3>4 DEF RecordFinish
    <3>5. CASE RecordFailure(l)  BY <3>5 DEF RecordFailure
    <3>. QED  BY <1>12, <3>1, <3>2, <3>3, <3>4, <3>5 DEF LaunchStep
  <2>. DEFINE new == [l EXCEPT !.stage = s]
  <2>2. new.entry = e /\ new.workspace = w /\ new.stage = s  BY <1>5 DEF Launch
  <2>3. launches' = (launches \ {l}) \cup {new}  BY <2>1 DEF Advance
  <2>. HIDE DEF new, e, w
  <2>4. s \in {"recorded", "returned"} => ~ClaimedBy(queue', e, w)
    <3>1. \/ s \notin {"recorded", "returned"}
          \/ queue' = Finished(queue, e, w)
          \/ queue' = Failed(queue, e, w, LaunchError(l))
      BY <2>1
    <3>. QED  BY <1>6, <3>1, ClaimWrites
  <2>5. l.stage \in {"provisioning", "ran", "failed", "stopped"} => ClaimedBy(queue, e, w)
    BY DEF HeldInv, LaunchHoldsClaim, e, w
  <2>6. \A x \in Workspace : x # w => workspace'[x] = workspace[x]
    BY <1>1, <2>1 DEF TypeOK
  <2>7. workspace' = workspace \/ ClaimedBy(queue, e, w)  BY <2>1, <2>5
  <2>8. \A x \in Entry : ClaimedBy(queue, e, w) /\ ClaimedBy(queue, x, w) => x = e
    BY <1>6, StoreAssumption DEF ClaimedBy, Inv, Consistent, DistinctClaims
  <2>9. OneHolder'
    <3>1. e \in launching  BY DEF HeldInv, OneHolder, e
    <3>. QED  BY <1>4, <1>8, <1>9, <2>1, <2>2, <2>3, <3>1 DEF HeldInv, OneHolder
  <2>10. LaunchHoldsClaim'
    <3>1. ASSUME NEW m \in launches, m # l, m.stage \in {"provisioning", "ran", "failed", "stopped"}
          PROVE  ClaimedBy(queue', m.entry, m.workspace) /\ m.entry \in launching'
      BY <1>5, <1>8, <1>10, <2>1, <3>1 DEF HeldInv, LaunchHoldsClaim
    <3>2. ASSUME s \in {"ran", "failed", "stopped"}
          PROVE  ClaimedBy(queue', e, w) /\ e \in launching'
      <4>1. queue' = queue /\ l.stage \in {"provisioning", "ran"}  BY <2>1, <3>2
      <4>2. e \in launching  BY DEF HeldInv, OneHolder, e
      <4>. QED  BY <2>1, <2>5, <4>1, <4>2
    <3>. QED  BY <2>1, <2>2, <2>3, <3>1, <3>2 DEF LaunchHoldsClaim
  <2>11. LaunchesEnd'
    <3>1. ASSUME NEW m \in launches, m # l, m.stage \in {"recorded", "returned"}
          PROVE  ~ClaimedBy(queue', m.entry, m.workspace)
      BY <1>5, <1>10, <3>1 DEF HeldInv, LaunchesEnd
    <3>2. ASSUME NEW m \in launches, m # l, m.stage \in {"failed", "stopped"}
          PROVE  workspace'[m.workspace] = "gone"
      <4>1. ClaimedBy(queue, m.entry, m.workspace) /\ workspace[m.workspace] = "gone"
        BY <3>2 DEF HeldInv, LaunchHoldsClaim, LaunchesEnd
      <4>2. m.workspace = w => workspace' = workspace  BY <1>5, <1>8, <2>7, <2>8, <3>2, <4>1
      <4>. QED  BY <1>5, <2>6, <4>1, <4>2
    <3>3. s \in {"failed", "stopped"} => workspace'[w] = "gone"  BY <2>1
    <3>. QED  BY <2>2, <2>3, <2>4, <3>1, <3>2, <3>3 DEF LaunchesEnd
  <2>12. \A x \in Entry, y \in Workspace : Orphan(x, y)' => Orphan(x, y) /\ Moved(y)
    <3>. SUFFICES ASSUME NEW x \in Entry, NEW y \in Workspace, Orphan(x, y)'
                  PROVE  Orphan(x, y) /\ Moved(y)
      OBVIOUS
    <3>1. ~(x = e /\ y = w)  BY <2>2, <2>3 DEF Orphan
    <3>2. ClaimedBy(queue, x, y)  BY <1>10 DEF Orphan
    <3>3. \A m \in launches : ~(m.entry = x /\ m.workspace = y)
      BY <2>3, <3>1 DEF Orphan, e, w
    <3>4. Moved(y)
      <4>1. y = w => workspace' = workspace  BY <2>7, <2>8, <3>1, <3>2
      <4>. QED  BY <2>6, <4>1 DEF Moved
    <3>. QED  BY <3>2, <3>3, <3>4 DEF Orphan
  <2>13. /\ \A k \in launches' : \E m \in launches : m.entry = k.entry /\ m.workspace = k.workspace
         /\ \A x \in launching' : x \in launching
    BY <2>1, <2>2, <2>3 DEF e, w
  <2>14. HeldAreClean' /\ DeletesAsked' /\ OrphansSettled' /\ ResumeKnows' /\ OrphansResumed'
    BY <1>1, <1>2, <1>4, <2>12, <2>13, SpentGrows, OrphansShrink
  <2>. QED  BY <1>3, <2>9, <2>10, <2>11, <2>14 DEF HeldInv
<1>. QED  BY <1>11, <1>12

\* A crash makes an orphan of every claim, and has the resume list them all.
LEMMA CrashHeld == Inv /\ HeldInv /\ Crash => HeldInv'
<1>. SUFFICES ASSUME Inv, HeldInv, Crash PROVE HeldInv'  OBVIOUS
<1>1. TypeOK /\ Next  BY DEF Inv, Next
<1>2. BlankUnclaimed' /\ FreshClaims'  BY <1>1, BlanksKept DEF HeldInv
<1>3. /\ queue' = queue /\ launching' = {} /\ launches' = {}
      /\ \A p \in Launcher : launcher'[p].stage = "idle"
      /\ boot'.stage = "due" /\ \A e \in Entry : boot'.todo[e] = Null
      /\ crashes' > 0
  BY <1>1, QueuedWorkspacesAssumption DEF Crash, Idle, BootDue, BootDone, NoRows, TypeOK
<1>4. OneHolder' /\ LaunchHoldsClaim' /\ LaunchesEnd' /\ HeldAreClean'
  BY <1>3 DEF OneHolder, LaunchHoldsClaim, LaunchesEnd, HeldAreClean, Listed
<1>5. DeletesAsked'  BY DEF Crash, DeletesAsked
<1>6. \A w \in SpentIds : workspace'[w] \in {"running", "stopped", "gone"}
  <2>1. PICK up \in SUBSET {w \in Workspace : workspace[w] = "creating"} :
          workspace' = [w \in Workspace |->
             IF w \in up THEN "running"
             ELSE IF workspace[w] \in {"creating", "drawn"} THEN "gone"
             ELSE workspace[w]]
    BY DEF Crash
  <2>. QED  BY <1>1, <2>1 DEF SpentIds, TypeOK, WorkspaceState
<1>7. OrphansSettled'
  <2>1. ASSUME NEW e \in Entry, NEW w \in Workspace, Orphan(e, w)'
        PROVE  w \in SpentIds
    BY <1>3, <2>1, StoreAssumption DEF Orphan, ClaimedBy, Inv, Consistent
  <2>. QED  BY <1>3, <1>6, <2>1 DEF OrphansSettled
<1>8. ResumeKnows' /\ OrphansResumed'  BY <1>3 DEF ResumeKnows, OrphansResumed
<1>. QED  BY <1>2, <1>4, <1>5, <1>7, <1>8 DEF HeldInv

\* The resume touches no claim of a launch.
LEMMA ResumeFrame ==
    ASSUME Inv, HeldInv, UNCHANGED <<workspace, launching, launches, launcher, deleting, crashes>>,
           \A f \in Entry, x \in Workspace : ClaimedBy(queue', f, x) => ClaimedBy(queue, f, x),
           \A l \in launches : ClaimedBy(queue, l.entry, l.workspace) => ClaimedBy(queue', l.entry, l.workspace)
    PROVE  /\ OneHolder' /\ LaunchHoldsClaim' /\ LaunchesEnd' /\ HeldAreClean' /\ DeletesAsked' /\ OrphansSettled'
           /\ \A f \in Entry, x \in Workspace : Orphan(f, x)' => Orphan(f, x)
<1>1. \A l \in launches : l.entry \in Entry /\ l.workspace \in Workspace  BY DEF Inv, TypeOK, Launch
<1>2. \A f \in Entry, x \in Workspace : Orphan(f, x)' => Orphan(f, x)  BY DEF Orphan
<1>3. \A f \in Entry : Clean(f) => Clean(f)'  BY <1>2 DEF Clean
<1>4. OneHolder' /\ DeletesAsked'  BY DEF HeldInv, OneHolder, DeletesAsked, Deletes
<1>5. LaunchHoldsClaim' /\ LaunchesEnd'  BY <1>1 DEF HeldInv, LaunchHoldsClaim, LaunchesEnd
<1>6. HeldAreClean'
  <2>1. launching \subseteq Entry /\ \A p \in Launcher : launcher[p].stage # "idle" => launcher[p].entry \in Entry
    BY DEF Inv, TypeOK, Idle, Reading, Claiming
  <2>. QED  BY <1>3, <2>1 DEF HeldInv, HeldAreClean, Listed
<1>7. OrphansSettled'  BY <1>2 DEF HeldInv, OrphansSettled
<1>. QED  BY <1>2, <1>4, <1>5, <1>6, <1>7

LEMMA ResumeHeld == Inv /\ HeldInv /\ ResumeStep => HeldInv'
<1>. SUFFICES ASSUME Inv, HeldInv, ResumeStep PROVE HeldInv'  OBVIOUS
<1>1. TypeOK /\ Next  BY DEF Inv, Next
<1>2. BlankUnclaimed' /\ FreshClaims'  BY <1>1, BlanksKept DEF HeldInv
<1>3. UNCHANGED <<workspace, launching, launches, launcher, deleting, crashes>>
  BY DEF ResumeStep, ResumeList, ResumeRow, ResumeResolve, ResumeDone
<1>4. SpentIds' = SpentIds  BY <1>3 DEF SpentIds
<1>5. \A x \in Workspace : x # Null  BY StoreAssumption
<1>6. CASE ResumeList \/ ResumeRow \/ ResumeDone
  <2>1. queue' = queue  BY <1>6 DEF ResumeList, ResumeRow, ResumeDone
  <2>2. /\ OneHolder' /\ LaunchHoldsClaim' /\ LaunchesEnd' /\ HeldAreClean' /\ DeletesAsked' /\ OrphansSettled'
        /\ \A f \in Entry, x \in Workspace : Orphan(f, x)' => Orphan(f, x)
    BY <1>3, <2>1, ResumeFrame
  <2>3. CASE ResumeList
    <3>1. /\ boot'.stage = "rows"
          /\ \A e \in Entry : boot'.todo[e] =
                IF Pending(queue, e) /\ queue[e].claim # Null THEN queue[e] ELSE Null
      BY <2>3 DEF ResumeList, BootDone
    <3>2. \A e \in Entry : queue[e] # Null
      BY <1>1, QueuedWorkspacesAssumption DEF TypeOK, Queue
    <3>3. \A e \in Entry, w \in Workspace : Orphan(e, w) => boot'.todo[e] = queue[e] /\ queue[e].claim = w
      BY <1>5, <3>1 DEF Orphan, ClaimedBy
    <3>4. ResumeKnows'
      <4>1. \A e \in Entry : queue[e].claim # Null => queue[e].claim \in SpentIds  BY DEF Inv, Consistent
      <4>. QED  BY <1>4, <2>2, <3>1, <3>3, <4>1 DEF ResumeKnows
    <3>5. OrphansResumed'  BY <2>2, <3>2, <3>3 DEF OrphansResumed
    <3>. QED  BY <1>2, <2>2, <3>4, <3>5 DEF HeldInv
  <2>4. CASE ResumeRow
    <3>. DEFINE e == Oldest(boot.todo)
    <3>1. boot \in Resuming /\ boot.todo # NoRows  BY <1>1, <2>4, Stages DEF ResumeRow
    <3>2. boot.todo \in Rows /\ boot.stage = "rows"  BY <3>1 DEF Resuming
    <3>3. e \in Entry /\ boot.todo[e] # Null  BY <3>1, <3>2, OldestTyped
    <3>. HIDE DEF e
    <3>4. CASE e \in launching
      <4>1. boot' = [boot EXCEPT !.todo = [boot.todo EXCEPT ![e] = Null]]
        BY <2>4, <3>4 DEF ResumeRow, e
      <4>2. boot'.stage = "rows" /\ boot'.todo = [boot.todo EXCEPT ![e] = Null]
        BY <3>1, <4>1 DEF Resuming
      <4>3. \A f \in Entry : boot'.todo[f] = IF f = e THEN Null ELSE boot.todo[f]
        BY <3>2, <4>2 DEF Rows
      <4>4. Clean(e)  BY <3>4 DEF HeldInv, HeldAreClean
      <4>5. ResumeKnows'
        BY <1>4, <2>2, <4>2, <4>3 DEF HeldInv, ResumeKnows
      <4>6. OrphansResumed'
        BY <1>3, <2>2, <3>2, <4>3, <4>4 DEF HeldInv, OrphansResumed, Clean, Removed, Deletes
      <4>. QED  BY <1>2, <2>2, <4>5, <4>6 DEF HeldInv
    <3>5. CASE e \notin launching
      <4>1. boot' = [boot EXCEPT !.stage = "resolve", !.entry = e,
                     !.verdict = IF workspace[boot.todo[e].claim] = "running" THEN "finish" ELSE "fail"]
        BY <2>4, <3>5 DEF ResumeRow, e
      <4>2. /\ boot'.stage = "resolve" /\ boot'.entry = e /\ boot'.todo = boot.todo
            /\ boot'.verdict = "finish" => workspace[boot.todo[e].claim] = "running"
        BY <3>1, <4>1 DEF Resuming
      <4>3. \A l \in launches : l.entry # e  BY <3>5 DEF HeldInv, OneHolder
      <4>4. \A w \in Workspace : Orphan(e, w) => w = boot.todo[e].claim
        BY <3>3 DEF HeldInv, ResumeKnows
      <4>5. ResumeKnows'
        BY <1>3, <1>4, <2>2, <3>3, <4>2, <4>3, <4>4 DEF HeldInv, ResumeKnows
      <4>6. OrphansResumed'
        BY <1>3, <2>2, <3>2, <4>2 DEF HeldInv, OrphansResumed, Removed, Deletes
      <4>. QED  BY <1>2, <2>2, <4>5, <4>6 DEF HeldInv
    <3>. QED  BY <3>4, <3>5
  <2>5. CASE ResumeDone
    <3>1. boot.stage = "rows" /\ \A e \in Entry : boot.todo[e] = Null  BY <2>5 DEF ResumeDone, NoRows
    <3>2. boot'.stage = "done" /\ \A e \in Entry : boot'.todo[e] = Null
      BY <2>5 DEF ResumeDone, BootDone, NoRows
    <3>3. ResumeKnows'  BY <3>2 DEF ResumeKnows
    <3>4. OrphansResumed'
      BY <1>3, <2>2, <3>1 DEF HeldInv, OrphansResumed, Removed, Deletes
    <3>. QED  BY <1>2, <2>2, <3>3, <3>4 DEF HeldInv
  <2>. QED  BY <1>6, <2>3, <2>4, <2>5
<1>7. CASE ResumeResolve
  <2>. DEFINE e == boot.entry
              w == boot.todo[e].claim
  <2>1. boot \in Settling /\ boot.stage = "resolve"  BY <1>1, <1>7, Stages DEF ResumeResolve
  <2>2. e \in Entry /\ boot.todo \in Rows /\ boot.todo[e] # Null /\ boot.verdict \in {"finish", "fail"}
    BY <2>1 DEF Settling, Inv, ResumesClaimed
  <2>3. w \in SpentIds /\ w \in Workspace  BY <2>2 DEF HeldInv, ResumeKnows, SpentIds
  <2>4. /\ \A l \in launches : ~(l.entry = e /\ l.workspace = w)
        /\ \A x \in Workspace : Orphan(e, x) => x = w
        /\ boot.verdict = "finish" => \A x \in Workspace : Orphan(e, x) =>
              workspace[x] \in {"running", "stopped"} \/ Removed(x)
    BY <2>1, <2>2 DEF HeldInv, ResumeKnows
  <2>5. \/ queue' = Failed(queue, e, w, TRUE)
        \/ queue' = Finished(queue, e, w)
        \/ queue' = queue /\ boot.verdict = "finish" /\ workspace[w] = "gone"
    BY <1>7, <2>2 DEF ResumeResolve
  <2>6. boot' = [BootDone EXCEPT !.stage = "rows", !.todo = [boot.todo EXCEPT ![e] = Null]]
    BY <1>7 DEF ResumeResolve
  <2>7. boot'.stage = "rows" /\ \A f \in Entry : boot'.todo[f] = IF f = e THEN Null ELSE boot.todo[f]
    BY <2>2, <2>6 DEF BootDone, Rows
  <2>. HIDE DEF e, w
  <2>8. /\ \A f \in Entry, x \in Workspace :
              /\ ClaimedBy(queue', f, x) => ClaimedBy(queue, f, x)
              /\ ClaimedBy(queue, f, x) /\ ~(f = e /\ x = w) => ClaimedBy(queue', f, x)
        /\ ClaimedBy(queue', e, w) => boot.verdict = "finish" /\ workspace[w] = "gone"
    <3>0. queue \in Queue /\ e \in Entry /\ w \in Workspace  BY <1>1, <2>2, <2>3 DEF TypeOK
    <3>1. CASE queue' = Failed(queue, e, w, TRUE)
      <4>1. \A f \in Entry, x \in Workspace :
                ClaimedBy(Failed(queue, e, w, TRUE), f, x) <=> ClaimedBy(queue, f, x) /\ ~(f = e /\ x = w)
        BY <3>0, ClaimWrites
      <4>. QED  BY <3>0, <3>1, <4>1
    <3>2. CASE queue' = Finished(queue, e, w)
      BY <3>0, <3>2, ClaimWrites
    <3>. QED  BY <2>5, <3>1, <3>2
  <2>9. \A l \in launches : ClaimedBy(queue, l.entry, l.workspace) => ClaimedBy(queue', l.entry, l.workspace)
    BY <1>1, <2>4, <2>8 DEF TypeOK, Launch
  <2>10. /\ OneHolder' /\ LaunchHoldsClaim' /\ LaunchesEnd' /\ HeldAreClean' /\ DeletesAsked' /\ OrphansSettled'
         /\ \A f \in Entry, x \in Workspace : Orphan(f, x)' => Orphan(f, x)
    BY <1>3, <2>8, <2>9, ResumeFrame
  <2>11. ResumeKnows'  BY <1>4, <2>7, <2>10 DEF HeldInv, ResumeKnows
  <2>12. ASSUME NEW f \in Entry, NEW x \in Workspace, Orphan(f, x)'
         PROVE  boot'.todo[f] # Null \/ Removed(x)
    <3>1. Orphan(f, x)  BY <2>10, <2>12
    <3>2. CASE f # e  BY <2>1, <2>7, <3>1, <3>2 DEF HeldInv, OrphansResumed
    <3>3. CASE f = e
      <4>1. x = w  BY <2>4, <3>1, <3>3
      <4>2. boot.verdict = "finish" /\ workspace[w] = "gone"  BY <2>8, <2>12, <3>3, <4>1 DEF Orphan
      <4>. QED  BY <2>4, <3>1, <3>3, <4>1, <4>2
    <3>. QED  BY <3>2, <3>3
  <2>13. OrphansResumed'  BY <1>3, <2>12 DEF OrphansResumed, Removed, Deletes
  <2>. QED  BY <1>2, <2>10, <2>11, <2>13 DEF HeldInv
<1>. QED  BY <1>6, <1>7 DEF ResumeStep

LEMMA NextHeld == Inv /\ HeldInv /\ [Next]_vars => HeldInv'
<1>. SUFFICES ASSUME Inv, HeldInv, [Next]_vars PROVE HeldInv'  OBVIOUS
<1>1. CASE UNCHANGED vars
  BY <1>1 DEF vars, memory, HeldInv, BlankUnclaimed, FreshClaims, SpentIds, OneHolder, LaunchHoldsClaim,
              LaunchesEnd, HeldAreClean, Listed, Clean, Orphan, DeletesAsked, Deletes, OrphansSettled,
              ResumeKnows, OrphansResumed, Removed
<1>2. ASSUME NEW p \in Launcher, LauncherStep(p)
      PROVE  HeldInv'
  BY <1>2, ListingHeld, SlotHeld, ClaimHeld DEF LauncherStep
<1>. QED
  BY <1>1, <1>2, LaunchHeld, RequestHeld, EntryCommandHeld, CommandHeld, CrashHeld, ResumeHeld DEF Next

LEMMA HeldCorrect == Spec => [](Inv /\ HeldInv)
<1>1. Init => Inv /\ HeldInv  BY InitInv, InitHeld
<1>2. Inv /\ HeldInv /\ [Next]_vars => (Inv /\ HeldInv)'  BY NextInv, NextHeld
<1>. QED  BY <1>1, <1>2, PTL DEF Spec
-----------------------------------------------------------------------------
(***************************************************************************)
(* Theorems of QueuedWorkspaces.                                           *)
(***************************************************************************)
\* A launch that has yet to be recorded holds its entry's claim and its place
\* in `launching`, whatever stale view an edit, a discard, another launcher,
\* or the resume acts on.
THEOREM LaunchHoldsClaimCorrect == Spec => []LaunchHoldsClaim
<1>1. HeldInv => LaunchHoldsClaim  BY DEF HeldInv
<1>. QED  BY <1>1, HeldCorrect, PTL

\* A claim belongs to a launch of this process, or to one a crash interrupted
\* and the resume has yet to resolve, or whose workspace was deleted under it.
THEOREM ClaimedIsLaunchingCorrect == Spec => []ClaimedIsLaunching
<1>1. ASSUME Inv, HeldInv, NEW e \in Entry, Pending(queue, e), queue[e].claim # Null,
             \A l \in launches : ~(l.entry = e /\ l.workspace = queue[e].claim)
      PROVE  boot.stage = "due" \/ boot.todo[e] # Null \/ DeletedUnderResume(e)
  <2>1. queue[e].claim \in Workspace  BY <1>1 DEF Inv, TypeOK, Queue, Row
  <2>2. Orphan(e, queue[e].claim)  BY <1>1 DEF Orphan, ClaimedBy
  <2>. QED
    BY <1>1, <2>1, <2>2 DEF HeldInv, OrphansSettled, OrphansResumed, Removed, Deletes, DeletedUnderResume
<1>2. Inv /\ HeldInv => ClaimedIsLaunching  BY <1>1 DEF ClaimedIsLaunching
<1>. QED  BY <1>2, HeldCorrect, PTL

\* An entry that is discarded or launched leaves no child pointing at it, and
\* a launch that comes back none waiting on its workspace.
THEOREM NoChildLeftBehindCorrect == Spec => NoChildLeftBehind
<1>1. ASSUME Inv, HeldInv, Next, NEW e \in Entry, NEW c \in Entry
      PROVE  /\ Pending(queue, e) /\ ~Pending(queue', e) /\ Pending(queue', c)
                => queue'[c].parent.entry # e
             /\ Pending(queue', e) /\ queue[e].claim # Null /\ queue'[e].claim = Null /\ Waits(queue', c)
                => queue'[c].parent.workspace # queue[e].claim
  BY <1>1, ChildrenStep, CameBack DEF HeldInv
<1>2. Inv /\ HeldInv /\ [Next]_vars =>
        [\A e, c \in Entry :
           /\ Pending(queue, e) /\ ~Pending(queue', e) /\ Pending(queue', c)
              => queue'[c].parent.entry # e
           /\ Pending(queue', e) /\ queue[e].claim # Null /\ queue'[e].claim = Null /\ Waits(queue', c)
              => queue'[c].parent.workspace # queue[e].claim]_vars
  BY <1>1
<1>. QED  BY <1>2, HeldCorrect, PTL DEF Spec, NoChildLeftBehind

\* No write changes what an entry's launch was claimed with, or a launched
\* row before its workspace goes.
THEOREM MidLaunchIsFrozenCorrect == Spec => MidLaunchIsFrozen
<1>1. Inv /\ HeldInv /\ [Next]_vars =>
        [\A e \in Entry :
           /\ queue[e].claim # Null /\ queue'[e].claim = queue[e].claim => queue'[e].group = queue[e].group
           /\ queue[e].state = "launched" => queue'[e] \in {queue[e], NoRow("deleted")}]_vars
  BY FrozenStep
<1>. QED  BY <1>1, HeldCorrect, PTL DEF Spec, MidLaunchIsFrozen

\* No request, however early it resolved its parent, makes an entry wait on a
\* workspace that a delete holds.
THEOREM NothingQueuedUnderHoldCorrect == Spec => NothingQueuedUnderHold
<1>1. Inv /\ HeldInv /\ [Next]_vars =>
        [\A w \in Existing : deleting[w] # "no" /\ HasQueued(w)' => HasQueued(w)]_vars
  BY HoldStep DEF HeldInv
<1>. QED  BY <1>1, HeldCorrect, PTL DEF Spec, NothingQueuedUnderHold
-----------------------------------------------------------------------------
(***************************************************************************)
(* Theorems of the history. A workspace the server launched for an entry   *)
(* is up only while the entry's row holds its id, so two are never up.     *)
(***************************************************************************)
IsUp(w) == workspace[w] \in {"creating", "running"}

UpIsClaimed ==
    \A e \in Entry, w \in Workspace \ restarted : origin[w] = e /\ IsUp(w) => queue[e].claim = w

\* The resume gives back a claim only after it found the workspace down.
FailedIsDown ==
    boot.stage = "resolve" /\ boot.verdict = "fail" =>
        LET w == boot.todo[boot.entry].claim
        IN  ClaimedBy(queue, boot.entry, w) => ~IsUp(w) \/ w \in restarted

HistoryInv ==
    /\ Inv
    /\ HeldInv
    /\ origin \in [Workspace -> Entry \cup {Null}]
    /\ UpIsClaimed
    /\ FailedIsDown

\* How a workspace comes up.
LEMMA ComesUp ==
    ASSUME Inv, HeldInv, Next, NEW w \in Workspace, IsUp(w)'
    PROVE  \/ IsUp(w) \/ Restart(w)
           \/ w \notin SpentIds /\ \E f \in Entry : queue'[f].claim = w
           \/ queue' = queue /\ \E l \in launches : l.stage = "provisioning" /\ l.workspace = w
<1>1. TypeOK  BY DEF Inv
<1>2. ASSUME workspace' = workspace  PROVE IsUp(w)  BY <1>2 DEF IsUp
<1>3. ASSUME NEW x \in Workspace, NEW s \in {"drawn", "stopped", "gone"}, workspace' = [workspace EXCEPT ![x] = s]
      PROVE  IsUp(w)
  BY <1>1, <1>3 DEF IsUp, TypeOK
<1>4. ASSUME NEW p \in Launcher, LauncherStep(p)
      PROVE  IsUp(w) \/ (w \notin SpentIds /\ \E f \in Entry : queue'[f].claim = w)
  <2>1. CASE ListWaiting(p) \/ LoseRow(p) \/ FindFull(p)
    BY <1>2, <2>1 DEF ListWaiting, LoseRow, FindFull
  <2>2. CASE TakeSlot(p)
    <3>1. \E x \in Workspace : workspace' = [workspace EXCEPT ![x] = "drawn"]  BY Zenon, <2>2 DEF TakeSlot
    <3>. QED  BY <1>3, <3>1
  <2>3. CASE ClaimLaunch(p)
    <3>. DEFINE e == launcher[p].entry
                x == launcher[p].workspace
    <3>1. e \in Entry /\ x \in Workspace /\ x \notin SpentIds
      BY <1>1, <2>3, Stages DEF ClaimLaunch, Claiming, Inv, DrawnHeld, SpentIds
    <3>2. \/ queue' = Claimed(queue, e, x) /\ workspace' = [workspace EXCEPT ![x] = "creating"]
          \/ workspace' = [workspace EXCEPT ![x] = "gone"]
      BY <2>3 DEF ClaimLaunch
    <3>. HIDE DEF e, x
    <3>3. CASE w = x /\ queue' = Claimed(queue, e, x)
      <4>1. Claimed(queue, e, x)[e] = [queue[e] EXCEPT !.claim = x]  BY <3>1 DEF Claimed, ChildrenMoved
      <4>2. queue[e] \in Row  BY <1>1, <3>1 DEF TypeOK, Queue
      <4>3. [queue[e] EXCEPT !.claim = x].claim = x  BY <4>2 DEF Row
      <4>. QED  BY <3>1, <3>3, <4>1, <4>3
    <3>4. CASE ~(w = x /\ queue' = Claimed(queue, e, x))
      <4>1. CASE workspace' = [workspace EXCEPT ![x] = "gone"]  BY <1>3, <3>1, <4>1
      <4>2. CASE w # x  BY <1>1, <3>1, <3>2, <4>2 DEF IsUp, TypeOK
      <4>. QED  BY <3>2, <3>4, <4>1, <4>2
    <3>. QED  BY <3>3, <3>4
  <2>. QED  BY <1>4, <2>1, <2>2, <2>3 DEF LauncherStep
<1>5. ASSUME NEW l \in launches, LaunchStep(l)
      PROVE  IsUp(w) \/ (queue' = queue /\ \E m \in launches : m.stage = "provisioning" /\ m.workspace = w)
  <2>1. l.workspace \in Workspace  BY <1>1 DEF TypeOK, Launch
  <2>2. CASE LaunchRuns(l)
    <3>1. queue' = queue /\ l.stage = "provisioning" /\ workspace' = [workspace EXCEPT ![l.workspace] = "running"]
      BY <2>2 DEF LaunchRuns
    <3>2. w # l.workspace => workspace'[w] = workspace[w]  BY <1>1, <3>1 DEF TypeOK
    <3>. QED  BY <3>1, <3>2 DEF IsUp
  <2>3. CASE LaunchFails(l) \/ LaunchStopped(l)
    BY <1>3, <2>1, <2>3 DEF LaunchFails, LaunchStopped
  <2>4. CASE RecordFinish(l) \/ RecordFailure(l) \/ SettleLaunch(l)
    BY <1>2, <2>4 DEF RecordFinish, RecordFailure, SettleLaunch
  <2>. QED  BY <1>5, <2>2, <2>3, <2>4 DEF LaunchStep
<1>6. ASSUME NEW x \in Workspace,
             StopStep(x) \/ AskStop(x) \/ Die(x) \/ Restart(x) \/ HoldForDelete(x) \/ CheckDelete(x)
             \/ DeleteWorkspace(x)
      PROVE  IsUp(w) \/ Restart(w)
  <2>1. CASE Restart(x)
    <3>1. w # x => workspace'[w] = workspace[w]  BY <1>1, <2>1 DEF Restart, TypeOK
    <3>. QED  BY <2>1, <3>1 DEF IsUp
  <2>2. CASE ~Restart(x)
    BY <1>2, <1>3, <1>6, <2>2 DEF StopStep, RecordStop, ReleaseChildren, AskStop, Die, HoldForDelete, CheckDelete,
                             DeleteWorkspace
  <2>. QED  BY <2>1, <2>2
<1>7. CASE Crash
  <2>1. PICK up \in SUBSET {x \in Workspace : workspace[x] = "creating"} :
          workspace' = [x \in Workspace |->
             IF x \in up THEN "running"
             ELSE IF workspace[x] \in {"creating", "drawn"} THEN "gone"
             ELSE workspace[x]]
    BY <1>7 DEF Crash
  <2>. QED  BY <2>1 DEF IsUp
<1>8. CASE (\E r \in Requester : RequestStep(r)) \/ EntryCommand \/ Tick \/ ReleaseDue \/ ReconcilePass \/ ResumeStep
  <2>1. workspace' = workspace
    BY <1>8 DEF RequestStep, ResolveQueue, InsertQueued, WriteEdit, ResolveEdit, EntryCommand, Discard, RunNow,
                Tick, ReleaseDue, ReconcilePass, ResumeStep, ResumeList, ResumeRow, ResumeResolve, ResumeDone
  <2>. QED  BY <1>2, <2>1
<1>. QED  BY <1>4, <1>5, <1>6, <1>7, <1>8 DEF Next, WorkspaceCommand

\* Only a fresh id is newly claimed.
LEMMA ClaimsAreFresh ==
    ASSUME Inv, Next, NEW e \in Entry, NEW w \in SpentIds, ClaimedBy(queue', e, w)
    PROVE  ClaimedBy(queue, e, w)
<1>1. queue \in Queue /\ w \in Workspace  BY DEF Inv, TypeOK, SpentIds
<1>2. CASE OtherWrite
  BY <1>1, <1>2, OtherWriteKeepsClaims DEF Inv, SameClaims
<1>3. CASE Claims \/ Finishes \/ Fails
  <2>1. PICK f \in Entry, x \in Workspace, error \in BOOLEAN :
          \/ x \notin SpentIds /\ NotLaunching(queue, f) /\ queue' = Claimed(queue, f, x)
          \/ queue' = Finished(queue, f, x)
          \/ queue' = Failed(queue, f, x, error)
    BY <1>3 DEF Claims, Finishes, Fails
  <2>2. CASE NotLaunching(queue, f) /\ x \notin SpentIds /\ queue' = Claimed(queue, f, x)
    BY <1>1, <2>2, ClaimWrites
  <2>3. CASE queue' = Finished(queue, f, x)  BY <1>1, <2>3, ClaimWrites
  <2>4. CASE queue' = Failed(queue, f, x, error)
    <3>1. ClaimedBy(Failed(queue, f, x, error), e, w) <=> ClaimedBy(queue, e, w) /\ ~(e = f /\ w = x)
      BY <1>1, ClaimWrites
    <3>. QED  BY <2>4, <3>1
  <2>. QED  BY <2>1, <2>2, <2>3, <2>4
<1>. QED  BY <1>2, <1>3, NextWrites DEF Writes

LEMMA FinishedKeepsClaim ==
    ASSUME NEW q \in Queue, NEW e \in Entry, NEW w, ClaimedBy(q, e, w)
    PROVE  Finished(q, e, w)[e].claim = w
<1>1. Finished(q, e, w)[e] = [q[e] EXCEPT !.state = "launched"]  BY DEF Finished, ChildrenMoved
<1>2. q[e] \in Row /\ q[e].claim = w  BY DEF Queue, ClaimedBy
<1>. QED  BY <1>1, <1>2 DEF Row

\* A claim is given back only with its workspace down, or the user's.
LEMMA GivenUp ==
    ASSUME HistoryInv, Next, NEW e \in Entry, NEW w \in Workspace,
           ClaimedBy(queue, e, w), ~ClaimedBy(queue', e, w), queue'[e].claim # w
    PROVE  workspace' = workspace /\ (~IsUp(w) \/ w \in restarted)
<1>1. Inv /\ HeldInv /\ TypeOK /\ queue \in Queue  BY DEF HistoryInv, Inv, TypeOK
<1>2. ~OtherWrite  BY <1>1, OtherWriteKeepsClaims DEF SameClaims
<1>3. queue' # queue  OBVIOUS
<1>4. ASSUME NEW f \in Entry, NEW x \in Workspace, queue' = Finished(queue, f, x)
      PROVE  FALSE
  <2>1. e = f /\ w = x  BY <1>1, <1>4, ClaimWrites
  <2>. QED  BY <1>1, <1>4, <2>1, FinishedKeepsClaim
<1>5. ASSUME NEW f \in Entry, NEW x \in Workspace, NEW error, queue' = Failed(queue, f, x, error)
      PROVE  e = f /\ w = x
  <2>1. ClaimedBy(Failed(queue, f, x, error), e, w) <=> ClaimedBy(queue, e, w) /\ ~(e = f /\ w = x)
    BY <1>1, ClaimWrites
  <2>. QED  BY <1>5, <2>1
<1>6. ASSUME NEW p \in Launcher, LauncherStep(p)
      PROVE  FALSE
  <2>1. CASE ClaimLaunch(p)
    <3>1. launcher[p].entry \in Entry /\ launcher[p].workspace \in Workspace
      BY <1>1, <2>1, Stages DEF ClaimLaunch, Claiming
    <3>2. \/ queue' = queue
          \/ /\ NotLaunching(queue, launcher[p].entry)
             /\ queue' = Claimed(queue, launcher[p].entry, launcher[p].workspace)
      BY <2>1 DEF ClaimLaunch
    <3>. QED  BY <1>1, <1>3, <3>1, <3>2, ClaimWrites
  <2>2. CASE ListWaiting(p) \/ LoseRow(p) \/ FindFull(p)
    BY <1>3, <2>2 DEF ListWaiting, LoseRow, FindFull
  <2>3. CASE TakeSlot(p)
    <3>1. queue' = queue  BY Zenon, <2>3 DEF TakeSlot
    <3>. QED  BY <1>3, <3>1
  <2>. QED  BY <1>6, <2>1, <2>2, <2>3 DEF LauncherStep
<1>7. ASSUME NEW l \in launches, LaunchStep(l)
      PROVE  workspace' = workspace /\ ~IsUp(w)
  <2>1. l.entry \in Entry /\ l.workspace \in Workspace  BY <1>1 DEF TypeOK, Launch
  <2>2. RecordFailure(l)
    BY <1>3, <1>4, <1>7, <2>1 DEF LaunchStep, LaunchRuns, LaunchFails, LaunchStopped, RecordFinish, SettleLaunch
  <2>3. w = l.workspace  BY <1>5, <2>1, <2>2 DEF RecordFailure
  <2>4. workspace[l.workspace] = "gone"  BY <1>1, <2>2 DEF RecordFailure, HeldInv, LaunchesEnd
  <2>. QED  BY <2>2, <2>3, <2>4 DEF RecordFailure, IsUp
<1>8. CASE ResumeStep
  <2>. DEFINE f == boot.entry
              x == boot.todo[f].claim
  <2>1. ResumeResolve  BY <1>3, <1>8 DEF ResumeStep, ResumeList, ResumeRow, ResumeDone
  <2>2. boot \in Settling /\ boot.stage = "resolve"  BY <1>1, <2>1, Stages DEF ResumeResolve
  <2>3. f \in Entry /\ boot.todo[f] # Null /\ boot.verdict \in {"finish", "fail"}
    BY <1>1, <2>2 DEF Settling, Inv, ResumesClaimed
  <2>4. x \in Workspace  BY <1>1, <2>3 DEF HeldInv, ResumeKnows, SpentIds
  <2>5. \/ boot.verdict = "fail" /\ queue' = Failed(queue, f, x, TRUE)
        \/ queue' = Finished(queue, f, x)
        \/ queue' = queue
    BY <2>1, <2>3 DEF ResumeResolve
  <2>. HIDE DEF f, x
  <2>6. boot.verdict = "fail" /\ e = f /\ w = x  BY <1>3, <1>4, <1>5, <2>3, <2>4, <2>5
  <2>7. ~IsUp(w) \/ w \in restarted  BY <2>2, <2>6 DEF HistoryInv, FailedIsDown, f, x
  <2>. QED  BY <2>1, <2>7 DEF ResumeResolve
<1>. QED  BY <1>2, <1>6, <1>7, <1>8, CommandWrites, RequestWrites, <1>1 DEF Next

LEMMA UpKept ==
    ASSUME HistoryInv, HistoryNext
    PROVE  UpIsClaimed'
<1>1. Inv /\ HeldInv /\ Next /\ BlankUnclaimed  BY DEF HistoryInv, HistoryNext, HeldInv
<1>2. SUFFICES ASSUME NEW e \in Entry, NEW w \in Workspace, w \notin restarted', origin'[w] = e, IsUp(w)'
               PROVE  queue'[e].claim = w
  BY DEF UpIsClaimed
<1>3. w \notin restarted /\ ~Restart(w)  BY <1>2 DEF HistoryNext
<1>4. CASE \E f \in Entry : queue'[f].claim = w
  <2>1. origin'[w] = CHOOSE f \in Entry : queue'[f].claim = w  BY <1>4 DEF HistoryNext
  <2>. QED  BY <1>2, <1>4, <2>1
<1>5. CASE \A f \in Entry : queue'[f].claim # w
  <2>1. origin[w] = e  BY <1>2, <1>5 DEF HistoryNext
  <2>2. IsUp(w)
    <3>1. \A l \in launches : l.stage = "provisioning" => l.entry \in Entry /\ queue[l.entry].claim = l.workspace
      BY <1>1 DEF HeldInv, LaunchHoldsClaim, ClaimedBy, Inv, TypeOK, Launch
    <3>. QED  BY <1>1, <1>2, <1>3, <1>5, <3>1, ComesUp
  <2>3. queue[e].claim = w  BY <1>3, <2>1, <2>2 DEF HistoryInv, UpIsClaimed
  <2>4. CASE Pending(queue, e)
    <3>1. ClaimedBy(queue, e, w) /\ ~ClaimedBy(queue', e, w)  BY <1>5, <2>3, <2>4 DEF ClaimedBy
    <3>. QED  BY <1>1, <1>3, <1>5, <2>2, <3>1, GivenUp
  <2>5. CASE ~Pending(queue, e)
    <3>1. w # Null  BY StoreAssumption
    <3>2. queue[e].state \notin {"unused", "deleted"}  BY <1>1, <2>3, <3>1 DEF BlankUnclaimed
    <3>3. workspace' = [workspace EXCEPT ![w] = "gone"]
      BY <1>1, <1>5, <2>3, <2>5, <3>1, <3>2, NextWrites, RowWritten DEF NotLaunching
    <3>4. workspace'[w] = "gone"  BY <1>1, <3>3 DEF Inv, TypeOK
    <3>. QED  BY <1>2, <3>4 DEF IsUp
  <2>. QED  BY <2>4, <2>5
<1>. QED  BY <1>4, <1>5

\* Only a crash and the resume itself move the resume.
LEMMA BootKept == Next /\ ~ResumeStep /\ ~Crash => boot' = boot
<1>1. ASSUME NEW p \in Launcher, LauncherStep(p)
      PROVE  boot' = boot
  BY Zenon, <1>1 DEF LauncherStep, ListWaiting, LoseRow, FindFull, TakeSlot, ClaimLaunch
<1>2. ASSUME NEW l \in launches, LaunchStep(l)
      PROVE  boot' = boot
  BY <1>2 DEF LaunchStep, LaunchRuns, LaunchFails, LaunchStopped, RecordFinish, RecordFailure, SettleLaunch
<1>3. ASSUME (\E r \in Requester : RequestStep(r)) \/ EntryCommand
      PROVE  boot' = boot
  BY <1>3 DEF RequestStep, ResolveQueue, InsertQueued, WriteEdit, ResolveEdit, EntryCommand, Discard, RunNow
<1>4. ASSUME (\E w \in Workspace : StopStep(w)) \/ WorkspaceCommand \/ Tick \/ ReleaseDue \/ ReconcilePass
      PROVE  boot' = boot
  BY <1>4 DEF StopStep, RecordStop, ReleaseChildren, WorkspaceCommand, AskStop, Die, Restart, memory,
              HoldForDelete, CheckDelete, DeleteWorkspace, Tick, ReleaseDue, ReconcilePass
<1>. QED  BY <1>1, <1>2, <1>3, <1>4 DEF Next

LEMMA DownKept ==
    ASSUME HistoryInv, HistoryNext
    PROVE  FailedIsDown'
<1>1. Inv /\ HeldInv /\ Next /\ TypeOK  BY DEF HistoryInv, HistoryNext, Inv
<1>2. restarted \subseteq restarted'  BY DEF HistoryNext
<1>3. CASE ResumeStep
  <2>1. CASE ResumeRow
    <3>. DEFINE e == Oldest(boot.todo)
                w == boot.todo[e].claim
    <3>1. boot \in Resuming /\ boot.todo # NoRows  BY <1>1, <2>1, Stages DEF ResumeRow
    <3>2. e \in Entry /\ boot.todo[e] # Null  BY <3>1, OldestTyped DEF Resuming
    <3>3. w \in Workspace  BY <1>1, <3>2 DEF HeldInv, ResumeKnows, SpentIds
    <3>4. queue' = queue /\ workspace' = workspace  BY <2>1 DEF ResumeRow
    <3>. HIDE DEF e, w
    <3>5. CASE e \in launching
      <4>1. boot' = [boot EXCEPT !.todo = [boot.todo EXCEPT ![e] = Null]]  BY <2>1, <3>5 DEF ResumeRow, e
      <4>2. boot'.stage = "rows"  BY <3>1, <4>1 DEF Resuming
      <4>. QED  BY <4>2 DEF FailedIsDown
    <3>6. CASE e \notin launching
      <4>1. boot' = [boot EXCEPT !.stage = "resolve", !.entry = e,
                     !.verdict = IF workspace[w] = "running" THEN "finish" ELSE "fail"]
        BY <2>1, <3>6 DEF ResumeRow, e, w
      <4>2. /\ boot'.entry = e /\ boot'.todo = boot.todo
            /\ boot'.verdict = "fail" => workspace[w] # "running"
        BY <3>1, <4>1 DEF Resuming
      <4>3. \A l \in launches : l.entry # e  BY <1>1, <3>6 DEF HeldInv, OneHolder
      <4>4. ClaimedBy(queue, e, w) => workspace[w] # "creating"
        <5>1. ClaimedBy(queue, e, w) => Orphan(e, w)  BY <4>3 DEF Orphan
        <5>. QED  BY <1>1, <3>2, <3>3, <5>1 DEF HeldInv, OrphansSettled
      <4>5. boot'.todo[boot'.entry].claim = w  BY <4>2 DEF w
      <4>. QED  BY <3>4, <4>2, <4>4, <4>5 DEF FailedIsDown, IsUp
    <3>. QED  BY <3>5, <3>6
  <2>2. CASE ResumeList \/ ResumeResolve \/ ResumeDone
    <3>1. boot'.stage \in {"done", "rows"}
      <4>1. ASSUME NEW todo, boot' = [BootDone EXCEPT !.stage = "rows", !.todo = todo]
            PROVE  boot'.stage = "rows"
        BY <4>1 DEF BootDone
      <4>2. CASE ResumeList  BY <4>1, <4>2 DEF ResumeList
      <4>3. CASE ResumeResolve  BY <4>1, <4>3 DEF ResumeResolve
      <4>4. CASE ResumeDone  BY <4>4 DEF ResumeDone, BootDone
      <4>. QED  BY <2>2, <4>2, <4>3, <4>4
    <3>. QED  BY <3>1 DEF FailedIsDown
  <2>. QED  BY <1>3, <2>1, <2>2 DEF ResumeStep
<1>4. CASE Crash
  <2>1. boot'.stage = "due"  BY <1>4 DEF Crash, BootDue, BootDone
  <2>. QED  BY <2>1 DEF FailedIsDown
<1>5. CASE ~ResumeStep /\ ~Crash
  <2>1. boot' = boot  BY <1>1, <1>5, BootKept
  <2>2. SUFFICES ASSUME NEW e, NEW w, e = boot.entry, w = boot.todo[e].claim,
                        boot.stage = "resolve", boot.verdict = "fail", ClaimedBy(queue', e, w), IsUp(w)'
                 PROVE  w \in restarted'
    BY <2>1 DEF FailedIsDown
  <2>3. boot \in Settling  BY <1>1, <2>2, Stages
  <2>4. e \in Entry /\ w \in SpentIds /\ w \in Workspace
    BY <1>1, <2>2, <2>3 DEF Settling, Inv, ResumesClaimed, HeldInv, ResumeKnows, SpentIds
  <2>5. ClaimedBy(queue, e, w)  BY <1>1, <2>2, <2>4, ClaimsAreFresh
  <2>6. \A l \in launches : ~(l.entry = e /\ l.workspace = w)
    BY <1>1, <2>2 DEF HeldInv, ResumeKnows
  <2>7. \A l \in launches : l.stage = "provisioning" => l.workspace # w
    <3>1. \A l \in launches : l.stage = "provisioning" =>
              l.entry \in Entry /\ queue[l.entry].claim = l.workspace
      BY <1>1 DEF HeldInv, LaunchHoldsClaim, ClaimedBy, TypeOK, Launch
    <3>. QED  BY <1>1, <2>4, <2>5, <2>6, <3>1, StoreAssumption
              DEF ClaimedBy, Inv, Consistent, DistinctClaims
  <2>8. IsUp(w) \/ Restart(w)  BY <1>1, <2>2, <2>4, <2>7, ComesUp
  <2>9. IsUp(w) => w \in restarted
    BY <2>2, <2>5 DEF HistoryInv, FailedIsDown
  <2>. QED  BY <1>2, <2>4, <2>8, <2>9 DEF HistoryNext
<1>. QED  BY <1>3, <1>4, <1>5

LEMMA HistoryHeld == HistorySpec => []HistoryInv
<1>1. HistoryInit => HistoryInv
  <2>. SUFFICES ASSUME HistoryInit PROVE HistoryInv  OBVIOUS
  <2>1. Inv /\ HeldInv  BY InitInv, InitHeld DEF HistoryInit
  <2>2. origin \in [Workspace -> Entry \cup {Null}] /\ \A w \in Workspace : origin[w] = Null
    BY DEF HistoryInit
  <2>3. UpIsClaimed  BY <2>2, StoreAssumption DEF UpIsClaimed
  <2>4. FailedIsDown  BY DEF HistoryInit, Init, BootDue, BootDone, FailedIsDown
  <2>. QED  BY <2>1, <2>2, <2>3, <2>4 DEF HistoryInv
<1>2. HistoryInv /\ [HistoryNext]_<<vars, historyVars>> => HistoryInv'
  <2>. SUFFICES ASSUME HistoryInv, [HistoryNext]_<<vars, historyVars>> PROVE HistoryInv'  OBVIOUS
  <2>1. CASE HistoryNext
    <3>1. Inv' /\ HeldInv'  BY <2>1, NextInv, NextHeld DEF HistoryInv, HistoryNext
    <3>2. origin' \in [Workspace -> Entry \cup {Null}]
      <4>1. \A w \in Workspace : (\E e \in Entry : queue'[e].claim = w)
                => (CHOOSE e \in Entry : queue'[e].claim = w) \in Entry
        OBVIOUS
      <4>. QED  BY <2>1, <4>1 DEF HistoryInv, HistoryNext
    <3>. QED  BY <2>1, <3>1, <3>2, UpKept, DownKept DEF HistoryInv
  <2>2. CASE UNCHANGED <<vars, historyVars>>
    <3>1. Inv' /\ HeldInv'  BY <2>2, NextInv, NextHeld DEF HistoryInv
    <3>. QED  BY <2>2, <3>1 DEF HistoryInv, UpIsClaimed, FailedIsDown, IsUp, vars, memory, historyVars
  <2>. QED  BY <2>1, <2>2
<1>. QED  BY <1>1, <1>2, PTL DEF HistorySpec

\* However launches, failures, crashes, resumes and second attempts follow
\* each other, the server never has two workspaces up for one entry.
THEOREM OneWorkspacePerEntryCorrect == HistorySpec => []OneWorkspacePerEntry
<1>1. ASSUME HistoryInv, NEW e \in Entry
      PROVE  Cardinality(Up(e)) <= 1
  <2>1. Up(e) \subseteq {queue[e].claim}  BY <1>1 DEF HistoryInv, UpIsClaimed, Up, IsUp
  <2>2. CASE Up(e) = {}
    <3>1. Cardinality(Up(e)) = 0  BY <2>2, FS_EmptySet
    <3>. QED  BY <3>1
  <2>3. CASE Up(e) # {}
    <3>1. Up(e) = {queue[e].claim}  BY <2>1, <2>3
    <3>2. Cardinality({queue[e].claim}) = 1  BY FS_Singleton
    <3>. QED  BY <3>1, <3>2
  <2>. QED  BY <2>2, <2>3
<1>2. HistoryInv => OneWorkspacePerEntry  BY <1>1 DEF OneWorkspacePerEntry
<1>. QED  BY <1>2, HistoryHeld, PTL

\* A launch that is given up, by itself or by the resume, leaves no workspace
\* of its running for a second attempt to meet.
THEOREM NothingRunsAfterFailureCorrect == HistorySpec => NothingRunsAfterFailure
<1>1. ASSUME HistoryInv, HistoryNext, NEW e \in Entry,
             Pending(queue, e), queue[e].claim # Null, queue'[e].claim = Null
      PROVE  queue[e].claim \notin Up(e)
  <2>1. Next /\ queue[e].claim \in Workspace
    BY <1>1 DEF HistoryInv, HistoryNext, Inv, TypeOK, Queue, Row
  <2>2. ClaimedBy(queue, e, queue[e].claim) /\ ~ClaimedBy(queue', e, queue[e].claim)
    BY <1>1 DEF ClaimedBy
  <2>. QED  BY <1>1, <2>1, <2>2, GivenUp DEF Up, IsUp
<1>2. HistoryInv /\ [HistoryNext]_<<vars, historyVars>> =>
        [\A e \in Entry :
           Pending(queue, e) /\ queue[e].claim # Null /\ queue'[e].claim = Null
              => queue[e].claim \notin Up(e)]_<<vars, historyVars>>
  BY <1>1
<1>. QED  BY <1>2, HistoryHeld, PTL DEF HistorySpec, NothingRunsAfterFailure
-----------------------------------------------------------------------------
(***************************************************************************)
(* Why an entry is released. Edits keep a release whatever they move, and  *)
(* a discard hands a release by hand on to the children: without edits,    *)
(* and without discards beside Run now, only a stop, a time or a user      *)
(* releases.                                                               *)
(***************************************************************************)
NoReleaseHandedOn == "edit" \notin Commands /\ ~({"run", "discard"} \subseteq Commands)

\* Entry `e` of table `q` is released for a reason: its parent is among the
\* stopped, its time has come by `t`, or it is one of those run `byHand`.
Reasoned(q, e, byHand, stopped, t) ==
    NotLaunching(q, e) /\ q[e].released /\ e \notin byHand =>
        \/ q[e].parent.workspace \in stopped
        \/ q[e].parent.at # Null /\ q[e].parent.at <= t

AllReasoned(q, byHand, stopped, t) == \A e \in Entry : Reasoned(q, e, byHand, stopped, t)

StopsKnown == \A w \in Workspace : stopping[w] = "recorded" => w \in stoppedNaturally
EditsAsked == \A r \in Requester : request[r].stage \in {"edit", "keep"} => "edit" \in Commands
HandsAsked == ranByHand # {} => "run" \in Commands

ReasonInv ==
    /\ StopsKnown /\ EditsAsked /\ HandsAsked
    /\ stoppedNaturally \subseteq Workspace
    /\ AllReasoned(queue, ranByHand, stoppedNaturally, now)

\* A reason stands as more workspaces stop, more is run and time goes on.
LEMMA ReasonsStand ==
    ASSUME NEW q \in Queue, NEW H, NEW H2, NEW S, NEW S2, NEW t \in Nat, NEW t2 \in Nat,
           H \subseteq H2, S \subseteq S2, t <= t2, AllReasoned(q, H, S, t)
    PROVE  AllReasoned(q, H2, S2, t2)
<1>1. SUFFICES ASSUME NEW e \in Entry, NotLaunching(q, e), q[e].released, e \notin H2
               PROVE  \/ q[e].parent.workspace \in S2
                      \/ q[e].parent.at # Null /\ q[e].parent.at <= t2
  BY DEF AllReasoned, Reasoned
<1>2. q[e].parent.workspace \in S \/ (q[e].parent.at # Null /\ q[e].parent.at <= t)
  BY <1>1 DEF AllReasoned, Reasoned
<1>3. q[e].parent.at # Null => q[e].parent.at \in Nat  BY StoreAssumption DEF Queue, Row, Parent
<1>. QED  BY <1>2, <1>3

\* A child of an entry is released by hand alone: it waits on no workspace
\* and no time.
LEMMA ChildWaitsOnEntry ==
    ASSUME NEW q \in Queue, NEW c \in Entry, NEW e \in Entry, IsChild(q, c, e), Exclusive(q[c].parent),
           NEW H, NEW S \in SUBSET Workspace, NEW t, Reasoned(q, c, H, S, t)
    PROVE  q[c].claim # Null \/ ~q[c].released \/ c \in H
<1>1. q[c].parent \in Parent /\ q[c].parent.entry = e /\ e # Null  BY StoreAssumption DEF Queue, Row, IsChild
<1>2. q[c].parent = AfterEntry(e)
  BY <1>1 DEF Exclusive, Room, AfterWorkspace, AfterEntry, AtTime
<1>3. q[c].parent.workspace = Null /\ q[c].parent.at = Null  BY <1>2 DEF AfterEntry
<1>4. Null \notin Workspace  BY StoreAssumption
<1>. QED  BY <1>3, <1>4 DEF Reasoned, NotLaunching, IsChild

\* The writes that release give a reason, and the others keep it.
LEMMA ReleasesReasoned ==
    ASSUME NEW q \in Queue, NEW H, NEW S, NEW t, AllReasoned(q, H, S, t)
    PROVE  /\ \A w \in S : AllReasoned(ChildrenReleased(q, w), H, S, t)
           /\ AllReasoned(DueReleased(q, t), H, S, t)
           /\ \A e \in H : AllReasoned(Released(q, e), H, S, t)
           /\ \A w : AllReasoned(Cascaded(q, w), H, S, t)
           /\ \A e \in Entry : \A p, g : AllReasoned(Inserted(q, e, p, g), H, S, t)
<1>0. \A c \in Entry : q[c] \in Row /\ Reasoned(q, c, H, S, t)  BY DEF Queue, AllReasoned
<1>1. ASSUME NEW w \in S, NEW c \in Entry PROVE Reasoned(ChildrenReleased(q, w), c, H, S, t)
  <2>1. CASE NotLaunching(q, c) /\ q[c].parent.workspace = w
    <3>1. ChildrenReleased(q, w)[c] = [q[c] EXCEPT !.released = TRUE, !.error = FALSE]
      BY <2>1 DEF ChildrenReleased
    <3>2. [q[c] EXCEPT !.released = TRUE, !.error = FALSE].parent = q[c].parent  BY <1>0 DEF Row
    <3>. QED  BY <1>1, <2>1, <3>1, <3>2 DEF Reasoned
  <2>2. CASE ~(NotLaunching(q, c) /\ q[c].parent.workspace = w)
    <3>1. ChildrenReleased(q, w)[c] = q[c]  BY <2>2 DEF ChildrenReleased
    <3>. QED  BY <1>0, <3>1 DEF Reasoned, NotLaunching, Pending
  <2>. QED  BY <2>1, <2>2
<1>2. ASSUME NEW c \in Entry PROVE Reasoned(DueReleased(q, t), c, H, S, t)
  <2>1. CASE IsDue(q, c, t)
    <3>1. DueReleased(q, t)[c] = [q[c] EXCEPT !.released = TRUE]  BY <2>1 DEF DueReleased
    <3>2. [q[c] EXCEPT !.released = TRUE].parent = q[c].parent  BY <1>0 DEF Row
    <3>. QED  BY <2>1, <3>1, <3>2 DEF Reasoned, IsDue
  <2>2. CASE ~IsDue(q, c, t)
    <3>1. DueReleased(q, t)[c] = q[c]  BY <2>2 DEF DueReleased
    <3>. QED  BY <1>0, <3>1 DEF Reasoned, NotLaunching, Pending
  <2>. QED  BY <2>1, <2>2
<1>3. ASSUME NEW e \in H, NEW c \in Entry PROVE Reasoned(Released(q, e), c, H, S, t)
  <2>1. CASE c = e  BY <1>3, <2>1 DEF Reasoned
  <2>2. CASE c # e
    <3>1. Released(q, e)[c] = q[c]  BY <2>2 DEF Released, Queue
    <3>. QED  BY <1>0, <3>1 DEF Reasoned, NotLaunching, Pending
  <2>. QED  BY <2>1, <2>2
<1>4. ASSUME NEW w, NEW c \in Entry PROVE Reasoned(Cascaded(q, w), c, H, S, t)
  <2>1. Cascaded(q, w)[c] \in {q[c], NoRow("deleted")}  BY DEF Cascaded
  <2>. QED  BY <1>0, <2>1 DEF Reasoned, NotLaunching, Pending, NoRow
<1>5. ASSUME NEW e \in Entry, NEW p, NEW g, NEW c \in Entry PROVE Reasoned(Inserted(q, e, p, g), c, H, S, t)
  <2>1. c = e => ~Inserted(q, e, p, g)[c].released  BY DEF Inserted, Queue
  <2>2. c # e => Inserted(q, e, p, g)[c] = q[c]  BY DEF Inserted, Queue
  <2>. QED  BY <1>0, <2>1, <2>2 DEF Reasoned, NotLaunching, Pending
<1>. QED  BY <1>1, <1>2, <1>3, <1>4, <1>5 DEF AllReasoned

\* What launches and discards do to releases. A discard hands on what its
\* row had, so nothing may have been run by hand.
LEMMA MovesReasoned ==
    ASSUME NEW q \in Queue, \A c \in Entry : Exclusive(q[c].parent),
           NEW H, NEW S \in SUBSET Workspace, NEW t, AllReasoned(q, H, S, t), NEW e \in Entry
    PROVE  /\ \A w \in Workspace : AllReasoned(Claimed(q, e, w), H, S, t)
           /\ \A w \in Workspace : AllReasoned(Finished(q, e, w), H, S, t)
           /\ \A w \in Workspace : \A error : AllReasoned(Failed(q, e, w, error), H, S, t)
           /\ \A now1 : NotLaunching(q, e) /\ H = {} => AllReasoned(Deleted(q, e, now1), H, S, t)
<1>0. \A c \in Entry : q[c] \in Row /\ Reasoned(q, c, H, S, t)  BY DEF Queue, AllReasoned
<1>a. Null \notin Workspace  BY StoreAssumption
<1>1. ASSUME NEW w \in Workspace, NEW row, ~(row.state = "pending" /\ row.claim = Null), NEW c \in Entry
      PROVE  Reasoned(ChildrenMoved(q, e, row, w), c, H, S, t)
  <2>. DEFINE r == ChildrenMoved(q, e, row, w)
  <2>1. CASE c = e  BY <1>1, <2>1 DEF ChildrenMoved, Reasoned, NotLaunching, Pending
  <2>2. CASE c # e /\ IsChild(q, c, e)
    <3>1. q[c].claim # Null \/ ~q[c].released \/ c \in H  BY <1>0, <2>2, ChildWaitsOnEntry
    <3>2. r[c].claim = q[c].claim /\ r[c].released = q[c].released
      BY <1>0, <2>2 DEF ChildrenMoved, Row
    <3>. QED  BY <3>1, <3>2 DEF Reasoned, NotLaunching
  <2>3. CASE c # e /\ ~IsChild(q, c, e)
    <3>1. r[c] = q[c]  BY <2>3 DEF ChildrenMoved
    <3>. QED  BY <1>0, <3>1 DEF Reasoned, NotLaunching, Pending
  <2>. QED  BY <2>1, <2>2, <2>3
<1>2. ASSUME NEW w \in Workspace PROVE AllReasoned(Claimed(q, e, w), H, S, t)
  <2>1. [q[e] EXCEPT !.claim = w].claim # Null  BY <1>0, <1>a DEF Row
  <2>. QED  BY <1>1, <2>1 DEF Claimed, AllReasoned
<1>3. ASSUME NEW w \in Workspace PROVE AllReasoned(Finished(q, e, w), H, S, t)
  <2>1. [q[e] EXCEPT !.state = "launched"].state # "pending"  BY <1>0 DEF Row
  <2>. QED  BY <1>0, <1>1, <2>1 DEF Finished, AllReasoned
<1>4. ASSUME NEW w \in Workspace, NEW error, NEW c \in Entry
      PROVE  Reasoned(Failed(q, e, w, error), c, H, S, t)
  <2>. DEFINE r == Failed(q, e, w, error)
  <2>1. \/ r[c] = q[c]
        \/ ~r[c].released
    <3>1. CASE ClaimedBy(q, e, w)
      <4>1. c = e => r[c] = [q[e] EXCEPT !.claim = Null, !.released = FALSE, !.error = error]
        BY <3>1 DEF Failed
      <4>2. c # e => \/ r[c] = q[c]
                     \/ ~q[c].released
                        /\ r[c] = [q[c] EXCEPT !.parent = [q[c].parent EXCEPT !.workspace = Null, !.entry = e]]
        BY <3>1 DEF Failed
      <4>. HIDE DEF r
      <4>. QED  BY <1>0, <4>1, <4>2 DEF Row
    <3>2. CASE ~ClaimedBy(q, e, w)  BY <3>2 DEF Failed
    <3>. QED  BY <3>1, <3>2
  <2>. HIDE DEF r
  <2>2. Reasoned(r, c, H, S, t)  BY <1>0, <2>1 DEF Reasoned, NotLaunching, Pending
  <2>. QED  BY <2>2 DEF r
<1>5. ASSUME NEW now1, NotLaunching(q, e), H = {}, NEW c \in Entry
      PROVE  Reasoned(Deleted(q, e, now1), c, H, S, t)
  <2>. DEFINE r == Deleted(q, e, now1)
  <2>1. CASE c = e
    <3>1. r[c] = NoRow("deleted")  BY <2>1 DEF Deleted
    <3>. QED  BY <3>1 DEF Reasoned, NotLaunching, Pending, NoRow
  <2>2. CASE c # e /\ IsChild(q, c, e)
    <3>1. r[c] = Spliced(q[c], q[e], now1)  BY <2>2 DEF Deleted
    <3>2. /\ r[c].parent = q[e].parent /\ r[c].claim = q[c].claim
          /\ r[c].released => q[c].released \/ q[e].released
      BY <1>0, <3>1 DEF Spliced, Row
    <3>3. q[c].claim # Null \/ ~q[c].released  BY <1>0, <1>5, <2>2, ChildWaitsOnEntry
    <3>. HIDE DEF r
    <3>4. Reasoned(r, c, H, S, t)  BY <1>0, <1>5, <3>2, <3>3 DEF Reasoned, NotLaunching
    <3>. QED  BY <3>4 DEF r
  <2>3. CASE c # e /\ ~IsChild(q, c, e)
    <3>1. r[c] = q[c]  BY <2>3 DEF Deleted
    <3>. QED  BY <1>0, <3>1 DEF Reasoned, NotLaunching, Pending
  <2>. QED  BY <2>1, <2>2, <2>3
<1>. QED  BY <1>2, <1>3, <1>4, <1>5 DEF AllReasoned

\* The table a step leaves is reasoned, for what has been run and has stopped
\* by then.
LEMMA StepReasoned ==
    ASSUME NoReleaseHandedOn, HistoryInv, HistoryNext, ReasonInv
    PROVE  AllReasoned(queue', ranByHand', stoppedNaturally, now)
<1>. DEFINE H == ranByHand'
            S == stoppedNaturally
<1>0. /\ Inv /\ HeldInv /\ TypeOK /\ Next /\ queue \in Queue /\ now \in Nat
      /\ S \in SUBSET Workspace /\ \A c \in Entry : Exclusive(queue[c].parent)
  BY QueuedWorkspacesAssumption DEF HistoryInv, HistoryNext, ReasonInv, Inv, TypeOK, Consistent, Sound
<1>1. ranByHand \subseteq H /\ \A e \in Entry : (\E p \in Launcher : RunNow(e, p)) => e \in H
  BY DEF HistoryNext
<1>2. AllReasoned(queue, H, S, now)  BY <1>0, <1>1, ReasonsStand DEF ReasonInv
<1>. HIDE DEF H, S
<1>. SUFFICES AllReasoned(queue', H, S, now)  BY DEF H, S
<1>3. ASSUME NEW e \in Entry, NEW w \in Workspace, NEW error,
             queue' = queue \/ queue' = Claimed(queue, e, w) \/ queue' = Finished(queue, e, w)
             \/ queue' = Failed(queue, e, w, error)
      PROVE  AllReasoned(queue', H, S, now)
  <2>1. /\ AllReasoned(Claimed(queue, e, w), H, S, now)
        /\ AllReasoned(Finished(queue, e, w), H, S, now)
        /\ AllReasoned(Failed(queue, e, w, error), H, S, now)
    BY <1>0, <1>2, MovesReasoned
  <2>. QED  BY <1>2, <1>3, <2>1
<1>4. ASSUME NEW p \in Launcher, LauncherStep(p)
      PROVE  AllReasoned(queue', H, S, now)
  <2>1. CASE ClaimLaunch(p)
    <3>1. launcher[p].entry \in Entry /\ launcher[p].workspace \in Workspace
      BY <1>0, <2>1, Stages DEF ClaimLaunch, Claiming
    <3>2. queue' = queue \/ queue' = Claimed(queue, launcher[p].entry, launcher[p].workspace)
      BY <2>1 DEF ClaimLaunch
    <3>. QED  BY <1>3, <3>1, <3>2
  <2>2. CASE ListWaiting(p) \/ LoseRow(p) \/ FindFull(p)
    BY <1>2, <2>2 DEF ListWaiting, LoseRow, FindFull
  <2>3. CASE TakeSlot(p)
    <3>1. queue' = queue  BY Zenon, <2>3 DEF TakeSlot
    <3>. QED  BY <1>2, <3>1
  <2>. QED  BY <1>4, <2>1, <2>2, <2>3 DEF LauncherStep
<1>5. ASSUME NEW l \in launches, LaunchStep(l)
      PROVE  AllReasoned(queue', H, S, now)
  <2>1. l.entry \in Entry /\ l.workspace \in Workspace  BY <1>0 DEF TypeOK, Launch
  <2>2. \/ queue' = queue
        \/ queue' = Finished(queue, l.entry, l.workspace)
        \/ queue' = Failed(queue, l.entry, l.workspace, LaunchError(l))
    BY <1>5 DEF LaunchStep, LaunchRuns, LaunchFails, LaunchStopped, RecordFinish, RecordFailure, SettleLaunch
  <2>. QED  BY <1>3, <2>1, <2>2
<1>6. CASE ResumeStep
  <2>1. CASE ResumeResolve
    <3>. DEFINE e == boot.entry
                w == boot.todo[e].claim
    <3>1. boot \in Settling /\ boot.stage = "resolve"  BY <1>0, <2>1, Stages DEF ResumeResolve
    <3>2. e \in Entry /\ boot.todo[e] # Null  BY <1>0, <3>1 DEF Settling, Inv, ResumesClaimed
    <3>3. w \in Workspace  BY <1>0, <3>2 DEF HeldInv, ResumeKnows, SpentIds
    <3>4. queue' = queue \/ queue' = Finished(queue, e, w) \/ queue' = Failed(queue, e, w, TRUE)
      BY <2>1 DEF ResumeResolve
    <3>. HIDE DEF e, w
    <3>. QED  BY <1>3, <3>2, <3>3, <3>4
  <2>2. CASE ResumeList \/ ResumeRow \/ ResumeDone
    <3>1. queue' = queue  BY <2>2 DEF ResumeList, ResumeRow, ResumeDone
    <3>. QED  BY <1>2, <3>1
  <2>. QED  BY <1>6, <2>1, <2>2 DEF ResumeStep
<1>7. ASSUME NEW r \in Requester, RequestStep(r)
      PROVE  AllReasoned(queue', H, S, now)
  <2>1. ~WriteEdit(r)  BY DEF WriteEdit, ReasonInv, EditsAsked, NoReleaseHandedOn
  <2>2. \/ queue' = queue
        \/ \E e \in Entry : queue' = Inserted(queue, e, request[r].parent, request[r].group)
    BY <1>7, <2>1 DEF RequestStep, ResolveQueue, InsertQueued, ResolveEdit
  <2>. QED  BY <1>0, <1>2, <2>2, ReleasesReasoned
<1>8. ASSUME NEW e \in Entry, Discard(e) \/ \E p \in Launcher : RunNow(e, p)
      PROVE  AllReasoned(queue', H, S, now)
  <2>1. CASE Discard(e)
    <3>1. NotLaunching(queue, e) /\ queue' = Deleted(queue, e, now) /\ "discard" \in Commands
      BY <2>1 DEF Discard
    <3>2. "run" \notin Commands  BY <3>1 DEF NoReleaseHandedOn
    <3>3. H = {}  BY <3>2 DEF H, HistoryNext, RunNow, ReasonInv, HandsAsked
    <3>. QED  BY <1>0, <1>2, <3>1, <3>3, MovesReasoned
  <2>2. CASE \E p \in Launcher : RunNow(e, p)
    <3>1. e \in H /\ queue' = Released(queue, e)  BY <1>1, <2>2 DEF RunNow
    <3>. QED  BY <1>0, <1>2, <3>1, ReleasesReasoned
  <2>. QED  BY <1>8, <2>1, <2>2
<1>9. ASSUME NEW w \in Workspace, StopStep(w) PROVE AllReasoned(queue', H, S, now)
  <2>1. CASE RecordStop(w)  BY <1>2, <2>1 DEF RecordStop
  <2>2. CASE ReleaseChildren(w)
    <3>1. w \in S /\ queue' = ChildrenReleased(queue, w)
      BY <2>2 DEF ReleaseChildren, ReasonInv, StopsKnown, S
    <3>. QED  BY <1>0, <1>2, <3>1, ReleasesReasoned
  <2>. QED  BY <1>9, <2>1, <2>2 DEF StopStep
<1>10. CASE WorkspaceCommand \/ Tick \/ ReleaseDue \/ ReconcilePass \/ Crash
  <2>1. \/ queue' = queue
        \/ queue' = DueReleased(queue, now)
        \/ \E w \in Workspace : queue' = Cascaded(queue, w)
    BY <1>10 DEF WorkspaceCommand, AskStop, Die, Restart, HoldForDelete, CheckDelete, DeleteWorkspace, Tick,
                 ReleaseDue, ReconcilePass, Crash
  <2>. QED  BY <1>0, <1>2, <2>1, ReleasesReasoned
<1>. QED  BY <1>0, <1>4, <1>5, <1>6, <1>7, <1>8, <1>9, <1>10 DEF Next, EntryCommand, H, S

\* Edits and hand-run entries come of commands, and a recorded stop is known.
LEMMA AskedKept ==
    ASSUME HistoryInv, HistoryNext, ReasonInv
    PROVE  /\ StopsKnown' /\ EditsAsked' /\ HandsAsked'
           /\ stoppedNaturally \subseteq stoppedNaturally' /\ stoppedNaturally' \subseteq Workspace
           /\ now \in Nat /\ now' \in Nat /\ now <= now'
<1>0. TypeOK /\ Next /\ MaxTime \in Nat  BY QueuedWorkspacesAssumption DEF HistoryInv, HistoryNext, Inv
<1>1. StopsKnown'
  <2>1. \A w \in Workspace : stopping'[w] = "recorded" => stopping[w] \in {"recorded", "asked"}
    <3>1. ASSUME NEW x \in Workspace, StopStep(x) \/ AskStop(x)
          PROVE  \A w \in Workspace : stopping'[w] = "recorded" => stopping[w] \in {"recorded", "asked"}
      BY <1>0, <3>1 DEF StopStep, RecordStop, ReleaseChildren, AskStop, TypeOK
    <3>2. CASE Crash  BY <3>2 DEF Crash
    <3>3. ASSUME NEW l \in launches, LaunchFails(l) \/ LaunchStopped(l)
          PROVE  \A w \in Workspace : stopping'[w] = "recorded" => stopping[w] \in {"recorded", "asked"}
      BY <1>0, <3>3 DEF LaunchFails, LaunchStopped, TypeOK
    <3>4. ASSUME ~Crash, \A x \in Workspace : ~StopStep(x) /\ ~AskStop(x),
                 \A l \in launches : ~LaunchFails(l) /\ ~LaunchStopped(l)
          PROVE  stopping' = stopping
      <4>1. ASSUME NEW p \in Launcher, LauncherStep(p) PROVE stopping' = stopping
        BY Zenon, <4>1 DEF LauncherStep, ListWaiting, LoseRow, FindFull, TakeSlot, ClaimLaunch
      <4>2. ASSUME NEW l \in launches, LaunchStep(l) PROVE stopping' = stopping
        BY <3>4, <4>2 DEF LaunchStep, LaunchRuns, RecordFinish, RecordFailure, SettleLaunch
      <4>3. ASSUME (\E r \in Requester : RequestStep(r)) \/ EntryCommand PROVE stopping' = stopping
        BY <4>3 DEF RequestStep, ResolveQueue, InsertQueued, WriteEdit, ResolveEdit, EntryCommand, Discard, RunNow
      <4>4. CASE WorkspaceCommand \/ Tick \/ ReleaseDue \/ ReconcilePass
        BY <3>4, <4>4 DEF WorkspaceCommand, Die, Restart, memory, HoldForDelete, CheckDelete, DeleteWorkspace, Tick,
                   ReleaseDue, ReconcilePass
      <4>5. CASE ResumeStep
        BY <4>5 DEF ResumeStep, ResumeList, ResumeRow, ResumeResolve, ResumeDone
      <4>. QED  BY <1>0, <3>4, <4>1, <4>2, <4>3, <4>4, <4>5 DEF Next
    <3>. QED  BY <3>1, <3>2, <3>3, <3>4
  <2>. QED  BY <2>1 DEF HistoryNext, ReasonInv, StopsKnown
<1>2. EditsAsked'
  <2>1. ASSUME NEW r \in Requester, RequestStep(r) PROVE EditsAsked'
    <3>1. ASSUME NEW e \in Entry, ResolveEdit(r, e) PROVE EditsAsked'
      BY <3>1 DEF ResolveEdit, EditsAsked
    <3>2. CASE ResolveQueue(r)
      <4>1. request \in [Requester -> {Waiting} \cup Queueing \cup Editing]  BY <1>0 DEF TypeOK
      <4>2. PICK parent, g :
              request' = [request EXCEPT ![r] = [stage |-> "queue", entry |-> Null, parent |-> parent, group |-> g]]
        BY <3>2 DEF ResolveQueue
      <4>3. request'[r].stage = "queue" /\ \A x \in Requester \ {r} : request'[x] = request[x]
        BY <4>1, <4>2
      <4>. QED  BY <4>3 DEF ReasonInv, EditsAsked
    <3>3. CASE InsertQueued(r) \/ WriteEdit(r)
      <4>1. request' = [request EXCEPT ![r] = Waiting]  BY <3>3 DEF InsertQueued, WriteEdit
      <4>2. request'[r].stage = "idle" /\ \A x \in Requester \ {r} : request'[x] = request[x]
        BY <1>0, <4>1 DEF TypeOK, Waiting
      <4>. QED  BY <4>2 DEF ReasonInv, EditsAsked
    <3>. QED  BY <2>1, <3>1, <3>2, <3>3 DEF RequestStep
  <2>2. CASE Crash  BY <2>2 DEF Crash, EditsAsked, Waiting
  <2>3. ASSUME ~Crash, \A r \in Requester : ~RequestStep(r) PROVE request' = request
    <3>1. ASSUME NEW p \in Launcher, LauncherStep(p) PROVE request' = request
      BY Zenon, <3>1 DEF LauncherStep, ListWaiting, LoseRow, FindFull, TakeSlot, ClaimLaunch
    <3>2. ASSUME NEW l \in launches, LaunchStep(l) PROVE request' = request
      BY <3>2 DEF LaunchStep, LaunchRuns, LaunchFails, LaunchStopped, RecordFinish, RecordFailure, SettleLaunch
    <3>3. ASSUME EntryCommand \/ (\E w \in Workspace : StopStep(w)) \/ WorkspaceCommand PROVE request' = request
      BY <3>3 DEF EntryCommand, Discard, RunNow, StopStep, RecordStop, ReleaseChildren, WorkspaceCommand, AskStop,
                  Die, Restart, memory, HoldForDelete, CheckDelete, DeleteWorkspace
    <3>4. CASE Tick \/ ReleaseDue \/ ReconcilePass
      BY <3>4 DEF Tick, memory, ReleaseDue, ReconcilePass
    <3>5. CASE ResumeRow \/ ResumeResolve
      BY <3>5 DEF ResumeRow, ResumeResolve
    <3>6. CASE ResumeList \/ ResumeDone
      BY Zenon, <3>6 DEF ResumeList, ResumeDone
    <3>. QED  BY <1>0, <2>3, <3>1, <3>2, <3>3, <3>4, <3>5, <3>6 DEF Next, ResumeStep
  <2>. QED  BY <2>1, <2>2, <2>3 DEF ReasonInv, EditsAsked
<1>3. HandsAsked'  BY DEF HistoryNext, RunNow, ReasonInv, HandsAsked
<1>4. now \in Nat /\ now' \in Nat /\ now <= now'
  <2>1. now' = now \/ Tick
    <3>1. ASSUME NEW p \in Launcher, LauncherStep(p) PROVE now' = now
      BY Zenon, <3>1 DEF LauncherStep, ListWaiting, LoseRow, FindFull, TakeSlot, ClaimLaunch
    <3>2. ASSUME NEW l \in launches, LaunchStep(l) PROVE now' = now
      BY <3>2 DEF LaunchStep, LaunchRuns, LaunchFails, LaunchStopped, RecordFinish, RecordFailure, SettleLaunch
    <3>3. ASSUME (\E r \in Requester : RequestStep(r)) \/ EntryCommand PROVE now' = now
      BY <3>3 DEF RequestStep, ResolveQueue, InsertQueued, WriteEdit, ResolveEdit, EntryCommand, Discard, RunNow
    <3>4. ASSUME (\E w \in Workspace : StopStep(w)) \/ WorkspaceCommand PROVE now' = now
      BY <3>4 DEF StopStep, RecordStop, ReleaseChildren, WorkspaceCommand, AskStop, Die, Restart, memory,
                  HoldForDelete, CheckDelete, DeleteWorkspace
    <3>5. CASE ReleaseDue \/ ReconcilePass \/ Crash \/ ResumeStep
      BY <3>5 DEF ReleaseDue, ReconcilePass, Crash, ResumeStep, ResumeList, ResumeRow, ResumeResolve, ResumeDone
    <3>. QED  BY <1>0, <3>1, <3>2, <3>3, <3>4, <3>5 DEF Next
  <2>. QED  BY <1>0, <2>1 DEF Tick, TypeOK
<1>5. stoppedNaturally \subseteq stoppedNaturally' /\ stoppedNaturally' \subseteq Workspace
  BY DEF HistoryNext, ReasonInv
<1>. QED  BY <1>1, <1>2, <1>3, <1>4, <1>5

LEMMA ReasonKept ==
    ASSUME NoReleaseHandedOn, HistoryInv, HistoryInv', ReasonInv, [HistoryNext]_<<vars, historyVars>>
    PROVE  ReasonInv'
<1>1. CASE HistoryNext
  <2>1. queue' \in Queue  BY DEF HistoryInv, Inv, TypeOK
  <2>2. AllReasoned(queue', ranByHand', stoppedNaturally', now')
    BY <1>1, <2>1, StepReasoned, AskedKept, ReasonsStand
  <2>. QED  BY <1>1, <2>2, AskedKept DEF ReasonInv
<1>2. CASE UNCHANGED <<vars, historyVars>>
  BY <1>2 DEF vars, memory, historyVars, ReasonInv, StopsKnown, EditsAsked, HandsAsked, AllReasoned
<1>. QED  BY <1>1, <1>2

\* Without edits, and without discards where entries are run by hand, an
\* entry nobody ran is released only by the stop of the workspace it waits
\* on, or by its time: neither a launch that takes its children back, nor a
\* death, a crash, a resume or a discard releases anything by mistake.
THEOREM ReleasedByItsParentCorrect ==
    ASSUME NoReleaseHandedOn
    PROVE  HistorySpec => []ReleasedByItsParent
<1>1. HistoryInit => ReasonInv
  <2>. SUFFICES ASSUME HistoryInit PROVE ReasonInv  OBVIOUS
  <2>1. \A e \in Entry : queue[e].state = "unused"  BY DEF HistoryInit, Init, NoRow
  <2>2. AllReasoned(queue, ranByHand, stoppedNaturally, now)
    BY <2>1 DEF AllReasoned, Reasoned, NotLaunching, Pending
  <2>. QED  BY <2>2 DEF HistoryInit, Init, Waiting, ReasonInv, StopsKnown, EditsAsked, HandsAsked
<1>2. HistoryInv /\ HistoryInv' /\ ReasonInv /\ [HistoryNext]_<<vars, historyVars>> => ReasonInv'
  BY ReasonKept
<1>3. ReasonInv => ReleasedByItsParent  BY DEF ReasonInv, AllReasoned, Reasoned, ReleasedByItsParent
<1>. QED  BY <1>1, <1>2, <1>3, HistoryHeld, PTL DEF HistorySpec
=============================================================================
