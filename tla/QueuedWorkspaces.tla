------------------------- MODULE QueuedWorkspaces -------------------------
(***************************************************************************)
(* Queued workspaces (domain/workspaces/queued-workspaces.ts): create      *)
(* requests that wait for a parent to stop naturally, for room in a group, *)
(* or for a time, and are then launched by the server.                     *)
(*                                                                         *)
(* The server is one process, so code between two awaits is one action and *)
(* everything that awaits in between is several. `queue` and `workspace`   *)
(* survive a crash; the rest is the server's memory. Whether a group has   *)
(* room is GroupLimits' subject: here `groupFull` may answer anything in   *)
(* FullAnswers.                                                            *)
(***************************************************************************)
EXTENDS QueuedWorkspaceStore

CONSTANTS
    Existing,     \* the workspaces running at the start
    Launcher,     \* bound: concurrent passes over the queue and Run nows
    Requester,    \* bound: concurrent queue and edit requests
    Commands,     \* what users, agents and the runtime do in this instance
    FullAnswers,  \* what groupFull may answer
    MaxTime,      \* bound on the clock
    MaxCrashes    \* bound on server restarts

AllCommands == {"queue", "edit", "discard", "run", "stop", "die", "restart", "delete"}

ASSUME QueuedWorkspacesAssumption ==
    /\ Existing \subseteq Workspace
    /\ Commands \subseteq AllCommands
    /\ FullAnswers \subseteq BOOLEAN
    /\ MaxTime \in Nat
    /\ MaxCrashes \in Nat
    /\ Null \notin Row

VARIABLES
    queue,       \* the table of queued workspaces
    workspace,   \* what is known of each workspace id
    now,         \* the clock
    launching,   \* the set `launching`: entries this process is launching
    launches,    \* the detached launches, from the claim to their `finally`
    passDue,     \* startWaitingWorkspaces was called and has yet to list
    launcher,    \* passes of startWaitingWorkspaces, and Run nows
    request,     \* queue and edit requests, between resolving and writing
    stopping,    \* stops under way, by workspace
    deleting,    \* deletes under way, by workspace; the set `deleting` holds those not at "no"
    boot,        \* resumeQueuedWorkspaces
    crashes

memory == <<launching, launches, passDue, launcher, request, stopping, deleting, boot>>
vars   == <<queue, workspace, now, memory, crashes>>

\* "drawn" is a uuid a launch has picked but not claimed; a "gone" workspace
\* was rolled back or deleted.
WorkspaceState == {"unused", "drawn", "creating", "running", "stopped", "gone"}

\* The rows some listing read and its caller has yet to handle.
Rows     == [Entry -> Row \cup {Null}]
NoRows   == [e \in Entry |-> Null]
Launch   == [entry : Entry, workspace : Workspace, row : Row,
             stage : {"provisioning", "ran", "failed", "stopped", "recorded", "returned"}]
Idle     == [stage |-> "idle", todo |-> NoRows, full |-> {}, entry |-> Null, workspace |-> Null, row |-> Null]
Waiting  == [stage |-> "idle", entry |-> Null, parent |-> Null, group |-> Null]
BootDone == [stage |-> "done", todo |-> NoRows, entry |-> Null, verdict |-> Null]
BootDue  == [BootDone EXCEPT !.stage = "due"]

\* A launcher that reads a group's room for a row, or claims the row's launch.
Reading  == [stage : {"room"}, todo : Rows, full : SUBSET (Group \cup {Null}),
             entry : Entry, workspace : {Null}, row : Row]
Claiming == [stage : {"claim"}, todo : Rows, full : SUBSET (Group \cup {Null}),
             entry : Entry, workspace : Workspace, row : Row]
\* A request that has resolved what it will write.
Queueing == [stage : {"queue"}, entry : {Null}, parent : Parent, group : Group]
Editing  == [stage : {"edit", "keep"}, entry : Entry, parent : Parent, group : Group]
\* A resume between two rows, or with a row looked up.
Resuming == [stage : {"rows"}, todo : Rows, entry : {Null}, verdict : {Null}]
Settling == [stage : {"resolve"}, todo : Rows, entry : Entry, verdict : {"finish", "fail"}]

TypeOK ==
    /\ queue \in Queue
    /\ workspace \in [Workspace -> WorkspaceState]
    /\ now \in 0 .. MaxTime
    /\ launching \subseteq Entry
    /\ launches \subseteq Launch
    /\ passDue \in BOOLEAN
    /\ launcher \in [Launcher -> {Idle} \cup Reading \cup Claiming]
    /\ request \in [Requester -> {Waiting} \cup Queueing \cup Editing]
    /\ stopping \in [Workspace -> {"no", "asked", "recorded"}]
    /\ deleting \in [Workspace -> {"no", "held", "checked"}]
    /\ boot \in {BootDue, BootDone} \cup Resuming \cup Settling
    /\ crashes \in 0 .. MaxCrashes

Init ==
    /\ queue = [e \in Entry |-> NoRow("unused")]
    /\ workspace = [w \in Workspace |-> IF w \in Existing THEN "running" ELSE "unused"]
    /\ now = 0
    /\ launching = {}
    /\ launches = {}
    /\ passDue = FALSE
    /\ launcher = [p \in Launcher |-> Idle]
    /\ request = [r \in Requester |-> Waiting]
    /\ stopping = [w \in Workspace |-> "no"]
    /\ deleting = [w \in Workspace |-> "no"]
    /\ boot = BootDue
    /\ crashes = 0
-----------------------------------------------------------------------------
(***************************************************************************)
(* startWaitingWorkspaces and launch.                                      *)
(***************************************************************************)
\* Call startWaitingWorkspaces; its listing is a later step. Calls that have
\* yet to list have nothing to tell them apart, so that one is due is all
\* there is to know of them.
StartWaiting == passDue' = TRUE

Oldest(todo) == CHOOSE e \in Entry : todo[e] # Null /\ \A x \in Entry : todo[x] # Null => e <= x

\* The loop up to its next await: rows whose entry is launching or whose
\* group was found full are passed over, and the room of the first other
\* row's group is read.
NextRow(todo, full, busy) ==
    LET ready == [e \in Entry |-> IF todo[e] # Null /\ e \notin busy /\ todo[e].group \notin full
                                  THEN todo[e] ELSE Null]
        e     == Oldest(ready)
    IN  IF ready = NoRows
        THEN Idle
        ELSE [stage |-> "room", todo |-> [x \in Entry |-> IF x <= e THEN Null ELSE todo[x]],
              full |-> full, entry |-> e, row |-> todo[e], workspace |-> Null]

\* Mutant: only released rows are listed.
ListReleased(p) ==
    /\ passDue
    /\ passDue' = FALSE
    /\ launcher[p].stage = "idle"
    /\ launcher' = [launcher EXCEPT ![p] =
          NextRow([e \in Entry |-> IF WaitsForRoom(queue[e]) /\ queue[e].released THEN queue[e] ELSE Null],
                  {}, launching)]
    /\ UNCHANGED <<queue, workspace, now, launching, launches, request, stopping, deleting, boot, crashes>>

ListWaiting(p) ==
    /\ passDue
    /\ passDue' = FALSE
    /\ launcher[p].stage = "idle"
    /\ launcher' = [launcher EXCEPT ![p] =
          NextRow([e \in Entry |-> IF WaitsForRoom(queue[e]) THEN queue[e] ELSE Null], {}, launching)]
    /\ UNCHANGED <<queue, workspace, now, launching, launches, request, stopping, deleting, boot, crashes>>

\* Another launcher took the entry during the read.
LoseRow(p) ==
    /\ launcher[p].stage = "room"
    /\ launcher[p].entry \in launching
    /\ launcher' = [launcher EXCEPT ![p] = NextRow(launcher[p].todo, launcher[p].full, launching)]
    /\ UNCHANGED <<queue, workspace, now, launching, launches, passDue, request, stopping, deleting, boot, crashes>>

\* groupFull answers that the group of the row, as listed, has no room.
FindFull(p) ==
    /\ launcher[p].stage = "room"
    /\ launcher[p].entry \notin launching
    /\ TRUE \in FullAnswers
    /\ launcher' = [launcher EXCEPT ![p] =
          NextRow(launcher[p].todo, launcher[p].full \cup {launcher[p].row.group}, launching)]
    /\ UNCHANGED <<queue, workspace, now, launching, launches, passDue, request, stopping, deleting, boot, crashes>>

\* The synchronous half of launch: the entry is marked as launching under a
\* fresh workspace id, and its slot is taken.
TakeSlot(p) ==
    /\ launcher[p].stage = "room"
    /\ launcher[p].entry \notin launching
    /\ FALSE \in FullAnswers
    /\ launching' = launching \cup {launcher[p].entry}
    /\ \E w \in Workspace :
         /\ workspace[w] = "unused"
         /\ workspace' = [workspace EXCEPT ![w] = "drawn"]
         /\ launcher' = [launcher EXCEPT ![p] = [launcher[p] EXCEPT !.stage = "claim", !.workspace = w]]
    /\ UNCHANGED <<queue, now, launches, passDue, request, stopping, deleting, boot, crashes>>

\* The compare-and-set claim; what it launches is the row as listed.
ClaimLaunch(p) ==
    LET e == launcher[p].entry
        w == launcher[p].workspace
    IN  /\ launcher[p].stage = "claim"
        /\ IF NotLaunching(queue, e)
           THEN /\ queue' = Claimed(queue, e, w)
                /\ workspace' = [workspace EXCEPT ![w] = "creating"]
                /\ launches' = launches \cup
                      {[entry |-> e, workspace |-> w, row |-> launcher[p].row, stage |-> "provisioning"]}
                /\ UNCHANGED launching
           ELSE /\ launching' = launching \ {e}
                /\ workspace' = [workspace EXCEPT ![w] = "gone"]
                /\ UNCHANGED <<queue, launches>>
        /\ launcher' = [launcher EXCEPT ![p] = NextRow(launcher[p].todo, launcher[p].full, launching')]
        /\ UNCHANGED <<now, passDue, request, stopping, deleting, boot, crashes>>

(***************************************************************************)
(* The detached half of launch.                                            *)
(***************************************************************************)
Advance(l, stage) == launches' = (launches \ {l}) \cup {[l EXCEPT !.stage = stage]}

\* prepareStart and its run: the agent runs.
LaunchRuns(l) ==
    /\ l.stage = "provisioning"
    /\ Advance(l, "ran")
    /\ workspace' = [workspace EXCEPT ![l.workspace] = "running"]
    /\ UNCHANGED <<queue, now, launching, passDue, launcher, request, stopping, deleting, boot, crashes>>

\* The create fails, or its window is already over: nothing is left of it. A
\* provision that fails in a group reports the slot it frees.
LaunchFails(l) ==
    /\ l.stage = "provisioning"
    /\ Advance(l, "failed")
    /\ workspace' = [workspace EXCEPT ![l.workspace] = "gone"]
    /\ stopping' = [stopping EXCEPT ![l.workspace] = "no"]
    /\ passDue' \in {passDue, TRUE}
    /\ UNCHANGED <<queue, now, launching, launcher, request, deleting, boot, crashes>>

\* A stop asked for meanwhile rolls the create back; the stop releases
\* nothing, and looks for what its freed slot lets start.
LaunchStopped(l) ==
    /\ l.stage = "provisioning"
    /\ stopping[l.workspace] = "asked"
    /\ Advance(l, "stopped")
    /\ workspace' = [workspace EXCEPT ![l.workspace] = "gone"]
    /\ stopping' = [stopping EXCEPT ![l.workspace] = "no"]
    /\ StartWaiting
    /\ UNCHANGED <<queue, now, launching, launcher, request, deleting, boot, crashes>>

\* Mutant: a stop asked for is taken as a failed launch after the run too.
RecordFinishUnlessAsked(l) ==
    /\ l.stage = "ran"
    /\ IF stopping[l.workspace] = "asked"
       THEN Advance(l, "failed") /\ UNCHANGED queue
       ELSE Advance(l, "recorded") /\ queue' = Finished(queue, l.entry, l.workspace)
    /\ UNCHANGED <<workspace, now, launching, passDue, launcher, request, stopping, deleting, boot, crashes>>

\* The record names the workspace by a foreign key, so one already deleted
\* again turns the finish into a failure.
RecordFinish(l) ==
    /\ l.stage = "ran"
    /\ IF workspace[l.workspace] = "gone"
       THEN Advance(l, "failed") /\ UNCHANGED queue
       ELSE Advance(l, "recorded") /\ queue' = Finished(queue, l.entry, l.workspace)
    /\ UNCHANGED <<workspace, now, launching, passDue, launcher, request, stopping, deleting, boot, crashes>>

\* A stop is no error, except for an entry that would relaunch at once.
LaunchError(l) == l.stage = "failed" \/ l.row.parent = Room \/ l.row.parent.at # Null

RecordFailure(l) ==
    /\ l.stage \in {"failed", "stopped"}
    /\ Advance(l, "returned")
    /\ queue' = Failed(queue, l.entry, l.workspace, LaunchError(l))
    /\ UNCHANGED <<workspace, now, launching, passDue, launcher, request, stopping, deleting, boot, crashes>>

\* `finally`, and after a failure the slot it frees.
SettleLaunch(l) ==
    /\ l.stage \in {"recorded", "returned"}
    /\ launches' = launches \ {l}
    /\ launching' = launching \ {l.entry}
    /\ IF l.stage = "returned" THEN StartWaiting ELSE UNCHANGED passDue
    /\ UNCHANGED <<queue, workspace, now, launcher, request, stopping, deleting, boot, crashes>>
-----------------------------------------------------------------------------
(***************************************************************************)
(* Requests.                                                               *)
(***************************************************************************)
\* What a parent resolves to: a workspace with a row or still being created,
\* an entry (the workspace it is becoming if it is launching), room, a time.
Resolvable ==
    {Room}
    \cup {AtTime(t) : t \in StartTime}
    \cup {AfterWorkspace(w) : w \in {x \in Workspace : workspace[x] \in {"creating", "running", "stopped"}}}
    \cup {AfterWorkspace(queue[e].claim) : e \in {x \in Entry : Pending(queue, x) /\ queue[x].claim # Null}}
    \cup {AfterEntry(e) : e \in {x \in Entry : NotLaunching(queue, x)}}

ResolveQueue(r) ==
    /\ "queue" \in Commands
    /\ request[r].stage = "idle"
    /\ \E parent \in Resolvable, g \in Group :
         request' = [request EXCEPT ![r] = [stage |-> "queue", entry |-> Null, parent |-> parent, group |-> g]]
    /\ UNCHANGED <<queue, workspace, now, launching, launches, passDue, launcher, stopping, deleting, boot, crashes>>

\* Mutant: the write does not look at the holds again.
ParentNeverHeld(parent) == FALSE

\* refuseDeletedParent.
ParentHeld(parent) == \E w \in Workspace : deleting[w] # "no" /\ parent.workspace = w

\* The next number is the new row's id.
InsertQueued(r) ==
    /\ request[r].stage = "queue"
    /\ request' = [request EXCEPT ![r] = Waiting]
    /\ IF ParentHeld(request[r].parent)
       THEN UNCHANGED <<queue, passDue>>
       ELSE /\ \E e \in Entry :
                 /\ queue[e].state = "unused"
                 /\ \A x \in Entry : x < e => queue[x].state # "unused"
                 /\ queue' = Inserted(queue, e, request[r].parent, request[r].group)
            /\ StartWaiting
    /\ UNCHANGED <<workspace, now, launching, launches, launcher, stopping, deleting, boot, crashes>>

Editable(e) == NotLaunching(queue, e) /\ e \notin launching

\* A "keep" edit leaves the parent alone; it still carries the row's pointer.
ResolveEdit(r, e) ==
    /\ "edit" \in Commands
    /\ request[r].stage = "idle"
    /\ Editable(e)
    /\ \E g \in Group :
         \/ \E parent \in Resolvable :
              request' = [request EXCEPT ![r] = [stage |-> "edit", entry |-> e, parent |-> parent, group |-> g]]
         \/ request' = [request EXCEPT ![r] = [stage |-> "keep", entry |-> e, parent |-> queue[e].parent, group |-> g]]
    /\ UNCHANGED <<queue, workspace, now, launching, launches, passDue, launcher, stopping, deleting, boot, crashes>>

\* Refused if a delete holds the parent, if the row is gone or mid-launch,
\* or if the parent would close a cycle.
WriteEdit(r) ==
    LET e      == request[r].entry
        parent == request[r].parent
        moves  == request[r].stage = "edit"
    IN  /\ request[r].stage \in {"edit", "keep"}
        /\ request' = [request EXCEPT ![r] = Waiting]
        /\ IF \/ ParentHeld(parent)
              \/ ~NotLaunching(queue, e)
              \/ moves /\ ClosesCycle(queue, e, parent)
           THEN UNCHANGED <<queue, passDue>>
           ELSE /\ queue' = Updated(queue, e, IF moves THEN parent ELSE Null, request[r].group)
                /\ StartWaiting
        /\ UNCHANGED <<workspace, now, launching, launches, launcher, stopping, deleting, boot, crashes>>

\* The delete's own guard decides: editableRow was checked before an await.
Discard(e) ==
    /\ "discard" \in Commands
    /\ NotLaunching(queue, e)
    /\ queue' = Deleted(queue, e, now)
    /\ StartWaiting
    /\ UNCHANGED <<workspace, now, launching, launches, launcher, request, stopping, deleting, boot, crashes>>

\* Run now: the release, then launch of the released row.
RunNow(e, p) ==
    /\ "run" \in Commands
    /\ NotLaunching(queue, e)
    /\ launcher[p].stage = "idle"
    /\ queue' = Released(queue, e)
    /\ launcher' = [launcher EXCEPT ![p] = NextRow([NoRows EXCEPT ![e] = queue'[e]], {}, launching)]
    /\ UNCHANGED <<workspace, now, launching, launches, passDue, request, stopping, deleting, boot, crashes>>
-----------------------------------------------------------------------------
(***************************************************************************)
(* What happens to workspaces.                                             *)
(***************************************************************************)
\* stopWorkspace: of a running workspace, or of one a launch is creating,
\* which then either rolls back (LaunchStopped) or runs and is stopped.
AskStop(w) ==
    /\ "stop" \in Commands
    /\ stopping[w] = "no"
    /\ \/ workspace[w] = "running"
       \/ \E l \in launches : l.workspace = w /\ l.stage = "provisioning"
    /\ stopping' = [stopping EXCEPT ![w] = "asked"]
    /\ UNCHANGED <<queue, workspace, now, launching, launches, passDue, launcher, request, deleting, boot, crashes>>

\* The stop is recorded and the runtime torn down. If it died meanwhile, the
\* stop either goes on, having found its runtime before, or ends here.
RecordStop(w) ==
    /\ stopping[w] = "asked"
    /\ \/ /\ workspace[w] \in {"running", "stopped"}
          /\ workspace' = [workspace EXCEPT ![w] = "stopped"]
          /\ stopping' = [stopping EXCEPT ![w] = "recorded"]
       \/ /\ workspace[w] \in {"stopped", "gone"}
          /\ stopping' = [stopping EXCEPT ![w] = "no"]
          /\ UNCHANGED workspace
    /\ UNCHANGED <<queue, now, launching, launches, passDue, launcher, request, deleting, boot, crashes>>

\* Mutant: the stop starts a pass and forgets the release.
ReleaseNone(w) ==
    /\ stopping[w] = "recorded"
    /\ stopping' = [stopping EXCEPT ![w] = "no"]
    /\ StartWaiting
    /\ UNCHANGED <<queue, workspace, now, launching, launches, launcher, request, deleting, boot, crashes>>

\* startQueuedChildren.
ReleaseChildren(w) ==
    /\ stopping[w] = "recorded"
    /\ stopping' = [stopping EXCEPT ![w] = "no"]
    /\ queue' = ChildrenReleased(queue, w)
    /\ StartWaiting
    /\ UNCHANGED <<workspace, now, launching, launches, launcher, request, deleting, boot, crashes>>

\* Mutant: a death releases the children, as a stop does.
DieReleasing(w) ==
    /\ "die" \in Commands
    /\ workspace[w] = "running"
    /\ workspace' = [workspace EXCEPT ![w] = "stopped"]
    /\ queue' = ChildrenReleased(queue, w)
    /\ StartWaiting
    /\ UNCHANGED <<now, launching, launches, launcher, request, stopping, deleting, boot, crashes>>

\* A death, as the reaper records it: it releases nothing.
Die(w) ==
    /\ "die" \in Commands
    /\ workspace[w] = "running"
    /\ workspace' = [workspace EXCEPT ![w] = "stopped"]
    /\ StartWaiting
    /\ UNCHANGED <<queue, now, launching, launches, launcher, request, stopping, deleting, boot, crashes>>

Restart(w) ==
    /\ "restart" \in Commands
    /\ workspace[w] = "stopped"
    /\ deleting[w] = "no"
    /\ workspace' = [workspace EXCEPT ![w] = "running"]
    /\ UNCHANGED <<queue, now, memory, crashes>>

\* deleteWorkspace: the hold, then the checks under it, then the rows. A
\* teardown still running refuses it too; here it may be over at any time.
HoldForDelete(w) ==
    /\ "delete" \in Commands
    /\ workspace[w] = "stopped"
    /\ deleting[w] = "no"
    /\ deleting' = [deleting EXCEPT ![w] = "held"]
    /\ UNCHANGED <<queue, workspace, now, launching, launches, passDue, launcher, request, stopping, boot, crashes>>

HasQueued(w) == \E e \in Entry : Pending(queue, e) /\ queue[e].parent.workspace = w

CheckDelete(w) ==
    /\ deleting[w] = "held"
    /\ deleting' = [deleting EXCEPT ![w] =
          IF workspace[w] = "stopped" /\ ~HasQueued(w) THEN "checked" ELSE "no"]
    /\ UNCHANGED <<queue, workspace, now, launching, launches, passDue, launcher, request, stopping, boot, crashes>>

DeleteWorkspace(w) ==
    /\ deleting[w] = "checked"
    /\ workspace' = [workspace EXCEPT ![w] = "gone"]
    /\ queue' = Cascaded(queue, w)
    /\ deleting' = [deleting EXCEPT ![w] = "no"]
    /\ UNCHANGED <<now, launching, launches, passDue, launcher, request, stopping, boot, crashes>>

(***************************************************************************)
(* Time, the reconciler and the process.                                   *)
(***************************************************************************)
Tick == now < MaxTime /\ now' = now + 1 /\ UNCHANGED <<queue, workspace, memory, crashes>>

\* startScheduledWorkspaces, on the reconciler's resync.
ReleaseDue ==
    /\ \E e \in Entry : IsDue(queue, e, now)
    /\ queue' = DueReleased(queue, now)
    /\ StartWaiting
    /\ UNCHANGED <<workspace, now, launching, launches, launcher, request, stopping, deleting, boot, crashes>>

\* Every pass of the stale reaper's step ends in startWaitingWorkspaces.
ReconcilePass ==
    /\ StartWaiting
    /\ UNCHANGED <<queue, workspace, now, launching, launches, launcher, request, stopping, deleting, boot, crashes>>

\* The server dies and another starts. A create it was in the middle of is
\* up or lost by the time the new server looks.
Crash ==
    /\ crashes < MaxCrashes
    /\ crashes' = crashes + 1
    /\ \E up \in SUBSET {w \in Workspace : workspace[w] = "creating"} :
         workspace' = [w \in Workspace |->
             IF w \in up THEN "running"
             ELSE IF workspace[w] \in {"creating", "drawn"} THEN "gone"
             ELSE workspace[w]]
    /\ launching' = {}
    /\ launches' = {}
    /\ passDue' = FALSE
    /\ launcher' = [p \in Launcher |-> Idle]
    /\ request' = [r \in Requester |-> Waiting]
    /\ stopping' = [w \in Workspace |-> "no"]
    /\ deleting' = [w \in Workspace |-> "no"]
    /\ boot' = BootDue
    /\ UNCHANGED <<queue, now>>

\* resumeQueuedWorkspaces: one listing, then each claimed row in turn.
ResumeList ==
    /\ boot.stage = "due"
    /\ boot' = [BootDone EXCEPT !.stage = "rows",
                !.todo = [e \in Entry |->
                    IF Pending(queue, e) /\ queue[e].claim # Null THEN queue[e] ELSE Null]]
    /\ UNCHANGED <<queue, workspace, now, launching, launches, passDue, launcher, request, stopping, deleting, crashes>>

\* Mutant: the rows this process is launching are resolved too.
ResumeRowBlindly ==
    /\ boot.stage = "rows"
    /\ boot.todo # NoRows
    /\ LET e == Oldest(boot.todo)
       IN  boot' = [boot EXCEPT !.stage = "resolve", !.entry = e,
                    !.verdict = IF workspace[boot.todo[e].claim] = "running" THEN "finish" ELSE "fail"]
    /\ UNCHANGED <<queue, workspace, now, launching, launches, passDue, launcher, request, stopping, deleting, crashes>>

\* Mutant: an interrupted launch is given back without looking for its workspace.
ResumeRowAsFailed ==
    /\ boot.stage = "rows"
    /\ boot.todo # NoRows
    /\ LET e == Oldest(boot.todo)
       IN  boot' = IF e \in launching
                   THEN [boot EXCEPT !.todo = [boot.todo EXCEPT ![e] = Null]]
                   ELSE [boot EXCEPT !.stage = "resolve", !.entry = e, !.verdict = "fail"]
    /\ UNCHANGED <<queue, workspace, now, launching, launches, passDue, launcher, request, stopping, deleting, crashes>>

\* A row this process is launching is left alone; otherwise its workspace
\* is looked up.
ResumeRow ==
    /\ boot.stage = "rows"
    /\ boot.todo # NoRows
    /\ LET e == Oldest(boot.todo)
       IN  boot' = IF e \in launching
                   THEN [boot EXCEPT !.todo = [boot.todo EXCEPT ![e] = Null]]
                   ELSE [boot EXCEPT !.stage = "resolve", !.entry = e,
                         !.verdict = IF workspace[boot.todo[e].claim] = "running" THEN "finish" ELSE "fail"]
    /\ UNCHANGED <<queue, workspace, now, launching, launches, passDue, launcher, request, stopping, deleting, crashes>>

ResumeResolve ==
    LET e == boot.entry
        w == boot.todo[e].claim
    IN  /\ boot.stage = "resolve"
        /\ queue' = CASE boot.verdict = "fail"                           -> Failed(queue, e, w, TRUE)
                      [] boot.verdict = "finish" /\ workspace[w] # "gone" -> Finished(queue, e, w)
                      [] OTHER                                           -> queue
        /\ boot' = [BootDone EXCEPT !.stage = "rows", !.todo = [boot.todo EXCEPT ![e] = Null]]
        /\ UNCHANGED <<workspace, now, launching, launches, passDue, launcher, request, stopping, deleting, crashes>>

ResumeDone ==
    /\ boot.stage = "rows"
    /\ boot.todo = NoRows
    /\ boot' = BootDone
    /\ StartWaiting
    /\ UNCHANGED <<queue, workspace, now, launching, launches, launcher, request, stopping, deleting, crashes>>
-----------------------------------------------------------------------------
LauncherStep(p) == ListWaiting(p) \/ LoseRow(p) \/ FindFull(p) \/ TakeSlot(p) \/ ClaimLaunch(p)

LaunchStep(l) ==
    \/ LaunchRuns(l) \/ LaunchFails(l) \/ LaunchStopped(l)
    \/ RecordFinish(l) \/ RecordFailure(l) \/ SettleLaunch(l)

RequestStep(r) ==
    \/ ResolveQueue(r) \/ InsertQueued(r) \/ WriteEdit(r)
    \/ \E e \in Entry : ResolveEdit(r, e)

EntryCommand == \E e \in Entry : Discard(e) \/ \E p \in Launcher : RunNow(e, p)

StopStep(w) == RecordStop(w) \/ ReleaseChildren(w)

WorkspaceCommand ==
    \E w \in Workspace : AskStop(w) \/ Die(w) \/ Restart(w)
                         \/ HoldForDelete(w) \/ CheckDelete(w) \/ DeleteWorkspace(w)

ResumeStep == ResumeList \/ ResumeRow \/ ResumeResolve \/ ResumeDone

Next ==
    \/ \E p \in Launcher : LauncherStep(p)
    \/ \E l \in launches : LaunchStep(l)
    \/ \E r \in Requester : RequestStep(r)
    \/ EntryCommand
    \/ \E w \in Workspace : StopStep(w)
    \/ WorkspaceCommand
    \/ Tick
    \/ ReleaseDue
    \/ ReconcilePass
    \/ Crash
    \/ ResumeStep

Spec == Init /\ [][Next]_vars

(***************************************************************************)
(* Safety.                                                                 *)
(***************************************************************************)
\* No entry waits, through entries and the workspaces entries are launching,
\* on itself. updateQueuedWorkspace refuses the edit that would close a
\* cycle, and no discard, claim or failure closes one behind its back.
NoCycle == Acyclic(queue)

\* At most one of the three parent columns is set (schema.ts), whatever
\* edits, discards, claims and failures rewrite them in turn.
OneParent == \A e \in Entry : Exclusive(queue[e].parent)

\* A launch still provisioning, or not yet recorded, holds the claim of its
\* entry and its place in `launching`: no edit, discard, second launcher or
\* boot-time resume, however stale what it read, has taken the entry from it.
LaunchHoldsClaim ==
    \A l \in launches :
        l.stage \in {"provisioning", "ran", "failed", "stopped"} =>
            ClaimedBy(queue, l.entry, l.workspace) /\ l.entry \in launching

\* The one way a claim outlives its launch: the resume found the workspace
\* of an interrupted launch running, and it was deleted before the finish was
\* written. Such a claim stays until the server next starts.
DeletedUnderResume(e) ==
    "delete" \in Commands /\ crashes > 0 /\ workspace[queue[e].claim] = "gone"

\* An entry is claimed only by a launch of this process, or by one a crash
\* interrupted that the resume has yet to resolve: none stays mid-launch for
\* good, hidden from the listings.
ClaimedIsLaunching ==
    \A e \in Entry :
        Pending(queue, e) /\ queue[e].claim # Null =>
            \/ \E l \in launches : l.entry = e /\ l.workspace = queue[e].claim
            \/ boot.stage = "due"
            \/ boot.todo[e] # Null
            \/ DeletedUnderResume(e)

(***************************************************************************)
(* What a step may never do.                                               *)
(***************************************************************************)
Waits(q, c) == Pending(q, c) /\ q[c].claim = Null /\ ~q[c].released

\* No entry is left waiting on one that leaves the queue (discarded or
\* launched), nor, unreleased, on the workspace of a launch that came back:
\* the step that removes the parent moves its children.
NoChildLeftBehind ==
    [][\A e, c \in Entry :
         /\ Pending(queue, e) /\ ~Pending(queue', e) /\ Pending(queue', c)
            => queue'[c].parent.entry # e
         /\ Pending(queue', e) /\ queue[e].claim # Null /\ queue'[e].claim = Null /\ Waits(queue', c)
            => queue'[c].parent.workspace # queue[e].claim
      ]_vars

\* The settings of an entry never change while it is mid-launch, and a
\* launched row never changes until it goes with its workspace: no write by a
\* caller with a stale view (an edit, a resume, a second stop) reaches either.
MidLaunchIsFrozen ==
    [][\A e \in Entry :
         /\ queue[e].claim # Null /\ queue'[e].claim = queue[e].claim => queue'[e].group = queue[e].group
         /\ queue[e].state = "launched" => queue'[e] \in {queue[e], NoRow("deleted")}
      ]_vars

\* While a delete holds a workspace, no entry starts waiting on it: not a
\* request that resolved its parent before the hold, nor a child a discard
\* moves up. (A workspace its launch has yet to record is left out: the
\* finish may move a late child onto it.)
NothingQueuedUnderHold ==
    [][\A w \in Existing : deleting[w] # "no" /\ HasQueued(w)' => HasQueued(w)]_vars

(***************************************************************************)
(* What the docs say and a stale read or an overwritten column breaks.     *)
(***************************************************************************)
\* "One that failed waits for the user, as any failed launch does": only an
\* entry that waits for room at that moment is claimed.
LaunchesOnlyWaiting ==
    [][\A e \in Entry :
         queue[e].claim = Null /\ queue'[e].claim # Null => WaitsForRoom(queue[e])]_vars

\* "A scheduled entry never counts as waiting for room before its time."
ScheduledNotEarly ==
    \A e \in Entry :
        queue[e].parent.at # Null /\ queue[e].parent.at > now => ~WaitsForRoom(queue[e])

(***************************************************************************)
(* Liveness. The reconciler passes over the queue on every resync, a       *)
(* create ends one way or the other, and every started handler goes on.    *)
(* Nothing is assumed of users.                                            *)
(***************************************************************************)
Fairness ==
    /\ \A p \in Launcher : WF_vars(LauncherStep(p))
    /\ \A e \in Entry : WF_vars(\E l \in launches : l.entry = e /\ LaunchStep(l))
    /\ \A w \in Workspace : WF_vars(StopStep(w))
    /\ WF_vars(ReleaseDue)
    /\ WF_vars(ReconcilePass)
    /\ WF_vars(ResumeStep)

FairSpec == Spec /\ Fairness

\* With room in every group, an entry that waits only for room does not wait
\* for ever, whichever pass or request last looked at it.
WaitingIsLaunched ==
    \A e \in Entry : WaitsForRoom(queue[e]) ~> ~WaitsForRoom(queue[e])

\* A natural stop launches what waits on the workspace. (A server that dies
\* between recording a stop and releasing its children loses the release.)
StopLaunchesChildren ==
    \A e \in Entry, w \in Workspace :
        (stopping[w] = "recorded" /\ Waits(queue, e) /\ queue[e].parent.workspace = w)
            ~> (queue[e].claim # Null \/ ~Pending(queue, e) \/ crashes > 0)

\* No entry stays mid-launch for ever, across a restart of the server too.
ClaimsResolve ==
    \A e \in Entry :
        (Pending(queue, e) /\ queue[e].claim # Null)
            ~> (~Pending(queue, e) \/ queue[e].claim = Null \/ DeletedUnderResume(e))
=============================================================================
