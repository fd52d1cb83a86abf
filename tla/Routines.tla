------------------------------ MODULE Routines ------------------------------
(***************************************************************************)
(* A routine (domain/workspaces/routines.ts): a cron schedule that starts a *)
(* fresh workspace on every tick, over the reconciler's resync. In each    *)
(* resync's pass runs past their end are stopped, then ticks that are due  *)
(* fire, then what they queued is launched; users edit, pause and resume   *)
(* the routine, and start runs of it, between any two steps.               *)
(*                                                                         *)
(* One routine with no timeout of its own, in a project whose share is not *)
(* removed. Creating and deleting it, its runs' history, and entries queued *)
(* after a run (module QueuedWorkspaces) are not modelled. A cron is the   *)
(* set of its ticks. That its group has room is a choice at each launch.   *)
(***************************************************************************)
EXTENDS Reconciler, FiniteSets, FiniteSetsExt

CONSTANTS
    Cron,   \* the schedules it may have
    User,   \* requests under way at once
    MaxRun, \* bound on its runs at one time; its group has room for one fewer
    Budget  \* what a behaviour may hold: requests of users, changes and faults

ASSUME RoutinesAssumption ==
    /\ Cron \subseteq SUBSET (1 .. MaxTime)
    /\ MaxRun \in Nat \ {0}
    /\ {"workspace-timeouts", "routines", "scheduled-workspaces"} \subseteq StepName
    /\ Budget \subseteq [users : Nat, changes : Nat, faults : Nat]

VARIABLES
    routine,  \* its row
    runs,     \* its queued entries and the workspaces they became
    listed,   \* the row and the time the pass's routines step read
    request,  \* of each user, what it read
    crossed,  \* history: a request wrote over a schedule it had not read
    recut,    \* history: the cron was edited while a tick had its run
    left      \* what is left of the behaviour's budget

routineVars == <<routine, runs, listed, request, crossed, recut, left>>
vars        == <<loopVars, routineVars>>

Run == 1 .. MaxRun

\* The row's schedule. `next` is Never when it is paused or has no next tick.
Routine == [cron : Cron, paused : BOOLEAN, next : 0 .. Never, last : 0 .. MaxTime]

\* Queued, released to wait for room, mid-launch, running or failed to launch.
\* `ends` is the deadline a launch gave it.
NoRun   == [state |-> "none", tick |-> FALSE, slot |-> 0, ends |-> Never]
RunType == [state : {"none", "queued", "released", "launching", "running", "failed"},
            tick : BOOLEAN, slot : 0 .. MaxTime, ends : 0 .. Never]

NoList   == [due |-> Never, cron |-> {}, at |-> 0]
Idle     == [op |-> "none", cron |-> {}, paused |-> FALSE, run |-> 0]
Request  == [op : {"none", "edit", "resume", "start"}, cron : Cron \cup {{}}, paused : BOOLEAN, run : 0 .. MaxRun]

\* The variables have their types, and a paused routine no next tick, but for
\* a write that crossed another.
TypeOK ==
    /\ LoopTypeOK
    /\ routine \in Routine /\ (crossed \/ (routine.paused => routine.next = Never))
    /\ runs \in [Run -> RunType]
    /\ listed \in [due : 0 .. Never, cron : Cron \cup {{}}, at : 0 .. MaxTime]
    /\ listed # NoList => Here("routines") /\ pass.running
    /\ request \in [User -> Request]
    /\ crossed \in BOOLEAN /\ recut \in BOOLEAN
    /\ left \in [users : Nat, changes : Nat, faults : Nat]

After(c, t) == {x \in c : x > t}

NextTick(c, t)  == IF After(c, t) = {} THEN Never ELSE Min(After(c, t))
LatestRun(c, t) == IF \E x \in c : x <= t THEN Max({x \in c : x <= t}) ELSE Never

Init ==
    /\ LoopInit
    /\ \E c \in Cron : routine = [cron |-> c, paused |-> FALSE, next |-> NextTick(c, 0), last |-> 0]
    /\ runs = [i \in Run |-> NoRun]
    /\ listed = NoList
    /\ request = [u \in User |-> Idle]
    /\ crossed = FALSE /\ recut = FALSE
    /\ left \in Budget

Spends(what) == left[what] > 0 /\ left' = [left EXCEPT ![what] = @ - 1]
----------------------------------------------------------------------------
(***************************************************************************)
(* Runs.                                                                   *)
(***************************************************************************)
Unlaunched(i) == runs[i].state \in {"queued", "released", "failed"}

\* Its group may have room, and does not at its limit.
Live == {i \in Run : runs[i].state \in {"launching", "running"}}

RoomFor(launches) == Cardinality(Live) + Cardinality(launches) < MaxRun

\* insertRoutineRun: the new entry replaces the runs that never launched.
Fresh == Min({i \in Run : runs[i].state = "none" \/ Unlaunched(i)})

InsertRun(slot, tick) ==
    runs' = [i \in Run |->
                IF i = Fresh THEN [NoRun EXCEPT !.state = "queued", !.tick = tick, !.slot = slot]
                ELSE IF Unlaunched(i) THEN NoRun
                ELSE runs[i]]

\* Mutant: the run ends at the next tick after its launch.
EndsAtLaunch(i) == NextTick(routine.cron, now)

\* nextRunOf: at the next tick after its own, however late it is launched.
EndsAt(i) == NextTick(routine.cron, runs[i].slot)

\* A launch of a run that is over already fails.
Launched(i) ==
    LET ends == EndsAt(i)
    IN [runs[i] EXCEPT !.state = IF ends <= now THEN "failed" ELSE "launching", !.ends = IF ends <= now THEN Never ELSE ends]

\* Room frees in its group: what waits there is launched.
RoomFrees(i) ==
    /\ runs[i].state = "released" /\ RoomFor({i})
    /\ runs' = [runs EXCEPT ![i] = Launched(i)]
    /\ UNCHANGED <<loopVars, routine, listed, request, crossed, recut, left>>

LaunchEnds(i) ==
    /\ runs[i].state = "launching"
    /\ \/ runs' = [runs EXCEPT ![i].state = "running"] /\ UNCHANGED left
       \/ runs' = [runs EXCEPT ![i].state = "failed", ![i].ends = Never] /\ Spends("faults")
    /\ UNCHANGED <<loopVars, routine, listed, request, crossed, recut>>

\* Its user runs one that failed again.
RunsAgain(i) ==
    /\ runs[i].state = "failed" /\ Spends("users")
    /\ \/ RoomFor({i}) /\ runs' = [runs EXCEPT ![i] = Launched(i)]
       \/ runs' = [runs EXCEPT ![i].state = "released"]
    /\ UNCHANGED <<loopVars, routine, listed, request, crossed, recut>>

\* Stopped by its user.
RunEnds(i) ==
    /\ runs[i].state = "running" /\ Spends("users")
    /\ runs' = [runs EXCEPT ![i] = NoRun]
    /\ UNCHANGED <<loopVars, routine, listed, request, crossed, recut>>
----------------------------------------------------------------------------
(***************************************************************************)
(* The pass's steps.                                                       *)
(***************************************************************************)
\* reconcileWorkspaceTimeouts: a run that is still being created is left to
\* the next resync, and one whose stop fails too.
StopsOverdue ==
    /\ Here("workspace-timeouts") /\ StepEnds(TRUE)
    /\ LET overdue == {i \in Run : runs[i].state = "running" /\ runs[i].ends <= now}
       IN \/ runs' = [i \in Run |-> IF i \in overdue THEN NoRun ELSE runs[i]] /\ UNCHANGED left
          \/ overdue # {} /\ UNCHANGED runs /\ Spends("faults")
    /\ UNCHANGED <<routine, listed, request, crossed, recut>>

\* Mutant: the tick of this very minute, not one missed.
DueThisMinute == ~routine.paused /\ routine.next = now

IsDue == ~routine.paused /\ routine.next <= now

RoutinesRead ==
    /\ Here("routines") /\ pass.running /\ listed = NoList
    /\ IsDue
    /\ listed' = [due |-> routine.next, cron |-> routine.cron, at |-> now]
    /\ UNCHANGED <<loopVars, routine, runs, request, crossed, recut, left>>

NoneDue ==
    /\ Here("routines") /\ listed = NoList
    /\ ~IsDue
    /\ StepEnds(TRUE)
    /\ UNCHANGED routineVars

\* fire: the tick moves only if it is still the one read, in the transaction
\* that queues the run; ticks missed meanwhile are one run, for the latest.
\* A failure leaves it due.
Fires ==
    /\ Here("routines") /\ listed # NoList /\ StepEnds(TRUE)
    /\ LET slot == LatestRun(listed.cron, listed.at)
       IN \/ /\ routine.next = listed.due /\ ~routine.paused
             /\ routine' = [routine EXCEPT !.next = NextTick(listed.cron, listed.at),
                                           !.last = IF slot = Never THEN listed.due ELSE slot]
             /\ InsertRun(IF slot = Never THEN listed.due ELSE slot, TRUE)
             /\ UNCHANGED left
          \/ (routine.next # listed.due \/ routine.paused) /\ UNCHANGED <<routine, runs, left>>
          \/ Spends("faults") /\ UNCHANGED <<routine, runs>>
    /\ listed' = NoList
    /\ UNCHANGED <<request, crossed, recut>>

\* startScheduledWorkspaces: what is due is released, and launched where
\* there is room.
StartsScheduled ==
    /\ Here("scheduled-workspaces") /\ StepEnds(TRUE)
    /\ LET due == {i \in Run : runs[i].state = "queued" /\ runs[i].slot <= now}
           ready == IF due = {} THEN {} ELSE due \cup {i \in Run : runs[i].state = "released"}
       IN \/ runs' = [i \in Run |-> IF i \in due THEN [runs[i] EXCEPT !.state = "released"] ELSE runs[i]]
          \/ RoomFor(ready) /\ runs' = [i \in Run |-> IF i \in ready THEN Launched(i) ELSE runs[i]]
    /\ UNCHANGED <<routine, listed, request, crossed, recut, left>>

OtherStepEnds(ok) ==
    /\ phase = "pass" /\ pass.running /\ Name \notin {"workspace-timeouts", "routines", "scheduled-workspaces"}
    /\ StepEnds(ok)
    /\ IF ok THEN UNCHANGED left ELSE Spends("faults")
    /\ UNCHANGED <<routine, runs, listed, request, crossed, recut>>
----------------------------------------------------------------------------
(***************************************************************************)
(* Requests: each reads the row, waits for other reads, and writes.        *)
(***************************************************************************)
Asks(u, op) ==
    /\ request[u].op = "none" /\ Spends("users")
    /\ request' = [request EXCEPT ![u] = [op |-> op, cron |-> routine.cron, paused |-> routine.paused, run |-> 0]]
    /\ UNCHANGED <<loopVars, routine, runs, listed, crossed, recut>>

UserAsks(u) == Asks(u, "edit") \/ Asks(u, "resume")

\* The schedule it goes by is not the one it read.
Crosses(u) == routine.cron # request[u].cron \/ routine.paused # request[u].paused

Answered(u) == request' = [request EXCEPT ![u] = Idle]

\* Mutant: an edit of the cron sets the next tick of a paused routine too.
EditedThoughPaused(u, c) ==
    [routine EXCEPT !.cron = c, !.next = IF c # request[u].cron THEN NextTick(c, now) ELSE @]

\* updateRoutine: every setting, and the next tick only when the cron is not
\* the one read of a routine that was not paused.
Edited(u, c) ==
    [routine EXCEPT !.cron = c,
                    !.next = IF c # request[u].cron /\ ~request[u].paused THEN NextTick(c, now) ELSE @]

EditWrites(u) ==
    /\ request[u].op = "edit"
    /\ \E c \in Cron : routine' = Edited(u, c)
    /\ crossed' = (crossed \/ Crosses(u))
    /\ recut' = (recut \/ (routine'.cron # routine.cron /\ \E i \in Run : runs[i].tick))
    /\ Answered(u)
    /\ UNCHANGED <<loopVars, runs, listed, left>>

Pauses(u) ==
    /\ request[u].op = "none" /\ Spends("users")
    /\ routine' = [routine EXCEPT !.paused = TRUE, !.next = Never]
    /\ UNCHANGED <<loopVars, runs, listed, request, crossed, recut>>

\* setRoutinePaused: from the next tick of the cron as read.
ResumeWrites(u) ==
    /\ request[u].op = "resume"
    /\ routine' = [routine EXCEPT !.paused = FALSE, !.next = NextTick(request[u].cron, now)]
    /\ crossed' = (crossed \/ routine.cron # request[u].cron)
    /\ Answered(u)
    /\ UNCHANGED <<loopVars, runs, listed, recut, left>>

\* runRoutineNow: a run for now, which moves no tick, and is launched.
RunInserts(u) ==
    /\ request[u].op = "none" /\ Spends("users")
    /\ InsertRun(now, FALSE)
    /\ request' = [request EXCEPT ![u].op = "start", ![u].run = Fresh]
    /\ UNCHANGED <<loopVars, routine, listed, crossed, recut>>

\* With no room the entry goes again; another may have launched or replaced
\* it meanwhile.
RunStarts(u) ==
    /\ request[u].op = "start"
    /\ LET i == request[u].run
       IN IF ~runs[i].tick /\ Unlaunched(i)
            THEN \/ RoomFor({i}) /\ runs' = [runs EXCEPT ![i] = Launched(i)]
                 \/ runs' = [runs EXCEPT ![i] = NoRun]
            ELSE UNCHANGED runs
    /\ Answered(u)
    /\ UNCHANGED <<loopVars, routine, listed, crossed, recut, left>>
----------------------------------------------------------------------------
Changes == \E t \in Trigger : Change(t) /\ Spends("changes") /\ UNCHANGED <<routine, runs, listed, request, crossed, recut>>

\* The registry of launches, and what steps and requests had read, go.
Crash ==
    /\ Dies /\ Spends("faults")
    /\ listed' = NoList /\ request' = [u \in User |-> Idle]
    /\ UNCHANGED <<routine, runs, crossed, recut>>

Aborts == Abort /\ Spends("faults") /\ UNCHANGED <<routine, runs, listed, request, crossed, recut>>

\* A launch the server went down in failed.
Restarts ==
    /\ Boots
    /\ runs' = [i \in Run |->
                   IF runs[i].state = "launching" THEN [runs[i] EXCEPT !.state = "failed", !.ends = Never] ELSE runs[i]]
    /\ request' = [u \in User |-> Idle]
    /\ UNCHANGED <<routine, listed, crossed, recut, left>>

Keeps(A) == A /\ UNCHANGED routineVars

StepActs ==
    \/ StopsOverdue \/ RoutinesRead \/ NoneDue \/ Fires \/ StartsScheduled
    \/ \E ok \in BOOLEAN : OtherStepEnds(ok)

LoopActs ==
    \/ Keeps(Wakes) \/ Keeps(PassStarts) \/ Keeps(StepSkipped) \/ Keeps(StepStarts) \/ Keeps(PassEnds)
    \/ StepActs

UserActs(u) == UserAsks(u) \/ EditWrites(u) \/ Pauses(u) \/ ResumeWrites(u) \/ RunInserts(u) \/ RunStarts(u)

Next ==
    \/ Keeps(Tick) \/ LoopActs \/ Restarts
    \/ phase # "exited" /\ (\E u \in User : UserActs(u))
    \/ \E i \in Run : (phase # "exited" /\ (RoomFrees(i) \/ LaunchEnds(i) \/ RunsAgain(i))) \/ RunEnds(i)
    \/ Changes \/ Crash \/ Aborts

\* Time passes, the loop and its steps go on, and the server is started again.
Fairness == WF_vars(Keeps(Tick)) /\ WF_vars(LoopActs) /\ WF_vars(Restarts)

Spec == Init /\ [][Next]_vars /\ Fairness
----------------------------------------------------------------------------
\* Each tick has at most one run, in whatever order passes, edits, pauses and
\* resumes come: a tick that fires is later than any that has, and of two
\* ticks' runs the earlier is to end before the later one's tick, however late
\* it was launched. But for a write that crossed another (see Crosses), and
\* for what ran when the cron was edited, which keeps its end.
OneRunPerTick ==
    [][/\ ~crossed' /\ routine'.last # routine.last => routine'.last > routine.last
       /\ ~crossed' /\ ~recut' =>
            \A i, j \in Run :
                runs'[i].tick /\ runs'[j].tick /\ i # j /\ runs'[i].slot <= runs'[j].slot
                    => /\ runs'[i].slot # runs'[j].slot
                       /\ runs'[i].state \in {"launching", "running"} => runs'[i].ends <= runs'[j].slot]_vars

\* A tick that is due fires, unless the routine is paused or edited first:
\* marks, passes, failures and restarts of the server only put it off.
DueTickFires == routine.next <= now ~> routine.next > now
============================================================================
