---------------------------- MODULE GroupLimits ----------------------------
(***************************************************************************)
(* Group workspace limits (domain/workspaces/group-limits.ts): creates,    *)
(* queued launches and restarts each read a group's limit, its rows and    *)
(* its runtime over several awaits, then add what this process has in      *)
(* flight and take a slot in one synchronous step.                         *)
(*                                                                         *)
(* One project. Left out: moves between groups, deleted groups, creates    *)
(* that claim a prewarmed spare, and errors of the database and of the     *)
(* runtime (a failed provision leaves no unit behind).                     *)
(***************************************************************************)
EXTENDS Naturals, FiniteSets

CONSTANTS
    Workspace,  \* workspace ids
    Group,      \* groups
    Limit,      \* the limits a group may be given
    None,       \* no limit, no group
    Commands    \* what users and the runtime do in this instance

AllCommands == {"create", "launch", "restart", "stop", "die", "limit", "crash"}

ASSUME GroupLimitsAssumption ==
    /\ IsFiniteSet(Workspace)
    /\ Limit \subseteq Nat
    /\ None \notin Limit \cup Group
    /\ Commands \subseteq AllCommands

VARIABLES
    limit,     \* each group's workspaceLimit
    row,       \* per workspace: "none", "up" (no stop on it) or "stopped"
    group,     \* the group each row is filed in
    unit,      \* the workspaces the runtime has
    entry,     \* the group of each live entry of the provisioning registry
    reserved,  \* the group each id holds a reservation in
    op         \* the create, queued launch or restart under way for each id

vars == <<limit, row, group, unit, entry, reserved, op>>

Filed == Group \cup {None}

\* What readGroupRoom has read so far: `left` is what it has yet to read,
\* `running` what its reads leave of all workspaces, and `went` what went live
\* in the group since it began (wentLiveSince).
Room   == [limit : Limit \cup {None}, running : SUBSET Workspace,
           went : SUBSET Workspace, left : SUBSET {"limit", "rows", "units"}]
Unread == [limit |-> None, running |-> Workspace, went |-> {}, left |-> {"limit"}]

\* "reading" has a room to read and check; "claiming" has reserved its slot
\* and claims its queue entry; "ready" has passed its check; "running",
\* "placed" and "up" are registered; "ending" has yet to free its slot.
Idle == [kind |-> "none", stage |-> "idle", group |-> None, room |-> Unread]
Active == [kind  : {"create", "launch", "restart"}, group : Group, room : Room,
           stage : {"reading", "claiming", "ready", "running", "placed", "up", "ending"}]

TypeOK ==
    /\ limit \in [Group -> Limit \cup {None}]
    /\ row \in [Workspace -> {"none", "up", "stopped"}]
    /\ group \in [Workspace -> Filed]
    /\ unit \subseteq Workspace
    /\ entry \in [Workspace -> Filed]
    /\ reserved \in [Workspace -> Filed]
    /\ op \in [Workspace -> {Idle} \cup Active]

Init ==
    /\ limit \in [Group -> Limit \cup {None}]
    /\ row = [w \in Workspace |-> "none"]
    /\ group = [w \in Workspace |-> None]
    /\ unit = {}
    /\ entry = [w \in Workspace |-> None]
    /\ reserved = [w \in Workspace |-> None]
    /\ op = [w \in Workspace |-> Idle]
-----------------------------------------------------------------------------
(***************************************************************************)
(* readGroupRoom, a step per await.                                        *)
(***************************************************************************)
Members(g) == {w \in Workspace : row[w] = "up" /\ group[w] = g}

Reading(w, part) == op[w].stage = "reading" /\ part \in op[w].room.left

\* With no limit there is nothing more to read.
ReadLimit(w) ==
    /\ Reading(w, "limit")
    /\ LET n == limit[op[w].group]
       IN  op' = [op EXCEPT ![w].room.limit = n,
                            ![w].room.left = IF n = None THEN {} ELSE {"rows", "units"}]
    /\ UNCHANGED <<limit, row, group, unit, entry, reserved>>

ReadRows(w) ==
    /\ Reading(w, "rows")
    /\ op' = [op EXCEPT ![w].room.running = @ \cap Members(op[w].group), ![w].room.left = @ \ {"rows"}]
    /\ UNCHANGED <<limit, row, group, unit, entry, reserved>>

ReadUnits(w) ==
    /\ Reading(w, "units")
    /\ op' = [op EXCEPT ![w].room.running = @ \cap unit, ![w].room.left = @ \ {"units"}]
    /\ UNCHANGED <<limit, row, group, unit, entry, reserved>>

HasRead(w) == op[w].stage = "reading" /\ op[w].room.left = {}

(***************************************************************************)
(* groupFull.                                                              *)
(***************************************************************************)
InFlight(g) == {w \in Workspace : g \in {entry[w], reserved[w]}}

\* Mutant: what went live since the read is forgotten.
ReadOrInFlight(w) == op[w].room.running \cup InFlight(op[w].group)

liveWorkspaces(w) == op[w].room.running \cup op[w].room.went \cup InFlight(op[w].group)

\* Whether `w` would find no free slot in its group; it does not count
\* against itself.
groupFull(w) ==
    /\ op[w].room.limit # None
    /\ Cardinality(liveWorkspaces(w) \ {w}) >= op[w].room.limit
-----------------------------------------------------------------------------
(***************************************************************************)
(* The ways in.                                                            *)
(***************************************************************************)
Begin(w, kind, g) ==
    /\ op[w] = Idle
    /\ entry[w] = None
    /\ op' = [op EXCEPT ![w] = [kind |-> kind, stage |-> "reading", group |-> g, room |-> Unread]]
    /\ UNCHANGED <<limit, row, group, unit, entry, reserved>>

BeginCreate(w)  == "create" \in Commands /\ row[w] = "none" /\ \E g \in Group : Begin(w, "create", g)
BeginLaunch(w)  == "launch" \in Commands /\ row[w] = "none" /\ \E g \in Group : Begin(w, "launch", g)
BeginRestart(w) == "restart" \in Commands /\ row[w] # "none" /\ Begin(w, "restart", group[w])

\* Where an operation ends: one holding a reservation has yet to free it.
Ended(w) == IF reserved[w] = None THEN Idle ELSE [op[w] EXCEPT !.stage = "ending", !.room = Unread]

Refuse(w) ==
    /\ HasRead(w) \/ (op[w].stage = "ready" /\ op[w].kind = "create")
    /\ groupFull(w)
    /\ op' = [op EXCEPT ![w] = Ended(w)]
    /\ UNCHANGED <<limit, row, group, unit, entry, reserved>>

\* The first check of a create, and the only one of a restart.
Admit(w) ==
    /\ HasRead(w)
    /\ op[w].kind \in {"create", "restart"}
    /\ ~groupFull(w)
    /\ op' = [op EXCEPT ![w].stage = "ready"]
    /\ UNCHANGED <<limit, row, group, unit, entry, reserved>>

\* A queued launch reserves its slot in the step of its check.
Reserve(w) ==
    /\ HasRead(w)
    /\ op[w].kind = "launch"
    /\ ~groupFull(w)
    /\ op' = [op EXCEPT ![w].stage = "claiming"]
    /\ reserved' = [reserved EXCEPT ![w] = IF op[w].room.limit = None THEN None ELSE op[w].group]
    /\ UNCHANGED <<limit, row, group, unit, entry>>

\* With its queue entry claimed it is a create like any other, which reads
\* the group's room anew; otherwise another launcher has the entry.
Claim(w) ==
    /\ op[w].stage = "claiming"
    /\ \/ /\ op' = [op EXCEPT ![w] = [@ EXCEPT !.kind = "create", !.stage = "reading", !.room = Unread]]
          /\ UNCHANGED reserved
       \/ /\ op' = [op EXCEPT ![w] = Idle]
          /\ reserved' = [reserved EXCEPT ![w] = None]
    /\ UNCHANGED <<limit, row, group, unit, entry>>

\* The provisioning row takes the slot. A create checks again in that step; a
\* restart has awaited since its check and does not.
Register(w) ==
    /\ op[w].stage = "ready"
    /\ op[w].kind = "create" => ~groupFull(w)
    /\ entry' = [entry EXCEPT ![w] = op[w].group]
    /\ op' = [op EXCEPT ![w].stage = "running", ![w].room = Unread]
    /\ UNCHANGED <<limit, row, group, unit, reserved>>

(***************************************************************************)
(* The provision's run.                                                    *)
(***************************************************************************)
\* A create inserts its row; a restart tears down what still runs.
Place(w) ==
    /\ op[w].stage = "running"
    /\ op' = [op EXCEPT ![w].stage = "placed"]
    /\ IF op[w].kind = "create"
       THEN /\ row' = [row EXCEPT ![w] = "up"]
            /\ group' = [group EXCEPT ![w] = op[w].group]
            /\ UNCHANGED unit
       ELSE unit' = unit \ {w} /\ UNCHANGED <<row, group>>
    /\ UNCHANGED <<limit, entry, reserved>>

StartUnit(w) ==
    /\ op[w].stage = "placed"
    /\ op' = [op EXCEPT ![w].stage = "up"]
    /\ unit' = unit \cup {w}
    /\ UNCHANGED <<limit, row, group, entry, reserved>>

ClearStop(w) ==
    /\ op[w].stage = "up"
    /\ row[w] = "stopped"
    /\ row' = [row EXCEPT ![w] = "up"]
    /\ UNCHANGED <<limit, group, unit, entry, reserved, op>>

\* noteWentLive: the reads under way in the entry's group will count `w`.
WentLive(w, next) ==
    [x \in Workspace |->
        IF x # w /\ next[x].stage \in {"reading", "ready"} /\ next[x].group = entry[w]
        THEN [next[x] EXCEPT !.room.went = @ \cup {w}]
        ELSE next[x]]

\* Mutant: the provisioning row goes before the unit is there.
SettleEarly(w) ==
    /\ op[w].stage \in {"placed", "up"}
    /\ row[w] = "up"
    /\ entry' = [entry EXCEPT ![w] = None]
    /\ op' = IF op[w].stage = "up" THEN [op EXCEPT ![w] = Ended(w)] ELSE op
    /\ UNCHANGED <<limit, row, group, unit, reserved>>

\* The workspace takes the place of its provisioning row.
Settle(w) ==
    /\ op[w].stage = "up"
    /\ row[w] = "up"
    /\ entry' = [entry EXCEPT ![w] = None]
    /\ op' = WentLive(w, [op EXCEPT ![w] = Ended(w)])
    /\ UNCHANGED <<limit, row, group, unit, reserved>>

\* The run fails or is stopped. Its unit is taken down, and a create's row
\* goes too, or lingers if its checkout cannot be removed. (The entry stays
\* listed as a failed one, which holds no slot and bars nothing.)
Fail(w) ==
    /\ op[w].stage \in {"running", "placed", "up"}
    /\ entry' = [entry EXCEPT ![w] = None]
    /\ op' = [op EXCEPT ![w] = Ended(w)]
    /\ unit' = unit \ {w}
    /\ \/ UNCHANGED <<row, group>>
       \/ /\ op[w].kind = "create"
          /\ row' = [row EXCEPT ![w] = "none"]
          /\ group' = [group EXCEPT ![w] = None]
    /\ UNCHANGED <<limit, reserved>>

\* Mutant: the operation ends without its state being reset.
ReleaseInPlace(w) ==
    /\ op[w].stage = "ending"
    /\ reserved' = [reserved EXCEPT ![w] = None]
    /\ op' = [op EXCEPT ![w].stage = "idle"]
    /\ UNCHANGED <<limit, row, group, unit, entry>>

\* A queued launch's `finally`.
Release(w) ==
    /\ op[w].stage = "ending"
    /\ reserved' = [reserved EXCEPT ![w] = None]
    /\ op' = [op EXCEPT ![w] = Idle]
    /\ UNCHANGED <<limit, row, group, unit, entry>>
-----------------------------------------------------------------------------
(***************************************************************************)
(* Stops, deaths, limits and restarts of the server.                       *)
(***************************************************************************)
\* The stop is recorded first, the unit taken down later.
RecordStop(w) ==
    /\ "stop" \in Commands
    /\ row[w] = "up"
    /\ w \in unit
    /\ entry[w] = None
    /\ row' = [row EXCEPT ![w] = "stopped"]
    /\ UNCHANGED <<limit, group, unit, entry, reserved, op>>

TakeDown(w) ==
    /\ row[w] = "stopped"
    /\ w \in unit
    /\ entry[w] = None
    /\ unit' = unit \ {w}
    /\ UNCHANGED <<limit, row, group, entry, reserved, op>>

Die(w) ==
    /\ "die" \in Commands
    /\ w \in unit
    /\ entry[w] = None
    /\ unit' = unit \ {w}
    /\ UNCHANGED <<limit, row, group, entry, reserved, op>>

\* The stale reaper records the death of a row nothing runs.
Reap(w) ==
    /\ row[w] = "up"
    /\ w \notin unit
    /\ entry[w] = None
    /\ row' = [row EXCEPT ![w] = "stopped"]
    /\ UNCHANGED <<limit, group, unit, entry, reserved, op>>

SetLimit(g) ==
    /\ "limit" \in Commands
    /\ limit' \in {[limit EXCEPT ![g] = n] : n \in (Limit \cup {None}) \ {limit[g]}}
    /\ UNCHANGED <<row, group, unit, entry, reserved, op>>

Crash ==
    /\ "crash" \in Commands
    /\ entry' = [w \in Workspace |-> None]
    /\ reserved' = [w \in Workspace |-> None]
    /\ op' = [w \in Workspace |-> Idle]
    /\ UNCHANGED <<limit, row, group, unit>>

Next ==
    \/ \E w \in Workspace :
          \/ BeginCreate(w) \/ BeginLaunch(w) \/ BeginRestart(w)
          \/ ReadLimit(w) \/ ReadRows(w) \/ ReadUnits(w)
          \/ Refuse(w) \/ Admit(w) \/ Reserve(w) \/ Claim(w) \/ Register(w)
          \/ Place(w) \/ StartUnit(w) \/ ClearStop(w) \/ Settle(w) \/ Fail(w) \/ Release(w)
          \/ RecordStop(w) \/ TakeDown(w) \/ Die(w) \/ Reap(w)
    \/ \E g \in Group : SetLimit(g)
    \/ Crash

Spec == Init /\ [][Next]_vars
-----------------------------------------------------------------------------
(***************************************************************************)
(* Properties. `Live` is the truth groupFull estimates: what the runtime   *)
(* has of the group's rows, and what is on its way.                        *)
(***************************************************************************)
Live(g) == (Members(g) \cap unit) \cup InFlight(g)

\* However old its reads, a create or a queued launch takes a slot only if,
\* in that very step, the group has one free under the limit it read: nothing
\* that went live, was registered or was reserved since is missed.
AdmittedWithinLimit ==
    [][\A w \in Workspace, g \in Group, n \in Limit :
         (/\ op[w].kind \in {"create", "launch"} /\ op[w].group = g /\ op[w].room.limit = n
          /\ w \notin InFlight(g)
          /\ w \in InFlight(g)')
            => Cardinality(Live(g)') <= n
      ]_vars

\* Nothing becomes live in a group without having taken a slot there: what a
\* provision starts was counted from its registration until it runs.
LiveOnlyByASlot ==
    [][\A g \in Group : Live(g)' \subseteq Live(g) \cup InFlight(g)']_vars

\* "Of two concurrent entries only one can see the last free slot": with
\* limits that stay as they are, no group is ever over its limit.
NeverOverLimit ==
    \A g \in Group : limit[g] # None => Cardinality(Live(g)) <= limit[g]
=============================================================================
