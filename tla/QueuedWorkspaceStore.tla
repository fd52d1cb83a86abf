----------------------- MODULE QueuedWorkspaceStore -----------------------
(***************************************************************************)
(* The `queued_workspaces` table (db/queued-workspace-store.ts) as values  *)
(* and pure functions on them. Every function of the store is one          *)
(* statement or one transaction of an embedded, single-connection          *)
(* Postgres, so each is one operator from the table before to the table    *)
(* after. The processes that call them are in QueuedWorkspaces.            *)
(*                                                                         *)
(* Entries are numbered in the order they are queued, so a smaller number  *)
(* is an older `createdAt`. A row that left the table stays in the         *)
(* function as a "deleted" one, so no number is used twice.                *)
(***************************************************************************)
EXTENDS Naturals

CONSTANTS
    MaxEntries,   \* bound on the entries ever queued
    Workspace,    \* workspace ids: those that exist at the start and fresh uuids
    Group,        \* the sidebar groups an entry may be filed in, the default list included
    StartTime,    \* the instants a scheduled entry may start at
    Null          \* an unset column

Entry == 1 .. MaxEntries

ASSUME StoreAssumption ==
    /\ MaxEntries \in Nat
    /\ StartTime \subseteq Nat
    /\ Null \notin Entry \cup Workspace \cup StartTime

(***************************************************************************)
(* Rows. `parent` holds the three parent columns, `released` and `error`   *)
(* whether releasedAt and launchError are set, `claim` launchWorkspaceId,  *)
(* and a "launched" row is one whose launchedWorkspaceId is set.           *)
(***************************************************************************)
Parent == [workspace : Workspace \cup {Null},
           entry     : Entry \cup {Null},
           at        : StartTime \cup {Null}]

Room              == [workspace |-> Null, entry |-> Null, at |-> Null]
AfterWorkspace(w) == [workspace |-> w,    entry |-> Null, at |-> Null]
AfterEntry(e)     == [workspace |-> Null, entry |-> e,    at |-> Null]
AtTime(t)         == [workspace |-> Null, entry |-> Null, at |-> t]

\* At most one of the three columns is set.
Exclusive(parent) ==
    parent \in {Room, AfterWorkspace(parent.workspace), AfterEntry(parent.entry), AtTime(parent.at)}

RowState == {"unused", "pending", "launched", "deleted"}

Row == [state    : RowState,
        parent   : Parent,
        released : BOOLEAN,
        error    : BOOLEAN,
        claim    : Workspace \cup {Null},
        group    : Group \cup {Null}]

Queue == [Entry -> Row]

\* A row outside the table: one not queued yet, or deleted.
NoRow(state) == [state |-> state, parent |-> Room, released |-> FALSE, error |-> FALSE,
                 claim |-> Null, group |-> Null]

Pending(q, e)      == q[e].state = "pending"
NotLaunching(q, e) == Pending(q, e) /\ q[e].claim = Null

\* Every row pointing at `e` as its parent entry, the ones mid-launch included.
IsChild(q, c, e) == Pending(q, c) /\ q[c].parent.entry = e

\* Launched as soon as its group has room.
WaitsForRoom(row) ==
    /\ row.state = "pending"
    /\ row.claim = Null
    /\ ~row.error
    /\ row.released \/ row.parent = Room

(***************************************************************************)
(* The cycle check. `Named` is where one step of the walk up leads: the    *)
(* entry a pointer names, or the one launching the workspace it names. The *)
(* walk from `parent` meets `e` exactly when every set that holds the      *)
(* walk's first stop and is closed under its steps holds `e`.              *)
(***************************************************************************)
Named(q, parent) ==
    {p \in Entry : /\ Pending(q, p)
                   /\ \/ parent.entry = p
                      \/ parent.workspace # Null /\ parent.workspace = q[p].claim}

\* Following pointers never leads back: every set of entries has one that
\* waits on none of the set.
Acyclic(q) ==
    \A S \in SUBSET Entry :
        S # {} => \E e \in S : Named(q, q[e].parent) \cap S = {}

\* Mutant: the walk follows entries only, not the workspaces they become.
ClosesCycleByEntry(q, e, parent) ==
    \A S \in SUBSET Entry :
        (/\ {parent.entry} \cap Entry \subseteq S
         /\ \A p \in S : {q[p].parent.entry} \cap Entry \subseteq S)
        => e \in S

ClosesCycle(q, e, parent) ==
    \A S \in SUBSET Entry :
        (/\ Named(q, parent) \subseteq S
         /\ \A p \in S : Named(q, q[p].parent) \subseteq S)
        => e \in S
-----------------------------------------------------------------------------
(***************************************************************************)
(* The writes.                                                             *)
(***************************************************************************)
Inserted(q, e, parent, group) ==
    [q EXCEPT ![e] = [state |-> "pending", parent |-> parent, released |-> FALSE,
                      error |-> FALSE, claim |-> Null, group |-> group]]

\* Mutant: an edit writes the parent columns even when it leaves them alone.
UpdatedWhole(q, e, parent, group) ==
    [q EXCEPT ![e] = [q[e] EXCEPT !.group = group, !.parent = parent]]

\* An edit; `parent` is Null when the edit leaves the parent alone. A new
\* start time is a new attempt and clears the old failure.
Updated(q, e, parent, group) ==
    [q EXCEPT ![e] = [q[e] EXCEPT
        !.group  = group,
        !.parent = IF parent = Null THEN q[e].parent ELSE parent,
        !.error  = q[e].error /\ (parent = Null \/ parent.at = Null)]]

\* What a child of the discarded row `r` becomes at time `now`: it takes over
\* the row's parent and what the row was waiting in.
Spliced(child, r, now) ==
    LET pastStart == r.parent.at # Null /\ r.parent.at <= now
    IN  [child EXCEPT
            !.parent   = r.parent,
            !.error    = child.error \/ r.error \/ pastStart,
            !.released = child.released \/ (r.released /\ ~r.error /\ ~pastStart)]

\* Mutant: the children of a discarded row keep pointing at it.
DeletedAlone(q, e, now) == [q EXCEPT ![e] = NoRow("deleted")]

Deleted(q, e, now) ==
    [c \in Entry |->
        IF c = e THEN NoRow("deleted")
        ELSE IF IsChild(q, c, e) THEN Spliced(q[c], q[e], now)
        ELSE q[c]]

\* The natural stop of workspace `w`.
ChildrenReleased(q, w) ==
    [c \in Entry |->
        IF NotLaunching(q, c) /\ q[c].parent.workspace = w
        THEN [q[c] EXCEPT !.released = TRUE, !.error = FALSE]
        ELSE q[c]]

IsDue(q, e, now) ==
    /\ NotLaunching(q, e)
    /\ q[e].parent.at # Null
    /\ q[e].parent.at <= now
    /\ ~q[e].released
    /\ ~q[e].error

DueReleased(q, now) ==
    [c \in Entry |-> IF IsDue(q, c, now) THEN [q[c] EXCEPT !.released = TRUE] ELSE q[c]]

\* "Run now".
Released(q, e) == [q EXCEPT ![e] = [q[e] EXCEPT !.released = TRUE, !.error = FALSE]]

\* Mutant: the move sets the new column and leaves the old one set.
ChildrenMovedAside(q, e, row, w) ==
    [c \in Entry |->
        IF c = e THEN row
        ELSE IF IsChild(q, c, e) THEN [q[c] EXCEPT !.parent.workspace = w]
        ELSE q[c]]

\* The row itself becomes `row`, and its children wait on workspace `w` instead.
ChildrenMoved(q, e, row, w) ==
    [c \in Entry |->
        IF c = e THEN row
        ELSE IF IsChild(q, c, e)
        THEN [q[c] EXCEPT !.parent = [q[c].parent EXCEPT !.workspace = w, !.entry = Null]]
        ELSE q[c]]

Claimed(q, e, w) == ChildrenMoved(q, e, [q[e] EXCEPT !.claim = w], w)

ClaimedBy(q, e, w) == Pending(q, e) /\ q[e].claim = w

Finished(q, e, w) ==
    IF ClaimedBy(q, e, w)
    THEN ChildrenMoved(q, e, [q[e] EXCEPT !.state = "launched"], w)
    ELSE q

\* Mutant: the failure is recorded, the claim is not given back.
FailedHolding(q, e, w, error) ==
    IF ClaimedBy(q, e, w) THEN [q EXCEPT ![e] = [q[e] EXCEPT !.error = error]] ELSE q

Failed(q, e, w, error) ==
    IF ClaimedBy(q, e, w)
    THEN [c \in Entry |->
            IF c = e
            THEN [q[e] EXCEPT !.claim = Null, !.released = FALSE, !.error = error]
            ELSE IF NotLaunching(q, c) /\ q[c].parent.workspace = w /\ ~q[c].released
            THEN [q[c] EXCEPT !.parent = [q[c].parent EXCEPT !.workspace = Null, !.entry = e]]
            ELSE q[c]]
    ELSE q

\* The row of a launched entry goes with its workspace's (ON DELETE CASCADE).
Cascaded(q, w) ==
    [c \in Entry |->
        IF q[c].state = "launched" /\ q[c].claim = w
        THEN NoRow("deleted")
        ELSE q[c]]
=============================================================================
