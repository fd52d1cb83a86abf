------------------------- MODULE GroupLimitsProofs -------------------------
(***************************************************************************)
(* Theorems about GroupLimits, for any number of workspaces and groups and *)
(* any limits.                                                             *)
(***************************************************************************)
EXTENDS GroupLimits, FiniteSetTheorems, TLAPS

InRegistry == {"running", "placed", "up"}

\* A provision is in the registry, under its group, for as long as it runs.
Registered ==
    \A w \in Workspace :
        entry[w] = IF op[w].stage \in InRegistry THEN op[w].group ELSE None

\* A row is filed in a group; that of a restart, or of a create that has
\* inserted it, in the group its operation counts against. No operation is
\* still a queued launch once it has passed its last check.
FiledRight ==
    \A w \in Workspace :
        /\ row[w] # "none" => group[w] \in Group
        /\ op[w].kind = "restart" \/ op[w].stage \in {"placed", "up"} => group[w] = op[w].group
        /\ op[w].stage \in {"ready"} \cup InRegistry => op[w].kind # "launch"

Started(g)    == Members(g) \cap unit
InProgress(g) == {w \in Workspace : entry[w] = g}

\* What a room has read misses no workspace live in its group: one it has not
\* read yet is still in `running`, one that is gone from `running` went live
\* since, or is in the registry.
CoveredFor(x) ==
    op[x].stage \in {"reading", "ready"} =>
        Started(op[x].group) \subseteq op[x].room.running \cup op[x].room.went
                                           \cup InProgress(op[x].group)

Covered == \A x \in Workspace : CoveredFor(x)

IInv == TypeOK /\ Registered /\ FiledRight /\ Covered
-----------------------------------------------------------------------------
(***************************************************************************)
(* Typing.                                                                 *)
(***************************************************************************)
\* An operation past its stage "idle" has a group and a room.
LEMMA UnderWay ==
    ASSUME TypeOK
    PROVE  \A w \in Workspace :
               /\ op[w].stage # "idle" => op[w] \in Active
               /\ op[w].stage = "idle" => op[w] = Idle
               /\ op[w].room \in Room
BY DEF TypeOK, Idle, Active, Room, Unread

LEMMA UnreadIsRoom == Unread \in Room
BY DEF Unread, Room

\* An operation that ends is idle, or under way to free its slot.
LEMMA EndedTyped ==
    ASSUME TypeOK, NEW w \in Workspace, op[w].stage # "idle"
    PROVE  /\ Ended(w) \in {Idle} \cup Active
           /\ Ended(w).stage \in {"idle", "ending"}
           /\ Ended(w).stage = "ending" => Ended(w).kind = op[w].kind /\ Ended(w).group = op[w].group
           /\ Ended(w).stage = "idle" => Ended(w) = Idle
<1>1. op[w] \in Active  BY UnderWay
<1>. QED  BY <1>1, UnreadIsRoom DEF Ended, Active, Idle

\* What the reads under way count besides changes nothing else of an operation.
LEMMA WentLiveKeeps ==
    ASSUME NEW w \in Workspace, NEW next \in [Workspace -> {Idle} \cup Active], NEW x \in Workspace
    PROVE  /\ WentLive(w, next)[x] \in {Idle} \cup Active
           /\ WentLive(w, next)[x].kind = next[x].kind
           /\ WentLive(w, next)[x].stage = next[x].stage
           /\ WentLive(w, next)[x].group = next[x].group
           /\ WentLive(w, next)[x].room.running = next[x].room.running
           /\ next[x].room.went \subseteq WentLive(w, next)[x].room.went
           /\ (x # w /\ next[x].stage \in {"reading", "ready"} /\ next[x].group = entry[w])
                => w \in WentLive(w, next)[x].room.went
<1>. DEFINE noted == [next[x] EXCEPT !.room = [next[x].room EXCEPT !.went = @ \cup {w}]]
            counts == x # w /\ next[x].stage \in {"reading", "ready"} /\ next[x].group = entry[w]
<1>1. WentLive(w, next)[x] = IF counts THEN noted ELSE next[x]
  BY DEF WentLive
<1>2. CASE counts
  <2>1. next[x] \in Active /\ next[x].room \in Room  BY <1>2 DEF Active, Idle
  <2>2. [next[x].room EXCEPT !.went = @ \cup {w}] \in Room  BY <2>1 DEF Room
  <2>3. noted \in Active  BY <2>1, <2>2 DEF Active
  <2>4. noted.kind = next[x].kind /\ noted.stage = next[x].stage /\ noted.group = next[x].group
    BY <2>1 DEF Active
  <2>5. noted.room.running = next[x].room.running /\ noted.room.went = next[x].room.went \cup {w}
    BY <2>1 DEF Active, Room
  <2>. HIDE DEF noted
  <2>. QED  BY <1>1, <1>2, <2>3, <2>4, <2>5
<1>3. CASE ~counts
  <2>1. WentLive(w, next)[x] = next[x]  BY <1>1, <1>3
  <2>. QED  BY <1>3, <2>1
<1>. QED  BY <1>2, <1>3

\* A provision that settles or fails, or an admission that is refused, ends its
\* own operation; the others only come to count what went live.
LEMMA Ends ==
    ASSUME TypeOK, NEW w \in Workspace, Settle(w) \/ Fail(w) \/ Refuse(w) \/ Release(w)
    PROVE  /\ op' \in [Workspace -> {Idle} \cup Active]
           /\ op'[w].stage \in {"idle", "ending"}
           /\ op'[w].kind = "restart" => op[w].kind = "restart" /\ op'[w].group = op[w].group
           /\ \A x \in Workspace \ {w} :
                  /\ op'[x].kind = op[x].kind
                  /\ op'[x].stage = op[x].stage
                  /\ op'[x].group = op[x].group
                  /\ op'[x].room.running = op[x].room.running
                  /\ op[x].room.went \subseteq op'[x].room.went
                  /\ (Settle(w) /\ op[x].stage \in {"reading", "ready"} /\ op[x].group = entry[w])
                       => w \in op'[x].room.went
<1>. DEFINE next == [op EXCEPT ![w] = Ended(w)]
<1>1. CASE Release(w)  BY <1>1 DEF Release, TypeOK, Idle, Settle
<1>2. CASE Settle(w) \/ Fail(w) \/ Refuse(w)
  <2>1. op[w].stage # "idle"  BY <1>2 DEF Settle, Fail, Refuse, HasRead
  <2>2. next \in [Workspace -> {Idle} \cup Active]  BY <2>1, EndedTyped DEF TypeOK
  <2>3. /\ next[w].stage \in {"idle", "ending"}
        /\ next[w].kind = "restart" => op[w].kind = "restart" /\ next[w].group = op[w].group
    BY <2>1, EndedTyped DEF TypeOK, Idle
  <2>4. \A x \in Workspace \ {w} : next[x] = op[x]  BY DEF TypeOK
  <2>. HIDE DEF next
  <2>5. CASE op' = next /\ ~Settle(w)  BY <2>2, <2>3, <2>4, <2>5
  <2>6. CASE op' = WentLive(w, next)
    <3>1. op' \in [Workspace -> {Idle} \cup Active]
      BY <2>2, <2>6, WentLiveKeeps DEF WentLive
    <3>. QED  BY <2>2, <2>3, <2>4, <2>6, <3>1, WentLiveKeeps
  <2>7. Settle(w) => op' = WentLive(w, next)  BY DEF Settle, next
  <2>8. ~Settle(w) => op' = next  BY <1>2 DEF Fail, Refuse, next
  <2>. QED  BY <2>5, <2>6, <2>7, <2>8
<1>. QED  BY <1>1, <1>2

\* A claimed queue entry goes on as a create that has yet to read.
LEMMA Claims ==
    ASSUME TypeOK, NEW w \in Workspace, Claim(w)
    PROVE  /\ op' \in [Workspace -> {Idle} \cup Active]
           /\ \A x \in Workspace \ {w} : op'[x] = op[x]
           /\ \/ op'[w] = Idle
              \/ /\ op'[w].kind = "create"
                 /\ op'[w].stage = "reading"
                 /\ op'[w].group = op[w].group
                 /\ op'[w].room = Unread
<1>. DEFINE create == [op[w] EXCEPT !.kind = "create", !.stage = "reading", !.room = Unread]
<1>1. op[w] \in Active  BY UnderWay DEF Claim
<1>2. /\ create \in Active
      /\ create.kind = "create" /\ create.stage = "reading"
      /\ create.group = op[w].group /\ create.room = Unread
  BY <1>1, UnreadIsRoom DEF Active
<1>3. op' = [op EXCEPT ![w] = create] \/ op' = [op EXCEPT ![w] = Idle]  BY DEF Claim
<1>. HIDE DEF create
<1>. QED  BY <1>2, <1>3 DEF TypeOK

LEMMA InitInvariant == Init => IInv
<1>. SUFFICES ASSUME Init  PROVE IInv
  OBVIOUS
<1>1. TypeOK  BY DEF Init, TypeOK, Filed
<1>2. Registered /\ FiledRight /\ Covered
  BY DEF Init, Registered, FiledRight, Covered, CoveredFor, Idle, InRegistry
<1>. QED  BY <1>1, <1>2 DEF IInv

LEMMA TypeStep == IInv /\ [Next]_vars => TypeOK'
<1>. SUFFICES ASSUME TypeOK, FiledRight, [Next]_vars  PROVE TypeOK'
  BY DEF IInv
<1>. USE DEF TypeOK
<1>1. ASSUME NEW w \in Workspace, NEW kind \in {"create", "launch", "restart"}, NEW g \in Group,
             Begin(w, kind, g)
      PROVE  TypeOK'
  BY <1>1, UnreadIsRoom DEF Begin, Active
<1>2. ASSUME NEW w \in Workspace, BeginCreate(w) \/ BeginLaunch(w)
      PROVE  TypeOK'
  BY <1>1, <1>2 DEF BeginCreate, BeginLaunch
<1>3. ASSUME NEW w \in Workspace, BeginRestart(w)
      PROVE  TypeOK'
  BY <1>1, <1>3 DEF BeginRestart, FiledRight
<1>4. ASSUME NEW w \in Workspace, ReadLimit(w) \/ ReadRows(w) \/ ReadUnits(w)
      PROVE  TypeOK'
  <2>1. op[w] \in Active /\ op[w].room \in Room  BY <1>4, UnderWay DEF ReadLimit, ReadRows, ReadUnits, Reading
  <2>2. CASE ReadLimit(w)  BY <2>1, <2>2 DEF ReadLimit, Active, Room
  <2>3. CASE ReadRows(w)  BY <2>1, <2>3 DEF ReadRows, Active, Room
  <2>4. CASE ReadUnits(w)  BY <2>1, <2>4 DEF ReadUnits, Active, Room
  <2>. QED  BY <1>4, <2>2, <2>3, <2>4
<1>5. ASSUME NEW w \in Workspace, Refuse(w) \/ Settle(w) \/ Fail(w) \/ Release(w)
      PROVE  TypeOK'
  <2>1. op' \in [Workspace -> {Idle} \cup Active]  BY <1>5, Ends
  <2>. QED  BY <1>5, <2>1 DEF Refuse, Settle, Fail, Release, Filed
<1>6. ASSUME NEW w \in Workspace, Admit(w) \/ Reserve(w) \/ Claim(w) \/ Register(w)
      PROVE  TypeOK'
  <2>1. op[w] \in Active  BY <1>6, UnderWay DEF Admit, Reserve, Claim, Register, HasRead
  <2>2. CASE Admit(w)  BY <2>1, <2>2 DEF Admit, Active
  <2>3. CASE Reserve(w)  BY <2>1, <2>3 DEF Reserve, Active, Filed
  <2>4. CASE Claim(w)  BY <2>4, Claims DEF Claim, Filed
  <2>5. CASE Register(w)  BY <2>1, <2>5, UnreadIsRoom DEF Register, Active, Filed
  <2>. QED  BY <1>6, <2>2, <2>3, <2>4, <2>5
<1>7. ASSUME NEW w \in Workspace, Place(w) \/ StartUnit(w) \/ ClearStop(w)
      PROVE  TypeOK'
  <2>1. op[w] \in Active  BY <1>7, UnderWay DEF Place, StartUnit, ClearStop
  <2>2. CASE Place(w)  BY <2>1, <2>2 DEF Place, Active, Filed
  <2>3. CASE StartUnit(w)  BY <2>1, <2>3 DEF StartUnit, Active
  <2>4. CASE ClearStop(w)  BY <2>4 DEF ClearStop
  <2>. QED  BY <1>7, <2>2, <2>3, <2>4
<1>8. ASSUME NEW w \in Workspace, RecordStop(w) \/ TakeDown(w) \/ Die(w) \/ Reap(w)
      PROVE  TypeOK'
  BY <1>8 DEF RecordStop, TakeDown, Die, Reap
<1>9. ASSUME NEW g \in Group, SetLimit(g)
      PROVE  TypeOK'
  BY <1>9 DEF SetLimit
<1>10. CASE Crash  BY <1>10 DEF Crash, Filed
<1>11. CASE UNCHANGED vars  BY <1>11 DEF vars
<1>. QED
  BY <1>2, <1>3, <1>4, <1>5, <1>6, <1>7, <1>8, <1>9, <1>10, <1>11 DEF Next
-----------------------------------------------------------------------------
(***************************************************************************)
(* The registry and the rows.                                              *)
(***************************************************************************)
LEMMA RegisteredStep == IInv /\ [Next]_vars => Registered'
<1>. SUFFICES ASSUME TypeOK, Registered, [Next]_vars  PROVE Registered'
  BY DEF IInv
<1>. USE DEF TypeOK, Registered, InRegistry
<1>1. ASSUME NEW w \in Workspace, BeginCreate(w) \/ BeginLaunch(w) \/ BeginRestart(w)
      PROVE  Registered'
  BY <1>1 DEF BeginCreate, BeginLaunch, BeginRestart, Begin
<1>2. ASSUME NEW w \in Workspace, ReadLimit(w) \/ ReadRows(w) \/ ReadUnits(w)
      PROVE  Registered'
  <2>1. op[w] \in Active  BY <1>2, UnderWay DEF ReadLimit, ReadRows, ReadUnits, Reading
  <2>. QED  BY <1>2, <2>1 DEF ReadLimit, ReadRows, ReadUnits, Active, Reading
<1>3. ASSUME NEW w \in Workspace, Refuse(w)
      PROVE  Registered'
  BY <1>3, EndedTyped DEF Refuse, HasRead
<1>4. ASSUME NEW w \in Workspace, Admit(w) \/ Reserve(w) \/ Claim(w) \/ Register(w)
      PROVE  Registered'
  <2>1. op[w] \in Active  BY <1>4, UnderWay DEF Admit, Reserve, Claim, Register, HasRead
  <2>2. CASE Admit(w)  BY <2>1, <2>2 DEF Admit, HasRead, Active
  <2>3. CASE Reserve(w)  BY <2>1, <2>3 DEF Reserve, HasRead, Active
  <2>4. CASE Claim(w)
    <3>1. entry' = entry /\ entry[w] = None  BY <2>4 DEF Claim
    <3>2. op'[w].stage \notin InRegistry  BY <2>4, Claims DEF Idle
    <3>. QED  BY <2>4, <3>1, <3>2, Claims
  <2>5. CASE Register(w)  BY <2>1, <2>5 DEF Register, Active
  <2>. QED  BY <1>4, <2>2, <2>3, <2>4, <2>5
<1>5. ASSUME NEW w \in Workspace, Place(w) \/ StartUnit(w) \/ ClearStop(w)
      PROVE  Registered'
  <2>1. op[w] \in Active  BY <1>5, UnderWay DEF Place, StartUnit, ClearStop
  <2>2. CASE Place(w)  BY <2>1, <2>2 DEF Place, Active
  <2>3. CASE StartUnit(w)  BY <2>1, <2>3 DEF StartUnit, Active
  <2>4. CASE ClearStop(w)  BY <2>4 DEF ClearStop
  <2>. QED  BY <1>5, <2>2, <2>3, <2>4
<1>6. ASSUME NEW w \in Workspace, Settle(w) \/ Fail(w)
      PROVE  Registered'
  <2>1. entry' = [entry EXCEPT ![w] = None]  BY <1>6 DEF Settle, Fail
  <2>2. op'[w].stage \notin InRegistry  BY <1>6, Ends
  <2>3. \A x \in Workspace \ {w} : op'[x].stage = op[x].stage /\ op'[x].group = op[x].group
    BY <1>6, Ends
  <2>. QED  BY <2>1, <2>2, <2>3
<1>7. ASSUME NEW w \in Workspace, Release(w)
      PROVE  Registered'
  BY <1>7 DEF Release, Idle
<1>8. ASSUME NEW w \in Workspace, RecordStop(w) \/ TakeDown(w) \/ Die(w) \/ Reap(w)
      PROVE  Registered'
  BY <1>8 DEF RecordStop, TakeDown, Die, Reap
<1>9. ASSUME NEW g \in Group, SetLimit(g)
      PROVE  Registered'
  BY <1>9 DEF SetLimit
<1>10. CASE Crash  BY <1>10 DEF Crash, Idle
<1>11. CASE UNCHANGED vars  BY <1>11 DEF vars
<1>. QED
  BY <1>1, <1>2, <1>3, <1>4, <1>5, <1>6, <1>7, <1>8, <1>9, <1>10, <1>11 DEF Next

LEMMA FiledRightStep == IInv /\ [Next]_vars => FiledRight'
<1>. SUFFICES ASSUME TypeOK, FiledRight, [Next]_vars  PROVE FiledRight'
  BY DEF IInv
<1>. USE DEF TypeOK, FiledRight, InRegistry
<1>1. ASSUME NEW w \in Workspace, NEW kind \in {"create", "launch"}, NEW g \in Group, Begin(w, kind, g)
      PROVE  FiledRight'
  BY <1>1 DEF Begin
<1>2. ASSUME NEW w \in Workspace, BeginCreate(w) \/ BeginLaunch(w)
      PROVE  FiledRight'
  BY <1>1, <1>2 DEF BeginCreate, BeginLaunch
<1>3. ASSUME NEW w \in Workspace, BeginRestart(w)
      PROVE  FiledRight'
  BY <1>3 DEF BeginRestart, Begin
<1>4. ASSUME NEW w \in Workspace, ReadLimit(w) \/ ReadRows(w) \/ ReadUnits(w)
      PROVE  FiledRight'
  <2>1. op[w] \in Active  BY <1>4, UnderWay DEF ReadLimit, ReadRows, ReadUnits, Reading
  <2>. QED  BY <1>4, <2>1 DEF ReadLimit, ReadRows, ReadUnits, Active, Reading
<1>5. ASSUME NEW w \in Workspace, Refuse(w) \/ Settle(w) \/ Release(w)
      PROVE  FiledRight'
  <2>1. row' = row /\ group' = group  BY <1>5 DEF Refuse, Settle, Release
  <2>. QED  BY <1>5, <2>1, Ends
<1>6. ASSUME NEW w \in Workspace, Fail(w)
      PROVE  FiledRight'
  <2>1. \/ row' = row /\ group' = group
        \/ /\ op[w].kind = "create"
           /\ row' = [row EXCEPT ![w] = "none"]
           /\ group' = [group EXCEPT ![w] = None]
    BY <1>6 DEF Fail
  <2>. QED  BY <1>6, <2>1, Ends
<1>7. ASSUME NEW w \in Workspace, Admit(w) \/ Reserve(w) \/ Register(w)
      PROVE  FiledRight'
  <2>1. op[w] \in Active  BY <1>7, UnderWay DEF Admit, Reserve, Register, HasRead
  <2>2. CASE Admit(w)  BY <2>1, <2>2 DEF Admit, HasRead, Active
  <2>3. CASE Reserve(w)  BY <2>1, <2>3 DEF Reserve, HasRead, Active
  <2>4. CASE Register(w)  BY <2>1, <2>4 DEF Register, Active
  <2>. QED  BY <1>7, <2>2, <2>3, <2>4
<1>8. ASSUME NEW w \in Workspace, Claim(w)
      PROVE  FiledRight'
  <2>1. row' = row /\ group' = group  BY <1>8 DEF Claim
  <2>. QED  BY <1>8, <2>1, Claims DEF Idle
<1>9. ASSUME NEW w \in Workspace, Place(w)
      PROVE  FiledRight'
  <2>1. op[w] \in Active  BY <1>9, UnderWay DEF Place
  <2>2. CASE op[w].kind = "create"  BY <1>9, <2>1, <2>2 DEF Place, Active
  <2>3. CASE op[w].kind # "create"  BY <1>9, <2>1, <2>3 DEF Place, Active
  <2>. QED  BY <2>2, <2>3
<1>10. ASSUME NEW w \in Workspace, StartUnit(w) \/ ClearStop(w)
       PROVE  FiledRight'
  <2>1. op[w] \in Active  BY <1>10, UnderWay DEF StartUnit, ClearStop
  <2>2. CASE StartUnit(w)  BY <2>1, <2>2 DEF StartUnit, Active
  <2>3. CASE ClearStop(w)  BY <2>3 DEF ClearStop
  <2>. QED  BY <1>10, <2>2, <2>3
<1>11. ASSUME NEW w \in Workspace, RecordStop(w) \/ TakeDown(w) \/ Die(w) \/ Reap(w)
       PROVE  FiledRight'
  BY <1>11 DEF RecordStop, TakeDown, Die, Reap
<1>12. ASSUME NEW g \in Group, SetLimit(g)
       PROVE  FiledRight'
  BY <1>12 DEF SetLimit
<1>13. CASE Crash  BY <1>13 DEF Crash, Idle
<1>14. CASE UNCHANGED vars  BY <1>14 DEF vars
<1>. QED
  BY <1>2, <1>3, <1>4, <1>5, <1>6, <1>7, <1>8, <1>9, <1>10, <1>11, <1>12, <1>13, <1>14 DEF Next
-----------------------------------------------------------------------------
(***************************************************************************)
(* What goes live, and what a reader of the room knows of it.              *)
(***************************************************************************)
\* A workspace starts to run in a group only while its provision is in the
\* registry under that group.
LEMMA StartedStep ==
    ASSUME IInv, [Next]_vars, NEW g \in Group
    PROVE  Started(g)' \subseteq Started(g) \cup InProgress(g)'
<1>. USE DEF Started, Members, InProgress
<1>1. ASSUME NEW w \in Workspace, Place(w) \/ StartUnit(w) \/ ClearStop(w)
      PROVE  Started(g)' \subseteq Started(g) \cup InProgress(g)'
  <2>1. entry[w] = op[w].group /\ entry' = entry
    BY <1>1 DEF IInv, Registered, InRegistry, Place, StartUnit, ClearStop
  <2>2. \A x \in Workspace \ {w} : x \in Started(g)' => x \in Started(g)
    BY <1>1 DEF Place, StartUnit, ClearStop, IInv, TypeOK
  <2>3. ASSUME w \in Started(g)', w \notin Started(g)
        PROVE  op[w].group = g
    <3>1. CASE Place(w)  BY <2>3, <3>1 DEF Place, IInv, TypeOK
    <3>2. CASE StartUnit(w)  BY <2>3, <3>2 DEF StartUnit, IInv, FiledRight
    <3>3. CASE ClearStop(w)  BY <2>3, <3>3 DEF ClearStop, IInv, FiledRight
    <3>. QED  BY <1>1, <3>1, <3>2, <3>3
  <2>. QED  BY <2>1, <2>2, <2>3
<1>2. ASSUME NEW w \in Workspace, Settle(w) \/ Fail(w) \/ Refuse(w) \/ Release(w)
      PROVE  Started(g)' \subseteq Started(g)
  BY <1>2 DEF Settle, Fail, Refuse, Release, IInv, TypeOK
<1>3. ASSUME NEW w \in Workspace,
             \/ BeginCreate(w) \/ BeginLaunch(w) \/ BeginRestart(w)
             \/ ReadLimit(w) \/ ReadRows(w) \/ ReadUnits(w)
             \/ Admit(w) \/ Reserve(w) \/ Claim(w) \/ Register(w)
      PROVE  Started(g)' = Started(g)
  BY <1>3 DEF BeginCreate, BeginLaunch, BeginRestart, Begin, ReadLimit, ReadRows, ReadUnits,
              Admit, Reserve, Claim, Register
<1>4. ASSUME NEW w \in Workspace, RecordStop(w) \/ TakeDown(w) \/ Die(w) \/ Reap(w)
      PROVE  Started(g)' \subseteq Started(g)
  BY <1>4 DEF RecordStop, TakeDown, Die, Reap, IInv, TypeOK
<1>5. ASSUME NEW h \in Group, SetLimit(h)
      PROVE  Started(g)' = Started(g)
  BY <1>5 DEF SetLimit
<1>6. Crash \/ UNCHANGED vars => Started(g)' = Started(g)
  BY DEF Crash, vars
<1>. HIDE DEF Started, Members
<1>. QED
  BY <1>1, <1>2, <1>3, <1>4, <1>5, <1>6 DEF Next

\* A reader stays covered by a step that takes nothing from its room and
\* leaves what was in the registry there, or in its room, or not running.
LEMMA StaysCovered ==
    ASSUME IInv, [Next]_vars, NEW x \in Workspace, NEW g \in Group,
           op[x].stage \in {"reading", "ready"}, op[x].group = g, op'[x].group = g,
           op[x].room.running \subseteq op'[x].room.running,
           op[x].room.went \subseteq op'[x].room.went,
           \A w \in Workspace : entry[w] = g /\ entry'[w] # g =>
               w \in op'[x].room.went \/ w \notin unit'
    PROVE  CoveredFor(x)'
<1>1. Started(g) \subseteq op[x].room.running \cup op[x].room.went \cup InProgress(g)
  BY DEF IInv, Covered, CoveredFor
<1>2. Started(g)' \subseteq Started(g) \cup InProgress(g)'
  BY StartedStep
<1>3. Started(g)' \subseteq unit'  BY DEF Started
<1>4. \A w \in Workspace : w \in InProgress(g) => w \in op'[x].room.went \/ w \notin unit' \/ w \in InProgress(g)'
  BY DEF InProgress
<1>5. Started(g)' \subseteq op'[x].room.running \cup op'[x].room.went \cup InProgress(g)'
  BY <1>1, <1>2, <1>3, <1>4 DEF Started, Members
<1>. QED  BY <1>5 DEF CoveredFor, Started, Members, InProgress

LEMMA CoveredStep == IInv /\ [Next]_vars => Covered'
<1>. SUFFICES ASSUME IInv, [Next]_vars, NEW x \in Workspace, op'[x].stage \in {"reading", "ready"}
              PROVE  CoveredFor(x)'
  BY DEF Covered, CoveredFor
<1>. USE DEF InRegistry
<1>0. TypeOK /\ TypeOK'  BY TypeStep DEF IInv
<1>. DEFINE Same == op'[x] = op[x] /\ \A w \in Workspace : entry[w] # None => entry'[w] = entry[w]
<1>1. CASE Same
  <2>1. PICK g \in Group : op[x].group = g  BY <1>0, <1>1, UnderWay DEF Active
  <2>2. \A w \in Workspace : entry[w] = g => entry'[w] = g  BY <1>1, <2>1, GroupLimitsAssumption
  <2>. QED  BY <1>1, <2>1, <2>2, StaysCovered
<1>2. ASSUME NEW w \in Workspace, BeginCreate(w) \/ BeginLaunch(w) \/ BeginRestart(w)
      PROVE  CoveredFor(x)'
  <2>1. CASE x = w
    <3>1. op'[x].room = Unread
      BY <1>0, <1>2, <2>1 DEF BeginCreate, BeginLaunch, BeginRestart, Begin, TypeOK
    <3>. QED  BY <3>1 DEF CoveredFor, Unread, Started, Members
  <2>2. CASE x # w
    BY <1>0, <1>1, <1>2, <2>2 DEF BeginCreate, BeginLaunch, BeginRestart, Begin, TypeOK
  <2>. QED  BY <2>1, <2>2
<1>3. ASSUME NEW w \in Workspace, ReadLimit(w)
      PROVE  CoveredFor(x)'
  <2>1. CASE x = w
    <3>1. op[w] \in Active  BY <1>0, <1>3, UnderWay DEF ReadLimit, Reading
    <3>2. /\ op'[x].group = op[x].group
          /\ op'[x].room.running = op[x].room.running
          /\ op'[x].room.went = op[x].room.went
      BY <1>0, <1>3, <2>1, <3>1 DEF ReadLimit, TypeOK, Active, Room
    <3>3. PICK g \in Group : op[x].group = g  BY <2>1, <3>1 DEF Active
    <3>. QED  BY <1>3, <2>1, <3>2, <3>3, StaysCovered DEF ReadLimit, Reading
  <2>2. CASE x # w  BY <1>0, <1>1, <1>3, <2>2 DEF ReadLimit, TypeOK
  <2>. QED  BY <2>1, <2>2
<1>4. ASSUME NEW w \in Workspace, ReadRows(w) \/ ReadUnits(w)
      PROVE  CoveredFor(x)'
  <2>1. CASE x = w
    <3>1. op[w] \in Active /\ op[w].stage = "reading"
      BY <1>0, <1>4, UnderWay DEF ReadRows, ReadUnits, Reading
    <3>2. Started(op[x].group) \subseteq op[x].room.running \cup op[x].room.went \cup InProgress(op[x].group)
      BY <2>1, <3>1 DEF IInv, Covered, CoveredFor
    <3>3. /\ op'[x].group = op[x].group
          /\ op'[x].room.went = op[x].room.went
      BY <1>0, <1>4, <2>1, <3>1 DEF ReadRows, ReadUnits, TypeOK, Active, Room
    <3>4. Started(op[x].group) \cap op[x].room.running \subseteq op'[x].room.running
      <4>1. CASE ReadRows(w)
        BY <1>0, <2>1, <3>1, <4>1 DEF ReadRows, Started, TypeOK, Active, Room
      <4>2. CASE ReadUnits(w)
        BY <1>0, <2>1, <3>1, <4>2 DEF ReadUnits, Started, TypeOK, Active, Room
      <4>. QED  BY <1>4, <4>1, <4>2
    <3>5. row' = row /\ group' = group /\ unit' = unit /\ entry' = entry
      BY <1>4 DEF ReadRows, ReadUnits
    <3>. QED  BY <3>2, <3>3, <3>4, <3>5 DEF CoveredFor, Started, Members, InProgress
  <2>2. CASE x # w  BY <1>0, <1>1, <1>4, <2>2 DEF ReadRows, ReadUnits, TypeOK
  <2>. QED  BY <2>1, <2>2
<1>5. ASSUME NEW w \in Workspace, Admit(w)
      PROVE  CoveredFor(x)'
  <2>1. op[w] \in Active  BY <1>0, <1>5, UnderWay DEF Admit, HasRead
  <2>2. /\ op[x].stage \in {"reading", "ready"}
        /\ op'[x].group = op[x].group
        /\ op'[x].room = op[x].room
    BY <1>0, <1>5, <2>1 DEF Admit, HasRead, TypeOK, Active
  <2>3. PICK g \in Group : op[x].group = g  BY <1>0, <2>2, UnderWay DEF Active
  <2>4. entry' = entry  BY <1>5 DEF Admit
  <2>. QED  BY <2>2, <2>3, <2>4, StaysCovered
<1>6. ASSUME NEW w \in Workspace, Claim(w)
      PROVE  CoveredFor(x)'
  <2>1. CASE x = w
    <3>1. op'[x].room = Unread  BY <1>0, <1>6, <2>1, Claims DEF Idle
    <3>. QED  BY <3>1 DEF CoveredFor, Unread, Started, Members
  <2>2. CASE x # w
    <3>1. op'[x] = op[x]  BY <1>0, <1>6, <2>2, Claims
    <3>2. entry' = entry  BY <1>6 DEF Claim
    <3>. QED  BY <1>1, <3>1, <3>2
  <2>. QED  BY <2>1, <2>2
<1>7. ASSUME NEW w \in Workspace, Reserve(w) \/ Register(w) \/ Place(w) \/ StartUnit(w)
      PROVE  CoveredFor(x)'
  <2>1. op[w] \in Active  BY <1>0, <1>7, UnderWay DEF Reserve, HasRead, Register, Place, StartUnit
  <2>2. op'[w].stage \notin {"reading", "ready"}
    BY <1>0, <1>7, <2>1 DEF Reserve, Register, Place, StartUnit, TypeOK, Active
  <2>3. \A y \in Workspace \ {w} : op'[y] = op[y]
    BY <1>0, <1>7 DEF Reserve, Register, Place, StartUnit, TypeOK
  <2>4. \A y \in Workspace : entry[y] # None => entry'[y] = entry[y]
    <3>1. CASE Register(w)
      <4>1. entry[w] = None  BY <3>1 DEF IInv, Registered, Register
      <4>. QED  BY <1>0, <3>1, <4>1 DEF Register, TypeOK
    <3>2. CASE ~Register(w)  BY <1>7, <3>2 DEF Reserve, Place, StartUnit
    <3>. QED  BY <3>1, <3>2
  <2>. QED  BY <1>1, <2>2, <2>3, <2>4
<1>8. ASSUME NEW w \in Workspace, Settle(w) \/ Fail(w) \/ Refuse(w) \/ Release(w)
      PROVE  CoveredFor(x)'
  <2>1. x # w  BY <1>0, <1>8, Ends
  <2>2. /\ op[x].stage \in {"reading", "ready"}
        /\ op'[x].group = op[x].group
        /\ op[x].room.running \subseteq op'[x].room.running
        /\ op[x].room.went \subseteq op'[x].room.went
        /\ Settle(w) /\ op[x].group = entry[w] => w \in op'[x].room.went
    BY <1>0, <1>8, <2>1, Ends
  <2>3. PICK g \in Group : op[x].group = g  BY <1>0, <2>2, UnderWay DEF Active
  <2>4. \A y \in Workspace \ {w} : entry'[y] = entry[y]
    BY <1>0, <1>8 DEF Settle, Fail, Refuse, Release, TypeOK
  <2>5. entry'[w] # entry[w] => Settle(w) \/ w \notin unit'
    BY <1>0, <1>8 DEF Settle, Fail, Refuse, Release, TypeOK
  <2>. QED  BY <2>2, <2>3, <2>4, <2>5, StaysCovered
<1>9. ASSUME NEW w \in Workspace, ClearStop(w) \/ RecordStop(w) \/ TakeDown(w) \/ Die(w) \/ Reap(w)
      PROVE  CoveredFor(x)'
  BY <1>1, <1>9 DEF ClearStop, RecordStop, TakeDown, Die, Reap
<1>10. ASSUME NEW g \in Group, SetLimit(g)
       PROVE  CoveredFor(x)'
  BY <1>1, <1>10 DEF SetLimit
<1>11. CASE Crash  BY <1>11 DEF Crash, Idle
<1>12. CASE UNCHANGED vars  BY <1>1, <1>12 DEF vars
<1>. QED
  BY <1>2, <1>3, <1>4, <1>5, <1>6, <1>7, <1>8, <1>9, <1>10, <1>11, <1>12 DEF Next

LEMMA Inductive == Spec => []IInv
<1>1. IInv /\ [Next]_vars => IInv'
  BY TypeStep, RegisteredStep, FiledRightStep, CoveredStep DEF IInv
<1>. QED  BY <1>1, InitInvariant, PTL DEF Spec

\* Every state of the admissions, the registry and the rows is one the code's
\* types allow.
THEOREM TypeCorrect == Spec => []TypeOK
BY Inductive, PTL DEF IInv
-----------------------------------------------------------------------------
(***************************************************************************)
(* The slots.                                                              *)
(***************************************************************************)
LEMMA LiveSplit ==
    ASSUME NEW g
    PROVE  /\ Live(g) = Started(g) \cup InFlight(g)
           /\ InProgress(g) \subseteq InFlight(g)
BY DEF Live, Started, InProgress, InFlight

\* Nothing becomes live in a group without having taken a slot there.
THEOREM LiveOnlyByASlotCorrect == Spec => LiveOnlyByASlot
<1>1. ASSUME IInv, [Next]_vars, NEW g \in Group
      PROVE  Live(g)' \subseteq Live(g) \cup InFlight(g)'
  <2>1. Started(g)' \subseteq Started(g) \cup InProgress(g)'  BY <1>1, StartedStep
  <2>2. Live(g)' = Started(g)' \cup InFlight(g)' /\ InProgress(g)' \subseteq InFlight(g)'
    BY DEF Live, Started, InProgress, InFlight
  <2>3. Started(g) \subseteq Live(g)  BY LiveSplit
  <2>. QED  BY <2>1, <2>2, <2>3
<1>2. IInv /\ [Next]_vars => [\A g \in Group : Live(g)' \subseteq Live(g) \cup InFlight(g)']_vars
  BY <1>1
<1>. QED  BY <1>2, Inductive, PTL DEF Spec, LiveOnlyByASlot

\* The step of a check leaves no more live in the group than the limit read:
\* what the room and the registry know covers all there is.
LEMMA SlotWithinLimit ==
    ASSUME IInv, NEW w \in Workspace, NEW g \in Group, NEW n \in Limit,
           op[w].stage \in {"reading", "ready"}, op[w].group = g, op[w].room.limit = n,
           ~groupFull(w),
           Started(g)' = Started(g), InFlight(g)' \subseteq InFlight(g) \cup {w}
    PROVE  Cardinality(Live(g)') <= n
<1>. DEFINE others == liveWorkspaces(w) \ {w}
<1>1. n \in Nat /\ n # None  BY GroupLimitsAssumption
<1>2. op[w].room.running \subseteq Workspace /\ op[w].room.went \subseteq Workspace
  BY UnderWay DEF IInv, Room
<1>3. others \subseteq Workspace  BY <1>2 DEF liveWorkspaces, InFlight
<1>4. IsFiniteSet(others)  BY <1>3, FS_Subset, GroupLimitsAssumption
<1>5. Cardinality(others) \in Nat  BY <1>4, FS_CardinalityType
<1>6. Cardinality(others) < n
  BY <1>1, <1>5 DEF groupFull
<1>7. IsFiniteSet(others \cup {w}) /\ Cardinality(others \cup {w}) = Cardinality(others) + 1
  BY <1>4, FS_AddElement
<1>8. Live(g)' \subseteq others \cup {w}
  <2>1. Started(g) \subseteq op[w].room.running \cup op[w].room.went \cup InProgress(g)
    BY DEF IInv, Covered, CoveredFor
  <2>2. Started(g) \cup InFlight(g) \subseteq liveWorkspaces(w)
    BY <2>1, LiveSplit DEF liveWorkspaces
  <2>3. Live(g)' = Started(g)' \cup InFlight(g)'  BY DEF Live, Started
  <2>. QED  BY <2>2, <2>3
<1>9. Cardinality(Live(g)') <= Cardinality(others \cup {w})
  BY <1>7, <1>8, FS_Subset
<1>10. Cardinality(Live(g)') \in Nat
  BY <1>7, <1>8, FS_Subset, FS_CardinalityType
<1>. QED  BY <1>1, <1>5, <1>6, <1>7, <1>9, <1>10

\* A workspace comes to hold a slot only by a queued launch's reservation or
\* by a provision's registration.
LEMMA SlotTaken ==
    ASSUME IInv, [Next]_vars, NEW w \in Workspace, NEW g \in Group,
           w \notin InFlight(g), w \in InFlight(g)'
    PROVE  Reserve(w) \/ Register(w)
<1>. SUFFICES ASSUME ~Reserve(w), ~Register(w)
              PROVE  entry'[w] \in {entry[w], None} /\ reserved'[w] \in {reserved[w], None}
  BY GroupLimitsAssumption DEF InFlight
<1>0. TypeOK  BY DEF IInv
<1>1. ASSUME NEW x \in Workspace, Reserve(x) \/ Register(x)
      PROVE  entry'[w] = entry[w] /\ reserved'[w] = reserved[w]
  BY <1>0, <1>1 DEF Reserve, Register, TypeOK
<1>2. ASSUME NEW x \in Workspace,
             \/ BeginCreate(x) \/ BeginLaunch(x) \/ BeginRestart(x)
             \/ ReadLimit(x) \/ ReadRows(x) \/ ReadUnits(x) \/ Refuse(x) \/ Admit(x)
             \/ Place(x) \/ StartUnit(x) \/ ClearStop(x)
             \/ RecordStop(x) \/ TakeDown(x) \/ Die(x) \/ Reap(x)
      PROVE  entry'[w] = entry[w] /\ reserved'[w] = reserved[w]
  BY <1>2 DEF BeginCreate, BeginLaunch, BeginRestart, Begin, ReadLimit, ReadRows, ReadUnits,
              Refuse, Admit, Place, StartUnit, ClearStop, RecordStop, TakeDown, Die, Reap
<1>3. ASSUME NEW x \in Workspace, Claim(x) \/ Settle(x) \/ Fail(x) \/ Release(x)
      PROVE  entry'[w] \in {entry[w], None} /\ reserved'[w] \in {reserved[w], None}
  BY <1>0, <1>3 DEF Claim, Settle, Fail, Release, TypeOK
<1>4. ASSUME NEW h \in Group, SetLimit(h)
      PROVE  entry'[w] = entry[w] /\ reserved'[w] = reserved[w]
  BY <1>4 DEF SetLimit
<1>5. Crash \/ UNCHANGED vars =>
        entry'[w] \in {entry[w], None} /\ reserved'[w] \in {reserved[w], None}
  BY DEF Crash, vars
<1>. QED  BY <1>1, <1>2, <1>3, <1>4, <1>5 DEF Next

\* A create or a queued launch takes a slot only if the group has one free, in
\* that step, under the limit it read.
THEOREM AdmittedWithinLimitCorrect == Spec => AdmittedWithinLimit
<1>1. ASSUME IInv, [Next]_vars, NEW w \in Workspace, NEW g \in Group, NEW n \in Limit,
             op[w].kind \in {"create", "launch"}, op[w].group = g, op[w].room.limit = n,
             w \notin InFlight(g), w \in InFlight(g)'
      PROVE  Cardinality(Live(g)') <= n
  <2>1. CASE Reserve(w)
    <3>1. op[w].stage = "reading" /\ ~groupFull(w)  BY <2>1 DEF Reserve, HasRead
    <3>2. Started(g)' = Started(g)  BY <2>1 DEF Reserve, Started, Members
    <3>3. InFlight(g)' \subseteq InFlight(g) \cup {w}
      BY <1>1, <2>1 DEF Reserve, InFlight, IInv, TypeOK
    <3>. QED  BY <1>1, <3>1, <3>2, <3>3, SlotWithinLimit
  <2>2. CASE Register(w)
    <3>1. op[w].stage = "ready" /\ op[w].kind # "launch"
      BY <1>1, <2>2 DEF Register, IInv, FiledRight
    <3>2. ~groupFull(w)  BY <1>1, <2>2, <3>1 DEF Register
    <3>3. Started(g)' = Started(g)  BY <2>2 DEF Register, Started, Members
    <3>4. InFlight(g)' \subseteq InFlight(g) \cup {w}
      BY <1>1, <2>2 DEF Register, InFlight, IInv, TypeOK
    <3>. QED  BY <1>1, <3>1, <3>2, <3>3, <3>4, SlotWithinLimit
  <2>. QED  BY <1>1, <2>1, <2>2, SlotTaken
<1>2. IInv /\ [Next]_vars =>
        [\A w \in Workspace, g \in Group, n \in Limit :
           (/\ op[w].kind \in {"create", "launch"} /\ op[w].group = g /\ op[w].room.limit = n
            /\ w \notin InFlight(g)
            /\ w \in InFlight(g)')
              => Cardinality(Live(g)') <= n
        ]_vars
  BY <1>1
<1>. QED  BY <1>2, Inductive, PTL DEF Spec, AdmittedWithinLimit
=============================================================================
