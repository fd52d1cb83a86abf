-------------------- MODULE QueuedWorkspaceStoreProofs --------------------
(***************************************************************************)
(* What the writes of QueuedWorkspaceStore preserve.                       *)
(***************************************************************************)
EXTENDS QueuedWorkspaceStore, TLAPS

(***************************************************************************)
(* Every write takes a table to a table.                                   *)
(***************************************************************************)
\* The parents a request can write are parents.
LEMMA ParentsTyped ==
    /\ Room \in Parent
    /\ \A w \in Workspace : AfterWorkspace(w) \in Parent
    /\ \A e \in Entry : AfterEntry(e) \in Parent
    /\ \A t \in StartTime : AtTime(t) \in Parent
BY DEF Parent, Room, AfterWorkspace, AfterEntry, AtTime

\* A row outside the table is a row.
LEMMA NoRowTyped == \A s \in RowState : NoRow(s) \in Row
BY ParentsTyped DEF Row, NoRow

\* insertQueuedWorkspace.
LEMMA InsertedTyped ==
    ASSUME NEW q \in Queue, NEW e \in Entry, NEW p \in Parent, NEW g \in Group
    PROVE  Inserted(q, e, p, g) \in Queue
BY DEF Inserted, Queue, Row, RowState

\* updateQueuedWorkspace.
LEMMA UpdatedTyped ==
    ASSUME NEW q \in Queue, NEW e \in Entry, NEW p \in Parent \cup {Null}, NEW g \in Group
    PROVE  Updated(q, e, p, g) \in Queue
<1>. DEFINE parent == IF p = Null THEN q[e].parent ELSE p
            error  == q[e].error /\ (p = Null \/ p.at = Null)
<1>1. parent \in Parent  BY DEF Queue, Row
<1>2. error \in BOOLEAN  OBVIOUS
<1>3. Updated(q, e, p, g) = [q EXCEPT ![e] = [q[e] EXCEPT !.group = g, !.parent = parent, !.error = error]]
  BY DEF Updated
<1>. HIDE DEF parent, error
<1>4. [q[e] EXCEPT !.group = g, !.parent = parent, !.error = error] \in Row
  BY <1>1, <1>2 DEF Queue, Row
<1>. QED  BY <1>3, <1>4 DEF Queue

\* deleteQueuedWorkspace.
LEMMA DeletedTyped ==
    ASSUME NEW q \in Queue, NEW e \in Entry, NEW now \in Nat
    PROVE  Deleted(q, e, now) \in Queue
<1>1. NoRow("deleted") \in Row  BY NoRowTyped DEF RowState
<1>2. ASSUME NEW c \in Row, NEW r \in Row  PROVE Spliced(c, r, now) \in Row
  BY <1>2 DEF Spliced, Row
<1>3. \A c \in Entry : q[c] \in Row  BY DEF Queue
<1>. QED  BY <1>1, <1>2, <1>3 DEF Deleted, Queue

\* releaseQueuedChildren, releaseDueQueuedWorkspaces and releaseQueuedWorkspace.
LEMMA ReleasesTyped ==
    ASSUME NEW q \in Queue
    PROVE  /\ \A w \in Workspace : ChildrenReleased(q, w) \in Queue
           /\ \A now \in Nat : DueReleased(q, now) \in Queue
           /\ \A e \in Entry : Released(q, e) \in Queue
BY DEF ChildrenReleased, DueReleased, Released, Queue, Row

\* The re-pointing of a claimed or launched entry's children.
LEMMA ChildrenMovedTyped ==
    ASSUME NEW q \in Queue, NEW e \in Entry, NEW r \in Row, NEW w \in Workspace \cup {Null}
    PROVE  ChildrenMoved(q, e, r, w) \in Queue
BY DEF ChildrenMoved, Queue, Row, Parent

\* claimQueuedLaunch.
LEMMA ClaimedTyped ==
    ASSUME NEW q \in Queue, NEW e \in Entry, NEW w \in Workspace
    PROVE  Claimed(q, e, w) \in Queue
<1>1. [q[e] EXCEPT !.claim = w] \in Row  BY DEF Queue, Row
<1>. QED  BY <1>1, ChildrenMovedTyped DEF Claimed

\* finishQueuedLaunch; `w` is a column of some row read earlier.
LEMMA FinishedTyped ==
    ASSUME NEW q \in Queue, NEW e \in Entry, NEW w
    PROVE  Finished(q, e, w) \in Queue
<1>1. CASE ClaimedBy(q, e, w)
  <2>1. w \in Workspace \cup {Null}  BY <1>1 DEF ClaimedBy, Queue, Row
  <2>2. [q[e] EXCEPT !.state = "launched"] \in Row  BY DEF Queue, Row, RowState
  <2>. QED  BY <1>1, <2>1, <2>2, ChildrenMovedTyped DEF Finished
<1>2. CASE ~ClaimedBy(q, e, w)  BY <1>2 DEF Finished
<1>. QED  BY <1>1, <1>2

\* failQueuedLaunch.
LEMMA FailedTyped ==
    ASSUME NEW q \in Queue, NEW e \in Entry, NEW w, NEW error \in BOOLEAN
    PROVE  Failed(q, e, w, error) \in Queue
<1>1. [q[e] EXCEPT !.claim = Null, !.released = FALSE, !.error = error] \in Row
  BY DEF Queue, Row
<1>2. ASSUME NEW c \in Entry
      PROVE  [q[c] EXCEPT !.parent = [q[c].parent EXCEPT !.workspace = Null, !.entry = e]] \in Row
  BY DEF Queue, Row, Parent
<1>. QED  BY <1>1, <1>2 DEF Failed, Queue

\* The cascade of a workspace's delete.
LEMMA CascadedTyped ==
    ASSUME NEW q \in Queue, NEW w \in Workspace
    PROVE  Cascaded(q, w) \in Queue
BY NoRowTyped DEF Cascaded, Queue, RowState
-----------------------------------------------------------------------------
(***************************************************************************)
(* What a table may name, when `W` are the workspace ids ever launched.    *)
(***************************************************************************)
\* A parent is one pointer, to a workspace of `W` or an entry queued before.
Sound(q, W, parent) ==
    /\ Exclusive(parent)
    /\ parent.workspace # Null => parent.workspace \in W
    /\ parent.entry # Null => q[parent.entry].state # "unused"

\* No two rows hold the same claim.
DistinctClaims(q) == \A e, f \in Entry : q[e].claim # Null /\ q[e].claim = q[f].claim => e = f

Consistent(q, W) ==
    /\ \A e \in Entry : Sound(q, W, q[e].parent)
    /\ \A e \in Entry : q[e].claim # Null => q[e].claim \in W
    /\ DistinctClaims(q)

\* No row names `w` as its parent or holds it as its claim.
Unnamed(q, w) == \A e \in Entry : q[e].parent.workspace # w /\ q[e].claim # w

\* An entry once queued is never unqueued.
UsedKept(q, r) == \A e \in Entry : q[e].state # "unused" => r[e].state # "unused"
-----------------------------------------------------------------------------
(***************************************************************************)
(* No write closes a cycle.                                                *)
(***************************************************************************)
\* A write that adds no step to any walk.
LEMMA FewerStepsAcyclic ==
    ASSUME NEW q, NEW r, Acyclic(q),
           \A e \in Entry : Named(r, r[e].parent) \subseteq Named(q, q[e].parent)
    PROVE  Acyclic(r)
<1>. SUFFICES ASSUME NEW S \in SUBSET Entry, S # {}
              PROVE  \E e \in S : Named(r, r[e].parent) \cap S = {}
  BY DEF Acyclic
<1>1. PICK e \in S : Named(q, q[e].parent) \cap S = {}  BY DEF Acyclic
<1>2. Named(r, r[e].parent) \subseteq Named(q, q[e].parent)  OBVIOUS
<1>. QED  BY <1>1, <1>2

\* A new entry is waited on by nobody yet.
LEMMA InsertedAcyclic ==
    ASSUME NEW q \in Queue, NEW e \in Entry, NEW p \in Parent, NEW g \in Group, Acyclic(q),
           p.entry # e, \A c \in Entry : q[c].parent.entry # e
    PROVE  Acyclic(Inserted(q, e, p, g))
<1>. DEFINE r == Inserted(q, e, p, g)
<1>1. /\ \A c \in Entry \ {e} : r[c] = q[c]
      /\ r[e].parent = p /\ r[e].claim = Null
  BY DEF Inserted, Queue
<1>. HIDE DEF r
<1>2. \A c \in Entry \ {e} : Named(r, r[c].parent) \subseteq Named(q, q[c].parent)
  BY <1>1 DEF Named, Pending
<1>3. \A c \in Entry : e \notin Named(r, r[c].parent)
  BY <1>1 DEF Named
<1>. SUFFICES ASSUME NEW S \in SUBSET Entry, S # {}
              PROVE  \E c \in S : Named(r, r[c].parent) \cap S = {}
  BY DEF Acyclic, r
<1>4. CASE S = {e}
  BY <1>3, <1>4
<1>5. CASE S # {e}
  <2>1. S \ {e} # {} /\ S \ {e} \in SUBSET Entry  BY <1>5
  <2>2. PICK c \in S \ {e} : Named(q, q[c].parent) \cap (S \ {e}) = {}
    BY <2>1 DEF Acyclic
  <2>3. Named(r, r[c].parent) \cap S = {}  BY <1>2, <1>3, <2>2
  <2>. QED  BY <2>3
<1>. QED  BY <1>4, <1>5

\* An edit: the set that shows the walk from the new parent misses the entry
\* splits any set of entries in a part the walk may reach, where the table was
\* acyclic already, and a part it does not.
LEMMA UpdatedAcyclic ==
    ASSUME NEW q \in Queue, NEW e \in Entry, NEW p \in Parent \cup {Null}, NEW g, Acyclic(q),
           p = Null \/ ~ClosesCycle(q, e, p)
    PROVE  Acyclic(Updated(q, e, p, g))
<1>. DEFINE r == Updated(q, e, p, g)
<1>1. /\ \A c \in Entry \ {e} : r[c] = q[c]
      /\ r[e].parent = IF p = Null THEN q[e].parent ELSE p
      /\ r[e].state = q[e].state /\ r[e].claim = q[e].claim
  BY DEF Updated, Queue, Row
<1>. HIDE DEF r
<1>2. \A parent : Named(r, parent) = Named(q, parent)
  BY <1>1 DEF Named, Pending
<1>3. CASE p = Null
  <2>1. \A c \in Entry : r[c].parent = q[c].parent  BY <1>1, <1>3
  <2>2. \A c \in Entry : Named(r, r[c].parent) \subseteq Named(q, q[c].parent)
    BY <1>2, <2>1
  <2>. QED  BY <2>2, FewerStepsAcyclic DEF r
<1>4. CASE p # Null
  <2>1. PICK T \in SUBSET Entry :
          /\ Named(q, p) \subseteq T
          /\ \A c \in T : Named(q, q[c].parent) \subseteq T
          /\ e \notin T
    BY <1>4 DEF ClosesCycle
  <2>. SUFFICES ASSUME NEW S \in SUBSET Entry, S # {}
                PROVE  \E c \in S : Named(r, r[c].parent) \cap S = {}
    BY DEF Acyclic, r
  <2>2. CASE S \cap T = {}
    <3>1. CASE e \in S
      <4>1. Named(r, r[e].parent) = Named(q, p)  BY <1>1, <1>2, <1>4
      <4>. QED  BY <2>1, <2>2, <3>1, <4>1
    <3>2. CASE e \notin S
      <4>1. PICK c \in S : Named(q, q[c].parent) \cap S = {}  BY DEF Acyclic
      <4>2. Named(r, r[c].parent) = Named(q, q[c].parent)  BY <1>1, <1>2, <3>2
      <4>. QED  BY <4>1, <4>2
    <3>. QED  BY <3>1, <3>2
  <2>3. CASE S \cap T # {}
    <3>1. S \cap T \in SUBSET Entry  OBVIOUS
    <3>2. PICK c \in S \cap T : Named(q, q[c].parent) \cap (S \cap T) = {}
      BY <2>3, <3>1 DEF Acyclic
    <3>3. Named(q, q[c].parent) \subseteq T  BY <2>1
    <3>4. c \in Entry \ {e}  BY <2>1
    <3>5. Named(r, r[c].parent) = Named(q, q[c].parent)  BY <1>1, <1>2, <3>4
    <3>. QED  BY <3>2, <3>3, <3>5
  <2>. QED  BY <2>2, <2>3
<1>. QED  BY <1>3, <1>4

\* A discard: the children of the row skip it, and name what it named.
LEMMA DeletedAcyclic ==
    ASSUME NEW q \in Queue, NEW e \in Entry, NEW now \in Nat, Acyclic(q), NotLaunching(q, e)
    PROVE  Acyclic(Deleted(q, e, now))
<1>. DEFINE r == Deleted(q, e, now)
<1>1. /\ r[e] = NoRow("deleted")
      /\ \A c \in Entry \ {e} :
            /\ r[c].state = q[c].state /\ r[c].claim = q[c].claim
            /\ r[c].parent = IF IsChild(q, c, e) THEN q[e].parent ELSE q[c].parent
  BY DEF Deleted, Spliced, Queue, Row
<1>. HIDE DEF r
<1>2. \A parent : Named(r, parent) = Named(q, parent) \ {e}
  BY <1>1 DEF Named, Pending, NoRow
<1>3. \A c \in Entry : Pending(q, c) /\ ~IsChild(q, c, e) => e \notin Named(q, q[c].parent)
  BY DEF Named, IsChild, NotLaunching
<1>4. Named(r, r[e].parent) = {}
  BY <1>1, StoreAssumption DEF Named, NoRow, Room, Pending
<1>. SUFFICES ASSUME NEW S \in SUBSET Entry, S # {}
              PROVE  \E c \in S : Named(r, r[c].parent) \cap S = {}
  BY DEF Acyclic, r
<1>5. CASE e \in S
  BY <1>4, <1>5
<1>6. CASE e \notin S
  <2>1. S \cup {e} \in SUBSET Entry /\ S \cup {e} # {}  OBVIOUS
  <2>2. PICK x \in S \cup {e} : Named(q, q[x].parent) \cap (S \cup {e}) = {}
    BY <2>1 DEF Acyclic
  <2>3. CASE x = e
    <3>1. PICK c \in S : Named(q, q[c].parent) \cap S = {}  BY DEF Acyclic
    <3>2. c \in Entry \ {e}  BY <1>6
    <3>3. r[c].parent \in {q[e].parent, q[c].parent}  BY <1>1, <3>2
    <3>4. Named(r, r[c].parent) \cap S = {}  BY <1>2, <2>2, <2>3, <3>1, <3>3
    <3>. QED  BY <3>4
  <2>4. CASE x # e
    <3>1. x \in Entry \ {e} /\ x \in S  BY <2>4
    <3>2. ~IsChild(q, x, e)  BY <2>2 DEF IsChild, Named, NotLaunching
    <3>3. r[x].parent = q[x].parent  BY <1>1, <3>1, <3>2
    <3>4. Named(r, r[x].parent) \cap S = {}  BY <1>2, <2>2, <3>3
    <3>. QED  BY <3>1, <3>4
  <2>. QED  BY <2>3, <2>4
<1>. QED  BY <1>5, <1>6

\* A release touches no pointer, claim or state.
LEMMA ReleasesAcyclic ==
    ASSUME NEW q \in Queue, Acyclic(q)
    PROVE  /\ \A w \in Workspace : Acyclic(ChildrenReleased(q, w))
           /\ \A now \in Nat : Acyclic(DueReleased(q, now))
           /\ \A e \in Entry : Acyclic(Released(q, e))
<1>1. ASSUME NEW r,
             \A e \in Entry : r[e].state = q[e].state /\ r[e].claim = q[e].claim /\ r[e].parent = q[e].parent
      PROVE  Acyclic(r)
  <2>1. \A e \in Entry : Named(r, r[e].parent) \subseteq Named(q, q[e].parent)
    BY <1>1 DEF Named, Pending
  <2>. QED  BY <2>1, FewerStepsAcyclic
<1>2. ASSUME NEW w \in Workspace PROVE Acyclic(ChildrenReleased(q, w))
  BY <1>1 DEF ChildrenReleased, Queue, Row
<1>3. ASSUME NEW now \in Nat PROVE Acyclic(DueReleased(q, now))
  BY <1>1 DEF DueReleased, Queue, Row
<1>4. ASSUME NEW e \in Entry PROVE Acyclic(Released(q, e))
  BY <1>1 DEF Released, Queue, Row
<1>. QED  BY <1>2, <1>3, <1>4

\* The claim: a child that named the entry names its workspace, which the
\* walk follows to the same entry.
LEMMA ClaimedAcyclic ==
    ASSUME NEW q \in Queue, NEW e \in Entry, NEW w \in Workspace, Acyclic(q),
           NotLaunching(q, e), Unnamed(q, w)
    PROVE  Acyclic(Claimed(q, e, w))
<1>. DEFINE r == Claimed(q, e, w)
<1>1. /\ r[e].state = q[e].state /\ r[e].claim = w /\ r[e].parent = q[e].parent
      /\ \A c \in Entry \ {e} :
            /\ r[c].state = q[c].state /\ r[c].claim = q[c].claim
            /\ ~IsChild(q, c, e) => r[c].parent = q[c].parent
            /\ IsChild(q, c, e) => r[c].parent.workspace = w /\ r[c].parent.entry = Null
  BY DEF Claimed, ChildrenMoved, Queue, Row, Parent
<1>. HIDE DEF r
<1>2. w # Null /\ Null \notin Entry  BY StoreAssumption
<1>3. ASSUME NEW c \in Entry, r[c].parent = q[c].parent
      PROVE  Named(r, r[c].parent) \subseteq Named(q, q[c].parent)
  BY <1>1, <1>3 DEF Named, Pending, Unnamed, NotLaunching
<1>4. ASSUME NEW c \in Entry \ {e}, IsChild(q, c, e)
      PROVE  Named(r, r[c].parent) \subseteq Named(q, q[c].parent)
  <2>1. Named(r, r[c].parent) \subseteq {e}  BY <1>1, <1>2, <1>4 DEF Named, Unnamed
  <2>2. e \in Named(q, q[c].parent)  BY <1>4 DEF Named, IsChild, NotLaunching
  <2>. QED  BY <2>1, <2>2
<1>5. \A c \in Entry : Named(r, r[c].parent) \subseteq Named(q, q[c].parent)
  BY <1>1, <1>3, <1>4
<1>. QED  BY <1>5, FewerStepsAcyclic DEF r

\* The finish: nothing is reached through a launched row any more.
LEMMA FinishedAcyclic ==
    ASSUME NEW q \in Queue, NEW e \in Entry, NEW w, Acyclic(q), DistinctClaims(q), w # Null
    PROVE  Acyclic(Finished(q, e, w))
<1>. DEFINE r == Finished(q, e, w)
<1>. SUFFICES ASSUME ClaimedBy(q, e, w) PROVE Acyclic(r)
  BY DEF Finished
<1>1. /\ r[e].state = "launched" /\ r[e].claim = q[e].claim /\ r[e].parent = q[e].parent
      /\ \A c \in Entry \ {e} :
            /\ r[c].state = q[c].state /\ r[c].claim = q[c].claim
            /\ ~IsChild(q, c, e) => r[c].parent = q[c].parent
            /\ IsChild(q, c, e) => r[c].parent.workspace = w /\ r[c].parent.entry = Null
  BY DEF Finished, ChildrenMoved, Queue, Row, Parent
<1>. HIDE DEF r
<1>2. Null \notin Entry  BY StoreAssumption
<1>3. ASSUME NEW c \in Entry, r[c].parent = q[c].parent
      PROVE  Named(r, r[c].parent) \subseteq Named(q, q[c].parent)
  BY <1>1, <1>3 DEF Named, Pending
<1>4. ASSUME NEW c \in Entry \ {e}, IsChild(q, c, e)
      PROVE  Named(r, r[c].parent) = {}
  BY <1>1, <1>2, <1>4 DEF Named, Pending, DistinctClaims, ClaimedBy
<1>5. \A c \in Entry : Named(r, r[c].parent) \subseteq Named(q, q[c].parent)
  BY <1>1, <1>3, <1>4
<1>. QED  BY <1>5, FewerStepsAcyclic DEF r

\* The failure: a child that named the workspace names the entry again, which
\* the walk followed it to before.
LEMMA FailedAcyclic ==
    ASSUME NEW q \in Queue, NEW e \in Entry, NEW w, NEW error \in BOOLEAN, Acyclic(q), w # Null
    PROVE  Acyclic(Failed(q, e, w, error))
<1>. DEFINE r == Failed(q, e, w, error)
            back(c) == NotLaunching(q, c) /\ q[c].parent.workspace = w /\ ~q[c].released
<1>. SUFFICES ASSUME ClaimedBy(q, e, w) PROVE Acyclic(r)
  BY DEF Failed
<1>1. /\ r[e].state = q[e].state /\ r[e].claim = Null /\ r[e].parent = q[e].parent
      /\ \A c \in Entry \ {e} :
            /\ r[c].state = q[c].state /\ r[c].claim = q[c].claim
            /\ ~back(c) => r[c].parent = q[c].parent
            /\ back(c) => r[c].parent.workspace = Null /\ r[c].parent.entry = e
  BY DEF Failed, Queue, Row, Parent
<1>. HIDE DEF r
<1>3. ASSUME NEW c \in Entry, r[c].parent = q[c].parent
      PROVE  Named(r, r[c].parent) \subseteq Named(q, q[c].parent)
  BY <1>1, <1>3 DEF Named, Pending
<1>4. ASSUME NEW c \in Entry \ {e}, back(c)
      PROVE  Named(r, r[c].parent) \subseteq Named(q, q[c].parent)
  <2>1. Named(r, r[c].parent) \subseteq {e}  BY <1>1, <1>4 DEF Named
  <2>2. e \in Named(q, q[c].parent)  BY <1>4 DEF Named, ClaimedBy
  <2>. QED  BY <2>1, <2>2
<1>. HIDE DEF back
<1>5. \A c \in Entry : Named(r, r[c].parent) \subseteq Named(q, q[c].parent)
  BY <1>1, <1>3, <1>4
<1>. QED  BY <1>5, FewerStepsAcyclic DEF r

\* The cascade: a row that is gone waits on nothing.
LEMMA CascadedAcyclic ==
    ASSUME NEW q \in Queue, NEW w \in Workspace, Acyclic(q)
    PROVE  Acyclic(Cascaded(q, w))
<1>. DEFINE r == Cascaded(q, w)
<1>1. \A c \in Entry : r[c] = q[c] \/ (r[c] = NoRow("deleted") /\ q[c].state = "launched")
  BY DEF Cascaded
<1>. HIDE DEF r
<1>2. \A c \in Entry : Pending(r, c) => r[c] = q[c]  BY <1>1 DEF Pending, NoRow
<1>3. \A c \in Entry : r[c] = NoRow("deleted") => Named(r, r[c].parent) = {}
  BY StoreAssumption DEF Named, NoRow, Room
<1>4. \A parent : Named(r, parent) \subseteq Named(q, parent)
  BY <1>2 DEF Named, Pending
<1>5. \A c \in Entry : Named(r, r[c].parent) \subseteq Named(q, q[c].parent)
  BY <1>1, <1>3, <1>4
<1>. QED  BY <1>5, FewerStepsAcyclic DEF r
-----------------------------------------------------------------------------
(***************************************************************************)
(* Every write keeps the table consistent.                                 *)
(***************************************************************************)
LEMMA SoundKept ==
    ASSUME NEW q, NEW r, NEW W, NEW V, NEW p \in Parent,
           Sound(q, W, p), UsedKept(q, r), W \subseteq V
    PROVE  Sound(r, V, p)
BY DEF Sound, UsedKept, Parent

\* More ids are spent.
LEMMA MoreSpent ==
    ASSUME NEW q \in Queue, NEW W, NEW V, Consistent(q, W), W \subseteq V
    PROVE  Consistent(q, V)
BY DEF Consistent, Sound

\* A fresh id is not named.
LEMMA FreshUnnamed ==
    ASSUME NEW q, NEW W, NEW w \in Workspace, Consistent(q, W), w \notin W
    PROVE  Unnamed(q, w)
BY StoreAssumption DEF Consistent, Sound, Unnamed

\* Rows whose pointers and claims stay, or are reset.
LEMMA RowsKeptConsistent ==
    ASSUME NEW q \in Queue, NEW r \in Queue, NEW W, Consistent(q, W), UsedKept(q, r),
           \A e \in Entry : /\ r[e].parent \in {q[e].parent, Room}
                           /\ r[e].claim \in {q[e].claim, Null}
    PROVE  Consistent(r, W)
<1>1. \A p : p = Room => Sound(r, W, p)  BY DEF Sound, Room, Exclusive
<1>2. \A e \in Entry : Sound(r, W, q[e].parent)
  BY SoundKept DEF Consistent, Queue, Row
<1>3. \A e \in Entry : Sound(r, W, r[e].parent)  BY <1>1, <1>2
<1>. QED  BY <1>3 DEF Consistent, DistinctClaims

LEMMA InsertedConsistent ==
    ASSUME NEW q \in Queue, NEW e \in Entry, NEW p \in Parent, NEW g \in Group, NEW W,
           Consistent(q, W), Sound(q, W, p)
    PROVE  /\ Consistent(Inserted(q, e, p, g), W)
           /\ UsedKept(q, Inserted(q, e, p, g))
<1>. DEFINE r == Inserted(q, e, p, g)
<1>1. /\ r[e].state = "pending" /\ r[e].parent = p /\ r[e].claim = Null
      /\ \A c \in Entry \ {e} : r[c] = q[c]
  BY DEF Inserted, Queue
<1>. HIDE DEF r
<1>2. UsedKept(q, r)  BY <1>1 DEF UsedKept
<1>3. ASSUME NEW c \in Entry PROVE Sound(r, W, r[c].parent)
  <2>1. r[c].parent \in {q[c].parent, p}  BY <1>1
  <2>. QED  BY <1>2, <2>1, SoundKept DEF Consistent, Queue, Row
<1>. QED  BY <1>1, <1>2, <1>3 DEF Consistent, DistinctClaims, r

LEMMA UpdatedConsistent ==
    ASSUME NEW q \in Queue, NEW e \in Entry, NEW p \in Parent \cup {Null}, NEW g \in Group, NEW W,
           Consistent(q, W), p # Null => Sound(q, W, p)
    PROVE  /\ Consistent(Updated(q, e, p, g), W)
           /\ UsedKept(q, Updated(q, e, p, g))
<1>. DEFINE r == Updated(q, e, p, g)
<1>1. /\ \A c \in Entry : r[c].state = q[c].state /\ r[c].claim = q[c].claim
      /\ r[e].parent = IF p = Null THEN q[e].parent ELSE p
      /\ \A c \in Entry \ {e} : r[c].parent = q[c].parent
  BY DEF Updated, Queue, Row
<1>. HIDE DEF r
<1>2. UsedKept(q, r)  BY <1>1 DEF UsedKept
<1>3. ASSUME NEW c \in Entry PROVE Sound(r, W, r[c].parent)
  <2>1. r[c].parent = q[c].parent \/ (p # Null /\ r[c].parent = p)  BY <1>1
  <2>2. q[c].parent \in Parent /\ Sound(q, W, q[c].parent)  BY DEF Consistent, Queue, Row
  <2>. QED  BY <1>2, <2>1, <2>2, SoundKept
<1>. QED  BY <1>1, <1>2, <1>3 DEF Consistent, DistinctClaims, r

LEMMA DeletedConsistent ==
    ASSUME NEW q \in Queue, NEW e \in Entry, NEW now \in Nat, NEW W, Consistent(q, W)
    PROVE  /\ Consistent(Deleted(q, e, now), W)
           /\ UsedKept(q, Deleted(q, e, now))
<1>. DEFINE r == Deleted(q, e, now)
<1>1. /\ r[e].state = "deleted" /\ r[e].claim = Null /\ r[e].parent = Room
      /\ \A c \in Entry \ {e} : /\ r[c].state = q[c].state /\ r[c].claim = q[c].claim
                               /\ r[c].parent \in {q[e].parent, q[c].parent}
  BY DEF Deleted, Spliced, NoRow, Queue, Row
<1>. HIDE DEF r
<1>2. UsedKept(q, r)  BY <1>1 DEF UsedKept
<1>3. \A c \in Entry : Sound(r, W, q[c].parent)
  BY <1>2, SoundKept DEF Consistent, Queue, Row
<1>4. Sound(r, W, Room)  BY DEF Sound, Room, Exclusive
<1>5. \A c \in Entry : Sound(r, W, r[c].parent)  BY <1>1, <1>3, <1>4
<1>. QED  BY <1>1, <1>2, <1>5 DEF Consistent, DistinctClaims, r

\* Releases touch neither pointers nor claims; the cascade drops rows.
LEMMA ReleasesConsistent ==
    ASSUME NEW q \in Queue, NEW W, Consistent(q, W), NEW r,
           \/ \E w \in Workspace : r = ChildrenReleased(q, w)
           \/ \E now \in Nat : r = DueReleased(q, now)
           \/ \E e \in Entry : r = Released(q, e)
           \/ \E w \in Workspace : r = Cascaded(q, w)
    PROVE  Consistent(r, W) /\ UsedKept(q, r)
<1>1. r \in Queue  BY ReleasesTyped, CascadedTyped
<1>2. \A e \in Entry : /\ r[e].state \in {q[e].state, "deleted"}
                       /\ r[e].parent \in {q[e].parent, Room}
                       /\ r[e].claim \in {q[e].claim, Null}
  <2>1. ASSUME NEW w \in Workspace, r = ChildrenReleased(q, w)
        PROVE  \A e \in Entry : r[e].state = q[e].state /\ r[e].parent = q[e].parent /\ r[e].claim = q[e].claim
    BY <2>1 DEF ChildrenReleased, Queue, Row
  <2>2. ASSUME NEW now \in Nat, r = DueReleased(q, now)
        PROVE  \A e \in Entry : r[e].state = q[e].state /\ r[e].parent = q[e].parent /\ r[e].claim = q[e].claim
    BY <2>2 DEF DueReleased, Queue, Row
  <2>3. ASSUME NEW f \in Entry, r = Released(q, f)
        PROVE  \A e \in Entry : r[e].state = q[e].state /\ r[e].parent = q[e].parent /\ r[e].claim = q[e].claim
    BY <2>3 DEF Released, Queue, Row
  <2>4. ASSUME NEW w \in Workspace, r = Cascaded(q, w)
        PROVE  \A e \in Entry : r[e] \in {q[e], NoRow("deleted")}
    BY <2>4 DEF Cascaded
  <2>. QED  BY <2>1, <2>2, <2>3, <2>4 DEF NoRow
<1>3. UsedKept(q, r)  BY <1>2 DEF UsedKept
<1>. QED  BY <1>1, <1>2, <1>3, RowsKeptConsistent

\* A pointer moved from an entry to its workspace, and back.
LEMMA Repointed ==
    /\ \A e, w : [AfterEntry(e) EXCEPT !.workspace = w, !.entry = Null] = AfterWorkspace(w)
    /\ \A e, w : [AfterWorkspace(w) EXCEPT !.workspace = Null, !.entry = e] = AfterEntry(e)
<1>. DEFINE Columns(w, e) == [workspace : {w}, entry : {e}, at : {Null}]
<1>2. ASSUME NEW e, NEW w
      PROVE  [AfterEntry(e) EXCEPT !.workspace = w, !.entry = Null] = AfterWorkspace(w)
  <2>1. AfterEntry(e) \in Columns(Null, e)  BY DEF AfterEntry
  <2>2. [AfterEntry(e) EXCEPT !.workspace = w, !.entry = Null] \in Columns(w, Null)  BY <2>1
  <2>3. \A p \in Columns(w, Null) : p = AfterWorkspace(w)  BY DEF AfterWorkspace
  <2>. QED  BY <2>2, <2>3
<1>3. ASSUME NEW e, NEW w
      PROVE  [AfterWorkspace(w) EXCEPT !.workspace = Null, !.entry = e] = AfterEntry(e)
  <2>1. AfterWorkspace(w) \in Columns(w, Null)  BY DEF AfterWorkspace
  <2>2. [AfterWorkspace(w) EXCEPT !.workspace = Null, !.entry = e] \in Columns(Null, e)  BY <2>1
  <2>3. \A p \in Columns(Null, e) : p = AfterEntry(e)  BY DEF AfterEntry
  <2>. QED  BY <2>2, <2>3
<1>. QED  BY <1>2, <1>3

LEMMA ClaimedConsistent ==
    ASSUME NEW q \in Queue, NEW e \in Entry, NEW w \in Workspace, NEW W,
           Consistent(q, W), Unnamed(q, w), NotLaunching(q, e)
    PROVE  /\ Consistent(Claimed(q, e, w), W \cup {w})
           /\ UsedKept(q, Claimed(q, e, w))
<1>. DEFINE r == Claimed(q, e, w)
<1>1. /\ r[e].claim = w
      /\ \A c \in Entry \ {e} : r[c].claim = q[c].claim
      /\ \A c \in Entry : r[c].state = q[c].state
      /\ \A c \in Entry : ~IsChild(q, c, e) => r[c].parent = q[c].parent
      /\ \A c \in Entry \ {e} : IsChild(q, c, e) =>
             r[c].parent = [q[c].parent EXCEPT !.workspace = w, !.entry = Null]
      /\ r[e].parent = q[e].parent
  BY DEF Claimed, ChildrenMoved, Queue, Row
<1>. HIDE DEF r
<1>2. UsedKept(q, r)  BY <1>1 DEF UsedKept
<1>3. \A c \in Entry : Sound(r, W \cup {w}, q[c].parent)
  BY <1>2, SoundKept DEF Consistent, Queue, Row
<1>4. ASSUME NEW c \in Entry \ {e}, IsChild(q, c, e)
      PROVE  Sound(r, W \cup {w}, r[c].parent)
  <2>1. Exclusive(q[c].parent) /\ q[c].parent.entry = e  BY <1>4 DEF Consistent, Sound, IsChild
  <2>2. q[c].parent = AfterEntry(e)
    BY <2>1, StoreAssumption DEF Exclusive, Room, AfterWorkspace, AfterEntry, AtTime
  <2>3. r[c].parent = [q[c].parent EXCEPT !.workspace = w, !.entry = Null]  BY <1>1, <1>4
  <2>4. r[c].parent = AfterWorkspace(w)
    <3>1. r[c].parent = [AfterEntry(e) EXCEPT !.workspace = w, !.entry = Null]  BY <2>2, <2>3
    <3>. QED  BY <3>1, Repointed
  <2>. QED  BY <2>4 DEF Sound, Exclusive, AfterWorkspace
<1>5. \A c \in Entry : Sound(r, W \cup {w}, r[c].parent)  BY <1>1, <1>3, <1>4
<1>6. \A c \in Entry : r[c].claim = IF c = e THEN w ELSE q[c].claim  BY <1>1
<1>7. DistinctClaims(r)  BY <1>6 DEF Consistent, DistinctClaims, Unnamed
<1>8. \A c \in Entry : r[c].claim # Null => r[c].claim \in W \cup {w}  BY <1>6 DEF Consistent
<1>. QED  BY <1>2, <1>5, <1>7, <1>8 DEF Consistent, r

LEMMA FinishedConsistent ==
    ASSUME NEW q \in Queue, NEW e \in Entry, NEW w, NEW W, Consistent(q, W), w # Null
    PROVE  /\ Consistent(Finished(q, e, w), W)
           /\ UsedKept(q, Finished(q, e, w))
<1>. DEFINE r == Finished(q, e, w)
<1>. SUFFICES ASSUME ClaimedBy(q, e, w) PROVE Consistent(r, W) /\ UsedKept(q, r)
  BY DEF Finished, UsedKept
<1>1. /\ r[e].state = "launched" /\ r[e].parent = q[e].parent /\ r[e].claim = q[e].claim
      /\ \A c \in Entry \ {e} : r[c].claim = q[c].claim /\ r[c].state = q[c].state
      /\ \A c \in Entry \ {e} : ~IsChild(q, c, e) => r[c].parent = q[c].parent
      /\ \A c \in Entry \ {e} : IsChild(q, c, e) =>
             r[c].parent = [q[c].parent EXCEPT !.workspace = w, !.entry = Null]
  BY DEF Finished, ChildrenMoved, Queue, Row
<1>. HIDE DEF r
<1>2. UsedKept(q, r)  BY <1>1 DEF UsedKept
<1>3. \A c \in Entry : Sound(r, W, q[c].parent)
  BY <1>2, SoundKept DEF Consistent, Queue, Row
<1>4. ASSUME NEW c \in Entry \ {e}, IsChild(q, c, e)
      PROVE  Sound(r, W, r[c].parent)
  <2>1. Exclusive(q[c].parent) /\ q[c].parent.entry = e  BY <1>4 DEF Consistent, Sound, IsChild
  <2>2. q[c].parent = AfterEntry(e)
    BY <2>1, StoreAssumption DEF Exclusive, Room, AfterWorkspace, AfterEntry, AtTime
  <2>3. r[c].parent = [q[c].parent EXCEPT !.workspace = w, !.entry = Null]  BY <1>1, <1>4
  <2>4. r[c].parent = AfterWorkspace(w)
    <3>1. r[c].parent = [AfterEntry(e) EXCEPT !.workspace = w, !.entry = Null]  BY <2>2, <2>3
    <3>. QED  BY <3>1, Repointed
  <2>5. w \in W  BY DEF ClaimedBy, Consistent
  <2>. QED  BY <2>4, <2>5 DEF Sound, Exclusive, AfterWorkspace
<1>5. \A c \in Entry : Sound(r, W, r[c].parent)  BY <1>1, <1>3, <1>4
<1>6. \A c \in Entry : r[c].claim \in {q[c].claim, Null}  BY <1>1
<1>. QED  BY <1>2, <1>5, <1>6 DEF Consistent, DistinctClaims

LEMMA FailedConsistent ==
    ASSUME NEW q \in Queue, NEW e \in Entry, NEW w, NEW error \in BOOLEAN, NEW W, Consistent(q, W), w # Null
    PROVE  /\ Consistent(Failed(q, e, w, error), W)
           /\ UsedKept(q, Failed(q, e, w, error))
<1>. DEFINE r == Failed(q, e, w, error)
            back(c) == NotLaunching(q, c) /\ q[c].parent.workspace = w /\ ~q[c].released
<1>. SUFFICES ASSUME ClaimedBy(q, e, w) PROVE Consistent(r, W) /\ UsedKept(q, r)
  BY DEF Failed, UsedKept
<1>1. /\ r[e].claim = Null /\ r[e].parent = q[e].parent /\ r[e].state = q[e].state
      /\ \A c \in Entry \ {e} : r[c].claim = q[c].claim /\ r[c].state = q[c].state
      /\ \A c \in Entry \ {e} : ~back(c) => r[c].parent = q[c].parent
      /\ \A c \in Entry \ {e} : back(c) =>
             r[c].parent = [q[c].parent EXCEPT !.workspace = Null, !.entry = e]
  BY DEF Failed, Queue, Row
<1>. HIDE DEF r
<1>2. UsedKept(q, r)  BY <1>1 DEF UsedKept
<1>3. \A c \in Entry : Sound(r, W, q[c].parent)
  BY <1>2, SoundKept DEF Consistent, Queue, Row
<1>4. ASSUME NEW c \in Entry \ {e}, back(c)
      PROVE  Sound(r, W, r[c].parent)
  <2>1. Exclusive(q[c].parent) /\ q[c].parent.workspace = w  BY <1>4 DEF Consistent, Sound
  <2>2. q[c].parent = AfterWorkspace(w)
    BY <2>1 DEF Exclusive, Room, AfterWorkspace, AfterEntry, AtTime
  <2>3. r[c].parent = [q[c].parent EXCEPT !.workspace = Null, !.entry = e]  BY <1>1, <1>4
  <2>4. r[c].parent = AfterEntry(e)  BY <2>2, <2>3, Repointed
  <2>5. r[e].state # "unused"  BY <1>1 DEF ClaimedBy, Pending
  <2>. QED  BY <2>4, <2>5 DEF Sound, Exclusive, AfterEntry
<1>. HIDE DEF back
<1>5. \A c \in Entry : Sound(r, W, r[c].parent)  BY <1>1, <1>3, <1>4
<1>6. \A c \in Entry : r[c].claim \in {q[c].claim, Null}  BY <1>1
<1>. QED  BY <1>2, <1>5, <1>6 DEF Consistent, DistinctClaims
=============================================================================
