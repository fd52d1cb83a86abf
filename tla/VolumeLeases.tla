--------------------------- MODULE VolumeLeases ---------------------------
(***************************************************************************)
(* A project's volume and its lease (db/volume-store.ts,                   *)
(* domain/workspaces/volumes.ts): who holds it, and which site release     *)
(* takes it next.  Workspaces attach it as they launch; site releases only *)
(* mount it, and module Sites passes them the lease.  Every write of the   *)
(* lease is a conditional update in the database, so it is one action; what *)
(* a workspace or a sweep read before its write may be out of date.        *)
(*                                                                         *)
(* One volume on the Kubernetes driver, which its site keeps: creating,    *)
(* growing, pinning and deleting a volume are not modelled.                *)
(***************************************************************************)
EXTENDS Naturals, FiniteSets

CONSTANTS
    Dev,       \* workspaces that attach the volume when they start
    Release,   \* ids of the site's releases, used again once forgotten
    MaxFaults, \* bound on lost pods, failed calls and crashes
    MaxLoad,   \* bound on these and the workspaces under way together
    None       \* no workspace

Workspace == Dev \cup Release
Sweep     == "sweep"

ASSUME VolumeLeasesAssumption ==
    /\ MaxFaults \in Nat /\ MaxLoad \in Nat
    /\ Dev \cap Release = {}
    /\ None \notin Workspace
    /\ Sweep \notin Workspace

VARIABLES
    \* the volume's row
    holder,   \* holderWorkspaceId
    next,     \* nextHolderWorkspaceId
    reads,    \* who has read the lease that the row still has: attachedAt is
              \* new with every lease, so a lease read before it never matches
    \* each workspace
    unit,     \* its Job or pod exists, one shutting down included
    life,     \* its create or restart; the provisioning registry
    stopped,  \* ids whose row has a stop
    tearing,  \* ids with a detached teardown running
    \* a reconcile pass
    pass,
    \* the environment
    faults,   \* how often it has interfered
    overtaken \* history: workspaces that lost the lease and may still run

lease   == <<holder, next, reads>>
runtime == <<unit, life, stopped, tearing>>

\* What a pass knows: the workspaces its snapshot listed or that settled
\* since it was taken, those it took for alive when a step asked, and the
\* next holder the lease sweep read.
NoPass == [step |-> "idle", known |-> {}, alive |-> {}, staged |-> None]
Pass   == [step : {"idle", "sites", "site", "held", "judged"},
           known : SUBSET Workspace, alive : SUBSET Workspace, staged : Workspace \cup {None}]

\* A failed entry stays in the registry until the user dismisses it.
Stage    == {"clearing", "starting", "taking", "claiming", "staged"}
InFlight == {w \in Workspace : life[w] \in Stage}

\* Nothing of the workspace can be using the volume.
HolderGone(w) == ~unit[w] /\ w \notin InFlight /\ w \notin tearing

GoneIds == {w \in Workspace : HolderGone(w)}

\* workspacesAlive, when a step calls it; `tearing` is looked at again as
\* each id is judged.
AliveNow   == pass.known \cup InFlight
Alive      == pass.alive \cup tearing

\* What a behaviour holds at once.
Load == faults + Cardinality({w \in Workspace : unit[w] \/ life[w] # "idle"})

Fault == faults < MaxFaults /\ Load < MaxLoad /\ faults' = faults + 1

Settled(w) == IF pass.step \in {"idle", "judged"} THEN pass ELSE [pass EXCEPT !.known = @ \cup {w}]
----------------------------------------------------------------------------
\* The lease's updates.
Claimable(w) == next \in {None, w}

\* May be using the volume, or is about to.
MayRun(w) == unit[w] \/ w \in tearing \/ life[w] = "staged"

\* Taken from a holder, or ended by another than it.
Overtakes(w) == overtaken' = (overtaken \ {w}) \cup {v \in {holder} \ {None, w} : MayRun(v)}

TakeLease(w) == holder' = w /\ reads' = {} /\ Overtakes(w)

\* Mutant: whoever has the volume by then loses it.
EndAnyLease(w) == holder' = None /\ reads' = {}

\* A failed launch ends its lease, if it is still the one it took.
EndLease(w) ==
    IF holder = w THEN holder' = None /\ reads' = {} ELSE UNCHANGED <<holder, reads>>

Unstage(w) == next' = IF next = w THEN None ELSE next

\* A stop matters while the unit is there or something still looks at the
\* workspace's row (`kept`).
UnitGoes(w, kept) ==
    /\ unit' = [unit EXCEPT ![w] = FALSE]
    /\ stopped' = IF kept THEN stopped ELSE stopped \ {w}
    /\ overtaken' = overtaken \ {w}

\* Mutant: a restart's workspace takes the lease while another holds it.
ClaimsAlways(d) ==
    /\ life[d] = "starting"
    /\ TakeLease(d) /\ life' = [life EXCEPT ![d] = "staged"]
    /\ UNCHANGED <<next, unit, stopped, tearing, pass, faults>>
----------------------------------------------------------------------------
(***************************************************************************)
(* A workspace that attaches the volume.                                   *)
(***************************************************************************)
\* Its start or restart is asked for, and checked by volumeForLaunch; the
\* check is not what protects the lease.
DevAsks(d) ==
    /\ life[d] = "idle" /\ (unit[d] \/ Load < MaxLoad)
    /\ holder \in {None, d} \cup GoneIds
    /\ next \in {None} \cup GoneIds
    /\ life' = [life EXCEPT ![d] = IF unit[d] \/ d \in tearing THEN "clearing" ELSE "starting"]
    /\ UNCHANGED <<lease, unit, stopped, tearing, pass, faults, overtaken>>

\* The restart of a running workspace waits for its teardown and removes its
\* unit. It keeps the lease it will renew.
DevClears(d) ==
    /\ life[d] = "clearing" /\ d \notin tearing
    /\ UnitGoes(d, FALSE)
    /\ life' = [life EXCEPT ![d] = "starting"]
    /\ UNCHANGED <<lease, tearing, pass, faults>>

\* attachVolume: free, or its own already; else it judges the lease it read,
\* which fails when that is not the one that refused it.
DevClaims(d) ==
    /\ life[d] = "starting"
    /\ IF Claimable(d) /\ holder \in {None, d}
         THEN TakeLease(d) /\ life' = [life EXCEPT ![d] = "staged"]
         ELSE /\ \/ holder # None /\ life' = [life EXCEPT ![d] = "taking"] /\ reads' = reads \cup {d}
                 \/ life' = [life EXCEPT ![d] = "idle"] /\ UNCHANGED reads
              /\ UNCHANGED <<holder, overtaken>>
    /\ UNCHANGED <<next, unit, stopped, tearing, pass, faults>>

DevJudges(d) ==
    /\ life[d] = "taking"
    /\ IF d \in reads /\ HolderGone(holder)
         THEN life' = [life EXCEPT ![d] = "claiming"] /\ UNCHANGED reads
         ELSE life' = [life EXCEPT ![d] = "idle"] /\ reads' = reads \ {d}
    /\ UNCHANGED <<holder, next, unit, stopped, tearing, pass, faults, overtaken>>

DevTakesOver(d) ==
    /\ life[d] = "claiming"
    /\ IF d \in reads /\ Claimable(d)
         THEN TakeLease(d) /\ life' = [life EXCEPT ![d] = "staged"]
         ELSE life' = [life EXCEPT ![d] = "idle"] /\ reads' = reads \ {d} /\ UNCHANGED <<holder, overtaken>>
    /\ UNCHANGED <<next, unit, stopped, tearing, pass, faults>>

DevLaunches(d) ==
    /\ life[d] = "staged"
    /\ unit' = [unit EXCEPT ![d] = TRUE]
    /\ life' = [life EXCEPT ![d] = "idle"]
    /\ stopped' = stopped \ {d}
    /\ pass' = Settled(d)
    /\ UNCHANGED <<lease, tearing, faults, overtaken>>

\* A launch that fails ends its lease, unless its pod may still run.
DevFails(d) ==
    /\ life[d] \in {"clearing", "starting", "staged"} /\ Fault
    /\ life' = [life EXCEPT ![d] = "idle"]
    /\ \/ /\ life[d] = "staged"
          /\ EndLease(d)
          /\ overtaken' = overtaken \ {d}
          /\ UNCHANGED unit
       \/ life[d] = "staged" /\ unit' = [unit EXCEPT ![d] = TRUE] /\ UNCHANGED <<holder, reads, overtaken>>
       \/ life[d] # "staged" /\ UNCHANGED <<holder, reads, unit, overtaken>>
    /\ UNCHANGED <<next, stopped, tearing, pass>>

DevStops(d) ==
    /\ unit[d] /\ life[d] = "idle" /\ d \notin tearing
    /\ tearing' = tearing \cup {d}
    /\ stopped' = stopped \cup {d}
    /\ UNCHANGED <<lease, unit, life, pass, faults, overtaken>>
----------------------------------------------------------------------------
(***************************************************************************)
(* The pass's lease sweep, reconcileVolumeLeases.                          *)
(***************************************************************************)
SweepReads ==
    /\ pass.step = "held"
    /\ pass' = [step |-> "judged", known |-> {}, alive |-> AliveNow \cap {holder, next}, staged |-> next]
    /\ reads' = reads \cup {Sweep}
    /\ UNCHANGED <<holder, next, runtime, faults, overtaken>>

\* releaseVolume ends the lease only if it is the one read; unstageVolume
\* forgets the next holder read, if it still is.
SweepReleases ==
    /\ pass.step = "judged"
    /\ IF Sweep \in reads /\ holder # None /\ holder \notin Alive
         THEN holder' = None /\ reads' = {} /\ Overtakes(None)
         ELSE reads' = reads \ {Sweep} /\ UNCHANGED <<holder, overtaken>>
    /\ IF pass.staged # None /\ pass.staged \notin Alive THEN Unstage(pass.staged) ELSE UNCHANGED next
    /\ pass' = NoPass
    /\ UNCHANGED <<runtime, faults>>
----------------------------------------------------------------------------
(***************************************************************************)
(* What happens to any workspace's runtime.                                *)
(***************************************************************************)
\* The detached teardown removes the unit, or gives up on it (a fault).
TearsDown(w, kept) ==
    /\ w \in tearing
    /\ tearing' = tearing \ {w}
    /\ \/ UnitGoes(w, kept) /\ UNCHANGED faults
       \/ Fault /\ UNCHANGED <<unit, stopped, overtaken>>
    /\ UNCHANGED <<lease, life, pass>>

\* The stale reaper resumes a teardown that left a stopped workspace's unit.
ReaperResumes(w) ==
    /\ unit[w] /\ w \in stopped /\ w \notin InFlight \cup tearing
    /\ tearing' = tearing \cup {w}
    /\ UNCHANGED <<lease, unit, life, stopped, pass, faults, overtaken>>

Dies(w, kept) ==
    /\ unit[w] /\ w \notin InFlight /\ Fault
    /\ UnitGoes(w, kept)
    /\ UNCHANGED <<lease, life, tearing, pass>>
============================================================================
