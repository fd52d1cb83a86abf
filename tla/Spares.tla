------------------------------ MODULE Spares ------------------------------
(***************************************************************************)
(* Prewarmed spares (domain/workspaces/prewarm.ts, prewarm-reconcile.ts):  *)
(* the pool pass warms them, refreshes them and reaps them from a listing  *)
(* that may be old, the stale reaper hands it more of them, and creates    *)
(* claim them. A spare has no row: its record is the label on its pod and  *)
(* its Job, and what it was warmed with is in the server's memory only.    *)
(*                                                                         *)
(* One project on the Kubernetes driver. A spare's workspace id and job    *)
(* name are one value, numbered in the order the spares are warmed. A      *)
(* create that gets no spare starts cold, which is not modelled.           *)
(***************************************************************************)
EXTENDS Naturals, FiniteSets

CONSTANTS
    MaxSpares,  \* bound on the spares ever warmed
    Create,     \* the creates that try to claim one
    PoolSize,   \* YAAC_PREWARM_POOL_SIZE
    MaxImages,  \* bound on the images the project's workspaces run, in turn
    MaxFaults,  \* bound on what the environment does: crashes, lost pods, edits
    MaxEvents,  \* bound on that and the creates together
    Faults,     \* what it may do in this instance
    None        \* no spare, no settings

Spare == 1 .. MaxSpares
Image == 1 .. MaxImages

AllFaults == {"crash", "evict", "hang", "image", "idle", "error", "stop"}

ASSUME SparesAssumption ==
    /\ MaxSpares \in Nat
    /\ MaxImages \in Nat \ {0}
    /\ PoolSize \in Nat \ {0}
    /\ MaxFaults \in Nat /\ MaxEvents \in Nat
    /\ Faults \subseteq AllFaults
    /\ None \notin Spare \cup Image

VARIABLES
    \* the cluster
    pod,       \* per id: "none", "up", or "stuck" (running, its tmux gone)
    job,       \* ids with a Job
    podMark,   \* ids whose pod is labelled yaac.prewarmed
    jobMark,   \* ids whose Job is
    \* the database, the disk, the project
    row,       \* per id: "none", "live" or "stopped"
    files,     \* ids with files on disk
    torn,      \* ids whose checkout a move left, or is, between two commits
    image,     \* the image a create would launch on now
    busy,      \* the project has running workspaces besides the claimed spares
    \* the server's memory
    warm,      \* per id: the stage of its create; spawningSpares are the active ones
    settings,  \* spareSettings: the image each spare was warmed on
    claiming,  \* spares reserved by a claim
    claim,     \* tryClaimPrewarmed of each create
    reap,      \* reapSpare of each id; `reaping` are those not idle
    refresh,   \* the refresh of each spare; `refreshing` are those not idle
    pass,      \* the pool pass and the stale reaper, which share a listing
    \* the environment
    faults,    \* how often it has interfered
    relaunched, \* history: ids a user has stopped and restarted
    stranded   \* history: ids whose files a failure or a crash left to nobody

cluster == <<pod, job, podMark, jobMark>>
store   == <<row, files, torn>>
project == <<image, busy>>
memory  == <<warm, settings, claiming, claim, reap, refresh, pass>>
env     == <<faults, relaunched, stranded>>
vars    == <<cluster, store, project, memory, env>>

\* A claim holds its spare in `claiming` from its reservation to its end.
Holding   == {"checking", "prepare", "moving", "unmarkPod", "unmarkJob", "undo", "opening"}
NoClaim   == [stage |-> "new", left |-> {}, spare |-> None, mutated |-> FALSE]
Cold      == [NoClaim EXCEPT !.stage = "cold"]
Claim     == [stage : {"new", "choosing", "cold", "won"} \cup Holding,
              left : SUBSET Spare, spare : Spare \cup {None}, mutated : BOOLEAN]

NoReap == [stage |-> "idle", hasRow |-> FALSE, claimFailed |-> FALSE]
Reap   == [stage : {"idle", "row", "find", "cleanup", "files", "record"},
           hasRow : BOOLEAN, claimFailed : BOOLEAN]

\* What a pass knows: the pods it listed as spares, the marked Jobs it listed
\* with no pod, whether it listed a user's workspace (`active`), and what the
\* planner read of the refreshes, the creates and the image.
NoPass == [step |-> "idle", spares |-> {}, strays |-> {}, refreshing |-> {}, active |-> FALSE,
           provisioning |-> FALSE, image |-> 1]
Pass   == [step : {"idle", "sweep", "plan", "refresh"}, spares : SUBSET Spare, strays : SUBSET Spare,
           refreshing : SUBSET Spare, active : BOOLEAN, provisioning : BOOLEAN, image : Image]

TypeOK ==
    /\ pod \in [Spare -> {"none", "up", "stuck"}]
    /\ job \subseteq Spare /\ podMark \subseteq Spare /\ jobMark \subseteq Spare
    /\ row \in [Spare -> {"none", "live", "stopped"}]
    /\ files \subseteq Spare /\ torn \subseteq Spare
    /\ image \in Image /\ busy \in BOOLEAN
    /\ warm \in [Spare -> {"unborn", "preparing", "launching", "settled"}]
    /\ settings \in [Spare -> Image \cup {None}]
    /\ claiming \subseteq Spare
    /\ claim \in [Create -> Claim]
    /\ reap \in [Spare -> Reap]
    /\ refresh \in [Spare -> {"idle", "reading", "moving"}]
    /\ pass \in Pass
    /\ faults \in Nat /\ relaunched \subseteq Spare /\ stranded \subseteq Spare

Init ==
    /\ pod = [s \in Spare |-> "none"]
    /\ job = {} /\ podMark = {} /\ jobMark = {}
    /\ row = [s \in Spare |-> "none"]
    /\ files = {} /\ torn = {}
    /\ image = 1 /\ busy = TRUE
    /\ warm = [s \in Spare |-> "unborn"]
    /\ settings = [s \in Spare |-> None]
    /\ claiming = {}
    /\ claim = [c \in Create |-> NoClaim]
    /\ reap = [s \in Spare |-> NoReap]
    /\ refresh = [s \in Spare |-> "idle"]
    /\ pass = NoPass
    /\ faults = 0 /\ relaunched = {} /\ stranded = {}

Spawning   == {s \in Spare : warm[s] \in {"preparing", "launching"}}
Reaping    == {s \in Spare : reap[s].stage # "idle"}
Refreshing == {s \in Spare : refresh[s] # "idle"}

\* What lists as a spare or as a user's workspace, and what find() reports.
ListedSpares == {s \in Spare : pod[s] # "none" /\ s \in podMark}
ListedUsers  == {s \in Spare : pod[s] # "none" /\ s \notin podMark}
Strays       == {s \in job : pod[s] = "none"}

\* Mutant: a claim that has reserved a spare is not looked at.
FreeOfWarm(s) == s \notin Spawning /\ settings[s] # None

Free(s) == s \notin claiming \cup Spawning /\ settings[s] # None

Events == faults + Cardinality({c \in Create : claim[c].stage # "new"})

\* The environment interferes, or an operation fails, in one of the ways
\* this instance allows.
Fault(kind) ==
    /\ kind \in Faults
    /\ faults < MaxFaults /\ Events < MaxEvents
    /\ faults' = faults + 1

(***************************************************************************)
(* reapSpare: a spare being claimed, warmed or already reaped is left      *)
(* alone; else its settings go at once, so no claim takes it.              *)
(***************************************************************************)
MayReap(s) == s \notin claiming \cup Spawning \cup Reaping

Reaped(r, S, failed) ==
    [s \in Spare |-> IF s \in S THEN [stage |-> "row", hasRow |-> FALSE, claimFailed |-> failed]
                                ELSE r[s]]

Forgotten(S) == [s \in Spare |-> IF s \in S THEN None ELSE settings[s]]

\* A spare a failed claim had unlabelled, its row gone: only its own reap
\* knows of it.
Unretried(s) == reap[s].claimFailed /\ row[s] = "none" /\ s \in job \ podMark

ReapEnds(s) == reap' = [reap EXCEPT ![s] = NoReap]

\* Mutant: the row is not looked up again.
ReapReadsNoRow(s) ==
    /\ reap[s].stage = "row"
    /\ reap' = [reap EXCEPT ![s].stage = "cleanup"]
    /\ UNCHANGED <<cluster, store, project, warm, settings, claiming, claim, refresh, pass, env>>

\* findWorkspaceRow; a row sends all but a failed claim's reap to find().
ReapReadsRow(s) ==
    /\ reap[s].stage = "row"
    /\ LET hasRow == row[s] # "none"
       IN  reap' = [reap EXCEPT ![s].hasRow = hasRow,
                                ![s].stage = IF hasRow /\ ~reap[s].claimFailed THEN "find" ELSE "cleanup"]
    /\ UNCHANGED <<cluster, store, project, warm, settings, claiming, claim, refresh, pass, env>>

\* Mutant: with a row, the runtime is not asked.
ReapFindsNothing(s) ==
    /\ reap[s].stage = "find"
    /\ reap' = [reap EXCEPT ![s].stage = "cleanup"]
    /\ UNCHANGED <<cluster, store, project, warm, settings, claiming, claim, refresh, pass, env>>

\* One the runtime no longer marks is the user's workspace.
ReapFinds(s) ==
    /\ reap[s].stage = "find"
    /\ IF s \in ListedUsers THEN ReapEnds(s) ELSE reap' = [reap EXCEPT ![s].stage = "cleanup"]
    /\ UNCHANGED <<cluster, store, project, warm, settings, claiming, claim, refresh, pass, env>>

\* Mutant: the Job goes with the pod (no keepRecord).
ReapCleansUpWhole(s) ==
    /\ reap[s].stage = "cleanup"
    /\ row' = [row EXCEPT ![s] = IF @ = "live" THEN "stopped" ELSE @]
    /\ pod' = [pod EXCEPT ![s] = "none"]
    /\ podMark' = podMark \ {s} /\ job' = job \ {s} /\ jobMark' = jobMark \ {s}
    /\ reap' = [reap EXCEPT ![s].stage = IF reap[s].hasRow THEN "record" ELSE "files"]
    /\ UNCHANGED <<files, torn, project, warm, settings, claiming, claim, refresh, pass, env>>

\* cleanupWorkspace: the stop is recorded, then the pod goes and the Job stays.
ReapCleansUp(s) ==
    /\ reap[s].stage = "cleanup"
    /\ row' = [row EXCEPT ![s] = IF @ = "live" THEN "stopped" ELSE @]
    /\ pod' = [pod EXCEPT ![s] = "none"]
    /\ podMark' = podMark \ {s}
    /\ reap' = [reap EXCEPT ![s].stage = IF reap[s].hasRow THEN "record" ELSE "files"]
    /\ UNCHANGED <<job, jobMark, files, torn, project, warm, settings, claiming, claim, refresh, pass, env>>

\* deleteWorkspaceState, for a spare with no row.
ReapDeletesFiles(s) ==
    /\ reap[s].stage = "files"
    /\ files' = files \ {s}
    /\ torn' = torn \ {s}
    /\ reap' = [reap EXCEPT ![s].stage = "record"]
    /\ UNCHANGED <<cluster, row, project, warm, settings, claiming, claim, refresh, pass, env>>

\* The unit's record goes last.
ReapDestroys(s) ==
    /\ reap[s].stage = "record"
    /\ job' = job \ {s}
    /\ jobMark' = jobMark \ {s}
    /\ pod' = [pod EXCEPT ![s] = "none"]
    /\ podMark' = podMark \ {s}
    /\ ReapEnds(s)
    /\ UNCHANGED <<store, project, warm, settings, claiming, claim, refresh, pass, env>>

\* Any step may fail; a teardown has recorded its stop by then. Nothing
\* retries the reap of a failed claim that had unlabelled its pod.
ReapFails(s) ==
    /\ reap[s].stage # "idle"
    /\ Fault("error")
    /\ row' = [row EXCEPT ![s] = IF @ = "live" /\ reap[s].stage = "cleanup" THEN "stopped" ELSE @]
    /\ stranded' = IF Unretried(s) THEN stranded \cup {s} ELSE stranded
    /\ ReapEnds(s)
    /\ UNCHANGED <<cluster, files, torn, project, warm, settings, claiming, claim, refresh, pass, relaunched>>

(***************************************************************************)
(* Warming (spawnSpare, and createWorkspace with `prewarm`). The files     *)
(* come before the unit, and the settings before the launch.               *)
(***************************************************************************)
WarmPrepares(s) ==
    /\ warm[s] = "preparing"
    /\ warm' = [warm EXCEPT ![s] = "launching"]
    /\ files' = files \cup {s}
    /\ settings' = [settings EXCEPT ![s] = image]
    /\ UNCHANGED <<cluster, row, torn, project, claiming, claim, reap, refresh, pass, env>>

WarmLaunches(s) ==
    /\ warm[s] = "launching"
    /\ s \notin job
    /\ pod' = [pod EXCEPT ![s] = "up"]
    /\ job' = job \cup {s}
    /\ podMark' = podMark \cup {s}
    /\ jobMark' = jobMark \cup {s}
    /\ UNCHANGED <<store, project, memory, env>>

WarmSettles(s) ==
    /\ warm[s] = "launching"
    /\ pod[s] = "up"
    /\ warm' = [warm EXCEPT ![s] = "settled"]
    /\ UNCHANGED <<cluster, store, project, settings, claiming, claim, reap, refresh, pass, env>>

\* A failed warm destroys its unit and then deletes its files. A unit that
\* may still run keeps both; files that cannot be deleted are nobody's.
WarmFails(s) ==
    /\ warm[s] = "launching"
    /\ Fault("error")
    /\ warm' = [warm EXCEPT ![s] = "settled"]
    /\ settings' = Forgotten({s})
    /\ \/ UNCHANGED <<cluster, files, stranded>> /\ s \in job
       \/ /\ pod' = [pod EXCEPT ![s] = "none"]
          /\ job' = job \ {s} /\ podMark' = podMark \ {s} /\ jobMark' = jobMark \ {s}
          /\ \/ files' = files \ {s} /\ UNCHANGED stranded
             \/ stranded' = stranded \cup {s} /\ UNCHANGED files
    /\ UNCHANGED <<row, torn, project, claiming, claim, reap, refresh, pass, relaunched>>

(***************************************************************************)
(* tryClaimPrewarmed, one action per stretch between two awaits.           *)
(***************************************************************************)
Goes(c, stage) == claim' = [claim EXCEPT ![c].stage = stage]

\* Mutant: a search that finds nothing leaves the create without a result.
SearchOn(left) == [NoClaim EXCEPT !.stage = IF left = {} THEN "none" ELSE "choosing", !.left = left]

\* What is left of a search for a spare: another candidate, or a cold create.
Search(left) == IF left = {} THEN Cold ELSE [NoClaim EXCEPT !.stage = "choosing", !.left = left]

ListSpares(c) ==
    /\ claim[c].stage = "new" /\ Events < MaxEvents
    /\ claim' = [claim EXCEPT ![c] = Search({s \in ListedSpares : Free(s) /\ settings[s] = image})]
    /\ UNCHANGED <<cluster, store, project, warm, settings, claiming, reap, refresh, pass, env>>

\* Newest first.
Candidate(c, s) == claim[c].stage = "choosing" /\ s \in claim[c].left /\ \A o \in claim[c].left : o <= s

\* Mutant: a refresh under way is not waited for.
ReserveAtOnce(c, s) ==
    /\ Candidate(c, s)
    /\ Free(s)
    /\ claiming' = claiming \cup {s}
    /\ claim' = [claim EXCEPT ![c] = [@ EXCEPT !.stage = "checking", !.spare = s, !.left = claim[c].left \ {s}]]
    /\ UNCHANGED <<cluster, store, project, warm, settings, reap, refresh, pass, env>>

\* No await between the last look and the reservation.
Reserve(c, s) ==
    /\ Candidate(c, s)
    /\ refresh[s] = "idle"
    /\ Free(s)
    /\ claiming' = claiming \cup {s}
    /\ claim' = [claim EXCEPT ![c] = [@ EXCEPT !.stage = "checking", !.spare = s, !.left = claim[c].left \ {s}]]
    /\ UNCHANGED <<cluster, store, project, warm, settings, reap, refresh, pass, env>>

\* Taken meanwhile, or still being refreshed when the wait for it runs out.
PassOver(c, s) ==
    /\ Candidate(c, s)
    /\ refresh[s] # "idle" \/ ~Free(s)
    /\ claim' = [claim EXCEPT ![c] = Search(@.left \ {s})]
    /\ UNCHANGED <<cluster, store, project, warm, settings, claiming, reap, refresh, pass, env>>

\* No tmux: released for the reaper.
SpareIsStuck(c, s) ==
    /\ claim[c].stage = "checking" /\ claim[c].spare = s
    /\ pod[s] # "up"
    /\ claiming' = claiming \ {s}
    /\ claim' = [claim EXCEPT ![c] = Search(@.left)]
    /\ UNCHANGED <<cluster, store, project, warm, settings, reap, refresh, pass, env>>

\* The liveness answer may be a cached one, so the transport is asked too.
\* Nothing to undo: the spare goes back to the pool.
TransportFails(c, s) ==
    /\ claim[c].stage = "checking" /\ claim[c].spare = s
    /\ pod[s] = "none"
    /\ claiming' = claiming \ {s}
    /\ claim' = [claim EXCEPT ![c] = Cold]
    /\ UNCHANGED <<cluster, store, project, warm, settings, reap, refresh, pass, env>>

\* The commit point: from here on no reap deletes the spare's files.
InsertRow(c, s) ==
    /\ claim[c].stage = "checking" /\ claim[c].spare = s
    /\ pod[s] # "none"
    /\ row' = [row EXCEPT ![s] = "live"]
    /\ claim' = [claim EXCEPT ![c] = [@ EXCEPT !.stage = "prepare", !.left = {}]]
    /\ UNCHANGED <<cluster, files, torn, project, warm, settings, claiming, reap, refresh, pass, env>>

\* Another branch, or a newer tip of its own.
BeginMove(c, s) ==
    /\ claim[c].stage = "prepare" /\ claim[c].spare = s
    /\ torn' = torn \cup {s}
    /\ claim' = [claim EXCEPT ![c] = [@ EXCEPT !.stage = "moving", !.mutated = TRUE]]
    /\ UNCHANGED <<cluster, row, files, project, warm, settings, claiming, reap, refresh, pass, env>>

EndMove(c, s) ==
    /\ claim[c].stage = "moving" /\ claim[c].spare = s
    /\ pod[s] # "none"
    /\ torn' = torn \ {s}
    /\ Goes(c, "unmarkPod")
    /\ UNCHANGED <<cluster, row, files, project, warm, settings, claiming, reap, refresh, pass, env>>

\* From claimSpare on the spare counts as changed.
KeepCheckout(c) ==
    /\ claim[c].stage = "prepare"
    /\ claim' = [claim EXCEPT ![c] = [@ EXCEPT !.stage = "unmarkPod", !.mutated = TRUE]]
    /\ UNCHANGED <<cluster, store, project, warm, settings, claiming, reap, refresh, pass, env>>

\* claimSpareWorkspace: a compare-and-swap on the pod, then the Job.
UnmarkPod(c, s) ==
    /\ claim[c].stage = "unmarkPod" /\ claim[c].spare = s
    /\ s \in ListedSpares
    /\ podMark' = podMark \ {s}
    /\ Goes(c, "unmarkJob")
    /\ UNCHANGED <<pod, job, jobMark, store, project, warm, settings, claiming, reap, refresh, pass, env>>

UnmarkJob(c, s) ==
    /\ claim[c].stage = "unmarkJob" /\ claim[c].spare = s
    /\ jobMark' = jobMark \ {s}
    /\ settings' = Forgotten({s})
    /\ Goes(c, "opening")
    /\ UNCHANGED <<pod, job, podMark, store, project, warm, claiming, reap, refresh, pass, env>>

\* The life's hooks and the session, whose failure is the create's own.
Opens(c, s) ==
    /\ claim[c].stage = "opening" /\ claim[c].spare = s
    /\ claiming' = claiming \ {s}
    /\ claim' = [claim EXCEPT ![c] = [@ EXCEPT !.stage = "won", !.mutated = FALSE]]
    /\ UNCHANGED <<cluster, store, project, warm, settings, reap, refresh, pass, env>>

\* A branch origin does not have, a pod that is gone, or an error, whose
\* write to the Job may have landed.
ClaimFails(c, s) ==
    /\ claim[c].stage \in {"prepare", "moving", "unmarkPod", "unmarkJob"} /\ claim[c].spare = s
    /\ IF claim[c].stage = "prepare" \/ pod[s] = "none" THEN UNCHANGED faults ELSE Fault("error")
    /\ \/ UNCHANGED jobMark
       \/ claim[c].stage = "unmarkJob" /\ jobMark' = jobMark \ {s}
    /\ Goes(c, "undo")
    /\ UNCHANGED <<pod, job, podMark, store, project, warm, settings, claiming, reap, refresh, pass,
                   relaunched, stranded>>

\* The row goes first. A changed spare, or one whose row stayed, is reaped
\* with no gap for another claim; else it goes back to the pool.
Undo(c, s) ==
    /\ claim[c].stage = "undo" /\ claim[c].spare = s
    /\ \E undone \in BOOLEAN :
         LET spoilt == (claim[c].mutated \/ ~undone) /\ s \notin Spawning \cup Reaping
         IN  /\ IF undone THEN UNCHANGED faults ELSE Fault("error")
             /\ row' = IF undone THEN [row EXCEPT ![s] = "none"] ELSE row
             /\ settings' = IF spoilt THEN Forgotten({s}) ELSE settings
             /\ reap' = IF spoilt THEN Reaped(reap, {s}, TRUE) ELSE reap
    /\ claiming' = claiming \ {s}
    /\ claim' = [claim EXCEPT ![c] = Cold]
    /\ UNCHANGED <<cluster, files, torn, project, warm, refresh, pass, relaunched, stranded>>

(***************************************************************************)
(* The pool pass and the stale reaper. Both work from one listing, taken   *)
(* at the start of the pass.                                               *)
(***************************************************************************)
TakeListing ==
    /\ pass.step = "idle"
    /\ pass' = [NoPass EXCEPT !.step = "sweep", !.spares = ListedSpares,
                              !.strays = Strays \cap jobMark, !.active = busy \/ ListedUsers # {}]
    /\ UNCHANGED <<cluster, store, project, warm, settings, claiming, claim, reap, refresh, env>>

\* reconcileStaleWorkspaces, for what it listed as marked: a spare whose
\* tmux the probe finds gone and a stray Job, once past the grace period.
SweepReaps(s) ==
    /\ pass.step = "sweep"
    /\ s \in pass.strays \/ (s \in pass.spares /\ pod[s] # "up")
    /\ MayReap(s)
    /\ reap' = Reaped(reap, {s}, FALSE)
    /\ settings' = Forgotten({s})
    /\ UNCHANGED <<cluster, store, project, warm, claiming, claim, refresh, pass, env>>

\* What reconcilePrewarmPool reads before staleSpares' last await: a spare
\* being reaped is gone for the pool, and the refreshes are copied.
PlanReads ==
    /\ pass.step = "sweep"
    /\ pass' = [pass EXCEPT !.step = "plan", !.spares = @ \ Reaping, !.strays = {}, !.refreshing = Refreshing \cap pass.spares, !.image = image,
                            !.provisioning = \E c \in Create : claim[c].stage \notin {"new", "cold", "won"}]
    /\ UNCHANGED <<cluster, store, project, warm, settings, claiming, claim, reap, refresh, env>>

(***************************************************************************)
(* computePrewarmPlan on the listing. `kept` are the spares that count;    *)
(* the oldest ones beyond the pool size are the excess.                    *)
(***************************************************************************)
Outdated == {s \in pass.spares : settings[s] # pass.image}
Kept     == pass.spares \ (claiming \cup Spawning \cup Outdated)
Excess   == {s \in Kept : Cardinality({o \in Kept : o > s}) >= PoolSize}

ToReap ==
    LET surplus == IF pass.active THEN Excess ELSE IF pass.provisioning THEN {} ELSE Kept
    IN  {s \in ((Outdated \cup surplus) \ pass.refreshing) : MayReap(s)}

\* The next ids, as many as the pool is short of, spares being warmed counted.
ToSpawn ==
    {s \in Spare : /\ pass.active
                   /\ warm[s] = "unborn"
                   /\ Cardinality({o \in Spare : warm[o] = "unborn" /\ o < s})
                      + Cardinality(Kept) + Cardinality(Spawning) < PoolSize}

\* The pass ends once every spare has been looked at.
ToRefresh(S) == IF S = {} THEN NoPass ELSE [NoPass EXCEPT !.step = "refresh", !.spares = S]

\* The plan, carried out with no await, then the first look at the spares to
\* refresh (refreshSpares).
PlanActs ==
    /\ pass.step = "plan"
    /\ reap' = Reaped(reap, ToReap, FALSE)
    /\ settings' = Forgotten(ToReap)
    /\ warm' = [s \in Spare |-> IF s \in ToSpawn THEN "preparing" ELSE warm[s]]
    /\ pass' = ToRefresh({s \in pass.spares : refresh[s] = "idle" /\ s \notin ToReap /\ Free(s)})
    /\ UNCHANGED <<cluster, store, project, claiming, claim, refresh, env>>

\* The base's tip has been read; whether the spare is free is asked again.
\* One already at the tip, as far as the server knows, is left alone.
StartRefresh(s) ==
    /\ pass.step = "refresh"
    /\ s \in pass.spares
    /\ pass' = ToRefresh(pass.spares \ {s})
    /\ \/ /\ refresh[s] = "idle"
          /\ Free(s)
          /\ refresh' = [refresh EXCEPT ![s] = "reading"]
       \/ UNCHANGED refresh
    /\ UNCHANGED <<cluster, store, project, warm, settings, claiming, claim, reap, env>>

\* The spare's HEAD is at the tip or cannot be read, or it is moved.
RefreshReads(s) ==
    /\ refresh[s] = "reading"
    /\ \/ refresh' = [refresh EXCEPT ![s] = "idle"] /\ UNCHANGED torn
       \/ refresh' = [refresh EXCEPT ![s] = "moving"] /\ torn' = torn \cup {s}
    /\ UNCHANGED <<cluster, row, files, project, warm, settings, claiming, claim, reap, pass, env>>

RefreshMoves(s) ==
    /\ refresh[s] = "moving"
    /\ pod[s] # "none"
    /\ torn' = torn \ {s}
    /\ refresh' = [refresh EXCEPT ![s] = "idle"]
    /\ UNCHANGED <<cluster, row, files, project, warm, settings, claiming, claim, reap, pass, env>>

\* Mutant: a failed refresh is only logged.
RefreshFailsQuietly(s) ==
    /\ refresh[s] = "moving"
    /\ IF pod[s] = "none" THEN UNCHANGED faults ELSE Fault("error")
    /\ refresh' = [refresh EXCEPT ![s] = "idle"]
    /\ UNCHANGED <<cluster, store, project, warm, settings, claiming, claim, reap, pass, relaunched, stranded>>

\* A spare left half-moved is reaped, before a claim waiting for it looks.
RefreshFails(s) ==
    /\ refresh[s] = "moving"
    /\ IF pod[s] = "none" THEN UNCHANGED faults ELSE Fault("error")
    /\ refresh' = [refresh EXCEPT ![s] = "idle"]
    /\ IF MayReap(s) THEN reap' = Reaped(reap, {s}, FALSE) /\ settings' = Forgotten({s})
                     ELSE UNCHANGED <<reap, settings>>
    /\ UNCHANGED <<cluster, store, project, warm, claiming, claim, pass, relaunched, stranded>>

\* unmarkClaimedJobs: the Jobs whose pod a claim has unlabelled.
UnmarkClaimedJobs ==
    /\ jobMark \cap ListedUsers # {}
    /\ jobMark' = jobMark \ ListedUsers
    /\ UNCHANGED <<pod, job, podMark, store, project, memory, env>>

(***************************************************************************)
(* The environment.                                                        *)
(***************************************************************************)
\* The server dies and boots again. A warm or a failed claim's reap cut
\* short can leave files that nothing points at.
Crash ==
    /\ Fault("crash")
    /\ warm' = [s \in Spare |-> IF s \in Spawning THEN "settled" ELSE warm[s]]
    /\ settings' = Forgotten(Spare)
    /\ claiming' = {}
    /\ claim' = [c \in Create |-> IF claim[c].stage \in {"new", "won"} THEN claim[c] ELSE Cold]
    /\ reap' = [s \in Spare |-> NoReap]
    /\ refresh' = [s \in Spare |-> "idle"]
    /\ pass' = NoPass
    /\ stranded' = stranded \cup {s \in Spare : (warm[s] = "launching" /\ s \notin job) \/ Unretried(s)}
    /\ UNCHANGED <<cluster, store, project, relaunched>>

\* A pod is lost; its Job stays.
Evict(s) ==
    /\ pod[s] # "none"
    /\ Fault("evict")
    /\ pod' = [pod EXCEPT ![s] = "none"]
    /\ podMark' = podMark \ {s}
    /\ UNCHANGED <<job, jobMark, store, project, memory, relaunched, stranded>>

Hang(s) ==
    /\ pod[s] = "up"
    /\ Fault("hang")
    /\ pod' = [pod EXCEPT ![s] = "stuck"]
    /\ UNCHANGED <<job, podMark, jobMark, store, project, memory, relaunched, stranded>>

NewImage ==
    /\ image + 1 \in Image
    /\ Fault("image")
    /\ image' = image + 1
    /\ UNCHANGED <<cluster, store, busy, memory, relaunched, stranded>>

GoesIdle ==
    /\ busy
    /\ Fault("idle")
    /\ busy' = FALSE
    /\ UNCHANGED <<cluster, store, image, memory, relaunched, stranded>>

\* A user stops a claimed workspace, and restarts it once its unit is gone.
Stop(s) ==
    /\ s \in ListedUsers \ claiming
    /\ row[s] = "live"
    /\ Fault("stop")
    /\ row' = [row EXCEPT ![s] = "stopped"]
    /\ pod' = [pod EXCEPT ![s] = "none"]
    /\ job' = job \ {s}
    /\ jobMark' = jobMark \ {s}
    /\ UNCHANGED <<podMark, files, torn, project, memory, relaunched, stranded>>

Restart(s) ==
    /\ row[s] = "stopped"
    /\ s \notin job
    /\ row' = [row EXCEPT ![s] = "live"]
    /\ pod' = [pod EXCEPT ![s] = "up"]
    /\ job' = job \cup {s}
    /\ relaunched' = relaunched \cup {s}
    /\ UNCHANGED <<podMark, jobMark, files, torn, project, memory, faults, stranded>>

Next ==
    \/ \E s \in Spare :
         \/ ReapReadsRow(s) \/ ReapFinds(s) \/ ReapCleansUp(s) \/ ReapDeletesFiles(s)
         \/ ReapDestroys(s) \/ ReapFails(s)
         \/ WarmPrepares(s) \/ WarmLaunches(s) \/ WarmSettles(s) \/ WarmFails(s)
         \/ SweepReaps(s) \/ StartRefresh(s) \/ RefreshReads(s) \/ RefreshMoves(s) \/ RefreshFails(s)
         \/ Evict(s) \/ Hang(s) \/ Stop(s) \/ Restart(s)
    \/ \E c \in Create :
         \/ ListSpares(c) \/ KeepCheckout(c)
         \/ \E s \in Spare :
              \/ Reserve(c, s) \/ PassOver(c, s) \/ SpareIsStuck(c, s) \/ InsertRow(c, s)
              \/ TransportFails(c, s) \/ BeginMove(c, s) \/ EndMove(c, s) \/ UnmarkPod(c, s)
              \/ UnmarkJob(c, s) \/ Opens(c, s) \/ ClaimFails(c, s) \/ Undo(c, s)
    \/ TakeListing \/ PlanReads \/ PlanActs \/ UnmarkClaimedJobs
    \/ Crash \/ NewImage \/ GoesIdle

Spec == Init /\ [][Next]_vars

(***************************************************************************)
(* What the spare pool promises.                                           *)
(***************************************************************************)
\* No two creates hold or were given the same spare (claiming, freeSpare).
OneCreatePerSpare ==
    \A c, d \in Create : c # d /\ claim[c].spare # None => claim[c].spare # claim[d].spare

\* A claim works on a spare that nothing else reaps, warms or moves, and
\* takes over only a checkout no move left halfway (refreshSpares, reapSpare).
ClaimsAWholeSpare ==
    \A c \in Create : claim[c].stage \in Holding =>
        /\ claim[c].spare \notin Reaping \cup Spawning \cup Refreshing
        /\ claim[c].stage \notin {"moving", "undo"} => claim[c].spare \notin torn

\* A spare that can be claimed is whole: one a failed move or claim left
\* between two commits never returns to the pool.
PoolIsWhole ==
    \A s \in torn : Free(s) => refresh[s] = "moving"

\* Files with neither a row, a labelled Job, a warm nor a reap to their name
\* are those a crash or a failed delete is known to leave (docs/
\* workspace-storage.md "Write discipline"): the unit's record goes last.
NothingElseStranded ==
    \A s \in files : row[s] # "none" \/ s \in jobMark \cup Spawning \cup Reaping \cup stranded

\* A reap deletes a spare's files only while no row has its id and no claim
\* holds it, however old its listing: a row always wins.
FilesOfARowStay ==
    [][\A s \in files \ files' : row[s] = "none" /\ row'[s] = "none" /\ s \notin claiming]_vars

\* A reap takes down a claimed workspace only if its own claim failed, or if
\* a stop left nothing for the reap to find and a restart came after.
ClaimedIsLeftRunning ==
    [][\A s \in ListedUsers : row[s] = "live" /\ pod'[s] = "none" /\ reap[s].stage \in {"cleanup", "record"} /\ reap'[s] # reap[s]
          => \/ s \in relaunched
             \/ reap[s].claimFailed /\ \A c \in Create : claim[c].stage = "won" => claim[c].spare # s]_vars
=============================================================================
