------------------------------- MODULE Sites -------------------------------
(***************************************************************************)
(* A public site (domain/sites/deploys.ts): each deploy runs a release, a  *)
(* workspace of its own, which takes over the hostname once it is ready.   *)
(* A site may keep its data in the volume of module VolumeLeases: the next *)
(* release builds what it can beside the one serving, which is stopped     *)
(* only to hand over the volume. With none, the old release is drained. A  *)
(* release that dies is replaced, and a followed branch is deployed as its *)
(* tip moves.                                                              *)
(*                                                                         *)
(* One site, with its volume or without one throughout, following a        *)
(* branch, edited never. Commits are left out: the branch may have moved   *)
(* to a new one whenever a pass looks.                                     *)
(* Everything that changes the site's row holds its lock, so each such     *)
(* operation is one action; creates, teardowns and what a pass has read    *)
(* interleave with them.                                                   *)
(***************************************************************************)
EXTENDS VolumeLeases

VARIABLES
    site,      \* the site's row
    steps,     \* how far the steps of the deploy's release are
    writing,   \* releases whose steps that use the volume have started
    stopping,  \* releases whose create has been asked to stop
    failing,   \* releases whose create failed, their site not told yet
    slipped    \* history: releases whose stop was lost

siteVars == <<site, steps, writing, stopping, failing, slipped>>
vars     == <<lease, runtime, pass, faults, overtaken, siteVars>>

\* The deploy's columns. Its deadline, the end of a drain and the backoff
\* before a replacement may have come whenever a pass looks; of the backoff
\* the row keeps that one is set, and of its release's commit that it has one.
NoDeploy == [id |-> None, replacing |-> FALSE, handoffFrom |-> None]
Deploy   == [id : Release \cup {None}, replacing : BOOLEAN, handoffFrom : Workspace \cup {None}]
Site     == [deploy : Deploy, live : Release \cup {None}, drain : Release \cup {None},
             backoff : BOOLEAN, released : BOOLEAN, volume : BOOLEAN]

TypeOK ==
    /\ holder \in Workspace \cup {None} /\ next \in Release \cup {None}
    /\ reads \subseteq Dev \cup {Sweep}
    /\ unit \in [Workspace -> BOOLEAN]
    /\ life \in [Workspace -> Stage \cup {"idle", "failed"}]
    /\ stopped \subseteq Workspace /\ tearing \subseteq Workspace
    /\ pass \in Pass /\ faults \in Nat /\ overtaken \subseteq Workspace
    /\ site \in Site /\ (site.deploy.id = None => site.deploy = NoDeploy /\ steps = "none")
    /\ steps \in {"none", "building", "built", "using", "ready", "broken"}
    /\ writing \subseteq Release /\ stopping \subseteq Release /\ failing \subseteq Release /\ slipped \subseteq Release

Init ==
    /\ holder = None /\ next = None /\ reads = {}
    /\ unit = [w \in Workspace |-> FALSE]
    /\ life = [w \in Workspace |-> "idle"]
    /\ stopped = {} /\ tearing = {}
    /\ pass = NoPass /\ faults = 0 /\ overtaken = {}
    /\ \E volume \in BOOLEAN :
          site = [deploy |-> NoDeploy, live |-> None, drain |-> None,
                  backoff |-> FALSE, released |-> FALSE, volume |-> volume]
    /\ steps = "none"
    /\ writing = {} /\ stopping = {} /\ failing = {} /\ slipped = {}

Tracked == {site.deploy.id, site.live, site.drain}

\* An id no longer in use stands for the next release.
Unused(r) ==
    /\ r \notin Tracked \cup {holder, next} \cup stopped \cup tearing \cup stopping \cup failing \cup slipped
    /\ ~unit[r] /\ life[r] = "idle"
    /\ r \notin pass.known \cup pass.alive \cup {pass.staged, site.deploy.handoffFrom}

\* A pass that ended a drain still holds the site's lock.
Unlocked == pass.step # "site"

\* A call that fails is a fault.
Outcome(ok) == IF ok THEN UNCHANGED faults ELSE Fault
----------------------------------------------------------------------------
(***************************************************************************)
(* Stopping releases, and ending a deploy that failed.                     *)
(***************************************************************************)
\* stopRelease: a create is told to stop; a running release's teardown
\* starts; one that is gone counts as stopped.
StopReleases(S) ==
    LET running == {r \in S : unit[r]} \ InFlight
    IN /\ stopping' = stopping \cup (S \cap InFlight)
       /\ tearing' = tearing \cup running
       /\ stopped' = stopped \cup running

\* The same for releases the site then forgets.
EndReleases(S) ==
    LET running == {r \in S : unit[r]} \ InFlight
    IN /\ stopping' = stopping \cup (S \cap InFlight)
       /\ tearing' = tearing \cup running
       /\ stopped' = (stopped \ S) \cup running

StopNothing == UNCHANGED <<stopping, tearing, stopped>>

\* Mutant: the columns of the deploy that failed stay.
AfterFailureOfId(s) ==
    [s EXCEPT !.deploy.id = None, !.backoff = @ \/ s.deploy.replacing]

\* failDeploy, as it leaves the row.
AfterFailure(s) ==
    [s EXCEPT !.deploy = NoDeploy, !.backoff = @ \/ s.deploy.replacing]

\* Mutant: the deploy is forgotten whether or not its release could be stopped.
FailDeployAnyway(r, ok) ==
    /\ IF ok THEN EndReleases({r}) ELSE StopNothing
    /\ Unstage(r) /\ site' = AfterFailure(site) /\ steps' = "none"

\* failDeploy: a release that cannot be stopped stays the site's deploy.
FailDeploy(r, ok) ==
    IF ok
      THEN EndReleases({r}) /\ Unstage(r) /\ site' = AfterFailure(site) /\ steps' = "none"
      ELSE StopNothing /\ UNCHANGED <<next, site, steps>>
----------------------------------------------------------------------------
(***************************************************************************)
(* Deploys.                                                                *)
(***************************************************************************)
\* startDeploy: the row names the release, and its create is registered.
StartDeploy(s, replacing) ==
    \E r \in Release :
        /\ Unused(r) /\ Load < MaxLoad
        /\ site' = [s EXCEPT !.deploy = [NoDeploy EXCEPT !.id = r, !.replacing = replacing]]
        /\ life' = [life EXCEPT ![r] = "starting"]

\* Its create is refused (a held project), and the deploy fails at once.
RefuseDeploy(s, replacing) ==
    /\ Fault
    /\ site' = AfterFailure([s EXCEPT !.deploy.replacing = replacing])
    /\ UNCHANGED life

Deploys(s, replacing) ==
    \/ StartDeploy(s, replacing) /\ UNCHANGED faults
    \/ RefuseDeploy(s, replacing)

UserDeploys ==
    /\ Unlocked /\ site.deploy.id = None
    /\ Deploys(site, FALSE)
    /\ UNCHANGED <<lease, unit, stopped, tearing, pass, overtaken, steps, writing, stopping, failing, slipped>>

UserStarts ==
    /\ Unlocked /\ site.deploy.id = None /\ site.live = None /\ site.released
    /\ Deploys(site, FALSE)
    /\ UNCHANGED <<lease, unit, stopped, tearing, pass, overtaken, steps, writing, stopping, failing, slipped>>

\* endReleases: the deploy, the live release and the draining one stop in
\* turn; with one that cannot be stopped, the site forgets nothing.
UserStops(ok) ==
    /\ Unlocked
    /\ Outcome(ok)
    /\ IF ok
         THEN /\ EndReleases(Tracked \ {None})
              /\ IF site.deploy.id = None THEN UNCHANGED next ELSE Unstage(site.deploy.id)
              /\ site' = [site EXCEPT !.deploy = NoDeploy, !.live = None, !.drain = None, !.backoff = FALSE]
              /\ steps' = "none"
         ELSE /\ \E S \in {{}, {site.deploy.id}, {site.deploy.id, site.live}} : StopReleases(S \ {None})
              /\ UNCHANGED <<next, site, steps>>
    /\ UNCHANGED <<holder, reads, unit, life, pass, overtaken, writing, failing, slipped>>

----------------------------------------------------------------------------
(***************************************************************************)
(* A release's create, detached from the deploy that started it.           *)
(***************************************************************************)
\* The create's entry goes with a stop, and stays with an error.
Drops(r) ==
    /\ life' = [life EXCEPT ![r] = IF r \in stopping THEN "idle" ELSE "failed"]
    /\ pass' = IF r \in stopping THEN Settled(r) ELSE pass
    /\ stopping' = stopping \ {r}
    /\ failing' = failing \cup {r}

\* stageVolume, refused while another release is staged (with no volume, none
\* is); then a checkpoint.
CreateStages(r) ==
    /\ life[r] = "starting"
    /\ IF r \in stopping \/ ~Claimable(r)
         THEN Drops(r) /\ UNCHANGED next
         ELSE /\ next' = IF site.volume THEN r ELSE None
              /\ life' = [life EXCEPT ![r] = "staged"]
              /\ UNCHANGED <<pass, stopping, failing>>
    /\ UNCHANGED <<holder, reads, unit, stopped, tearing, faults, overtaken, site, steps, writing, slipped>>

\* A stop can come too late for the create, which then ends by stopping what
\* it started; that stop can fail in its turn.
CreateSettles(r) ==
    /\ life[r] = "staged"
    /\ life' = [life EXCEPT ![r] = "idle"]
    /\ unit' = [unit EXCEPT ![r] = TRUE]
    /\ steps' = IF r = site.deploy.id THEN "building" ELSE steps
    /\ pass' = Settled(r)
    /\ stopping' = stopping \ {r}
    /\ \E ok \in BOOLEAN :
           /\ r \in stopping \/ ok
           /\ Outcome(ok)
           /\ slipped' = IF ok THEN slipped ELSE slipped \cup {r}
           /\ IF r \in stopping /\ ok
                THEN tearing' = tearing \cup {r} /\ stopped' = stopped \cup {r}
                ELSE UNCHANGED <<tearing, stopped>>
    /\ UNCHANGED <<lease, overtaken, site, writing, failing>>

\* The create fails, or a checkpoint finds it stopped. Its unit and its stage
\* go, unless the unit cannot be confirmed gone.
CreateFails(r, gone) ==
    /\ life[r] = "staged"
    /\ IF r \in stopping THEN Outcome(gone) ELSE Outcome(FALSE)
    /\ IF gone THEN Unstage(r) /\ UNCHANGED unit
               ELSE unit' = [unit EXCEPT ![r] = TRUE] /\ UNCHANGED next
    /\ slipped' = IF ~gone /\ r \in stopping THEN slipped \cup {r} ELSE slipped
    /\ Drops(r)
    /\ UNCHANGED <<holder, reads, stopped, tearing, overtaken, site, steps, writing>>

\* The site is told, under its lock.
RunFailed(r, ok) ==
    /\ Unlocked /\ r \in failing
    /\ failing' = failing \ {r}
    /\ IF site.deploy.id = r
         THEN Outcome(ok) /\ FailDeploy(r, ok)
         ELSE ok /\ StopNothing /\ UNCHANGED <<faults, next, site, steps>>
    /\ UNCHANGED <<holder, reads, unit, life, pass, overtaken, writing, slipped>>

Dismiss(r) ==
    /\ life[r] = "failed"
    /\ life' = [life EXCEPT ![r] = "idle"]
    /\ pass' = Settled(r)
    /\ UNCHANGED <<lease, unit, stopped, tearing, faults, overtaken, siteVars>>
----------------------------------------------------------------------------
(***************************************************************************)
(* A release's steps, which module-level steps open and watch: first those *)
(* that leave the volume alone, then, once the release holds it, the rest. *)
(***************************************************************************)
StepsReach(from, to) ==
    /\ steps = from /\ unit[site.deploy.id] /\ site.deploy.id \notin stopped
    /\ steps' = to
    /\ UNCHANGED <<lease, runtime, pass, overtaken, site, stopping, failing, slipped>>

Built == StepsReach("building", IF site.volume THEN "built" ELSE "ready") /\ UNCHANGED <<faults, writing>>

\* Mutant: the steps that use the volume do not wait for the lease.
UsesVolumeAtOnce ==
    StepsReach("built", "using") /\ writing' = writing \cup {site.deploy.id} /\ UNCHANGED faults

UsesVolume ==
    /\ holder = site.deploy.id
    /\ StepsReach("built", "using") /\ writing' = writing \cup {site.deploy.id} /\ UNCHANGED faults

Ready == StepsReach("using", "ready") /\ UNCHANGED <<faults, writing>>

StepBreaks ==
    /\ Fault
    /\ StepsReach("building", "broken") \/ StepsReach("using", "broken")
    /\ UNCHANGED writing
----------------------------------------------------------------------------
(***************************************************************************)
(* The reconcile pass: one listing of the runtime, from which the sites    *)
(* step, then the lease sweep, judge who is alive.                         *)
(***************************************************************************)
PassLists ==
    /\ pass.step = "idle"
    /\ LET listed == {w \in Workspace : unit[w]}
       IN pass' = [NoPass EXCEPT !.step = "sites", !.known = listed, !.alive = listed \cup InFlight]
    /\ UNCHANGED <<lease, runtime, faults, overtaken, siteVars>>

\* The site's turn, once it has the lock. A drain that is due ends first.
DrainEnds ==
    /\ pass.step = "sites" /\ site.drain # None
    /\ EndReleases({site.drain})
    /\ site' = [site EXCEPT !.drain = None]
    /\ pass' = [pass EXCEPT !.step = "site"]
    /\ UNCHANGED <<lease, unit, life, faults, overtaken, steps, writing, failing, slipped>>

SiteTurn ==
    /\ pass.step \in {"sites", "site"}
    /\ pass' = [pass EXCEPT !.step = "held", !.alive = {}]

\* A release the listing or its row says is gone.
Lost(r) == r \in stopped \/ r \notin Alive

\* Its create has left the registry, and nothing says it failed.
Advances(r) ==
    /\ SiteTurn /\ r # None /\ life[r] = "idle" /\ ~Lost(r) /\ steps # "broken"
    /\ ~(steps # "building" /\ holder # r /\ holder \in Alive \cap Dev)

\* advanceDeploy fails a deploy past its deadline, and, once its create has
\* left the registry, one whose release or a step of it is gone, or whose
\* volume a workspace of someone else holds.
AdvanceFails(ok) ==
    LET r == site.deploy.id IN
    /\ SiteTurn /\ r # None
    /\ Outcome(ok) /\ FailDeploy(r, ok)
    /\ UNCHANGED <<holder, reads, unit, life, overtaken, writing, failing, slipped>>

\* Mutant: the serving release is stopped while the next one is building.
AsksHandoffEarly(r) == holder \in Alive /\ holder # r

\* The steps before the volume are done: the release that holds it, another
\* of this site's, is stopped, once.
AsksHandoff(r) == steps = "built" /\ holder \in Alive /\ holder # r

HandsOff(ok) ==
    LET r == site.deploy.id IN
    /\ Advances(r) /\ AsksHandoff(r) /\ site.deploy.handoffFrom # holder
    /\ Outcome(ok)
    /\ IF ok THEN StopReleases({holder}) ELSE StopNothing
    /\ site' = [site EXCEPT !.deploy.handoffFrom = holder]
    /\ UNCHANGED <<lease, unit, life, overtaken, steps, writing, failing, slipped>>

\* The holder is gone, so the lease passes to the release, as handOverVolume
\* finds the row: `next` still names it.
HandsOver ==
    LET r == site.deploy.id IN
    /\ Advances(r) /\ steps = "built" /\ holder # r /\ holder \notin Alive /\ next = r
    /\ TakeLease(r) /\ next' = None
    /\ UNCHANGED <<runtime, faults, siteVars>>

\* Every step is ready: the drain ends, and the hostname moves.
Flips ==
    LET r   == site.deploy.id
        old == {site.live} \cap Alive
    IN /\ Advances(r) /\ (site.volume => holder = r) /\ steps = "ready"
       /\ EndReleases({site.drain} \ {None})
       /\ site' = [site EXCEPT !.deploy = NoDeploy, !.live = r, !.released = TRUE,
                               !.drain = IF old = {} THEN None ELSE site.live, !.backoff = FALSE]
       /\ steps' = "none"
       /\ UNCHANGED <<lease, unit, life, faults, overtaken, writing, failing, slipped>>

\* The create is under way or failed, steps are, the handoff is asked for, or
\* what had to stop could not be (a drain, a release to hand over from).
Waits ==
    /\ SiteTurn /\ site.deploy.id # None
    /\ UNCHANGED <<lease, runtime, faults, overtaken, siteVars>>

\* superviseLive: a live release that is gone gets a time to be replaced at,
\* and then a deploy of what it ran.
Replaces ==
    /\ SiteTurn /\ site.deploy.id = None /\ site.live # None /\ Lost(site.live)
    /\ IF site.backoff
         THEN \/ Deploys([site EXCEPT !.backoff = FALSE], TRUE)
              \/ UNCHANGED <<life, faults, site>>
         ELSE site' = [site EXCEPT !.backoff = TRUE] /\ UNCHANGED <<life, faults>>
    /\ UNCHANGED <<lease, unit, stopped, tearing, overtaken, steps, writing, stopping, failing, slipped>>

\* followBranch: only beside a release that serves, for a commit not yet tried.
Follows ==
    /\ SiteTurn /\ site.deploy.id = None /\ site.live # None /\ ~Lost(site.live)
    /\ \/ UNCHANGED <<life, faults, site>>
       \/ Deploys(site, FALSE)
    /\ UNCHANGED <<lease, unit, stopped, tearing, overtaken, steps, writing, stopping, failing, slipped>>

NothingServed ==
    /\ SiteTurn /\ site.deploy.id = None /\ site.live = None
    /\ UNCHANGED <<lease, runtime, faults, overtaken, siteVars>>
----------------------------------------------------------------------------
\* The server dies and starts again: the registry, the teardowns and the pass
\* go; a launch under way may have made its unit.
Crash ==
    /\ Fault
    /\ \E made \in SUBSET {w \in InFlight : life[w] = "staged"} :
           unit' = [w \in Workspace |-> unit[w] \/ w \in made]
    /\ life' = [w \in Workspace |-> "idle"]
    /\ tearing' = {} /\ stopping' = {} /\ failing' = {}
    /\ slipped' = slipped \cup (stopping \cap InFlight)
    /\ pass' = NoPass /\ reads' = {}
    /\ UNCHANGED <<holder, next, stopped, overtaken, site, steps, writing>>

\* A release whose stop was lost ends in the end: its owner stops it, or the
\* reaper finds it unfinished.
Collected(r) ==
    /\ r \in slipped
    /\ slipped' = slipped \ {r}
    /\ IF unit[r] THEN tearing' = tearing \cup {r} /\ stopped' = stopped \cup {r}
                  ELSE UNCHANGED <<tearing, stopped>>
    /\ UNCHANGED <<lease, unit, life, pass, faults, overtaken, site, steps, writing, stopping, failing>>

Keeps(A) == A /\ UNCHANGED siteVars

DevActs(d) ==
    \/ DevAsks(d) \/ DevClears(d) \/ DevClaims(d) \/ DevJudges(d) \/ DevTakesOver(d)
    \/ DevLaunches(d) \/ DevFails(d) \/ DevStops(d)

CreateActs(r) ==
    \/ CreateStages(r) \/ CreateSettles(r)
    \/ \E ok \in BOOLEAN : CreateFails(r, ok) \/ RunFailed(r, ok)

StepActs == Built \/ UsesVolume \/ Ready \/ StepBreaks

SiteActs ==
    \/ \E ok \in BOOLEAN : AdvanceFails(ok) \/ HandsOff(ok)
    \/ HandsOver \/ Flips \/ Waits \/ Replaces \/ Follows \/ NothingServed

PassActs ==
    \/ PassLists \/ DrainEnds \/ SiteActs
    \/ Keeps(SweepReads) \/ Keeps(SweepReleases)

Runtime(w) == TearsDown(w, w \in Tracked) \/ ReaperResumes(w) \/ Dies(w, w \in Tracked)

\* What attaches the volume is followed only for a site that has it.
Next ==
    \/ site.volume /\ \E d \in Dev : Keeps(DevActs(d))
    \/ \E w \in Workspace :
           /\ Runtime(w)
           /\ writing' = {r \in writing : unit'[r]}
           /\ UNCHANGED <<site, steps, stopping, failing, slipped>>
    \/ \E r \in Release : CreateActs(r) \/ Dismiss(r) \/ Collected(r)
    \/ StepActs \/ PassActs
    \/ UserDeploys \/ UserStarts \/ (\E ok \in BOOLEAN : UserStops(ok))
    \/ Crash

Spec == Init /\ [][Next]_vars
----------------------------------------------------------------------------
\* May be writing to the volume: one that attached it, or a release past its
\* build.
Writes(w) == unit[w] /\ w \in Dev \cup writing

\* Two workspaces never write to the volume at once, whatever launches,
\* deploys, restarts and sweeps do in which order, but for one whose lease a
\* pass ended while it may still have been running: the lease's whole point,
\* and no single update of it can promise it.
OneWriter == Cardinality({w \in Workspace : Writes(w)} \ overtaken) <= 1

\* A release that runs is one the site's row names, or its end is under way
\* (recorded, or asked of its create), or that end was lost in a crash or a
\* failed call: no deploy that fails, ends or is replaced leaves one running
\* that nothing will stop.
NoStrayRelease ==
    \A r \in Release : unit[r] /\ r \notin Tracked => r \in stopped \cup stopping \cup slipped

\* The release that serves the site's hostname holds its volume: what a
\* workspace, a sweep or a failed launch does with the lease meanwhile, they
\* do not do it to a release that serves.
ServingHoldsVolume ==
    site.volume /\ site.live # None /\ unit[site.live] /\ site.live \notin overtaken
        => holder = site.live

\* The lease leaves a workspace that may still run only if that is not a
\* release, the pass that ends it had not found it alive, and, when the lease
\* sweep does it, the lease has not been renewed since the sweep read it.
LeaseLeavesOnlyTheGone ==
    [][\A w \in overtaken' \ overtaken :
           w \in Dev \ pass.alive /\ (pass.step = "judged" => Sweep \in reads)]_vars

\* A pass stops the release that serves only for a deploy that has built all
\* it can beside it and is staged to take the volume: the site is down for the
\* handover alone, never for a release that could not take over, and with no
\* volume to hand over, never.
StoppedOnlyToHandOver ==
    [][pass.step \in {"site", "sites"} /\ pass'.step = "held" /\ site.live # None
         /\ site'.live = site.live /\ site.live \in stopped' \ stopped
         => site.volume /\ site.live = holder /\ site.deploy.id = next /\ steps = "built"]_vars
============================================================================
