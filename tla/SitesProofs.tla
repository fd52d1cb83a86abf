------------------------------ MODULE SitesProofs ------------------------------
(***************************************************************************)
(* Proofs about sites and the lease of their volume, for any number of     *)
(* dev workspaces, releases and faults: every property of Sites holds.     *)
(*                                                                         *)
(* WriterInv says that what uses the volume holds its lease or has been    *)
(* overtaken, LeaseInv that a lease judged free stays so for the one who   *)
(* judged it, SiteInv how the site's columns and its releases' lives go    *)
(* together, and PassInv that what a pass has read keeps its releases      *)
(* alive in its eyes: StagedInv is the part of that for the next holder.   *)
(***************************************************************************)
EXTENDS Sites, FiniteSetTheorems, TLAPS

\* A dev workspace has the lease before it has a unit.
WriterInv ==
    /\ \A d \in Dev :
          /\ life[d] \in {"starting", "taking", "claiming", "staged"} => ~unit[d] /\ d \notin tearing
          /\ unit[d] \/ life[d] = "staged" => d = holder \/ d \in overtaken
    /\ \A r \in writing : unit[r] /\ (r = holder \/ r \in overtaken)

\* A holder found gone stays gone as long as the row has the lease it was
\* found with.
LeaseInv ==
    \A d \in Dev \cap reads : /\ holder # None
                              /\ life[d] = "claiming" => ~MayRun(holder)

\* A release that is being created is the site's deploy or told to stop, and
\* the columns name different releases.
SiteInv ==
    /\ \A r \in Release :
          /\ r \in InFlight => ~unit[r] /\ (r = site.deploy.id \/ r \in stopping)
          /\ r \in stopping => r \in InFlight
          /\ r \in tearing /\ r \in Tracked => r \in stopped
          /\ r = holder => life[r] = "idle"
          /\ r \in {site.live, site.drain} => r \notin InFlight \cup {site.deploy.id}
    /\ site.live # None => site.drain # site.live
    /\ steps # "none" => life[site.deploy.id] = "idle"
    /\ steps \in {"built", "using"} => site.volume

\* A release that runs is among those a pass knows, and the one that holds the
\* volume or serves is among those it takes for alive.
PassInv ==
    \A r \in Release : unit[r] =>
        /\ pass.step \in {"sites", "site", "held"} /\ life[r] = "idle" => r \in pass.known
        /\ pass.step \in {"sites", "site"} /\ r \in {holder, site.live} => r \in pass.alive
        /\ pass.step = "judged" /\ Sweep \in reads /\ r = holder => r \in pass.alive

Staged(r) ==
    \/ life[r] = "staged"
    \/ steps # "none" /\ (unit[r] \/ (pass.step \in {"sites", "site"} /\ r \in pass.alive))
    => next = r

\* While another release has the volume, the deploy's is the next holder, once
\* its create has staged it and as long as it runs or a pass takes it to run.
StagedInv ==
    \A r \in Release : r = site.deploy.id =>
        /\ site.volume /\ holder \in Release \ {r} => Staged(r)
        /\ pass.step = "judged" /\ pass.staged = r /\ (r \in InFlight \/ (steps # "none" /\ unit[r])) =>
              r \in pass.alive

Safe ==
    /\ WriterInv /\ LeaseInv /\ SiteInv /\ NoStrayRelease
    /\ PassInv /\ StagedInv /\ ServingHoldsVolume
IInv == TypeOK /\ Safe

\* What an action leaves alone is given as one of these tuples.
USE DEF vars, lease, runtime, siteVars
--------------------------------------------------------------------------------
(***************************************************************************)
(* What a deploy that starts or fails does to the row.                     *)
(***************************************************************************)
\* The site's turn, or no part of a pass.
TurnOrNoPart ==
    \/ pass' = pass
    \/ /\ pass.step \in {"sites", "site"} /\ pass'.step = "held"
       /\ pass'.known = pass.known

SameSite == site'.live = site.live /\ site'.drain = site.drain /\ site'.volume = site.volume

LEMMA TurnIsTurn == ASSUME TypeOK, SiteTurn PROVE TurnOrNoPart
BY DEF TypeOK, SiteTurn, Pass, TurnOrNoPart

LEMMA RowAfterFailure ==
    ASSUME NEW s \in Site
    PROVE  /\ AfterFailure(s) \in Site
           /\ AfterFailure(s).deploy = NoDeploy
           /\ AfterFailure(s).live = s.live /\ AfterFailure(s).drain = s.drain
           /\ AfterFailure(s).volume = s.volume
BY DEF AfterFailure, Site, Deploy, NoDeploy

\* A deploy starts a release nothing else speaks of, or fails at once.
LEMMA DeploysEffect ==
    ASSUME TypeOK, site.deploy.id = None, NEW s \in Site, NEW replacing \in BOOLEAN, Deploys(s, replacing),
           s.deploy = NoDeploy, s.live = site.live, s.drain = site.drain, s.volume = site.volume
    PROVE  /\ SameSite /\ site' \in Site
           /\ \/ site'.deploy = NoDeploy /\ life' = life
              \/ \E r \in Release : /\ Unused(r) /\ life' = [life EXCEPT ![r] = "starting"]
                                    /\ site'.deploy.id = r
<1>1. CASE StartDeploy(s, replacing)
  <2>1. PICK r \in Release : /\ Unused(r)
                             /\ site' = [s EXCEPT !.deploy = [NoDeploy EXCEPT !.id = r, !.replacing = replacing]]
                             /\ life' = [life EXCEPT ![r] = "starting"]
    BY <1>1 DEF StartDeploy
  <2> DEFINE deploy == [NoDeploy EXCEPT !.id = r, !.replacing = replacing]
  <2>2. deploy \in Deploy /\ deploy.id = r  BY DEF NoDeploy, Deploy
  <2>3. site' = [s EXCEPT !.deploy = deploy]  BY <2>1
  <2> HIDE DEF deploy
  <2>4. site'.deploy = deploy /\ SameSite /\ site' \in Site  BY <2>2, <2>3 DEF Site, SameSite
  <2>. QED  BY <2>1, <2>2, <2>4
<1>2. CASE RefuseDeploy(s, replacing)
  <2> DEFINE t == [s EXCEPT !.deploy.replacing = replacing]
  <2>1. t \in Site /\ t.live = s.live /\ t.drain = s.drain /\ t.volume = s.volume
    BY DEF Site, Deploy
  <2>2. site' = AfterFailure(t) /\ life' = life  BY <1>2 DEF RefuseDeploy
  <2> HIDE DEF t
  <2>. QED  BY <2>1, <2>2, RowAfterFailure DEF SameSite
<1>. QED  BY <1>1, <1>2 DEF Deploys

LEMMA FailDeployEffect ==
    ASSUME TypeOK, NEW r \in Release, NEW ok \in BOOLEAN, r = site.deploy.id, FailDeploy(r, ok)
    PROVE  /\ SameSite /\ site' \in Site
           /\ \/ /\ site'.deploy = NoDeploy /\ steps' = "none"
                 /\ EndReleases({r}) /\ Unstage(r)
              \/ UNCHANGED <<site, steps, next>> /\ StopNothing
<1>1. site \in Site  BY DEF TypeOK
<1>. QED  BY <1>1, RowAfterFailure DEF FailDeploy, SameSite
--------------------------------------------------------------------------------
(***************************************************************************)
(* Types.                                                                  *)
(***************************************************************************)
LEMMA PassTyped ==
    ASSUME TypeOK
    PROVE  /\ NoPass \in Pass
           /\ \A w \in Workspace : Settled(w) \in Pass
           /\ [pass EXCEPT !.step = "site"] \in Pass
           /\ \A known, alive \in SUBSET Workspace :
                 [NoPass EXCEPT !.step = "sites", !.known = known, !.alive = alive] \in Pass
           /\ pass.known \in SUBSET Workspace /\ pass.staged \in Workspace \cup {None}
BY DEF TypeOK, NoPass, Pass, Settled

LEMMA TurnTyped == ASSUME TypeOK, SiteTurn PROVE pass' \in Pass
BY DEF TypeOK, SiteTurn, Pass

LEMMA SiteTyped ==
    ASSUME TypeOK
    PROVE  /\ NoDeploy \in Deploy /\ NoDeploy.id = None
           /\ site.deploy \in Deploy /\ site.live \in Release \cup {None} /\ site.drain \in Release \cup {None}
           /\ Tracked \ {None} \subseteq Release
           /\ [site EXCEPT !.drain = None] \in Site
           /\ \A w \in Workspace \cup {None} : [site EXCEPT !.deploy.handoffFrom = w] \in Site
           /\ \A old \in Release \cup {None}, r \in Release :
                 [site EXCEPT !.deploy = NoDeploy, !.live = r, !.released = TRUE,
                              !.drain = old, !.backoff = FALSE] \in Site
           /\ [site EXCEPT !.deploy = NoDeploy, !.live = None, !.drain = None, !.backoff = FALSE] \in Site
<1>1. NoDeploy \in Deploy /\ NoDeploy.id = None  BY DEF NoDeploy, Deploy
<1>2. site \in Site  BY DEF TypeOK
<1>3. site.deploy \in Deploy /\ site.live \in Release \cup {None} /\ site.drain \in Release \cup {None}
  BY <1>2 DEF Site
<1>4. Tracked \ {None} \subseteq Release  BY <1>3 DEF Tracked, Deploy
<1>5. [site EXCEPT !.drain = None] \in Site  BY <1>2 DEF Site
<1>6. \A w \in Workspace \cup {None} : [site EXCEPT !.deploy.handoffFrom = w] \in Site
  BY <1>2 DEF Site, Deploy
<1>7. \A old \in Release \cup {None}, r \in Release :
         [site EXCEPT !.deploy = NoDeploy, !.live = r, !.released = TRUE, !.drain = old, !.backoff = FALSE]
            \in Site
  BY <1>1, <1>2 DEF Site
<1>8. [site EXCEPT !.deploy = NoDeploy, !.live = None, !.drain = None, !.backoff = FALSE] \in Site
  BY <1>1, <1>2 DEF Site
<1>. QED  BY <1>1, <1>3, <1>4, <1>5, <1>6, <1>7, <1>8

LEMMA CountsTyped ==
    ASSUME TypeOK
    PROVE  /\ Fault => faults' \in Nat
           /\ \A ok \in BOOLEAN : Outcome(ok) => faults' \in Nat
BY DEF TypeOK, Fault, Outcome

LEMMA EndsTyped ==
    ASSUME TypeOK, NEW S \in SUBSET Release
    PROVE  /\ EndReleases(S) => stopping' \subseteq Release /\ tearing' \subseteq Workspace /\ stopped' \subseteq Workspace
           /\ StopReleases(S) => stopping' \subseteq Release /\ tearing' \subseteq Workspace /\ stopped' \subseteq Workspace
BY DEF EndReleases, StopReleases, TypeOK, Workspace

LEMMA FailedTyped ==
    ASSUME TypeOK, NEW r \in Release, NEW ok \in BOOLEAN, r = site.deploy.id, FailDeploy(r, ok)
    PROVE  /\ site' \in Site /\ next' \in Release \cup {None}
           /\ steps' \in {"none", "building", "built", "using", "ready", "broken"}
           /\ site'.deploy.id = None => site'.deploy = NoDeploy /\ steps' = "none"
           /\ stopping' \subseteq Release /\ tearing' \subseteq Workspace /\ stopped' \subseteq Workspace
<1>1. {r} \in SUBSET Release  OBVIOUS
<1>2. CASE ok
  BY <1>1, <1>2, FailDeployEffect, EndsTyped, SiteTyped DEF FailDeploy, Unstage, TypeOK
<1>3. CASE ~ok
  BY <1>3 DEF FailDeploy, StopNothing, TypeOK
<1>. QED  BY <1>2, <1>3

LEMMA DeploysTyped ==
    ASSUME TypeOK, site.deploy.id = None, NEW s \in Site, NEW replacing \in BOOLEAN, Deploys(s, replacing),
           s.deploy = NoDeploy, s.live = site.live, s.drain = site.drain, s.volume = site.volume
    PROVE  /\ site' \in Site /\ life' \in [Workspace -> Stage \cup {"idle", "failed"}] /\ faults' \in Nat
           /\ site'.deploy.id = None => site'.deploy = NoDeploy
<1>1. faults' \in Nat
  BY CountsTyped DEF Deploys, StartDeploy, RefuseDeploy, TypeOK
<1>2. life' \in [Workspace -> Stage \cup {"idle", "failed"}]
  BY DeploysEffect DEF TypeOK, Stage
<1>3. \A r \in Release : r # None  BY VolumeLeasesAssumption DEF Workspace
<1>4. site' \in Site /\ (site'.deploy.id = None => site'.deploy = NoDeploy)
  <2>1. \/ site'.deploy = NoDeploy
        \/ \E r \in Release : site'.deploy.id = r
    BY DeploysEffect
  <2>. QED  BY <1>3, <2>1, DeploysEffect
<1>. QED  BY <1>1, <1>2, <1>4

LEMMA DevStepTyped ==
    ASSUME TypeOK, NEW d \in Dev, DevActs(d), UNCHANGED siteVars
    PROVE  TypeOK'
<1>0. d \in Workspace  BY DEF Workspace
<1>1. ASSUME DevAsks(d) PROVE TypeOK'  BY <1>0, <1>1 DEF DevAsks, TypeOK, Stage
<1>2. ASSUME DevClears(d) PROVE TypeOK'  BY <1>0, <1>2 DEF DevClears, UnitGoes, TypeOK, Stage
<1>3. ASSUME DevClaims(d) PROVE TypeOK'
  BY <1>0, <1>3 DEF DevClaims, TakeLease, Overtakes, TypeOK, Stage
<1>4. ASSUME DevJudges(d) PROVE TypeOK'  BY <1>0, <1>4 DEF DevJudges, TypeOK, Stage
<1>5. ASSUME DevTakesOver(d) PROVE TypeOK'
  BY <1>0, <1>5 DEF DevTakesOver, TakeLease, Overtakes, TypeOK, Stage
<1>6. ASSUME DevLaunches(d) PROVE TypeOK'
  BY <1>0, <1>6, PassTyped DEF DevLaunches, TypeOK, Stage
<1>7. ASSUME DevFails(d) PROVE TypeOK'
  <2>1. faults' \in Nat  BY <1>7, CountsTyped DEF DevFails
  <2>. QED  BY <1>0, <1>7, <2>1 DEF DevFails, EndLease, TypeOK, Stage
<1>8. ASSUME DevStops(d) PROVE TypeOK'  BY <1>0, <1>8 DEF DevStops, TypeOK
<1>. QED  BY <1>1, <1>2, <1>3, <1>4, <1>5, <1>6, <1>7, <1>8 DEF DevActs

LEMMA RuntimeStepTyped ==
    ASSUME TypeOK, NEW w \in Workspace, Runtime(w), writing' = {r \in writing : unit'[r]},
           UNCHANGED <<site, steps, stopping, failing, slipped>>
    PROVE  TypeOK'
<1>1. ASSUME TearsDown(w, w \in Tracked) PROVE TypeOK'
  <2>1. faults' \in Nat  BY <1>1, CountsTyped DEF TearsDown, TypeOK
  <2>. QED  BY <1>1, <2>1 DEF TearsDown, UnitGoes, TypeOK
<1>2. ASSUME ReaperResumes(w) PROVE TypeOK'  BY <1>2 DEF ReaperResumes, TypeOK
<1>3. ASSUME Dies(w, w \in Tracked) PROVE TypeOK'
  <2>1. faults' \in Nat  BY <1>3, CountsTyped DEF Dies
  <2>. QED  BY <1>3, <2>1 DEF Dies, UnitGoes, TypeOK
<1>. QED  BY <1>1, <1>2, <1>3 DEF Runtime

LEMMA CreateStepTyped ==
    ASSUME TypeOK, NEW r \in Release, CreateActs(r) \/ Dismiss(r) \/ Collected(r)
    PROVE  TypeOK'
<1>0. r \in Workspace  BY DEF Workspace
<1>1. ASSUME CreateStages(r) PROVE TypeOK'
  BY <1>0, <1>1, PassTyped DEF CreateStages, Drops, TypeOK, Stage
<1>2. ASSUME CreateSettles(r) PROVE TypeOK'
  <2>1. faults' \in Nat  BY <1>2, CountsTyped DEF CreateSettles
  <2>2. r = site.deploy.id => site.deploy.id # None  BY VolumeLeasesAssumption, <1>0
  <2>. QED  BY <1>0, <1>2, <2>1, <2>2, PassTyped DEF CreateSettles, TypeOK, Stage
<1>3. ASSUME NEW gone \in BOOLEAN, CreateFails(r, gone) PROVE TypeOK'
  <2>1. faults' \in Nat  BY <1>3, CountsTyped DEF CreateFails
  <2>. QED  BY <1>0, <1>3, <2>1, PassTyped DEF CreateFails, Unstage, Drops, TypeOK, Stage
<1>4. ASSUME NEW ok \in BOOLEAN, RunFailed(r, ok) PROVE TypeOK'
  <2>1. faults' \in Nat  BY <1>4, CountsTyped DEF RunFailed, TypeOK
  <2>2. CASE r = site.deploy.id
    BY <1>4, <2>1, <2>2, FailedTyped DEF RunFailed, TypeOK
  <2>3. CASE r # site.deploy.id
    BY <1>4, <2>1, <2>3 DEF RunFailed, StopNothing, TypeOK
  <2>. QED  BY <2>2, <2>3
<1>5. ASSUME Dismiss(r) PROVE TypeOK'  BY <1>0, <1>5, PassTyped DEF Dismiss, TypeOK, Stage
<1>6. ASSUME Collected(r) PROVE TypeOK'  BY <1>0, <1>6 DEF Collected, TypeOK
<1>. QED  BY <1>1, <1>2, <1>3, <1>4, <1>5, <1>6 DEF CreateActs

LEMMA PassStepTyped == ASSUME TypeOK, PassActs PROVE TypeOK'
<1>1. ASSUME PassLists PROVE TypeOK'
  <2>1. pass' \in Pass
    <3> DEFINE listed == {w \in Workspace : unit[w]}
    <3>1. listed \in SUBSET Workspace /\ listed \cup InFlight \in SUBSET Workspace  BY DEF InFlight
    <3>2. pass' = [NoPass EXCEPT !.step = "sites", !.known = listed, !.alive = listed \cup InFlight]
      BY <1>1 DEF PassLists
    <3> HIDE DEF listed
    <3>. QED  BY <3>1, <3>2, PassTyped
  <2>. QED  BY <1>1, <2>1 DEF PassLists, TypeOK
<1>2. ASSUME DrainEnds PROVE TypeOK'
  <2>1. {site.drain} \in SUBSET Release  BY <1>2, SiteTyped DEF DrainEnds
  <2>2. site' \in Site /\ pass' \in Pass  BY <1>2, SiteTyped, PassTyped DEF DrainEnds
  <2>3. site'.deploy = site.deploy  BY <1>2 DEF DrainEnds, TypeOK, Site
  <2>. QED  BY <1>2, <2>1, <2>2, <2>3, EndsTyped DEF DrainEnds, TypeOK
<1>3. ASSUME NEW ok \in BOOLEAN, AdvanceFails(ok) PROVE TypeOK'
  <2>1. faults' \in Nat /\ pass' \in Pass  BY <1>3, CountsTyped, TurnTyped DEF AdvanceFails
  <2>2. site.deploy.id \in Release  BY <1>3, SiteTyped DEF AdvanceFails, Deploy
  <2>. QED  BY <1>3, <2>1, <2>2, FailedTyped DEF AdvanceFails, TypeOK
<1>4. ASSUME NEW ok \in BOOLEAN, HandsOff(ok) PROVE TypeOK'
  <2>1. faults' \in Nat /\ pass' \in Pass  BY <1>4, CountsTyped, TurnTyped DEF HandsOff, Advances
  <2>2. holder \in Release /\ site.deploy.id # None
    BY <1>4, PassTyped DEF HandsOff, Advances, AsksHandoff, TypeOK, Alive, Pass, Workspace
  <2>3. site' \in Site  BY <1>4, SiteTyped DEF HandsOff, TypeOK
  <2>4. site'.deploy.id = site.deploy.id  BY <1>4 DEF HandsOff, TypeOK, Site, Deploy
  <2>5. {holder} \in SUBSET Release  BY <2>2
  <2>. QED  BY <1>4, <2>1, <2>2, <2>3, <2>4, <2>5, EndsTyped DEF HandsOff, StopNothing, TypeOK
<1>5. ASSUME HandsOver PROVE TypeOK'
  <2>1. pass' \in Pass  BY <1>5, TurnTyped DEF HandsOver, Advances
  <2>2. site.deploy.id \in Workspace
    BY <1>5, SiteTyped DEF HandsOver, Advances, Deploy, Workspace
  <2>. QED  BY <1>5, <2>1, <2>2 DEF HandsOver, TakeLease, Overtakes, TypeOK
<1>6. ASSUME Flips PROVE TypeOK'
  <2>1. pass' \in Pass  BY <1>6, TurnTyped DEF Flips, Advances
  <2>2. site.deploy.id \in Release  BY <1>6, SiteTyped DEF Flips, Advances, Deploy
  <2>3. {site.drain} \ {None} \in SUBSET Release  BY SiteTyped
  <2> DEFINE old == IF {site.live} \cap Alive = {} THEN None ELSE site.live
  <2>4. old \in Release \cup {None}  BY SiteTyped
  <2>5. site' = [site EXCEPT !.deploy = NoDeploy, !.live = site.deploy.id, !.released = TRUE,
                             !.drain = old, !.backoff = FALSE]
    BY <1>6 DEF Flips
  <2> HIDE DEF old
  <2>6. site' \in Site  BY <2>2, <2>4, <2>5, SiteTyped
  <2>7. site'.deploy = NoDeploy  BY <2>5 DEF TypeOK, Site
  <2>. QED  BY <1>6, <2>1, <2>3, <2>6, <2>7, EndsTyped DEF Flips, TypeOK
<1>7. ASSUME Waits \/ NothingServed PROVE TypeOK'
  BY <1>7, TurnTyped DEF Waits, NothingServed, TypeOK
<1>8. ASSUME Replaces PROVE TypeOK'
  <2>1. pass' \in Pass /\ site \in Site /\ site.deploy = NoDeploy /\ steps = "none" /\ steps' = steps
    BY <1>8, TurnTyped DEF Replaces, TypeOK
  <2>2. CASE UNCHANGED <<life, faults, site>>  BY <1>8, <2>1, <2>2 DEF Replaces, TypeOK
  <2>3. CASE site' = [site EXCEPT !.backoff = TRUE] /\ UNCHANGED <<life, faults>>
    <3>1. site' \in Site  BY <2>1, <2>3 DEF Site
    <3>2. site'.deploy = site.deploy  BY <2>1, <2>3 DEF Site
    <3>. QED  BY <1>8, <2>1, <2>3, <3>1, <3>2 DEF Replaces, TypeOK
  <2>4. CASE Deploys([site EXCEPT !.backoff = FALSE], TRUE)
    <3> DEFINE s == [site EXCEPT !.backoff = FALSE]
    <3>1. s \in Site /\ s.deploy = NoDeploy /\ s.live = site.live /\ s.drain = site.drain
          /\ s.volume = site.volume
      BY <2>1 DEF Site
    <3>2. Deploys(s, TRUE)  BY <2>4
    <3> HIDE DEF s
    <3>. QED  BY <1>8, <2>1, <3>1, <3>2, DeploysTyped DEF Replaces, TypeOK
  <2>. QED  BY <1>8, <2>2, <2>3, <2>4 DEF Replaces
<1>9. ASSUME Follows PROVE TypeOK'
  <2>1. pass' \in Pass /\ site \in Site /\ site.deploy = NoDeploy /\ steps = "none" /\ steps' = steps
    BY <1>9, TurnTyped DEF Follows, TypeOK
  <2>2. CASE UNCHANGED <<life, faults, site>>  BY <1>9, <2>1, <2>2 DEF Follows, TypeOK
  <2>3. CASE Deploys(site, FALSE)  BY <1>9, <2>1, <2>3, DeploysTyped DEF Follows, TypeOK
  <2>. QED  BY <1>9, <2>2, <2>3 DEF Follows
<1>10. ASSUME SweepReads, UNCHANGED siteVars PROVE TypeOK'
  <2>1. AliveNow \cap {holder, next} \in SUBSET Workspace
    BY PassTyped DEF AliveNow, InFlight
  <2>2. next \in Workspace \cup {None}  BY DEF TypeOK, Workspace
  <2>3. pass' \in Pass  BY <1>10, <2>1, <2>2 DEF SweepReads, Pass
  <2>. QED  BY <1>10, <2>3 DEF SweepReads, TypeOK
<1>11. ASSUME SweepReleases, UNCHANGED siteVars PROVE TypeOK'
  BY <1>11, PassTyped DEF SweepReleases, Overtakes, Unstage, TypeOK
<1>. QED
  BY <1>1, <1>2, <1>3, <1>4, <1>5, <1>6, <1>7, <1>8, <1>9, <1>10, <1>11 DEF PassActs, SiteActs,
     Keeps

LEMMA UserStepTyped ==
    ASSUME TypeOK, UserDeploys \/ UserStarts \/ (\E ok \in BOOLEAN : UserStops(ok))
    PROVE  TypeOK'
<1>1. ASSUME UserDeploys \/ UserStarts PROVE TypeOK'
  <2>1. site \in Site /\ site.deploy = NoDeploy /\ steps = "none" /\ steps' = steps
    BY <1>1 DEF UserDeploys, UserStarts, TypeOK
  <2>. QED  BY <1>1, <2>1, DeploysTyped DEF UserDeploys, UserStarts, TypeOK
<1>2. ASSUME NEW ok \in BOOLEAN, UserStops(ok) PROVE TypeOK'
  <2>1. faults' \in Nat  BY <1>2, CountsTyped DEF UserStops
  <2>2. CASE ok
    <3>1. site' = [site EXCEPT !.deploy = NoDeploy, !.live = None, !.drain = None, !.backoff = FALSE]
      BY <1>2, <2>2 DEF UserStops
    <3>2. site' \in Site  BY <3>1, SiteTyped
    <3>3. site'.deploy = NoDeploy  BY <3>1 DEF TypeOK, Site
    <3>4. Tracked \ {None} \in SUBSET Release  BY SiteTyped
    <3>. QED  BY <1>2, <2>1, <2>2, <3>2, <3>3, <3>4, EndsTyped DEF UserStops, Unstage, TypeOK
  <2>3. CASE ~ok
    <3>1. PICK S \in SUBSET Tracked : StopReleases(S \ {None})  BY <1>2, <2>3 DEF UserStops, Tracked
    <3>2. S \ {None} \in SUBSET Release  BY SiteTyped
    <3>. QED  BY <1>2, <2>1, <2>3, <3>1, <3>2, EndsTyped DEF UserStops, TypeOK
  <2>. QED  BY <2>2, <2>3
<1>. QED  BY <1>1, <1>2

LEMMA StepIsTyped == TypeOK /\ Next => TypeOK'
<1>. SUFFICES ASSUME TypeOK, Next PROVE TypeOK'  OBVIOUS
<1>1. ASSUME StepActs PROVE TypeOK'
  <2>1. site.deploy.id \in Release /\ site.deploy.id # None /\ faults' \in Nat /\ steps' # "none"
        /\ steps' \in {"built", "using", "ready", "broken"}
    <3>1. site.deploy.id # None
      BY <1>1 DEF StepActs, Built, UsesVolume, Ready, StepBreaks, StepsReach, TypeOK
    <3>2. faults' \in Nat  BY <1>1, CountsTyped DEF StepActs, Built, UsesVolume, Ready, StepBreaks, TypeOK
    <3>3. steps' \in {"built", "using", "ready", "broken"}
      BY <1>1 DEF StepActs, Built, UsesVolume, Ready, StepBreaks, StepsReach
    <3>. QED  BY <3>1, <3>2, <3>3, SiteTyped DEF Deploy
  <2>. QED  BY <1>1, <2>1 DEF StepActs, Built, UsesVolume, Ready, StepBreaks, StepsReach, TypeOK
<1>2. ASSUME Crash PROVE TypeOK'
  <2>1. faults' \in Nat  BY <1>2, CountsTyped DEF Crash
  <2>. QED  BY <1>2, <2>1, PassTyped DEF Crash, TypeOK, InFlight
<1>. QED
  BY <1>1, <1>2, DevStepTyped, RuntimeStepTyped, CreateStepTyped, PassStepTyped, UserStepTyped DEF
     Next, Keeps
--------------------------------------------------------------------------------
(***************************************************************************)
(* A deploy that starts or fails, and a stop by the user, keep the         *)
(* invariant.                                                              *)
(***************************************************************************)
LEMMA DeployedSafe ==
    ASSUME IInv, TypeOK, site.deploy.id = None, SameSite, TurnOrNoPart,
           \/ site'.deploy.id = None /\ life' = life
           \/ \E r \in Release : /\ Unused(r) /\ life' = [life EXCEPT ![r] = "starting"]
                                 /\ site'.deploy.id = r,
           UNCHANGED <<lease, unit, stopped, tearing, overtaken, steps, writing, stopping, failing, slipped>>
    PROVE  Safe'
<1>1. steps = "none"  BY DEF TypeOK
<1>2. CASE site'.deploy.id = None /\ life' = life
  <2>1. WriterInv' /\ LeaseInv'  BY <1>2 DEF IInv, Safe, WriterInv, LeaseInv, MayRun
  <2>2. SiteInv'
    BY <1>1, <1>2, VolumeLeasesAssumption DEF IInv, Safe, SiteInv, InFlight, Tracked, SameSite,
       Workspace
  <2>3. NoStrayRelease'  BY <1>2, VolumeLeasesAssumption DEF IInv, Safe, NoStrayRelease, Tracked, SameSite
  <2>4. PassInv'  BY <1>2 DEF IInv, Safe, PassInv, SameSite, TurnOrNoPart
  <2>5. StagedInv'  BY <1>1, <1>2, VolumeLeasesAssumption DEF StagedInv, Workspace
  <2>6. ServingHoldsVolume'  BY <1>2 DEF IInv, Safe, ServingHoldsVolume, SameSite
  <2>. QED  BY <2>1, <2>2, <2>3, <2>4, <2>5, <2>6 DEF Safe
<1>3. ASSUME NEW r \in Release, Unused(r), life' = [life EXCEPT ![r] = "starting"], site'.deploy.id = r
      PROVE  Safe'
  <2>1. /\ life'[r] = "starting" /\ life[r] = "idle" /\ ~unit[r]
        /\ \A w \in Workspace \ {r} : life'[w] = life[w]
        /\ r \in Workspace /\ r \notin Dev /\ r # None /\ r # holder /\ r # next
        /\ r \notin stopping \cup tearing \cup stopped /\ r # site.live /\ r # site.drain
        /\ r # pass.staged
    BY <1>3, VolumeLeasesAssumption DEF TypeOK, Workspace, Unused, Tracked
  <2>2. WriterInv'  BY <2>1 DEF IInv, Safe, WriterInv, Workspace
  <2>3. LeaseInv'
    BY <2>1 DEF IInv, Safe, LeaseInv, MayRun, TypeOK, Workspace
  <2>4. SiteInv'
    BY <1>1, <1>3, <2>1, VolumeLeasesAssumption DEF IInv, Safe, SiteInv, InFlight, Tracked,
       SameSite, Workspace, Stage, TypeOK
  <2>5. NoStrayRelease'
    BY <1>3, <2>1, VolumeLeasesAssumption DEF IInv, Safe, NoStrayRelease, Tracked, SameSite, Workspace
  <2>6. PassInv'  BY <2>1 DEF IInv, Safe, PassInv, SameSite, TurnOrNoPart, Workspace
  <2>7. StagedInv'  BY <1>1, <1>3, <2>1 DEF StagedInv, Staged, TurnOrNoPart, InFlight, Stage
  <2>8. ServingHoldsVolume'  BY DEF IInv, Safe, ServingHoldsVolume, SameSite
  <2>. QED  BY <2>2, <2>3, <2>4, <2>5, <2>6, <2>7, <2>8 DEF Safe
<1>. QED  BY <1>2, <1>3

LEMMA FailedSafe ==
    ASSUME IInv, TypeOK, NEW r \in Release, r = site.deploy.id, SameSite, TurnOrNoPart,
           \/ site'.deploy = NoDeploy /\ steps' = "none" /\ EndReleases({r}) /\ Unstage(r)
           \/ UNCHANGED <<site, steps, next>> /\ StopNothing,
           UNCHANGED <<holder, reads, unit, life, overtaken, writing, slipped>>
    PROVE  Safe'
<1>1. CASE site'.deploy = NoDeploy /\ steps' = "none" /\ EndReleases({r}) /\ Unstage(r)
  <2>0. site'.deploy.id = None  BY <1>1 DEF NoDeploy
  <2>1. WriterInv' /\ LeaseInv'
    BY <1>1, VolumeLeasesAssumption DEF IInv, Safe, WriterInv, LeaseInv, MayRun, EndReleases,
       TypeOK, InFlight, Workspace
  <2>2. SiteInv'
    BY <1>1, <2>0, VolumeLeasesAssumption DEF IInv, Safe, SiteInv, InFlight, Tracked, SameSite,
       Workspace, EndReleases
  <2>3. NoStrayRelease'
    BY <1>1, <2>0, VolumeLeasesAssumption DEF IInv, Safe, NoStrayRelease, SiteInv, Tracked,
       SameSite, EndReleases, InFlight, Workspace
  <2>4. PassInv'  BY <1>1 DEF IInv, Safe, PassInv, SameSite, TurnOrNoPart
  <2>5. StagedInv'  BY <2>0, VolumeLeasesAssumption DEF StagedInv, Workspace
  <2>6. ServingHoldsVolume'  BY <1>1 DEF IInv, Safe, ServingHoldsVolume, SameSite
  <2>. QED  BY <2>1, <2>2, <2>3, <2>4, <2>5, <2>6 DEF Safe
<1>2. CASE UNCHANGED <<site, steps, next>> /\ StopNothing
  <2>1. WriterInv' /\ LeaseInv' /\ SiteInv'
    BY <1>2 DEF StopNothing, IInv, Safe, WriterInv, LeaseInv, MayRun, SiteInv, InFlight, Tracked
  <2>2. NoStrayRelease' /\ ServingHoldsVolume'
    BY <1>2 DEF StopNothing, IInv, Safe, NoStrayRelease, Tracked, ServingHoldsVolume
  <2>3. PassInv' /\ StagedInv'
    BY <1>2 DEF StopNothing, IInv, Safe, PassInv, StagedInv, Staged, InFlight, TurnOrNoPart
  <2>. QED  BY <2>1, <2>2, <2>3 DEF Safe
<1>. QED  BY <1>1, <1>2

LEMMA UserDeploysSafe == ASSUME IInv, UserDeploys PROVE Safe'
<1>1. TypeOK /\ site.deploy = NoDeploy /\ site \in Site  BY DEF IInv, TypeOK, UserDeploys
<1>. QED  BY <1>1, DeploysEffect, DeployedSafe DEF UserDeploys, TurnOrNoPart, NoDeploy

LEMMA UserStartsSafe == ASSUME IInv, UserStarts PROVE Safe'
<1>1. TypeOK /\ site.deploy = NoDeploy /\ site \in Site  BY DEF IInv, TypeOK, UserStarts
<1>. QED  BY <1>1, DeploysEffect, DeployedSafe DEF UserStarts, TurnOrNoPart, NoDeploy

\* A pass that starts no deploy, but may change when one is due.
LEMMA QuietTurnSafe ==
    ASSUME IInv, SiteTurn, SameSite, site'.deploy = site.deploy,
           UNCHANGED <<lease, unit, life, stopped, tearing, overtaken, steps, writing, stopping, failing, slipped>>
    PROVE  Safe'
<1>1. TurnOrNoPart  BY TurnIsTurn DEF IInv
<1>2. WriterInv' /\ LeaseInv' /\ SiteInv'
  BY DEF IInv, Safe, WriterInv, LeaseInv, MayRun, SiteInv, InFlight, Tracked, SameSite
<1>3. NoStrayRelease' /\ ServingHoldsVolume'
  BY DEF IInv, Safe, NoStrayRelease, Tracked, ServingHoldsVolume, SameSite
<1>4. PassInv' /\ StagedInv'
  BY <1>1 DEF IInv, Safe, PassInv, StagedInv, Staged, InFlight, TurnOrNoPart, SameSite
<1>. QED  BY <1>2, <1>3, <1>4 DEF Safe

LEMMA ReplacesSafe == ASSUME IInv, Replaces PROVE Safe'
<1>1. TypeOK /\ site.deploy = NoDeploy /\ site \in Site /\ TurnOrNoPart
  BY TurnIsTurn DEF IInv, TypeOK, Replaces
<1>2. CASE Deploys([site EXCEPT !.backoff = FALSE], TRUE)
  <2> DEFINE s == [site EXCEPT !.backoff = FALSE]
  <2>1. /\ s \in Site /\ s.deploy = NoDeploy /\ s.live = site.live
        /\ s.drain = site.drain /\ s.volume = site.volume
    BY <1>1 DEF Site
  <2>2. Deploys(s, TRUE)  BY <1>2
  <2>3. site.deploy.id = None  BY DEF Replaces
  <2> HIDE DEF s
  <2>. QED  BY <1>1, <2>1, <2>2, <2>3, DeploysEffect, DeployedSafe DEF Replaces, NoDeploy
<1>3. CASE UNCHANGED <<life, site>>
  BY <1>3, QuietTurnSafe DEF Replaces, SameSite
<1>4. CASE site' = [site EXCEPT !.backoff = TRUE] /\ UNCHANGED life
  <2>1. SameSite /\ site'.deploy = site.deploy  BY <1>1, <1>4 DEF Site, SameSite
  <2>. QED  BY <1>4, <2>1, QuietTurnSafe DEF Replaces
<1>. QED  BY <1>2, <1>3, <1>4 DEF Replaces

LEMMA FollowsSafe == ASSUME IInv, Follows PROVE Safe'
<1>1. TypeOK /\ site.deploy = NoDeploy /\ site \in Site /\ TurnOrNoPart
  BY TurnIsTurn DEF IInv, TypeOK, Follows
<1>2. CASE Deploys(site, FALSE)
  BY <1>1, <1>2, DeploysEffect, DeployedSafe DEF Follows, NoDeploy
<1>3. CASE UNCHANGED <<life, site>>
  BY <1>3, QuietTurnSafe DEF Follows, SameSite
<1>. QED  BY <1>2, <1>3 DEF Follows

LEMMA AdvanceFailsSafe == ASSUME IInv, NEW ok \in BOOLEAN, AdvanceFails(ok) PROVE Safe'
<1>1. TypeOK /\ TurnOrNoPart /\ site.deploy.id \in Release /\ FailDeploy(site.deploy.id, ok)
  BY TurnIsTurn DEF IInv, TypeOK, AdvanceFails, Site, Deploy
<1>. QED  BY <1>1, FailDeployEffect, FailedSafe DEF AdvanceFails

LEMMA RunFailedSafe == ASSUME IInv, NEW r \in Release, NEW ok \in BOOLEAN, RunFailed(r, ok) PROVE Safe'
<1>1. CASE r = site.deploy.id
  <2>1. TypeOK /\ TurnOrNoPart /\ FailDeploy(r, ok)  BY <1>1 DEF IInv, RunFailed, TurnOrNoPart
  <2>. QED  BY <1>1, <2>1, FailDeployEffect, FailedSafe DEF RunFailed
<1>2. CASE r # site.deploy.id
  <2>1. WriterInv' /\ LeaseInv' /\ SiteInv'
    BY <1>2 DEF RunFailed, StopNothing, IInv, Safe, WriterInv, LeaseInv, MayRun, SiteInv, InFlight, Tracked
  <2>2. NoStrayRelease' /\ ServingHoldsVolume'
    BY <1>2 DEF RunFailed, StopNothing, IInv, Safe, NoStrayRelease, Tracked, ServingHoldsVolume
  <2>3. PassInv' /\ StagedInv'
    BY <1>2 DEF RunFailed, StopNothing, IInv, Safe, PassInv, StagedInv, Staged, InFlight
  <2>. QED  BY <2>1, <2>2, <2>3 DEF Safe
<1>. QED  BY <1>1, <1>2

LEMMA UserStopsSafe == ASSUME IInv, NEW ok \in BOOLEAN, UserStops(ok) PROVE Safe'
<1>1. /\ UNCHANGED <<holder, reads, unit, life, pass, overtaken, writing, slipped>>
      /\ Tracked \ {None} \subseteq Release
  BY DEF UserStops, IInv, TypeOK, Site, Deploy, Tracked
<1>2. CASE ok
  <2>1. /\ site'.deploy.id = None /\ site'.live = None /\ site'.drain = None /\ steps' = "none"
        /\ EndReleases(Tracked \ {None})
    <3>1. site' = [site EXCEPT !.deploy = NoDeploy, !.live = None, !.drain = None, !.backoff = FALSE]
      BY <1>2 DEF UserStops
    <3>2. site'.deploy = NoDeploy /\ site'.live = None /\ site'.drain = None
      BY <3>1 DEF IInv, TypeOK, Site
    <3>. QED  BY <1>2, <3>2 DEF UserStops, NoDeploy
  <2>2. WriterInv' /\ LeaseInv'
    BY <1>1, <2>1 DEF IInv, Safe, WriterInv, LeaseInv, MayRun, SiteInv, EndReleases, TypeOK, InFlight
  <2>3. SiteInv'
    BY <1>1, <2>1, VolumeLeasesAssumption
    DEF IInv, Safe, SiteInv, InFlight, Tracked, Workspace, EndReleases
  <2>4. NoStrayRelease'
    BY <1>1, <2>1, VolumeLeasesAssumption
    DEF IInv, Safe, NoStrayRelease, SiteInv, Tracked, EndReleases, InFlight, Workspace
  <2>5. PassInv'  BY <1>1, <2>1, VolumeLeasesAssumption DEF IInv, Safe, PassInv, Workspace
  <2>6. StagedInv' /\ ServingHoldsVolume'
    BY <2>1, VolumeLeasesAssumption DEF StagedInv, ServingHoldsVolume, Workspace
  <2>. QED  BY <2>2, <2>3, <2>4, <2>5, <2>6 DEF Safe
<1>3. CASE ~ok
  <2>1. PICK S \in SUBSET Tracked : StopReleases(S \ {None})  BY <1>3 DEF UserStops, Tracked
  <2>2. UNCHANGED <<next, site, steps>>  BY <1>3 DEF UserStops
  <2>3. WriterInv' /\ LeaseInv'
    BY <1>1, <2>1, <2>2 DEF IInv, Safe, WriterInv, LeaseInv, MayRun, StopReleases, TypeOK, InFlight
  <2>4. SiteInv'
    BY <1>1, <2>1, <2>2 DEF IInv, Safe, SiteInv, InFlight, Tracked, StopReleases
  <2>5. NoStrayRelease' /\ ServingHoldsVolume'
    BY <1>1, <2>1, <2>2 DEF IInv, Safe, NoStrayRelease, Tracked, StopReleases, ServingHoldsVolume
  <2>6. PassInv' /\ StagedInv'
    BY <1>1, <2>1, <2>2 DEF IInv, Safe, PassInv, StagedInv, Staged, InFlight
  <2>. QED  BY <2>3, <2>4, <2>5, <2>6 DEF Safe
<1>. QED  BY <1>2, <1>3
--------------------------------------------------------------------------------
(***************************************************************************)
(* So does every other action.                                             *)
(***************************************************************************)
LEMMA DevAsksSafe ==
    ASSUME IInv, NEW d \in Dev, DevAsks(d), UNCHANGED siteVars
    PROVE  Safe'
<1>1. WriterInv'  BY DEF DevAsks, IInv, Safe, WriterInv
<1>2. LeaseInv'  BY DEF DevAsks, IInv, Safe, LeaseInv, MayRun
<1>3. SiteInv'
  BY VolumeLeasesAssumption DEF DevAsks, InFlight, IInv, Safe, SiteInv, Tracked, TypeOK, Site, Deploy
<1>4. PassInv'  BY DEF DevAsks, IInv, Safe, PassInv
<1>5. StagedInv'  BY VolumeLeasesAssumption DEF DevAsks, InFlight, IInv, Safe, StagedInv, Staged
<1>6. NoStrayRelease' /\ ServingHoldsVolume'
  BY DEF DevAsks, IInv, Safe, NoStrayRelease, Tracked, ServingHoldsVolume
<1>. QED  BY <1>1, <1>2, <1>3, <1>4, <1>5, <1>6 DEF Safe

LEMMA DevClearsSafe ==
    ASSUME IInv, NEW d \in Dev, DevClears(d), UNCHANGED siteVars
    PROVE  Safe'
<1>1. WriterInv'  BY VolumeLeasesAssumption DEF DevClears, UnitGoes, IInv, Safe, TypeOK, WriterInv
<1>2. LeaseInv'  BY DEF DevClears, UnitGoes, IInv, Safe, LeaseInv, MayRun
<1>3. SiteInv'
  BY VolumeLeasesAssumption DEF DevClears, UnitGoes, IInv, Safe, SiteInv, InFlight, Tracked
<1>4. NoStrayRelease'  BY DEF DevClears, UnitGoes, IInv, Safe, TypeOK, NoStrayRelease, Tracked
<1>5. PassInv'  BY DEF DevClears, UnitGoes, IInv, Safe, PassInv
<1>6. StagedInv'  BY DEF DevClears, UnitGoes, IInv, Safe, TypeOK, StagedInv, Staged, InFlight
<1>7. ServingHoldsVolume'  BY DEF DevClears, UnitGoes, IInv, Safe, ServingHoldsVolume, TypeOK
<1>. QED  BY <1>1, <1>2, <1>3, <1>4, <1>5, <1>6, <1>7 DEF Safe

LEMMA DevClaimsSafe ==
    ASSUME IInv, NEW d \in Dev, DevClaims(d), UNCHANGED siteVars
    PROVE  Safe'
<1>1. WriterInv'
  BY VolumeLeasesAssumption DEF DevClaims, TakeLease, Overtakes, IInv, Safe, TypeOK, WriterInv,
     Workspace
<1>2. LeaseInv'  BY DEF DevClaims, TakeLease, MayRun, IInv, Safe, LeaseInv, TypeOK, Workspace
<1>3. SiteInv'
  BY VolumeLeasesAssumption DEF DevClaims, TakeLease, IInv, Safe, SiteInv, InFlight, Tracked, TypeOK,
     Workspace, Site, Deploy
<1>4. PassInv'
  BY VolumeLeasesAssumption DEF DevClaims, TakeLease, IInv, Safe, PassInv, TypeOK, Workspace
<1>5. StagedInv'
  BY VolumeLeasesAssumption DEF DevClaims, TakeLease, IInv, Safe, StagedInv, Staged, InFlight, TypeOK,
     Workspace
<1>6. ServingHoldsVolume'
  BY DEF DevClaims, Claimable, TakeLease, Overtakes, MayRun, IInv, Safe, ServingHoldsVolume
<1>7. NoStrayRelease'
  BY DEF DevClaims, Claimable, TakeLease, Overtakes, MayRun, IInv, Safe, NoStrayRelease, Tracked
<1>. QED  BY <1>1, <1>2, <1>3, <1>4, <1>5, <1>6, <1>7 DEF Safe

LEMMA DevJudgesSafe ==
    ASSUME IInv, NEW d \in Dev, DevJudges(d), UNCHANGED siteVars
    PROVE  Safe'
<1>1. WriterInv'  BY DEF DevJudges, IInv, Safe, WriterInv, TypeOK, Workspace
<1>2. LeaseInv'  BY DEF DevJudges, HolderGone, InFlight, IInv, Safe, LeaseInv, MayRun, TypeOK, Workspace
<1>3. SiteInv'
  BY VolumeLeasesAssumption DEF DevJudges, InFlight, IInv, Safe, SiteInv, Tracked, TypeOK, Workspace,
     Site, Deploy
<1>4. PassInv'  BY VolumeLeasesAssumption DEF DevJudges, IInv, Safe, PassInv, TypeOK, Workspace
<1>5. StagedInv'  BY DEF DevJudges, InFlight, IInv, Safe, StagedInv, Staged, TypeOK, Workspace
<1>6. NoStrayRelease' /\ ServingHoldsVolume'
  BY DEF DevJudges, HolderGone, InFlight, IInv, Safe, NoStrayRelease, Tracked, ServingHoldsVolume
<1>. QED  BY <1>1, <1>2, <1>3, <1>4, <1>5, <1>6 DEF Safe

LEMMA DevTakesOverSafe ==
    ASSUME IInv, NEW d \in Dev, DevTakesOver(d), UNCHANGED siteVars
    PROVE  Safe'
<1>1. WriterInv'
  BY VolumeLeasesAssumption DEF DevTakesOver, TakeLease, Overtakes, MayRun, IInv, Safe, WriterInv,
     TypeOK, Workspace
<1>2. LeaseInv'  BY DEF DevTakesOver, TakeLease, MayRun, IInv, Safe, LeaseInv, TypeOK, Workspace
<1>3. SiteInv'
  BY VolumeLeasesAssumption DEF DevTakesOver, TakeLease, IInv, Safe, SiteInv, InFlight, Tracked,
     TypeOK, Workspace, Site, Deploy
<1>4. PassInv'
  BY VolumeLeasesAssumption DEF DevTakesOver, TakeLease, IInv, Safe, PassInv, TypeOK, Workspace
<1>5. StagedInv'
  BY VolumeLeasesAssumption DEF DevTakesOver, TakeLease, IInv, Safe, StagedInv, Staged, InFlight,
     TypeOK, Workspace
<1>6. ServingHoldsVolume'
  BY DEF DevTakesOver, Claimable, TakeLease, Overtakes, MayRun, IInv, Safe, ServingHoldsVolume
<1>7. NoStrayRelease'
  BY DEF DevTakesOver, Claimable, TakeLease, Overtakes, MayRun, IInv, Safe, NoStrayRelease, Tracked
<1>. QED  BY <1>1, <1>2, <1>3, <1>4, <1>5, <1>6, <1>7 DEF Safe

LEMMA DevLaunchesSafe ==
    ASSUME IInv, NEW d \in Dev, DevLaunches(d), UNCHANGED siteVars
    PROVE  Safe'
<1>1. WriterInv'  BY DEF DevLaunches, Settled, IInv, Safe, WriterInv, TypeOK
<1>2. LeaseInv'  BY DEF DevLaunches, Settled, IInv, Safe, LeaseInv, MayRun
<1>3. SiteInv'
  BY VolumeLeasesAssumption DEF DevLaunches, Settled, IInv, Safe, SiteInv, InFlight, Tracked
<1>4. NoStrayRelease'
  BY VolumeLeasesAssumption DEF DevLaunches, Settled, IInv, Safe, NoStrayRelease, Tracked
<1>5. PassInv'  BY VolumeLeasesAssumption DEF DevLaunches, Settled, IInv, Safe, PassInv
<1>6. StagedInv'  BY DEF DevLaunches, Settled, IInv, Safe, StagedInv, Staged, InFlight, TypeOK
<1>7. ServingHoldsVolume'
  BY VolumeLeasesAssumption DEF DevLaunches, IInv, Safe, ServingHoldsVolume, TypeOK, Site
<1>. QED  BY <1>1, <1>2, <1>3, <1>4, <1>5, <1>6, <1>7 DEF Safe

LEMMA DevFailsSafe ==
    ASSUME IInv, NEW d \in Dev, DevFails(d), UNCHANGED siteVars
    PROVE  Safe'
<1>1. WriterInv'  BY DEF DevFails, EndLease, IInv, Safe, WriterInv, TypeOK, Workspace
<1>2. LeaseInv'  BY DEF DevFails, EndLease, IInv, Safe, LeaseInv, MayRun, TypeOK
<1>3. SiteInv'
  BY VolumeLeasesAssumption DEF DevFails, EndLease, IInv, Safe, SiteInv, InFlight, Tracked, TypeOK,
     Workspace
<1>4. NoStrayRelease'
  BY VolumeLeasesAssumption DEF DevFails, IInv, Safe, NoStrayRelease, Tracked, TypeOK, Workspace
<1>5. PassInv'  BY VolumeLeasesAssumption DEF DevFails, EndLease, IInv, Safe, PassInv, TypeOK, Workspace
<1>6. StagedInv'
  BY VolumeLeasesAssumption DEF DevFails, EndLease, IInv, Safe, StagedInv, Staged, InFlight, TypeOK,
     Workspace
<1>7. ServingHoldsVolume'
  BY VolumeLeasesAssumption DEF DevFails, EndLease, IInv, Safe, ServingHoldsVolume, TypeOK, Workspace,
     Site
<1>. QED  BY <1>1, <1>2, <1>3, <1>4, <1>5, <1>6, <1>7 DEF Safe

LEMMA DevStopsSafe ==
    ASSUME IInv, NEW d \in Dev, DevStops(d), UNCHANGED siteVars
    PROVE  Safe'
<1>1. WriterInv'  BY DEF DevStops, IInv, Safe, WriterInv
<1>2. LeaseInv'  BY DEF DevStops, IInv, Safe, LeaseInv, MayRun
<1>3. SiteInv'  BY DEF DevStops, IInv, Safe, SiteInv, InFlight, Tracked
<1>4. NoStrayRelease'  BY DEF DevStops, IInv, Safe, NoStrayRelease, Tracked
<1>5. PassInv' /\ StagedInv' /\ ServingHoldsVolume'
  BY DEF DevStops, IInv, Safe, PassInv, StagedInv, Staged, InFlight, ServingHoldsVolume
<1>. QED  BY <1>1, <1>2, <1>3, <1>4, <1>5 DEF Safe

LEMMA TearsDownSafe ==
    ASSUME IInv, NEW w \in Workspace, TearsDown(w, w \in Tracked),
           writing' = {r \in writing : unit'[r]}, UNCHANGED <<site, steps, stopping, failing, slipped>>
    PROVE  Safe'
<1>1. WriterInv'  BY DEF TearsDown, UnitGoes, IInv, Safe, WriterInv, TypeOK, Workspace
<1>2. LeaseInv'  BY DEF TearsDown, UnitGoes, IInv, Safe, LeaseInv, MayRun, TypeOK
<1>3. SiteInv'  BY DEF TearsDown, UnitGoes, IInv, Safe, SiteInv, InFlight, Tracked, TypeOK
<1>4. NoStrayRelease'
  BY DEF TearsDown, UnitGoes, IInv, Safe, NoStrayRelease, Tracked, TypeOK, Workspace
<1>5. PassInv'  BY DEF TearsDown, UnitGoes, IInv, Safe, PassInv, TypeOK, Workspace
<1>6. StagedInv'  BY DEF TearsDown, UnitGoes, IInv, Safe, StagedInv, Staged, InFlight, TypeOK, Workspace
<1>7. ServingHoldsVolume'
  BY DEF TearsDown, UnitGoes, IInv, Safe, ServingHoldsVolume, TypeOK, Workspace, Site
<1>. QED  BY <1>1, <1>2, <1>3, <1>4, <1>5, <1>6, <1>7 DEF Safe

LEMMA ReaperResumesSafe ==
    ASSUME IInv, NEW w \in Workspace, ReaperResumes(w),
           writing' = {r \in writing : unit'[r]}, UNCHANGED <<site, steps, stopping, failing, slipped>>
    PROVE  Safe'
<1>1. WriterInv'  BY DEF ReaperResumes, InFlight, IInv, Safe, WriterInv
<1>2. LeaseInv'  BY DEF ReaperResumes, InFlight, IInv, Safe, LeaseInv, MayRun
<1>3. SiteInv'  BY DEF ReaperResumes, InFlight, IInv, Safe, SiteInv, Tracked
<1>4. NoStrayRelease'  BY DEF ReaperResumes, InFlight, IInv, Safe, NoStrayRelease, Tracked
<1>5. PassInv'  BY DEF ReaperResumes, InFlight, IInv, Safe, PassInv
<1>6. StagedInv'  BY DEF ReaperResumes, InFlight, IInv, Safe, StagedInv, Staged
<1>7. ServingHoldsVolume'  BY DEF ReaperResumes, InFlight, IInv, Safe, ServingHoldsVolume
<1>. QED  BY <1>1, <1>2, <1>3, <1>4, <1>5, <1>6, <1>7 DEF Safe

LEMMA DiesSafe ==
    ASSUME IInv, NEW w \in Workspace, Dies(w, w \in Tracked),
           writing' = {r \in writing : unit'[r]}, UNCHANGED <<site, steps, stopping, failing, slipped>>
    PROVE  Safe'
<1>1. WriterInv'  BY DEF Dies, InFlight, UnitGoes, IInv, Safe, WriterInv, TypeOK
<1>2. LeaseInv'  BY DEF Dies, InFlight, UnitGoes, IInv, Safe, LeaseInv, MayRun
<1>3. SiteInv'  BY DEF Dies, InFlight, UnitGoes, IInv, Safe, SiteInv, Tracked
<1>4. NoStrayRelease'  BY DEF Dies, InFlight, UnitGoes, IInv, Safe, NoStrayRelease, Tracked, TypeOK
<1>5. PassInv'  BY DEF Dies, InFlight, UnitGoes, IInv, Safe, PassInv
<1>6. StagedInv'  BY DEF Dies, InFlight, UnitGoes, IInv, Safe, StagedInv, Staged
<1>7. ServingHoldsVolume'  BY DEF Dies, InFlight, UnitGoes, IInv, Safe, ServingHoldsVolume, TypeOK
<1>. QED  BY <1>1, <1>2, <1>3, <1>4, <1>5, <1>6, <1>7 DEF Safe

LEMMA CreateStagesSafe ==
    ASSUME IInv, NEW r \in Release, CreateStages(r)
    PROVE  Safe'
<1>1. WriterInv'
  BY VolumeLeasesAssumption DEF CreateStages, Drops, IInv, Safe, WriterInv, TypeOK, Workspace
<1>2. LeaseInv'  BY DEF CreateStages, Drops, IInv, Safe, LeaseInv, MayRun, TypeOK, Workspace, SiteInv
<1>3. SiteInv'
  BY DEF CreateStages, Drops, IInv, Safe, SiteInv, InFlight, Tracked, TypeOK, Workspace, Stage, Site,
     Deploy
<1>4. NoStrayRelease'  BY DEF CreateStages, IInv, Safe, NoStrayRelease, Tracked, SiteInv
<1>5. PassInv'  BY DEF CreateStages, Drops, Settled, IInv, Safe, PassInv, TypeOK, Workspace, Pass
<1>6. StagedInv'
  BY VolumeLeasesAssumption DEF CreateStages, Claimable, Drops, Settled, IInv, Safe, StagedInv,
     Staged, InFlight, TypeOK, Workspace, Pass
<1>7. ServingHoldsVolume'
  BY DEF CreateStages, Claimable, Drops, Settled, IInv, Safe, ServingHoldsVolume
<1>. QED  BY <1>1, <1>2, <1>3, <1>4, <1>5, <1>6, <1>7 DEF Safe

LEMMA CreateSettlesSafe ==
    ASSUME IInv, NEW r \in Release, CreateSettles(r)
    PROVE  Safe'
<1>1. WriterInv'  BY VolumeLeasesAssumption DEF CreateSettles, Settled, Outcome, IInv, Safe, WriterInv
<1>2. LeaseInv'  BY DEF CreateSettles, Settled, Outcome, IInv, Safe, LeaseInv, MayRun
<1>3. SiteInv'  BY DEF CreateSettles, IInv, Safe, SiteInv, InFlight, Tracked, TypeOK, Workspace, Stage
<1>4. NoStrayRelease'
  BY DEF CreateSettles, IInv, Safe, NoStrayRelease, Tracked, TypeOK, SiteInv, InFlight
<1>5. PassInv'  BY DEF CreateSettles, Settled, IInv, Safe, PassInv, TypeOK, SiteInv, InFlight
<1>6. StagedInv'
  BY DEF CreateSettles, Settled, IInv, Safe, StagedInv, Staged, InFlight, TypeOK, Workspace
<1>7. ServingHoldsVolume'
  BY DEF CreateSettles, IInv, Safe, ServingHoldsVolume, TypeOK, SiteInv, InFlight
<1>. QED  BY <1>1, <1>2, <1>3, <1>4, <1>5, <1>6, <1>7 DEF Safe

LEMMA DismissSafe ==
    ASSUME IInv, NEW r \in Release, Dismiss(r)
    PROVE  Safe'
<1>1. WriterInv'  BY DEF Dismiss, Settled, IInv, Safe, WriterInv
<1>2. LeaseInv'  BY DEF Dismiss, Settled, IInv, Safe, LeaseInv, MayRun
<1>3. SiteInv'  BY DEF Dismiss, IInv, Safe, SiteInv, InFlight, Tracked, Stage
<1>4. PassInv'  BY DEF Dismiss, Settled, IInv, Safe, PassInv
<1>5. StagedInv'  BY DEF Dismiss, Settled, IInv, Safe, StagedInv, Staged, InFlight, Stage
<1>6. NoStrayRelease' /\ ServingHoldsVolume'
  BY DEF Dismiss, Settled, IInv, Safe, NoStrayRelease, Tracked, ServingHoldsVolume
<1>. QED  BY <1>1, <1>2, <1>3, <1>4, <1>5, <1>6 DEF Safe

LEMMA CollectedSafe ==
    ASSUME IInv, NEW r \in Release, Collected(r)
    PROVE  Safe'
<1>1. WriterInv'  BY DEF Collected, IInv, Safe, WriterInv
<1>2. LeaseInv'  BY DEF Collected, IInv, Safe, LeaseInv, MayRun
<1>3. SiteInv'  BY DEF Collected, IInv, Safe, SiteInv, InFlight, Tracked
<1>4. NoStrayRelease'  BY DEF Collected, IInv, Safe, NoStrayRelease, Tracked
<1>5. PassInv' /\ StagedInv' /\ ServingHoldsVolume'
  BY DEF Collected, IInv, Safe, PassInv, StagedInv, Staged, InFlight, ServingHoldsVolume
<1>. QED  BY <1>1, <1>2, <1>3, <1>4, <1>5 DEF Safe

LEMMA CreateFailsSafe ==
    ASSUME IInv, NEW r \in Release, NEW gone \in BOOLEAN, CreateFails(r, gone)
    PROVE  Safe'
<1>1. WriterInv'  BY DEF CreateFails, Drops, IInv, Safe, WriterInv, TypeOK, Workspace
<1>2. LeaseInv'
  BY DEF CreateFails, Outcome, Unstage, Drops, Settled, IInv, Safe, LeaseInv, MayRun, TypeOK
<1>3. SiteInv'  BY DEF CreateFails, Drops, IInv, Safe, SiteInv, InFlight, Tracked, TypeOK, Stage
<1>4. NoStrayRelease'
  BY DEF CreateFails, IInv, Safe, NoStrayRelease, Tracked, TypeOK, Workspace, SiteInv, InFlight
<1>5. PassInv'
  BY DEF CreateFails, Drops, Settled, IInv, Safe, PassInv, TypeOK, Workspace, SiteInv, InFlight
<1>6. StagedInv'
  BY DEF CreateFails, Unstage, Drops, Settled, IInv, Safe, StagedInv, Staged, InFlight, TypeOK,
     Workspace, SiteInv
<1>7. ServingHoldsVolume'
  BY DEF CreateFails, IInv, Safe, ServingHoldsVolume, TypeOK, Workspace, Site, InFlight, SiteInv
<1>. QED  BY <1>1, <1>2, <1>3, <1>4, <1>5, <1>6, <1>7 DEF Safe

LEMMA BuiltSafe ==
    ASSUME IInv, Built
    PROVE  Safe'
<1>1. SiteInv'  BY DEF Built, StepsReach, IInv, Safe, SiteInv, InFlight, Tracked
<1>2. StagedInv'  BY DEF Built, StepsReach, IInv, Safe, StagedInv, Staged, InFlight
<1>3. WriterInv' /\ LeaseInv' /\ NoStrayRelease' /\ PassInv' /\ ServingHoldsVolume'
  BY DEF Built, StepsReach, IInv, Safe, WriterInv, LeaseInv, MayRun, NoStrayRelease, Tracked, PassInv,
     ServingHoldsVolume
<1>. QED  BY <1>1, <1>2, <1>3 DEF Safe

LEMMA UsesVolumeSafe ==
    ASSUME IInv, UsesVolume
    PROVE  Safe'
<1>1. WriterInv'  BY DEF UsesVolume, StepsReach, IInv, Safe, WriterInv
<1>2. SiteInv'  BY DEF UsesVolume, StepsReach, IInv, Safe, SiteInv, InFlight, Tracked
<1>3. StagedInv'  BY DEF UsesVolume, StepsReach, IInv, Safe, StagedInv, Staged, InFlight
<1>4. LeaseInv' /\ NoStrayRelease' /\ PassInv' /\ ServingHoldsVolume'
  BY DEF UsesVolume, StepsReach, IInv, Safe, LeaseInv, MayRun, NoStrayRelease, Tracked, PassInv,
     ServingHoldsVolume
<1>. QED  BY <1>1, <1>2, <1>3, <1>4 DEF Safe

LEMMA ReadySafe ==
    ASSUME IInv, Ready
    PROVE  Safe'
<1>1. SiteInv'  BY DEF Ready, StepsReach, IInv, Safe, SiteInv, InFlight, Tracked
<1>2. StagedInv'  BY DEF Ready, StepsReach, IInv, Safe, StagedInv, Staged, InFlight
<1>3. WriterInv' /\ LeaseInv' /\ NoStrayRelease' /\ PassInv' /\ ServingHoldsVolume'
  BY DEF Ready, StepsReach, IInv, Safe, WriterInv, LeaseInv, MayRun, NoStrayRelease, Tracked, PassInv,
     ServingHoldsVolume
<1>. QED  BY <1>1, <1>2, <1>3 DEF Safe

LEMMA StepBreaksSafe ==
    ASSUME IInv, StepBreaks
    PROVE  Safe'
<1>1. SiteInv'  BY DEF StepBreaks, StepsReach, IInv, Safe, SiteInv, InFlight, Tracked
<1>2. StagedInv'  BY DEF StepBreaks, StepsReach, IInv, Safe, StagedInv, Staged, InFlight
<1>3. WriterInv' /\ LeaseInv' /\ NoStrayRelease' /\ PassInv' /\ ServingHoldsVolume'
  BY DEF StepBreaks, StepsReach, IInv, Safe, WriterInv, LeaseInv, MayRun, NoStrayRelease, Tracked,
     PassInv, ServingHoldsVolume
<1>. QED  BY <1>1, <1>2, <1>3 DEF Safe

LEMMA PassListsSafe ==
    ASSUME IInv, PassLists
    PROVE  Safe'
<1>1. PassInv'
  BY VolumeLeasesAssumption DEF PassLists, NoPass, InFlight, IInv, Safe, PassInv, Workspace
<1>2. StagedInv'  BY DEF PassLists, InFlight, IInv, Safe, StagedInv, Staged, Stage, SiteInv
<1>3. WriterInv' /\ LeaseInv' /\ SiteInv' /\ NoStrayRelease' /\ ServingHoldsVolume'
  BY DEF PassLists, NoPass, InFlight, IInv, Safe, WriterInv, LeaseInv, MayRun, SiteInv, Tracked,
     NoStrayRelease, ServingHoldsVolume
<1>. QED  BY <1>1, <1>2, <1>3 DEF Safe

LEMMA DrainEndsSafe ==
    ASSUME IInv, DrainEnds
    PROVE  Safe'
<1>1. WriterInv'  BY DEF DrainEnds, EndReleases, InFlight, IInv, Safe, WriterInv
<1>2. LeaseInv'  BY DEF DrainEnds, EndReleases, InFlight, IInv, Safe, LeaseInv, MayRun
<1>3. SiteInv'
  BY VolumeLeasesAssumption DEF DrainEnds, EndReleases, InFlight, IInv, Safe, SiteInv, Tracked,
     Workspace
<1>4. NoStrayRelease'  BY DEF DrainEnds, EndReleases, InFlight, IInv, Safe, NoStrayRelease, Tracked
<1>5. PassInv'  BY DEF DrainEnds, EndReleases, InFlight, IInv, Safe, PassInv
<1>6. StagedInv'  BY DEF DrainEnds, EndReleases, InFlight, IInv, Safe, StagedInv, Staged
<1>7. ServingHoldsVolume'  BY DEF DrainEnds, EndReleases, InFlight, IInv, Safe, ServingHoldsVolume
<1>. QED  BY <1>1, <1>2, <1>3, <1>4, <1>5, <1>6, <1>7 DEF Safe

LEMMA HandsOverSafe ==
    ASSUME IInv, HandsOver
    PROVE  Safe'
<1>1. WriterInv'
  BY VolumeLeasesAssumption DEF HandsOver, TakeLease, Overtakes, MayRun, IInv, Safe, WriterInv,
     TypeOK, Workspace
<1>2. LeaseInv'
  BY DEF HandsOver, Advances, Alive, TakeLease, SiteTurn, Lost, Overtakes, MayRun, IInv, Safe,
     LeaseInv
<1>3. SiteInv'
  BY DEF HandsOver, Advances, Alive, TakeLease, SiteTurn, Lost, Overtakes, MayRun, IInv, Safe,
     SiteInv, InFlight, Tracked
<1>4. PassInv'
  BY DEF HandsOver, Advances, Alive, TakeLease, SiteTurn, Lost, Overtakes, MayRun, IInv, Safe, PassInv
<1>5. StagedInv'
  BY DEF HandsOver, Advances, Alive, TakeLease, SiteTurn, Lost, Overtakes, MayRun, IInv, Safe,
     StagedInv, Staged, InFlight
<1>6. ServingHoldsVolume'
  BY DEF HandsOver, Advances, Alive, TakeLease, SiteTurn, Lost, Overtakes, MayRun, IInv, Safe,
     ServingHoldsVolume
<1>7. NoStrayRelease'
  BY DEF HandsOver, Advances, Alive, TakeLease, SiteTurn, Lost, Overtakes, MayRun, IInv, Safe,
     NoStrayRelease, Tracked
<1>. QED  BY <1>1, <1>2, <1>3, <1>4, <1>5, <1>6, <1>7 DEF Safe

LEMMA FlipsSafe ==
    ASSUME IInv, Flips
    PROVE  Safe'
<1>1. WriterInv'
  BY DEF Flips, Alive, Advances, EndReleases, NoDeploy, SiteTurn, Lost, InFlight, IInv, Safe,
     WriterInv
<1>2. LeaseInv'
  BY DEF Flips, Alive, Advances, EndReleases, NoDeploy, SiteTurn, Lost, InFlight, IInv, Safe,
     LeaseInv, MayRun
<1>3. SiteInv'
  BY VolumeLeasesAssumption DEF Flips, EndReleases, NoDeploy, InFlight, IInv, Safe, SiteInv, Tracked,
     TypeOK, Workspace, Stage, Site
<1>4. NoStrayRelease'
  BY VolumeLeasesAssumption DEF Flips, Alive, Advances, EndReleases, SiteTurn, IInv, Safe,
     NoStrayRelease, Tracked, Workspace, PassInv
<1>5. PassInv'
  BY DEF Flips, Alive, Advances, EndReleases, NoDeploy, SiteTurn, Lost, InFlight, IInv, Safe, PassInv
<1>6. StagedInv'
  BY VolumeLeasesAssumption DEF Flips, Alive, Advances, EndReleases, NoDeploy, SiteTurn, Lost,
     InFlight, IInv, Safe, StagedInv, Staged, Workspace
<1>7. ServingHoldsVolume'
  BY DEF Flips, Alive, Advances, EndReleases, NoDeploy, SiteTurn, Lost, InFlight, IInv, Safe,
     ServingHoldsVolume
<1>. QED  BY <1>1, <1>2, <1>3, <1>4, <1>5, <1>6, <1>7 DEF Safe

LEMMA WaitsSafe ==
    ASSUME IInv, Waits
    PROVE  Safe'
<1>1. PassInv'  BY DEF Waits, SiteTurn, IInv, Safe, PassInv
<1>2. StagedInv'  BY DEF Waits, SiteTurn, IInv, Safe, StagedInv, Staged, InFlight
<1>3. WriterInv' /\ LeaseInv' /\ SiteInv' /\ NoStrayRelease' /\ ServingHoldsVolume'
  BY DEF Waits, SiteTurn, IInv, Safe, WriterInv, LeaseInv, MayRun, SiteInv, InFlight, Tracked,
     NoStrayRelease, ServingHoldsVolume
<1>. QED  BY <1>1, <1>2, <1>3 DEF Safe

LEMMA NothingServedSafe ==
    ASSUME IInv, NothingServed
    PROVE  Safe'
<1>1. PassInv'  BY DEF NothingServed, SiteTurn, IInv, Safe, PassInv
<1>2. StagedInv'  BY DEF NothingServed, SiteTurn, IInv, Safe, StagedInv, Staged, InFlight
<1>3. WriterInv' /\ LeaseInv' /\ SiteInv' /\ NoStrayRelease' /\ ServingHoldsVolume'
  BY DEF NothingServed, SiteTurn, IInv, Safe, WriterInv, LeaseInv, MayRun, SiteInv, InFlight, Tracked,
     NoStrayRelease, ServingHoldsVolume
<1>. QED  BY <1>1, <1>2, <1>3 DEF Safe

LEMMA CrashSafe ==
    ASSUME IInv, Crash
    PROVE  Safe'
<1>1. WriterInv'  BY DEF Crash, IInv, Safe, WriterInv, TypeOK, Workspace
<1>2. LeaseInv'  BY DEF Crash, InFlight, NoPass, IInv, Safe, LeaseInv, MayRun
<1>3. SiteInv'
  BY DEF Crash, InFlight, IInv, Safe, SiteInv, Tracked, TypeOK, Workspace, Stage, Site, Deploy
<1>4. NoStrayRelease'  BY DEF Crash, IInv, Safe, NoStrayRelease, Tracked, TypeOK, Workspace, SiteInv
<1>5. PassInv'  BY DEF Crash, InFlight, NoPass, IInv, Safe, PassInv
<1>6. StagedInv'  BY DEF Crash, InFlight, NoPass, IInv, Safe, StagedInv, Staged, TypeOK, Workspace
<1>7. ServingHoldsVolume'
  BY DEF Crash, IInv, Safe, ServingHoldsVolume, TypeOK, Workspace, Site, SiteInv
<1>. QED  BY <1>1, <1>2, <1>3, <1>4, <1>5, <1>6, <1>7 DEF Safe

LEMMA HandsOffSafe ==
    ASSUME IInv, NEW ok \in BOOLEAN, HandsOff(ok)
    PROVE  Safe'
<1>1. WriterInv'
  BY DEF HandsOff, Advances, AsksHandoff, Outcome, StopReleases, StopNothing, SiteTurn, Lost, Alive,
     InFlight, IInv, Safe, WriterInv
<1>2. LeaseInv'
  BY DEF HandsOff, Advances, AsksHandoff, Outcome, StopReleases, StopNothing, SiteTurn, Lost, Alive,
     InFlight, IInv, Safe, LeaseInv, MayRun
<1>3. SiteInv'
  BY DEF HandsOff, StopReleases, StopNothing, InFlight, IInv, Safe, SiteInv, Tracked, TypeOK, Site,
     Deploy
<1>4. NoStrayRelease'
  BY DEF HandsOff, StopReleases, StopNothing, IInv, Safe, NoStrayRelease, Tracked, TypeOK, Site,
     Deploy
<1>5. PassInv'
  BY DEF HandsOff, Advances, AsksHandoff, Outcome, StopReleases, StopNothing, SiteTurn, Lost, Alive,
     InFlight, IInv, Safe, PassInv
<1>6. StagedInv'
  BY DEF HandsOff, Advances, SiteTurn, InFlight, IInv, Safe, StagedInv, Staged, TypeOK, Site, Deploy
<1>7. ServingHoldsVolume'
  BY DEF HandsOff, Advances, AsksHandoff, Outcome, StopReleases, StopNothing, SiteTurn, Lost, Alive,
     InFlight, IInv, Safe, ServingHoldsVolume
<1>. QED  BY <1>1, <1>2, <1>3, <1>4, <1>5, <1>6, <1>7 DEF Safe

LEMMA SweepReadsSafe ==
    ASSUME IInv, SweepReads, UNCHANGED siteVars
    PROVE  Safe'
<1>1. LeaseInv'
  BY VolumeLeasesAssumption DEF SweepReads, AliveNow, InFlight, IInv, Safe, LeaseInv, MayRun,
     Workspace
<1>2. PassInv'  BY DEF SweepReads, AliveNow, IInv, Safe, PassInv, SiteInv
<1>3. StagedInv'  BY DEF SweepReads, AliveNow, InFlight, IInv, Safe, StagedInv, Staged, SiteInv, PassInv
<1>4. WriterInv' /\ SiteInv' /\ NoStrayRelease' /\ ServingHoldsVolume'
  BY DEF SweepReads, AliveNow, InFlight, IInv, Safe, WriterInv, SiteInv, Tracked, NoStrayRelease,
     ServingHoldsVolume
<1>. QED  BY <1>1, <1>2, <1>3, <1>4 DEF Safe

LEMMA SweepReleasesSafe ==
    ASSUME IInv, SweepReleases, UNCHANGED siteVars
    PROVE  Safe'
<1>1. WriterInv'  BY DEF SweepReleases, Alive, Overtakes, Unstage, NoPass, MayRun, IInv, Safe, WriterInv
<1>2. LeaseInv'  BY DEF SweepReleases, Alive, Overtakes, Unstage, NoPass, MayRun, IInv, Safe, LeaseInv
<1>3. SiteInv'
  BY VolumeLeasesAssumption DEF SweepReleases, Alive, Overtakes, Unstage, NoPass, MayRun, IInv, Safe,
     SiteInv, InFlight, Tracked, Workspace
<1>4. PassInv'  BY DEF SweepReleases, Alive, Overtakes, Unstage, NoPass, MayRun, IInv, Safe, PassInv
<1>5. StagedInv'
  BY VolumeLeasesAssumption DEF SweepReleases, Alive, Unstage, NoPass, IInv, Safe, StagedInv, Staged,
     InFlight, TypeOK, Workspace
<1>6. ServingHoldsVolume'
  BY DEF SweepReleases, Alive, Overtakes, Unstage, NoPass, MayRun, IInv, Safe, ServingHoldsVolume
<1>7. NoStrayRelease'
  BY DEF SweepReleases, Alive, Overtakes, Unstage, NoPass, MayRun, IInv, Safe, NoStrayRelease, Tracked
<1>. QED  BY <1>1, <1>2, <1>3, <1>4, <1>5, <1>6, <1>7 DEF Safe
--------------------------------------------------------------------------------
(***************************************************************************)
(* Every step keeps the invariant, so every state has it.                  *)
(***************************************************************************)
LEMMA StepIsSafe == IInv /\ Next => Safe'
<1>. SUFFICES ASSUME IInv, Next PROVE Safe'  OBVIOUS
<1>1. ASSUME NEW d \in Dev, DevActs(d), UNCHANGED siteVars PROVE Safe'
  BY <1>1, DevAsksSafe, DevClearsSafe, DevClaimsSafe, DevJudgesSafe, DevTakesOverSafe, DevLaunchesSafe,
     DevFailsSafe, DevStopsSafe
  DEF DevActs
<1>2. ASSUME NEW w \in Workspace, Runtime(w), writing' = {r \in writing : unit'[r]},
             UNCHANGED <<site, steps, stopping, failing, slipped>>
      PROVE  Safe'
  BY <1>2, TearsDownSafe, ReaperResumesSafe, DiesSafe DEF Runtime
<1>3. ASSUME NEW r \in Release, CreateActs(r) \/ Dismiss(r) \/ Collected(r) PROVE Safe'
  BY <1>3, CreateStagesSafe, CreateSettlesSafe, CreateFailsSafe, RunFailedSafe, DismissSafe, CollectedSafe
  DEF CreateActs
<1>4. ASSUME StepActs PROVE Safe'
  BY <1>4, BuiltSafe, UsesVolumeSafe, ReadySafe, StepBreaksSafe DEF StepActs
<1>5. ASSUME PassActs PROVE Safe'
  BY <1>5, PassListsSafe, DrainEndsSafe, AdvanceFailsSafe, HandsOffSafe, HandsOverSafe, FlipsSafe,
     WaitsSafe,
     ReplacesSafe, FollowsSafe, NothingServedSafe, SweepReadsSafe, SweepReleasesSafe
  DEF PassActs, SiteActs, Keeps
<1>6. ASSUME UserDeploys \/ UserStarts \/ (\E ok \in BOOLEAN : UserStops(ok)) PROVE Safe'
  BY <1>6, UserDeploysSafe, UserStartsSafe, UserStopsSafe
<1>. QED  BY <1>1, <1>2, <1>3, <1>4, <1>5, <1>6, CrashSafe DEF Next, Keeps

LEMMA InitIsSafe == Init => IInv
<1>. SUFFICES ASSUME Init PROVE IInv  OBVIOUS
<1>1. /\ site \in Site /\ site.deploy = NoDeploy /\ site.deploy.id = None
      /\ site.live = None /\ site.drain = None
  <2>1. NoDeploy \in Deploy /\ NoDeploy.id = None  BY DEF NoDeploy, Deploy
  <2>. QED  BY <2>1 DEF Init, Site
<1>2. NoPass \in Pass  BY DEF NoPass, Pass
<1>3. TypeOK  BY <1>1, <1>2 DEF Init, TypeOK, Stage
<1>4. WriterInv /\ LeaseInv /\ NoStrayRelease /\ ServingHoldsVolume
  BY <1>1 DEF Init, WriterInv, LeaseInv, NoStrayRelease, ServingHoldsVolume, Workspace
<1>5. SiteInv  BY <1>1, VolumeLeasesAssumption DEF Init, SiteInv, InFlight, Stage, Workspace
<1>6. PassInv  BY DEF Init, PassInv, Workspace
<1>7. StagedInv  BY <1>1, VolumeLeasesAssumption DEF StagedInv, Workspace
<1>. QED  BY <1>3, <1>4, <1>5, <1>6, <1>7 DEF IInv, Safe

LEMMA Stutters == IInv /\ UNCHANGED vars => IInv'
<1>. SUFFICES ASSUME IInv, UNCHANGED vars PROVE IInv'  OBVIOUS
<1>1. TypeOK'  BY DEF IInv, TypeOK
<1>2. WriterInv' /\ LeaseInv' /\ SiteInv'
  BY DEF IInv, Safe, WriterInv, LeaseInv, MayRun, SiteInv, InFlight, Tracked
<1>3. NoStrayRelease' /\ ServingHoldsVolume'  BY DEF IInv, Safe, NoStrayRelease, Tracked, ServingHoldsVolume
<1>4. PassInv' /\ StagedInv'  BY DEF IInv, Safe, PassInv, StagedInv, Staged, InFlight
<1>. QED  BY <1>1, <1>2, <1>3, <1>4 DEF IInv, Safe

LEMMA IInvHolds == Spec => []IInv
<1>1. IInv /\ Next => IInv'  BY StepIsTyped, StepIsSafe DEF IInv
<1>. QED  BY <1>1, InitIsSafe, Stutters, PTL DEF Spec

\* Every state of the lease, the runtime, the site, its creates and passes is
\* well typed, and a site with no deploy has none of its columns.
THEOREM TypeCorrect == Spec => []TypeOK
<1>1. IInv => TypeOK  BY DEF IInv
<1>. QED  BY <1>1, IInvHolds, PTL

\* Two workspaces never write to the volume at once, but for one whose lease a
\* pass ended while it ran: claimVolume, handOverVolume and releaseVolume over
\* one another, at any point of the launches, restarts and teardowns.
THEOREM OneWriterCorrect == Spec => []OneWriter
<1>1. ASSUME IInv PROVE OneWriter
  <2> DEFINE writers == {w \in Workspace : Writes(w)} \ overtaken
  <2>1. writers \subseteq {holder}  BY <1>1 DEF IInv, Safe, WriterInv, Writes
  <2>2. writers = {} \/ writers = {holder}  BY <2>1
  <2>3. Cardinality(writers) \in {0, 1}  BY <2>2, FS_EmptySet, FS_Singleton
  <2>. QED  BY <2>3 DEF OneWriter
<1>. QED  BY <1>1, IInvHolds, PTL

\* No deploy that fails, is stopped or is replaced leaves a release running
\* that nothing will stop, except where its stop was lost: failDeploy,
\* endReleases, and creates that end after their deploy did.
THEOREM NoStrayReleaseCorrect == Spec => []NoStrayRelease
<1>1. IInv => NoStrayRelease  BY DEF IInv, Safe
<1>. QED  BY <1>1, IInvHolds, PTL

\* A release that serves the hostname of a site with a volume holds it.
THEOREM ServingHoldsVolumeCorrect == Spec => []ServingHoldsVolume
<1>1. IInv => ServingHoldsVolume  BY DEF IInv, Safe
<1>. QED  BY <1>1, IInvHolds, PTL

LEMMA FewLosesALease ==
    ASSUME TypeOK, Next, ~(overtaken' \subseteq overtaken)
    PROVE  \/ \E d \in Dev : DevClaims(d) \/ DevTakesOver(d)
           \/ HandsOver
           \/ SweepReleases
<1>1. ASSUME NEW d \in Dev, DevActs(d), ~DevClaims(d), ~DevTakesOver(d) PROVE overtaken' \subseteq overtaken
  BY <1>1 DEF DevActs, DevAsks, DevClears, DevJudges, DevLaunches, DevFails, DevStops, UnitGoes
<1>2. ASSUME NEW w \in Workspace, Runtime(w) PROVE overtaken' \subseteq overtaken
  BY <1>2 DEF Runtime, TearsDown, ReaperResumes, Dies, UnitGoes
<1>3. ASSUME NEW r \in Release, CreateActs(r) \/ Dismiss(r) \/ Collected(r) PROVE overtaken' \subseteq overtaken
  BY <1>3 DEF CreateActs, CreateStages, CreateSettles, CreateFails, RunFailed, Dismiss, Collected
<1>4. ASSUME StepActs PROVE overtaken' \subseteq overtaken
  BY <1>4 DEF StepActs, Built, UsesVolume, Ready, StepBreaks, StepsReach
<1>5. ASSUME PassActs, ~HandsOver, ~SweepReleases PROVE overtaken' \subseteq overtaken
  BY <1>5 DEF PassActs, SiteActs, Keeps, PassLists, DrainEnds, AdvanceFails, HandsOff, Flips, Waits,
     Replaces,
     Follows, NothingServed, SweepReads
<1>6. ASSUME UserDeploys \/ UserStarts \/ (\E ok \in BOOLEAN : UserStops(ok)) PROVE overtaken' \subseteq overtaken
  BY <1>6 DEF UserDeploys, UserStarts, UserStops
<1>7. ASSUME Crash PROVE overtaken' \subseteq overtaken  BY <1>7 DEF Crash
<1>. QED  BY <1>1, <1>2, <1>3, <1>4, <1>5, <1>6, <1>7 DEF Next, Keeps

\* The lease leaves only a dev workspace that the pass which ends it had not
\* found alive: attachVolume's judgement of an old holder never takes it from
\* one that may run, and handOverVolume and releaseVolume never from a release.
THEOREM LeaseLeavesOnlyTheGoneCorrect == Spec => LeaseLeavesOnlyTheGone
<1> DEFINE Leaves == \A w \in overtaken' \ overtaken :
                        w \in Dev \ pass.alive /\ (pass.step = "judged" => Sweep \in reads)
<1>1. ASSUME IInv, Next, NEW w \in overtaken' \ overtaken
      PROVE  w \in Dev \ pass.alive /\ (pass.step = "judged" => Sweep \in reads)
  <2>0. TypeOK  BY <1>1 DEF IInv
  <2>1. ASSUME NEW d \in Dev, DevClaims(d) PROVE FALSE
    BY <1>1, <2>1 DEF DevClaims, TakeLease, Overtakes
  <2>2. ASSUME NEW d \in Dev, DevTakesOver(d) PROVE FALSE
    <3>1. d \in reads => ~MayRun(holder)  BY <1>1, <2>2 DEF DevTakesOver, IInv, Safe, LeaseInv
    <3>. QED  BY <1>1, <2>2, <3>1 DEF DevTakesOver, TakeLease, Overtakes
  <2>3. ASSUME holder \in Release, MayRun(holder), holder \notin tearing
        PROVE  unit[holder] /\ life[holder] = "idle"
    BY <1>1, <2>3 DEF IInv, Safe, SiteInv, MayRun
  <2>4. CASE HandsOver
    <3>1. w = holder /\ MayRun(holder) /\ holder # None /\ holder \notin Alive
          /\ pass.step \in {"sites", "site"}
      BY <1>1, <2>4 DEF HandsOver, TakeLease, Overtakes, Advances, SiteTurn
    <3>2. holder \notin pass.alive /\ holder \notin tearing  BY <3>1 DEF Alive
    <3>3. holder \notin Release  BY <1>1, <2>3, <3>1, <3>2 DEF IInv, Safe, PassInv
    <3>. QED  BY <2>0, <3>1, <3>2, <3>3 DEF TypeOK, Workspace
  <2>5. CASE SweepReleases
    <3>1. w = holder /\ MayRun(holder) /\ holder # None /\ holder \notin Alive
          /\ pass.step = "judged" /\ Sweep \in reads
      BY <1>1, <2>5 DEF SweepReleases, Overtakes
    <3>2. holder \notin pass.alive /\ holder \notin tearing  BY <3>1 DEF Alive
    <3>3. holder \notin Release  BY <1>1, <2>3, <3>1, <3>2 DEF IInv, Safe, PassInv
    <3>. QED  BY <2>0, <3>1, <3>2, <3>3 DEF TypeOK, Workspace
  <2>. QED  BY <1>1, <2>0, <2>1, <2>2, <2>4, <2>5, FewLosesALease
<1>2. IInv /\ [Next]_vars => [Leaves]_vars  BY <1>1
<1>. QED  BY <1>2, IInvHolds, PTL DEF Spec, LeaseLeavesOnlyTheGone

LEMMA OnlyASiteTurnTurns ==
    ASSUME TypeOK, Next, pass.step \in {"site", "sites"}, pass'.step = "held"
    PROVE  SiteActs
<1>1. \A w \in Workspace : Settled(w).step = pass.step  BY DEF TypeOK, Settled, Pass
<1>2. ASSUME NEW d \in Dev, DevActs(d) PROVE FALSE
  BY <1>1, <1>2 DEF DevActs, DevAsks, DevClears, DevClaims, DevJudges, DevTakesOver, DevLaunches, DevFails,
     DevStops, Workspace
<1>3. ASSUME NEW w \in Workspace, Runtime(w) PROVE FALSE
  BY <1>3 DEF Runtime, TearsDown, ReaperResumes, Dies
<1>4. ASSUME NEW r \in Release, CreateActs(r) \/ Dismiss(r) \/ Collected(r) PROVE FALSE
  BY <1>1, <1>4 DEF CreateActs, CreateStages, CreateSettles, CreateFails, Drops, RunFailed, Dismiss,
     Collected,
     Workspace
<1>5. ASSUME StepActs PROVE FALSE
  BY <1>5 DEF StepActs, Built, UsesVolume, Ready, StepBreaks, StepsReach
<1>6. ASSUME PassLists \/ DrainEnds \/ SweepReads \/ SweepReleases PROVE FALSE
  BY <1>6 DEF PassLists, DrainEnds, SweepReads, SweepReleases, TypeOK, Pass
<1>7. ASSUME UserDeploys \/ UserStarts \/ (\E ok \in BOOLEAN : UserStops(ok)) PROVE FALSE
  BY <1>7 DEF UserDeploys, UserStarts, UserStops
<1>8. ASSUME Crash PROVE FALSE  BY <1>8 DEF Crash, NoPass
<1>. QED  BY <1>2, <1>3, <1>4, <1>5, <1>6, <1>7, <1>8 DEF Next, Keeps, PassActs

\* A pass stops the serving release only to hand its volume to the release of
\* a deploy that is built and staged for it: advanceDeploy asks for the
\* handoff last, and no deploy that fails takes the live release with it.
THEOREM StoppedOnlyToHandOverCorrect == Spec => StoppedOnlyToHandOver
<1> DEFINE Stops == pass.step \in {"site", "sites"} /\ pass'.step = "held" /\ site.live # None
                       /\ site'.live = site.live /\ site.live \in stopped' \ stopped
                       => site.volume /\ site.live = holder /\ site.deploy.id = next /\ steps = "built"
<1>1. ASSUME IInv, Next, pass.step \in {"site", "sites"}, pass'.step = "held", site.live # None,
             site'.live = site.live, site.live \in stopped' \ stopped
      PROVE  site.volume /\ site.live = holder /\ site.deploy.id = next /\ steps = "built"
  <2>1. TypeOK /\ SiteActs /\ site.live \in Release /\ site.live # site.deploy.id
    <3>1. TypeOK  BY <1>1 DEF IInv
    <3>2. SiteActs  BY <1>1, <3>1, OnlyASiteTurnTurns
    <3>3. site.live \in Release  BY <1>1, <3>1 DEF TypeOK, Site
    <3>. QED  BY <1>1, <3>1, <3>2, <3>3 DEF IInv, Safe, SiteInv
  <2>2. ASSUME NEW ok \in BOOLEAN, AdvanceFails(ok) PROVE FALSE
    BY <1>1, <2>1, <2>2 DEF AdvanceFails, FailDeploy, EndReleases, StopNothing
  <2>3. ASSUME NEW ok \in BOOLEAN, HandsOff(ok)
        PROVE  site.volume /\ site.live = holder /\ site.deploy.id = next /\ steps = "built"
    <3>1. site.live = holder /\ steps = "built" /\ site.deploy.id # None
      BY <1>1, <2>3 DEF HandsOff, Advances, AsksHandoff, StopReleases, StopNothing
    <3>2. site.deploy.id \in Release  BY <2>1, <3>1 DEF TypeOK, Site, Deploy
    <3>3. site.volume  BY <1>1, <3>1 DEF IInv, Safe, SiteInv
    <3>4. site.deploy.id \in pass.alive
      <4>1. site.deploy.id \notin stopped /\ site.deploy.id \in Alive  BY <2>3 DEF HandsOff, Advances, Lost
      <4>2. site.deploy.id \notin tearing  BY <1>1, <3>2, <4>1 DEF IInv, Safe, SiteInv, Tracked
      <4>. QED  BY <4>1, <4>2 DEF Alive
    <3>5. next = site.deploy.id
      BY <1>1, <2>1, <3>1, <3>2, <3>3, <3>4 DEF IInv, Safe, StagedInv, Staged
    <3>. QED  BY <3>1, <3>3, <3>5
  <2>4. ASSUME Flips PROVE FALSE
    <3>1. site'.live = site.deploy.id  BY <2>1, <2>4 DEF Flips, TypeOK, Site
    <3>. QED  BY <1>1, <2>1, <3>1
  <2>5. ASSUME HandsOver \/ Waits \/ Replaces \/ Follows \/ NothingServed PROVE FALSE
    BY <1>1, <2>5 DEF HandsOver, Waits, Replaces, Follows, NothingServed
  <2>. QED  BY <2>1, <2>2, <2>3, <2>4, <2>5 DEF SiteActs
<1>2. IInv /\ [Next]_vars => [Stops]_vars  BY <1>1
<1>. QED  BY <1>2, IInvHolds, PTL DEF Spec, StoppedOnlyToHandOver
================================================================================
