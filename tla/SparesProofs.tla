----------------------------- MODULE SparesProofs -----------------------------
(***************************************************************************)
(* Proofs about the spare pool, for any number of spares, creates, images  *)
(* and faults, and for any pool size: every property of Spares holds.      *)
(*                                                                         *)
(* The inductive invariant follows one spare through its life. BornInv     *)
(* says what a spare not warmed yet cannot have, ApartInv that a reap, a   *)
(* claim and a refresh never share one, ClaimInv how a claim holds its     *)
(* spare, WholeInv where a checkout may be half-moved, ReapInv what a reap *)
(* still knows of the row it read, and FilesInv who answers for files.     *)
(***************************************************************************)
EXTENDS Spares, TLAPS

\* What has no unit, no row, no files, no claim and no reap.
BornInv ==
    \A s \in Spare :
        /\ warm[s] = "unborn" => s \notin pass.spares \cup pass.strays
        /\ warm[s] \in {"unborn", "preparing"} =>
              pod[s] = "none" /\ s \notin job \cup files /\ settings[s] = None
        /\ warm[s] # "settled" => /\ row[s] = "none" /\ s \notin torn \cup claiming
                                  /\ refresh[s] = "idle" /\ reap[s].stage = "idle"

\* A reap, a claim and a refresh keep out of each other's spares.
ApartInv ==
    \A s \in Spare :
        /\ reap[s].stage # "idle" => settings[s] = None /\ s \notin claiming
        /\ refresh[s] # "idle" => s \notin claiming

\* A claim's spare is its own, and one that was given away is not in the pool.
ClaimInv ==
    /\ \A c \in Create :
          /\ claim[c].spare # None <=> claim[c].stage \in Holding \cup {"won"}
          /\ claim[c].stage \in Holding => claim[c].spare \in claiming
          /\ claim[c].stage = "won" => warm[claim[c].spare] = "settled"
          /\ claim[c].stage \in {"opening", "won"} => settings[claim[c].spare] = None
    /\ OneCreatePerSpare

\* A checkout is between two commits only while it is moved, and after that
\* only in the hands of what will reap it.
WholeInv ==
    /\ \A c \in Create :
          /\ claim[c].stage \in {"moving", "unmarkPod", "unmarkJob"} => claim[c].mutated
          /\ claim[c].stage \in Holding /\ claim[c].spare \in torn =>
                claim[c].stage = "moving" \/ (claim[c].stage = "undo" /\ claim[c].mutated)
    /\ PoolIsWhole

\* What a reap has read of the row stays true, and only a restart brings back
\* the unit it has taken down or found gone.
ReapInv ==
    \A s \in Spare :
        /\ reap[s].stage = "find" => reap[s].hasRow
        /\ reap[s].stage = "files" => ~reap[s].hasRow
        /\ reap[s].stage \in {"cleanup", "files"} /\ ~reap[s].hasRow => row[s] = "none"
        /\ reap[s].stage \in {"find", "cleanup"} /\ reap[s].hasRow => row[s] # "none"
        /\ reap[s].stage = "record" /\ s \in files => row[s] # "none"
        /\ reap[s].stage \in {"files", "record"} /\ pod[s] # "none" => s \in relaunched
        /\ reap[s].stage = "cleanup" /\ ~reap[s].claimFailed /\ s \in ListedUsers /\ row[s] # "none"
              => s \in relaunched
        /\ reap[s].stage # "idle" /\ reap[s].claimFailed =>
              \A c \in Create : claim[c].stage = "won" => claim[c].spare # s

\* From its commit point a claim has a row; the marks go late, the pod's first.
RowInv ==
    \A c \in Create :
        LET s == claim[c].spare
            spoilt == claim[c].stage = "undo" /\ claim[c].mutated
        IN  /\ claim[c].stage = "won" => row[s] # "none"
            /\ claim[c].stage = "checking" => row[s] = "none"
            /\ claim[c].stage \in Holding \ {"checking"} => row[s] = "live"
            /\ claim[c].stage \in Holding =>
                  /\ s \in job
                  /\ s \notin jobMark \/ claim[c].stage \in {"unmarkJob", "opening"} => s \notin podMark
                  /\ s \notin jobMark \/ (pod[s] # "none" /\ s \notin podMark) =>
                        claim[c].stage \in {"unmarkJob", "opening"} \/ spoilt

\* Files answer to a row, a marked Job, a warm, or the reap of a failed claim.
FilesInv ==
    \A s \in Spare :
        /\ s \in files /\ row[s] = "none" =>
              \/ s \in Spawning \cup stranded
              \/ s \in jobMark /\ (pod[s] # "none" => s \in podMark)
              \/ reap[s].stage # "idle" /\ reap[s].claimFailed /\ s \in job \ podMark
        /\ warm[s] = "launching" =>
              /\ s \in job => s \in jobMark
              /\ pod[s] # "none" => s \in job \cap podMark
        /\ Free(s) => /\ s \in job \cap jobMark /\ row[s] = "none"
                      /\ pod[s] # "none" => s \in podMark

Safe == BornInv /\ ApartInv /\ ClaimInv /\ WholeInv /\ ReapInv /\ RowInv /\ FilesInv
IInv == TypeOK /\ Safe

\* What an action leaves alone is often given as one of these tuples.
USE DEF cluster, store, project, memory, env
-----------------------------------------------------------------------------
(***************************************************************************)
(* Types.                                                                  *)
(***************************************************************************)
LEMMA ValuesTyped ==
    /\ NoReap \in Reap /\ NoPass \in Pass /\ NoClaim \in Claim /\ Cold \in Claim
    /\ \A left \in SUBSET Spare : Search(left) \in Claim
    /\ \A S \in SUBSET Spare : ToRefresh(S) \in Pass
<1>1. NoReap \in Reap /\ NoClaim \in Claim /\ Cold \in Claim
  BY DEF NoReap, Reap, NoClaim, Cold, Claim
<1>2. NoPass \in Pass  BY SparesAssumption DEF NoPass, Pass, Image
<1>3. \A left \in SUBSET Spare : Search(left) \in Claim  BY <1>1 DEF Search, NoClaim, Claim
<1>4. \A S \in SUBSET Spare : ToRefresh(S) \in Pass
  BY <1>2, SparesAssumption DEF ToRefresh, NoPass, Pass, Image
<1>. QED  BY <1>1, <1>2, <1>3, <1>4

LEMMA ClaimMovesTyped ==
    ASSUME NEW k \in Claim
    PROVE  /\ \A stage \in Holding : [k EXCEPT !.stage = stage] \in Claim
           /\ [k EXCEPT !.stage = "prepare", !.left = {}] \in Claim
           /\ [k EXCEPT !.stage = "moving", !.mutated = TRUE] \in Claim
           /\ [k EXCEPT !.stage = "unmarkPod", !.mutated = TRUE] \in Claim
           /\ [k EXCEPT !.stage = "won", !.mutated = FALSE] \in Claim
           /\ \A s \in Spare :
                 [k EXCEPT !.stage = "checking", !.spare = s, !.left = k.left \ {s}] \in Claim
<1>1. \A stage \in Holding : [k EXCEPT !.stage = stage] \in Claim  BY DEF Claim, Holding
<1>2. [k EXCEPT !.stage = "prepare", !.left = {}] \in Claim  BY DEF Claim, Holding
<1>3. [k EXCEPT !.stage = "moving", !.mutated = TRUE] \in Claim  BY DEF Claim, Holding
<1>4. [k EXCEPT !.stage = "unmarkPod", !.mutated = TRUE] \in Claim  BY DEF Claim, Holding
<1>5. [k EXCEPT !.stage = "won", !.mutated = FALSE] \in Claim  BY DEF Claim, Holding
<1>6. \A s \in Spare : [k EXCEPT !.stage = "checking", !.spare = s, !.left = k.left \ {s}] \in Claim
  BY DEF Claim, Holding
<1>. QED  BY <1>1, <1>2, <1>3, <1>4, <1>5, <1>6

LEMMA ReapMovesTyped ==
    ASSUME NEW k \in Reap
    PROVE  /\ \A stage \in {"cleanup", "files", "record"} : [k EXCEPT !.stage = stage] \in Reap
           /\ [k EXCEPT !.hasRow = TRUE, !.stage = "find"] \in Reap
           /\ [k EXCEPT !.hasRow = TRUE, !.stage = "cleanup"] \in Reap
           /\ [k EXCEPT !.hasRow = FALSE, !.stage = "cleanup"] \in Reap
BY DEF Reap

LEMMA ReapedTyped ==
    ASSUME TypeOK, NEW S \in SUBSET Spare
    PROVE  /\ Reaped(reap, S, TRUE) \in [Spare -> Reap]
           /\ Reaped(reap, S, FALSE) \in [Spare -> Reap]
           /\ Forgotten(S) \in [Spare -> Image \cup {None}]
<1>1. \A failed \in BOOLEAN : [stage |-> "row", hasRow |-> FALSE, claimFailed |-> failed] \in Reap
  BY DEF Reap
<1>. QED  BY <1>1 DEF TypeOK, Reaped, Forgotten

LEMMA FieldsTyped ==
    /\ \A k \in Claim : k.left \in SUBSET Spare
    /\ \A p \in Pass : p.spares \in SUBSET Spare
BY DEF Claim, Pass

LEMMA FaultTyped == ASSUME TypeOK, NEW kind, Fault(kind) PROVE faults' \in Nat
BY DEF TypeOK, Fault

LEMMA StepIsTyped == TypeOK /\ Next => TypeOK'
<1>. SUFFICES ASSUME TypeOK, Next PROVE TypeOK'  OBVIOUS
<1>1. ASSUME NEW s \in Spare, ReapReadsRow(s) PROVE TypeOK'
  BY <1>1, ReapMovesTyped DEF ReapReadsRow, TypeOK
<1>2. ASSUME NEW s \in Spare, ReapFinds(s) PROVE TypeOK'
  <2>1. reap' \in [Spare -> Reap]
    <3>1. CASE s \in ListedUsers  BY <1>2, <3>1, ValuesTyped DEF ReapFinds, ReapEnds, TypeOK
    <3>2. CASE s \notin ListedUsers
      <4>1. [reap[s] EXCEPT !.stage = "cleanup"] \in Reap  BY ReapMovesTyped DEF TypeOK
      <4>2. reap' = [reap EXCEPT ![s].stage = "cleanup"]  BY <1>2, <3>2 DEF ReapFinds
      <4>. QED  BY <4>1, <4>2 DEF TypeOK
    <3>. QED  BY <3>1, <3>2
  <2>. QED  BY <1>2, <2>1 DEF ReapFinds, TypeOK
<1>3. ASSUME NEW s \in Spare, ReapCleansUp(s) PROVE TypeOK'
  BY <1>3, ReapMovesTyped DEF ReapCleansUp, TypeOK
<1>4. ASSUME NEW s \in Spare, ReapDeletesFiles(s) PROVE TypeOK'
  BY <1>4, ReapMovesTyped DEF ReapDeletesFiles, TypeOK
<1>5. ASSUME NEW s \in Spare, ReapDestroys(s) PROVE TypeOK'
  BY <1>5, ValuesTyped, ReapMovesTyped DEF ReapDestroys, ReapEnds, TypeOK
<1>6. ASSUME NEW s \in Spare, ReapFails(s) PROVE TypeOK'
  <2>1. reap' \in [Spare -> Reap]  BY <1>6, ValuesTyped DEF ReapFails, ReapEnds, TypeOK
  <2>2. faults' \in Nat  BY <1>6, FaultTyped DEF ReapFails
  <2>. QED  BY <1>6, <2>1, <2>2 DEF ReapFails, TypeOK
<1>7. ASSUME NEW s \in Spare, WarmPrepares(s) PROVE TypeOK'
  BY <1>7 DEF WarmPrepares, TypeOK
<1>8. ASSUME NEW s \in Spare, WarmLaunches(s) PROVE TypeOK'
  BY <1>8 DEF WarmLaunches, TypeOK
<1>9. ASSUME NEW s \in Spare, WarmSettles(s) PROVE TypeOK'
  BY <1>9 DEF WarmSettles, TypeOK
<1>10. ASSUME NEW s \in Spare, WarmFails(s) PROVE TypeOK'
  <2>1. settings' \in [Spare -> Image \cup {None}]  BY <1>10, ReapedTyped DEF WarmFails
  <2>2. faults' \in Nat  BY <1>10, FaultTyped DEF WarmFails
  <2>. QED  BY <1>10, <2>1, <2>2 DEF WarmFails, TypeOK
<1>11. ASSUME NEW s \in Spare, SweepReaps(s) PROVE TypeOK'
  BY <1>11, ReapedTyped DEF SweepReaps, MayReap, Spawning, Reaping, TypeOK
<1>12. ASSUME NEW s \in Spare, StartRefresh(s) PROVE TypeOK'
  <2>1. pass' \in Pass  BY <1>12, ValuesTyped, FieldsTyped DEF StartRefresh, TypeOK
  <2>. QED  BY <1>12, <2>1 DEF StartRefresh, TypeOK
<1>13. ASSUME NEW s \in Spare, RefreshReads(s) PROVE TypeOK'
  BY <1>13 DEF RefreshReads, TypeOK
<1>14. ASSUME NEW s \in Spare, RefreshMoves(s) PROVE TypeOK'
  BY <1>14 DEF RefreshMoves, TypeOK
<1>15. ASSUME NEW s \in Spare, RefreshFails(s) PROVE TypeOK'
  <2>1. reap' \in [Spare -> Reap] /\ settings' \in [Spare -> Image \cup {None}]
    <3>1. /\ Reaped(reap, {s}, FALSE) \in [Spare -> Reap]
          /\ Forgotten({s}) \in [Spare -> Image \cup {None}]
      <4>1. {s} \in SUBSET Spare  OBVIOUS
      <4>. QED  BY <4>1, ReapedTyped
    <3>. QED  BY <1>15, <3>1 DEF RefreshFails, TypeOK
  <2>2. faults' \in Nat  BY <1>15, FaultTyped DEF RefreshFails, TypeOK
  <2>. QED  BY <1>15, <2>1, <2>2 DEF RefreshFails, TypeOK
<1>16. ASSUME NEW s \in Spare, Evict(s) PROVE TypeOK'
  BY <1>16 DEF Evict, TypeOK, Fault
<1>17. ASSUME NEW s \in Spare, Hang(s) PROVE TypeOK'
  BY <1>17 DEF Hang, TypeOK, Fault
<1>18. ASSUME NEW s \in Spare, Stop(s) PROVE TypeOK'
  BY <1>18 DEF Stop, ListedUsers, TypeOK, Fault
<1>19. ASSUME NEW s \in Spare, Restart(s) PROVE TypeOK'
  BY <1>19 DEF Restart, TypeOK
<1>20. ASSUME NEW c \in Create, ListSpares(c) PROVE TypeOK'
  BY <1>20, ValuesTyped DEF ListSpares, ListedSpares, Free, Spawning, TypeOK
<1>21. ASSUME NEW c \in Create, KeepCheckout(c) PROVE TypeOK'
  BY <1>21, ClaimMovesTyped DEF KeepCheckout, TypeOK, Holding
<1>22. ASSUME NEW c \in Create, NEW s \in Spare, Reserve(c, s) PROVE TypeOK'
  <2>1. claim' \in [Create -> Claim]
    <3> DEFINE held == [claim[c] EXCEPT !.stage = "checking", !.spare = s, !.left = claim[c].left \ {s}]
    <3>1. held \in Claim  BY ClaimMovesTyped DEF TypeOK
    <3>2. claim' = [claim EXCEPT ![c] = held]  BY <1>22 DEF Reserve
    <3> HIDE DEF held
    <3>. QED  BY <3>1, <3>2 DEF TypeOK
  <2>. QED  BY <1>22, <2>1 DEF Reserve, TypeOK
<1>23. ASSUME NEW c \in Create, NEW s \in Spare, PassOver(c, s) PROVE TypeOK'
  <2>1. claim[c].left \in SUBSET Spare  BY FieldsTyped DEF TypeOK
  <2>2. claim' \in [Create -> Claim]  BY <1>23, <2>1, ValuesTyped DEF PassOver, TypeOK
  <2>. QED  BY <1>23, <2>2 DEF PassOver, TypeOK
<1>24. ASSUME NEW c \in Create, NEW s \in Spare, SpareIsStuck(c, s) PROVE TypeOK'
  <2>1. claim[c].left \in SUBSET Spare  BY FieldsTyped DEF TypeOK
  <2>2. claim' \in [Create -> Claim]  BY <1>24, <2>1, ValuesTyped DEF SpareIsStuck, TypeOK
  <2>. QED  BY <1>24, <2>2 DEF SpareIsStuck, TypeOK
<1>25. ASSUME NEW c \in Create, NEW s \in Spare, InsertRow(c, s) PROVE TypeOK'
  BY <1>25, ClaimMovesTyped DEF InsertRow, TypeOK, Holding
<1>26. ASSUME NEW c \in Create, NEW s \in Spare, TransportFails(c, s) PROVE TypeOK'
  BY <1>26, ValuesTyped DEF TransportFails, TypeOK
<1>27. ASSUME NEW c \in Create, NEW s \in Spare, BeginMove(c, s) PROVE TypeOK'
  BY <1>27, ClaimMovesTyped DEF BeginMove, TypeOK, Holding
<1>28. ASSUME NEW c \in Create, NEW s \in Spare, EndMove(c, s) PROVE TypeOK'
  BY <1>28, ClaimMovesTyped DEF EndMove, Goes, TypeOK, Holding
<1>29. ASSUME NEW c \in Create, NEW s \in Spare, UnmarkPod(c, s) PROVE TypeOK'
  BY <1>29, ClaimMovesTyped DEF UnmarkPod, ListedSpares, Goes, TypeOK, Holding
<1>30. ASSUME NEW c \in Create, NEW s \in Spare, UnmarkJob(c, s) PROVE TypeOK'
  BY <1>30, ClaimMovesTyped, ReapedTyped DEF UnmarkJob, Goes, TypeOK, Holding
<1>31. ASSUME NEW c \in Create, NEW s \in Spare, Opens(c, s) PROVE TypeOK'
  BY <1>31, ClaimMovesTyped DEF Opens, TypeOK, Holding
<1>32. ASSUME NEW c \in Create, NEW s \in Spare, ClaimFails(c, s) PROVE TypeOK'
  <2>1. claim' \in [Create -> Claim]  BY <1>32, ClaimMovesTyped DEF ClaimFails, Goes, TypeOK, Holding
  <2>2. faults' \in Nat  BY <1>32, FaultTyped DEF ClaimFails, TypeOK
  <2>. QED  BY <1>32, <2>1, <2>2 DEF ClaimFails, TypeOK
<1>33. ASSUME NEW c \in Create, NEW s \in Spare, Undo(c, s) PROVE TypeOK'
  <2>1. claim' \in [Create -> Claim]  BY <1>33, ValuesTyped DEF Undo, TypeOK
  <2>2. reap' \in [Spare -> Reap] /\ settings' \in [Spare -> Image \cup {None}]
    <3>1. /\ Reaped(reap, {s}, TRUE) \in [Spare -> Reap]
          /\ Forgotten({s}) \in [Spare -> Image \cup {None}]
      <4>1. {s} \in SUBSET Spare  OBVIOUS
      <4>. QED  BY <4>1, ReapedTyped
    <3>. QED  BY <1>33, <3>1 DEF Undo, TypeOK
  <2>3. faults' \in Nat  BY <1>33, FaultTyped DEF Undo, TypeOK
  <2>. QED  BY <1>33, <2>1, <2>2, <2>3 DEF Undo, TypeOK
<1>34. ASSUME TakeListing PROVE TypeOK'
  BY <1>34, ValuesTyped DEF TakeListing, ListedSpares, Strays, ListedUsers, TypeOK, Pass, NoPass
<1>35. ASSUME PlanReads PROVE TypeOK'
  BY <1>35 DEF PlanReads, Reaping, Refreshing, TypeOK, Pass
<1>36. ASSUME PlanActs PROVE TypeOK'
  <2>1. pass' \in Pass  BY <1>36, ValuesTyped, FieldsTyped DEF PlanActs, TypeOK
  <2>2. reap' \in [Spare -> Reap] /\ settings' \in [Spare -> Image \cup {None}]
    <3>1. ToReap \in SUBSET Spare  BY FieldsTyped DEF ToReap, Outdated, Excess, Kept, TypeOK
    <3>. QED  BY <1>36, <3>1, ReapedTyped DEF PlanActs
  <2>. QED  BY <1>36, <2>1, <2>2 DEF PlanActs, TypeOK
<1>37. ASSUME UnmarkClaimedJobs PROVE TypeOK'
  BY <1>37 DEF UnmarkClaimedJobs, ListedUsers, TypeOK
<1>38. ASSUME Crash PROVE TypeOK'
  <2>1. claim' \in [Create -> Claim] /\ reap' \in [Spare -> Reap] /\ pass' \in Pass
    BY <1>38, ValuesTyped DEF Crash, TypeOK
  <2>2. settings' \in [Spare -> Image \cup {None}]  BY <1>38, ReapedTyped DEF Crash
  <2>3. faults' \in Nat  BY <1>38, FaultTyped DEF Crash
  <2>. QED  BY <1>38, <2>1, <2>2, <2>3 DEF Crash, Spawning, TypeOK
<1>39. ASSUME NewImage PROVE TypeOK'
  BY <1>39 DEF NewImage, TypeOK, Fault
<1>40. ASSUME GoesIdle PROVE TypeOK'
  <2>1. busy' \in BOOLEAN  BY <1>40 DEF GoesIdle
  <2>2. faults' \in Nat  BY <1>40, FaultTyped DEF GoesIdle
  <2>. QED  BY <1>40, <2>1, <2>2 DEF GoesIdle, TypeOK
<1>. QED  BY <1>1, <1>2, <1>3, <1>4, <1>5, <1>6, <1>7, <1>8, <1>9, <1>10, <1>11, <1>12, <1>13, <1>14,
         <1>15, <1>16, <1>17, <1>18, <1>19, <1>20, <1>21, <1>22, <1>23, <1>24, <1>25, <1>26, <1>27, <1>28, <1>29,
         <1>30, <1>31, <1>32, <1>33, <1>34, <1>35, <1>36, <1>37, <1>38, <1>39, <1>40 DEF Next
-----------------------------------------------------------------------------
(***************************************************************************)
(* Each action keeps the invariant. Two facts first that take more than   *)
(* one step: a reap that finds nothing goes on, and a reservation takes a  *)
(* spare no other claim has.                                               *)
(***************************************************************************)
LEMMA ReapFindsOrGoesOn ==
    ASSUME IInv, NEW s \in Spare, ReapFinds(s)
    PROVE  ReapInv' /\ FilesInv'
<1>1. reap[s].stage = "find" /\ reap[s].hasRow /\ row[s] # "none"
  BY DEF ReapFinds, IInv, Safe, ReapInv
<1>2. /\ \A t \in Spare \ {s} : reap'[t] = reap[t]
      /\ \/ reap'[s].stage = "idle"
         \/ /\ reap'[s].stage = "cleanup" /\ reap'[s].hasRow /\ s \notin ListedUsers
            /\ reap'[s].claimFailed = reap[s].claimFailed
  <2>1. CASE s \in ListedUsers  BY <2>1 DEF ReapFinds, ReapEnds, NoReap, IInv, TypeOK
  <2>2. CASE s \notin ListedUsers  BY <1>1, <2>2 DEF ReapFinds, IInv, TypeOK, Reap
  <2>. QED  BY <2>1, <2>2
<1>3. ReapInv'  BY <1>1, <1>2 DEF ReapFinds, IInv, Safe, ReapInv, ListedUsers
<1>4. FilesInv'  BY <1>1, <1>2 DEF ReapFinds, IInv, Safe, FilesInv, Free, Spawning
<1>. QED  BY <1>3, <1>4

LEMMA ReserveTakesAFreeSpare ==
    ASSUME IInv, NEW c \in Create, NEW s \in Spare, Reserve(c, s)
    PROVE  ClaimInv'
<1>1. /\ claim'[c].stage = "checking" /\ claim'[c].spare = s
      /\ \A d \in Create \ {c} : claim'[d] = claim[d]
  BY DEF Reserve, IInv, TypeOK, Claim
<1>2. ASSUME NEW d \in Create PROVE claim[d].spare # s
  <2>1. claim[d].spare # None => claim[d].stage \in Holding \cup {"won"}  BY DEF IInv, Safe, ClaimInv
  <2>2. claim[d].stage \in Holding /\ claim[d].spare = s => s \in claiming
    BY DEF IInv, Safe, ClaimInv
  <2>3. claim[d].stage = "won" /\ claim[d].spare = s => settings[s] = None
    BY DEF IInv, Safe, ClaimInv
  <2>4. s \notin claiming /\ settings[s] # None  BY DEF Reserve, Free
  <2>. QED  BY <2>1, <2>2, <2>3, <2>4, SparesAssumption
<1>3. s # None /\ claiming' = claiming \cup {s} /\ UNCHANGED <<warm, settings>>
  BY SparesAssumption DEF Reserve
<1>. QED  BY <1>1, <1>2, <1>3 DEF IInv, Safe, ClaimInv, OneCreatePerSpare, Holding

LEMMA ReapReadsRowSafe ==
    ASSUME IInv, NEW s \in Spare, ReapReadsRow(s)
    PROVE  Safe'
<1>1. BornInv'  BY DEF ReapReadsRow, IInv, Safe, TypeOK, BornInv
<1>2. ApartInv'  BY DEF ReapReadsRow, IInv, Safe, TypeOK, ApartInv
<1>3. ReapInv'  BY DEF ReapReadsRow, IInv, TypeOK, ReapInv, Reap
<1>4. FilesInv'  BY DEF ReapReadsRow, IInv, Safe, TypeOK, FilesInv, Free, Spawning
<1>5. ClaimInv' /\ WholeInv' /\ RowInv'
  BY DEF ReapReadsRow, IInv, Safe, ClaimInv, OneCreatePerSpare, WholeInv, PoolIsWhole, Free, Spawning,
     RowInv
<1>. QED  BY <1>1, <1>2, <1>3, <1>4, <1>5 DEF Safe

LEMMA ReapFindsSafe ==
    ASSUME IInv, NEW s \in Spare, ReapFinds(s)
    PROVE  Safe'
<1>1. BornInv'  BY DEF ReapFinds, ReapEnds, IInv, Safe, TypeOK, BornInv
<1>2. ApartInv'  BY DEF ReapFinds, ReapEnds, IInv, Safe, TypeOK, ApartInv
<1>3. ReapInv'  BY ReapFindsOrGoesOn
<1>4. FilesInv'  BY ReapFindsOrGoesOn
<1>5. ClaimInv' /\ WholeInv' /\ RowInv'
  BY DEF ReapFinds, IInv, Safe, ClaimInv, OneCreatePerSpare, WholeInv, PoolIsWhole, Free, Spawning,
     RowInv
<1>. QED  BY <1>1, <1>2, <1>3, <1>4, <1>5 DEF Safe

LEMMA ReapCleansUpSafe ==
    ASSUME IInv, NEW s \in Spare, ReapCleansUp(s)
    PROVE  Safe'
<1>1. BornInv'  BY DEF ReapCleansUp, IInv, Safe, BornInv
<1>2. ApartInv'  BY DEF ReapCleansUp, IInv, Safe, ApartInv
<1>3. ReapInv'  BY DEF ReapCleansUp, IInv, Safe, TypeOK, ReapInv, ListedUsers
<1>4. RowInv'  BY DEF ReapCleansUp, IInv, Safe, RowInv, ApartInv, ClaimInv
<1>5. FilesInv'  BY DEF ReapCleansUp, IInv, Safe, TypeOK, FilesInv, Free, Spawning
<1>6. ClaimInv' /\ WholeInv'
  BY DEF ReapCleansUp, IInv, Safe, ClaimInv, OneCreatePerSpare, WholeInv, PoolIsWhole, Free, Spawning
<1>. QED  BY <1>1, <1>2, <1>3, <1>4, <1>5, <1>6 DEF Safe

LEMMA ReapDeletesFilesSafe ==
    ASSUME IInv, NEW s \in Spare, ReapDeletesFiles(s)
    PROVE  Safe'
<1>1. BornInv'  BY DEF ReapDeletesFiles, IInv, Safe, BornInv
<1>2. ApartInv'  BY DEF ReapDeletesFiles, IInv, Safe, ApartInv
<1>3. WholeInv'  BY DEF ReapDeletesFiles, IInv, Safe, WholeInv, PoolIsWhole, Free, Spawning
<1>4. ReapInv'  BY DEF ReapDeletesFiles, IInv, Safe, ReapInv, ListedUsers
<1>5. FilesInv'  BY DEF ReapDeletesFiles, IInv, Safe, FilesInv, Free, Spawning
<1>6. ClaimInv' /\ RowInv'
  BY DEF ReapDeletesFiles, IInv, Safe, ClaimInv, OneCreatePerSpare, RowInv
<1>. QED  BY <1>1, <1>2, <1>3, <1>4, <1>5, <1>6 DEF Safe

LEMMA ReapDestroysSafe ==
    ASSUME IInv, NEW s \in Spare, ReapDestroys(s)
    PROVE  Safe'
<1>1. BornInv'  BY DEF ReapDestroys, ReapEnds, IInv, Safe, BornInv
<1>2. ApartInv'  BY DEF ReapDestroys, ReapEnds, IInv, Safe, ApartInv
<1>3. ReapInv'  BY DEF ReapDestroys, ReapEnds, NoReap, IInv, Safe, ReapInv, ListedUsers
<1>4. RowInv'  BY DEF ReapDestroys, IInv, Safe, RowInv, ApartInv, ClaimInv
<1>5. FilesInv'
  BY DEF ReapDestroys, ReapEnds, IInv, Safe, FilesInv, Free, Spawning, BornInv, ApartInv, ReapInv
<1>6. ClaimInv' /\ WholeInv'
  BY DEF ReapDestroys, IInv, Safe, ClaimInv, OneCreatePerSpare, WholeInv, PoolIsWhole, Free, Spawning
<1>. QED  BY <1>1, <1>2, <1>3, <1>4, <1>5, <1>6 DEF Safe

LEMMA ReapFailsSafe ==
    ASSUME IInv, NEW s \in Spare, ReapFails(s)
    PROVE  Safe'
<1>1. BornInv'  BY DEF ReapFails, ReapEnds, IInv, Safe, BornInv
<1>2. ApartInv'  BY DEF ReapFails, ReapEnds, IInv, Safe, ApartInv
<1>3. ReapInv'  BY DEF ReapFails, ReapEnds, NoReap, IInv, Safe, ReapInv, ListedUsers
<1>4. RowInv'  BY DEF ReapFails, IInv, Safe, RowInv, ApartInv, ClaimInv
<1>5. FilesInv'  BY DEF ReapFails, Unretried, ReapEnds, IInv, Safe, FilesInv, Free, Spawning
<1>6. ClaimInv' /\ WholeInv'
  BY DEF ReapFails, IInv, Safe, ClaimInv, OneCreatePerSpare, WholeInv, PoolIsWhole, Free, Spawning
<1>. QED  BY <1>1, <1>2, <1>3, <1>4, <1>5, <1>6 DEF Safe

LEMMA WarmPreparesSafe ==
    ASSUME IInv, NEW s \in Spare, WarmPrepares(s)
    PROVE  Safe'
<1>1. BornInv'  BY DEF WarmPrepares, IInv, Safe, TypeOK, BornInv
<1>2. ApartInv'  BY DEF WarmPrepares, IInv, Safe, ApartInv, BornInv
<1>3. ClaimInv'  BY DEF WarmPrepares, IInv, Safe, ClaimInv, OneCreatePerSpare, Holding, BornInv
<1>4. WholeInv'  BY DEF WarmPrepares, IInv, Safe, WholeInv, PoolIsWhole, Free, Spawning
<1>5. ReapInv'  BY DEF WarmPrepares, IInv, Safe, ReapInv, ListedUsers, BornInv
<1>6. FilesInv'  BY DEF WarmPrepares, IInv, Safe, FilesInv, Free, Spawning, BornInv
<1>7. RowInv'  BY DEF WarmPrepares, IInv, Safe, RowInv
<1>. QED  BY <1>1, <1>2, <1>3, <1>4, <1>5, <1>6, <1>7 DEF Safe

LEMMA WarmLaunchesSafe ==
    ASSUME IInv, NEW s \in Spare, WarmLaunches(s)
    PROVE  Safe'
<1>1. BornInv'  BY DEF WarmLaunches, IInv, Safe, BornInv
<1>2. ReapInv'  BY DEF WarmLaunches, IInv, Safe, ReapInv, ListedUsers, BornInv
<1>3. RowInv'  BY DEF WarmLaunches, IInv, Safe, RowInv
<1>4. FilesInv'  BY DEF WarmLaunches, IInv, Safe, FilesInv, Free, Spawning
<1>5. ApartInv' /\ ClaimInv' /\ WholeInv'
  BY DEF WarmLaunches, IInv, Safe, ApartInv, ClaimInv, OneCreatePerSpare, WholeInv, PoolIsWhole, Free,
     Spawning
<1>. QED  BY <1>1, <1>2, <1>3, <1>4, <1>5 DEF Safe

LEMMA WarmSettlesSafe ==
    ASSUME IInv, NEW s \in Spare, WarmSettles(s)
    PROVE  Safe'
<1>1. BornInv'  BY DEF WarmSettles, IInv, Safe, BornInv
<1>2. ClaimInv'  BY DEF WarmSettles, IInv, Safe, ClaimInv, OneCreatePerSpare
<1>3. WholeInv'  BY DEF WarmSettles, IInv, Safe, WholeInv, PoolIsWhole, Free, Spawning, BornInv
<1>4. FilesInv'  BY DEF WarmSettles, IInv, Safe, FilesInv, Free, Spawning, BornInv
<1>5. ApartInv' /\ ReapInv' /\ RowInv'
  BY DEF WarmSettles, IInv, Safe, ApartInv, ReapInv, ListedUsers, RowInv
<1>. QED  BY <1>1, <1>2, <1>3, <1>4, <1>5 DEF Safe

LEMMA WarmFailsSafe ==
    ASSUME IInv, NEW s \in Spare, WarmFails(s)
    PROVE  Safe'
<1>1. BornInv'  BY DEF WarmFails, Forgotten, IInv, Safe, TypeOK, BornInv
<1>2. ApartInv'  BY DEF WarmFails, Forgotten, IInv, Safe, ApartInv
<1>3. ClaimInv'
  BY DEF WarmFails, Forgotten, IInv, Safe, TypeOK, ClaimInv, OneCreatePerSpare, Claim
<1>4. WholeInv'
  BY DEF WarmFails, Forgotten, IInv, Safe, TypeOK, WholeInv, PoolIsWhole, Free, Spawning
<1>5. ReapInv'  BY DEF WarmFails, IInv, Safe, TypeOK, ReapInv, ListedUsers
<1>6. RowInv'  BY DEF WarmFails, IInv, Safe, TypeOK, RowInv, BornInv, ClaimInv
<1>7. FilesInv'  BY DEF WarmFails, Forgotten, IInv, Safe, TypeOK, FilesInv, Free, Spawning
<1>. QED  BY <1>1, <1>2, <1>3, <1>4, <1>5, <1>6, <1>7 DEF Safe

LEMMA SweepReapsSafe ==
    ASSUME IInv, NEW s \in Spare, SweepReaps(s)
    PROVE  Safe'
<1>1. BornInv'
  BY DEF SweepReaps, MayReap, Reaped, Forgotten, Spawning, IInv, Safe, TypeOK, BornInv
<1>2. ApartInv'  BY DEF SweepReaps, MayReap, Reaped, Forgotten, IInv, Safe, ApartInv
<1>3. ClaimInv'
  BY DEF SweepReaps, Forgotten, IInv, Safe, TypeOK, ClaimInv, OneCreatePerSpare, Claim
<1>4. WholeInv'
  BY DEF SweepReaps, Forgotten, Spawning, IInv, Safe, TypeOK, WholeInv, PoolIsWhole, Free
<1>5. ReapInv'  BY DEF SweepReaps, Reaped, IInv, Safe, ReapInv, ListedUsers
<1>6. FilesInv'
  BY DEF SweepReaps, MayReap, Reaped, Forgotten, Spawning, Reaping, IInv, Safe, FilesInv, Free
<1>7. RowInv'  BY DEF SweepReaps, IInv, Safe, RowInv
<1>. QED  BY <1>1, <1>2, <1>3, <1>4, <1>5, <1>6, <1>7 DEF Safe

LEMMA StartRefreshSafe ==
    ASSUME IInv, NEW s \in Spare, StartRefresh(s)
    PROVE  Safe'
<1>1. BornInv'  BY DEF StartRefresh, ToRefresh, Free, NoPass, Spawning, IInv, Safe, TypeOK, BornInv
<1>2. ApartInv'  BY DEF StartRefresh, Free, IInv, Safe, TypeOK, ApartInv
<1>3. WholeInv'  BY DEF StartRefresh, Free, Spawning, IInv, Safe, TypeOK, WholeInv, PoolIsWhole
<1>4. ClaimInv' /\ ReapInv' /\ RowInv' /\ FilesInv'
  BY DEF StartRefresh, Free, Spawning, IInv, Safe, ClaimInv, OneCreatePerSpare, ReapInv, ListedUsers,
     RowInv, FilesInv
<1>. QED  BY <1>1, <1>2, <1>3, <1>4 DEF Safe

LEMMA RefreshReadsSafe ==
    ASSUME IInv, NEW s \in Spare, RefreshReads(s)
    PROVE  Safe'
<1>1. BornInv'  BY DEF RefreshReads, IInv, Safe, TypeOK, BornInv
<1>2. ApartInv'  BY DEF RefreshReads, IInv, Safe, TypeOK, ApartInv
<1>3. WholeInv'
  BY DEF RefreshReads, IInv, Safe, TypeOK, WholeInv, PoolIsWhole, Free, Spawning, ApartInv, ClaimInv
<1>4. ClaimInv' /\ ReapInv' /\ RowInv' /\ FilesInv'
  BY DEF RefreshReads, IInv, Safe, ClaimInv, OneCreatePerSpare, ReapInv, ListedUsers, RowInv,
     FilesInv, Free, Spawning
<1>. QED  BY <1>1, <1>2, <1>3, <1>4 DEF Safe

LEMMA RefreshMovesSafe ==
    ASSUME IInv, NEW s \in Spare, RefreshMoves(s)
    PROVE  Safe'
<1>1. BornInv'  BY DEF RefreshMoves, IInv, Safe, BornInv
<1>2. ApartInv'  BY DEF RefreshMoves, IInv, Safe, ApartInv
<1>3. WholeInv'  BY DEF RefreshMoves, IInv, Safe, WholeInv, PoolIsWhole, Free, Spawning
<1>4. ClaimInv' /\ ReapInv' /\ RowInv' /\ FilesInv'
  BY DEF RefreshMoves, IInv, Safe, ClaimInv, OneCreatePerSpare, ReapInv, ListedUsers, RowInv,
     FilesInv, Free, Spawning
<1>. QED  BY <1>1, <1>2, <1>3, <1>4 DEF Safe

LEMMA RefreshFailsSafe ==
    ASSUME IInv, NEW s \in Spare, RefreshFails(s)
    PROVE  Safe'
<1>1. BornInv'  BY DEF RefreshFails, Reaped, Forgotten, IInv, Safe, BornInv
<1>2. ApartInv'  BY DEF RefreshFails, Reaped, Forgotten, IInv, Safe, ApartInv
<1>3. ClaimInv'
  BY DEF RefreshFails, Reaped, Forgotten, IInv, Safe, TypeOK, ClaimInv, OneCreatePerSpare, Claim
<1>4. WholeInv'
  BY DEF RefreshFails, MayReap, Reaped, Forgotten, Spawning, Reaping, IInv, Safe, TypeOK, WholeInv,
     PoolIsWhole, Free, ApartInv
<1>5. ReapInv'  BY DEF RefreshFails, Reaped, IInv, Safe, ReapInv, ListedUsers
<1>6. FilesInv'
  BY DEF RefreshFails, MayReap, Reaped, Forgotten, Spawning, Reaping, IInv, Safe, FilesInv, Free
<1>7. RowInv'  BY DEF RefreshFails, IInv, Safe, RowInv
<1>. QED  BY <1>1, <1>2, <1>3, <1>4, <1>5, <1>6, <1>7 DEF Safe

LEMMA EvictSafe ==
    ASSUME IInv, NEW s \in Spare, Evict(s)
    PROVE  Safe'
<1>1. BornInv'  BY DEF Evict, IInv, Safe, BornInv
<1>2. ReapInv'  BY DEF Evict, IInv, Safe, TypeOK, ReapInv, ListedUsers
<1>3. RowInv'  BY DEF Evict, IInv, Safe, TypeOK, RowInv
<1>4. FilesInv'  BY DEF Evict, IInv, Safe, TypeOK, FilesInv, Free, Spawning
<1>5. ApartInv' /\ ClaimInv' /\ WholeInv'
  BY DEF Evict, IInv, Safe, ApartInv, ClaimInv, OneCreatePerSpare, WholeInv, PoolIsWhole, Free,
     Spawning
<1>. QED  BY <1>1, <1>2, <1>3, <1>4, <1>5 DEF Safe

LEMMA HangSafe ==
    ASSUME IInv, NEW s \in Spare, Hang(s)
    PROVE  Safe'
<1>1. BornInv'  BY DEF Hang, IInv, Safe, BornInv
<1>2. ReapInv'  BY DEF Hang, IInv, Safe, ReapInv, ListedUsers
<1>3. RowInv'  BY DEF Hang, IInv, Safe, RowInv
<1>4. FilesInv'  BY DEF Hang, IInv, Safe, FilesInv, Free, Spawning
<1>5. ApartInv' /\ ClaimInv' /\ WholeInv'
  BY DEF Hang, IInv, Safe, ApartInv, ClaimInv, OneCreatePerSpare, WholeInv, PoolIsWhole, Free, Spawning
<1>. QED  BY <1>1, <1>2, <1>3, <1>4, <1>5 DEF Safe

LEMMA StopSafe ==
    ASSUME IInv, NEW s \in Spare, Stop(s)
    PROVE  Safe'
<1>1. BornInv'  BY DEF Stop, IInv, Safe, BornInv
<1>2. ReapInv'  BY DEF Stop, ListedUsers, IInv, Safe, ReapInv
<1>3. RowInv'  BY DEF Stop, IInv, Safe, RowInv, ClaimInv
<1>4. FilesInv'  BY DEF Stop, IInv, Safe, TypeOK, FilesInv, Free, Spawning
<1>5. ApartInv' /\ ClaimInv' /\ WholeInv'
  BY DEF Stop, IInv, Safe, ApartInv, ClaimInv, OneCreatePerSpare, WholeInv, PoolIsWhole, Free, Spawning
<1>. QED  BY <1>1, <1>2, <1>3, <1>4, <1>5 DEF Safe

LEMMA RestartSafe ==
    ASSUME IInv, NEW s \in Spare, Restart(s)
    PROVE  Safe'
<1>1. BornInv'  BY DEF Restart, IInv, Safe, BornInv
<1>2. ReapInv'  BY DEF Restart, IInv, Safe, ReapInv, ListedUsers
<1>3. RowInv'  BY DEF Restart, IInv, Safe, RowInv
<1>4. FilesInv'  BY DEF Restart, IInv, Safe, FilesInv, Free, Spawning, BornInv
<1>5. ApartInv' /\ ClaimInv' /\ WholeInv'
  BY DEF Restart, IInv, Safe, ApartInv, ClaimInv, OneCreatePerSpare, WholeInv, PoolIsWhole, Free,
     Spawning
<1>. QED  BY <1>1, <1>2, <1>3, <1>4, <1>5 DEF Safe

LEMMA ListSparesSafe ==
    ASSUME IInv, NEW c \in Create, ListSpares(c)
    PROVE  Safe'
<1>1. ClaimInv'
  BY DEF ListSpares, Search, Cold, NoClaim, IInv, Safe, ClaimInv, OneCreatePerSpare, Holding
<1>2. WholeInv'
  BY DEF ListSpares, Search, Free, Cold, Spawning, IInv, Safe, WholeInv, PoolIsWhole, Holding
<1>3. ReapInv'  BY DEF ListSpares, Search, Cold, IInv, Safe, ReapInv, ListedUsers
<1>4. RowInv'  BY DEF ListSpares, Search, Cold, IInv, Safe, RowInv, Holding
<1>5. BornInv' /\ ApartInv' /\ FilesInv'
  BY DEF ListSpares, Free, Spawning, IInv, Safe, BornInv, ApartInv, FilesInv
<1>. QED  BY <1>1, <1>2, <1>3, <1>4, <1>5 DEF Safe

LEMMA KeepCheckoutSafe ==
    ASSUME IInv, NEW c \in Create, KeepCheckout(c)
    PROVE  Safe'
<1>1. ClaimInv'  BY DEF KeepCheckout, IInv, Safe, ClaimInv, OneCreatePerSpare, Holding
<1>2. WholeInv'  BY DEF KeepCheckout, IInv, Safe, WholeInv, PoolIsWhole, Holding, Free, Spawning
<1>3. ReapInv'  BY DEF KeepCheckout, IInv, Safe, ReapInv, ListedUsers
<1>4. RowInv'  BY DEF KeepCheckout, IInv, Safe, RowInv, Holding
<1>5. BornInv' /\ ApartInv' /\ FilesInv'
  BY DEF KeepCheckout, IInv, Safe, BornInv, ApartInv, FilesInv, Free, Spawning
<1>. QED  BY <1>1, <1>2, <1>3, <1>4, <1>5 DEF Safe

LEMMA ReserveSafe ==
    ASSUME IInv, NEW c \in Create, NEW s \in Spare, Reserve(c, s)
    PROVE  Safe'
<1>1. BornInv'  BY DEF Reserve, Free, Spawning, IInv, Safe, TypeOK, BornInv
<1>2. ApartInv'  BY DEF Reserve, Free, IInv, Safe, ApartInv
<1>3. ClaimInv'  BY ReserveTakesAFreeSpare
<1>4. WholeInv'  BY DEF Reserve, Free, Spawning, IInv, Safe, WholeInv, PoolIsWhole
<1>5. ReapInv'  BY DEF Reserve, IInv, Safe, ReapInv, ListedUsers
<1>6. RowInv'  BY DEF Reserve, IInv, Safe, RowInv, FilesInv
<1>7. FilesInv'  BY DEF Reserve, Free, Spawning, IInv, Safe, FilesInv
<1>. QED  BY <1>1, <1>2, <1>3, <1>4, <1>5, <1>6, <1>7 DEF Safe

LEMMA PassOverSafe ==
    ASSUME IInv, NEW c \in Create, NEW s \in Spare, PassOver(c, s)
    PROVE  Safe'
<1>1. ClaimInv'
  BY DEF PassOver, Search, Cold, NoClaim, IInv, Safe, ClaimInv, OneCreatePerSpare, Holding
<1>2. WholeInv'
  BY DEF PassOver, Free, Search, Spawning, Cold, IInv, Safe, WholeInv, PoolIsWhole, Holding
<1>3. ReapInv'  BY DEF PassOver, Search, Cold, IInv, Safe, ReapInv, ListedUsers
<1>4. RowInv'  BY DEF PassOver, Search, Cold, IInv, Safe, RowInv, Holding
<1>5. BornInv' /\ ApartInv' /\ FilesInv'
  BY DEF PassOver, Free, Spawning, IInv, Safe, BornInv, ApartInv, FilesInv
<1>. QED  BY <1>1, <1>2, <1>3, <1>4, <1>5 DEF Safe

LEMMA SpareIsStuckSafe ==
    ASSUME IInv, NEW c \in Create, NEW s \in Spare, SpareIsStuck(c, s)
    PROVE  Safe'
<1>1. BornInv'  BY DEF SpareIsStuck, IInv, Safe, BornInv
<1>2. ApartInv'  BY DEF SpareIsStuck, IInv, Safe, ApartInv
<1>3. ClaimInv'
  BY DEF SpareIsStuck, Search, Cold, NoClaim, IInv, Safe, TypeOK, ClaimInv, OneCreatePerSpare, Holding
<1>4. WholeInv'
  BY DEF SpareIsStuck, Search, Cold, IInv, Safe, WholeInv, PoolIsWhole, Holding, Free, Spawning
<1>5. ReapInv'  BY DEF SpareIsStuck, Search, Cold, IInv, Safe, ReapInv, ListedUsers
<1>6. RowInv'  BY DEF SpareIsStuck, Search, Cold, IInv, Safe, RowInv, Holding
<1>7. FilesInv'  BY DEF SpareIsStuck, IInv, Safe, FilesInv, Free, Spawning, Holding, RowInv
<1>. QED  BY <1>1, <1>2, <1>3, <1>4, <1>5, <1>6, <1>7 DEF Safe

LEMMA InsertRowSafe ==
    ASSUME IInv, NEW c \in Create, NEW s \in Spare, InsertRow(c, s)
    PROVE  Safe'
<1>1. BornInv'  BY DEF InsertRow, IInv, Safe, BornInv, ClaimInv, Holding
<1>2. ClaimInv'  BY DEF InsertRow, IInv, Safe, ClaimInv, OneCreatePerSpare, Holding
<1>3. WholeInv'  BY DEF InsertRow, IInv, Safe, WholeInv, PoolIsWhole, Holding, Free, Spawning
<1>4. ReapInv'  BY DEF InsertRow, IInv, Safe, ReapInv, ListedUsers, ApartInv, ClaimInv, Holding
<1>5. RowInv'  BY DEF InsertRow, IInv, Safe, TypeOK, RowInv, Holding, ClaimInv, OneCreatePerSpare
<1>6. FilesInv'  BY DEF InsertRow, IInv, Safe, FilesInv, Free, Spawning, ClaimInv, Holding
<1>7. ApartInv'  BY DEF InsertRow, IInv, Safe, ApartInv
<1>. QED  BY <1>1, <1>2, <1>3, <1>4, <1>5, <1>6, <1>7 DEF Safe

LEMMA TransportFailsSafe ==
    ASSUME IInv, NEW c \in Create, NEW s \in Spare, TransportFails(c, s)
    PROVE  Safe'
<1>1. BornInv'  BY DEF TransportFails, IInv, Safe, BornInv
<1>2. ApartInv'  BY DEF TransportFails, IInv, Safe, ApartInv
<1>3. ClaimInv'
  BY DEF TransportFails, Cold, NoClaim, IInv, Safe, TypeOK, ClaimInv, OneCreatePerSpare, Holding
<1>4. WholeInv'
  BY DEF TransportFails, Cold, IInv, Safe, WholeInv, PoolIsWhole, Holding, Free, Spawning
<1>5. ReapInv'  BY DEF TransportFails, Cold, IInv, Safe, ReapInv, ListedUsers
<1>6. RowInv'  BY DEF TransportFails, Cold, IInv, Safe, RowInv, Holding
<1>7. FilesInv'  BY DEF TransportFails, IInv, Safe, FilesInv, Free, Spawning, Holding, RowInv
<1>. QED  BY <1>1, <1>2, <1>3, <1>4, <1>5, <1>6, <1>7 DEF Safe

LEMMA BeginMoveSafe ==
    ASSUME IInv, NEW c \in Create, NEW s \in Spare, BeginMove(c, s)
    PROVE  Safe'
<1>1. BornInv'  BY DEF BeginMove, IInv, Safe, BornInv, Holding, RowInv
<1>2. ClaimInv'  BY DEF BeginMove, IInv, Safe, ClaimInv, OneCreatePerSpare, Holding
<1>3. WholeInv'
  BY DEF BeginMove, IInv, Safe, TypeOK, WholeInv, PoolIsWhole, Holding, Free, Spawning, ClaimInv,
     OneCreatePerSpare
<1>4. ReapInv'  BY DEF BeginMove, IInv, Safe, ReapInv, ListedUsers
<1>5. RowInv'  BY DEF BeginMove, IInv, Safe, RowInv, Holding
<1>6. ApartInv' /\ FilesInv'  BY DEF BeginMove, IInv, Safe, ApartInv, FilesInv, Free, Spawning
<1>. QED  BY <1>1, <1>2, <1>3, <1>4, <1>5, <1>6 DEF Safe

LEMMA EndMoveSafe ==
    ASSUME IInv, NEW c \in Create, NEW s \in Spare, EndMove(c, s)
    PROVE  Safe'
<1>1. BornInv'  BY DEF EndMove, IInv, Safe, BornInv
<1>2. ClaimInv'  BY DEF EndMove, Goes, IInv, Safe, ClaimInv, OneCreatePerSpare, Holding
<1>3. WholeInv'  BY DEF EndMove, Goes, IInv, Safe, WholeInv, PoolIsWhole, Free, Spawning
<1>4. ReapInv'  BY DEF EndMove, Goes, IInv, Safe, ReapInv, ListedUsers
<1>5. RowInv'  BY DEF EndMove, Goes, IInv, Safe, RowInv, Holding
<1>6. ApartInv' /\ FilesInv'  BY DEF EndMove, IInv, Safe, ApartInv, FilesInv, Free, Spawning
<1>. QED  BY <1>1, <1>2, <1>3, <1>4, <1>5, <1>6 DEF Safe

LEMMA UnmarkPodSafe ==
    ASSUME IInv, NEW c \in Create, NEW s \in Spare, UnmarkPod(c, s)
    PROVE  Safe'
<1>1. ClaimInv'  BY DEF UnmarkPod, Goes, IInv, Safe, ClaimInv, OneCreatePerSpare, Holding
<1>2. WholeInv'  BY DEF UnmarkPod, Goes, IInv, Safe, WholeInv, PoolIsWhole, Holding, Free, Spawning
<1>3. ReapInv'
  BY DEF UnmarkPod, Goes, IInv, Safe, ReapInv, ListedUsers, ApartInv, ClaimInv, Holding
<1>4. RowInv'
  BY DEF UnmarkPod, Goes, IInv, Safe, TypeOK, RowInv, Holding, ClaimInv, OneCreatePerSpare
<1>5. FilesInv'  BY DEF UnmarkPod, IInv, Safe, FilesInv, Free, Spawning, BornInv, Holding, RowInv
<1>6. BornInv' /\ ApartInv'  BY DEF UnmarkPod, IInv, Safe, BornInv, ApartInv
<1>. QED  BY <1>1, <1>2, <1>3, <1>4, <1>5, <1>6 DEF Safe

LEMMA UnmarkJobSafe ==
    ASSUME IInv, NEW c \in Create, NEW s \in Spare, UnmarkJob(c, s)
    PROVE  Safe'
<1>1. BornInv'  BY DEF UnmarkJob, Forgotten, IInv, Safe, BornInv
<1>2. ApartInv'  BY DEF UnmarkJob, Forgotten, IInv, Safe, ApartInv
<1>3. ClaimInv'
  BY DEF UnmarkJob, Forgotten, Goes, IInv, Safe, TypeOK, ClaimInv, OneCreatePerSpare, Holding, Claim
<1>4. WholeInv'
  BY DEF UnmarkJob, Forgotten, Goes, IInv, Safe, TypeOK, WholeInv, PoolIsWhole, Holding, Free, Spawning
<1>5. ReapInv'  BY DEF UnmarkJob, Goes, IInv, Safe, ReapInv, ListedUsers
<1>6. RowInv'  BY DEF UnmarkJob, Goes, IInv, Safe, RowInv, Holding, ClaimInv, OneCreatePerSpare
<1>7. FilesInv'
  BY DEF UnmarkJob, Forgotten, IInv, Safe, FilesInv, Free, Spawning, BornInv, Holding, RowInv
<1>. QED  BY <1>1, <1>2, <1>3, <1>4, <1>5, <1>6, <1>7 DEF Safe

LEMMA OpensSafe ==
    ASSUME IInv, NEW c \in Create, NEW s \in Spare, Opens(c, s)
    PROVE  Safe'
<1>1. BornInv'  BY DEF Opens, IInv, Safe, BornInv
<1>2. ApartInv'  BY DEF Opens, IInv, Safe, ApartInv
<1>3. ClaimInv'  BY DEF Opens, IInv, Safe, TypeOK, ClaimInv, OneCreatePerSpare, Holding, BornInv
<1>4. WholeInv'  BY DEF Opens, IInv, Safe, WholeInv, PoolIsWhole, Holding, Free, Spawning
<1>5. ReapInv'  BY DEF Opens, IInv, Safe, ReapInv, ListedUsers, ApartInv, ClaimInv, Holding
<1>6. RowInv'  BY DEF Opens, IInv, Safe, RowInv, Holding
<1>7. FilesInv'  BY DEF Opens, IInv, Safe, FilesInv, Free, Spawning, ClaimInv
<1>. QED  BY <1>1, <1>2, <1>3, <1>4, <1>5, <1>6, <1>7 DEF Safe

LEMMA ClaimFailsSafe ==
    ASSUME IInv, NEW c \in Create, NEW s \in Spare, ClaimFails(c, s)
    PROVE  Safe'
<1>1. ClaimInv'  BY DEF ClaimFails, Goes, IInv, Safe, ClaimInv, OneCreatePerSpare, Holding
<1>2. WholeInv'
  BY DEF ClaimFails, Goes, IInv, Safe, WholeInv, PoolIsWhole, Holding, Free, Spawning
<1>3. ReapInv'  BY DEF ClaimFails, Goes, IInv, Safe, ReapInv, ListedUsers
<1>4. RowInv'
  BY DEF ClaimFails, Goes, IInv, Safe, RowInv, Holding, ClaimInv, OneCreatePerSpare, WholeInv
<1>5. FilesInv'  BY DEF ClaimFails, IInv, Safe, FilesInv, Free, Spawning, BornInv, Holding, RowInv
<1>6. BornInv' /\ ApartInv'  BY DEF ClaimFails, IInv, Safe, BornInv, ApartInv
<1>. QED  BY <1>1, <1>2, <1>3, <1>4, <1>5, <1>6 DEF Safe

LEMMA UndoSafe ==
    ASSUME IInv, NEW c \in Create, NEW s \in Spare, Undo(c, s)
    PROVE  Safe'
<1>1. BornInv'  BY DEF Undo, Forgotten, Reaped, IInv, Safe, BornInv, Holding, RowInv
<1>2. ApartInv'  BY DEF Undo, Forgotten, Reaped, IInv, Safe, ApartInv
<1>3. ClaimInv'
  BY DEF Undo, Forgotten, Cold, NoClaim, IInv, Safe, TypeOK, ClaimInv, OneCreatePerSpare, Holding,
     Claim
<1>4. WholeInv'
  BY DEF Undo, Spawning, Reaping, Forgotten, Cold, IInv, Safe, TypeOK, WholeInv, PoolIsWhole, Holding,
     Free, ApartInv
<1>5. ReapInv'
  BY DEF Undo, Reaped, Cold, IInv, Safe, ReapInv, ListedUsers, ApartInv, ClaimInv, OneCreatePerSpare,
     Holding
<1>6. RowInv'  BY DEF Undo, Cold, IInv, Safe, TypeOK, RowInv, Holding, ClaimInv, OneCreatePerSpare
<1>7. FilesInv'
  BY DEF Undo, Spawning, Reaping, Forgotten, Reaped, IInv, Safe, TypeOK, FilesInv, Free, ApartInv,
     ClaimInv, RowInv, Claim
<1>. QED  BY <1>1, <1>2, <1>3, <1>4, <1>5, <1>6, <1>7 DEF Safe

LEMMA TakeListingSafe ==
    ASSUME IInv, TakeListing
    PROVE  Safe'
<1>1. BornInv'  BY DEF TakeListing, ListedSpares, Strays, IInv, Safe, BornInv
<1>2. ApartInv' /\ ClaimInv' /\ WholeInv' /\ ReapInv' /\ RowInv' /\ FilesInv'
  BY DEF TakeListing, ListedUsers, IInv, Safe, ApartInv, ClaimInv, OneCreatePerSpare, WholeInv,
     PoolIsWhole, Free, Spawning, ReapInv, RowInv, FilesInv
<1>. QED  BY <1>1, <1>2 DEF Safe

LEMMA PlanReadsSafe ==
    ASSUME IInv, PlanReads
    PROVE  Safe'
<1>1. BornInv'  BY DEF PlanReads, IInv, Safe, BornInv
<1>2. ApartInv' /\ ClaimInv' /\ WholeInv' /\ ReapInv' /\ RowInv' /\ FilesInv'
  BY DEF PlanReads, IInv, Safe, ApartInv, ClaimInv, OneCreatePerSpare, WholeInv, PoolIsWhole, Free,
     Spawning, ReapInv, ListedUsers, RowInv, FilesInv
<1>. QED  BY <1>1, <1>2 DEF Safe

LEMMA PlanActsSafe ==
    ASSUME IInv, PlanActs
    PROVE  Safe'
<1>1. BornInv'
  BY DEF PlanActs, Reaped, ToReap, Forgotten, ToSpawn, ToRefresh, Excess, Kept, Outdated, MayReap,
     Spawning, NoPass, IInv, Safe, TypeOK, BornInv
<1>2. ApartInv'  BY DEF PlanActs, Reaped, ToReap, Forgotten, MayReap, IInv, Safe, ApartInv
<1>3. ClaimInv'
  BY DEF PlanActs, Forgotten, ToSpawn, IInv, Safe, TypeOK, ClaimInv, OneCreatePerSpare, Claim
<1>4. WholeInv'
  BY DEF PlanActs, Forgotten, Free, Spawning, IInv, Safe, TypeOK, WholeInv, PoolIsWhole
<1>5. ReapInv'  BY DEF PlanActs, Reaped, IInv, Safe, ReapInv, ListedUsers
<1>6. FilesInv'
  BY DEF PlanActs, Reaped, ToReap, Forgotten, Free, MayReap, Spawning, Reaping, IInv, Safe, FilesInv
<1>7. RowInv'  BY DEF PlanActs, IInv, Safe, RowInv
<1>. QED  BY <1>1, <1>2, <1>3, <1>4, <1>5, <1>6, <1>7 DEF Safe

LEMMA UnmarkClaimedJobsSafe ==
    ASSUME IInv, UnmarkClaimedJobs
    PROVE  Safe'
<1>1. RowInv'  BY DEF UnmarkClaimedJobs, ListedUsers, IInv, Safe, RowInv
<1>2. FilesInv'  BY DEF UnmarkClaimedJobs, ListedUsers, IInv, Safe, FilesInv, Free, Spawning
<1>3. BornInv' /\ ApartInv' /\ ClaimInv' /\ WholeInv' /\ ReapInv'
  BY DEF UnmarkClaimedJobs, ListedUsers, IInv, Safe, BornInv, ApartInv, ClaimInv, OneCreatePerSpare,
     WholeInv, PoolIsWhole, Free, Spawning, ReapInv
<1>. QED  BY <1>1, <1>2, <1>3 DEF Safe

LEMMA CrashSafe ==
    ASSUME IInv, Crash
    PROVE  Safe'
<1>1. BornInv'  BY DEF Crash, Forgotten, NoReap, NoPass, IInv, Safe, BornInv
<1>2. ApartInv'  BY DEF Crash, NoReap, ApartInv
<1>3. ClaimInv'
  BY DEF Crash, Forgotten, Cold, NoClaim, IInv, Safe, TypeOK, ClaimInv, OneCreatePerSpare, Holding,
     Claim
<1>4. WholeInv'  BY DEF Crash, Forgotten, Cold, IInv, TypeOK, WholeInv, PoolIsWhole, Holding, Free
<1>5. ReapInv'  BY DEF Crash, NoReap, ReapInv
<1>6. RowInv'  BY DEF Crash, Cold, IInv, Safe, RowInv, Holding
<1>7. FilesInv'  BY DEF Crash, Spawning, Forgotten, Unretried, IInv, Safe, FilesInv, Free, BornInv
<1>. QED  BY <1>1, <1>2, <1>3, <1>4, <1>5, <1>6, <1>7 DEF Safe

LEMMA NewImageSafe ==
    ASSUME IInv, NewImage
    PROVE  Safe'
<1>1. BornInv' /\ ApartInv' /\ ClaimInv' /\ WholeInv' /\ ReapInv' /\ RowInv' /\ FilesInv'
  BY DEF NewImage, IInv, Safe, BornInv, ApartInv, ClaimInv, OneCreatePerSpare, WholeInv, PoolIsWhole,
     Free, Spawning, ReapInv, ListedUsers, RowInv, FilesInv
<1>. QED  BY <1>1 DEF Safe

LEMMA GoesIdleSafe ==
    ASSUME IInv, GoesIdle
    PROVE  Safe'
<1>1. BornInv' /\ ApartInv' /\ ClaimInv' /\ WholeInv' /\ ReapInv' /\ RowInv' /\ FilesInv'
  BY DEF GoesIdle, IInv, Safe, BornInv, ApartInv, ClaimInv, OneCreatePerSpare, WholeInv, PoolIsWhole,
     Free, Spawning, ReapInv, ListedUsers, RowInv, FilesInv
<1>. QED  BY <1>1 DEF Safe
-----------------------------------------------------------------------------
(***************************************************************************)
(* Every step keeps the invariant, so every state has it.                  *)
(***************************************************************************)
LEMMA StepIsSafe == IInv /\ Next => Safe'
<1>. SUFFICES ASSUME IInv, Next PROVE Safe'  OBVIOUS
<1>1. ASSUME NEW s \in Spare,
             \/ ReapReadsRow(s) \/ ReapFinds(s) \/ ReapCleansUp(s) \/ ReapDeletesFiles(s)
             \/ ReapDestroys(s) \/ ReapFails(s)
      PROVE  Safe'
  BY <1>1, ReapReadsRowSafe, ReapFindsSafe, ReapCleansUpSafe, ReapDeletesFilesSafe, ReapDestroysSafe,
     ReapFailsSafe
<1>2. ASSUME NEW s \in Spare, WarmPrepares(s) \/ WarmLaunches(s) \/ WarmSettles(s) \/ WarmFails(s)
      PROVE  Safe'
  BY <1>2, WarmPreparesSafe, WarmLaunchesSafe, WarmSettlesSafe, WarmFailsSafe
<1>3. ASSUME NEW s \in Spare,
             \/ SweepReaps(s) \/ StartRefresh(s) \/ RefreshReads(s) \/ RefreshMoves(s)
             \/ RefreshFails(s)
      PROVE  Safe'
  BY <1>3, SweepReapsSafe, StartRefreshSafe, RefreshReadsSafe, RefreshMovesSafe, RefreshFailsSafe
<1>4. ASSUME NEW s \in Spare, Evict(s) \/ Hang(s) \/ Stop(s) \/ Restart(s)
      PROVE  Safe'
  BY <1>4, EvictSafe, HangSafe, StopSafe, RestartSafe
<1>5. ASSUME NEW c \in Create, ListSpares(c) \/ KeepCheckout(c)
      PROVE  Safe'
  BY <1>5, ListSparesSafe, KeepCheckoutSafe
<1>6. ASSUME NEW c \in Create, NEW s \in Spare,
             \/ Reserve(c, s) \/ PassOver(c, s) \/ SpareIsStuck(c, s) \/ InsertRow(c, s)
             \/ TransportFails(c, s) \/ BeginMove(c, s) \/ EndMove(c, s)
      PROVE  Safe'
  BY <1>6, ReserveSafe, PassOverSafe, SpareIsStuckSafe, InsertRowSafe, TransportFailsSafe, BeginMoveSafe,
     EndMoveSafe
<1>7. ASSUME NEW c \in Create, NEW s \in Spare,
             UnmarkPod(c, s) \/ UnmarkJob(c, s) \/ Opens(c, s) \/ ClaimFails(c, s) \/ Undo(c, s)
      PROVE  Safe'
  BY <1>7, UnmarkPodSafe, UnmarkJobSafe, OpensSafe, ClaimFailsSafe, UndoSafe
<1>8. ASSUME TakeListing \/ PlanReads \/ PlanActs \/ UnmarkClaimedJobs \/ Crash \/ NewImage \/ GoesIdle
      PROVE  Safe'
  BY <1>8, TakeListingSafe, PlanReadsSafe, PlanActsSafe, UnmarkClaimedJobsSafe, CrashSafe, NewImageSafe,
     GoesIdleSafe
<1>. QED  BY <1>1, <1>2, <1>3, <1>4, <1>5, <1>6, <1>7, <1>8 DEF Next

LEMMA InitIsSafe == Init => IInv
<1>. SUFFICES ASSUME Init PROVE IInv  OBVIOUS
<1>1. TypeOK  BY ValuesTyped, SparesAssumption DEF Init, TypeOK, Image
<1>2. /\ \A c \in Create : claim[c].stage = "new" /\ claim[c].spare = None
      /\ \A s \in Spare : reap[s].stage = "idle"
      /\ pass.spares = {} /\ pass.strays = {}
  <2>1. NoClaim.stage = "new" /\ NoClaim.spare = None  BY DEF NoClaim
  <2>2. NoReap.stage = "idle"  BY DEF NoReap
  <2>3. NoPass.spares = {} /\ NoPass.strays = {}  BY DEF NoPass
  <2>. QED  BY <2>1, <2>2, <2>3 DEF Init
<1>3. BornInv /\ ApartInv /\ RowInv /\ FilesInv
  BY <1>2 DEF Init, BornInv, ApartInv, RowInv, FilesInv, Free, Spawning, Holding
<1>4. ClaimInv /\ WholeInv /\ ReapInv
  BY <1>2 DEF Init, ClaimInv, OneCreatePerSpare, WholeInv, PoolIsWhole, ReapInv, Free, Spawning, Holding
<1>. QED  BY <1>1, <1>3, <1>4 DEF IInv, Safe

LEMMA Stutters == IInv /\ UNCHANGED vars => IInv'
<1>. SUFFICES ASSUME IInv, UNCHANGED vars PROVE IInv'  OBVIOUS
<1>1. TypeOK'  BY DEF vars, IInv, TypeOK
<1>2. BornInv' /\ ApartInv' /\ ClaimInv' /\ WholeInv'
  BY DEF vars, IInv, Safe, BornInv, ApartInv, ClaimInv, OneCreatePerSpare, WholeInv, PoolIsWhole, Free,
     Spawning
<1>3. ReapInv' /\ RowInv' /\ FilesInv'
  BY DEF vars, IInv, Safe, ReapInv, ListedUsers, RowInv, FilesInv, Free, Spawning
<1>. QED  BY <1>1, <1>2, <1>3 DEF IInv, Safe

LEMMA IInvHolds == Spec => []IInv
<1>1. IInv /\ Next => IInv'  BY StepIsTyped, StepIsSafe DEF IInv
<1>. QED  BY <1>1, InitIsSafe, Stutters, PTL DEF Spec

\* Every state of the pool, of the claims, reaps, refreshes and passes, and
\* of what the cluster and the disk hold is well typed.
THEOREM TypeCorrect == Spec => []TypeOK
<1>1. IInv => TypeOK  BY DEF IInv
<1>. QED  BY <1>1, IInvHolds, PTL

\* No two creates hold or were given the same spare: tryClaimPrewarmed's
\* reservation in `claiming`, made with no await after its last look.
THEOREM OneCreatePerSpareCorrect == Spec => []OneCreatePerSpare
<1>1. IInv => OneCreatePerSpare  BY DEF IInv, Safe, ClaimInv
<1>. QED  BY <1>1, IInvHolds, PTL

\* A claim works on a spare nothing else reaps, warms or moves, and takes over
\* only a checkout no move left halfway: freeSpare, reapSpare, refreshSpares.
THEOREM ClaimsAWholeSpareCorrect == Spec => []ClaimsAWholeSpare
<1>1. ASSUME IInv, NEW c \in Create, claim[c].stage \in Holding
      PROVE  /\ claim[c].spare \notin Reaping \cup Spawning \cup Refreshing
             /\ claim[c].stage \notin {"moving", "undo"} => claim[c].spare \notin torn
  <2>1. claim[c].spare \in claiming  BY <1>1 DEF IInv, Safe, ClaimInv
  <2>2. claim[c].spare \notin Reaping \cup Refreshing
    BY <1>1, <2>1 DEF IInv, Safe, ApartInv, Reaping, Refreshing
  <2>3. claim[c].spare \notin Spawning  BY <1>1, <2>1 DEF IInv, Safe, BornInv, Spawning
  <2>4. claim[c].stage \notin {"moving", "undo"} => claim[c].spare \notin torn
    BY <1>1 DEF IInv, Safe, WholeInv
  <2>. QED  BY <2>2, <2>3, <2>4
<1>2. IInv => ClaimsAWholeSpare  BY <1>1 DEF ClaimsAWholeSpare
<1>. QED  BY <1>2, IInvHolds, PTL

\* A spare that can be claimed is whole: a failed move or claim never puts a
\* checkout between two commits back into the pool (refreshSpares, Undo).
THEOREM PoolIsWholeCorrect == Spec => []PoolIsWhole
<1>1. IInv => PoolIsWhole  BY DEF IInv, Safe, WholeInv
<1>. QED  BY <1>1, IInvHolds, PTL

\* Files answer to a row, a marked Job, a warm or a reap, or are those a crash
\* or a failed delete is known to leave: reapSpare destroys the record last.
THEOREM NothingElseStrandedCorrect == Spec => []NothingElseStranded
<1>1. IInv => files \subseteq Spare  BY DEF IInv, TypeOK
<1>2. IInv => NothingElseStranded
  BY <1>1 DEF IInv, Safe, FilesInv, NothingElseStranded, Reaping
<1>. QED  BY <1>2, IInvHolds, PTL

LEMMA OnlyReapsAndWarmsDelete ==
    ASSUME Next
    PROVE  \/ files \subseteq files'
           \/ \E s \in Spare : ReapDeletesFiles(s) \/ WarmFails(s)
<1>1. ASSUME NEW s \in Spare,
             \/ ReapReadsRow(s) \/ ReapFinds(s) \/ ReapCleansUp(s) \/ ReapDestroys(s) \/ ReapFails(s)
             \/ WarmPrepares(s) \/ WarmLaunches(s) \/ WarmSettles(s)
             \/ SweepReaps(s) \/ StartRefresh(s) \/ RefreshReads(s) \/ RefreshMoves(s) \/ RefreshFails(s)
             \/ Evict(s) \/ Hang(s) \/ Stop(s) \/ Restart(s)
      PROVE  files \subseteq files'
  BY <1>1 DEF ReapReadsRow, ReapFinds, ReapCleansUp, ReapDestroys, ReapFails, WarmPrepares, WarmLaunches,
     WarmSettles, SweepReaps, StartRefresh, RefreshReads, RefreshMoves, RefreshFails, Evict, Hang, Stop,
     Restart
<1>2. ASSUME NEW c \in Create, ListSpares(c) \/ KeepCheckout(c) PROVE files \subseteq files'
  BY <1>2 DEF ListSpares, KeepCheckout
<1>3. ASSUME NEW c \in Create, NEW s \in Spare,
             \/ Reserve(c, s) \/ PassOver(c, s) \/ SpareIsStuck(c, s) \/ InsertRow(c, s)
             \/ TransportFails(c, s) \/ BeginMove(c, s) \/ EndMove(c, s) \/ UnmarkPod(c, s)
             \/ UnmarkJob(c, s) \/ Opens(c, s) \/ ClaimFails(c, s) \/ Undo(c, s)
      PROVE  files \subseteq files'
  BY <1>3 DEF Reserve, PassOver, SpareIsStuck, InsertRow, TransportFails, BeginMove, EndMove, UnmarkPod,
     UnmarkJob, Opens, ClaimFails, Undo
<1>4. TakeListing \/ PlanReads \/ PlanActs \/ UnmarkClaimedJobs \/ Crash \/ NewImage \/ GoesIdle
      => files \subseteq files'
  BY DEF TakeListing, PlanReads, PlanActs, UnmarkClaimedJobs, Crash, NewImage, GoesIdle
<1>. QED  BY <1>1, <1>2, <1>3, <1>4 DEF Next

\* A spare's files are deleted only while no row has its id and no claim holds
\* it, however old the listing: reapSpare's findWorkspaceRow wins over it.
THEOREM FilesOfARowStayCorrect == Spec => FilesOfARowStay
<1> DEFINE Stay == \A s \in files \ files' : row[s] = "none" /\ row'[s] = "none" /\ s \notin claiming
<1>1. ASSUME IInv, NEW s \in Spare, ReapDeletesFiles(s) PROVE Stay
  <2>1. row[s] = "none" /\ s \notin claiming
    BY <1>1 DEF ReapDeletesFiles, IInv, Safe, ReapInv, ApartInv
  <2>. QED  BY <1>1, <2>1 DEF ReapDeletesFiles
<1>2. ASSUME IInv, NEW s \in Spare, WarmFails(s) PROVE Stay
  <2>1. row[s] = "none" /\ s \notin claiming  BY <1>2 DEF WarmFails, IInv, Safe, BornInv
  <2>. QED  BY <1>2, <2>1 DEF WarmFails
<1>3. IInv /\ [Next]_vars => [Stay]_vars  BY <1>1, <1>2, OnlyReapsAndWarmsDelete
<1>. QED  BY <1>3, IInvHolds, PTL DEF Spec, FilesOfARowStay

\* A reap takes down a claimed workspace only if its own claim failed, or if a
\* restart came after a stop that left nothing for the reap to find: reapSpare
\* asks the runtime before it tears down what has a row.
THEOREM ClaimedIsLeftRunningCorrect == Spec => ClaimedIsLeftRunning
<1> DEFINE Left(s) == \/ s \in relaunched
                      \/ reap[s].claimFailed /\ \A c \in Create : claim[c].stage = "won" => claim[c].spare # s
           Leaves == \A s \in ListedUsers :
                        row[s] = "live" /\ pod'[s] = "none" /\ reap[s].stage \in {"cleanup", "record"}
                        /\ reap'[s] # reap[s] => Left(s)
<1>1. ASSUME IInv, Next, NEW s \in ListedUsers, row[s] = "live", pod'[s] = "none",
             reap[s].stage \in {"cleanup", "record"}, reap'[s] # reap[s]
      PROVE  Left(s)
  <2>1. s \in Spare /\ pod[s] # "none"  BY <1>1 DEF ListedUsers
  <2>2. reap[s].stage = "record" => s \in relaunched  BY <1>1, <2>1 DEF IInv, Safe, ReapInv
  <2>3. reap[s].stage = "cleanup" /\ ~reap[s].claimFailed => s \in relaunched
    BY <1>1, <2>1 DEF IInv, Safe, ReapInv
  <2>4. reap[s].stage = "cleanup" /\ reap[s].claimFailed => Left(s)  BY <2>1, <1>1 DEF IInv, Safe, ReapInv
  <2>. QED  BY <1>1, <2>2, <2>3, <2>4
<1>2. IInv /\ [Next]_vars => [Leaves]_vars  BY <1>1
<1>. QED  BY <1>2, IInvHolds, PTL DEF Spec, ClaimedIsLeftRunning
=============================================================================
