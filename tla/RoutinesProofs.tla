---------------------------- MODULE RoutinesProofs ----------------------------
(***************************************************************************)
(* Proofs about the reconcile loop and about routines, for any steps,      *)
(* schedules, users and bounds: what the loop promises, whatever its steps *)
(* do (no change is missed, and a timed step is not put off), and that     *)
(* each tick of a routine has at most one run.                             *)
(***************************************************************************)
EXTENDS Routines, TLAPS, FiniteSetTheorems, WellFoundedInduction

(***************************************************************************)
(* The loop. A specification that fills in its steps uses these lemmas.    *)
(***************************************************************************)
LoopNext ==
    \/ Tick \/ (\E t \in Trigger : Change(t))
    \/ Wakes \/ PassStarts \/ StepSkipped \/ StepStarts \/ (\E ok \in BOOLEAN : StepEnds(ok)) \/ PassEnds
    \/ Abort \/ Dies \/ Boots

\* A step has a change to look at only if it runs for it, and what came after
\* the snapshot is marked for the next pass.
UnseenIsWanted == \A c \in unseen : c[2] \in StepName /\ c[1] \in TriggersOf[c[2]]
MissedIsMarked == phase # "exited" => pass.missed \subseteq dirty

\* A pass that runs a step has not come to its end.
RunsAStep == pass.running => pass.at <= Len(Steps)

LoopInv == LoopTypeOK /\ RunsAStep /\ UnseenIsWanted /\ MissedIsMarked /\ NoChangeMissed
-----------------------------------------------------------------------------
LEMMA TriggerFacts ==
    /\ "resync" \notin Trigger
    /\ \A n \in StepName : TriggersOf[n] \subseteq Trigger
    /\ \A n \in Timed : n \in StepName /\ TriggersOf[n] = {} /\ Every[n] \in Nat /\ Every[n] % 2 = 0
    /\ MaxTime \in Nat
    /\ Len(Steps) \in Nat \ {0}
    /\ \A i \in 1 .. Len(Steps) : Steps[i] \in StepName
    /\ \A i, j \in 1 .. Len(Steps) : Steps[i] = Steps[j] => i = j
<1>1. \A n \in StepName : TriggersOf[n] \subseteq Trigger  BY DEF Trigger
<1>. QED  BY <1>1, ReconcilerAssumption DEF Timed, Resync, StepName

LEMMA LoopInitTyped == LoopInit => LoopInv
<1>. SUFFICES ASSUME LoopInit PROVE LoopInv  OBVIOUS
<1>1. NoPass \in Pass  BY TriggerFacts DEF NoPass, Pass
<1>2. 0 \in 0 .. MaxTime /\ Never \in 0 .. Never  BY TriggerFacts DEF Never
<1>3. lastRun \in [Timed -> 0 .. Never]  BY <1>2 DEF LoopInit
<1>4. LoopTypeOK  BY <1>1, <1>2, <1>3 DEF LoopInit, LoopTypeOK
<1>. QED  BY <1>4 DEF LoopInit, LoopInv, RunsAStep, UnseenIsWanted, MissedIsMarked, NoChangeMissed, NoPass

LEMMA StepTyped ==
    ASSUME LoopTypeOK, phase = "pass", pass.at <= Len(Steps)
    PROVE  pass.at \in 1 .. Len(Steps) /\ Name = Steps[pass.at] /\ Name \in StepName
BY TriggerFacts DEF LoopTypeOK, Pass, Name

\* A pass's record as the actions leave it.
LEMMA PassTyped ==
    ASSUME LoopTypeOK
    PROVE  /\ NoPass \in Pass
           /\ [NoPass EXCEPT !.taken = dirty, !.startedAt = now] \in Pass
           /\ \A t \in Trigger : [pass EXCEPT !.missed = @ \cup {t}] \in Pass
           /\ [pass EXCEPT !.running = TRUE, !.shot = @ \/ Name \in Reads] \in Pass
           /\ pass.at <= Len(Steps) => [pass EXCEPT !.at = @ + 1] \in Pass
           /\ pass.at <= Len(Steps) => [pass EXCEPT !.at = @ + 1, !.running = FALSE] \in Pass
<1>0. pass \in Pass /\ dirty \subseteq Trigger \cup {"resync"} /\ now \in 0 .. MaxTime  BY DEF LoopTypeOK
<1>1. NoPass \in Pass  BY TriggerFacts DEF Pass, NoPass
<1>2. [NoPass EXCEPT !.taken = dirty, !.startedAt = now] \in Pass  BY <1>0, <1>1 DEF Pass
<1>3. \A t \in Trigger : [pass EXCEPT !.missed = @ \cup {t}] \in Pass  BY <1>0 DEF Pass
<1>4. [pass EXCEPT !.running = TRUE, !.shot = @ \/ Name \in Reads] \in Pass  BY <1>0 DEF Pass
<1>5. ASSUME pass.at <= Len(Steps)
      PROVE  [pass EXCEPT !.at = @ + 1] \in Pass /\ [pass EXCEPT !.at = @ + 1, !.running = FALSE] \in Pass
  <2>1. pass.at + 1 \in 1 .. Len(Steps) + 1  BY <1>0, <1>5, TriggerFacts DEF Pass
  <2>. QED  BY <1>0, <2>1 DEF Pass
<1>. QED  BY <1>1, <1>2, <1>3, <1>4, <1>5

\* Every action keeps the types.
LEMMA LoopTypes ==
    ASSUME LoopTypeOK, RunsAStep, LoopNext
    PROVE  LoopTypeOK' /\ RunsAStep'
<1>0. NoPass.running = FALSE /\ NoPass.shot = FALSE  BY DEF NoPass
<1>1. CASE Tick
  <2>1. now' \in 0 .. MaxTime  BY <1>1, TriggerFacts DEF Tick, LoopTypeOK
  <2>2. dirty' \subseteq Trigger \cup {"resync"}  BY <1>1 DEF Tick, Marked, LoopTypeOK
  <2>. QED  BY <1>1, <2>1, <2>2 DEF Tick, LoopTypeOK, RunsAStep
<1>2. ASSUME NEW t \in Trigger, Change(t) PROVE LoopTypeOK' /\ RunsAStep'
  <2>1. unseen' \subseteq Trigger \X StepName  BY <1>2 DEF Change, LoopTypeOK
  <2>2. dirty' \subseteq Trigger \cup {"resync"}  BY <1>2 DEF Change, Marked, LoopTypeOK
  <2>3. pass' \in Pass /\ pass'.running = pass.running /\ pass'.at = pass.at
    BY <1>2, PassTyped DEF Change, LoopTypeOK, Pass
  <2>4. phase # "pass" => pass' = pass  BY <1>0, <1>2 DEF Change, LoopTypeOK
  <2>. QED  BY <1>2, <2>1, <2>2, <2>3, <2>4 DEF Change, LoopTypeOK, RunsAStep
<1>3. CASE Wakes
  BY <1>3 DEF Wakes, LoopTypeOK, RunsAStep
<1>4. CASE Abort
  BY <1>4 DEF Abort, LoopTypeOK, RunsAStep
<1>5. CASE PassStarts
  <2>1. pass' \in Pass /\ (phase' # "pass" => pass' = NoPass) /\ ~pass'.running
    BY <1>0, <1>5, PassTyped DEF PassStarts, Take, LoopTypeOK, Pass
  <2>2. dirty' \subseteq Trigger \cup {"resync"} /\ phase' \in {"pass", "exited"}
    BY <1>5 DEF PassStarts, Take, LoopTypeOK
  <2>. QED  BY <1>5, <2>1, <2>2 DEF PassStarts, LoopTypeOK, RunsAStep
<1>6. CASE StepSkipped
  <2>1. pass' \in Pass /\ ~pass'.running  BY <1>6, PassTyped DEF StepSkipped, AtAStep, LoopTypeOK, Pass
  <2>. QED  BY <1>6, <2>1 DEF StepSkipped, AtAStep, LoopTypeOK, RunsAStep
<1>7. CASE StepStarts
  <2>1. pass' \in Pass /\ pass'.at <= Len(Steps)
    BY <1>7, PassTyped DEF StepStarts, AtAStep, LoopTypeOK, Pass
  <2>. QED  BY <1>7, <2>1 DEF StepStarts, AtAStep, LoopTypeOK, RunsAStep
<1>8. ASSUME NEW ok \in BOOLEAN, StepEnds(ok) PROVE LoopTypeOK' /\ RunsAStep'
  <2>1. pass.at <= Len(Steps)  BY <1>8 DEF StepEnds, RunsAStep
  <2>2. pass' \in Pass /\ ~pass'.running  BY <1>8, <2>1, PassTyped DEF StepEnds, LoopTypeOK, Pass
  <2>3. pass.startedAt \in 0 .. Never  BY TriggerFacts DEF LoopTypeOK, Pass, Never
  <2>4. lastRun' \in [Timed -> 0 .. Never]  BY <1>8, <2>3 DEF StepEnds, LoopTypeOK
  <2>5. unseen' \subseteq Trigger \X StepName  BY <1>8 DEF StepEnds, LoopTypeOK
  <2>. QED  BY <1>8, <2>2, <2>4, <2>5 DEF StepEnds, LoopTypeOK, RunsAStep
<1>9. CASE PassEnds
  BY <1>0, <1>9, PassTyped DEF PassEnds, LoopTypeOK, RunsAStep
<1>10. CASE Dies
  BY <1>0, <1>10, PassTyped DEF Dies, LoopTypeOK, RunsAStep
<1>11. CASE Boots
  <2>1. Never \in 0 .. Never  BY TriggerFacts DEF Never
  <2>2. lastRun' \in [Timed -> 0 .. Never]  BY <1>11, <2>1 DEF Boots
  <2>. QED  BY <1>0, <1>11, <2>2, PassTyped DEF Boots, LoopTypeOK, RunsAStep
<1>. QED  BY <1>1, <1>2, <1>3, <1>4, <1>5, <1>6, <1>7, <1>8, <1>9, <1>10, <1>11 DEF LoopNext
-----------------------------------------------------------------------------
(***************************************************************************)
(* No change is missed.                                                    *)
(***************************************************************************)
\* Where a change stands that a step has yet to look at.
Pending(c) ==
    \/ {c[1], "resync"} \cap dirty # {}
    \/ /\ phase = "pass" /\ {c[1], "resync"} \cap pass.taken # {}
       /\ \E i \in pass.at .. Len(Steps) : Steps[i] = c[2]
       /\ c[1] \notin pass.missed

\* A step that is passed over did not run for any of the changes it has yet
\* to look at.
LEMMA SkippedUnwanted ==
    ASSUME LoopInv, StepSkipped, NEW c \in unseen, {c[1], "resync"} \cap pass.taken # {}
    PROVE  c[2] # Name
<1>1. c[2] \in StepName /\ c[1] \in TriggersOf[c[2]]  BY DEF LoopInv, UnseenIsWanted
<1>2. SUFFICES ASSUME c[2] = Name PROVE FALSE  OBVIOUS
<1>3. Wanted(Name)  BY <1>1, <1>2 DEF Wanted
<1>4. Name \in Timed  BY <1>3 DEF StepSkipped, Due
<1>. QED  BY <1>1, <1>2, <1>4, TriggerFacts

\* The pass has the steps after the one it is at still to come.
LEMMA StillToCome ==
    ASSUME LoopTypeOK, pass.at <= Len(Steps), NEW n, n # Name,
           \E i \in pass.at .. Len(Steps) : Steps[i] = n
    PROVE  \E i \in pass.at + 1 .. Len(Steps) : Steps[i] = n
<1>1. pass.at \in Nat /\ Len(Steps) \in Nat  BY TriggerFacts DEF LoopTypeOK, Pass
<1>2. PICK i \in pass.at .. Len(Steps) : Steps[i] = n  OBVIOUS
<1>3. i # pass.at  BY <1>2 DEF Name
<1>4. i \in pass.at + 1 .. Len(Steps)  BY <1>1, <1>3
<1>. QED  BY <1>2, <1>4

LEMMA LoopKeepsInv ==
    ASSUME LoopInv, LoopNext
    PROVE  LoopInv'
<1>0. LoopTypeOK /\ RunsAStep /\ UnseenIsWanted /\ MissedIsMarked /\ NoChangeMissed /\ pass \in Pass
  BY DEF LoopInv, LoopTypeOK
<1>1. LoopTypeOK' /\ RunsAStep'  BY <1>0, LoopTypes
<1>2. NoPass.missed = {} /\ NoPass.at = 1  BY DEF NoPass
<1>3. UnseenIsWanted'
  <2>1. ASSUME NEW t \in Trigger, Change(t) PROVE UnseenIsWanted'
    <3>1. ASSUME NEW c \in unseen', c \notin unseen PROVE c[2] \in StepName /\ c[1] \in TriggersOf[c[2]]
      BY <2>1, <3>1 DEF Change
    <3>. QED  BY <1>0, <3>1 DEF UnseenIsWanted
  <2>2. unseen' \subseteq unseen => UnseenIsWanted'  BY <1>0 DEF UnseenIsWanted
  <2>. QED  BY <2>1, <2>2 DEF LoopNext, Tick, Wakes, PassStarts, StepSkipped, StepStarts, StepEnds, PassEnds,
                               Abort, Dies, Boots
<1>4. MissedIsMarked'
  <2>1. ASSUME NEW t \in Trigger, Change(t) PROVE MissedIsMarked'
    <3>1. pass'.missed \subseteq pass.missed \cup {t}  BY <1>0, <2>1 DEF Change, Pass
    <3>. QED  BY <1>0, <2>1, <3>1 DEF Change, Marked, MissedIsMarked
  <2>2. CASE Tick  BY <1>0, <2>2 DEF Tick, Marked, MissedIsMarked
  <2>3. CASE Wakes \/ Abort
    BY <1>0, <2>3 DEF Wakes, Abort, MissedIsMarked
  <2>4. CASE PassStarts
    <3>1. pass'.missed = {} \/ (pass' = pass /\ dirty' = dirty)  BY <2>4, <1>2 DEF PassStarts, Take, NoPass
    <3>. QED  BY <1>0, <2>4, <3>1 DEF PassStarts, MissedIsMarked
  <2>5. CASE StepSkipped \/ StepStarts
    <3>1. pass'.missed = pass.missed  BY <1>0, <2>5 DEF StepSkipped, StepStarts, Pass
    <3>. QED  BY <1>0, <2>5, <3>1 DEF StepSkipped, StepStarts, MissedIsMarked
  <2>6. ASSUME NEW ok \in BOOLEAN, StepEnds(ok) PROVE MissedIsMarked'
    <3>1. pass'.missed = pass.missed  BY <1>0, <2>6 DEF StepEnds, Pass
    <3>. QED  BY <1>0, <2>6, <3>1 DEF StepEnds, MissedIsMarked
  <2>7. CASE PassEnds \/ Dies \/ Boots
    BY <1>2, <2>7 DEF PassEnds, Dies, Boots, MissedIsMarked
  <2>. QED  BY <2>1, <2>2, <2>3, <2>4, <2>5, <2>6, <2>7 DEF LoopNext
<1>5. NoChangeMissed'
  <2>0. NoChangeMissed <=> (phase # "exited" => \A c \in unseen : Pending(c))
    BY DEF NoChangeMissed, Pending
  <2>00. NoChangeMissed' <=> (phase' # "exited" => \A c \in unseen' : Pending(c)')
    BY DEF NoChangeMissed, Pending
  <2>1. ASSUME NEW t \in Trigger, Change(t), phase # "exited", NEW c \in unseen' PROVE Pending(c)'
    <3>1. t \in dirty' /\ dirty \subseteq dirty' /\ phase' = phase  BY <2>1 DEF Change, Marked
    <3>2. CASE c[1] = t  BY <3>1, <3>2 DEF Pending
    <3>3. CASE c[1] # t
      <4>1. c \in unseen  BY <2>1, <3>3 DEF Change
      <4>2. Pending(c)  BY <1>0, <2>0, <2>1, <4>1
      <4>3. /\ pass'.taken = pass.taken /\ pass'.at = pass.at /\ pass'.missed \subseteq pass.missed \cup {t}
        BY <1>0, <2>1 DEF Change, Pass
      <4>. QED  BY <3>1, <3>3, <4>2, <4>3 DEF Pending
    <3>. QED  BY <3>2, <3>3
  <2>2. CASE Tick
    BY <1>0, <2>0, <2>00, <2>2 DEF Tick, Marked, Pending
  <2>3. CASE Wakes
    BY <1>0, <2>0, <2>00, <2>3 DEF Wakes, Pending
  <2>4. CASE Abort
    BY <1>0, <2>0, <2>00, <2>4 DEF Abort, Pending
  <2>5. ASSUME PassStarts, phase' # "exited", NEW c \in unseen' PROVE Pending(c)'
    <3>1. phase' = "pass" /\ pass'.taken = dirty /\ pass'.at = 1 /\ pass'.missed = {}
      BY <2>5 DEF PassStarts, Take, NoPass
    <3>2. c \in unseen /\ phase = "debounce"  BY <2>5 DEF PassStarts
    <3>3. {c[1], "resync"} \cap dirty # {}  BY <1>0, <2>0, <3>2 DEF Pending
    <3>4. c[2] \in StepName  BY <1>0, <3>2 DEF UnseenIsWanted
    <3>5. \E i \in 1 .. Len(Steps) : Steps[i] = c[2]  BY <3>4 DEF StepName
    <3>. QED  BY <3>1, <3>3, <3>5 DEF Pending
  <2>6. ASSUME StepSkipped, NEW c \in unseen' PROVE Pending(c)'
    <3>1. pass'.taken = pass.taken /\ pass'.at = pass.at + 1 /\ pass'.missed = pass.missed
      BY <1>0, <2>6 DEF StepSkipped, Pass
    <3>2. c \in unseen /\ phase = "pass" /\ phase' = phase /\ dirty' = dirty /\ pass.at <= Len(Steps)
      BY <2>6 DEF StepSkipped, AtAStep
    <3>3. Pending(c)  BY <1>0, <2>0, <3>2
    <3>4. CASE {c[1], "resync"} \cap dirty # {}  BY <3>2, <3>4 DEF Pending
    <3>5. CASE {c[1], "resync"} \cap dirty = {}
      <4>1. c[2] # Name  BY <2>6, <3>2, <3>3, <3>5, SkippedUnwanted DEF Pending
      <4>2. \E i \in pass.at + 1 .. Len(Steps) : Steps[i] = c[2]
        BY <1>0, <3>2, <3>3, <3>5, <4>1, StillToCome DEF Pending
      <4>. QED  BY <3>1, <3>2, <3>3, <3>5, <4>2 DEF Pending
    <3>. QED  BY <3>4, <3>5
  <2>7. ASSUME StepStarts, NEW c \in unseen' PROVE Pending(c)'
    <3>1. pass'.taken = pass.taken /\ pass'.at = pass.at /\ pass'.missed = pass.missed
      BY <1>0, <2>7 DEF StepStarts, Pass
    <3>. QED  BY <1>0, <2>0, <2>7, <3>1 DEF StepStarts, AtAStep, Pending
  <2>8. ASSUME NEW ok \in BOOLEAN, StepEnds(ok), NEW c \in unseen' PROVE Pending(c)'
    <3>1. pass'.taken = pass.taken /\ pass'.at = pass.at + 1 /\ pass'.missed = pass.missed
      BY <1>0, <2>8 DEF StepEnds, Pass
    <3>2. c \in unseen /\ phase = "pass" /\ phase' = phase /\ dirty' = dirty /\ pass.at <= Len(Steps)
      BY <1>0, <2>8 DEF StepEnds, RunsAStep
    <3>3. Pending(c)  BY <1>0, <2>0, <3>2
    <3>4. CASE {c[1], "resync"} \cap dirty # {}  BY <3>2, <3>4 DEF Pending
    <3>5. CASE {c[1], "resync"} \cap dirty = {}
      <4>1. c[1] \notin pass.missed  BY <3>3, <3>5 DEF Pending
      <4>2. c \in Trigger \X StepName  BY <1>0, <3>2 DEF LoopTypeOK
      <4>3. c[2] # Name  BY <2>8, <4>1, <4>2 DEF StepEnds
      <4>4. \E i \in pass.at + 1 .. Len(Steps) : Steps[i] = c[2]
        BY <1>0, <3>2, <3>3, <3>5, <4>3, StillToCome DEF Pending
      <4>. QED  BY <3>1, <3>2, <3>3, <3>5, <4>4 DEF Pending
    <3>. QED  BY <3>4, <3>5
  <2>9. ASSUME PassEnds, phase' # "exited", NEW c \in unseen' PROVE Pending(c)'
    <3>1. c \in unseen /\ phase = "pass" /\ pass.at > Len(Steps) /\ dirty' = dirty  BY <2>9 DEF PassEnds
    <3>2. Pending(c)  BY <1>0, <2>0, <3>1
    <3>3. ~\E i \in pass.at .. Len(Steps) : TRUE  BY <1>0, <3>1, TriggerFacts DEF Pass
    <3>. QED  BY <3>1, <3>2, <3>3 DEF Pending
  <2>10. CASE Dies
    BY <2>00, <2>10 DEF Dies
  <2>11. CASE Boots
    BY <2>00, <2>11 DEF Boots, Pending
  <2>12. ASSUME NEW t \in Trigger, Change(t) PROVE phase' = phase  BY <2>12 DEF Change
  <2>13. StepSkipped \/ StepStarts \/ (\E ok \in BOOLEAN : StepEnds(ok)) => phase' # "exited"
    BY DEF StepSkipped, StepStarts, StepEnds, AtAStep
  <2>. QED  BY <2>00, <2>1, <2>2, <2>3, <2>4, <2>5, <2>6, <2>7, <2>8, <2>9, <2>10, <2>11, <2>12, <2>13 DEF LoopNext
<1>. QED  BY <1>1, <1>3, <1>4, <1>5 DEF LoopInv

LEMMA LoopStutters ==
    ASSUME LoopInv, UNCHANGED loopVars
    PROVE  LoopInv'
BY DEF loopVars, LoopInv, LoopTypeOK, RunsAStep, UnseenIsWanted, MissedIsMarked, NoChangeMissed
-----------------------------------------------------------------------------
(***************************************************************************)
(* Timed steps.                                                            *)
(***************************************************************************)
\* Half a resync of slack, in whole resyncs.
LEMMA SlackIsLess ==
    ASSUME NEW start \in Nat, NEW last \in Nat, NEW every \in Nat,
           every % 2 = 0, ~(start + 1 >= last + every)
    PROVE  start \div 2 - last \div 2 < every \div 2
OBVIOUS

\* Only passing a step over moves on from one that has not started.
LEMMA MovesOn ==
    ASSUME LoopInv, LoopNext, AtAStep, pass'.at = pass.at + 1
    PROVE  StepSkipped
<1>0. pass \in Pass /\ pass.at \in Nat /\ pass.at >= 1 /\ ~pass.running /\ phase = "pass" /\ ~aborted /\ pass.at <= Len(Steps)
  BY TriggerFacts DEF LoopInv, LoopTypeOK, AtAStep, Pass
<1>1. ASSUME NEW t \in Trigger, Change(t) PROVE pass'.at = pass.at
  BY <1>0, <1>1 DEF Change, Pass
<1>2. StepStarts => pass'.at = pass.at  BY <1>0 DEF StepStarts, Pass
<1>3. Tick \/ Abort => pass' = pass  BY DEF Tick, Abort
<1>4. ~Wakes /\ ~PassStarts /\ ~PassEnds /\ ~Boots /\ (\A ok \in BOOLEAN : ~StepEnds(ok))
  BY <1>0, TriggerFacts DEF Wakes, PassStarts, PassEnds, Boots, StepEnds
<1>5. Dies => pass'.at = 1  BY DEF Dies, NoPass
<1>. QED  BY <1>0, <1>1, <1>2, <1>3, <1>4, <1>5 DEF LoopNext

LEMMA TimedStepNotLate ==
    ASSUME LoopInv, LoopNext, AtAStep, pass'.at = pass.at + 1, "resync" \in pass.taken
    PROVE  /\ Name \in Timed /\ lastRun[Name] # Never
           /\ pass.startedAt \div Resync - lastRun[Name] \div Resync < Every[Name] \div Resync
<1>1. ~Due(Name)  BY MovesOn DEF StepSkipped, Wanted
<1>2. /\ Name \in Timed /\ lastRun[Name] # Never
      /\ ~(pass.startedAt + 1 >= lastRun[Name] + Every[Name])
  BY <1>1 DEF Due, Resync
<1>3. pass.startedAt \in Nat /\ lastRun[Name] \in Nat /\ Every[Name] \in Nat /\ Every[Name] % 2 = 0
  BY <1>2, TriggerFacts DEF LoopInv, LoopTypeOK, Pass, Never
<1>. QED  BY <1>2, <1>3, SlackIsLess DEF Resync
-----------------------------------------------------------------------------
(***************************************************************************)
(* Routines.                                                               *)
(***************************************************************************)
LEMMA StepActsAreLoops == StepActs => (\E ok \in BOOLEAN : StepEnds(ok)) \/ UNCHANGED loopVars
BY DEF StepActs, StopsOverdue, RoutinesRead, NoneDue, Fires, StartsScheduled, OtherStepEnds

LEMMA UserActsKeepLoop == \A u \in User : UserActs(u) => UNCHANGED loopVars
BY DEF UserActs, UserAsks, Asks, EditWrites, Pauses, ResumeWrites, RunInserts, RunStarts

LEMMA RunActsKeepLoop ==
    \A i \in Run : RoomFrees(i) \/ LaunchEnds(i) \/ RunsAgain(i) \/ RunEnds(i) => UNCHANGED loopVars
BY DEF RoomFrees, LaunchEnds, RunsAgain, RunEnds

LEMMA ActsAreLoops == Next => LoopNext \/ UNCHANGED loopVars
<1>1. LoopActs => LoopNext \/ UNCHANGED loopVars  BY StepActsAreLoops DEF LoopActs, Keeps, LoopNext
<1>2. Changes \/ Crash \/ Aborts \/ Restarts \/ Keeps(Tick) => LoopNext
  <2>1. Changes => (\E t \in Trigger : Change(t))  BY DEF Changes
  <2>2. (Crash => Dies) /\ (Aborts => Abort) /\ (Keeps(Tick) => Tick)  BY DEF Crash, Aborts, Keeps
  <2>3. Restarts => Boots  BY Zenon DEF Restarts
  <2>. QED  BY <2>1, <2>2, <2>3 DEF LoopNext
<1>. QED  BY <1>1, <1>2, UserActsKeepLoop, RunActsKeepLoop DEF Next

LEMMA LoopInvHolds == Spec => []LoopInv
<1>1. Init => LoopInv  BY LoopInitTyped DEF Init
<1>2. LoopInv /\ [Next]_vars => LoopInv'
  BY ActsAreLoops, LoopKeepsInv, LoopStutters DEF vars
<1>. QED  BY <1>1, <1>2, PTL DEF Spec

\* Whatever a pass, a change, a failed step, an abort or a restart of the
\* server does, a change no step has looked at is marked or in the hands of a
\* pass that will: reconciler.ts's markDirty, takeDirty and reconcilePass.
THEOREM NoChangeMissedCorrect == Spec => []NoChangeMissed
<1>1. LoopInv => NoChangeMissed  BY DEF LoopInv
<1>. QED  BY <1>1, LoopInvHolds, PTL

\* A pass for a resync does not pass a timed step over whose interval, in
\* resyncs, has gone by: reconcilePass's test of `lastRunAt`.
THEOREM TimedStepOnTimeCorrect == Spec => TimedStepOnTime
<1> DEFINE OnTime == AtAStep /\ pass'.at = pass.at + 1 /\ "resync" \in pass.taken =>
           /\ Name \in Timed /\ lastRun[Name] # Never
           /\ pass.startedAt \div Resync - lastRun[Name] \div Resync < Every[Name] \div Resync
<1>1. LoopInv /\ LoopNext => OnTime  BY TimedStepNotLate
<1>2. LoopInv /\ [Next]_vars => [OnTime]_loopVars
  BY <1>1, ActsAreLoops DEF vars
<1>. QED  BY <1>2, LoopInvHolds, PTL DEF Spec, TimedStepOnTime
-----------------------------------------------------------------------------
(***************************************************************************)
(* Least and greatest elements.                                            *)
(***************************************************************************)
LEMMA MinIsLeast ==
    ASSUME NEW S \in SUBSET Nat, S # {}
    PROVE  Min(S) \in S /\ (\A y \in S : Min(S) <= y)
<1> DEFINE Less == {p \in Nat \X Nat : p[1] < p[2]}
<1>1. IsWellFoundedOn(Less, Nat)  BY NatLessThanWellFounded DEF OpToRel
<1>2. PICK x \in S : \A y \in S : ~(<<y, x>> \in Less)  BY <1>1, WFMin
<1>3. ASSUME NEW y \in S PROVE x <= y
  <2>1. ~(<<y, x>> \in Less) /\ x \in Nat /\ y \in Nat  BY <1>2
  <2>2. ~(y < x)  BY <2>1
  <2>. QED  BY <2>1, <2>2
<1>. QED  BY <1>3 DEF Min

LEMMA MaxIsGreatest ==
    ASSUME NEW N \in Nat, NEW S \in SUBSET (0 .. N), S # {}
    PROVE  Max(S) \in S /\ (\A y \in S : Max(S) >= y)
<1> DEFINE R == {N - y : y \in S}
<1>1. R \in SUBSET Nat /\ R # {}
  <2>1. \A y \in S : N - y \in Nat  OBVIOUS
  <2>. QED  BY <2>1
<1>2. Min(R) \in R /\ (\A z \in R : Min(R) <= z)  BY <1>1, MinIsLeast
<1>3. PICK x \in S : Min(R) = N - x  BY <1>2
<1>4. \A y \in S : x >= y
  <2>. TAKE y \in S
  <2>1. N - y \in R  OBVIOUS
  <2>2. N - x <= N - y  BY <1>2, <1>3, <2>1
  <2>3. x \in Nat /\ y \in Nat  OBVIOUS
  <2>. QED  BY <2>2, <2>3
<1>. QED  BY <1>4 DEF Max
-----------------------------------------------------------------------------
(***************************************************************************)
(* The operators on schedules and runs.                                    *)
(***************************************************************************)
LEMMA ConstantFacts ==
    /\ MaxTime \in Nat /\ Never = MaxTime + 1 /\ MaxRun \in Nat \ {0}
    /\ Cron \subseteq SUBSET (1 .. MaxTime)
    /\ Budget \subseteq [users : Nat, changes : Nat, faults : Nat]
BY ReconcilerAssumption, RoutinesAssumption DEF Never

LEMMA NextTickFacts ==
    ASSUME NEW c \in SUBSET (1 .. MaxTime), NEW t \in 0 .. MaxTime
    PROVE  /\ NextTick(c, t) \in 0 .. Never /\ NextTick(c, t) > t
           /\ NextTick(c, t) = Never \/ NextTick(c, t) \in c
           /\ \A x \in c : x > t => NextTick(c, t) <= x
<1>1. CASE After(c, t) = {}
  <2>1. NextTick(c, t) = Never  BY <1>1 DEF NextTick
  <2>. QED  BY <1>1, <2>1, ConstantFacts DEF After
<1>2. CASE After(c, t) # {}
  <2>1. NextTick(c, t) = Min(After(c, t))  BY <1>2 DEF NextTick
  <2>2. After(c, t) \in SUBSET Nat
    <3>1. \A x \in c : x \in Nat  OBVIOUS
    <3>. QED  BY <3>1 DEF After
  <2>3. /\ NextTick(c, t) \in After(c, t)
        /\ \A y \in After(c, t) : NextTick(c, t) <= y  BY <1>2, <2>1, <2>2, MinIsLeast
  <2>4. NextTick(c, t) \in c /\ NextTick(c, t) > t  BY <2>3 DEF After
  <2>5. NextTick(c, t) \in 1 .. MaxTime  BY <2>4
  <2>6. \A x \in c : x > t => NextTick(c, t) <= x  BY <2>3 DEF After
  <2>. QED  BY <2>4, <2>5, <2>6, ConstantFacts
<1>. QED  BY <1>1, <1>2

LEMMA LatestRunFacts ==
    ASSUME NEW c \in SUBSET (1 .. MaxTime), NEW t \in 0 .. MaxTime
    PROVE  /\ LatestRun(c, t) = Never \/ (LatestRun(c, t) \in c /\ LatestRun(c, t) <= t)
           /\ \A x \in c : x <= t => LatestRun(c, t) \in c /\ LatestRun(c, t) >= x
<1> DEFINE S == {x \in c : x <= t}
<1>1. CASE \E x \in c : x <= t
  <2>1. LatestRun(c, t) = Max(S)  BY <1>1 DEF LatestRun
  <2>2. S \in SUBSET (0 .. t) /\ S # {} /\ t \in Nat
    <3>1. \A x \in S : x \in 0 .. t  OBVIOUS
    <3>2. S \subseteq 0 .. t  BY <3>1
    <3>3. S # {}  BY <1>1
    <3>. QED  BY <3>2, <3>3
  <2>3. Max(S) \in S /\ (\A y \in S : Max(S) >= y)  BY <2>2, MaxIsGreatest
  <2>. QED  BY <2>1, <2>3
<1>2. CASE ~\E x \in c : x <= t
  BY <1>2 DEF LatestRun
<1>. QED  BY <1>1, <1>2

RowTyped  == routine \in Routine
RunsTyped == runs \in [Run -> RunType]

\* Room is left for one more: what does not run can be replaced.
RoomIsLeft == Cardinality(Live) < MaxRun

LEMMA RunsAreFinite == IsFiniteSet(Run) /\ Cardinality(Run) = MaxRun
BY ConstantFacts, FS_Interval DEF Run

LEMMA LiveIsFinite == IsFiniteSet(Live) /\ Cardinality(Live) \in Nat
BY RunsAreFinite, FS_Subset, FS_CardinalityType DEF Live

\* The launches of a step, which had room.
LEMMA RoomIsKept ==
    ASSUME RoomIsLeft, NEW L \in SUBSET Run, RoomFor(L), Live' \subseteq Live \cup L
    PROVE  RoomIsLeft'
<1>1. IsFiniteSet(L) /\ Cardinality(L) \in Nat  BY RunsAreFinite, FS_Subset, FS_CardinalityType
<1>2. IsFiniteSet(Live \cup L) /\ Cardinality(Live \cup L) <= Cardinality(Live) + Cardinality(L)
  <2>1. /\ IsFiniteSet(Live \cup L)
        /\ Cardinality(Live \cup L) = Cardinality(Live) + Cardinality(L) - Cardinality(Live \cap L)
    BY <1>1, LiveIsFinite, FS_Union
  <2>2. Cardinality(Live \cap L) \in Nat  BY <1>1, FS_Subset, FS_CardinalityType
  <2>. QED  BY <1>1, <2>1, <2>2, LiveIsFinite
<1>3. IsFiniteSet(Live') /\ Cardinality(Live') <= Cardinality(Live \cup L)  BY <1>2, FS_Subset
<1>4. Cardinality(Live') \in Nat /\ Cardinality(Live \cup L) \in Nat  BY <1>2, <1>3, FS_CardinalityType
<1>. QED  BY <1>1, <1>2, <1>3, <1>4, LiveIsFinite, ConstantFacts DEF RoomFor, RoomIsLeft

\* None is launched.
LEMMA RoomIsFreed ==
    ASSUME RoomIsLeft, Live' \subseteq Live
    PROVE  RoomIsLeft'
<1>1. Cardinality(Live') <= Cardinality(Live)  BY LiveIsFinite, FS_Subset
<1>2. Cardinality(Live') \in Nat  BY LiveIsFinite, FS_Subset, FS_CardinalityType
<1>. QED  BY <1>1, <1>2, LiveIsFinite, ConstantFacts DEF RoomIsLeft

LEMMA FreshIsNotLive ==
    ASSUME RunsTyped, RoomIsLeft
    PROVE  Fresh \in Run /\ (runs[Fresh].state = "none" \/ Unlaunched(Fresh)) /\ Fresh \notin Live
<1> DEFINE F == {i \in Run : runs[i].state = "none" \/ Unlaunched(i)}
<1>1. Run # Live  BY RunsAreFinite, LiveIsFinite, ConstantFacts DEF RoomIsLeft
<1>2. PICK i \in Run : i \notin Live  BY <1>1 DEF Live
<1>3. i \in F  BY <1>2 DEF Live, RunsTyped, RunType, Unlaunched
<1>4. F \in SUBSET Nat  BY DEF Run
<1>5. Min(F) \in F  BY <1>3, <1>4, MinIsLeast
<1>6. Fresh \in F  BY <1>5 DEF Fresh
<1>. QED  BY <1>6 DEF Live, Unlaunched
-----------------------------------------------------------------------------
(***************************************************************************)
(* What a step does to the runs, but for the one that fires a tick.        *)
(***************************************************************************)
\* A run stays the run it is, and what runs ends when its launch said.
Moved(i) ==
    /\ runs'[i].tick => runs[i].tick /\ runs'[i].slot = runs[i].slot
    /\ i \in Live' => runs'[i].ends = EndsAt(i) \/ (i \in Live /\ runs'[i].ends = runs[i].ends)

RunsMove == RunsTyped' /\ RoomIsLeft' /\ (\A i \in Run : Moved(i))

LEMMA NoRunTyped == NoRun \in RunType /\ NoRun.state = "none" /\ NoRun.tick = FALSE
BY ConstantFacts DEF NoRun, RunType

LEMMA EndsAtTyped ==
    ASSUME RowTyped, RunsTyped, NEW i \in Run
    PROVE  EndsAt(i) \in 0 .. Never
<1>1. routine.cron \in SUBSET (1 .. MaxTime)  BY ConstantFacts DEF RowTyped, Routine
<1>2. runs[i].slot \in 0 .. MaxTime  BY DEF RunsTyped, RunType
<1>. QED  BY <1>1, <1>2, NextTickFacts DEF EndsAt

LEMMA LaunchedTyped ==
    ASSUME RowTyped, RunsTyped, NEW i \in Run
    PROVE  /\ Launched(i) \in RunType
           /\ Launched(i).tick = runs[i].tick /\ Launched(i).slot = runs[i].slot
           /\ Launched(i).state = "launching" => Launched(i).ends = EndsAt(i)
           /\ Launched(i).state \in {"launching", "failed"}
<1>1. runs[i] \in RunType  BY DEF RunsTyped
<1>2. EndsAt(i) \in 0 .. Never /\ Never \in 0 .. Never  BY EndsAtTyped, ConstantFacts
<1> DEFINE over == EndsAt(i) <= now
<1>3. CASE over
  <2>1. Launched(i) = [runs[i] EXCEPT !.state = "failed", !.ends = Never]  BY <1>3 DEF Launched
  <2>. QED  BY <1>1, <1>2, <2>1 DEF RunType
<1>4. CASE ~over
  <2>1. Launched(i) = [runs[i] EXCEPT !.state = "launching", !.ends = EndsAt(i)]  BY <1>4 DEF Launched
  <2>. QED  BY <1>1, <1>2, <2>1 DEF RunType
<1>. QED  BY <1>3, <1>4

LEMMA RunsStay ==
    ASSUME RunsTyped, RoomIsLeft, UNCHANGED runs
    PROVE  RunsMove
BY DEF RunsMove, RunsTyped, RoomIsLeft, Live, Moved

\* One run is changed.
LEMMA RunIsSet ==
    ASSUME RunsTyped, RoomIsLeft, NEW i \in Run, NEW r \in RunType, runs' = [runs EXCEPT ![i] = r],
           r.tick => runs[i].tick /\ r.slot = runs[i].slot,
           \/ r.state \notin {"launching", "running"}
           \/ i \in Live /\ r.ends = runs[i].ends
           \/ RoomFor({i}) /\ r.ends = EndsAt(i)
    PROVE  RunsMove
<1>1. RunsTyped'  BY DEF RunsTyped
<1>2. runs'[i] = r /\ (\A j \in Run \ {i} : runs'[j] = runs[j])  BY DEF RunsTyped
<1>3. Live' \subseteq Live \cup {i}  BY <1>2 DEF Live
<1>4. \A j \in Run : Moved(j)  BY <1>2 DEF Moved, Live
<1>5. RoomIsLeft'
  <2>1. CASE RoomFor({i})  BY <1>3, <2>1, RoomIsKept
  <2>2. CASE ~RoomFor({i})
    <3>1. Live' \subseteq Live  BY <1>2, <1>3, <2>2 DEF Live
    <3>. QED  BY <3>1, RoomIsFreed
  <2>. QED  BY <2>1, <2>2
<1>. QED  BY <1>1, <1>4, <1>5 DEF RunsMove

\* A launch of one.
LEMMA RunIsLaunched ==
    ASSUME RowTyped, RunsTyped, RoomIsLeft, NEW i \in Run, RoomFor({i}), runs' = [runs EXCEPT ![i] = Launched(i)]
    PROVE  RunsMove
<1>. DEFINE r == Launched(i)
<1>1. /\ r \in RunType /\ (r.tick => runs[i].tick /\ r.slot = runs[i].slot)
      /\ r.state \notin {"launching", "running"} \/ (RoomFor({i}) /\ r.ends = EndsAt(i))
  BY LaunchedTyped
<1>. HIDE DEF r
<1>. QED  BY <1>1, RunIsSet DEF r

\* One is not launched, and what ran goes on.
LEMMA RunIsNotLaunched ==
    ASSUME RunsTyped, RoomIsLeft, NEW i \in Run, NEW r \in RunType, runs' = [runs EXCEPT ![i] = r],
           r = NoRun \/ (r.tick = runs[i].tick /\ r.slot = runs[i].slot),
           r.state \in {"none", "released", "failed"} \/ (i \in Live /\ r.ends = runs[i].ends)
    PROVE  RunsMove
BY RunIsSet, NoRunTyped

\* Every run is changed: launched, forgotten, or left where it is.
LEMMA RunsAreSet ==
    ASSUME RowTyped, RunsTyped, RoomIsLeft, NEW L \in SUBSET Run, L = {} \/ RoomFor(L),
           NEW f \in [Run -> RunType], runs' = f,
           \A i \in L : f[i] = Launched(i),
           \A i \in Run \ L :
               \/ f[i] = runs[i]
               \/ /\ f[i].state \notin {"launching", "running"}
                  /\ f[i].tick => runs[i].tick /\ f[i].slot = runs[i].slot
    PROVE  RunsMove
<1>1. RunsTyped'  BY DEF RunsTyped
<1>2. Live' \subseteq Live \cup L  BY DEF Live
<1>3. RoomIsLeft'
  <2>1. CASE L = {}  BY <1>2, <2>1, RoomIsFreed
  <2>2. CASE RoomFor(L)  BY <1>2, <2>2, RoomIsKept
  <2>. QED  BY <2>1, <2>2
<1>4. ASSUME NEW i \in Run PROVE Moved(i)
  <2>1. CASE i \in L  BY <2>1, LaunchedTyped DEF Moved, Live
  <2>2. CASE i \notin L  BY <2>2, LaunchedTyped DEF Moved, Live
  <2>. QED  BY <2>1, <2>2
<1>. QED  BY <1>1, <1>3, <1>4 DEF RunsMove

\* None is launched.
LEMMA RunsAreLeft ==
    ASSUME RunsTyped, RoomIsLeft, NEW f \in [Run -> RunType], runs' = f,
           \A i \in Run :
               \/ f[i] = runs[i]
               \/ /\ f[i].state \notin {"launching", "running"}
                  /\ f[i].tick => runs[i].tick /\ f[i].slot = runs[i].slot
    PROVE  RunsMove
<1>1. RunsTyped'  BY DEF RunsTyped
<1>2. Live' \subseteq Live  BY DEF Live
<1>3. RoomIsLeft'  BY <1>2, RoomIsFreed
<1>4. \A i \in Run : Moved(i)  BY DEF Moved, Live
<1>. QED  BY <1>1, <1>3, <1>4 DEF RunsMove

LEMMA StopsMoveRuns ==
    ASSUME RunsTyped, RoomIsLeft, StopsOverdue
    PROVE  RunsMove
<1> DEFINE overdue == {i \in Run : runs[i].state = "running" /\ runs[i].ends <= now}
           f       == [i \in Run |-> IF i \in overdue THEN NoRun ELSE runs[i]]
<1>1. runs' = f \/ UNCHANGED runs  BY DEF StopsOverdue
<1>2. CASE runs' = f
  <2>1. f \in [Run -> RunType]  BY NoRunTyped DEF RunsTyped
  <2>2. \A i \in Run : f[i] = runs[i] \/ f[i] = NoRun  OBVIOUS
  <2>3. NoRun.state \notin {"launching", "running"} /\ ~NoRun.tick  BY NoRunTyped
  <2>4. \A i \in Run : f[i] = runs[i] \/ (f[i].state \notin {"launching", "running"} /\ ~f[i].tick)
    BY <2>2, <2>3
  <2>. HIDE DEF f
  <2>. QED  BY <1>2, <2>1, <2>4, RunsAreLeft
<1>. QED  BY <1>1, <1>2, RunsStay

LEMMA StartsMoveRuns ==
    ASSUME RowTyped, RunsTyped, RoomIsLeft, StartsScheduled
    PROVE  RunsMove
<1> DEFINE due   == {i \in Run : runs[i].state = "queued" /\ runs[i].slot <= now}
           ready == IF due = {} THEN {} ELSE due \cup {i \in Run : runs[i].state = "released"}
           f == [i \in Run |-> IF i \in due THEN [runs[i] EXCEPT !.state = "released"] ELSE runs[i]]
           g == [i \in Run |-> IF i \in ready THEN Launched(i) ELSE runs[i]]
<1>1. runs' = f \/ (RoomFor(ready) /\ runs' = g)  BY DEF StartsScheduled
<1>2. CASE runs' = f
  <2>1. \A i \in Run : /\ [runs[i] EXCEPT !.state = "released"] \in RunType
                       /\ [runs[i] EXCEPT !.state = "released"].state = "released"
                       /\ [runs[i] EXCEPT !.state = "released"].tick = runs[i].tick
                       /\ [runs[i] EXCEPT !.state = "released"].slot = runs[i].slot
    BY DEF RunsTyped, RunType
  <2>2. f \in [Run -> RunType]  BY <2>1 DEF RunsTyped
  <2>3. \A i \in Run : f[i] = runs[i] \/ (f[i].state = "released" /\ f[i].tick = runs[i].tick /\ f[i].slot = runs[i].slot)
    BY <2>1
  <2>4. \A i \in Run :
            \/ f[i] = runs[i]
            \/ /\ f[i].state \notin {"launching", "running"}
               /\ f[i].tick => runs[i].tick /\ f[i].slot = runs[i].slot
    BY <2>3
  <2>. HIDE DEF f
  <2>. QED  BY <1>2, <2>2, <2>4, RunsAreLeft
<1>3. CASE RoomFor(ready) /\ runs' = g
  <2>1. g \in [Run -> RunType]  BY LaunchedTyped DEF RunsTyped
  <2>2. ready \in SUBSET Run  OBVIOUS
  <2>3. (\A i \in ready : g[i] = Launched(i)) /\ (\A i \in Run \ ready : g[i] = runs[i])  BY <2>2
  <2>. HIDE DEF g, ready
  <2>. QED  BY <1>3, <2>1, <2>2, <2>3, RunsAreSet
<1>. QED  BY <1>1, <1>2, <1>3

\* A new entry, and what it replaces.
ManualRun(slot) == [NoRun EXCEPT !.state = "queued", !.tick = FALSE, !.slot = slot]
TickRun(slot)   == [NoRun EXCEPT !.state = "queued", !.tick = TRUE, !.slot = slot]

LEMMA NewRunTyped ==
    ASSUME NEW slot \in 0 .. MaxTime
    PROVE  /\ ManualRun(slot) \in RunType /\ ManualRun(slot).state = "queued" /\ ManualRun(slot).tick = FALSE
           /\ TickRun(slot) \in RunType /\ TickRun(slot).state = "queued" /\ TickRun(slot).slot = slot
<1>1. NoRun \in RunType  BY NoRunTyped
<1>. QED  BY <1>1 DEF RunType, ManualRun, TickRun

LEMMA InsertedTyped ==
    ASSUME RunsTyped, RoomIsLeft, NEW new \in RunType, new.state = "queued",
           runs' = [i \in Run |-> IF i = Fresh THEN new ELSE IF Unlaunched(i) THEN NoRun ELSE runs[i]]
    PROVE  /\ Fresh \in Run /\ RunsTyped' /\ RoomIsLeft' /\ runs'[Fresh] = new /\ Fresh \notin Live'
           /\ \A i \in Run \ {Fresh} : Moved(i)
<1>1. Fresh \in Run  BY FreshIsNotLive
<1>2. RunsTyped'  BY NoRunTyped DEF RunsTyped
<1>3. runs'[Fresh] = new /\ (\A i \in Run \ {Fresh} : runs'[i] = NoRun \/ runs'[i] = runs[i])
  BY <1>1
<1>4. Live' \subseteq Live /\ Fresh \notin Live'  BY <1>1, <1>3, NoRunTyped DEF Live
<1>5. RoomIsLeft'  BY <1>4, RoomIsFreed
<1>6. \A i \in Run \ {Fresh} : Moved(i)  BY <1>3, NoRunTyped DEF Moved, Live
<1>. QED  BY <1>1, <1>2, <1>3, <1>4, <1>5, <1>6

LEMMA InsertMovesRuns ==
    ASSUME RunsTyped, RoomIsLeft, now \in 0 .. MaxTime, InsertRun(now, FALSE)
    PROVE  Fresh \in Run /\ RunsMove
<1> DEFINE new == ManualRun(now)
<1>1. new \in RunType /\ new.state = "queued" /\ new.tick = FALSE  BY NewRunTyped
<1>2. runs' = [i \in Run |-> IF i = Fresh THEN new ELSE IF Unlaunched(i) THEN NoRun ELSE runs[i]]
  BY DEF InsertRun, ManualRun
<1> HIDE DEF new
<1>3. /\ Fresh \in Run /\ RunsTyped' /\ RoomIsLeft' /\ runs'[Fresh] = new /\ Fresh \notin Live'
      /\ \A i \in Run \ {Fresh} : Moved(i)
  BY <1>1, <1>2, InsertedTyped
<1>4. Moved(Fresh)  BY <1>1, <1>3 DEF Moved
<1>. QED  BY <1>3, <1>4 DEF RunsMove

LEMMA RunActsMoveRuns ==
    ASSUME RowTyped, RunsTyped, RoomIsLeft, NEW i \in Run,
           RoomFrees(i) \/ LaunchEnds(i) \/ RunsAgain(i) \/ RunEnds(i)
    PROVE  RunsMove
<1>0. runs[i] \in RunType /\ Never \in 0 .. Never  BY ConstantFacts DEF RunsTyped
<1>1. CASE RoomFrees(i)  BY <1>1, RunIsLaunched DEF RoomFrees
<1>2. CASE RunEnds(i)  BY <1>2, RunIsNotLaunched, NoRunTyped DEF RunEnds
<1>3. CASE LaunchEnds(i)
  <2> DEFINE up   == [runs[i] EXCEPT !.state = "running"]
             down == [runs[i] EXCEPT !.state = "failed", !.ends = Never]
  <2>1. /\ up \in RunType /\ up.tick = runs[i].tick /\ up.slot = runs[i].slot /\ up.ends = runs[i].ends
        /\ down \in RunType /\ down.tick = runs[i].tick /\ down.slot = runs[i].slot /\ down.state = "failed"
    BY <1>0 DEF RunType
  <2>2. runs' = [runs EXCEPT ![i] = up] \/ runs' = [runs EXCEPT ![i] = down]  BY <1>3 DEF LaunchEnds
  <2>3. i \in Live  BY <1>3 DEF LaunchEnds, Live
  <2>. HIDE DEF up, down
  <2>. QED  BY <2>1, <2>2, <2>3, RunIsNotLaunched
<1>4. CASE RunsAgain(i)
  <2> DEFINE again == [runs[i] EXCEPT !.state = "released"]
  <2>1. again \in RunType /\ again.tick = runs[i].tick /\ again.slot = runs[i].slot /\ again.state = "released"
    BY <1>0 DEF RunType
  <2>2. (RoomFor({i}) /\ runs' = [runs EXCEPT ![i] = Launched(i)]) \/ runs' = [runs EXCEPT ![i] = again]
    BY <1>4 DEF RunsAgain
  <2>. HIDE DEF again
  <2>. QED  BY <2>1, <2>2, RunIsLaunched, RunIsNotLaunched
<1>. QED  BY <1>1, <1>2, <1>3, <1>4

LEMMA StartMovesRuns ==
    ASSUME RowTyped, RunsTyped, RoomIsLeft, NEW u \in User, request[u].run \in Run, RunStarts(u)
    PROVE  RunsMove
<1> DEFINE i == request[u].run
<1>1. i \in Run  OBVIOUS
<1>2. \/ RoomFor({i}) /\ runs' = [runs EXCEPT ![i] = Launched(i)]
      \/ runs' = [runs EXCEPT ![i] = NoRun]
      \/ UNCHANGED runs
  BY DEF RunStarts
<1> HIDE DEF i
<1>. QED  BY <1>1, <1>2, RunIsLaunched, RunIsNotLaunched, RunsStay, NoRunTyped

LEMMA RestartMovesRuns ==
    ASSUME RunsTyped, RoomIsLeft, Restarts
    PROVE  RunsMove
<1> DEFINE down(i) == [runs[i] EXCEPT !.state = "failed", !.ends = Never]
           f       == [i \in Run |-> IF runs[i].state = "launching" THEN down(i) ELSE runs[i]]
<1>0. Never \in 0 .. Never  BY ConstantFacts
<1>1. \A i \in Run : /\ down(i) \in RunType /\ down(i).state = "failed"
                     /\ down(i).tick = runs[i].tick /\ down(i).slot = runs[i].slot
  BY <1>0 DEF RunsTyped, RunType
<1>3. runs' = f  BY Zenon DEF Restarts
<1>. HIDE DEF down
<1>2. f \in [Run -> RunType]  BY <1>1 DEF RunsTyped
<1>4. \A i \in Run :
          \/ f[i] = runs[i]
          \/ /\ f[i].state \notin {"launching", "running"}
             /\ f[i].tick => runs[i].tick /\ f[i].slot = runs[i].slot
  BY <1>1
<1>. HIDE DEF f
<1>. QED  BY <1>2, <1>3, <1>4, RunsAreLeft
-----------------------------------------------------------------------------
(***************************************************************************)
(* Types.                                                                  *)
(***************************************************************************)
PausedHasNoNext == crossed \/ (routine.paused => routine.next = Never)
ListTyped  == listed \in [due : 0 .. Never, cron : Cron \cup {{}}, at : 0 .. MaxTime]
ListIsHeld == listed # NoList => Here("routines") /\ pass.running
\* What the step read was due then.
ListInTime == listed # NoList => listed.due <= listed.at /\ listed.at <= now
RequestTyped  == request \in [User -> Request]
StartsARun    == \A u \in User : request[u].op = "start" => request[u].run \in Run
HistoryTyped  == crossed \in BOOLEAN /\ recut \in BOOLEAN
LeftTyped     == left \in [users : Nat, changes : Nat, faults : Nat]

TypeInv ==
    /\ RowTyped /\ PausedHasNoNext /\ RunsTyped /\ RoomIsLeft
    /\ ListTyped /\ ListIsHeld /\ ListInTime /\ RequestTyped /\ StartsARun /\ HistoryTyped /\ LeftTyped

LEMMA SpendsTyped ==
    ASSUME LeftTyped, Spends("users") \/ Spends("changes") \/ Spends("faults")
    PROVE  LeftTyped'
<1>1. ASSUME Spends("users") PROVE LeftTyped'  BY <1>1 DEF Spends, LeftTyped
<1>2. ASSUME Spends("changes") PROVE LeftTyped'  BY <1>2 DEF Spends, LeftTyped
<1>3. ASSUME Spends("faults") PROVE LeftTyped'  BY <1>3 DEF Spends, LeftTyped
<1>. QED  BY <1>1, <1>2, <1>3

\* What a step spends.
LEMMA LeftKeepsType ==
    ASSUME LeftTyped, Next
    PROVE  LeftTyped'
<1> DEFINE Spent == Spends("users") \/ Spends("changes") \/ Spends("faults") \/ UNCHANGED left
<1>1. StepActs => Spent
  BY DEF StepActs, StopsOverdue, RoutinesRead, NoneDue, Fires, StartsScheduled, OtherStepEnds, routineVars
<1>2. LoopActs \/ Keeps(Tick) => Spent  BY <1>1 DEF LoopActs, Keeps, routineVars
<1>3. \A u \in User : UserActs(u) => Spent
  BY DEF UserActs, UserAsks, Asks, EditWrites, Pauses, ResumeWrites, RunInserts, RunStarts
<1>4. \A i \in Run : RoomFrees(i) \/ LaunchEnds(i) \/ RunsAgain(i) \/ RunEnds(i) => Spent
  BY DEF RoomFrees, LaunchEnds, RunsAgain, RunEnds
<1>5. Changes \/ Crash \/ Aborts => Spent  BY DEF Changes, Crash, Aborts
<1>6. Restarts => Spent  BY Zenon DEF Restarts
<1>7. Spent  BY <1>2, <1>3, <1>4, <1>5, <1>6 DEF Next
<1>8. UNCHANGED left => LeftTyped'  BY DEF LeftTyped
<1>. QED  BY <1>7, <1>8, SpendsTyped

\* What a step does to the runs.
LEMMA RunsMoveOrFire ==
    ASSUME LoopTypeOK, TypeInv, Next
    PROVE  RunsMove \/ Fires
<1>0. RowTyped /\ RunsTyped /\ RoomIsLeft /\ StartsARun /\ now \in 0 .. MaxTime  BY DEF TypeInv, LoopTypeOK
<1>1. StepActs => RunsMove \/ Fires
  <2>1. StopsOverdue => RunsMove  BY <1>0, StopsMoveRuns
  <2>2. StartsScheduled => RunsMove  BY <1>0, StartsMoveRuns
  <2>3. RoutinesRead \/ NoneDue \/ (\E ok \in BOOLEAN : OtherStepEnds(ok)) => UNCHANGED runs
    BY DEF RoutinesRead, NoneDue, OtherStepEnds, routineVars
  <2>. QED  BY <1>0, <2>1, <2>2, <2>3, RunsStay DEF StepActs
<1>2. LoopActs \/ Keeps(Tick) => UNCHANGED runs \/ StepActs  BY DEF LoopActs, Keeps, routineVars
<1>3. ASSUME NEW u \in User, UserActs(u) PROVE RunsMove
  <2>1. RunInserts(u) => RunsMove  BY <1>0, InsertMovesRuns DEF RunInserts
  <2>2. RunStarts(u) => RunsMove
    <3>1. RunStarts(u) => request[u].run \in Run  BY <1>0 DEF RunStarts, StartsARun
    <3>. QED  BY <1>0, <3>1, StartMovesRuns
  <2>3. UserAsks(u) \/ EditWrites(u) \/ Pauses(u) \/ ResumeWrites(u) => UNCHANGED runs
    BY DEF UserAsks, Asks, EditWrites, Pauses, ResumeWrites
  <2>. QED  BY <1>0, <1>3, <2>1, <2>2, <2>3, RunsStay DEF UserActs
<1>4. \A i \in Run : RoomFrees(i) \/ LaunchEnds(i) \/ RunsAgain(i) \/ RunEnds(i) => RunsMove
  BY <1>0, RunActsMoveRuns
<1>5. Changes \/ Crash \/ Aborts => UNCHANGED runs  BY DEF Changes, Crash, Aborts
<1>6. Restarts => RunsMove  BY <1>0, RestartMovesRuns
<1>. QED  BY <1>0, <1>1, <1>2, <1>3, <1>4, <1>5, <1>6, RunsStay DEF Next

\* What the routines step read stays until the step ends.
LEMMA ListIsKept ==
    ASSUME LoopTypeOK, TypeInv, Next
    PROVE  ListTyped' /\ ListIsHeld' /\ ListInTime'
<1>0. /\ ListTyped /\ ListIsHeld /\ ListInTime /\ RowTyped
      /\ now \in 0 .. MaxTime /\ pass \in Pass  BY DEF TypeInv, LoopTypeOK
<1>1. NoList \in [due : 0 .. Never, cron : Cron \cup {{}}, at : 0 .. MaxTime]  BY ConstantFacts DEF NoList
<1>2. CASE listed' = NoList  BY <1>1, <1>2 DEF ListTyped, ListIsHeld, ListInTime
<1>3. CASE RoutinesRead
  <2>1. listed' \in [due : 0 .. Never, cron : Cron \cup {{}}, at : 0 .. MaxTime]
    BY <1>0, <1>3 DEF RoutinesRead, RowTyped, Routine
  <2>2. listed'.due <= listed'.at /\ listed'.at <= now'
    BY <1>0, <1>3 DEF RoutinesRead, IsDue, loopVars
  <2>3. Here("routines")' /\ pass'.running  BY <1>3 DEF RoutinesRead, Here, Name, loopVars
  <2>. QED  BY <2>1, <2>2, <2>3 DEF ListTyped, ListIsHeld, ListInTime
<1> DEFINE Stays == pass'.at = pass.at /\ pass'.running = pass.running /\ phase' = phase /\ now' \in Nat /\ now <= now'
<1>4. ASSUME UNCHANGED listed, Stays
      PROVE  ListTyped' /\ ListIsHeld' /\ ListInTime'
  <2>1. listed # NoList => listed.at <= now'  BY <1>0, <1>4 DEF ListInTime, ListTyped
  <2>. QED  BY <1>0, <1>4, <2>1 DEF ListTyped, ListIsHeld, ListInTime, Here, Name
<1>5. ASSUME UNCHANGED listed, listed = NoList
      PROVE  ListTyped' /\ ListIsHeld' /\ ListInTime'
  BY <1>0, <1>5 DEF ListTyped, ListIsHeld, ListInTime
<1> DEFINE Kept == listed' = NoList \/ (UNCHANGED listed /\ (listed = NoList \/ Stays))
<1>6. UNCHANGED loopVars => Stays  BY <1>0 DEF loopVars
<1>7. listed # NoList => phase = "pass" /\ pass.running /\ pass.at <= Len(Steps) /\ Name = "routines"
  BY <1>0 DEF ListIsHeld, Here
<1>8. StepActs => Kept \/ RoutinesRead
  <2>1. StopsOverdue \/ StartsScheduled => UNCHANGED listed /\ listed = NoList
    BY <1>7 DEF StopsOverdue, StartsScheduled, Here
  <2>2. NoneDue \/ (\E ok \in BOOLEAN : OtherStepEnds(ok)) => UNCHANGED listed /\ listed = NoList
    BY <1>7 DEF NoneDue, OtherStepEnds, routineVars
  <2>3. Fires => listed' = NoList  BY DEF Fires
  <2>. QED  BY <2>1, <2>2, <2>3 DEF StepActs
<1>9. LoopActs => Kept \/ RoutinesRead
  <2>1. Wakes \/ PassStarts \/ StepSkipped \/ StepStarts \/ PassEnds => listed = NoList
    BY <1>7 DEF Wakes, PassStarts, StepSkipped, StepStarts, AtAStep, PassEnds
  <2>. QED  BY <1>8, <2>1 DEF LoopActs, Keeps, routineVars
<1>10. Keeps(Tick) => Kept
  <2>1. Tick => now' \in Nat /\ now <= now'  BY <1>0, ConstantFacts DEF Tick
  <2>. QED  BY <2>1 DEF Keeps, routineVars, Tick
<1>11. Changes => Kept
  <2>1. ASSUME NEW t \in Trigger, Change(t) PROVE Stays  BY <1>0, <2>1 DEF Change, Pass
  <2>. QED  BY <2>1 DEF Changes
<1>12. Aborts => Kept  BY <1>0 DEF Aborts, Abort
<1>13. Crash => Kept  BY DEF Crash
<1>14. Restarts => Kept
  <2>1. Restarts => phase = "exited"  BY Zenon DEF Restarts, Boots
  <2>2. Restarts => UNCHANGED listed  BY Zenon DEF Restarts
  <2>. QED  BY <1>7, <2>1, <2>2
<1>15. \A u \in User : UserActs(u) => UNCHANGED listed
  BY DEF UserActs, UserAsks, Asks, EditWrites, Pauses, ResumeWrites, RunInserts, RunStarts
<1>16. \A i \in Run : RoomFrees(i) \/ LaunchEnds(i) \/ RunsAgain(i) \/ RunEnds(i) => UNCHANGED listed
  BY DEF RoomFrees, LaunchEnds, RunsAgain, RunEnds
<1>17. Kept \/ RoutinesRead
  <2> HIDE DEF Stays
  <2>. QED
    BY <1>6, <1>9, <1>10, <1>11, <1>12, <1>13, <1>14, <1>15, <1>16, UserActsKeepLoop, RunActsKeepLoop DEF Next
<1>. QED  BY <1>2, <1>3, <1>4, <1>5, <1>17

LEMMA ListMoves == Next => UNCHANGED listed \/ RoutinesRead \/ listed' = NoList
<1>1. StepActs => UNCHANGED listed \/ RoutinesRead \/ listed' = NoList
  BY DEF StepActs, StopsOverdue, NoneDue, Fires, StartsScheduled, OtherStepEnds, routineVars
<1>2. LoopActs \/ Keeps(Tick) => UNCHANGED listed \/ RoutinesRead \/ listed' = NoList
  BY <1>1 DEF LoopActs, Keeps, routineVars
<1>3. \A u \in User : UserActs(u) => UNCHANGED listed
  BY DEF UserActs, UserAsks, Asks, EditWrites, Pauses, ResumeWrites, RunInserts, RunStarts
<1>4. \A i \in Run : RoomFrees(i) \/ LaunchEnds(i) \/ RunsAgain(i) \/ RunEnds(i) => UNCHANGED listed
  BY DEF RoomFrees, LaunchEnds, RunsAgain, RunEnds
<1>5. Changes \/ Aborts \/ Crash => UNCHANGED listed \/ listed' = NoList  BY DEF Changes, Aborts, Crash
<1>6. Restarts => UNCHANGED listed  BY Zenon DEF Restarts
<1>. QED  BY <1>2, <1>3, <1>4, <1>5, <1>6 DEF Next

LEMMA RequestIsKept ==
    ASSUME LoopTypeOK, TypeInv, Next
    PROVE  RequestTyped' /\ StartsARun'
<1>0. RequestTyped /\ StartsARun /\ RowTyped  BY DEF TypeInv
<1>1. CASE UNCHANGED request  BY <1>0, <1>1 DEF RequestTyped, StartsARun
<1>2. Idle \in Request /\ Idle.op = "none"  BY ConstantFacts DEF Idle, Request
<1>3. CASE request' = [u \in User |-> Idle]  BY <1>2, <1>3 DEF RequestTyped, StartsARun
<1>4. ASSUME NEW u \in User, NEW q \in Request, request' = [request EXCEPT ![u] = q], q.op = "start" => q.run \in Run
      PROVE  RequestTyped' /\ StartsARun'
  BY <1>0, <1>4 DEF RequestTyped, StartsARun
<1>5. ASSUME NEW u \in User, UserActs(u) PROVE RequestTyped' /\ StartsARun'
  <2>1. ASSUME Asks(u, "edit") PROVE RequestTyped' /\ StartsARun'
    <3> DEFINE q == [op |-> "edit", cron |-> routine.cron, paused |-> routine.paused, run |-> 0]
    <3>1. q \in Request /\ q.op # "start"  BY <1>0, ConstantFacts DEF RowTyped, Routine, Request
    <3>2. request' = [request EXCEPT ![u] = q]  BY <2>1 DEF Asks
    <3>. HIDE DEF q
    <3>. QED  BY <1>4, <3>1, <3>2
  <2>2. ASSUME Asks(u, "resume") PROVE RequestTyped' /\ StartsARun'
    <3> DEFINE q == [op |-> "resume", cron |-> routine.cron, paused |-> routine.paused, run |-> 0]
    <3>1. q \in Request /\ q.op # "start"  BY <1>0, ConstantFacts DEF RowTyped, Routine, Request
    <3>2. request' = [request EXCEPT ![u] = q]  BY <2>2 DEF Asks
    <3>. HIDE DEF q
    <3>. QED  BY <1>4, <3>1, <3>2
  <2>3. ASSUME RunInserts(u) PROVE RequestTyped' /\ StartsARun'
    <3> DEFINE q == [request[u] EXCEPT !.op = "start", !.run = Fresh]
    <3>1. Fresh \in Run  BY FreshIsNotLive DEF TypeInv
    <3>2. Fresh \in 0 .. MaxRun  BY <3>1, ConstantFacts DEF Run
    <3>3. q \in Request /\ q.run = Fresh  BY <1>0, <3>2 DEF RequestTyped, Request
    <3>4. request' = [request EXCEPT ![u] = q]  BY <2>3 DEF RunInserts
    <3>. HIDE DEF q
    <3>. QED  BY <1>4, <3>1, <3>3, <3>4
  <2>4. EditWrites(u) \/ ResumeWrites(u) \/ RunStarts(u) => request' = [request EXCEPT ![u] = Idle]
    BY DEF EditWrites, ResumeWrites, RunStarts, Answered
  <2>5. Pauses(u) => UNCHANGED request  BY DEF Pauses
  <2>. QED  BY <1>1, <1>2, <1>4, <1>5, <2>1, <2>2, <2>3, <2>4, <2>5 DEF UserActs, UserAsks
<1>6. StepActs => UNCHANGED request
  BY DEF StepActs, StopsOverdue, RoutinesRead, NoneDue, Fires, StartsScheduled, OtherStepEnds, routineVars
<1>7. LoopActs \/ Keeps(Tick) => UNCHANGED request  BY <1>6 DEF LoopActs, Keeps, routineVars
<1>8. \A i \in Run : RoomFrees(i) \/ LaunchEnds(i) \/ RunsAgain(i) \/ RunEnds(i) => UNCHANGED request
  BY DEF RoomFrees, LaunchEnds, RunsAgain, RunEnds
<1>9. Changes \/ Aborts => UNCHANGED request  BY DEF Changes, Aborts
<1>10. Crash => request' = [u \in User |-> Idle]  BY DEF Crash
<1>11. Restarts => request' = [u \in User |-> Idle]  BY Zenon DEF Restarts
<1>. QED  BY <1>1, <1>3, <1>5, <1>7, <1>8, <1>9, <1>10, <1>11 DEF Next

\* The tick that fires, as the step saw it.
FiringSlot == IF LatestRun(listed.cron, listed.at) = Never THEN listed.due ELSE LatestRun(listed.cron, listed.at)

FiresFor(slot) ==
    /\ routine.next = listed.due
    /\ routine' = [routine EXCEPT !.next = NextTick(listed.cron, listed.at), !.last = slot]
    /\ Fresh \in Run /\ runs'[Fresh] = TickRun(slot) /\ Fresh \notin Live'
    /\ \A i \in Run \ {Fresh} : Moved(i)

LEMMA FiringTyped ==
    ASSUME TypeInv, listed # NoList, now \in 0 .. MaxTime
    PROVE  /\ FiringSlot \in 0 .. MaxTime /\ FiringSlot <= listed.at
           /\ listed.cron \in SUBSET (1 .. MaxTime) /\ listed.at \in 0 .. MaxTime
<1>1. listed.cron \in SUBSET (1 .. MaxTime) /\ listed.at \in 0 .. MaxTime /\ listed.due \in 0 .. Never
  BY ConstantFacts DEF TypeInv, ListTyped
<1>2. listed.due <= listed.at  BY DEF TypeInv, ListInTime
<1>3. listed.due \in 0 .. MaxTime  BY <1>1, <1>2, ConstantFacts
<1>4. LatestRun(listed.cron, listed.at) = Never
      \/ (LatestRun(listed.cron, listed.at) \in listed.cron /\ LatestRun(listed.cron, listed.at) <= listed.at)
  BY <1>1, LatestRunFacts
<1>. QED  BY <1>1, <1>2, <1>3, <1>4 DEF FiringSlot

LEMMA FiresEffect ==
    ASSUME LoopTypeOK, TypeInv, Fires
    PROVE  /\ RowTyped' /\ PausedHasNoNext' /\ RunsTyped' /\ RoomIsLeft'
           /\ UNCHANGED <<routine, runs>> \/ FiresFor(FiringSlot)
<1>0. /\ RowTyped /\ PausedHasNoNext /\ RunsTyped /\ RoomIsLeft /\ now \in 0 .. MaxTime
      /\ listed # NoList /\ UNCHANGED <<crossed, recut>>
  BY DEF TypeInv, LoopTypeOK, Fires
<1>1. CASE UNCHANGED <<routine, runs>>
  <2>1. RunsMove  BY <1>0, <1>1, RunsStay
  <2>. QED  BY <1>0, <1>1, <2>1 DEF RunsMove, RowTyped, PausedHasNoNext
<1>2. ASSUME /\ routine.next = listed.due /\ ~routine.paused
             /\ routine' = [routine EXCEPT !.next = NextTick(listed.cron, listed.at), !.last = FiringSlot]
             /\ InsertRun(FiringSlot, TRUE)
      PROVE  RowTyped' /\ PausedHasNoNext' /\ RunsTyped' /\ RoomIsLeft' /\ FiresFor(FiringSlot)
  <2>1. FiringSlot \in 0 .. MaxTime /\ NextTick(listed.cron, listed.at) \in 0 .. Never
    BY <1>0, FiringTyped, NextTickFacts
  <2>2. RowTyped' /\ routine'.paused = routine.paused  BY <1>0, <1>2, <2>1 DEF RowTyped, Routine
  <2>3. PausedHasNoNext'  BY <1>0, <1>2, <2>2 DEF PausedHasNoNext
  <2> DEFINE new == TickRun(FiringSlot)
  <2>4. new \in RunType /\ new.state = "queued"  BY <2>1, NewRunTyped
  <2>5. runs' = [i \in Run |-> IF i = Fresh THEN new ELSE IF Unlaunched(i) THEN NoRun ELSE runs[i]]
    BY <1>2 DEF InsertRun, TickRun
  <2>6. /\ Fresh \in Run /\ RunsTyped' /\ RoomIsLeft' /\ runs'[Fresh] = new /\ Fresh \notin Live'
        /\ \A i \in Run \ {Fresh} : Moved(i)
    <3> HIDE DEF new
    <3>. QED  BY <1>0, <2>4, <2>5, InsertedTyped
  <2>. QED  BY <1>2, <2>2, <2>3, <2>6 DEF FiresFor
<1>3. UNCHANGED <<routine, runs>>
      \/ /\ routine.next = listed.due /\ ~routine.paused
         /\ routine' = [routine EXCEPT !.next = NextTick(listed.cron, listed.at), !.last = FiringSlot]
         /\ InsertRun(FiringSlot, TRUE)
  BY DEF Fires, FiringSlot
<1>. QED  BY <1>1, <1>2, <1>3

LEMMA RowStays ==
    Next => \/ UNCHANGED <<routine, crossed, recut>> \/ Fires
            \/ \E u \in User : EditWrites(u) \/ Pauses(u) \/ ResumeWrites(u)
<1> DEFINE Same == UNCHANGED <<routine, crossed, recut>>
<1>1. StepActs => Same \/ Fires
  BY DEF StepActs, StopsOverdue, RoutinesRead, NoneDue, StartsScheduled, OtherStepEnds, routineVars
<1>2. LoopActs \/ Keeps(Tick) => Same \/ Fires  BY <1>1 DEF LoopActs, Keeps, routineVars
<1>3. \A u \in User : UserAsks(u) \/ RunInserts(u) \/ RunStarts(u) => Same
  BY DEF UserAsks, Asks, RunInserts, RunStarts
<1>4. \A i \in Run : RoomFrees(i) \/ LaunchEnds(i) \/ RunsAgain(i) \/ RunEnds(i) => Same
  BY DEF RoomFrees, LaunchEnds, RunsAgain, RunEnds
<1>5. Changes \/ Crash \/ Aborts => Same  BY DEF Changes, Crash, Aborts
<1>6. Restarts => Same  BY Zenon DEF Restarts
<1>. QED  BY <1>2, <1>3, <1>4, <1>5, <1>6 DEF Next, UserActs

\* What the requests write.
LEMMA RequestsWrite ==
    ASSUME LoopTypeOK, TypeInv, NEW u \in User, EditWrites(u) \/ Pauses(u) \/ ResumeWrites(u)
    PROVE  RowTyped' /\ PausedHasNoNext' /\ HistoryTyped'
<1>0. /\ RowTyped /\ PausedHasNoNext /\ HistoryTyped /\ RequestTyped /\ now \in 0 .. MaxTime
  BY DEF TypeInv, LoopTypeOK
<1>1. \A c \in Cron : NextTick(c, now) \in 0 .. Never
  <2>1. \A c \in Cron : c \in SUBSET (1 .. MaxTime)  BY ConstantFacts
  <2>. QED  BY <1>0, <2>1, NextTickFacts
<1>2. CASE Pauses(u)
  <2>1. Never \in 0 .. Never  BY ConstantFacts
  <2>2. RowTyped' /\ routine'.next = Never  BY <1>0, <1>2, <2>1 DEF Pauses, RowTyped, Routine
  <2>. QED  BY <1>0, <1>2, <2>2 DEF Pauses, PausedHasNoNext, HistoryTyped
<1>3. CASE ResumeWrites(u)
  <2>1. request[u].cron \in SUBSET (1 .. MaxTime)  BY <1>0, ConstantFacts DEF RequestTyped, Request
  <2>2. NextTick(request[u].cron, now) \in 0 .. Never  BY <1>0, <2>1, NextTickFacts
  <2>3. RowTyped' /\ ~routine'.paused  BY <1>0, <1>3, <2>2 DEF ResumeWrites, RowTyped, Routine
  <2>. QED  BY <1>0, <1>3, <2>3 DEF ResumeWrites, PausedHasNoNext, HistoryTyped
<1>4. ASSUME EditWrites(u), NEW c \in Cron, routine' = Edited(u, c)
      PROVE  RowTyped' /\ PausedHasNoNext' /\ HistoryTyped'
  <2>1. CASE c # request[u].cron /\ ~request[u].paused
    <3>1. routine' = [routine EXCEPT !.cron = c, !.next = NextTick(c, now)]  BY <1>4, <2>1 DEF Edited
    <3>2. RowTyped' /\ routine'.paused = routine.paused  BY <1>0, <1>1, <3>1 DEF RowTyped, Routine
    <3>3. PausedHasNoNext'  BY <1>0, <1>4, <2>1, <3>2 DEF PausedHasNoNext, EditWrites, Crosses, HistoryTyped, RequestTyped, Request, RowTyped, Routine
    <3>. QED  BY <1>0, <1>4, <3>2, <3>3 DEF EditWrites, HistoryTyped
  <2>2. CASE ~(c # request[u].cron /\ ~request[u].paused)
    <3>1. routine' = [routine EXCEPT !.cron = c, !.next = routine.next]  BY <1>4, <2>2 DEF Edited
    <3>2. RowTyped' /\ routine'.paused = routine.paused /\ routine'.next = routine.next
      BY <1>0, <3>1 DEF RowTyped, Routine
    <3>3. PausedHasNoNext'  BY <1>0, <1>4, <3>2 DEF PausedHasNoNext, EditWrites
    <3>. QED  BY <1>0, <1>4, <3>2, <3>3 DEF EditWrites, HistoryTyped
  <2>. QED  BY <2>1, <2>2
<1>. QED  BY <1>2, <1>3, <1>4 DEF EditWrites

LEMMA TypesKept ==
    ASSUME LoopTypeOK, TypeInv, Next
    PROVE  TypeInv'
<1>0. /\ RowTyped /\ PausedHasNoNext /\ HistoryTyped /\ LeftTyped  BY DEF TypeInv
<1>1. RunsTyped' /\ RoomIsLeft'  BY RunsMoveOrFire, FiresEffect DEF RunsMove
<1>2. RowTyped' /\ PausedHasNoNext' /\ HistoryTyped'
  <2>1. CASE UNCHANGED <<routine, crossed, recut>>
    BY <1>0, <2>1 DEF RowTyped, PausedHasNoNext, HistoryTyped
  <2>2. CASE Fires  BY <1>0, <2>2, FiresEffect DEF Fires, HistoryTyped
  <2>. QED  BY <2>1, <2>2, RowStays, RequestsWrite
<1>. QED  BY <1>0, <1>1, <1>2, LeftKeepsType, ListIsKept, RequestIsKept DEF TypeInv

LEMMA InitTyped == Init => LoopInv /\ TypeInv
<1>. SUFFICES ASSUME Init PROVE LoopInv /\ TypeInv  OBVIOUS
<1>1. LoopInv  BY LoopInitTyped DEF Init
<1>2. PICK c \in Cron : routine = [cron |-> c, paused |-> FALSE, next |-> NextTick(c, 0), last |-> 0]  BY DEF Init
<1>3. 0 \in 0 .. MaxTime /\ c \in SUBSET (1 .. MaxTime)  BY ConstantFacts
<1>4. NextTick(c, 0) \in 0 .. Never  BY <1>3, NextTickFacts
<1>5. RowTyped /\ PausedHasNoNext  BY <1>2, <1>3, <1>4 DEF RowTyped, Routine, PausedHasNoNext
<1>6. RunsTyped /\ Live = {}  BY NoRunTyped DEF Init, RunsTyped, Live
<1>7. RoomIsLeft  BY <1>6, FS_EmptySet, ConstantFacts DEF RoomIsLeft
<1>8. ListTyped /\ ListIsHeld /\ ListInTime
  BY ConstantFacts DEF Init, ListTyped, ListIsHeld, ListInTime, NoList
<1>9. RequestTyped /\ StartsARun  BY ConstantFacts DEF Init, RequestTyped, StartsARun, Idle, Request
<1>10. HistoryTyped /\ LeftTyped  BY ConstantFacts DEF Init, HistoryTyped, LeftTyped
<1>. QED  BY <1>1, <1>5, <1>6, <1>7, <1>8, <1>9, <1>10 DEF TypeInv

LEMMA TypeInvHolds == Spec => [](LoopInv /\ TypeInv)
<1>1. Init => LoopInv /\ TypeInv  BY InitTyped
<1>2. LoopInv /\ TypeInv /\ [Next]_vars => (LoopInv /\ TypeInv)'
  <2>1. CASE Next
    BY <2>1, ActsAreLoops, LoopKeepsInv, LoopStutters, TypesKept DEF LoopInv
  <2>2. CASE UNCHANGED vars
    <3>1. LoopInv => LoopInv'  BY <2>2, LoopStutters DEF vars
    <3>2. TypeInv => TypeInv'
      BY <2>2 DEF vars, routineVars, loopVars, TypeInv, RowTyped, PausedHasNoNext, RunsTyped, RoomIsLeft, Live, ListTyped,
           ListIsHeld, Here, Name, ListInTime, RequestTyped, StartsARun, HistoryTyped, LeftTyped
    <3>. QED  BY <3>1, <3>2
  <2>. QED  BY <2>1, <2>2
<1>. QED  BY <1>1, <1>2, PTL DEF Spec

\* The variables have their types, the step that fires ticks is under way
\* whenever it holds what it read, and a paused routine has no next tick
\* unless a request wrote over a schedule it had not read.
THEOREM TypeCorrect == Spec => []TypeOK
<1>1. LoopInv /\ TypeInv => TypeOK
  BY DEF LoopInv, TypeInv, TypeOK, RowTyped, PausedHasNoNext, RunsTyped, ListTyped, ListIsHeld, RequestTyped,
       HistoryTyped, LeftTyped
<1>. QED  BY <1>1, TypeInvHolds, PTL
-----------------------------------------------------------------------------
(***************************************************************************)
(* Each tick has one run.                                                  *)
(***************************************************************************)
\* The next tick is one of the cron's, later than any that has fired.
NextIsTick ==
    ~crossed => routine.next = Never \/ (routine.next \in routine.cron /\ routine.next > routine.last)

\* What a step read is what it will fire, or the routine has moved on.
ListIsCurrent ==
    ~crossed /\ listed # NoList =>
        routine.next > listed.at \/ (routine.next = listed.due /\ routine.cron = listed.cron)

LastIsPast == routine.last <= now

SlotsArePast == ~crossed => \A i \in Run : runs[i].tick => runs[i].slot <= routine.last

SlotsDiffer ==
    ~crossed => \A i, j \in Run : runs[i].tick /\ runs[j].tick /\ i # j => runs[i].slot # runs[j].slot

\* A tick's run is of a tick the cron has, and ends at the next.
RunsEndByNext ==
    ~crossed /\ ~recut =>
        \A i \in Run : runs[i].tick =>
            /\ runs[i].slot \in routine.cron
            /\ i \in Live => runs[i].ends = EndsAt(i)

ScheduleInv == NextIsTick /\ ListIsCurrent /\ LastIsPast /\ SlotsArePast /\ SlotsDiffer /\ RunsEndByNext

\* A step that changes no schedule.
LEMMA ScheduleOfMoves ==
    ASSUME LoopTypeOK, LoopTypeOK', TypeInv, TypeInv', ScheduleInv, Next, RunsMove, UNCHANGED <<routine, crossed, recut>>
    PROVE  ScheduleInv'
<1>0. /\ now \in Nat /\ now' \in Nat /\ now <= now'
  <2>1. UNCHANGED loopVars => now <= now'  BY DEF loopVars, LoopTypeOK
  <2>2. Tick => now <= now'  BY ConstantFacts DEF Tick, LoopTypeOK
  <2>3. LoopNext /\ ~Tick => now' = now
    BY DEF LoopNext, Change, Wakes, PassStarts, StepSkipped, StepStarts, StepEnds, PassEnds, Abort, Dies, Boots
  <2>. QED  BY <2>1, <2>2, <2>3, ActsAreLoops DEF LoopTypeOK
<1>1. NextIsTick'  BY DEF ScheduleInv, NextIsTick
<1>2. LastIsPast'
  <2>1. routine.last \in Nat  BY DEF TypeInv, RowTyped, Routine
  <2>. QED  BY <1>0, <2>1 DEF ScheduleInv, LastIsPast
<1>3. \A i \in Run : Moved(i)  BY DEF RunsMove
<1>4. SlotsArePast' /\ SlotsDiffer'  BY <1>3 DEF ScheduleInv, SlotsArePast, SlotsDiffer, Moved
<1>5. RunsEndByNext'
  <2>1. SUFFICES ASSUME ~crossed, ~recut, NEW i \in Run, runs'[i].tick
                 PROVE  /\ runs'[i].slot \in routine'.cron
                        /\ i \in Live' => runs'[i].ends = EndsAt(i)'
    BY DEF RunsEndByNext
  <2>2. runs[i].tick /\ runs'[i].slot = runs[i].slot  BY <1>3, <2>1 DEF Moved
  <2>3. EndsAt(i)' = EndsAt(i)  BY <2>2 DEF EndsAt
  <2>. QED  BY <1>3, <2>1, <2>2, <2>3 DEF ScheduleInv, RunsEndByNext, Moved
<1>6. ListIsCurrent'
  <2>1. CASE listed' = NoList  BY <2>1 DEF ListIsCurrent
  <2>2. CASE UNCHANGED listed  BY <2>2 DEF ScheduleInv, ListIsCurrent
  <2>3. CASE RoutinesRead  BY <2>3 DEF RoutinesRead, ListIsCurrent
  <2>. QED  BY <2>1, <2>2, <2>3, ListMoves
<1>. QED  BY <1>1, <1>2, <1>4, <1>5, <1>6 DEF ScheduleInv

\* A tick fires: it is later than any before, whose runs stay as they are.
LEMMA ScheduleOfFire ==
    ASSUME LoopTypeOK, TypeInv, TypeInv', ScheduleInv, Fires, FiresFor(FiringSlot)
    PROVE  ScheduleInv' /\ (~crossed' => routine'.last > routine.last)
<1>0. /\ now \in 0 .. MaxTime /\ listed # NoList /\ listed' = NoList /\ UNCHANGED <<now, crossed, recut>>
      /\ RowTyped /\ RunsTyped /\ ListInTime
  BY DEF LoopTypeOK, Fires, StepEnds, TypeInv
<1>1. /\ FiringSlot \in 0 .. MaxTime /\ FiringSlot <= listed.at
      /\ listed.cron \in SUBSET (1 .. MaxTime) /\ listed.at \in 0 .. MaxTime
  BY <1>0, FiringTyped
<1>2. /\ routine'.last = FiringSlot /\ routine'.cron = routine.cron
      /\ routine'.next = NextTick(listed.cron, listed.at)
  BY <1>0 DEF FiresFor, RowTyped, Routine
<1>3. ListIsCurrent'  BY <1>0 DEF ListIsCurrent
<1>4. LastIsPast'  BY <1>0, <1>1, <1>2 DEF LastIsPast, ListInTime
<1>5. ASSUME ~crossed
      PROVE  /\ routine.cron = listed.cron /\ FiringSlot \in listed.cron /\ FiringSlot > routine.last
  <2>1. routine.next = listed.due  BY DEF FiresFor
  <2>2. listed.due <= listed.at /\ listed.due \in 0 .. MaxTime
    BY <1>0, <1>1, <2>1, ConstantFacts DEF ListInTime, RowTyped, Routine
  <2>3. routine.cron = listed.cron  BY <1>0, <1>1, <1>5, <2>1, <2>2 DEF ScheduleInv, ListIsCurrent
  <2>4. listed.due \in listed.cron /\ listed.due > routine.last
    BY <1>5, <2>1, <2>2, <2>3, ConstantFacts DEF ScheduleInv, NextIsTick
  <2>5. LatestRun(listed.cron, listed.at) \in listed.cron /\ LatestRun(listed.cron, listed.at) >= listed.due
    BY <1>1, <2>2, <2>4, LatestRunFacts
  <2>6. FiringSlot \in listed.cron /\ FiringSlot >= listed.due  BY <2>2, <2>4, <2>5 DEF FiringSlot
  <2>7. routine.last \in Nat  BY <1>0 DEF RowTyped, Routine
  <2>. QED  BY <1>1, <2>2, <2>3, <2>4, <2>6, <2>7
<1>6. NextIsTick'
  <2>1. NextTick(listed.cron, listed.at) = Never \/ NextTick(listed.cron, listed.at) \in listed.cron
    BY <1>1, NextTickFacts
  <2>2. NextTick(listed.cron, listed.at) > listed.at /\ NextTick(listed.cron, listed.at) \in 0 .. Never
    BY <1>1, NextTickFacts
  <2>3. NextTick(listed.cron, listed.at) > FiringSlot  BY <1>1, <2>2, ConstantFacts
  <2>. QED  BY <1>0, <1>2, <1>5, <2>1, <2>3 DEF NextIsTick
<1>7. /\ Fresh \in Run /\ runs'[Fresh].slot = FiringSlot /\ Fresh \notin Live'
      /\ \A i \in Run \ {Fresh} : Moved(i)
  BY <1>1, NewRunTyped DEF FiresFor
<1>8. ASSUME ~crossed, NEW i \in Run \ {Fresh}, runs'[i].tick
      PROVE  /\ runs[i].tick /\ runs'[i].slot = runs[i].slot
             /\ runs'[i].slot <= routine.last /\ runs'[i].slot < FiringSlot
  <2>1. runs[i].tick /\ runs'[i].slot = runs[i].slot  BY <1>7, <1>8 DEF Moved
  <2>2. runs[i].slot <= routine.last  BY <1>8, <2>1 DEF ScheduleInv, SlotsArePast
  <2>3. runs[i].slot \in Nat /\ routine.last \in Nat  BY <1>0 DEF RunsTyped, RunType, RowTyped, Routine
  <2>. QED  BY <1>1, <1>5, <1>8, <2>1, <2>2, <2>3
<1>9. SlotsArePast'
  <2>1. SUFFICES ASSUME ~crossed, NEW i \in Run, runs'[i].tick PROVE runs'[i].slot <= FiringSlot
    BY <1>0, <1>2 DEF SlotsArePast
  <2>2. CASE i = Fresh  BY <1>1, <1>7, <2>2
  <2>3. CASE i # Fresh
    <3>1. runs'[i].slot < FiringSlot /\ runs'[i].slot \in Nat
      BY <1>0, <1>8, <2>1, <2>3 DEF RunsTyped, RunType
    <3>. QED  BY <1>1, <3>1
  <2>. QED  BY <2>2, <2>3
<1>10. SlotsDiffer'
  <2>1. SUFFICES ASSUME ~crossed, NEW i \in Run, NEW j \in Run, runs'[i].tick, runs'[j].tick, i # j
                 PROVE  runs'[i].slot # runs'[j].slot
    BY <1>0 DEF SlotsDiffer
  <2>2. CASE i # Fresh /\ j # Fresh
    BY <1>8, <2>1, <2>2 DEF ScheduleInv, SlotsDiffer
  <2>3. ASSUME NEW k \in Run \ {Fresh}, runs'[k].tick PROVE runs'[k].slot # FiringSlot
    BY <1>0, <1>1, <1>8, <2>1, <2>3 DEF RunsTyped, RunType
  <2>. QED  BY <1>7, <2>1, <2>2, <2>3
<1>11. RunsEndByNext'
  <2>1. SUFFICES ASSUME ~crossed, ~recut, NEW i \in Run, runs'[i].tick
                 PROVE  /\ runs'[i].slot \in routine'.cron
                        /\ i \in Live' => runs'[i].ends = EndsAt(i)'
    BY <1>0 DEF RunsEndByNext
  <2>2. CASE i = Fresh  BY <1>2, <1>5, <1>7, <2>1, <2>2
  <2>3. CASE i # Fresh
    <3>1. runs[i].tick /\ runs'[i].slot = runs[i].slot  BY <1>8, <2>1, <2>3
    <3>2. EndsAt(i)' = EndsAt(i)  BY <1>2, <3>1 DEF EndsAt
    <3>3. Moved(i)  BY <1>7, <2>3
    <3>. QED  BY <1>2, <2>1, <3>1, <3>2, <3>3 DEF ScheduleInv, RunsEndByNext, Moved
  <2>. QED  BY <2>2, <2>3
<1>12. ~crossed' => routine'.last > routine.last  BY <1>0, <1>2, <1>5
<1>. QED  BY <1>3, <1>4, <1>6, <1>9, <1>10, <1>11, <1>12 DEF ScheduleInv

\* What the requests write: the next tick from now on, none, or the one there
\* was of the same cron.
LEMMA RequestsMoveNext ==
    ASSUME TypeInv, NEW u \in User, EditWrites(u) \/ Pauses(u) \/ ResumeWrites(u)
    PROVE  /\ routine'.last = routine.last /\ UNCHANGED <<loopVars, runs, listed>>
           /\ ~crossed' =>
                /\ ~crossed
                /\ \/ routine'.next = NextTick(routine'.cron, now)
                   \/ routine'.next = Never
                   \/ routine'.next = routine.next /\ routine'.cron = routine.cron
           /\ ~recut' => ~recut /\ (routine'.cron = routine.cron \/ \A i \in Run : ~runs[i].tick)
<1>0. RowTyped /\ PausedHasNoNext  BY DEF TypeInv
<1>1. CASE Pauses(u)
  <2>1. routine'.last = routine.last /\ routine'.next = Never /\ routine'.cron = routine.cron
    BY <1>0, <1>1 DEF Pauses, RowTyped, Routine
  <2>. QED  BY <1>1, <2>1 DEF Pauses
<1>2. CASE ResumeWrites(u)
  <2>1. /\ routine'.last = routine.last /\ routine'.next = NextTick(request[u].cron, now)
        /\ routine'.cron = routine.cron
    BY <1>0, <1>2 DEF ResumeWrites, RowTyped, Routine
  <2>. QED  BY <1>2, <2>1 DEF ResumeWrites
<1>3. ASSUME EditWrites(u), NEW c \in Cron, routine' = Edited(u, c)
      PROVE  /\ routine'.last = routine.last
             /\ ~crossed' =>
                  \/ routine'.next = NextTick(routine'.cron, now)
                  \/ routine'.next = Never
                  \/ routine'.next = routine.next /\ routine'.cron = routine.cron
  <2>0. ~crossed' => ~crossed /\ routine.cron = request[u].cron /\ routine.paused = request[u].paused
    BY <1>3 DEF EditWrites, Crosses
  <2>1. CASE c # request[u].cron /\ ~request[u].paused
    <3>1. routine' = [routine EXCEPT !.cron = c, !.next = NextTick(c, now)]  BY <1>3, <2>1 DEF Edited
    <3>2. routine'.last = routine.last /\ routine'.cron = c /\ routine'.next = NextTick(c, now)
      BY <1>0, <3>1 DEF RowTyped, Routine
    <3>. QED  BY <3>2
  <2>2. CASE ~(c # request[u].cron /\ ~request[u].paused)
    <3>1. routine' = [routine EXCEPT !.cron = c, !.next = routine.next]  BY <1>3, <2>2 DEF Edited
    <3>2. routine'.last = routine.last /\ routine'.cron = c /\ routine'.next = routine.next
      BY <1>0, <3>1 DEF RowTyped, Routine
    <3>. QED  BY <1>0, <2>0, <2>2, <3>2 DEF PausedHasNoNext
  <2>. QED  BY <2>1, <2>2
<1>4. EditWrites(u) => /\ UNCHANGED <<loopVars, runs, listed>> /\ (crossed => crossed')
                       /\ ~recut' => ~recut /\ (routine'.cron = routine.cron \/ \A i \in Run : ~runs[i].tick)
  BY DEF EditWrites
<1>5. EditWrites(u) => \E c \in Cron : routine' = Edited(u, c)  BY DEF EditWrites
<1>. QED  BY <1>1, <1>2, <1>3, <1>4, <1>5

LEMMA ScheduleOfRequests ==
    ASSUME LoopTypeOK, TypeInv, TypeInv', ScheduleInv, NEW u \in User, EditWrites(u) \/ Pauses(u) \/ ResumeWrites(u)
    PROVE  ScheduleInv' /\ routine'.last = routine.last
<1>0. /\ routine'.last = routine.last /\ UNCHANGED <<loopVars, runs, listed>>
      /\ ~crossed' =>
           /\ ~crossed
           /\ \/ routine'.next = NextTick(routine'.cron, now)
              \/ routine'.next = Never
              \/ routine'.next = routine.next /\ routine'.cron = routine.cron
      /\ ~recut' => ~recut /\ (routine'.cron = routine.cron \/ \A i \in Run : ~runs[i].tick)
  BY RequestsMoveNext
<1>1. /\ now \in 0 .. MaxTime /\ now' = now /\ RowTyped /\ RowTyped' /\ ListInTime /\ ListTyped
  BY <1>0 DEF LoopTypeOK, TypeInv, loopVars
<1>2. /\ routine'.cron \in SUBSET (1 .. MaxTime) /\ routine.last \in 0 .. MaxTime
      /\ routine'.next \in 0 .. Never /\ listed.at \in 0 .. MaxTime
  BY <1>1, ConstantFacts DEF RowTyped, Routine, ListTyped
<1>3. /\ NextTick(routine'.cron, now) > now /\ NextTick(routine'.cron, now) \in 0 .. Never
      /\ NextTick(routine'.cron, now) = Never \/ NextTick(routine'.cron, now) \in routine'.cron
  BY <1>1, <1>2, NextTickFacts
<1>4. LastIsPast'  BY <1>0, <1>1 DEF ScheduleInv, LastIsPast
<1>5. NextIsTick'
  <2>1. NextTick(routine'.cron, now) > routine.last  BY <1>1, <1>2, <1>3, ConstantFacts DEF ScheduleInv, LastIsPast
  <2>. QED  BY <1>0, <1>3, <2>1 DEF ScheduleInv, NextIsTick
<1>6. ListIsCurrent'
  <2>1. listed # NoList => NextTick(routine'.cron, now) > listed.at /\ Never > listed.at
    BY <1>1, <1>2, <1>3, ConstantFacts DEF ListInTime
  <2>. QED  BY <1>0, <2>1 DEF ScheduleInv, ListIsCurrent
<1>7. SlotsArePast' /\ SlotsDiffer'  BY <1>0 DEF ScheduleInv, SlotsArePast, SlotsDiffer
<1>8. RunsEndByNext'
  <2>1. SUFFICES ASSUME ~crossed', ~recut', NEW i \in Run, runs[i].tick
                 PROVE  /\ runs[i].slot \in routine'.cron
                        /\ i \in Live' => runs[i].ends = EndsAt(i)'
    BY <1>0 DEF RunsEndByNext
  <2>2. routine'.cron = routine.cron /\ Live' = Live  BY <1>0, <2>1 DEF Live
  <2>3. EndsAt(i)' = EndsAt(i)  BY <1>0, <2>2 DEF EndsAt
  <2>. QED  BY <1>0, <2>1, <2>2, <2>3 DEF ScheduleInv, RunsEndByNext
<1>. QED  BY <1>0, <1>4, <1>5, <1>6, <1>7, <1>8 DEF ScheduleInv

LEMMA ScheduleKept ==
    ASSUME LoopTypeOK, LoopTypeOK', TypeInv, TypeInv', ScheduleInv, Next
    PROVE  ScheduleInv' /\ (~crossed' /\ routine'.last # routine.last => routine'.last > routine.last)
<1>1. CASE Fires
  <2>1. UNCHANGED <<routine, runs>> => RunsMove  BY RunsStay DEF TypeInv
  <2>2. UNCHANGED <<crossed, recut>>  BY <1>1 DEF Fires
  <2>. QED  BY <1>1, <2>1, <2>2, FiresEffect, ScheduleOfFire, ScheduleOfMoves
<1>2. CASE UNCHANGED <<routine, crossed, recut>> /\ ~Fires
  BY <1>2, RunsMoveOrFire, ScheduleOfMoves
<1>. QED  BY <1>1, <1>2, RowStays, ScheduleOfRequests

\* A tick's run has ended by the time of any later tick that has a run.
LEMMA EndsBeforeLater ==
    ASSUME TypeInv, ScheduleInv, ~crossed, ~recut, NEW i \in Run, NEW j \in Run,
           runs[i].tick, runs[j].tick, i # j, runs[i].slot <= runs[j].slot
    PROVE  /\ runs[i].slot # runs[j].slot
           /\ runs[i].state \in {"launching", "running"} => runs[i].ends <= runs[j].slot
<1>1. runs[i].slot # runs[j].slot  BY DEF ScheduleInv, SlotsDiffer
<1>2. runs[i].slot \in 0 .. MaxTime /\ runs[j].slot \in 0 .. MaxTime  BY DEF TypeInv, RunsTyped, RunType
<1>3. routine.cron \in SUBSET (1 .. MaxTime)  BY ConstantFacts DEF TypeInv, RowTyped, Routine
<1>4. runs[j].slot \in routine.cron /\ runs[j].slot > runs[i].slot
  BY <1>1, <1>2 DEF ScheduleInv, RunsEndByNext
<1>5. EndsAt(i) <= runs[j].slot  BY <1>2, <1>3, <1>4, NextTickFacts DEF EndsAt
<1>6. i \in Live => runs[i].ends = EndsAt(i)  BY DEF ScheduleInv, RunsEndByNext
<1>. QED  BY <1>1, <1>5, <1>6 DEF Live

LEMMA InitScheduled == Init => ScheduleInv
<1>. SUFFICES ASSUME Init PROVE ScheduleInv  OBVIOUS
<1>1. PICK c \in Cron : routine = [cron |-> c, paused |-> FALSE, next |-> NextTick(c, 0), last |-> 0]  BY DEF Init
<1>2. 0 \in 0 .. MaxTime /\ c \in SUBSET (1 .. MaxTime)  BY ConstantFacts
<1>3. NextTick(c, 0) > 0 /\ (NextTick(c, 0) = Never \/ NextTick(c, 0) \in c)  BY <1>2, NextTickFacts
<1>4. now = 0  BY DEF Init, LoopInit
<1>5. (\A i \in Run : ~runs[i].tick) /\ listed = NoList  BY NoRunTyped DEF Init
<1>. QED  BY <1>1, <1>3, <1>4, <1>5 DEF ScheduleInv, NextIsTick, ListIsCurrent, LastIsPast, SlotsArePast, SlotsDiffer,
            RunsEndByNext

LEMMA ScheduleStutters ==
    ASSUME UNCHANGED vars, ScheduleInv
    PROVE  ScheduleInv' /\ routine'.last = routine.last
BY DEF vars, loopVars, routineVars, ScheduleInv, NextIsTick, ListIsCurrent, LastIsPast, SlotsArePast, SlotsDiffer,
       RunsEndByNext, Live, EndsAt

\* A tick that fires is later than any that has, and of two ticks' runs the
\* earlier is to end before the later one's tick: updateRoutine,
\* setRoutinePaused, fire and nextRunOf agree on what the next tick is.
THEOREM OneRunPerTickCorrect == Spec => OneRunPerTick
<1> DEFINE Later == ~crossed' /\ routine'.last # routine.last => routine'.last > routine.last
           Apart == ~crossed' /\ ~recut' =>
                \A i, j \in Run :
                    runs'[i].tick /\ runs'[j].tick /\ i # j /\ runs'[i].slot <= runs'[j].slot
                        => /\ runs'[i].slot # runs'[j].slot
                           /\ runs'[i].state \in {"launching", "running"} => runs'[i].ends <= runs'[j].slot
           Each == /\ ~crossed' /\ routine'.last # routine.last => routine'.last > routine.last
                   /\ ~crossed' /\ ~recut' =>
                        \A i, j \in Run :
                            runs'[i].tick /\ runs'[j].tick /\ i # j /\ runs'[i].slot <= runs'[j].slot
                                => /\ runs'[i].slot # runs'[j].slot
                                   /\ runs'[i].state \in {"launching", "running"} => runs'[i].ends <= runs'[j].slot
           AllInv == LoopInv /\ TypeInv
<1>1. Init => ScheduleInv  BY InitScheduled
<1>2. AllInv /\ AllInv' /\ ScheduleInv /\ [Next]_vars => ScheduleInv' /\ Later
  BY ScheduleKept, ScheduleStutters DEF LoopInv
<1>3. AllInv' /\ ScheduleInv' => Apart
  <2>1. TypeInv /\ ScheduleInv /\ ~crossed /\ ~recut =>
            \A i, j \in Run :
                runs[i].tick /\ runs[j].tick /\ i # j /\ runs[i].slot <= runs[j].slot
                    => /\ runs[i].slot # runs[j].slot
                       /\ runs[i].state \in {"launching", "running"} => runs[i].ends <= runs[j].slot
    BY EndsBeforeLater
  <2>2. (TypeInv /\ ScheduleInv /\ ~crossed /\ ~recut =>
            \A i, j \in Run :
                runs[i].tick /\ runs[j].tick /\ i # j /\ runs[i].slot <= runs[j].slot
                    => /\ runs[i].slot # runs[j].slot
                       /\ runs[i].state \in {"launching", "running"} => runs[i].ends <= runs[j].slot)'
    BY <2>1, PTL
  <2>. QED  BY <2>2
<1>4. Later /\ Apart => Each  OBVIOUS
<1> HIDE DEF Later, Apart
<1>5. Spec => []AllInv  BY TypeInvHolds
<1>6. AllInv /\ AllInv' /\ ScheduleInv /\ [Next]_vars => ScheduleInv' /\ [Each]_vars
  <2> HIDE DEF AllInv, Each
  <2>. QED  BY <1>2, <1>3, <1>4
<1>. QED  BY <1>1, <1>5, <1>6, PTL DEF Spec, OneRunPerTick
=============================================================================
