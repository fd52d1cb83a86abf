----------------------------- MODULE Reconciler -----------------------------
(***************************************************************************)
(* The reconcile loop (main/reconciler.ts): changes and a timer mark work, *)
(* and one pass at a time runs the steps the marks it took call for.       *)
(*                                                                         *)
(* A step is the whole call the loop awaits: it asks for the pass's        *)
(* snapshot, and ends well or in an error. A module that extends this one  *)
(* says what some of the steps do. Time is counted in halves of the resync *)
(* interval, the slack the loop gives its timed steps.                     *)
(***************************************************************************)
EXTENDS Naturals, Sequences

CONSTANTS
    Steps,      \* the steps' names, in order
    TriggersOf, \* the changes each step runs for
    Reads,      \* the steps that ask for the snapshot of the runtime
    Every,      \* how often a timed step runs; 0 for one that is not timed
    MaxTime     \* bound on the clock

Resync == 2

StepName == {Steps[i] : i \in 1 .. Len(Steps)}
Trigger  == UNION {TriggersOf[n] : n \in StepName}
Timed    == {n \in StepName : Every[n] # 0}

ASSUME ReconcilerAssumption ==
    /\ Steps \in Seq(STRING) /\ Len(Steps) > 0
    /\ \A i, j \in 1 .. Len(Steps) : Steps[i] = Steps[j] => i = j
    /\ DOMAIN TriggersOf = StepName /\ "resync" \notin Trigger
    /\ {n \in StepName : TriggersOf[n] # {}} \subseteq Reads
    /\ \A n \in StepName : Every[n] \in Nat /\ (Every[n] # 0 => Every[n] % Resync = 0 /\ Every[n] > Resync)
    /\ \A n \in Timed : TriggersOf[n] = {}
    /\ MaxTime \in Nat

Never == MaxTime + 1

VARIABLES
    now,
    phase,   \* where the loop is
    dirty,   \* the marks no pass has taken
    pass,    \* the pass under way
    lastRun, \* when each timed step last ran: the start of that pass
    aborted, \* the server is shutting down
    unseen   \* history: changes that a step has not run for yet

loopVars == <<now, phase, dirty, pass, lastRun, aborted, unseen>>

\* `at` is the step the pass has come to, `shot` that the snapshot has been
\* taken, `missed` the changes that came after it.
NoPass == [taken |-> {}, startedAt |-> 0, at |-> 1, running |-> FALSE, shot |-> FALSE, missed |-> {}]

Pass == [taken : SUBSET (Trigger \cup {"resync"}), startedAt : 0 .. MaxTime, at : 1 .. Len(Steps) + 1,
         running : BOOLEAN, shot : BOOLEAN, missed : SUBSET Trigger]

LoopTypeOK ==
    /\ now \in 0 .. MaxTime
    /\ phase \in {"idle", "debounce", "pass", "exited"}
    /\ dirty \subseteq Trigger \cup {"resync"}
    /\ pass \in Pass /\ (phase # "pass" => pass = NoPass)
    /\ lastRun \in [Timed -> 0 .. Never]
    /\ aborted \in BOOLEAN
    /\ unseen \subseteq Trigger \X StepName

\* The first pass runs every step.
LoopInit ==
    /\ now = 0
    /\ phase = "idle"
    /\ dirty = {"resync"}
    /\ pass = NoPass
    /\ lastRun = [n \in Timed |-> Never]
    /\ aborted = FALSE
    /\ unseen = {}
----------------------------------------------------------------------------
(***************************************************************************)
(* Marks.                                                                  *)
(***************************************************************************)
\* Mutant: what comes while a pass runs is left to that pass.
MarkedOutsidePass(m) == dirty' = IF phase \in {"exited", "pass"} THEN dirty ELSE dirty \cup {m}

Marked(m) == dirty' = IF phase = "exited" THEN dirty ELSE dirty \cup {m}

\* Past the bound the timer goes on marking, though time is not told apart.
Tick ==
    /\ now' = IF now = MaxTime THEN now ELSE now + 1
    /\ IF now' % Resync = 0 THEN Marked("resync") ELSE UNCHANGED dirty
    /\ UNCHANGED <<phase, pass, lastRun, aborted, unseen>>

Change(t) ==
    /\ Marked(t)
    /\ unseen' = unseen \cup {<<t, n>> : n \in {m \in StepName : t \in TriggersOf[m]}}
    /\ pass' = IF pass.shot THEN [pass EXCEPT !.missed = @ \cup {t}] ELSE pass
    /\ UNCHANGED <<now, phase, lastRun, aborted>>
----------------------------------------------------------------------------
(***************************************************************************)
(* The loop.                                                               *)
(***************************************************************************)
\* A mark or the abort wakes it; a pass waits for the rest of a burst.
Wakes ==
    /\ phase = "idle" /\ (dirty # {} \/ aborted)
    /\ phase' = IF aborted THEN "exited" ELSE "debounce"
    /\ UNCHANGED <<now, dirty, pass, lastRun, aborted, unseen>>

Take == pass' = [NoPass EXCEPT !.taken = dirty, !.startedAt = now] /\ dirty' = {}

PassStarts ==
    /\ phase = "debounce"
    /\ IF aborted THEN phase' = "exited" /\ UNCHANGED <<dirty, pass>> ELSE phase' = "pass" /\ Take
    /\ UNCHANGED <<now, lastRun, aborted, unseen>>

Name == Steps[pass.at]

Here(n) == phase = "pass" /\ pass.at <= Len(Steps) /\ Name = n

Wanted(n) == "resync" \in pass.taken \/ pass.taken \cap TriggersOf[n] # {}

\* Mutant: a timed step runs once its whole interval has passed.
DueByTheClock(n) == n \in Timed => lastRun[n] = Never \/ pass.startedAt - lastRun[n] >= Every[n]

\* Half a resync of slack.
Due(n) == n \in Timed => lastRun[n] = Never \/ pass.startedAt + Resync \div 2 >= lastRun[n] + Every[n]

AtAStep == phase = "pass" /\ ~pass.running /\ ~aborted /\ pass.at <= Len(Steps)

StepSkipped ==
    /\ AtAStep /\ ~(Wanted(Name) /\ Due(Name))
    /\ pass' = [pass EXCEPT !.at = @ + 1]
    /\ UNCHANGED <<now, phase, dirty, lastRun, aborted, unseen>>

\* The first step that asks for the snapshot takes it, for the whole pass.
StepStarts ==
    /\ AtAStep /\ Wanted(Name) /\ Due(Name)
    /\ pass' = [pass EXCEPT !.running = TRUE, !.shot = @ \/ Name \in Reads]
    /\ UNCHANGED <<now, phase, dirty, lastRun, aborted, unseen>>

\* What the step ran for it has looked at, unless it changed since the
\* snapshot. Only a step that succeeded counts as run.
StepEnds(ok) ==
    /\ phase = "pass" /\ pass.running
    /\ pass' = [pass EXCEPT !.at = @ + 1, !.running = FALSE]
    /\ unseen' = unseen \ ((Trigger \ pass.missed) \X {Name})
    /\ lastRun' = IF ok /\ Name \in Timed THEN [lastRun EXCEPT ![Name] = pass.startedAt] ELSE lastRun
    /\ UNCHANGED <<now, phase, dirty, aborted>>

\* At the end of its steps, or at the abort, which lets a step finish.
PassEnds ==
    /\ phase = "pass" /\ ~pass.running /\ (aborted \/ pass.at > Len(Steps))
    /\ phase' = IF aborted THEN "exited" ELSE "idle"
    /\ pass' = NoPass
    /\ UNCHANGED <<now, dirty, lastRun, aborted, unseen>>
----------------------------------------------------------------------------
(***************************************************************************)
(* The server.                                                             *)
(***************************************************************************)
Abort ==
    /\ phase # "exited" /\ ~aborted
    /\ aborted' = TRUE
    /\ UNCHANGED <<now, phase, dirty, pass, lastRun, unseen>>

Dies ==
    /\ phase # "exited"
    /\ phase' = "exited" /\ pass' = NoPass
    /\ UNCHANGED <<now, dirty, lastRun, aborted, unseen>>

Boots ==
    /\ phase = "exited"
    /\ phase' = "idle" /\ dirty' = {"resync"} /\ pass' = NoPass
    /\ lastRun' = [n \in Timed |-> Never]
    /\ aborted' = FALSE
    /\ UNCHANGED <<now, unseen>>
----------------------------------------------------------------------------
\* A change a step has not looked at yet is still marked, or the pass under
\* way took its mark and the step will run on a snapshot that has it: no
\* change is lost, whenever it comes, and though a mark says nothing of when.
NoChangeMissed ==
    phase # "exited" =>
        \A c \in unseen :
            \/ {c[1], "resync"} \cap dirty # {}
            \/ /\ phase = "pass" /\ {c[1], "resync"} \cap pass.taken # {}
               /\ \E i \in pass.at .. Len(Steps) : Steps[i] = c[2]
               /\ c[1] \notin pass.missed

\* A pass for a resync passes a timed step over only if less than its
\* interval, in resyncs, has gone by since it last succeeded: a pass that
\* starts a little late does not put the step off to the next resync.
TimedStepOnTime ==
    [][AtAStep /\ pass'.at = pass.at + 1 /\ "resync" \in pass.taken =>
           /\ Name \in Timed /\ lastRun[Name] # Never
           /\ pass.startedAt \div Resync - lastRun[Name] \div Resync < Every[Name] \div Resync]_loopVars
============================================================================
