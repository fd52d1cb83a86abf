----------------------------- MODULE MCRoutines -----------------------------
(***************************************************************************)
(* Routines, with the steps of main/reconcile-steps.ts it depends on, one  *)
(* that runs for changes and one that is timed. A behaviour holds either   *)
(* requests of users or changes of the runtime, and a fault.               *)
(***************************************************************************)
EXTENDS Routines

AllSteps    == <<"workspace-timeouts", "routines", "scheduled-workspaces", "sessions", "workspace-retention">>
SessionsFor == [n \in StepName |-> IF n = "sessions" THEN {"workspaces"} ELSE {}]
HourlyOnes  == [n \in StepName |-> IF n = "workspace-retention" THEN 4 ELSE 0]
Readers     == {"workspace-timeouts", "sessions"}
Crons       == {{1, 2}, {3}}
Budgets     == {[users |-> 2, changes |-> 0, faults |-> 0],
                [users |-> 1, changes |-> 0, faults |-> 1],
                [users |-> 0, changes |-> 1, faults |-> 1]}
=============================================================================
