--------------------------- MODULE QueueContract ---------------------------
(***************************************************************************)
(* What the queue promises for one saved request, with no word of pointers,*)
(* releases, passes or crashes: it is launched under an id never used      *)
(* before, one launch at a time; a launch either completes, once and for   *)
(* all, or gives the request back; and nothing takes a request away while  *)
(* it is launching.                                                        *)
(***************************************************************************)
CONSTANTS Entry, Workspace, Null

VARIABLES
    phase,    \* of each request
    attempt,  \* the workspace id of its launch, completed or under way
    used      \* workspace ids that are spent

contractVars == <<phase, attempt, used>>

Phase == {"absent", "waiting", "launching", "launched", "gone"}

ContractInit ==
    /\ phase = [e \in Entry |-> "absent"]
    /\ attempt = [e \in Entry |-> Null]
    /\ used \subseteq Workspace

Enqueue(e) ==
    /\ phase[e] = "absent"
    /\ phase' = [phase EXCEPT ![e] = "waiting"]
    /\ UNCHANGED <<attempt, used>>

Launch(e, w) ==
    /\ phase[e] = "waiting"
    /\ w \notin used
    /\ phase' = [phase EXCEPT ![e] = "launching"]
    /\ attempt' = [attempt EXCEPT ![e] = w]
    /\ used' = used \cup {w}

Complete(e) ==
    /\ phase[e] = "launching"
    /\ phase' = [phase EXCEPT ![e] = "launched"]
    /\ UNCHANGED <<attempt, used>>

GiveBack(e) ==
    /\ phase[e] = "launching"
    /\ phase' = [phase EXCEPT ![e] = "waiting"]
    /\ attempt' = [attempt EXCEPT ![e] = Null]
    /\ UNCHANGED used

Withdraw(e) ==
    /\ phase[e] = "waiting"
    /\ phase' = [phase EXCEPT ![e] = "gone"]
    /\ UNCHANGED <<attempt, used>>

\* The records of a workspace that is deleted go with it.
Forget(w) ==
    /\ \E e \in Entry : phase[e] = "launched" /\ attempt[e] = w
    /\ phase' = [e \in Entry |-> IF phase[e] = "launched" /\ attempt[e] = w THEN "gone" ELSE phase[e]]
    /\ attempt' = [e \in Entry |-> IF phase[e] = "launched" /\ attempt[e] = w THEN Null ELSE attempt[e]]
    /\ UNCHANGED used

\* Ids are spent without a launch too.
Spend ==
    /\ used \subseteq used'
    /\ used' \subseteq Workspace
    /\ UNCHANGED <<phase, attempt>>

ContractNext ==
    \/ \E e \in Entry : Enqueue(e) \/ Complete(e) \/ GiveBack(e) \/ Withdraw(e)
    \/ \E e \in Entry, w \in Workspace : Launch(e, w)
    \/ \E w \in Workspace : Forget(w)
    \/ Spend

Contract == ContractInit /\ [][ContractNext]_contractVars
=============================================================================
