-------------------------- MODULE ReviewLifecycle --------------------------
(***************************************************************************)
(* What the request service promises of one change request, apart from how *)
(* it stores it: a request moves along the lifecycle of                    *)
(* docs/product-spec/workflow-lifecycle.md, and its journal holds one      *)
(* entry for every move, made in the same step as the move.                *)
(*                                                                         *)
(* ReviewWorkflow is the detailed specification; ReviewRefinement states    *)
(* when and how it implements this one.                                    *)
(***************************************************************************)
EXTENDS Naturals

CONSTANTS Requests, MaxRevision

VARIABLES
    stage,      \* stage[r]: where request r is in its lifecycle
    revision,   \* revision[r]: how many times r was submitted
    journal     \* journal[r]: the moves r made, each with its revision

vars == <<stage, revision, journal>>

Entry(s, n) == [stage |-> s, rev |-> n]

Init ==
    /\ stage = [r \in Requests |-> "none"]
    /\ revision = [r \in Requests |-> 0]
    /\ journal = [r \in Requests |-> {}]

Enter(r, s, n) ==
    /\ stage' = [stage EXCEPT ![r] = s]
    /\ revision' = [revision EXCEPT ![r] = n]
    /\ journal' = [journal EXCEPT ![r] = @ \cup {Entry(s, n)}]

Submit(r) == stage[r] = "none" /\ Enter(r, "submitted", 1)

AskForInfo(r) == stage[r] = "submitted" /\ Enter(r, "needs_info", revision[r])

Resubmit(r) ==
    /\ stage[r] = "needs_info"
    /\ revision[r] < MaxRevision
    /\ Enter(r, "submitted", revision[r] + 1)

Decide(r) ==
    /\ stage[r] = "submitted"
    /\ \E s \in {"approved", "rejected"} : Enter(r, s, revision[r])

Cancel(r) ==
    /\ stage[r] \in {"submitted", "needs_info"}
    /\ Enter(r, "cancelled", revision[r])

Next ==
    \E r \in Requests :
        Submit(r) \/ AskForInfo(r) \/ Resubmit(r) \/ Decide(r) \/ Cancel(r)

Spec == Init /\ [][Next]_vars
=============================================================================
