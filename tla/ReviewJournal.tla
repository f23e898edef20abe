--------------------------- MODULE ReviewJournal ---------------------------
(***************************************************************************)
(* What the request service promises of one change request when handlers   *)
(* race and store calls fail, which ReviewLifecycle leaves out.            *)
(*                                                                         *)
(* A handler may have loaded the request long before it writes it.  The    *)
(* stage it moves the request to then follows from some stage that the     *)
(* request once had, which need not be the present one: an approval can be *)
(* overwritten.  But no move comes out of nothing, none is made without    *)
(* its entry in the journal, and the journal forgets nothing.              *)
(***************************************************************************)
EXTENDS Naturals

CONSTANT Requests

VARIABLES
    stage,      \* stage[r]: where request r is in its lifecycle
    revision,   \* revision[r]: the revision it is in that stage with
    journal     \* journal[r]: the stages r ever had, each with its revision

vars == <<stage, revision, journal>>

Entry(s, n) == [stage |-> s, rev |-> n]

First == Entry("submitted", 1)

\* The moves of the lifecycle from entry e.
Steps(e) ==
    CASE e.stage = "submitted" ->
            {Entry(s, e.rev) : s \in {"needs_info", "approved", "rejected", "cancelled"}}
      [] e.stage = "needs_info" ->
            {Entry("submitted", e.rev + 1), Entry("cancelled", e.rev)}
      [] OTHER -> {}

Init ==
    /\ stage = [r \in Requests |-> "none"]
    /\ revision = [r \in Requests |-> 0]
    /\ journal = [r \in Requests |-> {}]

Enter(r, e) ==
    /\ stage' = [stage EXCEPT ![r] = e.stage]
    /\ revision' = [revision EXCEPT ![r] = e.rev]
    /\ journal' = [journal EXCEPT ![r] = @ \cup {e}]

Submit(r) == stage[r] = "none" /\ Enter(r, First)

Follow(r) == \E e \in journal[r] : \E f \in Steps(e) : Enter(r, f)

Next == \E r \in Requests : Submit(r) \/ Follow(r)

Spec == Init /\ [][Next]_vars
=============================================================================
