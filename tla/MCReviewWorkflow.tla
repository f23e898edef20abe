-------------------------- MODULE MCReviewWorkflow --------------------------
(***************************************************************************)
(* Instances of ReviewWorkflow for TLC.                                    *)
(***************************************************************************)
EXTENDS ReviewRefinement, TLC

CONSTANTS r1, r1lower

\* One request, typed as stored or in lower case.
TwoSpellings == [id \in {r1, r1lower} |-> r1]

OneSpelling == [id \in {r1} |-> r1]

\* Threads, people and contents are interchangeable.
Symmetric == Permutations(Workers) \cup Permutations(Actors) \cup Permutations(Changes)
=============================================================================
