--------------------------- MODULE MCDraftManager ---------------------------
(***************************************************************************)
(* Instances of DraftManager for TLC.                                      *)
(***************************************************************************)
EXTENDS DraftManager, TLC

\* Users, drafts, requests and texts are interchangeable.
Symmetric == Permutations(Handles) \cup Permutations(Drafts)
             \cup Permutations(Requests) \cup Permutations(Texts)
=============================================================================
