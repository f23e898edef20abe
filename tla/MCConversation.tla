--------------------------- MODULE MCConversation ---------------------------
(***************************************************************************)
(* Instances of Conversation for TLC.                                      *)
(***************************************************************************)
EXTENDS Conversation, TLC

\* Threads, users, drafts and ids are interchangeable.
Symmetric == Permutations(Workers) \cup Permutations(Handles)
             \cup Permutations(Drafts) \cup Permutations(Requests)
=============================================================================
