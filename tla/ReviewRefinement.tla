-------------------------- MODULE ReviewRefinement --------------------------
(***************************************************************************)
(* The request service as an implementation of ReviewLifecycle, when it is *)
(* left undisturbed, and of ReviewJournal, whatever races and fails.       *)
(*                                                                         *)
(* The stage and the revision of a request are what its row shows.  Its    *)
(* journal is what the audit timelines say of it, under any spelling of    *)
(* its id, together with the event that a handler owes once it has written *)
(* the row: the handler's two writes are one step of the journal.          *)
(***************************************************************************)
EXTENDS ReviewWorkflow

\* The stage that an event of the history reports a request to have entered.
StageOf ==
    [request_submitted    |-> "submitted",
     request_resubmitted  |-> "submitted",
     needs_info_requested |-> "needs_info",
     decision_approved    |-> "approved",
     decision_rejected    |-> "rejected",
     request_cancelled    |-> "cancelled"]

Move(e) == [stage |-> StageOf[e.type], rev |-> e.rev]

Moves(events) == {Move(e) : e \in {f \in events : f.type \in DOMAIN StageOf}}

Lifecycle == INSTANCE ReviewLifecycle WITH
    stage <- [r \in Requests |-> row[r].status],
    revision <- [r \in Requests |-> IF row[r] = NoRow THEN 0 ELSE row[r].lastRev],
    journal <- [r \in Requests |-> Moves(Recorded(r) \cup Owed(r))]

\* What _change_status needs for its read, its check and its write to be one
\* step, and a move and its event to be kept together: no other handler runs
\* meanwhile, and no store call fails.
Undisturbed == (\A v, w \in Workers : v = w) /\ ~MayFail

\* Undisturbed, the service moves a request only along the lifecycle, and the
\* history gains exactly the move the row makes, in the same step.
ImplementsLifecycle == Lifecycle!Spec

\* What is recorded of r, owed to it, or was lost with a handler that failed.
History(r) == Recorded(r) \cup Owed(r) \cup lost[r]

Past(r) == Moves(History(r))

Raced == INSTANCE ReviewJournal WITH
    stage <- [r \in Requests |-> row[r].status],
    revision <- [r \in Requests |-> IF row[r] = NoRow THEN 0 ELSE row[r].lastRev],
    journal <- [r \in Requests |-> Past(r)]

\* However handlers race and whatever fails, a request enters a stage only by a move
\* of the lifecycle from a stage that its history shows it had, and every stage it
\* enters joins that history in the same step (the record that _change_status writes
\* was loaded, and validated, from a row that some handler wrote and owes an event).
ImplementsJournal == Raced!Spec

\* The history of a request tells how it came to its revision: each revision was
\* submitted, and each but the last was sent back, however many handlers resubmitted,
\* decided and sent back the same request at once (resubmit_request counts from the
\* record that it loaded).
RevisionsTold ==
    \A r \in Requests : row[r] # NoRow =>
        \A n \in 1 .. row[r].lastRev :
            /\ Raced!Entry("submitted", n) \in Past(r)
            /\ n < row[r].lastRev => Raced!Entry("needs_info", n) \in Past(r)
=============================================================================
