------------------------------ MODULE DraftLife ------------------------------
(***************************************************************************)
(* What RequestCoordinator and DraftManager together promise of a draft.   *)
(*                                                                         *)
(* It is composed for one user and waits; that user's confirmation takes   *)
(* it away and submits it once, as a request of that user; or it is        *)
(* dropped: replaced by the user's next draft, discarded, expired, or lost *)
(* with a failed confirmation.  It never comes back, and at any time it is *)
(* in one place.  There are no threads here, no locks and no store.        *)
(***************************************************************************)
CONSTANTS Handles, Drafts, Requests, None

VARIABLE where  \* where[d]: the places of d, none before it is composed

Place(stage, h, r) == [stage |-> stage, by |-> h, as |-> r]

Pending(h)      == Place("pending", h, None)
Confirmed(h)    == Place("confirmed", h, None)
Submitted(h, r) == Place("submitted", h, r)
Dropped         == Place("dropped", None, None)

Init == where = [d \in Drafts |-> {}]

\* The user's draft that was pending, if there is one, is replaced.
Compose(d) ==
    /\ where[d] = {}
    /\ \E h \in Handles :
        where' = [e \in Drafts |-> IF e = d THEN {Pending(h)}
                                  ELSE IF where[e] = {Pending(h)} THEN {Dropped}
                                  ELSE where[e]]

Confirm(d, p) ==
    /\ p.stage = "pending"
    /\ where' = [where EXCEPT ![d] = {Confirmed(p.by)}]

\* No other draft has become request r.
Submit(d, p, r) ==
    /\ p.stage = "confirmed"
    /\ \A e \in Drafts, g \in Handles : Submitted(g, r) \notin where[e]
    /\ where' = [where EXCEPT ![d] = {Submitted(p.by, r)}]

Drop(d, p) ==
    /\ p.stage \in {"pending", "confirmed"}
    /\ where' = [where EXCEPT ![d] = {Dropped}]

Next ==
    \E d \in Drafts :
        \/ Compose(d)
        \/ \E p \in where[d] :
            Confirm(d, p) \/ Drop(d, p) \/ \E r \in Requests : Submit(d, p, r)

Spec == Init /\ [][Next]_where
=============================================================================
