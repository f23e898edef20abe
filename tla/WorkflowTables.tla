--------------------------- MODULE WorkflowTables ---------------------------
(***************************************************************************)
(* What the services and the draft manager expect of a workflow store      *)
(* (persistence/base.py): each of its calls is one step that concerns the  *)
(* rows of a single key.  A request is stored once and then only updated,  *)
(* a pending entry is replaced or deleted, and the events of a request are *)
(* numbered 1, 2, ... in the order in which they are recorded.             *)
(*                                                                         *)
(* SheetsStore is a detailed specification that implements this one.       *)
(***************************************************************************)
EXTENDS Naturals

CONSTANTS Keys, Values

VARIABLES
    stored  \* stored[ws][k]: the values of the rows that table ws has of k

Tables == {"requests", "audit_events", "pending"}

Init == stored = [ws \in Tables |-> [k \in Keys |-> {}]]

Become(ws, k, S) == stored' = [stored EXCEPT ![ws][k] = S]

CreateRequest(k, v) ==
    /\ stored["requests"][k] = {}
    /\ Become("requests", k, {v})

UpdateRequest(k, v) ==
    /\ stored["requests"][k] # {}
    /\ Become("requests", k, {v})

RecordEvent(k) ==
    \E n \in {0} \cup stored["audit_events"][k] :
        /\ stored["audit_events"][k] = 1..n
        /\ Become("audit_events", k, 1..(n + 1))

Upsert(k, v) == Become("pending", k, {v})

Delete(k) == Become("pending", k, {})

Next ==
    \E k \in Keys :
        \/ \E v \in Values : CreateRequest(k, v) \/ UpdateRequest(k, v) \/ Upsert(k, v)
        \/ RecordEvent(k) \/ Delete(k)

Spec == Init /\ [][Next]_stored
=============================================================================
