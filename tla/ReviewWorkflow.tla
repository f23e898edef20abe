--------------------------- MODULE ReviewWorkflow ---------------------------
(***************************************************************************)
(* The life of change requests: RequestService, AuditService, the          *)
(* transition table and the two tables of the workflow store they use.     *)
(*                                                                         *)
(* The service has no lock and the store no transaction that spans two of  *)
(* its calls.  Every message handler (a Telegram or web worker thread, an  *)
(* HTTP invocation) is a worker; each store call a handler makes is a step *)
(* of its own, and the steps of different workers interleave:              *)
(*                                                                         *)
(*   _change_status    get_request, validate       Load                    *)
(*                     update_request              Update                  *)
(*   _emit_event       SELECT MAX(event_sequence)  ReadSequence            *)
(*                     INSERT INTO audit_events    InsertEvent             *)
(*   (Google Sheets)   both under the store's lock AppendEvent             *)
(*                                                                         *)
(* A record's free text, timestamps and conversation links are abstracted: *)
(* `change' stands for the content a requester submits, `resolvedBy',     *)
(* `noted' (resolution_note is not blank) and `cancelledBy' for the        *)
(* resolution and the cancellation columns.                                *)
(***************************************************************************)
EXTENDS Naturals, Sequences, FiniteSetsExt

CONSTANTS
    Requests,               \* canonical request ids
    Ids,                    \* every spelling a user may type for one of them
    Upper,                  \* Upper[id]: the canonical id of a spelling
    Workers,                \* threads that run handlers
    Actors,                 \* requesters and approvers
    Changes,                \* contents of a change request
    NoActor, NoChange,      \* an empty column
    AtomicSequence,         \* TRUE for Google Sheets, FALSE for Postgres
    MayFail,                \* store calls may raise and processes may crash
    RejectRequiresReason,   \* config.workflow.reject_requires_reason
    MaxRevision,            \* bound: no resubmission beyond this revision
    MaxEvents               \* bound: no new call once so many events are recorded
                            \* or lost

ASSUME IdsAssumption ==
    /\ Requests \subseteq Ids
    /\ Upper \in [Ids -> Requests]
    /\ \A r \in Requests : Upper[r] = r

ASSUME ValuesAssumption ==
    /\ NoActor \notin Actors
    /\ NoChange \notin Changes

ASSUME BoundsAssumption == MaxRevision \in Nat /\ MaxEvents \in Nat

ASSUME FlagsAssumption ==
    {AtomicSequence, MayFail, RejectRequiresReason} \subseteq BOOLEAN

VARIABLES
    row,    \* row[r]: the requests table, NoRow while r does not exist
    audit,  \* audit[id]: the audit_events rows with that id, as committed
    call,   \* call[w]: the handler that worker w runs
    lost    \* lost[r]: the event each failed call on r was about to record

vars == <<row, audit, call, lost>>

-----------------------------------------------------------------------------
(* Data.                                                                   *)

Statuses == {"draft", "submitted", "in_review", "needs_info",
             "approved", "rejected", "cancelled"}

Terminal == {"approved", "rejected", "cancelled"}

\* Mutants of AllowedTransitions: an approved request may still be cancelled; a
\* request that waits for its requester may be approved.
TransitionsReopened ==
    [draft      |-> {"submitted"},
     submitted  |-> {"needs_info", "approved", "rejected", "cancelled"},
     in_review  |-> {"needs_info", "approved", "rejected", "cancelled"},
     needs_info |-> {"submitted", "cancelled"},
     approved   |-> {"cancelled"},
     rejected   |-> {},
     cancelled  |-> {}]

TransitionsHasty ==
    [TransitionsReopened EXCEPT !.approved = {}, !.needs_info = @ \cup {"approved"}]

AllowedTransitions ==
    [draft      |-> {"submitted"},
     submitted  |-> {"needs_info", "approved", "rejected", "cancelled"},
     in_review  |-> {"needs_info", "approved", "rejected", "cancelled"},
     needs_info |-> {"submitted", "cancelled"},
     approved   |-> {},
     rejected   |-> {},
     cancelled  |-> {}]

Row == [status : Statuses, currentRev : Nat, lastRev : Nat,
        change : Changes, hasApprover : BOOLEAN,
        resolvedBy : Actors \cup {NoActor}, noted : BOOLEAN,
        cancelledBy : Actors \cup {NoActor}]

NoRow == [status |-> "none"]

\* The operations that change the status of a stored request, the status
\* each asks for, and the event it emits once the row is written.
\* A DECISION_RECORDED event carries its decision as payload.
TargetStatus ==
    [needinfo |-> "needs_info", resubmit |-> "submitted",
     approve |-> "approved", reject |-> "rejected", cancel |-> "cancelled"]

Emitted ==
    [needinfo |-> "needs_info_requested", resubmit |-> "request_resubmitted",
     approve |-> "decision_approved", reject |-> "decision_rejected",
     cancel |-> "request_cancelled"]

Operations == DOMAIN TargetStatus

EventTypes == {"request_submitted", "approver_notified",
               "needs_info_requested", "request_resubmitted",
               "decision_approved", "decision_rejected",
               "request_cancelled", "lookup_performed"}

Event == [type : EventTypes, rev : Nat,
          change : Changes \cup {NoChange}, by : Actors]

\* A handler between two store calls: `update' holds the record it is about
\* to write, `emit' an event it has not started to record, `insert' an event
\* with the sequence number it computed.
Idle == [pc |-> "idle"]

Call == [pc : {"update", "emit", "insert"}, id : Ids, actor : Actors,
         rec : Row, event : EventTypes, seq : Nat]

\* Every column, event and sequence number has its type, and a call in flight
\* holds a whole record and an event it may emit (models.py, enums.py).
TypeOK ==
    /\ row \in [Requests -> Row \cup {NoRow}]
    /\ audit \in [Ids -> Seq([seq : Nat, event : Event])]
    /\ call \in [Workers -> Call \cup {Idle}]
    /\ lost \in [Requests -> SUBSET Event]

Init ==
    /\ row = [r \in Requests |-> NoRow]
    /\ audit = [id \in Ids |-> <<>>]
    /\ call = [w \in Workers |-> Idle]
    /\ lost = [r \in Requests |-> {}]

-----------------------------------------------------------------------------
(* What a handler computes from the record it loaded.                      *)

NewRow(ch, hasApprover) ==
    [status |-> "submitted", currentRev |-> 1, lastRev |-> 1, change |-> ch,
     hasApprover |-> hasApprover,
     resolvedBy |-> NoActor, noted |-> FALSE, cancelledBy |-> NoActor]

Resolving == {"approve", "reject"}

Changed(rec, op, a, hasNote) ==
    [rec EXCEPT !.status = TargetStatus[op],
                !.resolvedBy = IF op \in Resolving THEN a ELSE @,
                !.noted = IF op \in Resolving THEN hasNote ELSE @,
                !.cancelledBy = IF op = "cancel" THEN a ELSE @]

\* Mutants of Resubmitted: the last submitted revision is assigned before the
\* current one is incremented; the new content is not taken over.
ResubmittedEarly(rec, ch) ==
    [rec EXCEPT !.status = "submitted",
                !.currentRev = @ + 1,
                !.lastRev = rec.currentRev,
                !.change = ch]

ResubmittedBlank(rec, ch) ==
    [rec EXCEPT !.status = "submitted",
                !.currentRev = @ + 1,
                !.lastRev = rec.currentRev + 1,
                !.change = NoChange]

Resubmitted(rec, ch) ==
    [rec EXCEPT !.status = "submitted",
                !.currentRev = @ + 1,
                !.lastRev = rec.currentRev + 1,
                !.change = ch]

\* A call that goes on at pc with the record rec, and will record event.
NewCall(pc, id, a, rec, event) ==
    [pc |-> pc, id |-> id, actor |-> a, rec |-> rec, event |-> event, seq |-> 0]

\* The event a call is about to record.  A lookup has no revision, and only a
\* submission carries the content.
EventOf(c) ==
    [type   |-> c.event,
     rev    |-> IF c.event = "lookup_performed" THEN 0 ELSE c.rec.lastRev,
     change |-> IF c.event \in {"request_submitted", "request_resubmitted"}
                THEN c.rec.change ELSE NoChange,
     by     |-> c.actor]

SequenceNumbers(id) == {audit[id][i].seq : i \in DOMAIN audit[id]}

LastSequence(id) == Max({0} \cup SequenceNumbers(id))

\* Mutant of NextSequence: SELECT COUNT(*) + 1.
SequenceCounted(id) == Len(audit[id]) + 1

NextSequence(id) == LastSequence(id) + 1

\* A bound of the model, not of the code.
HasRoom(id) == Len(audit[id]) + Cardinality(lost[Upper[id]]) < MaxEvents

-----------------------------------------------------------------------------
(* RequestService.  A call that is refused (unknown id, forbidden           *)
(* transition, missing reason) returns an error and changes nothing.       *)

\* create_request: the row is stored before any of its events.
Create(w) ==
    /\ call[w] = Idle
    /\ \E r \in Requests, a \in Actors, ch \in Changes, hasApprover \in BOOLEAN :
        /\ row[r] = NoRow
        /\ HasRoom(r)
        /\ row' = [row EXCEPT ![r] = NewRow(ch, hasApprover)]
        /\ call' = [call EXCEPT ![w] =
               NewCall("emit", r, a, NewRow(ch, hasApprover), "request_submitted")]
    /\ UNCHANGED <<audit, lost>>

\* get_request and validate_transition; the fields that _change_status and
\* resubmit_request assign before they write the record.
Load(w) ==
    /\ call[w] = Idle
    /\ \E id \in Ids, a \in Actors, op \in Operations :
        LET rec == row[Upper[id]] IN
        /\ rec # NoRow
        /\ HasRoom(id)
        /\ TargetStatus[op] \in AllowedTransitions[rec.status]
        /\ \/ /\ op = "resubmit"
              /\ rec.currentRev < MaxRevision
              /\ \E ch \in Changes :
                   call' = [call EXCEPT ![w] =
                     NewCall("update", id, a, Resubmitted(rec, ch), Emitted[op])]
           \/ /\ op # "resubmit"
              /\ \E hasNote \in BOOLEAN :
                   /\ op = "reject" /\ RejectRequiresReason => hasNote
                   /\ call' = [call EXCEPT ![w] =
                        NewCall("update", id, a, Changed(rec, op, a, hasNote), Emitted[op])]
    /\ UNCHANGED <<row, audit, lost>>

\* Mutant of Update: an UPDATE that keeps a column whose new value is NULL.
UpdateCoalesced(w) ==
    /\ call[w].pc = "update"
    /\ row' = [row EXCEPT ![Upper[call[w].id]] =
           [call[w].rec EXCEPT
              !.resolvedBy = IF @ = NoActor
                             THEN row[Upper[call[w].id]].resolvedBy ELSE @,
              !.cancelledBy = IF @ = NoActor
                              THEN row[Upper[call[w].id]].cancelledBy ELSE @]]
    /\ call' = [call EXCEPT ![w].pc = "emit"]
    /\ UNCHANGED <<audit, lost>>

\* update_request overwrites every column of the row with the loaded record,
\* whatever the row has become since.
Update(w) ==
    /\ call[w].pc = "update"
    /\ row' = [row EXCEPT ![Upper[call[w].id]] = call[w].rec]
    /\ call' = [call EXCEPT ![w].pc = "emit"]
    /\ UNCHANGED <<audit, lost>>

\* RequestQueryService.lookup_request: reads the request and records that it
\* was looked up, under the id as it was typed.
Lookup(w) ==
    /\ call[w] = Idle
    /\ \E id \in Ids, a \in Actors :
        /\ row[Upper[id]] # NoRow
        /\ HasRoom(id)
        /\ call' = [call EXCEPT ![w] =
               NewCall("emit", id, a, row[Upper[id]], "lookup_performed")]
    /\ UNCHANGED <<row, audit, lost>>

-----------------------------------------------------------------------------
(* AuditService.record_event and the store's create_audit_event.           *)

\* What remains of a call once its event is stored: create_request goes on to
\* record that the approver was notified, when the request has an approver.
AfterEvent(c) ==
    IF c.event = "request_submitted" /\ c.rec.hasApprover
    THEN [c EXCEPT !.pc = "emit", !.event = "approver_notified", !.seq = 0]
    ELSE Idle

Store(w, n) ==
    /\ audit' = [audit EXCEPT ![call[w].id] =
           Append(@, [seq |-> n, event |-> EventOf(call[w])])]
    /\ call' = [call EXCEPT ![w] = AfterEvent(call[w])]
    /\ UNCHANGED <<row, lost>>

\* Google Sheets: the sequence number is computed and the row appended under
\* the store's lock.
AppendEvent(w) ==
    /\ AtomicSequence
    /\ call[w].pc = "emit"
    /\ Store(w, NextSequence(call[w].id))

\* Postgres: SELECT MAX(event_sequence) + 1, then INSERT, in one READ COMMITTED
\* transaction; rows other transactions commit in between are not seen.
ReadSequence(w) ==
    /\ ~AtomicSequence
    /\ call[w].pc = "emit"
    /\ call' = [call EXCEPT ![w].pc = "insert",
                            ![w].seq = NextSequence(call[w].id)]
    /\ UNCHANGED <<row, audit, lost>>

\* Mutant of InsertEvent: INSERT ... ON CONFLICT DO NOTHING over a unique
\* (request_id, event_sequence).
InsertUnlessTaken(w) ==
    /\ call[w].pc = "insert"
    /\ IF call[w].seq \in SequenceNumbers(call[w].id)
       THEN /\ call' = [call EXCEPT ![w] = AfterEvent(call[w])]
            /\ UNCHANGED <<row, audit, lost>>
       ELSE Store(w, call[w].seq)

InsertEvent(w) ==
    /\ call[w].pc = "insert"
    /\ Store(w, call[w].seq)

-----------------------------------------------------------------------------
(* A store call raises (connection pool exhausted, database or Sheets API   *)
(* down) or the process dies: the handler ends where it is, and nothing     *)
(* records later the event it still owed.  A crash of the process is this  *)
(* step taken by every worker.                                             *)
Abort(w) ==
    /\ MayFail
    /\ call[w] # Idle
    /\ call' = [call EXCEPT ![w] = Idle]
    /\ lost' = IF call[w].pc = "update" THEN lost
               ELSE [lost EXCEPT ![Upper[call[w].id]] = @ \cup {EventOf(call[w])}]
    /\ UNCHANGED <<row, audit>>

Step(w) == Update(w) \/ AppendEvent(w) \/ ReadSequence(w) \/ InsertEvent(w)

\* Every handler has returned.  A state that allows neither this nor another
\* step would be a handler that cannot go on.
Quiescent == (\A w \in Workers : call[w] = Idle) /\ UNCHANGED vars

Next ==
    \/ \E w \in Workers :
         \/ Create(w) \/ Load(w) \/ Lookup(w)
         \/ Update(w) \/ AppendEvent(w) \/ ReadSequence(w) \/ InsertEvent(w)
         \/ Abort(w)
    \/ Quiescent

Spec == Init /\ [][Next]_vars

\* A worker thread that has begun a handler is scheduled until it ends it.
FairSpec == Spec /\ \A w \in Workers : WF_vars(Step(w))

(* Properties.                                                             *)

\* e is the event of the operation that gave a row its status, its revision, its
\* content and whoever decided it.
Explains(e, rec) ==
    /\ e.rev = rec.lastRev
    /\ \/ /\ rec.status = "submitted"
          /\ e.type = IF rec.lastRev = 1 THEN "request_submitted"
                                         ELSE "request_resubmitted"
          /\ e.change = rec.change
       \/ rec.status = "needs_info" /\ e.type = "needs_info_requested"
       \/ /\ rec.status = "approved"
          /\ e.type = "decision_approved" /\ e.by = rec.resolvedBy
       \/ /\ rec.status = "rejected"
          /\ e.type = "decision_rejected" /\ e.by = rec.resolvedBy
       \/ /\ rec.status = "cancelled"
          /\ e.type = "request_cancelled" /\ e.by = rec.cancelledBy

Timeline(id) == {audit[id][i].event : i \in DOMAIN audit[id]}

\* The events of r recorded under any spelling, and those still to be recorded
\* by a call that has written its row.
Recorded(r) == UNION {Timeline(id) : id \in {j \in Ids : Upper[j] = r}}

Owing(r) == {w \in Workers : /\ call[w].pc \in {"emit", "insert"}
                             /\ Upper[call[w].id] = r}

Owed(r) == {EventOf(call[w]) : w \in Owing(r)}

\* A row never shows half of two handlers' writes: the resolution columns are
\* set exactly on an approved or rejected row, the cancellation columns exactly
\* on a cancelled one, the two revisions agree and, where the configuration
\* asks for it, a rejection has its reason, however handlers race
\* (update_request overwrites the whole row).
WholeRecord(rec) ==
    /\ rec.status \notin {"draft", "in_review"}
    /\ rec.status \in {"approved", "rejected"} <=> rec.resolvedBy # NoActor
    /\ rec.status = "cancelled" <=> rec.cancelledBy # NoActor
    /\ rec.currentRev = rec.lastRev /\ rec.lastRev >= 1
    /\ rec.status = "rejected" /\ RejectRequiresReason => rec.noted

RowsWhole == \A r \in Requests : row[r] # NoRow => WholeRecord(row[r])

\* Every status a row ever shows, with its revision, its content and whoever
\* decided it, is that of an event that is recorded, is about to be recorded
\* by the handler that wrote it, or was lost when that handler failed
\* (_change_status and create_request write first and emit afterwards).
RowsExplained ==
    \A r \in Requests : row[r] # NoRow =>
        \E e \in Recorded(r) \cup Owed(r) \cup lost[r] : Explains(e, row[r])

\* The sequence numbers of a timeline have no gap: although two Postgres
\* transactions may compute the same number, none is ever skipped
\* (create_audit_event).
NoGaps == \A id \in Ids : SequenceNumbers(id) = 1 .. LastSequence(id)

\* Under the Sheets store's lock the numbers are also unique and count the
\* events in the order in which they were appended.
CommitOrder ==
    AtomicSequence =>
        \A id \in Ids : \A i \in DOMAIN audit[id] : audit[id][i].seq = i

\* A decided request never changes again: AllowedTransitions has no way out of
\* a terminal status.
TerminalIsFinal ==
    [][\A r \in Requests : row[r].status \in Terminal => row'[r] = row[r]]_vars

\* A decided request that no handler is still about to write.
Settled(r) ==
    /\ row[r].status \in Terminal
    /\ \A w \in Workers : call[w].pc = "update" => Upper[call[w].id] # r

\* The window in which a decision can be overwritten is that of the handlers that
\* loaded the request before it was decided: once they have written or failed, it is
\* never changed again, by any number of handlers (validate_transition).
SettledIsFinal ==
    [][\A r \in Requests : Settled(r) => Settled(r)' /\ row'[r] = row[r]]_vars

\* Unless a call failed, a request that no handler works on any more shows nothing
\* that its history does not, in whatever order its handlers wrote and recorded.
AuditedAtRest ==
    ~MayFail =>
        \A r \in Requests : row[r] # NoRow /\ Owing(r) = {} =>
            \E e \in Recorded(r) : Explains(e, row[r])

\* A status that lasts is eventually found in the history.
EventuallyAudited ==
    \A r \in Requests :
        row[r] # NoRow ~> (\E e \in Recorded(r) : Explains(e, row[r]))

=============================================================================
