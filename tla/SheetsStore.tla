----------------------------- MODULE SheetsStore -----------------------------
(***************************************************************************)
(* GoogleSheetsWorkflowStore: the workflow store over worksheets.          *)
(*                                                                         *)
(* A worksheet has rows, not keys: to change the row of a key the store    *)
(* looks for its number in a copy of the worksheet that it keeps for 15    *)
(* seconds, and then writes to that row number.  One reentrant lock covers *)
(* both halves of every write, and every look into the copies; a write     *)
(* drops the copy when, and only when, its call to the API returns.        *)
(*                                                                         *)
(* There is one process (docs/technical-design/architecture.md says the    *)
(* backend is not for several).  The worksheets `pending' stand for those  *)
(* of pending drafts, resubmissions and chat ids, which are used alike.    *)
(* The conversations worksheet is only appended to and never read.         *)
(***************************************************************************)
EXTENDS Naturals, Sequences, SequencesExt

CONSTANTS
    Threads,        \* threads that call the store
    Keys,           \* request ids, or handles
    Values,         \* contents of a row
    NoKey, NoCopy,
    LostReplies,    \* a call to the API may be applied and still raise
    MaxRows         \* bound: nothing is appended to a worksheet ws of MaxRows[ws] rows

ASSUME BlanksAssumption == NoKey \notin Keys

Worksheets == {"requests", "audit_events", "pending"}

ASSUME BoundAssumption == MaxRows \in [Worksheets -> Nat] /\ LostReplies \in BOOLEAN

VARIABLES
    sheet,  \* sheet[ws]: the rows of worksheet ws below its headers
    copy,   \* copy[ws]: _sheet_cache
    op      \* op[t]: the write that t is making, inside the lock

vars == <<sheet, copy, op>>

\* Mutant of RowOf: two columns swapped.
RowSwapped(k, v) == [key |-> v, value |-> k]

\* A row of audit_events holds its sequence number as its value.
RowOf(k, v) == [key |-> k, value |-> v]

Row == [key : Keys, value : Values \cup Nat] \cup {RowOf(NoKey, NoKey)}

Idle == [kind |-> "idle"]

Op == [kind : {"write", "delete"}, ws : Worksheets, key : Keys,
       value : Values \cup Nat, at : Nat]

\* Worksheets and copies hold rows, and a write has found its place
\* (google_sheets.py keeps raw values and row numbers).
TypeOK ==
    /\ sheet \in [Worksheets -> Seq(Row)]
    /\ copy \in [Worksheets -> Seq(Row) \cup {NoCopy}]
    /\ op \in [Threads -> Op \cup {Idle}]

Init ==
    /\ sheet = [ws \in Worksheets |-> <<>>]
    /\ copy = [ws \in Worksheets |-> NoCopy]
    /\ op = [t \in Threads |-> Idle]

\* Mutant of LockFree: the lock is not taken.
LockIgnored == TRUE

LockFree == \A t \in Threads : op[t] = Idle

\* What _iter_rows reads, and the copy it leaves behind.
View(ws) == IF copy[ws] = NoCopy THEN sheet[ws] ELSE copy[ws]

KeepView(ws) == copy' = [copy EXCEPT ![ws] = View(ws)]

\* The number of the row of k, or 0; its mutant counts the headers in.
FindRowHeaders(rows, k) == SelectInSeq(<<RowOf(NoKey, NoKey)>> \o rows, LAMBDA r : r.key = k)

FindRow(rows, k) == SelectInSeq(rows, LAMBDA r : r.key = k)

Contents(rows, k) == {rows[i].value : i \in {j \in DOMAIN rows : rows[j].key = k}}

\* Mutant of NextSequence: the rows are counted.
SequenceCounted(rows, k) == Cardinality({i \in DOMAIN rows : rows[i].key = k}) + 1

NextSequence(rows, k) ==
    IF Contents(rows, k) = {} THEN 1 ELSE Max(Contents(rows, k)) + 1

-----------------------------------------------------------------------------
(* The first half of a write: take the lock, look, decide.                 *)

Take(t, kind, ws, k, v, at) ==
    /\ LockFree
    /\ op' = [op EXCEPT ![t] = [kind |-> kind, ws |-> ws, key |-> k, value |-> v, at |-> at]]
    /\ UNCHANGED sheet

Room(ws) == Len(sheet[ws]) < MaxRows[ws]

\* The services make a new id for every request.
CreateRequest(t) ==
    \E k \in Keys, v \in Values :
        /\ Contents(sheet["requests"], k) = {}
        /\ Room("requests")
        /\ Take(t, "write", "requests", k, v, 0)
        /\ UNCHANGED copy

\* When the request is not found, LookupError is raised and only the copy stays.
UpdateRequest(t) ==
    \E k \in Keys, v \in Values :
        /\ FindRow(View("requests"), k) # 0
        /\ Take(t, "write", "requests", k, v, FindRow(View("requests"), k))
        /\ KeepView("requests")

CreateAuditEvent(t) ==
    \E k \in Keys :
        /\ Room("audit_events")
        /\ Take(t, "write", "audit_events", k, NextSequence(View("audit_events"), k), 0)
        /\ KeepView("audit_events")

Upsert(t) ==
    \E k \in Keys, v \in Values :
        /\ Room("pending")
        /\ Take(t, "write", "pending", k, v, FindRow(View("pending"), k))
        /\ KeepView("pending")

\* A key that has no row is not deleted, and the copy is kept.
Delete(t) ==
    \E k \in Keys :
        /\ FindRow(View("pending"), k) # 0
        /\ Take(t, "delete", "pending", k, 0, FindRow(View("pending"), k))
        /\ KeepView("pending")

\* get_request, list_requests, list_audit_events and the load functions.
Read(ws) == LockFree /\ KeepView(ws) /\ UNCHANGED <<sheet, op>>

-----------------------------------------------------------------------------
(* The second half: the call to the API.                                   *)

\* Cells are written where they are told to be, beyond the last row too.
Put(rows, at, r) ==
    [i \in 1 .. (IF at > Len(rows) THEN at ELSE Len(rows)) |->
        IF i = at THEN r ELSE IF i <= Len(rows) THEN rows[i] ELSE RowOf(NoKey, NoKey)]

DeleteRow(rows, at) == IF at <= Len(rows) THEN RemoveAt(rows, at) ELSE rows

\* Mutant of Applied: a pending entry is always appended.
AppliedAppend(o) ==
    IF o.kind = "delete" THEN DeleteRow(sheet[o.ws], o.at)
    ELSE Append(sheet[o.ws], RowOf(o.key, o.value))

Applied(o) ==
    IF o.kind = "delete" THEN DeleteRow(sheet[o.ws], o.at)
    ELSE IF o.at = 0 THEN Append(sheet[o.ws], RowOf(o.key, o.value))
    ELSE Put(sheet[o.ws], o.at, RowOf(o.key, o.value))

Release(t) == op' = [op EXCEPT ![t] = Idle]

\* Mutant of Write: the copy is kept.
WriteKeepsCopy(t) ==
    /\ op[t] # Idle
    /\ sheet' = [sheet EXCEPT ![op[t].ws] = Applied(op[t])]
    /\ Release(t)
    /\ UNCHANGED copy

Write(t) ==
    /\ op[t] # Idle
    /\ sheet' = [sheet EXCEPT ![op[t].ws] = Applied(op[t])]
    /\ copy' = [copy EXCEPT ![op[t].ws] = NoCopy]
    /\ Release(t)

\* The API refuses the call, or cannot be reached.
Refused(t) == op[t] # Idle /\ Release(t) /\ UNCHANGED <<sheet, copy>>

\* The call was applied, but the answer is lost: the exception passes the line
\* that drops the copy.
ReplyLost(t) ==
    /\ LostReplies
    /\ op[t] # Idle
    /\ sheet' = [sheet EXCEPT ![op[t].ws] = Applied(op[t])]
    /\ Release(t)
    /\ UNCHANGED copy

\* Fifteen seconds are over.
Expire(ws) ==
    /\ copy[ws] # NoCopy
    /\ copy' = [copy EXCEPT ![ws] = NoCopy]
    /\ UNCHANGED <<sheet, op>>

\* The process ends, whatever its threads were doing.
Restart ==
    /\ copy' = [ws \in Worksheets |-> NoCopy]
    /\ op' = [t \in Threads |-> Idle]
    /\ UNCHANGED sheet

Next ==
    \/ \E t \in Threads :
         \/ CreateRequest(t) \/ UpdateRequest(t) \/ CreateAuditEvent(t)
         \/ Upsert(t) \/ Delete(t)
         \/ Write(t) \/ Refused(t) \/ ReplyLost(t)
    \/ \E ws \in Worksheets : Read(ws) \/ Expire(ws)
    \/ Restart

Spec == Init /\ [][Next]_vars

-----------------------------------------------------------------------------
(* Properties.                                                             *)

\* Reads after a write are fresh: a copy that is kept is the worksheet as it is
\* (_iter_rows never serves, and _find_row_number never counts, old rows).
FreshReads == \A ws \in Worksheets : copy[ws] \in {NoCopy, sheet[ws]}

\* A request or a handle has one row, and an event one number, however many
\* threads insert at once (the lock around _find_row_number and append_row).
OneRow ==
    \A ws \in Worksheets : \A i, j \in DOMAIN sheet[ws] :
        /\ sheet[ws][i].key = sheet[ws][j].key
        /\ ws = "audit_events" => sheet[ws][i].value = sheet[ws][j].value
        => i = j

\* Whatever replies are lost, a stored request keeps its row and an update never
\* overwrites the row of another request: rows of this worksheet never move, so
\* that a stale copy still tells their numbers (update_request).
RequestsStay ==
    [][\A i \in DOMAIN sheet["requests"] :
            /\ i \in DOMAIN sheet'["requests"]
            /\ sheet'["requests"][i].key = sheet["requests"][i].key]_vars

\* Whatever replies are lost, the numbers of a timeline are 1, 2, ... without a
\* gap: a stale copy repeats numbers, and the next one is counted from the
\* highest (_next_event_sequence_locked).
NoGaps ==
    \A k \in Keys :
        LET numbers == Contents(sheet["audit_events"], k)
        IN  \A n \in numbers : 1..n \subseteq numbers

Tables == INSTANCE WorkflowTables WITH
    stored <- [ws \in Worksheets |-> [k \in Keys |-> Contents(sheet[ws], k)]]

\* Every write of a row number is a write of the key it was meant for and of no
\* other: the worksheets implement the tables that the services expect
\* (update_request, the upserts, the deletes and create_audit_event).
ImplementsTables == Tables!Spec

Requests == INSTANCE WorkflowTables WITH
    stored <- [ws \in Worksheets |->
                 [k \in Keys |-> IF ws = "requests" THEN Contents(sheet[ws], k) ELSE {}]]

\* Whatever replies are lost and however stale a copy is, the worksheet of the
\* requests implements their table: a request is stored once, an update replaces
\* its contents and touches no other request (create_request, update_request).
ImplementsRequests == Requests!Spec
=============================================================================
