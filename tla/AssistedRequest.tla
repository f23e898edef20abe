--------------------------- MODULE AssistedRequest ---------------------------
(***************************************************************************)
(* How a free text becomes a draft with the help of a language model:      *)
(* RequestCoordinator._handle_with_ai, its executor, and                   *)
(* OpenAICompatibleInputAssistant.                                         *)
(*                                                                         *)
(* For each text the handler submits two tasks to an executor that all     *)
(* handlers share, classify and assist, and waits for both.  Each task     *)
(* asks the model, which may fail or answer anything; what it answered is  *)
(* validated before it is used.  A text in the fixed pattern needs no      *)
(* model.                                                                  *)
(*                                                                         *)
(*   handler   Pattern, Ask, AskMore, TakeIntent, Resolve                  *)
(*   executor  Start, FinishClassify, FinishAssist                         *)
(*                                                                         *)
(* A field is a value of a small set, with runs of blanks collapsed; what  *)
(* an operation or a draft leads to is Conversation's subject.             *)
(***************************************************************************)
EXTENDS Naturals, Sequences, FiniteSets

CONSTANTS
    Handlers,       \* handlers of one text each
    Threads,        \* threads of the executor (2)
    Blank,          \* the empty field
    Targets, Short, \* targets, and those of at most 120 characters
    Summaries,      \* what changes from, and to
    Fold,           \* casefold
    Approvers,      \* approvers as a text or the model writes them
    Normal,         \* normalize_approver_handle
    Valid,          \* is_valid_approver_handle
    Answers,        \* records of fields the model may answer with
    Patterns,       \* records of fields the fixed pattern may match
    Operations      \* operations the model may answer with

Fields == [target : Targets, from : Summaries, to : Summaries, approver : Approvers]

ASSUME FieldsAssumption ==
    /\ Blank \in Targets /\ Blank \in Summaries /\ Blank \in Approvers
    /\ Short \subseteq Targets
    /\ Normal \in [Approvers -> Approvers] /\ Normal[Blank] = Blank
    /\ Valid \subseteq Approvers \ {Blank}
    /\ DOMAIN Fold = Summaries
    /\ Answers \subseteq Fields /\ Patterns \subseteq Fields

ASSUME ThreadsAssumption == Threads \in Nat \ {0}

VARIABLES
    pc,         \* pc[h]: what handler h does next
    queue,      \* the executor's queue
    running,    \* tasks that a thread of the executor runs
    intent,     \* intent[h]: the result of classify
    parsed,     \* parsed[h]: the result of assist
    outcome     \* outcome[h]: what h came to

vars == <<pc, queue, running, intent, parsed, outcome>>

Tasks == Handlers \X {"classify", "assist"}

MANAGEMENT_OPERATIONS ==
    {"lookup", "history", "cancel", "needinfo", "resubmit", "my_pending",
     "pending_approvals", "confirm", "search"}

Pending == [kind |-> "pending"]
Failed == [kind |-> "none"]
Raised == [kind |-> "raised"]
Unknown == [kind |-> "unknown"]

Intents ==
    {Pending, Unknown, Raised} \cup [kind : {"management"}, op : MANAGEMENT_OPERATIONS]
    \cup [kind : {"new"}, fields : Fields]
Parses == {Pending, Failed, Raised} \cup [kind : {"new"}, fields : Fields]
Outcomes ==
    {Pending, [kind |-> "needs_input"]}
    \cup [kind : {"routed"}, op : MANAGEMENT_OPERATIONS]
    \cup [kind : {"draft", "missing"}, fields : Fields, by : {"pattern", "model"}]

-----------------------------------------------------------------------------
(* The validation of an answer.                                            *)

Same(f) == f.from # Blank /\ f.to # Blank /\ Fold[f.from] = Fold[f.to]

\* A field that is not acceptable is emptied, and asked for as a missing one is.
Validate(f) ==
    [target   |-> IF f.target \in Short THEN f.target ELSE Blank,
     from     |-> IF Same(f) THEN Blank ELSE f.from,
     to       |-> IF Same(f) THEN Blank ELSE f.to,
     approver |-> IF f.approver \in Valid THEN f.approver ELSE Blank]

Clean(f) == Validate([f EXCEPT !.approver = Normal[@]])

\* list_missing_required_fields finds none.
Complete(f) == Blank \notin {f.target, f.from, f.to, f.approver}

\* classify_intent for an answer: an approval or a rejection is no operation of a text.
Classified(op, f) ==
    IF op \in MANAGEMENT_OPERATIONS THEN [kind |-> "management", op |-> op]
    ELSE IF op = "new_request" THEN [kind |-> "new", fields |-> Clean(f)]
    ELSE Unknown

\* _build_draft_response
Built(f, by) ==
    [kind |-> IF Complete(f) THEN "draft" ELSE "missing", fields |-> f, by |-> by]

NeedsInput == [kind |-> "needs_input"]

\* Mutant of Resolved: the gaps of one answer are filled from the other.
ResolvedMixed(i, p) ==
    IF i.kind = "management" THEN [kind |-> "routed", op |-> i.op]
    ELSE IF i.kind = "unknown" THEN NeedsInput
    ELSE IF p.kind = "none" THEN Built(i.fields, "model")
    ELSE Built([x \in DOMAIN i.fields |->
                    IF i.fields[x] # Blank THEN i.fields[x] ELSE p.fields[x]], "model")

\* _handle_with_ai and _resolve_new_request, when both results are there: a complete
\* classification is used, or else all of the other answer.
Resolved(i, p) ==
    IF i.kind = "management" THEN [kind |-> "routed", op |-> i.op]
    ELSE IF i.kind = "unknown" THEN NeedsInput
    ELSE IF Complete(i.fields) THEN Built(i.fields, "model")
    ELSE IF p.kind = "none" THEN NeedsInput
    ELSE Built(p.fields, "model")

-----------------------------------------------------------------------------

Init ==
    /\ pc = [h \in Handlers |-> "idle"]
    /\ queue = <<>> /\ running = {}
    /\ intent = [h \in Handlers |-> Pending]
    /\ parsed = [h \in Handlers |-> Pending]
    /\ outcome = [h \in Handlers |-> Pending]

\* parse_request_text: what the pattern matches is normalized and not validated.  A
\* group of blanks is stripped to an empty field, and normalization may leave a handle
\* that is not valid.
Pattern(h) ==
    /\ pc[h] = "idle"
    /\ \E f \in Patterns :
        outcome' = [outcome EXCEPT ![h] =
                        Built([f EXCEPT !.approver = Normal[@]], "pattern")]
    /\ pc' = [pc EXCEPT ![h] = "done"]
    /\ UNCHANGED <<queue, running, intent, parsed>>

Ask(h) ==
    /\ pc[h] = "idle"
    /\ queue' = Append(queue, <<h, "classify">>)
    /\ pc' = [pc EXCEPT ![h] = "more"]
    /\ UNCHANGED <<running, intent, parsed, outcome>>

\* Another handler may have submitted its task in between.
AskMore(h) ==
    /\ pc[h] = "more"
    /\ queue' = Append(queue, <<h, "assist">>)
    /\ pc' = [pc EXCEPT ![h] = "intent"]
    /\ UNCHANGED <<running, intent, parsed, outcome>>

\* The handler ends without an answer: result raises what the task raised.
Escape(h) == pc' = [pc EXCEPT ![h] = "raised"]

TakeIntent(h) ==
    /\ pc[h] = "intent" /\ intent[h] # Pending
    /\ IF intent[h] = Raised THEN Escape(h) ELSE pc' = [pc EXCEPT ![h] = "parsed"]
    /\ UNCHANGED <<queue, running, intent, parsed, outcome>>

\* The handler waits for the second result also when it has no use for it.
Resolve(h) ==
    /\ pc[h] = "parsed" /\ parsed[h] # Pending
    /\ IF parsed[h] = Raised THEN Escape(h) /\ UNCHANGED outcome
       ELSE /\ outcome' = [outcome EXCEPT ![h] = Resolved(intent[h], parsed[h])]
            /\ pc' = [pc EXCEPT ![h] = "done"]
    /\ UNCHANGED <<queue, running, intent, parsed>>

\* Mutant of Start: there is no limit to the threads.
StartAny ==
    /\ queue # <<>>
    /\ running' = running \cup {Head(queue)}
    /\ queue' = Tail(queue)
    /\ UNCHANGED <<pc, intent, parsed, outcome>>

Start ==
    /\ queue # <<>> /\ Cardinality(running) < Threads
    /\ running' = running \cup {Head(queue)}
    /\ queue' = Tail(queue)
    /\ UNCHANGED <<pc, intent, parsed, outcome>>

\* Mutant of FinishClassify: it looks at the other answer first.
FinishClassifyAfter(h) ==
    /\ <<h, "classify">> \in running
    /\ parsed[h] # Pending
    /\ running' = running \ {<<h, "classify">>}
    /\ intent' = [intent EXCEPT ![h] = Unknown]
    /\ UNCHANGED <<pc, queue, parsed, outcome>>

\* What a call of the model comes to: it raises, by its timeout too, or answers.
Calls(answers) == {Raised} \cup [kind : {"answer"}, payload : answers]

\* What the tasks return for it: every exception of the call is caught.
IntentOf(c) ==
    IF c = Raised THEN Unknown ELSE Classified(c.payload.op, c.payload.fields)

\* Mutant of ParseOf: an exception of the call is left in the task's future.
ParseOfRaises(c) ==
    IF c = Raised THEN Raised ELSE [kind |-> "new", fields |-> Clean(c.payload)]

ParseOf(c) ==
    IF c = Raised THEN Failed ELSE [kind |-> "new", fields |-> Clean(c.payload)]

FinishClassify(h) ==
    /\ <<h, "classify">> \in running
    /\ running' = running \ {<<h, "classify">>}
    /\ \E c \in Calls([op : Operations, fields : Answers]) :
        intent' = [intent EXCEPT ![h] = IntentOf(c)]
    /\ UNCHANGED <<pc, queue, parsed, outcome>>

FinishAssist(h) ==
    /\ <<h, "assist">> \in running
    /\ running' = running \ {<<h, "assist">>}
    /\ \E c \in Calls(Answers) : parsed' = [parsed EXCEPT ![h] = ParseOf(c)]
    /\ UNCHANGED <<pc, queue, intent, outcome>>

Handle(h) == AskMore(h) \/ TakeIntent(h) \/ Resolve(h)
Finish(h) == FinishClassify(h) \/ FinishAssist(h)

Next ==
    \/ Start
    \/ \E h \in Handlers : Pattern(h) \/ Ask(h) \/ Handle(h) \/ Finish(h)

Spec == Init /\ [][Next]_vars

\* Threads are scheduled, and the call of the model ends: its client has a timeout.
FairSpec ==
    /\ Spec
    /\ WF_vars(Start)
    /\ \A h \in Handlers :
        WF_vars(Handle(h)) /\ WF_vars(FinishClassify(h)) /\ WF_vars(FinishAssist(h))

-----------------------------------------------------------------------------
(* Properties.                                                             *)

\* Every variable has its type; a task is in one place and the executor within its size.
TypeOK ==
    /\ pc \in [Handlers -> {"idle", "more", "intent", "parsed", "done", "raised"}]
    /\ queue \in Seq(Tasks)
    /\ running \subseteq Tasks /\ Cardinality(running) <= Threads
    /\ intent \in [Handlers -> Intents]
    /\ parsed \in [Handlers -> Parses]
    /\ outcome \in [Handlers -> Outcomes]

Drafted(h) == outcome[h].kind = "draft"

\* A draft is complete, and whatever the model answers, in one task or the other, one of
\* the model names an approver in a valid form, fits, and changes something
\* (_validate_parsed_request, _resolve_new_request).
DraftSound ==
    \A h \in Handlers : Drafted(h) =>
        LET f == outcome[h].fields IN
            /\ Complete(f)
            /\ outcome[h].by = "model" =>
                    f.approver \in Valid /\ f.target \in Short /\ ~Same(f)

\* A task runs once: no result is replaced by a later answer of the model, neither
\* between the two waits of a handler nor after it answered (submit, result).
ResultsStay ==
    [][\A h \in Handlers :
          /\ intent[h] # Pending => intent'[h] = intent[h]
          /\ parsed[h] # Pending => parsed'[h] = parsed[h]
          /\ outcome[h] # Pending => outcome'[h] = outcome[h]]_vars

\* However many handlers share the executor's threads, and whichever calls of the model
\* fail, every text gets its answer: no two waits are circular, and no failure of a task
\* comes out of result (_handle_with_ai, classify_intent, assist_request_text).
TextsAnswered == \A h \in Handlers : pc[h] = "more" ~> pc[h] = "done"
=============================================================================
