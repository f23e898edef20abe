# Marker Checker in TLA+

A formal model of the Marker Checker agent: a chat-first approval tool in which a
requester drafts and confirms a small change request, an approver decides it or asks
for more information, and every step leaves an event in an audit history.
Paths below are relative to `src/agent/src/agent/` unless they start with `src/`.

## The system

Messages arrive on several threads at once: Telegram handlers hand each message to a
thread (`asyncio.to_thread`), the web channel runs each one on an executor, and the
HTTP endpoint calls the coordinator directly. They all share the objects below; only
`DraftManager` and the Sheets store have a lock, and no store transaction spans two
store calls.

| Component | State it keeps | Operations | What is hard |
| --- | --- | --- | --- |
| `RequestService` (`services/request_service.py`, `workflow_transitions.py`) | none of its own; the `requests` and `audit_events` tables | create, request more info, resubmit, approve, reject, cancel, queries | read, validate, write and emit are separate store calls; no lock |
| `AuditService` (`services/audit_service.py`) | `audit_events` | record an event, list a timeline | sequence numbers computed by concurrent transactions |
| `PostgresWorkflowStore` (`persistence/postgres.py`) | seven tables, a pool of five connections | one transaction per call | READ COMMITTED, full-row UPDATE, calls that raise |
| `GoogleSheetsWorkflowStore` (`persistence/google_sheets.py`) | six worksheets, a 15 s cache of each, one reentrant lock | the same interface | row numbers computed from a cached copy, replies lost |
| `DraftManager` (`draft_manager.py`) | three TTL caches, two of them backed by tables | set, pop, clear, discard, load | persistence in unordered daemon threads, restarts |
| `RequestCoordinator` (`request_coordinator.py`) | an executor of two threads | routes a message to drafts, services, queries or the assistant | one message spans several lock scopes and store calls |
| `RequestQueryService` (`services/query_service.py`) | none | lookup (records an event), history, search, lists | ids as typed |
| `FreeformIntentRouter`, parsers (`parsing/`, `utils/`) | none | pure functions of the text | - |
| `RequestInputAssistant` (`ai/`) | none | calls a language model, validates its answer | untrusted answers, latency |
| `AgentMemoryService` (`memory/`) | a cache of preferences | writes in the background | read for the model's prompts only |
| `TelegramAdapter` (`adapters/`) | event loop, application, chat registry | start, poll, webhook, notify, stop | loop hand-over, retries, shutdown |
| Web channel (`web/`, `contracts/`) | registered connections per user | dispatches client messages, pushes notifications | notifications interleave with answers |
| Web client (`src/frontend/src/hooks`, `lib/chat-ui`) | messages, pending action, fallback timer, socket | send, receive, reconnect | late and interleaved messages |
| `MarkerCheckerApp`, configuration (`app.py`, `config.py`) | wiring | start, dispatch of invocations | - |

What makes the main components correct:

* **Requests**: a decided request stays decided; revisions count the submissions; a
  row is never a mixture of two handlers' writes; whatever a row shows is the subject
  of an audit event; timelines have no gaps and, where the store locks, no repeats.
* **Drafts**: what a cache forgets its table forgets; a draft is obtained once; a
  draft that is gone stays gone.
* **Conversation**: a draft becomes at most one request and is never lost silently; a
  reply is taken for a request of its sender, and for no request that is decided.
* **Assistant**: whatever the model answers, a draft is complete and was validated, and
  every text is answered.
* **Web channel**: the buttons are blocked only while something will unblock them; a
  message is answered while its connection lasts; the hub serves exactly the
  connections that are open on the server.
* **Telegram**: a message is sent by the application that runs on its loop or by none;
  one loop at a time; the registry forgets nobody but by eviction; polling takes over
  from an older instance.

## Modules

| Module | What it is |
| --- | --- |
| `ReviewLifecycle` | abstract: one request's lifecycle and a journal that gains an entry with every move |
| `ReviewJournal` | abstract: what remains of that lifecycle when handlers race and calls fail |
| `ReviewWorkflow` | `RequestService`, `AuditService` and the two tables: one action per store call of a handler |
| `ReviewRefinement` | the mappings under which `ReviewWorkflow` implements `ReviewLifecycle` and `ReviewJournal` |
| `MCReviewWorkflow` | instances for TLC |
| `ReviewWorkflowProofs` | theorems about `ReviewWorkflow` and the refinement of `ReviewLifecycle` |
| `ReviewJournalProofs` | theorems about races and failures: the refinement of `ReviewJournal` |
| `DraftManager` | the caches, their tables, the persistence threads, expiry and restart |
| `MCDraftManager` | instances for TLC |
| `DraftManagerProofs` | theorems about `DraftManager` |
| `DraftLife` | abstract: the life of a draft, in one place at a time |
| `Conversation` | the coordinator: what messages do to drafts, hints and requests |
| `MCConversation` | instances for TLC |
| `ConversationProofs` | theorems about `Conversation` and its refinement of `DraftLife` |
| `WorkflowTables` | abstract: the store as tables of keys, one step per call |
| `SheetsStore` | the Sheets store: lock, copies of worksheets, row numbers, lost replies |
| `MCSheetsStore` | instances for TLC |
| `SheetsStoreProofs` | theorems about `SheetsStore` and its refinement of `WorkflowTables` |
| `AssistedRequest` | a free text's two calls of the language model, the shared executor, the validation of the answers |
| `MCAssistedRequest` | an instance for TLC: the answers and patterns |
| `AssistedRequestProofs` | theorems about `AssistedRequest` |
| `ChatSession` | a browser tab, its connections, their handlers on the server and the notification hub |
| `MCChatSession` | an instance for TLC |
| `ChatSessionProofs` | theorems about `ChatSession` |
| `TelegramAdapter` | the bot's thread, the threads that send through it, the registry of chats |
| `MCTelegramAdapter` | an instance for TLC |
| `TelegramAdapterProofs` | theorems about `TelegramAdapter` |

They divide the system along its calls. `ChatSession` and `TelegramAdapter` are how
messages reach a handler and notifications leave it; `Conversation` is the handler;
its `Ask` and `Answer` are `AssistedRequest` in detail, its caches `DraftManager`, its
rows and histories `ReviewWorkflow`; and the tables of these two, when the backend is
Google Sheets, are `SheetsStore`. Each module takes of its neighbours what they promise:
`Answer` allows every classification `AssistedRequest` can come to, and
`WorkflowTables` states what a store call is to the modules above it.

### ReviewWorkflow

`row[r]` is the row of request `r`, `audit[id]` the `audit_events` rows filed under a
spelling of an id, `call[w]` the handler that worker `w` is in the middle of, and
`lost[r]` the events of failed calls. A handler is a worker: `Load` is `get_request`,
`validate_transition` and the assignments to the loaded record; `Update` is
`update_request`, which writes every column of that record; `ReadSequence` and
`InsertEvent` are the two statements of Postgres' `create_audit_event`, `AppendEvent`
the same in the Sheets store, where a lock makes them one. `Create` stores a new row and
goes on to record `request_submitted` and, when there is an approver,
`approver_notified`. `Lookup` records `lookup_performed`. `Abort` is a store call that
raises or a process that dies: the handler ends there.

Free text, timestamps, names and conversation links are abstracted. `change` stands for
the content a requester submits; the resolution and cancellation columns are reduced to
who resolved, whether there is a note, and who cancelled. A call that fails is taken
either not to have been applied, or to have been applied and its handler then to have
stopped; in the Sheets store a write that is applied although its reply is lost also
leaves a stale cache behind, which this module does not model.

There are two abstract specifications. `ReviewLifecycle` is the documented one: a request
moves along the lifecycle, one step at a time, and its journal gains exactly that move.
The service implements it only when it is left undisturbed. `ReviewJournal` is what it
implements always: a request may be moved from any stage it ever had, because a handler
may have loaded it then, but every stage it enters follows by the lifecycle from one that
its journal shows and is entered into the journal in the same step. There, the journal of
a request is what is recorded, owed by a handler that wrote the row, or `lost` with a
handler that failed; so it is also the statement of how much a failure may take away: the
record of a move, never its ground.

### DraftManager

`cache[k]` is the entry of one of the two backed caches (`k` is a cache and a user),
`disk[k]` its row, `writes[x]` the number of daemon threads about to do write `x`,
`partial[h]` the half-filled draft. Every operation holds the lock once, so it is one
action; the threads it starts run, fail or die with the process in any order. `Restart`
is a new process whose constructor loads the tables. TTLs and evictions are `Expire`:
an entry may go at any moment. `composed`, `gone`, `clean` and `restarted` are
observations the properties need: which drafts exist, which were taken, and whether
every write of a row since it was last in step with its cache ran alone and succeeded.

### Conversation

`draft[h]` and `hint[h]` are the two caches of `DraftManager` as the coordinator uses
them (one atomic operation each), `request[r]` is what it needs of a row, and
`handler[w]` is the next step of the handler in worker `w` with what it carries there.
`Confirm` pops the draft and `Create` stores the request, after the impact note has been
generated; `SetDraft` makes a draft pending;
`Reply` takes the hint, `Parsed` parses, loads and validates, `Update` writes; `Act`
loads and validates an approver's action, `Update` writes it, `Remember` sets or clears
the hint once the event is recorded. `Ask` sends a text to the language model, which may
classify it as any command except discard, as a new request, or as nothing (`Answer`).
`Fail` is an exception in the middle of a handler. `composed` and `dropped` are
observations: which drafts existed, and which ended without a request.

`Whereabouts(d)` collects the places of draft `d`: the cache, the handler that confirmed
it, the request it became, or `Dropped`. Under this mapping the module implements
`DraftLife`, in which a draft has one place, is confirmed and submitted by the user it was
composed for, becomes one request, and never returns. It contains `OnePlace` and adds the
order of the places and whose they are.

A request's revisions and history, and races on its row, are `ReviewWorkflow`'s; the
tables behind the caches and the restart are `DraftManager`'s. In one life of the
process a draft is in one place (`OnePlace`); over a restart it may come back, as
described under the disagreements below.

### SheetsStore

`sheet[ws]` is the worksheet below its headers, `copy[ws]` the entry of `_sheet_cache`,
`op[t]` a write between its look for a row number and its call to the API; the lock is
held while some thread has such a write. `CreateRequest`, `UpdateRequest`,
`CreateAuditEvent`, `Upsert` and `Delete` are the first halves of the store's methods,
`Write`, `Refused` and `ReplyLost` the three ways the API call may end. `Read` is any
method that only looks. Row numbers count from the first row below the headers.
`ReviewWorkflow` and `DraftManager` treat a store call as one step on one key;
`WorkflowTables` states that expectation and `SheetsStore` shows what it takes for the
Sheets backend to meet it: the lock, and that no reply is lost. The requests worksheet
meets it also when replies are lost (`ImplementsRequests`), because its rows are never
deleted, so that a stale copy still has their numbers right.

### AssistedRequest

`queue` and `running` are the coordinator's executor: the tasks submitted and those its
threads run. `pc[h]` follows `_handle_with_ai`: `Ask` and `AskMore` are the two calls of
`submit`, between which other handlers may submit theirs, `TakeIntent` and `Resolve` the
two calls of `result`, which raises what the task raised (`Escape`). `FinishClassify` and
`FinishAssist` are the assistant's methods: the call of the model raises, or answers any
operation and any fields of the sets the instance gives (`Calls`); an exception is caught
and becomes a result (`IntentOf`, `ParseOf`), so that no handler escapes, and what was
answered is normalised and validated (`Clean`, `Classified`). `Resolved` is the choice
between the two answers, `Pattern` the text that needs no model: its fields may be empty
once they are stripped, and its approver no valid handle once it is normalised. A field is
a value of a small set; what validation does with it depends only on whether it is
empty, too long, equal to its counterpart after case folding, or a valid approver,
which the constants say of each value.

### ChatSession

`tab` is the current socket of the tab and `connected`, `pending`, `typing` and `timer`
the state of `useChatSession`; `link[k]` is connection `k`, `up[k]` and `down[k]` its
frames on their way; `server[k]` and `job[k]` are where its handler is and what it
handles; `hub` is the registrations of this user and `task[k]` the frames a broadcast has
scheduled for `k`. `SendAction`, `SendText`, `SendForm` and `Fallback` are what the tab
sends, `Receive` is `onMessage`, `OnClose` is `onclose` with the effect that follows it.
`Read` parses a message and announces it, `Answer` and `Raise` are the two ways the
coordinator's call may end, `Disconnect` and `Leave` the two ways out of the handler's
loop. `Break` is the network. `sent`, `seen` and `stolen` are observations: which ids
were used, which were answered in this tab, and whether some other answer ended a
pending action on this socket. Text, the rendering of answers and their deduplication
are left out, and so is what no client of the repository sends.

### TelegramAdapter

`thread`, `attempt` and `conflict` are the locals of `_run_polling` (or
`_run_webhook_loop`) and where it is; `loop` and `app` are `_loop` and `_application`, by
number, 0 for `None`; `life[g]` and `driver[g]` say what state loop `g` is in and which
application runs on it. `pc[n]` and `at[n]` are a thread in `_send_message` or
`process_webhook_update`, with what it has read so far: reading the loop, reading the
application, testing `is_running` and submitting are separate steps. `known` is the
registry in memory, `stored` its table, `upserts` the keys whose thread has not run, and
`wrote` an observation: the keys of updates this process handled. `rival` is the older
instance of a rolling deployment: while it polls, `Conflict` may end a run (that
`run_polling` raises it is the library's behaviour, as `_run_polling` expects it), and it
registers people in the shared table. A loop that drains its generators runs for part
of that time only, so that `is_running` may say either.

## Runs

| Run | Instance | Shows |
| --- | --- | --- |
| `review_race` | 2 workers, 1 request, Postgres, calls may fail | `TypeOK`, `RowsWhole`, `RowsExplained`, `NoGaps`, `ImplementsJournal`, `SettledIsFinal` |
| `review_serial` | 1 worker, two spellings of the id, the Sheets lock, no failures | `ImplementsLifecycle` |
| `review_eventually` | 2 workers, no failures, fair handlers | `EventuallyAudited` |
| `terminal_overwritten` | 2 workers, no failures | `TerminalIsFinal` is violated |
| `drafts_race` | 1 user, 2 drafts, 2 requests, failures, expiry, restarts | `TypeOK`, `RowsFollow`, `TakenStaysTaken` |
| `sheets_rows` | 2 threads, 2 keys, 2 values, 3 rows, every call answered | `FreshReads`, `OneRow`, `ImplementsTables` |
| `sheets_lost` | the same with 1 value, 2 pending rows and lost replies | `TypeOK`, `NoGaps`, `ImplementsRequests` |
| `conversation_race` | 2 workers, 2 users, 2 drafts, 2 ids, unclear texts, failures, expiry | `TypeOK`, `HintsOwn`, `ImplementsDraftLife`, `HintsGoStale` |
| `assisted` | 2 handlers, 2 threads, 6 answers, 4 operations, 4 patterns, fair | `TypeOK`, `DraftSound`, `TextsAnswered` |
| `chat_session` | 2 connections, 2 actions, 1 text or form, 1 notification, fair | `TypeOK`, `PendingHasCause`, `OneAction`, `FallbackUnseen`, `ActionOnce`, `ActionEnds`, `AnswersCome`, `Released` |
| `telegram` | 1 sender, 2 people with 3 keys, 2 places, 1 retry, 1 restart, fair | `TypeOK`, `OwnApp`, `OneLoop`, `Reachable`, `Remembered`, `Resolved`, `TakesOver` |

Bounds. `MaxEvents` stops new calls once a request has that many events recorded or
lost, `MaxRevision` stops resubmissions, `MaxThreads` stops operations while that many
equal writes are in flight. With `MaxEvents = 3` two handlers can race through
creation, a transition and a second one, which is what a lost update, a repeated
sequence number or a lost event needs; requests do not influence each other, so one is
enough there. In `DraftManager` two drafts are enough to replace one by the other, and
two equal writes to have a row written twice. In `SheetsStore` three rows are enough for a
repeated number and the one after it, and for a row number that points at another key's
row or beyond the last row. In `Conversation` the numbers of drafts and ids are bounds
(`DraftsLeft`, `IdsLeft`): two drafts to replace one, two users to take each other's
reply, and two requests of one user to share the user's only hint. In
`AssistedRequest` two handlers submit four tasks to two threads, so that each thread can
hold the task another handler waits for; the answers are one that is good, one with each
fault that validation knows, and two halves that together would be a change of nothing; the
texts in the fixed pattern are one without each thing that validation would have asked.
In `ChatSession` two connections are a reconnect, two actions the second click, and
`MaxUnread` and `MaxPushes` keep the frames on their way few: one notification is enough
to be taken for an answer. In `TelegramAdapter` one retry gives two loops and two
applications to confuse, senders do not influence each other, the registry (`Capacity`)
has one place too few for both people, and `MaxRestarts` is one: what a restart keeps is
what the first one does.

`assisted`, `chat_session` and `telegram` do not check deadlock: a handler has one
text, connections and notices are used up, and a bot whose polling ended stays ended.

Fairness. `FairSpec` assumes that a handler that has begun is scheduled until it ends:
it runs on an operating-system thread and waits for no other handler. In
`AssistedRequest` the handlers and the executor's threads are such threads, and a call of
the model ends because its HTTP client has a timeout (`llm_client.py:24`). In
`ChatSession` the browser delivers opens, frames and closes, and the server's event loop
schedules its handlers: `Open`, `Receive` and `OnClose` are fair, and `Serve(k)` as a
whole, so that it may be an answer or an error that a message comes to, and the pushes
and the breaks of connections may never happen. In `TelegramAdapter` the polling thread
goes on (`Thread`), and so does a thread that sends (`Sender`); that a run of the
application ends, that the older instance does, and that a persistence thread ever runs
is not assumed. Nothing is assumed of users, who may never send a message.

The violation is a real disagreement between the code and its documentation:

* `terminal_overwritten`: `_change_status` validates the status it read and then
  overwrites whatever the row has become, so of two racing decisions both succeed and
  the second one stays, although terminal states are documented as terminal.
  `SettledIsFinal` bounds the window: only handlers that loaded the request before it was
  decided can still overwrite the decision.

Further disagreements, which are plain from the actions and have no run:

* Persistence threads are unordered (`RunWrite`, `WriteFails`), so that a restart may
  bring back a draft that was replaced, discarded or submitted, although the architecture
  documentation has the state survive restarts. `RowsFollow` says when a table can be
  out of step with its cache, and `TakenStaysTaken` when a draft can return.
* A user has one hint: a decision on another request clears it and another NEEDINFO
  overwrites it (`Remember`), although the requester was told to just reply.
* The row is committed before its event is recorded (`Update`, `AppendEvent`): if the
  second call fails, the documented audit event for the transition never exists.
  `RowsExplained` accounts for such events as `lost`.
* `get_request` accepts an id in lower case, but the event is filed under the id as
  typed (`EventOf`), so the history of the canonical id lacks it.
* A write of the Sheets store drops the copy of its worksheet only when its API call
  returns (`ReplyLost`): if the call is applied but raises, readers see the old rows for
  up to 15 s, although the code's comment says that reads after a write are always
  fresh. `FreshReads` holds as long as no reply is lost.
* The web form creates its request (`SendForm`) without the confirmation that the
  product documentation promises.
* A draft is pending (`SetDraft`) before the answer that shows it is worded and sent: a
  `/confirm` that arrives meanwhile submits what its requester has not seen.
* After a NEEDINFO, a `/discard`, which finds no draft, drops the hint (`Discard`), and so
  do a message in the fixed pattern (`Pattern`) and a reply that cannot be parsed
  (`Reply`, `Answer`), or, without a language model, any reply.

What the code leaves open, without promising otherwise:

* The tab cannot tell which message an answer answers: a pushed notification, or the
  answer to a text, ends a pending action (`Receive`). `OneAction` says that two actions
  are outstanding on a socket in this case only, `PendingHasCause` that it never happens
  the other way round, buttons blocked with nothing to unblock them.
* The fallback timer repeats a form as a text unless some frame arrives in time, and it
  outlives its connection (`Fallback`); `FallbackUnseen` is what remains of "only when
  there was no answer". The typing indicator also survives a reconnect (`OnClose`).
* A text in the fixed pattern is normalised and not validated (`Pattern`): `DraftSound`
  asks a valid approver, a real change and a target of at most 120 characters only of
  drafts by the model. `.@-b.co`, for one, matches the pattern and becomes the approver
  `@-b.co`, which `is_valid_approver_handle` refuses.
* A NEEDINFO stores its hint after its status is written (`Update`, `Remember`). A decision
  by another handler in between clears the hint before it is there, so that the hint of a
  decided request stays, and its requester's next text is taken for an answer and refused;
  so does one that a handler was to clear when it failed. `HintsGoStale` says that a hint
  goes stale in these two ways only, whatever else interleaves.
* People who write to an older instance after the new one loaded the registry cannot be
  notified by it until they write again (`RivalUpsert`), nor can those whose key was
  not stored before a restart (`Upsert`, `Restart`).
* `run_coroutine_threadsafe` raises when the loop is closed after it was tested
  (`Submit`): the handler that sends a notification then fails, although its request
  is created or decided, and the web hub is not told.

## Proofs

TLAPS checks, for any values of the constants:

* `ReviewWorkflowProofs`. `TypeOK` is not inductive alone: `MAX(event_sequence)` is only
  well defined because the numbers of a timeline are an interval, so it is proved with
  `Gapless` (each timeline's numbers are `1..k`, and a number some transaction has
  computed is at most one above them), which gives `NoGaps` too. `CommitOrder` follows
  from `NoneHeld` (under the lock no handler ever holds a number). `RowsWhole` needs
  `CallsWhole` (the record a handler is about to write is itself whole and explained by
  the event it will owe), and with `HistoryGrows` (an event never leaves recorded, owed
  and lost) gives `RowsExplained`. With one worker and
  no failures, `CallsFresh` (the record about to be written continues the row that is still
  there) gives the refinement of `ReviewLifecycle`, proved step by step.
* `ReviewJournalProofs`. The refinement of `ReviewJournal` holds for any number of handlers
  and failing calls. Its invariant, `JournalInv`, joins the invariants above with
  `CallsGrounded`: the record that a handler is about to write follows, by a move of the
  lifecycle, from a stage in the request's history, however old the row it was loaded
  from. Every store call is then a step of the journal (`Create` and `Update`) or a
  stutter: recording an event, or losing it with its handler, moves it within the history.
  `RevisionsTold` is inductive over that refinement. `SettledIsFinal` needs only the types
  and that a handler loads a decided row as decided, so that validation refuses it;
  `AuditedAtRest` follows from `RowsExplained` and that nothing is lost when no call fails.
* `DraftManagerProofs`. `RowsFollow` from `Following`: while clean, at most one write
  of a row is in flight, and it writes what the cache holds. `TakenStaysTaken` needs that
  a new draft is in no cache, row or write yet (`AllComposed`) and that no draft is in
  such a place of two users (`Owned`), or taking it from one would leave it with the
  other; what a restart loads is by `RowsFollow` what the cache last held, unless a write
  is on its way or the row is not clean. `TakenOnce`, the same until the first restart,
  follows from `HeldOnce`, which needs no rows.

* `SheetsStoreProofs`. `TypeOK` and `NoGaps` from `Counted`: the numbers of a timeline
  are `1..n` in the worksheet and in its copy, the copy's are a part of the
  worksheet's, and a number about to be written is at most one above them.
  `RequestsStay` from `Aligned`: a copy of the requests, however old, agrees with the
  worksheet on the key of every row it has. When no reply is lost, `Exact` (copies are
  fresh, one thread writes, and what it relies on is still there) gives `FreshReads`,
  `OneRow` and the refinement of `WorkflowTables`. Without that assumption, `Single` (a
  request has one row, one write is made at a time, and a row is appended for a request
  that has none) and `Aligned` give the refinement for the requests alone.

* `ConversationProofs`. `TypeOK` and `HintsOwn` are proved together with `RefsExist`
  (what a handler works on is in the store): rows are never removed and keep their
  requester, so that what is true of a hint when it is set stays true. `OnePlace` from
  `Placed`, which says of each pair of places that a draft is not in both, and of a
  draft that it is somewhere exactly when it was composed. `HintsGoStale` follows step by
  step from the same facts: a decision that is written finds its handler about to clear the
  hint (`UpdateStale`), and a handler leaves that state by clearing it or by failing
  (`RememberStale`, `FailStale`). For the refinement of `DraftLife`, `At` states the one place
  of each draft, from `Placed`; a step is then a step of the abstract specification for the
  drafts it moves (a new draft replaces the one its user had) and leaves the places of all
  others (`UntouchedStays`).

* `AssistedRequestProofs`. `DraftSound` from `ResultsSound` (a result that waits to be
  used was validated) and `DraftsChecked`; that the choice between two sound results is
  sound is the lemma `ResolvedType`, and it needs that fields are never mixed and, in
  `Taken`, that a handler that went on to the second result has the first and that no result
  is an exception. The executor's size is proved with the finiteness of `running`.
  `ResultsStay` needs `Once`: a task is in one place, the queue or a thread, and only while its result is
  pending and its handler has not passed the wait for it.

* `ChatSessionProofs`. An action is sent once, so it is in one place: unread, with the
  handler, or answered (`Once`, over sequences of frames). `TabInv` says that, unless an
  answer was stolen, the pending action is the only one outstanding on the socket, and
  that it is outstanding until the socket breaks. `PendingHasCause` and `OneAction`
  follow; `FallbackUnseen` and `HubServes` are inductive. `ActionOnce` is `Once` for the
  actions, that an action is on one connection (`OnOne`), and that a step moves it on or
  leaves it (`MovesOn`).

* `TelegramAdapterProofs`. `ThreadInv`: loops before the thread's own are closed, those
  after it not made, and the two fields hold the thread's own or nothing. `SenderInv`:
  when a sender has read both fields, they belong together or the loop it read is
  closed, which `Check` refuses. `OwnApp` and `OneLoop` follow for any number of retries
  and senders. `Reachable` and `Remembered` are inductive with the finiteness of the
  registry; eviction is the argument about cardinalities in `RegisterUser`.

The refinements of `ReviewJournal`, of `DraftLife` and of the requests' table, and the other
theorems added to these modules for races and failures, assume nothing beyond the
constants' named assumptions. `AuditedAtRest` states its circumstance, that no call fails,
itself.

The theorems assume only the constants' named assumptions; the refinement of
`ReviewLifecycle` also assumes a single worker and no failures, and the three about
`FreshReads`, `OneRow` and the refinement of `WorkflowTables` that no reply is lost, as the
runs do.
Every invariant and action property the passing runs check is proved.
Liveness (`EventuallyAudited`, `TextsAnswered`, `ActionEnds`,
`AnswersCome`, `Released`, `Resolved`, `TakesOver`) is model-checked only: TLAPS here
proves neither liveness under fairness nor `ENABLED`.

Some results are proved and in no passing run, because a property a run does check says
what they say and more. `TakenOnce` follows from `TakenStaysTaken`, `AuditedAtRest` from
`RowsExplained`, `OnePlace` from `ImplementsDraftLife`. `RevisionsTold`
tells of rows what the refinement of `ReviewJournal` tells of stages and revisions,
`RequestsStay` of row numbers what
`ImplementsRequests` tells of the table, and `CommitOrder` of the Sheets lock what `OneRow`
shows in the store's own code. `HubServes` (the hub has the connections that are served)
and `ResultsStay` (no result of a task is replaced) are in no run: they were easy to state
and to prove once the invariants of their modules were there.

## Not modelled

* The regular expressions of the intent router and of the parser, the search for targets
  and the query service's lists: pure functions of text and rows, which change nothing.
  `Conversation` allows every outcome of routing.
* The Telegram command handlers beyond `_register_user`: each calls one method of the
  coordinator, modelled in `Conversation`, in a thread and formats what it returns.
* Prompts, and the calls of the language model that only word an answer: any text will
  do, and each failure falls back to a fixed text.
* `AgentMemoryService`: written in the background, and read only for a sentence of
  context in the model's prompts.
* Login, sessions, the read-only HTTP API and the rendering of the web client.
* Configuration and wiring (`config.py`, `app.py`): checked once at start-up, without
  state of their own.
* The size of the Postgres pool: a call that gets no connection is a call that fails.
* Which chat a key of the registry stands for, and Telegram's own queue of updates,
  which every start of polling empties.
* Two processes on one Google Sheet: the documentation recommends one replica, and the
  store's lock cannot span two.
