--------------------------- MODULE TelegramAdapter ---------------------------
(***************************************************************************)
(* TelegramAdapter: the thread that runs the bot's event loop, the threads *)
(* that send through it, and the registry of chats.                        *)
(*                                                                         *)
(* In polling mode the thread makes a loop, runs the application on it,    *)
(* and, after a Conflict with an older instance that still polls, closes   *)
(* the loop, builds another application and tries again.  In webhook mode  *)
(* there is one loop and one application, and updates come from the web    *)
(* server.  Coordinator threads read `_loop' and `_application' without a  *)
(* lock while all this goes on.                                            *)
(*                                                                         *)
(*   thread    StartPolling, StartWebhook, Begin, Run, Conflict, End,      *)
(*             Clear, Close, Rebuild, SetWebhook, Stop                     *)
(*   senders   NotifyApprover, NotifyRequester, WebhookUpdate, ReadLoop,   *)
(*             ReadApp, Check, Submit, Deliver                             *)
(*   registry  PollUpdate, Upsert, Restart                                 *)
(*   outside   RivalEnds, RivalUpsert                                      *)
(*                                                                         *)
(* Which chat a key stands for is left out: the registry is a set of keys. *)
(***************************************************************************)
EXTENDS Naturals, FiniteSets

CONSTANTS
    Notices,        \* notifications and webhook updates, each one used once
    Keys,           \* @handle and telegram:<id>
    Senders,        \* the keys of each person that writes to the bot
    Capacity,       \* entries of the registry (4096)
    Retries,        \* conflict_max_retries (18)
    MaxRestarts     \* bound: restarts of the process

ASSUME SendersAssumption ==
    /\ Capacity \in Nat
    /\ Senders \subseteq SUBSET Keys
    /\ \A K \in Senders : IsFiniteSet(K) /\ Cardinality(K) <= Capacity

ASSUME RetriesAssumption == Retries \in Nat /\ MaxRestarts \in Nat

VARIABLES
    mode,       \* telegram.mode
    rival,      \* an older instance still polls and writes to the store
    thread,     \* what the polling or webhook thread does next
    attempt,    \* conflicts it has retried
    conflict,   \* the last run ended with a Conflict
    app,        \* _application: how many were built, 0 for None
    loop,       \* _loop: its number, 0 for None
    life,       \* life[g]: loop g
    driver,     \* driver[g]: the application that runs on loop g
    hook,       \* the registration of the webhook
    tries,      \* calls of set_webhook that failed
    pc, at,     \* pc[n], at[n]: what the sender of n does next, and has read
    known,      \* _chat_registry
    stored,     \* table chat_registry
    upserts,    \* keys that a persistence thread has not stored, or not yet
    wrote,      \* keys of updates that this process handled
    restarts

threadVars == <<thread, attempt, conflict, app, loop, life, driver>>
hookVars == <<hook, tries>>
noticeVars == <<pc, at>>
registryVars == <<known, stored, upserts, wrote>>
outside == <<mode, rival, restarts>>
vars == <<threadVars, hookVars, noticeVars, registryVars, outside>>

Loops == 1 .. Retries + 1
WebhookTries == 5

Reading == {"loop", "app", "check", "submit", "queued"}
Ended == {"sent", "lost", "dropped", "raised"}
Notice == [kind : {"message", "update"}, keys : Senders \cup {{}},
           loop : {0} \cup Loops, app : {0} \cup Loops]
Blank == [kind |-> "message", keys |-> {}, loop |-> 0, app |-> 0]

\* Every variable has its type; applications are numbered as the loops they run on.
TypeOK ==
    /\ mode \in {"polling", "webhook"} /\ rival \in BOOLEAN
    /\ thread \in {"none", "begin", "start", "run", "finally", "closing", "sleep", "done"}
    /\ attempt \in 0 .. Retries /\ conflict \in BOOLEAN
    /\ app \in {0} \cup Loops /\ loop \in {0} \cup Loops
    /\ life \in [Loops -> {"unborn", "created", "running", "stopped", "draining", "closed"}]
    /\ driver \in [Loops -> {0} \cup Loops]
    /\ hook \in {"none", "init", "set", "failed", "deleted"}
    /\ tries \in 0 .. WebhookTries
    /\ pc \in [Notices -> {"idle"} \cup Reading \cup Ended]
    /\ at \in [Notices -> Notice]
    /\ known \subseteq Keys /\ stored \subseteq Keys /\ upserts \subseteq Keys
    /\ wrote \subseteq Keys /\ Cardinality(known) <= Capacity
    /\ restarts \in 0 .. MaxRestarts

Idle ==
    /\ thread = "none" /\ attempt = 0 /\ conflict = FALSE
    /\ app = 0 /\ loop = 0
    /\ life = [g \in Loops |-> "unborn"]
    /\ driver = [g \in Loops |-> 0]
    /\ hook = "none" /\ tries = 0
    /\ pc = [n \in Notices |-> "idle"]
    /\ at = [n \in Notices |-> Blank]
    /\ upserts = {} /\ wrote = {}

Init ==
    /\ mode \in {"polling", "webhook"} /\ rival \in BOOLEAN
    /\ Idle
    /\ known = {} /\ stored = {}
    /\ restarts = 0

-----------------------------------------------------------------------------
(* The thread.  Its loop is number attempt + 1.                            *)

Mine == attempt + 1

StartPolling ==
    /\ mode = "polling" /\ thread = "none"
    /\ app' = 1
    /\ thread' = "begin"
    /\ UNCHANGED <<attempt, conflict, loop, life, driver>>

StartWebhook ==
    /\ mode = "webhook" /\ thread = "none"
    /\ app' = 1 /\ loop' = 1
    /\ life' = [life EXCEPT ![1] = "created"]
    /\ thread' = "start"
    /\ UNCHANGED <<attempt, conflict, driver>>

Begin ==
    /\ thread = "begin"
    /\ loop' = Mine
    /\ life' = [life EXCEPT ![Mine] = "created"]
    /\ conflict' = FALSE
    /\ thread' = "start"
    /\ UNCHANGED <<attempt, app, driver>>

\* run_polling and run_forever; the application does not change meanwhile.
Run ==
    /\ thread = "start"
    /\ life' = [life EXCEPT ![Mine] = "running"]
    /\ driver' = [driver EXCEPT ![Mine] = app]
    /\ thread' = "run"
    /\ UNCHANGED <<attempt, conflict, app, loop>>

Halt(c) ==
    /\ thread = "run"
    /\ life' = [life EXCEPT ![Mine] = "stopped"]
    /\ conflict' = c
    /\ thread' = "finally"
    /\ UNCHANGED <<attempt, app, loop, driver>>

Conflict == mode = "polling" /\ rival /\ Halt(TRUE)

\* Polling ends when it is told to, or with any other error; run_forever when it is
\* told to.  The program itself never calls stop.
End == Halt(FALSE)

\* Mutant of Clear: the adapter keeps the loop.
ClearKeeps ==
    /\ thread = "finally"
    /\ life' = [life EXCEPT ![Mine] = "draining"]
    /\ thread' = "closing"
    /\ UNCHANGED <<attempt, conflict, app, loop, driver>>

\* The finally clause: the loop runs once more, for its generators.
Clear ==
    /\ thread = "finally"
    /\ loop' = 0
    /\ life' = [life EXCEPT ![Mine] = "draining"]
    /\ thread' = "closing"
    /\ UNCHANGED <<attempt, conflict, app, driver>>

\* What is queued when a loop is closed never runs.
Lost(g) == {n \in Notices : pc[n] = "queued" /\ at[n].loop = g}

\* Mutants of Close: it retries once too often; once too rarely.
CloseMore ==
    /\ thread = "closing"
    /\ life' = [life EXCEPT ![Mine] = "closed"]
    /\ thread' = IF conflict /\ attempt <= Retries THEN "sleep" ELSE "done"
    /\ pc' = [n \in Notices |-> IF n \in Lost(Mine) THEN "lost" ELSE pc[n]]
    /\ UNCHANGED <<attempt, conflict, app, loop, driver>>

CloseLess ==
    /\ thread = "closing"
    /\ life' = [life EXCEPT ![Mine] = "closed"]
    /\ thread' = IF conflict /\ attempt + 1 < Retries THEN "sleep" ELSE "done"
    /\ pc' = [n \in Notices |-> IF n \in Lost(Mine) THEN "lost" ELSE pc[n]]
    /\ UNCHANGED <<attempt, conflict, app, loop, driver>>

Close ==
    /\ thread = "closing"
    /\ life' = [life EXCEPT ![Mine] = "closed"]
    /\ thread' = IF conflict /\ attempt < Retries THEN "sleep" ELSE "done"
    /\ pc' = [n \in Notices |-> IF n \in Lost(Mine) THEN "lost" ELSE pc[n]]
    /\ UNCHANGED <<attempt, conflict, app, loop, driver>>

\* After the sleep, with a fresh application.
Rebuild ==
    /\ thread = "sleep"
    /\ app' = app + 1
    /\ attempt' = attempt + 1
    /\ thread' = "begin"
    /\ UNCHANGED <<conflict, loop, life, driver>>

\* Failures of set_webhook are retried; that the last one failed is only logged.
SetWebhook ==
    /\ hook = "init" /\ life[1] = "running"
    /\ \/ hook' = "set" /\ UNCHANGED tries
       \/ /\ tries' = tries + 1
          /\ hook' = IF tries' = WebhookTries THEN "failed" ELSE "init"
    /\ UNCHANGED <<threadVars, noticeVars, registryVars, outside>>

\* stop() in webhook mode; the thread then leaves run_forever.
Stop ==
    /\ mode = "webhook" /\ loop # 0 /\ thread = "run"
    /\ hook' \in {hook, "deleted"}
    /\ Halt(FALSE)
    /\ UNCHANGED <<tries, noticeVars, registryVars, outside>>

Thread ==
    \/ /\ Begin \/ Run \/ Clear \/ Rebuild
       /\ UNCHANGED <<hookVars, noticeVars, registryVars, outside>>
    \/ Close /\ UNCHANGED <<hookVars, at, registryVars, outside>>

Start ==
    \/ StartPolling /\ UNCHANGED <<hookVars, noticeVars, registryVars, outside>>
    \/ /\ StartWebhook /\ hook' = "init"
       /\ UNCHANGED <<tries, noticeVars, registryVars, outside>>

Halted ==
    /\ Conflict \/ (mode = "polling" /\ End)
    /\ UNCHANGED <<hookVars, noticeVars, registryVars, outside>>

-----------------------------------------------------------------------------
(* The registry.                                                           *)

\* Memory holds the keys S as far as they fit: which ones go is the cache's choice.
Fits(M, S) ==
    /\ M \subseteq S /\ Cardinality(M) <= Capacity
    /\ M = S \/ Cardinality(M) = Capacity

\* Mutants of RegisterUser: what is new is looked up when memory has it already; a new
\* person replaces the others.
RegisterLate(K) ==
    /\ \E M \in SUBSET (known \cup K) : K \subseteq M /\ Fits(M, known \cup K) /\ known' = M
    /\ wrote' = wrote \cup K
    /\ upserts' = upserts \cup (K \ known')
    /\ UNCHANGED stored

RegisterAlone(K) ==
    /\ known' = K
    /\ wrote' = wrote \cup K
    /\ upserts' = upserts \cup (K \ known)
    /\ UNCHANGED stored

\* _register_user: a person's keys go to memory, under the lock, and the new ones to a
\* thread each.
RegisterUser(K) ==
    /\ \E M \in SUBSET (known \cup K) : K \subseteq M /\ Fits(M, known \cup K) /\ known' = M
    /\ wrote' = wrote \cup K
    /\ upserts' = upserts \cup (K \ known)
    /\ UNCHANGED stored

PollUpdate(K) ==
    /\ mode = "polling" /\ thread = "run"
    /\ RegisterUser(K)
    /\ UNCHANGED <<threadVars, hookVars, noticeVars, outside>>

\* A persistence thread.  One that fails is not started again, as the key is known by
\* now: it is no different from one that never runs.
Upsert(k) ==
    /\ k \in upserts
    /\ upserts' = upserts \ {k}
    /\ stored' = stored \cup {k}
    /\ UNCHANGED <<known, wrote, threadVars, hookVars, noticeVars, outside>>

\* The process ends with all its threads and starts again; loading the table may fail.
Restart ==
    /\ restarts < MaxRestarts /\ thread # "none"
    /\ restarts' = restarts + 1
    /\ thread' = "none" /\ attempt' = 0 /\ conflict' = FALSE
    /\ app' = 0 /\ loop' = 0
    /\ life' = [g \in Loops |-> "unborn"]
    /\ driver' = [g \in Loops |-> 0]
    /\ hook' = "none" /\ tries' = 0
    /\ pc' = [n \in Notices |-> IF pc[n] \in Reading THEN "lost" ELSE pc[n]]
    /\ at' = [n \in Notices |-> Blank]
    /\ upserts' = {} /\ wrote' = {}
    /\ \E M \in SUBSET stored : (M = {} \/ Fits(M, stored)) /\ known' = M
    /\ UNCHANGED <<stored, mode, rival>>

RivalEnds ==
    /\ rival /\ rival' = FALSE
    /\ UNCHANGED <<mode, restarts, threadVars, hookVars, noticeVars, registryVars>>

\* The older instance registers a person: this one's memory does not learn of it.
RivalUpsert(k) ==
    /\ rival
    /\ stored' = stored \cup {k}
    /\ UNCHANGED <<known, upserts, wrote, threadVars, hookVars, noticeVars, outside>>

-----------------------------------------------------------------------------
(* The senders.                                                            *)

\* Mutant of First: a message reads the application first, as an update does.
FirstApp(kind) == "app"

\* _send_message reads the loop and then the application, process_webhook_update the
\* other way round.
First(kind) == IF kind = "message" THEN "loop" ELSE "app"

SenderStep(n, next) ==
    /\ pc' = [pc EXCEPT ![n] = next]
    /\ UNCHANGED <<threadVars, hookVars, registryVars, outside>>

Raised(n, kind, K) ==
    /\ pc[n] = "idle"
    /\ at' = [at EXCEPT ![n] = [Blank EXCEPT !.kind = kind, !.keys = K]]
    /\ SenderStep(n, First(kind))

\* A key without an entry in memory is not notified.
NotifyApprover(n, k) ==
    \/ k \in known /\ Raised(n, "message", {})
    \/ k \notin known /\ pc[n] = "idle" /\ SenderStep(n, "dropped") /\ UNCHANGED at

\* The chat is the one that the request came from.
NotifyRequester(n) == Raised(n, "message", {})

WebhookUpdate(n, K) == mode = "webhook" /\ thread # "none" /\ Raised(n, "update", K)

ReadLoop(n) ==
    /\ pc[n] = "loop"
    /\ at' = [at EXCEPT ![n].loop = loop]
    /\ SenderStep(n, IF First(at[n].kind) = "loop" THEN "app" ELSE "check")

ReadApp(n) ==
    /\ pc[n] = "app"
    /\ at' = [at EXCEPT ![n].app = app]
    /\ SenderStep(n, IF First(at[n].kind) = "loop" THEN "check" ELSE "loop")

\* What is_running may say of a loop: while it drains, it runs only some of the time.
Runs(g) == life[g] \in {"running", "draining"}
Rests(g) == life[g] # "running"

\* Mutant of Check: it waits for a loop that has stopped.
CheckWaits(n) ==
    /\ pc[n] = "check"
    /\ UNCHANGED at
    /\ \/ /\ at[n].loop # 0 /\ at[n].app # 0 /\ Runs(at[n].loop)
          /\ SenderStep(n, "submit")
       \/ /\ at[n].loop = 0 \/ at[n].app = 0
          /\ SenderStep(n, "dropped")

Check(n) ==
    /\ pc[n] = "check"
    /\ UNCHANGED at
    /\ \/ /\ at[n].loop # 0 /\ at[n].app # 0 /\ Runs(at[n].loop)
          /\ SenderStep(n, "submit")
       \/ /\ at[n].loop # 0 /\ at[n].app # 0 => Rests(at[n].loop)
          /\ SenderStep(n, "dropped")

\* run_coroutine_threadsafe raises for a loop that was closed in between.
Submit(n) ==
    /\ pc[n] = "submit"
    /\ SenderStep(n, IF life[at[n].loop] = "closed" THEN "raised" ELSE "queued")
    /\ UNCHANGED at

\* The loop sends the message, or hands the update to its handler; either may fail.
Deliver(n) ==
    /\ pc[n] = "queued" /\ Runs(at[n].loop)
    /\ UNCHANGED at
    /\ \/ at[n].kind = "message" /\ SenderStep(n, "sent")
       \/ SenderStep(n, "lost")
       \/ /\ at[n].kind = "update" /\ RegisterUser(at[n].keys)
          /\ pc' = [pc EXCEPT ![n] = "sent"]
          /\ UNCHANGED <<threadVars, hookVars, outside>>

Sender(n) == ReadLoop(n) \/ ReadApp(n) \/ Check(n) \/ Submit(n) \/ Deliver(n)

-----------------------------------------------------------------------------

Next ==
    \/ Start \/ Thread \/ Halted \/ SetWebhook \/ Stop \/ Restart \/ RivalEnds
    \/ \E n \in Notices :
        \/ Sender(n) \/ NotifyRequester(n)
        \/ \E k \in Keys : NotifyApprover(n, k)
        \/ \E K \in Senders : WebhookUpdate(n, K)
    \/ \E K \in Senders : PollUpdate(K)
    \/ \E k \in Keys : Upsert(k) \/ RivalUpsert(k)

Spec == Init /\ [][Next]_vars

\* The operating system runs the threads, and the loop its tasks.
FairSpec ==
    /\ Spec
    /\ WF_vars(Thread)
    /\ \A n \in Notices : WF_vars(Sender(n))

-----------------------------------------------------------------------------
(* Properties.                                                             *)

\* What is queued on a loop uses the application that runs on that loop, however often
\* the thread replaced both since they were read without a lock (_send_message).
OwnApp ==
    \A n \in Notices :
        pc[n] \in {"submit", "queued"} => at[n].app = driver[at[n].loop]

\* The thread closes a loop before it makes the next one, and senders never find a loop
\* that is closed or about to be (_run_polling's finally clause).
OneLoop ==
    /\ \A g, h \in Loops : {life[g], life[h]} \cap {"unborn", "closed"} = {} => g = h
    /\ loop # 0 => life[loop] \in {"created", "running", "stopped"}

\* A person who wrote to this process can be notified until the registry is full.
Reachable == wrote \subseteq known \/ Cardinality(known) = Capacity

\* What memory knows is in the table or with its persistence thread: a restart forgets
\* nothing else (_register_user, upsert_chat_id).
Remembered == known \subseteq stored \cup upserts

\* A notification neither hangs nor blocks the coordinator's thread: it is sent, lost,
\* dropped or refused.
Resolved == \A n \in Notices : pc[n] \in Reading ~> pc[n] \in Ended

\* A conflict ends polling for good only after the last attempt.
TakesOver ==
    (conflict /\ attempt < Retries) ~> (life[Mine] = "running" \/ thread = "none")
=============================================================================
