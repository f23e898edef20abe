---------------------------- MODULE Conversation ----------------------------
(***************************************************************************)
(* RequestCoordinator: what the messages of users do to drafts, to the     *)
(* hints that a NEEDINFO leaves, and to requests.                          *)
(*                                                                         *)
(* A handler runs in a worker thread.  Each operation of DraftManager is   *)
(* atomic under its lock and each store call is a step; between them the   *)
(* handler asks the language model or the store, and other handlers run:   *)
(*                                                                         *)
(*   /confirm         Confirm (pop_draft), Create                          *)
(*   /discard         Discard                                              *)
(*   fixed pattern    Pattern (reset_for_new_request), SetDraft            *)
(*   reply            Reply (pop_resubmit), Parsed, Update                 *)
(*   free text        Ask, then as the model classifies it                 *)
(*   approver action  Act, Update, Remember                                *)
(*   web form         SendForm, Create                                     *)
(*                                                                         *)
(* The module covers one life of the process; how drafts and hints survive *)
(* a restart is DraftManager's subject, what a request's row and history   *)
(* hold is ReviewWorkflow's.  Texts are abstracted to what is made of      *)
(* them, and the half-filled draft, which only lengthens a text, is left   *)
(* out.                                                                    *)
(***************************************************************************)
EXTENDS Naturals, FiniteSets

CONSTANTS
    Workers,    \* threads that run handlers
    Handles,    \* users
    Drafts,     \* drafts, each one composed once
    Requests,   \* request ids, each one assigned once
    None,
    Form,       \* where a request of the web form comes from, in place of a draft
    Assistant,  \* a language model is configured
    Vague,      \* texts may be unclear or lack fields
    MayFail,    \* a call of the model or the store may raise
    MayExpire   \* drafts and hints may reach the end of their TTL

ASSUME NoneAssumption == None \notin Handles \cup Drafts \cup Requests

ASSUME FormAssumption == Form \notin Drafts \cup {None}

ASSUME FlagsAssumption == {Assistant, Vague, MayFail, MayExpire} \subseteq BOOLEAN

VARIABLES
    draft,      \* draft[h]: _pending_drafts
    hint,       \* hint[h]: _pending_resubmit
    request,    \* request[r]: the row, NoRequest while r does not exist
    handler,    \* handler[w]: what w's handler does next
    composed,   \* drafts that have been set
    dropped     \* drafts that were replaced, discarded, expired or failed

vars == <<draft, hint, request, handler, composed, dropped>>

Decided == {"approved", "rejected", "cancelled"}

Moves == [submitted  |-> {"needs_info"} \cup Decided,
          needs_info |-> {"submitted", "cancelled"},
          approved   |-> {},
          rejected   |-> {},
          cancelled  |-> {}]

Status == DOMAIN Moves

Request == [by : Handles, of : Drafts \cup {Form}, status : Status]

NoRequest == [by |-> None, of |-> None, status |-> None]

Busy(pc, h, d, r, s) == [pc |-> pc, who |-> h, draft |-> d, req |-> r, to |-> s]

Idle == Busy("idle", None, None, None, None)

\* The steps a handler may be about to do, with what it carries to them.
Handler ==
    {Idle}
    \cup {Busy(pc, h, None, None, None) : pc \in {"understand", "draft"}, h \in Handles}
    \cup {Busy("create", h, d, None, None) : h \in Handles, d \in Drafts \cup {Form}}
    \cup {Busy("reply", h, None, r, None) : h \in Handles, r \in Requests}
    \cup {Busy("parse", None, None, r, None) : r \in Requests}
    \cup {Busy(pc, None, None, r, s) : pc \in {"update", "remember"},
                                       r \in Requests, s \in Status}

\* Every variable has its type, and a handler carries what its next step needs: one
\* that answers a NEEDINFO has a request to answer (pop_resubmit's None is no reply).
TypeOK ==
    /\ draft \in [Handles -> Drafts \cup {None}]
    /\ hint \in [Handles -> Requests \cup {None}]
    /\ request \in [Requests -> Request \cup {NoRequest}]
    /\ handler \in [Workers -> Handler]
    /\ composed \subseteq Drafts
    /\ dropped \subseteq Drafts

Exists(r) == request[r] # NoRequest

Init ==
    /\ draft = [h \in Handles |-> None]
    /\ hint = [h \in Handles |-> None]
    /\ request = [r \in Requests |-> NoRequest]
    /\ handler = [w \in Workers |-> Idle]
    /\ composed = {}
    /\ dropped = {}

-----------------------------------------------------------------------------
(* Helpers of the actions.                                                 *)

Continue(w, next) == handler' = [handler EXCEPT ![w] = next]

\* w may act on a command of h: one that was typed, or one the model recognized.
Commanded(w, h) ==
    handler[w] \in {Idle, Busy("understand", h, None, None, None)}

\* A bound of the model, not of the code: an id is left for what will be created.
IdsLeft == Cardinality({w \in Workers : handler[w].pc = "create"})
               < Cardinality({r \in Requests : ~Exists(r)})

\* Likewise: a draft is left for every text that will become one.
DraftsLeft == Cardinality({w \in Workers : handler[w].pc = "draft"})
                  < Cardinality(Drafts \ composed)

-----------------------------------------------------------------------------
(* Drafts.                                                                 *)

\* Mutant of Confirm: the draft is read and stays pending.
ConfirmPeeks(w, h) ==
    /\ Commanded(w, h)
    /\ draft[h] # None
    /\ IdsLeft
    /\ Continue(w, Busy("create", h, draft[h], None, None))
    /\ UNCHANGED <<draft, hint, request, composed, dropped>>

\* Without a draft the handler answers with an error (Answer).
Confirm(w, h) ==
    /\ Commanded(w, h)
    /\ draft[h] # None
    /\ IdsLeft
    /\ draft' = [draft EXCEPT ![h] = None]
    /\ Continue(w, Busy("create", h, draft[h], None, None))
    /\ UNCHANGED <<hint, request, composed, dropped>>

\* The form of the web client goes to create_request without a draft.
SendForm(w, h) ==
    /\ handler[w] = Idle
    /\ IdsLeft
    /\ Continue(w, Busy("create", h, Form, None, None))
    /\ UNCHANGED <<draft, hint, request, composed, dropped>>

\* The impact note is generated, then the row is written.
Create(w) ==
    /\ handler[w].pc = "create"
    /\ \E r \in Requests :
        /\ ~Exists(r)
        /\ request' = [request EXCEPT ![r] = [by |-> handler[w].who,
                        of |-> handler[w].draft, status |-> "submitted"]]
    /\ Continue(w, Idle)
    /\ UNCHANGED <<draft, hint, composed, dropped>>

\* /discard needs no draft to drop the hint; only a typed one is understood.
Discard(w, h) ==
    /\ handler[w] = Idle
    /\ {draft[h], hint[h]} # {None}
    /\ draft' = [draft EXCEPT ![h] = None]
    /\ hint' = [hint EXCEPT ![h] = None]
    /\ dropped' = dropped \cup ({draft[h]} \ {None})
    /\ UNCHANGED <<request, handler, composed>>

\* A message in the fixed pattern starts a request afresh.
Pattern(w, h) ==
    /\ handler[w] = Idle
    /\ DraftsLeft
    /\ hint' = [hint EXCEPT ![h] = None]
    /\ Continue(w, Busy("draft", h, None, None, None))
    /\ UNCHANGED <<draft, request, composed, dropped>>

\* The text was a complete request; a draft that was pending is replaced.  The draft
\* can be confirmed before the answer that shows it is worded and sent.
SetDraft(w) ==
    LET h == handler[w].who IN
    /\ handler[w].pc = "draft" \/ (handler[w].pc = "understand" /\ DraftsLeft)
    /\ \E d \in Drafts \ composed :
        /\ draft' = [draft EXCEPT ![h] = d]
        /\ composed' = composed \cup {d}
    /\ dropped' = dropped \cup ({draft[h]} \ {None})
    /\ Continue(w, Idle)
    /\ UNCHANGED <<hint, request>>

-----------------------------------------------------------------------------
(* Replies and free text.                                                  *)

\* Mutant of Reply: pop_resubmit's None is not told from a hint.
ReplyUnchecked(w, h) ==
    /\ handler[w] = Idle
    /\ hint' = [hint EXCEPT ![h] = None]
    /\ Continue(w, Busy("reply", h, None, hint[h], None))
    /\ UNCHANGED <<draft, request, composed, dropped>>

\* While a NEEDINFO is unanswered the next free text is taken for the answer.
Reply(w, h) ==
    /\ handler[w] = Idle
    /\ hint[h] # None
    /\ hint' = [hint EXCEPT ![h] = None]
    /\ Continue(w, Busy("reply", h, None, hint[h], None))
    /\ UNCHANGED <<draft, request, composed, dropped>>

\* /resubmit names its request; anyone may send it, and no hint is consulted.
Resubmit(w, h, r) ==
    /\ Commanded(w, h)
    /\ Exists(r)
    /\ Continue(w, Busy("parse", None, None, r, None))
    /\ UNCHANGED <<draft, hint, request, composed, dropped>>

\* The text is parsed and the request loaded and validated.  A reply is not in the
\* fixed pattern, or it would have been a Pattern: only the model can parse it.
Parsed(w) ==
    LET r == handler[w].req IN
    /\ handler[w].pc \in {"reply", "parse"}
    /\ handler[w].pc = "reply" => Assistant
    /\ "submitted" \in Moves[request[r].status]
    /\ Continue(w, Busy("update", None, None, r, "submitted"))
    /\ UNCHANGED <<draft, hint, request, composed, dropped>>

\* The text goes to the model, which classifies it and extracts a request.
Ask(w, h) ==
    /\ handler[w] = Idle
    /\ hint[h] = None
    /\ Assistant
    /\ Continue(w, Busy("understand", h, None, None, None))
    /\ UNCHANGED <<draft, hint, request, composed, dropped>>

\* The handler answers without an effect: a query, an error, missing fields.
Answer(w) ==
    /\ \/ handler[w].pc = "understand"
       \/ handler[w].pc = "draft" /\ Vague
       \/ handler[w].pc \in {"reply", "parse"} /\ Vague
       \/ handler[w].pc = "reply" /\ ~Assistant
       \/ /\ handler[w].pc \in {"reply", "parse"}
          /\ "submitted" \notin Moves[request[handler[w].req].status]
    /\ Continue(w, Idle)
    /\ UNCHANGED <<draft, hint, request, composed, dropped>>

-----------------------------------------------------------------------------
(* Approver actions.                                                       *)

\* The request is loaded and the move validated; anyone may send the action.
Act(w, h, r, s) ==
    /\ Commanded(w, h)
    /\ Exists(r)
    /\ s \in Moves[request[r].status] \ {"submitted"}
    /\ Continue(w, Busy("update", None, None, r, s))
    /\ UNCHANGED <<draft, hint, request, composed, dropped>>

\* Mutant of Update: a cancellation is not among the actions that clear a hint.
UpdateCancels(w) ==
    LET r == handler[w].req
        s == handler[w].to
    IN /\ handler[w].pc = "update"
       /\ request' = [request EXCEPT ![r].status = s]
       /\ Continue(w, IF s \in {"submitted", "cancelled"} THEN Idle
                      ELSE Busy("remember", None, None, r, s))
       /\ UNCHANGED <<draft, hint, composed, dropped>>

\* update_request writes the record that was loaded, with its new status.
Update(w) ==
    LET r == handler[w].req
        s == handler[w].to
    IN /\ handler[w].pc = "update"
       /\ request' = [request EXCEPT ![r].status = s]
       /\ Continue(w, IF s = "submitted" THEN Idle
                      ELSE Busy("remember", None, None, r, s))
       /\ UNCHANGED <<draft, hint, composed, dropped>>

\* Mutant of Remember: the hint goes to whoever takes turns with the requester.
RememberOther(w) ==
    LET r == handler[w].req IN
    /\ handler[w].pc = "remember"
    /\ \E h \in Handles :
        hint' = [hint EXCEPT ![h] = IF handler[w].to = "needs_info" THEN r ELSE None]
    /\ Continue(w, Idle)
    /\ UNCHANGED <<draft, request, composed, dropped>>

\* After the event is recorded: a NEEDINFO leaves its requester a hint, a decision
\* clears whatever hint its requester has.
Remember(w) ==
    LET r == handler[w].req IN
    /\ handler[w].pc = "remember"
    /\ hint' = [hint EXCEPT ![request[r].by] =
                    IF handler[w].to = "needs_info" THEN r ELSE None]
    /\ Continue(w, Idle)
    /\ UNCHANGED <<draft, request, composed, dropped>>

-----------------------------------------------------------------------------

\* A call raises and the handler ends; a draft it popped is not put back.
Fail(w) ==
    /\ MayFail
    /\ handler[w] # Idle
    /\ dropped' = IF handler[w].pc = "create" THEN dropped \cup ({handler[w].draft} \ {Form})
                  ELSE dropped
    /\ Continue(w, Idle)
    /\ UNCHANGED <<draft, hint, request, composed>>

ExpireDraft(h) ==
    /\ MayExpire
    /\ draft[h] # None
    /\ draft' = [draft EXCEPT ![h] = None]
    /\ dropped' = dropped \cup {draft[h]}
    /\ UNCHANGED <<hint, request, handler, composed>>

ExpireHint(h) ==
    /\ MayExpire
    /\ hint[h] # None
    /\ hint' = [hint EXCEPT ![h] = None]
    /\ UNCHANGED <<draft, request, handler, composed, dropped>>

Next ==
    \/ \E w \in Workers, h \in Handles :
        \/ Confirm(w, h) \/ SendForm(w, h) \/ Discard(w, h) \/ Pattern(w, h)
        \/ Reply(w, h) \/ Ask(w, h)
        \/ \E r \in Requests : Resubmit(w, h, r) \/ \E s \in Status : Act(w, h, r, s)
    \/ \E w \in Workers :
        \/ Create(w) \/ SetDraft(w) \/ Parsed(w) \/ Answer(w)
        \/ Update(w) \/ Remember(w) \/ Fail(w)
    \/ \E h \in Handles : ExpireDraft(h) \/ ExpireHint(h)

Spec == Init /\ [][Next]_vars

-----------------------------------------------------------------------------
(* Properties.                                                             *)

Confirming(w, d) == handler[w].pc = "create" /\ handler[w].draft = d

\* Everywhere that draft d is.
Places(d) == {<<"pending", h>> : h \in {h \in Handles : draft[h] = d}}
        \cup {<<"confirming", w>> : w \in {w \in Workers : Confirming(w, d)}}
        \cup {<<"submitted", r>> : r \in {r \in Requests : request[r].of = d}}
        \cup {<<"dropped", p>> : p \in {d} \cap dropped}

\* A draft that was composed is in exactly one place: it waits, is being confirmed,
\* has become one request, or was dropped.  No confirmation makes two requests of it
\* and no race loses it (pop_draft and set_draft against each other).
OnePlace == \A d \in composed : \E p \in Places(d) : Places(d) = {p}

\* The places of draft d as its user knows them, in the terms of DraftLife.
Whereabouts(d) ==
    LET At(stage, h, r) == [stage |-> stage, by |-> h, as |-> r] IN
         {At("pending", h, None) : h \in {h \in Handles : draft[h] = d}}
    \cup {At("confirmed", handler[w].who, None) : w \in {w \in Workers : Confirming(w, d)}}
    \cup {At("submitted", request[r].by, r) : r \in {r \in Requests : request[r].of = d}}
    \cup {At("dropped", None, None) : p \in {d} \cap dropped}

Life == INSTANCE DraftLife WITH where <- [d \in Drafts |-> Whereabouts(d)]

\* However the handlers of several threads interleave, fail and expire, a draft is
\* confirmed by the user it was composed for, once, becomes at most one request, of
\* that user, and never comes back from where it went (_confirm_pending_draft,
\* set_draft, pop_draft).
ImplementsDraftLife == Life!Spec

\* What a user's next free text will resubmit, or is about to, is a request of that
\* user (pop_resubmit by the sender, set_resubmit by the record's requester).
HintsOwn ==
    /\ \A h \in Handles : hint[h] # None => request[hint[h]].by = h
    /\ \A w \in Workers : handler[w].pc = "reply" =>
            request[handler[w].req].by = handler[w].who

\* w is to clear the hint of h, after a decision on a request of theirs.
Clearing(w, h) ==
    /\ handler[w].pc = "remember" /\ handler[w].to \in Decided
    /\ request[handler[w].req].by = h

\* The hint of h names a decided request, which no text can resubmit, and stays.
Stale(h) ==
    /\ hint[h] # None /\ request[hint[h]].status \in Decided
    /\ \A w \in Workers : ~Clearing(w, h)

\* A hint goes stale, so that its user's next text is refused, in two ways only: a
\* decision overtook a NEEDINFO between its write and its hint, or a call failed between
\* a decision and the clearing that follows it (handle_approver_action).
HintsGoStale ==
    [][\A h \in Handles : ~Stale(h) /\ Stale(h)' =>
            \E w \in Workers :
                /\ handler[w].pc = "remember" /\ handler'[w] = Idle
                /\ \/ /\ handler[w].to = "needs_info" /\ hint'[h] = handler[w].req
                      /\ request[handler[w].req].status \in Decided
                   \/ MayFail /\ Clearing(w, h)]_vars
=============================================================================
