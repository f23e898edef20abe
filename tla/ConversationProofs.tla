------------------------- MODULE ConversationProofs -------------------------
(***************************************************************************)
(* Theorems about Conversation, for any number of users, threads, drafts   *)
(* and requests.                                                           *)
(*                                                                         *)
(* HintsOwn and the types need that what a handler works on exists.        *)
(* OnePlace is proved in the form of pairs of places that exclude each     *)
(* other, for drafts that were composed, and of no place for the others.   *)
(* That Conversation implements DraftLife is proved from OnePlace, and     *)
(* HintsGoStale by looking at what each step does to hints, to decided     *)
(* requests and to the handlers that are about to clear a hint.            *)
(***************************************************************************)
EXTENDS Conversation, TLAPS

\* What a handler is going to load or write was found in the store.
RefsExist ==
    \A w \in Workers : handler[w].pc \in {"reply", "parse", "update", "remember"} =>
        Exists(handler[w].req)

Refs == TypeOK /\ RefsExist /\ HintsOwn

LEMMA StatusSet == Status = {"submitted", "needs_info"} \cup Decided
BY DEF Status, Moves, Decided

LEMMA BusyHandlers ==
    /\ Idle \in Handler
    /\ \A h \in Handles : Busy("understand", h, None, None, None) \in Handler
    /\ \A h \in Handles : Busy("draft", h, None, None, None) \in Handler
    /\ \A h \in Handles, d \in Drafts \cup {Form} :
            Busy("create", h, d, None, None) \in Handler
    /\ \A h \in Handles, r \in Requests : Busy("reply", h, None, r, None) \in Handler
    /\ \A r \in Requests : Busy("parse", None, None, r, None) \in Handler
    /\ \A r \in Requests, s \in Status : Busy("update", None, None, r, s) \in Handler
    /\ \A r \in Requests, s \in Status : Busy("remember", None, None, r, s) \in Handler
BY DEF Handler

LEMMA HandlerFields ==
    ASSUME NEW x \in Handler
    PROVE  /\ x.pc \in {"understand", "draft", "create", "reply"} => x.who \in Handles
           /\ x.pc = "create" => x.draft \in Drafts \cup {Form}
           /\ x.pc \in {"reply", "parse", "update", "remember"} => x.req \in Requests
           /\ x.pc \in {"update", "remember"} => x.to \in Status
<1>1. CASE x = Idle
  BY <1>1 DEF Idle, Busy
<1>2. CASE x # Idle
  <2>. HIDE DEF Idle
  <2>. QED BY <1>2 DEF Handler, Busy
<1>. QED BY <1>1, <1>2

LEMMA BusyFields ==
    /\ Idle.pc = "idle" /\ Idle.who = None /\ Idle.draft = None
    /\ \A pc, h, d, r, s :
        /\ Busy(pc, h, d, r, s).pc = pc
        /\ Busy(pc, h, d, r, s).who = h
        /\ Busy(pc, h, d, r, s).draft = d
        /\ Busy(pc, h, d, r, s).req = r
        /\ Busy(pc, h, d, r, s).to = s
BY DEF Idle, Busy

LEMMA RefsInit == Init => Refs
<1>. SUFFICES ASSUME Init PROVE Refs OBVIOUS
<1>. USE DEF Init
<1>1. TypeOK BY BusyHandlers DEF TypeOK
<1>2. RefsExist BY BusyFields DEF RefsExist
<1>3. HintsOwn BY BusyFields DEF HintsOwn
<1>. QED BY <1>1, <1>2, <1>3 DEF Refs

\* Requests are created and change their status; nothing else happens to them.
LEMMA RefsNext == Refs /\ [Next]_vars => Refs'
<1>. SUFFICES ASSUME Refs, [Next]_vars PROVE Refs'
  OBVIOUS
<1>. USE NoneAssumption, BusyFields DEF Refs, Continue
<1>0. \A w \in Workers : handler[w] \in Handler BY DEF TypeOK
<1>1. ASSUME NEW w \in Workers, NEW h \in Handles, Confirm(w, h) PROVE Refs'
  <2>1. Busy("create", h, draft[h], None, None) \in Handler
    BY <1>1, BusyHandlers DEF Confirm, TypeOK
  <2>2. TypeOK' BY <1>1, <2>1 DEF Confirm, TypeOK
  <2>3. RefsExist' BY <1>1 DEF Confirm, RefsExist, Exists, TypeOK
  <2>4. HintsOwn' BY <1>1 DEF Confirm, HintsOwn, TypeOK
  <2>. QED BY <2>2, <2>3, <2>4
<1>2. ASSUME NEW w \in Workers, NEW h \in Handles, SendForm(w, h) PROVE Refs'
  <2>1. Busy("create", h, Form, None, None) \in Handler BY BusyHandlers
  <2>2. TypeOK' BY <1>2, <2>1 DEF SendForm, TypeOK
  <2>3. RefsExist' BY <1>2 DEF SendForm, RefsExist, Exists, TypeOK
  <2>4. HintsOwn' BY <1>2 DEF SendForm, HintsOwn, TypeOK
  <2>. QED BY <2>2, <2>3, <2>4
<1>3. ASSUME NEW w \in Workers, Create(w) PROVE Refs'
  <2>1. PICK r \in Requests :
          /\ ~Exists(r)
          /\ request' = [request EXCEPT ![r] = [by |-> handler[w].who,
                        of |-> handler[w].draft, status |-> "submitted"]]
    BY <1>3 DEF Create
  <2>2. handler[w].who \in Handles /\ handler[w].draft \in Drafts \cup {Form}
    BY <1>0, <1>3, HandlerFields DEF Create
  <2>3. request'[r] \in Request /\ request'[r] # NoRequest
    BY <2>1, <2>2, StatusSet DEF TypeOK, Request, NoRequest
  <2>4. \A q \in Requests : Exists(q) => q # r /\ request'[q] = request[q]
    BY <2>1 DEF TypeOK
  <2>5. TypeOK'
    BY <1>3, <2>1, <2>3, BusyHandlers DEF Create, TypeOK
  <2>6. RefsExist'
    BY <1>0, <1>3, <2>4, HandlerFields DEF Create, RefsExist, Exists, TypeOK
  <2>7. HintsOwn'
    <3>1. \A g \in Handles : hint[g] # None => request'[hint[g]].by = g
      BY <2>4 DEF HintsOwn, TypeOK, Exists, NoRequest
    <3>2. \A v \in Workers : handler[v].pc = "reply" =>
              request'[handler[v].req].by = handler[v].who
      BY <1>0, <2>4, HandlerFields DEF HintsOwn, RefsExist
    <3>. QED BY <1>3, <3>1, <3>2 DEF Create, HintsOwn, TypeOK
  <2>. QED BY <2>5, <2>6, <2>7
<1>4. ASSUME NEW w \in Workers, NEW h \in Handles, Discard(w, h) PROVE Refs'
  <2>1. TypeOK' BY <1>4 DEF Discard, TypeOK
  <2>2. RefsExist' BY <1>4 DEF Discard, RefsExist, Exists
  <2>3. HintsOwn' BY <1>4 DEF Discard, HintsOwn, TypeOK
  <2>. QED BY <2>1, <2>2, <2>3
<1>5. ASSUME NEW w \in Workers, NEW h \in Handles, Pattern(w, h) PROVE Refs'
  <2>1. TypeOK' BY <1>5, BusyHandlers DEF Pattern, TypeOK
  <2>2. RefsExist' BY <1>5 DEF Pattern, RefsExist, Exists, TypeOK
  <2>3. HintsOwn' BY <1>5 DEF Pattern, HintsOwn, TypeOK
  <2>. QED BY <2>1, <2>2, <2>3
<1>6. ASSUME NEW w \in Workers, SetDraft(w) PROVE Refs'
  <2>1. handler[w].who \in Handles
    BY <1>0, <1>6, HandlerFields DEF SetDraft
  <2>2. PICK d \in Drafts \ composed :
          /\ draft' = [draft EXCEPT ![handler[w].who] = d]
          /\ composed' = composed \cup {d}
    BY <1>6, Zenon DEF SetDraft
  <2>4. TypeOK' BY <1>6, <2>1, <2>2, BusyHandlers DEF SetDraft, TypeOK
  <2>5. RefsExist' BY <1>6, <2>2 DEF SetDraft, RefsExist, Exists, TypeOK
  <2>6. HintsOwn' BY <1>6, <2>2 DEF SetDraft, HintsOwn, TypeOK
  <2>. QED BY <2>4, <2>5, <2>6
<1>8. ASSUME NEW w \in Workers, NEW h \in Handles, Reply(w, h) PROVE Refs'
  <2>1. hint[h] \in Requests /\ request[hint[h]].by = h
    BY <1>8 DEF Reply, TypeOK, HintsOwn
  <2>2. Busy("reply", h, None, hint[h], None) \in Handler
    BY <2>1, BusyHandlers
  <2>3. TypeOK' BY <1>8, <2>2 DEF Reply, TypeOK
  <2>4. RefsExist'
    <3>1. Exists(hint[h]) BY <2>1 DEF Exists, NoRequest
    <3>. QED BY <1>8, <3>1 DEF Reply, RefsExist, Exists, TypeOK
  <2>5. HintsOwn' BY <1>8, <2>1 DEF Reply, HintsOwn, TypeOK
  <2>. QED BY <2>3, <2>4, <2>5
<1>9. ASSUME NEW w \in Workers, NEW h \in Handles, NEW r \in Requests, Resubmit(w, h, r)
      PROVE Refs'
  <2>1. TypeOK' BY <1>9, BusyHandlers DEF Resubmit, TypeOK
  <2>2. RefsExist' BY <1>9 DEF Resubmit, RefsExist, Exists, TypeOK
  <2>3. HintsOwn' BY <1>9 DEF Resubmit, HintsOwn, TypeOK
  <2>. QED BY <2>1, <2>2, <2>3
<1>10. ASSUME NEW w \in Workers, Parsed(w) PROVE Refs'
  <2>1. handler[w].req \in Requests /\ Exists(handler[w].req)
    BY <1>0, <1>10, HandlerFields DEF Parsed, RefsExist
  <2>2. Busy("update", None, None, handler[w].req, "submitted") \in Handler
    BY <2>1, StatusSet, BusyHandlers
  <2>3. TypeOK' BY <1>10, <2>2 DEF Parsed, TypeOK
  <2>4. RefsExist' BY <1>10, <2>1 DEF Parsed, RefsExist, Exists, TypeOK
  <2>5. HintsOwn' BY <1>10 DEF Parsed, HintsOwn, TypeOK
  <2>. QED BY <2>3, <2>4, <2>5
<1>11. ASSUME NEW w \in Workers, NEW h \in Handles, Ask(w, h) PROVE Refs'
  <2>1. TypeOK' BY <1>11, BusyHandlers DEF Ask, TypeOK
  <2>2. RefsExist' BY <1>11 DEF Ask, RefsExist, Exists, TypeOK
  <2>3. HintsOwn' BY <1>11 DEF Ask, HintsOwn, TypeOK
  <2>. QED BY <2>1, <2>2, <2>3
<1>12. ASSUME NEW w \in Workers, Answer(w) PROVE Refs'
  <2>1. TypeOK' BY <1>12, BusyHandlers DEF Answer, TypeOK
  <2>2. RefsExist' BY <1>12 DEF Answer, RefsExist, Exists, TypeOK
  <2>3. HintsOwn' BY <1>12 DEF Answer, HintsOwn, TypeOK
  <2>. QED BY <2>1, <2>2, <2>3
<1>13. ASSUME NEW w \in Workers, NEW h \in Handles, NEW r \in Requests, NEW s \in Status,
              Act(w, h, r, s)
       PROVE Refs'
  <2>1. TypeOK' BY <1>13, BusyHandlers DEF Act, TypeOK
  <2>2. RefsExist' BY <1>13 DEF Act, RefsExist, Exists, TypeOK
  <2>3. HintsOwn' BY <1>13 DEF Act, HintsOwn, TypeOK
  <2>. QED BY <2>1, <2>2, <2>3
<1>14. ASSUME NEW w \in Workers, Update(w) PROVE Refs'
  <2>. DEFINE r == handler[w].req
              s == handler[w].to
  <2>1. r \in Requests /\ s \in Status /\ Exists(r)
    BY <1>0, <1>14, HandlerFields DEF Update, RefsExist
  <2>2. request' = [request EXCEPT ![r].status = s]
    BY <1>14 DEF Update
  <2>3. handler' = [handler EXCEPT ![w] = IF s = "submitted" THEN Idle
                                  ELSE Busy("remember", None, None, r, s)]
    BY <1>14 DEF Update
  <2>4. UNCHANGED <<draft, hint, composed, dropped>>
    BY <1>14 DEF Update
  <2>. HIDE DEF r, s
  <2>5. request[r] \in Request
    BY <2>1 DEF TypeOK, Exists
  <2>6. request'[r] \in Request /\ request'[r] # NoRequest /\ request'[r].by = request[r].by
    BY <2>1, <2>2, <2>5 DEF TypeOK, Request, NoRequest
  <2>7. \A q \in Requests : q # r => request'[q] = request[q]
    BY <2>2 DEF TypeOK
  <2>8. (IF s = "submitted" THEN Idle ELSE Busy("remember", None, None, r, s)) \in Handler
    BY <2>1, BusyHandlers
  <2>9. TypeOK' BY <2>2, <2>3, <2>4, <2>6, <2>7, <2>8 DEF TypeOK
  <2>10. RefsExist'
    BY <1>0, <2>1, <2>3, <2>6, <2>7, HandlerFields DEF RefsExist, Exists, TypeOK
  <2>11. \A q \in Requests : request'[q].by = request[q].by
    BY <2>6, <2>7
  <2>12. HintsOwn'
    BY <1>0, <2>3, <2>4, <2>11, HandlerFields DEF HintsOwn, TypeOK
  <2>. QED BY <2>9, <2>10, <2>12
<1>15. ASSUME NEW w \in Workers, Remember(w) PROVE Refs'
  <2>. DEFINE r == handler[w].req
              g == request[r].by
  <2>1. r \in Requests /\ Exists(r)
    BY <1>0, <1>15, HandlerFields DEF Remember, RefsExist
  <2>2. g \in Handles
    BY <2>1 DEF TypeOK, Exists, Request
  <2>3. hint' = [hint EXCEPT ![g] = IF handler[w].to = "needs_info" THEN r ELSE None]
    BY <1>15 DEF Remember
  <2>4. UNCHANGED <<draft, request, composed, dropped>>
        /\ handler' = [handler EXCEPT ![w] = Idle]
    BY <1>15 DEF Remember
  <2>5. r \in Requests /\ request[r].by = g BY <2>1
  <2>. HIDE DEF r, g
  <2>6. TypeOK' BY <2>2, <2>3, <2>4, <2>5, BusyHandlers DEF TypeOK
  <2>7. RefsExist' BY <2>4 DEF RefsExist, Exists, TypeOK
  <2>8. HintsOwn' BY <2>2, <2>3, <2>4, <2>5 DEF HintsOwn, TypeOK
  <2>. QED BY <2>6, <2>7, <2>8
<1>16. ASSUME NEW w \in Workers, Fail(w) PROVE Refs'
  <2>1. handler[w].pc = "create" => handler[w].draft \in Drafts \cup {Form}
    BY <1>0, HandlerFields
  <2>2. dropped' \subseteq Drafts BY <1>16, <2>1 DEF Fail, TypeOK
  <2>3. TypeOK' BY <1>16, <2>2, BusyHandlers DEF Fail, TypeOK
  <2>4. RefsExist' BY <1>16 DEF Fail, RefsExist, Exists, TypeOK
  <2>5. HintsOwn' BY <1>16 DEF Fail, HintsOwn, TypeOK
  <2>. QED BY <2>3, <2>4, <2>5
<1>17. ASSUME NEW h \in Handles, ExpireDraft(h) \/ ExpireHint(h) PROVE Refs'
  <2>1. TypeOK' BY <1>17 DEF ExpireDraft, ExpireHint, TypeOK
  <2>2. RefsExist' BY <1>17 DEF ExpireDraft, ExpireHint, RefsExist, Exists
  <2>3. HintsOwn' BY <1>17 DEF ExpireDraft, ExpireHint, HintsOwn, TypeOK
  <2>. QED BY <2>1, <2>2, <2>3
<1>18. CASE UNCHANGED vars
  BY <1>18 DEF vars, TypeOK, RefsExist, Exists, HintsOwn
<1>. QED
  BY <1>1, <1>2, <1>3, <1>4, <1>5, <1>6, <1>8, <1>9, <1>10, <1>11, <1>12, <1>13,
     <1>14, <1>15, <1>16, <1>17, <1>18 DEF Next

LEMMA RefsAlways == Spec => []Refs
BY RefsInit, RefsNext, PTL DEF Spec

\* Drafts, hints, rows and what handlers carry keep their types: no handler answers a
\* NEEDINFO that is not there (pop_resubmit, handle_resubmission).
THEOREM TypeCorrect == Spec => []TypeOK
<1>. Refs => TypeOK BY DEF Refs
<1>. QED BY RefsAlways, PTL

\* A hint and a reply in hand are always of a request of the user whose text will
\* answer it, however handlers interleave, fail and expire (set_resubmit,
\* pop_resubmit).
THEOREM HintsOwnCorrect == Spec => []HintsOwn
<1>. Refs => HintsOwn BY DEF Refs
<1>. QED BY RefsAlways, PTL

-----------------------------------------------------------------------------
(* OnePlace.                                                               *)

Submitted(r, d) == request[r].of = d

Somewhere(d) ==
    \/ \E h \in Handles : draft[h] = d
    \/ \E w \in Workers : Confirming(w, d)
    \/ \E r \in Requests : Submitted(r, d)
    \/ d \in dropped

\* No two places hold draft d.
Apart(d) ==
    /\ \A h, g \in Handles : draft[h] = d /\ draft[g] = d => h = g
    /\ \A w, v \in Workers : Confirming(w, d) /\ Confirming(v, d) => w = v
    /\ \A r, q \in Requests : Submitted(r, d) /\ Submitted(q, d) => r = q
    /\ \A h \in Handles : draft[h] = d =>
        /\ \A w \in Workers : ~Confirming(w, d)
        /\ \A r \in Requests : ~Submitted(r, d)
        /\ d \notin dropped
    /\ \A w \in Workers : Confirming(w, d) =>
        /\ \A r \in Requests : ~Submitted(r, d)
        /\ d \notin dropped
    /\ \A r \in Requests : Submitted(r, d) => d \notin dropped

Placed == \A d \in Drafts : Apart(d) /\ (d \in composed <=> Somewhere(d))

LEMMA PlacedOnce == TypeOK /\ Placed => OnePlace
<1>. SUFFICES ASSUME TypeOK, Placed, NEW d \in composed
              PROVE  \E p \in Places(d) : Places(d) = {p}
  BY DEF OnePlace
<1>1. d \in Drafts BY DEF TypeOK
<1>2. Apart(d) /\ Somewhere(d) BY <1>1 DEF Placed
<1>3. CASE \E h \in Handles : draft[h] = d
  <2>1. PICK h \in Handles : draft[h] = d BY <1>3
  <2>2. Places(d) = {<<"pending", h>>} BY <1>2, <2>1, Zenon DEF Places, Apart, Submitted
  <2>. QED BY <2>2
<1>4. CASE \E w \in Workers : Confirming(w, d)
  <2>1. PICK w \in Workers : Confirming(w, d) BY <1>4
  <2>2. Places(d) = {<<"confirming", w>>} BY <1>2, <2>1, Zenon DEF Places, Apart, Submitted
  <2>. QED BY <2>2
<1>5. CASE \E r \in Requests : Submitted(r, d)
  <2>1. PICK r \in Requests : Submitted(r, d) BY <1>5
  <2>2. Places(d) = {<<"submitted", r>>} BY <1>2, <2>1, Zenon DEF Places, Apart, Submitted
  <2>. QED BY <2>2
<1>6. CASE d \in dropped
  <2>1. Places(d) = {<<"dropped", d>>} BY <1>2, <1>6, Zenon DEF Places, Apart, Submitted
  <2>. QED BY <2>1
<1>. QED BY <1>2, <1>3, <1>4, <1>5, <1>6 DEF Somewhere

LEMMA PlacedInit == Init => Placed
<1>. SUFFICES ASSUME Init, NEW d \in Drafts PROVE Apart(d) /\ (d \in composed <=> Somewhere(d))
  BY DEF Placed
<1>1. d # None BY NoneAssumption
<1>. QED BY <1>1, BusyFields DEF Init, Apart, Somewhere, Confirming, Submitted, NoRequest

\* A step that moves no draft.
LEMMA SamePlaces ==
    ASSUME Placed, UNCHANGED <<draft, composed, dropped>>,
           \A w \in Workers : \A d \in Drafts : Confirming(w, d)' <=> Confirming(w, d),
           \A r \in Requests : \A d \in Drafts : Submitted(r, d)' <=> Submitted(r, d)
    PROVE  Placed'
BY DEF Placed, Apart, Somewhere

LEMMA PlacedNext == Refs /\ Placed /\ [Next]_vars => Placed'
<1>. SUFFICES ASSUME Refs, Placed, [Next]_vars PROVE Placed'
  OBVIOUS
<1>. USE NoneAssumption, FormAssumption, BusyFields
<1>0. TypeOK /\ \A w \in Workers : handler[w] \in Handler BY DEF Refs, TypeOK
<1>. USE <1>0
<1>1. ASSUME NEW w \in Workers, NEW h \in Handles, Confirm(w, h) PROVE Placed'
  <2>1. draft[h] \in Drafts /\ draft' = [draft EXCEPT ![h] = None]
        /\ UNCHANGED <<request, composed, dropped>>
    BY <1>1 DEF Confirm, TypeOK
  <2>2. \A d \in Drafts : ~Confirming(w, d)
    BY <1>1 DEF Confirm, Commanded, Confirming
  <2>3. \A v \in Workers : \A d \in Drafts :
          Confirming(v, d)' <=> IF v = w THEN d = draft[h] ELSE Confirming(v, d)
    BY <1>1 DEF Confirm, Confirming, Continue, TypeOK
  <2>4. \A r \in Requests : \A d \in Drafts : Submitted(r, d)' <=> Submitted(r, d)
    BY <2>1 DEF Submitted
  <2>. QED BY <2>1, <2>2, <2>3, <2>4 DEF Placed, Apart, Somewhere, TypeOK
<1>2. ASSUME NEW w \in Workers, NEW h \in Handles, SendForm(w, h) PROVE Placed'
  <2>1. \A v \in Workers : \A d \in Drafts : Confirming(v, d)' <=> Confirming(v, d)
    BY <1>2 DEF SendForm, Confirming, Continue, TypeOK
  <2>. QED BY <1>2, <2>1, SamePlaces DEF SendForm, Submitted
<1>3. ASSUME NEW w \in Workers, Create(w) PROVE Placed'
  <2>1. PICK r \in Requests :
          /\ ~Exists(r)
          /\ request' = [request EXCEPT ![r] = [by |-> handler[w].who,
                        of |-> handler[w].draft, status |-> "submitted"]]
    BY <1>3 DEF Create
  <2>2. \A q \in Requests : \A d \in Drafts :
          Submitted(q, d)' <=> IF q = r THEN Confirming(w, d) ELSE Submitted(q, d)
    BY <1>3, <2>1 DEF Create, Submitted, Confirming, TypeOK
  <2>3. \A d \in Drafts : ~Submitted(r, d)
    BY <2>1 DEF Exists, NoRequest, Submitted
  <2>4. \A v \in Workers : \A d \in Drafts :
          Confirming(v, d)' <=> v # w /\ Confirming(v, d)
    BY <1>3 DEF Create, Confirming, Continue, TypeOK
  <2>5. UNCHANGED <<draft, composed, dropped>> BY <1>3 DEF Create
  <2>. QED BY <2>2, <2>3, <2>4, <2>5 DEF Placed, Apart, Somewhere
<1>4. ASSUME NEW w \in Workers, NEW h \in Handles, Discard(w, h) PROVE Placed'
  <2>1. draft' = [draft EXCEPT ![h] = None] /\ dropped' = dropped \cup ({draft[h]} \ {None})
        /\ UNCHANGED composed
    BY <1>4 DEF Discard
  <2>2. /\ \A v \in Workers : \A d \in Drafts : Confirming(v, d)' <=> Confirming(v, d)
        /\ \A r \in Requests : \A d \in Drafts : Submitted(r, d)' <=> Submitted(r, d)
    BY <1>4 DEF Discard, Confirming, Submitted
  <2>. QED BY <2>1, <2>2 DEF Placed, Apart, Somewhere, TypeOK
<1>5. ASSUME NEW w \in Workers, NEW h \in Handles, Pattern(w, h) PROVE Placed'
  <2>1. \A v \in Workers : \A d \in Drafts : Confirming(v, d)' <=> Confirming(v, d)
    BY <1>5 DEF Pattern, Confirming, Continue, TypeOK
  <2>. QED BY <1>5, <2>1, SamePlaces DEF Pattern, Submitted
<1>6. ASSUME NEW w \in Workers, SetDraft(w) PROVE Placed'
  <2>. DEFINE h == handler[w].who
  <2>1. h \in Handles
    BY <1>6, HandlerFields DEF SetDraft
  <2>2. PICK e \in Drafts \ composed :
          /\ draft' = [draft EXCEPT ![h] = e]
          /\ composed' = composed \cup {e}
    BY <1>6, Zenon DEF SetDraft
  <2>3. /\ dropped' = dropped \cup ({draft[h]} \ {None})
        /\ UNCHANGED request
        /\ Continue(w, Idle)
    BY <1>6 DEF SetDraft
  <2>4. \A d \in Drafts : ~Confirming(w, d)
    BY <1>6 DEF SetDraft, Confirming
  <2>. HIDE DEF h
  <2>5. \A v \in Workers : \A d \in Drafts : Confirming(v, d)' <=> Confirming(v, d)
    BY <2>3, <2>4 DEF Confirming, Continue, TypeOK
  <2>6. \A r \in Requests : \A d \in Drafts : Submitted(r, d)' <=> Submitted(r, d)
    BY <2>3 DEF Submitted
  <2>7. ASSUME NEW d \in Drafts PROVE (d \in composed <=> Somewhere(d))'
    BY <2>1, <2>2, <2>3, <2>5, <2>6 DEF Placed, Somewhere, TypeOK
  <2>8. ASSUME NEW d \in Drafts PROVE Apart(d)'
    BY <2>1, <2>2, <2>3, <2>5, <2>6 DEF Placed, Apart, Somewhere, TypeOK
  <2>. QED BY <2>7, <2>8 DEF Placed
<1>8. ASSUME NEW w \in Workers, NEW h \in Handles, Reply(w, h) \/ Ask(w, h) PROVE Placed'
  <2>1. \A v \in Workers : \A d \in Drafts : Confirming(v, d)' <=> Confirming(v, d)
    BY <1>8 DEF Reply, Ask, Confirming, Continue, TypeOK
  <2>. QED BY <1>8, <2>1, SamePlaces DEF Reply, Ask, Submitted
<1>9. ASSUME NEW w \in Workers, NEW h \in Handles, NEW r \in Requests,
             Resubmit(w, h, r) \/ \E s \in Status : Act(w, h, r, s)
      PROVE  Placed'
  <2>1. \A v \in Workers : \A d \in Drafts : Confirming(v, d)' <=> Confirming(v, d)
    BY <1>9 DEF Resubmit, Act, Commanded, Confirming, Continue, TypeOK
  <2>. QED BY <1>9, <2>1, SamePlaces DEF Resubmit, Act, Submitted
<1>10. ASSUME NEW w \in Workers, Parsed(w) \/ Answer(w) PROVE Placed'
  <2>1. \A v \in Workers : \A d \in Drafts : Confirming(v, d)' <=> Confirming(v, d)
    BY <1>10 DEF Parsed, Answer, Confirming, Continue, TypeOK
  <2>. QED BY <1>10, <2>1, SamePlaces DEF Parsed, Answer, Submitted
<1>11. ASSUME NEW w \in Workers, Update(w) PROVE Placed'
  <2>1. \A v \in Workers : \A d \in Drafts : Confirming(v, d)' <=> Confirming(v, d)
    BY <1>11 DEF Update, Confirming, Continue, TypeOK
  <2>2. handler[w].req \in Requests /\ request[handler[w].req] \in Request
    BY <1>11, HandlerFields DEF Update, Refs, RefsExist, TypeOK, Exists
  <2>3. \A r \in Requests : request'[r].of = request[r].of
    BY <1>11, <2>2 DEF Update, TypeOK, Request
  <2>. QED BY <1>11, <2>1, <2>3, SamePlaces DEF Update, Submitted
<1>12. ASSUME NEW w \in Workers, Remember(w) PROVE Placed'
  <2>1. \A v \in Workers : \A d \in Drafts : Confirming(v, d)' <=> Confirming(v, d)
    BY <1>12 DEF Remember, Confirming, Continue, TypeOK
  <2>. QED BY <1>12, <2>1, SamePlaces DEF Remember, Submitted
<1>13. ASSUME NEW w \in Workers, Fail(w) PROVE Placed'
  <2>1. \A v \in Workers : \A d \in Drafts : Confirming(v, d)' <=> v # w /\ Confirming(v, d)
    BY <1>13 DEF Fail, Confirming, Continue, TypeOK
  <2>2. \A d \in Drafts : d \in dropped' <=> d \in dropped \/ Confirming(w, d)
    BY <1>13 DEF Fail, Confirming
  <2>3. UNCHANGED <<draft, composed, request>> BY <1>13 DEF Fail
  <2>4. \A r \in Requests : \A d \in Drafts : Submitted(r, d)' <=> Submitted(r, d)
    BY <2>3 DEF Submitted
  <2>. QED BY <2>1, <2>2, <2>3, <2>4 DEF Placed, Apart, Somewhere
<1>14. ASSUME NEW h \in Handles, ExpireDraft(h) PROVE Placed'
  <2>1. draft' = [draft EXCEPT ![h] = None] /\ dropped' = dropped \cup {draft[h]}
        /\ draft[h] # None /\ UNCHANGED composed
    BY <1>14 DEF ExpireDraft
  <2>2. /\ \A v \in Workers : \A d \in Drafts : Confirming(v, d)' <=> Confirming(v, d)
        /\ \A r \in Requests : \A d \in Drafts : Submitted(r, d)' <=> Submitted(r, d)
    BY <1>14 DEF ExpireDraft, Confirming, Submitted
  <2>. QED BY <2>1, <2>2 DEF Placed, Apart, Somewhere, TypeOK
<1>15. CASE (\E h \in Handles : ExpireHint(h)) \/ UNCHANGED vars
  BY <1>15, SamePlaces DEF ExpireHint, vars, Confirming, Submitted
<1>. QED
  BY <1>1, <1>2, <1>3, <1>4, <1>5, <1>6, <1>8, <1>9, <1>10, <1>11, <1>12, <1>13,
     <1>14, <1>15 DEF Next

\* A composed draft is pending, being confirmed, one request, or dropped, and only one
\* of these: confirmations, replacements, discards and expiry can neither lose it nor
\* submit it twice (pop_draft, set_draft, _confirm_pending_draft).
THEOREM OnePlaceCorrect == Spec => []OnePlace
<1>1. Init => Placed BY PlacedInit
<1>2. Refs /\ Placed /\ [Next]_vars => Placed' BY PlacedNext
<1>3. Refs /\ Placed => OnePlace BY PlacedOnce DEF Refs
<1>. QED BY <1>1, <1>2, <1>3, RefsAlways, PTL DEF Spec

-----------------------------------------------------------------------------
(* The refinement of DraftLife.  By Placed a draft has one place, which a  *)
(* step of a handler either leaves alone or moves on.                      *)

LEMMA PlacesDiffer ==
    /\ \A h, g, r : Life!Pending(h) # Life!Confirmed(g) /\ Life!Pending(h) # Life!Submitted(g, r)
    /\ \A h, g, r : Life!Confirmed(h) # Life!Submitted(g, r)
    /\ \A h, r : Life!Dropped \notin {Life!Pending(h), Life!Confirmed(h), Life!Submitted(h, r)}
    /\ \A h, g : Life!Pending(h) = Life!Pending(g) => h = g
    /\ \A h, g, r, q : Life!Submitted(h, r) = Life!Submitted(g, q) => r = q
    /\ \A h : Life!Pending(h).by = h /\ Life!Confirmed(h).by = h
    /\ \A h : Life!Pending(h).stage = "pending" /\ Life!Confirmed(h).stage = "confirmed"
BY DEF Life!Place, Life!Pending, Life!Confirmed, Life!Submitted, Life!Dropped

LEMMA WhereaboutsOf ==
    \A d : Whereabouts(d) =
             {Life!Pending(h) : h \in {h \in Handles : draft[h] = d}}
        \cup {Life!Confirmed(handler[w].who) : w \in {w \in Workers : Confirming(w, d)}}
        \cup {Life!Submitted(request[r].by, r) : r \in {r \in Requests : Submitted(r, d)}}
        \cup {Life!Dropped : p \in {d} \cap dropped}
BY DEF Whereabouts, Submitted, Life!Place, Life!Pending, Life!Confirmed, Life!Submitted,
       Life!Dropped

LEMMA WhereaboutsHave ==
    ASSUME NEW d
    PROVE  /\ \A h : Life!Pending(h) \in Whereabouts(d) => draft[h] = d
           /\ \A h, r : Life!Submitted(h, r) \in Whereabouts(d) => Submitted(r, d)
BY DEF Whereabouts, Submitted, Life!Place, Life!Pending, Life!Submitted

\* Where a draft is, case by case.
At(d) ==
    /\ \A h \in Handles : draft[h] = d => Whereabouts(d) = {Life!Pending(h)}
    /\ \A w \in Workers : Confirming(w, d) =>
            Whereabouts(d) = {Life!Confirmed(handler[w].who)}
    /\ \A r \in Requests : Submitted(r, d) =>
            Whereabouts(d) = {Life!Submitted(request[r].by, r)}
    /\ d \in dropped => Whereabouts(d) = {Life!Dropped}
    /\ d \notin composed => Whereabouts(d) = {}

LEMMA PlacedAt == Placed => \A d \in Drafts : At(d)
<1>. SUFFICES ASSUME Placed, NEW d \in Drafts PROVE At(d)
  OBVIOUS
<1>1. Apart(d) /\ (d \in composed <=> Somewhere(d)) BY DEF Placed
<1>2. ASSUME NEW h \in Handles, draft[h] = d PROVE Whereabouts(d) = {Life!Pending(h)}
  BY <1>1, <1>2, WhereaboutsOf, Zenon DEF Apart
<1>3. ASSUME NEW w \in Workers, Confirming(w, d)
      PROVE  Whereabouts(d) = {Life!Confirmed(handler[w].who)}
  BY <1>1, <1>3, WhereaboutsOf, Zenon DEF Apart
<1>4. ASSUME NEW r \in Requests, Submitted(r, d)
      PROVE  Whereabouts(d) = {Life!Submitted(request[r].by, r)}
  BY <1>1, <1>4, WhereaboutsOf, Zenon DEF Apart
<1>5. ASSUME d \in dropped PROVE Whereabouts(d) = {Life!Dropped}
  BY <1>1, <1>5, WhereaboutsOf, Zenon DEF Apart
<1>6. ASSUME d \notin composed PROVE Whereabouts(d) = {}
  BY <1>1, <1>6, WhereaboutsOf, Zenon DEF Somewhere
<1>. QED BY <1>2, <1>3, <1>4, <1>5, <1>6 DEF At

LEMMA PlacedAtNext == Placed' => (\A d \in Drafts : At(d))'
BY PlacedAt, PTL

\* Nothing happens to draft d.
Untouched(d) ==
    /\ \A h \in Handles : draft[h] = d => draft'[h] = d
    /\ \A w \in Workers : Confirming(w, d) =>
            Confirming(w, d)' /\ handler'[w].who = handler[w].who
    /\ \A r \in Requests : Submitted(r, d) =>
            Submitted(r, d)' /\ request'[r].by = request[r].by
    /\ d \in dropped => d \in dropped'
    /\ d \in composed' => d \in composed

LEMMA UntouchedStays ==
    ASSUME Placed, Placed', NEW d \in Drafts, Untouched(d)
    PROVE  Whereabouts(d)' = Whereabouts(d)
<1>1. At(d) /\ (d \in composed <=> Somewhere(d)) BY PlacedAt DEF Placed
<1>2. At(d)' BY PlacedAtNext
<1>. QED BY <1>1, <1>2, Zenon DEF At, Somewhere, Untouched

Where == [d \in Drafts |-> Whereabouts(d)]

\* The only draft that a step touches is d, and p is where it ends.
MovesOn(d, p) ==
    /\ \A e \in Drafts \ {d} : Untouched(e)
    /\ Whereabouts(d)' = {p}

LEMMA MoveOfOne ==
    ASSUME Placed, Placed', NEW d \in Drafts, NEW p, MovesOn(d, p)
    PROVE  Where' = [Where EXCEPT ![d] = {p}]
BY UntouchedStays DEF MovesOn, Where

LEMMA MoveOfNone ==
    ASSUME Placed, Placed', \A d \in Drafts : Untouched(d)
    PROVE  Where' = Where
BY UntouchedStays DEF Where

LEMMA DropStep ==
    ASSUME Placed, Placed', NEW d \in Drafts, NEW h \in Handles,
           Whereabouts(d) \in {{Life!Pending(h)}, {Life!Confirmed(h)}},
           d \in dropped', \A e \in Drafts \ {d} : Untouched(e)
    PROVE  Life!Next
<1>1. Whereabouts(d)' = {Life!Dropped} BY PlacedAtNext DEF At
<1>2. Where' = [Where EXCEPT ![d] = {Life!Dropped}] BY <1>1, MoveOfOne DEF MovesOn
<1>3. PICK p \in Where[d] : p \in {Life!Pending(h), Life!Confirmed(h)} BY DEF Where
<1>4. Life!Drop(d, p) BY <1>2, <1>3, PlacesDiffer DEF Life!Drop, Where
<1>. QED BY <1>3, <1>4 DEF Life!Next, Where

\* A step that leaves drafts, the handlers that confirm them and the origin of
\* requests alone.
LEMMA LifeStutters ==
    ASSUME Placed, Placed', UNCHANGED <<draft, composed, dropped>>,
           \A w \in Workers : \A d \in Drafts : Confirming(w, d) =>
                Confirming(w, d)' /\ handler'[w].who = handler[w].who,
           \A r \in Requests : request[r].of \in Drafts =>
                request'[r].of = request[r].of /\ request'[r].by = request[r].by
    PROVE  Where' = Where
<1>1. \A d \in Drafts : Untouched(d) BY DEF Untouched, Submitted
<1>. QED BY <1>1, MoveOfNone

LEMMA LifeInit == Init => Life!Init
<1>. SUFFICES ASSUME Init, NEW d \in Drafts PROVE Whereabouts(d) = {}
  BY DEF Life!Init
<1>1. Placed /\ d \notin composed BY PlacedInit DEF Init
<1>. QED BY <1>1, PlacedAt DEF At

LEMMA LifeNext == Refs /\ Placed /\ Placed' /\ [Next]_vars => Life!Next \/ Where' = Where
<1>. SUFFICES ASSUME Refs, Placed, Placed', [Next]_vars PROVE Life!Next \/ Where' = Where
  OBVIOUS
<1>. USE NoneAssumption, FormAssumption, BusyFields
<1>0. TypeOK /\ (\A w \in Workers : handler[w] \in Handler) /\ \A d \in Drafts : At(d)
  BY PlacedAt DEF Refs, TypeOK
<1>. USE <1>0
<1>1. ASSUME NEW w \in Workers, NEW h \in Handles, Confirm(w, h) PROVE Life!Next
  <2>. PICK d \in Drafts : d = draft[h]
    BY <1>1 DEF Confirm, TypeOK
  <2>1. d = draft[h] /\ draft' = [draft EXCEPT ![h] = None]
        /\ handler' = [handler EXCEPT ![w] = Busy("create", h, d, None, None)]
        /\ UNCHANGED <<request, composed, dropped>>
    BY <1>1 DEF Confirm, Continue, TypeOK
  <2>2. \A e \in Drafts : ~Confirming(w, e)
    BY <1>1 DEF Confirm, Commanded, Confirming
  <2>3. Confirming(w, d)' /\ handler'[w].who = h
    BY <2>1 DEF Confirming, TypeOK
  <2>4. \A e \in Drafts \ {d} : Untouched(e)
    BY <2>1, <2>2 DEF Untouched, Confirming, Submitted, TypeOK
  <2>5. Whereabouts(d)' = {Life!Confirmed(h)} BY <2>1, <2>3, PlacedAtNext DEF At
  <2>6. Where' = [Where EXCEPT ![d] = {Life!Confirmed(h)}]
    BY <2>1, <2>4, <2>5, MoveOfOne DEF MovesOn
  <2>7. Life!Pending(h) \in Where[d] BY <2>1 DEF At, Where
  <2>8. Life!Confirm(d, Life!Pending(h)) BY <2>6, PlacesDiffer DEF Life!Confirm, Where
  <2>. QED BY <2>1, <2>7, <2>8 DEF Life!Next, Where
<1>2. ASSUME NEW w \in Workers, NEW h \in Handles,
             \/ SendForm(w, h) \/ Pattern(w, h) \/ Reply(w, h) \/ Ask(w, h)
             \/ \E r \in Requests : Resubmit(w, h, r) \/ \E s \in Status : Act(w, h, r, s)
      PROVE  Where' = Where
  <2>1. UNCHANGED <<draft, request, composed, dropped>>
    BY <1>2 DEF SendForm, Pattern, Reply, Ask, Resubmit, Act
  <2>2. \A v \in Workers : handler'[v] # handler[v] => handler[v].pc # "create"
    BY <1>2 DEF SendForm, Pattern, Reply, Ask, Resubmit, Act, Commanded, Continue, TypeOK
  <2>. QED BY <2>1, <2>2, LifeStutters DEF Confirming
<1>3. ASSUME NEW w \in Workers, Create(w) PROVE Life!Next \/ Where' = Where
  <2>2. PICK d \in Drafts \cup {Form}, h \in Handles : handler[w].draft = d /\ handler[w].who = h
    BY <1>3, HandlerFields DEF Create
  <2>1. PICK r \in Requests :
          /\ ~Exists(r)
          /\ request' = [request EXCEPT ![r] = [by |-> h, of |-> d, status |-> "submitted"]]
    BY <1>3, <2>2 DEF Create
  <2>3. UNCHANGED <<draft, composed, dropped>> /\ handler' = [handler EXCEPT ![w] = Idle]
        /\ handler[w].pc = "create"
    BY <1>3 DEF Create, Continue
  <2>4. \A e \in Drafts : Confirming(w, e) => e = d BY <2>2 DEF Confirming
  <2>5. d \in Drafts => Confirming(w, d) BY <2>2, <2>3 DEF Confirming
  <2>6. request[r].of \notin Drafts BY <2>1 DEF Exists, NoRequest
  <2>7. request'[r].of = d /\ request'[r].by = h
        /\ \A q \in Requests \ {r} : request'[q] = request[q]
    BY <2>1 DEF TypeOK
  <2>8. \A v \in Workers \ {w} : handler'[v] = handler[v] BY <2>3 DEF TypeOK
  <2>9. d \in Drafts => Whereabouts(d) = {Life!Confirmed(h)} BY <2>2, <2>5 DEF At
  <2>10. \A e \in Drafts \ {d} : Untouched(e)
    BY <2>3, <2>4, <2>6, <2>7, <2>8 DEF Untouched, Confirming, Submitted
  <2>11. CASE d \notin Drafts
    BY <2>10, <2>11, MoveOfNone
  <2>12. CASE d \in Drafts
    <3>1. Whereabouts(d)' = {Life!Submitted(h, r)}
      BY <2>7, <2>12, PlacedAtNext DEF At, Submitted
    <3>2. Where' = [Where EXCEPT ![d] = {Life!Submitted(h, r)}]
      BY <2>10, <2>12, <3>1, MoveOfOne DEF MovesOn
    <3>3. \A e \in Drafts, g \in Handles : Life!Submitted(g, r) \notin Where[e]
      <4>. SUFFICES ASSUME NEW e \in Drafts, NEW g \in Handles,
                           Life!Submitted(g, r) \in Whereabouts(e)
                    PROVE  FALSE
        BY DEF Where
      <4>1. Submitted(r, e) BY WhereaboutsHave
      <4>. QED BY <2>6, <4>1 DEF Submitted
    <3>4. Life!Confirmed(h) \in Where[d] BY <2>9, <2>12 DEF Where
    <3>5. Life!Submit(d, Life!Confirmed(h), r)
      BY <3>2, <3>3, PlacesDiffer DEF Life!Submit, Where
    <3>. QED BY <2>12, <3>4, <3>5 DEF Life!Next, Where
  <2>. QED BY <2>11, <2>12
<1>4. ASSUME NEW w \in Workers, NEW h \in Handles, Discard(w, h)
      PROVE  Life!Next \/ Where' = Where
  <2>1. draft' = [draft EXCEPT ![h] = None] /\ dropped' = dropped \cup ({draft[h]} \ {None})
        /\ UNCHANGED <<request, handler, composed>>
    BY <1>4 DEF Discard
  <2>2. \A e \in Drafts \ {draft[h]} : Untouched(e)
    BY <2>1 DEF Untouched, Confirming, Submitted, TypeOK
  <2>3. CASE draft[h] = None
    BY <2>2, <2>3, MoveOfNone
  <2>4. CASE draft[h] # None
    <3>1. draft[h] \in Drafts /\ draft[h] \in dropped' BY <2>1, <2>4 DEF TypeOK
    <3>2. Whereabouts(draft[h]) = {Life!Pending(h)} BY <3>1 DEF At
    <3>. QED BY <2>2, <3>1, <3>2, DropStep
  <2>. QED BY <2>3, <2>4
<1>5. ASSUME NEW w \in Workers, SetDraft(w) PROVE Life!Next
  <2>. DEFINE h == handler[w].who
  <2>1. h \in Handles
    BY <1>5, HandlerFields DEF SetDraft
  <2>2. PICK d \in Drafts \ composed :
          /\ draft' = [draft EXCEPT ![h] = d]
          /\ composed' = composed \cup {d}
    BY <1>5, Zenon DEF SetDraft
  <2>3. /\ dropped' = dropped \cup ({draft[h]} \ {None})
        /\ UNCHANGED request
        /\ handler' = [handler EXCEPT ![w] = Idle]
    BY <1>5 DEF SetDraft, Continue
  <2>4. \A e \in Drafts : ~Confirming(w, e)
    BY <1>5 DEF SetDraft, Confirming
  <2>. HIDE DEF h
  <2>5. \A e \in Drafts \ {d, draft[h]} : Untouched(e)
    BY <2>1, <2>2, <2>3, <2>4 DEF Untouched, Confirming, Submitted, TypeOK
  <2>6. Whereabouts(d) = {} BY <2>2 DEF At
  <2>7. Whereabouts(d)' = {Life!Pending(h)}
    <3>1. draft'[h] = d BY <2>1, <2>2 DEF TypeOK
    <3>. QED BY <2>1, <2>2, <3>1, PlacedAtNext DEF At
  <2>8. ASSUME NEW e \in Drafts, e # d
        PROVE  Whereabouts(e)' = IF Whereabouts(e) = {Life!Pending(h)} THEN {Life!Dropped}
                                 ELSE Whereabouts(e)
    <3>1. CASE e = draft[h]
      <4>1. Whereabouts(e) = {Life!Pending(h)} BY <2>1, <3>1 DEF At
      <4>2. e \in dropped' BY <2>3, <3>1
      <4>3. Whereabouts(e)' = {Life!Dropped} BY <4>2, PlacedAtNext DEF At
      <4>. QED BY <4>1, <4>3
    <3>2. CASE e # draft[h]
      <4>1. Whereabouts(e)' = Whereabouts(e) BY <2>5, <2>8, <3>2, UntouchedStays
      <4>2. Life!Pending(h) \notin Whereabouts(e)
        BY <3>2, WhereaboutsHave
      <4>. QED BY <4>1, <4>2
    <3>. QED BY <3>1, <3>2
  <2>9. Life!Compose(d)
    BY <2>1, <2>2, <2>6, <2>7, <2>8 DEF Life!Compose
  <2>. QED BY <2>2, <2>9 DEF Life!Next
<1>6. ASSUME NEW w \in Workers, Parsed(w) \/ Answer(w) \/ Remember(w) PROVE Where' = Where
  <2>1. UNCHANGED <<draft, request, composed, dropped>>
    BY <1>6 DEF Parsed, Answer, Remember
  <2>2. \A v \in Workers : handler'[v] # handler[v] => handler[v].pc # "create"
    BY <1>6 DEF Parsed, Answer, Remember, Continue, TypeOK
  <2>. QED BY <2>1, <2>2, LifeStutters DEF Confirming
<1>7. ASSUME NEW w \in Workers, Update(w) PROVE Where' = Where
  <2>1. handler[w].req \in Requests /\ request[handler[w].req] \in Request
    BY <1>7, HandlerFields DEF Update, Refs, RefsExist, TypeOK, Exists
  <2>2. \A r \in Requests : request'[r].of = request[r].of /\ request'[r].by = request[r].by
    BY <1>7, <2>1 DEF Update, TypeOK, Request
  <2>3. \A v \in Workers : handler'[v] # handler[v] => handler[v].pc # "create"
    BY <1>7 DEF Update, Continue, TypeOK
  <2>4. UNCHANGED <<draft, composed, dropped>> BY <1>7 DEF Update
  <2>. QED BY <2>2, <2>3, <2>4, LifeStutters DEF Confirming
<1>8. ASSUME NEW w \in Workers, Fail(w) PROVE Life!Next \/ Where' = Where
  <2>. DEFINE d == handler[w].draft
  <2>1. UNCHANGED <<draft, request, composed>> /\ handler' = [handler EXCEPT ![w] = Idle]
    BY <1>8 DEF Fail, Continue
  <2>2. \A e \in dropped : e \in dropped' BY <1>8 DEF Fail
  <2>3. \A e \in Drafts : ~Confirming(w, e) => Untouched(e)
    BY <2>1, <2>2 DEF Untouched, Confirming, Submitted, TypeOK
  <2>4. CASE \A e \in Drafts : ~Confirming(w, e)
    BY <2>3, <2>4, MoveOfNone
  <2>5. CASE \E e \in Drafts : Confirming(w, e)
    <3>1. d \in Drafts /\ Confirming(w, d) /\ handler[w].who \in Handles
      BY <2>5, HandlerFields DEF Confirming
    <3>2. d \in dropped' BY <1>8, <3>1 DEF Fail, Confirming
    <3>3. \A e \in Drafts \ {d} : Untouched(e) BY <2>3 DEF Confirming
    <3>4. Whereabouts(d) = {Life!Confirmed(handler[w].who)} BY <3>1 DEF At
    <3>. QED BY <3>1, <3>2, <3>3, <3>4, DropStep
  <2>. QED BY <2>4, <2>5
<1>9. ASSUME NEW h \in Handles, ExpireDraft(h) PROVE Life!Next
  <2>1. draft' = [draft EXCEPT ![h] = None] /\ dropped' = dropped \cup {draft[h]}
        /\ draft[h] \in Drafts /\ UNCHANGED <<request, handler, composed>>
    BY <1>9 DEF ExpireDraft, TypeOK
  <2>2. \A e \in Drafts \ {draft[h]} : Untouched(e)
    BY <2>1 DEF Untouched, Confirming, Submitted, TypeOK
  <2>3. Whereabouts(draft[h]) = {Life!Pending(h)} BY <2>1 DEF At
  <2>. QED BY <2>1, <2>2, <2>3, DropStep
<1>10. CASE (\E h \in Handles : ExpireHint(h)) \/ UNCHANGED vars
  BY <1>10, LifeStutters DEF ExpireHint, vars, Confirming
<1>. QED
  BY <1>1, <1>2, <1>3, <1>4, <1>5, <1>6, <1>7, <1>8, <1>9, <1>10 DEF Next

\* Whatever the threads, failures and expiry, the handlers implement DraftLife: a draft
\* is confirmed by its own user, once, becomes at most one request of that user and
\* never comes back (_confirm_pending_draft, set_draft, pop_draft).
THEOREM ImplementsDraftLifeCorrect == Spec => ImplementsDraftLife
<1>1. Init => Placed BY PlacedInit
<1>2. Refs /\ Placed /\ [Next]_vars => Placed' BY PlacedNext
<1>3. Refs /\ Placed /\ Placed' /\ [Next]_vars => [Life!Next]_([d \in Drafts |-> Whereabouts(d)])
  BY LifeNext DEF Where
<1>. QED
  BY <1>1, <1>2, <1>3, LifeInit, RefsAlways, PTL DEF Spec, ImplementsDraftLife, Life!Spec

-----------------------------------------------------------------------------
(* HintsGoStale.                                                           *)

\* A step that gives no hint, changes no request and leaves alone the handlers that are
\* to remember something makes no hint stale.
LEMMA NotStaler ==
    ASSUME Refs, NEW h \in Handles,
           hint'[h] \in {hint[h], None},
           \A r \in Requests : Exists(r) => request'[r] = request[r],
           \A v \in Workers : handler[v].pc = "remember" => handler'[v] = handler[v]
    PROVE  Stale(h)' => Stale(h)
<1>. SUFFICES ASSUME Stale(h)' PROVE Stale(h)
  OBVIOUS
<1>1. hint'[h] = hint[h] /\ hint[h] \in Requests
  BY DEF Stale, Refs, TypeOK
<1>2. Exists(hint[h])
  BY <1>1, NoneAssumption DEF Stale, Refs, HintsOwn, Exists, NoRequest
<1>3. ASSUME NEW v \in Workers, Clearing(v, h) PROVE FALSE
  <2>1. handler[v] \in Handler /\ handler[v].pc = "remember"
    BY <1>3 DEF Clearing, Refs, TypeOK
  <2>2. handler[v].req \in Requests /\ Exists(handler[v].req)
    BY <2>1, HandlerFields DEF Refs, RefsExist
  <2>. QED BY <1>3, <2>1, <2>2 DEF Clearing, Stale
<1>. QED BY <1>1, <1>2, <1>3 DEF Stale

\* Why the hint of h goes stale in a step of w.
Cause(w, h) ==
    /\ handler[w].pc = "remember" /\ handler'[w] = Idle
    /\ \/ /\ handler[w].to = "needs_info" /\ hint'[h] = handler[w].req
          /\ request[handler[w].req].status \in Decided
       \/ MayFail /\ Clearing(w, h)

\* A decision that is written is about to clear the hint that names its request.
LEMMA UpdateStale ==
    ASSUME Refs, NEW w \in Workers, Update(w), NEW h \in Handles, Stale(h)'
    PROVE  Stale(h)
<1>. USE BusyFields
<1>0. \A v \in Workers : handler[v] \in Handler
  BY DEF Refs, TypeOK
<1>. DEFINE r == handler[w].req
            s == handler[w].to
<1>1. r \in Requests /\ s \in Status /\ request[r] \in Request
  BY <1>0, HandlerFields DEF Update, Refs, RefsExist, TypeOK, Exists
<1>2. request' = [request EXCEPT ![r].status = s] /\ hint' = hint
      /\ handler' = [handler EXCEPT ![w] = IF s = "submitted" THEN Idle
                                      ELSE Busy("remember", None, None, r, s)]
      /\ handler[w].pc = "update"
  BY DEF Update, Continue
<1>. HIDE DEF r, s
<1>3. /\ request'[r].status = s
      /\ \A q \in Requests : q # r => request'[q] = request[q]
      /\ \A q \in Requests : request'[q].by = request[q].by
  BY <1>1, <1>2 DEF Refs, TypeOK, Request
<1>4. hint[h] # None /\ hint[h] \in Requests /\ request[hint[h]].by = h
  BY <1>2 DEF Stale, Refs, TypeOK, HintsOwn
<1>5. hint[h] # r
  <2>. SUFFICES ASSUME hint[h] = r PROVE FALSE
    OBVIOUS
  <2>1. s \in Decided
    BY <1>2, <1>3 DEF Stale
  <2>2. handler'[w] = Busy("remember", None, None, r, s)
    BY <1>2, <2>1 DEF Refs, TypeOK, Decided
  <2>3. request'[r].by = h
    BY <1>1, <1>3, <1>4
  <2>. QED BY <2>1, <2>2, <2>3 DEF Stale, Clearing
<1>6. request[hint[h]].status \in Decided
  BY <1>2, <1>3, <1>4, <1>5 DEF Stale
<1>7. ASSUME NEW v \in Workers, Clearing(v, h) PROVE FALSE
  <2>1. handler'[v] = handler[v] /\ handler[v].req \in Requests
    BY <1>0, <1>2, <1>7, HandlerFields DEF Clearing, Refs, TypeOK
  <2>. QED BY <1>3, <1>7, <2>1 DEF Clearing, Stale
<1>. QED BY <1>4, <1>6, <1>7 DEF Stale

\* A handler that remembers clears a hint, or gives one, which may come too late.
LEMMA RememberStale ==
    ASSUME Refs, NEW w \in Workers, Remember(w), NEW h \in Handles, Stale(h)', ~Stale(h)
    PROVE  Cause(w, h)
<1>. USE BusyFields
<1>0. \A v \in Workers : handler[v] \in Handler
  BY DEF Refs, TypeOK
<1>. DEFINE r == handler[w].req
            g == request[r].by
<1>1. r \in Requests /\ g \in Handles
  BY <1>0, HandlerFields DEF Remember, Refs, RefsExist, TypeOK, Exists, Request
<1>2. hint' = [hint EXCEPT ![g] = IF handler[w].to = "needs_info" THEN r ELSE None]
      /\ request' = request /\ handler' = [handler EXCEPT ![w] = Idle]
      /\ handler[w].pc = "remember"
  BY DEF Remember, Continue
<1>3. handler'[w] = Idle
  BY <1>2 DEF Refs, TypeOK
<1>4. CASE h = g
  <2>1. hint'[h] # None /\ hint'[h] = IF handler[w].to = "needs_info" THEN r ELSE None
    BY <1>2, <1>4 DEF Stale, Refs, TypeOK
  <2>2. handler[w].to = "needs_info" /\ hint'[h] = r
    BY <2>1
  <2>3. request[r].status \in Decided
    BY <1>2, <2>2 DEF Stale
  <2>. QED BY <1>2, <1>3, <2>2, <2>3 DEF Cause
<1>5. CASE h # g
  <2>1. hint'[h] = hint[h]
    BY <1>2, <1>5 DEF Refs, TypeOK
  <2>2. PICK v \in Workers : Clearing(v, h)
    BY <1>2, <2>1 DEF Stale
  <2>3. v # w
    BY <1>5, <2>2 DEF Clearing
  <2>4. handler'[v] = handler[v]
    BY <1>2, <2>3 DEF Refs, TypeOK
  <2>. QED BY <1>2, <2>2, <2>4 DEF Stale, Clearing
<1>. QED BY <1>4, <1>5

\* A handler that fails leaves the hint that it was to clear.
LEMMA FailStale ==
    ASSUME Refs, NEW w \in Workers, Fail(w), NEW h \in Handles, Stale(h)', ~Stale(h)
    PROVE  Cause(w, h)
<1>1. MayFail /\ hint' = hint /\ request' = request /\ handler' = [handler EXCEPT ![w] = Idle]
  BY DEF Fail, Continue
<1>2. PICK v \in Workers : Clearing(v, h)
  BY <1>1 DEF Stale
<1>3. CASE v = w
  BY <1>1, <1>2, <1>3 DEF Cause, Clearing, Refs, TypeOK
<1>4. CASE v # w
  <2>1. handler'[v] = handler[v]
    BY <1>1, <1>4 DEF Refs, TypeOK
  <2>. QED BY <1>1, <1>2, <2>1 DEF Stale, Clearing
<1>. QED BY <1>3, <1>4

LEMMA StaleNext ==
    ASSUME Refs, [Next]_vars, NEW h \in Handles, ~Stale(h), Stale(h)'
    PROVE  \E w \in Workers : Cause(w, h)
<1>. USE BusyFields
<1>1. ASSUME NEW w \in Workers, NEW g \in Handles,
             Confirm(w, g) \/ SendForm(w, g) \/ Discard(w, g) \/ Pattern(w, g)
             \/ Reply(w, g) \/ Ask(w, g)
             \/ \E r \in Requests : Resubmit(w, g, r) \/ \E s \in Status : Act(w, g, r, s)
      PROVE  FALSE
  <2>1. \A v \in Workers : handler[v].pc = "remember" => handler'[v] = handler[v]
    BY <1>1 DEF Confirm, SendForm, Discard, Pattern, Reply, Ask, Resubmit, Act,
                Commanded, Continue, Refs, TypeOK
  <2>2. request' = request /\ hint'[h] \in {hint[h], None}
    BY <1>1 DEF Confirm, SendForm, Discard, Pattern, Reply, Ask, Resubmit, Act,
                Refs, TypeOK
  <2>. QED BY <2>1, <2>2, NotStaler
<1>2. ASSUME NEW w \in Workers, Create(w) \/ SetDraft(w) \/ Parsed(w) \/ Answer(w)
      PROVE  FALSE
  <2>1. \A v \in Workers : handler[v].pc = "remember" => handler'[v] = handler[v]
    BY <1>2 DEF Create, SetDraft, Parsed, Answer, Continue, Refs, TypeOK
  <2>2. hint' = hint /\ \A r \in Requests : Exists(r) => request'[r] = request[r]
    BY <1>2 DEF Create, SetDraft, Parsed, Answer, Refs, TypeOK
  <2>. QED BY <2>1, <2>2, NotStaler
<1>3. ASSUME NEW g \in Handles, ExpireDraft(g) \/ ExpireHint(g) PROVE FALSE
  <2>1. hint'[h] \in {hint[h], None} /\ handler' = handler /\ request' = request
    BY <1>3 DEF ExpireDraft, ExpireHint, Refs, TypeOK
  <2>. QED BY <2>1, NotStaler
<1>4. CASE UNCHANGED vars
  BY <1>4, NotStaler DEF vars
<1>. QED
  BY <1>1, <1>2, <1>3, <1>4, UpdateStale, RememberStale, FailStale DEF Next

\* However many handlers run and fail, a hint goes stale only when a decision overtakes
\* a NEEDINFO between its write and its hint, or when a call fails between a decision
\* and the clearing of the hint (handle_approver_action).
THEOREM HintsGoStaleCorrect == Spec => HintsGoStale
<1>1. Refs /\ [Next]_vars =>
        \A h \in Handles : ~Stale(h) /\ Stale(h)' => \E w \in Workers : Cause(w, h)
  BY StaleNext
<1>2. (\A h \in Handles : ~Stale(h) /\ Stale(h)' => \E w \in Workers : Cause(w, h)) =>
        [\A h \in Handles : ~Stale(h) /\ Stale(h)' =>
            \E w \in Workers :
                /\ handler[w].pc = "remember" /\ handler'[w] = Idle
                /\ \/ /\ handler[w].to = "needs_info" /\ hint'[h] = handler[w].req
                      /\ request[handler[w].req].status \in Decided
                   \/ MayFail /\ Clearing(w, h)]_vars
  BY DEF Cause
<1>. QED BY <1>1, <1>2, RefsAlways, PTL DEF Spec, HintsGoStale
=============================================================================
