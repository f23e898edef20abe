----------------------------- MODULE ChatSession -----------------------------
(***************************************************************************)
(* The web channel: one browser tab (useChatSession, useWebSocket), the    *)
(* handler of its connections (chat_ws) and the hub that pushes            *)
(* notifications to them (WebNotificationHub).                             *)
(*                                                                         *)
(* The tab has one socket at a time and opens another when it closes.  The *)
(* server serves a connection in a loop of its own: read, `typing', run    *)
(* the coordinator in a worker thread, `done'.  A notification is a `done' *)
(* as well, which no message of the tab asked for.                         *)
(*                                                                         *)
(*   tab     Connect, Open, SendAction, SendText, SendForm, Fallback,      *)
(*           Receive, OnClose                                              *)
(*   server  Accept, Read, Reject, Answer, Raise, Disconnect, Leave        *)
(*   hub     Broadcast, Push                                               *)
(*                                                                         *)
(* What the coordinator does is Conversation's subject.  A message is an   *)
(* id; frames that no client of this repository sends are left out.        *)
(***************************************************************************)
EXTENDS Naturals, Sequences, SequencesExt

CONSTANTS
    Conns,          \* connections, each one opened once
    Actions,        \* clicks on confirm, discard, approve, reject or need info
    Inputs,         \* free texts and structured requests
    None,
    MaxPushes,      \* bound: notifications that are broadcast
    MaxUnread       \* bound: messages of the tab the server has not read

ASSUME IdsAssumption ==
    None \notin Conns \cup Actions \cup Inputs /\ Actions \cap Inputs = {}

ASSUME BoundAssumption == MaxPushes \in Nat /\ MaxUnread \in Nat

VARIABLES
    tab,        \* the tab's socket, None while it waits to reconnect
    connected,  \* the socket is known to be open
    pending,    \* actionPending and pendingActionRef
    typing,     \* isTyping
    timer,      \* the form whose fallback timer runs
    sent,       \* ids that were used
    seen,       \* messages whose answer the tab has received
    stolen,     \* some other answer ended a pending action on this socket
    link,       \* link[k]: connection k
    up, down,   \* up[k], down[k]: frames on their way to server and tab
    server,     \* server[k]: what the handler of k does next
    job,        \* job[k]: the message it handles
    hub,        \* _connections
    task,       \* task[k]: notifications that the loop is about to send to k
    pushes      \* notifications so far

tabVars == <<tab, connected, pending, typing, timer, sent, seen, stolen>>
serverVars == <<server, job, hub, task, pushes>>
vars == <<tabVars, link, up, down, serverVars>>

Messages == Actions \cup Inputs

\* A frame to the tab; the `done' of a notification answers None.
Frame == [kind : {"typing", "done", "error"}, to : Messages \cup {None}]

Serving == {"read", "work", "leave"}

\* Every variable has its type; at most one fallback timer runs, and a socket is known
\* to be open only while the tab has one (useChatSession, useWebSocket).
TypeOK ==
    /\ tab \in Conns \cup {None}
    /\ connected \in BOOLEAN /\ (connected => tab # None)
    /\ pending \in Actions \cup {None}
    /\ typing \in BOOLEAN /\ stolen \in BOOLEAN
    /\ timer \in Inputs \cup {None}
    /\ sent \subseteq Messages /\ seen \subseteq sent
    /\ link \in [Conns -> {"unused", "connecting", "open", "broken"}]
    /\ up \in [Conns -> Seq(Messages)]
    /\ down \in [Conns -> Seq(Frame)]
    /\ server \in [Conns -> {"none", "gone"} \cup Serving]
    /\ job \in [Conns -> Messages \cup {None}]
    /\ hub \subseteq Conns
    /\ task \in [Conns -> Nat]
    /\ pushes \in Nat

Init ==
    /\ tab = None /\ connected = FALSE
    /\ pending = None /\ typing = FALSE /\ timer = None
    /\ sent = {} /\ seen = {} /\ stolen = FALSE
    /\ link = [k \in Conns |-> "unused"]
    /\ up = [k \in Conns |-> <<>>]
    /\ down = [k \in Conns |-> <<>>]
    /\ server = [k \in Conns |-> "none"]
    /\ job = [k \in Conns |-> None]
    /\ hub = {}
    /\ task = [k \in Conns |-> 0]
    /\ pushes = 0

-----------------------------------------------------------------------------
(* The tab.  Ids are used in a fixed order: which one is next says nothing. *)

\* On mount, and after the delay that follows a close.
Connect ==
    /\ tab = None
    /\ \E k \in Conns : link[k] = "unused"
    /\ tab' = CHOOSE k \in Conns : link[k] = "unused"
    /\ link' = [link EXCEPT ![tab'] = "connecting"]
    /\ stolen' = FALSE
    /\ UNCHANGED <<connected, pending, typing, timer, sent, seen, up, down, serverVars>>

Open ==
    /\ tab # None /\ ~connected
    /\ link[tab] = "open"
    /\ connected' = TRUE
    /\ UNCHANGED <<tab, pending, typing, timer, sent, seen, stolen, link, up, down,
                   serverVars>>

Unused(S) == S \ sent # {}
Fresh(S) == CHOOSE m \in S : m \notin sent

\* A socket that broke, which the tab does not know yet, swallows what is sent.
Send(m) ==
    /\ tab # None => Len(up[tab]) < MaxUnread
    /\ sent' = sent \cup {m}
    /\ up' = IF tab # None /\ link[tab] = "open" THEN [up EXCEPT ![tab] = Append(@, m)]
             ELSE up

\* Mutant of SendAction: a second click is not ignored.
SendActionTwice ==
    /\ connected
    /\ Unused(Actions) /\ Send(Fresh(Actions))
    /\ pending' = Fresh(Actions)
    /\ typing' = TRUE
    /\ UNCHANGED <<tab, connected, timer, seen, stolen, link, down, serverVars>>

\* A click is ignored without a connection and while an action is pending.
SendAction ==
    /\ connected
    /\ pending = None
    /\ Unused(Actions) /\ Send(Fresh(Actions))
    /\ pending' = Fresh(Actions)
    /\ typing' = TRUE
    /\ UNCHANGED <<tab, connected, timer, seen, stolen, link, down, serverVars>>

\* A text is not held back by a pending action, or by a text before it.
SendText ==
    /\ connected
    /\ Unused(Inputs) /\ Send(Fresh(Inputs))
    /\ typing' = TRUE
    /\ UNCHANGED <<tab, connected, pending, timer, seen, stolen, link, down, serverVars>>

\* A structured request replaces the fallback timer of the one before.
SendForm ==
    /\ connected
    /\ Unused(Inputs) /\ Send(Fresh(Inputs))
    /\ typing' = TRUE
    /\ timer' = Fresh(Inputs)
    /\ UNCHANGED <<tab, connected, pending, seen, stolen, link, down, serverVars>>

\* The timer sends the same request again as a text.  It outlives its connection,
\* and what it sends while there is none is dropped.
Fallback ==
    /\ timer # None
    /\ Send(timer)
    /\ timer' = None
    /\ UNCHANGED <<tab, connected, pending, typing, seen, stolen, link, down, serverVars>>

\* Mutants of Receive: an error leaves the action pending; an answer, or a typing
\* frame, leaves the timer running.
ReceiveError ==
    /\ connected /\ down[tab] # <<>>
    /\ LET f == Head(down[tab]) IN
        /\ timer' = None
        /\ typing' = (f.kind = "typing")
        /\ pending' = IF f.kind = "done" THEN None ELSE pending
        /\ stolen' = (stolen \/ (f.kind = "done" /\ pending \notin {None, f.to}))
        /\ seen' = seen \cup (IF f.kind = "typing" THEN {} ELSE {f.to} \ {None})
    /\ down' = [down EXCEPT ![tab] = Tail(@)]
    /\ UNCHANGED <<tab, connected, sent, link, up, serverVars>>

ReceiveTimed ==
    /\ connected /\ down[tab] # <<>>
    /\ LET f == Head(down[tab]) IN
        /\ typing' = (f.kind = "typing")
        /\ pending' = IF f.kind = "typing" THEN pending ELSE None
        /\ stolen' = (stolen \/ (f.kind # "typing" /\ pending \notin {None, f.to}))
        /\ seen' = seen \cup (IF f.kind = "typing" THEN {} ELSE {f.to} \ {None})
    /\ down' = [down EXCEPT ![tab] = Tail(@)]
    /\ UNCHANGED <<tab, connected, timer, sent, link, up, serverVars>>

\* Any frame stops the timer; any answer, whatever it answers, ends the action.
Receive ==
    /\ connected /\ down[tab] # <<>>
    /\ LET f == Head(down[tab])
           answer == f.kind # "typing"
       IN  /\ timer' = None
           /\ typing' = ~answer
           /\ pending' = IF answer THEN None ELSE pending
           /\ stolen' = (stolen \/ (answer /\ pending \notin {None, f.to}))
           /\ seen' = seen \cup (IF answer THEN {f.to} \ {None} ELSE {})
    /\ down' = [down EXCEPT ![tab] = Tail(@)]
    /\ UNCHANGED <<tab, connected, sent, link, up, serverVars>>

\* Mutants of OnClose: the connection is taken for open; the action stays pending.
OnCloseConnected ==
    /\ tab # None /\ link[tab] = "broken"
    /\ connected => down[tab] = <<>>
    /\ tab' = None
    /\ pending' = None
    /\ down' = [down EXCEPT ![tab] = <<>>]
    /\ UNCHANGED <<connected, typing, timer, sent, seen, stolen, link, up, serverVars>>

OnCloseKeeps ==
    /\ tab # None /\ link[tab] = "broken"
    /\ connected => down[tab] = <<>>
    /\ tab' = None /\ connected' = FALSE
    /\ down' = [down EXCEPT ![tab] = <<>>]
    /\ UNCHANGED <<pending, typing, timer, sent, seen, stolen, link, up, serverVars>>

\* The typing indicator and the timer survive the connection; frames that reach a
\* socket before its open event, or after another took its place, are ignored.
OnClose ==
    /\ tab # None /\ link[tab] = "broken"
    /\ connected => down[tab] = <<>>
    /\ tab' = None /\ connected' = FALSE
    /\ pending' = None
    /\ down' = [down EXCEPT ![tab] = <<>>]
    /\ UNCHANGED <<typing, timer, sent, seen, stolen, link, up, serverVars>>

\* The network drops a connection with all that the other side has not taken yet (what
\* arrived before is taken before: taking a frame does not depend on the connection).
Break(k) ==
    /\ link[k] \in {"connecting", "open"}
    /\ link' = [link EXCEPT ![k] = "broken"]
    /\ up' = [up EXCEPT ![k] = <<>>]
    /\ down' = [down EXCEPT ![k] = <<>>]
    /\ UNCHANGED <<tabVars, serverVars>>

-----------------------------------------------------------------------------
(* The handler of a connection.                                            *)

\* send_ws_message does not raise: on a broken connection the frame is lost.
Deliver(k, kind, m) ==
    down' = IF link[k] = "open"
            THEN [down EXCEPT ![k] = Append(@, [kind |-> kind, to |-> m])]
            ELSE down

Go(k, pc) == server' = [server EXCEPT ![k] = pc]

\* The session cookie is valid; a refused connection is a broken one.  No await
\* separates the registration from the acceptance.
Accept(k) ==
    /\ link[k] = "connecting"
    /\ link' = [link EXCEPT ![k] = "open"]
    /\ hub' = hub \cup {k}
    /\ Go(k, "read")
    /\ UNCHANGED <<tabVars, up, down, job, task, pushes>>

\* A message is read and announced; then a worker thread runs the coordinator.
Read(k) ==
    /\ server[k] = "read" /\ up[k] # <<>>
    /\ job' = [job EXCEPT ![k] = Head(up[k])]
    /\ up' = [up EXCEPT ![k] = Tail(@)]
    /\ Deliver(k, "typing", Head(up[k]))
    /\ Go(k, "work")
    /\ UNCHANGED <<tabVars, link, hub, task, pushes>>

\* The worker thread returns the coordinator's answer.
Answer(k) ==
    /\ server[k] = "work"
    /\ Deliver(k, "done", job[k])
    /\ job' = [job EXCEPT ![k] = None]
    /\ Go(k, "read")
    /\ UNCHANGED <<tabVars, link, up, hub, task, pushes>>

\* A payload of another version of the contract gets an error for its answer.
Reject(k) ==
    /\ server[k] = "read" /\ up[k] # <<>>
    /\ up' = [up EXCEPT ![k] = Tail(@)]
    /\ Deliver(k, "error", Head(up[k]))
    /\ UNCHANGED <<tabVars, link, server, job, hub, task, pushes>>

\* Mutants of Raise: the handler ends there and then; the message is tried again.
RaiseUnhandled(k) ==
    /\ server[k] = "work"
    /\ job' = [job EXCEPT ![k] = None]
    /\ Go(k, "gone")
    /\ UNCHANGED <<tabVars, link, up, down, hub, task, pushes>>

RaiseRetries(k) ==
    /\ server[k] = "work"
    /\ up' = [up EXCEPT ![k] = <<job[k]>> \o @]
    /\ job' = [job EXCEPT ![k] = None]
    /\ Go(k, "read")
    /\ UNCHANGED <<tabVars, link, down, hub, task, pushes>>

\* The coordinator raises, which ends the connection.
Raise(k) ==
    /\ server[k] = "work"
    /\ Deliver(k, "error", job[k])
    /\ job' = [job EXCEPT ![k] = None]
    /\ Go(k, "leave")
    /\ UNCHANGED <<tabVars, link, up, hub, task, pushes>>

\* The handler reads on until it sees that the connection is gone.
Disconnect(k) ==
    /\ server[k] = "read" /\ up[k] = <<>>
    /\ link[k] = "broken"
    /\ hub' = hub \ {k}
    /\ Go(k, "gone")
    /\ UNCHANGED <<tabVars, link, up, down, job, task, pushes>>

\* The finally clause after an error; the server closes what is still open.
Leave(k) ==
    /\ server[k] = "leave"
    /\ hub' = hub \ {k}
    /\ link' = [link EXCEPT ![k] = "broken"]
    /\ Go(k, "gone")
    /\ UNCHANGED <<tabVars, up, down, job, task, pushes>>

-----------------------------------------------------------------------------
(* The hub.                                                                *)

\* A notification schedules a frame for each connection that is registered.
Broadcast ==
    /\ pushes < MaxPushes
    /\ pushes' = pushes + 1
    /\ task' = [k \in Conns |-> IF k \in hub THEN task[k] + 1 ELSE task[k]]
    /\ UNCHANGED <<tabVars, link, up, down, server, job, hub>>

\* By then the connection may have been unregistered, or be gone.
Push(k) ==
    /\ task[k] > 0
    /\ task' = [task EXCEPT ![k] = @ - 1]
    /\ Deliver(k, "done", None)
    /\ UNCHANGED <<tabVars, link, up, server, job, hub, pushes>>

-----------------------------------------------------------------------------

Serve(k) ==
    \/ Read(k) \/ Answer(k)
    \/ Reject(k) \/ Raise(k) \/ Disconnect(k) \/ Leave(k)

Next ==
    \/ Connect \/ Open \/ Receive \/ OnClose \/ Broadcast
    \/ SendAction \/ SendText \/ SendForm \/ Fallback
    \/ \E k \in Conns : Accept(k) \/ Serve(k) \/ Push(k) \/ Break(k)

Spec == Init /\ [][Next]_vars

\* The browser delivers opens, frames and closes, and the server's loop schedules its
\* handlers; the coordinator's calls to the model and the store have timeouts.
FairSpec ==
    /\ Spec
    /\ WF_vars(Open) /\ WF_vars(Receive) /\ WF_vars(OnClose)
    /\ \A k \in Conns : WF_vars(Serve(k))

-----------------------------------------------------------------------------
(* Properties.                                                             *)

Handling(k, m) == server[k] = "work" /\ job[k] = m

Answered(k, m) == \E i \in DOMAIN down[k] : down[k][i].to = m /\ down[k][i].kind # "typing"

\* Message m is on its way to the server, with it, or answered on the way back.
Outstanding(k, m) ==
    (\E i \in DOMAIN up[k] : up[k][i] = m) \/ Handling(k, m) \/ Answered(k, m)

\* The buttons are blocked for a reason that will pass: the pending action is
\* outstanding on the tab's own socket, or the close event of that socket is to come
\* (clicks are refused while actionPending, and only Receive and OnClose end it).
PendingHasCause ==
    pending # None => tab # None /\ (Outstanding(tab, pending) \/ link[tab] = "broken")

\* On one socket a second action goes out while the first is outstanding only after
\* another answer, to a text or to nothing, was taken for the first one's.
OneAction ==
    tab # None /\ ~stolen =>
        \A a, b \in Actions : Outstanding(tab, a) /\ Outstanding(tab, b) => a = b

\* The fallback never repeats a structured request whose answer the tab has seen.
FallbackUnseen == timer \notin seen

\* The hub pushes to the connections that are served, all of them and no others, also
\* when a handler raises or its connection breaks (register, unregister).
HubServes == \A k \in Conns : k \in hub <=> server[k] \in Serving

\* Where copies of message m are on connection k.
Copies(k, m) ==
         {<<"up", i>> : i \in {i \in DOMAIN up[k] : up[k][i] = m}}
    \cup {<<"job", 0>> : j \in {j \in {m} : Handling(k, j)}}
    \cup {<<"down", i>> : i \in {i \in DOMAIN down[k] :
                                down[k][i].to = m /\ down[k][i].kind # "typing"}}

OneCopy ==
    \A a \in Actions : \A j, k \in Conns :
        \A p \in Copies(j, a), q \in Copies(k, a) : j = k /\ p = q

\* A click is handled at most once.  There is one copy of it at most, on any connection:
\* the tab never repeats it, not on the socket that follows either; and it only moves on,
\* from the queue to the handler to the answer: once it is handled or lost it is not
\* handled again, whatever raises or breaks (sendDraftAction, sendReviewAction, chat_ws).
ActionOnce ==
    [][/\ OneCopy'
       /\ \A a \in Actions \cap sent, k \in Conns :
            LET queued == \E i \in DOMAIN up[k] : up[k][i] = a IN
            /\ queued' => queued
            /\ Handling(k, a)' => queued \/ Handling(k, a)
            /\ Answered(k, a)' => Outstanding(k, a)]_vars

\* Whatever is lost or raised, the buttons come back.
ActionEnds == (pending # None) ~> (pending = None)

\* Every message that reaches the server is answered, unless its connection breaks:
\* also while others wait, and when the coordinator raises.
AnswersCome ==
    \A m \in Messages :
        (tab # None /\ Outstanding(tab, m)) ~> (m \in seen \/ tab = None)

\* A connection that is gone leaves the hub.
Released == \A k \in Conns : link[k] = "broken" ~> k \notin hub
=============================================================================
