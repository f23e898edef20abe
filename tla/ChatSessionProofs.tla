-------------------------- MODULE ChatSessionProofs --------------------------
(***************************************************************************)
(* Proofs about ChatSession, for any number of connections, actions, texts *)
(* and notifications.                                                      *)
(*                                                                         *)
(* An action is sent once, and so it is in one place at a time: on its way *)
(* to the server, with the handler, or answered on its way back (Once).    *)
(* The answer that ends it therefore leaves nothing of it outstanding, and *)
(* the next click starts afresh, unless the answer was for something else. *)
(***************************************************************************)
EXTENDS ChatSession, TLAPS

-----------------------------------------------------------------------------
(* Sequences: whether one has an element of a set, and how often.          *)

Has(s, T) == \E i \in DOMAIN s : s[i] \in T
Single(s, T) == \A i, j \in DOMAIN s : s[i] \in T /\ s[j] \in T => i = j

LEMMA EmptyHas == \A T : ~Has(<<>>, T) /\ Single(<<>>, T)
BY DEF Has, Single

LEMMA AppendHas ==
    ASSUME NEW S, NEW s \in Seq(S), NEW x \in S, NEW T
    PROVE  /\ Append(s, x) \in Seq(S)
           /\ Has(Append(s, x), T) <=> Has(s, T) \/ x \in T
           /\ Single(s, T) /\ (x \in T => ~Has(s, T)) => Single(Append(s, x), T)
<1> DEFINE t == Append(s, x)
<1>1. /\ t \in Seq(S) /\ Len(s) \in Nat
      /\ \A i \in DOMAIN s : i \in DOMAIN t /\ t[i] = s[i]
      /\ Len(s) + 1 \in DOMAIN t /\ t[Len(s) + 1] = x
      /\ \A i \in DOMAIN t : i \in DOMAIN s \/ i = Len(s) + 1
    OBVIOUS
<1> HIDE DEF t
<1>2. Has(t, T) <=> Has(s, T) \/ x \in T
    BY <1>1 DEF Has
<1>3. ASSUME Single(s, T), x \in T => ~Has(s, T) PROVE Single(t, T)
    BY <1>1, <1>3 DEF Has, Single
<1> QED  BY <1>1, <1>2, <1>3 DEF t

LEMMA TailHas ==
    ASSUME NEW S, NEW s \in Seq(S), s # <<>>, NEW T
    PROVE  /\ Tail(s) \in Seq(S) /\ Head(s) \in S
           /\ Has(s, T) <=> Has(Tail(s), T) \/ Head(s) \in T
           /\ Single(s, T) => Single(Tail(s), T) /\ (Head(s) \in T => ~Has(Tail(s), T))
<1> DEFINE t == Tail(s)
<1>1. /\ t \in Seq(S) /\ Head(s) \in S
      /\ 1 \in DOMAIN s /\ s[1] = Head(s)
      /\ \A i \in DOMAIN t : i \in Nat \ {0} /\ i + 1 \in DOMAIN s /\ t[i] = s[i + 1]
      /\ \A i \in DOMAIN s : i = 1 \/ (i \in Nat /\ i - 1 \in DOMAIN t /\ t[i - 1] = s[i])
    OBVIOUS
<1> HIDE DEF t
<1>2. Has(s, T) <=> Has(t, T) \/ Head(s) \in T
    <2>1. ASSUME NEW i \in DOMAIN s, s[i] \in T PROVE Has(t, T) \/ Head(s) \in T
        BY <1>1, <2>1 DEF Has
    <2>2. ASSUME NEW i \in DOMAIN t, t[i] \in T PROVE Has(s, T)
        BY <1>1, <2>2 DEF Has
    <2>3. Head(s) \in T => Has(s, T)
        BY <1>1 DEF Has
    <2> QED  BY <2>1, <2>2, <2>3 DEF Has
<1>3. ASSUME Single(s, T) PROVE Single(t, T) /\ (Head(s) \in T => ~Has(t, T))
    <2>1. ASSUME NEW i \in DOMAIN t, NEW j \in DOMAIN t, t[i] \in T, t[j] \in T PROVE i = j
        BY <1>1, <1>3, <2>1 DEF Single
    <2>2. ASSUME Head(s) \in T, NEW i \in DOMAIN t, t[i] \in T PROVE FALSE
        BY <1>1, <1>3, <2>2 DEF Single
    <2> QED  BY <2>1, <2>2 DEF Single, Has
<1> QED  BY <1>1, <1>2, <1>3 DEF t

-----------------------------------------------------------------------------
(* The invariant.                                                          *)

AnswersTo(m) == {f \in Frame : f.to = m /\ f.kind # "typing"}

Sent(k, m) == Has(up[k], {m})
Replied(k, m) == Has(down[k], AnswersTo(m))

\* Action a is in one place at most.
Once(k, a) ==
    /\ Single(up[k], {a}) /\ Single(down[k], AnswersTo(a))
    /\ ~(Sent(k, a) /\ Handling(k, a))
    /\ ~(Sent(k, a) /\ Replied(k, a))
    /\ ~(Handling(k, a) /\ Replied(k, a))

Out(k, m) == Sent(k, m) \/ Handling(k, m) \/ Replied(k, m)

ConnInv(k) ==
    /\ link[k] \in {"unused", "connecting"} =>
            up[k] = <<>> /\ down[k] = <<>> /\ server[k] = "none"
    /\ \A m \in Messages : Out(k, m) => m \in sent
    /\ \A a \in Actions : Once(k, a)

TabInv ==
    /\ connected => link[tab] \in {"open", "broken"}
    /\ pending # None => tab # None /\ (Out(tab, pending) \/ link[tab] = "broken")
    /\ tab # None /\ ~stolen => \A a \in Actions : Out(tab, a) => a = pending

ConnsInv == \A k \in Conns : ConnInv(k)

IInv == TypeOK /\ ConnsInv /\ TabInv /\ FallbackUnseen /\ HubServes

LEMMA OutIs ==
    ASSUME TypeOK, NEW k \in Conns, NEW m
    PROVE  Out(k, m) <=> Outstanding(k, m)
<1>1. Sent(k, m) <=> \E i \in DOMAIN up[k] : up[k][i] = m
    BY DEF Sent, Has
<1>2. \A i \in DOMAIN down[k] : down[k][i] \in Frame
    BY DEF TypeOK
<1>3. Replied(k, m) <=> Answered(k, m)
    BY <1>2 DEF Replied, Answered, Has, AnswersTo
<1> QED  BY <1>1, <1>3 DEF Out, Outstanding

LEMMA InitInv == Init => IInv
<1> SUFFICES ASSUME Init PROVE IInv
    OBVIOUS
<1>1. TypeOK
    <2>1. /\ up \in [Conns -> Seq(Messages)] /\ down \in [Conns -> Seq(Frame)]
          /\ job \in [Conns -> Messages \cup {None}] /\ task \in [Conns -> Nat]
        BY DEF Init
    <2>2. /\ link \in [Conns -> {"unused", "connecting", "open", "broken"}]
          /\ server \in [Conns -> {"none", "gone"} \cup Serving]
        BY DEF Init
    <2> QED  BY <2>1, <2>2 DEF Init, TypeOK
<1>2. ASSUME NEW k \in Conns PROVE ConnInv(k)
    <2>1. up[k] = <<>> /\ down[k] = <<>> /\ server[k] = "none"
        BY DEF Init
    <2>2. \A m : ~Sent(k, m) /\ ~Replied(k, m) /\ ~Handling(k, m)
        BY <2>1, EmptyHas DEF Sent, Replied, Handling
    <2> QED  BY <2>1, <2>2, EmptyHas DEF ConnInv, Out, Once
<1> QED
    BY <1>1, <1>2, IdsAssumption DEF Init, IInv, ConnsInv, TabInv, FallbackUnseen, HubServes, Serving

\* A connection that a step leaves alone.
LEMMA ConnStays ==
    ASSUME NEW k \in Conns, ConnInv(k), sent \subseteq sent',
           up'[k] = up[k], down'[k] = down[k], server'[k] = server[k], job'[k] = job[k],
           link[k] \notin {"unused", "connecting"} => link'[k] \notin {"unused", "connecting"}
    PROVE  ConnInv(k)' /\ \A m : Out(k, m)' <=> Out(k, m)
<1>1. \A m : /\ Sent(k, m)' <=> Sent(k, m)
             /\ Replied(k, m)' <=> Replied(k, m)
             /\ Handling(k, m)' <=> Handling(k, m)
    BY DEF Sent, Replied, Handling
<1>2. \A a : Once(k, a)' <=> Once(k, a)
    BY <1>1 DEF Once
<1>3. \A m : Out(k, m)' <=> Out(k, m)
    BY <1>1 DEF Out
<1>4. link'[k] \in {"unused", "connecting"} =>
          up'[k] = <<>> /\ down'[k] = <<>> /\ server'[k] = "none"
    BY DEF ConnInv
<1>5. (\A m \in Messages : Out(k, m)' => m \in sent') /\ (\A a \in Actions : Once(k, a)')
    BY <1>2, <1>3 DEF ConnInv
<1> QED  BY <1>3, <1>4, <1>5 DEF ConnInv

\* A frame to the tab of connection k is added, or lost because the connection is gone.
LEMMA Delivered ==
    ASSUME TypeOK, NEW k \in Conns, NEW kind \in {"typing", "done", "error"},
           NEW to \in Messages \cup {None}, Deliver(k, kind, to)
    PROVE  /\ down' \in [Conns -> Seq(Frame)]
           /\ \A j \in Conns \ {k} : down'[j] = down[j]
           /\ \A m : Replied(k, m)' =>
                    Replied(k, m) \/ (kind # "typing" /\ to = m /\ link[k] = "open")
           /\ \A m : Replied(k, m) => Replied(k, m)'
           /\ kind # "typing" /\ link[k] = "open" => Replied(k, to)'
           /\ \A m : /\ Single(down[k], AnswersTo(m))
                     /\ kind # "typing" /\ to = m => ~Replied(k, m)
                     => Single(down'[k], AnswersTo(m))
<1> DEFINE f == [kind |-> kind, to |-> to]
<1>1. f \in Frame /\ f.kind = kind /\ f.to = to /\ down[k] \in Seq(Frame)
    BY DEF Frame, TypeOK
<1>2. CASE link[k] = "open"
    <2>1. down' = [down EXCEPT ![k] = Append(@, f)]
        BY <1>2 DEF Deliver
    <2> HIDE DEF f
    <2>2. down'[k] = Append(down[k], f) /\ \A j \in Conns \ {k} : down'[j] = down[j]
        BY <2>1 DEF TypeOK
    <2>3. \A m : f \in AnswersTo(m) <=> (kind # "typing" /\ to = m)
        BY <1>1 DEF AnswersTo
    <2>4. down'[k] \in Seq(Frame)
        BY <1>1, <2>2, AppendHas
    <2>5. down' \in [Conns -> Seq(Frame)]
        BY <2>1, <2>2, <2>4 DEF TypeOK
    <2>6. \A m : /\ Replied(k, m)' <=> Replied(k, m) \/ f \in AnswersTo(m)
                 /\ Single(down[k], AnswersTo(m)) /\ (f \in AnswersTo(m) => ~Replied(k, m))
                    => Single(down'[k], AnswersTo(m))
        BY <1>1, <2>2, AppendHas DEF Replied
    <2> QED  BY <1>2, <2>2, <2>3, <2>5, <2>6
<1>3. CASE link[k] # "open"
    BY <1>3 DEF Deliver, TypeOK, Replied
<1> QED  BY <1>2, <1>3

\* The first message on the way to the server is taken.
LEMMA Taken ==
    ASSUME TypeOK, NEW k \in Conns, up[k] # <<>>, up' = [up EXCEPT ![k] = Tail(@)]
    PROVE  /\ up' \in [Conns -> Seq(Messages)] /\ Head(up[k]) \in Messages
           /\ \A j \in Conns \ {k} : up'[j] = up[j]
           /\ \A m : Sent(k, m) <=> Sent(k, m)' \/ m = Head(up[k])
           /\ \A m : Single(up[k], {m}) =>
                  Single(up'[k], {m}) /\ (m = Head(up[k]) => ~Sent(k, m)')
<1>1. up[k] \in Seq(Messages) /\ up'[k] = Tail(up[k])
      /\ \A j \in Conns \ {k} : up'[j] = up[j]
    BY DEF TypeOK
<1>2. up'[k] \in Seq(Messages) /\ Head(up[k]) \in Messages
    BY <1>1, TailHas
<1>3. \A m : /\ Sent(k, m) <=> Sent(k, m)' \/ Head(up[k]) \in {m}
             /\ Single(up[k], {m}) =>
                  Single(up'[k], {m}) /\ (Head(up[k]) \in {m} => ~Sent(k, m)')
    BY <1>1, TailHas DEF Sent
<1>4. up' \in [Conns -> Seq(Messages)]
    BY <1>1, <1>2 DEF TypeOK
<1> QED  BY <1>1, <1>2, <1>3, <1>4

-----------------------------------------------------------------------------
(* The server, the hub and the network.                                    *)

\* What a step of connection k has to show when the tab does nothing.
LEMMA ServerStep ==
    ASSUME IInv, TypeOK', HubServes', UNCHANGED tabVars, NEW k \in Conns, ConnInv(k)',
           \A j \in Conns \ {k} : /\ up'[j] = up[j] /\ down'[j] = down[j]
                                  /\ server'[j] = server[j] /\ job'[j] = job[j]
                                  /\ link'[j] = link[j],
           \A m \in Messages : Out(k, m)' => Out(k, m),
           \A m \in Messages : Out(k, m) => Out(k, m)' \/ link'[k] = "broken",
           link[k] = "broken" => link'[k] = "broken",
           link[k] = "open" => link'[k] \in {"open", "broken"}
    PROVE  IInv'
<1>0. TypeOK /\ ConnsInv /\ TabInv /\ FallbackUnseen
    BY DEF IInv
<1>1. \A j \in Conns \ {k} : ConnInv(j)' /\ \A m : Out(j, m)' <=> Out(j, m)
    <2> SUFFICES ASSUME NEW j \in Conns \ {k}
                 PROVE  ConnInv(j)' /\ \A m : Out(j, m)' <=> Out(j, m)
        OBVIOUS
    <2>1. ConnInv(j) /\ sent \subseteq sent'
        BY <1>0 DEF ConnsInv, tabVars
    <2> QED  BY <2>1, ConnStays
<1>2. ConnsInv'
    BY <1>1 DEF ConnsInv
<1>3. TabInv'
    <2>1. /\ tab' = tab /\ connected' = connected /\ pending' = pending /\ stolen' = stolen
          /\ tab # None => tab \in Conns
          /\ connected => tab # None
          /\ pending # None => pending \in Messages
        BY <1>0 DEF TypeOK, tabVars, Messages
    <2>2. connected' => link'[tab'] \in {"open", "broken"}
        BY <1>0, <2>1 DEF TabInv
    <2>3. pending' # None => tab' # None /\ (Out(tab, pending)' \/ link'[tab'] = "broken")
        BY <1>0, <1>1, <2>1 DEF TabInv
    <2>4. tab' # None /\ ~stolen' => \A a \in Actions : Out(tab, a)' => a = pending'
        BY <1>0, <1>1, <2>1 DEF TabInv, Messages
    <2> QED  BY <2>1, <2>2, <2>3, <2>4 DEF TabInv
<1>4. FallbackUnseen'
    BY <1>0 DEF FallbackUnseen, tabVars
<1> QED  BY <1>2, <1>3, <1>4 DEF IInv

LEMMA AcceptKeeps == ASSUME IInv, NEW k \in Conns, Accept(k) PROVE IInv'
<1>0. TypeOK /\ HubServes /\ ConnInv(k)
    BY DEF IInv, ConnsInv
<1>1. TypeOK' /\ HubServes'
    BY <1>0 DEF Accept, Go, TypeOK, HubServes, Serving, tabVars
<1>2. /\ up' = up /\ down' = down /\ job' = job /\ sent' = sent
      /\ server'[k] = "read" /\ server[k] = "none" /\ link[k] = "connecting" /\ link'[k] = "open"
      /\ \A j \in Conns \ {k} : server'[j] = server[j] /\ link'[j] = link[j]
    BY <1>0 DEF Accept, Go, TypeOK, ConnInv, tabVars
<1>3. \A m : /\ Sent(k, m)' <=> Sent(k, m)
             /\ Replied(k, m)' <=> Replied(k, m)
             /\ ~Handling(k, m) /\ ~Handling(k, m)'
    BY <1>2 DEF Sent, Replied, Handling
<1>4. \A m : Out(k, m)' <=> Out(k, m)
    BY <1>3 DEF Out
<1>5. \A a \in Actions : Once(k, a)'
    BY <1>0, <1>2, <1>3 DEF ConnInv, Once
<1>6. ConnInv(k)'
    BY <1>0, <1>2, <1>4, <1>5 DEF ConnInv
<1> QED
    BY <1>1, <1>2, <1>4, <1>6, ServerStep DEF Accept

LEMMA ReadKeeps == ASSUME IInv, NEW k \in Conns, Read(k) PROVE IInv'
<1>0. TypeOK /\ HubServes /\ ConnInv(k)
    BY DEF IInv, ConnsInv
<1>a. PICK x : x = Head(up[k])
    OBVIOUS
<1>1. /\ up[k] # <<>> /\ up' = [up EXCEPT ![k] = Tail(@)]
      /\ Deliver(k, "typing", x) /\ job' = [job EXCEPT ![k] = x]
      /\ server' = [server EXCEPT ![k] = "work"] /\ server[k] = "read"
      /\ UNCHANGED <<tabVars, link, hub, task, pushes>>
    BY <1>a DEF Read, Go
<1>2. /\ up' \in [Conns -> Seq(Messages)] /\ x \in Messages
      /\ \A j \in Conns \ {k} : up'[j] = up[j]
      /\ \A m : Sent(k, m) <=> Sent(k, m)' \/ m = x
      /\ \A m : Single(up[k], {m}) => Single(up'[k], {m}) /\ (m = x => ~Sent(k, m)')
    BY <1>0, <1>1, <1>a, Taken
<1>3. /\ down' \in [Conns -> Seq(Frame)]
      /\ \A j \in Conns \ {k} : down'[j] = down[j]
      /\ \A m : Replied(k, m)' <=> Replied(k, m)
      /\ \A m : Single(down[k], AnswersTo(m)) => Single(down'[k], AnswersTo(m))
    BY <1>0, <1>1, <1>2, Delivered
<1>4. TypeOK' /\ HubServes'
    BY <1>0, <1>1, <1>2, <1>3 DEF TypeOK, HubServes, Serving, tabVars
<1>5. /\ server'[k] = "work" /\ job'[k] = x /\ sent' = sent
      /\ \A j \in Conns \ {k} : server'[j] = server[j] /\ job'[j] = job[j]
    BY <1>0, <1>1 DEF TypeOK, tabVars
<1>6. \A m : ~Handling(k, m) /\ (Handling(k, m)' <=> m = x)
    BY <1>1, <1>5 DEF Handling
<1>7. \A m : Out(k, m)' <=> Out(k, m)
    BY <1>2, <1>3, <1>6 DEF Out
<1>8. \A a \in Actions : Once(k, a)'
    BY <1>0, <1>2, <1>3, <1>6 DEF ConnInv, Once
<1>9. ConnInv(k)'
    BY <1>0, <1>1, <1>5, <1>7, <1>8 DEF ConnInv
<1> QED
    BY <1>1, <1>2, <1>3, <1>4, <1>5, <1>7, <1>9, ServerStep

\* The coordinator returns or raises.
LEMMA WorkEnds ==
    ASSUME IInv, NEW k \in Conns, Answer(k) \/ Raise(k)
    PROVE  IInv'
<1>0. TypeOK /\ HubServes /\ ConnInv(k)
    BY DEF IInv, ConnsInv
<1>1. PICK kind \in {"done", "error"} : Deliver(k, kind, job[k])
    BY DEF Answer, Raise
<1>2. PICK p \in {"read", "leave"} : server' = [server EXCEPT ![k] = p]
    BY DEF Answer, Raise, Go
<1>3. /\ server[k] = "work" /\ job' = [job EXCEPT ![k] = None]
      /\ UNCHANGED <<tabVars, link, up, hub, task, pushes>>
    BY DEF Answer, Raise
<1>4. PICK x \in Messages \cup {None} : x = job[k]
    BY <1>0 DEF TypeOK
<1>5. /\ down' \in [Conns -> Seq(Frame)]
      /\ \A j \in Conns \ {k} : down'[j] = down[j]
      /\ \A m : Replied(k, m)' => Replied(k, m) \/ m = x
      /\ \A m : Replied(k, m) => Replied(k, m)'
      /\ link[k] = "open" => Replied(k, x)'
      /\ \A m : Single(down[k], AnswersTo(m)) /\ (m = x => ~Replied(k, m))
                => Single(down'[k], AnswersTo(m))
    BY <1>0, <1>1, <1>4, Delivered
<1>6. TypeOK' /\ HubServes'
    BY <1>0, <1>2, <1>3, <1>5 DEF TypeOK, HubServes, Serving, tabVars
<1>7. /\ server'[k] \in {"read", "leave"} /\ sent' = sent
      /\ link' = link /\ link[k] \in {"open", "broken"} /\ up' = up
      /\ \A j \in Conns \ {k} : server'[j] = server[j] /\ job'[j] = job[j]
    BY <1>0, <1>2, <1>3 DEF TypeOK, tabVars, ConnInv
<1>8. \A m : /\ Handling(k, m) <=> m = x
             /\ ~Handling(k, m)'
             /\ Sent(k, m)' <=> Sent(k, m)
    BY <1>3, <1>4, <1>7 DEF Handling, Sent
<1>9. \A m : (Out(k, m)' => Out(k, m)) /\ (Out(k, m) => Out(k, m)' \/ link'[k] = "broken")
    BY <1>5, <1>7, <1>8 DEF Out
<1>10. \A a \in Actions : Once(k, a)'
    BY <1>0, <1>5, <1>7, <1>8 DEF ConnInv, Once
<1>11. ConnInv(k)'
    BY <1>0, <1>7, <1>9, <1>10 DEF ConnInv
<1> QED
    BY <1>3, <1>5, <1>6, <1>7, <1>9, <1>11, ServerStep

LEMMA RejectKeeps == ASSUME IInv, NEW k \in Conns, Reject(k) PROVE IInv'
<1>0. TypeOK /\ HubServes /\ ConnInv(k)
    BY DEF IInv, ConnsInv
<1>a. PICK x : x = Head(up[k])
    OBVIOUS
<1>1. /\ up[k] # <<>> /\ up' = [up EXCEPT ![k] = Tail(@)] /\ server[k] = "read"
      /\ Deliver(k, "error", x)
      /\ UNCHANGED <<tabVars, link, server, job, hub, task, pushes>>
    BY <1>a DEF Reject
<1>2. /\ up' \in [Conns -> Seq(Messages)] /\ x \in Messages
      /\ \A j \in Conns \ {k} : up'[j] = up[j]
      /\ \A m : Sent(k, m) <=> Sent(k, m)' \/ m = x
      /\ \A m : Single(up[k], {m}) => Single(up'[k], {m}) /\ (m = x => ~Sent(k, m)')
    BY <1>0, <1>1, <1>a, Taken
<1>3. /\ down' \in [Conns -> Seq(Frame)]
      /\ \A j \in Conns \ {k} : down'[j] = down[j]
      /\ \A m : Replied(k, m)' => Replied(k, m) \/ m = x
      /\ \A m : Replied(k, m) => Replied(k, m)'
      /\ link[k] = "open" => Replied(k, x)'
      /\ \A m : Single(down[k], AnswersTo(m)) /\ (m = x => ~Replied(k, m))
                => Single(down'[k], AnswersTo(m))
    BY <1>0, <1>1, <1>2, Delivered
<1>4. TypeOK' /\ HubServes'
    BY <1>0, <1>1, <1>2, <1>3 DEF TypeOK, HubServes, tabVars
<1>5. /\ server' = server /\ job' = job /\ sent' = sent
      /\ link' = link /\ link[k] \in {"open", "broken"}
    BY <1>0, <1>1 DEF TypeOK, tabVars, ConnInv
<1>6. \A m : ~Handling(k, m) /\ ~Handling(k, m)'
    BY <1>1, <1>5 DEF Handling
<1>7. \A m : (Out(k, m)' => Out(k, m)) /\ (Out(k, m) => Out(k, m)' \/ link'[k] = "broken")
    BY <1>2, <1>3, <1>5, <1>6 DEF Out
<1>8. \A a \in Actions : Once(k, a)'
    BY <1>0, <1>2, <1>3, <1>6 DEF ConnInv, Once
<1>9. ConnInv(k)'
    BY <1>0, <1>5, <1>7, <1>8 DEF ConnInv
<1> QED
    BY <1>1, <1>2, <1>3, <1>4, <1>5, <1>7, <1>9, ServerStep

\* The handler ends.
LEMMA HandlerEnds ==
    ASSUME IInv, NEW k \in Conns, Disconnect(k) \/ Leave(k)
    PROVE  IInv'
<1>0. TypeOK /\ HubServes /\ ConnInv(k)
    BY DEF IInv, ConnsInv
<1>1. TypeOK' /\ HubServes'
    <2>1. CASE Disconnect(k)
        BY <1>0, <2>1 DEF Disconnect, Go, TypeOK, HubServes, Serving, tabVars
    <2>2. CASE Leave(k)
        BY <1>0, <2>2 DEF Leave, Go, TypeOK, HubServes, Serving, tabVars
    <2> QED  BY <2>1, <2>2
<1>2. /\ up' = up /\ down' = down /\ job' = job /\ sent' = sent
      /\ server[k] # "work" /\ server'[k] = "gone" /\ link'[k] = "broken"
      /\ \A j \in Conns \ {k} : server'[j] = server[j] /\ link'[j] = link[j]
      /\ UNCHANGED tabVars
    BY <1>0 DEF Disconnect, Leave, Go, TypeOK, tabVars
<1>3. \A m : /\ Sent(k, m)' <=> Sent(k, m)
             /\ Replied(k, m)' <=> Replied(k, m)
             /\ ~Handling(k, m) /\ ~Handling(k, m)'
    BY <1>2 DEF Sent, Replied, Handling
<1>4. \A m : Out(k, m)' <=> Out(k, m)
    BY <1>3 DEF Out
<1>5. \A a \in Actions : Once(k, a)'
    BY <1>0, <1>2, <1>3 DEF ConnInv, Once
<1>6. ConnInv(k)'
    BY <1>0, <1>2, <1>4, <1>5 DEF ConnInv
<1> QED
    BY <1>1, <1>2, <1>4, <1>6, ServerStep

LEMMA PushKeeps == ASSUME IInv, NEW k \in Conns, Push(k) PROVE IInv'
<1>0. TypeOK /\ HubServes /\ ConnInv(k)
    BY DEF IInv, ConnsInv
<1>1. /\ Deliver(k, "done", None) /\ task[k] > 0 /\ task' = [task EXCEPT ![k] = @ - 1]
      /\ UNCHANGED <<tabVars, link, up, server, job, hub, pushes>>
    BY DEF Push
<1>2. None \notin Messages
    BY IdsAssumption DEF Messages
<1>3. /\ down' \in [Conns -> Seq(Frame)]
      /\ \A j \in Conns \ {k} : down'[j] = down[j]
      /\ \A m \in Messages : Replied(k, m)' <=> Replied(k, m)
      /\ \A m \in Messages : Single(down[k], AnswersTo(m)) => Single(down'[k], AnswersTo(m))
    BY <1>0, <1>1, <1>2, Delivered
<1>4. TypeOK' /\ HubServes'
    <2>1. task' \in [Conns -> Nat]
        BY <1>0, <1>1 DEF TypeOK
    <2>2. TypeOK'
        BY <1>0, <1>1, <1>3, <2>1 DEF TypeOK, tabVars
    <2> QED  BY <1>0, <1>1, <2>2 DEF HubServes
<1>5. /\ up' = up /\ server' = server /\ job' = job /\ sent' = sent /\ link' = link
    BY <1>1 DEF tabVars
<1>6. \A m \in Messages : /\ Sent(k, m)' <=> Sent(k, m)
                          /\ Handling(k, m)' <=> Handling(k, m)
    BY <1>5 DEF Sent, Handling
<1>7. \A m \in Messages : Out(k, m)' <=> Out(k, m)
    BY <1>3, <1>6 DEF Out
<1>8. \A a \in Actions : Once(k, a)'
    BY <1>0, <1>3, <1>5, <1>6 DEF ConnInv, Once, Messages
<1>9. link'[k] \in {"unused", "connecting"} => down'[k] = <<>>
    BY <1>0, <1>1, <1>5 DEF ConnInv, Deliver
<1>10. ConnInv(k)'
    BY <1>0, <1>5, <1>7, <1>8, <1>9 DEF ConnInv
<1> QED
    BY <1>1, <1>3, <1>4, <1>5, <1>7, <1>10, ServerStep

LEMMA BreakKeeps == ASSUME IInv, NEW k \in Conns, Break(k) PROVE IInv'
<1>0. TypeOK /\ HubServes /\ ConnInv(k)
    BY DEF IInv, ConnsInv
<1>1. TypeOK' /\ HubServes'
    <2>1. <<>> \in Seq(Messages) /\ <<>> \in Seq(Frame)
        OBVIOUS
    <2> QED  BY <1>0, <2>1 DEF Break, TypeOK, HubServes, tabVars, serverVars
<1>2. /\ up'[k] = <<>> /\ down'[k] = <<>> /\ link'[k] = "broken"
      /\ UNCHANGED <<tabVars, serverVars>>
      /\ \A j \in Conns \ {k} : up'[j] = up[j] /\ down'[j] = down[j] /\ link'[j] = link[j]
    BY <1>0 DEF Break, TypeOK
<1>3. \A m : ~Sent(k, m)' /\ ~Replied(k, m)' /\ (Handling(k, m)' <=> Handling(k, m))
    BY <1>2, EmptyHas DEF Sent, Replied, Handling, serverVars
<1>4. \A m : Out(k, m)' => Out(k, m)
    BY <1>3 DEF Out
<1>5. \A a \in Actions : Once(k, a)'
    BY <1>2, <1>3, EmptyHas DEF Once
<1>6. ConnInv(k)'
    BY <1>0, <1>2, <1>4, <1>5 DEF ConnInv, tabVars
<1> QED
    BY <1>1, <1>2, <1>4, <1>6, ServerStep DEF serverVars

-----------------------------------------------------------------------------
(* The tab.                                                                *)

LEMMA ConnectKeeps == ASSUME IInv, Connect PROVE IInv'
<1>0. TypeOK /\ ConnsInv /\ TabInv /\ FallbackUnseen /\ HubServes
    BY DEF IInv
<1>1. PICK k \in Conns : tab' = k /\ link[k] = "unused"
    BY DEF Connect
<1>2. /\ tab = None /\ link' = [link EXCEPT ![k] = "connecting"] /\ stolen' = FALSE
      /\ UNCHANGED <<connected, pending, typing, timer, sent, seen, up, down, serverVars>>
    BY <1>1 DEF Connect
<1>3. connected = FALSE /\ pending = None
    BY <1>0, <1>2 DEF TypeOK, TabInv
<1>4. TypeOK' /\ HubServes' /\ FallbackUnseen'
    BY <1>0, <1>1, <1>2, <1>3 DEF TypeOK, HubServes, FallbackUnseen, serverVars
<1>5. ConnInv(k) /\ up[k] = <<>> /\ down[k] = <<>> /\ server[k] = "none"
    BY <1>0, <1>1 DEF ConnsInv, ConnInv
<1>6. \A j \in Conns \ {k} : ConnInv(j)'
    <2> SUFFICES ASSUME NEW j \in Conns \ {k} PROVE ConnInv(j)'
        OBVIOUS
    <2>1. ConnInv(j) /\ link'[j] = link[j]
        BY <1>0, <1>2 DEF ConnsInv, TypeOK
    <2> QED  BY <1>2, <2>1, ConnStays DEF serverVars
<1>7. /\ \A m : Sent(k, m)' <=> Sent(k, m)
      /\ \A m : Replied(k, m)' <=> Replied(k, m)
      /\ \A m : Handling(k, m)' <=> Handling(k, m)
    BY <1>2 DEF Sent, Replied, Handling, serverVars
<1>8. \A m : ~Out(k, m)' /\ (Out(k, m)' <=> Out(k, m))
    <2>1. \A m : ~Sent(k, m) /\ ~Replied(k, m) /\ ~Handling(k, m)
        BY <1>5, EmptyHas DEF Sent, Replied, Handling
    <2> QED  BY <1>7, <2>1 DEF Out
<1>9. \A a \in Actions : Once(k, a)'
    BY <1>2, <1>5, <1>7 DEF ConnInv, Once
<1>10. ConnInv(k)'
    BY <1>2, <1>5, <1>8, <1>9 DEF ConnInv, serverVars
<1>11. TabInv'
    BY <1>1, <1>2, <1>3, <1>8 DEF TabInv
<1> QED  BY <1>4, <1>6, <1>10, <1>11 DEF IInv, ConnsInv

\* The tab learns that its socket is open, or a notification is broadcast.
LEMMA QuietKeeps ==
    ASSUME IInv, Open \/ Broadcast \/ UNCHANGED vars
    PROVE  IInv'
<1>0. TypeOK /\ ConnsInv /\ TabInv /\ FallbackUnseen /\ HubServes
    BY DEF IInv
<1>1. /\ UNCHANGED <<tab, pending, typing, timer, sent, seen, stolen, link, up, down,
                     server, job, hub>>
      /\ connected' = connected \/ (connected' = TRUE /\ tab # None /\ link[tab] = "open")
    BY DEF Open, Broadcast, vars, tabVars, serverVars
<1>2. TypeOK'
    <2>1. CASE Open
        BY <1>0, <2>1 DEF TypeOK, Open, serverVars
    <2>2. CASE Broadcast
        <3>1. task' \in [Conns -> Nat] /\ pushes' \in Nat
            BY <1>0, <2>2 DEF TypeOK, Broadcast
        <3> QED  BY <1>0, <1>1, <2>2, <3>1 DEF TypeOK, Broadcast, tabVars
    <2>3. CASE UNCHANGED vars
        BY <1>0, <2>3 DEF TypeOK, vars, tabVars, serverVars
    <2> QED  BY <2>1, <2>2, <2>3
<1>3. \A k \in Conns : ConnInv(k)' /\ \A m : Out(k, m)' <=> Out(k, m)
    <2> SUFFICES ASSUME NEW k \in Conns
                 PROVE  ConnInv(k)' /\ \A m : Out(k, m)' <=> Out(k, m)
        OBVIOUS
    <2> QED  BY <1>0, <1>1, ConnStays DEF ConnsInv
<1>4. TabInv'
    <2>1. tab # None => tab \in Conns
        BY <1>0 DEF TypeOK
    <2> QED  BY <1>0, <1>1, <1>3, <2>1 DEF TabInv
<1>5. FallbackUnseen' /\ HubServes'
    BY <1>0, <1>1 DEF FallbackUnseen, HubServes
<1> QED  BY <1>2, <1>3, <1>4, <1>5 DEF IInv, ConnsInv

LEMMA FreshNew ==
    ASSUME NEW S, Unused(S)
    PROVE  Fresh(S) \in S /\ Fresh(S) \notin sent
<1>1. \E m \in S : m \notin sent
    BY DEF Unused
<1> QED  BY <1>1 DEF Fresh

\* What a message that the tab sends adds.
LEMMA SendAdds ==
    ASSUME TypeOK, ConnsInv, NEW m \in Messages, Send(m), m \in Actions => m \notin sent,
           UNCHANGED <<tab, link, down, serverVars>>
    PROVE  /\ up' \in [Conns -> Seq(Messages)] /\ sent' = sent \cup {m}
           /\ \A k \in Conns : ConnInv(k)'
           /\ \A k \in Conns, x \in Messages : Out(k, x) => Out(k, x)'
           /\ \A k \in Conns, x \in Messages : Out(k, x)' => Out(k, x) \/ x = m
           /\ tab # None /\ link[tab] = "open" => Out(tab, m)'
<1>1. sent' = sent \cup {m}
    BY DEF Send
<1>2. CASE tab # None /\ link[tab] = "open"
    <2>1. PICK t \in Conns : t = tab
        BY <1>2 DEF TypeOK
    <2>2. /\ up[t] \in Seq(Messages) /\ up'[t] = Append(up[t], m) /\ link'[t] = "open"
          /\ \A k \in Conns \ {t} : up'[k] = up[k]
        BY <1>2, <2>1 DEF Send, TypeOK
    <2>3. up' \in [Conns -> Seq(Messages)]
        <3>1. up'[t] \in Seq(Messages)
            BY <2>2, AppendHas
        <3> QED  BY <1>2, <2>1, <2>2, <3>1 DEF Send, TypeOK
    <2>4. /\ \A x : Sent(t, x)' <=> Sent(t, x) \/ m \in {x}
          /\ \A x : Single(up[t], {x}) /\ (m \in {x} => ~Sent(t, x)) => Single(up'[t], {x})
        BY <2>2, AppendHas DEF Sent
    <2>5. \A x : (Replied(t, x)' <=> Replied(t, x)) /\ (Handling(t, x)' <=> Handling(t, x))
        BY DEF Replied, Handling, serverVars
    <2>6. \A x : Out(t, x)' <=> Out(t, x) \/ x = m
        BY <2>4, <2>5 DEF Out
    <2>7. ConnInv(t)
        BY DEF ConnsInv
    <2>8. \A a \in Actions : Once(t, a)'
        <3> SUFFICES ASSUME NEW a \in Actions PROVE Once(t, a)'
            OBVIOUS
        <3>1. Once(t, a) /\ (a = m => ~Out(t, a))
            BY <2>7 DEF ConnInv, Messages
        <3>2. a = m => ~Sent(t, a) /\ ~Handling(t, a) /\ ~Replied(t, a)
            BY <3>1 DEF Out
        <3>3. Single(down'[t], AnswersTo(a))
            BY <3>1 DEF Once
        <3> QED  BY <2>4, <2>5, <3>1, <3>2, <3>3 DEF Once
    <2>9. ConnInv(t)'
        BY <1>1, <2>2, <2>6, <2>7, <2>8 DEF ConnInv
    <2>10. \A k \in Conns \ {t} : ConnInv(k)' /\ \A x : Out(k, x)' <=> Out(k, x)
        <3> SUFFICES ASSUME NEW k \in Conns \ {t}
                     PROVE  ConnInv(k)' /\ \A x : Out(k, x)' <=> Out(k, x)
            OBVIOUS
        <3>1. ConnInv(k)
            BY DEF ConnsInv
        <3> QED  BY <1>1, <2>2, <3>1, ConnStays DEF serverVars
    <2>11. Out(tab, m)'
        BY <2>1, <2>6
    <2> QED  BY <1>1, <2>3, <2>6, <2>9, <2>10, <2>11
<1>3. CASE ~(tab # None /\ link[tab] = "open")
    <2>1. up' = up
        BY <1>3 DEF Send
    <2>2. \A k \in Conns : ConnInv(k)' /\ \A x : Out(k, x)' <=> Out(k, x)
        <3> SUFFICES ASSUME NEW k \in Conns
                     PROVE  ConnInv(k)' /\ \A x : Out(k, x)' <=> Out(k, x)
            OBVIOUS
        <3>1. ConnInv(k)
            BY DEF ConnsInv
        <3> QED  BY <1>1, <2>1, <3>1, ConnStays DEF serverVars
    <2> QED  BY <1>1, <1>3, <2>1, <2>2 DEF TypeOK
<1> QED  BY <1>2, <1>3

LEMMA SendActionKeeps == ASSUME IInv, SendAction PROVE IInv'
<1>0. TypeOK /\ ConnsInv /\ TabInv /\ FallbackUnseen /\ HubServes
    BY DEF IInv
<1>1. PICK m : m = Fresh(Actions)
    OBVIOUS
<1>2. /\ connected /\ pending = None /\ Send(m) /\ pending' = m /\ typing' = TRUE
      /\ m \in Actions /\ m \notin sent
      /\ UNCHANGED <<tab, connected, timer, seen, stolen, link, down, serverVars>>
    BY <1>1, FreshNew DEF SendAction
<1>3. /\ up' \in [Conns -> Seq(Messages)] /\ sent' = sent \cup {m}
      /\ \A k \in Conns : ConnInv(k)'
      /\ \A k \in Conns, x \in Messages : Out(k, x)' => Out(k, x) \/ x = m
      /\ link[tab] = "open" => Out(tab, m)'
      /\ tab \in Conns /\ tab # None
    BY <1>0, <1>2, SendAdds, IdsAssumption DEF Messages, TypeOK
<1>4. TypeOK'
    BY <1>0, <1>2, <1>3 DEF TypeOK, Messages, serverVars
<1>5. HubServes' /\ FallbackUnseen'
    BY <1>0, <1>2 DEF HubServes, FallbackUnseen, serverVars
<1>6. TabInv'
    <2>1. link[tab] \in {"open", "broken"} /\ link' = link /\ tab' = tab /\ stolen' = stolen
        BY <1>0, <1>2 DEF TabInv
    <2>2. \A a \in Actions : ~stolen => ~Out(tab, a)
        BY <1>0, <1>2, <1>3, IdsAssumption DEF TabInv
    <2>3. Out(tab, pending)' \/ link'[tab'] = "broken"
        BY <1>2, <1>3, <2>1
    <2>4. ~stolen' => \A a \in Actions : Out(tab, a)' => a = pending'
        BY <1>2, <1>3, <2>1, <2>2 DEF Messages
    <2> QED  BY <1>2, <1>3, <2>1, <2>3, <2>4 DEF TabInv
<1> QED  BY <1>3, <1>4, <1>5, <1>6 DEF IInv, ConnsInv

\* A text, a structured request or its repetition: not an action.
LEMMA SendInputKeeps ==
    ASSUME IInv, SendText \/ SendForm \/ Fallback
    PROVE  IInv'
<1>0. TypeOK /\ ConnsInv /\ TabInv /\ FallbackUnseen /\ HubServes
    BY DEF IInv
<1>1. PICK m \in Inputs :
          /\ Send(m) /\ typing' \in BOOLEAN
          /\ timer' \in {timer, None} \/ (timer' = m /\ m \notin sent)
          /\ UNCHANGED <<tab, connected, pending, seen, stolen, link, down, serverVars>>
    <2>1. CASE SendText
        BY <1>0, <2>1, FreshNew DEF SendText
    <2>2. CASE SendForm
        BY <1>0, <2>2, FreshNew DEF SendForm
    <2>3. CASE Fallback
        BY <1>0, <2>3 DEF Fallback, TypeOK
    <2> QED  BY <2>1, <2>2, <2>3
<1>2. m \in Messages /\ m \notin Actions
    BY IdsAssumption DEF Messages
<1>3. /\ up' \in [Conns -> Seq(Messages)] /\ sent' = sent \cup {m}
      /\ \A k \in Conns : ConnInv(k)'
      /\ \A k \in Conns, x \in Messages : Out(k, x) => Out(k, x)'
      /\ \A k \in Conns, x \in Messages : Out(k, x)' => Out(k, x) \/ x = m
    BY <1>0, <1>1, <1>2, SendAdds
<1>4. TypeOK'
    BY <1>0, <1>1, <1>2, <1>3 DEF TypeOK, serverVars
<1>5. HubServes' /\ FallbackUnseen'
    BY <1>0, <1>1, <1>2, IdsAssumption DEF HubServes, FallbackUnseen, serverVars, TypeOK, Messages
<1>6. TabInv'
    <2>1. /\ tab # None => tab \in Conns
          /\ pending # None => pending \in Messages
          /\ tab' = tab /\ pending' = pending /\ link' = link /\ connected' = connected
          /\ stolen' = stolen
        BY <1>0, <1>1 DEF TypeOK, Messages
    <2>2. pending' # None => tab' # None /\ (Out(tab, pending)' \/ link'[tab'] = "broken")
        BY <1>0, <1>3, <2>1 DEF TabInv
    <2>3. tab' # None /\ ~stolen' => \A a \in Actions : Out(tab, a)' => a = pending'
        BY <1>0, <1>2, <1>3, <2>1 DEF TabInv, Messages
    <2> QED  BY <1>0, <2>1, <2>2, <2>3 DEF TabInv
<1> QED  BY <1>3, <1>4, <1>5, <1>6 DEF IInv, ConnsInv

LEMMA ReceiveKeeps == ASSUME IInv, Receive PROVE IInv'
<1>0. TypeOK /\ ConnsInv /\ TabInv /\ FallbackUnseen /\ HubServes
    BY DEF IInv
<1>1. PICK k \in Conns, f \in Frame : k = tab /\ f = Head(down[k]) /\ down[k] # <<>>
    <2>1. tab \in Conns /\ down[tab] # <<>> /\ down[tab] \in Seq(Frame)
        BY <1>0 DEF Receive, TypeOK
    <2>2. Head(down[tab]) \in Frame
        BY <2>1, TailHas
    <2> QED  BY <2>1, <2>2
<1> DEFINE answer == f.kind # "typing"
<1>2. /\ connected /\ timer' = None /\ typing' = ~answer
      /\ pending' = IF answer THEN None ELSE pending
      /\ stolen' = (stolen \/ (answer /\ pending \notin {None, f.to}))
      /\ seen' = seen \cup (IF answer THEN {f.to} \ {None} ELSE {})
      /\ down' = [down EXCEPT ![k] = Tail(@)]
      /\ UNCHANGED <<tab, connected, sent, link, up, serverVars>>
    BY <1>1 DEF Receive
<1> HIDE DEF answer
<1>3. /\ down[k] \in Seq(Frame) /\ down'[k] = Tail(down[k]) /\ down'[k] \in Seq(Frame)
      /\ \A j \in Conns \ {k} : down'[j] = down[j]
    BY <1>0, <1>1, <1>2, TailHas DEF TypeOK
<1>4. \A m : f \in AnswersTo(m) <=> (answer /\ f.to = m)
    BY DEF AnswersTo, answer
<1>5. \A m : /\ Replied(k, m) <=> Replied(k, m)' \/ f \in AnswersTo(m)
             /\ Single(down[k], AnswersTo(m)) =>
                    /\ Single(down'[k], AnswersTo(m))
                    /\ f \in AnswersTo(m) => ~Replied(k, m)'
    BY <1>1, <1>3, TailHas DEF Replied
<1>6. \A m : (Sent(k, m)' <=> Sent(k, m)) /\ (Handling(k, m)' <=> Handling(k, m))
    BY <1>2 DEF Sent, Handling, serverVars
<1>7. ConnInv(k)
    BY <1>0 DEF ConnsInv
<1>8. ConnInv(k)'
    <2>1. \A m \in Messages : Out(k, m)' => m \in sent'
        BY <1>2, <1>5, <1>6, <1>7 DEF ConnInv, Out
    <2>2. \A a \in Actions : Once(k, a)'
        BY <1>2, <1>5, <1>6, <1>7 DEF ConnInv, Once
    <2>3. link'[k] \notin {"unused", "connecting"}
        BY <1>1, <1>2, <1>7 DEF ConnInv
    <2> QED  BY <2>1, <2>2, <2>3 DEF ConnInv
<1>9. \A j \in Conns \ {k} : ConnInv(j)'
    <2> SUFFICES ASSUME NEW j \in Conns \ {k} PROVE ConnInv(j)'
        OBVIOUS
    <2>1. ConnInv(j)
        BY <1>0 DEF ConnsInv
    <2> QED  BY <1>2, <1>3, <2>1, ConnStays DEF serverVars
<1>10. TypeOK'
    <2>1. answer /\ f.to # None => f.to \in sent
        <3> SUFFICES ASSUME answer, f.to # None PROVE f.to \in sent
            OBVIOUS
        <3>1. f.to \in Messages
            BY DEF Frame
        <3>2. Out(k, f.to)
            BY <1>4, <1>5 DEF Out
        <3> QED  BY <1>7, <3>1, <3>2 DEF ConnInv
    <2>2. seen' \subseteq sent'
        BY <1>0, <1>2, <2>1 DEF TypeOK
    <2>3. down' \in [Conns -> Seq(Frame)]
        BY <1>0, <1>2, <1>3 DEF TypeOK
    <2>4. typing' \in BOOLEAN /\ stolen' \in BOOLEAN
        BY <1>2
    <2>5. pending' \in Actions \cup {None} /\ timer' \in Inputs \cup {None}
        BY <1>0, <1>2 DEF TypeOK
    <2> QED  BY <1>0, <1>2, <2>2, <2>3, <2>4, <2>5 DEF TypeOK, serverVars
<1>11. TabInv'
    <2>1. tab' = k /\ connected' = connected /\ link' = link
        BY <1>1, <1>2
    <2>2. pending' # None => Out(k, pending)' \/ link'[k] = "broken"
        <3> SUFFICES ASSUME pending' # None PROVE Out(k, pending)' \/ link'[k] = "broken"
            OBVIOUS
        <3>1. ~answer /\ pending' = pending
            BY <1>2
        <3>2. Out(k, pending) \/ link[k] = "broken"
            BY <1>0, <1>1, <3>1 DEF TabInv
        <3> QED  BY <1>4, <1>5, <1>6, <2>1, <3>1, <3>2 DEF Out
    <2>3. ASSUME ~stolen', NEW a \in Actions, Out(k, a)' PROVE a = pending'
        <3>1. Out(k, a)
            BY <1>5, <1>6, <2>3 DEF Out
        <3>2. ~stolen /\ (answer => pending \in {None, f.to})
            BY <1>2, <2>3
        <3>3. a = pending /\ a # None
            BY <1>0, <1>1, <3>1, <3>2, IdsAssumption DEF TabInv, TypeOK
        <3>4. ASSUME answer PROVE FALSE
            <4>1. f \in AnswersTo(a)
                BY <1>4, <3>2, <3>3, <3>4
            <4>2. Once(k, a)
                BY <1>7 DEF ConnInv
            <4>3. ~Replied(k, a)' /\ ~Sent(k, a) /\ ~Handling(k, a)
                BY <1>5, <4>1, <4>2 DEF Once
            <4> QED  BY <1>6, <2>3, <4>3 DEF Out
        <3> QED  BY <1>2, <3>3, <3>4
    <2>4. connected' => link'[tab'] \in {"open", "broken"}
        BY <1>0, <1>1, <2>1 DEF TabInv
    <2>5. pending' # None => tab' # None
        BY <1>1, <2>1, IdsAssumption
    <2> QED  BY <2>1, <2>2, <2>3, <2>4, <2>5 DEF TabInv
<1>12. FallbackUnseen' /\ HubServes'
    BY <1>0, <1>2, <1>10, IdsAssumption
       DEF FallbackUnseen, HubServes, serverVars, TypeOK, Messages
<1> QED  BY <1>8, <1>9, <1>10, <1>11, <1>12 DEF IInv, ConnsInv

LEMMA CloseKeeps == ASSUME IInv, OnClose PROVE IInv'
<1>0. TypeOK /\ ConnsInv /\ TabInv /\ FallbackUnseen /\ HubServes
    BY DEF IInv
<1>1. PICK k \in Conns : k = tab
    BY <1>0 DEF OnClose, TypeOK
<1>2. /\ link[k] = "broken" /\ tab' = None /\ connected' = FALSE /\ pending' = None
      /\ down' = [down EXCEPT ![k] = <<>>]
      /\ UNCHANGED <<typing, timer, sent, seen, stolen, link, up, serverVars>>
    BY <1>1 DEF OnClose
<1>3. down'[k] = <<>> /\ \A j \in Conns \ {k} : down'[j] = down[j]
    BY <1>0, <1>2 DEF TypeOK
<1>4. TypeOK' /\ HubServes' /\ FallbackUnseen'
    <2>1. <<>> \in Seq(Frame)
        OBVIOUS
    <2> QED  BY <1>0, <1>2, <2>1 DEF TypeOK, HubServes, FallbackUnseen, serverVars
<1>5. \A m : /\ ~Replied(k, m)'
             /\ Sent(k, m)' <=> Sent(k, m)
             /\ Handling(k, m)' <=> Handling(k, m)
    BY <1>2, <1>3, EmptyHas DEF Sent, Replied, Handling, serverVars
<1>6. ConnInv(k)'
    <2>1. ConnInv(k)
        BY <1>0 DEF ConnsInv
    <2>2. \A m \in Messages : Out(k, m)' => m \in sent'
        BY <1>2, <1>5, <2>1 DEF ConnInv, Out
    <2>3. \A a \in Actions : Once(k, a)'
        BY <1>2, <1>3, <1>5, <2>1, EmptyHas DEF ConnInv, Once
    <2> QED  BY <1>2, <2>2, <2>3 DEF ConnInv
<1>7. \A j \in Conns \ {k} : ConnInv(j)'
    <2> SUFFICES ASSUME NEW j \in Conns \ {k} PROVE ConnInv(j)'
        OBVIOUS
    <2>1. ConnInv(j)
        BY <1>0 DEF ConnsInv
    <2> QED  BY <1>2, <1>3, <2>1, ConnStays DEF serverVars
<1>8. TabInv'
    BY <1>2 DEF TabInv
<1> QED  BY <1>4, <1>6, <1>7, <1>8 DEF IInv, ConnsInv

LEMMA StepInv == IInv /\ [Next]_vars => IInv'
<1> SUFFICES ASSUME IInv, [Next]_vars PROVE IInv'
    OBVIOUS
<1>1. CASE Connect
    BY <1>1, ConnectKeeps
<1>2. CASE Open \/ Broadcast \/ UNCHANGED vars
    BY <1>2, QuietKeeps
<1>3. CASE Receive
    BY <1>3, ReceiveKeeps
<1>4. CASE OnClose
    BY <1>4, CloseKeeps
<1>5. CASE SendAction
    BY <1>5, SendActionKeeps
<1>6. CASE SendText \/ SendForm \/ Fallback
    BY <1>6, SendInputKeeps
<1>7. ASSUME NEW k \in Conns, Accept(k) \/ Push(k) \/ Break(k) PROVE IInv'
    BY <1>7, AcceptKeeps, PushKeeps, BreakKeeps
<1>8. ASSUME NEW k \in Conns, Serve(k) PROVE IInv'
    BY <1>8, ReadKeeps, WorkEnds, RejectKeeps, HandlerEnds DEF Serve
<1> QED
    BY <1>1, <1>2, <1>3, <1>4, <1>5, <1>6, <1>7, <1>8 DEF Next

LEMMA Invariant == Spec => []IInv
BY InitInv, StepInv, PTL DEF Spec

-----------------------------------------------------------------------------
(* What the runs check, for all values of the constants.                   *)

\* Types hold for any number of connections and messages (TypeOK).
THEOREM TypeCorrect == Spec => []TypeOK
<1>1. IInv => TypeOK
    BY DEF IInv
<1> QED  BY Invariant, <1>1, PTL

\* A pending action is outstanding, or its socket is about to close (PendingHasCause).
THEOREM PendingHasCauseCorrect == Spec => []PendingHasCause
<1>1. IInv => PendingHasCause
    <2> SUFFICES ASSUME IInv, pending # None
                 PROVE  tab # None /\ (Outstanding(tab, pending) \/ link[tab] = "broken")
        BY DEF PendingHasCause
    <2>1. tab # None /\ (Out(tab, pending) \/ link[tab] = "broken")
        BY DEF IInv, TabInv
    <2>2. TypeOK /\ tab \in Conns
        BY <2>1 DEF IInv, TypeOK
    <2> QED  BY <2>1, <2>2, OutIs
<1> QED  BY Invariant, <1>1, PTL

\* Two actions are outstanding on one socket only after an answer was taken for another
\* one (OneAction).
THEOREM OneActionCorrect == Spec => []OneAction
<1>1. IInv => OneAction
    <2> SUFFICES ASSUME IInv, tab # None, ~stolen, NEW a \in Actions, NEW b \in Actions,
                        Outstanding(tab, a), Outstanding(tab, b)
                 PROVE  a = b
        BY DEF OneAction
    <2>1. TypeOK /\ tab \in Conns
        BY DEF IInv, TypeOK
    <2>2. Out(tab, a) /\ Out(tab, b)
        BY <2>1, OutIs
    <2> QED  BY <2>2 DEF IInv, TabInv
<1> QED  BY Invariant, <1>1, PTL

\* The fallback repeats no request whose answer was seen (FallbackUnseen).
THEOREM FallbackUnseenCorrect == Spec => []FallbackUnseen
<1>1. IInv => FallbackUnseen
    BY DEF IInv
<1> QED  BY Invariant, <1>1, PTL

\* The hub has the connections that are served, and no others (HubServes).
THEOREM HubServesCorrect == Spec => []HubServes
<1>1. IInv => HubServes
    BY DEF IInv
<1> QED  BY Invariant, <1>1, PTL

-----------------------------------------------------------------------------
(* At most once: an action that went out only moves on, and only the       *)
(* socket that the tab has takes a new one.                                *)

MovesOn(k, m) ==
    /\ Sent(k, m)' => Sent(k, m)
    /\ Handling(k, m)' => Sent(k, m) \/ Handling(k, m)
    /\ Replied(k, m)' => Out(k, m)

LEMMA MovesOnOut == \A k, m : MovesOn(k, m) => (Out(k, m)' => Out(k, m))
BY DEF MovesOn, Out

LEMMA LeftAlone ==
    ASSUME NEW k, up'[k] = up[k], down'[k] = down[k], server'[k] = server[k], job'[k] = job[k]
    PROVE  \A m : MovesOn(k, m)
BY DEF MovesOn, Out, Sent, Handling, Replied

LEMMA SendMoves ==
    ASSUME TypeOK, NEW m \in Messages, Send(m), UNCHANGED <<down, server, job>>
    PROVE  \A k \in Conns : \A x : MovesOn(k, x) \/ (x = m /\ k = tab)
<1> SUFFICES ASSUME NEW k \in Conns, NEW x, ~(x = m /\ k = tab) PROVE MovesOn(k, x)
    OBVIOUS
<1>1. CASE k = tab /\ tab # None /\ link[tab] = "open"
    <2>1. up[k] \in Seq(Messages) /\ up'[k] = Append(up[k], m)
        BY <1>1 DEF Send, TypeOK
    <2>2. Sent(k, x)' => Sent(k, x)
        BY <1>1, <2>1, AppendHas DEF Sent
    <2> QED  BY <2>2 DEF MovesOn, Handling, Replied, Out
<1>2. CASE ~(k = tab /\ tab # None /\ link[tab] = "open")
    <2>1. up'[k] = up[k]
        BY <1>2 DEF Send, TypeOK
    <2> QED  BY <2>1, LeftAlone
<1> QED  BY <1>1, <1>2

\* What connection k does leaves the others alone.
LEMMA OfOne ==
    ASSUME NEW k \in Conns, NEW j \in Conns, TypeOK, IInv, j # k,
           \/ Accept(k) \/ Serve(k) \/ Push(k) \/ Break(k)
    PROVE  up'[j] = up[j] /\ down'[j] = down[j] /\ server'[j] = server[j] /\ job'[j] = job[j]
BY DEF Accept, Serve, Read, Answer, Reject, Raise, Disconnect, Leave, Push, Break, Go, Deliver,
       TypeOK, serverVars

LEMMA StepMoves ==
    ASSUME IInv, [Next]_vars, NEW a \in Actions, NEW j \in Conns
    PROVE  MovesOn(j, a) \/ (a \notin sent /\ j = tab)
<1>0. TypeOK /\ a \in Messages /\ a \notin Inputs /\ a # None
    BY IdsAssumption DEF IInv, Messages
<1>1. CASE Connect \/ Open \/ Broadcast \/ UNCHANGED vars
    BY <1>1, LeftAlone DEF Connect, Open, Broadcast, vars, serverVars
<1>2. CASE SendAction
    <2>1. PICK m \in Actions : m \notin sent /\ Send(m) /\ UNCHANGED <<down, server, job>>
        BY <1>2, FreshNew DEF SendAction, serverVars
    <2> QED  BY <1>0, <2>1, SendMoves DEF Messages
<1>3. CASE SendText \/ SendForm \/ Fallback
    <2>1. PICK m \in Inputs : Send(m) /\ UNCHANGED <<down, server, job>>
        BY <1>0, <1>3, FreshNew DEF SendText, SendForm, Fallback, serverVars, TypeOK
    <2> QED  BY <1>0, <2>1, SendMoves DEF Messages
<1>4. CASE Receive \/ OnClose
    <2>1. UNCHANGED <<up, server, job>>
        BY <1>4 DEF Receive, OnClose, serverVars
    <2>2. Replied(j, a)' => Replied(j, a)
        <3>1. CASE j = tab
            <4>1. down[j] \in Seq(Frame)
                BY <1>0 DEF TypeOK
            <4>2. \/ down[j] # <<>> /\ down'[j] = Tail(down[j])
                  \/ down'[j] = <<>>
                BY <1>0, <1>4, <3>1 DEF Receive, OnClose, TypeOK
            <4> QED  BY <4>1, <4>2, TailHas, EmptyHas DEF Replied
        <3>2. CASE j # tab
            BY <1>0, <1>4, <3>2 DEF Receive, OnClose, TypeOK, Replied
        <3> QED  BY <3>1, <3>2
    <2> QED  BY <2>1, <2>2 DEF MovesOn, Sent, Handling, Out
<1>5. ASSUME NEW k \in Conns, Accept(k) \/ Serve(k) \/ Push(k) \/ Break(k)
      PROVE  MovesOn(j, a)
    <2>1. CASE j # k
        BY <1>0, <1>5, <2>1, OfOne, LeftAlone
    <2>2. CASE j = k /\ (Accept(k) \/ Disconnect(k) \/ Leave(k))
        <3>1. up'[k] = up[k] /\ down'[k] = down[k] /\ (Handling(k, a)' => Handling(k, a))
            BY <1>0, <2>2 DEF Accept, Disconnect, Leave, Go, TypeOK, Handling
        <3> QED  BY <2>2, <3>1 DEF MovesOn, Sent, Replied, Out
    <2>3. CASE j = k /\ Break(k)
        <3>1. up'[k] = <<>> /\ down'[k] = <<>> /\ UNCHANGED <<server, job>>
            BY <1>0, <2>3 DEF Break, TypeOK, serverVars
        <3> QED  BY <2>3, <3>1, EmptyHas DEF MovesOn, Sent, Replied, Handling
    <2>4. CASE j = k /\ Push(k)
        <3>1. Deliver(k, "done", None) /\ UNCHANGED <<up, server, job>>
            BY <2>4 DEF Push
        <3>2. Replied(k, a)' => Replied(k, a)
            BY <1>0, <3>1, Delivered
        <3> QED  BY <2>4, <3>1, <3>2 DEF MovesOn, Sent, Handling, Out
    <2>5. CASE j = k /\ (Answer(k) \/ Raise(k))
        <3>1. PICK kind \in {"done", "error"} : Deliver(k, kind, job[k])
            BY <2>5 DEF Answer, Raise
        <3>2. PICK x \in Messages \cup {None} : x = job[k]
            BY <1>0 DEF TypeOK
        <3>3. Replied(k, a)' => Replied(k, a) \/ a = x
            BY <1>0, <3>1, <3>2, Delivered
        <3>4. server[k] = "work" /\ up' = up /\ job'[k] = None
            BY <1>0, <2>5 DEF Answer, Raise, TypeOK
        <3> QED  BY <1>0, <2>5, <3>2, <3>3, <3>4 DEF MovesOn, Sent, Handling, Out
    <2>6. CASE j = k /\ (Read(k) \/ Reject(k))
        <3>1. PICK x : x = Head(up[k])
            OBVIOUS
        <3>2. /\ up[k] # <<>> /\ up' = [up EXCEPT ![k] = Tail(@)]
              /\ Deliver(k, "typing", x) \/ Deliver(k, "error", x)
              /\ job'[k] \in {x, job[k]} /\ (job'[k] = job[k] /\ job[k] # x => server' = server)
            BY <1>0, <2>6, <3>1 DEF Read, Reject, TypeOK
        <3>3. /\ x \in Messages
              /\ \A m : Sent(k, m) <=> Sent(k, m)' \/ m = x
            BY <1>0, <3>1, <3>2, Taken
        <3>4. Replied(k, a)' => Replied(k, a) \/ a = x
            BY <1>0, <3>2, <3>3, Delivered
        <3> QED  BY <2>6, <3>2, <3>3, <3>4 DEF MovesOn, Handling, Out
    <2> QED  BY <1>5, <2>1, <2>2, <2>3, <2>4, <2>5, <2>6 DEF Serve
<1> QED  BY <1>1, <1>2, <1>3, <1>4, <1>5 DEF Next

\* An action is on one connection.
OnOne == \A a \in Actions, j \in Conns, k \in Conns : Out(j, a) /\ Out(k, a) => j = k

LEMMA OnOneInit == Init => OnOne
<1> SUFFICES ASSUME Init, NEW a \in Actions, NEW j \in Conns PROVE ~Out(j, a)
    BY DEF OnOne
<1>1. ConnInv(j) /\ a \notin sent
    BY InitInv DEF IInv, ConnsInv, Init
<1> QED  BY <1>1 DEF ConnInv, Messages

LEMMA OnOneNext == IInv /\ OnOne /\ [Next]_vars => OnOne'
<1> SUFFICES ASSUME IInv, OnOne, [Next]_vars, NEW a \in Actions, NEW j \in Conns, NEW k \in Conns,
                    Out(j, a)', Out(k, a)'
             PROVE  j = k
    BY DEF OnOne
<1>1. CASE a \in sent
    BY <1>1, StepMoves, MovesOnOut DEF OnOne
<1>2. CASE a \notin sent
    <2>1. ~Out(j, a) /\ ~Out(k, a)
        BY <1>2 DEF IInv, ConnsInv, ConnInv, Messages
    <2>2. j = tab /\ k = tab
        BY <2>1, StepMoves, MovesOnOut
    <2> QED  BY <2>2
<1> QED  BY <1>1, <1>2

LEMMA CopiesOut ==
    ASSUME TypeOK, NEW k \in Conns, NEW a \in Actions, ConnInv(k)
    PROVE  /\ \A p \in Copies(k, a) : Out(k, a)
           /\ \A p, q \in Copies(k, a) : p = q
<1>1. Once(k, a)
    BY DEF ConnInv
<1>2. \A i \in DOMAIN down[k] : down[k][i] \in Frame
    BY DEF TypeOK
<1> DEFINE U == {i \in DOMAIN up[k] : up[k][i] = a}
           D == {i \in DOMAIN down[k] : down[k][i].to = a /\ down[k][i].kind # "typing"}
<1>3. /\ \A i \in U : Sent(k, a)
      /\ \A i, j \in U : i = j
    BY <1>1 DEF Once, Single, Sent, Has
<1>4. /\ \A i \in D : Replied(k, a)
      /\ \A i, j \in D : i = j
    BY <1>1, <1>2 DEF Once, Single, Replied, Has, AnswersTo
<1>5. Copies(k, a) = {<<"up", i>> : i \in U} \cup {<<"job", 0>> : j \in {j \in {a} : Handling(k, j)}}
                     \cup {<<"down", i>> : i \in D}
    BY DEF Copies
<1> HIDE DEF U, D
<1>6. \A p \in Copies(k, a) :
          \/ Sent(k, a) /\ \E i \in U : p = <<"up", i>>
          \/ Handling(k, a) /\ p = <<"job", 0>>
          \/ Replied(k, a) /\ \E i \in D : p = <<"down", i>>
    BY <1>3, <1>4, <1>5
<1>7. \A p \in Copies(k, a) : Out(k, a)
    BY <1>6 DEF Out
<1>8. \A p, q \in Copies(k, a) : p = q
    BY <1>1, <1>3, <1>4, <1>6 DEF Once
<1> QED  BY <1>7, <1>8

LEMMA OneCopyOf == IInv /\ OnOne => OneCopy
<1> SUFFICES ASSUME IInv, OnOne, NEW a \in Actions, NEW j \in Conns, NEW k \in Conns,
                    NEW p \in Copies(j, a), NEW q \in Copies(k, a)
             PROVE  j = k /\ p = q
    BY DEF OneCopy
<1>1. TypeOK /\ ConnInv(j) /\ ConnInv(k)
    BY DEF IInv, ConnsInv
<1>2. j = k
    BY <1>1, CopiesOut DEF OnOne
<1> QED  BY <1>1, <1>2, CopiesOut

\* A click has one copy at most, over all the connections of the tab, and moves from the
\* queue to the handler to its answer and nowhere else: lost or handled, it is never
\* handled again (sendDraftAction, sendReviewAction, chat_ws).
THEOREM ActionOnceCorrect == Spec => ActionOnce
<1>1. IInv /\ OnOne /\ [Next]_vars => OneCopy'
    BY OneCopyOf, OnOneNext, StepInv, PTL
<1>2. IInv /\ OnOne /\ [Next]_vars =>
        [/\ OneCopy'
         /\ \A a \in Actions \cap sent, k \in Conns :
              LET queued == \E i \in DOMAIN up[k] : up[k][i] = a IN
              /\ queued' => queued
              /\ Handling(k, a)' => queued \/ Handling(k, a)
              /\ Answered(k, a)' => Outstanding(k, a)]_vars
    <2> SUFFICES ASSUME IInv, OnOne, [Next]_vars, NEW a \in Actions \cap sent, NEW k \in Conns
                 PROVE  LET queued == \E i \in DOMAIN up[k] : up[k][i] = a IN
                        /\ queued' => queued
                        /\ Handling(k, a)' => queued \/ Handling(k, a)
                        /\ Answered(k, a)' => Outstanding(k, a)
        BY <1>1
    <2>1. TypeOK /\ TypeOK'
        BY StepInv DEF IInv
    <2>2. MovesOn(k, a)
        BY StepMoves
    <2>3. Sent(k, a) <=> \E i \in DOMAIN up[k] : up[k][i] = a
        BY DEF Sent, Has
    <2>4. Sent(k, a)' <=> \E i \in DOMAIN up'[k] : up'[k][i] = a
        BY DEF Sent, Has
    <2>5. Answered(k, a)' => Replied(k, a)'
        <3>1. \A i \in DOMAIN down'[k] : down'[k][i] \in Frame
            BY <2>1 DEF TypeOK
        <3> QED  BY <3>1 DEF Answered, Replied, Has, AnswersTo
    <2>6. Out(k, a) => Outstanding(k, a)
        BY <2>1, OutIs
    <2> QED  BY <2>2, <2>3, <2>4, <2>5, <2>6 DEF MovesOn
<1> QED  BY Invariant, OnOneInit, OnOneNext, <1>2, PTL DEF Spec, ActionOnce
=============================================================================
