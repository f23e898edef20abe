------------------------ MODULE TelegramAdapterProofs ------------------------
(***************************************************************************)
(* Proofs about TelegramAdapter, for any number of notices, people and     *)
(* retries, any capacity of the registry and any number of restarts.       *)
(*                                                                         *)
(* The argument about the loops: the thread works on loop Mine, the ones   *)
(* before it are closed and the ones after it do not exist.  A sender that *)
(* read a loop and then an application may hold an old loop, but then that *)
(* loop is closed, and the check refuses it.  An update reads them in the  *)
(* other order, but only in webhook mode, which has one of each.           *)
(***************************************************************************)
EXTENDS TelegramAdapter, FiniteSetTheorems, TLAPS

FiniteSets == IsFiniteSet(known) /\ IsFiniteSet(stored) /\ IsFiniteSet(upserts)

ThreadInv ==
    /\ \A g \in Loops : (g > Mine => life[g] = "unborn") /\ (g < Mine => life[g] = "closed")
    /\ thread \in {"none", "begin"} => life[Mine] = "unborn"
    /\ thread = "start" => life[Mine] = "created"
    /\ thread = "run" => life[Mine] = "running"
    /\ thread = "finally" => life[Mine] = "stopped"
    /\ thread = "closing" => life[Mine] = "draining"
    /\ thread \in {"sleep", "done"} => life[Mine] = "closed"
    /\ app = IF thread = "none" THEN 0 ELSE Mine
    /\ loop = IF thread \in {"start", "run", "finally"} THEN Mine ELSE 0
    /\ thread = "none" => attempt = 0 /\ tries = 0
    /\ thread = "sleep" => attempt < Retries
    /\ \A g \in Loops : life[g] \notin {"unborn", "created"} => driver[g] = g
    /\ mode = "webhook" => attempt = 0 /\ ~conflict /\ thread \notin {"begin", "sleep"}
    /\ hook = "init" => tries < WebhookTries

\* Sender n holds no loop that was never made, and no pair that the check would let pass
\* and that does not belong together.
SenderInv(n) ==
    pc[n] \in Reading =>
        /\ at[n].loop # 0 => life[at[n].loop] # "unborn"
        /\ at[n].kind = "update" => mode = "webhook"
        /\ at[n].app <= app
        /\ pc[n] = "check" /\ at[n].loop # 0 /\ at[n].app # 0 =>
                at[n].app = at[n].loop \/ life[at[n].loop] = "closed"
        /\ pc[n] \in {"submit", "queued"} =>
                /\ at[n].loop # 0 /\ at[n].app = at[n].loop
                /\ life[at[n].loop] \notin {"unborn", "created"}

SendersInv == \A n \in Notices : SenderInv(n)

IInv == TypeOK /\ FiniteSets /\ ThreadInv /\ SendersInv /\ Reachable /\ Remembered

-----------------------------------------------------------------------------
(* The registry.                                                           *)

LEMMA SenderSets ==
    ASSUME NEW K \in Senders
    PROVE  K \subseteq Keys /\ IsFiniteSet(K)
BY SendersAssumption

LEMMA UnionFinite ==
    ASSUME NEW S, IsFiniteSet(S), NEW T, IsFiniteSet(T), NEW M \in SUBSET (S \cup T)
    PROVE  IsFiniteSet(M)
<1>1. IsFiniteSet(S \cup T)
    BY FS_Union
<1> QED  BY <1>1, FS_Subset

\* Memory that was full is full again, or holds all that it should.
LEMMA FitsFull ==
    ASSUME NEW S, IsFiniteSet(S), Cardinality(S) = Capacity,
           NEW T, IsFiniteSet(T), NEW M, Fits(M, S \cup T)
    PROVE  Cardinality(M) = Capacity
<1>1. CASE M = S \cup T
    <2>1. IsFiniteSet(M)
        BY <1>1, UnionFinite
    <2>2. Cardinality(S) <= Cardinality(M)
        BY <1>1, <2>1, FS_Subset
    <2>3. Cardinality(M) \in Nat
        BY <2>1, FS_CardinalityType
    <2>4. Cardinality(M) <= Capacity
        BY DEF Fits
    <2> QED  BY <2>2, <2>3, <2>4, SendersAssumption
<1>2. CASE Cardinality(M) = Capacity
    BY <1>2
<1> QED  BY <1>1, <1>2 DEF Fits

\* A person is registered; keys may also be none at all.
LEMMA RegisterKeeps ==
    ASSUME TypeOK, FiniteSets, Reachable, Remembered,
           NEW K \in Senders \cup {{}}, RegisterUser(K)
    PROVE  /\ known' \subseteq Keys /\ stored' \subseteq Keys /\ upserts' \subseteq Keys
           /\ wrote' \subseteq Keys /\ Cardinality(known') <= Capacity
           /\ FiniteSets' /\ Reachable' /\ Remembered'
<1>1. K \subseteq Keys /\ IsFiniteSet(K)
    BY SenderSets, FS_EmptySet
<1>2. Fits(known', known \cup K)
    BY DEF RegisterUser
<1>3. IsFiniteSet(known')
    BY <1>1, <1>2, UnionFinite DEF Fits, FiniteSets
<1>4. IsFiniteSet(upserts')
    <2>1. upserts' \subseteq upserts \cup K
        BY DEF RegisterUser
    <2> QED  BY <1>1, <2>1, UnionFinite DEF FiniteSets
<1>5. stored' = stored /\ wrote' = wrote \cup K /\ upserts' = upserts \cup (K \ known)
    BY DEF RegisterUser
<1>6. Reachable'
    <2>1. CASE known' = known \cup K /\ wrote \subseteq known
        BY <1>5, <2>1 DEF Reachable
    <2>2. CASE known' = known \cup K /\ Cardinality(known) = Capacity
        <3>1. Cardinality(known') = Capacity
            BY <1>1, <1>2, <2>2, FitsFull DEF FiniteSets
        <3> QED  BY <3>1 DEF Reachable
    <2>3. CASE Cardinality(known') = Capacity
        BY <2>3 DEF Reachable
    <2> QED  BY <1>2, <2>1, <2>2, <2>3 DEF Fits, Reachable
<1>7. Remembered'
    BY <1>2, <1>5 DEF Fits, Remembered
<1>8. FiniteSets'
    BY <1>3, <1>4, <1>5 DEF FiniteSets
<1> QED
    BY <1>1, <1>2, <1>5, <1>6, <1>7, <1>8 DEF Fits, TypeOK

-----------------------------------------------------------------------------
(* The invariant.                                                          *)

LEMMA LoopsNat == Retries \in Nat /\ Loops \subseteq Nat \ {0} /\ 1 \in Loops
BY RetriesAssumption DEF Loops

LEMMA InitInv == Init => IInv
<1> SUFFICES ASSUME Init PROVE IInv
    OBVIOUS
<1> USE DEF Init, Idle
<1>1. TypeOK
    <2>1. Cardinality(known) <= Capacity
        BY FS_EmptySet, SendersAssumption
    <2>2. Blank \in Notice
        BY DEF Blank, Notice
    <2>3. 0 \in 0 .. Retries /\ 0 \in 0 .. WebhookTries /\ 0 \in 0 .. MaxRestarts
        BY RetriesAssumption DEF WebhookTries
    <2>4. pc \in [Notices -> {"idle"} \cup Reading \cup Ended] /\ at \in [Notices -> Notice]
        BY <2>2
    <2>5. life \in [Loops -> {"unborn", "created", "running", "stopped", "draining", "closed"}]
          /\ driver \in [Loops -> {0} \cup Loops]
        OBVIOUS
    <2> QED  BY <2>1, <2>3, <2>4, <2>5 DEF TypeOK
<1>2. FiniteSets
    BY FS_EmptySet DEF FiniteSets
<1>3. ThreadInv
    BY LoopsNat DEF ThreadInv, Mine, WebhookTries
<1>4. SendersInv
    BY DEF SendersInv, SenderInv, Reading
<1> QED
    BY <1>1, <1>2, <1>3, <1>4 DEF IInv, Reachable, Remembered

\* What senders have read stays as good when loops go on in their lives.
LEMMA SendersStay ==
    ASSUME TypeOK, SendersInv, mode' = mode, at' = at, app <= app', TypeOK',
           \A n \in Notices : pc'[n] \in Reading => pc'[n] = pc[n],
           \A g \in Loops :
               /\ life[g] # "unborn" => life'[g] # "unborn"
               /\ life[g] = "closed" => life'[g] = "closed"
               /\ life[g] \notin {"unborn", "created"} => life'[g] \notin {"unborn", "created"}
    PROVE  SendersInv'
<1> SUFFICES ASSUME NEW n \in Notices, pc'[n] \in Reading PROVE SenderInv(n)'
    BY DEF SendersInv, SenderInv
<1>1. SenderInv(n) /\ pc'[n] = pc[n]
    BY DEF SendersInv
<1>2. at[n].loop \in {0} \cup Loops /\ at[n].app \in {0} \cup Loops
    BY DEF TypeOK, Notice
<1>3. app \in {0} \cup Loops /\ app' \in {0} \cup Loops
    BY DEF TypeOK
<1>4. pc[n] \in Reading /\ pc'[n] = pc[n] /\ at'[n] = at[n] /\ mode' = mode
    BY <1>1
<1> DEFINE g == at[n].loop
<1>5. /\ g # 0 => life[g] # "unborn"
      /\ at[n].kind = "update" => mode = "webhook"
      /\ at[n].app <= app
      /\ pc[n] = "check" /\ g # 0 /\ at[n].app # 0 => at[n].app = g \/ life[g] = "closed"
      /\ pc[n] \in {"submit", "queued"} =>
            g # 0 /\ at[n].app = g /\ life[g] \notin {"unborn", "created"}
    BY <1>1, <1>4 DEF SenderInv
<1>6. at[n].app <= app'
    <2>1. \A x \in {0} \cup Loops : x \in Nat
        BY LoopsNat
    <2>2. at[n].app \in Nat /\ app \in Nat /\ app' \in Nat
        BY <1>2, <1>3, <2>1
    <2> QED  BY <1>5, <2>2
<1>7. g # 0 => /\ life[g] # "unborn" => life'[g] # "unborn"
               /\ life[g] = "closed" => life'[g] = "closed"
               /\ life[g] \notin {"unborn", "created"} => life'[g] \notin {"unborn", "created"}
    BY <1>2
<1> HIDE DEF g
<1>8. /\ g # 0 => life'[g] # "unborn"
      /\ pc[n] = "check" /\ g # 0 /\ at[n].app # 0 => at[n].app = g \/ life'[g] = "closed"
      /\ pc[n] \in {"submit", "queued"} =>
            g # 0 /\ at[n].app = g /\ life'[g] \notin {"unborn", "created"}
    BY <1>5, <1>7
<1> QED  BY <1>4, <1>5, <1>6, <1>8 DEF SenderInv, g

\* Nothing but one sender moves.
LEMMA OneSender ==
    ASSUME TypeOK, SendersInv, NEW n \in Notices, SenderInv(n)',
           UNCHANGED <<threadVars, outside>>,
           \A x \in Notices \ {n} : pc'[x] = pc[x] /\ at'[x] = at[x]
    PROVE  SendersInv'
<1> SUFFICES ASSUME NEW x \in Notices \ {n} PROVE SenderInv(x)'
    BY DEF SendersInv
<1>1. SenderInv(x)
    BY DEF SendersInv
<1>2. pc'[x] = pc[x] /\ at'[x] = at[x] /\ mode' = mode /\ app' = app /\ life' = life
    BY DEF threadVars, outside
<1> QED  BY <1>1, <1>2 DEF SenderInv

\* The registry is left alone.
LEMMA RegistryStays ==
    ASSUME FiniteSets, Reachable, Remembered, UNCHANGED registryVars
    PROVE  FiniteSets' /\ Reachable' /\ Remembered'
BY DEF FiniteSets, Reachable, Remembered, registryVars

\* The steps of the thread.
LEMMA ThreadKeeps ==
    ASSUME IInv, Start \/ Thread \/ Halted \/ Stop
    PROVE  IInv'
<1>0. TypeOK /\ FiniteSets /\ ThreadInv /\ SendersInv /\ Reachable /\ Remembered
    BY DEF IInv
<1> USE DEF Mine, threadVars, hookVars, noticeVars, registryVars, outside
<1>a. attempt \in Nat /\ Mine \in Loops /\ Mine \in Nat
    BY <1>0, LoopsNat DEF TypeOK, Loops
<1>1. TypeOK'
    <2>1. CASE StartPolling /\ UNCHANGED <<hookVars, noticeVars, registryVars, outside>>
        BY <1>0, <2>1, LoopsNat DEF TypeOK, StartPolling
    <2>2. CASE StartWebhook /\ hook' = "init"
               /\ UNCHANGED <<tries, noticeVars, registryVars, outside>>
        BY <1>0, <2>2, LoopsNat DEF TypeOK, StartWebhook
    <2>3. CASE Begin /\ UNCHANGED <<hookVars, noticeVars, registryVars, outside>>
        BY <1>0, <1>a, <2>3 DEF TypeOK, Begin
    <2>4. CASE Run /\ UNCHANGED <<hookVars, noticeVars, registryVars, outside>>
        BY <1>0, <1>a, <2>4 DEF TypeOK, Run
    <2>5. CASE Clear /\ UNCHANGED <<hookVars, noticeVars, registryVars, outside>>
        BY <1>0, <1>a, <2>5 DEF TypeOK, Clear
    <2>6. CASE Rebuild /\ UNCHANGED <<hookVars, noticeVars, registryVars, outside>>
        BY <1>0, <1>a, <2>6, LoopsNat DEF TypeOK, Rebuild, ThreadInv, Loops
    <2>7. CASE Close /\ UNCHANGED <<hookVars, at, registryVars, outside>>
        BY <1>0, <1>a, <2>7 DEF TypeOK, Close, Ended
    <2>8. CASE Halted
        BY <1>0, <1>a, <2>8 DEF TypeOK, Halted, Conflict, End, Halt
    <2>9. CASE Stop
        BY <1>0, <1>a, <2>9 DEF TypeOK, Stop, Halt
    <2> QED  BY <2>1, <2>2, <2>3, <2>4, <2>5, <2>6, <2>7, <2>8, <2>9 DEF Start, Thread
<1>2. ThreadInv'
    <2>1. CASE StartPolling /\ UNCHANGED <<hookVars, noticeVars, registryVars, outside>>
        BY <1>0, <1>a, <2>1, LoopsNat DEF TypeOK, StartPolling, ThreadInv
    <2>2. CASE StartWebhook /\ hook' = "init"
               /\ UNCHANGED <<tries, noticeVars, registryVars, outside>>
        BY <1>0, <1>a, <2>2, LoopsNat DEF TypeOK, StartWebhook, ThreadInv, WebhookTries
    <2>3. CASE Begin /\ UNCHANGED <<hookVars, noticeVars, registryVars, outside>>
        BY <1>0, <1>a, <2>3, LoopsNat DEF TypeOK, Begin, ThreadInv
    <2>4. CASE Run /\ UNCHANGED <<hookVars, noticeVars, registryVars, outside>>
        BY <1>0, <1>a, <2>4, LoopsNat DEF TypeOK, Run, ThreadInv
    <2>5. CASE Clear /\ UNCHANGED <<hookVars, noticeVars, registryVars, outside>>
        BY <1>0, <1>a, <2>5, LoopsNat DEF TypeOK, Clear, ThreadInv
    <2>6. CASE Rebuild /\ UNCHANGED <<hookVars, noticeVars, registryVars, outside>>
        BY <1>0, <1>a, <1>1, <2>6, LoopsNat DEF TypeOK, Rebuild, ThreadInv, Loops
    <2>7. CASE Close /\ UNCHANGED <<hookVars, at, registryVars, outside>>
        BY <1>0, <1>a, <2>7, LoopsNat DEF TypeOK, Close, ThreadInv
    <2>8. CASE Halted
        BY <1>0, <1>a, <2>8, LoopsNat DEF TypeOK, Halted, Conflict, End, Halt, ThreadInv
    <2>9. CASE Stop
        BY <1>0, <1>a, <2>9, LoopsNat DEF TypeOK, Stop, Halt, ThreadInv
    <2> QED  BY <2>1, <2>2, <2>3, <2>4, <2>5, <2>6, <2>7, <2>8, <2>9 DEF Start, Thread
<1>3. \A g \in Loops :
          /\ life[g] # "unborn" => life'[g] # "unborn"
          /\ life[g] = "closed" => life'[g] = "closed"
          /\ life[g] \notin {"unborn", "created"} => life'[g] \notin {"unborn", "created"}
    BY <1>0, <1>a, LoopsNat
       DEF Start, Thread, Halted, Stop, StartPolling, StartWebhook, Begin, Run, Clear,
           Rebuild, Close, Conflict, End, Halt, ThreadInv, TypeOK
<1>4. app <= app'
    BY <1>0, <1>a, LoopsNat
       DEF Start, Thread, Halted, Stop, StartPolling, StartWebhook, Begin, Run, Clear,
           Rebuild, Close, Conflict, End, Halt, ThreadInv, TypeOK
<1>5. \A n \in Notices : pc'[n] \in Reading => pc'[n] = pc[n]
    BY <1>0 DEF Start, Thread, Halted, Stop, Close, Reading, TypeOK
<1>6. mode' = mode /\ at' = at /\ UNCHANGED registryVars
    BY DEF Start, Thread, Halted, Stop
<1>7. SendersInv'
    BY <1>0, <1>1, <1>3, <1>4, <1>5, <1>6, SendersStay
<1>8. FiniteSets' /\ Reachable' /\ Remembered'
    BY <1>0, <1>6, RegistryStays
<1> QED  BY <1>1, <1>2, <1>7, <1>8 DEF IInv

\* A step of one sender that does not deliver.
LEMMA SenderKeeps ==
    ASSUME IInv, NEW n \in Notices, NEW p \in {"idle"} \cup Reading \cup Ended, NEW r \in Notice,
           pc' = [pc EXCEPT ![n] = p], at' = [at EXCEPT ![n] = r],
           UNCHANGED <<threadVars, hookVars, registryVars, outside>>, SenderInv(n)'
    PROVE  IInv'
<1>0. TypeOK /\ FiniteSets /\ ThreadInv /\ SendersInv /\ Reachable /\ Remembered
    BY DEF IInv
<1>1. TypeOK'
    BY <1>0 DEF TypeOK, threadVars, hookVars, registryVars, outside
<1>2. ThreadInv'
    BY <1>0 DEF ThreadInv, Mine, threadVars, hookVars, outside
<1>3. SendersInv'
    <2>1. \A x \in Notices \ {n} : pc'[x] = pc[x] /\ at'[x] = at[x]
        BY <1>0 DEF TypeOK
    <2> QED  BY <1>0, <2>1, OneSender
<1>4. FiniteSets' /\ Reachable' /\ Remembered'
    BY <1>0, RegistryStays
<1> QED  BY <1>1, <1>2, <1>3, <1>4 DEF IInv

LEMMA NoticeType ==
    ASSUME TypeOK, NEW n \in Notices
    PROVE  /\ at[n] \in Notice /\ at[n].loop \in {0} \cup Loops /\ at[n].app \in {0} \cup Loops
           /\ pc[n] \in {"idle"} \cup Reading \cup Ended
           /\ at = [at EXCEPT ![n] = at[n]]
BY DEF TypeOK, Notice

LEMMA RaisedKeeps ==
    ASSUME IInv, NEW n \in Notices, NEW kind \in {"message", "update"},
           NEW K \in Senders \cup {{}}, Raised(n, kind, K), kind = "update" => mode = "webhook"
    PROVE  IInv'
<1> DEFINE r == [Blank EXCEPT !.kind = kind, !.keys = K]
<1>1. /\ r \in Notice /\ r.loop = 0 /\ r.app = 0 /\ r.kind = kind
    BY DEF Blank, Notice
<1> HIDE DEF r
<1>2. pc' = [pc EXCEPT ![n] = First(kind)] /\ at' = [at EXCEPT ![n] = r]
      /\ UNCHANGED <<threadVars, hookVars, registryVars, outside>>
    BY DEF Raised, SenderStep, r
<1>3. First(kind) \in {"loop", "app"}
    BY DEF First
<1>4. app \in {0} \cup Loops
    BY DEF IInv, TypeOK
<1>5. SenderInv(n)'
    <2>1. pc'[n] = First(kind) /\ at'[n] = r /\ app' = app /\ mode' = mode
        BY <1>2 DEF IInv, TypeOK, threadVars, outside
    <2>2. 0 <= app
        BY <1>4, LoopsNat
    <2> QED  BY <1>1, <1>3, <2>1, <2>2 DEF SenderInv
<1> QED
    BY <1>1, <1>2, <1>3, <1>5, SenderKeeps DEF Reading

LEMMA ReadLoopKeeps ==
    ASSUME IInv, NEW n \in Notices, ReadLoop(n)
    PROVE  IInv'
<1>0. TypeOK /\ ThreadInv /\ SenderInv(n)
    BY DEF IInv, SendersInv
<1> DEFINE r == [at[n] EXCEPT !.loop = loop]
           p == IF First(at[n].kind) = "loop" THEN "app" ELSE "check"
<1>1. /\ r \in Notice /\ r.loop = loop /\ r.app = at[n].app /\ r.kind = at[n].kind
    BY <1>0, NoticeType DEF Notice, TypeOK
<1>2. p \in {"app", "check"} /\ (p = "check" => at[n].kind = "update")
    BY <1>0, NoticeType DEF First, Notice
<1>3. pc' = [pc EXCEPT ![n] = p] /\ at' = [at EXCEPT ![n] = r] /\ pc[n] = "loop"
      /\ UNCHANGED <<threadVars, hookVars, registryVars, outside>>
    BY DEF ReadLoop, SenderStep
<1> HIDE DEF r, p
<1>4. /\ at[n].kind = "update" => mode = "webhook"
      /\ at[n].app <= app
    BY <1>0, <1>3 DEF SenderInv, Reading
<1>5. loop # 0 => life[loop] # "unborn"
    BY <1>0, LoopsNat DEF ThreadInv
<1>6. mode = "webhook" /\ loop # 0 /\ at[n].app # 0 => at[n].app = loop
    <2>1. mode = "webhook" /\ loop # 0 => loop = 1 /\ app = 1
        BY <1>0 DEF ThreadInv, Mine
    <2>2. at[n].app \in Nat
        BY <1>0, NoticeType, LoopsNat
    <2> QED  BY <1>4, <2>1, <2>2
<1>7. SenderInv(n)'
    <2>1. pc'[n] = p /\ at'[n] = r /\ app' = app /\ mode' = mode /\ life' = life
        BY <1>0, <1>3 DEF TypeOK, threadVars, outside
    <2> QED  BY <1>1, <1>2, <1>4, <1>5, <1>6, <2>1 DEF SenderInv
<1> QED
    BY <1>1, <1>2, <1>3, <1>7, SenderKeeps DEF Reading

LEMMA ReadAppKeeps ==
    ASSUME IInv, NEW n \in Notices, ReadApp(n)
    PROVE  IInv'
<1>0. TypeOK /\ ThreadInv /\ SenderInv(n)
    BY DEF IInv, SendersInv
<1> DEFINE r == [at[n] EXCEPT !.app = app]
           p == IF First(at[n].kind) = "loop" THEN "check" ELSE "loop"
<1>1. /\ r \in Notice /\ r.app = app /\ r.loop = at[n].loop /\ r.kind = at[n].kind
    BY <1>0, NoticeType DEF Notice, TypeOK
<1>2. p \in {"loop", "check"}
    OBVIOUS
<1>3. pc' = [pc EXCEPT ![n] = p] /\ at' = [at EXCEPT ![n] = r] /\ pc[n] = "app"
      /\ UNCHANGED <<threadVars, hookVars, registryVars, outside>>
    BY DEF ReadApp, SenderStep
<1> HIDE DEF r, p
<1>4. /\ at[n].kind = "update" => mode = "webhook"
      /\ at[n].loop # 0 => life[at[n].loop] # "unborn"
    BY <1>0, <1>3 DEF SenderInv, Reading
<1>5. app \in Nat /\ app <= app
    BY <1>0, LoopsNat DEF TypeOK
<1>6. at[n].loop # 0 /\ app # 0 => app = at[n].loop \/ life[at[n].loop] = "closed"
    <2> SUFFICES ASSUME at[n].loop # 0, app # 0, life[at[n].loop] # "closed"
                 PROVE  app = at[n].loop
        OBVIOUS
    <2>1. at[n].loop \in Loops /\ at[n].loop \in Nat
        BY <1>0, NoticeType, LoopsNat
    <2>2. app = Mine /\ Mine \in Nat
        BY <1>0, <1>5 DEF ThreadInv
    <2>3. ~(at[n].loop > Mine) /\ ~(at[n].loop < Mine)
        BY <1>0, <1>4, <2>1 DEF ThreadInv
    <2> QED  BY <2>1, <2>2, <2>3
<1>7. SenderInv(n)'
    <2>1. pc'[n] = p /\ at'[n] = r /\ app' = app /\ mode' = mode /\ life' = life
        BY <1>0, <1>3 DEF TypeOK, threadVars, outside
    <2> QED  BY <1>1, <1>2, <1>4, <1>5, <1>6, <2>1 DEF SenderInv
<1> QED
    BY <1>1, <1>2, <1>3, <1>7, SenderKeeps DEF Reading

\* Steps after which the sender has what it had before.
LEMMA MovesOn ==
    ASSUME IInv, NEW n \in Notices, NEW p \in {"submit", "queued"} \cup Ended,
           SenderStep(n, p), UNCHANGED at,
           \/ p \in Ended
           \/ pc[n] = "check" /\ at[n].loop # 0 /\ at[n].app # 0 /\ Runs(at[n].loop)
           \/ pc[n] = "submit"
    PROVE  IInv'
<1>0. TypeOK /\ SenderInv(n)
    BY DEF IInv, SendersInv
<1>1. pc' = [pc EXCEPT ![n] = p] /\ at' = [at EXCEPT ![n] = at[n]]
      /\ UNCHANGED <<threadVars, hookVars, registryVars, outside>>
    BY <1>0, NoticeType DEF SenderStep
<1>2. pc'[n] = p /\ at'[n] = at[n] /\ app' = app /\ mode' = mode /\ life' = life
    BY <1>0, <1>1 DEF TypeOK, threadVars, outside
<1>3. SenderInv(n)'
    <2>1. CASE p \in Ended
        BY <1>2, <2>1 DEF SenderInv, Reading, Ended
    <2>2. CASE pc[n] = "check" /\ at[n].loop # 0 /\ at[n].app # 0 /\ Runs(at[n].loop)
        BY <1>0, <1>2, <2>2 DEF SenderInv, Reading, Runs
    <2>3. CASE pc[n] = "submit"
        BY <1>0, <1>2, <2>3 DEF SenderInv, Reading
    <2> QED  BY <2>1, <2>2, <2>3
<1> QED
    BY <1>0, <1>1, <1>3, NoticeType, SenderKeeps DEF Reading

\* A person is registered by a step that ends at most one sender.
LEMMA RegisterStep ==
    ASSUME IInv, NEW K \in Senders \cup {{}}, RegisterUser(K), UNCHANGED at,
           UNCHANGED <<threadVars, hookVars, outside>>,
           \/ pc' = pc
           \/ \E n \in Notices : pc' = [pc EXCEPT ![n] = "sent"]
    PROVE  IInv'
<1>0. TypeOK /\ FiniteSets /\ ThreadInv /\ SendersInv /\ Reachable /\ Remembered
    BY DEF IInv
<1>1. /\ known' \subseteq Keys /\ stored' \subseteq Keys /\ upserts' \subseteq Keys
      /\ wrote' \subseteq Keys /\ Cardinality(known') <= Capacity
      /\ FiniteSets' /\ Reachable' /\ Remembered'
    BY <1>0, RegisterKeeps
<1>2. pc' \in [Notices -> {"idle"} \cup Reading \cup Ended]
    BY <1>0 DEF TypeOK, Ended
<1>3. TypeOK'
    BY <1>0, <1>1, <1>2 DEF TypeOK, threadVars, hookVars, outside
<1>4. ThreadInv'
    BY <1>0 DEF ThreadInv, Mine, threadVars, hookVars, outside
<1>5. SendersInv'
    <2>1. \A n \in Notices : pc'[n] \in Reading => pc'[n] = pc[n]
        BY <1>0 DEF TypeOK, Reading
    <2>2. app' = app /\ life' = life /\ mode' = mode /\ app \in {0} \cup Loops
        BY <1>0 DEF threadVars, outside, TypeOK
    <2>3. app <= app'
        BY <2>2, LoopsNat
    <2> QED  BY <1>0, <1>3, <2>1, <2>2, <2>3, SendersStay
<1> QED  BY <1>1, <1>3, <1>4, <1>5 DEF IInv

LEMMA RestartKeeps == ASSUME IInv, Restart PROVE IInv'
<1>0. TypeOK /\ FiniteSets
    BY DEF IInv
<1>1. known' \subseteq stored /\ (known' = {} \/ Fits(known', stored))
    BY DEF Restart
<1>2. IsFiniteSet(known') /\ Cardinality(known') <= Capacity
    <2>1. CASE known' = {}
        BY <2>1, FS_EmptySet, SendersAssumption
    <2>2. CASE Fits(known', stored)
        <3>1. IsFiniteSet(known')
            BY <1>0, <1>1, FS_Subset DEF FiniteSets
        <3> QED  BY <2>2, <3>1 DEF Fits
    <2> QED  BY <1>1, <2>1, <2>2
<1>3. FiniteSets'
    BY <1>0, <1>2, FS_EmptySet DEF FiniteSets, Restart
<1>4. \A n \in Notices : pc'[n] \notin Reading
    BY DEF Restart, Reading
<1>5. TypeOK'
    <2>1. Blank \in Notice
        BY DEF Blank, Notice
    <2>2. pc' \in [Notices -> {"idle"} \cup Reading \cup Ended] /\ at' \in [Notices -> Notice]
        BY <1>0, <2>1 DEF Restart, TypeOK, Ended
    <2>3. 0 \in 0 .. Retries /\ 0 \in 0 .. WebhookTries /\ restarts' \in 0 .. MaxRestarts
        BY <1>0, RetriesAssumption DEF WebhookTries, Restart, TypeOK
    <2> QED  BY <1>0, <1>1, <1>2, <2>2, <2>3 DEF Restart, TypeOK
<1>6. ThreadInv'
    BY LoopsNat DEF Restart, ThreadInv, Mine, WebhookTries
<1>7. SendersInv'
    BY <1>4 DEF SendersInv, SenderInv
<1>8. Reachable' /\ Remembered'
    BY <1>1 DEF Restart, Reachable, Remembered
<1> QED  BY <1>3, <1>5, <1>6, <1>7, <1>8 DEF IInv

\* The table and the threads that write to it; the webhook; the older instance.
LEMMA OtherKeeps ==
    ASSUME IInv, UNCHANGED <<threadVars, noticeVars, mode, restarts, known, wrote>>,
           \/ SetWebhook \/ RivalEnds
           \/ \E k \in Keys : Upsert(k) \/ RivalUpsert(k)
           \/ UNCHANGED vars
    PROVE  IInv'
<1>0. TypeOK /\ FiniteSets /\ ThreadInv /\ SendersInv /\ Reachable /\ Remembered
    BY DEF IInv
<1> USE DEF threadVars, hookVars, noticeVars, registryVars, outside
<1>1. TypeOK'
    <2>1. CASE SetWebhook
        BY <1>0, <2>1 DEF TypeOK, SetWebhook, ThreadInv, WebhookTries
    <2>2. CASE RivalEnds
        BY <1>0, <2>2 DEF TypeOK, RivalEnds
    <2>3. ASSUME NEW k \in Keys, Upsert(k) \/ RivalUpsert(k) PROVE TypeOK'
        BY <1>0, <2>3 DEF TypeOK, Upsert, RivalUpsert
    <2>4. CASE UNCHANGED vars
        BY <1>0, <2>4 DEF TypeOK, vars
    <2> QED  BY <2>1, <2>2, <2>3, <2>4
<1>2. ThreadInv'
    <2>1. hook' = "init" => tries' < WebhookTries
        BY <1>0 DEF TypeOK, SetWebhook, RivalEnds, Upsert, RivalUpsert, vars, ThreadInv,
                    WebhookTries
    <2>2. thread = "none" => tries' = tries
        BY <1>0, LoopsNat
           DEF SetWebhook, RivalEnds, Upsert, RivalUpsert, vars, ThreadInv, Mine
    <2> QED  BY <1>0, <2>1, <2>2 DEF ThreadInv, Mine
<1>3. SendersInv'
    BY <1>0 DEF SendersInv, SenderInv
<1>4. stored' = stored \/ \E k \in Keys : stored' = stored \cup {k}
    BY DEF SetWebhook, RivalEnds, Upsert, RivalUpsert, vars
<1>5. upserts' \subseteq upserts /\ upserts \subseteq upserts' \cup stored'
    BY DEF SetWebhook, RivalEnds, Upsert, RivalUpsert, vars
<1>6. FiniteSets'
    <2>1. IsFiniteSet(stored')
        BY <1>0, <1>4, FS_AddElement DEF FiniteSets
    <2>2. IsFiniteSet(upserts')
        BY <1>0, <1>5, FS_Subset DEF FiniteSets
    <2> QED  BY <1>0, <2>1, <2>2 DEF FiniteSets
<1>7. Reachable' /\ Remembered'
    BY <1>0, <1>4, <1>5 DEF Reachable, Remembered
<1> QED  BY <1>1, <1>2, <1>3, <1>6, <1>7 DEF IInv

LEMMA StepInv == IInv /\ [Next]_vars => IInv'
<1> SUFFICES ASSUME IInv, [Next]_vars PROVE IInv'
    OBVIOUS
<1>0. TypeOK
    BY DEF IInv
<1>1. CASE Start \/ Thread \/ Halted \/ Stop
    BY <1>1, ThreadKeeps
<1>2. CASE Restart
    BY <1>2, RestartKeeps
<1>3. ASSUME NEW n \in Notices, Sender(n) PROVE IInv'
    <2>1. CASE ReadLoop(n)
        BY <2>1, ReadLoopKeeps
    <2>2. CASE ReadApp(n)
        BY <2>2, ReadAppKeeps
    <2>3. CASE Check(n)
        BY <2>3, MovesOn DEF Check, Ended
    <2>4. CASE Submit(n)
        BY <2>4, MovesOn DEF Submit, Ended
    <2>5. CASE Deliver(n)
        <3>1. CASE UNCHANGED at /\ (SenderStep(n, "sent") \/ SenderStep(n, "lost"))
            BY <3>1, MovesOn DEF Ended
        <3>2. CASE /\ UNCHANGED at /\ RegisterUser(at[n].keys)
                   /\ pc' = [pc EXCEPT ![n] = "sent"]
                   /\ UNCHANGED <<threadVars, hookVars, outside>>
            <4>1. at[n].keys \in Senders \cup {{}}
                BY <1>0 DEF TypeOK, Notice
            <4> QED  BY <3>2, <4>1, RegisterStep
        <3> QED  BY <2>5, <3>1, <3>2 DEF Deliver
    <2> QED  BY <1>3, <2>1, <2>2, <2>3, <2>4, <2>5 DEF Sender
<1>4. ASSUME NEW n \in Notices, NEW k \in Keys, NotifyRequester(n) \/ NotifyApprover(n, k)
      PROVE  IInv'
    <2>1. CASE Raised(n, "message", {})
        BY <2>1, RaisedKeeps
    <2>2. CASE SenderStep(n, "dropped") /\ UNCHANGED at
        BY <2>2, MovesOn DEF Ended
    <2> QED  BY <1>4, <2>1, <2>2 DEF NotifyRequester, NotifyApprover
<1>5. ASSUME NEW n \in Notices, NotifyRequester(n) PROVE IInv'
    BY <1>5, RaisedKeeps DEF NotifyRequester
<1>6. ASSUME NEW n \in Notices, NEW K \in Senders, WebhookUpdate(n, K) PROVE IInv'
    BY <1>6, RaisedKeeps DEF WebhookUpdate
<1>7. ASSUME NEW K \in Senders, PollUpdate(K) PROVE IInv'
    BY <1>7, RegisterStep DEF PollUpdate, noticeVars
<1>8. CASE \/ SetWebhook \/ RivalEnds
           \/ \E k \in Keys : Upsert(k) \/ RivalUpsert(k)
           \/ UNCHANGED vars
    <2>1. UNCHANGED <<threadVars, noticeVars, mode, restarts, known, wrote>>
        BY <1>8 DEF SetWebhook, RivalEnds, Upsert, RivalUpsert, vars, registryVars, outside
    <2> QED  BY <1>8, <2>1, OtherKeeps
<1> QED
    BY <1>1, <1>2, <1>3, <1>4, <1>5, <1>6, <1>7, <1>8 DEF Next

LEMMA Invariant == Spec => []IInv
BY InitInv, StepInv, PTL DEF Spec

-----------------------------------------------------------------------------
(* What the runs check, for all values of the constants.                   *)

\* Types hold for any number of notices, people, retries and restarts (TypeOK).
THEOREM TypeCorrect == Spec => []TypeOK
<1>1. IInv => TypeOK
    BY DEF IInv
<1> QED  BY Invariant, <1>1, PTL

\* What is queued on a loop uses the application of that loop (OwnApp).
THEOREM OwnAppCorrect == Spec => []OwnApp
<1>1. IInv => OwnApp
    <2> SUFFICES ASSUME IInv, NEW n \in Notices, pc[n] \in {"submit", "queued"}
                 PROVE  at[n].app = driver[at[n].loop]
        BY DEF OwnApp
    <2>1. /\ at[n].loop # 0 /\ at[n].app = at[n].loop
          /\ life[at[n].loop] \notin {"unborn", "created"}
        BY DEF IInv, SendersInv, SenderInv, Reading
    <2>2. at[n].loop \in Loops
        BY <2>1, NoticeType DEF IInv
    <2> QED  BY <2>1, <2>2 DEF IInv, ThreadInv
<1> QED  BY Invariant, <1>1, PTL

\* At most one loop is open, and the adapter never shows one that is closed (OneLoop).
THEOREM OneLoopCorrect == Spec => []OneLoop
<1>1. IInv => OneLoop
    <2> SUFFICES ASSUME IInv PROVE OneLoop
        OBVIOUS
    <2>0. Mine \in Loops /\ Mine \in Nat
        BY RetriesAssumption DEF IInv, TypeOK, Mine, Loops
    <2>1. ASSUME NEW g \in Loops, life[g] \notin {"unborn", "closed"} PROVE g = Mine
        BY <2>0, <2>1, LoopsNat DEF IInv, ThreadInv
    <2>2. loop # 0 => life[loop] \in {"created", "running", "stopped"}
        BY DEF IInv, ThreadInv
    <2> QED  BY <2>1, <2>2 DEF OneLoop
<1> QED  BY Invariant, <1>1, PTL

\* Until the registry is full, memory has everybody who wrote (Reachable).
THEOREM ReachableCorrect == Spec => []Reachable
<1>1. IInv => Reachable
    BY DEF IInv
<1> QED  BY Invariant, <1>1, PTL

\* A restart forgets only what no persistence thread has stored (Remembered).
THEOREM RememberedCorrect == Spec => []Remembered
<1>1. IInv => Remembered
    BY DEF IInv
<1> QED  BY Invariant, <1>1, PTL
=============================================================================
