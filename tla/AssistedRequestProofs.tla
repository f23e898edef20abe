------------------------ MODULE AssistedRequestProofs ------------------------
(***************************************************************************)
(* For every number of handlers and threads, and whatever the model may    *)
(* answer: types, the soundness of drafts, and that each task runs once.   *)
(***************************************************************************)
EXTENDS AssistedRequest, FiniteSetTheorems, TLAPS

\* What validation leaves of a record of fields.
Sound(f) ==
    /\ f.approver \in Valid \cup {Blank}
    /\ f.target \in Short \cup {Blank}
    /\ ~Same(f)

\* The results that wait to be used are sound.
ResultsSound ==
    \A h \in Handlers :
        /\ intent[h].kind = "new" => Sound(intent[h].fields)
        /\ parsed[h].kind = "new" => Sound(parsed[h].fields)

\* The inductive invariant for types: the cardinality means something.
TypeInv == TypeOK /\ IsFiniteSet(running)

\* A handler that has taken the first result has one, and no result is an exception.
Taken ==
    \A h \in Handlers :
        /\ pc[h] = "parsed" => intent[h] # Pending
        /\ Raised \notin {intent[h], parsed[h]}

\* Drafts are sound, those of the model in every respect.
DraftsChecked ==
    \A h \in Handlers : Drafted(h) =>
        LET f == outcome[h].fields IN
            /\ Complete(f)
            /\ outcome[h].by = "model" => Sound(f)

IInv == TypeInv /\ ResultsSound /\ Taken /\ DraftsChecked

-----------------------------------------------------------------------------
(* Operators.                                                              *)

\* Validation keeps the type of the fields and makes them sound.
LEMMA CleanSound ==
    ASSUME NEW f \in Fields
    PROVE  Clean(f) \in Fields /\ Sound(Clean(f))
<1> DEFINE g == [f EXCEPT !.approver = Normal[@]]
<1>1. g \in Fields /\ g.from = f.from /\ g.to = f.to
    BY FieldsAssumption DEF Fields
<1> HIDE DEF g
<1>2. Validate(g) \in Fields
    BY <1>1, FieldsAssumption DEF Validate, Fields
<1>3. Validate(g).approver \in Valid \cup {Blank} /\ Validate(g).target \in Short \cup {Blank}
    BY DEF Validate
<1>4. ~Same(Validate(g))
    BY DEF Validate, Same
<1> QED  BY <1>2, <1>3, <1>4 DEF Clean, g, Sound

\* A classification is an intent, and no more pending.
LEMMA ClassifiedType ==
    ASSUME NEW op, NEW f \in Fields
    PROVE  /\ Classified(op, f) \in Intents \ {Pending, Raised}
           /\ Classified(op, f).kind = "new" => Sound(Classified(op, f).fields)
<1> DEFINE c == Clean(f)
<1>1. c \in Fields /\ Sound(c)
    BY CleanSound
<1> HIDE DEF c
<1>2. CASE op \in MANAGEMENT_OPERATIONS
    BY <1>2 DEF Classified, Intents, Pending, Raised
<1>3. CASE op \notin MANAGEMENT_OPERATIONS /\ op = "new_request"
    BY <1>1, <1>3 DEF Classified, Intents, Pending, Raised, c
<1>4. CASE op \notin MANAGEMENT_OPERATIONS /\ op # "new_request"
    BY <1>4 DEF Classified, Intents, Pending, Raised, Unknown
<1> QED  BY <1>2, <1>3, <1>4

\* A task returns a result and no exception, whatever its call comes to.
LEMMA IntentOfType ==
    ASSUME NEW c \in Calls([op : Operations, fields : Answers])
    PROVE  /\ IntentOf(c) \in Intents \ {Pending, Raised}
           /\ IntentOf(c).kind = "new" => Sound(IntentOf(c).fields)
<1>1. CASE c = Raised
    BY <1>1 DEF IntentOf, Unknown, Intents, Pending, Raised
<1>2. CASE c # Raised
    <2>1. c.payload.fields \in Fields
        BY <1>2, FieldsAssumption DEF Calls
    <2> QED  BY <1>2, <2>1, ClassifiedType DEF IntentOf
<1> QED  BY <1>1, <1>2

LEMMA ParseOfType ==
    ASSUME NEW c \in Calls(Answers)
    PROVE  /\ ParseOf(c) \in Parses \ {Pending, Raised}
           /\ ParseOf(c).kind = "new" => Sound(ParseOf(c).fields)
<1>1. CASE c = Raised
    BY <1>1 DEF ParseOf, Failed, Parses, Pending, Raised
<1>2. CASE c # Raised
    <2>1. Clean(c.payload) \in Fields /\ Sound(Clean(c.payload))
        BY <1>2, CleanSound, FieldsAssumption DEF Calls
    <2> DEFINE g == Clean(c.payload)
    <2> HIDE DEF g
    <2>2. ParseOf(c) = [kind |-> "new", fields |-> g]
        BY <1>2 DEF ParseOf, g
    <2> QED  BY <2>1, <2>2 DEF Parses, Pending, Raised, g
<1> QED  BY <1>1, <1>2

\* What is built of fields is an outcome, and a draft only of complete ones.
LEMMA BuiltType ==
    ASSUME NEW f \in Fields, NEW by \in {"pattern", "model"}
    PROVE  /\ Built(f, by) \in Outcomes
           /\ Built(f, by).fields = f /\ Built(f, by).by = by
           /\ Built(f, by).kind = "draft" => Complete(f)
BY DEF Built, Outcomes

\* Two results make an outcome, and its draft is one of the sound records of fields.
LEMMA ResolvedType ==
    ASSUME NEW i \in Intents \ {Pending, Raised}, NEW p \in Parses \ {Pending, Raised},
           i.kind = "new" => Sound(i.fields), p.kind = "new" => Sound(p.fields)
    PROVE  /\ Resolved(i, p) \in Outcomes
           /\ Resolved(i, p).kind = "draft" =>
                 Complete(Resolved(i, p).fields) /\ Sound(Resolved(i, p).fields)
<1>1. CASE i = Unknown
    BY <1>1 DEF Resolved, Outcomes, Unknown, NeedsInput
<1>2. CASE i \in [kind : {"management"}, op : MANAGEMENT_OPERATIONS]
    BY <1>2 DEF Resolved, Outcomes
<1>3. CASE i \in [kind : {"new"}, fields : Fields]
    <2>1. i.kind = "new" /\ i.fields \in Fields
        BY <1>3
    <2>2. CASE Complete(i.fields)
        <3>1. Resolved(i, p) = Built(i.fields, "model")
            BY <2>1, <2>2 DEF Resolved
        <3> QED  BY <2>1, <3>1, BuiltType
    <2>3. CASE ~Complete(i.fields) /\ p = Failed
        <3>1. Resolved(i, p) = NeedsInput
            BY <2>1, <2>3 DEF Resolved, Failed
        <3> QED  BY <3>1 DEF NeedsInput, Outcomes
    <2>4. CASE ~Complete(i.fields) /\ p \in [kind : {"new"}, fields : Fields]
        <3>1. p.kind = "new" /\ p.fields \in Fields
            BY <2>4
        <3>2. Resolved(i, p) = Built(p.fields, "model")
            BY <2>1, <2>4, <3>1 DEF Resolved
        <3> QED  BY <3>1, <3>2, BuiltType
    <2> QED  BY <2>2, <2>3, <2>4 DEF Parses
<1> QED  BY <1>1, <1>2, <1>3 DEF Intents

-----------------------------------------------------------------------------
(* Types.                                                                  *)

\* A set grows, and shrinks, by one element at most.
LEMMA OneMore ==
    ASSUME NEW S, IsFiniteSet(S), NEW x
    PROVE  /\ IsFiniteSet(S \cup {x})
           /\ Cardinality(S \cup {x}) \in Nat
           /\ Cardinality(S \cup {x}) <= Cardinality(S) + 1
<1>1. Cardinality(S) \in Nat
    BY FS_CardinalityType
<1>2. IsFiniteSet(S \cup {x})
    BY FS_AddElement
<1>3. Cardinality(S \cup {x}) = IF x \in S THEN Cardinality(S) ELSE Cardinality(S) + 1
    BY FS_AddElement
<1>4. Cardinality(S \cup {x}) \in Nat
    BY <1>2, FS_CardinalityType
<1> QED  BY <1>1, <1>2, <1>3, <1>4

LEMMA OneLess ==
    ASSUME NEW S, IsFiniteSet(S), NEW x
    PROVE  /\ IsFiniteSet(S \ {x})
           /\ Cardinality(S \ {x}) \in Nat
           /\ Cardinality(S \ {x}) <= Cardinality(S)
<1>1. Cardinality(S) \in Nat
    BY FS_CardinalityType
<1>2. IsFiniteSet(S \ {x}) /\ Cardinality(S \ {x}) \in Nat
    BY FS_RemoveElement, FS_CardinalityType
<1>3. Cardinality(S \ {x}) = IF x \in S THEN Cardinality(S) - 1 ELSE Cardinality(S)
    BY FS_RemoveElement
<1> QED  BY <1>1, <1>2, <1>3

LEMMA InitInv == Init => IInv
<1> SUFFICES ASSUME Init PROVE IInv
    OBVIOUS
<1>1. IsFiniteSet({}) /\ Cardinality({}) = 0
    BY FS_EmptySet
<1>2. Cardinality(running) <= Threads
    BY <1>1, ThreadsAssumption DEF Init
<1>3. TypeInv
    BY <1>1, <1>2 DEF Init, TypeInv, TypeOK, Intents, Parses, Outcomes, Pending
<1> QED
    BY <1>3 DEF Init, IInv, ResultsSound, Taken, DraftsChecked, Drafted, Pending, Raised

LEMMA StepInv == IInv /\ [Next]_vars => IInv'
<1> SUFFICES ASSUME IInv, [Next]_vars PROVE IInv'
    OBVIOUS
<1>0. TypeInv /\ ResultsSound /\ Taken /\ DraftsChecked
    BY DEF IInv
<1> USE DEF TypeInv, TypeOK
<1>1. CASE Start
    <2> DEFINE t == Head(queue)
    <2>1. t \in Tasks /\ Tail(queue) \in Seq(Tasks)
        BY <1>0, <1>1 DEF Start
    <2>2. /\ IsFiniteSet(running \cup {t}) /\ Cardinality(running \cup {t}) \in Nat
          /\ Cardinality(running \cup {t}) <= Cardinality(running) + 1
        BY <1>0, OneMore
    <2>3. Cardinality(running) \in Nat /\ Cardinality(running) < Threads
        BY <1>0, <1>1, FS_CardinalityType DEF Start
    <2>4. Cardinality(running \cup {t}) <= Threads
        BY <2>2, <2>3, ThreadsAssumption
    <2>5. TypeInv'
        BY <1>0, <1>1, <2>1, <2>2, <2>4 DEF Start
    <2> QED
        BY <1>0, <1>1, <2>5 DEF Start, IInv, ResultsSound, Taken, DraftsChecked, Drafted
<1>2. ASSUME NEW h \in Handlers, Pattern(h) PROVE IInv'
    <2>1. PICK f \in Patterns : outcome' = [outcome EXCEPT ![h] =
                                    Built([f EXCEPT !.approver = Normal[@]], "pattern")]
        BY <1>2 DEF Pattern
    <2> DEFINE g == [f EXCEPT !.approver = Normal[@]]
    <2>2. g \in Fields
        BY FieldsAssumption DEF Fields
    <2> HIDE DEF g
    <2>3. /\ Built(g, "pattern") \in Outcomes /\ Built(g, "pattern").by = "pattern"
          /\ Built(g, "pattern").fields = g
          /\ Built(g, "pattern").kind = "draft" => Complete(g)
        BY <2>2, BuiltType
    <2>4. outcome' = [outcome EXCEPT ![h] = Built(g, "pattern")]
        BY <2>1 DEF g
    <2>5. TypeInv'
        BY <1>0, <1>2, <2>3, <2>4 DEF Pattern
    <2>6. ResultsSound' /\ Taken'
        BY <1>0, <1>2 DEF Pattern, ResultsSound, Taken
    <2>7. ASSUME NEW x \in Handlers, Drafted(x)'
          PROVE  /\ Complete(outcome'[x].fields)
                 /\ outcome'[x].by = "model" => Sound(outcome'[x].fields)
        <3>1. CASE x = h
            BY <1>0, <2>2, <2>3, <2>4, <2>7, <3>1 DEF Drafted
        <3>2. CASE x # h
            BY <1>0, <2>4, <2>7, <3>2 DEF Drafted, DraftsChecked
        <3> QED  BY <3>1, <3>2
    <2>8. DraftsChecked'
        BY <2>7 DEF DraftsChecked
    <2> QED  BY <2>5, <2>6, <2>8 DEF IInv
<1>3. ASSUME NEW h \in Handlers, Ask(h) \/ AskMore(h) PROVE IInv'
    <2>1. <<h, "classify">> \in Tasks /\ <<h, "assist">> \in Tasks
        BY DEF Tasks
    <2>2. TypeInv'
        <3>1. CASE Ask(h)
            BY <1>0, <2>1, <3>1 DEF Ask
        <3>2. CASE AskMore(h)
            BY <1>0, <2>1, <3>2 DEF AskMore
        <3> QED  BY <1>3, <3>1, <3>2
    <2> QED
        BY <1>0, <1>3, <2>2 DEF Ask, AskMore, IInv, ResultsSound, Taken, DraftsChecked, Drafted
<1>4. ASSUME NEW h \in Handlers, TakeIntent(h) PROVE IInv'
    BY <1>0, <1>4 DEF TakeIntent, Escape, IInv, ResultsSound, Taken, DraftsChecked, Drafted
<1>5. ASSUME NEW h \in Handlers, Resolve(h) PROVE IInv'
    <2> DEFINE o == Resolved(intent[h], parsed[h])
    <2>0. /\ intent[h] \in Intents \ {Pending, Raised}
          /\ parsed[h] \in Parses \ {Pending, Raised}
        BY <1>0, <1>5 DEF Resolve, Taken
    <2>1. /\ o \in Outcomes
          /\ o.kind = "draft" => Complete(o.fields) /\ Sound(o.fields)
        BY <1>0, <2>0, ResolvedType DEF ResultsSound
    <2>2. outcome' = [outcome EXCEPT ![h] = o] /\ pc' = [pc EXCEPT ![h] = "done"]
        BY <1>5, <2>0 DEF Resolve
    <2> HIDE DEF o
    <2>3. TypeInv'
        BY <1>0, <1>5, <2>1, <2>2 DEF Resolve
    <2>4. ResultsSound' /\ Taken'
        BY <1>0, <1>5, <2>2 DEF Resolve, ResultsSound, Taken
    <2>5. ASSUME NEW x \in Handlers, Drafted(x)'
          PROVE  /\ Complete(outcome'[x].fields)
                 /\ outcome'[x].by = "model" => Sound(outcome'[x].fields)
        <3>1. CASE x = h
            BY <1>0, <2>1, <2>2, <2>5, <3>1 DEF Drafted, Complete, Sound
        <3>2. CASE x # h
            BY <1>0, <2>2, <2>5, <3>2 DEF Drafted, DraftsChecked
        <3> QED  BY <3>1, <3>2
    <2>6. DraftsChecked'
        BY <2>5 DEF DraftsChecked
    <2> QED  BY <2>3, <2>4, <2>6 DEF IInv
<1>6. ASSUME NEW h \in Handlers, FinishClassify(h) PROVE IInv'
    <2>1. PICK i \in Intents \ {Pending, Raised} :
              /\ intent' = [intent EXCEPT ![h] = i]
              /\ i.kind = "new" => Sound(i.fields)
        <3>1. PICK c \in Calls([op : Operations, fields : Answers]) :
                    intent' = [intent EXCEPT ![h] = IntentOf(c)]
            BY <1>6 DEF FinishClassify
        <3> QED  BY <3>1, IntentOfType
    <2>2. IsFiniteSet(running') /\ Cardinality(running') <= Threads
        <3> DEFINE t == <<h, "classify">>
        <3>1. IsFiniteSet(running)
            BY <1>0
        <3> HIDE DEF t
        <3>2. /\ IsFiniteSet(running \ {t}) /\ Cardinality(running \ {t}) \in Nat
              /\ Cardinality(running \ {t}) <= Cardinality(running)
            BY <3>1, OneLess
        <3>3. Cardinality(running) \in Nat
            BY <3>1, FS_CardinalityType
        <3>4. running' = running \ {t}
            BY <1>6 DEF FinishClassify, t
        <3> QED  BY <1>0, <3>2, <3>3, <3>4, ThreadsAssumption
    <2>3. TypeInv'
        BY <1>0, <1>6, <2>1, <2>2 DEF FinishClassify
    <2> QED
        BY <1>0, <1>6, <2>1, <2>3
           DEF FinishClassify, IInv, ResultsSound, Taken, DraftsChecked, Drafted
<1>7. ASSUME NEW h \in Handlers, FinishAssist(h) PROVE IInv'
    <2>1. PICK p \in Parses \ {Pending, Raised} :
              /\ parsed' = [parsed EXCEPT ![h] = p]
              /\ p.kind = "new" => Sound(p.fields)
        <3>1. PICK c \in Calls(Answers) : parsed' = [parsed EXCEPT ![h] = ParseOf(c)]
            BY <1>7 DEF FinishAssist
        <3> QED  BY <3>1, ParseOfType
    <2>2. IsFiniteSet(running') /\ Cardinality(running') <= Threads
        <3> DEFINE t == <<h, "assist">>
        <3>1. IsFiniteSet(running)
            BY <1>0
        <3> HIDE DEF t
        <3>2. /\ IsFiniteSet(running \ {t}) /\ Cardinality(running \ {t}) \in Nat
              /\ Cardinality(running \ {t}) <= Cardinality(running)
            BY <3>1, OneLess
        <3>3. Cardinality(running) \in Nat
            BY <3>1, FS_CardinalityType
        <3>4. running' = running \ {t}
            BY <1>7 DEF FinishAssist, t
        <3> QED  BY <1>0, <3>2, <3>3, <3>4, ThreadsAssumption
    <2>3. TypeInv'
        BY <1>0, <1>7, <2>1, <2>2 DEF FinishAssist
    <2> QED
        BY <1>0, <1>7, <2>1, <2>3
           DEF FinishAssist, IInv, ResultsSound, Taken, DraftsChecked, Drafted
<1>8. CASE UNCHANGED vars
    BY <1>0, <1>8 DEF vars, IInv, ResultsSound, Taken, DraftsChecked, Drafted
<1> QED
    BY <1>1, <1>2, <1>3, <1>4, <1>5, <1>6, <1>7, <1>8 DEF Next, Handle, Finish

LEMMA Invariant == Spec => []IInv
BY InitInv, StepInv, PTL DEF Spec

\* Types hold for any number of handlers, threads and answers (TypeOK).
THEOREM TypeCorrect == Spec => []TypeOK
<1>1. IInv => TypeOK
    BY DEF IInv, TypeInv
<1> QED  BY Invariant, <1>1, PTL

\* Whatever the model answers, a draft is complete and, by the model, sound (DraftSound).
THEOREM DraftSoundCorrect == Spec => []DraftSound
<1>1. IInv => DraftSound
    <2> SUFFICES ASSUME IInv, NEW h \in Handlers, Drafted(h)
                 PROVE  LET f == outcome[h].fields IN
                            /\ Complete(f)
                            /\ outcome[h].by = "model" =>
                                    f.approver \in Valid /\ f.target \in Short /\ ~Same(f)
        BY DEF DraftSound
    <2> QED  BY DEF IInv, DraftsChecked, Sound, Complete
<1> QED  BY Invariant, <1>1, PTL

-----------------------------------------------------------------------------
(* Every task runs once.                                                   *)

\* Task t is queued or runs.
Scheduled(t) == t \in running \/ \E i \in DOMAIN queue : queue[i] = t

\* A task is in one place, and only while its result is pending and its handler has
\* not passed the wait for it; a handler that has not asked has no results.
Once ==
    /\ \A i, j \in DOMAIN queue : queue[i] = queue[j] => i = j
    /\ \A i \in DOMAIN queue : queue[i] \notin running
    /\ \A h \in Handlers :
        /\ Scheduled(<<h, "classify">>) => intent[h] = Pending /\ pc[h] \in {"more", "intent"}
        /\ Scheduled(<<h, "assist">>) =>
               parsed[h] = Pending /\ pc[h] \in {"intent", "parsed", "raised"}
        /\ pc[h] = "idle" => intent[h] = Pending
        /\ pc[h] \in {"idle", "more"} => parsed[h] = Pending
        /\ pc[h] # "done" => outcome[h] = Pending

\* What is appended is the last of the queue, and the only one to be scheduled anew.
LEMMA AppendedLast ==
    ASSUME TypeOK, NEW u \in Tasks, queue' = Append(queue, u), running' = running,
           ~Scheduled(u), Once
    PROVE  /\ \A i, j \in DOMAIN queue' : queue'[i] = queue'[j] => i = j
           /\ \A i \in DOMAIN queue' : queue'[i] \notin running'
           /\ \A t \in Tasks \ {u} : Scheduled(t)' => Scheduled(t)
<1>1. queue \in Seq(Tasks)
    BY DEF TypeOK
<1>2. /\ DOMAIN queue' = 1..(Len(queue) + 1) /\ DOMAIN queue = 1..Len(queue)
      /\ Len(queue) \in Nat
      /\ queue'[Len(queue) + 1] = u
      /\ \A i \in DOMAIN queue : queue'[i] = queue[i]
    BY <1>1
<1>3. \A i \in DOMAIN queue' : i \in DOMAIN queue \/ i = Len(queue) + 1
    BY <1>2
<1>4. u \notin running /\ \A i \in DOMAIN queue : queue[i] # u
    BY DEF Scheduled
<1>5. \A i, j \in DOMAIN queue' : queue'[i] = queue'[j] => i = j
    BY <1>2, <1>3, <1>4 DEF Once
<1>6. \A i \in DOMAIN queue' : queue'[i] \notin running'
    BY <1>2, <1>3, <1>4 DEF Once
<1>7. ASSUME NEW t \in Tasks \ {u}, Scheduled(t)' PROVE Scheduled(t)
    BY <1>2, <1>3, <1>7 DEF Scheduled
<1> QED  BY <1>5, <1>6, <1>7

\* A task that starts leaves the queue.
LEMMA StartMoves ==
    ASSUME TypeOK, Once, Start
    PROVE  /\ \A i, j \in DOMAIN queue' : queue'[i] = queue'[j] => i = j
           /\ \A i \in DOMAIN queue' : queue'[i] \notin running'
           /\ \A t \in Tasks : Scheduled(t)' => Scheduled(t)
<1>1. queue \in Seq(Tasks) /\ queue # <<>>
    BY DEF TypeOK, Start
<1>2. /\ DOMAIN queue' = 1..(Len(queue) - 1) /\ DOMAIN queue = 1..Len(queue)
      /\ Len(queue) \in Nat /\ Len(queue) >= 1
      /\ \A i \in DOMAIN queue' : queue'[i] = queue[i + 1] /\ i + 1 \in DOMAIN queue
      /\ running' = running \cup {queue[1]}
    BY <1>1 DEF Start
<1>3. \A i \in DOMAIN queue' : i + 1 # 1 /\ i \in Nat
    BY <1>2
<1>4. \A i, j \in DOMAIN queue' : queue'[i] = queue'[j] => i = j
    BY <1>2, <1>3 DEF Once
<1>5. \A i \in DOMAIN queue' : queue'[i] \notin running'
    <2> SUFFICES ASSUME NEW i \in DOMAIN queue' PROVE queue'[i] \notin running'
        OBVIOUS
    <2>1. queue'[i] = queue[i + 1] /\ i + 1 \in DOMAIN queue /\ 1 \in DOMAIN queue
        BY <1>2
    <2>2. queue[i + 1] # queue[1]
        BY <1>3, <2>1 DEF Once
    <2> QED  BY <1>2, <2>1, <2>2 DEF Once
<1>6. ASSUME NEW t \in Tasks, Scheduled(t)' PROVE Scheduled(t)
    <2>1. 1 \in DOMAIN queue
        BY <1>2
    <2> QED  BY <1>2, <1>6, <2>1 DEF Scheduled
<1> QED  BY <1>4, <1>5, <1>6

\* A task that ends is nowhere, and no other moves.
LEMMA FinishLeaves ==
    ASSUME Once, NEW u \in running, running' = running \ {u}, queue' = queue
    PROVE  /\ \A i, j \in DOMAIN queue' : queue'[i] = queue'[j] => i = j
           /\ \A i \in DOMAIN queue' : queue'[i] \notin running'
           /\ \A t \in Tasks : Scheduled(t)' => Scheduled(t) /\ t # u
BY DEF Once, Scheduled

\* The conjunct of Once about one handler.
OnceOf(h) ==
    /\ Scheduled(<<h, "classify">>) => intent[h] = Pending /\ pc[h] \in {"more", "intent"}
    /\ Scheduled(<<h, "assist">>) =>
               parsed[h] = Pending /\ pc[h] \in {"intent", "parsed", "raised"}
    /\ pc[h] = "idle" => intent[h] = Pending
    /\ pc[h] \in {"idle", "more"} => parsed[h] = Pending
    /\ pc[h] # "done" => outcome[h] = Pending

\* Results of a handler that are set stay.
Stay(h) ==
    /\ intent[h] # Pending => intent'[h] = intent[h]
    /\ parsed[h] # Pending => parsed'[h] = parsed[h]
    /\ outcome[h] # Pending => outcome'[h] = outcome[h]

\* Every step leaves a task in one place, and results that are set.
LEMMA StepOnce ==
    ASSUME TypeOK, Once, [Next]_vars
    PROVE  Once' /\ \A x \in Handlers : Stay(x)
<1> DEFINE Places == /\ \A i, j \in DOMAIN queue : queue[i] = queue[j] => i = j
                     /\ \A i \in DOMAIN queue : queue[i] \notin running
<1>a. Places /\ \A x \in Handlers : OnceOf(x)
    BY DEF Once, OnceOf
<1>b. \A h \in Handlers : <<h, "classify">> \in Tasks /\ <<h, "assist">> \in Tasks
    BY DEF Tasks
<1>c. \A g, h \in Handlers : /\ <<g, "classify">> # <<h, "assist">>
                             /\ g # h => /\ <<g, "classify">> # <<h, "classify">>
                                         /\ <<g, "assist">> # <<h, "assist">>
    OBVIOUS
<1> SUFFICES Places' /\ \A x \in Handlers : OnceOf(x)' /\ Stay(x)
    BY DEF Once, OnceOf
<1>1. CASE Start
    BY <1>1, <1>a, <1>b, StartMoves DEF Start, OnceOf, Stay
<1>2. ASSUME NEW h \in Handlers, Pattern(h) \/ TakeIntent(h) \/ Resolve(h)
      PROVE  Places' /\ \A x \in Handlers : OnceOf(x)' /\ Stay(x)
    <2>1. queue' = queue /\ running' = running /\ intent' = intent /\ parsed' = parsed
        BY <1>2 DEF Pattern, TakeIntent, Resolve
    <2>2. \A t : Scheduled(t)' <=> Scheduled(t)
        BY <2>1 DEF Scheduled
    <2>3. \A x \in Handlers \ {h} : pc'[x] = pc[x] /\ outcome'[x] = outcome[x]
        BY <1>2 DEF Pattern, TakeIntent, Resolve, Escape, TypeOK
    <2>4. \/ pc[h] = "idle" /\ pc'[h] = "done"
          \/ /\ pc[h] = "intent" /\ intent[h] # Pending /\ outcome' = outcome
             /\ pc'[h] \in {"parsed", "raised"}
          \/ /\ pc[h] = "parsed" /\ parsed[h] # Pending
             /\ pc'[h] = "done" \/ (pc'[h] = "raised" /\ outcome' = outcome)
        <3>1. Pattern(h) => pc[h] = "idle" /\ pc'[h] = "done"
            BY DEF Pattern, TypeOK
        <3>2. TakeIntent(h) => /\ pc[h] = "intent" /\ intent[h] # Pending /\ outcome' = outcome
                               /\ pc'[h] \in {"parsed", "raised"}
            BY DEF TakeIntent, Escape, TypeOK
        <3>3. Resolve(h) => /\ pc[h] = "parsed" /\ parsed[h] # Pending
                            /\ pc'[h] = "done" \/ (pc'[h] = "raised" /\ outcome' = outcome)
            BY DEF Resolve, Escape, TypeOK
        <3> QED  BY <1>2, <3>1, <3>2, <3>3
    <2>5. OnceOf(h)' /\ Stay(h)
        BY <1>a, <2>1, <2>2, <2>4 DEF OnceOf, Stay
    <2>6. ASSUME NEW x \in Handlers \ {h} PROVE OnceOf(x)' /\ Stay(x)
        BY <1>a, <2>1, <2>2, <2>3 DEF OnceOf, Stay
    <2> QED  BY <1>a, <2>1, <2>5, <2>6
<1>3. ASSUME NEW h \in Handlers, Ask(h)
      PROVE  Places' /\ \A x \in Handlers : OnceOf(x)' /\ Stay(x)
    <2>1. ~Scheduled(<<h, "classify">>)
        BY <1>3, <1>a DEF Ask, OnceOf
    <2>2. Places' /\ \A t \in Tasks \ {<<h, "classify">>} : Scheduled(t)' => Scheduled(t)
        BY <1>3, <1>b, <2>1, AppendedLast DEF Ask
    <2>3. /\ pc[h] = "idle" /\ pc'[h] = "more"
          /\ \A x \in Handlers \ {h} : pc'[x] = pc[x]
          /\ intent' = intent /\ parsed' = parsed /\ outcome' = outcome
        BY <1>3 DEF Ask, TypeOK
    <2>4. OnceOf(h)'
        BY <1>a, <1>b, <1>c, <2>2, <2>3 DEF OnceOf
    <2>5. ASSUME NEW x \in Handlers \ {h} PROVE OnceOf(x)'
        BY <1>a, <1>b, <1>c, <2>2, <2>3 DEF OnceOf
    <2> QED  BY <2>2, <2>3, <2>4, <2>5 DEF Stay
<1>4. ASSUME NEW h \in Handlers, AskMore(h)
      PROVE  Places' /\ \A x \in Handlers : OnceOf(x)' /\ Stay(x)
    <2>1. ~Scheduled(<<h, "assist">>)
        BY <1>4, <1>a DEF AskMore, OnceOf
    <2>2. Places' /\ \A t \in Tasks \ {<<h, "assist">>} : Scheduled(t)' => Scheduled(t)
        BY <1>4, <1>b, <2>1, AppendedLast DEF AskMore
    <2>3. /\ pc[h] = "more" /\ pc'[h] = "intent"
          /\ \A x \in Handlers \ {h} : pc'[x] = pc[x]
          /\ intent' = intent /\ parsed' = parsed /\ outcome' = outcome
        BY <1>4 DEF AskMore, TypeOK
    <2>4. OnceOf(h)'
        BY <1>a, <1>b, <1>c, <2>2, <2>3 DEF OnceOf
    <2>5. ASSUME NEW x \in Handlers \ {h} PROVE OnceOf(x)'
        BY <1>a, <1>b, <1>c, <2>2, <2>3 DEF OnceOf
    <2> QED  BY <2>2, <2>3, <2>4, <2>5 DEF Stay
<1>5. ASSUME NEW h \in Handlers, FinishClassify(h)
      PROVE  Places' /\ \A x \in Handlers : OnceOf(x)' /\ Stay(x)
    <2>1. /\ Places'
          /\ \A t \in Tasks : Scheduled(t)' => Scheduled(t) /\ t # <<h, "classify">>
        BY <1>5, FinishLeaves DEF FinishClassify
    <2>2. /\ \A x \in Handlers \ {h} : intent'[x] = intent[x]
          /\ pc' = pc /\ parsed' = parsed /\ outcome' = outcome
        BY <1>5 DEF FinishClassify, TypeOK
    <2>3. intent[h] = Pending /\ pc[h] \in {"more", "intent"}
        BY <1>5, <1>a DEF FinishClassify, Scheduled, OnceOf
    <2>4. OnceOf(h)' /\ Stay(h)
        BY <1>a, <1>b, <2>1, <2>2, <2>3 DEF OnceOf, Stay
    <2>5. ASSUME NEW x \in Handlers \ {h} PROVE OnceOf(x)' /\ Stay(x)
        BY <1>a, <1>b, <2>1, <2>2 DEF OnceOf, Stay
    <2> QED  BY <2>1, <2>4, <2>5
<1>6. ASSUME NEW h \in Handlers, FinishAssist(h)
      PROVE  Places' /\ \A x \in Handlers : OnceOf(x)' /\ Stay(x)
    <2>1. /\ Places'
          /\ \A t \in Tasks : Scheduled(t)' => Scheduled(t) /\ t # <<h, "assist">>
        BY <1>6, FinishLeaves DEF FinishAssist
    <2>2. /\ \A x \in Handlers \ {h} : parsed'[x] = parsed[x]
          /\ pc' = pc /\ intent' = intent /\ outcome' = outcome
        BY <1>6 DEF FinishAssist, TypeOK
    <2>3. parsed[h] = Pending /\ pc[h] \in {"intent", "parsed", "raised"}
        BY <1>6, <1>a DEF FinishAssist, Scheduled, OnceOf
    <2>4. OnceOf(h)' /\ Stay(h)
        BY <1>a, <1>b, <2>1, <2>2, <2>3 DEF OnceOf, Stay
    <2>5. ASSUME NEW x \in Handlers \ {h} PROVE OnceOf(x)' /\ Stay(x)
        BY <1>a, <1>b, <2>1, <2>2 DEF OnceOf, Stay
    <2> QED  BY <2>1, <2>4, <2>5
<1>7. CASE UNCHANGED vars
    BY <1>7, <1>a DEF vars, OnceOf, Scheduled, Stay
<1> QED
    BY <1>1, <1>2, <1>3, <1>4, <1>5, <1>6, <1>7 DEF Next, Handle, Finish

\* Whichever tasks of whichever handlers the threads run, each runs once: a result that
\* is there, and an answer that was given, is never replaced (ResultsStay).
THEOREM ResultsStayCorrect == Spec => ResultsStay
<1>1. Init => Once
    BY DEF Init, Once, Scheduled
<1>2. TypeOK /\ Once /\ [Next]_vars =>
        Once' /\ \A h \in Handlers :
                    /\ intent[h] # Pending => intent'[h] = intent[h]
                    /\ parsed[h] # Pending => parsed'[h] = parsed[h]
                    /\ outcome[h] # Pending => outcome'[h] = outcome[h]
    BY StepOnce DEF Stay
<1> QED  BY <1>1, <1>2, TypeCorrect, PTL DEF Spec, ResultsStay
=============================================================================
