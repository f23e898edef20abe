------------------------ MODULE ReviewWorkflowProofs ------------------------
(***************************************************************************)
(* Theorems about ReviewWorkflow for any number of requests, spellings,    *)
(* workers, actors and contents, and for both kinds of store.              *)
(***************************************************************************)
EXTENDS ReviewRefinement, TLAPS

(***************************************************************************)
(* Lemmas about the data.                                                  *)
(***************************************************************************)

\* The columns a new request is stored with make a row.
LEMMA NewRowType ==
    ASSUME NEW ch \in Changes, NEW hasApprover \in BOOLEAN
    PROVE  NewRow(ch, hasApprover) \in Row
BY DEF NewRow, Row, Statuses

\* _change_status keeps a record a row.
LEMMA ChangedType ==
    ASSUME NEW rec \in Row, NEW op \in Operations, NEW a \in Actors,
           NEW hasNote \in BOOLEAN
    PROVE  Changed(rec, op, a, hasNote) \in Row
<1>1. TargetStatus[op] \in Statuses
  BY DEF Operations, TargetStatus, Statuses
<1> DEFINE by == IF op \in Resolving THEN a ELSE rec.resolvedBy
           note == IF op \in Resolving THEN hasNote ELSE rec.noted
           cancelled == IF op = "cancel" THEN a ELSE rec.cancelledBy
<1>2. /\ by \in Actors \cup {NoActor}
      /\ note \in BOOLEAN
      /\ cancelled \in Actors \cup {NoActor}
  BY DEF Row
<1>3. Changed(rec, op, a, hasNote) =
        [rec EXCEPT !.status = TargetStatus[op], !.resolvedBy = by,
                    !.noted = note, !.cancelledBy = cancelled]
  BY DEF Changed
<1> HIDE DEF by, note, cancelled
<1> QED
  BY <1>1, <1>2, <1>3 DEF Row

\* resubmit_request keeps a record a row.
LEMMA ResubmittedType ==
    ASSUME NEW rec \in Row, NEW ch \in Changes
    PROVE  Resubmitted(rec, ch) \in Row
<1>1. rec.currentRev + 1 \in Nat /\ "submitted" \in Statuses
  BY DEF Row, Statuses
<1> DEFINE next == rec.currentRev + 1
<1>2. Resubmitted(rec, ch) =
        [rec EXCEPT !.status = "submitted", !.currentRev = next,
                    !.lastRev = next, !.change = ch]
  BY DEF Resubmitted
<1>3. next \in Nat
  BY <1>1
<1> HIDE DEF next
<1> QED
  BY <1>1, <1>2, <1>3 DEF Row

\* A call begun with well-typed inputs is a call.
LEMMA NewCallType ==
    ASSUME NEW pc \in {"update", "emit"}, NEW id \in Ids, NEW a \in Actors,
           NEW rec \in Row, NEW event \in EventTypes
    PROVE  /\ NewCall(pc, id, a, rec, event) \in Call
           /\ NewCall(pc, id, a, rec, event).pc = pc
           /\ NewCall(pc, id, a, rec, event).id = id
           /\ NewCall(pc, id, a, rec, event).actor = a
           /\ NewCall(pc, id, a, rec, event).rec = rec
           /\ NewCall(pc, id, a, rec, event).event = event
BY DEF NewCall, Call

\* An idle worker is not a worker in the middle of a call.
LEMMA IdleIsNoCall == Idle \notin Call
BY DEF Idle, Call

\* A missing row is not a row.
LEMMA NoRowIsNoRow == NoRow \notin Row
BY DEF NoRow, Row, Statuses

\* Every call in flight records a well-formed event.
LEMMA EventOfType ==
    ASSUME NEW c \in Call
    PROVE  EventOf(c) \in Event
BY DEF EventOf, Call, Event, EventTypes, Row

\* After an event is stored its call goes on as a call or is over.
LEMMA AfterEventType ==
    ASSUME NEW c \in Call
    PROVE  AfterEvent(c) \in Call \cup {Idle}
BY DEF AfterEvent, Call, EventTypes

(***************************************************************************)
(* Type correctness.                                                       *)
(***************************************************************************)

\* Storing an event keeps the types, whatever natural number it carries.
LEMMA StoreType ==
    ASSUME TypeOK, NEW w \in Workers, call[w] \in Call, NEW n \in Nat, Store(w, n)
    PROVE  TypeOK'
<1>1. EventOf(call[w]) \in Event
  BY EventOfType
<1>2. audit' \in [Ids -> Seq([seq : Nat, event : Event])]
  <2>1. [seq |-> n, event |-> EventOf(call[w])] \in [seq : Nat, event : Event]
    BY <1>1
  <2>2. call[w].id \in Ids
    BY DEF Call
  <2>3. audit[call[w].id] \in Seq([seq : Nat, event : Event])
    BY <2>2 DEF TypeOK
  <2> DEFINE Stored == [seq : Nat, event : Event]
             entry == [seq |-> n, event |-> EventOf(call[w])]
  <2>4. Append(audit[call[w].id], entry) \in Seq(Stored)
    <3> entry \in Stored /\ audit[call[w].id] \in Seq(Stored)
      BY <2>1, <2>3
    <3> HIDE DEF Stored, entry
    <3> QED
      OBVIOUS
  <2>5. audit' = [audit EXCEPT ![call[w].id] = Append(audit[call[w].id], entry)]
    BY DEF Store
  <2>6. audit \in [Ids -> Seq(Stored)]
    BY DEF TypeOK
  <2> HIDE DEF Stored, entry
  <2>7. audit' \in [Ids -> Seq(Stored)]
    BY <2>2, <2>4, <2>5, <2>6
  <2> QED
    BY <2>7 DEF Stored
<1>3. call' \in [Workers -> Call \cup {Idle}]
  BY AfterEventType DEF TypeOK, Store
<1> QED
  BY <1>2, <1>3 DEF TypeOK, Store

(***************************************************************************)
(* Sequence numbers.  MAX(event_sequence) is well defined because the      *)
(* numbers of a timeline are an interval, so that Gapless is proved        *)
(* together with TypeOK.  A Postgres transaction may insert a number that  *)
(* is by then taken, but never one that leaves a gap below it.             *)
(***************************************************************************)

Gapless ==
    /\ \A id \in Ids : \E k \in Nat : SequenceNumbers(id) = 1 .. k
    /\ \A w \in Workers :
        call[w].pc = "insert" => call[w].seq \in 1 .. NextSequence(call[w].id)

\* The largest number of a gapless timeline is its last one.
LEMMA LastOfInterval ==
    ASSUME NEW id \in Ids, NEW k \in Nat, SequenceNumbers(id) = 1 .. k
    PROVE  LastSequence(id) = k
<1>1. {0} \cup SequenceNumbers(id) = 0 .. k
  OBVIOUS
<1>2. k \in 0 .. k /\ \A y \in 0 .. k : k >= y
  OBVIOUS
<1>3. \A x \in 0 .. k : (\A y \in 0 .. k : x >= y) => x = k
  OBVIOUS
<1> QED
  BY <1>1, <1>2, <1>3 DEF LastSequence, Max

\* What storing an event adds to the numbers of each timeline.
LEMMA StoreNumbers ==
    ASSUME TypeOK, NEW w \in Workers, call[w] \in Call, NEW n \in Nat,
           Store(w, n), NEW id \in Ids
    PROVE  SequenceNumbers(id)' = IF id = call[w].id
                                  THEN SequenceNumbers(id) \cup {n}
                                  ELSE SequenceNumbers(id)
<1> DEFINE entry == [seq |-> n, event |-> EventOf(call[w])]
           old == audit[id]
<1>1. audit' = [audit EXCEPT ![call[w].id] = Append(@, entry)]
  BY DEF Store
<1>2. CASE id # call[w].id
  BY <1>1, <1>2 DEF SequenceNumbers, TypeOK
<1>3. CASE id = call[w].id
  <2>1. audit'[id] = Append(old, entry)
    BY <1>1, <1>3 DEF TypeOK
  <2>2. old \in Seq([seq : Nat, event : Event])
    BY DEF TypeOK
  <2>3. entry.seq = n
    OBVIOUS
  <2> HIDE DEF entry, old
  <2>4. /\ DOMAIN Append(old, entry) = DOMAIN old \cup {Len(old) + 1}
        /\ Append(old, entry)[Len(old) + 1] = entry
        /\ \A i \in DOMAIN old : Append(old, entry)[i] = old[i]
        /\ Len(old) + 1 \notin DOMAIN old
    BY <2>2
  <2>5. {Append(old, entry)[i].seq : i \in DOMAIN Append(old, entry)}
          = {old[i].seq : i \in DOMAIN old} \cup {n}
    BY <2>3, <2>4
  <2> QED
    BY <1>3, <2>1, <2>5 DEF SequenceNumbers, old
<1> QED
  BY <1>2, <1>3

\* Storing a number that leaves no gap keeps every timeline gapless, and the
\* number that any other transaction has computed still leaves none.
LEMMA StoreGapless ==
    ASSUME TypeOK, Gapless, NEW w \in Workers, call[w] \in Call,
           NEW n \in 1 .. NextSequence(call[w].id), Store(w, n)
    PROVE  Gapless'
<1>0. n \in Nat /\ call[w].id \in Ids
  BY DEF Call
<1>1. PICK last \in [Ids -> Nat] :
         \A id \in Ids : SequenceNumbers(id) = 1 .. last[id]
  <2> DEFINE last == [id \in Ids |-> CHOOSE k \in Nat : SequenceNumbers(id) = 1 .. k]
  <2> last \in [Ids -> Nat] /\ \A id \in Ids : SequenceNumbers(id) = 1 .. last[id]
    BY DEF Gapless
  <2> QED
    OBVIOUS
<1>2. \A id \in Ids : LastSequence(id) = last[id]
  BY <1>1, LastOfInterval
<1>3. n \in 1 .. last[call[w].id] + 1
  BY <1>0, <1>2 DEF NextSequence
<1> DEFINE later == [id \in Ids |-> IF id = call[w].id /\ n = last[id] + 1
                                    THEN last[id] + 1 ELSE last[id]]
<1>4. later \in [Ids -> Nat] /\ \A id \in Ids : later[id] >= last[id]
  BY <1>1
<1>5. \A id \in Ids : SequenceNumbers(id)' = 1 .. later[id]
  <2> TAKE id \in Ids
  <2>1. SequenceNumbers(id)' = IF id = call[w].id
                               THEN SequenceNumbers(id) \cup {n}
                               ELSE SequenceNumbers(id)
    BY <1>0, StoreNumbers
  <2>2. SequenceNumbers(id) = 1 .. last[id] /\ last[id] \in Nat
    BY <1>1
  <2>3. CASE id # call[w].id
    BY <2>1, <2>2, <2>3
  <2>4. CASE id = call[w].id
    <3>1. (1 .. last[id]) \cup {n} = 1 .. later[id]
      BY <1>3, <2>2, <2>4
    <3> QED
      BY <2>1, <2>2, <2>4, <3>1
  <2> QED
    BY <2>3, <2>4
<1>6. \A id \in Ids : LastSequence(id)' = later[id]
  <2> TAKE id \in Ids
  <2> DEFINE m == later[id]
  <2>1. m \in Nat /\ SequenceNumbers(id)' = 1 .. m
    BY <1>4, <1>5
  <2> HIDE DEF m
  <2>2. ({0} \cup SequenceNumbers(id))' = 0 .. m
    BY <2>1
  <2>3. \A x \in 0 .. m : (\A y \in 0 .. m : x >= y) <=> x = m
    BY <2>1
  <2>4. m \in 0 .. m
    BY <2>1
  <2>5. LastSequence(id)' = m
    BY <2>2, <2>3, <2>4 DEF LastSequence, Max
  <2> QED
    BY <2>5 DEF m
<1>7. ASSUME NEW v \in Workers
      PROVE  (call[v].pc = "insert" => call[v].seq \in 1 .. NextSequence(call[v].id))'
  <2> SUFFICES ASSUME call'[v].pc = "insert"
               PROVE  (call[v].seq \in 1 .. NextSequence(call[v].id))'
    OBVIOUS
  <2>1. v # w
    BY DEF Store, AfterEvent, Idle, TypeOK
  <2>2. call'[v] = call[v]
    BY <2>1 DEF Store, TypeOK
  <2>3. call[v] \in Call
    BY <2>2 DEF TypeOK, Idle
  <2>4. PICK id \in Ids : id = call[v].id
    BY <2>3 DEF Call
  <2>5. call[v].seq \in 1 .. last[id] + 1
    BY <1>2, <2>2, <2>4 DEF Gapless, NextSequence
  <2>6. last[id] \in Nat /\ later[id] \in Nat /\ later[id] >= last[id]
    BY <1>1, <1>4
  <2>7. LastSequence(id)' = later[id]
    BY <1>6
  <2>8. NextSequence(id)' = later[id] + 1
    BY <2>7 DEF NextSequence
  <2>9. call'[v].seq \in 1 .. NextSequence(id)'
    BY <2>2, <2>5, <2>6, <2>8
  <2>10. call'[v].id = id
    BY <2>2, <2>4
  <2> QED
    BY <2>9, <2>10
<1>8. (\A id \in Ids : \E k \in Nat : SequenceNumbers(id) = 1 .. k)'
  BY <1>4, <1>5
<1> QED
  BY <1>7, <1>8 DEF Gapless

\* The next number of a gapless timeline is a number.
LEMMA NextSequenceType ==
    ASSUME Gapless, NEW id \in Ids
    PROVE  NextSequence(id) \in Nat \ {0}
<1> PICK k \in Nat : SequenceNumbers(id) = 1 .. k
  BY DEF Gapless
<1> QED
  BY LastOfInterval DEF NextSequence

\* What Load leaves in a worker: a call about to write a record of a row.
LEMMA LoadedCall ==
    ASSUME TypeOK, NEW w \in Workers, Load(w)
    PROVE  \E c \in Call : c.pc = "update" /\ call' = [call EXCEPT ![w] = c]
<1>1. PICK id \in Ids, a \in Actors, op \in Operations :
        /\ row[Upper[id]] # NoRow
        /\ \/ \E ch \in Changes :
               call' = [call EXCEPT ![w] =
                 NewCall("update", id, a, Resubmitted(row[Upper[id]], ch), Emitted[op])]
           \/ \E hasNote \in BOOLEAN :
               call' = [call EXCEPT ![w] =
                 NewCall("update", id, a, Changed(row[Upper[id]], op, a, hasNote), Emitted[op])]
  BY DEF Load
<1>2. row[Upper[id]] \in Row /\ Emitted[op] \in EventTypes
  BY <1>1, IdsAssumption DEF TypeOK, Operations, TargetStatus, Emitted, EventTypes
<1>3. ASSUME NEW rec \in Row
      PROVE  LET c == NewCall("update", id, a, rec, Emitted[op])
             IN  c \in Call /\ c.pc = "update"
  BY <1>2, NewCallType
<1> QED
  BY <1>1, <1>2, <1>3, ResubmittedType, ChangedType

\* A step that stores no event and computes no number keeps both facts: each
\* worker is idle, as it was, or in a call that has not yet a number.
LEMMA SameTimelines ==
    ASSUME Gapless, UNCHANGED audit,
           NEW w \in Workers, NEW c, c.pc # "insert",
           call \in [Workers -> Call \cup {Idle}],
           call' = [call EXCEPT ![w] = c]
    PROVE  Gapless'
<1>1. \A id \in Ids : /\ SequenceNumbers(id)' = SequenceNumbers(id)
                      /\ NextSequence(id)' = NextSequence(id)
  BY DEF SequenceNumbers, NextSequence, LastSequence
<1>2. ASSUME NEW v \in Workers
      PROVE  (call[v].pc = "insert" => call[v].seq \in 1 .. NextSequence(call[v].id))'
  <2> SUFFICES ASSUME call'[v].pc = "insert"
               PROVE  (call[v].seq \in 1 .. NextSequence(call[v].id))'
    OBVIOUS
  <2>1. call'[v] = call[v] /\ call[v] \in Call
    BY DEF Idle
  <2>2. PICK id \in Ids : id = call[v].id
    BY <2>1 DEF Call
  <2>3. call[v].seq \in 1 .. NextSequence(id)'
    BY <1>1, <2>1, <2>2 DEF Gapless
  <2>4. call'[v].id = id
    BY <2>1, <2>2
  <2> QED
    BY <2>1, <2>3, <2>4
<1> QED
  BY <1>1, <1>2 DEF Gapless

\* What Create does to the rows and the calls.
LEMMA CreatedCall ==
    ASSUME NEW w \in Workers, Create(w)
    PROVE  \E r \in Requests, a \in Actors, ch \in Changes, hasApprover \in BOOLEAN :
             /\ row[r] = NoRow
             /\ HasRoom(r)
             /\ row' = [row EXCEPT ![r] = NewRow(ch, hasApprover)]
             /\ call' = [call EXCEPT ![w] =
                  NewCall("emit", r, a, NewRow(ch, hasApprover), "request_submitted")]
BY DEF Create

\* No timeline has a gap, and no call a number, before the first request.
LEMMA TypedInit == Init => TypeOK /\ Gapless
<1> SUFFICES ASSUME Init PROVE TypeOK /\ Gapless
  OBVIOUS
<1>1. TypeOK
  BY DEF Init, TypeOK
<1>2. \A id \in Ids : SequenceNumbers(id) = 1 .. 0
  BY DEF Init, SequenceNumbers
<1>3. Gapless
  BY <1>2 DEF Gapless, Init, Idle
<1> QED
  BY <1>1, <1>3

\* No step disturbs the types or leaves a gap: a number read by an open
\* transaction is at most one more than the last one committed.
LEMMA TypedNext == TypeOK /\ Gapless /\ [Next]_vars => TypeOK' /\ Gapless'
<1> SUFFICES ASSUME TypeOK, Gapless, [Next]_vars PROVE TypeOK' /\ Gapless'
  OBVIOUS
<1>0. \A w \in Workers : call[w] \in Call \/ call[w] = Idle
  BY DEF TypeOK
<1>1. ASSUME NEW w \in Workers, Create(w) PROVE TypeOK' /\ Gapless'
  <2>1. PICK r \in Requests, a \in Actors, ch \in Changes, hasApprover \in BOOLEAN :
          /\ row' = [row EXCEPT ![r] = NewRow(ch, hasApprover)]
          /\ call' = [call EXCEPT ![w] =
               NewCall("emit", r, a, NewRow(ch, hasApprover), "request_submitted")]
    BY <1>1, CreatedCall
  <2> DEFINE c == NewCall("emit", r, a, NewRow(ch, hasApprover), "request_submitted")
  <2>2. NewRow(ch, hasApprover) \in Row
    BY NewRowType
  <2>3. c \in Call /\ c.pc = "emit"
    BY <2>2, IdsAssumption, NewCallType DEF EventTypes
  <2> HIDE DEF c
  <2>4. TypeOK'
    BY <1>1, <2>1, <2>2, <2>3 DEF TypeOK, Create, c
  <2>5. Gapless'
    BY <1>1, <2>1, <2>3, SameTimelines DEF TypeOK, Create, c
  <2> QED
    BY <2>4, <2>5
<1>2. ASSUME NEW w \in Workers, Load(w) PROVE TypeOK' /\ Gapless'
  <2>1. PICK c \in Call : c.pc = "update" /\ call' = [call EXCEPT ![w] = c]
    BY <1>2, LoadedCall DEF TypeOK
  <2>2. TypeOK'
    BY <1>2, <2>1 DEF TypeOK, Load
  <2>3. Gapless'
    BY <1>2, <2>1, SameTimelines DEF TypeOK, Load
  <2> QED
    BY <2>2, <2>3
<1>3. ASSUME NEW w \in Workers, Lookup(w) PROVE TypeOK' /\ Gapless'
  <2>1. PICK id \in Ids, a \in Actors :
          /\ row[Upper[id]] # NoRow
          /\ call' = [call EXCEPT ![w] =
               NewCall("emit", id, a, row[Upper[id]], "lookup_performed")]
    BY <1>3 DEF Lookup
  <2> DEFINE c == NewCall("emit", id, a, row[Upper[id]], "lookup_performed")
  <2>2. row[Upper[id]] \in Row
    BY <2>1, IdsAssumption DEF TypeOK
  <2>3. c \in Call /\ c.pc = "emit"
    BY <2>2, NewCallType DEF EventTypes
  <2> HIDE DEF c
  <2>4. TypeOK'
    BY <1>3, <2>1, <2>3 DEF TypeOK, Lookup, c
  <2>5. Gapless'
    BY <1>3, <2>1, <2>3, SameTimelines DEF TypeOK, Lookup, c
  <2> QED
    BY <2>4, <2>5
<1>4. ASSUME NEW w \in Workers, Update(w) PROVE TypeOK' /\ Gapless'
  <2>1. call[w] \in Call
    BY <1>0, <1>4 DEF Update, Idle
  <2> DEFINE c == [call[w] EXCEPT !.pc = "emit"]
  <2>2. c \in Call /\ c.pc = "emit" /\ call[w].rec \in Row
    BY <2>1 DEF Call
  <2>3. call' = [call EXCEPT ![w] = c]
    BY <1>4 DEF Update
  <2>4. TypeOK'
    BY <1>4, <2>2, <2>3 DEF TypeOK, Update
  <2>5. Gapless'
    <3> HIDE DEF c
    <3> QED BY <1>4, <2>2, <2>3, SameTimelines DEF TypeOK, Update
  <2> QED
    BY <2>4, <2>5
<1>5. ASSUME NEW w \in Workers, AppendEvent(w) PROVE TypeOK' /\ Gapless'
  <2>1. call[w] \in Call /\ call[w].id \in Ids
    BY <1>0, <1>5 DEF AppendEvent, Idle, Call
  <2> DEFINE n == NextSequence(call[w].id)
  <2>2. n \in Nat \ {0}
    BY <2>1, NextSequenceType
  <2>3. Store(w, n)
    BY <1>5 DEF AppendEvent
  <2>4. n \in Nat /\ n \in 1 .. NextSequence(call[w].id)
    BY <2>2
  <2> QED
    BY <2>1, <2>3, <2>4, StoreType, StoreGapless
<1>6. ASSUME NEW w \in Workers, ReadSequence(w) PROVE TypeOK' /\ Gapless'
  <2>1. call[w] \in Call /\ call[w].id \in Ids
    BY <1>0, <1>6 DEF ReadSequence, Idle, Call
  <2>2. NextSequence(call[w].id) \in Nat \ {0}
    BY <2>1, NextSequenceType
  <2> DEFINE n == NextSequence(call[w].id)
             c == [call[w] EXCEPT !.pc = "insert", !.seq = n]
  <2>3. c \in Call /\ c.id = call[w].id /\ c.seq = n
    <3> n \in Nat
      BY <2>2
    <3> HIDE DEF n
    <3> QED BY <2>1 DEF Call
  <2>4. call' = [call EXCEPT ![w] = c]
    BY <1>6 DEF ReadSequence
  <2>5. TypeOK'
    BY <1>6, <2>3, <2>4 DEF TypeOK, ReadSequence
  <2>6. \A id \in Ids : /\ SequenceNumbers(id)' = SequenceNumbers(id)
                        /\ NextSequence(id)' = NextSequence(id)
    BY <1>6 DEF ReadSequence, SequenceNumbers, NextSequence, LastSequence
  <2>7. ASSUME NEW v \in Workers
        PROVE  (call[v].pc = "insert" => call[v].seq \in 1 .. NextSequence(call[v].id))'
    <3> SUFFICES ASSUME call'[v].pc = "insert"
                 PROVE  (call[v].seq \in 1 .. NextSequence(call[v].id))'
      OBVIOUS
    <3>1. call'[v] \in Call
      BY <2>5 DEF TypeOK, Idle
    <3>2. PICK id \in Ids : id = call'[v].id
      BY <3>1 DEF Call
    <3>3. call'[v].seq \in 1 .. NextSequence(id)
      <4>1. CASE v = w
        <5>1. call'[v] = c /\ id = call[w].id
          BY <2>3, <2>4, <3>2, <4>1 DEF TypeOK
        <5> QED
          BY <2>2, <2>3, <5>1
      <4>2. CASE v # w
        BY <2>4, <3>2, <4>2 DEF Gapless, TypeOK
      <4> QED
        BY <4>1, <4>2
    <3> QED
      BY <2>6, <3>2, <3>3
  <2>8. Gapless'
    BY <2>6, <2>7 DEF Gapless
  <2> QED
    BY <2>5, <2>8
<1>7. ASSUME NEW w \in Workers, InsertEvent(w) PROVE TypeOK' /\ Gapless'
  <2>1. call[w] \in Call
    BY <1>0, <1>7 DEF InsertEvent, Idle
  <2>2. call[w].seq \in Nat /\ call[w].seq \in 1 .. NextSequence(call[w].id)
    BY <1>7, <2>1 DEF InsertEvent, Gapless, Call
  <2>3. Store(w, call[w].seq)
    BY <1>7 DEF InsertEvent
  <2> QED
    BY <2>1, <2>2, <2>3, StoreType, StoreGapless
<1>8. ASSUME NEW w \in Workers, Abort(w) PROVE TypeOK' /\ Gapless'
  <2>1. call[w] \in Call /\ Upper[call[w].id] \in Requests
    BY <1>0, <1>8, IdsAssumption DEF Abort, Call
  <2>2. EventOf(call[w]) \in Event
    BY <2>1, EventOfType
  <2>3. lost' \in [Requests -> SUBSET Event]
    BY <1>8, <2>1, <2>2 DEF Abort, TypeOK
  <2>4. TypeOK'
    BY <1>8, <2>3 DEF Abort, TypeOK
  <2>5. Gapless'
    BY <1>8, SameTimelines DEF Abort, TypeOK, Idle
  <2> QED
    BY <2>4, <2>5
<1>9. CASE UNCHANGED vars
  <2>1. /\ row' = row /\ audit' = audit /\ call' = call /\ lost' = lost
    BY <1>9 DEF vars
  <2>2. TypeOK'
    BY <2>1 DEF TypeOK
  <2>3. \A id \in Ids : /\ SequenceNumbers(id)' = SequenceNumbers(id)
                        /\ NextSequence(id)' = NextSequence(id)
    BY <2>1 DEF SequenceNumbers, NextSequence, LastSequence
  <2>4. ASSUME NEW w \in Workers
        PROVE  (call[w].pc = "insert" => call[w].seq \in 1 .. NextSequence(call[w].id))'
    <3> SUFFICES ASSUME call'[w].pc = "insert"
                 PROVE  (call[w].seq \in 1 .. NextSequence(call[w].id))'
      OBVIOUS
    <3>1. call[w] \in Call /\ call[w].id \in Ids
      BY <2>1 DEF TypeOK, Call, Idle
    <3>2. PICK id \in Ids : id = call'[w].id
      BY <2>1, <3>1
    <3> QED
      BY <2>1, <2>3, <3>2 DEF Gapless
  <2> QED
    BY <2>2, <2>3, <2>4 DEF Gapless
<1> QED
  BY <1>1, <1>2, <1>3, <1>4, <1>5, <1>6, <1>7, <1>8, <1>9 DEF Next, Quiescent

\* Rows, timelines, calls and lost events always have their types.
THEOREM TypeCorrect == Spec => []TypeOK
<1>1. Spec => [](TypeOK /\ Gapless)
  BY TypedInit, TypedNext, PTL DEF Spec
<1> QED
  BY <1>1, PTL

\* No timeline ever skips a sequence number, whichever store keeps it and
\* however many handlers record events at once.
THEOREM NoGapsCorrect == Spec => []NoGaps
<1>1. Spec => [](TypeOK /\ Gapless)
  BY TypedInit, TypedNext, PTL DEF Spec
<1>2. Gapless => NoGaps
  BY LastOfInterval DEF Gapless, NoGaps
<1> QED
  BY <1>1, <1>2, PTL

(***************************************************************************)
(* The Sheets store.  No handler ever holds a number there, and the next    *)
(* one is the next position, so the numbers are positions.                 *)
(***************************************************************************)

NoneHeld == AtomicSequence => \A w \in Workers : call[w].pc # "insert"

\* The numbers of a timeline whose numbers are positions: the next number is
\* the next position.
LEMMA NextPosition ==
    ASSUME TypeOK, NEW id \in Ids, \A i \in DOMAIN audit[id] : audit[id][i].seq = i
    PROVE  NextSequence(id) = Len(audit[id]) + 1
<1>1. Len(audit[id]) \in Nat /\ DOMAIN audit[id] = 1 .. Len(audit[id])
  BY DEF TypeOK
<1>2. SequenceNumbers(id) = 1 .. Len(audit[id])
  BY <1>1 DEF SequenceNumbers
<1> QED
  BY <1>1, <1>2, LastOfInterval DEF NextSequence

\* Appending an event under the lock gives it its position as its number.
LEMMA AppendOrdered ==
    ASSUME TypeOK, AtomicSequence, CommitOrder,
           NEW w \in Workers, AppendEvent(w)
    PROVE  CommitOrder'
<1> DEFINE entry == [seq |-> NextSequence(call[w].id), event |-> EventOf(call[w])]
<1>1. call[w].id \in Ids
  BY IdleIsNoCall DEF AppendEvent, TypeOK, Idle, Call
<1>2. PICK id \in Ids : id = call[w].id
  BY <1>1
<1>3. entry.seq = Len(audit[id]) + 1
  BY <1>2, NextPosition DEF CommitOrder
<1>4. audit' = [audit EXCEPT ![id] = Append(@, entry)]
  BY <1>2 DEF AppendEvent, Store
<1>5. audit[id] \in Seq([seq : Nat, event : Event])
  BY DEF TypeOK
<1> DEFINE old == audit[id]
<1>6. \A i \in DOMAIN old : old[i].seq = i
  BY DEF CommitOrder
<1>7. audit'[id] = Append(old, entry)
  BY <1>4 DEF TypeOK
<1> HIDE DEF entry
<1>8. \A i \in DOMAIN audit'[id] : audit'[id][i].seq = i
  <2> HIDE DEF old
  <2>1. old \in Seq([seq : Nat, event : Event])
    BY <1>5 DEF old
  <2>2. /\ DOMAIN Append(old, entry) = DOMAIN old \cup {Len(old) + 1}
        /\ Append(old, entry)[Len(old) + 1] = entry
        /\ \A i \in DOMAIN old : Append(old, entry)[i] = old[i]
    BY <2>1
  <2>3. entry.seq = Len(old) + 1
    BY <1>3 DEF old
  <2> QED
    BY <1>6, <1>7, <2>2, <2>3
<1>9. \A j \in Ids \ {id} : audit'[j] = audit[j]
  BY <1>4 DEF TypeOK
<1> QED
  BY <1>8, <1>9 DEF CommitOrder

\* No step of the Sheets store hands out a number or changes one.
LEMMA OrderedNext ==
    ASSUME TypeOK, NoneHeld, CommitOrder, [Next]_vars
    PROVE  NoneHeld' /\ CommitOrder'
<1> SUFFICES ASSUME AtomicSequence PROVE NoneHeld' /\ CommitOrder'
  BY DEF NoneHeld, CommitOrder
<1>0. call \in [Workers -> Call \cup {Idle}] /\ \A w \in Workers : call[w].pc # "insert"
  BY DEF TypeOK, NoneHeld
<1>1. ASSUME NEW w \in Workers, NEW c, c.pc # "insert",
             call' = [call EXCEPT ![w] = c]
      PROVE  NoneHeld'
  BY <1>0, <1>1 DEF NoneHeld
<1>2. ASSUME UNCHANGED audit PROVE CommitOrder'
  BY <1>2 DEF CommitOrder
<1>3. ASSUME NEW w \in Workers, Create(w) PROVE NoneHeld' /\ CommitOrder'
  <2>1. PICK c : c.pc # "insert" /\ call' = [call EXCEPT ![w] = c]
    BY <1>3 DEF Create, NewCall
  <2> QED
    BY <1>1, <1>2, <1>3, <2>1 DEF Create
<1>4. ASSUME NEW w \in Workers, Load(w) PROVE NoneHeld' /\ CommitOrder'
  <2>1. PICK c : c.pc # "insert" /\ call' = [call EXCEPT ![w] = c]
    BY <1>4, LoadedCall
  <2> QED
    BY <1>1, <1>2, <1>4, <2>1 DEF Load
<1>5. ASSUME NEW w \in Workers, Lookup(w) PROVE NoneHeld' /\ CommitOrder'
  <2>1. PICK c : c.pc # "insert" /\ call' = [call EXCEPT ![w] = c]
    BY <1>5 DEF Lookup, NewCall
  <2> QED
    BY <1>1, <1>2, <1>5, <2>1 DEF Lookup
<1>6. ASSUME NEW w \in Workers, Update(w) PROVE NoneHeld' /\ CommitOrder'
  <2>1. \A v \in Workers : call'[v].pc # "insert"
    BY <1>0, <1>6 DEF Update, Call, Idle
  <2> QED
    BY <1>2, <1>6, <2>1 DEF Update, NoneHeld
<1>7. ASSUME NEW w \in Workers, AppendEvent(w) PROVE NoneHeld' /\ CommitOrder'
  <2>1. AfterEvent(call[w]).pc # "insert"
    BY <1>0, <1>7 DEF AfterEvent, AppendEvent, Call, Idle
  <2>2. NoneHeld'
    BY <1>1, <1>7, <2>1 DEF AppendEvent, Store
  <2> QED
    BY <1>7, <2>2, AppendOrdered
<1>8. ASSUME NEW w \in Workers, Abort(w) PROVE NoneHeld' /\ CommitOrder'
  BY <1>1, <1>2, <1>8 DEF Abort, Idle
<1>9. ASSUME UNCHANGED vars PROVE NoneHeld' /\ CommitOrder'
  BY <1>0, <1>2, <1>9 DEF vars, NoneHeld
<1> QED
  BY <1>0, <1>3, <1>4, <1>5, <1>6, <1>7, <1>8, <1>9
  DEF Next, ReadSequence, InsertEvent, Quiescent

\* Under the Sheets store's lock the sequence numbers of a timeline are unique
\* and count its events in the order in which they were appended.
THEOREM CommitOrderCorrect == Spec => []CommitOrder
<1>1. Spec => []TypeOK
  BY TypeCorrect
<1>2. Init => NoneHeld /\ CommitOrder
  BY DEF Init, NoneHeld, CommitOrder, Idle
<1>3. TypeOK /\ NoneHeld /\ CommitOrder /\ [Next]_vars => NoneHeld' /\ CommitOrder'
  BY OrderedNext
<1> QED
  BY <1>1, <1>2, <1>3, PTL DEF Spec

(***************************************************************************)
(* Whole rows.  The record a handler is about to write was computed from   *)
(* one row, and update_request writes it whole: that is why no race can    *)
(* mix two handlers' columns.  The same record is explained by the event   *)
(* its handler will owe.                                                   *)
(***************************************************************************)

CallsWhole ==
    \A w \in Workers : call[w].pc = "update" =>
        /\ WholeRecord(call[w].rec)
        /\ Explains(EventOf(call[w]), call[w].rec)

\* The record c is about to write continues the row that is there now.
Continues(c) ==
    LET rec == row[Upper[c.id]] IN
    /\ rec # NoRow
    /\ rec.status \in Statuses \ Terminal
    /\ c.rec.status \in AllowedTransitions[rec.status]
    /\ c.rec.lastRev = IF c.rec.status = "submitted" THEN rec.lastRev + 1
                                                     ELSE rec.lastRev
    /\ c.rec.status = "submitted" => rec.lastRev < MaxRevision

\* _change_status makes a whole record of a whole record when the transition is
\* allowed: the statuses it starts from have no resolution columns yet.
LEMMA ChangedWhole ==
    ASSUME NEW rec \in Row, WholeRecord(rec), NEW op \in Operations \ {"resubmit"},
           NEW a \in Actors, NEW hasNote \in BOOLEAN,
           op = "reject" /\ RejectRequiresReason => hasNote,
           TargetStatus[op] \in AllowedTransitions[rec.status],
           NEW c \in Call, c.rec = Changed(rec, op, a, hasNote),
           c.event = Emitted[op], c.actor = a
    PROVE  /\ WholeRecord(c.rec)
           /\ Explains(EventOf(c), c.rec)
           /\ c.rec.status = TargetStatus[op]
           /\ c.rec.status # "submitted"
           /\ c.rec.lastRev = rec.lastRev
<1>0. op \in {"needinfo", "approve", "reject", "cancel"}
  BY DEF Operations, TargetStatus
<1>1. /\ rec.status \in {"submitted", "needs_info"}
      /\ rec.resolvedBy = NoActor /\ rec.cancelledBy = NoActor
  BY DEF WholeRecord, AllowedTransitions, Row, Statuses
<1>2. /\ c.rec.status = TargetStatus[op]
      /\ c.rec.resolvedBy = IF op \in Resolving THEN a ELSE NoActor
      /\ c.rec.noted = IF op \in Resolving THEN hasNote ELSE rec.noted
      /\ c.rec.cancelledBy = IF op = "cancel" THEN a ELSE NoActor
      /\ c.rec.lastRev = rec.lastRev
      /\ c.rec.currentRev = rec.currentRev
  BY <1>1 DEF Changed, Row
<1>3. a # NoActor
  BY ValuesAssumption
<1>4. TargetStatus[op] \in {"needs_info", "approved", "rejected", "cancelled"}
  BY <1>0 DEF TargetStatus
<1>5. WholeRecord(c.rec)
  BY <1>0, <1>2, <1>3 DEF WholeRecord, TargetStatus, Resolving
<1>6. /\ EventOf(c).rev = c.rec.lastRev
      /\ EventOf(c).type = Emitted[op]
      /\ EventOf(c).by = a
  BY <1>0 DEF EventOf, Emitted
<1>7. Explains(EventOf(c), c.rec)
  BY <1>0, <1>2, <1>6 DEF Explains, TargetStatus, Emitted, Resolving
<1> QED
  BY <1>2, <1>4, <1>5, <1>7

\* resubmit_request makes a whole record of a whole record that needs information.
LEMMA ResubmittedWhole ==
    ASSUME NEW rec \in Row, WholeRecord(rec), NEW ch \in Changes,
           "submitted" \in AllowedTransitions[rec.status],
           NEW c \in Call, c.rec = Resubmitted(rec, ch),
           c.event = "request_resubmitted"
    PROVE  /\ WholeRecord(c.rec)
           /\ Explains(EventOf(c), c.rec)
           /\ c.rec.status = "submitted"
           /\ c.rec.lastRev = rec.lastRev + 1
<1>1. rec.status = "needs_info"
  BY DEF WholeRecord, AllowedTransitions, Row, Statuses
<1>2. rec.lastRev \in Nat /\ rec.currentRev = rec.lastRev /\ rec.lastRev >= 1
  BY DEF Row, WholeRecord
<1>3. /\ c.rec.status = "submitted"
      /\ c.rec.lastRev = rec.currentRev + 1
      /\ c.rec.currentRev = rec.currentRev + 1
      /\ c.rec.change = ch
      /\ c.rec.resolvedBy = rec.resolvedBy
      /\ c.rec.cancelledBy = rec.cancelledBy
  BY DEF Resubmitted, Row
<1>4. WholeRecord(c.rec)
  BY <1>1, <1>2, <1>3 DEF WholeRecord
<1>5. /\ EventOf(c).rev = c.rec.lastRev
      /\ EventOf(c).type = "request_resubmitted"
      /\ EventOf(c).change = c.rec.change
  BY DEF EventOf
<1>6. c.rec.lastRev # 1
  BY <1>2, <1>3
<1>7. Explains(EventOf(c), c.rec)
  BY <1>3, <1>5, <1>6 DEF Explains
<1> QED
  BY <1>2, <1>3, <1>4, <1>7

\* What Load leaves in a worker when the rows are whole.
LEMMA LoadedWhole ==
    ASSUME TypeOK, RowsWhole, NEW w \in Workers, Load(w)
    PROVE  \E c \in Call :
             /\ c.pc = "update"
             /\ call' = [call EXCEPT ![w] = c]
             /\ WholeRecord(c.rec)
             /\ Explains(EventOf(c), c.rec)
             /\ Continues(c)
<1>1. PICK id \in Ids, a \in Actors, op \in Operations :
        /\ row[Upper[id]] # NoRow
        /\ TargetStatus[op] \in AllowedTransitions[row[Upper[id]].status]
        /\ \/ /\ op = "resubmit"
              /\ row[Upper[id]].currentRev < MaxRevision
              /\ \E ch \in Changes :
                   call' = [call EXCEPT ![w] =
                     NewCall("update", id, a, Resubmitted(row[Upper[id]], ch), Emitted[op])]
           \/ /\ op # "resubmit"
              /\ \E hasNote \in BOOLEAN :
                   /\ op = "reject" /\ RejectRequiresReason => hasNote
                   /\ call' = [call EXCEPT ![w] =
                        NewCall("update", id, a, Changed(row[Upper[id]], op, a, hasNote), Emitted[op])]
  BY DEF Load
<1> DEFINE rec == row[Upper[id]]
<1>2. Upper[id] \in Requests /\ rec \in Row /\ WholeRecord(rec)
  BY <1>1, IdsAssumption DEF TypeOK, RowsWhole
<1>3. Emitted[op] \in EventTypes
  BY DEF Operations, TargetStatus, Emitted, EventTypes
<1>4. rec.status \in Statuses \ Terminal
  BY <1>1, <1>2 DEF AllowedTransitions, Row, Statuses, Terminal
<1>5. CASE op = "resubmit"
  <2>1. PICK ch \in Changes :
          call' = [call EXCEPT ![w] =
            NewCall("update", id, a, Resubmitted(rec, ch), Emitted[op])]
    BY <1>1, <1>5
  <2> DEFINE c == NewCall("update", id, a, Resubmitted(rec, ch), Emitted[op])
  <2>2. c \in Call
    BY <1>2, <1>3, ResubmittedType, NewCallType
  <2>3. /\ c.rec = Resubmitted(rec, ch) /\ c.event = "request_resubmitted"
        /\ c.id = id /\ c.pc = "update"
    BY <1>5 DEF Emitted, NewCall
  <2>4. "submitted" \in AllowedTransitions[rec.status]
    BY <1>1, <1>5 DEF TargetStatus
  <2> HIDE DEF c, rec
  <2>5. /\ WholeRecord(c.rec)
        /\ Explains(EventOf(c), c.rec)
        /\ c.rec.status = "submitted"
        /\ c.rec.lastRev = rec.lastRev + 1
    BY <1>2, <2>2, <2>3, <2>4, ResubmittedWhole
  <2>6. rec.lastRev < MaxRevision
    BY <1>1, <1>2, <1>5 DEF WholeRecord, rec
  <2>7. Continues(c)
    BY <1>1, <1>4, <2>3, <2>4, <2>5, <2>6 DEF Continues, rec
  <2> QED
    BY <2>1, <2>2, <2>3, <2>5, <2>7 DEF c
<1>6. CASE op # "resubmit"
  <2>1. PICK hasNote \in BOOLEAN :
          /\ op = "reject" /\ RejectRequiresReason => hasNote
          /\ call' = [call EXCEPT ![w] =
               NewCall("update", id, a, Changed(rec, op, a, hasNote), Emitted[op])]
    BY <1>1, <1>6
  <2> DEFINE c == NewCall("update", id, a, Changed(rec, op, a, hasNote), Emitted[op])
  <2>2. c \in Call
    BY <1>2, <1>3, ChangedType, NewCallType
  <2>3. /\ c.rec = Changed(rec, op, a, hasNote) /\ c.event = Emitted[op]
        /\ c.actor = a /\ c.id = id /\ c.pc = "update"
    BY DEF NewCall
  <2>4. TargetStatus[op] \in AllowedTransitions[rec.status]
    BY <1>1
  <2> HIDE DEF c, rec
  <2>5. /\ WholeRecord(c.rec)
        /\ Explains(EventOf(c), c.rec)
        /\ c.rec.status = TargetStatus[op]
        /\ c.rec.status # "submitted"
        /\ c.rec.lastRev = rec.lastRev
    BY <1>2, <1>6, <2>1, <2>2, <2>3, <2>4, ChangedWhole
  <2>6. Continues(c)
    BY <1>1, <1>4, <2>3, <2>4, <2>5 DEF Continues, rec
  <2> QED
    BY <2>1, <2>2, <2>3, <2>5, <2>6 DEF c
<1> QED
  BY <1>5, <1>6

\* There is no row and no record to write at first.
LEMMA WholeInit == Init => RowsWhole /\ CallsWhole
BY DEF Init, RowsWhole, CallsWhole, Idle

\* A call that is not about to write a row gives CallsWhole nothing to hold of.
LEMMA SameWriters ==
    ASSUME CallsWhole, NEW w \in Workers, NEW c, c.pc # "update",
           call \in [Workers -> Call \cup {Idle}],
           call' = [call EXCEPT ![w] = c]
    PROVE  CallsWhole'
<1> SUFFICES ASSUME NEW v \in Workers, call'[v].pc = "update"
             PROVE  /\ WholeRecord(call'[v].rec)
                    /\ Explains(EventOf(call'[v]), call'[v].rec)
  BY DEF CallsWhole
<1>1. call'[v] = call[v]
  OBVIOUS
<1> QED
  BY <1>1 DEF CallsWhole

\* Every step keeps the rows whole, and the records that calls are about to
\* write over them.
LEMMA WholeNext ==
    ASSUME TypeOK, RowsWhole, CallsWhole, [Next]_vars
    PROVE  RowsWhole' /\ CallsWhole'
<1>0. call \in [Workers -> Call \cup {Idle}]
  BY DEF TypeOK
<1>1. ASSUME NEW w \in Workers, Create(w) PROVE RowsWhole' /\ CallsWhole'
  <2>1. PICK r \in Requests, a \in Actors, ch \in Changes, hasApprover \in BOOLEAN :
          /\ row' = [row EXCEPT ![r] = NewRow(ch, hasApprover)]
          /\ call' = [call EXCEPT ![w] =
               NewCall("emit", r, a, NewRow(ch, hasApprover), "request_submitted")]
    BY <1>1, CreatedCall
  <2>2. WholeRecord(NewRow(ch, hasApprover))
    BY DEF WholeRecord, NewRow
  <2>3. RowsWhole'
    BY <2>1, <2>2 DEF RowsWhole, TypeOK
  <2>4. CallsWhole'
    BY <1>0, <2>1, SameWriters DEF NewCall
  <2> QED
    BY <2>3, <2>4
<1>2. ASSUME NEW w \in Workers, Load(w) PROVE RowsWhole' /\ CallsWhole'
  <2>1. PICK c : /\ call' = [call EXCEPT ![w] = c]
                 /\ WholeRecord(c.rec)
                 /\ Explains(EventOf(c), c.rec)
    BY <1>2, LoadedWhole
  <2>2. RowsWhole'
    BY <1>2 DEF RowsWhole, Load
  <2>3. ASSUME NEW v \in Workers, call'[v].pc = "update"
        PROVE  /\ WholeRecord(call'[v].rec)
               /\ Explains(EventOf(call'[v]), call'[v].rec)
    <3>1. CASE v = w
      BY <1>0, <2>1, <3>1
    <3>2. CASE v # w
      BY <1>0, <2>1, <2>3, <3>2 DEF CallsWhole
    <3> QED
      BY <3>1, <3>2
  <2> QED
    BY <2>2, <2>3 DEF CallsWhole
<1>3. ASSUME NEW w \in Workers, Lookup(w) PROVE RowsWhole' /\ CallsWhole'
  <2>1. PICK c : c.pc # "update" /\ call' = [call EXCEPT ![w] = c]
    BY <1>3 DEF Lookup, NewCall
  <2> QED
    BY <1>0, <1>3, <2>1, SameWriters DEF Lookup, RowsWhole
<1>4. ASSUME NEW w \in Workers, Update(w) PROVE RowsWhole' /\ CallsWhole'
  <2>1. WholeRecord(call[w].rec)
    BY <1>4 DEF Update, CallsWhole
  <2>2. RowsWhole'
    BY <1>4, <2>1 DEF Update, RowsWhole, TypeOK
  <2>3. call[w] \in Call
    BY <1>0, <1>4 DEF Update, Idle
  <2> DEFINE c == [call[w] EXCEPT !.pc = "emit"]
  <2>4. c.pc # "update"
    BY <2>3 DEF Call
  <2>5. call' = [call EXCEPT ![w] = c]
    BY <1>4 DEF Update
  <2> HIDE DEF c
  <2> QED
    BY <1>0, <2>2, <2>4, <2>5, SameWriters
<1>5. ASSUME NEW w \in Workers, NEW n, call[w] \in Call, Store(w, n)
      PROVE  RowsWhole' /\ CallsWhole'
  <2>1. AfterEvent(call[w]).pc # "update"
    BY <1>5 DEF AfterEvent, Idle, Call
  <2> QED
    BY <1>0, <1>5, <2>1, SameWriters DEF Store, RowsWhole
<1>6. ASSUME NEW w \in Workers, AppendEvent(w) PROVE RowsWhole' /\ CallsWhole'
  BY <1>0, <1>5, <1>6 DEF AppendEvent, Idle
<1>7. ASSUME NEW w \in Workers, ReadSequence(w) PROVE RowsWhole' /\ CallsWhole'
  <2> DEFINE c == [call[w] EXCEPT !.pc = "insert", !.seq = NextSequence(call[w].id)]
  <2>1. call[w] \in Call
    BY <1>0, <1>7 DEF ReadSequence, Idle
  <2>2. c.pc # "update"
    BY <2>1 DEF Call
  <2>3. call' = [call EXCEPT ![w] = c]
    BY <1>7 DEF ReadSequence
  <2> HIDE DEF c
  <2> QED
    BY <1>0, <1>7, <2>2, <2>3, SameWriters DEF ReadSequence, RowsWhole
<1>8. ASSUME NEW w \in Workers, InsertEvent(w) PROVE RowsWhole' /\ CallsWhole'
  BY <1>0, <1>5, <1>8 DEF InsertEvent, Idle
<1>9. ASSUME NEW w \in Workers, Abort(w) PROVE RowsWhole' /\ CallsWhole'
  BY <1>0, <1>9, SameWriters DEF Abort, RowsWhole, Idle
<1>10. CASE UNCHANGED vars
  BY <1>10 DEF vars, RowsWhole, CallsWhole
<1> QED
  BY <1>1, <1>2, <1>3, <1>4, <1>6, <1>7, <1>8, <1>9, <1>10 DEF Next, Quiescent

\* No race of handlers, no failed call and no crash leaves a row that mixes two
\* writes: an approved row always says who approved it, a cancelled row who
\* cancelled it, and neither carries the other's columns.
THEOREM RowsWholeCorrect == Spec => []RowsWhole
<1>1. TypeOK /\ (RowsWhole /\ CallsWhole) /\ [Next]_vars => (RowsWhole /\ CallsWhole)'
  BY WholeNext
<1> QED
  BY <1>1, WholeInit, TypeCorrect, PTL DEF Spec

(***************************************************************************)
(* Explained rows.  What explains a row is never forgotten: an owed event  *)
(* is recorded or lost, a recorded or lost one stays.                      *)
(***************************************************************************)

\* When worker w moves, the events the other workers owe stay owed.
LEMMA OthersOwe ==
    ASSUME NEW w \in Workers, NEW c, call \in [Workers -> Call \cup {Idle}],
           call' = [call EXCEPT ![w] = c],
           NEW r \in Requests, NEW e \in Owed(r),
           ~(w \in Owing(r) /\ e = EventOf(call[w]))
    PROVE  e \in Owed(r)'
<1>1. PICK v \in Owing(r) : e = EventOf(call[v])
  BY DEF Owed
<1>2. v \in Workers /\ v # w
  BY <1>1 DEF Owing
<1>3. call'[v] = call[v]
  BY <1>2
<1>4. v \in Owing(r)'
  BY <1>1, <1>2, <1>3 DEF Owing
<1>5. e = EventOf(call'[v])
  BY <1>1, <1>3
<1> QED
  BY <1>4, <1>5 DEF Owed

\* A stored event joins what is recorded of its request, and nothing else
\* changes.
LEMMA StoreRecords ==
    ASSUME TypeOK, NEW w \in Workers, call[w] \in Call, NEW n \in Nat,
           Store(w, n), NEW r \in Requests
    PROVE  Recorded(r)' = IF Upper[call[w].id] = r
                          THEN Recorded(r) \cup {EventOf(call[w])}
                          ELSE Recorded(r)
<1> DEFINE entry == [seq |-> n, event |-> EventOf(call[w])]
<1>1. call[w].id \in Ids
  BY DEF Call
<1>2. ASSUME NEW id \in Ids
      PROVE  Timeline(id)' = IF id = call[w].id
                             THEN Timeline(id) \cup {EventOf(call[w])}
                             ELSE Timeline(id)
  <2>1. audit' = [audit EXCEPT ![call[w].id] = Append(@, entry)]
    BY DEF Store
  <2>2. CASE id # call[w].id
    BY <2>1, <2>2 DEF Timeline, TypeOK
  <2>3. CASE id = call[w].id
    <3> DEFINE old == audit[id]
    <3>1. old \in Seq([seq : Nat, event : Event])
      BY DEF TypeOK
    <3>2. audit'[id] = Append(old, entry)
      BY <2>1, <2>3 DEF TypeOK
    <3>0. entry.event = EventOf(call[w])
      OBVIOUS
    <3> HIDE DEF entry, old
    <3>3. /\ DOMAIN Append(old, entry) = DOMAIN old \cup {Len(old) + 1}
          /\ Append(old, entry)[Len(old) + 1] = entry
          /\ \A i \in DOMAIN old : Append(old, entry)[i] = old[i]
      BY <3>1
    <3>4. Timeline(id)' = {Append(old, entry)[i].event : i \in DOMAIN Append(old, entry)}
      BY <3>2 DEF Timeline
    <3>5. Timeline(id) = {old[i].event : i \in DOMAIN old}
      BY DEF Timeline, old
    <3> QED
      BY <2>3, <3>0, <3>3, <3>4, <3>5
  <2> QED
    BY <2>2, <2>3
<1> QED
  BY <1>1, <1>2 DEF Recorded

\* No step takes an event of a request away: it stays recorded, or moves from
\* owed to recorded, or from owed to lost.
LEMMA HistoryGrows ==
    ASSUME TypeOK, Gapless, [Next]_vars, NEW r \in Requests
    PROVE  History(r) \subseteq History(r)'
<1> SUFFICES ASSUME NEW e \in History(r) PROVE e \in History(r)'
  OBVIOUS
<1>0. call \in [Workers -> Call \cup {Idle}]
  BY DEF TypeOK
<1>a. UNCHANGED audit => Recorded(r)' = Recorded(r)
  BY DEF Recorded, Timeline
<1>b. UNCHANGED lost => lost'[r] = lost[r]
  OBVIOUS
<1>c. ASSUME NEW w \in Workers, NEW c, w \notin Owing(r),
             call' = [call EXCEPT ![w] = c], UNCHANGED <<audit, lost>>
      PROVE  e \in History(r)'
  BY <1>0, <1>a, <1>b, <1>c, OthersOwe DEF History
<1>1. ASSUME NEW w \in Workers, Create(w) PROVE e \in History(r)'
  <2>1. w \notin Owing(r)
    BY <1>1 DEF Create, Owing, Idle
  <2>2. PICK c : call' = [call EXCEPT ![w] = c]
    BY <1>1, CreatedCall
  <2> QED
    BY <1>1, <1>c, <2>1, <2>2 DEF Create
<1>2. ASSUME NEW w \in Workers, Load(w) PROVE e \in History(r)'
  <2>1. w \notin Owing(r)
    BY <1>2 DEF Load, Owing, Idle
  <2>2. PICK c : call' = [call EXCEPT ![w] = c]
    BY <1>2 DEF Load
  <2> QED
    BY <1>2, <1>c, <2>1, <2>2 DEF Load
<1>3. ASSUME NEW w \in Workers, Lookup(w) PROVE e \in History(r)'
  <2>1. w \notin Owing(r)
    BY <1>3 DEF Lookup, Owing, Idle
  <2>2. PICK c : call' = [call EXCEPT ![w] = c]
    BY <1>3 DEF Lookup
  <2> QED
    BY <1>3, <1>c, <2>1, <2>2 DEF Lookup
<1>4. ASSUME NEW w \in Workers, Update(w) PROVE e \in History(r)'
  BY <1>4, <1>c DEF Update, Owing
<1>5. ASSUME NEW w \in Workers, NEW n \in Nat, call[w] \in Call, Store(w, n)
      PROVE  e \in History(r)'
  <2>1. CASE w \in Owing(r) /\ e = EventOf(call[w])
    BY <1>5, <2>1, StoreRecords DEF History, Owing
  <2>2. CASE ~(w \in Owing(r) /\ e = EventOf(call[w]))
    <3>1. call' = [call EXCEPT ![w] = AfterEvent(call[w])] /\ lost' = lost
      BY <1>5 DEF Store
    <3>2. Recorded(r) \subseteq Recorded(r)'
      BY <1>5, StoreRecords
    <3>3. e \in Owed(r) => e \in Owed(r)'
      BY <1>0, <2>2, <3>1, OthersOwe
    <3> QED
      BY <3>1, <3>2, <3>3 DEF History
  <2> QED
    BY <2>1, <2>2
<1>6. ASSUME NEW w \in Workers, AppendEvent(w) PROVE e \in History(r)'
  <2>1. call[w] \in Call /\ call[w].id \in Ids
    BY <1>0, <1>6 DEF AppendEvent, Idle, Call
  <2>2. NextSequence(call[w].id) \in Nat
    BY <2>1, NextSequenceType
  <2> QED
    BY <1>5, <1>6, <2>1, <2>2 DEF AppendEvent
<1>7. ASSUME NEW w \in Workers, ReadSequence(w) PROVE e \in History(r)'
  <2> DEFINE c == [call[w] EXCEPT !.pc = "insert", !.seq = NextSequence(call[w].id)]
  <2>1. call[w] \in Call
    BY <1>0, <1>7 DEF ReadSequence, Idle
  <2>2. call' = [call EXCEPT ![w] = c] /\ UNCHANGED <<audit, lost>>
    BY <1>7 DEF ReadSequence
  <2>3. /\ c.pc = "insert" /\ c.id = call[w].id /\ c.event = call[w].event
        /\ c.rec = call[w].rec /\ c.actor = call[w].actor
    BY <2>1 DEF Call
  <2>4. call'[w] = c
    BY <1>0, <2>2
  <2>5. EventOf(call'[w]) = EventOf(call[w])
    BY <2>3, <2>4 DEF EventOf
  <2>6. CASE w \in Owing(r) /\ e = EventOf(call[w])
    <3>1. w \in Owing(r)'
      BY <2>3, <2>4, <2>6 DEF Owing
    <3> QED
      BY <2>5, <2>6, <3>1 DEF Owed, History
  <2>7. CASE ~(w \in Owing(r) /\ e = EventOf(call[w]))
    <3> HIDE DEF c
    <3>1. e \in Owed(r) => e \in Owed(r)'
      BY <1>0, <2>2, <2>7, OthersOwe
    <3> QED
      BY <1>a, <1>b, <2>2, <3>1 DEF History
  <2> QED
    BY <2>6, <2>7
<1>8. ASSUME NEW w \in Workers, InsertEvent(w) PROVE e \in History(r)'
  <2>1. call[w] \in Call
    BY <1>0, <1>8 DEF InsertEvent, Idle
  <2>2. call[w].seq \in Nat
    BY <2>1 DEF Call
  <2> QED
    BY <1>5, <1>8, <2>1, <2>2 DEF InsertEvent
<1>9. ASSUME NEW w \in Workers, Abort(w) PROVE e \in History(r)'
  <2>1. /\ call' = [call EXCEPT ![w] = Idle]
        /\ audit' = audit
        /\ lost[r] \subseteq lost'[r]
    BY <1>9 DEF Abort, TypeOK
  <2>2. CASE w \in Owing(r) /\ e = EventOf(call[w])
    <3>1. call[w].pc # "update" /\ Upper[call[w].id] = r
      BY <2>2 DEF Owing
    <3>2. lost'[r] = lost[r] \cup {EventOf(call[w])}
      BY <1>9, <3>1 DEF Abort, TypeOK
    <3> QED
      BY <2>2, <3>2 DEF History
  <2>3. CASE ~(w \in Owing(r) /\ e = EventOf(call[w]))
    <3>1. e \in Owed(r) => e \in Owed(r)'
      BY <1>0, <2>1, <2>3, OthersOwe
    <3> QED
      BY <1>a, <2>1, <3>1 DEF History
  <2> QED
    BY <2>2, <2>3
<1>10. CASE UNCHANGED vars
  BY <1>10 DEF vars, History, Recorded, Timeline, Owed, Owing
<1> QED
  BY <1>1, <1>2, <1>3, <1>4, <1>6, <1>7, <1>8, <1>9, <1>10 DEF Next, Quiescent

\* The event a new request owes explains its row.
LEMMA NewRowExplained ==
    ASSUME NEW ch \in Changes, NEW hasApprover \in BOOLEAN, NEW id, NEW a
    PROVE  Explains(EventOf(NewCall("emit", id, a, NewRow(ch, hasApprover),
                                    "request_submitted")),
                    NewRow(ch, hasApprover))
BY DEF Explains, EventOf, NewCall, NewRow

\* Every step keeps the rows explained: a writer owes the event that explains
\* what it wrote.
LEMMA ExplainedNext ==
    ASSUME TypeOK, Gapless, CallsWhole, RowsExplained, [Next]_vars
    PROVE  RowsExplained'
<1> SUFFICES ASSUME NEW r \in Requests, row'[r] # NoRow
             PROVE  \E e \in History(r)' : Explains(e, row'[r])
  BY DEF RowsExplained, History, NoRow
<1>0. call \in [Workers -> Call \cup {Idle}] /\ row \in [Requests -> Row \cup {NoRow}]
  BY DEF TypeOK
<1>1. CASE row'[r] = row[r]
  <2>1. PICK e \in History(r) : Explains(e, row[r])
    BY <1>1 DEF RowsExplained, History
  <2>2. e \in History(r)'
    BY HistoryGrows
  <2> QED
    BY <1>1, <2>1, <2>2
<1>2. ASSUME NEW w \in Workers, Create(w), row'[r] # row[r]
      PROVE  \E e \in History(r)' : Explains(e, row'[r])
  <2>1. PICK q \in Requests, a \in Actors, ch \in Changes, hasApprover \in BOOLEAN :
          /\ row[q] = NoRow
          /\ HasRoom(q)
          /\ row' = [row EXCEPT ![q] = NewRow(ch, hasApprover)]
          /\ call' = [call EXCEPT ![w] =
               NewCall("emit", q, a, NewRow(ch, hasApprover), "request_submitted")]
    BY <1>2, CreatedCall
  <2> DEFINE c == NewCall("emit", q, a, NewRow(ch, hasApprover), "request_submitted")
  <2>2. q = r /\ row'[r] = NewRow(ch, hasApprover)
    BY <1>0, <1>2, <2>1
  <2>3. c.pc = "emit" /\ c.id = r
    BY <2>2 DEF NewCall
  <2>4. call'[w] = c
    BY <1>0, <2>1
  <2>5. Explains(EventOf(c), row'[r])
    BY <2>2, NewRowExplained
  <2> HIDE DEF c
  <2>6. w \in Owing(r)'
    BY <2>3, <2>4, IdsAssumption DEF Owing
  <2>7. EventOf(c) \in Owed(r)'
    BY <2>4, <2>6 DEF Owed
  <2> QED
    BY <2>5, <2>7 DEF History
<1>3. ASSUME NEW w \in Workers, Update(w), row'[r] # row[r]
      PROVE  \E e \in History(r)' : Explains(e, row'[r])
  <2>1. call[w] \in Call /\ call[w].pc = "update"
    BY <1>0, <1>3 DEF Update, Idle
  <2>2. Upper[call[w].id] = r /\ row'[r] = call[w].rec
    BY <1>0, <1>3 DEF Update
  <2>3. Explains(EventOf(call[w]), call[w].rec)
    BY <2>1 DEF CallsWhole
  <2> DEFINE c == [call[w] EXCEPT !.pc = "emit"]
  <2>4. call'[w] = c
    BY <1>0, <1>3 DEF Update
  <2>5. /\ c.pc = "emit" /\ c.id = call[w].id /\ c.event = call[w].event
        /\ c.rec = call[w].rec /\ c.actor = call[w].actor
    BY <2>1 DEF Call
  <2> HIDE DEF c
  <2>6. EventOf(c) = EventOf(call[w])
    BY <2>5 DEF EventOf
  <2>7. w \in Owing(r)'
    BY <2>2, <2>4, <2>5 DEF Owing
  <2>8. EventOf(c) \in Owed(r)'
    BY <2>4, <2>7 DEF Owed
  <2> QED
    BY <2>2, <2>3, <2>6, <2>8 DEF History
<1>4. row' = row \/ \E w \in Workers : Create(w) \/ Update(w)
  BY DEF Next, Quiescent, vars, Load, Lookup, AppendEvent, ReadSequence,
         InsertEvent, Store, Abort
<1> QED
  BY <1>1, <1>2, <1>3, <1>4

\* Whatever a row shows, some handler's event says so: it is in the history,
\* still owed by the handler at work, or was lost when that handler failed.
\* An audit gap can come only from a failed call, never from a race.
THEOREM RowsExplainedCorrect == Spec => []RowsExplained
<1> DEFINE Inv == RowsWhole /\ CallsWhole /\ RowsExplained
<1>1. Init => Inv
  BY WholeInit DEF Init, RowsExplained
<1>2. TypeOK /\ Gapless /\ Inv /\ [Next]_vars => Inv'
  BY WholeNext, ExplainedNext
<1>3. Spec => [](TypeOK /\ Gapless)
  BY TypedInit, TypedNext, PTL DEF Spec
<1>4. Inv => RowsExplained
  OBVIOUS
<1> HIDE DEF Inv
<1> QED
  BY <1>1, <1>2, <1>3, <1>4, PTL DEF Spec

(***************************************************************************)
(* One handler at a time.  Without another worker the row a handler loaded *)
(* is still there when it writes: validate_transition then speaks of the   *)
(* row that is overwritten.                                                *)
(***************************************************************************)

OneWorker == \A v, w \in Workers : v = w

CallsFresh == \A w \in Workers : call[w].pc = "update" => Continues(call[w])

\* With one handler at a time the record a call is about to write differs from
\* the row only by the call's own transition.
LEMMA FreshNext ==
    ASSUME OneWorker, TypeOK, RowsWhole, CallsFresh, [Next]_vars
    PROVE  CallsFresh'
<1> SUFFICES ASSUME NEW w \in Workers, call'[w].pc = "update"
             PROVE  Continues(call[w])'
  BY DEF CallsFresh
<1>0. call \in [Workers -> Call \cup {Idle}]
  BY DEF TypeOK
<1>1. CASE Load(w)
  <2>1. PICK c : call' = [call EXCEPT ![w] = c] /\ Continues(c)
    BY <1>1, LoadedWhole
  <2>2. call'[w] = c
    BY <1>0, <2>1
  <2> QED
    BY <1>1, <2>1, <2>2 DEF Load, Continues
<1>2. CASE UNCHANGED vars
  BY <1>2 DEF vars, CallsFresh, Continues
<1>3. ASSUME Create(w) \/ Lookup(w) \/ Update(w) \/ AppendEvent(w)
               \/ ReadSequence(w) \/ InsertEvent(w) \/ Abort(w)
      PROVE  FALSE
  <2>1. PICK c : call' = [call EXCEPT ![w] = c] /\ c.pc # "update"
    <3>1. CASE Create(w)
      <4>1. PICK q, a, rec :
              call' = [call EXCEPT ![w] = NewCall("emit", q, a, rec, "request_submitted")]
        BY <3>1, CreatedCall
      <4>2. NewCall("emit", q, a, rec, "request_submitted").pc # "update"
        BY DEF NewCall
      <4> QED
        BY <4>1, <4>2
    <3>2. CASE Lookup(w)
      <4>1. PICK id, a, rec :
              call' = [call EXCEPT ![w] = NewCall("emit", id, a, rec, "lookup_performed")]
        BY <3>2 DEF Lookup
      <4>2. NewCall("emit", id, a, rec, "lookup_performed").pc # "update"
        BY DEF NewCall
      <4> QED
        BY <4>1, <4>2
    <3>3. CASE Update(w) \/ ReadSequence(w)
      <4>1. call[w] \in Call
        BY <1>0, <3>3 DEF Update, ReadSequence, Idle
      <4>2. /\ [call[w] EXCEPT !.pc = "emit"].pc = "emit"
            /\ [call[w] EXCEPT !.pc = "insert",
                               !.seq = NextSequence(call[w].id)].pc = "insert"
        BY <4>1 DEF Call
      <4> QED
        BY <3>3, <4>2 DEF Update, ReadSequence
    <3>4. CASE AppendEvent(w) \/ InsertEvent(w)
      <4>1. call[w] \in Call
        BY <1>0, <3>4 DEF AppendEvent, InsertEvent, Idle
      <4>2. AfterEvent(call[w]).pc # "update"
        BY <4>1 DEF AfterEvent, Idle, Call
      <4> QED
        BY <3>4, <4>2 DEF AppendEvent, InsertEvent, Store
    <3>5. CASE Abort(w)
      <4>1. call' = [call EXCEPT ![w] = Idle]
        BY <3>5 DEF Abort
      <4>2. Idle.pc # "update"
        BY DEF Idle
      <4> QED
        BY <4>1, <4>2
    <3> QED
      BY <1>3, <3>1, <3>2, <3>3, <3>4, <3>5
  <2> QED
    BY <1>0, <2>1
<1> QED
  BY <1>1, <1>2, <1>3 DEF OneWorker, Next, Quiescent

(***************************************************************************)
(* Refinement.  With one handler at a time and no failed call, the journal *)
(* of a request (what is recorded of it and what is owed) changes exactly  *)
(* when its row does.                                                      *)
(***************************************************************************)

Journal(r) == Moves(Recorded(r) \cup Owed(r))

\* The moves of two histories together are the moves of each.
LEMMA MovesUnion ==
    ASSUME NEW A, NEW B
    PROVE  Moves(A \cup B) = Moves(A) \cup Moves(B)
BY DEF Moves

\* The moves of one event.
LEMMA MovesSingle ==
    ASSUME NEW e
    PROVE  Moves({e}) = IF e.type \in DOMAIN StageOf THEN {Move(e)} ELSE {}
BY DEF Moves

\* The event that explains a record is the journal's entry for it.
LEMMA ExplainsMove ==
    ASSUME NEW e, NEW rec \in Row, WholeRecord(rec), Explains(e, rec)
    PROVE  Moves({e}) = {Lifecycle!Entry(rec.status, rec.lastRev)}
<1>1. e.type \in DOMAIN StageOf /\ StageOf[e.type] = rec.status /\ e.rev = rec.lastRev
  BY DEF Explains, StageOf
<1>2. Move(e) = Lifecycle!Entry(rec.status, rec.lastRev)
  BY <1>1 DEF Move, Lifecycle!Entry
<1> QED
  BY <1>1, <1>2, MovesSingle

\* The only worker is the only one that can owe an event.
LEMMA SoloOwed ==
    ASSUME OneWorker, NEW w \in Workers, NEW r \in Requests
    PROVE  /\ Owed(r) = IF call[w].pc \in {"emit", "insert"} /\ Upper[call[w].id] = r
                        THEN {EventOf(call[w])} ELSE {}
           /\ Owed(r)' = IF call'[w].pc \in {"emit", "insert"} /\ Upper[call'[w].id] = r
                         THEN {EventOf(call'[w])} ELSE {}
BY DEF OneWorker, Owed, Owing

\* What the row of one request shows after it is written, the others being left alone.
LEMMA RowShows ==
    ASSUME TypeOK, NEW r \in Requests, NEW rec \in Row, row' = [row EXCEPT ![r] = rec]
    PROVE  /\ [q \in Requests |-> row'[q].status] =
                [[q \in Requests |-> row[q].status] EXCEPT ![r] = rec.status]
           /\ [q \in Requests |-> IF row'[q] = NoRow THEN 0 ELSE row'[q].lastRev] =
                [[q \in Requests |-> IF row[q] = NoRow THEN 0 ELSE row[q].lastRev]
                   EXCEPT ![r] = rec.lastRev]
<1>1. /\ row'[r] = rec /\ rec # NoRow
      /\ \A q \in Requests \ {r} : row'[q] = row[q]
  BY NoRowIsNoRow DEF TypeOK
<1>2. [q \in Requests |-> row'[q].status] =
        [[q \in Requests |-> row[q].status] EXCEPT ![r] = rec.status]
  <2> DEFINE old == [q \in Requests |-> row[q].status]
  <2>1. \A q \in Requests : row'[q].status = IF q = r THEN rec.status ELSE old[q]
    BY <1>1
  <2>2. DOMAIN old = Requests
    OBVIOUS
  <2> HIDE DEF old
  <2>3. [q \in Requests |-> row'[q].status] = [old EXCEPT ![r] = rec.status]
    BY <2>1, <2>2
  <2> QED
    BY <2>3 DEF old
<1>3. [q \in Requests |-> IF row'[q] = NoRow THEN 0 ELSE row'[q].lastRev] =
        [[q \in Requests |-> IF row[q] = NoRow THEN 0 ELSE row[q].lastRev]
           EXCEPT ![r] = rec.lastRev]
  <2> DEFINE old == [q \in Requests |-> IF row[q] = NoRow THEN 0 ELSE row[q].lastRev]
             new(q) == IF row'[q] = NoRow THEN 0 ELSE row'[q].lastRev
  <2>1. \A q \in Requests : new(q) = IF q = r THEN rec.lastRev ELSE old[q]
    BY <1>1
  <2>2. DOMAIN old = Requests
    OBVIOUS
  <2> HIDE DEF old, new
  <2>3. [q \in Requests |-> new(q)] = [old EXCEPT ![r] = rec.lastRev]
    BY <2>1, <2>2
  <2> QED
    BY <2>3 DEF old, new
<1> QED
  BY <1>2, <1>3

\* A step of one row that adds the move to its history is a step of the lifecycle.
LEMMA EnterStep ==
    ASSUME TypeOK, NEW r \in Requests, NEW rec \in Row,
           row' = [row EXCEPT ![r] = rec],
           Journal(r)' = Journal(r) \cup {Lifecycle!Entry(rec.status, rec.lastRev)},
           \A q \in Requests \ {r} : Journal(q)' = Journal(q)
    PROVE  Lifecycle!Enter(r, rec.status, rec.lastRev)
<1>1. [q \in Requests |-> Journal(q)'] =
        [[q \in Requests |-> Journal(q)]
           EXCEPT ![r] = @ \cup {Lifecycle!Entry(rec.status, rec.lastRev)}]
  OBVIOUS
<1> QED
  BY <1>1, RowShows DEF Lifecycle!Enter, Journal, NoRow

\* A step that leaves what the lifecycle sees of every request is a stutter.
LEMMA StutterStep ==
    ASSUME row' = row, \A r \in Requests : Journal(r)' = Journal(r)
    PROVE  UNCHANGED Lifecycle!vars
BY DEF Lifecycle!vars, Journal, NoRow

\* Create is a submission.
LEMMA CreateRefines ==
    ASSUME OneWorker, TypeOK, NEW w \in Workers, Create(w)
    PROVE  \E r \in Requests : Lifecycle!Submit(r)
<1>1. PICK r \in Requests, a \in Actors, ch \in Changes, hasApprover \in BOOLEAN :
        /\ row[r] = NoRow
        /\ HasRoom(r)
        /\ row' = [row EXCEPT ![r] = NewRow(ch, hasApprover)]
        /\ call' = [call EXCEPT ![w] =
             NewCall("emit", r, a, NewRow(ch, hasApprover), "request_submitted")]
  BY CreatedCall
<1> DEFINE rec == NewRow(ch, hasApprover)
           c == NewCall("emit", r, a, rec, "request_submitted")
<1>2. rec \in Row /\ WholeRecord(rec) /\ rec.status = "submitted" /\ rec.lastRev = 1
  BY NewRowType DEF NewRow, WholeRecord
<1>3. Explains(EventOf(c), rec)
  BY NewRowExplained
<1>4. c.pc = "emit" /\ c.id = r /\ Upper[r] = r
  BY IdsAssumption DEF NewCall
<1>5. call'[w] = c /\ call[w].pc = "idle"
  BY <1>1 DEF TypeOK, Create, Idle
<1>6. row' = [row EXCEPT ![r] = rec]
  BY <1>1
<1> HIDE DEF c, rec
<1>7. \A q \in Requests : Recorded(q)' = Recorded(q)
  BY DEF Create, Recorded, Timeline
<1>8. \A q \in Requests : Owed(q) = {} /\ Owed(q)' = IF q = r THEN {EventOf(c)} ELSE {}
  BY <1>4, <1>5, SoloOwed
<1>9. Journal(r)' = Journal(r) \cup {Lifecycle!Entry(rec.status, rec.lastRev)}
  <2>1. Journal(r)' = Moves(Recorded(r) \cup {EventOf(c)})
    BY <1>7, <1>8 DEF Journal
  <2>2. Journal(r) = Moves(Recorded(r))
    BY <1>8 DEF Journal
  <2>3. Moves({EventOf(c)}) = {Lifecycle!Entry(rec.status, rec.lastRev)}
    BY <1>2, <1>3, ExplainsMove
  <2> QED
    BY <2>1, <2>2, <2>3, MovesUnion
<1>10. \A q \in Requests \ {r} : Journal(q)' = Journal(q)
  BY <1>7, <1>8 DEF Journal
<1>11. Lifecycle!Enter(r, "submitted", 1)
  BY <1>2, <1>6, <1>9, <1>10, EnterStep
<1>12. row[r].status = "none"
  BY <1>1 DEF NoRow
<1> QED
  BY <1>11, <1>12 DEF Lifecycle!Submit

\* Update is the move that the record it writes makes.
LEMMA UpdateRefines ==
    ASSUME OneWorker, TypeOK, RowsWhole, CallsWhole, CallsFresh,
           NEW w \in Workers, Update(w)
    PROVE  Lifecycle!Next
<1>1. call[w] \in Call /\ call[w].pc = "update"
  BY DEF TypeOK, Update, Idle
<1>a. PICK r \in Requests, rec \in Row : r = Upper[call[w].id] /\ rec = call[w].rec
  BY <1>1, IdsAssumption DEF Call
<1>b. PICK c : c = [call[w] EXCEPT !.pc = "emit"]
  OBVIOUS
<1>2. r \in Requests /\ rec \in Row /\ WholeRecord(rec)
  BY <1>1, <1>a DEF CallsWhole
<1>3. row' = [row EXCEPT ![r] = rec] /\ call'[w] = c
  BY <1>a, <1>b DEF Update, TypeOK
<1>4. /\ c.pc = "emit" /\ c.id = call[w].id /\ c.event = call[w].event
      /\ c.rec = call[w].rec /\ c.actor = call[w].actor
  BY <1>1, <1>b DEF Call
<1>5. Explains(EventOf(c), rec)
  BY <1>1, <1>4, <1>a DEF CallsWhole, EventOf
<1>6. Continues(call[w])
  BY <1>1 DEF CallsFresh
<1>7. /\ row[r] \in Row /\ WholeRecord(row[r])
      /\ row[r].status \in {"submitted", "needs_info"}
      /\ rec.status \in AllowedTransitions[row[r].status]
      /\ rec.lastRev = IF rec.status = "submitted" THEN row[r].lastRev + 1
                                                  ELSE row[r].lastRev
      /\ rec.status = "submitted" => row[r].lastRev < MaxRevision
  BY <1>2, <1>6, <1>a DEF Continues, RowsWhole, TypeOK, WholeRecord, Statuses, Terminal
<1>8. \A q \in Requests : Recorded(q)' = Recorded(q)
  BY DEF Update, Recorded, Timeline
<1>9. \A q \in Requests : Owed(q) = {} /\ Owed(q)' = IF q = r THEN {EventOf(c)} ELSE {}
  BY <1>1, <1>3, <1>4, <1>a, SoloOwed
<1>10. Journal(r)' = Journal(r) \cup {Lifecycle!Entry(rec.status, rec.lastRev)}
  <2>1. Journal(r)' = Moves(Recorded(r) \cup {EventOf(c)})
    <3>1. Recorded(r)' = Recorded(r) /\ Owed(r)' = {EventOf(c)}
      BY <1>2, <1>8, <1>9
    <3> QED
      BY <3>1 DEF Journal
  <2>2. Journal(r) = Moves(Recorded(r))
    BY <1>2, <1>9 DEF Journal
  <2>3. Moves({EventOf(c)}) = {Lifecycle!Entry(rec.status, rec.lastRev)}
    BY <1>2, <1>5, ExplainsMove
  <2> QED
    BY <2>1, <2>2, <2>3, MovesUnion
<1>11. \A q \in Requests \ {r} : Journal(q)' = Journal(q)
  BY <1>8, <1>9 DEF Journal
<1>12. Lifecycle!Enter(r, rec.status, rec.lastRev)
  BY <1>2, <1>3, <1>10, <1>11, EnterStep
<1>13. /\ [q \in Requests |-> row[q].status][r] = row[r].status
       /\ [q \in Requests |-> IF row[q] = NoRow THEN 0 ELSE row[q].lastRev][r]
            = row[r].lastRev
  BY <1>7, NoRowIsNoRow
<1>14. CASE rec.status = "needs_info"
  <2>1. row[r].status = "submitted" /\ rec.lastRev = row[r].lastRev
    BY <1>7, <1>14 DEF AllowedTransitions
  <2>2. Lifecycle!AskForInfo(r)
    BY <1>12, <1>13, <1>14, <2>1 DEF Lifecycle!AskForInfo, Lifecycle!Enter
  <2> QED
    BY <2>2 DEF Lifecycle!Next
<1>15. CASE rec.status \in {"approved", "rejected"}
  <2>1. row[r].status = "submitted" /\ rec.lastRev = row[r].lastRev
    BY <1>7, <1>15 DEF AllowedTransitions
  <2>2. Lifecycle!Decide(r)
    BY <1>12, <1>13, <1>15, <2>1 DEF Lifecycle!Decide, Lifecycle!Enter
  <2> QED
    BY <2>2 DEF Lifecycle!Next
<1>16. CASE rec.status = "cancelled"
  <2>1. rec.lastRev = row[r].lastRev
    BY <1>7, <1>16
  <2>2. Lifecycle!Cancel(r)
    BY <1>7, <1>12, <1>13, <1>16, <2>1 DEF Lifecycle!Cancel, Lifecycle!Enter
  <2> QED
    BY <2>2 DEF Lifecycle!Next
<1>17. CASE rec.status = "submitted"
  <2>1. /\ row[r].status = "needs_info" /\ row[r].lastRev < MaxRevision
        /\ rec.lastRev = row[r].lastRev + 1
    BY <1>7, <1>17 DEF AllowedTransitions
  <2>2. Lifecycle!Resubmit(r)
    BY <1>12, <1>13, <1>17, <2>1 DEF Lifecycle!Resubmit, Lifecycle!Enter
  <2> QED
    BY <2>2 DEF Lifecycle!Next
<1> QED
  BY <1>7, <1>14, <1>15, <1>16, <1>17 DEF AllowedTransitions

\* Storing an event that is owed leaves every journal as it was.
LEMMA StoreRefines ==
    ASSUME OneWorker, TypeOK, NEW w \in Workers, call[w] \in Call,
           call[w].pc \in {"emit", "insert"}, NEW n \in Nat, Store(w, n)
    PROVE  UNCHANGED Lifecycle!vars
<1> SUFFICES ASSUME NEW r \in Requests PROVE Journal(r)' = Journal(r)
  BY StutterStep DEF Store
<1>1. PICK e : e = EventOf(call[w])
  OBVIOUS
<1>2. PICK id \in Ids : id = call[w].id
  BY DEF Call
<1>3. call'[w] = AfterEvent(call[w])
  BY DEF Store, TypeOK
<1>4. Recorded(r)' = IF Upper[id] = r THEN Recorded(r) \cup {e} ELSE Recorded(r)
  BY <1>1, <1>2, StoreRecords
<1>5. Owed(r) = IF Upper[id] = r THEN {e} ELSE {}
  BY <1>1, <1>2, SoloOwed
<1>6. Moves(Owed(r)') = {} /\ (Upper[id] # r => Owed(r)' = {})
  <2>1. CASE call'[w] = Idle
    <3>1. Owed(r)' = {}
      BY <2>1, SoloOwed DEF Idle
    <3> QED
      BY <3>1 DEF Moves
  <2>2. CASE call'[w] # Idle
    <3>1. call'[w] = [call[w] EXCEPT !.pc = "emit", !.event = "approver_notified",
                                     !.seq = 0]
      BY <1>3, <2>2 DEF AfterEvent
    <3>2. call'[w].pc = "emit" /\ call'[w].event = "approver_notified" /\ call'[w].id = id
      BY <1>2, <3>1 DEF Call
    <3>3. PICK f : f = EventOf(call'[w])
      OBVIOUS
    <3>4. f.type = "approver_notified"
      BY <3>2, <3>3 DEF EventOf
    <3>5. Owed(r)' = IF Upper[id] = r THEN {f} ELSE {}
      BY <3>2, <3>3, SoloOwed
    <3>6. Moves({f}) = {} /\ Moves({}) = {}
      BY <3>4, MovesSingle DEF StageOf, Moves
    <3> QED
      BY <3>5, <3>6
  <2> QED
    BY <2>1, <2>2
<1>7. CASE Upper[id] = r
  <2>1. Journal(r) = Moves(Recorded(r) \cup {e})
    BY <1>5, <1>7 DEF Journal
  <2>2. Journal(r)' = Moves((Recorded(r) \cup {e}) \cup Owed(r)')
    BY <1>4, <1>7 DEF Journal
  <2> QED
    BY <1>6, <2>1, <2>2, MovesUnion
<1>8. CASE Upper[id] # r
  BY <1>4, <1>5, <1>6, <1>8 DEF Journal
<1> QED
  BY <1>7, <1>8

\* A step that touches neither rows nor timelines and leaves the worker owing
\* what it owed, apart from lookups, leaves every journal as it was.
LEMMA QuietRefines ==
    ASSUME OneWorker, NEW w \in Workers, UNCHANGED <<row, audit>>,
           \A r \in Requests : Moves(Owed(r)') = Moves(Owed(r))
    PROVE  UNCHANGED Lifecycle!vars
<1> SUFFICES ASSUME NEW r \in Requests PROVE Journal(r)' = Journal(r)
  BY StutterStep
<1>1. Recorded(r)' = Recorded(r)
  BY DEF Recorded, Timeline
<1>2. Moves(Owed(r)') = Moves(Owed(r))
  OBVIOUS
<1>3. Journal(r)' = Moves(Recorded(r)' \cup Owed(r)')
  BY DEF Journal
<1>4. Journal(r) = Moves(Recorded(r)) \cup Moves(Owed(r))
  BY MovesUnion DEF Journal
<1> QED
  BY <1>1, <1>2, <1>3, <1>4, MovesUnion

\* With one handler at a time every step of the service is a step of the
\* lifecycle or a stutter.
LEMMA RefinesNext ==
    ASSUME Undisturbed, TypeOK, Gapless, RowsWhole, CallsWhole, CallsFresh, [Next]_vars
    PROVE  [Lifecycle!Next]_(Lifecycle!vars)
<1>a. OneWorker /\ ~MayFail
  BY DEF Undisturbed, OneWorker
<1>0. call \in [Workers -> Call \cup {Idle}]
  BY DEF TypeOK
<1>1. ASSUME NEW w \in Workers, Create(w) PROVE Lifecycle!Next
  BY <1>a, <1>1, CreateRefines DEF Lifecycle!Next
<1>2. ASSUME NEW w \in Workers, Load(w) PROVE UNCHANGED Lifecycle!vars
  <2>1. PICK c : c.pc = "update" /\ call' = [call EXCEPT ![w] = c]
    BY <1>2, LoadedCall
  <2>2. call[w].pc = "idle" /\ call'[w].pc = "update"
    BY <1>0, <1>2, <2>1 DEF Load, Idle
  <2>3. \A r \in Requests : Owed(r) = {} /\ Owed(r)' = {}
    BY <1>a, <2>2, SoloOwed
  <2> QED
    BY <1>a, <1>2, <2>3, QuietRefines DEF Load
<1>3. ASSUME NEW w \in Workers, Lookup(w) PROVE UNCHANGED Lifecycle!vars
  <2>1. PICK id, a, rec :
          call' = [call EXCEPT ![w] = NewCall("emit", id, a, rec, "lookup_performed")]
    BY <1>3 DEF Lookup
  <2>2. call[w].pc = "idle" /\ call'[w].event = "lookup_performed"
    BY <1>0, <1>3, <2>1 DEF Lookup, Idle, NewCall
  <2>3. PICK e : e = EventOf(call'[w])
    OBVIOUS
  <2>4. Moves({e}) = {} /\ Moves({}) = {}
    BY <2>2, <2>3, MovesSingle DEF EventOf, StageOf, Moves
  <2>5. \A r \in Requests : Owed(r) = {} /\ Owed(r)' \in {{}, {e}}
    BY <1>a, <2>2, <2>3, SoloOwed
  <2> QED
    BY <1>a, <1>3, <2>4, <2>5, QuietRefines DEF Lookup
<1>4. ASSUME NEW w \in Workers, Update(w) PROVE Lifecycle!Next
  BY <1>a, <1>4, UpdateRefines
<1>5. ASSUME NEW w \in Workers, AppendEvent(w) PROVE UNCHANGED Lifecycle!vars
  <2>1. call[w] \in Call /\ call[w].id \in Ids
    BY <1>0, <1>5 DEF AppendEvent, Idle, Call
  <2>2. NextSequence(call[w].id) \in Nat
    BY <2>1, NextSequenceType
  <2> QED
    BY <1>a, <1>5, <2>1, <2>2, StoreRefines DEF AppendEvent
<1>6. ASSUME NEW w \in Workers, ReadSequence(w) PROVE UNCHANGED Lifecycle!vars
  <2>1. call[w] \in Call /\ call[w].pc = "emit"
    BY <1>0, <1>6 DEF ReadSequence, Idle
  <2> DEFINE c == [call[w] EXCEPT !.pc = "insert", !.seq = NextSequence(call[w].id)]
  <2>2. /\ c.pc = "insert" /\ c.id = call[w].id /\ c.event = call[w].event
        /\ c.rec = call[w].rec /\ c.actor = call[w].actor
    BY <2>1 DEF Call
  <2>3. call'[w] = c
    BY <1>0, <1>6 DEF ReadSequence
  <2> HIDE DEF c
  <2>4. EventOf(call'[w]) = EventOf(call[w])
    BY <2>2, <2>3 DEF EventOf
  <2>5. \A r \in Requests : Owed(r)' = Owed(r)
    BY <1>a, <2>1, <2>2, <2>3, <2>4, SoloOwed
  <2> QED
    BY <1>a, <1>6, <2>5, QuietRefines DEF ReadSequence
<1>7. ASSUME NEW w \in Workers, InsertEvent(w) PROVE UNCHANGED Lifecycle!vars
  <2>1. call[w] \in Call
    BY <1>0, <1>7 DEF InsertEvent, Idle
  <2>2. call[w].seq \in Nat
    BY <2>1 DEF Call
  <2> QED
    BY <1>a, <1>7, <2>1, <2>2, StoreRefines DEF InsertEvent
<1>8. ASSUME UNCHANGED vars PROVE UNCHANGED Lifecycle!vars
  <2>1. \A r \in Requests : Journal(r)' = Journal(r)
    BY <1>8 DEF vars, Journal, Recorded, Timeline, Owed, Owing
  <2> QED
    BY <1>8, <2>1, StutterStep DEF vars
<1> QED
  BY <1>a, <1>1, <1>2, <1>3, <1>4, <1>5, <1>6, <1>7, <1>8 DEF Next, Quiescent, Abort

\* With no request stored the lifecycle is in its initial state.
LEMMA RefinesInit == Init => Lifecycle!Init
<1> SUFFICES ASSUME Init PROVE Lifecycle!Init
  OBVIOUS
<1>1. \A r \in Requests : Recorded(r) = {} /\ Owed(r) = {}
  BY DEF Init, Recorded, Timeline, Owed, Owing, Idle
<1>2. \A r \in Requests : Moves(Recorded(r) \cup Owed(r)) = {}
  BY <1>1 DEF Moves
<1> QED
  BY <1>2 DEF Init, Lifecycle!Init, NoRow

\* With one handler at a time and no failed store call, the service follows the
\* documented lifecycle, and its history gains exactly the moves it makes.
THEOREM ImplementsLifecycleCorrect ==
    ASSUME Undisturbed
    PROVE  Spec => ImplementsLifecycle
<1> DEFINE Inv == Gapless /\ RowsWhole /\ CallsWhole /\ CallsFresh
<1>a. OneWorker
  BY DEF Undisturbed, OneWorker
<1>1. Init => Inv
  BY TypedInit, WholeInit DEF Init, CallsFresh, Idle
<1>2. TypeOK /\ Inv /\ [Next]_vars => Inv'
  BY <1>a, TypedNext, WholeNext, FreshNext
<1>3. TypeOK /\ Inv /\ [Next]_vars => [Lifecycle!Next]_(Lifecycle!vars)
  BY RefinesNext
<1> HIDE DEF Inv
<1> QED
  BY <1>1, <1>2, <1>3, TypeCorrect, RefinesInit, PTL
     DEF Spec, ImplementsLifecycle, Lifecycle!Spec
=============================================================================
