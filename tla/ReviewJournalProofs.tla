------------------------ MODULE ReviewJournalProofs ------------------------
(***************************************************************************)
(* What holds of the request service whatever races and fails: what is     *)
(* decided is final once the handlers that loaded it before are done, and  *)
(* the service implements ReviewJournal.                                   *)
(***************************************************************************)
EXTENDS ReviewWorkflowProofs

(***************************************************************************)
(* Settled requests.                                                       *)
(***************************************************************************)

\* A call that is not about to write r, put in the place of any other, leaves r settled.
LEMMA StaysSettled ==
    ASSUME NEW r \in Requests, Settled(r), row'[r] = row[r],
           NEW w \in Workers, NEW c, c.pc = "update" => Upper[c.id] # r,
           call \in [Workers -> Call \cup {Idle}],
           call' = [call EXCEPT ![w] = c]
    PROVE  Settled(r)'
<1>1. \A v \in Workers : call'[v] = IF v = w THEN c ELSE call[v]
  OBVIOUS
<1> QED
  BY <1>1 DEF Settled

\* No step changes a settled request, or begins a handler that could.
LEMMA SettledNext ==
    ASSUME TypeOK, RowsWhole, [Next]_vars, NEW r \in Requests, Settled(r)
    PROVE  Settled(r)' /\ row'[r] = row[r]
<1>0. /\ call \in [Workers -> Call \cup {Idle}]
      /\ row \in [Requests -> Row \cup {NoRow}]
      /\ row[r] \in Row /\ row[r].status \in Terminal
  BY DEF TypeOK, Settled, NoRow, Terminal
<1>1. ASSUME NEW w \in Workers, Create(w) PROVE Settled(r)' /\ row'[r] = row[r]
  <2>1. PICK q \in Requests, a \in Actors, ch \in Changes, hasApprover \in BOOLEAN :
          /\ row[q] = NoRow
          /\ row' = [row EXCEPT ![q] = NewRow(ch, hasApprover)]
          /\ call' = [call EXCEPT ![w] =
               NewCall("emit", q, a, NewRow(ch, hasApprover), "request_submitted")]
    BY <1>1, CreatedCall
  <2>2. q # r
    BY <1>0, <2>1, NoRowIsNoRow
  <2> QED
    BY <1>0, <2>1, <2>2, StaysSettled DEF NewCall
<1>2. ASSUME NEW w \in Workers, Load(w) PROVE Settled(r)' /\ row'[r] = row[r]
  <2>1. PICK c : call' = [call EXCEPT ![w] = c] /\ Continues(c)
    BY <1>2, LoadedWhole
  <2>2. Upper[c.id] # r
    BY <1>0, <2>1 DEF Continues
  <2> QED
    BY <1>0, <1>2, <2>1, <2>2, StaysSettled DEF Load
<1>3. ASSUME NEW w \in Workers, Lookup(w) PROVE Settled(r)' /\ row'[r] = row[r]
  <2>1. PICK c : c.pc # "update" /\ call' = [call EXCEPT ![w] = c]
    BY <1>3 DEF Lookup, NewCall
  <2> QED
    BY <1>0, <1>3, <2>1, StaysSettled DEF Lookup
<1>4. ASSUME NEW w \in Workers, Update(w) PROVE Settled(r)' /\ row'[r] = row[r]
  <2>1. call[w] \in Call /\ Upper[call[w].id] # r
    BY <1>0, <1>4 DEF Update, Idle, Settled
  <2>2. PICK c : c = [call[w] EXCEPT !.pc = "emit"]
    OBVIOUS
  <2>3. c.pc = "emit" /\ call' = [call EXCEPT ![w] = c] /\ row'[r] = row[r]
    BY <1>0, <1>4, <2>1, <2>2 DEF Update, Call
  <2> QED
    BY <1>0, <2>3, StaysSettled
<1>5. ASSUME NEW w \in Workers, NEW n, call[w] \in Call, Store(w, n)
      PROVE  Settled(r)' /\ row'[r] = row[r]
  <2>1. AfterEvent(call[w]).pc # "update"
    BY <1>5 DEF AfterEvent, Idle, Call
  <2> QED
    BY <1>0, <1>5, <2>1, StaysSettled DEF Store
<1>6. ASSUME NEW w \in Workers, AppendEvent(w) \/ InsertEvent(w)
      PROVE  Settled(r)' /\ row'[r] = row[r]
  BY <1>0, <1>5, <1>6 DEF AppendEvent, InsertEvent, Idle
<1>7. ASSUME NEW w \in Workers, ReadSequence(w) PROVE Settled(r)' /\ row'[r] = row[r]
  <2>1. call[w] \in Call
    BY <1>0, <1>7 DEF ReadSequence, Idle
  <2>2. PICK c : c = [call[w] EXCEPT !.pc = "insert", !.seq = NextSequence(call[w].id)]
    OBVIOUS
  <2>3. c.pc = "insert" /\ call' = [call EXCEPT ![w] = c]
    BY <1>7, <2>1, <2>2 DEF ReadSequence, Call
  <2> QED
    BY <1>0, <1>7, <2>3, StaysSettled DEF ReadSequence
<1>8. ASSUME NEW w \in Workers, Abort(w) PROVE Settled(r)' /\ row'[r] = row[r]
  BY <1>0, <1>8, StaysSettled DEF Abort, Idle
<1>9. CASE UNCHANGED vars
  BY <1>9 DEF vars, Settled
<1> QED
  BY <1>1, <1>2, <1>3, <1>4, <1>6, <1>7, <1>8, <1>9 DEF Next, Quiescent

\* However many handlers run and fail, a decided request that none of them had loaded
\* for a write before keeps its decision: only the window between the read and the
\* write of _change_status is open.
THEOREM SettledIsFinalCorrect == Spec => SettledIsFinal
<1>1. TypeOK /\ RowsWhole /\ [Next]_vars
        => \A r \in Requests : Settled(r) => Settled(r)' /\ row'[r] = row[r]
  BY SettledNext
<1> QED
  BY <1>1, TypeCorrect, RowsWholeCorrect, PTL DEF Spec, SettledIsFinal

(***************************************************************************)
(* Histories at rest.                                                      *)
(***************************************************************************)

NothingLost == ~MayFail => \A r \in Requests : lost[r] = {}

\* Without failures an event that is owed is recorded: a request no handler works on
\* is explained by what its timelines hold.
THEOREM AuditedAtRestCorrect == Spec => []AuditedAtRest
<1>1. Init => NothingLost
  BY DEF Init, NothingLost
<1>2. NothingLost /\ [Next]_vars => NothingLost'
  BY DEF NothingLost, Next, vars, Create, Load, Lookup, Update, AppendEvent,
         ReadSequence, InsertEvent, Store, Abort, Quiescent
<1>3. NothingLost /\ RowsExplained => AuditedAtRest
  BY DEF NothingLost, RowsExplained, AuditedAtRest, Owed
<1> QED
  BY <1>1, <1>2, <1>3, RowsExplainedCorrect, PTL DEF Spec

(***************************************************************************)
(* Refinement.  The past of a request, what its journal holds, grows by    *)
(* the move that a handler makes in the very step that writes the row.     *)
(***************************************************************************)

RaceEntry(rec) == Raced!Entry(rec.status, rec.lastRev)

\* A row and its past: what the row shows is in the past.
RowsPast == \A r \in Requests : row[r] # NoRow => RaceEntry(row[r]) \in Past(r)

\* A handler that is about to write moves the request from a stage of its past.
CallsGrounded ==
    \A w \in Workers, r \in Requests : call[w].pc = "update" /\ Upper[call[w].id] = r =>
        \E p \in Past(r) : RaceEntry(call[w].rec) \in Raced!Steps(p)

\* The event that explains a record is the entry for it.
LEMMA ExplainsEntry ==
    ASSUME NEW e, NEW rec \in Row, WholeRecord(rec), Explains(e, rec)
    PROVE  Moves({e}) = {RaceEntry(rec)}
<1>1. e.type \in DOMAIN StageOf /\ StageOf[e.type] = rec.status /\ e.rev = rec.lastRev
  BY DEF Explains, StageOf
<1> QED
  BY <1>1, MovesSingle DEF Move, RaceEntry, Raced!Entry

\* An explained row is in its past.
LEMMA ExplainedPast ==
    ASSUME TypeOK, RowsWhole, RowsExplained
    PROVE  RowsPast
<1> SUFFICES ASSUME NEW r \in Requests, row[r] # NoRow
             PROVE  RaceEntry(row[r]) \in Past(r)
  BY DEF RowsPast
<1>1. PICK e \in History(r) : Explains(e, row[r])
  BY DEF RowsExplained, History
<1>2. row[r] \in Row /\ WholeRecord(row[r])
  BY DEF TypeOK, RowsWhole
<1>3. Moves({e}) = {RaceEntry(row[r])}
  BY <1>1, <1>2, ExplainsEntry
<1>4. RaceEntry(row[r]) \in Moves({e})
  BY <1>3
<1> QED
  BY <1>1, <1>4 DEF Past, Moves

\* A history that gains at most the events E has gained at most their moves.
LEMMA PastGains ==
    ASSUME NEW r \in Requests, History(r) \subseteq History(r)', NEW E,
           History(r)' \subseteq History(r) \cup E
    PROVE  /\ Past(r) \subseteq Past(r)'
           /\ Past(r)' \subseteq Past(r) \cup Moves(E)
BY DEF Past, Moves

\* What workers owe after worker w moved: what they owed, and what w's call owes now.
LEMMA OwedGains ==
    ASSUME NEW w \in Workers, NEW c, call \in [Workers -> Call \cup {Idle}],
           call' = [call EXCEPT ![w] = c], NEW r \in Requests
    PROVE  Owed(r)' \subseteq Owed(r) \cup {EventOf(c)}
<1> SUFFICES ASSUME NEW v \in Owing(r)' PROVE EventOf(call'[v]) \in Owed(r) \cup {EventOf(c)}
  BY DEF Owed
<1>1. CASE v = w
  BY <1>1 DEF Owing
<1>2. CASE v # w
  <2>1. call'[v] = call[v] /\ v \in Workers
    BY <1>2 DEF Owing
  <2>2. v \in Owing(r)
    BY <2>1 DEF Owing
  <2> QED
    BY <2>1, <2>2 DEF Owed
<1> QED
  BY <1>1, <1>2

\* A call that owes r nothing adds nothing to what is owed.
LEMMA OwedKept ==
    ASSUME NEW w \in Workers, NEW c, call \in [Workers -> Call \cup {Idle}],
           call' = [call EXCEPT ![w] = c], NEW r \in Requests,
           ~(c.pc \in {"emit", "insert"} /\ Upper[c.id] = r)
    PROVE  Owed(r)' \subseteq Owed(r)
<1> SUFFICES ASSUME NEW v \in Owing(r)' PROVE EventOf(call'[v]) \in Owed(r)
  BY DEF Owed
<1>1. v # w /\ v \in Workers
  BY DEF Owing
<1>2. call'[v] = call[v]
  BY <1>1
<1>3. v \in Owing(r)
  BY <1>1, <1>2 DEF Owing
<1> QED
  BY <1>2, <1>3 DEF Owed

\* When only w's call changes, and owes a request e at most, its past gains e's moves.
LEMMA CallPast ==
    ASSUME TypeOK, Gapless, [Next]_vars, UNCHANGED <<audit, lost>>,
           NEW w \in Workers, NEW c, call' = [call EXCEPT ![w] = c], NEW r \in Requests
    PROVE  /\ Past(r) \subseteq Past(r)'
           /\ Past(r)' \subseteq Past(r) \cup Moves({EventOf(c)})
           /\ ~(c.pc \in {"emit", "insert"} /\ Upper[c.id] = r) => Past(r)' = Past(r)
<1>0. call \in [Workers -> Call \cup {Idle}]
  BY DEF TypeOK
<1>1. Recorded(r)' = Recorded(r) /\ lost'[r] = lost[r]
  BY DEF Recorded, Timeline
<1>2. History(r) \subseteq History(r)'
  BY HistoryGrows
<1>3. History(r)' \subseteq History(r) \cup {EventOf(c)}
  BY <1>0, <1>1, OwedGains DEF History
<1>4. ASSUME ~(c.pc \in {"emit", "insert"} /\ Upper[c.id] = r)
      PROVE  Past(r)' = Past(r)
  <2>1. Owed(r)' \subseteq Owed(r)
    BY <1>0, <1>4, OwedKept
  <2>2. History(r)' = History(r)
    BY <1>1, <1>2, <2>1 DEF History
  <2> QED
    BY <2>2 DEF Past
<1> QED
  BY <1>2, <1>3, <1>4, PastGains

\* Create gives the new request its first entry.
LEMMA CreatePast ==
    ASSUME TypeOK, Gapless, [Next]_vars, NEW w \in Workers, Create(w)
    PROVE  \E r \in Requests, rec \in Row :
             /\ row[r] = NoRow
             /\ RaceEntry(rec) = Raced!First
             /\ row' = [row EXCEPT ![r] = rec]
             /\ Past(r)' = Past(r) \cup {RaceEntry(rec)}
             /\ \A q \in Requests \ {r} : Past(q)' = Past(q)
<1>1. PICK r \in Requests, a \in Actors, ch \in Changes, hasApprover \in BOOLEAN :
        /\ row[r] = NoRow
        /\ row' = [row EXCEPT ![r] = NewRow(ch, hasApprover)]
        /\ call' = [call EXCEPT ![w] =
             NewCall("emit", r, a, NewRow(ch, hasApprover), "request_submitted")]
  BY CreatedCall
<1>2. PICK rec : rec = NewRow(ch, hasApprover)
  OBVIOUS
<1>3. PICK c : c = NewCall("emit", r, a, rec, "request_submitted")
  OBVIOUS
<1>4. rec \in Row /\ WholeRecord(rec) /\ RaceEntry(rec) = Raced!First
  BY <1>2, NewRowType DEF NewRow, WholeRecord, RaceEntry, Raced!First
<1>5. Moves({EventOf(c)}) = {RaceEntry(rec)}
  BY <1>2, <1>3, <1>4, NewRowExplained, ExplainsEntry
<1>6. c.pc = "emit" /\ c.id = r /\ Upper[r] = r
  BY <1>3, IdsAssumption DEF NewCall
<1>7. call' = [call EXCEPT ![w] = c] /\ row' = [row EXCEPT ![r] = rec]
  BY <1>1, <1>2, <1>3
<1>8. UNCHANGED <<audit, lost>>
  BY DEF Create
<1>9. ASSUME NEW q \in Requests \ {r} PROVE Past(q)' = Past(q)
  <2>1. ~(c.pc \in {"emit", "insert"} /\ Upper[c.id] = q)
    BY <1>6
  <2> QED
    BY <1>7, <1>8, <2>1, CallPast
<1>10. Past(r) \subseteq Past(r)' /\ Past(r)' \subseteq Past(r) \cup {RaceEntry(rec)}
  BY <1>5, <1>7, <1>8, CallPast
<1>11. RaceEntry(rec) \in Past(r)'
  <2>1. call'[w] = c
    BY <1>7 DEF TypeOK
  <2>2. EventOf(c) \in Owed(r)'
    BY <1>6, <2>1 DEF Owed, Owing
  <2>3. EventOf(c) \in History(r)'
    BY <2>2 DEF History
  <2> QED
    BY <1>5, <2>3 DEF Past, Moves
<1>12. Past(r)' = Past(r) \cup {RaceEntry(rec)}
  BY <1>10, <1>11
<1>13. \A q \in Requests \ {r} : Past(q)' = Past(q)
  BY <1>9
<1> QED
  BY <1>1, <1>4, <1>7, <1>12, <1>13

\* Update adds the entry of the record that it writes.
LEMMA UpdatePast ==
    ASSUME TypeOK, Gapless, CallsWhole, [Next]_vars, NEW w \in Workers, Update(w)
    PROVE  \E r \in Requests, rec \in Row :
             /\ r = Upper[call[w].id] /\ rec = call[w].rec
             /\ row' = [row EXCEPT ![r] = rec]
             /\ Past(r)' = Past(r) \cup {RaceEntry(rec)}
             /\ \A q \in Requests \ {r} : Past(q)' = Past(q)
<1>1. call[w] \in Call /\ call[w].pc = "update"
  BY DEF TypeOK, Update, Idle
<1>2. PICK r \in Requests, rec \in Row : r = Upper[call[w].id] /\ rec = call[w].rec
  BY <1>1, IdsAssumption DEF Call
<1>3. PICK c : c = [call[w] EXCEPT !.pc = "emit"]
  OBVIOUS
<1>4. /\ c.pc = "emit" /\ c.id = call[w].id /\ c.event = call[w].event
      /\ c.rec = call[w].rec /\ c.actor = call[w].actor
  BY <1>1, <1>3 DEF Call
<1>5. WholeRecord(rec) /\ Explains(EventOf(c), rec)
  BY <1>1, <1>2, <1>4 DEF CallsWhole, EventOf
<1>6. Moves({EventOf(c)}) = {RaceEntry(rec)}
  BY <1>5, ExplainsEntry
<1>7. call' = [call EXCEPT ![w] = c] /\ row' = [row EXCEPT ![r] = rec]
  BY <1>2, <1>3 DEF Update
<1>8. UNCHANGED <<audit, lost>>
  BY DEF Update
<1>9. ASSUME NEW q \in Requests \ {r} PROVE Past(q)' = Past(q)
  <2>1. ~(c.pc \in {"emit", "insert"} /\ Upper[c.id] = q)
    BY <1>2, <1>4
  <2> QED
    BY <1>7, <1>8, <2>1, CallPast
<1>10. Past(r) \subseteq Past(r)' /\ Past(r)' \subseteq Past(r) \cup {RaceEntry(rec)}
  BY <1>6, <1>7, <1>8, CallPast
<1>11. RaceEntry(rec) \in Past(r)'
  <2>1. call'[w] = c
    BY <1>7 DEF TypeOK
  <2>2. EventOf(c) \in Owed(r)'
    BY <1>2, <1>4, <2>1 DEF Owed, Owing
  <2>3. EventOf(c) \in History(r)'
    BY <2>2 DEF History
  <2> QED
    BY <1>6, <2>3 DEF Past, Moves
<1>12. Past(r)' = Past(r) \cup {RaceEntry(rec)}
  BY <1>10, <1>11
<1>13. \A q \in Requests \ {r} : Past(q)' = Past(q)
  BY <1>9
<1> QED
  BY <1>2, <1>7, <1>12, <1>13

\* Storing an event that is owed adds nothing to a past.
LEMMA StorePast ==
    ASSUME TypeOK, Gapless, [Next]_vars, NEW w \in Workers, call[w] \in Call,
           call[w].pc \in {"emit", "insert"}, NEW n \in Nat, Store(w, n), NEW r \in Requests
    PROVE  Past(r)' = Past(r)
<1>0. call \in [Workers -> Call \cup {Idle}]
  BY DEF TypeOK
<1>1. PICK c : c = AfterEvent(call[w])
  OBVIOUS
<1>2. call' = [call EXCEPT ![w] = c] /\ lost'[r] = lost[r]
  BY <1>1 DEF Store
<1>3. Recorded(r)' \subseteq Recorded(r) \cup Owed(r)
  <2>1. CASE Upper[call[w].id] = r
    <3>1. Recorded(r)' = Recorded(r) \cup {EventOf(call[w])}
      BY <2>1, StoreRecords
    <3>2. w \in Owing(r)
      BY <2>1 DEF Owing
    <3>3. EventOf(call[w]) \in Owed(r)
      BY <3>2 DEF Owed
    <3> QED
      BY <3>1, <3>3
  <2>2. CASE Upper[call[w].id] # r
    BY <2>2, StoreRecords
  <2> QED
    BY <2>1, <2>2
<1>4. History(r) \subseteq History(r)'
  BY HistoryGrows
<1>5. CASE c = Idle
  <2>1. Owed(r)' \subseteq Owed(r)
    <3>1. ~(c.pc \in {"emit", "insert"} /\ Upper[c.id] = r)
      BY <1>5 DEF Idle
    <3> QED
      BY <1>0, <1>2, <3>1, OwedKept
  <2>2. History(r)' = History(r)
    BY <1>2, <1>3, <1>4, <2>1 DEF History
  <2> QED
    BY <2>2 DEF Past
<1>6. CASE c # Idle
  <2>1. c = [call[w] EXCEPT !.pc = "emit", !.event = "approver_notified", !.seq = 0]
    BY <1>1, <1>6 DEF AfterEvent
  <2>2. c.event = "approver_notified"
    BY <2>1 DEF Call
  <2>3. Moves({EventOf(c)}) = {}
    <3>1. PICK f : f = EventOf(c)
      OBVIOUS
    <3>2. f.type = "approver_notified"
      BY <2>2, <3>1 DEF EventOf
    <3> QED
      BY <3>1, <3>2, MovesSingle DEF StageOf
  <2>4. History(r)' \subseteq History(r) \cup {EventOf(c)}
    BY <1>0, <1>2, <1>3, OwedGains DEF History
  <2> QED
    BY <1>4, <2>3, <2>4, PastGains
<1> QED
  BY <1>5, <1>6

\* A step other than Create and Update leaves every row and every past as they were.
LEMMA QuietPast ==
    ASSUME TypeOK, Gapless, [Next]_vars, NEW r \in Requests,
           \A w \in Workers : ~Create(w) /\ ~Update(w)
    PROVE  row' = row /\ Past(r)' = Past(r)
<1>0. call \in [Workers -> Call \cup {Idle}]
  BY DEF TypeOK
<1>1. ASSUME NEW w \in Workers, Load(w) PROVE Past(r)' = Past(r)
  <2>1. PICK c : c.pc = "update" /\ call' = [call EXCEPT ![w] = c]
    BY <1>1, LoadedCall
  <2> QED
    BY <1>1, <2>1, CallPast DEF Load
<1>2. ASSUME NEW w \in Workers, Lookup(w) PROVE Past(r)' = Past(r)
  <2>1. PICK c : c.event = "lookup_performed" /\ call' = [call EXCEPT ![w] = c]
    BY <1>2 DEF Lookup, NewCall
  <2>2. PICK e : e = EventOf(c)
    OBVIOUS
  <2>3. Moves({e}) = {}
    BY <2>1, <2>2, MovesSingle DEF EventOf, StageOf
  <2> QED
    BY <1>2, <2>1, <2>2, <2>3, CallPast DEF Lookup
<1>3. ASSUME NEW w \in Workers, AppendEvent(w) PROVE Past(r)' = Past(r)
  <2>1. call[w] \in Call /\ call[w].id \in Ids
    BY <1>0, <1>3 DEF AppendEvent, Idle, Call
  <2>2. NextSequence(call[w].id) \in Nat
    BY <2>1, NextSequenceType
  <2> QED
    BY <1>3, <2>1, <2>2, StorePast DEF AppendEvent
<1>4. ASSUME NEW w \in Workers, ReadSequence(w) PROVE Past(r)' = Past(r)
  <2>1. call[w] \in Call /\ call[w].pc = "emit"
    BY <1>0, <1>4 DEF ReadSequence, Idle
  <2>2. PICK c : c = [call[w] EXCEPT !.pc = "insert", !.seq = NextSequence(call[w].id)]
    OBVIOUS
  <2>3. /\ c.id = call[w].id /\ c.event = call[w].event
        /\ c.rec = call[w].rec /\ c.actor = call[w].actor
    BY <2>1, <2>2 DEF Call
  <2>4. EventOf(c) = EventOf(call[w])
    BY <2>3 DEF EventOf
  <2>5. call' = [call EXCEPT ![w] = c] /\ UNCHANGED <<audit, lost>>
    BY <1>4, <2>2 DEF ReadSequence
  <2>6. CASE Upper[c.id] = r
    <3>1. w \in Owing(r)
      BY <2>1, <2>3, <2>6 DEF Owing
    <3>2. EventOf(c) \in History(r)
      BY <2>4, <3>1 DEF Owed, History
    <3>3. Moves({EventOf(c)}) \subseteq Past(r)
      BY <3>2 DEF Past, Moves
    <3> QED
      BY <2>5, <3>3, CallPast
  <2>7. CASE Upper[c.id] # r
    BY <2>5, <2>7, CallPast
  <2> QED
    BY <2>6, <2>7
<1>5. ASSUME NEW w \in Workers, InsertEvent(w) PROVE Past(r)' = Past(r)
  <2>1. call[w] \in Call
    BY <1>0, <1>5 DEF InsertEvent, Idle
  <2>2. call[w].seq \in Nat
    BY <2>1 DEF Call
  <2> QED
    BY <1>5, <2>1, <2>2, StorePast DEF InsertEvent
<1>6. ASSUME NEW w \in Workers, Abort(w) PROVE Past(r)' = Past(r)
  <2>1. call[w] \in Call /\ call' = [call EXCEPT ![w] = Idle]
    BY <1>0, <1>6 DEF Abort
  <2>2. Owed(r)' \subseteq Owed(r)
    <3>1. ~(Idle.pc \in {"emit", "insert"} /\ Upper[Idle.id] = r)
      BY DEF Idle
    <3> QED
      BY <1>0, <2>1, <3>1, OwedKept
  <2>3. Recorded(r)' = Recorded(r)
    BY <1>6 DEF Abort, Recorded, Timeline
  <2>4. lost'[r] \subseteq lost[r] \cup Owed(r)
    <3>1. CASE lost' = lost
      BY <3>1
    <3>2. CASE lost' # lost
      <4>1. PICK e : e = EventOf(call[w])
        OBVIOUS
      <4>2. /\ call[w].pc \in {"emit", "insert"}
            /\ lost' = [lost EXCEPT ![Upper[call[w].id]] = @ \cup {e}]
        BY <1>6, <2>1, <3>2, <4>1 DEF Abort, Call
      <4>3. CASE Upper[call[w].id] = r
        <5>1. w \in Owing(r)
          BY <4>2, <4>3 DEF Owing
        <5>2. e \in Owed(r)
          BY <4>1, <5>1 DEF Owed
        <5> QED
          BY <4>2, <4>3, <5>2 DEF TypeOK
      <4>4. CASE Upper[call[w].id] # r
        BY <4>2, <4>4 DEF TypeOK
      <4> QED
        BY <4>3, <4>4
    <3> QED
      BY <3>1, <3>2
  <2>5. History(r)' = History(r)
    <3>1. History(r) \subseteq History(r)'
      BY HistoryGrows
    <3> QED
      BY <2>2, <2>3, <2>4, <3>1 DEF History
  <2> QED
    BY <2>5 DEF Past
<1>7. CASE UNCHANGED vars
  BY <1>7 DEF vars, Past, History, Recorded, Timeline, Owed, Owing
<1>8. row' = row
  BY DEF Next, Quiescent, vars, Load, Lookup, AppendEvent, ReadSequence, InsertEvent,
         Store, Abort
<1> QED
  BY <1>1, <1>2, <1>3, <1>4, <1>5, <1>6, <1>7, <1>8 DEF Next, Quiescent

\* Only Load makes a handler that is about to write.
LEMMA WritersLoaded ==
    ASSUME TypeOK, [Next]_vars, NEW v \in Workers, call'[v].pc = "update"
    PROVE  call'[v] = call[v] \/ Load(v)
<1>0. call \in [Workers -> Call \cup {Idle}]
  BY DEF TypeOK
<1>1. ASSUME NEW w \in Workers, NEW c, c.pc # "update", call' = [call EXCEPT ![w] = c]
      PROVE  call'[v] = call[v]
  BY <1>0, <1>1
<1>2. ASSUME NEW w \in Workers, Create(w) \/ Lookup(w) PROVE call'[v] = call[v]
  <2>1. PICK c : c.pc # "update" /\ call' = [call EXCEPT ![w] = c]
    BY <1>2, CreatedCall DEF Lookup, NewCall
  <2> QED
    BY <1>1, <2>1
<1>3. ASSUME NEW w \in Workers, Load(w) PROVE call'[v] = call[v] \/ Load(v)
  <2>1. PICK c : call' = [call EXCEPT ![w] = c]
    BY <1>3, LoadedCall
  <2> QED
    BY <1>0, <1>3, <2>1
<1>4. ASSUME NEW w \in Workers, Update(w) PROVE call'[v] = call[v]
  <2>1. call[w] \in Call
    BY <1>0, <1>4 DEF Update, Idle
  <2>2. PICK c : c = [call[w] EXCEPT !.pc = "emit"]
    OBVIOUS
  <2>3. c.pc # "update" /\ call' = [call EXCEPT ![w] = c]
    BY <1>4, <2>1, <2>2 DEF Update, Call
  <2> QED
    BY <1>1, <2>3
<1>5. ASSUME NEW w \in Workers, AppendEvent(w) \/ InsertEvent(w) PROVE call'[v] = call[v]
  <2>1. call[w] \in Call
    BY <1>0, <1>5 DEF AppendEvent, InsertEvent, Idle
  <2>2. AfterEvent(call[w]).pc # "update"
    BY <2>1 DEF AfterEvent, Idle, Call
  <2>3. call' = [call EXCEPT ![w] = AfterEvent(call[w])]
    BY <1>5 DEF AppendEvent, InsertEvent, Store
  <2> QED
    BY <1>1, <2>2, <2>3
<1>6. ASSUME NEW w \in Workers, ReadSequence(w) PROVE call'[v] = call[v]
  <2>1. call[w] \in Call
    BY <1>0, <1>6 DEF ReadSequence, Idle
  <2>2. PICK c : c = [call[w] EXCEPT !.pc = "insert", !.seq = NextSequence(call[w].id)]
    OBVIOUS
  <2>3. c.pc # "update" /\ call' = [call EXCEPT ![w] = c]
    BY <1>6, <2>1, <2>2 DEF ReadSequence, Call
  <2> QED
    BY <1>1, <2>3
<1>7. ASSUME NEW w \in Workers, Abort(w) PROVE call'[v] = call[v]
  BY <1>1, <1>7 DEF Abort, Idle
<1>8. CASE UNCHANGED vars
  BY <1>8 DEF vars
<1> QED
  BY <1>2, <1>3, <1>4, <1>5, <1>6, <1>7, <1>8 DEF Next, Quiescent

\* A record that continues a whole row is one move of the lifecycle away from it.
LEMMA ContinuesSteps ==
    ASSUME NEW c \in Call, Continues(c), TypeOK, RowsWhole
    PROVE  RaceEntry(c.rec) \in Raced!Steps(RaceEntry(row[Upper[c.id]]))
<1>1. PICK old \in Row : old = row[Upper[c.id]] /\ WholeRecord(old)
  BY IdsAssumption DEF Continues, Call, TypeOK, RowsWhole
<1>2. PICK new \in Row : new = c.rec
  BY DEF Call
<1>3. /\ old.status \in {"submitted", "needs_info"}
      /\ new.status \in AllowedTransitions[old.status]
      /\ new.lastRev = IF new.status = "submitted" THEN old.lastRev + 1 ELSE old.lastRev
  BY <1>1, <1>2 DEF Continues, WholeRecord, Statuses, Terminal
<1>4. RaceEntry(new) \in Raced!Steps(RaceEntry(old))
  BY <1>3 DEF RaceEntry, Raced!Entry, Raced!Steps, AllowedTransitions
<1> QED
  BY <1>1, <1>2, <1>4

\* Handlers stay grounded: they load a row that its past knows, and pasts only grow.
LEMMA GroundedNext ==
    ASSUME TypeOK, Gapless, RowsWhole, RowsPast, CallsGrounded, [Next]_vars
    PROVE  CallsGrounded'
<1> SUFFICES ASSUME NEW v \in Workers, NEW r \in Requests,
                    call'[v].pc = "update", Upper[call'[v].id] = r
             PROVE  \E p \in Past(r)' : RaceEntry(call'[v].rec) \in Raced!Steps(p)
  BY DEF CallsGrounded
<1>0. Past(r) \subseteq Past(r)'
  <2>1. History(r) \subseteq History(r)'
    BY HistoryGrows
  <2> QED
    BY <2>1 DEF Past, Moves
<1>1. CASE call'[v] = call[v]
  <2>1. PICK p \in Past(r) : RaceEntry(call[v].rec) \in Raced!Steps(p)
    BY <1>1 DEF CallsGrounded
  <2> QED
    BY <1>0, <1>1, <2>1
<1>2. CASE Load(v)
  <2>1. PICK c \in Call : call' = [call EXCEPT ![v] = c] /\ Continues(c)
    BY <1>2, LoadedWhole
  <2>2. call'[v] = c /\ Upper[c.id] = r /\ row[r] # NoRow
    BY <2>1 DEF TypeOK, Continues
  <2>3. RaceEntry(row[r]) \in Past(r)'
    BY <1>0, <2>2 DEF RowsPast
  <2>4. RaceEntry(c.rec) \in Raced!Steps(RaceEntry(row[r]))
    BY <2>1, <2>2, ContinuesSteps
  <2> QED
    BY <2>2, <2>3, <2>4
<1> QED
  BY <1>1, <1>2, WritersLoaded

\* What the journal sees when the row of one request is written and its entry made.
LEMMA RacedEnter ==
    ASSUME TypeOK, NEW r \in Requests, NEW rec \in Row, row' = [row EXCEPT ![r] = rec],
           Past(r)' = Past(r) \cup {RaceEntry(rec)},
           \A q \in Requests \ {r} : Past(q)' = Past(q)
    PROVE  Raced!Enter(r, RaceEntry(rec))
<1>1. [q \in Requests |-> Past(q)'] =
        [[q \in Requests |-> Past(q)] EXCEPT ![r] = @ \cup {RaceEntry(rec)}]
  OBVIOUS
<1>2. RaceEntry(rec).stage = rec.status /\ RaceEntry(rec).rev = rec.lastRev
  BY DEF RaceEntry, Raced!Entry
<1>3. [q \in Requests |-> row'[q].status] =
        [[q \in Requests |-> row[q].status] EXCEPT ![r] = RaceEntry(rec).stage]
  BY <1>2, RowShows
<1>4. [q \in Requests |-> IF row'[q] = NoRow THEN 0 ELSE row'[q].lastRev] =
        [[q \in Requests |-> IF row[q] = NoRow THEN 0 ELSE row[q].lastRev]
           EXCEPT ![r] = RaceEntry(rec).rev]
  <2> DEFINE old == [q \in Requests |-> IF row[q] = NoRow THEN 0 ELSE row[q].lastRev]
             new == [q \in Requests |-> IF row'[q] = NoRow THEN 0 ELSE row'[q].lastRev]
  <2>1. new = [old EXCEPT ![r] = rec.lastRev]
    BY RowShows
  <2> HIDE DEF old, new
  <2>2. new = [old EXCEPT ![r] = RaceEntry(rec).rev]
    BY <1>2, <2>1
  <2> QED
    BY <2>2 DEF old, new
<1> QED
  BY <1>1, <1>3, <1>4 DEF Raced!Enter, NoRow

\* Every step of the service is a move of the journal or a stutter.
LEMMA RacedNext ==
    ASSUME TypeOK, Gapless, RowsWhole, CallsWhole, CallsGrounded, [Next]_vars
    PROVE  [Raced!Next]_(Raced!vars)
<1>1. ASSUME NEW w \in Workers, Create(w) PROVE Raced!Next
  <2>1. PICK r \in Requests, rec \in Row :
          /\ row[r] = NoRow
          /\ RaceEntry(rec) = Raced!First
          /\ Raced!Enter(r, RaceEntry(rec))
    BY <1>1, CreatePast, RacedEnter
  <2>2. Raced!Submit(r)
    BY <2>1 DEF Raced!Submit, NoRow
  <2> QED
    BY <2>2 DEF Raced!Next
<1>2. ASSUME NEW w \in Workers, Update(w) PROVE Raced!Next
  <2>1. PICK r \in Requests, rec \in Row :
          /\ r = Upper[call[w].id] /\ rec = call[w].rec
          /\ Raced!Enter(r, RaceEntry(rec))
    BY <1>2, UpdatePast, RacedEnter
  <2>2. PICK p \in Past(r) : RaceEntry(rec) \in Raced!Steps(p)
    BY <1>2, <2>1 DEF CallsGrounded, Update
  <2>3. Raced!Follow(r)
    BY <2>1, <2>2 DEF Raced!Follow
  <2> QED
    BY <2>3 DEF Raced!Next
<1>3. CASE \A w \in Workers : ~Create(w) /\ ~Update(w)
  <2>1. ASSUME NEW r \in Requests PROVE row' = row /\ Past(r)' = Past(r)
    BY <1>3, QuietPast
  <2>2. Requests # {} => row' = row
    BY <2>1
  <2> QED
    BY <2>1, <2>2 DEF Raced!vars, NoRow
<1> QED
  BY <1>1, <1>2, <1>3

\* With no request stored the journal is in its initial state.
LEMMA RacedInit == Init => Raced!Init
<1> SUFFICES ASSUME Init PROVE Raced!Init
  OBVIOUS
<1>1. \A r \in Requests : Recorded(r) = {} /\ Owed(r) = {} /\ lost[r] = {}
  BY DEF Init, Recorded, Timeline, Owed, Owing, Idle
<1>2. \A r \in Requests : Past(r) = {}
  BY <1>1 DEF Past, History, Moves
<1> QED
  BY <1>2 DEF Init, Raced!Init, NoRow

JournalInv ==
    TypeOK /\ Gapless /\ RowsWhole /\ CallsWhole /\ RowsExplained /\ CallsGrounded

\* What every step of the service needs to be one of the journal.
LEMMA JournalInvCorrect == Spec => []JournalInv
<1>1. Init => JournalInv
  BY TypedInit, WholeInit DEF Init, JournalInv, RowsExplained, CallsGrounded, Idle
<1>2. JournalInv /\ [Next]_vars => JournalInv'
  BY TypedNext, WholeNext, ExplainedNext, ExplainedPast, GroundedNext DEF JournalInv
<1> QED
  BY <1>1, <1>2, PTL DEF Spec

\* Any number of handlers, failing anywhere: a request never enters a stage that does
\* not follow from one it had, and no stage it enters is missing from what is recorded,
\* owed, or lost with a failed handler.
THEOREM ImplementsJournalCorrect == Spec => ImplementsJournal
<1>1. JournalInv /\ [Next]_vars => [Raced!Next]_(Raced!vars)
  BY RacedNext DEF JournalInv
<1> QED
  BY <1>1, JournalInvCorrect, RacedInit, PTL DEF Spec, ImplementsJournal, Raced!Spec

(***************************************************************************)
(* What a past tells of its revisions.                                     *)
(***************************************************************************)

Told(P) ==
    \A m \in P :
        /\ m = Raced!Entry(m.stage, m.rev) /\ m.rev \in Nat
        /\ \A n \in 1 .. m.rev :
            /\ Raced!Entry("submitted", n) \in P
            /\ n < m.rev => Raced!Entry("needs_info", n) \in P

PastsTold == \A r \in Requests : Told(Past(r))

\* The first entry tells of itself, and takes nothing from the others.
LEMMA ToldFirst ==
    ASSUME NEW P, Told(P)
    PROVE  Told(P \cup {Raced!First})
BY DEF Told, Raced!First, Raced!Entry

\* So does a move from an entry that is there: only a resubmission counts on, from a
\* request that was sent back.
LEMMA ToldStep ==
    ASSUME NEW P, Told(P), NEW e \in P, NEW f \in Raced!Steps(e)
    PROVE  Told(P \cup {f})
<1>1. e = Raced!Entry(e.stage, e.rev) /\ e.rev \in Nat
  BY DEF Told
<1>2. f = Raced!Entry(f.stage, f.rev) /\ f.rev \in Nat
  BY <1>1 DEF Raced!Steps, Raced!Entry
<1>3. ASSUME NEW n \in 1 .. f.rev
      PROVE  /\ Raced!Entry("submitted", n) \in P \cup {f}
             /\ n < f.rev => Raced!Entry("needs_info", n) \in P \cup {f}
  <2>1. CASE f.rev = e.rev
    BY <1>3, <2>1 DEF Told
  <2>2. CASE f.rev # e.rev
    <3>1. e.stage = "needs_info" /\ f = Raced!Entry("submitted", e.rev + 1)
      BY <2>2 DEF Raced!Steps, Raced!Entry
    <3>2. f.rev = e.rev + 1
      BY <3>1 DEF Raced!Entry
    <3>3. CASE n \in 1 .. e.rev
      <4>1. /\ Raced!Entry("submitted", n) \in P
            /\ n < e.rev => Raced!Entry("needs_info", n) \in P
        BY <3>3 DEF Told
      <4>2. n = e.rev => Raced!Entry("needs_info", n) \in P
        BY <1>1, <3>1
      <4> QED
        BY <1>1, <3>3, <4>1, <4>2
    <3>4. CASE n = e.rev + 1
      BY <1>1, <3>1, <3>2, <3>4
    <3> QED
      BY <1>1, <1>3, <3>2, <3>3, <3>4
  <2> QED
    BY <2>1, <2>2
<1> QED
  BY <1>2, <1>3 DEF Told

\* A move of the journal keeps what every past tells.
LEMMA ToldNext ==
    ASSUME PastsTold, [Raced!Next]_(Raced!vars)
    PROVE  PastsTold'
<1> SUFFICES ASSUME NEW q \in Requests PROVE Told(Past(q)')
  BY DEF PastsTold
<1>0. Told(Past(q))
  BY DEF PastsTold
<1>1. ASSUME NEW r \in Requests, NEW e, Raced!Enter(r, e)
      PROVE  Past(q)' = IF q = r THEN Past(q) \cup {e} ELSE Past(q)
  <2> DEFINE old == [p \in Requests |-> Past(p)]
  <2>1. [p \in Requests |-> Past(p)'] = [old EXCEPT ![r] = @ \cup {e}]
    BY <1>1 DEF Raced!Enter
  <2>2. [p \in Requests |-> Past(p)'][q] = Past(q)' /\ old[q] = Past(q) /\ q \in DOMAIN old
    OBVIOUS
  <2> HIDE DEF old
  <2> QED
    BY <2>1, <2>2
<1>2. ASSUME NEW r \in Requests, Raced!Submit(r) PROVE Told(Past(q)')
  <2>1. Raced!Enter(r, Raced!First)
    BY <1>2 DEF Raced!Submit
  <2>2. Past(q)' \in {Past(q), Past(q) \cup {Raced!First}}
    BY <1>1, <2>1
  <2> QED
    BY <1>0, <2>2, ToldFirst
<1>3. ASSUME NEW r \in Requests, Raced!Follow(r) PROVE Told(Past(q)')
  <2>1. PICK e \in Past(r) : \E f \in Raced!Steps(e) : Raced!Enter(r, f)
    BY <1>3 DEF Raced!Follow
  <2>2. PICK f \in Raced!Steps(e) : Raced!Enter(r, f)
    BY <2>1
  <2>3. Past(q)' = IF q = r THEN Past(q) \cup {f} ELSE Past(q)
    BY <1>1, <2>2
  <2> QED
    BY <1>0, <2>1, <2>2, <2>3, ToldStep
<1>4. CASE UNCHANGED Raced!vars
  <2>1. [p \in Requests |-> Past(p)'] = [p \in Requests |-> Past(p)]
    BY <1>4 DEF Raced!vars
  <2>2. [p \in Requests |-> Past(p)'][q] = Past(q)' /\ [p \in Requests |-> Past(p)][q] = Past(q)
    OBVIOUS
  <2> QED
    BY <1>0, <2>1, <2>2
<1> QED
  BY <1>2, <1>3, <1>4 DEF Raced!Next

\* No race and no failure makes a revision of which the history does not tell how the
\* request came to it.
THEOREM RevisionsToldCorrect == Spec => []RevisionsTold
<1>1. Init => PastsTold
  <2> SUFFICES ASSUME Init PROVE PastsTold
    OBVIOUS
  <2>1. ASSUME NEW r \in Requests PROVE Past(r) = {}
    BY DEF Init, Past, History, Recorded, Timeline, Owed, Owing, Idle, Moves
  <2> QED
    BY <2>1 DEF PastsTold, Told
<1>2. JournalInv /\ [Next]_vars => [Raced!Next]_(Raced!vars)
  BY RacedNext DEF JournalInv
<1>3. PastsTold /\ [Raced!Next]_(Raced!vars) => PastsTold'
  BY ToldNext
<1>4. JournalInv /\ PastsTold => RevisionsTold
  <2> SUFFICES ASSUME JournalInv, PastsTold, NEW r \in Requests, row[r] # NoRow,
                      NEW n \in 1 .. row[r].lastRev
               PROVE  /\ Raced!Entry("submitted", n) \in Past(r)
                      /\ n < row[r].lastRev => Raced!Entry("needs_info", n) \in Past(r)
    BY DEF RevisionsTold
  <2>1. PICK m \in Past(r) : m = RaceEntry(row[r])
    BY ExplainedPast DEF JournalInv, RowsPast
  <2>2. m.rev = row[r].lastRev
    BY <2>1 DEF RaceEntry, Raced!Entry
  <2>3. Told(Past(r))
    BY DEF PastsTold
  <2> HIDE DEF JournalInv
  <2> QED
    BY <2>2, <2>3 DEF Told
<1> QED
  BY <1>1, <1>2, <1>3, <1>4, JournalInvCorrect, PTL DEF Spec

=============================================================================
