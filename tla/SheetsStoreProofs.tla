------------------------- MODULE SheetsStoreProofs -------------------------
(***************************************************************************)
(* Theorems about SheetsStore for any number of threads, keys and rows.    *)
(***************************************************************************)
EXTENDS SheetsStore, WellFoundedInduction, SequenceTheorems, TLAPS

(***************************************************************************)
(* Rows.                                                                   *)
(***************************************************************************)

\* A set of natural numbers that is not empty has a least element.
LEMMA Least ==
    ASSUME NEW T \in SUBSET Nat, T # {}
    PROVE  \E x \in T : \A y \in T : x <= y
<1> DEFINE R == OpToRel(<, Nat)
<1>1. \A x, y \in Nat : <<y, x>> \in R <=> y < x
  BY DEF OpToRel
<1>2. IsWellFoundedOn(R, Nat)
  BY NatLessThanWellFounded
<1> HIDE DEF R
<1>3. PICK x \in T : \A y \in T : ~(<<y, x>> \in R)
  BY <1>2, WFMin
<1>4. \A y \in T : ~(y < x)
  BY <1>1, <1>3
<1> QED
  BY <1>4

\* A row number that _find_row_number returns is that of a row of the key, and
\* when it returns none there is no such row.
LEMMA Found ==
    ASSUME NEW rows \in Seq(Row), NEW k
    PROVE  /\ FindRow(rows, k) # 0 => /\ FindRow(rows, k) \in DOMAIN rows
                                      /\ rows[FindRow(rows, k)].key = k
           /\ FindRow(rows, k) = 0 => \A i \in DOMAIN rows : rows[i].key # k
           /\ FindRow(rows, k) \in Nat
<1> DEFINE I == {i \in 1..Len(rows) : rows[i].key = k}
<1>1. FindRow(rows, k) = IF I # {} THEN Min(I) ELSE 0
  BY DEF FindRow, SelectInSeq
<1>2. ASSUME I # {} PROVE Min(I) \in I
  <2>1. I \in SUBSET Nat
    OBVIOUS
  <2> HIDE DEF I
  <2>2. \E x \in I : \A y \in I : x <= y
    BY <1>2, <2>1, Least
  <2> QED
    BY <2>2 DEF Min
<1>3. DOMAIN rows = 1..Len(rows)
  OBVIOUS
<1> QED
  BY <1>1, <1>2, <1>3

\* Taking a row out closes the gap and keeps the order of the others.
LEMMA RowRemoved ==
    ASSUME NEW S, NEW s \in Seq(S), NEW i \in 1..Len(s)
    PROVE  /\ RemoveAt(s, i) \in Seq(S)
           /\ Len(RemoveAt(s, i)) = Len(s) - 1
           /\ \A j \in 1..(Len(s) - 1) :
                RemoveAt(s, i)[j] = IF j < i THEN s[j] ELSE s[j + 1]
<1> DEFINE a == SubSeq(s, 1, i - 1)
           b == SubSeq(s, i + 1, Len(s))
<1>1. /\ a \in Seq(S) /\ Len(a) = i - 1
      /\ \A j \in 1..(i - 1) : a[j] = s[j]
  BY SubSeqProperties, \A j \in 1..(i - 1) : s[j] \in S
<1>2. /\ b \in Seq(S) /\ Len(b) = Len(s) - i
      /\ \A j \in 1..(Len(s) - i) : b[j] = s[i + j]
  BY SubSeqProperties, \A j \in (i + 1)..Len(s) : s[j] \in S
<1> HIDE DEF a, b
<1>3. /\ a \o b \in Seq(S)
      /\ Len(a \o b) = Len(a) + Len(b)
      /\ \A j \in 1..(Len(a) + Len(b)) :
            (a \o b)[j] = IF j <= Len(a) THEN a[j] ELSE b[j - Len(a)]
  BY <1>1, <1>2, ConcatProperties
<1>4. RemoveAt(s, i) = a \o b
  BY DEF RemoveAt, a, b
<1>5. ASSUME NEW j \in 1..(Len(s) - 1)
      PROVE  (a \o b)[j] = IF j < i THEN s[j] ELSE s[j + 1]
  <2>1. CASE j < i
    BY <1>1, <1>2, <1>3, <2>1
  <2>2. CASE ~(j < i)
    <3>1. j - (i - 1) \in 1..(Len(s) - i) /\ i + (j - (i - 1)) = j + 1
      BY <2>2
    <3>2. j \in 1..(Len(a) + Len(b)) /\ ~(j <= Len(a))
      BY <1>1, <1>2, <2>2
    <3>3. (a \o b)[j] = b[j - (i - 1)]
      BY <1>1, <1>3, <3>2
    <3>4. b[j - (i - 1)] = s[j + 1]
      BY <1>2, <3>1
    <3> QED
      BY <2>2, <3>3, <3>4
  <2> QED
    BY <2>1, <2>2
<1>6. Len(a \o b) = Len(s) - 1
  BY <1>1, <1>2, <1>3
<1>7. /\ a \o b \in Seq(S)
      /\ Len(a \o b) = Len(s) - 1
      /\ \A j \in 1..(Len(s) - 1) : (a \o b)[j] = IF j < i THEN s[j] ELSE s[j + 1]
  BY <1>3, <1>5, <1>6, Zenon
<1> QED
  BY <1>4, <1>7, Zenon

\* The number 0 takes nothing out.
LEMMA NothingRemoved ==
    ASSUME NEW S, NEW s \in Seq(S)
    PROVE  RemoveAt(s, 0) \in Seq(S)
<1>1. SubSeq(s, 1, -1) = <<>>
  BY SubSeqEmpty
<1>2. SubSeq(s, 1, Len(s)) \in Seq(S)
  BY SubSeqProperties, \A j \in 1..Len(s) : s[j] \in S
<1> QED
  BY <1>1, <1>2, ConcatProperties, <<>> \in Seq(S) DEF RemoveAt

\* Whatever a write finds at its row number, rows remain rows.
LEMMA AppliedTyped ==
    ASSUME TypeOK, NEW o \in Op
    PROVE  Applied(o) \in Seq(Row)
<1> DEFINE rows == sheet[o.ws]
           r == RowOf(o.key, o.value)
<1>1. rows \in Seq(Row) /\ o.at \in Nat
  BY DEF TypeOK, Op
<1>2. r \in Row /\ RowOf(NoKey, NoKey) \in Row
  BY DEF Op, Row, RowOf
<1> HIDE DEF rows, r
<1>3. DeleteRow(rows, o.at) \in Seq(Row)
  <2>1. CASE o.at = 0
    BY <2>1, <1>1, NothingRemoved DEF DeleteRow
  <2>2. CASE o.at # 0
    BY <2>2, <1>1, RowRemoved DEF DeleteRow
  <2> QED
    BY <2>1, <2>2
<1>4. Append(rows, r) \in Seq(Row)
  BY <1>1, <1>2, AppendProperties
<1>5. Put(rows, o.at, r) \in Seq(Row)
  <2> DEFINE n == IF o.at > Len(rows) THEN o.at ELSE Len(rows)
  <2>1. n \in Nat
    BY <1>1
  <2>2. Put(rows, o.at, r) \in [1..n -> Row]
    BY <1>1, <1>2 DEF Put
  <2> QED
    BY <2>1, <2>2, SeqDef
<1> QED
  BY <1>3, <1>4, <1>5 DEF Applied, rows, r

(***************************************************************************)
(* Steps.  A step either looks (and may take the lock or give it back) or  *)
(* applies a write.                                                        *)
(***************************************************************************)

\* What the first half of a write decides.
Decided(kind, ws, k, v, at) ==
    \/ /\ ws = "requests" /\ kind = "write" /\ v \in Values
       /\ \/ at = 0 /\ Contents(sheet["requests"], k) = {}
          \/ at # 0 /\ at = FindRow(View("requests"), k)
    \/ /\ ws = "audit_events" /\ kind = "write" /\ at = 0
       /\ v = NextSequence(View("audit_events"), k)
    \/ /\ ws = "pending" /\ at = FindRow(View("pending"), k)
       /\ \/ kind = "write" /\ v \in Values
          \/ kind = "delete" /\ v = 0 /\ at # 0

NewOp(t) ==
    \E kind, ws, v, at : \E k \in Keys :
        /\ LockFree
        /\ Decided(kind, ws, k, v, at)
        /\ op' = [op EXCEPT ![t] = [kind |-> kind, ws |-> ws, key |-> k,
                                   value |-> v, at |-> at]]

Look ==
    /\ UNCHANGED sheet
    /\ copy' \in [Worksheets -> Seq(Row) \cup {NoCopy}]
    /\ \A ws \in Worksheets : copy'[ws] \in {copy[ws], View(ws), NoCopy}
    /\ \/ op' \in [Threads -> Op \cup {Idle}] /\ \A t \in Threads : op'[t] \in {op[t], Idle}
       \/ \E t \in Threads : NewOp(t)

Apply(t) ==
    /\ op[t] # Idle
    /\ sheet' = [sheet EXCEPT ![op[t].ws] = Applied(op[t])]
    /\ op' = [op EXCEPT ![t] = Idle]
    /\ \/ copy' = [copy EXCEPT ![op[t].ws] = NoCopy]
       \/ LostReplies /\ UNCHANGED copy

\* What a reader of a worksheet sees are rows.
LEMMA ViewTyped ==
    ASSUME TypeOK, NEW ws \in Worksheets
    PROVE  View(ws) \in Seq(Row)
BY DEF TypeOK, View

\* What a step leaves in the copies are rows.
LEMMA CopyTyped ==
    ASSUME TypeOK, NEW ws \in Worksheets, KeepView(ws)
    PROVE  /\ copy' \in [Worksheets -> Seq(Row) \cup {NoCopy}]
           /\ \A x \in Worksheets : copy'[x] \in {copy[x], View(x), NoCopy}
BY ViewTyped DEF TypeOK, KeepView

\* A write that takes the lock and decides as the code does is a step that looks.
LEMMA Taking ==
    ASSUME TypeOK, NEW t \in Threads, NEW kind, NEW ws, NEW k \in Keys, NEW v, NEW at,
           Take(t, kind, ws, k, v, at),
           Decided(kind, ws, k, v, at),
           copy' \in [Worksheets -> Seq(Row) \cup {NoCopy}],
           \A x \in Worksheets : copy'[x] \in {copy[x], View(x), NoCopy}
    PROVE  Look
<1>1. NewOp(t)
  BY Zenon DEF NewOp, Take
<1> QED
  BY <1>1 DEF Look, Take

\* Every step is of one of the two kinds.
LEMMA Steps ==
    ASSUME TypeOK, [Next]_vars
    PROVE  Look \/ \E t \in Threads : Apply(t)
<1>1. "requests" \in Worksheets /\ "audit_events" \in Worksheets /\ "pending" \in Worksheets
  BY DEF Worksheets
<1>2. ASSUME UNCHANGED copy
      PROVE  /\ copy' \in [Worksheets -> Seq(Row) \cup {NoCopy}]
             /\ \A x \in Worksheets : copy'[x] \in {copy[x], View(x), NoCopy}
  BY <1>2 DEF TypeOK
<1>3. ASSUME NEW t \in Threads, CreateRequest(t) PROVE Look
  <2> PICK k \in Keys, v \in Values :
         /\ Contents(sheet["requests"], k) = {}
         /\ Take(t, "write", "requests", k, v, 0)
         /\ UNCHANGED copy
    BY <1>3 DEF CreateRequest
  <2> QED
    BY <1>2, Taking DEF Decided
<1>4. ASSUME NEW t \in Threads, UpdateRequest(t) PROVE Look
  <2> PICK k \in Keys, v \in Values :
         /\ FindRow(View("requests"), k) # 0
         /\ Take(t, "write", "requests", k, v, FindRow(View("requests"), k))
         /\ KeepView("requests")
    BY <1>4 DEF UpdateRequest
  <2> QED
    BY <1>1, CopyTyped, Taking DEF Decided
<1>5. ASSUME NEW t \in Threads, CreateAuditEvent(t) PROVE Look
  <2> PICK k \in Keys :
         /\ Take(t, "write", "audit_events", k, NextSequence(View("audit_events"), k), 0)
         /\ KeepView("audit_events")
    BY <1>5 DEF CreateAuditEvent
  <2> QED
    BY <1>1, CopyTyped, Taking DEF Decided
<1>6. ASSUME NEW t \in Threads, Upsert(t) PROVE Look
  <2> PICK k \in Keys, v \in Values :
         /\ Take(t, "write", "pending", k, v, FindRow(View("pending"), k))
         /\ KeepView("pending")
    BY <1>6 DEF Upsert
  <2> QED
    BY <1>1, CopyTyped, Taking DEF Decided
<1>7. ASSUME NEW t \in Threads, Delete(t) PROVE Look
  <2> PICK k \in Keys :
         /\ FindRow(View("pending"), k) # 0
         /\ Take(t, "delete", "pending", k, 0, FindRow(View("pending"), k))
         /\ KeepView("pending")
    BY <1>7 DEF Delete
  <2> QED
    BY <1>1, CopyTyped, Taking DEF Decided
<1>8. ASSUME NEW t \in Threads, Write(t) \/ ReplyLost(t) PROVE Apply(t)
  BY <1>8 DEF Write, ReplyLost, Apply, Release
<1>9. ASSUME NEW t \in Threads, Refused(t) PROVE Look
  BY <1>2, <1>9 DEF Refused, Release, Look, TypeOK
<1>10. ASSUME NEW ws \in Worksheets, Read(ws) PROVE Look
  BY <1>10, CopyTyped DEF Read, Look, TypeOK
<1>11. ASSUME NEW ws \in Worksheets, Expire(ws) PROVE Look
  BY <1>11 DEF Expire, Look, TypeOK
<1>12. ASSUME Restart PROVE Look
  BY <1>12 DEF Restart, Look, TypeOK
<1>13. CASE UNCHANGED vars
  BY <1>2, <1>13 DEF vars, Look, TypeOK
<1> QED
  BY <1>3, <1>4, <1>5, <1>6, <1>7, <1>8, <1>9, <1>10, <1>11, <1>12, <1>13 DEF Next

(***************************************************************************)
(* Types and sequence numbers.  The number of an event is well defined     *)
(* because those of each timeline are 1, ..., n, also in a stale copy.     *)
(***************************************************************************)

Numbered(rows) == \A k \in Keys : \E n \in Nat : Contents(rows, k) = 1..n

\* A copy lacks at most the newest events, and a write that is being made has a
\* number that is taken already or the next one.
Counted ==
    LET events == sheet["audit_events"]
        kept == copy["audit_events"]
    IN  /\ Numbered(events)
        /\ kept # NoCopy =>
              /\ Numbered(kept)
              /\ \A k \in Keys : Contents(kept, k) \subseteq Contents(events, k)
        /\ \A t \in Threads : op[t] # Idle /\ op[t].ws = "audit_events" =>
              /\ op[t].kind = "write" /\ op[t].at = 0
              /\ \E n \in Nat : /\ op[t].value = n + 1
                                /\ 1..n \subseteq Contents(events, op[t].key)

\* A row at the end adds its value to those of its key.
LEMMA ContentsAppended ==
    ASSUME NEW rows \in Seq(Row), NEW k \in Keys, NEW v \in Values \cup Nat, NEW j \in Keys
    PROVE  Contents(Append(rows, RowOf(k, v)), j) =
              IF j = k THEN Contents(rows, j) \cup {v} ELSE Contents(rows, j)
<1> DEFINE r == RowOf(k, v)
           new == Append(rows, r)
<1>1. r \in Row /\ r.key = k /\ r.value = v
  BY DEF Row, RowOf
<1> HIDE DEF r
<1>2. /\ DOMAIN new = 1..(Len(rows) + 1) /\ DOMAIN rows = 1..Len(rows)
      /\ Len(rows) \in Nat
      /\ \A i \in 1..Len(rows) : new[i] = rows[i]
      /\ new[Len(rows) + 1] = r
  BY <1>1, AppendProperties
<1> HIDE DEF new
<1>3. \A i \in DOMAIN new : i \in DOMAIN rows \/ i = Len(rows) + 1
  BY <1>2
<1>4. DOMAIN rows \subseteq DOMAIN new /\ Len(rows) + 1 \in DOMAIN new
  BY <1>2
<1>5. Contents(new, j) \subseteq IF j = k THEN Contents(rows, j) \cup {v} ELSE Contents(rows, j)
  BY <1>1, <1>2, <1>3 DEF Contents
<1>6. Contents(rows, j) \subseteq Contents(new, j)
  BY <1>2, <1>4 DEF Contents
<1>7. j = k => v \in Contents(new, j)
  BY <1>1, <1>2, <1>4 DEF Contents
<1> QED
  BY <1>5, <1>6, <1>7 DEF new, r

\* The next number of a timeline 1, ..., n is n + 1.
LEMMA NextIs ==
    ASSUME NEW rows, NEW k, NEW n \in Nat, Contents(rows, k) = 1..n
    PROVE  NextSequence(rows, k) = n + 1
<1>1. CASE n = 0
  BY <1>1 DEF NextSequence
<1>2. CASE n # 0
  <2>1. Max(1..n) = n
    <3>1. n \in 1..n /\ \A y \in 1..n : n >= y
      BY <1>2
    <3>2. \A x \in 1..n : (\A y \in 1..n : x >= y) => x = n
      BY <3>1
    <3> QED
      BY <3>1, <3>2 DEF Max
  <2>2. Contents(rows, k) # {}
    BY <1>2
  <2> QED
    BY <2>1, <2>2 DEF NextSequence
<1> QED
  BY <1>1, <1>2

\* A number that is taken or the next one keeps a timeline without gaps.
LEMMA StaysInterval ==
    ASSUME NEW n \in Nat, NEW m \in Nat, 1..m \subseteq 1..n
    PROVE  \E l \in Nat : (1..n) \cup {m + 1} = 1..l
<1>1. m <= n
  <2>1. CASE m = 0
    BY <2>1
  <2>2. CASE m # 0
    <3>1. m \in 1..m
      BY <2>2
    <3> QED
      BY <3>1
  <2> QED
    BY <2>1, <2>2
<1>2. CASE m = n
  <2>1. (1..n) \cup {m + 1} = 1..(n + 1)
    BY <1>2
  <2> QED
    BY <2>1
<1>3. CASE m < n
  <2>1. (1..n) \cup {m + 1} = 1..n
    BY <1>3
  <2> QED
    BY <2>1
<1> QED
  BY <1>1, <1>2, <1>3

\* What a reader sees of the timelines is numbered too, and not newer than they.
LEMMA ViewNumbered ==
    ASSUME Counted
    PROVE  /\ Numbered(View("audit_events"))
           /\ \A k \in Keys : Contents(View("audit_events"), k)
                                \subseteq Contents(sheet["audit_events"], k)
BY DEF Counted, View

\* A new write has its type, and the number of a new event is the next one or,
\* from a stale copy, one that is taken.
LEMMA NewOpCounted ==
    ASSUME TypeOK, Counted, NEW t \in Threads, NewOp(t), UNCHANGED sheet
    PROVE  /\ op' \in [Threads -> Op \cup {Idle}]
           /\ \A u \in Threads : op'[u] # Idle /\ op'[u].ws = "audit_events" =>
                 /\ op'[u].kind = "write" /\ op'[u].at = 0
                 /\ \E n \in Nat : /\ op'[u].value = n + 1
                                   /\ 1..n \subseteq Contents(sheet["audit_events"], op'[u].key)
<1> PICK kind, ws, v, at : \E k \in Keys :
        /\ LockFree
        /\ Decided(kind, ws, k, v, at)
        /\ op' = [op EXCEPT ![t] = [kind |-> kind, ws |-> ws, key |-> k,
                                   value |-> v, at |-> at]]
  BY Zenon DEF NewOp
<1> PICK k \in Keys :
        /\ LockFree
        /\ Decided(kind, ws, k, v, at)
        /\ op' = [op EXCEPT ![t] = [kind |-> kind, ws |-> ws, key |-> k,
                                   value |-> v, at |-> at]]
  OBVIOUS
<1>1. \A x \in {"requests", "pending"} : FindRow(View(x), k) \in Nat
  BY ViewTyped, Found DEF Worksheets
<1>2. PICK n \in Nat : Contents(View("audit_events"), k) = 1..n
  BY ViewNumbered DEF Numbered
<1>3. ws = "audit_events" => /\ kind = "write" /\ at = 0
                             /\ v = n + 1 /\ 1..n \subseteq Contents(sheet["audit_events"], k)
  BY <1>2, NextIs, ViewNumbered DEF Decided
<1>4. [kind |-> kind, ws |-> ws, key |-> k, value |-> v, at |-> at] \in Op
  BY <1>1, <1>3 DEF Decided, Op, Worksheets
<1>5. \A u \in Threads : u # t => op'[u] = op[u]
  BY DEF TypeOK
<1>6. op'[t] = [kind |-> kind, ws |-> ws, key |-> k, value |-> v, at |-> at]
  BY DEF TypeOK
<1>7. op' \in [Threads -> Op \cup {Idle}]
  BY <1>4 DEF TypeOK
<1> QED
  BY <1>3, <1>5, <1>6, <1>7 DEF Counted

\* Every step keeps the types and the numbering.
LEMMA CountedNext == TypeOK /\ Counted /\ [Next]_vars => TypeOK' /\ Counted'
<1> SUFFICES ASSUME TypeOK, Counted, [Next]_vars PROVE TypeOK' /\ Counted'
  OBVIOUS
<1>1. CASE Look
  <2>1. /\ op' \in [Threads -> Op \cup {Idle}]
        /\ \A u \in Threads : op'[u] # Idle /\ op'[u].ws = "audit_events" =>
              /\ op'[u].kind = "write" /\ op'[u].at = 0
              /\ \E n \in Nat : /\ op'[u].value = n + 1
                                /\ 1..n \subseteq Contents(sheet["audit_events"], op'[u].key)
    BY <1>1, NewOpCounted DEF Look, Counted
  <2>2. copy'["audit_events"] \in {copy["audit_events"], View("audit_events"), NoCopy}
    BY <1>1 DEF Look, Worksheets
  <2>3. sheet' = sheet
    BY <1>1 DEF Look
  <2>4. TypeOK'
    BY <1>1, <2>1 DEF TypeOK, Look
  <2> QED
    BY <2>1, <2>2, <2>3, <2>4, ViewNumbered DEF Counted
<1>2. ASSUME NEW t \in Threads, Apply(t) PROVE TypeOK' /\ Counted'
  <2> DEFINE o == op[t]
             events == sheet["audit_events"]
  <2>1. o \in Op /\ o.ws \in Worksheets /\ o.key \in Keys /\ o.value \in Values \cup Nat
    BY <1>2 DEF Apply, TypeOK, Op
  <2>2. TypeOK'
    <3>1. sheet' \in [Worksheets -> Seq(Row)]
      BY <1>2, <2>1, AppliedTyped DEF Apply, TypeOK
    <3> QED
      BY <1>2, <3>1 DEF Apply, TypeOK
  <2>3. CASE o.ws # "audit_events"
    <3>1. sheet'["audit_events"] = events
      BY <1>2, <2>1, <2>3 DEF Apply, TypeOK
    <3>2. copy'["audit_events"] = copy["audit_events"]
      BY <1>2, <2>1, <2>3 DEF Apply, TypeOK, Worksheets
    <3>3. \A u \in Threads : op'[u] \in {op[u], Idle}
      BY <1>2 DEF Apply, TypeOK
    <3> QED
      BY <2>2, <3>1, <3>2, <3>3 DEF Counted
  <2>4. CASE o.ws = "audit_events"
    <3>1. PICK m \in Nat : o.value = m + 1 /\ 1..m \subseteq Contents(events, o.key)
      BY <1>2, <2>4 DEF Counted, Apply
    <3>2. sheet'["audit_events"] = Append(events, RowOf(o.key, o.value))
      BY <1>2, <2>1, <2>4 DEF Apply, Applied, Counted, TypeOK
    <3>3. \A j \in Keys : Contents(sheet'["audit_events"], j) =
              IF j = o.key THEN Contents(events, j) \cup {m + 1} ELSE Contents(events, j)
      <4>1. events \in Seq(Row)
        BY DEF TypeOK, Worksheets
      <4> HIDE DEF events, o
      <4>2. \A j \in Keys : Contents(Append(events, RowOf(o.key, o.value)), j) =
              IF j = o.key THEN Contents(events, j) \cup {o.value} ELSE Contents(events, j)
        BY <2>1, <4>1, ContentsAppended
      <4> QED
        BY <3>1, <3>2, <4>2
    <3>4. \A j \in Keys : Contents(events, j) \subseteq Contents(sheet'["audit_events"], j)
      BY <3>3
    <3>5. Numbered(sheet'["audit_events"])
      <4> SUFFICES ASSUME NEW j \in Keys
                   PROVE  \E n \in Nat : Contents(sheet'["audit_events"], j) = 1..n
        BY DEF Numbered
      <4>1. PICK n \in Nat : Contents(events, j) = 1..n
        BY DEF Counted, Numbered
      <4>2. CASE j = o.key
        <5>1. 1..m \subseteq 1..n
          BY <3>1, <4>1, <4>2
        <5>2. \E l \in Nat : (1..n) \cup {m + 1} = 1..l
          BY <5>1, StaysInterval
        <5> QED
          BY <3>3, <4>1, <4>2, <5>2
      <4>3. CASE j # o.key
        BY <3>3, <4>1, <4>3
      <4> QED
        BY <4>2, <4>3
    <3>6. copy'["audit_events"] \in {copy["audit_events"], NoCopy}
      BY <1>2, <2>4 DEF Apply, TypeOK, Worksheets
    <3>7. \A u \in Threads : op'[u] \in {op[u], Idle}
      BY <1>2 DEF Apply, TypeOK
    <3>8. \A u \in Threads : op'[u] # Idle /\ op'[u].ws = "audit_events" =>
              /\ op'[u].kind = "write" /\ op'[u].at = 0
              /\ \E n \in Nat : /\ op'[u].value = n + 1
                                /\ 1..n \subseteq Contents(sheet'["audit_events"], op'[u].key)
      <4> SUFFICES ASSUME NEW u \in Threads, op'[u] # Idle, op'[u].ws = "audit_events"
                   PROVE  /\ op'[u].kind = "write" /\ op'[u].at = 0
                          /\ \E n \in Nat :
                                /\ op'[u].value = n + 1
                                /\ 1..n \subseteq Contents(sheet'["audit_events"], op'[u].key)
        OBVIOUS
      <4>1. op'[u] = op[u] /\ op[u].key \in Keys
        BY <3>7 DEF TypeOK, Op
      <4> QED
        BY <3>4, <4>1 DEF Counted
    <3>9. copy'["audit_events"] # NoCopy =>
              /\ Numbered(copy'["audit_events"])
              /\ \A j \in Keys : Contents(copy'["audit_events"], j)
                                    \subseteq Contents(sheet'["audit_events"], j)
      BY <3>4, <3>6 DEF Counted
    <3> QED
      BY <2>2, <3>5, <3>8, <3>9 DEF Counted
  <2> QED
    BY <2>3, <2>4
<1> QED
  BY <1>1, <1>2, Steps

\* At first there is nothing to number.
LEMMA CountedInit == Init => TypeOK /\ Counted
<1> SUFFICES ASSUME Init PROVE TypeOK /\ Counted
  OBVIOUS
<1>1. <<>> \in Seq(Row)
  OBVIOUS
<1>2. TypeOK
  BY <1>1 DEF Init, TypeOK
<1>3. \A k \in Keys : Contents(<<>>, k) = 1..0
  BY DEF Contents
<1>4. Numbered(<<>>)
  BY <1>3 DEF Numbered
<1> QED
  BY <1>2, <1>4 DEF Init, Counted, Worksheets

\* Worksheets, copies and writes hold rows and row numbers, whatever replies are
\* lost and however stale a copy is.
THEOREM TypeCorrect == Spec => []TypeOK
BY CountedInit, CountedNext, PTL DEF Spec

\* No timeline in the audit worksheet skips a number, whatever replies are lost:
\* a number from a stale copy is one that is already taken.
THEOREM NoGapsCorrect == Spec => []NoGaps
<1>1. Counted => NoGaps
  <2> SUFFICES ASSUME Counted, NEW k \in Keys,
                      NEW n \in Contents(sheet["audit_events"], k)
               PROVE  1..n \subseteq Contents(sheet["audit_events"], k)
    BY DEF NoGaps
  <2>1. PICK m \in Nat : Contents(sheet["audit_events"], k) = 1..m
    BY DEF Counted, Numbered
  <2> QED
    BY <2>1
<1> QED
  BY <1>1, CountedInit, CountedNext, PTL DEF Spec

(***************************************************************************)
(* Stored requests keep their rows.                                        *)
(***************************************************************************)

\* rows has every row of old, with the same key.
Keeps(old, rows) ==
    \A i \in DOMAIN old : i \in DOMAIN rows /\ rows[i].key = old[i].key

\* A copy of the requests tells where its rows still are, and an update that is
\* being made has the number of a row of its own request.
Aligned ==
    /\ copy["requests"] # NoCopy => Keeps(copy["requests"], sheet["requests"])
    /\ \A t \in Threads : op[t] # Idle /\ op[t].ws = "requests" =>
          /\ op[t].kind = "write"
          /\ op[t].at # 0 => /\ op[t].at \in DOMAIN sheet["requests"]
                             /\ sheet["requests"][op[t].at].key = op[t].key

\* What a reader sees of the requests tells where they are.
LEMMA ViewAligned ==
    ASSUME Aligned
    PROVE  Keeps(View("requests"), sheet["requests"])
BY DEF Aligned, View, Keeps

\* A step that looks does not upset the row numbers.
LEMMA LookAligned ==
    ASSUME TypeOK, Aligned, Look
    PROVE  Aligned' /\ Keeps(sheet["requests"], sheet'["requests"])
<1>1. sheet' = sheet /\ Keeps(sheet["requests"], sheet'["requests"])
  BY DEF Look, Keeps
<1>2. copy'["requests"] # NoCopy => Keeps(copy'["requests"], sheet["requests"])
  <2>1. copy'["requests"] \in {copy["requests"], View("requests"), NoCopy}
    BY DEF Look, Worksheets
  <2> QED
    BY <2>1, ViewAligned DEF Aligned
<1>3. ASSUME NEW t \in Threads, op'[t] # Idle, op'[t].ws = "requests"
      PROVE  /\ op'[t].kind = "write"
             /\ op'[t].at # 0 => /\ op'[t].at \in DOMAIN sheet["requests"]
                                 /\ sheet["requests"][op'[t].at].key = op'[t].key
  <2>1. CASE op'[t] \in {op[t], Idle}
    BY <1>3, <2>1 DEF Aligned
  <2>2. CASE op'[t] \notin {op[t], Idle}
    <3>1. PICK u \in Threads : NewOp(u)
      BY <2>2 DEF Look
    <3> PICK kind, ws, v, at : \E k \in Keys :
            /\ LockFree
            /\ Decided(kind, ws, k, v, at)
            /\ op' = [op EXCEPT ![u] = [kind |-> kind, ws |-> ws, key |-> k,
                                       value |-> v, at |-> at]]
      BY <3>1, Zenon DEF NewOp
    <3> PICK k \in Keys :
            /\ LockFree
            /\ Decided(kind, ws, k, v, at)
            /\ op' = [op EXCEPT ![u] = [kind |-> kind, ws |-> ws, key |-> k,
                                       value |-> v, at |-> at]]
      OBVIOUS
    <3>2. op'[t] = [kind |-> kind, ws |-> ws, key |-> k, value |-> v, at |-> at]
      BY <2>2 DEF TypeOK
    <3>3. ws = "requests"
      BY <1>3, <3>2
    <3>4. kind = "write" /\ (at = 0 \/ at = FindRow(View("requests"), k))
      BY <3>3 DEF Decided
    <3>5. at # 0 => at \in DOMAIN View("requests") /\ View("requests")[at].key = k
      BY <3>4, ViewTyped, Found DEF Worksheets
    <3> QED
      BY <3>2, <3>4, <3>5, ViewAligned DEF Keeps
  <2> QED
    BY <2>1, <2>2
<1> QED
  BY <1>1, <1>2, <1>3 DEF Aligned

\* A write to the requests appends a row or replaces that of its own request.
LEMMA ApplyAligned ==
    ASSUME TypeOK, Aligned, NEW t \in Threads, Apply(t)
    PROVE  Aligned' /\ Keeps(sheet["requests"], sheet'["requests"])
<1> DEFINE o == op[t]
           rows == sheet["requests"]
<1>1. o \in Op /\ o.ws \in Worksheets /\ o.at \in Nat
  BY DEF Apply, TypeOK, Op
<1>2. rows \in Seq(Row) /\ DOMAIN rows = 1..Len(rows)
  BY DEF TypeOK, Worksheets
<1>3. Keeps(rows, sheet'["requests"])
  <2>1. CASE o.ws # "requests"
    <3>1. sheet'["requests"] = rows
      BY <1>1, <2>1 DEF Apply, TypeOK, Worksheets
    <3> QED
      BY <3>1 DEF Keeps
  <2>2. CASE o.ws = "requests"
    <3> DEFINE r == RowOf(o.key, o.value)
    <3>1. r \in Row /\ r.key = o.key
      BY <1>1 DEF Op, Row, RowOf
    <3>2. sheet'["requests"] = IF o.at = 0 THEN Append(rows, r) ELSE Put(rows, o.at, r)
      BY <1>1, <2>2 DEF Apply, TypeOK, Worksheets, Applied, Aligned
    <3>3. o.at # 0 => o.at \in DOMAIN rows /\ rows[o.at].key = o.key
      BY <2>2 DEF Aligned, Apply
    <3> HIDE DEF rows, o, r
    <3>4. CASE o.at = 0
      BY <1>2, <3>1, <3>2, <3>4, AppendProperties DEF Keeps
    <3>5. CASE o.at # 0
      <4>1. Put(rows, o.at, r) = [i \in 1..Len(rows) |-> IF i = o.at THEN r ELSE rows[i]]
        BY <1>1, <1>2, <3>3, <3>5 DEF Put
      <4> QED
        BY <1>2, <3>1, <3>2, <3>3, <3>5, <4>1 DEF Keeps
    <3> QED
      BY <3>4, <3>5
  <2> QED
    BY <2>1, <2>2
<1>4. copy'["requests"] \in {copy["requests"], NoCopy}
  BY <1>1 DEF Apply, TypeOK, Worksheets
<1>5. \A u \in Threads : op'[u] \in {op[u], Idle}
  BY DEF Apply, TypeOK
<1> HIDE DEF rows, o
<1>6. copy'["requests"] # NoCopy => Keeps(copy'["requests"], sheet'["requests"])
  BY <1>3, <1>4 DEF Aligned, Keeps, rows
<1>7. ASSUME NEW u \in Threads, op'[u] # Idle, op'[u].ws = "requests"
      PROVE  /\ op'[u].kind = "write"
             /\ op'[u].at # 0 => /\ op'[u].at \in DOMAIN sheet'["requests"]
                                 /\ sheet'["requests"][op'[u].at].key = op'[u].key
  BY <1>3, <1>5, <1>7 DEF Aligned, Keeps, rows
<1> QED
  BY <1>3, <1>6, <1>7 DEF Aligned, rows

\* A stored request keeps its row and an update never overwrites another
\* request's, however many replies are lost and however stale the copy is.
THEOREM RequestsStayCorrect == Spec => RequestsStay
<1>1. Init => Aligned
  BY DEF Init, Aligned, Worksheets
<1>2. TypeOK /\ Aligned /\ [Next]_vars
        => Aligned' /\ Keeps(sheet["requests"], sheet'["requests"])
  BY Steps, LookAligned, ApplyAligned
<1>3. Keeps(sheet["requests"], sheet'["requests"]) =>
        \A i \in DOMAIN sheet["requests"] :
            /\ i \in DOMAIN sheet'["requests"]
            /\ sheet'["requests"][i].key = sheet["requests"][i].key
  BY DEF Keeps
<1> QED
  BY <1>1, <1>2, <1>3, TypeCorrect, PTL DEF Spec, RequestsStay

(***************************************************************************)
(* Without lost replies, the worksheets implement the tables: reads are    *)
(* fresh, so that a row number is still right when it is written to.       *)
(***************************************************************************)

\* No two rows have the same key or, in the timelines, key and number.
Sole(ws, rows) ==
    \A i, j \in DOMAIN rows :
        /\ rows[i].key = rows[j].key
        /\ ws = "audit_events" => rows[i].value = rows[j].value
        => i = j

Holds(ws, at, k) == at \in DOMAIN sheet[ws] /\ sheet[ws][at].key = k

\* What a write that is being made relies on.
Placed(o) ==
    \/ /\ o.ws # "audit_events" /\ o.kind = "write" /\ o.value \in Values
       /\ \/ o.at = 0 /\ Contents(sheet[o.ws], o.key) = {}
          \/ o.at # 0 /\ Holds(o.ws, o.at, o.key)
    \/ /\ o.ws = "audit_events" /\ o.kind = "write" /\ o.at = 0
       /\ o.value = NextSequence(sheet["audit_events"], o.key)
    \/ o.ws = "pending" /\ o.kind = "delete" /\ o.at # 0 /\ Holds(o.ws, o.at, o.key)

Exact ==
    /\ FreshReads
    /\ OneRow
    /\ \A t, u \in Threads : op[t] # Idle /\ op[u] # Idle => t = u
    /\ \A t \in Threads : op[t] # Idle => Placed(op[t])

\* A key without contents has no row.
LEMMA NoRows ==
    ASSUME NEW rows, NEW k
    PROVE  Contents(rows, k) = {} <=> \A i \in DOMAIN rows : rows[i].key # k
BY DEF Contents

\* A row that replaces the only one of its key changes that key's contents only.
LEMMA ContentsPut ==
    ASSUME NEW rows \in Seq(Row), NEW at \in DOMAIN rows, NEW k \in Keys,
           NEW v \in Values \cup Nat,
           rows[at].key = k, \A i \in DOMAIN rows : rows[i].key = k => i = at
    PROVE  /\ DOMAIN Put(rows, at, RowOf(k, v)) = DOMAIN rows
           /\ \A i \in DOMAIN rows : Put(rows, at, RowOf(k, v))[i].key = rows[i].key
           /\ \A j \in Keys : Contents(Put(rows, at, RowOf(k, v)), j) =
                 IF j = k THEN {v} ELSE Contents(rows, j)
<1> DEFINE r == RowOf(k, v)
           new == Put(rows, at, r)
<1>1. r.key = k /\ r.value = v
  BY DEF RowOf
<1>2. DOMAIN rows = 1..Len(rows)
  OBVIOUS
<1> HIDE DEF r
<1>3. new = [i \in DOMAIN rows |-> IF i = at THEN r ELSE rows[i]]
  BY <1>2 DEF Put
<1> HIDE DEF new
<1>4. DOMAIN new = DOMAIN rows /\ new[at] = r
      /\ \A i \in DOMAIN rows : i # at => new[i] = rows[i]
  BY <1>3
<1>5. Contents(new, k) = {v}
  BY <1>1, <1>4 DEF Contents
<1>6. ASSUME NEW j \in Keys, j # k PROVE Contents(new, j) = Contents(rows, j)
  BY <1>1, <1>4, <1>6 DEF Contents
<1>7. \A i \in DOMAIN rows : new[i].key = rows[i].key
  BY <1>1, <1>4
<1> QED
  BY <1>4, <1>5, <1>6, <1>7 DEF new, r

\* Taking out the only row of a key empties that key's contents only.
LEMMA ContentsRemoved ==
    ASSUME NEW rows \in Seq(Row), NEW at \in DOMAIN rows, NEW k \in Keys,
           rows[at].key = k, \A i \in DOMAIN rows : rows[i].key = k => i = at
    PROVE  /\ \A j \in Keys : Contents(RemoveAt(rows, at), j) =
                 IF j = k THEN {} ELSE Contents(rows, j)
           /\ \A ws : Sole(ws, rows) => Sole(ws, RemoveAt(rows, at))
<1> DEFINE new == RemoveAt(rows, at)
           from(i) == IF i < at THEN i ELSE i + 1
           to(i) == IF i < at THEN i ELSE i - 1
<1>1. DOMAIN rows = 1..Len(rows) /\ Len(rows) \in Nat
  OBVIOUS
<1>2. /\ new \in Seq(Row) /\ Len(new) = Len(rows) - 1
      /\ \A i \in 1..(Len(rows) - 1) : new[i] = IF i < at THEN rows[i] ELSE rows[i + 1]
  BY <1>1, RowRemoved
<1>3. DOMAIN new = 1..(Len(rows) - 1)
  BY <1>2
<1> HIDE DEF new
<1>4. \A i \in DOMAIN new : /\ from(i) \in DOMAIN rows \ {at}
                            /\ new[i] = rows[from(i)]
                            /\ to(from(i)) = i
  BY <1>1, <1>2, <1>3
<1>5. \A i \in DOMAIN rows \ {at} : to(i) \in DOMAIN new /\ from(to(i)) = i
  BY <1>1, <1>3
<1> HIDE DEF from, to
<1>6. Contents(new, k) = {}
  BY <1>4 DEF Contents
<1>7. ASSUME NEW j \in Keys, j # k PROVE Contents(new, j) = Contents(rows, j)
  <2>1. Contents(new, j) \subseteq Contents(rows, j)
    BY <1>4 DEF Contents
  <2>2. Contents(rows, j) \subseteq Contents(new, j)
    BY <1>4, <1>5, <1>7 DEF Contents
  <2> QED
    BY <2>1, <2>2
<1>8. ASSUME NEW ws, Sole(ws, rows) PROVE Sole(ws, new)
  BY <1>4, <1>8 DEF Sole
<1> QED
  BY <1>6, <1>7, <1>8 DEF new

\* While reads are fresh, every view is the worksheet.
LEMMA FreshView ==
    ASSUME FreshReads, NEW ws \in Worksheets
    PROVE  View(ws) = sheet[ws]
BY DEF FreshReads, View

\* A step that looks finds what is there.
LEMMA LookExact ==
    ASSUME TypeOK, Exact, Look
    PROVE  Exact'
<1>1. sheet' = sheet
  BY DEF Look
<1>2. FreshReads'
  BY <1>1, FreshView DEF Exact, FreshReads, Look
<1>3. OneRow'
  BY <1>1 DEF Exact, OneRow
<1>4. CASE \A t \in Threads : op'[t] \in {op[t], Idle}
  BY <1>1, <1>2, <1>3, <1>4 DEF Exact, Placed, Holds
<1>5. ASSUME NEW t \in Threads, NewOp(t) PROVE Exact'
  <2> PICK kind, ws, v, at : \E k \in Keys :
          /\ LockFree
          /\ Decided(kind, ws, k, v, at)
          /\ op' = [op EXCEPT ![t] = [kind |-> kind, ws |-> ws, key |-> k,
                                     value |-> v, at |-> at]]
    BY <1>5, Zenon DEF NewOp
  <2> PICK k \in Keys :
          /\ LockFree
          /\ Decided(kind, ws, k, v, at)
          /\ op' = [op EXCEPT ![t] = [kind |-> kind, ws |-> ws, key |-> k,
                                     value |-> v, at |-> at]]
    OBVIOUS
  <2> DEFINE o == [kind |-> kind, ws |-> ws, key |-> k, value |-> v, at |-> at]
  <2>1. op'[t] = o /\ \A u \in Threads : u # t => op'[u] = Idle
    BY DEF LockFree, TypeOK
  <2>2. ws \in Worksheets
    BY DEF Decided, Worksheets
  <2>3. View(ws) = sheet[ws] /\ sheet[ws] \in Seq(Row)
    BY <2>2, FreshView DEF Exact, TypeOK
  <2>4. /\ FindRow(sheet[ws], k) # 0 => Holds(ws, FindRow(sheet[ws], k), k)
        /\ FindRow(sheet[ws], k) = 0 => Contents(sheet[ws], k) = {}
    BY <2>3, Found, NoRows DEF Holds
  <2>5. Placed(o)
    BY <2>3, <2>4 DEF Placed, Decided
  <2>6. Placed(o)'
    BY <1>1, <2>5 DEF Placed, Holds
  <2>7. \A u \in Threads : op'[u] # Idle => u = t
    BY <2>1
  <2>8. \A u \in Threads : op'[u] # Idle => Placed(op[u])'
    BY <2>1, <2>6, <2>7
  <2> QED
    BY <1>2, <1>3, <2>7, <2>8 DEF Exact
<1> QED
  BY <1>4, <1>5 DEF Look

\* What a write that is being made will have stored.
Outcome(o) ==
    IF o.kind = "delete" THEN {}
    ELSE IF o.ws = "audit_events" THEN Contents(sheet["audit_events"], o.key) \cup {o.value}
    ELSE {o.value}

\* A write stores what it is meant to, for its own key only, and no second row.
LEMMA Effect ==
    ASSUME TypeOK, Counted, Exact, NEW t \in Threads, Apply(t)
    PROVE  LET o == op[t]
               rows == sheet'[o.ws]
           IN  /\ \A j \in Keys : Contents(rows, j) =
                     IF j = o.key THEN Outcome(o) ELSE Contents(sheet[o.ws], j)
               /\ Sole(o.ws, rows)
<1> DEFINE o == op[t]
           old == sheet[o.ws]
           r == RowOf(o.key, o.value)
<1>1. /\ o \in Op /\ o.ws \in Worksheets /\ o.key \in Keys
      /\ o.value \in Values \cup Nat /\ o.at \in Nat
  BY DEF Apply, TypeOK, Op
<1>2. old \in Seq(Row) /\ DOMAIN old = 1..Len(old)
  BY <1>1 DEF TypeOK
<1>3. sheet'[o.ws] = Applied(o)
  BY <1>1 DEF Apply, TypeOK
<1>4. Sole(o.ws, old) /\ Placed(o)
  BY <1>1 DEF Exact, OneRow, Sole, Apply
<1>5. o.ws # "audit_events" =>
         \A i, j \in DOMAIN old : old[i].key = old[j].key => i = j
  BY <1>4 DEF Sole
<1>6. r \in Row /\ r.key = o.key /\ r.value = o.value
  BY <1>1 DEF Row, RowOf
<1> HIDE DEF o, r
<1>7. ASSUME o.kind # "delete", o.at = 0
      PROVE  /\ Applied(o) = Append(old, r)
             /\ \A j \in Keys : Contents(Append(old, r), j) =
                   IF j = o.key THEN Contents(old, j) \cup {o.value} ELSE Contents(old, j)
             /\ DOMAIN Append(old, r) = 1..(Len(old) + 1)
             /\ Append(old, r)[Len(old) + 1] = r
             /\ \A i \in DOMAIN old : Append(old, r)[i] = old[i]
  <2>1. Applied(o) = Append(old, r)
    BY <1>7 DEF Applied, r
  <2> HIDE DEF old
  <2>2. \A j \in Keys : Contents(Append(old, r), j) =
            IF j = o.key THEN Contents(old, j) \cup {o.value} ELSE Contents(old, j)
    BY <1>1, <1>2, ContentsAppended DEF r
  <2> QED
    BY <1>2, <1>6, <2>1, <2>2, AppendProperties
<1>8. ASSUME o.ws # "audit_events", o.kind = "write", o.at = 0, Contents(old, o.key) = {}
      PROVE  /\ \A j \in Keys : Contents(Applied(o), j) =
                   IF j = o.key THEN Outcome(o) ELSE Contents(old, j)
             /\ Sole(o.ws, Applied(o))
  <2>1. \A i \in DOMAIN old : old[i].key # o.key
    BY <1>8, NoRows
  <2>2. Sole(o.ws, Append(old, r))
    <3> DEFINE new == Append(old, r)
    <3>1. \A i \in DOMAIN new : i \in DOMAIN old \/ i = Len(old) + 1
      BY <1>2, <1>7, <1>8
    <3>2. \A i \in DOMAIN old : new[i] = old[i]
      BY <1>7, <1>8
    <3>3. new[Len(old) + 1].key = o.key
      BY <1>6, <1>7, <1>8
    <3> HIDE DEF new, old
    <3> QED
      BY <1>5, <1>8, <2>1, <3>1, <3>2, <3>3 DEF Sole, new
  <2>3. Outcome(o) = {o.value}
    BY <1>8 DEF Outcome
  <2> HIDE DEF old
  <2> QED
    BY <1>7, <1>8, <2>2, <2>3
<1>9. ASSUME o.ws # "audit_events", o.kind = "write", o.at # 0, Holds(o.ws, o.at, o.key)
      PROVE  /\ \A j \in Keys : Contents(Applied(o), j) =
                   IF j = o.key THEN Outcome(o) ELSE Contents(old, j)
             /\ Sole(o.ws, Applied(o))
  <2>1. o.at \in DOMAIN old /\ old[o.at].key = o.key
    BY <1>9 DEF Holds
  <2>2. Applied(o) = Put(old, o.at, r) /\ Outcome(o) = {o.value}
    BY <1>9 DEF Applied, Outcome, r
  <2> HIDE DEF old
  <2>3. \A i \in DOMAIN old : old[i].key = o.key => i = o.at
    BY <1>5, <1>9, <2>1
  <2>4. /\ DOMAIN Put(old, o.at, r) = DOMAIN old
        /\ \A i \in DOMAIN old : Put(old, o.at, r)[i].key = old[i].key
        /\ \A j \in Keys : Contents(Put(old, o.at, r), j) =
              IF j = o.key THEN {o.value} ELSE Contents(old, j)
    <3> DEFINE new == Put(old, o.at, RowOf(o.key, o.value))
    <3>1. /\ DOMAIN new = DOMAIN old
          /\ \A i \in DOMAIN old : new[i].key = old[i].key
          /\ \A j \in Keys : Contents(new, j) =
                IF j = o.key THEN {o.value} ELSE Contents(old, j)
      <4> DEFINE k == o.key
                 v == o.value
                 at == o.at
      <4>1. k \in Keys /\ v \in Values \cup Nat /\ at \in DOMAIN old /\ old[at].key = k
        BY <1>1, <2>1
      <4>2. \A i \in DOMAIN old : old[i].key = k => i = at
        BY <2>3
      <4> HIDE DEF k, v, at, new
      <4>3. old \in Seq(Row)
        BY <1>2
      <4>4. /\ DOMAIN Put(old, at, RowOf(k, v)) = DOMAIN old
            /\ \A i \in DOMAIN old : Put(old, at, RowOf(k, v))[i].key = old[i].key
            /\ \A j \in Keys : Contents(Put(old, at, RowOf(k, v)), j) =
                  IF j = k THEN {v} ELSE Contents(old, j)
        BY <4>1, <4>2, <4>3, ContentsPut
      <4> QED
        BY <4>4, Zenon DEF k, v, at, new
    <3> QED
      BY <3>1, Zenon DEF r
  <2>5. Sole(o.ws, Put(old, o.at, r))
    BY <1>5, <1>9, <2>4 DEF Sole
  <2> QED
    BY <2>2, <2>4, <2>5
<1>10. ASSUME o.ws = "pending", o.kind = "delete", o.at # 0, Holds(o.ws, o.at, o.key)
       PROVE  /\ \A j \in Keys : Contents(Applied(o), j) =
                    IF j = o.key THEN Outcome(o) ELSE Contents(old, j)
              /\ Sole(o.ws, Applied(o))
  <2>1. o.at \in DOMAIN old /\ old[o.at].key = o.key /\ o.at <= Len(old)
    BY <1>2, <1>10 DEF Holds
  <2>2. Applied(o) = RemoveAt(old, o.at) /\ Outcome(o) = {}
    BY <1>10, <2>1 DEF Applied, DeleteRow, Outcome
  <2> HIDE DEF old
  <2>3. \A i \in DOMAIN old : old[i].key = o.key => i = o.at
    BY <1>5, <1>10, <2>1
  <2>4. /\ \A j \in Keys : Contents(RemoveAt(old, o.at), j) =
              IF j = o.key THEN {} ELSE Contents(old, j)
        /\ \A ws : Sole(ws, old) => Sole(ws, RemoveAt(old, o.at))
    BY <1>1, <1>2, <2>1, <2>3, ContentsRemoved, Zenon
  <2> QED
    BY <1>4, <2>2, <2>4, Zenon
<1>11. ASSUME o.ws = "audit_events", o.kind = "write", o.at = 0,
              o.value = NextSequence(old, o.key)
       PROVE  /\ \A j \in Keys : Contents(Applied(o), j) =
                    IF j = o.key THEN Outcome(o) ELSE Contents(old, j)
              /\ Sole(o.ws, Applied(o))
  <2>1. PICK n \in Nat : Contents(old, o.key) = 1..n
    BY <1>1, <1>11 DEF Counted, Numbered
  <2>2. o.value = n + 1 /\ o.value \notin Contents(old, o.key)
    BY <1>11, <2>1, NextIs
  <2>3. \A i \in DOMAIN old : old[i].key = o.key => old[i].value # o.value
    BY <2>2 DEF Contents
  <2>4. Sole(o.ws, Append(old, r))
    <3> DEFINE new == Append(old, r)
    <3>1. \A i \in DOMAIN new : i \in DOMAIN old \/ i = Len(old) + 1
      BY <1>2, <1>7, <1>11
    <3>2. \A i \in DOMAIN old : new[i] = old[i]
      BY <1>7, <1>11
    <3>3. new[Len(old) + 1].key = o.key /\ new[Len(old) + 1].value = o.value
      BY <1>6, <1>7, <1>11
    <3> HIDE DEF new, old
    <3> QED
      BY <1>4, <1>11, <2>3, <3>1, <3>2, <3>3 DEF Sole, new
  <2>5. Outcome(o) = Contents(old, o.key) \cup {o.value}
    BY <1>11 DEF Outcome
  <2> HIDE DEF old
  <2> QED
    BY <1>7, <1>11, <2>4, <2>5
<1>12. /\ \A j \in Keys : Contents(Applied(o), j) =
             IF j = o.key THEN Outcome(o) ELSE Contents(old, j)
       /\ Sole(o.ws, Applied(o))
  BY <1>4, <1>8, <1>9, <1>10, <1>11 DEF Placed
<1> QED
  BY <1>3, <1>12 DEF o

\* Whichever write is applied, the other worksheets stay as they are.
LEMMA OthersStay ==
    ASSUME TypeOK, NEW t \in Threads, Apply(t), NEW ws \in Worksheets, ws # op[t].ws
    PROVE  sheet'[ws] = sheet[ws] /\ copy'[ws] = copy[ws]
BY DEF TypeOK, Apply

\* A write that is applied and answered leaves every copy fresh.
LEMMA ApplyExact ==
    ASSUME ~LostReplies, TypeOK, Counted, Exact, NEW t \in Threads, Apply(t)
    PROVE  Exact'
<1>1. op[t] \in Op /\ op[t].ws \in Worksheets
  BY DEF Apply, TypeOK, Op
<1>2. copy' = [copy EXCEPT ![op[t].ws] = NoCopy]
  BY DEF Apply
<1>3. FreshReads'
  <2> SUFFICES ASSUME NEW ws \in Worksheets PROVE copy'[ws] \in {NoCopy, sheet'[ws]}
    BY DEF FreshReads
  <2>1. CASE ws = op[t].ws
    BY <1>2, <2>1 DEF TypeOK
  <2>2. CASE ws # op[t].ws
    BY <2>2, OthersStay DEF Exact, FreshReads
  <2> QED
    BY <2>1, <2>2
<1>4. OneRow'
  <2>1. \A ws \in Worksheets : Sole(ws, sheet'[ws])
    <3> SUFFICES ASSUME NEW ws \in Worksheets PROVE Sole(ws, sheet'[ws])
      OBVIOUS
    <3>1. CASE ws = op[t].ws
      BY <3>1, Effect
    <3>2. CASE ws # op[t].ws
      BY <3>2, OthersStay DEF Exact, OneRow, Sole
    <3> QED
      BY <3>1, <3>2
  <2> QED
    BY <2>1 DEF Sole, OneRow
<1>5. \A u \in Threads : op'[u] = Idle
  <2> SUFFICES ASSUME NEW u \in Threads PROVE op'[u] = Idle
    OBVIOUS
  <2>1. u = t \/ op[u] = Idle
    BY DEF Exact, Apply
  <2> QED
    BY <2>1 DEF Apply, TypeOK
<1> QED
  BY <1>3, <1>4, <1>5 DEF Exact

\* The invariant of the theorems below.
LEMMA ExactNext ==
    ASSUME ~LostReplies
    PROVE  /\ Init => TypeOK /\ Counted /\ Exact
           /\ TypeOK /\ Counted /\ Exact /\ [Next]_vars => TypeOK' /\ Counted' /\ Exact'
<1>1. Init => Exact
  BY DEF Init, Exact, FreshReads, OneRow
<1>2. TypeOK /\ Counted /\ Exact /\ [Next]_vars => Exact'
  BY Steps, LookExact, ApplyExact
<1> QED
  BY <1>1, <1>2, CountedInit, CountedNext

\* When no reply is lost, no reader is ever served an old copy.
THEOREM FreshReadsCorrect == ASSUME ~LostReplies PROVE Spec => []FreshReads
<1>1. Exact => FreshReads
  BY DEF Exact
<1> QED
  BY <1>1, ExactNext, PTL DEF Spec

\* When no reply is lost, a key has one row and an event one number, however many
\* threads write at once.
THEOREM OneRowCorrect == ASSUME ~LostReplies PROVE Spec => []OneRow
<1>1. Exact => OneRow
  BY DEF Exact
<1> QED
  BY <1>1, ExactNext, PTL DEF Spec

Stored == [ws \in Worksheets |-> [k \in Keys |-> Contents(sheet[ws], k)]]

\* Applying a write is a step of the tables.
LEMMA ApplyImplements ==
    ASSUME TypeOK, Counted, Exact, NEW t \in Threads, Apply(t)
    PROVE  Tables!Next
<1> DEFINE o == op[t]
<1>1. /\ o \in Op /\ o.ws \in Worksheets /\ o.key \in Keys
      /\ Placed(o)
  BY DEF Apply, TypeOK, Op, Exact
<1>2. \A j \in Keys : Contents(sheet'[o.ws], j) =
         IF j = o.key THEN Outcome(o) ELSE Contents(sheet[o.ws], j)
  BY Effect
<1>3. \A ws \in Worksheets : ws # o.ws => sheet'[ws] = sheet[ws]
  BY OthersStay
<1>4. \A ws \in Worksheets, j \in Keys : Stored[ws][j] = Contents(sheet[ws], j)
  BY DEF Stored
<1> HIDE DEF o
<1>5. Stored' = [Stored EXCEPT ![o.ws][o.key] = Outcome(o)]
  <2>1. Stored' = [ws \in Worksheets |-> [j \in Keys |-> Contents(sheet'[ws], j)]]
    BY DEF Stored
  <2>2. [Stored EXCEPT ![o.ws][o.key] = Outcome(o)] =
          [ws \in Worksheets |-> [j \in Keys |->
             IF ws = o.ws /\ j = o.key THEN Outcome(o) ELSE Contents(sheet[ws], j)]]
    BY <1>1 DEF Stored
  <2>3. \A ws \in Worksheets, j \in Keys : Contents(sheet'[ws], j) =
          IF ws = o.ws /\ j = o.key THEN Outcome(o) ELSE Contents(sheet[ws], j)
    BY <1>2, <1>3
  <2> QED
    BY <2>1, <2>2, <2>3
<1>6. Tables!Become(o.ws, o.key, Outcome(o))
  BY <1>5 DEF Tables!Become, Stored
<1>7. ASSUME o.ws = "requests" PROVE Tables!Next
  <2>1. o.value \in Values /\ Outcome(o) = {o.value}
    BY <1>1, <1>7 DEF Placed, Outcome
  <2>2. Tables!CreateRequest(o.key, o.value) \/ Tables!UpdateRequest(o.key, o.value)
    BY <1>1, <1>4, <1>6, <1>7, <2>1 DEF Tables!CreateRequest, Tables!UpdateRequest, Stored
  <2> QED
    BY <1>1, <2>1, <2>2 DEF Tables!Next
<1>8. ASSUME o.ws = "pending" PROVE Tables!Next
  <2>1. CASE o.kind = "delete"
    <3>1. Outcome(o) = {}
      BY <2>1 DEF Outcome
    <3> QED
      BY <1>1, <1>6, <1>8, <3>1 DEF Tables!Delete, Tables!Next
  <2>2. CASE o.kind # "delete"
    <3>1. o.value \in Values /\ Outcome(o) = {o.value}
      BY <1>1, <1>8, <2>2 DEF Placed, Outcome
    <3> QED
      BY <1>1, <1>6, <1>8, <3>1 DEF Tables!Upsert, Tables!Next
  <2> QED
    BY <2>1, <2>2
<1>9. ASSUME o.ws = "audit_events" PROVE Tables!Next
  <2>1. PICK n \in Nat : Contents(sheet["audit_events"], o.key) = 1..n
    BY <1>1 DEF Counted, Numbered
  <2>2. o.kind = "write" /\ o.value = n + 1
    BY <1>1, <1>9, <2>1, NextIs DEF Placed
  <2>3. Outcome(o) = 1..(n + 1)
    <3>1. (1..n) \cup {n + 1} = 1..(n + 1)
      OBVIOUS
    <3> QED
      BY <1>9, <2>1, <2>2, <3>1 DEF Outcome
  <2>4. n \in {0} \cup (1..n)
    OBVIOUS
  <2>5. Tables!RecordEvent(o.key)
    BY <1>1, <1>4, <1>6, <1>9, <2>1, <2>3, <2>4 DEF Tables!RecordEvent, Stored
  <2> QED
    BY <1>1, <2>5 DEF Tables!Next
<1> QED
  BY <1>1, <1>7, <1>8, <1>9 DEF Worksheets

\* When no reply is lost, every call of the store is one step that concerns the
\* rows of a single key, as the services that use it expect.
THEOREM ImplementsTablesCorrect == ASSUME ~LostReplies PROVE Spec => ImplementsTables
<1>1. Init => Tables!Init
  <2>1. ASSUME Init PROVE \A ws \in Worksheets, k \in Keys : Contents(sheet[ws], k) = {}
    BY <2>1 DEF Init, Contents
  <2> QED
    BY <2>1 DEF Tables!Init, Tables!Tables, Worksheets
<1>2. TypeOK /\ Counted /\ Exact /\ [Next]_vars => [Tables!Next]_Stored
  <2> SUFFICES ASSUME TypeOK, Counted, Exact, [Next]_vars PROVE [Tables!Next]_Stored
    OBVIOUS
  <2>1. CASE Look
    BY <2>1 DEF Look, Stored
  <2> QED
    BY <2>1, Steps, ApplyImplements
<1> QED
  BY <1>1, <1>2, ExactNext, PTL DEF Spec, ImplementsTables, Tables!Spec, Stored

(***************************************************************************)
(* The requests implement their table whatever replies are lost: an update *)
(* finds the only row of its request also in a stale copy, because rows of *)
(* this worksheet are only appended and the ids of new requests are new.   *)
(***************************************************************************)

\* No two rows have the same key.
Distinct(rows) == \A i, j \in DOMAIN rows : rows[i].key = rows[j].key => i = j

\* A request has one row, one write is made at a time, and a row is appended for
\* a request that has none.
Single ==
    LET rows == sheet["requests"]
    IN  /\ Distinct(rows)
        /\ \A t, u \in Threads : op[t] # Idle /\ op[u] # Idle => t = u
        /\ \A t \in Threads : op[t] # Idle /\ op[t].ws = "requests" =>
              /\ op[t].value \in Values
              /\ op[t].at = 0 => \A i \in DOMAIN rows : rows[i].key # op[t].key

\* A step that looks takes the lock for one write only.
LEMMA LookSingle ==
    ASSUME TypeOK, Single, Look
    PROVE  Single'
<1>1. sheet' = sheet
  BY DEF Look
<1>2. CASE \A t \in Threads : op'[t] \in {op[t], Idle}
  BY <1>1, <1>2 DEF Single
<1>3. ASSUME NEW t \in Threads, NewOp(t) PROVE Single'
  <2> PICK kind, ws, v, at : \E k \in Keys :
          /\ LockFree
          /\ Decided(kind, ws, k, v, at)
          /\ op' = [op EXCEPT ![t] = [kind |-> kind, ws |-> ws, key |-> k,
                                     value |-> v, at |-> at]]
    BY <1>3, Zenon DEF NewOp
  <2> PICK k \in Keys :
          /\ LockFree
          /\ Decided(kind, ws, k, v, at)
          /\ op' = [op EXCEPT ![t] = [kind |-> kind, ws |-> ws, key |-> k,
                                     value |-> v, at |-> at]]
    OBVIOUS
  <2>1. /\ op'[t] = [kind |-> kind, ws |-> ws, key |-> k, value |-> v, at |-> at]
        /\ \A u \in Threads : u # t => op'[u] = Idle
    BY DEF LockFree, TypeOK
  <2>2. ws = "requests" =>
          /\ v \in Values
          /\ at = 0 => \A i \in DOMAIN sheet["requests"] : sheet["requests"][i].key # k
    BY NoRows DEF Decided
  <2>3. \A u \in Threads : op'[u] # Idle => u = t
    BY <2>1
  <2>4. ASSUME NEW u \in Threads, op'[u] # Idle, op'[u].ws = "requests"
        PROVE  /\ op'[u].value \in Values
               /\ op'[u].at = 0 =>
                    \A i \in DOMAIN sheet["requests"] : sheet["requests"][i].key # op'[u].key
    BY <2>1, <2>2, <2>3, <2>4
  <2> QED
    BY <1>1, <2>3, <2>4 DEF Single
<1> QED
  BY <1>2, <1>3 DEF Look

\* A row that is appended for a key that has none is the only one of its key.
LEMMA RowAdded ==
    ASSUME NEW rows \in Seq(Row), NEW k \in Keys, NEW v \in Values \cup Nat,
           Distinct(rows), \A i \in DOMAIN rows : rows[i].key # k
    PROVE  /\ \A j \in Keys : Contents(Append(rows, RowOf(k, v)), j) =
                 IF j = k THEN {v} ELSE Contents(rows, j)
           /\ Distinct(Append(rows, RowOf(k, v)))
<1> DEFINE r == RowOf(k, v)
           new == Append(rows, r)
<1>1. r \in Row /\ r.key = k /\ r.value = v
  BY DEF Row, RowOf
<1>2. \A j \in Keys : Contents(new, j) =
         IF j = k THEN Contents(rows, j) \cup {v} ELSE Contents(rows, j)
  BY ContentsAppended
<1> HIDE DEF r
<1>3. Contents(rows, k) = {}
  BY NoRows
<1>4. /\ DOMAIN new = 1..(Len(rows) + 1) /\ DOMAIN rows = 1..Len(rows)
      /\ new[Len(rows) + 1] = r
      /\ \A i \in DOMAIN rows : new[i] = rows[i]
  BY <1>1, AppendProperties
<1> HIDE DEF new
<1>5. \A i \in DOMAIN new : i \in DOMAIN rows \/ i = Len(rows) + 1
  BY <1>4
<1>6. Distinct(new)
  BY <1>1, <1>4, <1>5 DEF Distinct
<1>7. \A j \in Keys : Contents(new, j) = IF j = k THEN {v} ELSE Contents(rows, j)
  BY <1>2, <1>3
<1> QED
  BY <1>6, <1>7 DEF new, r

\* A row that replaces one of the same key is the only one of its key.
LEMMA RowReplaced ==
    ASSUME NEW rows \in Seq(Row), NEW at \in DOMAIN rows, NEW k \in Keys,
           NEW v \in Values \cup Nat,
           Distinct(rows), rows[at].key = k
    PROVE  /\ \A j \in Keys : Contents(Put(rows, at, RowOf(k, v)), j) =
                 IF j = k THEN {v} ELSE Contents(rows, j)
           /\ Distinct(Put(rows, at, RowOf(k, v)))
<1> DEFINE new == Put(rows, at, RowOf(k, v))
<1>1. \A i \in DOMAIN rows : rows[i].key = k => i = at
  BY DEF Distinct
<1>2. /\ DOMAIN new = DOMAIN rows
      /\ \A i \in DOMAIN rows : new[i].key = rows[i].key
      /\ \A j \in Keys : Contents(new, j) = IF j = k THEN {v} ELSE Contents(rows, j)
  BY <1>1, ContentsPut
<1> HIDE DEF new
<1>3. Distinct(new)
  BY <1>2 DEF Distinct
<1> QED
  BY <1>2, <1>3 DEF new

\* A write to the requests stores its value for its own request only, in the only
\* row of that request.
LEMMA RequestWritten ==
    ASSUME TypeOK, Aligned, Single, NEW t \in Threads, Apply(t), op[t].ws = "requests"
    PROVE  LET rows == sheet'["requests"]
           IN  /\ \A j \in Keys : Contents(rows, j) =
                     IF j = op[t].key THEN {op[t].value} ELSE Contents(sheet["requests"], j)
               /\ Distinct(rows)
<1> DEFINE k == op[t].key
           v == op[t].value
           at == op[t].at
           old == sheet["requests"]
           new == sheet'["requests"]
<1>1. /\ k \in Keys /\ v \in Values \cup Nat /\ at \in Nat
      /\ op[t].kind = "write"
  BY DEF Apply, TypeOK, Op, Aligned
<1>2. old \in Seq(Row) /\ Distinct(old)
  BY DEF TypeOK, Worksheets, Single
<1>3. new = IF at = 0 THEN Append(old, RowOf(k, v)) ELSE Put(old, at, RowOf(k, v))
  BY <1>1 DEF Apply, TypeOK, Worksheets, Applied
<1>4. at = 0 => \A i \in DOMAIN old : old[i].key # k
  BY DEF Single, Apply
<1>5. at # 0 => at \in DOMAIN old /\ old[at].key = k
  BY DEF Aligned, Apply
<1> HIDE DEF k, v, at, old, new
<1>6. CASE at = 0
  <2>1. /\ \A j \in Keys : Contents(Append(old, RowOf(k, v)), j) =
              IF j = k THEN {v} ELSE Contents(old, j)
        /\ Distinct(Append(old, RowOf(k, v)))
    BY <1>1, <1>2, <1>4, <1>6, RowAdded
  <2>2. new = Append(old, RowOf(k, v))
    BY <1>3, <1>6
  <2> QED
    BY <2>1, <2>2, Zenon DEF k, v, old, new
<1>7. CASE at # 0
  <2>1. at \in DOMAIN old /\ old[at].key = k
    BY <1>5, <1>7
  <2>2. /\ \A j \in Keys : Contents(Put(old, at, RowOf(k, v)), j) =
              IF j = k THEN {v} ELSE Contents(old, j)
        /\ Distinct(Put(old, at, RowOf(k, v)))
    BY <1>1, <1>2, <2>1, RowReplaced
  <2>3. new = Put(old, at, RowOf(k, v))
    BY <1>3, <1>7
  <2> QED
    BY <2>2, <2>3, Zenon DEF k, v, old, new
<1> QED
  BY <1>6, <1>7

\* A write to another worksheet leaves the requests alone.
LEMMA ApplySingle ==
    ASSUME TypeOK, Aligned, Single, NEW t \in Threads, Apply(t)
    PROVE  Single'
<1>1. \A u \in Threads : op'[u] = Idle
  <2> SUFFICES ASSUME NEW u \in Threads PROVE op'[u] = Idle
    OBVIOUS
  <2>1. u = t \/ op[u] = Idle
    BY DEF Single, Apply
  <2> QED
    BY <2>1 DEF Apply, TypeOK
<1>2. CASE op[t].ws = "requests"
  BY <1>1, <1>2, RequestWritten DEF Single
<1>3. CASE op[t].ws # "requests"
  <2>1. sheet'["requests"] = sheet["requests"]
    BY <1>3, OthersStay DEF Worksheets
  <2> QED
    BY <1>1, <2>1 DEF Single
<1> QED
  BY <1>2, <1>3

RequestsStored ==
    [ws \in Worksheets |->
       [k \in Keys |-> IF ws = "requests" THEN Contents(sheet[ws], k) ELSE {}]]

\* A write is a step of the requests' table, or none of its business.
LEMMA ApplyRequests ==
    ASSUME TypeOK, Aligned, Single, NEW t \in Threads, Apply(t)
    PROVE  [Requests!Next]_RequestsStored
<1>1. CASE op[t].ws # "requests"
  <2>1. sheet'["requests"] = sheet["requests"]
    BY <1>1, OthersStay DEF Worksheets
  <2>2. RequestsStored' = RequestsStored
    BY <2>1 DEF RequestsStored
  <2> QED
    BY <2>2
<1>2. CASE op[t].ws = "requests"
  <2> PICK k, v : k = op[t].key /\ v = op[t].value
    OBVIOUS
  <2>1. k \in Keys /\ v \in Values
    BY <1>2 DEF Apply, TypeOK, Op, Single
  <2>2. \A j \in Keys : Contents(sheet'["requests"], j) =
           IF j = k THEN {v} ELSE Contents(sheet["requests"], j)
    BY <1>2, RequestWritten
  <2>3. RequestsStored' = [RequestsStored EXCEPT !["requests"][k] = {v}]
    <3> DEFINE Now(ws, j) == IF ws = "requests" THEN Contents(sheet'[ws], j) ELSE {}
               Told(ws, j) == IF ws = "requests" /\ j = k THEN {v}
                              ELSE IF ws = "requests" THEN Contents(sheet[ws], j) ELSE {}
    <3>1. RequestsStored' = [ws \in Worksheets |-> [j \in Keys |-> Now(ws, j)]]
      BY DEF RequestsStored
    <3>2. [RequestsStored EXCEPT !["requests"][k] = {v}] =
            [ws \in Worksheets |-> [j \in Keys |-> Told(ws, j)]]
      BY <2>1 DEF RequestsStored, Worksheets
    <3>3. ASSUME NEW ws \in Worksheets, NEW j \in Keys PROVE Now(ws, j) = Told(ws, j)
      <4>1. CASE ws = "requests"
        BY <2>2, <4>1
      <4>2. CASE ws # "requests"
        BY <4>2
      <4> QED
        BY <4>1, <4>2
    <3> HIDE DEF Now, Told
    <3> QED
      BY <3>1, <3>2, <3>3
  <2>4. Requests!Become("requests", k, {v})
    BY <2>3 DEF Requests!Become, RequestsStored
  <2>5. Requests!CreateRequest(k, v) \/ Requests!UpdateRequest(k, v)
    BY <2>4 DEF Requests!CreateRequest, Requests!UpdateRequest
  <2> QED
    BY <2>1, <2>5 DEF Requests!Next
<1> QED
  BY <1>1, <1>2

\* However many replies are lost and however stale the copies are, every call
\* about a request is one step that concerns that request alone.
THEOREM ImplementsRequestsCorrect == Spec => ImplementsRequests
<1>1. Init => Aligned /\ Single
  BY DEF Init, Aligned, Single, Distinct, Worksheets
<1>2. TypeOK /\ Aligned /\ Single /\ [Next]_vars => Aligned' /\ Single'
  BY Steps, LookAligned, ApplyAligned, LookSingle, ApplySingle
<1>3. Init => Requests!Init
  <2>1. ASSUME Init PROVE \A k \in Keys : Contents(sheet["requests"], k) = {}
    BY <2>1 DEF Init, Contents, Worksheets
  <2> QED
    BY <2>1 DEF Requests!Init, Requests!Tables, Worksheets
<1>4. TypeOK /\ Aligned /\ Single /\ [Next]_vars => [Requests!Next]_RequestsStored
  <2> SUFFICES ASSUME TypeOK, Aligned, Single, [Next]_vars
               PROVE  [Requests!Next]_RequestsStored
    OBVIOUS
  <2>1. CASE Look
    BY <2>1 DEF Look, RequestsStored
  <2> QED
    BY <2>1, Steps, ApplyRequests
<1> QED
  BY <1>1, <1>2, <1>3, <1>4, TypeCorrect, PTL
     DEF Spec, ImplementsRequests, Requests!Spec, RequestsStored
=============================================================================
