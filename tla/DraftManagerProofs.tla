------------------------- MODULE DraftManagerProofs -------------------------
(***************************************************************************)
(* Theorems about DraftManager for any number of users, drafts and         *)
(* requests, any number of threads in flight, with failures and restarts.  *)
(***************************************************************************)
EXTENDS DraftManager, TLAPS

(***************************************************************************)
(* Types.                                                                  *)
(***************************************************************************)

\* The two tables have different keys, and different users different rows.
LEMMA KeysDiffer ==
    /\ \A h \in Handles : DraftKey(h) \in Keys /\ ResubmitKey(h) \in Keys
    /\ \A g, h \in Handles : DraftKey(g) # ResubmitKey(h)
    /\ \A g, h \in Handles : DraftKey(g) = DraftKey(h) => g = h
BY DEF Keys, DraftKey, ResubmitKey

\* What each key may hold; None is never one of the drafts or requests.
LEMMA KeyValues ==
    /\ \A h \in Handles : ValuesOf(DraftKey(h)) = Drafts \cup {None}
    /\ \A h \in Handles : ValuesOf(ResubmitKey(h)) = Requests \cup {None}
    /\ \A k \in Keys : None \in ValuesOf(k) /\ ValuesOf(k) \subseteq Values
BY DEF ValuesOf, DraftKey, ResubmitKey, Keys, Values

\* An operation that assigns a value its keys may hold keeps the types of what
\* it changes.
LEMMA AssignTypes ==
    ASSUME TypeOK, NEW set \in SUBSET Keys, NEW v,
           \A k \in set : v \in ValuesOf(k), Assign(set, v)
    PROVE  /\ cache' \in [Keys -> Values]
           /\ disk' \in [Keys -> Values]
           /\ \A k \in Keys : {cache'[k], disk'[k]} \subseteq ValuesOf(k)
           /\ writes' \in [Write -> Nat]
           /\ clean' \in [Keys -> BOOLEAN]
           /\ restarted' \in BOOLEAN
<1>1. cache' \in [Keys -> Values]
  BY KeyValues DEF TypeOK, Assign
<1>2. \A k \in Keys : {cache'[k], disk'[k]} \subseteq ValuesOf(k)
  BY DEF TypeOK, Assign
<1>3. writes' \in [Write -> Nat]
  BY DEF TypeOK, Assign
<1>4. clean' \in [Keys -> BOOLEAN]
  BY DEF TypeOK, Assign
<1> QED
  BY <1>1, <1>2, <1>3, <1>4 DEF TypeOK, Assign

\* Every step keeps the types.
LEMMA TypedNext == TypeOK /\ [Next]_vars => TypeOK'
<1> SUFFICES ASSUME TypeOK, [Next]_vars PROVE TypeOK'
  OBVIOUS
<1> USE KeysDiffer, KeyValues
<1>1. ASSUME NEW set \in SUBSET Keys, NEW v, \A k \in set : v \in ValuesOf(k),
             Assign(set, v), composed' \subseteq Drafts, gone' \subseteq Drafts,
             partial' \in [Handles -> Texts \cup {None}]
      PROVE  TypeOK'
  BY <1>1, AssignTypes DEF TypeOK
<1>2. \A h \in Handles : cache[DraftKey(h)] \in Drafts \cup {None}
  BY DEF TypeOK
<1>3. ASSUME NEW h \in Handles, SetDraft(h) PROVE TypeOK'
  <2> PICK d \in Drafts : /\ Assign({DraftKey(h)}, d)
                          /\ composed' = composed \cup {d}
                          /\ gone' = gone \cup ({cache[DraftKey(h)]} \ {None})
                          /\ UNCHANGED partial
    BY <1>3 DEF SetDraft
  <2>1. composed' \subseteq Drafts /\ gone' \subseteq Drafts
    BY <1>2 DEF TypeOK
  <2> QED
    BY <1>1, <2>1 DEF TypeOK
<1>4. ASSUME NEW h \in Handles, PopDraft(h) \/ DiscardAll(h) PROVE TypeOK'
  <2>1. /\ composed' \subseteq Drafts /\ gone' \subseteq Drafts
        /\ partial' \in [Handles -> Texts \cup {None}]
    BY <1>2, <1>4 DEF PopDraft, DiscardAll, TypeOK
  <2>2. PICK set \in SUBSET {DraftKey(h), ResubmitKey(h)} : Assign(set, None)
    BY <1>4 DEF PopDraft, DiscardAll
  <2> QED
    BY <1>1, <2>1, <2>2
<1>5. ASSUME NEW h \in Handles,
             \/ SetResubmit(h) \/ PopResubmit(h) \/ ClearResubmit(h)
             \/ ResetForNewRequest(h)
      PROVE  TypeOK'
  <2>1. /\ composed' \subseteq Drafts /\ gone' \subseteq Drafts
        /\ partial' \in [Handles -> Texts \cup {None}]
    BY <1>5 DEF SetResubmit, PopResubmit, ClearResubmit, ResetForNewRequest, TypeOK
  <2>2. PICK v \in Requests \cup {None} : Assign({ResubmitKey(h)}, v)
    BY <1>5 DEF SetResubmit, PopResubmit, ClearResubmit, ResetForNewRequest
  <2> QED
    BY <1>1, <2>1, <2>2
<1>6. ASSUME NEW h \in Handles,
             SetPartial(h) \/ TakePartial(h) \/ ExpirePartial(h)
      PROVE  TypeOK'
  BY <1>6 DEF TypeOK, SetPartial, TakePartial, ExpirePartial, Untouched
<1>7. ASSUME NEW x \in Write, RunWrite(x) PROVE TypeOK'
  <2>1. x.key \in Keys /\ x.value \in ValuesOf(x.key)
    BY DEF Write
  <2> QED
    BY <1>7, <2>1 DEF TypeOK, RunWrite
<1>8. ASSUME NEW x \in Write, WriteFails(x) PROVE TypeOK'
  BY <1>8 DEF TypeOK, WriteFails, Write
<1>9. ASSUME NEW k \in Keys, Expire(k) PROVE TypeOK'
  BY <1>9 DEF TypeOK, Expire
<1>10. ASSUME Restart PROVE TypeOK'
  BY <1>10 DEF TypeOK, Restart
<1>11. CASE UNCHANGED vars
  BY <1>11 DEF TypeOK, vars
<1> QED
  BY <1>3, <1>4, <1>5, <1>6, <1>7, <1>8, <1>9, <1>10, <1>11 DEF Next

\* The caches, the tables and the writes in flight always hold values of their
\* own kind, whatever expires, fails or restarts.
THEOREM TypeCorrect == Spec => []TypeOK
<1>1. Init => TypeOK
  <2> SUFFICES ASSUME Init PROVE TypeOK
    OBVIOUS
  <2>1. cache \in [Keys -> Values] /\ disk \in [Keys -> Values]
    BY DEF Init, Values
  <2>2. \A k \in Keys : {cache[k], disk[k]} \subseteq ValuesOf(k)
    BY KeyValues DEF Init
  <2> QED
    BY <2>1, <2>2 DEF Init, TypeOK
<1> QED
  BY <1>1, TypedNext, PTL DEF Spec

(***************************************************************************)
(* The tables follow the caches.  While clean, at most one write of a row   *)
(* is in flight, and it writes what the cache holds.                       *)
(***************************************************************************)

Pending(k, v) == writes[[key |-> k, value |-> v]]

Settled(k) ==
    /\ \A v \in ValuesOf(k) : Pending(k, v) = 0
    /\ disk[k] = cache[k]

Settling(k) ==
    /\ Pending(k, cache[k]) = 1
    /\ \A v \in ValuesOf(k) \ {cache[k]} : Pending(k, v) = 0

Following == \A k \in Keys : clean[k] => Settled(k) \/ Settling(k)

\* The writes in flight of a row, named by the value they write.
LEMMA NoneInFlight ==
    ASSUME TypeOK, NEW k \in Keys
    PROVE  InFlight(k) = {} <=> \A v \in ValuesOf(k) : Pending(k, v) = 0
<1>1. \A v \in ValuesOf(k) : [key |-> k, value |-> v] \in Write
  BY KeyValues DEF Write
<1>2. \A x \in Write : x.key = k => x = [key |-> k, value |-> x.value] /\ x.value \in ValuesOf(k)
  BY DEF Write
<1>3. \A x \in Write : writes[x] \in Nat
  BY DEF TypeOK
<1> QED
  BY <1>1, <1>2, <1>3 DEF InFlight, Pending

\* An operation leaves a row it does not write as it was, and one it writes with
\* no other write in flight about to settle.
LEMMA AssignFollows ==
    ASSUME TypeOK, Following, NEW set \in SUBSET Keys, NEW v,
           \A k \in set : v \in ValuesOf(k), Assign(set, v)
    PROVE  Following'
<1> SUFFICES ASSUME NEW k \in Keys, clean'[k] PROVE (Settled(k) \/ Settling(k))'
  BY DEF Following
<1>1. \A u \in ValuesOf(k) : [key |-> k, value |-> u] \in Write
  BY KeyValues DEF Write
<1>2. \A u \in ValuesOf(k) :
         Pending(k, u)' = IF k \in set /\ u = v THEN Pending(k, u) + 1 ELSE Pending(k, u)
  BY <1>1 DEF Assign, Pending
<1>3. CASE k \in set
  <2>1. InFlight(k) = {}
    BY <1>3 DEF Assign
  <2>2. \A u \in ValuesOf(k) : Pending(k, u) = 0
    BY <2>1, NoneInFlight
  <2>3. cache'[k] = v /\ v \in ValuesOf(k)
    BY <1>3 DEF Assign
  <2>4. Settling(k)'
    BY <1>2, <1>3, <2>2, <2>3 DEF Settling
  <2> QED
    BY <2>4
<1>4. CASE k \notin set
  <2>1. clean[k] /\ cache'[k] = cache[k] /\ disk'[k] = disk[k]
    BY <1>4 DEF Assign
  <2>2. cache[k] \in ValuesOf(k)
    BY DEF TypeOK
  <2> QED
    BY <1>2, <1>4, <2>1, <2>2 DEF Following, Settled, Settling
<1> QED
  BY <1>3, <1>4

\* A thread that writes, or fails to, leaves a clean row settled.
LEMMA WriteFollows ==
    ASSUME TypeOK, Following, NEW x \in Write, RunWrite(x) \/ WriteFails(x)
    PROVE  Following'
<1> SUFFICES ASSUME NEW k \in Keys, clean'[k] PROVE (Settled(k) \/ Settling(k))'
  BY DEF Following
<1>0. /\ x.key \in Keys /\ x.value \in ValuesOf(x.key)
      /\ x = [key |-> x.key, value |-> x.value]
  BY DEF Write
<1>1. \A u \in ValuesOf(k) : [key |-> k, value |-> u] \in Write
  BY KeyValues DEF Write
<1>2. writes \in [Write -> Nat] /\ cache[k] \in ValuesOf(k)
  BY DEF TypeOK
<1>3. cache' = cache /\ writes' = [writes EXCEPT ![x] = writes[x] - 1] /\ writes[x] > 0
  BY DEF RunWrite, WriteFails
<1>4. clean[k]
  BY DEF RunWrite, WriteFails, TypeOK
<1>5. CASE x.key # k
  <2>1. \A u \in ValuesOf(k) : Pending(k, u)' = Pending(k, u)
    BY <1>1, <1>2, <1>3, <1>5 DEF Pending
  <2>2. disk'[k] = disk[k]
    BY <1>0, <1>5 DEF RunWrite, WriteFails, TypeOK
  <2> QED
    BY <1>2, <1>3, <1>4, <2>1, <2>2 DEF Following, Settled, Settling
<1>6. CASE x.key = k
  <2>1. Pending(k, x.value) > 0
    BY <1>0, <1>3, <1>6 DEF Pending
  <2>2. ~Settled(k)
    BY <1>0, <1>6, <2>1 DEF Settled
  <2>3. Settling(k)
    BY <1>4, <2>2 DEF Following
  <2>4. x.value = cache[k] /\ writes[x] = 1
    BY <1>0, <1>6, <2>1, <2>3 DEF Settling, Pending
  <2>5. RunWrite(x)
    BY <1>4, <1>6 DEF WriteFails, TypeOK
  <2>6. disk'[k] = cache'[k]
    BY <1>0, <1>3, <1>6, <2>4, <2>5 DEF RunWrite, TypeOK
  <2>7. \A u \in ValuesOf(k) : Pending(k, u)' = 0
    <3> TAKE u \in ValuesOf(k)
    <3>1. CASE u = cache[k]
      BY <1>0, <1>1, <1>2, <1>3, <1>6, <2>4, <3>1 DEF Pending
    <3>2. CASE u # cache[k]
      <4>1. [key |-> k, value |-> u] # x
        BY <2>4, <3>2
      <4>2. Pending(k, u) = 0
        BY <2>3, <3>2 DEF Settling
      <4> QED
        BY <1>1, <1>2, <1>3, <4>1, <4>2 DEF Pending
    <3> QED
      BY <3>1, <3>2
  <2> QED
    BY <2>6, <2>7 DEF Settled
<1> QED
  BY <1>5, <1>6

\* Every step keeps the rows of clean keys settled or about to settle.
LEMMA FollowingNext == TypeOK /\ Following /\ [Next]_vars => Following'
<1> SUFFICES ASSUME TypeOK, Following, [Next]_vars PROVE Following'
  OBVIOUS
<1> USE KeysDiffer, KeyValues
<1>1. ASSUME NEW h \in Handles,
             \/ SetDraft(h) \/ PopDraft(h) \/ DiscardAll(h)
             \/ SetResubmit(h) \/ PopResubmit(h) \/ ClearResubmit(h)
             \/ ResetForNewRequest(h)
      PROVE  Following'
  <2>1. PICK set \in SUBSET Keys, v \in Values :
          (\A k \in set : v \in ValuesOf(k)) /\ Assign(set, v)
    <3>1. CASE SetDraft(h)
      BY <3>1 DEF SetDraft
    <3>2. CASE SetResubmit(h)
      BY <3>2 DEF SetResubmit
    <3>3. CASE DiscardAll(h)
      BY <3>3 DEF DiscardAll
    <3>4. CASE PopDraft(h)
      BY <3>4 DEF PopDraft
    <3>5. CASE PopResubmit(h) \/ ClearResubmit(h) \/ ResetForNewRequest(h)
      BY <3>5 DEF PopResubmit, ClearResubmit, ResetForNewRequest
    <3> QED
      BY <1>1, <3>1, <3>2, <3>3, <3>4, <3>5
  <2> QED
    BY <2>1, AssignFollows
<1>2. ASSUME UNCHANGED <<cache, disk, writes, clean>> PROVE Following'
  BY <1>2 DEF Following, Settled, Settling, Pending
<1>3. ASSUME NEW h \in Handles,
             SetPartial(h) \/ TakePartial(h) \/ ExpirePartial(h)
      PROVE  Following'
  BY <1>2, <1>3 DEF SetPartial, TakePartial, ExpirePartial, Untouched
<1>4. ASSUME NEW x \in Write, RunWrite(x) \/ WriteFails(x) PROVE Following'
  BY <1>4, WriteFollows
<1>5. ASSUME NEW k \in Keys, Expire(k) PROVE Following'
  BY <1>5 DEF Expire, Following, Settled, Settling, Pending, TypeOK
<1>6. ASSUME Restart PROVE Following'
  <2>1. PICK loaded \in SUBSET {"draft", "resubmit"} :
          /\ cache' = [k \in Keys |-> IF k[1] \in loaded THEN disk[k] ELSE None]
          /\ clean' = [k \in Keys |-> k[1] \in loaded]
          /\ writes' = [x \in Write |-> 0]
          /\ disk' = disk
    BY <1>6 DEF Restart
  <2>2. ASSUME NEW k \in Keys, clean'[k] PROVE Settled(k)'
    <3>1. \A u \in ValuesOf(k) : [key |-> k, value |-> u] \in Write
      BY DEF Write
    <3> QED
      BY <2>1, <2>2, <3>1 DEF Settled, Pending
  <2> QED
    BY <2>2 DEF Following
<1>7. CASE UNCHANGED vars
  BY <1>2, <1>7 DEF vars
<1> QED
  BY <1>1, <1>3, <1>4, <1>5, <1>6, <1>7 DEF Next

\* With any number of threads in flight, a table differs from its cache only
\* while a write is on its way, or once writes overlapped, failed or expired.
THEOREM RowsFollowCorrect == Spec => []RowsFollow
<1>1. Init => Following
  <2> SUFFICES ASSUME Init, NEW k \in Keys PROVE Settled(k)
    BY DEF Following
  <2>1. \A u \in ValuesOf(k) : [key |-> k, value |-> u] \in Write
    BY KeyValues DEF Write
  <2> QED
    BY <2>1 DEF Init, Settled, Pending
<1>2. TypeOK /\ Following => RowsFollow
  <2> SUFFICES ASSUME TypeOK, Following, NEW k \in Keys, clean[k], InFlight(k) = {}
               PROVE  disk[k] = cache[k]
    BY DEF RowsFollow
  <2>1. Pending(k, cache[k]) = 0
    BY NoneInFlight DEF TypeOK
  <2> QED
    BY <2>1 DEF Following, Settled, Settling
<1>3. Spec => []TypeOK
  BY TypeCorrect
<1> QED
  BY <1>1, <1>2, <1>3, FollowingNext, PTL DEF Spec

(***************************************************************************)
(* A draft is taken once.  Only set_draft puts a draft into the cache, and  *)
(* each draft is composed for one user: so no two users hold the same one, *)
(* and one that left the cache cannot come back before a restart.          *)
(***************************************************************************)

Held(h) == cache[DraftKey(h)]

HeldOnce ==
    ~restarted =>
        /\ gone \subseteq composed
        /\ \A h \in Handles : Held(h) \in (composed \ gone) \cup {None}
        /\ \A g, h \in Handles : g # h /\ Held(g) = Held(h) => Held(g) = None

\* An operation changes only the drafts it names.
LEMMA AssignHolds ==
    ASSUME NEW set \in SUBSET Keys, NEW v, Assign(set, v), NEW h \in Handles
    PROVE  Held(h)' = IF DraftKey(h) \in set THEN v ELSE Held(h)
BY KeysDiffer DEF Assign, Held

\* Taking the draft of one user leaves every other user's.
LEMMA TakeHolds ==
    ASSUME TypeOK, HeldOnce, ~restarted, NEW h \in Handles,
           \A g \in Handles : Held(g)' = IF g = h THEN None ELSE Held(g),
           gone' = gone \cup ({Held(h)} \ {None}), composed' = composed
    PROVE  HeldOnce'
<1>1. None \notin gone
  BY NoneAssumption DEF TypeOK
<1> QED
  BY <1>1 DEF HeldOnce

\* Every step of a process that has not been restarted keeps each draft with at
\* most one user, and none that is gone.
LEMMA HeldNext == TypeOK /\ HeldOnce /\ [Next]_vars => HeldOnce'
<1> SUFFICES ASSUME TypeOK, HeldOnce, [Next]_vars, ~restarted' PROVE HeldOnce'
  BY DEF HeldOnce
<1> USE KeysDiffer
<1>0. ~restarted
  BY DEF Next, SetDraft, PopDraft, DiscardAll, SetResubmit, PopResubmit,
         ClearResubmit, ResetForNewRequest, SetPartial, TakePartial, ExpirePartial,
         RunWrite, WriteFails, Expire, Restart, Assign, Untouched, vars, TypeOK
<1>1. ASSUME NEW h \in Handles, SetDraft(h) PROVE HeldOnce'
  <2>1. PICK d \in Drafts \ composed :
          /\ Assign({DraftKey(h)}, d)
          /\ composed' = composed \cup {d}
          /\ gone' = gone \cup ({Held(h)} \ {None})
    BY <1>1 DEF SetDraft, Held
  <2>2. \A g \in Handles : Held(g)' = IF g = h THEN d ELSE Held(g)
    BY <2>1, AssignHolds
  <2>3. d # None /\ None \notin composed
    BY NoneAssumption DEF TypeOK
  <2> QED
    BY <1>0, <2>1, <2>2, <2>3 DEF HeldOnce
<1>2. ASSUME NEW h \in Handles, PopDraft(h) PROVE HeldOnce'
  <2>1. \A g \in Handles : Held(g)' = IF g = h THEN None ELSE Held(g)
    BY <1>2, AssignHolds DEF PopDraft
  <2> QED
    BY <1>0, <1>2, <2>1, TakeHolds DEF PopDraft, Held
<1>3. ASSUME NEW h \in Handles, DiscardAll(h) PROVE HeldOnce'
  <2>1. PICK set \in SUBSET Keys :
          /\ Assign(set, None)
          /\ set \subseteq {DraftKey(h), ResubmitKey(h)}
          /\ Held(h) # None => DraftKey(h) \in set
    BY <1>3 DEF DiscardAll, Held
  <2>2. \A g \in Handles : Held(g)' = IF g = h THEN None ELSE Held(g)
    BY <2>1, AssignHolds
  <2>3. gone' = gone \cup ({Held(h)} \ {None}) /\ composed' = composed
    BY <1>3 DEF DiscardAll, Held
  <2> QED
    BY <1>0, <2>2, <2>3, TakeHolds
<1>4. ASSUME UNCHANGED <<composed, gone, restarted>>,
             \A h \in Handles : Held(h)' = Held(h)
      PROVE  HeldOnce'
  BY <1>4 DEF HeldOnce
<1>5. ASSUME NEW h \in Handles,
             \/ SetResubmit(h) \/ PopResubmit(h) \/ ClearResubmit(h)
             \/ ResetForNewRequest(h)
      PROVE  HeldOnce'
  <2>1. PICK v : Assign({ResubmitKey(h)}, v) /\ UNCHANGED <<composed, gone>>
    BY <1>5 DEF SetResubmit, PopResubmit, ClearResubmit, ResetForNewRequest
  <2>2. \A g \in Handles : Held(g)' = Held(g)
    BY <2>1, AssignHolds
  <2> QED
    BY <1>4, <2>1, <2>2 DEF Assign
<1>6. ASSUME UNCHANGED <<cache, composed, gone, restarted>> PROVE HeldOnce'
  BY <1>6 DEF HeldOnce, Held
<1>7. ASSUME NEW h \in Handles,
             SetPartial(h) \/ TakePartial(h) \/ ExpirePartial(h)
      PROVE  HeldOnce'
  BY <1>6, <1>7 DEF SetPartial, TakePartial, ExpirePartial, Untouched
<1>8. ASSUME NEW x \in Write, RunWrite(x) \/ WriteFails(x) PROVE HeldOnce'
  BY <1>6, <1>8 DEF RunWrite, WriteFails
<1>9. ASSUME NEW k \in Keys, Expire(k) PROVE HeldOnce'
  <2>1. \A h \in Handles : Held(h)' \in {Held(h), None}
    BY <1>9 DEF Expire, Held, TypeOK
  <2> QED
    BY <1>9, <2>1 DEF Expire, HeldOnce
<1>10. CASE UNCHANGED vars
  BY <1>6, <1>10 DEF vars
<1>11. ~Restart
  BY DEF Restart
<1> QED
  BY <1>1, <1>2, <1>3, <1>5, <1>7, <1>8, <1>9, <1>10, <1>11 DEF Next

\* As long as the process lives, a draft that was confirmed, discarded or
\* replaced is never obtained again, whatever messages arrive together.
THEOREM TakenOnceCorrect == Spec => []TakenOnce
<1>1. Init => HeldOnce
  BY KeysDiffer DEF Init, HeldOnce, Held
<1>2. TypeOK /\ HeldOnce => TakenOnce
  BY NoneAssumption DEF TypeOK, HeldOnce, TakenOnce, Held
<1>3. Spec => []TypeOK
  BY TypeCorrect
<1> QED
  BY <1>1, <1>2, <1>3, HeldNext, PTL DEF Spec

(***************************************************************************)
(* A draft that is gone stays out of every cache.  The places that can put  *)
(* a draft into the cache of a user, now or with a restart, are the cache,  *)
(* its row and the writes of its row.  Whatever is there was composed, so   *)
(* that a new draft is none of those that are gone; and no draft is tracked *)
(* for two users, so that taking it from one leaves no copy with another.   *)
(* A restart loads the row, which for a clean key with no write in flight   *)
(* is what the cache holds.                                                 *)
(***************************************************************************)

Tracked(h, d) ==
    d \in {Held(h), disk[DraftKey(h)]} \/ Pending(DraftKey(h), d) > 0

AllComposed ==
    /\ gone \subseteq composed
    /\ \A h \in Handles, d \in Drafts : Tracked(h, d) => d \in composed

Owned ==
    \A g, h \in Handles, d \in Drafts : Tracked(g, d) /\ Tracked(h, d) => g = h

\* An operation tracks nothing new but the draft it assigns, for its own user.
LEMMA AssignTracks ==
    ASSUME TypeOK, NEW set \in SUBSET Keys, NEW v, Assign(set, v),
           NEW h \in Handles, NEW d \in Drafts, Tracked(h, d)'
    PROVE  Tracked(h, d) \/ (DraftKey(h) \in set /\ d = v)
<1>1. [key |-> DraftKey(h), value |-> d] \in Write
  BY KeysDiffer, KeyValues DEF Write
<1>2. Pending(DraftKey(h), d)' > 0
        => Pending(DraftKey(h), d) > 0 \/ (DraftKey(h) \in set /\ d = v)
  BY <1>1 DEF Assign, Pending, TypeOK
<1>3. disk' = disk
  BY DEF Assign
<1> QED
  BY <1>2, <1>3, AssignHolds DEF Tracked

\* A step tracks nothing new but a draft that set_draft has just composed.
LEMMA TrackedNext ==
    ASSUME TypeOK, [Next]_vars
    PROVE  \/ /\ composed' = composed
              /\ \A h \in Handles, d \in Drafts : Tracked(h, d)' => Tracked(h, d)
           \/ \E u \in Handles, n \in Drafts \ composed :
                /\ composed' = composed \cup {n}
                /\ \A h \in Handles, d \in Drafts :
                      Tracked(h, d)' => Tracked(h, d) \/ (h = u /\ d = n)
<1> DEFINE Same == /\ composed' = composed
                   /\ \A h \in Handles, d \in Drafts : Tracked(h, d)' => Tracked(h, d)
<1> USE KeysDiffer
<1>1. ASSUME NEW u \in Handles, SetDraft(u)
      PROVE  \E n \in Drafts \ composed :
                /\ composed' = composed \cup {n}
                /\ \A h \in Handles, d \in Drafts :
                      Tracked(h, d)' => Tracked(h, d) \/ (h = u /\ d = n)
  <2>1. PICK n \in Drafts \ composed :
          Assign({DraftKey(u)}, n) /\ composed' = composed \cup {n}
    BY <1>1 DEF SetDraft
  <2>2. \A h \in Handles, d \in Drafts :
           Tracked(h, d)' => Tracked(h, d) \/ (DraftKey(h) \in {DraftKey(u)} /\ d = n)
    BY <2>1, AssignTracks
  <2> QED
    BY <2>1, <2>2
<1>2. ASSUME NEW g \in Handles, PopDraft(g) \/ DiscardAll(g) PROVE Same
  <2>1. PICK set \in SUBSET Keys : Assign(set, None)
    BY <1>2 DEF PopDraft, DiscardAll
  <2>2. composed' = composed
    BY <1>2 DEF PopDraft, DiscardAll
  <2>3. \A d \in Drafts : d # None
    BY NoneAssumption
  <2> QED
    BY <2>1, <2>2, <2>3, AssignTracks
<1>3. ASSUME NEW g \in Handles,
             \/ SetResubmit(g) \/ PopResubmit(g) \/ ClearResubmit(g)
             \/ ResetForNewRequest(g)
      PROVE  Same
  <2>1. PICK v : Assign({ResubmitKey(g)}, v) /\ composed' = composed
    BY <1>3 DEF SetResubmit, PopResubmit, ClearResubmit, ResetForNewRequest
  <2>2. \A h \in Handles, d \in Drafts :
           Tracked(h, d)' => Tracked(h, d) \/ (DraftKey(h) \in {ResubmitKey(g)} /\ d = v)
    BY <2>1, AssignTracks
  <2> QED
    BY <2>1, <2>2
<1>4. ASSUME UNCHANGED <<cache, disk, writes, composed>> PROVE Same
  BY <1>4 DEF Tracked, Held, Pending
<1>5. ASSUME NEW g \in Handles,
             SetPartial(g) \/ TakePartial(g) \/ ExpirePartial(g)
      PROVE  Same
  BY <1>4, <1>5 DEF SetPartial, TakePartial, ExpirePartial, Untouched
<1>6. ASSUME NEW x \in Write, RunWrite(x) \/ WriteFails(x) PROVE Same
  <2>1. /\ UNCHANGED <<cache, composed>> /\ x.key \in Keys
        /\ writes' = [writes EXCEPT ![x] = writes[x] - 1] /\ writes[x] > 0
        /\ disk' = disk \/ disk' = [disk EXCEPT ![x.key] = x.value]
    BY <1>6 DEF RunWrite, WriteFails, Write
  <2>2. x = [key |-> x.key, value |-> x.value]
    BY DEF Write
  <2>3. ASSUME NEW h \in Handles, NEW d \in Drafts, Tracked(h, d)' PROVE Tracked(h, d)
    <3>1. [key |-> DraftKey(h), value |-> d] \in Write
      BY KeyValues DEF Write
    <3>2. Pending(DraftKey(h), d)' > 0 => Pending(DraftKey(h), d) > 0
      BY <2>1, <3>1 DEF Pending, TypeOK
    <3>3. disk'[DraftKey(h)] = d => disk[DraftKey(h)] = d \/ Pending(DraftKey(h), d) > 0
      BY <2>1, <2>2 DEF Pending, TypeOK
    <3> QED
      BY <2>1, <2>3, <3>2, <3>3 DEF Tracked, Held
  <2> QED
    BY <2>1, <2>3
<1>7. ASSUME NEW k \in Keys, Expire(k) PROVE Same
  BY <1>7, NoneAssumption DEF Expire, Tracked, Held, Pending, TypeOK
<1>8. ASSUME Restart PROVE Same
  <2>1. /\ UNCHANGED <<disk, composed>>
        /\ \A k \in Keys : cache'[k] \in {disk[k], None}
        /\ writes' = [x \in Write |-> 0]
    BY <1>8 DEF Restart
  <2>2. ASSUME NEW h \in Handles, NEW d \in Drafts, Tracked(h, d)' PROVE Tracked(h, d)
    <3>1. [key |-> DraftKey(h), value |-> d] \in Write
      BY KeyValues DEF Write
    <3> QED
      BY <2>1, <2>2, <3>1, NoneAssumption DEF Tracked, Held, Pending
  <2> QED
    BY <2>1, <2>2
<1>9. CASE UNCHANGED vars
  BY <1>4, <1>9 DEF vars
<1> QED
  BY <1>1, <1>2, <1>3, <1>5, <1>6, <1>7, <1>8, <1>9 DEF Next

\* What is gone was in a cache, or is of before.
LEMMA GoneNext ==
    ASSUME [Next]_vars, NEW d \in gone'
    PROVE  d \in gone \/ \E h \in Handles : d = Held(h)
BY DEF Next, SetDraft, PopDraft, DiscardAll, SetResubmit, PopResubmit, ClearResubmit,
       ResetForNewRequest, SetPartial, TakePartial, ExpirePartial, RunWrite, WriteFails,
       Expire, Restart, Untouched, vars, Held

\* Every step keeps what is tracked composed, and for one user only.
LEMMA OwnedNext == TypeOK /\ AllComposed /\ Owned /\ [Next]_vars => (AllComposed /\ Owned)'
<1> SUFFICES ASSUME TypeOK, AllComposed, Owned, [Next]_vars PROVE (AllComposed /\ Owned)'
  OBVIOUS
<1>1. composed \subseteq composed'
  BY TrackedNext
<1>2. \A h \in Handles, d \in Drafts : Tracked(h, d)' => d \in composed'
  BY TrackedNext DEF AllComposed
<1>3. gone' \subseteq composed'
  <2> SUFFICES ASSUME NEW d \in gone' PROVE d \in composed
    BY <1>1
  <2>1. CASE d \in gone
    BY <2>1 DEF AllComposed
  <2>2. ASSUME NEW h \in Handles, d = Held(h) PROVE d \in composed
    BY <2>2, TypedNext DEF AllComposed, Tracked, TypeOK
  <2> QED
    BY <2>1, <2>2, GoneNext
<1>4. ASSUME NEW g \in Handles, NEW h \in Handles, NEW d \in Drafts,
             Tracked(g, d)', Tracked(h, d)'
      PROVE  g = h
  BY <1>4, TrackedNext DEF AllComposed, Owned
<1> QED
  BY <1>2, <1>3, <1>4 DEF AllComposed, Owned

\* A step other than a restart leaves what a user's cache holds, empties it, or
\* puts a new draft there.
LEMMA HeldNextOf ==
    ASSUME TypeOK, [Next]_vars, ~Restart, NEW h \in Handles
    PROVE  Held(h)' \in {Held(h), None} \/ Held(h)' \in Drafts \ composed
<1> USE KeysDiffer
<1>1. ASSUME NEW g \in Handles, SetDraft(g)
      PROVE  Held(h)' = Held(h) \/ Held(h)' \in Drafts \ composed
  BY <1>1, AssignHolds DEF SetDraft
<1>2. ASSUME NEW g \in Handles, PopDraft(g) \/ DiscardAll(g)
      PROVE  Held(h)' \in {Held(h), None}
  <2>1. PICK set \in SUBSET Keys : Assign(set, None)
    BY <1>2 DEF PopDraft, DiscardAll
  <2> QED
    BY <2>1, AssignHolds
<1>3. ASSUME NEW g \in Handles,
             \/ SetResubmit(g) \/ PopResubmit(g) \/ ClearResubmit(g)
             \/ ResetForNewRequest(g)
      PROVE  Held(h)' = Held(h)
  <2>1. PICK v : Assign({ResubmitKey(g)}, v)
    BY <1>3 DEF SetResubmit, PopResubmit, ClearResubmit, ResetForNewRequest
  <2> QED
    BY <2>1, AssignHolds
<1>4. ASSUME cache' = cache PROVE Held(h)' = Held(h)
  BY <1>4 DEF Held
<1>5. ASSUME NEW k \in Keys, Expire(k) PROVE Held(h)' \in {Held(h), None}
  BY <1>5 DEF Expire, Held, TypeOK
<1> QED
  BY <1>1, <1>2, <1>3, <1>4, <1>5
     DEF Next, SetPartial, TakePartial, ExpirePartial, RunWrite, WriteFails, Untouched, vars

\* Taking a draft empties the cache of the user it is taken from.
LEMMA TakenLeaves ==
    ASSUME TypeOK, [Next]_vars, NEW h \in Handles, Held(h) \in gone', Held(h) \notin gone,
           Held(h) \in composed, Owned
    PROVE  Held(h)' # Held(h)
<1> USE KeysDiffer
<1>1. Held(h) \in Drafts
  BY DEF TypeOK
<1>2. PICK g \in Handles : (SetDraft(g) \/ PopDraft(g) \/ DiscardAll(g)) /\ Held(g) = Held(h)
  BY DEF Next, SetDraft, PopDraft, DiscardAll, SetResubmit, PopResubmit, ClearResubmit,
         ResetForNewRequest, SetPartial, TakePartial, ExpirePartial, RunWrite, WriteFails,
         Expire, Restart, Untouched, vars, Held
<1>3. g = h
  BY <1>1, <1>2 DEF Owned, Tracked
<1>4. CASE SetDraft(h)
  BY <1>4, AssignHolds DEF SetDraft
<1>5. CASE PopDraft(h)
  BY <1>1, <1>5, AssignHolds, NoneAssumption DEF PopDraft
<1>6. CASE DiscardAll(h)
  <2>1. Held(h) # None
    BY <1>1, NoneAssumption
  <2>2. Assign({DraftKey(h), ResubmitKey(h)}, None)
    BY <1>6, <2>1 DEF DiscardAll, Held
  <2> QED
    BY <2>1, <2>2, AssignHolds
<1> QED
  BY <1>2, <1>3, <1>4, <1>5, <1>6

\* What a step may leave in a cache of the drafts that are gone.
LEMMA TakenNext ==
    ASSUME TypeOK, RowsFollow, AllComposed, Owned, [Next]_vars, NEW h \in Handles,
           Held(h)' \in gone'
    PROVE  \/ Held(h) \in gone /\ Held(h)' = Held(h)
           \/ Restart /\ (InFlight(DraftKey(h)) # {} \/ ~clean[DraftKey(h)])
<1>1. Held(h)' \in Drafts /\ Held(h)' # None
  BY TypedNext, NoneAssumption DEF TypeOK
<1>2. CASE ~Restart
  <2>1. Held(h)' \notin composed => Held(h)' \notin gone'
    <3> SUFFICES ASSUME Held(h)' \notin composed PROVE FALSE
      OBVIOUS
    <3>1. PICK g \in Handles : Held(h)' = Held(g)
      BY GoneNext DEF AllComposed
    <3> QED
      BY <1>1, <3>1 DEF AllComposed, Tracked
  <2>2. Held(h)' = Held(h) /\ Held(h) \in composed
    BY <1>1, <1>2, <2>1, HeldNextOf
  <2> QED
    BY <2>2, TakenLeaves
<1>3. CASE Restart
  <2>1. Held(h)' \in {disk[DraftKey(h)], None} /\ gone' = gone
    BY <1>3, KeysDiffer DEF Restart, Held
  <2>2. clean[DraftKey(h)] /\ InFlight(DraftKey(h)) = {} => Held(h)' = Held(h)
    BY <1>1, <2>1, KeysDiffer DEF RowsFollow, Held
  <2> QED
    BY <1>3, <2>1, <2>2
<1> QED
  BY <1>2, <1>3

\* A draft that was taken is in no cache until a restart that its row's writes, by
\* overlapping, failing or not being done, left behind brings it back: with any number
\* of users and threads (pop_draft, discard_all, _run_async, __init__).
THEOREM TakenStaysTakenCorrect == Spec => TakenStaysTaken
<1>1. Init => AllComposed /\ Owned
  <2> SUFFICES ASSUME Init PROVE \A h \in Handles, d \in Drafts : ~Tracked(h, d)
    BY DEF Init, AllComposed, Owned
  <2> TAKE h \in Handles, d \in Drafts
  <2>1. [key |-> DraftKey(h), value |-> d] \in Write
    BY KeysDiffer, KeyValues DEF Write
  <2> QED
    BY <2>1, KeysDiffer, NoneAssumption DEF Init, Tracked, Held, Pending
<1>2. TypeOK /\ RowsFollow /\ AllComposed /\ Owned /\ [Next]_vars =>
        [\A h \in Handles :
            LET k == DraftKey(h) IN
            cache'[k] \in gone' =>
                \/ cache[k] \in gone /\ cache'[k] = cache[k]
                \/ Restart /\ (InFlight(k) # {} \/ ~clean[k])]_vars
  BY TakenNext DEF Held
<1> QED
  BY <1>1, <1>2, OwnedNext, TypeCorrect, RowsFollowCorrect, PTL DEF Spec, TakenStaysTaken
=============================================================================
