---------------------------- MODULE DraftManager ----------------------------
(***************************************************************************)
(* DraftManager: what the agent remembers of each user between messages.   *)
(*                                                                         *)
(* Two caches are backed by tables of the workflow store: the draft that   *)
(* waits for /confirm and the request whose NEEDINFO the next free text    *)
(* answers.  An operation changes the cache under the lock and hands the   *)
(* write of the table to a new daemon thread; nothing orders these threads *)
(* and an exception in one is swallowed.  A restart loses the caches and   *)
(* the threads and loads the caches from the tables.  A third cache, the   *)
(* half-filled draft, has no table.                                        *)
(*                                                                         *)
(* A key is a cache and a user; to delete a row is to write None to it.    *)
(* Time is abstracted: an entry of a cache may expire, or be evicted from  *)
(* a full cache, at any moment, and so may a row.                          *)
(***************************************************************************)
EXTENDS Naturals, FiniteSets

CONSTANTS
    Handles,    \* users
    Drafts,     \* drafts, each one composed once
    Requests,   \* ids a NEEDINFO may name
    Texts,      \* messages with fields missing
    None,
    MayFail,    \* table writes and loads may raise
    MayExpire,  \* entries and rows may reach the end of their TTL
    MaxThreads  \* bound: no operation while so many writes are in flight

ASSUME NoneAssumption == None \notin Drafts \cup Requests \cup Texts

ASSUME BoundAssumption == MaxThreads \in Nat

Keys == {"draft", "resubmit"} \X Handles

DraftKey(h) == <<"draft", h>>
ResubmitKey(h) == <<"resubmit", h>>

Values == Drafts \cup Requests \cup {None}

\* The values of a cache and its table.
ValuesOf(k) == {None} \cup IF k[1] = "draft" THEN Drafts ELSE Requests

\* A persistence thread: the table row it writes and the value it writes there.
Write == {x \in [key : Keys, value : Values] : x.value \in ValuesOf(x.key)}

VARIABLES
    cache,      \* cache[k]: _pending_drafts and _pending_resubmit
    partial,    \* partial[h]: _partial_drafts
    disk,       \* disk[k]: the rows of pending_drafts and pending_resubmit
    writes,     \* writes[x]: how many threads are about to do write x
    composed,   \* drafts that have been set
    gone,       \* drafts that have been popped, discarded or replaced
    clean,      \* clean[k]: since k was last in step with its row, every write
                \* of it began when no other was in flight, and none failed
    restarted   \* whether the process has been restarted

vars == <<cache, partial, disk, writes, composed, gone, clean, restarted>>

\* Every cache and row holds a value of its own kind; drafts never end up among
\* the half-filled texts (draft_manager.py keeps three separate caches).
TypeOK ==
    /\ cache \in [Keys -> Values]
    /\ disk \in [Keys -> Values]
    /\ \A k \in Keys : {cache[k], disk[k]} \subseteq ValuesOf(k)
    /\ partial \in [Handles -> Texts \cup {None}]
    /\ writes \in [Write -> Nat]
    /\ composed \subseteq Drafts
    /\ gone \subseteq Drafts
    /\ clean \in [Keys -> BOOLEAN]
    /\ restarted \in BOOLEAN

Init ==
    /\ cache = [k \in Keys |-> None]
    /\ partial = [h \in Handles |-> None]
    /\ disk = [k \in Keys |-> None]
    /\ writes = [x \in Write |-> 0]
    /\ composed = {}
    /\ gone = {}
    /\ clean = [k \in Keys |-> TRUE]
    /\ restarted = FALSE

InFlight(k) == {x \in Write : x.key = k /\ writes[x] > 0}

\* A bound of the model, not of the code.
ThreadsLeft == \A k \in Keys : \A x \in InFlight(k) : writes[x] < MaxThreads

-----------------------------------------------------------------------------
(* Operations.  Each holds the lock once and starts its threads after it.  *)

\* _run_async for one key: the entry becomes v and a thread will write v.
\* set is the keys the operation writes, all to None but perhaps one.
Assign(set, v) ==
    /\ ThreadsLeft
    /\ cache' = [k \in Keys |-> IF k \in set THEN v ELSE cache[k]]
    /\ writes' = [x \in Write |-> IF x.key \in set /\ x.value = v
                                 THEN writes[x] + 1 ELSE writes[x]]
    /\ clean' = [k \in Keys |-> IF k \in set THEN InFlight(k) = {} ELSE clean[k]]
    /\ UNCHANGED <<disk, restarted>>

Untouched == UNCHANGED <<cache, disk, writes, clean, restarted>>

SetDraft(h) ==
    \E d \in Drafts \ composed :
        /\ Assign({DraftKey(h)}, d)
        /\ composed' = composed \cup {d}
        /\ gone' = gone \cup ({cache[DraftKey(h)]} \ {None})
        /\ UNCHANGED partial

\* Mutants of PopDraft: the row is not deleted; the entry is read, not popped.
PopKeepsRow(h) ==
    /\ cache[DraftKey(h)] # None
    /\ cache' = [cache EXCEPT ![DraftKey(h)] = None]
    /\ clean' = [clean EXCEPT ![DraftKey(h)] = InFlight(DraftKey(h)) = {}]
    /\ gone' = gone \cup {cache[DraftKey(h)]}
    /\ UNCHANGED <<partial, disk, writes, composed, restarted>>

PopKeepsEntry(h) ==
    /\ cache[DraftKey(h)] # None
    /\ ThreadsLeft
    /\ writes' = [writes EXCEPT ![[key |-> DraftKey(h), value |-> None]] = @ + 1]
    /\ clean' = [clean EXCEPT ![DraftKey(h)] = InFlight(DraftKey(h)) = {}]
    /\ gone' = gone \cup {cache[DraftKey(h)]}
    /\ UNCHANGED <<cache, partial, disk, composed, restarted>>

PopDraft(h) ==
    /\ cache[DraftKey(h)] # None
    /\ Assign({DraftKey(h)}, None)
    /\ gone' = gone \cup {cache[DraftKey(h)]}
    /\ UNCHANGED <<partial, composed>>

SetResubmit(h) ==
    /\ \E r \in Requests : Assign({ResubmitKey(h)}, r)
    /\ UNCHANGED <<partial, composed, gone>>

PopResubmit(h) ==
    /\ cache[ResubmitKey(h)] # None
    /\ Assign({ResubmitKey(h)}, None)
    /\ UNCHANGED <<partial, composed, gone>>

\* Unlike pop_resubmit this deletes the row whether or not there is an entry.
ClearResubmit(h) ==
    /\ Assign({ResubmitKey(h)}, None)
    /\ UNCHANGED <<partial, composed, gone>>

ResetForNewRequest(h) ==
    /\ Assign({ResubmitKey(h)}, None)
    /\ partial' = [partial EXCEPT ![h] = None]
    /\ UNCHANGED <<composed, gone>>

\* The draft's row is deleted only if the draft was still in the cache.
DiscardAll(h) ==
    /\ IF cache[DraftKey(h)] # None
       THEN /\ Assign({DraftKey(h), ResubmitKey(h)}, None)
            /\ gone' = gone \cup {cache[DraftKey(h)]}
       ELSE /\ Assign({ResubmitKey(h)}, None)
            /\ UNCHANGED gone
    /\ partial' = [partial EXCEPT ![h] = None]
    /\ UNCHANGED composed

\* Mutant of SetPartial: the parsed request is stored in place of the text.
SetPartialParsed(h) ==
    /\ \E d \in Drafts : partial' = [partial EXCEPT ![h] = d]
    /\ Untouched /\ UNCHANGED <<composed, gone>>

SetPartial(h) ==
    /\ \E t \in Texts : partial' = [partial EXCEPT ![h] = t]
    /\ Untouched /\ UNCHANGED <<composed, gone>>

\* combine_partial_if_short and clear_partial: the entry is used up either way.
TakePartial(h) ==
    /\ partial[h] # None
    /\ partial' = [partial EXCEPT ![h] = None]
    /\ Untouched /\ UNCHANGED <<composed, gone>>

-----------------------------------------------------------------------------
(* The threads, the passing of time, and the process.                      *)

RunWrite(x) ==
    /\ writes[x] > 0
    /\ disk' = [disk EXCEPT ![x.key] = x.value]
    /\ writes' = [writes EXCEPT ![x] = @ - 1]
    /\ UNCHANGED <<cache, partial, composed, gone, clean, restarted>>

\* The store raises; the helper logs and forgets it.
WriteFails(x) ==
    /\ MayFail
    /\ writes[x] > 0
    /\ writes' = [writes EXCEPT ![x] = @ - 1]
    /\ clean' = [clean EXCEPT ![x.key] = FALSE]
    /\ UNCHANGED <<cache, partial, disk, composed, gone, restarted>>

Expire(k) ==
    /\ MayExpire
    /\ \/ /\ cache[k] # None
          /\ cache' = [cache EXCEPT ![k] = None]
          /\ UNCHANGED disk
       \/ /\ disk[k] # None
          /\ disk' = [disk EXCEPT ![k] = None]
          /\ UNCHANGED cache
    /\ clean' = [clean EXCEPT ![k] = FALSE]
    /\ UNCHANGED <<partial, writes, composed, gone, restarted>>

ExpirePartial(h) ==
    /\ MayExpire
    /\ partial[h] # None
    /\ partial' = [partial EXCEPT ![h] = None]
    /\ Untouched /\ UNCHANGED <<composed, gone>>

\* The process ends and DraftManager.__init__ runs again: each table is loaded,
\* or cannot be read and leaves its cache empty.
Restart ==
    \E loaded \in SUBSET {"draft", "resubmit"} :
        /\ MayFail \/ loaded = {"draft", "resubmit"}
        /\ cache' = [k \in Keys |-> IF k[1] \in loaded THEN disk[k] ELSE None]
        /\ clean' = [k \in Keys |-> k[1] \in loaded]
        /\ partial' = [h \in Handles |-> None]
        /\ writes' = [x \in Write |-> 0]
        /\ restarted' = TRUE
        /\ UNCHANGED <<disk, composed, gone>>

Next ==
    \/ \E h \in Handles :
         \/ SetDraft(h) \/ PopDraft(h) \/ DiscardAll(h)
         \/ SetResubmit(h) \/ PopResubmit(h) \/ ClearResubmit(h)
         \/ ResetForNewRequest(h)
         \/ SetPartial(h) \/ TakePartial(h) \/ ExpirePartial(h)
    \/ \E x \in Write : RunWrite(x) \/ WriteFails(x)
    \/ \E k \in Keys : Expire(k)
    \/ Restart

Spec == Init /\ [][Next]_vars

-----------------------------------------------------------------------------
(* Properties.                                                             *)

\* The tables follow the caches: a row differs from its entry only while a
\* write is in flight, or after writes of it overlapped, one failed, or its
\* time ran out.  Every operation that takes an entry out of a cache must
\* therefore also delete its row (pop_draft, discard_all and the others).
RowsFollow ==
    \A k \in Keys : clean[k] /\ InFlight(k) = {} => disk[k] = cache[k]

\* A draft leaves the cache once: as long as the process lives, no second
\* /confirm, /discard or new message can obtain a draft that was confirmed,
\* discarded or replaced (pop_draft and discard_all pop under the lock).
TakenOnce ==
    ~restarted => \A h \in Handles : cache[DraftKey(h)] \notin gone

\* A draft that was confirmed, discarded or replaced is not in the cache of any user,
\* not to be obtained again, until a restart that overtakes a write of its row, or
\* follows writes that overlapped, failed or whose row expired, brings it back
\* (pop_draft and discard_all pop under the lock; _run_async orders nothing and
\* swallows what fails).
TakenStaysTaken ==
    [][\A h \in Handles :
        LET k == DraftKey(h) IN
        cache'[k] \in gone' =>
            \/ cache[k] \in gone /\ cache'[k] = cache[k]
            \/ Restart /\ (InFlight(k) # {} \/ ~clean[k])]_vars
=============================================================================
