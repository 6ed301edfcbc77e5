------------------------- MODULE UploadSessionStore -------------------------
(***************************************************************************)
(* The bounded store of upload-progress sessions                           *)
(* (apps/api/src/uploads/upload-session.store.ts).  The store is one       *)
(* JavaScript Map: its insertion order is the recency order, oldest first, *)
(* and every hit deletes and reinserts its entry.  Each method runs to     *)
(* completion on the event loop, so each is one action.                    *)
(***************************************************************************)
EXTENDS Naturals, Sequences, FiniteSets

CONSTANTS
    SessionIds,     \* the identifiers randomUUID() may hand out
    Snapshots,      \* progress snapshots, opaque to the store
    MaxSessions,    \* MAX_SESSIONS
    MaxRecorded     \* bound of the model: append() calls per session

ASSUME MaxSessionsAssumption == MaxSessions \in Nat \ {0}
ASSUME MaxRecordedAssumption == MaxRecorded \in Nat

VARIABLES
    order,          \* keys of the Map, in insertion order
    snapshots,      \* the value of each key; <<>> for an absent one
    \* History: nothing in the code reads these three.
    created,        \* the identifiers given to create() so far
    recorded,       \* what append() was asked to record, per session
    newer           \* sessions created or touched since this one last was

storeVars == <<order, snapshots>>
historyVars == <<created, recorded, newer>>
vars == <<order, snapshots, created, recorded, newer>>

Live == {order[i] : i \in DOMAIN order}

TypeOK ==
    /\ order \in Seq(SessionIds)
    /\ snapshots \in [SessionIds -> Seq(Snapshots)]
    /\ created \subseteq SessionIds
    /\ recorded \in [SessionIds -> Seq(Snapshots)]
    /\ newer \in [SessionIds -> SUBSET created]

Init ==
    /\ order = <<>>
    /\ snapshots = [id \in SessionIds |-> <<>>]
    /\ created = {}
    /\ recorded = [id \in SessionIds |-> <<>>]
    /\ newer = [id \in SessionIds |-> {}]

-----------------------------------------------------------------------------
(* The Map's operations.                                                   *)

\* Map.delete on the i-th key.
DeleteAt(s, i) ==
    [j \in 1..(Len(s) - 1) |-> IF j < i THEN s[j] ELSE s[j + 1]]

\* Mutants: one session too many is let in; the newest goes, not the oldest.
EvictLate(s) ==
    IF Len(s) > MaxSessions + 1
    THEN SubSeq(s, Len(s) - MaxSessions, Len(s))
    ELSE s

EvictNewest(s) ==
    IF Len(s) > MaxSessions
    THEN Append(SubSeq(s, 1, MaxSessions - 1), s[Len(s)])
    ELSE s

\* evictIfNeeded(): delete first keys until at most MaxSessions are left.
EvictIfNeeded(s) ==
    IF Len(s) > MaxSessions
    THEN SubSeq(s, Len(s) - MaxSessions + 1, Len(s))
    ELSE s

Keys(s) == {s[i] : i \in DOMAIN s}

\* id was used: every other session created so far now has a newer one.
Used(id, known) ==
    [other \in SessionIds |->
        IF other = id THEN {}
        ELSE IF other \in known THEN newer[other] \cup {id}
        ELSE newer[other]]

-----------------------------------------------------------------------------
(* The methods.                                                            *)

\* create(id): randomUUID() never repeats, so the key is new to the Map.
Create(id) ==
    /\ id \notin created
    /\ LET kept == EvictIfNeeded(Append(order, id)) IN
       /\ order' = kept
       /\ snapshots' = [k \in SessionIds |->
                          IF k \in Keys(kept) /\ k # id
                          THEN snapshots[k] ELSE <<>>]
    /\ created' = created \cup {id}
    /\ recorded' = recorded
    /\ newer' = Used(id, created)

\* Mutant: set without delete keeps the key where it was.
TouchInPlace(id) == id \in Live /\ UNCHANGED order

\* delete + set of a key that is present: it becomes the newest.
Touch(id) ==
    \E i \in DOMAIN order :
        /\ order[i] = id
        /\ order' = Append(DeleteAt(order, i), id)

\* Mutants: the id goes into the list; an evicted session comes back.
AppendId(id, snapshot) ==
    /\ id \in Live
    /\ Touch(id)
    /\ snapshots' = [snapshots EXCEPT ![id] = Append(@, id)]
    /\ newer' = Used(id, created)
    /\ UNCHANGED <<created, recorded>>

AppendRevives(id, snapshot) ==
    /\ id \in created
    /\ Len(recorded[id]) < MaxRecorded
    /\ snapshots' = [snapshots EXCEPT ![id] = Append(@, snapshot)]
    /\ IF id \in Live THEN Touch(id)
       ELSE order' = EvictIfNeeded(Append(order, id))
    /\ recorded' = [recorded EXCEPT ![id] = Append(@, snapshot)]
    /\ newer' = Used(id, created)
    /\ created' = created

\* append(id, snapshot): a no-op once the session is gone.
AppendSnapshot(id, snapshot) ==
    /\ id \in created
    /\ Len(recorded[id]) < MaxRecorded
    /\ IF id \in Live
       THEN /\ snapshots' = [snapshots EXCEPT ![id] = Append(@, snapshot)]
            /\ Touch(id)
            /\ newer' = Used(id, created)
       ELSE UNCHANGED <<order, snapshots, newer>>
    /\ recorded' = [recorded EXCEPT ![id] = Append(@, snapshot)]
    /\ created' = created

\* get(id): a hit answers a copy of the list and refreshes the entry.
GetHit(id) ==
    /\ id \in Live
    /\ Touch(id)
    /\ newer' = Used(id, created)
    /\ UNCHANGED <<snapshots, created, recorded>>

\* get(id) of an unknown or evicted session: answers null.
GetMiss(id) ==
    /\ id \notin Live
    /\ UNCHANGED vars

Next ==
    \E id \in SessionIds :
        \/ Create(id)
        \/ \E s \in Snapshots : AppendSnapshot(id, s)
        \/ GetHit(id)
        \/ GetMiss(id)

Spec == Init /\ [][Next]_vars

-----------------------------------------------------------------------------
(* Safety.                                                                 *)

\* The Map never holds more than MaxSessions sessions once a method has
\* returned (evictIfNeeded), and no session twice (delete before reinsert).
Bounded ==
    /\ Len(order) <= MaxSessions
    /\ \A i, j \in DOMAIN order : order[i] = order[j] => i = j

\* A session disappears only because it was the least recently used: by then
\* at least MaxSessions other sessions have been created, appended to or
\* polled since its own last use.  (A poll or a progress event that failed to
\* refresh the entry would lose an upload that is still being watched.)
EvictedOnlyWhenStale ==
    \A id \in created \ Live : Cardinality(newer[id]) >= MaxSessions

\* What a poll can read is complete: a session that is present holds every
\* snapshot ever recorded for it, in order.  An append after an eviction must
\* not bring the session back with a list that misses its beginning.
LiveSessionIsComplete ==
    \A id \in Live : snapshots[id] = recorded[id]

OlderThan == {p \in Live \X Live :
    \E i, j \in DOMAIN order : i < j /\ p = <<order[i], order[j]>>}

Promise == INSTANCE RecencyCache WITH
    Ids <- SessionIds, Entries <- Snapshots, Capacity <- MaxSessions,
    cached <- Live, log <- snapshots, older <- OlderThan

\* The store implements the cache it promises to be.  The Map's insertion
\* order is the order of last use, which is what the deletes and reinserts of
\* append() and get() are for.
ImplementsRecencyCache == Promise!Spec

=============================================================================
