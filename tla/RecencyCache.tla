---------------------------- MODULE RecencyCache ----------------------------
(***************************************************************************)
(* What the progress-session store promises, without its Map: a cache of   *)
(* logs with room for Capacity of them.  A log is admitted empty, grows    *)
(* while it is cached, and leaves only when another one is admitted to a   *)
(* full cache and it is the one unused for longest.                        *)
(***************************************************************************)
EXTENDS Naturals, Sequences, FiniteSets

CONSTANTS Ids, Entries, Capacity

VARIABLES
    cached,     \* the ids in the cache
    log,        \* the log of each id; <<>> outside the cache
    older       \* <<x, y>>: x was last used before y; both cached

vars == <<cached, log, older>>

\* y is now the most recently used of the ids in S.
UsedLast(S, y) ==
    {p \in older : p[1] \in S /\ p[2] \in S /\ p[1] # y /\ p[2] # y}
        \cup {<<x, y>> : x \in S \ {y}}

Init ==
    /\ cached = {}
    /\ log = [x \in Ids |-> <<>>]
    /\ older = {}

AdmitWithRoom(x) ==
    /\ x \notin cached
    /\ Cardinality(cached) < Capacity
    /\ cached' = cached \cup {x}
    /\ log' = log
    /\ older' = UsedLast(cached', x)

AdmitByEvicting(x, victim) ==
    /\ x \notin cached
    /\ Cardinality(cached) = Capacity
    /\ victim \in cached
    /\ \A y \in cached \ {victim} : <<victim, y>> \in older
    /\ cached' = (cached \ {victim}) \cup {x}
    /\ log' = [log EXCEPT ![victim] = <<>>]
    /\ older' = UsedLast(cached', x)

Extend(x, e) ==
    /\ x \in cached
    /\ log' = [log EXCEPT ![x] = Append(@, e)]
    /\ older' = UsedLast(cached, x)
    /\ UNCHANGED cached

Read(x) ==
    /\ x \in cached
    /\ older' = UsedLast(cached, x)
    /\ UNCHANGED <<cached, log>>

Next ==
    \E x \in Ids :
        \/ AdmitWithRoom(x)
        \/ \E victim \in Ids : AdmitByEvicting(x, victim)
        \/ \E e \in Entries : Extend(x, e)
        \/ Read(x)

Spec == Init /\ [][Next]_vars

=============================================================================
