-------------------------- MODULE SharedInstances --------------------------
(***************************************************************************)
(* What the factory of scoped storage instances promises, without its Map  *)
(* of promises and its builds: every label has one instance, which is      *)
(* built for whoever asks for it first, shared by all who ask for it, and  *)
(* closed when the application ends and nobody works with one any more.    *)
(* A user who has gone is promised nothing, but may have asked.            *)
(***************************************************************************)
CONSTANTS Labels, Users

VARIABLES
    instance,   \* the state of each label's instance
    label,      \* the label each user asks for
    user,       \* where each user is
    phase       \* where the application is

vars == <<instance, label, user, phase>>

Init ==
    /\ instance = [l \in Labels |-> "none"]
    /\ label \in [Users -> Labels]
    /\ user = [u \in Users |-> "new"]
    /\ phase = "running"

-----------------------------------------------------------------------------

Moves(u, from, to) ==
    /\ user[u] = from
    /\ user' = [user EXCEPT ![u] = to]

Wanted(l) ==
    instance' = [instance EXCEPT ![l] = IF @ = "none" THEN "pending" ELSE @]

Come(u) ==
    /\ phase = "running"
    /\ Moves(u, "new", "started")
    /\ UNCHANGED <<instance, label, phase>>

Ask(u) ==
    /\ phase = "running"
    /\ Moves(u, "started", "waiting")
    /\ Wanted(label[u])
    /\ UNCHANGED <<label, phase>>

AskGone(u) ==
    /\ phase = "running"
    /\ user[u] = "gone"
    /\ Wanted(label[u])
    /\ UNCHANGED <<label, user, phase>>

Settle(l) ==
    /\ phase # "stopped"
    /\ instance[l] = "pending"
    /\ \E outcome \in {"open", "failed"} :
           instance' = [instance EXCEPT ![l] = outcome]
    /\ UNCHANGED <<label, user, phase>>

Use(u) ==
    /\ instance[label[u]] = "open"
    /\ Moves(u, "waiting", "using")
    /\ UNCHANGED <<instance, label, phase>>

Fail(u) ==
    /\ instance[label[u]] = "failed"
    /\ Moves(u, "waiting", "done")
    /\ UNCHANGED <<instance, label, phase>>

\* To the end of the use the instance has been open.
Finish(u) ==
    /\ instance[label[u]] = "open"
    /\ Moves(u, "using", "done")
    /\ UNCHANGED <<instance, label, phase>>

AtWork == {"started", "waiting", "using"}

Leave(u) ==
    /\ \E s \in AtWork : Moves(u, s, "gone")
    /\ UNCHANGED <<instance, label, phase>>

BeginClosing ==
    /\ phase = "running"
    /\ \A u \in Users : user[u] \notin AtWork
    /\ phase' = "closing"
    /\ UNCHANGED <<instance, label, user>>

Close(l) ==
    /\ phase = "closing"
    /\ instance[l] = "open"
    /\ instance' = [instance EXCEPT ![l] = "closed"]
    /\ UNCHANGED <<label, user, phase>>

\* One that could not be built excuses those that are still to be closed.
Stop ==
    /\ phase = "closing"
    /\ \/ \A l \in Labels : instance[l] \in {"none", "closed"}
       \/ \E l \in Labels : instance[l] = "failed"
    /\ phase' = "stopped"
    /\ UNCHANGED <<instance, label, user>>

Next ==
    \/ \E u \in Users :
        \/ Come(u) \/ Ask(u) \/ AskGone(u)
        \/ Use(u) \/ Fail(u) \/ Finish(u) \/ Leave(u)
    \/ \E l \in Labels : Settle(l) \/ Close(l)
    \/ BeginClosing \/ Stop

Spec == Init /\ [][Next]_vars

=============================================================================
