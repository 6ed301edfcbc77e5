---------------------------- MODULE TenantsPage ----------------------------
(***************************************************************************)
(* The tenants page (apps/web/app/tenants/page.tsx, hooks/use-tenants.ts): *)
(* a panel per tenant with a list, an upload and a clear.  The list is a   *)
(* query; upload and clear are mutations whose onSuccess invalidates it,   *)
(* and whose promise settles only when the refetch has.                    *)
(***************************************************************************)
EXTENDS Naturals, FiniteSets, QueryCache

CONSTANTS
    Tenants,    \* the panels on the page
    MaxClicks   \* bound of the model: what the user does

VARIABLES
    mounted,    \* this page is the one on screen
    clicks,     \* number of things the user has done
    objects,    \* the objects of each tenant in the bucket
    lists,      \* the list query of each tenant
    calls,      \* the uploads and clears that have not settled
    \* History: nothing in the code reads this.
    behind      \* tenants whose objects may have changed since the last listing
                \* without the page being told

vars == <<objects, lists, calls, behind>>

\* Objects are numbered by the click that uploaded them; 0 was there before.
Objects == 0..MaxClicks

\* seen: the panel that sent it is still there.
Call == [id : 1..MaxClicks, tenant : Tenants, kind : {"upload", "clear"},
         phase : {"sent", "done", "settling", "settled"}, seen : BOOLEAN]

TypeOK ==
    /\ objects \in [Tenants -> SUBSET Objects]
    /\ lists \in [Tenants -> Query(SUBSET Objects)]
    /\ calls \subseteq Call
    /\ behind \subseteq Tenants

Init ==
    /\ objects \in [Tenants -> {{}, {0}}]
    /\ lists = [t \in Tenants |-> NoQuery({})]
    /\ calls = {}
    /\ behind = {}

Click ==
    /\ mounted
    /\ clicks < MaxClicks
    /\ clicks' = clicks + 1

Moved(c, phase) == (calls \ {c}) \cup {[c EXCEPT !.phase = phase]}

\* isPending of the panel's mutation.
Pending(t, kind) == \E c \in calls : c.seen /\ c.tenant = t /\ c.kind = kind

Send(t, kind) ==
    calls' = calls \cup {[id |-> clicks', tenant |-> t, kind |-> kind,
                         phase |-> "sent", seen |-> TRUE]}

-----------------------------------------------------------------------------
(* The page comes and goes; its calls go on without it.                    *)

Enter(isOld) ==
    /\ lists' = [t \in Tenants |-> Mounting(lists[t], isOld)]
    /\ UNCHANGED <<objects, calls, behind>>

Leave ==
    /\ calls' = {[c EXCEPT !.seen = FALSE] : c \in calls}
    /\ UNCHANGED <<objects, lists, behind>>

-----------------------------------------------------------------------------
(* The list.                                                               *)

\* TenantsService.list.
List(t) ==
    /\ lists[t].fetch = "asked"
    /\ lists' = [lists EXCEPT ![t] = Served(@, objects[t])]
    /\ behind' = behind \ {t}
    /\ UNCHANGED <<clicks, objects, calls>>

\* Calls that waited for the refetch of their invalidation settle.
Released(t) ==
    {IF c.tenant = t /\ c.phase = "settling"
     THEN [c EXCEPT !.phase = "settled"] ELSE c : c \in calls}

ListAnswers(t) ==
    /\ lists[t].fetch = "served"
    /\ lists' = [lists EXCEPT ![t] = Answered(@)]
    /\ calls' = Released(t)
    /\ UNCHANGED <<clicks, objects, behind>>

ListFails(t) ==
    /\ lists[t].fetch # "idle"
    /\ lists' = [lists EXCEPT ![t] = Failed(@)]
    /\ calls' = Released(t)
    /\ UNCHANGED <<clicks, objects, behind>>

Refresh(t) ==
    /\ Click
    /\ lists' = [lists EXCEPT ![t] = Fetching(@, TRUE)]
    /\ UNCHANGED <<objects, calls, behind>>

\* What the panel shows.
Table(t) == IF lists[t].loaded THEN lists[t].data ELSE {}

-----------------------------------------------------------------------------
(* Upload and clear.                                                       *)

\* The button is disabled while the panel's upload is pending.
HandleUpload(t) ==
    /\ Click
    /\ ~Pending(t, "upload")
    /\ Send(t, "upload")
    /\ UNCHANGED <<objects, lists, behind>>

UploadLands(c) ==
    /\ c.kind = "upload"
    /\ c.phase = "sent"
    /\ objects' = [objects EXCEPT ![c.tenant] = @ \cup {c.id}]
    /\ calls' = Moved(c, "done")
    /\ UNCHANGED <<clicks, lists, behind>>

\* The bin is disabled while a clear is pending, and for an empty list.
HandleClear(t) ==
    /\ Click
    /\ ~Pending(t, "clear")
    /\ lists[t].loaded
    /\ lists[t].data # {}
    /\ Send(t, "clear")
    /\ UNCHANGED <<objects, lists, behind>>

\* TenantsService.clear deletes page by page.
ClearDeletes(c, page) ==
    /\ c.kind = "clear"
    /\ c.phase = "sent"
    /\ objects' = [objects EXCEPT ![c.tenant] = @ \ page]
    /\ UNCHANGED <<clicks, lists, calls, behind>>

\* It ends when no page is left; keys the provider refused stay, and only the
\* answer's "failed" tells of them.
ClearEnds(c) ==
    /\ c.kind = "clear"
    /\ c.phase = "sent"
    /\ calls' = Moved(c, "done")
    /\ UNCHANGED <<clicks, objects, lists, behind>>

\* A listing that the API has read, and that no refetch stops, is the older one.
Outrun(t) == IF lists[t].fetch = "served" THEN behind \cup {t} ELSE behind

\* onSuccess: the list is invalidated, and fetched if a panel shows it.  The
\* mutation waits for that fetch.
CallAnswers(c) ==
    /\ c.phase = "done"
    /\ lists' = [lists EXCEPT ![c.tenant] =
                    IF mounted THEN Fetching(Marked(@), TRUE) ELSE Marked(@)]
    /\ calls' = Moved(c, IF mounted THEN "settling" ELSE "settled")
    /\ behind' = IF mounted THEN behind ELSE Outrun(c.tenant)
    /\ UNCHANGED <<clicks, objects>>

\* Mutant: the invalidation is taken to be enough.
SettledToast(c) ==
    /\ c.phase = "settled"
    /\ calls' = calls \ {c}
    /\ UNCHANGED <<clicks, objects, lists, behind>>

\* What follows mutateAsync(): a toast; and after an upload one more refetch,
\* be the panel still there or not.
Settled(c) ==
    /\ c.phase = "settled"
    /\ calls' = calls \ {c}
    /\ lists' = IF c.kind = "upload"
                THEN [lists EXCEPT ![c.tenant] = Fetching(@, TRUE)] ELSE lists
    /\ behind' = IF ~lists[c.tenant].loaded THEN Outrun(c.tenant) ELSE behind
    /\ UNCHANGED <<clicks, objects>>

\* The call fails, perhaps half done, or its answer is lost: the promise rejects,
\* nobody catches it, and nothing is fetched.  What the API still does of it is
\* as if another client did it.
CallFails(c) ==
    /\ c.phase \in {"sent", "done"}
    /\ calls' = calls \ {c}
    /\ behind' = behind \cup {c.tenant}
    /\ UNCHANGED <<clicks, objects, lists>>

\* Another client uploads.
OtherUploads(t) ==
    /\ 0 \notin objects[t]
    /\ objects' = [objects EXCEPT ![t] = @ \cup {0}]
    /\ behind' = behind \cup {t}
    /\ UNCHANGED <<clicks, lists, calls>>

Next ==
    \/ \E t \in Tenants :
        \/ List(t) \/ ListAnswers(t) \/ ListFails(t) \/ Refresh(t)
        \/ HandleUpload(t) \/ HandleClear(t) \/ OtherUploads(t)
    \/ \E c \in calls :
        \/ UploadLands(c) \/ ClearEnds(c) \/ CallAnswers(c) \/ Settled(c)
        \/ CallFails(c)
        \/ \E page \in SUBSET objects[c.tenant] \ {{}} : ClearDeletes(c, page)

-----------------------------------------------------------------------------
(* Properties.                                                             *)

Quiet(t) ==
    /\ lists[t].loaded
    /\ lists[t].fetch = "idle"
    /\ ~lists[t].failed
    /\ ~lists[t].invalidated
    /\ ~\E c \in calls : c.tenant = t

\* Once a panel is quiet its table is what the tenant has, whichever uploads,
\* clears and listings overlapped, also across leaving the page: a listing made
\* before an upload landed never stays.  Until the next listing this is
\* forfeit if the page is not told of a change: a call that failed half-way, another
\* client's write; and if the user is elsewhere when a call ends between the
\* reading of a listing and its answer.
QuietTableIsTrue ==
    \A t \in Tenants : Quiet(t) /\ t \notin behind => Table(t) = objects[t]

=============================================================================
