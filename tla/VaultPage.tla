----------------------------- MODULE VaultPage -----------------------------
(***************************************************************************)
(* The dashboard's vault page (apps/web/app/vault/vault-content.tsx with   *)
(* hooks/use-vault.ts and components/vault): a view of the bucket from the *)
(* query cache, deletes and bulk deletes that invalidate it, and a drawer. *)
(*                                                                         *)
(* Each view is a query of the cache.  The API may make its listing before *)
(* or after a delete it races with.  A mutation's promise settles only     *)
(* when the refetch its onSuccess set off has: so reads                    *)
(* `onSuccess: () => qc.invalidateQueries(...)`.                           *)
(***************************************************************************)
EXTENDS Naturals, FiniteSets, QueryCache

CONSTANTS
    Keys,       \* object keys
    Views,      \* pairs of a prefix and a cursor
    Within,     \* the keys a view may list; pages shift, so views may overlap
    FirstView,  \* the view the page opens with
    None,       \* null
    Deletes,    \* names for the deletes of one key, of which a key may have many
    Bulk,       \* names the bulk delete
    MaxClicks   \* bound of the model: what the user does

ASSUME WithinAssumption == Within \in [Views -> SUBSET Keys]
ASSUME FirstViewAssumption == FirstView \in Views
ASSUME NamesAssumption == None \notin Keys /\ Bulk \notin Deletes
ASSUME MaxClicksAssumption == MaxClicks \in Nat

VARIABLES
    stored,     \* the keys in the bucket
    view,       \* prefix and cursor of the address bar
    cache,      \* the list query of each view
    checked,    \* keys ticked for a bulk delete
    mutations,  \* the deletes under way
    copying,    \* keys whose copy to the archive is under way
    selected,   \* the key of the drawer; None when it is closed
    signing,    \* the key the drawer has asked a signed URL for
    signedUrl,  \* the key of the signed URL the drawer holds
    clicks,     \* number of things the user has done
    \* History: nothing in the code reads these two.
    stayed,     \* deletes clicked with the table on screen, since when the user
                \* has stayed on the view and nobody has brought a key back
    switched    \* the drawer went from one key to another without closing

pageVars == <<view, checked>>
drawerVars == <<selected, signing, signedUrl, switched>>
vars == <<stored, pageVars, cache, mutations, copying, drawerVars, clicks,
          stayed>>

Mutations == Deletes \cup {Bulk}
Mutation == [phase : {"none", "sent", "done", "settling", "settled"},
             keys : SUBSET Keys, on : Views]
MaybeKey == Keys \cup {None}

TypeOK ==
    /\ stored \subseteq Keys
    /\ view \in Views
    /\ cache \in [Views -> Query(SUBSET Keys)]
    /\ checked \subseteq Keys
    /\ mutations \in [Mutations -> Mutation]
    /\ copying \subseteq Keys
    /\ {selected, signing, signedUrl} \subseteq MaybeKey
    /\ clicks \in 0..MaxClicks
    /\ stayed \subseteq Mutations
    /\ switched \in BOOLEAN

NoMutation == [phase |-> "none", keys |-> {}, on |-> FirstView]

Init ==
    /\ stored \in SUBSET Keys
    /\ view = FirstView
    /\ cache = [v \in Views |->
                  IF v = FirstView THEN Mounting(NoQuery({}), FALSE)
                  ELSE NoQuery({})]
    /\ checked = {}
    /\ mutations = [o \in Mutations |-> NoMutation]
    /\ copying = {}
    /\ selected = None
    /\ signing = None
    /\ signedUrl = None
    /\ clicks = 0
    /\ stayed = {}
    /\ switched = FALSE

Click ==
    /\ clicks < MaxClicks
    /\ clicks' = clicks + 1

-----------------------------------------------------------------------------
(* The query cache.                                                        *)

\* Mutant: the refetch joins one that is under way.
InvalidatedJoining ==
    [v \in Views |->
        IF v = view THEN Fetching(Marked(cache[v]), FALSE) ELSE Marked(cache[v])]

\* invalidateQueries(['vault']): every view is stale, the shown one is fetched.
Invalidated ==
    [v \in Views |->
        IF v = view THEN Fetching(Marked(cache[v]), TRUE) ELSE Marked(cache[v])]

\* The table: hidden while the first load runs, and by an error.
Shown ==
    IF cache[view].loaded /\ ~cache[view].failed THEN cache[view].data ELSE {}

\* The API lists the view.
List(v) ==
    /\ cache[v].fetch = "asked"
    /\ cache' = [cache EXCEPT ![v] = Served(@, stored \cap Within[v])]
    /\ UNCHANGED <<clicks, stored, pageVars, mutations, copying, drawerVars,
                   stayed>>

\* The fetch of v is over, and so is the wait of the mutations that set it off.
Released(v) ==
    [o \in Mutations |->
        IF mutations[o].phase = "settling" /\ mutations[o].on = v
        THEN [mutations[o] EXCEPT !.phase = "settled"] ELSE mutations[o]]

ListAnswers(v) ==
    /\ cache[v].fetch = "served"
    /\ cache' = [cache EXCEPT ![v] = Answered(@)]
    /\ mutations' = Released(v)
    /\ UNCHANGED <<clicks, stored, pageVars, copying, drawerVars, stayed>>

\* After the retries, at any point of the way.
ListFails(v) ==
    /\ cache[v].fetch # "idle"
    /\ cache' = [cache EXCEPT ![v] = Failed(@)]
    /\ mutations' = Released(v)
    /\ UNCHANGED <<clicks, stored, pageVars, copying, drawerVars, stayed>>

-----------------------------------------------------------------------------
(* Browsing.                                                               *)

\* The page turns to v: its query is fetched if it has nothing to show, was
\* invalidated, or is older than the five seconds of staleTime.
TurnTo(v, isOld) ==
    /\ Click
    /\ v # view
    /\ view' = v
    /\ cache' = [cache EXCEPT ![v] = Mounting(@, isOld)]
    /\ stayed' = {}
    /\ UNCHANGED <<stored, mutations, copying, drawerVars>>

\* A folder row, "Next" or "First page": what was ticked stays ticked.
Open(v, isOld) ==
    /\ TurnTo(v, isOld)
    /\ UNCHANGED checked

\* A breadcrumb unticks it.
OpenByBreadcrumb(v, isOld) ==
    /\ TurnTo(v, isOld)
    /\ checked' = {}

\* list.refetch() cancels a refetch that is under way.
Refresh ==
    /\ Click
    /\ cache' = [cache EXCEPT ![view] = Fetching(@, TRUE)]
    /\ UNCHANGED <<stored, pageVars, mutations, copying, drawerVars, stayed>>

ToggleCheck(k) ==
    /\ Click
    /\ k \in Shown
    /\ checked' = (checked \cup {k}) \ (checked \cap {k})
    /\ UNCHANGED <<stored, view, cache, mutations, copying, drawerVars, stayed>>

Clear ==
    /\ Click
    /\ checked # {}
    /\ checked' = {}
    /\ UNCHANGED <<stored, view, cache, mutations, copying, drawerVars, stayed>>

-----------------------------------------------------------------------------
(* Deletes.                                                                *)

Send(o, keys) ==
    /\ Click
    /\ mutations[o].phase = "none"
    /\ mutations' = [mutations EXCEPT ![o] =
                       [NoMutation EXCEPT !.phase = "sent", !.keys = keys]]
    /\ stayed' = IF cache[view].loaded THEN stayed \cup {o} ELSE stayed
    /\ UNCHANGED <<stored, pageVars, cache, copying, drawerVars>>

\* The bin of a row, which nothing disables while the row's delete is pending.
ClickDelete(k) ==
    /\ k \in Shown
    /\ \E o \in Deletes : Send(o, {k})

\* The bar's button: disabled while a bulk delete is pending.
ClickBulkDelete ==
    /\ checked # {}
    /\ Send(Bulk, checked)

\* The API deletes all of the keys but those the provider refuses, which a bulk
\* delete names in its answer; a single delete fails instead.
Delete(o, refused) ==
    /\ mutations[o].phase = "sent"
    /\ refused \subseteq mutations[o].keys
    /\ o # Bulk => refused = {}
    /\ stored' = stored \ (mutations[o].keys \ refused)
    /\ mutations' = [mutations EXCEPT ![o].phase = "done",
                                      ![o].keys = @ \ refused]
    /\ UNCHANGED <<clicks, pageVars, cache, copying, drawerVars, stayed>>

\* onSuccess.
DeleteAnswers(o) ==
    /\ mutations[o].phase = "done"
    /\ cache' = Invalidated
    /\ mutations' = [mutations EXCEPT ![o].phase = "settling", ![o].on = view]
    /\ UNCHANGED <<clicks, stored, pageVars, copying, drawerVars, stayed>>

\* Mutant: a failure is remembered, in a phase the page does not know.
DeleteFailsOpen(o) ==
    /\ mutations[o].phase \in {"sent", "done"}
    /\ mutations' = [mutations EXCEPT ![o].phase = "failed"]
    /\ stayed' = stayed \ {o}
    /\ UNCHANGED <<clicks, stored, pageVars, cache, copying, drawerVars>>

\* The call fails or its answer is lost: a toast, and nothing is fetched.
DeleteFails(o) ==
    /\ mutations[o].phase \in {"sent", "done"}
    /\ mutations' = [mutations EXCEPT ![o] = NoMutation]
    /\ stayed' = stayed \ {o}
    /\ UNCHANGED <<clicks, stored, pageVars, cache, copying, drawerVars>>

\* Mutant: the drawer stays mounted, and keeps its state.
DrawerHidden ==
    /\ selected' = None
    /\ switched' = FALSE
    /\ UNCHANGED <<signing, signedUrl>>

\* The drawer is unmounted, and its state with it; a late answer is dropped.
DrawerCloses ==
    /\ selected' = None
    /\ signing' = None
    /\ signedUrl' = None
    /\ switched' = FALSE

\* What follows mutateAsync(): the toast, and handleDelete closes the drawer
\* whatever it shows by now, handleBulkDelete unticks whatever is ticked.
Report(o) ==
    /\ mutations[o].phase = "settled"
    /\ mutations' = [mutations EXCEPT ![o] = NoMutation]
    /\ stayed' = stayed \ {o}
    /\ IF o = Bulk THEN checked' = {} /\ UNCHANGED drawerVars
       ELSE DrawerCloses /\ UNCHANGED checked
    /\ UNCHANGED <<clicks, stored, view, cache, copying>>

\* Somebody uploads, also a key that was deleted.
Upload(k) ==
    /\ stored' = stored \cup {k}
    /\ stayed' = {o \in stayed : k \notin mutations[o].keys}
    /\ UNCHANGED <<clicks, pageVars, cache, mutations, copying, drawerVars>>

-----------------------------------------------------------------------------
(* Copies to the archive, which no view shows, but which invalidate.       *)

ClickCopy(k) ==
    /\ Click
    /\ k \in Shown
    /\ copying' = copying \cup {k}
    /\ UNCHANGED <<stored, pageVars, cache, mutations, drawerVars, stayed>>

CopyAnswers(k) ==
    /\ k \in copying
    /\ copying' = copying \ {k}
    /\ cache' = Invalidated
    /\ UNCHANGED <<clicks, stored, pageVars, mutations, drawerVars, stayed>>

CopyFails(k) ==
    /\ k \in copying
    /\ copying' = copying \ {k}
    /\ UNCHANGED <<clicks, stored, pageVars, cache, mutations, drawerVars,
                   stayed>>

-----------------------------------------------------------------------------
(* The drawer.                                                             *)

\* The name of a row.  Behind an open drawer it is out of the pointer's reach,
\* but not of the keyboard's: the drawer then changes its key and nothing else.
Select(k) ==
    /\ Click
    /\ k \in Shown
    /\ selected' = k
    /\ switched' = (selected \notin {None, k} \/ switched)
    /\ UNCHANGED <<stored, pageVars, cache, mutations, copying, signing,
                   signedUrl, stayed>>

CloseDrawer ==
    /\ Click
    /\ selected # None
    /\ DrawerCloses
    /\ UNCHANGED <<stored, pageVars, cache, mutations, copying, stayed>>

\* The button is there until there is a URL, and disabled while one is issued.
IssueSignedUrl ==
    /\ Click
    /\ selected # None
    /\ signing = None
    /\ signedUrl = None
    /\ signing' = selected
    /\ UNCHANGED <<stored, pageVars, cache, mutations, copying, selected,
                   signedUrl, switched, stayed>>

SignedUrlAnswers ==
    /\ signing # None
    /\ signedUrl' = signing
    /\ signing' = None
    /\ UNCHANGED <<clicks, stored, pageVars, cache, mutations, copying,
                   selected, switched, stayed>>

SignedUrlFails ==
    /\ signing # None
    /\ signing' = None
    /\ UNCHANGED <<clicks, stored, pageVars, cache, mutations, copying,
                   selected, signedUrl, switched, stayed>>

-----------------------------------------------------------------------------

Browse ==
    \/ \E v \in Views, isOld \in BOOLEAN :
            Open(v, isOld) \/ OpenByBreadcrumb(v, isOld)
    \/ \E v \in Views : List(v) \/ ListAnswers(v) \/ ListFails(v)
    \/ Refresh
    \/ \E k \in Keys : ToggleCheck(k)
    \/ Clear

Change ==
    \/ \E k \in Keys :
        ClickDelete(k) \/ Upload(k)
            \/ ClickCopy(k) \/ CopyAnswers(k) \/ CopyFails(k)
    \/ ClickBulkDelete
    \/ \E o \in Mutations :
        \/ \E refused \in SUBSET mutations[o].keys : Delete(o, refused)
        \/ DeleteAnswers(o) \/ DeleteFails(o) \/ Report(o)

Drawer ==
    \/ \E k \in Keys : Select(k)
    \/ CloseDrawer \/ IssueSignedUrl \/ SignedUrlAnswers \/ SignedUrlFails

Next == Browse \/ Change \/ Drawer

Spec == Init /\ [][Next]_vars

-----------------------------------------------------------------------------
(* Properties.                                                             *)

\* When the page says that something is deleted, its table no longer has it:
\* the toast waits for the refetch, and the refetch began after the delete even
\* if another one was under way.  Turning to another view while the delete runs
\* forfeits this: a fetch of the old view answers late and counts as fresh.  So
\* does a bulk delete of keys ticked elsewhere while the view is first loaded:
\* the refetch joins that load.
ReportedIsUnlisted ==
    \A o \in stayed :
        mutations[o].phase = "settled" => mutations[o].keys \cap Shown = {}

\* The signed URL in the drawer is of the object in its title, whatever URL
\* was still being issued when an earlier drawer was closed, by the user or by
\* a delete.  Changing the key of an open drawer forfeits this.
DrawerShowsItsUrl ==
    signedUrl # None /\ ~switched => signedUrl = selected

=============================================================================
