----------------------------- MODULE KeyDrawer -----------------------------
(***************************************************************************)
(* The queries of the drawer that the vault page opens for an object       *)
(* (apps/web/components/vault/KeyDetailDrawer.tsx): its metadata, a        *)
(* preview that is asked for only if the metadata say it is an image, its  *)
(* first KiB and its public URL.  The API (apps/api/src/vault) asks the    *)
(* provider once or twice for each; others write and delete meanwhile.  A  *)
(* call that is tried again is modelled from its last attempt.             *)
(***************************************************************************)
EXTENDS Integers, FiniteSets, QueryCache

CONSTANTS
    Keys,       \* object keys
    Blank,      \* no key
    MaxClicks   \* bound of the model: what the user and the others do

VARIABLES
    mounted,    \* the vault page is the one on screen
    clicks,     \* number of things the user and the others have done
    followed,   \* bound of the model: the queries looked at
    content,    \* the object of each key
    opened,     \* the key of the drawer; Blank when it is closed
    parts,      \* the queries of each key
    checkedSize,    \* keys whose preview's head() has passed
    \* History: nothing in the code reads these two.
    had,        \* the objects a key had since each of its queries was asked last
    once        \* the objects a key ever had

vars == <<content, opened, parts, checkedSize, had, once>>

\* An object is abstracted to its kind; sizes are in MiB, rounded up.
Object(type, size) == [type |-> type, size |-> size]
Objects == {Object("image/png", 1), Object("image/png", 11),
            Object("text/plain", 1), Object("text/plain", 0)}
NoObject == Object("none", -1)
Contents == Objects \cup {NoObject}

RasterImageTypes == {"image/png"}
MaxPreview == 10

Parts == {"meta", "preview", "range", "public-url"}

\* What the query of a part holds of an object.  The public URL is made of the
\* key alone: existence is unchecked.
Part(part, o) == IF part = "public-url" THEN NoObject ELSE o

Data == {{}} \cup {{o} : o \in Contents}

TypeOK ==
    /\ content \in [Keys -> Contents]
    /\ opened \in Keys \cup {Blank}
    /\ parts \in [Keys -> [Parts -> Query(Data)]]
    /\ checkedSize \subseteq Keys
    /\ had \in [Keys -> [Parts -> SUBSET Contents]]
    /\ once \in [Keys -> SUBSET Contents]

Init ==
    /\ content \in [Keys -> {Object("image/png", 1), Object("text/plain", 0)}]
    /\ opened = Blank
    /\ parts = [k \in Keys |-> [part \in Parts |-> NoQuery({})]]
    /\ checkedSize = {}
    /\ had = [k \in Keys |-> [part \in Parts |-> {}]]
    /\ once = [k \in Keys |-> {content[k]}]

\* The page unmounts; its queries stay in the cache.
Leave ==
    /\ opened' = Blank
    /\ UNCHANGED <<content, parts, checkedSize, had, once>>

Click ==
    /\ clicks < MaxClicks
    /\ clicks' = clicks + 1

-----------------------------------------------------------------------------
(* The queries.                                                            *)

\* isImage, by the metadata last heard.
IsImage(queries) == \E o \in queries.meta.data : o.type \in RasterImageTypes

\* enabled.
IsEnabled(part, queries) == part = "preview" => IsImage(queries)

\* What the new queries of k mean for had: those now asked begin anew.
Asks(k, queries) ==
    /\ parts' = [parts EXCEPT ![k] = queries]
    /\ had' = [had EXCEPT ![k] = [part \in Parts |->
                  IF queries[part].fetch = "asked"
                     /\ queries[part] # parts[k][part]
                  THEN {content[k]} ELSE @[part]]]
    /\ once' = once

\* A preview that becomes enabled is fetched as if it were mounted.
Enabling(k, queries, isOld) ==
    IF opened = k /\ "preview" \in followed
       /\ IsImage(queries) /\ ~IsImage(parts[k])
    THEN [queries EXCEPT !.preview = Mounting(@, isOld)] ELSE queries

\* Mutant: the object's key is left out of the keys of the queries.
OpenSharing(k, isOld) ==
    /\ mounted
    /\ Click
    /\ k # opened
    /\ opened' = k
    /\ LET shared == IF \E l \in Keys : parts[l].meta.loaded
                     THEN parts[CHOOSE l \in Keys : parts[l].meta.loaded]
                     ELSE parts[k] IN
       Asks(k, [part \in Parts |->
            IF part \in followed THEN Mounting(shared[part], isOld)
            ELSE parts[k][part]])
    /\ UNCHANGED <<followed, content, checkedSize>>

\* The drawer opens, or changes its key while it is open.
Open(k, isOld) ==
    /\ mounted
    /\ Click
    /\ k # opened
    /\ opened' = k
    /\ Asks(k, [part \in Parts |->
            IF part \in followed /\ IsEnabled(part, parts[k])
            THEN Mounting(parts[k][part], isOld) ELSE parts[k][part]])
    /\ UNCHANGED <<followed, content, checkedSize>>

Close ==
    /\ Click
    /\ opened # Blank
    /\ Leave
    /\ UNCHANGED followed

\* invalidateQueries(['vault']), by a copy or a delete of the page: the open
\* drawer's enabled queries are fetched anew.
Invalidate ==
    /\ mounted
    /\ Click
    /\ parts' = [k \in Keys |-> [part \in Parts |->
            IF k = opened /\ part \in followed /\ IsEnabled(part, parts[k])
            THEN Fetching(Marked(parts[k][part]), TRUE)
            ELSE Marked(parts[k][part])]]
    /\ had' = [k \in Keys |-> [part \in Parts |->
            IF k = opened /\ parts'[k][part].fetch = "asked"
            THEN {content[k]} ELSE had[k][part]]]
    /\ checkedSize' = {k \in checkedSize : k # opened \/ ~parts[k].preview.loaded}
    /\ UNCHANGED <<followed, content, opened, once>>

Answer(k, part, isOld) ==
    /\ parts[k][part].fetch = "served"
    /\ Asks(k, Enabling(k, [parts[k] EXCEPT ![part] = Answered(@)], isOld))
    /\ UNCHANGED <<clicks, followed, content, opened, checkedSize>>

\* After the retries; a 404 and a 413 are retried like anything else.
Fail(k, part) ==
    /\ parts[k][part].fetch # "idle"
    /\ parts' = [parts EXCEPT ![k][part] = Failed(@)]
    /\ checkedSize' = IF part = "preview" THEN checkedSize \ {k} ELSE checkedSize
    /\ UNCHANGED <<clicks, followed, content, opened, had, once>>

-----------------------------------------------------------------------------
(* The API.                                                                *)

\* Objects whose first KiB the provider gives: an empty one has no byte 0.
HasRange(o) == o # NoObject /\ o.size > 0

\* head(), downloadRange() and getPublicUrls().
Serve(k, part) ==
    /\ part # "preview"
    /\ parts[k][part].fetch = "asked"
    /\ part = "meta" => content[k] # NoObject
    /\ part = "range" => HasRange(content[k])
    /\ parts' = [parts EXCEPT ![k][part] = Served(@, {Part(part, content[k])})]
    /\ UNCHANGED <<clicks, followed, content, opened, checkedSize, had, once>>

\* preview(): head() first, and no download of what is too large.
CheckSize(k) ==
    /\ parts[k].preview.fetch = "asked"
    /\ content[k] # NoObject
    /\ content[k].size <= MaxPreview
    /\ checkedSize' = checkedSize \cup {k}
    /\ UNCHANGED <<clicks, followed, content, opened, parts, had, once>>

Download(k) ==
    /\ parts[k].preview.fetch = "asked"
    /\ k \in checkedSize
    /\ content[k] # NoObject
    /\ parts' = [parts EXCEPT ![k].preview = Served(@, {content[k]})]
    /\ checkedSize' = checkedSize \ {k}
    /\ UNCHANGED <<clicks, followed, content, opened, had, once>>

\* Others write and delete.
Write(k, o) ==
    /\ Click
    /\ o # content[k]
    /\ content' = [content EXCEPT ![k] = o]
    /\ had' = [had EXCEPT ![k] = [part \in Parts |-> @[part] \cup {o}]]
    /\ once' = [once EXCEPT ![k] = @ \cup {o}]
    /\ UNCHANGED <<followed, opened, parts, checkedSize>>

Next ==
    \/ Close \/ Invalidate
    \/ \E k \in Keys :
        \/ \E isOld \in BOOLEAN : Open(k, isOld)
        \/ \E o \in Contents : Write(k, o)
        \/ CheckSize(k) \/ Download(k)
        \/ \E part \in Parts :
            \/ Fail(k, part) \/ Serve(k, part)
            \/ \E isOld \in BOOLEAN : Answer(k, part, isOld)

-----------------------------------------------------------------------------
(* Properties.                                                             *)

AtRest(q) == q.loaded /\ ~q.failed /\ q.fetch = "idle"

\* Every part of the drawer, once its query is at rest, tells of an object that
\* the key in the title had at a moment since that query was asked last: never
\* of the key the drawer was open for before, nor, after a refetch, of what that
\* was to replace, whichever of the four the API answered first.  While it is
\* fetched anew, and when that failed, the drawer goes on drawing what it had:
\* perhaps an object that is no more, but one this key had once.
DrawerTellsItsObject ==
    \A part \in Parts :
        opened # Blank =>
            \A o \in parts[opened][part].data :
                /\ \E p \in once[opened] : o = Part(part, p)
                /\ AtRest(parts[opened][part]) =>
                       \E p \in had[opened][part] : o = Part(part, p)

=============================================================================
