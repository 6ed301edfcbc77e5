---------------------------- MODULE SystemViews ----------------------------
(***************************************************************************)
(* The cards of the dashboard that tell how the API is set up: on the      *)
(* overview, the system page (apps/web/app/system/page.tsx,                *)
(* hooks/use-system.ts), the scanner and the validation lab, and the       *)
(* catalogue of the error explorer.  Each is a query of the cache; two     *)
(* pages share the configuration's.  The dashboard stays open while the    *)
(* API is stopped and started with another environment, or does not start, *)
(* and while an administrator changes the versioning of a bucket.  A call  *)
(* that is tried again is modelled from its last attempt.                  *)
(***************************************************************************)
EXTENDS Naturals, FiniteSets, QueryCache, Environment

CONSTANTS
    Environments,   \* environments somebody starts the API with
    Buckets,        \* the buckets of the application
    MaxChanges      \* bound of the model: restarts and versioning changes

VARIABLES
    followed,   \* bound of the model: the queries looked at
    changes,    \* number of restarts and versioning changes
    running,    \* the API is up
    environment,    \* what it was last started with successfully
    status,     \* what the provider says of each bucket's versioning
    reading,    \* what GET /system/versioning under way has read
    views,      \* the queries
    \* History: nothing in the code reads these two.
    ranWith,    \* environments the API had since the query was asked last
    hadStatus   \* statuses a bucket had since the versioning was asked last

vars == <<changes, running, environment, status, reading, views, ranWith,
          hadStatus>>

Queries == {"config", "recipes", "versioning", "rules", "scanner", "catalogue"}

\* Those of each page.
QueriesOf(page) ==
    CASE page = "overview" -> {"config"}
      [] page = "system" -> {"config", "recipes", "versioning"}
      [] page = "validation" -> {"rules"}
      [] page = "scanner" -> {"scanner"}
      [] page = "errors" -> {"catalogue"}
      [] OTHER -> {}

\* staleTime: Infinity.
NeverOld == {"recipes", "catalogue"}

Unread == "unread"
Statuses == {"Enabled", "Suspended", "Unversioned"}

\* What the API answers if it runs with e.
View(q, e) ==
    CASE q = "config" -> ConfigView(e)
      [] q = "recipes" -> RecipesView
      [] q = "rules" -> RulesView(e)
      [] q = "scanner" -> ScannerView(e)
      [] q = "catalogue" -> "catalogue"

\* What a query may hold: data is a set that is empty where there is none.
Holdings ==
    [q \in Queries |->
        Query({{}} \cup IF q = "versioning"
                        THEN {{s} : s \in [Buckets -> Statuses]}
                        ELSE {{View(q, e)} : e \in Environments})]

TypeOK ==
    /\ changes \in 0..MaxChanges
    /\ running \in BOOLEAN
    /\ environment \in Environments
    /\ status \in [Buckets -> Statuses]
    /\ reading \in [Buckets -> Statuses \cup {Unread}]
    /\ \A q \in Queries : views[q] \in Holdings[q]
    /\ ranWith \in [Queries -> SUBSET Environments]
    /\ hadStatus \in [Buckets -> SUBSET Statuses]

NothingRead == [b \in Buckets |-> Unread]

Init ==
    /\ changes = 0
    /\ environment \in {e \in Environments : Boots(e)}
    /\ running = TRUE
    /\ status = [b \in Buckets |-> "Unversioned"]
    /\ reading = NothingRead
    /\ views = [q \in Queries |-> NoQuery({})]
    /\ ranWith = [q \in Queries |-> {}]
    /\ hadStatus = [b \in Buckets |-> {}]

-----------------------------------------------------------------------------
(* The pages.                                                              *)

\* A page mounts its queries; old are those past their staleTime.
Enter(page, old) ==
    LET mounted == QueriesOf(page) \cap followed
        isAsked(q) == views[q].fetch = "idle" /\ views'[q].fetch = "asked" IN
    /\ views' = [q \in Queries |->
                   IF q \in mounted
                   THEN Mounting(views[q], q \in old \ NeverOld) ELSE views[q]]
    /\ ranWith' = [q \in Queries |->
                     IF isAsked(q) THEN {environment} ELSE ranWith[q]]
    /\ hadStatus' = IF isAsked("versioning")
                    THEN [b \in Buckets |-> {status[b]}] ELSE hadStatus
    /\ UNCHANGED <<changes, running, environment, status, reading>>

\* A page leaves: what it asked for comes all the same.
Leave == UNCHANGED vars

Answer(q) ==
    /\ views[q].fetch = "served"
    /\ views' = [views EXCEPT ![q] = Answered(@)]
    /\ UNCHANGED <<changes, running, environment, status, reading, ranWith,
                   hadStatus>>

\* After the retries.
Fail(q) ==
    /\ views[q].fetch # "idle"
    /\ views' = [views EXCEPT ![q] = Failed(@)]
    /\ reading' = IF q = "versioning" THEN NothingRead ELSE reading
    /\ UNCHANGED <<changes, running, environment, status, ranWith, hadStatus>>

-----------------------------------------------------------------------------
(* The API.                                                                *)

Serve(q) ==
    /\ running
    /\ q # "versioning"
    /\ views[q].fetch = "asked"
    /\ views' = [views EXCEPT ![q] = Served(@, {View(q, environment)})]
    /\ UNCHANGED <<changes, running, environment, status, reading, ranWith,
                   hadStatus>>

\* Mutant: what one read gives is taken for all buckets.
ReadBucketForAll(b) ==
    /\ running
    /\ views["versioning"].fetch = "asked"
    /\ reading' = [c \in Buckets |-> status[b]]
    /\ views' = [views EXCEPT !["versioning"] = Served(@, {reading'})]
    /\ UNCHANGED <<changes, running, environment, status, ranWith, hadStatus>>

\* versioningStatus() reads the buckets at once: their answers come in any
\* order, and the last one completes the Promise.all.
ReadBucket(b) ==
    /\ running
    /\ views["versioning"].fetch = "asked"
    /\ reading[b] = Unread
    /\ LET read == [reading EXCEPT ![b] = status[b]] IN
       IF \E c \in Buckets : read[c] = Unread
       THEN reading' = read /\ UNCHANGED views
       ELSE /\ reading' = NothingRead
            /\ views' = [views EXCEPT !["versioning"] = Served(@, {read})]
    /\ UNCHANGED <<changes, running, environment, status, ranWith, hadStatus>>

Change ==
    /\ changes < MaxChanges
    /\ changes' = changes + 1

\* The API is started anew.  It keeps no state; it does not come up if its
\* environment is wrong.
Restart(e) ==
    /\ Change
    /\ running' = Boots(e)
    /\ environment' = IF Boots(e) THEN e ELSE environment
    /\ reading' = NothingRead
    /\ ranWith' = [q \in Queries |-> ranWith[q] \cup {environment'}]
    /\ UNCHANGED <<status, views, hadStatus>>

SetVersioning(b, s) ==
    /\ Change
    /\ s \in {"Enabled", "Suspended"} \ {status[b]}
    /\ status' = [status EXCEPT ![b] = s]
    /\ hadStatus' = [hadStatus EXCEPT ![b] = @ \cup {s}]
    /\ UNCHANGED <<running, environment, reading, views, ranWith>>

Next ==
    \/ \E q \in Queries \cap followed : Answer(q) \/ Fail(q) \/ Serve(q)
    \/ /\ "versioning" \in followed
       /\ \E b \in Buckets :
            ReadBucket(b) \/ \E s \in Statuses : SetVersioning(b, s)
    \/ /\ {"config", "rules", "scanner"} \cap followed # {}
       /\ \E e \in Environments : Restart(e)

-----------------------------------------------------------------------------
(* Properties.                                                             *)

AtRest(q) == views[q].loaded /\ ~views[q].failed /\ views[q].fetch = "idle"

\* What a card says, once its query is at rest, was so at a moment since the
\* query was asked last: the options are those the API ran with, and each bucket
\* of the versioning tab had the status in its row, though the rows are read one
\* by one and a restart may come between.
CardsWereTrue ==
    /\ \A q \in Queries \ {"versioning"} : AtRest(q) =>
           views[q].data \in {{View(q, e)} : e \in ranWith[q]}
    /\ AtRest("versioning") =>
           \A s \in views["versioning"].data, b \in Buckets :
               s[b] \in hadStatus[b]

\* No answer on its way to the dashboard, and nothing in its cache, has a secret
\* key in it or more of a key id than its beginning.
NothingSecretLeaves ==
    \A q \in {"config", "recipes"} :
        \A v \in views[q].data \cup views[q].answer :
            /\ v.secretAccessKey = Redacted
            /\ v.accessKeyId.visible <= VisibleKeyChars

=============================================================================
