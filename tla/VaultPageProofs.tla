-------------------------- MODULE VaultPageProofs --------------------------
(***************************************************************************)
(* Proofs about the vault page, for any keys, views and number of clicks.  *)
(***************************************************************************)
EXTENDS VaultPage, TLAPS

USE DEF Mutations, MaybeKey, Mutation

\* What is known of a delete whose user has stayed on its view.
StayedOf(o) ==
    o \in stayed =>
        /\ mutations[o].phase # "none"
        /\ cache[view].loaded
        /\ mutations[o].phase \in {"done", "settling", "settled"} =>
               mutations[o].keys \cap stored = {}
        /\ mutations[o].phase = "settling" =>
               mutations[o].on = view /\ cache[view].fetch # "idle"
        /\ (/\ mutations[o].phase \in {"settling", "settled"}
            /\ cache[view].fetch = "served") =>
               cache[view].answer \cap mutations[o].keys = {}
        /\ mutations[o].phase = "settled" =>
               cache[view].failed \/ cache[view].data \cap mutations[o].keys = {}

DrawerInv ==
    /\ selected = None => signing = None /\ signedUrl = None
    /\ ~switched => signing \in {None, selected} /\ signedUrl \in {None, selected}

PInv ==
    /\ TypeOK
    /\ \A o \in Mutations : StayedOf(o)
    /\ DrawerInv

-----------------------------------------------------------------------------
(* Queries.                                                                *)

LEMMA FetchingFacts ==
    ASSUME NEW Data, NEW q \in Query(Data), NEW cancel \in BOOLEAN
    PROVE  /\ Fetching(q, cancel) \in Query(Data)
           /\ Fetching(q, cancel).loaded = q.loaded
           /\ Fetching(q, cancel).data = q.data
           /\ q.loaded => Fetching(q, cancel).failed = q.failed
           /\ Fetching(q, cancel).fetch # "idle"
           /\ q.loaded /\ cancel => Fetching(q, cancel).fetch = "asked"
           /\ Fetching(q, cancel).fetch = "served" =>
                  q.fetch = "served" /\ Fetching(q, cancel).answer = q.answer
  BY DEF Fetching, Query

LEMMA MarkedFacts ==
    ASSUME NEW Data, NEW q \in Query(Data)
    PROVE  /\ Marked(q) \in Query(Data)
           /\ Marked(q).loaded = q.loaded
           /\ Marked(q).data = q.data
           /\ Marked(q).failed = q.failed
           /\ Marked(q).fetch = q.fetch
           /\ Marked(q).answer = q.answer
  BY DEF Marked, Query

LEMMA MountingType ==
    ASSUME NEW Data, NEW q \in Query(Data), NEW isOld \in BOOLEAN
    PROVE  Mounting(q, isOld) \in Query(Data)
  BY FetchingFacts DEF Mounting

LEMMA ServedFacts ==
    ASSUME NEW Data, NEW q \in Query(Data), NEW d \in Data
    PROVE  /\ Served(q, d) \in Query(Data)
           /\ Served(q, d).loaded = q.loaded
           /\ Served(q, d).data = q.data
           /\ Served(q, d).failed = q.failed
           /\ Served(q, d).fetch = "served"
           /\ Served(q, d).answer = d
  BY DEF Served, Query

LEMMA AnsweredFacts ==
    ASSUME NEW Data, NEW q \in Query(Data)
    PROVE  /\ Answered(q) \in Query(Data)
           /\ Answered(q).loaded
           /\ Answered(q).data = q.answer
           /\ Answered(q).fetch = "idle"
  BY DEF Answered, Query

LEMMA FailedFacts ==
    ASSUME NEW Data, NEW q \in Query(Data)
    PROVE  /\ Failed(q) \in Query(Data)
           /\ Failed(q).loaded = q.loaded
           /\ Failed(q).failed
           /\ Failed(q).fetch = "idle"
  BY DEF Failed, Query

LEMMA NoQueryType ==
    ASSUME NEW Data, NEW none \in Data
    PROVE  NoQuery(none) \in Query(Data)
  BY DEF NoQuery, Query

\* After an invalidation the shown query is asked again if it had loaded, and
\* what it shows is as before.
LEMMA InvalidatedFacts ==
    ASSUME TypeOK
    PROVE  /\ Invalidated \in [Views -> Query(SUBSET Keys)]
           /\ Invalidated[view].loaded = cache[view].loaded
           /\ Invalidated[view].data = cache[view].data
           /\ cache[view].loaded =>
                  /\ Invalidated[view].failed = cache[view].failed
                  /\ Invalidated[view].fetch = "asked"
<1>1. view \in Views /\ cache \in [Views -> Query(SUBSET Keys)]
  BY DEF TypeOK
<1>2. \A v \in Views : cache[v] \in Query(SUBSET Keys)
  BY <1>1
<1>3. \A v \in Views : Marked(cache[v]) \in Query(SUBSET Keys)
  BY <1>2, MarkedFacts
<1>4. Fetching(Marked(cache[view]), TRUE) \in Query(SUBSET Keys)
  BY <1>1, <1>3, FetchingFacts
<1>5. Invalidated[view] = Fetching(Marked(cache[view]), TRUE)
  BY <1>1 DEF Invalidated
<1>6. Invalidated \in [Views -> Query(SUBSET Keys)]
  BY <1>1, <1>3, <1>4 DEF Invalidated
<1> DEFINE q == Marked(cache[view])
<1>7. /\ q \in Query(SUBSET Keys)
      /\ q.loaded = cache[view].loaded
      /\ q.data = cache[view].data
      /\ q.failed = cache[view].failed
  BY <1>1, <1>2, MarkedFacts
<1>8. /\ Invalidated[view].loaded = q.loaded
      /\ Invalidated[view].data = q.data
      /\ q.loaded => Invalidated[view].failed = q.failed
      /\ q.loaded => Invalidated[view].fetch = "asked"
  <2>1. Invalidated[view] = Fetching(q, TRUE)
    BY <1>5
  <2> HIDE DEF q
  <2> QED
    BY <2>1, <1>7 DEF Fetching, Query
<1> QED
  BY <1>6, <1>7, <1>8

-----------------------------------------------------------------------------
(* Types.                                                                  *)

LEMMA InitTypes == Init => TypeOK
<1> SUFFICES ASSUME Init PROVE TypeOK
  OBVIOUS
<1>1. cache \in [Views -> Query(SUBSET Keys)]
  <2>1. NoQuery({}) \in Query(SUBSET Keys)
    BY NoQueryType
  <2>2. Mounting(NoQuery({}), FALSE) \in Query(SUBSET Keys)
    BY <2>1, MountingType
  <2> QED
    BY <2>1, <2>2 DEF Init
<1>2. mutations \in [Mutations -> Mutation]
  <2>1. NoMutation \in Mutation
    BY FirstViewAssumption DEF NoMutation
  <2> QED
    BY <2>1 DEF Init
<1>3. /\ {selected, signing, signedUrl} \subseteq MaybeKey
      /\ clicks \in 0..MaxClicks
  BY MaxClicksAssumption DEF Init
<1>4. /\ checked \subseteq Keys /\ copying \subseteq Keys
      /\ stayed \subseteq Mutations /\ switched \in BOOLEAN
      /\ stored \subseteq Keys /\ view \in Views
  BY FirstViewAssumption DEF Init
<1> QED
  BY <1>1, <1>2, <1>3, <1>4 DEF TypeOK

LEMMA ReleasedType ==
    ASSUME TypeOK, NEW v \in Views
    PROVE  Released(v) \in [Mutations -> Mutation]
<1>1. \A o \in Mutations : mutations[o] \in Mutation
  BY DEF TypeOK
<1>2. \A o \in Mutations :
        [mutations[o] EXCEPT !.phase = "settled"] \in Mutation
  BY <1>1
<1> QED
  BY <1>1, <1>2 DEF Released

LEMMA BrowseTypes == ASSUME TypeOK, Browse PROVE TypeOK'
<1>1. /\ \A v \in Views : cache[v] \in Query(SUBSET Keys)
      /\ view \in Views
      /\ cache \in [Views -> Query(SUBSET Keys)]
      /\ stored \subseteq Keys
  BY DEF TypeOK
<1>2. ASSUME Click PROVE clicks' \in 0..MaxClicks
  BY <1>2, MaxClicksAssumption DEF Click, TypeOK
<1>3. ASSUME NEW v \in Views, NEW isOld \in BOOLEAN, TurnTo(v, isOld),
             checked' \in SUBSET Keys
      PROVE  TypeOK'
  <2>1. cache' \in [Views -> Query(SUBSET Keys)]
    BY <1>1, <1>3, MountingType DEF TurnTo
  <2> QED
    BY <2>1, <1>2, <1>3 DEF TypeOK, TurnTo, drawerVars
<1>4. ASSUME NEW v \in Views, List(v) PROVE TypeOK'
  <2>1. stored \cap Within[v] \in SUBSET Keys
    BY <1>1
  <2>2. cache' \in [Views -> Query(SUBSET Keys)]
    BY <1>1, <1>4, <2>1, ServedFacts DEF List
  <2> QED
    BY <2>2, <1>4 DEF TypeOK, List, pageVars, drawerVars
<1>5. ASSUME NEW v \in Views, ListAnswers(v) \/ ListFails(v) PROVE TypeOK'
  <2>1. cache' \in [Views -> Query(SUBSET Keys)]
    <3>1. Answered(cache[v]) \in Query(SUBSET Keys)
      BY <1>1, AnsweredFacts
    <3>2. Failed(cache[v]) \in Query(SUBSET Keys)
      BY <1>1, FailedFacts
    <3> QED
      BY <1>1, <1>5, <3>1, <3>2 DEF ListAnswers, ListFails
  <2>2. mutations' \in [Mutations -> Mutation]
    BY <1>5, ReleasedType DEF ListAnswers, ListFails
  <2> QED
    BY <2>1, <2>2, <1>5
    DEF TypeOK, ListAnswers, ListFails, pageVars, drawerVars
<1>6. ASSUME Refresh PROVE TypeOK'
  <2>1. cache' \in [Views -> Query(SUBSET Keys)]
    BY <1>1, <1>6, FetchingFacts DEF Refresh
  <2> QED
    BY <2>1, <1>2, <1>6 DEF TypeOK, Refresh, pageVars, drawerVars
<1>7. ASSUME NEW k \in Keys, ToggleCheck(k) \/ Clear PROVE TypeOK'
  BY <1>2, <1>7 DEF TypeOK, ToggleCheck, Clear, drawerVars
<1>8. ASSUME Clear PROVE TypeOK'
  BY <1>2, <1>8 DEF TypeOK, Clear, drawerVars
<1>9. ASSUME NEW v \in Views, NEW isOld \in BOOLEAN,
             Open(v, isOld) \/ OpenByBreadcrumb(v, isOld)
      PROVE  TypeOK'
  BY <1>3, <1>9 DEF Open, OpenByBreadcrumb, TypeOK
<1> QED
  BY <1>4, <1>5, <1>6, <1>7, <1>8, <1>9 DEF Browse

LEMMA ChangeTypes == ASSUME TypeOK, Change PROVE TypeOK'
<1>1. ASSUME Click PROVE clicks' \in 0..MaxClicks
  BY <1>1, MaxClicksAssumption DEF Click, TypeOK
<1>2. ASSUME NEW o \in Mutations, NEW keys \in SUBSET Keys, Send(o, keys)
      PROVE  TypeOK'
  <2>1. [NoMutation EXCEPT !.phase = "sent", !.keys = keys] \in Mutation
    BY FirstViewAssumption DEF NoMutation
  <2> QED
    BY <1>1, <1>2, <2>1 DEF TypeOK, Send, pageVars, drawerVars
<1>3. ASSUME NEW k \in Keys, ClickDelete(k) PROVE TypeOK'
  BY <1>2, <1>3 DEF ClickDelete
<1>4. ASSUME ClickBulkDelete PROVE TypeOK'
  BY <1>2, <1>4 DEF ClickBulkDelete, TypeOK
<1>5. ASSUME NEW k \in Keys, Upload(k) PROVE TypeOK'
  BY <1>5 DEF TypeOK, Upload, pageVars, drawerVars
<1>6. ASSUME NEW k \in Keys, ClickCopy(k) PROVE TypeOK'
  BY <1>1, <1>6 DEF TypeOK, ClickCopy, pageVars, drawerVars
<1>7. ASSUME NEW k \in Keys, CopyAnswers(k) \/ CopyFails(k) PROVE TypeOK'
  BY <1>7, InvalidatedFacts
  DEF TypeOK, CopyAnswers, CopyFails, pageVars, drawerVars
<1>8. ASSUME NEW o \in Mutations, NEW refused \in SUBSET mutations[o].keys,
             Delete(o, refused)
      PROVE  TypeOK'
  <2>1. mutations' \in [Mutations -> Mutation]
    BY <1>8 DEF TypeOK, Delete
  <2> QED
    BY <1>8, <2>1 DEF TypeOK, Delete, pageVars, drawerVars
<1>9. ASSUME NEW o \in Mutations, DeleteAnswers(o) PROVE TypeOK'
  <2>1. mutations' \in [Mutations -> Mutation]
    BY <1>9 DEF TypeOK, DeleteAnswers
  <2> QED
    BY <1>9, <2>1, InvalidatedFacts
    DEF TypeOK, DeleteAnswers, pageVars, drawerVars
<1>10. ASSUME NEW o \in Mutations, DeleteFails(o) \/ Report(o) PROVE TypeOK'
  <2>1. NoMutation \in Mutation
    BY FirstViewAssumption DEF NoMutation
  <2>2. mutations' \in [Mutations -> Mutation]
    BY <1>10, <2>1 DEF TypeOK, DeleteFails, Report
  <2>3. CASE DeleteFails(o)
    BY <2>2, <2>3 DEF TypeOK, DeleteFails, pageVars, drawerVars
  <2>4. CASE Report(o)
    <3>1. /\ {selected', signing', signedUrl'} \subseteq MaybeKey
          /\ switched' \in BOOLEAN
          /\ checked' \subseteq Keys
      BY <2>4 DEF TypeOK, Report, DrawerCloses, drawerVars
    <3> QED
      BY <2>2, <2>4, <3>1 DEF TypeOK, Report
  <2> QED
    BY <1>10, <2>3, <2>4
<1> QED
  BY <1>3, <1>4, <1>5, <1>6, <1>7, <1>8, <1>9, <1>10 DEF Change

LEMMA DrawerTypes == ASSUME TypeOK, Drawer PROVE TypeOK'
<1>1. ASSUME Click PROVE clicks' \in 0..MaxClicks
  BY <1>1, MaxClicksAssumption DEF Click, TypeOK
<1> QED
  BY <1>1 DEF Drawer, TypeOK, Select, CloseDrawer, IssueSignedUrl,
     SignedUrlAnswers, SignedUrlFails, DrawerCloses, pageVars

LEMMA NextTypes == TypeOK /\ [Next]_vars => TypeOK'
  BY BrowseTypes, ChangeTypes, DrawerTypes
  DEF Next, TypeOK, vars, pageVars, drawerVars

-----------------------------------------------------------------------------
(* The drawer.                                                             *)

LEMMA DrawerStep == TypeOK /\ DrawerInv /\ [Next]_vars => DrawerInv'
<1> SUFFICES ASSUME TypeOK, DrawerInv, [Next]_vars PROVE DrawerInv'
  OBVIOUS
<1> USE NamesAssumption DEF DrawerInv, drawerVars
<1>1. CASE Browse
  BY <1>1 DEF Browse, Open, OpenByBreadcrumb, TurnTo, List, ListAnswers,
     ListFails, Refresh, ToggleCheck, Clear
<1>2. CASE Change
  BY <1>2 DEF Change, ClickDelete, ClickBulkDelete, Send, Upload, ClickCopy,
     CopyAnswers, CopyFails, Delete, DeleteAnswers, DeleteFails, Report,
     DrawerCloses
<1>3. ASSUME NEW k \in Keys, Select(k) PROVE DrawerInv'
  BY <1>3 DEF Select
<1>4. CASE CloseDrawer
  BY <1>4 DEF CloseDrawer, DrawerCloses
<1>5. CASE IssueSignedUrl \/ SignedUrlAnswers \/ SignedUrlFails
  BY <1>5 DEF IssueSignedUrl, SignedUrlAnswers, SignedUrlFails
<1>6. CASE UNCHANGED vars
  BY <1>6 DEF vars
<1> QED
  BY <1>1, <1>2, <1>3, <1>4, <1>5, <1>6 DEF Next, Drawer

-----------------------------------------------------------------------------
(* The table.                                                              *)

\* A step that leaves the bucket, the view and the deletes alone.
LEMMA CacheStep ==
    ASSUME TypeOK, NEW o \in Mutations, StayedOf(o),
           UNCHANGED <<stored, view, mutations, stayed>>,
           cache'[view].loaded = cache[view].loaded,
           cache'[view].data = cache[view].data,
           cache[view].loaded => cache'[view].failed = cache[view].failed,
           cache[view].fetch # "idle" => cache'[view].fetch # "idle",
           cache'[view].fetch = "served" =>
               \/ cache'[view].answer \subseteq stored
               \/ /\ cache[view].fetch = "served"
                  /\ cache'[view].answer = cache[view].answer
    PROVE  StayedOf(o)'
  BY DEF StayedOf

\* A step that leaves the shown query and what lies in the bucket alone, and o
\* as it is.
LEMMA OtherStep ==
    ASSUME TypeOK, NEW o \in Mutations, StayedOf(o),
           UNCHANGED <<view, cache>>,
           stored' \subseteq stored,
           mutations'[o] = mutations[o],
           o \in stayed' => o \in stayed
    PROVE  StayedOf(o)'
  BY DEF StayedOf

LEMMA BrowseStep ==
    ASSUME TypeOK, \A o \in Mutations : StayedOf(o), Browse
    PROVE  \A o \in Mutations : StayedOf(o)'
<1>1. /\ \A v \in Views : cache[v] \in Query(SUBSET Keys)
      /\ view \in Views
      /\ cache \in [Views -> Query(SUBSET Keys)]
      /\ stored \subseteq Keys
  BY DEF TypeOK
<1>2. SUFFICES ASSUME NEW o \in Mutations PROVE StayedOf(o)'
  OBVIOUS
<1>3. StayedOf(o)
  BY <1>2
<1>4. ASSUME NEW v \in Views, NEW isOld \in BOOLEAN, TurnTo(v, isOld)
      PROVE  StayedOf(o)'
  BY <1>4 DEF TurnTo, StayedOf
<1>5. ASSUME NEW v \in Views, List(v) PROVE StayedOf(o)'
  <2>1. cache'[view] = IF v = view
                       THEN Served(cache[v], stored \cap Within[v])
                       ELSE cache[view]
    BY <1>1, <1>5 DEF List
  <2>2. cache[view] \in Query(SUBSET Keys)
    BY <1>1
  <2>3. CASE v = view
    <3>1. cache'[view] = Served(cache[view], stored \cap Within[view])
      BY <2>1, <2>3
    <3>2. stored \cap Within[view] \in SUBSET Keys
      BY <1>1
    <3>3. /\ cache'[view].loaded = cache[view].loaded
          /\ cache'[view].data = cache[view].data
          /\ cache'[view].failed = cache[view].failed
          /\ cache'[view].fetch = "served"
          /\ cache'[view].answer = stored \cap Within[view]
      BY <2>2, <3>1, <3>2, ServedFacts
    <3> QED
      BY <1>3, <1>5, <3>3, CacheStep DEF List, pageVars
  <2>4. CASE v # view
    BY <1>3, <1>5, <2>1, <2>4, CacheStep DEF List, pageVars
  <2> QED
    BY <2>3, <2>4
<1>6. ASSUME NEW v \in Views, ListAnswers(v) PROVE StayedOf(o)'
  <2>1. UNCHANGED <<stored, view, stayed>>
    BY <1>6 DEF ListAnswers, pageVars
  <2>2. mutations[o] \in Mutation
    BY DEF TypeOK
  <2>3. mutations'[o] = IF mutations[o].phase = "settling"
                           /\ mutations[o].on = v
                        THEN [mutations[o] EXCEPT !.phase = "settled"]
                        ELSE mutations[o]
    BY <1>6 DEF ListAnswers, Released
  <2>4. CASE v = view
    <3>1. cache'[view] = Answered(cache[view])
      BY <1>1, <1>6, <2>4 DEF ListAnswers
    <3>2. /\ cache'[view].loaded
          /\ cache'[view].data = cache[view].answer
          /\ cache'[view].fetch = "idle"
      BY <1>1, <3>1, AnsweredFacts
    <3>3. cache[view].fetch = "served"
      BY <1>6, <2>4 DEF ListAnswers
    <3>4. mutations'[o].keys = mutations[o].keys
      BY <2>2, <2>3
    <3>5. o \in stayed /\ mutations[o].phase = "settling" =>
            mutations'[o].phase = "settled"
      BY <1>3, <2>2, <2>3, <2>4 DEF StayedOf
    <3>6. mutations'[o].phase \in {mutations[o].phase, "settled"}
          /\ (mutations'[o].phase # mutations[o].phase =>
                 mutations[o].phase = "settling")
      BY <2>2, <2>3
    <3> QED
      BY <1>3, <2>1, <2>2, <3>2, <3>3, <3>4, <3>5, <3>6 DEF StayedOf
  <2>5. CASE v # view
    <3>1. cache'[view] = cache[view]
      BY <1>1, <1>6, <2>5 DEF ListAnswers
    <3>2. o \in stayed => mutations'[o] = mutations[o]
      BY <1>3, <2>3, <2>5 DEF StayedOf
    <3> QED
      BY <1>3, <2>1, <3>1, <3>2 DEF StayedOf
  <2> QED
    BY <2>4, <2>5
<1>7. ASSUME NEW v \in Views, ListFails(v) PROVE StayedOf(o)'
  <2>1. UNCHANGED <<stored, view, stayed>>
    BY <1>7 DEF ListFails, pageVars
  <2>2. mutations[o] \in Mutation
    BY DEF TypeOK
  <2>3. mutations'[o] = IF mutations[o].phase = "settling"
                           /\ mutations[o].on = v
                        THEN [mutations[o] EXCEPT !.phase = "settled"]
                        ELSE mutations[o]
    BY <1>7 DEF ListFails, Released
  <2>4. CASE v = view
    <3>1. cache'[view] = Failed(cache[view])
      BY <1>1, <1>7, <2>4 DEF ListFails
    <3>2. /\ cache'[view].loaded = cache[view].loaded
          /\ cache'[view].failed
          /\ cache'[view].fetch = "idle"
      BY <1>1, <3>1, FailedFacts
    <3>3. mutations'[o].keys = mutations[o].keys
      BY <2>2, <2>3
    <3>4. o \in stayed /\ mutations[o].phase = "settling" =>
            mutations'[o].phase = "settled"
      BY <1>3, <2>2, <2>3, <2>4 DEF StayedOf
    <3>5. mutations'[o].phase \in {mutations[o].phase, "settled"}
          /\ (mutations'[o].phase # mutations[o].phase =>
                 mutations[o].phase = "settling")
      BY <2>2, <2>3
    <3> QED
      BY <1>3, <2>1, <2>2, <3>2, <3>3, <3>4, <3>5 DEF StayedOf
  <2>5. CASE v # view
    <3>1. cache'[view] = cache[view]
      BY <1>1, <1>7, <2>5 DEF ListFails
    <3>2. o \in stayed => mutations'[o] = mutations[o]
      BY <1>3, <2>3, <2>5 DEF StayedOf
    <3> QED
      BY <1>3, <2>1, <3>1, <3>2 DEF StayedOf
  <2> QED
    BY <2>4, <2>5
<1>8. CASE Refresh
  <2>1. cache'[view] = Fetching(cache[view], TRUE)
    BY <1>1, <1>8 DEF Refresh
  <2>2. /\ cache'[view].loaded = cache[view].loaded
        /\ cache'[view].data = cache[view].data
        /\ cache[view].loaded => cache'[view].failed = cache[view].failed
        /\ cache'[view].fetch # "idle"
        /\ cache'[view].fetch = "served" =>
               cache[view].fetch = "served"
               /\ cache'[view].answer = cache[view].answer
    BY <1>1, <2>1 DEF Fetching, Query
  <2> QED
    BY <1>3, <1>8, <2>2, CacheStep DEF Refresh, pageVars
<1>9. CASE Clear \/ \E k \in Keys : ToggleCheck(k)
  BY <1>3, <1>9, OtherStep DEF Clear, ToggleCheck
<1> QED
  BY <1>4, <1>5, <1>6, <1>7, <1>8, <1>9 DEF Browse, Open, OpenByBreadcrumb

LEMMA ChangeStep ==
    ASSUME TypeOK, \A o \in Mutations : StayedOf(o), Change
    PROVE  \A o \in Mutations : StayedOf(o)'
<1>1. SUFFICES ASSUME NEW o \in Mutations PROVE StayedOf(o)'
  OBVIOUS
<1>2. StayedOf(o) /\ mutations[o] \in Mutation
  BY DEF TypeOK
<1>3. ASSUME NEW p \in Mutations, NEW keys \in SUBSET Keys, Send(p, keys)
      PROVE  StayedOf(o)'
  <2>1. UNCHANGED <<stored, view, cache>>
    BY <1>3 DEF Send, pageVars
  <2>2. CASE o = p
    <3>1. mutations'[o].phase = "sent"
      BY <1>3, <2>2 DEF Send, TypeOK, NoMutation
    <3>2. mutations[o].phase = "none"
      BY <1>3, <2>2 DEF Send
    <3> QED
      BY <1>2, <1>3, <2>1, <3>1, <3>2 DEF Send, StayedOf
  <2>3. CASE o # p
    <3>1. mutations'[o] = mutations[o] /\ (o \in stayed' => o \in stayed)
      BY <1>3, <2>3 DEF Send, TypeOK
    <3> QED
      BY <1>2, <2>1, <3>1, OtherStep
  <2> QED
    BY <2>2, <2>3
<1>4. ASSUME NEW k \in Keys, ClickDelete(k) PROVE StayedOf(o)'
  BY <1>3, <1>4 DEF ClickDelete
<1>5. CASE ClickBulkDelete
  BY <1>3, <1>5 DEF ClickBulkDelete, TypeOK
<1>6. ASSUME NEW k \in Keys, Upload(k) PROVE StayedOf(o)'
  <2>1. o \in stayed' => o \in stayed /\ k \notin mutations[o].keys
    BY <1>6 DEF Upload
  <2>2. UNCHANGED <<view, cache, mutations>> /\ stored' = stored \cup {k}
    BY <1>6 DEF Upload, pageVars
  <2> QED
    BY <1>2, <2>1, <2>2 DEF StayedOf
<1>7. ASSUME NEW k \in Keys, ClickCopy(k) \/ CopyFails(k) PROVE StayedOf(o)'
  BY <1>2, <1>7, OtherStep DEF ClickCopy, CopyFails, pageVars
<1>8. /\ Invalidated[view].loaded = cache[view].loaded
      /\ Invalidated[view].data = cache[view].data
      /\ cache[view].loaded =>
             /\ Invalidated[view].failed = cache[view].failed
             /\ Invalidated[view].fetch = "asked"
  BY InvalidatedFacts
<1>9. ASSUME NEW k \in Keys, CopyAnswers(k) PROVE StayedOf(o)'
  <2>1. UNCHANGED <<stored, view, mutations, stayed>> /\ cache' = Invalidated
    BY <1>9 DEF CopyAnswers, pageVars
  <2> HIDE DEF Invalidated
  <2> QED
    BY <1>2, <1>8, <2>1 DEF StayedOf
<1>10. ASSUME NEW p \in Mutations, NEW refused \in SUBSET mutations[p].keys,
              Delete(p, refused)
       PROVE  StayedOf(o)'
  <2>1. UNCHANGED <<view, cache, stayed>>
    BY <1>10 DEF Delete, pageVars
  <2>2. stored' = stored \ (mutations[p].keys \ refused)
    BY <1>10 DEF Delete
  <2>3. CASE o = p
    <3>1. /\ mutations'[o].phase = "done"
          /\ mutations'[o].keys = mutations[o].keys \ refused
      BY <1>2, <1>10, <2>3 DEF Delete, TypeOK
    <3> QED
      BY <1>2, <2>1, <2>2, <2>3, <3>1 DEF StayedOf
  <2>4. CASE o # p
    <3>1. mutations'[o] = mutations[o]
      BY <1>10, <2>4 DEF Delete, TypeOK
    <3> QED
      BY <1>2, <2>1, <2>2, <3>1, OtherStep
  <2> QED
    BY <2>3, <2>4
<1>11. ASSUME NEW p \in Mutations, DeleteAnswers(p) PROVE StayedOf(o)'
  <2>1. UNCHANGED <<stored, view, stayed>> /\ cache' = Invalidated
    BY <1>11 DEF DeleteAnswers, pageVars
  <2>2. mutations'[o].keys = mutations[o].keys
    BY <1>2, <1>11 DEF DeleteAnswers, TypeOK
  <2>3. \/ mutations'[o].phase = mutations[o].phase
           /\ mutations'[o].on = mutations[o].on
        \/ /\ mutations[o].phase = "done"
           /\ mutations'[o].phase = "settling"
           /\ mutations'[o].on = view
    BY <1>2, <1>11 DEF DeleteAnswers, TypeOK
  <2> QED
    BY <1>2, <1>8, <2>1, <2>2, <2>3 DEF StayedOf
<1>12. ASSUME NEW p \in Mutations, DeleteFails(p) \/ Report(p)
       PROVE  StayedOf(o)'
  <2>1. UNCHANGED <<stored, view, cache>> /\ stayed' = stayed \ {p}
    BY <1>12 DEF DeleteFails, Report, pageVars
  <2>2. o # p => mutations'[o] = mutations[o]
    BY <1>12 DEF DeleteFails, Report, TypeOK
  <2> QED
    BY <1>2, <2>1, <2>2 DEF StayedOf
<1> QED
  BY <1>4, <1>5, <1>6, <1>7, <1>9, <1>10, <1>11, <1>12 DEF Change

LEMMA StayedStep ==
    ASSUME TypeOK, \A o \in Mutations : StayedOf(o), [Next]_vars
    PROVE  \A o \in Mutations : StayedOf(o)'
<1>1. ASSUME Drawer \/ UNCHANGED vars, NEW o \in Mutations
      PROVE  StayedOf(o)'
  <2>1. UNCHANGED <<stored, view, cache, mutations, stayed>>
    BY <1>1 DEF Drawer, Select, CloseDrawer, IssueSignedUrl, SignedUrlAnswers,
       SignedUrlFails, vars, pageVars
  <2> QED
    BY <2>1, OtherStep
<1> QED
  BY <1>1, BrowseStep, ChangeStep DEF Next

LEMMA PageInvariant == Spec => []PInv
<1>1. Init => PInv
  BY InitTypes DEF Init, PInv, StayedOf, DrawerInv
<1>2. PInv /\ [Next]_vars => PInv'
  BY NextTypes, DrawerStep, StayedStep DEF PInv
<1> QED
  BY <1>1, <1>2, PTL DEF Spec

-----------------------------------------------------------------------------

\* The variables of the page, its queries and its calls keep their types.
THEOREM PageTypeCorrect == Spec => []TypeOK
<1>1. PInv => TypeOK
  BY DEF PInv
<1> QED
  BY <1>1, PageInvariant, PTL

\* When the page reports a delete, its table no longer shows what was deleted.
THEOREM ReportsAreTrue == Spec => []ReportedIsUnlisted
<1>1. ASSUME PInv PROVE ReportedIsUnlisted
  <2>1. SUFFICES ASSUME NEW o \in stayed, mutations[o].phase = "settled"
                 PROVE  mutations[o].keys \cap Shown = {}
    BY DEF ReportedIsUnlisted
  <2>2. o \in Mutations /\ StayedOf(o)
    BY <1>1, <2>1 DEF PInv, TypeOK
  <2> QED
    BY <2>1, <2>2 DEF StayedOf, Shown
<1> QED
  BY <1>1, PageInvariant, PTL

\* The drawer shows the signed URL of the object in its title.
THEOREM DrawerIsItsOwn == Spec => []DrawerShowsItsUrl
<1>1. PInv => DrawerShowsItsUrl
  BY DEF PInv, DrawerInv, DrawerShowsItsUrl
<1> QED
  BY <1>1, PageInvariant, PTL

=============================================================================
