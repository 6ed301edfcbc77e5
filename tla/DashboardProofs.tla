-------------------------- MODULE DashboardProofs --------------------------
(***************************************************************************)
(* Proofs about pages of the dashboard, wherever the user goes: for any    *)
(* files, sessions, options of the API and number of clicks.               *)
(***************************************************************************)
EXTENDS Dashboard, Sequences, FiniteSetTheorems, TLAPS

\* What a step of the dashboard is to the direct upload page.
LEMMA DirectFrame ==
    ASSUME [DashboardNext]_allVars
    PROVE  Direct!Next \/ Direct!Leave \/ UNCHANGED directVars
<1>1. ASSUME NEW to, NEW isOld, Navigate(to, isOld)
      PROVE  Direct!Leave \/ UNCHANGED directVars
  BY <1>1 DEF Navigate
<1>2. CASE SignedStep \/ ScannerStep \/ ValidationStep \/ ErrorsStep
  BY <1>2 DEF SignedStep, ScannerStep, ValidationStep, ErrorsStep
<1>3. CASE TenantsStep \/ UploadStep \/ ViewsStep \/ DrawerStep
  BY <1>3 DEF TenantsStep, UploadStep, ViewsStep, DrawerStep
<1>4. CASE DirectStep
  BY <1>4 DEF DirectStep
<1>5. CASE UNCHANGED allVars
  BY <1>5 DEF allVars
<1> QED
  BY <1>1, <1>2, <1>3, <1>4, <1>5 DEF DashboardNext

-----------------------------------------------------------------------------
(* The direct upload page.                                                 *)

\* The one request of a user who waits, and what its end leaves.
OneAtATime ==
    /\ issuing # {} =>
           /\ issuing = {selectedFile} /\ step = "idle"
           /\ putting = {} /\ confirming = {}
    /\ putting # {} => step = "uploading" /\ confirming = {}
    /\ confirming # {} => step = "confirming"
    /\ \A p, q \in putting \cup confirming : p = q
    /\ \A p \in putting \cup confirming :
           p.file = selectedFile /\ p.url = selectedFile
    /\ \A p \in confirming : directStored[p.url] = p.file
    /\ step \in {"issued", "uploading", "confirming"} => issued = selectedFile
    /\ step = "done" =>
           /\ confirmResult = selectedFile
           /\ directStored[selectedFile] = selectedFile

DirectInv ==
    /\ Direct!TypeOK
    /\ Direct!RunningStepHasARequest
    /\ ~overlapped => OneAtATime

LEMMA DirectInit == DashboardInit => DirectInv
<1> SUFFICES ASSUME DashboardInit PROVE DirectInv
  OBVIOUS
<1>1. Direct!Init
  BY DEF DashboardInit
<1>2. Direct!TypeOK
  <2>1. MaxPuts \in Nat
    BY BoundsAssumption
  <2>2. /\ step \in Direct!Steps
        /\ issued \in Direct!MaybeFile
        /\ selectedFile \in Direct!MaybeFile
        /\ confirmResult \in Direct!MaybeFile
    BY <1>1 DEF Direct!Init, Direct!Steps, Direct!MaybeFile
  <2>3. /\ issuing \subseteq Files /\ dropped \subseteq Files
        /\ putting \subseteq Direct!Put /\ confirming \subseteq Direct!Put
        /\ overlapped \in BOOLEAN
    BY <1>1 DEF Direct!Init
  <2>4. directStored \in [Files -> Direct!MaybeFile] /\ puts \in 0..MaxPuts
    BY <1>1, <2>1 DEF Direct!Init, Direct!MaybeFile
  <2> QED
    BY <2>2, <2>3, <2>4 DEF Direct!TypeOK
<1>3. Direct!RunningStepHasARequest /\ OneAtATime
  BY <1>1 DEF Direct!Init, Direct!RunningStepHasARequest, OneAtATime
<1> QED
  BY <1>2, <1>3 DEF DirectInv

LEMMA DirectTypes ==
    ASSUME Direct!TypeOK, Direct!Next \/ Direct!Leave PROVE Direct!TypeOK'
<1> USE UploadAssumption, BoundsAssumption
    DEF Direct!TypeOK, Direct!Steps, Direct!MaybeFile, Direct!Put
<1>1. ASSUME NEW f \in Files,
             Direct!SelectFile(f) \/ Direct!UrlIssued(f) \/ Direct!IssueFails(f)
      PROVE  Direct!TypeOK'
  BY <1>1 DEF Direct!SelectFile, Direct!UrlIssued, Direct!IssueFails
<1>2. CASE Direct!ClickPut
  <2>1. puts' \in 1..MaxPuts
    BY <1>2 DEF Direct!ClickPut
  <2>2. [n |-> puts', file |-> selectedFile, url |-> issued] \in Direct!Put
    BY <1>2, <2>1 DEF Direct!ClickPut
  <2> QED
    BY <1>2, <2>1, <2>2 DEF Direct!ClickPut
<1>3. ASSUME NEW p \in Direct!Put,
             \/ Direct!PutSucceeds(p) \/ Direct!PutFails(p)
             \/ Direct!ConfirmAnswers(p) \/ Direct!ConfirmFails(p)
      PROVE  Direct!TypeOK'
  BY <1>3 DEF Direct!PutSucceeds, Direct!PutFails, Direct!ConfirmAnswers,
     Direct!ConfirmFails
<1>4. CASE Direct!Leave
  BY <1>4 DEF Direct!Leave
<1> QED
  BY <1>1, <1>2, <1>3, <1>4 DEF Direct!Next, Direct!Answers

LEMMA DirectPageStep ==
    ASSUME DirectInv, Direct!Next \/ Direct!Leave PROVE DirectInv'
<1> USE DEF DirectInv, Direct!RunningStepHasARequest
<1>1. Direct!TypeOK'
  BY DirectTypes
<1>2. /\ directStored \in [Files -> Direct!MaybeFile]
      /\ putting \cup confirming \subseteq Direct!Put
  BY DEF Direct!TypeOK
<1>3. ASSUME NEW f \in Files, Direct!SelectFile(f) PROVE DirectInv'
  BY <1>1, <1>3 DEF Direct!SelectFile, Direct!Busy, OneAtATime
<1>4. ASSUME NEW f \in Files, Direct!UrlIssued(f) \/ Direct!IssueFails(f)
      PROVE  DirectInv'
  BY <1>1, <1>4 DEF Direct!UrlIssued, Direct!IssueFails, OneAtATime
<1>5. CASE Direct!ClickPut
  <2>1. ~overlapped => /\ issuing = {} /\ putting = {} /\ confirming = {}
                       /\ issued = selectedFile
    BY <1>5 DEF Direct!ClickPut, OneAtATime
  <2> DEFINE p == [n |-> puts', file |-> selectedFile, url |-> issued]
  <2>2. putting' = putting \cup {p}
    BY <1>5 DEF Direct!ClickPut
  <2>3. p.file = selectedFile /\ p.url = issued
    OBVIOUS
  <2>4. /\ step' = "uploading"
        /\ UNCHANGED <<issued, selectedFile, confirmResult, issuing, confirming,
                       directStored, overlapped>>
    BY <1>5 DEF Direct!ClickPut
  <2> HIDE DEF p
  <2> QED
    BY <1>1, <2>1, <2>2, <2>3, <2>4 DEF OneAtATime
<1>6. ASSUME NEW p \in Direct!Put, Direct!PutSucceeds(p) PROVE DirectInv'
  <2>1. p.url \in Files
    BY <1>6 DEF Direct!Put
  <2> QED
    BY <1>1, <1>2, <1>6, <2>1 DEF Direct!PutSucceeds, OneAtATime
<1>7. ASSUME NEW p \in Direct!Put,
             \/ Direct!PutFails(p) \/ Direct!ConfirmAnswers(p)
             \/ Direct!ConfirmFails(p)
      PROVE  DirectInv'
  <2>1. p.url # NoFile
    BY <1>7, UploadAssumption DEF Direct!Put
  <2> QED
    BY <1>1, <1>7, <2>1
    DEF Direct!PutFails, Direct!ConfirmAnswers, Direct!ConfirmFails, OneAtATime
<1>8. CASE Direct!Leave
  BY <1>1, <1>8 DEF Direct!Leave, OneAtATime
<1> QED
  BY <1>3, <1>4, <1>5, <1>6, <1>7, <1>8 DEF Direct!Next, Direct!Answers

LEMMA DirectInvariant == DashboardSpec => []DirectInv
<1>1. DirectInv /\ [DashboardNext]_allVars => DirectInv'
  <2>1. ASSUME DirectInv, UNCHANGED directVars PROVE DirectInv'
    BY <2>1 DEF directVars, DirectInv, Direct!TypeOK, OneAtATime,
       Direct!RunningStepHasARequest
  <2> QED
    BY <2>1, DirectFrame, DirectPageStep
<1> QED
  BY <1>1, DirectInit, PTL DEF DashboardSpec

\* A user of the direct upload page who waits has each file under the URL that
\* was issued for it, and is shown that file's own result.
THEOREM WaitingUserIsServed == DashboardSpec => []SequentialUploadIsOwn
<1>1. DirectInv => SequentialUploadIsOwn
  BY DEF DirectInv, OneAtATime, SequentialUploadIsOwn,
     Direct!SequentialUploadIsOwn
<1> QED
  BY <1>1, DirectInvariant, PTL

\* In a running step of that page a request is under way whose end moves it on.
THEOREM NoPageWaitsForNothing == DashboardSpec => []RunningStepHasARequest
<1>1. DirectInv => RunningStepHasARequest
  BY DEF DirectInv, RunningStepHasARequest
<1> QED
  BY <1>1, DirectInvariant, PTL

-----------------------------------------------------------------------------
(* The upload lab.                                                         *)

LogRow == [callId : Nat, call : LabFiles, fromCache : BOOLEAN]

LogTypes ==
    /\ idempotencyKey \in IdemKeys
    /\ sseMode \in Uploads!Modes
    /\ card \in [LabFiles -> Uploads!Cards]
    /\ arg \in [LabFiles -> IdemKeys \cup Uploads!Modes]
    /\ phase \in [LabFiles -> {"none", "reading", "sent", "storing", "adrift",
                               "answered", "failed", "over"}]
    /\ hit \in [LabFiles -> BOOLEAN]
    /\ cache \in [IdemKeys -> LabFiles \cup {NoFile}]
    /\ object \in [IdemKeys -> LabFiles \cup {NoFile}]
    /\ \A f \in LabFiles : card[f] = "idempotent" => arg[f] \in IdemKeys

\* A call with a key, under way.
Active(f) == card[f] = "idempotent" /\ phase[f] \notin {"none", "over"}

\* Calls of a key that is not mixed follow one another, so that one that stores
\* found the cache empty, and one that has stored is what cache and object have.
CallsInv ==
    /\ \A f, g \in LabFiles :
           Active(f) /\ Active(g) /\ arg[f] = arg[g] /\ arg[f] \notin mixed =>
               f = g
    /\ \A f \in LabFiles : Active(f) /\ arg[f] \notin mixed =>
           /\ phase[f] \in {"storing", "adrift"} => cache[arg[f]] = NoFile
           /\ phase[f] = "answered" /\ ~hit[f] =>
                  cache[arg[f]] = f /\ object[arg[f]] = f

RowInv(row) ==
    /\ card[row.call] = "idempotent" /\ phase[row.call] = "over"
    /\ ~row.fromCache /\ arg[row.call] \notin mixed =>
           /\ cache[arg[row.call]] = row.call
           /\ object[arg[row.call]] = row.call

RowsInv ==
    /\ idempotencyResults \in Seq(LogRow)
    /\ Uploads!LogKeepsEveryCall
    /\ \A i \in DOMAIN idempotencyResults : RowInv(idempotencyResults[i])
    /\ \A i, j \in DOMAIN idempotencyResults :
           idempotencyResults[i].call = idempotencyResults[j].call => i = j

LogInv == LogTypes /\ CallsInv /\ RowsInv

LEMMA UploadFrame ==
    ASSUME [DashboardNext]_allVars
    PROVE  Uploads!Next \/ Uploads!Leave \/ UNCHANGED uploadVars
<1>1. ASSUME NEW to, NEW isOld, Navigate(to, isOld)
      PROVE  Uploads!Leave \/ UNCHANGED uploadVars
  BY <1>1 DEF Navigate
<1>2. CASE SignedStep \/ ScannerStep \/ ValidationStep \/ ErrorsStep
  BY <1>2 DEF SignedStep, ScannerStep, ValidationStep, ErrorsStep
<1>3. CASE TenantsStep \/ DirectStep \/ ViewsStep \/ DrawerStep
  BY <1>3 DEF TenantsStep, DirectStep, ViewsStep, DrawerStep
<1>4. CASE UploadStep
  BY <1>4 DEF UploadStep
<1>5. CASE UNCHANGED allVars
  BY <1>5 DEF allVars
<1> QED
  BY <1>1, <1>2, <1>3, <1>4, <1>5 DEF DashboardNext

LEMMA LogInit == DashboardInit => LogInv
<1> SUFFICES ASSUME DashboardInit PROVE LogInv
  OBVIOUS
<1>1. Uploads!Init
  BY DEF DashboardInit
<1>2. LogTypes
  BY <1>1, UploadAssumption
  DEF Uploads!Init, LogTypes, Uploads!Cards, Uploads!Modes
<1>3. CallsInv
  BY <1>1 DEF Uploads!Init, CallsInv, Active
<1>4. RowsInv
  BY <1>1 DEF Uploads!Init, RowsInv, Uploads!LogKeepsEveryCall
<1> QED
  BY <1>2, <1>3, <1>4 DEF LogInv

\* What keeps the rows: that their calls are over, and stay what they were, and
\* that cache and object do not change under a key that is not mixed.
LEMMA RowsKept ==
    ASSUME LogTypes, RowsInv, mixed \subseteq mixed',
           UNCHANGED <<idempotencyResults, logged>>,
           \A f \in LabFiles : card[f] = "idempotent" /\ phase[f] = "over" =>
               /\ card'[f] = card[f] /\ arg'[f] = arg[f] /\ phase'[f] = "over"
               /\ cache[arg[f]] = f /\ arg[f] \notin mixed' =>
                      /\ cache'[arg[f]] = cache[arg[f]]
                      /\ object'[arg[f]] = object[arg[f]]
    PROVE  RowsInv'
<1>1. ASSUME NEW i \in DOMAIN idempotencyResults
      PROVE  RowInv(idempotencyResults[i])'
  <2>1. idempotencyResults[i] \in LogRow
    BY <1>1 DEF RowsInv
  <2>2. idempotencyResults[i].call \in LabFiles
    BY <2>1 DEF LogRow
  <2>3. RowInv(idempotencyResults[i])
    BY <1>1 DEF RowsInv
  <2> QED
    BY <2>2, <2>3 DEF RowInv
<1> QED
  BY <1>1 DEF RowsInv, Uploads!LogKeepsEveryCall

\* The steps of a call from its drop to its answer, and what the user types.
LEMMA LogOfNobody ==
    ASSUME LogInv,
           \/ \E k \in IdemKeys : Uploads!TypeKey(k)
           \/ \E m \in Uploads!Modes : Uploads!ChooseMode(m)
           \/ UNCHANGED uploadVars
    PROVE  LogInv'
<1> USE DEF Uploads!inputVars, Uploads!resultVars, Uploads!callVars,
            Uploads!apiVars, Uploads!historyVars
<1>1. UNCHANGED <<card, arg, phase, hit, cache, object, idempotencyResults,
                  logged, mixed>>
  BY DEF Uploads!TypeKey, Uploads!ChooseMode, uploadVars
<1>2. idempotencyKey' \in IdemKeys /\ sseMode' \in Uploads!Modes
  BY DEF Uploads!TypeKey, Uploads!ChooseMode, uploadVars, LogInv, LogTypes
<1>3. LogTypes'
  BY <1>1, <1>2 DEF LogInv, LogTypes
<1>4. CallsInv'
  BY <1>1 DEF LogInv, CallsInv, Active
<1>5. RowsInv'
  BY <1>1, RowsKept DEF LogInv
<1> QED
  BY <1>3, <1>4, <1>5 DEF LogInv

LEMMA LogLeft == ASSUME LogInv, Uploads!Leave PROVE LogInv'
<1>1. UNCHANGED <<card, arg, phase, hit, cache, object, mixed>>
  BY DEF Uploads!Leave, Uploads!apiVars
<1>2. idempotencyResults' = <<>> /\ logged' = {}
      /\ idempotencyKey' = FirstKey /\ sseMode' = "NONE"
  BY DEF Uploads!Leave
<1>3. LogTypes'
  BY <1>1, <1>2, UploadAssumption DEF LogInv, LogTypes, Uploads!Modes
<1>4. CallsInv'
  BY <1>1 DEF LogInv, CallsInv, Active
<1>5. RowsInv'
  BY <1>2 DEF RowsInv, Uploads!LogKeepsEveryCall
<1> QED
  BY <1>3, <1>4, <1>5 DEF LogInv

LEMMA LogDrop ==
    ASSUME LogInv, NEW f \in LabFiles, NEW c \in Uploads!Cards,
           Uploads!Drop(f, c)
    PROVE  LogInv'
<1> USE DEF Uploads!inputVars, Uploads!resultVars, Uploads!apiVars
<1>1. /\ phase[f] = "none" /\ LogTypes /\ CallsInv /\ RowsInv
      /\ UNCHANGED <<hit, cache, object, idempotencyResults, logged,
                     idempotencyKey>>
  BY DEF Uploads!Drop, LogInv
<1>2. /\ \A g \in LabFiles \ {f} :
             card'[g] = card[g] /\ arg'[g] = arg[g] /\ phase'[g] = phase[g]
      /\ card'[f] = c /\ arg'[f] = Uploads!Captured(c)
      /\ phase'[f] \in {"reading", "sent"}
      /\ mixed' = IF c = "idempotent" /\ Uploads!CallsWith(idempotencyKey) # {}
                  THEN mixed \cup {idempotencyKey} ELSE mixed
  BY <1>1 DEF Uploads!Drop, LogTypes
<1>3. Uploads!Captured(c) \in IdemKeys \cup Uploads!Modes
  BY <1>1 DEF Uploads!Captured, Uploads!Modes, LogTypes
<1>4. c = "idempotent" => Uploads!Captured(c) = idempotencyKey
  BY DEF Uploads!Captured
<1>5. LogTypes'
  <2>1. /\ card' = [card EXCEPT ![f] = c]
        /\ arg' = [arg EXCEPT ![f] = Uploads!Captured(c)]
        /\ phase' = [phase EXCEPT ![f] = phase'[f]]
        /\ sseMode' = sseMode
    BY <1>1 DEF Uploads!Drop, LogTypes
  <2> QED
    BY <1>1, <1>2, <1>3, <1>4, <2>1 DEF LogTypes
<1>6. CallsInv'
  <2>1. ASSUME NEW g \in LabFiles \ {f}
        PROVE  /\ Active(g)' <=> Active(g)
               /\ Active(g) /\ c = "idempotent" /\ arg[g] = idempotencyKey =>
                      idempotencyKey \in mixed'
    BY <1>2, <2>1 DEF Active, Uploads!CallsWith
  <2>2. Active(f)' => c = "idempotent" /\ arg'[f] = idempotencyKey
    BY <1>2, <1>4 DEF Active
  <2>3. ASSUME NEW a \in LabFiles, NEW b \in LabFiles, Active(a)', Active(b)',
               arg'[a] = arg'[b], arg'[a] \notin mixed'
        PROVE  a = b
    <3>1. CASE a = f \/ b = f
      BY <1>2, <2>1, <2>2, <2>3, <3>1
    <3>2. CASE a # f /\ b # f
      BY <1>1, <1>2, <2>1, <2>3, <3>2 DEF CallsInv
    <3> QED
      BY <3>1, <3>2
  <2>4. ASSUME NEW a \in LabFiles, Active(a)', arg'[a] \notin mixed'
        PROVE  /\ phase'[a] \in {"storing", "adrift"} =>
                      cache'[arg'[a]] = NoFile
               /\ phase'[a] = "answered" /\ ~hit'[a] =>
                      cache'[arg'[a]] = a /\ object'[arg'[a]] = a
    BY <1>1, <1>2, <2>1, <2>4 DEF CallsInv
  <2> QED
    BY <2>3, <2>4 DEF CallsInv
<1>7. RowsInv'
  BY <1>1, <1>2, RowsKept
<1> QED
  BY <1>5, <1>6, <1>7 DEF LogInv

\* One call moves on; cache, object and the log stay as they are.
LEMMA LogMoves ==
    ASSUME LogInv, NEW f \in LabFiles,
           phase[f] \notin {"none", "over"},
           NEW next \in {"sent", "storing", "adrift", "answered", "failed",
                         "over"},
           phase' = [phase EXCEPT ![f] = next],
           NEW isHit \in BOOLEAN, hit' = [hit EXCEPT ![f] = isHit],
           UNCHANGED <<idempotencyKey, sseMode, card, arg, cache, object,
                       idempotencyResults, logged, mixed>>,
           Active(f) /\ next \in {"storing", "adrift"} =>
               cache[arg[f]] = NoFile \/ arg[f] \in mixed,
           Active(f) /\ next = "answered" => isHit
    PROVE  LogInv'
<1>1. /\ \A g \in LabFiles \ {f} : phase'[g] = phase[g] /\ hit'[g] = hit[g]
      /\ phase'[f] = next /\ hit'[f] = isHit
      /\ LogTypes /\ CallsInv /\ RowsInv
  BY DEF LogInv, LogTypes
<1>2. LogTypes'
  BY <1>1 DEF LogTypes
<1>3. CallsInv'
  BY <1>1 DEF CallsInv, Active
<1>4. RowsInv'
  BY <1>1, RowsKept
<1> QED
  BY <1>2, <1>3, <1>4 DEF LogInv

LEMMA LogCallSteps ==
    ASSUME LogInv, NEW f \in LabFiles,
           \/ Uploads!Read(f) \/ Uploads!ReadFails(f) \/ Uploads!Arrive(f)
           \/ Uploads!Disconnect(f) \/ Uploads!CallFails(f)
           \/ \E isMultipart \in BOOLEAN : Uploads!HandleFile(f, isMultipart)
           \/ Uploads!HandleSseUpload(f) \/ Uploads!HandleElsewise(f)
    PROVE  LogInv'
<1> USE DEF Uploads!inputVars, Uploads!resultVars, Uploads!apiVars,
            Uploads!historyVars
<1>1. hit[f] \in BOOLEAN /\ hit = [hit EXCEPT ![f] = hit[f]]
  BY DEF LogInv, LogTypes
<1>2. CASE Uploads!Read(f)
  BY <1>1, <1>2, LogMoves DEF Uploads!Read
<1>3. CASE Uploads!ReadFails(f)
  BY <1>1, <1>3, LogMoves DEF Uploads!ReadFails
<1>4. CASE Uploads!CallFails(f)
  BY <1>1, <1>4, LogMoves DEF Uploads!CallFails
<1>5. CASE Uploads!Disconnect(f)
  <2>1. Active(f) => cache[arg[f]] = NoFile \/ arg[f] \in mixed
    BY <1>5 DEF Uploads!Disconnect, LogInv, CallsInv
  <2> QED
    BY <1>1, <1>5, <2>1, LogMoves DEF Uploads!Disconnect
<1>6. CASE Uploads!Arrive(f)
  <2>1. Uploads!Deduped(f) \in BOOLEAN
    BY DEF Uploads!Deduped
  <2>2. ~Uploads!Deduped(f) /\ Active(f) => cache[arg[f]] = NoFile
    BY DEF Uploads!Deduped, Active
  <2>3. CASE Uploads!Deduped(f)
    <3>1. hit' = [hit EXCEPT ![f] = TRUE]
          /\ phase' = [phase EXCEPT ![f] = "answered"]
      BY <1>6, <2>3 DEF Uploads!Arrive
    <3> QED
      BY <1>6, <3>1, LogMoves DEF Uploads!Arrive
  <2>4. CASE ~Uploads!Deduped(f)
    <3>1. hit' = [hit EXCEPT ![f] = FALSE]
          /\ phase' = [phase EXCEPT ![f] = "storing"]
      <4>1. Uploads!Deduped(f) = FALSE
        BY <2>1, <2>4
      <4> QED
        BY <1>6, <4>1 DEF Uploads!Arrive
    <3> QED
      BY <1>6, <2>2, <2>4, <3>1, LogMoves DEF Uploads!Arrive
  <2> QED
    BY <2>3, <2>4
<1>7. ASSUME \/ \E isMultipart \in BOOLEAN : Uploads!HandleFile(f, isMultipart)
             \/ Uploads!HandleSseUpload(f) \/ Uploads!HandleElsewise(f)
      PROVE  LogInv'
  <2>1. /\ phase[f] \notin {"none", "over"}
        /\ phase' = [phase EXCEPT ![f] = "over"]
        /\ UNCHANGED <<idempotencyKey, sseMode, card, arg, hit, cache, object,
                       idempotencyResults, logged, mixed>>
    <3>1. Uploads!Over(f) /\ UNCHANGED idempotencyResults
          /\ logged' = logged /\ phase[f] \in {"answered", "failed"}
      BY <1>7 DEF Uploads!HandleFile, Uploads!HandleSseUpload,
         Uploads!HandleElsewise
    <3> QED
      BY <3>1 DEF Uploads!Over
  <2> QED
    BY <1>1, <2>1, LogMoves
<1> QED
  BY <1>2, <1>3, <1>4, <1>5, <1>6, <1>7

\* A call whose object is stored, whatever it is answered.
LEMMA LogStores ==
    ASSUME LogInv, NEW f \in LabFiles,
           Uploads!Stored(f) \/ \E isStored \in BOOLEAN :
                                  Uploads!StoreFails(f, isStored)
    PROVE  LogInv'
<1> USE DEF Uploads!inputVars, Uploads!resultVars, Uploads!historyVars
<1>1. /\ phase[f] \in {"storing", "adrift"}
      /\ UNCHANGED <<idempotencyKey, sseMode, card, arg, hit,
                     idempotencyResults, logged, mixed>>
      /\ LogTypes /\ CallsInv /\ RowsInv
  BY DEF Uploads!Stored, Uploads!StoreFails, LogInv
<1>2. \/ cache' = cache /\ phase'[f] \in {"failed", "over"}
      \/ /\ cache' = IF card[f] = "idempotent"
                     THEN [cache EXCEPT ![arg[f]] = f] ELSE cache
         /\ object' = IF card[f] = "idempotent"
                      THEN [object EXCEPT ![arg[f]] = f] ELSE object
         /\ phase'[f] \in {"answered", "over"}
  BY <1>1 DEF Uploads!Stored, Uploads!StoreFails, Uploads!Put, Uploads!Answer,
     LogTypes
<1>3. /\ \A g \in LabFiles \ {f} : phase'[g] = phase[g]
      /\ phase' = [phase EXCEPT ![f] = phase'[f]]
  BY <1>1 DEF Uploads!Stored, Uploads!StoreFails, Uploads!Answer, LogTypes
<1>4. \/ object' = object
      \/ object' = IF card[f] = "idempotent"
                   THEN [object EXCEPT ![arg[f]] = f] ELSE object
  BY DEF Uploads!Stored, Uploads!StoreFails, Uploads!Put
<1>5. LogTypes'
  BY <1>1, <1>2, <1>3, <1>4 DEF LogTypes
<1>6. \A k \in IdemKeys :
        ~(card[f] = "idempotent" /\ arg[f] = k) =>
            cache'[k] = cache[k] /\ object'[k] = object[k]
  BY <1>1, <1>2, <1>4 DEF LogTypes
<1>7. /\ Active(f) <=> card[f] = "idempotent"
      /\ Active(f) /\ arg[f] \notin mixed => cache[arg[f]] = NoFile
      /\ Active(f)' => Active(f)
      /\ \A g \in LabFiles \ {f} : Active(g)' <=> Active(g)
  BY <1>1, <1>3 DEF Active, CallsInv
<1>8. CallsInv'
  <2>1. \A a, b \in LabFiles :
          Active(a)' /\ Active(b)' /\ arg[a] = arg[b] /\ arg[a] \notin mixed =>
              a = b
    BY <1>1, <1>7 DEF CallsInv
  <2>2. ASSUME NEW g \in LabFiles, Active(g)', arg[g] \notin mixed
        PROVE  /\ phase'[g] \in {"storing", "adrift"} => cache'[arg[g]] = NoFile
               /\ phase'[g] = "answered" /\ ~hit[g] =>
                      cache'[arg[g]] = g /\ object'[arg[g]] = g
    <3>1. CASE g = f
      <4>1. arg[f] \in IdemKeys /\ card[f] = "idempotent"
        BY <1>1, <1>7, <2>2, <3>1 DEF LogTypes, Active
      <4> QED
        BY <1>1, <1>2, <3>1, <4>1 DEF LogTypes
    <3>2. CASE g # f
      <4>1. Active(g) /\ arg[g] \in IdemKeys
        BY <1>1, <1>7, <2>2, <3>2 DEF Active, LogTypes
      <4>2. ~(card[f] = "idempotent" /\ arg[f] = arg[g])
        BY <1>1, <1>7, <2>2, <3>2, <4>1 DEF CallsInv
      <4> QED
        BY <1>1, <1>3, <1>6, <2>2, <3>2, <4>1, <4>2 DEF CallsInv
    <3> QED
      BY <3>1, <3>2
  <2> QED
    BY <1>1, <2>1, <2>2 DEF CallsInv
<1>9. RowsInv'
  <2>1. ASSUME NEW g \in LabFiles, card[g] = "idempotent", phase[g] = "over"
        PROVE  /\ card'[g] = card[g] /\ arg'[g] = arg[g] /\ phase'[g] = "over"
               /\ cache[arg[g]] = g /\ arg[g] \notin mixed' =>
                      /\ cache'[arg[g]] = cache[arg[g]]
                      /\ object'[arg[g]] = object[arg[g]]
    <3>1. g # f /\ arg[g] \in IdemKeys
      BY <1>1, <2>1 DEF LogTypes
    <3>2. cache[arg[g]] = g /\ arg[g] \notin mixed =>
            ~(card[f] = "idempotent" /\ arg[f] = arg[g])
      BY <1>7, UploadAssumption
    <3> QED
      BY <1>1, <1>3, <1>6, <2>1, <3>1, <3>2
  <2> QED
    BY <1>1, <2>1, RowsKept
<1> QED
  BY <1>5, <1>8, <1>9 DEF LogInv

\* The library forgets a key, which is mixed from then on.
LEMMA LogForgets ==
    ASSUME LogInv, NEW k \in IdemKeys, Uploads!Forget(k) PROVE LogInv'
<1>1. /\ cache' = [cache EXCEPT ![k] = NoFile]
      /\ mixed' = mixed \cup {k}
      /\ UNCHANGED <<idempotencyKey, sseMode, card, arg, phase, hit, object,
                     idempotencyResults, logged>>
      /\ LogTypes /\ CallsInv /\ RowsInv
  BY DEF Uploads!Forget, Uploads!inputVars, Uploads!resultVars,
     Uploads!callVars, LogInv
<1>2. LogTypes'
  BY <1>1 DEF LogTypes
<1>3. CallsInv'
  BY <1>1 DEF CallsInv, Active, LogTypes
<1>4. \A l \in IdemKeys : l \notin mixed' => cache'[l] = cache[l]
  BY <1>1 DEF LogTypes
<1>5. RowsInv'
  BY <1>1, <1>4, RowsKept DEF LogTypes
<1> QED
  BY <1>2, <1>3, <1>5 DEF LogInv

\* The end of an idempotent call: a row more.
LEMMA LogGrows ==
    ASSUME LogInv, NEW f \in LabFiles, Uploads!HandleIdempotentUpload(f)
    PROVE  LogInv'
<1>1. /\ card[f] = "idempotent" /\ phase[f] = "answered"
      /\ idempotencyResults' = Uploads!Logged(f)
      /\ logged' = logged \cup {f}
      /\ phase' = [phase EXCEPT ![f] = "over"]
      /\ UNCHANGED <<idempotencyKey, sseMode, card, arg, hit, cache, object,
                     mixed>>
      /\ LogTypes /\ CallsInv /\ RowsInv
  BY DEF Uploads!HandleIdempotentUpload, Uploads!Over, Uploads!inputVars,
     Uploads!apiVars, LogInv
<1>2. /\ \A g \in LabFiles \ {f} : phase'[g] = phase[g]
      /\ phase'[f] = "over"
  BY <1>1 DEF LogTypes
<1>3. LogTypes'
  BY <1>1 DEF LogTypes
<1>4. CallsInv'
  BY <1>1, <1>2 DEF CallsInv, Active
<1> DEFINE list == idempotencyResults
           row == [callId |-> Len(list) + 1, call |-> f, fromCache |-> hit[f]]
<1>5. list \in Seq(LogRow) /\ row \in LogRow
  BY <1>1 DEF RowsInv, LogRow, LogTypes
<1>6. list' = Append(list, row)
  BY <1>1 DEF Uploads!Logged
<1>7. /\ row.callId = Len(list) + 1 /\ row.call = f /\ row.fromCache = hit[f]
      /\ ~hit[f] /\ arg[f] \notin mixed =>
             cache[arg[f]] = f /\ object[arg[f]] = f
  BY <1>1 DEF CallsInv, Active
<1> HIDE DEF row
<1>8. /\ list' \in Seq(LogRow)
      /\ Len(list) \in Nat
      /\ DOMAIN list = 1..Len(list)
      /\ DOMAIN list' = 1..(Len(list) + 1)
      /\ list'[Len(list) + 1] = row
      /\ \A i \in DOMAIN list : list'[i] = list[i]
  BY <1>5, <1>6
<1>9. ASSUME NEW i \in DOMAIN list
      PROVE  /\ list[i].call \in LabFiles \ {f}
             /\ phase[list[i].call] = "over"
             /\ RowInv(list[i])
  <2>1. list[i] \in LogRow
    BY <1>5, <1>9
  <2>2. RowInv(list[i]) /\ list[i].call \in LabFiles
    BY <1>1, <1>9, <2>1 DEF RowsInv, LogRow
  <2> QED
    BY <1>1, <2>2 DEF RowInv
<1>10. ASSUME NEW i \in DOMAIN list' PROVE RowInv(list[i])'
  <2>1. CASE i \in DOMAIN list
    BY <1>1, <1>2, <1>8, <1>9, <2>1 DEF RowInv
  <2>2. CASE i = Len(list) + 1
    BY <1>1, <1>2, <1>7, <1>8, <2>2 DEF RowInv
  <2> QED
    BY <1>8, <2>1, <2>2
<1>11. \A i, j \in DOMAIN list' : list'[i].call = list'[j].call => i = j
  BY <1>1, <1>7, <1>8, <1>9 DEF RowsInv
<1>12. Uploads!LogKeepsEveryCall'
  <2>1. /\ logged = {list[i].call : i \in DOMAIN list}
        /\ \A i \in DOMAIN list : list[i].callId = i
    BY <1>1 DEF RowsInv, Uploads!LogKeepsEveryCall
  <2>2. \A i \in DOMAIN list' : list'[i].callId = i
    BY <1>7, <1>8, <2>1
  <2>3. logged' = {list'[i].call : i \in DOMAIN list'}
    BY <1>1, <1>7, <1>8, <2>1
  <2> QED
    BY <2>2, <2>3 DEF Uploads!LogKeepsEveryCall
<1>13. RowsInv'
  BY <1>8, <1>10, <1>11, <1>12 DEF RowsInv
<1> QED
  BY <1>3, <1>4, <1>13 DEF LogInv

LEMMA LogInvariant == DashboardSpec => []LogInv
<1>1. LogInv /\ [DashboardNext]_allVars => LogInv'
  BY UploadFrame, LogOfNobody, LogLeft, LogDrop, LogCallSteps, LogStores,
     LogForgets, LogGrows DEF Uploads!Next
<1> QED
  BY <1>1, LogInit, PTL DEF DashboardSpec

\* The upload lab's log has a row for every idempotent call that was answered,
\* and of calls with one key that follow one another one at most stored, whose
\* content the object still has.
THEOREM TheLogIsTrue == DashboardSpec => []LogIsTrue
<1>1. ASSUME LogInv PROVE LogIsTrue
  <2>1. Uploads!StoredOnce
    BY <1>1 DEF LogInv, RowsInv, RowInv, Uploads!StoredOnce
  <2> QED
    BY <1>1, <2>1 DEF LogInv, RowsInv, LogIsTrue
<1> QED
  BY <1>1, LogInvariant, PTL

-----------------------------------------------------------------------------
(* The scanner lab.                                                        *)

\* A call of the lab, whatever its parts.
IsScan(c) ==
    c = [id |-> c.id, marker |-> c.marker, seen |-> c.seen, phase |-> c.phase,
         code |-> c.code]

\* In pre-upload mode nothing waits in the bucket for its verdict.
ScanInv ==
    /\ \A c \in scans : IsScan(c)
    /\ config.mode = "pre-upload" =>
           "infected" \notin bucket /\ \A c \in scans : c.phase # "stored"
    /\ NoInfectedAtRest

\* The options of the API stay what they were at its start.
LEMMA ScannerFrame ==
    ASSUME [DashboardNext]_allVars
    PROVE  /\ config' = config
           /\ Scanner!Next \/ Scanner!Leave \/ UNCHANGED scannerVars
<1>1. ASSUME NEW to, NEW isOld, Navigate(to, isOld)
      PROVE  config' = config /\ (Scanner!Leave \/ UNCHANGED scannerVars)
  BY <1>1 DEF Navigate
<1>2. CASE SignedStep \/ TenantsStep \/ DirectStep
  BY <1>2 DEF SignedStep, TenantsStep, DirectStep
<1>3. CASE UploadStep \/ ViewsStep \/ DrawerStep
  BY <1>3 DEF UploadStep, ViewsStep, DrawerStep
<1>4. CASE ScannerStep
  <2>1. Scanner!Next
    BY <1>4 DEF ScannerStep
  <2>2. config' = config
    BY <2>1 DEF Scanner!Next, Scanner!TriggerScan, Scanner!OtherDeletes,
       Scanner!ProbeAnswers, Scanner!ProbeFails, Scanner!Exists,
       Scanner!ScanAccepted, Scanner!ScanRefused, Scanner!ScanAnswerLost,
       Scanner!UploadLands, Scanner!ScanStored, Scanner!ScanFails
  <2> QED
    BY <2>1, <2>2
<1>5. CASE ValidationStep
  <2>1. config' = config
    BY <1>5 DEF ValidationStep, Validation!Next, Validation!Trigger,
       Validation!Answers, Validation!ProviderFails, Validation!Shows,
       Validation!AnswerLost
  <2> QED
    BY <1>5, <2>1 DEF ValidationStep
<1>6. CASE ErrorsStep
  <2>1. config' = config
    BY <1>6 DEF ErrorsStep, Errors!Next, Errors!HandleTrigger,
       Errors!RunTrigger, Errors!ProviderFails, Errors!Answers,
       Errors!AnswerLost, Errors!OtherDeletes
  <2> QED
    BY <1>6, <2>1 DEF ErrorsStep
<1>7. CASE UNCHANGED allVars
  BY <1>7 DEF allVars
<1> QED
  BY <1>1, <1>2, <1>3, <1>4, <1>5, <1>6, <1>7 DEF DashboardNext

LEMMA ScanInit == DashboardInit => ScanInv
<1> SUFFICES ASSUME DashboardInit PROVE ScanInv
  OBVIOUS
<1>1. scans = {} /\ bucket = {}
  BY DEF DashboardInit, Scanner!Init
<1> QED
  BY <1>1 DEF ScanInv, NoInfectedAtRest, Scanner!NoInfectedAtRest

\* A call ends or goes on, and an object that waited for its verdict does not
\* stay behind; otherwise the fault is known, or the clean-up cannot reach it.
LEMMA ScanSettles ==
    ASSUME ScanInv, config' = config, NEW c \in scans, NEW d,
           scans' = scans \ {c} \/ scans' = (scans \ {c}) \cup {d},
           IsScan(d), d.marker = c.marker,
           d.phase \in {c.phase, "refused", "accepted"},
           bucket' \subseteq bucket,
           "infected" \in bucket' /\ unscanned => unscanned',
           "infected" \in bucket' /\ c.marker = "infected" /\ c.phase = "stored" =>
               \/ unscanned'
               \/ scans' = (scans \ {c}) \cup {d} /\ d.phase = "stored"
               \/ config.mode # "pre-upload" /\ config.prefixed
    PROVE  ScanInv'
<1>1. (\A e \in scans : IsScan(e))'
  BY DEF ScanInv
<1>2. (config.mode = "pre-upload" =>
           "infected" \notin bucket /\ \A e \in scans : e.phase # "stored")'
  BY DEF ScanInv
<1>3. NoInfectedAtRest'
  <2>1. ASSUME config.mode = "pre-upload" \/ ~config.prefixed,
               "infected" \in bucket', ~unscanned'
        PROVE  \E e \in scans' : e.marker = "infected" /\ e.phase = "stored"
    <3>1. PICK e \in scans : e.marker = "infected" /\ e.phase = "stored"
      BY <2>1 DEF ScanInv, NoInfectedAtRest, Scanner!NoInfectedAtRest
    <3> QED
      BY <2>1, <3>1 DEF ScanInv
  <2> QED
    BY <2>1 DEF NoInfectedAtRest, Scanner!NoInfectedAtRest
<1> QED
  BY <1>1, <1>2, <1>3 DEF ScanInv

\* No call moves.
LEMMA ScanRests ==
    ASSUME ScanInv, config' = config, scans' = scans, bucket' \subseteq bucket,
           "infected" \in bucket' /\ unscanned => unscanned'
    PROVE  ScanInv'
BY DEF ScanInv, NoInfectedAtRest, Scanner!NoInfectedAtRest

LEMMA ScanStep ==
    ASSUME ScanInv, config' = config, Scanner!Next \/ Scanner!Leave
    PROVE  ScanInv'
<1> USE DEF Scanner!pageVars
<1>1. ASSUME NEW m, Scanner!TriggerScan(m) PROVE ScanInv'
  <2> DEFINE d == [id |-> clicks', marker |-> m, seen |-> TRUE,
                   phase |-> "sent", code |-> Scanner!None]
  <2>1. scans' = scans \cup {d} /\ UNCHANGED <<bucket, unscanned>>
    BY <1>1 DEF Scanner!TriggerScan
  <2>2. IsScan(d) /\ d.phase # "stored"
    BY DEF IsScan
  <2> HIDE DEF d
  <2> QED
    BY <2>1, <2>2 DEF ScanInv, NoInfectedAtRest, Scanner!NoInfectedAtRest
<1>2. ASSUME NEW m, \/ Scanner!OtherDeletes(m) \/ Scanner!ProbeAnswers(m)
                    \/ Scanner!ProbeFails(m)
                    \/ \E b \in BOOLEAN : Scanner!Exists(m, b)
      PROVE  ScanInv'
  <2>1. CASE Scanner!OtherDeletes(m)
    <3>1. /\ scans' = scans /\ bucket' = bucket \ {m}
          /\ m # "infected" => (unscanned' <=> unscanned)
      BY <2>1 DEF Scanner!OtherDeletes
    <3> QED
      BY <3>1, ScanRests
  <2>2. CASE ~Scanner!OtherDeletes(m)
    <3>1. UNCHANGED <<scans, bucket, unscanned>>
      BY <1>2, <2>2 DEF Scanner!ProbeAnswers, Scanner!ProbeFails,
         Scanner!Exists
    <3> QED
      BY <3>1, ScanRests
  <2> QED
    BY <2>1, <2>2
<1>3. ASSUME NEW c \in scans,
             \/ Scanner!ScanRefused(c)
             \/ \E b \in BOOLEAN : Scanner!ScanAccepted(c, b)
      PROVE  ScanInv'
  <2>1. /\ scans' = scans \ {c} /\ c.phase \in {"refused", "accepted"}
        /\ UNCHANGED <<bucket, unscanned>>
    BY <1>3 DEF Scanner!ScanRefused, Scanner!ScanAccepted
  <2>2. IsScan(c)
    BY DEF ScanInv
  <2> QED
    BY <2>1, <2>2, ScanSettles
<1>4. ASSUME NEW c \in scans, Scanner!ScanAnswerLost(c) PROVE ScanInv'
  <2>1. PICK d : d = [c EXCEPT !.seen = FALSE]
    OBVIOUS
  <2>2. IsScan(c)
    BY DEF ScanInv
  <2>3. IsScan(d) /\ d.marker = c.marker /\ d.phase = c.phase
    BY <2>1, <2>2 DEF IsScan
  <2>4. scans' = (scans \ {c}) \cup {d} /\ UNCHANGED <<bucket, unscanned>>
    BY <1>4, <2>1 DEF Scanner!ScanAnswerLost
  <2> QED
    BY <2>3, <2>4, ScanSettles
<1>5. ASSUME NEW c \in scans, NEW p, NEW q, Scanner!Moves(c, p, q)
      PROVE  \E d : /\ scans' = (scans \ {c}) \cup {d}
                    /\ IsScan(d) /\ d.marker = c.marker /\ d.phase = p
  <2>1. PICK d : d = [c EXCEPT !.phase = p, !.code = q]
    OBVIOUS
  <2>2. IsScan(c)
    BY DEF ScanInv
  <2>3. IsScan(d) /\ d.marker = c.marker /\ d.phase = p
    BY <2>1, <2>2 DEF IsScan
  <2>4. scans' = (scans \ {c}) \cup {d}
    BY <1>5, <2>1 DEF Scanner!Moves
  <2> QED
    BY <2>3, <2>4
<1>6. ASSUME NEW c \in scans, Scanner!ScanFails(c) PROVE ScanInv'
  <2>1. PICK d : /\ scans' = (scans \ {c}) \cup {d}
                 /\ IsScan(d) /\ d.marker = c.marker /\ d.phase = "refused"
    BY <1>5, <1>6 DEF Scanner!ScanFails
  <2>2. /\ bucket' = bucket
        /\ unscanned' =
               (unscanned \/ (c.phase = "stored" /\ c.marker = "infected"))
    BY <1>6 DEF Scanner!ScanFails
  <2> QED
    BY <2>1, <2>2, ScanSettles
<1>7. ASSUME NEW c \in scans, Scanner!ScanStored(c) PROVE ScanInv'
  <2> DEFINE refusal == Scanner!ScanRefusal(config, Scanner!UploadOf(c.marker))
  <2>1. c.marker = "infected" => refusal # Scanner!None
    BY DEF Scanner!ScanRefusal, Scanner!Scan, Scanner!UploadOf, Scanner!Upload,
       Scanner!None
  <2>2. c.phase = "stored" /\ config.mode # "pre-upload"
    BY <1>7 DEF Scanner!ScanStored, ScanInv
  <2>3. CASE refusal = Scanner!None
    <3>1. Scanner!Moves(c, "accepted", Scanner!None)
          /\ UNCHANGED <<bucket, unscanned>>
      BY <1>7, <2>3 DEF Scanner!ScanStored
    <3>2. PICK d : /\ scans' = (scans \ {c}) \cup {d}
                   /\ IsScan(d) /\ d.marker = c.marker /\ d.phase = "accepted"
      BY <1>5, <3>1
    <3> QED
      BY <2>1, <2>3, <3>1, <3>2, ScanSettles
  <2>4. CASE refusal # Scanner!None
    <3>1. /\ Scanner!Moves(c, "refused", refusal)
          /\ \/ /\ ~config.prefixed /\ bucket' = bucket \ {c.marker}
                /\ unscanned' = (unscanned /\ c.marker # "infected")
             \/ config.prefixed /\ UNCHANGED <<bucket, unscanned>>
      BY <1>7, <2>4 DEF Scanner!ScanStored, Scanner!CleanUpReaches
    <3>2. PICK d : /\ scans' = (scans \ {c}) \cup {d}
                   /\ IsScan(d) /\ d.marker = c.marker /\ d.phase = "refused"
      BY <1>5, <3>1
    <3>3. CASE config.prefixed
      BY <2>2, <3>1, <3>2, <3>3, ScanSettles
    <3>4. CASE ~config.prefixed
      <4>1. /\ bucket' = bucket \ {c.marker}
            /\ c.marker # "infected" => (unscanned' <=> unscanned)
        BY <3>1, <3>4
      <4> QED
        BY <3>2, <4>1, ScanSettles
    <3> QED
      BY <3>3, <3>4
  <2> QED
    BY <2>3, <2>4
<1>8. ASSUME NEW c \in scans, Scanner!UploadLands(c) PROVE ScanInv'
  <2> DEFINE u == Scanner!UploadOf(c.marker)
             refusal == Scanner!Refusal(config, u)
  <2>1. /\ c.marker = "infected" => refusal # Scanner!None
        /\ Scanner!StoredBeforeScan(config, u) => config.mode # "pre-upload"
    BY DEF Scanner!Refusal, Scanner!ScanRefusal, Scanner!Scan,
       Scanner!UploadOf, Scanner!Upload, Scanner!None, Scanner!StoredBeforeScan
  <2>2. c.phase = "sent" /\ unscanned' = unscanned
    BY <1>8 DEF Scanner!UploadLands
  <2>3. CASE Scanner!StoredBeforeScan(config, u)
    <3>1. bucket' = bucket \cup {c.marker}
          /\ Scanner!Moves(c, "stored", Scanner!None)
      BY <1>8, <2>3 DEF Scanner!UploadLands
    <3>2. PICK d : /\ scans' = (scans \ {c}) \cup {d}
                   /\ IsScan(d) /\ d.marker = c.marker /\ d.phase = "stored"
      BY <1>5, <3>1
    <3> QED
      BY <2>1, <2>2, <2>3, <3>1, <3>2
      DEF ScanInv, NoInfectedAtRest, Scanner!NoInfectedAtRest
  <2>4. CASE ~Scanner!StoredBeforeScan(config, u) /\ refusal # Scanner!None
    <3>1. bucket' = bucket /\ Scanner!Moves(c, "refused", refusal)
      BY <1>8, <2>4 DEF Scanner!UploadLands
    <3>2. PICK d : /\ scans' = (scans \ {c}) \cup {d}
                   /\ IsScan(d) /\ d.marker = c.marker /\ d.phase = "refused"
      BY <1>5, <3>1
    <3> QED
      BY <2>2, <3>1, <3>2, ScanSettles
  <2>5. CASE ~Scanner!StoredBeforeScan(config, u) /\ refusal = Scanner!None
    <3>1. bucket' = bucket \cup {c.marker}
          /\ Scanner!Moves(c, "accepted", Scanner!None)
      BY <1>8, <2>5 DEF Scanner!UploadLands
    <3>2. PICK d : /\ scans' = (scans \ {c}) \cup {d}
                   /\ IsScan(d) /\ d.marker = c.marker /\ d.phase = "accepted"
      BY <1>5, <3>1
    <3> QED
      BY <2>1, <2>2, <2>5, <3>1, <3>2
      DEF ScanInv, NoInfectedAtRest, Scanner!NoInfectedAtRest
  <2> QED
    BY <2>3, <2>4, <2>5
<1>9. CASE Scanner!Leave
  <2>1. /\ scans' = {[c EXCEPT !.seen = FALSE] : c \in scans}
        /\ UNCHANGED <<bucket, unscanned>>
    BY <1>9 DEF Scanner!Leave
  <2>2. ASSUME NEW c \in scans, NEW d, d = [c EXCEPT !.seen = FALSE]
        PROVE  IsScan(d) /\ d.marker = c.marker /\ d.phase = c.phase
    <3>1. IsScan(c)
      BY DEF ScanInv
    <3> QED
      BY <2>2, <3>1 DEF IsScan
  <2>3. ASSUME NEW d \in scans'
        PROVE  IsScan(d) /\ \E c \in scans : d.phase = c.phase
    BY <2>1, <2>2
  <2>4. ASSUME NEW c \in scans
        PROVE  \E d \in scans' : d.marker = c.marker /\ d.phase = c.phase
    <3>1. PICK d \in scans' : d = [c EXCEPT !.seen = FALSE]
      BY <2>1
    <3> QED
      BY <2>2, <3>1
  <2> QED
    BY <2>1, <2>3, <2>4 DEF ScanInv, NoInfectedAtRest, Scanner!NoInfectedAtRest
<1> QED
  BY <1>1, <1>2, <1>3, <1>4, <1>6, <1>7, <1>8, <1>9 DEF Scanner!Next

\* In the scanner lab's mode pre-upload, or without a key prefix, infected
\* content is in the bucket only while the call that scans it is under way, or
\* after a fault that cut its scan short.
THEOREM InfectedNeverRests == DashboardSpec => []NoInfectedAtRest
<1>1. ScanInv /\ [DashboardNext]_allVars => ScanInv'
  <2>1. ASSUME ScanInv, config' = config, UNCHANGED scannerVars PROVE ScanInv'
    BY <2>1, ScanRests DEF scannerVars
  <2> QED
    BY <2>1, ScannerFrame, ScanStep
<1>2. ScanInv => NoInfectedAtRest
  BY DEF ScanInv
<1> QED
  BY <1>1, <1>2, ScanInit, PTL DEF DashboardSpec

-----------------------------------------------------------------------------
(* The session.                                                            *)

\* The options of the API stay what they were at its start.
LEMMA OptionsStay ==
    ASSUME [DashboardNext]_allVars PROVE config' = config
  BY ScannerFrame

\* One thing is done at a time, and not more than the bounds have.
LEMMA ClicksCount ==
    ASSUME clicks \in 0..MaxClicks, [DashboardNext]_allVars
    PROVE  \/ clicks' = clicks
           \/ /\ clicks' = clicks + 1
              /\ clicks < MaxClicks
<1> DEFINE Counts(max) == clicks' = clicks \/ (clicks' = clicks + 1 /\ clicks < max)
<1>1. CASE SignedStep
  <2>1. Signed!Next
    BY <1>1 DEF SignedStep
  <2>2. Counts(MaxCalls)
    BY <2>1 DEF Signed!Next, Signed!ListFirst, Signed!FirstAnswers,
       Signed!FirstFails, Signed!Reconnect, Signed!TypeKey, Signed!TypeTtl,
       Signed!HandleIssue, Signed!Sign, Signed!IssueAnswers,
       Signed!IssueRefused, Signed!IssueFails, Signed!Tick, Signed!TimePasses,
       Signed!Click
  <2> QED
    BY <2>2, BoundsAssumption
<1>2. CASE ScannerStep
  <2>1. Scanner!Next
    BY <1>2 DEF ScannerStep
  <2>2. Counts(MaxCalls)
    BY <2>1 DEF Scanner!Next, Scanner!TriggerScan, Scanner!OtherDeletes,
       Scanner!ProbeAnswers, Scanner!ProbeFails, Scanner!Exists,
       Scanner!ScanAccepted, Scanner!ScanRefused, Scanner!ScanAnswerLost,
       Scanner!UploadLands, Scanner!ScanStored, Scanner!ScanFails
  <2> QED
    BY <2>2, BoundsAssumption
<1>3. CASE ValidationStep
  <2>1. Counts(MaxCalls)
    BY <1>3 DEF ValidationStep, Validation!Next, Validation!Trigger,
       Validation!Answers, Validation!ProviderFails, Validation!Shows,
       Validation!AnswerLost
  <2> QED
    BY <2>1, BoundsAssumption
<1>4. CASE ErrorsStep
  <2>1. Counts(MaxCalls)
    BY <1>4 DEF ErrorsStep, Errors!Next, Errors!HandleTrigger,
       Errors!RunTrigger, Errors!ProviderFails, Errors!Answers,
       Errors!AnswerLost, Errors!OtherDeletes
  <2> QED
    BY <2>1, BoundsAssumption
<1>5. CASE TenantsStep
  <2>1. TenantsPanels!Next
    BY <1>5 DEF TenantsStep
  <2>2. Counts(MaxCalls)
    BY <2>1 DEF TenantsPanels!Next, TenantsPanels!List,
       TenantsPanels!ListAnswers, TenantsPanels!ListFails,
       TenantsPanels!Refresh, TenantsPanels!HandleUpload,
       TenantsPanels!HandleClear, TenantsPanels!OtherUploads,
       TenantsPanels!UploadLands, TenantsPanels!ClearDeletes,
       TenantsPanels!ClearEnds, TenantsPanels!CallAnswers,
       TenantsPanels!Settled, TenantsPanels!CallFails, TenantsPanels!Click
  <2> QED
    BY <2>2, BoundsAssumption
<1>6. CASE UploadStep
  <2>1. Uploads!Next
    BY <1>6 DEF UploadStep
  <2>2. Counts(MaxClicks)
    BY <2>1 DEF Uploads!Next, Uploads!TypeKey, Uploads!Forget,
       Uploads!ChooseMode, Uploads!Drop, Uploads!Read, Uploads!ReadFails,
       Uploads!Arrive, Uploads!Disconnect, Uploads!Stored, Uploads!CallFails,
       Uploads!StoreFails, Uploads!HandleFile, Uploads!HandleIdempotentUpload,
       Uploads!HandleSseUpload, Uploads!HandleElsewise, Uploads!Over,
       Uploads!Click
  <2> QED
    BY <2>2
<1>7. CASE DrawerStep
  <2>1. Drawer!Next
    BY <1>7 DEF DrawerStep
  <2>2. Counts(MaxCalls)
    BY <2>1 DEF Drawer!Next, Drawer!Close, Drawer!Invalidate, Drawer!Open,
       Drawer!Write, Drawer!CheckSize, Drawer!Download, Drawer!Fail,
       Drawer!Serve, Drawer!Answer, Drawer!Click
  <2> QED
    BY <2>2, BoundsAssumption
<1>8. CASE DirectStep \/ ViewsStep
  BY <1>8 DEF DirectStep, ViewsStep
<1>9. ASSUME NEW to, NEW isOld, Navigate(to, isOld) PROVE clicks' = clicks
  BY <1>9 DEF Navigate
<1>10. CASE UNCHANGED allVars
  BY <1>10 DEF allVars
<1> QED
  BY <1>1, <1>2, <1>3, <1>4, <1>5, <1>6, <1>7, <1>8, <1>9, <1>10
     DEF DashboardNext

SessionInv ==
    /\ route \in Routes
    /\ [pages |-> tour, config |-> config, queries |-> followed] \in Tours
    /\ clicks \in 0..MaxClicks

LEMMA SessionInvariant == DashboardSpec => []SessionInv
<1>1. DashboardInit => SessionInv
  <2> SUFFICES ASSUME DashboardInit PROVE SessionInv
    OBVIOUS
  <2>1. PICK t \in Tours :
          tour = t.pages /\ config = t.config /\ followed = t.queries
    BY DEF DashboardInit
  <2>2. t = [pages |-> t.pages, config |-> t.config, queries |-> t.queries]
    BY ToursAssumption
  <2>3. route \in Routes /\ clicks \in 0..MaxClicks
    BY BoundsAssumption DEF DashboardInit, Routes
  <2> QED
    BY <2>1, <2>2, <2>3 DEF SessionInv
<1>2. SessionInv /\ [DashboardNext]_allVars => SessionInv'
  <2> SUFFICES ASSUME SessionInv, [DashboardNext]_allVars PROVE SessionInv'
    OBVIOUS
  <2>1. tour' = tour /\ followed' = followed /\ route' \in Routes
    <3>1. ASSUME NEW to \in Routes, NEW isOld, Navigate(to, isOld)
          PROVE  tour' = tour /\ followed' = followed /\ route' \in Routes
      BY <3>1 DEF Navigate
    <3>2. CASE \/ SignedStep \/ ScannerStep \/ ValidationStep \/ ErrorsStep
               \/ TenantsStep
      BY <3>2 DEF SignedStep, ScannerStep, ValidationStep, ErrorsStep,
         TenantsStep, sessionVars, SessionInv
    <3>3. CASE DirectStep \/ UploadStep \/ ViewsStep \/ UNCHANGED allVars
      BY <3>3 DEF DirectStep, UploadStep, ViewsStep, allVars, sessionVars,
         SessionInv
    <3>4. CASE DrawerStep
      <4>1. Drawer!Next /\ tour' = tour /\ route' = route
        BY <3>4 DEF DrawerStep
      <4>2. followed' = followed
        BY <4>1 DEF Drawer!Next, Drawer!Close, Drawer!Invalidate, Drawer!Open,
           Drawer!Write, Drawer!CheckSize, Drawer!Download, Drawer!Fail,
           Drawer!Serve, Drawer!Answer
      <4> QED
        BY <4>1, <4>2 DEF SessionInv
    <3> QED
      BY <3>1, <3>2, <3>3, <3>4 DEF DashboardNext
  <2>2. clicks' \in 0..MaxClicks
    BY ClicksCount, BoundsAssumption DEF SessionInv
  <2> QED
    BY <2>1, <2>2, OptionsStay DEF SessionInv
<1> QED
  BY <1>1, <1>2, PTL DEF DashboardSpec

\* What the pages need to know of the session.
LEMMA SessionFacts ==
    ASSUME SessionInv
    PROVE  /\ clicks \in 0..MaxClicks
           /\ config \in Pipeline!Config
  BY ToursAssumption DEF SessionInv

-----------------------------------------------------------------------------
(* The signed URL page.                                                    *)

LEMMA SignedFrame ==
    ASSUME [DashboardNext]_allVars
    PROVE  \/ Signed!Next /\ route' = route
           \/ route = "signed" /\ Signed!Leave
           \/ \E isOld \in BOOLEAN : route # "signed" /\ Signed!Enter(isOld)
           \/ UNCHANGED signedVars /\ (route = "signed" => route' = route)
<1>1. ASSUME NEW to, NEW isOld \in BOOLEAN, Navigate(to, isOld)
      PROVE  \/ route = "signed" /\ Signed!Leave
             \/ route # "signed" /\ Signed!Enter(isOld)
             \/ UNCHANGED signedVars /\ route # "signed"
  BY <1>1 DEF Navigate
<1>2. CASE ScannerStep \/ ValidationStep \/ ErrorsStep \/ TenantsStep
  BY <1>2 DEF ScannerStep, ValidationStep, ErrorsStep, TenantsStep, sessionVars
<1>3. CASE DirectStep \/ UploadStep \/ ViewsStep \/ DrawerStep
  BY <1>3 DEF DirectStep, UploadStep, ViewsStep, DrawerStep, sessionVars
<1>4. CASE SignedStep
  BY <1>4 DEF SignedStep, sessionVars
<1>5. CASE UNCHANGED allVars
  BY <1>5 DEF allVars, sessionVars
<1> QED
  BY <1>1, <1>2, <1>3, <1>4, <1>5 DEF DashboardNext

MaybeKeys == Keys \cup {Signed!None}

LEMMA FirstQuery ==
    ASSUME NEW q \in Signed!Query(MaybeKeys)
    PROVE  /\ \A isOld \in BOOLEAN :
                  Signed!Mounting(q, isOld) \in Signed!Query(MaybeKeys)
           /\ \A key \in MaybeKeys :
                  Signed!Served(q, key) \in Signed!Query(MaybeKeys)
           /\ Signed!Answered(q) \in Signed!Query(MaybeKeys)
           /\ Signed!Failed(q) \in Signed!Query(MaybeKeys)
           /\ Signed!Fetching(q, FALSE) \in Signed!Query(MaybeKeys)
           /\ q.data \in MaybeKeys /\ q.answer \in MaybeKeys
  BY DEF Signed!Query, Signed!Mounting, Signed!Served, Signed!Answered,
         Signed!Failed, Signed!Fetching

\* The form: what was typed since the field was seeded is in it.
FormInv ==
    /\ first \in Signed!Query(MaybeKeys)
    /\ seeded \in BOOLEAN
    /\ objectKey \in Keys \cup {Blank}
    /\ typed \in Keys \cup {Blank, Signed!None}
    /\ requestedTtl \in Ttls \cup {FirstTtl}
    /\ typed # Signed!None => route = "signed" /\ seeded /\ objectKey = typed

\* A URL that answers the last request.
Answering(u) ==
    /\ u.key = asked.key
    /\ u.requestedTtlSeconds = asked.ttl
    /\ u.effectiveTtlSeconds <= asked.ttl
    /\ u.clamped <=> u.effectiveTtlSeconds < asked.ttl
    /\ u.expiresAt = u.signedAt + u.effectiveTtlSeconds * 2

\* The countdown: it was last right a second before the next tick, or later.
CountdownInv ==
    /\ remaining >= signedResult.expiresAt - (now + skew)
    /\ remaining <=
           Signed!Positive(signedResult.expiresAt - (nextTick - 2 + skew))
    /\ now <= nextTick + MaxLag

IssueTypes ==
    /\ issue \in [phase : {"idle", "sent", "signed", "refused"},
                  url : Signed!Url, code : Signed!Codes \cup {Signed!None}]
    /\ signedResult \in Signed!Url
    /\ error \in Signed!Codes \cup {Signed!None}
    /\ now \in 0..MaxNow
    /\ skew \in Int
    /\ remaining \in Nat
    /\ nextTick \in Nat
    /\ asked \in Signed!Request

IssueInv ==
    /\ IssueTypes
    /\ skew \in Skews \cup {0}
    /\ issue.phase = "signed" => Answering(issue.url)
    /\ signedResult # Signed!NoUrl => Answering(signedResult) /\ CountdownInv
    /\ issue.phase # "idle" => signedResult = Signed!NoUrl
    /\ issue.phase # "idle" => error = Signed!None
    /\ signedResult # Signed!NoUrl => error = Signed!None
    /\ route # "signed" =>
           issue.phase = "idle" /\ signedResult = Signed!NoUrl

SignedInv == FormInv /\ IssueInv

LEMMA SignedInit == DashboardInit => SignedInv
<1> SUFFICES ASSUME DashboardInit PROVE SignedInv
  OBVIOUS
<1>1. Signed!Init
  BY DEF DashboardInit
<1>2. FormInv
  BY <1>1 DEF Signed!Init, FormInv, Signed!NoQuery, Signed!Query, MaybeKeys
<1>3. Signed!NoUrl \in Signed!Url
  BY BoundsAssumption DEF Signed!NoUrl, Signed!Url
<1>4. Signed!NoRequest \in Signed!Request
  BY DEF Signed!NoRequest, Signed!Request
<1>5. Signed!Idle \in [phase : {"idle", "sent", "signed", "refused"},
                       url : Signed!Url, code : Signed!Codes \cup {Signed!None}]
      /\ Signed!Idle.phase = "idle"
  BY <1>3 DEF Signed!Idle
<1>6. 0 \in 0..MaxNow
  BY BoundsAssumption
<1>7. IssueTypes
  BY <1>1, <1>3, <1>4, <1>5, <1>6 DEF Signed!Init, IssueTypes
<1>8. IssueInv
  BY <1>1, <1>5, <1>7 DEF Signed!Init, IssueInv
<1> QED
  BY <1>2, <1>8 DEF SignedInv

\* The field, whoever writes to it.
LEMMA FormStep ==
    ASSUME FormInv,
           \/ Signed!Next /\ route' = route
           \/ route = "signed" /\ Signed!Leave
           \/ \E isOld \in BOOLEAN : route # "signed" /\ Signed!Enter(isOld)
           \/ UNCHANGED signedVars /\ (route = "signed" => route' = route)
    PROVE  FormInv'
<1> USE DEF Signed!pageVars, Signed!formVars, Signed!clockVars
<1>1. ASSUME NEW key \in MaybeKeys, Signed!ListFirst(key), route' = route
      PROVE  FormInv'
  BY <1>1, FirstQuery DEF Signed!ListFirst, FormInv
<1>2. CASE Signed!FirstAnswers /\ route' = route
  <2>1. first' \in Signed!Query(MaybeKeys) /\ first.answer \in MaybeKeys
    BY <1>2, FirstQuery DEF Signed!FirstAnswers, FormInv
  <2>2. \/ UNCHANGED <<objectKey, seeded>>
        \/ ~seeded /\ objectKey' \in Keys /\ seeded' = TRUE
    BY <1>2, <2>1 DEF Signed!FirstAnswers, Signed!Seed, MaybeKeys
  <2>3. UNCHANGED <<requestedTtl, typed>>
    BY <1>2 DEF Signed!FirstAnswers
  <2> QED
    BY <1>2, <2>1, <2>2, <2>3 DEF FormInv
<1>3. CASE Signed!FirstFails /\ route' = route
  BY <1>3, FirstQuery DEF Signed!FirstFails, FormInv
<1>4. CASE Signed!Reconnect /\ route' = route
  BY <1>4, FirstQuery DEF Signed!Reconnect, FormInv
<1>5. ASSUME NEW key \in Keys \cup {Blank}, Signed!TypeKey(key), route' = route
      PROVE  FormInv'
  BY <1>5 DEF Signed!TypeKey, Signed!Click, FormInv
<1>6. ASSUME NEW ttl \in Ttls, Signed!TypeTtl(ttl), route' = route
      PROVE  FormInv'
  BY <1>6 DEF Signed!TypeTtl, FormInv
<1>7. ASSUME \/ Signed!HandleIssue \/ Signed!Sign \/ Signed!IssueAnswers
             \/ Signed!IssueRefused \/ Signed!Tick \/ Signed!TimePasses
             \/ \E code : Signed!IssueFails(code),
             route' = route
      PROVE  FormInv'
  <2>1. UNCHANGED <<first, seeded, objectKey, requestedTtl, typed>>
    BY <1>7 DEF Signed!HandleIssue, Signed!Sign, Signed!IssueAnswers,
       Signed!IssueRefused, Signed!Tick, Signed!TimePasses, Signed!IssueFails
  <2> QED
    BY <1>7, <2>1 DEF FormInv
<1>8. CASE Signed!Leave
  BY <1>8 DEF Signed!Leave, FormInv
<1>9. ASSUME NEW isOld \in BOOLEAN, route # "signed", Signed!Enter(isOld)
      PROVE  FormInv'
  <2>1. first' \in Signed!Query(MaybeKeys) /\ first.data \in MaybeKeys
    BY <1>9, FirstQuery DEF Signed!Enter, FormInv
  <2>2. /\ objectKey' \in Keys \cup {Blank} /\ seeded' \in BOOLEAN
        /\ UNCHANGED <<requestedTtl, typed>>
    BY <1>9, <2>1 DEF Signed!Enter, MaybeKeys
  <2> QED
    BY <1>9, <2>1, <2>2 DEF FormInv
<1>10. CASE UNCHANGED signedVars /\ (route = "signed" => route' = route)
  BY <1>10 DEF signedVars, FormInv
<1> QED
  BY <1>1, <1>2, <1>3, <1>4, <1>5, <1>6, <1>7, <1>8, <1>9, <1>10
     DEF Signed!Next, MaybeKeys

LEMMA AskedTypes ==
    ASSUME IssueTypes
    PROVE  asked.key \in Keys \cup {Blank} /\ asked.ttl \in Nat
<1>1. asked.key \in Keys \cup {Blank} /\ asked.ttl \in Ttls \cup {0, FirstTtl}
  BY DEF IssueTypes, Signed!Request
<1>2. FirstTtl \in Nat /\ \A ttl \in Ttls : ttl \in Nat
  BY Zenon, TtlAssumption
<1> QED
  BY <1>1, <1>2

LEMMA SignTypes ==
    ASSUME IssueTypes, asked.ttl > 0, NEW u, u = Signed!CreateDownloadUrl(asked)
    PROVE  u \in Signed!Url /\ Answering(u)
<1> DEFINE signedAt == now - (now % 2)
           effective == Signed!Least(asked.ttl, MaxTtl)
<1>1. asked.key \in Keys \cup {Blank} /\ asked.ttl \in Nat /\ MaxTtl \in Nat
  BY AskedTypes, TtlAssumption
<1>2. signedAt \in 0..MaxNow
  BY BoundsAssumption DEF IssueTypes
<1>3. effective \in Nat /\ effective <= asked.ttl
  BY <1>1 DEF Signed!Least
<1>4. signedAt + effective * 2 \in Nat
  BY <1>2, <1>3, BoundsAssumption
<1>5. u = [key |-> asked.key, signedAt |-> signedAt,
           expiresAt |-> signedAt + effective * 2,
           requestedTtlSeconds |-> asked.ttl,
           effectiveTtlSeconds |-> effective,
           clamped |-> effective < asked.ttl]
  BY DEF Signed!CreateDownloadUrl, Signed!Expiry, Signed!Second
<1> HIDE DEF signedAt, effective
<1>6. u \in Signed!Url
  BY <1>1, <1>2, <1>3, <1>4, <1>5 DEF Signed!Url
<1>7. Answering(u)
  <2>1. /\ u.key = asked.key /\ u.requestedTtlSeconds = asked.ttl
        /\ u.effectiveTtlSeconds = effective /\ u.signedAt = signedAt
        /\ u.expiresAt = signedAt + effective * 2
    BY <1>5
  <2>2. u.clamped = (effective < asked.ttl)
    BY <1>5
  <2> QED
    BY <1>3, <2>1, <2>2 DEF Answering
<1> QED
  BY <1>6, <1>7

\* The countdown at an answer, at a tick and as time passes.
LEMMA CountdownStep ==
    ASSUME IssueTypes, now' = now, skew' = skew, signedResult' \in Signed!Url,
           remaining' = Signed!Positive(signedResult'.expiresAt - (now + skew)),
           \/ nextTick' = now + 2
           \/ /\ nextTick' = nextTick + 2 /\ now >= nextTick
              /\ now <= nextTick + MaxLag
    PROVE  remaining' \in Nat /\ nextTick' \in Nat /\ CountdownInv'
<1>1. now \in Nat /\ nextTick \in Nat /\ MaxLag \in Nat /\ skew \in Int
      /\ signedResult'.expiresAt \in Nat
  BY BoundsAssumption DEF IssueTypes, Signed!Url
<1> QED
  BY <1>1 DEF CountdownInv, Signed!Positive

LEMMA IssueStep ==
    ASSUME IssueInv, FormInv,
           \/ Signed!Next /\ route' = route
           \/ route = "signed" /\ Signed!Leave
    PROVE  IssueInv'
<1> USE DEF Signed!formVars, Signed!pageVars, Signed!issueVars,
            Signed!clockVars
<1>1. /\ IssueTypes
      /\ Signed!NoUrl \in Signed!Url /\ Signed!NoRequest \in Signed!Request
  BY BoundsAssumption DEF IssueInv, Signed!NoUrl, Signed!Url,
     Signed!NoRequest, Signed!Request
<1> DEFINE Issues == [phase : {"idle", "sent", "signed", "refused"},
                      url : Signed!Url, code : Signed!Codes \cup {Signed!None}]
<1>2. /\ Signed!Idle \in Issues /\ Signed!Idle.phase = "idle"
  BY <1>1 DEF Signed!Idle
<1>3. ASSUME UNCHANGED <<issue, signedResult, error, now, skew, remaining,
                         nextTick, asked>>, route' = route
      PROVE  IssueInv'
  BY <1>3 DEF IssueInv, IssueTypes, Answering, CountdownInv
<1>4. CASE Signed!HandleIssue /\ route' = route
  <2>1. /\ issue' = [Signed!Idle EXCEPT !.phase = "sent"]
        /\ asked' = [key |-> objectKey, ttl |-> requestedTtl]
        /\ signedResult' = Signed!NoUrl /\ error' = Signed!None
        /\ remaining' = 0 /\ nextTick' = 0 /\ now' = now /\ skew' = skew
        /\ route' = "signed"
    BY <1>4 DEF Signed!HandleIssue, Signed!Click
  <2>2. issue' \in Issues /\ issue'.phase = "sent"
    BY <1>2, <2>1
  <2>3. asked' \in Signed!Request
    BY <2>1 DEF FormInv, Signed!Request
  <2>4. IssueTypes'
    BY <1>1, <2>1, <2>2, <2>3 DEF IssueTypes
  <2> QED
    BY <2>1, <2>2, <2>4 DEF IssueInv
<1>5. CASE Signed!Sign /\ route' = route
  <2>1. /\ issue.phase = "sent"
        /\ UNCHANGED <<signedResult, error, remaining, nextTick, asked, now,
                       skew, route>>
    BY <1>5 DEF Signed!Sign
  <2>2. CASE asked.ttl <= 0
    <3>1. issue' = [Signed!Idle EXCEPT !.phase = "refused",
                              !.code = "STORAGE_SIGNED_URL_TTL_INVALID"]
      BY <1>5, <2>2 DEF Signed!Sign
    <3>2. issue' \in Issues /\ issue'.phase = "refused"
      BY <1>2, <3>1 DEF Signed!Codes
    <3> QED
      BY <1>1, <2>1, <3>2 DEF IssueInv, IssueTypes
  <2>3. CASE ~(asked.ttl <= 0)
    <3>1. PICK u : u = Signed!CreateDownloadUrl(asked)
      OBVIOUS
    <3>2. issue' = [Signed!Idle EXCEPT !.phase = "signed", !.url = u]
      BY <1>5, <2>3, <3>1 DEF Signed!Sign
    <3>3. asked.ttl > 0
      BY <1>1, <2>3, AskedTypes
    <3>4. u \in Signed!Url /\ Answering(u)
      BY <1>1, <3>1, <3>3, SignTypes
    <3>5. issue' \in Issues /\ issue'.phase = "signed" /\ issue'.url = u
      BY <1>2, <3>2, <3>4
    <3>6. Answering(u)'
      BY <2>1, <3>2, <3>4, <3>5 DEF Answering
    <3> QED
      BY <1>1, <2>1, <3>5, <3>6 DEF IssueInv, IssueTypes
  <2> QED
    BY <2>2, <2>3
<1>6. CASE Signed!IssueAnswers /\ route' = route
  <2>1. /\ issue.phase = "signed" /\ issue' = Signed!Idle
        /\ signedResult' = issue.url
        /\ remaining' = Signed!Positive(issue.url.expiresAt - (now + skew))
        /\ nextTick' = now + 2
        /\ UNCHANGED <<error, asked, now, skew, route>>
    BY <1>6 DEF Signed!IssueAnswers, Signed!Second, Signed!BrowserNow
  <2>2. signedResult' \in Signed!Url
    BY <1>1, <2>1 DEF IssueTypes
  <2>3. remaining' \in Nat /\ nextTick' \in Nat /\ CountdownInv'
    BY <1>1, <2>1, <2>2, CountdownStep
  <2>4. Answering(signedResult)' /\ error' = Signed!None
    BY <2>1 DEF IssueInv, Answering
  <2> QED
    BY <1>1, <1>2, <2>1, <2>2, <2>3, <2>4 DEF IssueInv, IssueTypes
<1>7. ASSUME NEW code \in Signed!Codes \cup {Signed!None},
             issue.phase # "idle", issue' = Signed!Idle, error' = code,
             UNCHANGED <<signedResult, remaining, nextTick, asked, now, skew,
                         route>>
      PROVE  IssueInv'
  BY <1>1, <1>2, <1>7 DEF IssueInv, IssueTypes
<1>8. CASE Signed!IssueRefused /\ route' = route
  <2>1. issue.code \in Signed!Codes \cup {Signed!None}
    BY <1>1 DEF IssueTypes
  <2> QED
    BY <1>7, <1>8, <2>1 DEF Signed!IssueRefused
<1>9. ASSUME NEW code \in {"STORAGE_PROVIDER_ERROR", Signed!None},
             Signed!IssueFails(code), route' = route
      PROVE  IssueInv'
  <2>1. code \in Signed!Codes \cup {Signed!None}
    BY DEF Signed!Codes
  <2> QED
    BY <1>7, <1>9, <2>1 DEF Signed!IssueFails
<1>10. CASE Signed!Tick /\ route' = route
  <2>1. /\ signedResult # Signed!NoUrl /\ now >= nextTick
        /\ remaining' = Signed!Positive(signedResult.expiresAt - (now + skew))
        /\ nextTick' = nextTick + 2
        /\ UNCHANGED <<issue, signedResult, error, asked, now, skew, route>>
    BY <1>10 DEF Signed!Tick, Signed!HasCountdown, Signed!Second,
       Signed!BrowserNow
  <2>2. now <= nextTick + MaxLag /\ Answering(signedResult)
    BY <2>1 DEF IssueInv, CountdownInv
  <2>3. remaining' \in Nat /\ nextTick' \in Nat /\ CountdownInv'
    BY <1>1, <2>1, <2>2, CountdownStep DEF IssueTypes
  <2> QED
    BY <1>1, <2>1, <2>2, <2>3 DEF IssueInv, IssueTypes, Answering
<1>11. CASE Signed!TimePasses /\ route' = route
  <2>1. /\ now < MaxNow /\ now' = now + 1
        /\ signedResult # Signed!NoUrl => now < nextTick + MaxLag
        /\ UNCHANGED <<issue, signedResult, error, asked, remaining, nextTick,
                       skew, route>>
    BY <1>11 DEF Signed!TimePasses, Signed!HasCountdown
  <2>2. now' \in 0..MaxNow
    BY <1>1, <2>1, BoundsAssumption DEF IssueTypes
  <2>3. ASSUME signedResult # Signed!NoUrl PROVE CountdownInv'
    <3>1. now \in Nat /\ nextTick \in Nat /\ MaxLag \in Nat /\ remaining \in Nat
          /\ signedResult.expiresAt \in Nat /\ skew \in Int
      BY <1>1, BoundsAssumption DEF IssueTypes, Signed!Url
    <3> QED
      BY <2>1, <2>3, <3>1 DEF IssueInv, CountdownInv, Signed!Positive
  <2> QED
    BY <1>1, <2>1, <2>2, <2>3 DEF IssueInv, IssueTypes, Answering
<1>12. CASE Signed!Leave
  <2>1. 0 \in 0..MaxNow
    BY BoundsAssumption
  <2> QED
    BY <1>1, <1>2, <1>12, <2>1 DEF Signed!Leave, IssueInv, IssueTypes
<1>13. ASSUME \/ \E key : Signed!ListFirst(key) \/ Signed!TypeKey(key)
              \/ \E ttl : Signed!TypeTtl(ttl)
              \/ Signed!FirstAnswers \/ Signed!FirstFails \/ Signed!Reconnect,
              route' = route
       PROVE  IssueInv'
  BY <1>3, <1>13 DEF Signed!ListFirst, Signed!TypeKey, Signed!TypeTtl,
     Signed!FirstAnswers, Signed!FirstFails, Signed!Reconnect
<1> QED
  BY <1>4, <1>5, <1>6, <1>8, <1>9, <1>10, <1>11, <1>12, <1>13 DEF Signed!Next

LEMMA SignedInvariant == DashboardSpec => []SignedInv
<1>1. SignedInv /\ [DashboardNext]_allVars => SignedInv'
  <2> SUFFICES ASSUME SignedInv, [DashboardNext]_allVars PROVE SignedInv'
    OBVIOUS
  <2>1. FormInv'
    BY SignedFrame, FormStep DEF SignedInv
  <2>2. ASSUME NEW isOld, route # "signed", Signed!Enter(isOld)
        PROVE  IssueInv'
    <3>1. skew' \in Int /\ skew' \in Skews \cup {0}
      BY <2>2, SkewAssumption DEF Signed!Enter
    <3>2. /\ UNCHANGED <<issue, signedResult, error, now, remaining, nextTick,
                         asked>>
          /\ issue.phase = "idle" /\ signedResult = Signed!NoUrl
      BY <2>2 DEF Signed!Enter, Signed!issueVars, SignedInv, IssueInv
    <3> QED
      BY <3>1, <3>2 DEF SignedInv, IssueInv, IssueTypes
  <2>3. ASSUME UNCHANGED signedVars, route = "signed" => route' = route
        PROVE  IssueInv'
    BY <2>3 DEF SignedInv, IssueInv, IssueTypes, Answering, CountdownInv,
       signedVars
  <2>4. ASSUME \/ Signed!Next /\ route' = route
               \/ route = "signed" /\ Signed!Leave
        PROVE  IssueInv'
    BY <2>4, IssueStep DEF SignedInv
  <2>5. IssueInv'
    BY <2>2, <2>3, <2>4, SignedFrame
  <2> QED
    BY <2>1, <2>5 DEF SignedInv
<1> QED
  BY <1>1, SignedInit, PTL DEF DashboardSpec

\* The signed URL page keeps what the user typed once its field was seeded, and
\* its card speaks of the last request, its countdown of the
\* URL's own expiry, as far as the browser's clock tells it.
THEOREM SignedUrlTold == DashboardSpec => []SignedUrlIsTold
<1>1. ASSUME SignedInv PROVE SignedUrlIsTold
  <2>1. Signed!TypedKeyStands
    BY <1>1 DEF SignedInv, FormInv, Signed!TypedKeyStands
  <2>2. ASSUME signedResult # Signed!NoUrl
        PROVE  LET expiry == signedResult.signedAt
                               + signedResult.effectiveTtlSeconds * 2
                   left == Signed!Positive(expiry - now)
               IN  /\ signedResult.key = asked.key
                   /\ signedResult.requestedTtlSeconds = asked.ttl
                   /\ Signed!WasClamped <=> expiry < signedResult.signedAt
                                                       + asked.ttl * 2
                   /\ Signed!IsExpired => left <= Signed!Positive(skew)
                   /\ left < (Signed!FormatCountdown + 1) * 2
                                + Signed!Positive(skew)
                   /\ Signed!FormatCountdown * 2
                          <= left + 2 + MaxLag + Signed!Positive(0 - skew)
    <3>1. IssueTypes /\ Answering(signedResult) /\ CountdownInv
      BY <1>1, <2>2 DEF SignedInv, IssueInv
    <3> DEFINE s == signedResult.signedAt
               e == signedResult.effectiveTtlSeconds
               x == signedResult.expiresAt
               r == signedResult.requestedTtlSeconds
    <3>2. /\ s \in Nat /\ e \in Nat /\ x \in Nat /\ r \in Nat
          /\ now \in Nat /\ remaining \in Nat /\ nextTick \in Nat /\ MaxLag \in Nat
          /\ skew \in Int
      BY <3>1, BoundsAssumption DEF IssueTypes, Signed!Url
    <3>3. /\ x = s + e * 2 /\ r = asked.ttl
          /\ signedResult.clamped <=> e < r
          /\ remaining >= x - (now + skew)
          /\ remaining <= Signed!Positive(x - (nextTick - 2 + skew))
          /\ now <= nextTick + MaxLag
      BY <3>1 DEF Answering, CountdownInv
    <3>4. Signed!WasClamped <=> e < r
      BY <3>3 DEF Signed!WasClamped
    <3> HIDE DEF s, e, x, r
    <3>5. e < r <=> s + e * 2 < s + r * 2
      BY <3>2
    <3>6. /\ Signed!IsExpired => Signed!Positive(x - now) <= Signed!Positive(skew)
          /\ Signed!Positive(x - now) < (Signed!FormatCountdown + 1) * 2
                                          + Signed!Positive(skew)
          /\ Signed!FormatCountdown * 2
                 <= Signed!Positive(x - now) + 2 + MaxLag
                      + Signed!Positive(0 - skew)
      <4>1. /\ Signed!Positive(x - now) \in Nat
            /\ Signed!Positive(x - now) <= remaining + Signed!Positive(skew)
            /\ remaining <= Signed!Positive(x - now) + 2 + MaxLag
                              + Signed!Positive(0 - skew)
            /\ Signed!Positive(skew) \in Nat /\ Signed!Positive(0 - skew) \in Nat
        BY <3>2, <3>3 DEF Signed!Positive
      <4> QED
        BY <3>2, <4>1 DEF Signed!IsExpired, Signed!FormatCountdown,
           Signed!Second
    <3> QED
      BY <3>1, <3>3, <3>4, <3>5, <3>6 DEF Answering, s, e, r
  <2> QED
    BY <2>1, <2>2 DEF SignedUrlIsTold, Signed!CardTellsTheUrl,
       Signed!HasCountdown, Signed!Second
<1> QED
  BY <1>1, SignedInvariant, PTL

\* What a scan of marked text comes to, before the upload or after it.
Verdict(m) == Scanner!Refusal(config, Scanner!UploadOf(m))

\* What a call that was refused carries.
Refuses(c) ==
    c.phase = "refused" =>
        c.code \in {Verdict(c.marker), "STORAGE_PROVIDER_ERROR"}

\* As long as no two calls of a visit overlap: there is one, of the last click,
\* beside an empty page, or what is shown is of the last click.
ShownInv ==
    /\ \A c, d \in scans : c.seen /\ d.seen => c = d
    /\ \A c \in scans : c.seen =>
           /\ c.marker = latestScan
           /\ scanResult = Scanner!None /\ scanEnvelope = Scanner!None
    /\ scanResult \in {Scanner!None, latestScan}
    /\ scanEnvelope \in {Scanner!None, "STORAGE_PROVIDER_ERROR"}
           \cup {Verdict(m) : m \in {latestScan} \cap Scanner!Markers}
    /\ scanResult = Scanner!None \/ scanEnvelope = Scanner!None

\* As long as nobody meddles, what was accepted or will be stays in the bucket,
\* and only of such content the existence is asked.
ProofInv ==
    /\ \A c \in scans :
           /\ c.phase = "accepted" => Verdict(c.marker) = Scanner!None
           /\ c.phase \in {"stored", "accepted"}
                /\ Verdict(c.marker) = Scanner!None => c.marker \in bucket
    /\ \A m \in Scanner!Markers :
           /\ probes[m].fetch # "idle" =>
                  m \in bucket /\ Verdict(m) = Scanner!None
           /\ probes[m].data # "false" /\ probes[m].answer # "false"

LabInv ==
    /\ Scanner!TypeOK
    /\ \A c \in scans : Refuses(c)
    /\ ~scansOverlapped => ShownInv
    /\ ~meddled => ProofInv

LEMMA LabInit ==
    ASSUME DashboardInit, config \in Pipeline!Config PROVE LabInv
<1>1. Scanner!Init 
  BY DEF DashboardInit
<1>2. config \in Scanner!Config
  BY DEF Pipeline!Config, Scanner!Config
<1>3. Scanner!NoQuery(Scanner!None) \in Scanner!Query(Scanner!Probe)
      /\ Scanner!NoQuery(Scanner!None).fetch = "idle"
      /\ Scanner!NoQuery(Scanner!None).data # "false"
      /\ Scanner!NoQuery(Scanner!None).answer # "false"
  BY DEF Scanner!NoQuery, Scanner!Query, Scanner!Probe, Scanner!None
<1>4. Scanner!TypeOK
  BY <1>1, <1>2, <1>3 DEF Scanner!Init, Scanner!TypeOK, Scanner!MaybeMarker
<1>5. ShownInv /\ ProofInv
  BY <1>1, <1>3 DEF Scanner!Init, ShownInv, ProofInv
<1> QED
  BY <1>1, <1>4, <1>5 DEF Scanner!Init, LabInv

\* The library's stages on a marked text: the scan alone decides, and before the
\* upload as it does after it.
LEMMA TextVerdict ==
    ASSUME config \in Scanner!Config, NEW m \in Scanner!Markers
    PROVE  /\ Verdict(m) = Scanner!ScanRefusal(config, Scanner!UploadOf(m))
           /\ Verdict(m) \in Scanner!Codes \cup {Scanner!None}
           /\ config.mode = "post-upload" <=>
                  Scanner!StoredBeforeScan(config, Scanner!UploadOf(m))
<1>1. config.maxSize \in Nat
  BY DEF Scanner!Config
<1>2. Scanner!UploadOf(m) = [mime |-> "text/plain", size |-> 0,
                             forged |-> FALSE, inBody |-> m, inKey |-> m]
  BY DEF Scanner!UploadOf, Scanner!Upload
<1>3. Scanner!ValidationRefusal(config, Scanner!UploadOf(m)) = Scanner!None
  BY <1>1, <1>2 DEF Scanner!ValidationRefusal, Scanner!MimeWhitelist,
     Scanner!PdfMagicBytes
<1> QED
  BY <1>3 DEF Verdict, Scanner!Refusal, Scanner!ScanRefusal, Scanner!Codes,
     Scanner!StoredBeforeScan

LEMMA ProbeQuery ==
    ASSUME NEW q \in Scanner!Query(Scanner!Probe)
    PROVE  /\ \A isOld \in BOOLEAN :
                  /\ Scanner!Mounting(q, isOld) \in Scanner!Query(Scanner!Probe)
                  /\ Scanner!Mounting(q, isOld).data = q.data
                  /\ Scanner!Mounting(q, isOld).answer \in {q.data, q.answer}
           /\ \A answer \in Scanner!Probe :
                  /\ Scanner!Served(q, answer) \in Scanner!Query(Scanner!Probe)
                  /\ Scanner!Served(q, answer).data = q.data
                  /\ Scanner!Served(q, answer).answer = answer
           /\ Scanner!Answered(q) \in Scanner!Query(Scanner!Probe)
           /\ Scanner!Answered(q).data = q.answer
           /\ Scanner!Answered(q).answer = q.answer
           /\ Scanner!Answered(q).fetch = "idle"
           /\ Scanner!Failed(q) \in Scanner!Query(Scanner!Probe)
           /\ Scanner!Failed(q).data = q.data
           /\ Scanner!Failed(q).answer = q.data
           /\ Scanner!Failed(q).fetch = "idle"
  BY DEF Scanner!Query, Scanner!Mounting, Scanner!Fetching, Scanner!Served,
         Scanner!Answered, Scanner!Failed

\* One call ends, or goes on as d; the bucket and the page move as they may.
LEMMA LabSettles ==
    ASSUME LabInv, config' = config, NEW c \in scans, NEW d,
           scans' = scans \ {c} \/ scans' = (scans \ {c}) \cup {d},
           d \in Scanner!Call, Refuses(d),
           d.marker = c.marker, d.seen => c.seen,
           UNCHANGED <<scanResult, scanEnvelope, latestScan, scansOverlapped,
                       probes, meddled>>,
           bucket' \in SUBSET Scanner!Markers, unscanned' \in BOOLEAN,
           \A m \in bucket : Verdict(m) = Scanner!None => m \in bucket',
           ~meddled =>
               /\ d.phase = "accepted" => Verdict(d.marker) = Scanner!None
               /\ d.phase \in {"stored", "accepted"}
                    /\ Verdict(d.marker) = Scanner!None => d.marker \in bucket'
    PROVE  LabInv'
<1>1. \A m : Verdict(m)' = Verdict(m)
  BY DEF Verdict, Scanner!Refusal, Scanner!ValidationRefusal,
     Scanner!PdfMagicBytes, Scanner!ScanRefusal, Scanner!Scan
<1>2. \A e \in scans' : e \in scans \/ e = d
  OBVIOUS
<1>3. Scanner!TypeOK'
  BY <1>2 DEF LabInv, Scanner!TypeOK
<1>4. \A e \in scans' : Refuses(e)'
  BY <1>1, <1>2 DEF LabInv, Refuses
<1>5. ASSUME ~scansOverlapped PROVE ShownInv'
  BY <1>1, <1>2, <1>5 DEF LabInv, ShownInv
<1>6. ASSUME ~meddled PROVE ProofInv'
  BY <1>1, <1>2, <1>6 DEF LabInv, ProofInv
<1> QED
  BY <1>3, <1>4, <1>5, <1>6 DEF LabInv

\* The API's side of a call, and a lost answer.
LEMMA LabCallStep ==
    ASSUME LabInv, config' = config, NEW c \in scans,
           \/ Scanner!ScanAnswerLost(c) \/ Scanner!UploadLands(c)
           \/ Scanner!ScanStored(c) \/ Scanner!ScanFails(c)
    PROVE  LabInv'
<1> USE DEF Scanner!pageVars
<1>1. /\ c \in Scanner!Call /\ c.marker \in Scanner!Markers
      /\ config \in Scanner!Config /\ bucket \subseteq Scanner!Markers
      /\ unscanned \in BOOLEAN /\ Refuses(c)
  BY DEF LabInv, Scanner!TypeOK, Scanner!Call
<1> DEFINE v == Verdict(c.marker)
<1>2. /\ v = Scanner!ScanRefusal(config, Scanner!UploadOf(c.marker))
      /\ v = Scanner!Refusal(config, Scanner!UploadOf(c.marker))
      /\ v \in Scanner!Codes \cup {Scanner!None}
      /\ config.mode = "post-upload" <=>
             Scanner!StoredBeforeScan(config, Scanner!UploadOf(c.marker))
  BY <1>1, TextVerdict DEF Verdict
<1>3. CASE Scanner!ScanAnswerLost(c)
  <2>1. PICK d : d = [c EXCEPT !.seen = FALSE]
    OBVIOUS
  <2>2. /\ d \in Scanner!Call /\ d.marker = c.marker /\ d.phase = c.phase
        /\ d.code = c.code /\ ~d.seen
    BY <1>1, <2>1 DEF Scanner!Call
  <2>3. /\ scans' = (scans \ {c}) \cup {d}
        /\ UNCHANGED <<scanResult, scanEnvelope, latestScan, scansOverlapped,
                       probes, meddled, bucket, unscanned>>
    BY <1>3, <2>1 DEF Scanner!ScanAnswerLost
  <2>4. Refuses(d)
    BY <1>1, <2>2 DEF Refuses
  <2>5. ASSUME ~meddled
        PROVE  /\ d.phase = "accepted" => Verdict(d.marker) = Scanner!None
               /\ d.phase \in {"stored", "accepted"}
                    /\ Verdict(d.marker) = Scanner!None => d.marker \in bucket'
    BY <2>2, <2>3, <2>5 DEF LabInv, ProofInv
  <2> QED
    BY <1>1, <2>2, <2>3, <2>4, <2>5, LabSettles
<1>4. ASSUME NEW ph \in {"stored", "accepted", "refused"},
             NEW code \in Scanner!Codes \cup {Scanner!None},
             Scanner!Moves(c, ph, code)
      PROVE  \E d \in Scanner!Call :
                 /\ scans' = (scans \ {c}) \cup {d}
                 /\ d.marker = c.marker /\ d.seen = c.seen
                 /\ d.phase = ph /\ d.code = code
  <2>1. PICK d : d = [c EXCEPT !.phase = ph, !.code = code]
    OBVIOUS
  <2>2. /\ d \in Scanner!Call
        /\ d.marker = c.marker /\ d.seen = c.seen
        /\ d.phase = ph /\ d.code = code
    BY <1>1, <2>1 DEF Scanner!Call
  <2>3. scans' = (scans \ {c}) \cup {d}
    BY <1>4, <2>1 DEF Scanner!Moves
  <2> QED
    BY <2>2, <2>3
<1>5. CASE Scanner!ScanFails(c)
  <2>1. PICK d \in Scanner!Call :
             /\ scans' = (scans \ {c}) \cup {d}
             /\ d.marker = c.marker /\ d.seen = c.seen
             /\ d.phase = "refused" /\ d.code = "STORAGE_PROVIDER_ERROR"
    BY <1>4, <1>5 DEF Scanner!ScanFails, Scanner!Codes
  <2>2. /\ UNCHANGED <<scanResult, scanEnvelope, latestScan, scansOverlapped,
                       probes, meddled, bucket>>
        /\ unscanned' = (unscanned \/
                             (c.phase = "stored" /\ c.marker = "infected"))
    BY <1>5 DEF Scanner!ScanFails
  <2>3. unscanned' \in BOOLEAN
    BY <2>2
  <2>4. Refuses(d)
    BY <2>1 DEF Refuses
  <2> QED
    BY <1>1, <2>1, <2>2, <2>3, <2>4, LabSettles
<1>6. CASE Scanner!ScanStored(c)
  <2>1. /\ c.phase = "stored"
        /\ UNCHANGED <<scanResult, scanEnvelope, latestScan, scansOverlapped,
                       probes, meddled>>
    BY <1>6 DEF Scanner!ScanStored
  <2>2. CASE v = Scanner!None
    <3>1. Scanner!Moves(c, "accepted", v) /\ UNCHANGED <<bucket, unscanned>>
      BY <1>2, <1>6, <2>2 DEF Scanner!ScanStored
    <3>2. PICK d \in Scanner!Call :
               /\ scans' = (scans \ {c}) \cup {d}
               /\ d.marker = c.marker /\ d.seen = c.seen
               /\ d.phase = "accepted" /\ d.code = v
      BY <1>2, <1>4, <3>1
    <3>3. Refuses(d)
      BY <3>2 DEF Refuses
    <3>4. ASSUME ~meddled PROVE c.marker \in bucket
      BY <2>1, <2>2, <3>4 DEF LabInv, ProofInv
    <3> QED
      BY <1>1, <2>1, <2>2, <3>1, <3>2, <3>3, <3>4, LabSettles
  <2>3. CASE v # Scanner!None
    <3>1. /\ Scanner!Moves(c, "refused", v)
          /\ \/ bucket' = bucket \ {c.marker}
                /\ unscanned' = (unscanned /\ c.marker # "infected")
             \/ UNCHANGED <<bucket, unscanned>>
      BY <1>2, <1>6, <2>3 DEF Scanner!ScanStored
    <3>2. PICK d \in Scanner!Call :
               /\ scans' = (scans \ {c}) \cup {d}
               /\ d.marker = c.marker /\ d.seen = c.seen
               /\ d.phase = "refused" /\ d.code = v
      BY <1>2, <1>4, <3>1
    <3>3. Refuses(d)
      BY <3>2 DEF Refuses
    <3>4. bucket' \in SUBSET Scanner!Markers /\ unscanned' \in BOOLEAN
      BY <1>1, <3>1
    <3>5. \A m \in bucket : Verdict(m) = Scanner!None => m \in bucket'
      BY <2>3, <3>1
    <3> QED
      BY <1>1, <2>1, <3>2, <3>3, <3>4, <3>5, LabSettles
  <2> QED
    BY <2>2, <2>3
<1>7. CASE Scanner!UploadLands(c)
  <2>1. /\ UNCHANGED <<scanResult, scanEnvelope, latestScan, scansOverlapped,
                       probes, meddled, unscanned>>
        /\ \/ /\ bucket' = bucket \cup {c.marker}
              /\ Scanner!Moves(c, "stored", Scanner!None)
           \/ v # Scanner!None /\ bucket' = bucket /\ Scanner!Moves(c, "refused", v)
           \/ /\ v = Scanner!None /\ bucket' = bucket \cup {c.marker}
              /\ Scanner!Moves(c, "accepted", Scanner!None)
    BY <1>2, <1>7 DEF Scanner!UploadLands
  <2>2. PICK d \in Scanner!Call :
             /\ scans' = (scans \ {c}) \cup {d}
             /\ d.marker = c.marker /\ d.seen = c.seen
             /\ \/ d.phase = "stored" /\ bucket' = bucket \cup {c.marker}
                \/ d.phase = "refused" /\ d.code = v /\ bucket' = bucket
                \/ /\ d.phase = "accepted" /\ v = Scanner!None
                   /\ bucket' = bucket \cup {c.marker}
    BY <1>2, <1>4, <2>1
  <2>3. Refuses(d)
    BY <2>2 DEF Refuses
  <2>4. bucket' \in SUBSET Scanner!Markers
    BY <1>1, <2>2
  <2> QED
    BY <1>1, <2>1, <2>2, <2>3, <2>4, LabSettles
<1> QED
  BY <1>3, <1>5, <1>6, <1>7

LEMMA LabStep ==
    ASSUME LabInv, clicks \in Nat, config' = config,
           Scanner!Next \/ Scanner!Leave
    PROVE  LabInv'
<1> USE DEF Scanner!pageVars
<1>1. \A m : Verdict(m)' = Verdict(m)
  BY DEF Verdict, Scanner!Refusal, Scanner!ValidationRefusal,
     Scanner!PdfMagicBytes, Scanner!ScanRefusal, Scanner!Scan
<1>2. /\ Scanner!TypeOK /\ config \in Scanner!Config
      /\ probes \in [Scanner!Markers -> Scanner!Query(Scanner!Probe)]
  BY DEF LabInv, Scanner!TypeOK
<1>3. ASSUME NEW m \in Scanner!Markers, Scanner!TriggerScan(m) PROVE LabInv'
  <2>1. PICK d : d = [id |-> clicks', marker |-> m, seen |-> TRUE,
                      phase |-> "sent", code |-> Scanner!None]
    OBVIOUS
  <2>2. /\ scans' = scans \cup {d}
        /\ scanEnvelope' = Scanner!None /\ scanResult' = Scanner!None
        /\ latestScan' = m
        /\ scansOverlapped' = (scansOverlapped \/ \E c \in scans : c.seen)
        /\ UNCHANGED <<bucket, probes, unscanned, meddled>>
        /\ clicks' \in 1..MaxCalls
    BY <1>3, <2>1, BoundsAssumption DEF Scanner!TriggerScan
  <2>3. d \in Scanner!Call /\ d.phase = "sent" /\ d.seen /\ d.marker = m
    BY <2>1, <2>2 DEF Scanner!Call
  <2>4. Scanner!TypeOK'
    BY <1>2, <2>2, <2>3 DEF Scanner!TypeOK, Scanner!MaybeMarker
  <2>5. \A c \in scans' : Refuses(c)'
    BY <1>1, <2>2, <2>3 DEF LabInv, Refuses
  <2>6. ~scansOverlapped' => ShownInv'
    BY <1>1, <2>2, <2>3 DEF LabInv, ShownInv
  <2>7. ~meddled' => ProofInv'
    BY <1>1, <2>2, <2>3 DEF LabInv, ProofInv
  <2> QED
    BY <2>4, <2>5, <2>6, <2>7 DEF LabInv
<1>4. ASSUME NEW m \in Scanner!Markers, Scanner!OtherDeletes(m) PROVE LabInv'
  <2>1. /\ bucket' = bucket \ {m} /\ unscanned' \in BOOLEAN /\ meddled' = TRUE
        /\ UNCHANGED <<scans, scanResult, scanEnvelope, latestScan,
                       scansOverlapped, probes>>
    BY <1>4 DEF Scanner!OtherDeletes
  <2>2. Scanner!TypeOK'
    BY <1>2, <2>1 DEF Scanner!TypeOK
  <2> QED
    BY <1>1, <2>1, <2>2 DEF LabInv, ShownInv, Refuses
<1>5. ASSUME NEW m \in Scanner!Markers, NEW q, probes' = [probes EXCEPT ![m] = q],
             q \in Scanner!Query(Scanner!Probe),
             UNCHANGED <<bucket, scans, scanResult, scanEnvelope, latestScan,
                         scansOverlapped, unscanned>>,
             meddled' \in BOOLEAN, meddled => meddled',
             ~meddled' => /\ q.fetch # "idle" => probes[m].fetch # "idle"
                          /\ q.data # "false" /\ q.answer # "false"
      PROVE  LabInv'
  <2>1. Scanner!TypeOK'
    BY <1>2, <1>5 DEF Scanner!TypeOK
  <2>2. ShownInv' <=> ShownInv
    BY <1>1, <1>5 DEF ShownInv
  <2>3. ~meddled' => ProofInv'
    BY <1>1, <1>2, <1>5 DEF LabInv, ProofInv
  <2> QED
    BY <1>1, <1>5, <2>1, <2>2, <2>3 DEF LabInv, Refuses
<1>6. ASSUME NEW m \in Scanner!Markers, NEW providerFails \in BOOLEAN,
             Scanner!Exists(m, providerFails)
      PROVE  LabInv'
  <2> DEFINE answer == IF m \in bucket /\ ~providerFails THEN "true" ELSE "false"
  <2>1. /\ probes' = [probes EXCEPT ![m] = Scanner!Served(probes[m], answer)]
        /\ probes[m].fetch = "asked"
        /\ meddled' = (meddled \/ providerFails)
        /\ UNCHANGED <<bucket, scans, scanResult, scanEnvelope, latestScan,
                       scansOverlapped, unscanned>>
    BY <1>6 DEF Scanner!Exists
  <2>2. answer \in Scanner!Probe
    BY DEF Scanner!Probe
  <2>3. ~meddled' => answer = "true" /\ probes[m].data # "false"
    BY <2>1 DEF LabInv, ProofInv
  <2>4. meddled' \in BOOLEAN /\ (meddled => meddled')
    BY <1>2, <2>1 DEF Scanner!TypeOK
  <2> HIDE DEF answer
  <2>5. /\ Scanner!Served(probes[m], answer) \in Scanner!Query(Scanner!Probe)
        /\ Scanner!Served(probes[m], answer).data = probes[m].data
        /\ Scanner!Served(probes[m], answer).answer = answer
    BY <1>2, <2>2, ProbeQuery
  <2> QED
    BY <1>5, <2>1, <2>3, <2>4, <2>5
<1>7. ASSUME NEW m \in Scanner!Markers,
             Scanner!ProbeAnswers(m) \/ Scanner!ProbeFails(m)
      PROVE  LabInv'
  <2>1. PICK q \in {Scanner!Answered(probes[m]), Scanner!Failed(probes[m])} :
             probes' = [probes EXCEPT ![m] = q]
    BY <1>7 DEF Scanner!ProbeAnswers, Scanner!ProbeFails
  <2>2. UNCHANGED <<bucket, scans, scanResult, scanEnvelope, latestScan,
                    scansOverlapped, unscanned, meddled>>
    BY <1>7 DEF Scanner!ProbeAnswers, Scanner!ProbeFails
  <2>3. /\ q \in Scanner!Query(Scanner!Probe) /\ q.fetch = "idle"
        /\ q.data \in {probes[m].data, probes[m].answer}
        /\ q.answer \in {probes[m].data, probes[m].answer}
    BY <1>2, <2>1, ProbeQuery
  <2>4. ~meddled => q.data # "false" /\ q.answer # "false"
    BY <2>3 DEF LabInv, ProofInv
  <2>5. meddled \in BOOLEAN
    BY <1>2 DEF Scanner!TypeOK
  <2> QED
    BY <1>5, <2>1, <2>2, <2>3, <2>4, <2>5
<1>8. ASSUME NEW c \in scans, NEW isOld \in BOOLEAN,
             Scanner!ScanAccepted(c, isOld)
      PROVE  LabInv'
  <2>1. /\ c.phase = "accepted" /\ scans' = scans \ {c}
        /\ UNCHANGED <<bucket, scanEnvelope, latestScan, scansOverlapped,
                       unscanned, meddled>>
    BY <1>8 DEF Scanner!ScanAccepted
  <2>2. c \in Scanner!Call /\ c.marker \in Scanner!Markers
    BY <1>2 DEF Scanner!TypeOK, Scanner!Call
  <2>3. \A e \in scans' : Refuses(e)'
    BY <1>1, <2>1 DEF LabInv, Refuses
  <2>4. CASE ~c.seen
    <3>1. UNCHANGED <<scanResult, probes>>
      BY <1>8, <2>4 DEF Scanner!ScanAccepted
    <3>2. Scanner!TypeOK'
      BY <1>2, <2>1, <3>1 DEF Scanner!TypeOK
    <3>3. ~scansOverlapped' => ShownInv'
      BY <1>1, <2>1, <3>1 DEF LabInv, ShownInv
    <3>4. ~meddled' => ProofInv'
      BY <1>1, <2>1, <3>1 DEF LabInv, ProofInv
    <3> QED
      BY <2>3, <3>2, <3>3, <3>4 DEF LabInv
  <2>5. CASE c.seen
    <3>1. /\ scanResult' = c.marker
          /\ \/ probes' = probes
             \/ probes' = [probes EXCEPT ![c.marker] =
                               Scanner!Mounting(probes[c.marker], isOld)]
      BY <1>8, <2>5 DEF Scanner!ScanAccepted, Scanner!ProbesOn, Scanner!Card
    <3>2. PICK q : q = Scanner!Mounting(probes[c.marker], isOld)
      OBVIOUS
    <3>3. /\ q \in Scanner!Query(Scanner!Probe)
          /\ q.data = probes[c.marker].data
          /\ q.answer \in {probes[c.marker].data, probes[c.marker].answer}
      BY <1>2, <2>2, <3>2, ProbeQuery
    <3>4. Scanner!TypeOK'
      BY <1>2, <2>1, <2>2, <3>1, <3>2, <3>3
         DEF Scanner!TypeOK, Scanner!MaybeMarker
    <3>5. ASSUME ~scansOverlapped' PROVE ShownInv'
      <4>1. /\ \A d \in scans' : ~d.seen
            /\ scanResult' = latestScan' /\ scanEnvelope' = Scanner!None
        BY <2>1, <2>5, <3>1, <3>5 DEF LabInv, ShownInv
      <4> QED
        BY <4>1 DEF ShownInv
    <3>6. ASSUME ~meddled' PROVE ProofInv'
      <4>1. ProofInv
        BY <2>1, <3>6 DEF LabInv
      <4>2. Verdict(c.marker) = Scanner!None /\ c.marker \in bucket
        BY <2>1, <4>1 DEF ProofInv
      <4>3. \A m \in Scanner!Markers :
                /\ probes'[m].fetch # "idle" =>
                       m \in bucket /\ Verdict(m) = Scanner!None
                /\ probes'[m].data # "false" /\ probes'[m].answer # "false"
        BY <1>2, <2>2, <3>1, <3>2, <3>3, <4>1, <4>2 DEF ProofInv
      <4> QED
        BY <1>1, <2>1, <4>1, <4>3 DEF ProofInv
    <3> QED
      BY <2>3, <3>4, <3>5, <3>6 DEF LabInv
  <2> QED
    BY <2>4, <2>5
<1>9. ASSUME NEW c \in scans, Scanner!ScanRefused(c) PROVE LabInv'
  <2>1. /\ c.phase = "refused" /\ scans' = scans \ {c}
        /\ scanEnvelope' = IF c.seen THEN c.code ELSE scanEnvelope
        /\ UNCHANGED <<bucket, scanResult, latestScan, scansOverlapped,
                       probes, unscanned, meddled>>
    BY <1>9 DEF Scanner!ScanRefused
  <2>2. c \in Scanner!Call /\ c.marker \in Scanner!Markers
    BY <1>2 DEF Scanner!TypeOK, Scanner!Call
  <2>3. \A e \in scans' : Refuses(e)'
    BY <1>1, <2>1 DEF LabInv, Refuses
  <2>4. Scanner!TypeOK'
    BY <1>2, <2>1, <2>2 DEF Scanner!TypeOK, Scanner!Call
  <2>5. ASSUME ~scansOverlapped' PROVE ShownInv'
    <3>1. ShownInv
      BY <2>1, <2>5 DEF LabInv
    <3>2. CASE ~c.seen
      BY <1>1, <2>1, <3>1, <3>2 DEF ShownInv
    <3>3. CASE c.seen
      <4>1. /\ \A d \in scans' : ~d.seen
            /\ scanResult' = Scanner!None /\ scanEnvelope' = c.code
            /\ latestScan' = c.marker
        BY <2>1, <3>1, <3>3 DEF ShownInv
      <4>2. c.code \in {Verdict(c.marker), "STORAGE_PROVIDER_ERROR"}
        BY <2>1 DEF LabInv, Refuses
      <4>3. c.marker \in {latestScan'} \cap Scanner!Markers
        BY <2>2, <4>1
      <4>4. scanEnvelope' \in {Scanner!None, "STORAGE_PROVIDER_ERROR"}
                \cup {Verdict(m)' : m \in {latestScan'} \cap Scanner!Markers}
        BY <1>1, <4>1, <4>2, <4>3
      <4> QED
        BY <1>1, <4>1, <4>4 DEF ShownInv
    <3> QED
      BY <3>2, <3>3
  <2>6. ~meddled' => ProofInv'
    BY <1>1, <2>1 DEF LabInv, ProofInv
  <2> QED
    BY <2>3, <2>4, <2>5, <2>6 DEF LabInv
<1>10. CASE Scanner!Leave
  <2>1. /\ scanResult' = Scanner!None /\ scanEnvelope' = Scanner!None
        /\ latestScan' = Scanner!None /\ scansOverlapped' = FALSE
        /\ scans' = {[c EXCEPT !.seen = FALSE] : c \in scans}
        /\ UNCHANGED <<bucket, probes, unscanned, meddled>>
    BY <1>10 DEF Scanner!Leave
  <2>2. \A d \in scans' : \E c \in scans :
            /\ d \in Scanner!Call /\ ~d.seen
            /\ d.marker = c.marker /\ d.phase = c.phase /\ d.code = c.code
    BY <1>2, <2>1 DEF Scanner!TypeOK, Scanner!Call
  <2>3. Scanner!TypeOK'
    BY <1>2, <2>1, <2>2 DEF Scanner!TypeOK, Scanner!MaybeMarker
  <2>4. \A d \in scans' : Refuses(d)'
    BY <1>1, <2>2 DEF LabInv, Refuses
  <2>5. ShownInv'
    BY <1>1, <2>1, <2>2 DEF ShownInv
  <2>6. ~meddled' => ProofInv'
    BY <1>1, <2>1, <2>2 DEF LabInv, ProofInv
  <2> QED
    BY <2>3, <2>4, <2>5, <2>6 DEF LabInv
<1> QED
  BY <1>3, <1>4, <1>6, <1>7, <1>8, <1>9, <1>10, LabCallStep DEF Scanner!Next

\* What the page is seen to show follows.
LEMMA ScannerInvariant ==
    DashboardSpec => [](LabInv /\ Scanner!OutcomeOfLastTrigger)
<1>1. DashboardInit /\ SessionInv => LabInv
  BY LabInit, SessionFacts
<1>2. LabInv /\ SessionInv /\ [DashboardNext]_allVars => LabInv'
  <2> SUFFICES ASSUME LabInv, SessionInv, [DashboardNext]_allVars
               PROVE  LabInv'
    OBVIOUS
  <2>1. config' = config
    BY OptionsStay
  <2>2. CASE Scanner!Next \/ Scanner!Leave
    BY <2>1, <2>2, LabStep, SessionFacts
  <2>3. CASE UNCHANGED scannerVars
    BY <2>1, <2>3 DEF scannerVars, LabInv, Refuses, ShownInv, ProofInv, Verdict,
       Scanner!TypeOK, Scanner!Refusal, Scanner!ValidationRefusal,
       Scanner!PdfMagicBytes, Scanner!ScanRefusal, Scanner!Scan
  <2> QED
    BY <2>2, <2>3, ScannerFrame
<1>3. LabInv => Scanner!OutcomeOfLastTrigger
  <2> SUFFICES ASSUME LabInv PROVE Scanner!OutcomeOfLastTrigger
    OBVIOUS
  <2>1. ~scansOverlapped =>
            /\ scanResult \in {Scanner!None, latestScan}
            /\ scanEnvelope \in {Scanner!None, "STORAGE_PROVIDER_ERROR"}
                   \cup {Scanner!Refusal(config, Scanner!UploadOf(m)) :
                             m \in {latestScan} \cap Scanner!Markers}
            /\ scanResult = Scanner!None \/ scanEnvelope = Scanner!None
    BY DEF LabInv, ShownInv, Verdict
  <2>2. scanResult \in Scanner!Markers \cup {Scanner!None}
    BY DEF LabInv, Scanner!TypeOK, Scanner!MaybeMarker
  <2>3. ASSUME ~meddled, NEW m \in Scanner!Markers PROVE probes[m].data # "false"
    BY <2>3 DEF LabInv, ProofInv
  <2> QED
    BY <2>1, <2>2, <2>3 DEF Scanner!OutcomeOfLastTrigger, Scanner!Card
<1> QED
  BY <1>1, <1>2, <1>3, SessionInvariant, PTL DEF DashboardSpec

-----------------------------------------------------------------------------
(* The validation lab.                                                     *)

\* What the page and the calls of this visit show is explained by the answer to
\* each button; as long as no two calls overlap, by that to the last one.
ButtonInv ==
    /\ Validation!TypeOK
    /\ checkResult # Validation!None =>
           Validation!UploadAnswer(checkResult) = Validation!None
    /\ checkEnvelope # Validation!NoEnvelope =>
           checkEnvelope.code \in {"STORAGE_PROVIDER_ERROR",
                                   Validation!UploadAnswer(checkEnvelope.button)}
    /\ ~checksOverlapped =>
           /\ \A c, d \in checks : c = d
           /\ \A c \in checks :
                  /\ c.button = latestCheck
                  /\ checkResult = Validation!None
                  /\ checkEnvelope = Validation!NoEnvelope
    /\ Validation!OutcomeOfLastTrigger

LEMMA ValidationFrame ==
    ASSUME [DashboardNext]_allVars
    PROVE  Validation!Next \/ Validation!Leave \/ UNCHANGED validationVars
<1>1. ASSUME NEW to, NEW isOld, Navigate(to, isOld)
      PROVE  Validation!Leave \/ UNCHANGED validationVars
  BY <1>1 DEF Navigate
<1>2. CASE SignedStep \/ ScannerStep \/ ErrorsStep \/ TenantsStep
  BY <1>2 DEF SignedStep, ScannerStep, ErrorsStep, TenantsStep
<1>3. CASE DirectStep \/ UploadStep \/ ViewsStep \/ DrawerStep
  BY <1>3 DEF DirectStep, UploadStep, ViewsStep, DrawerStep
<1>4. CASE ValidationStep
  BY <1>4 DEF ValidationStep
<1>5. CASE UNCHANGED allVars
  BY <1>5 DEF allVars
<1> QED
  BY <1>1, <1>2, <1>3, <1>4, <1>5 DEF DashboardNext

\* The API's answer to a button is one of the codes, and what the label says,
\* unless thirty MiB are not too much for the library, or too much for multer.
LEMMA ButtonAnswers ==
    ASSUME config \in Validation!Config, NEW b \in Validation!Buttons
    PROVE  /\ Validation!UploadAnswer(b) \in Validation!Codes
           /\ \/ Validation!UploadAnswer(b) = Validation!Expected(b)
              \/ /\ b = "size" /\ 30 <= config.maxSize
                 /\ Validation!UploadAnswer(b) = Validation!None
              \/ /\ b = "size" /\ config.maxSize * 4 < 30
                 /\ Validation!UploadAnswer(b) = "UNKNOWN"
<1>1. config.maxSize \in Nat
  BY DEF Validation!Config
<1> USE DEF Validation!UploadAnswer, Validation!Refusal, Validation!ScanRefusal,
        Validation!ValidationRefusal, Validation!MimeWhitelist, Validation!Scan,
        Validation!PdfMagicBytes, Validation!MulterSafetyMargin,
        Validation!File, Validation!Upload, Validation!Buttons, Validation!None
<1>2. /\ Validation!Expected("mime") = "STORAGE_MIME_NOT_ALLOWED"
      /\ Validation!Expected("size") = "STORAGE_SIZE_EXCEEDED"
      /\ Validation!Expected("magic") = "STORAGE_VALIDATION_FAILED"
      /\ Validation!Expected("clean") = Validation!None
  BY DEF Validation!Expected
<1>3. {"STORAGE_MIME_NOT_ALLOWED", "STORAGE_SIZE_EXCEEDED",
       "STORAGE_VALIDATION_FAILED", Validation!None, "UNKNOWN"}
          \subseteq Validation!Codes
  <2>1. \A b1 \in Validation!Buttons : Validation!Expected(b1) \in Validation!Codes
    BY DEF Validation!Codes
  <2>2. "UNKNOWN" \in Validation!Codes
    BY DEF Validation!Codes
  <2> QED
    BY <1>2, <2>1, <2>2
<1>4. CASE b = "mime"
  BY <1>1, <1>2, <1>3, <1>4
<1>5. CASE b = "size"
  BY <1>1, <1>2, <1>3, <1>5
<1>6. CASE b = "magic"
  BY <1>1, <1>2, <1>3, <1>6
<1>7. CASE b = "clean"
  BY <1>1, <1>2, <1>3, <1>7
<1> QED
  BY <1>4, <1>5, <1>6, <1>7

LEMMA ButtonStep ==
    ASSUME ButtonInv, clicks \in Nat, config \in Validation!Config,
           config' = config, Validation!Next \/ Validation!Leave
    PROVE  ButtonInv'
<1>1. \A b : Validation!UploadAnswer(b)' = Validation!UploadAnswer(b)
  BY DEF Validation!UploadAnswer, Validation!Refusal, Validation!ScanRefusal,
     Validation!ValidationRefusal, Validation!Scan, Validation!PdfMagicBytes
<1>2. Validation!TypeOK
  BY DEF ButtonInv
<1>3. /\ Validation!NoEnvelope.button = Validation!None
      /\ Validation!None \notin Validation!Buttons
  BY DEF Validation!NoEnvelope, Validation!None, Validation!Buttons
<1>4. ASSUME NEW b \in Validation!Buttons, Validation!Trigger(b) PROVE ButtonInv'
  <2>1. PICK d : d = [id |-> clicks', button |-> b]
    OBVIOUS
  <2>2. /\ checks' = checks \cup {d}
        /\ checkEnvelope' = Validation!NoEnvelope
        /\ checkResult' = Validation!None /\ latestCheck' = b
        /\ checksOverlapped' = (checksOverlapped \/ checks # {})
        /\ clicks' \in 1..MaxCalls
    BY <1>4, <2>1, BoundsAssumption DEF Validation!Trigger
  <2>3. d \in [id : 1..MaxCalls, button : Validation!Buttons] /\ d.button = b
    BY <2>1, <2>2
  <2>4. Validation!TypeOK'
    BY <1>2, <2>2, <2>3 DEF Validation!TypeOK
  <2> QED
    BY <1>3, <2>2, <2>3, <2>4 DEF ButtonInv, Validation!OutcomeOfLastTrigger
<1>5. ASSUME NEW c \in checks,
             NEW code \in {Validation!UploadAnswer(c.button),
                           "STORAGE_PROVIDER_ERROR"},
             Validation!Shows(c, code)
      PROVE  ButtonInv'
  <2>1. c.button \in Validation!Buttons
    BY <1>2 DEF Validation!TypeOK
  <2>2. code \in Validation!Codes
    BY <2>1, ButtonAnswers DEF Validation!Codes
  <2>3. checks' = checks \ {c} /\ UNCHANGED <<latestCheck, checksOverlapped>>
    BY <1>5 DEF Validation!Shows
  <2>4. ~checksOverlapped =>
            /\ checks' = {} /\ c.button = latestCheck
            /\ checkResult = Validation!None
            /\ checkEnvelope = Validation!NoEnvelope
    BY <2>3 DEF ButtonInv
  <2>5. CASE code = Validation!None
    <3>1. checkResult' = c.button /\ checkEnvelope' = checkEnvelope
      BY <1>5, <2>5 DEF Validation!Shows
    <3>2. Validation!UploadAnswer(c.button) = Validation!None
      BY <2>5 DEF Validation!None
    <3>3. Validation!TypeOK'
      BY <1>2, <2>1, <2>3, <3>1 DEF Validation!TypeOK
    <3> QED
      BY <1>1, <1>3, <2>3, <2>4, <3>1, <3>2, <3>3
         DEF ButtonInv, Validation!OutcomeOfLastTrigger
  <2>6. CASE code # Validation!None
    <3>1. PICK e : e = [button |-> c.button, code |-> code]
      OBVIOUS
    <3>2. checkEnvelope' = e /\ checkResult' = checkResult
      BY <1>5, <2>6, <3>1 DEF Validation!Shows
    <3>3. /\ e \in [button : Validation!Buttons, code : Validation!Codes]
          /\ e.button = c.button /\ e.code = code
      BY <2>1, <2>2, <3>1
    <3>4. Validation!TypeOK'
      BY <1>2, <2>3, <3>2, <3>3 DEF Validation!TypeOK
    <3> QED
      BY <1>1, <1>3, <2>3, <2>4, <3>2, <3>3, <3>4
         DEF ButtonInv, Validation!OutcomeOfLastTrigger
  <2> QED
    BY <2>5, <2>6
<1>6. ASSUME NEW c \in checks, Validation!AnswerLost(c) PROVE ButtonInv'
  <2>1. /\ checks' = checks \ {c}
        /\ UNCHANGED <<checkResult, checkEnvelope, latestCheck,
                       checksOverlapped>>
    BY <1>6 DEF Validation!AnswerLost
  <2>2. Validation!TypeOK'
    BY <1>2, <2>1 DEF Validation!TypeOK
  <2> QED
    BY <1>1, <2>1, <2>2 DEF ButtonInv, Validation!OutcomeOfLastTrigger
<1>7. CASE Validation!Leave
  BY <1>3, <1>7 DEF Validation!Leave, ButtonInv, Validation!OutcomeOfLastTrigger,
     Validation!TypeOK
<1>8. ASSUME NEW c \in checks, Validation!Answers(c) \/ Validation!ProviderFails(c)
      PROVE  ButtonInv'
  BY <1>5, <1>8 DEF Validation!Answers, Validation!ProviderFails
<1> QED
  BY <1>4, <1>6, <1>7, <1>8 DEF Validation!Next

LEMMA ValidationInvariant ==
    DashboardSpec => [](ButtonInv /\ Validation!OutcomeAsLabelled)
<1>1. DashboardInit => ButtonInv
  <2> SUFFICES ASSUME DashboardInit PROVE ButtonInv
    OBVIOUS
  <2>1. Validation!Init
    BY DEF DashboardInit
  <2> QED
    BY <2>1 DEF Validation!Init, ButtonInv, Validation!TypeOK,
       Validation!OutcomeOfLastTrigger, Validation!NoEnvelope, Validation!None
<1>2. ButtonInv /\ SessionInv /\ [DashboardNext]_allVars => ButtonInv'
  <2> SUFFICES ASSUME ButtonInv, SessionInv, [DashboardNext]_allVars
               PROVE  ButtonInv'
    OBVIOUS
  <2>1. config' = config /\ config \in Validation!Config /\ clicks \in Nat
    BY OptionsStay, SessionFacts DEF Pipeline!Config, Validation!Config
  <2>2. CASE Validation!Next \/ Validation!Leave
    BY <2>1, <2>2, ButtonStep
  <2>3. CASE UNCHANGED validationVars
    BY <2>1, <2>3 DEF validationVars, ButtonInv, Validation!TypeOK,
       Validation!OutcomeOfLastTrigger, Validation!UploadAnswer,
       Validation!Refusal, Validation!ScanRefusal, Validation!Scan,
       Validation!ValidationRefusal, Validation!PdfMagicBytes
  <2> QED
    BY <2>2, <2>3, ValidationFrame
<1>3. ButtonInv /\ SessionInv => Validation!OutcomeAsLabelled
  <2> SUFFICES ASSUME ButtonInv, SessionInv
               PROVE  Validation!OutcomeAsLabelled
    OBVIOUS
  <2>1. \A b \in Validation!Buttons :
            \/ Validation!UploadAnswer(b) = Validation!Expected(b)
            \/ /\ b = "size" /\ 30 <= config.maxSize
               /\ Validation!UploadAnswer(b) = Validation!None
            \/ /\ b = "size" /\ config.maxSize * 4 < 30
               /\ Validation!UploadAnswer(b) = "UNKNOWN"
    BY ButtonAnswers, SessionFacts DEF Pipeline!Config, Validation!Config
  <2>2. /\ checkResult \in Validation!Buttons \cup {Validation!None}
        /\ checkEnvelope \in [button : Validation!Buttons, code : Validation!Codes]
               \cup {Validation!NoEnvelope}
    BY DEF ButtonInv, Validation!TypeOK
  <2>3. Validation!NoEnvelope.code = Validation!None
    BY DEF Validation!NoEnvelope
  <2>4. ASSUME checkResult # Validation!None
        PROVE  \/ Validation!Expected(checkResult) = Validation!None
               \/ checkResult = "size" /\ 30 <= config.maxSize
    <3>1. /\ checkResult \in Validation!Buttons
          /\ Validation!UploadAnswer(checkResult) = Validation!None
      BY <2>2, <2>4 DEF ButtonInv
    <3> QED
      BY <2>1, <3>1 DEF Validation!None
  <2>5. ASSUME checkEnvelope.code \notin
                   {Validation!None, "STORAGE_PROVIDER_ERROR"}
        PROVE  \/ checkEnvelope.code = Validation!Expected(checkEnvelope.button)
               \/ /\ checkEnvelope = [button |-> "size", code |-> "UNKNOWN"]
                  /\ config.maxSize * 4 < 30
    <3>1. /\ checkEnvelope \in [button : Validation!Buttons,
                                code : Validation!Codes]
          /\ checkEnvelope.code = Validation!UploadAnswer(checkEnvelope.button)
      BY <2>2, <2>3, <2>5 DEF ButtonInv
    <3> QED
      BY <2>1, <2>5, <3>1
  <2> QED
    BY <2>4, <2>5 DEF Validation!OutcomeAsLabelled, Validation!MulterSafetyMargin
<1> QED
  BY <1>1, <1>2, <1>3, SessionInvariant, PTL DEF DashboardSpec

\* The signed URL page, the scanner lab and the validation lab never mix what
\* they show of different requests: a result beside an envelope, an envelope
\* left from before, or the "removed by post-upload scanner" of content that
\* was accepted.  Two calls that overlap may, which the page does not prevent:
\* the formula says so for each (signed-url-content.tsx, scanner-content.tsx,
\* validation-content.tsx).
THEOREM OneOutcomeIsShown == DashboardSpec => []OutcomeOfLastTrigger
<1>1. SignedInv /\ Scanner!OutcomeOfLastTrigger /\ ButtonInv
          => OutcomeOfLastTrigger
  BY DEF OutcomeOfLastTrigger, SignedInv, IssueInv, Signed!OneOutcome,
     Signed!HasCountdown, ButtonInv
<1> QED
  BY <1>1, SignedInvariant, ScannerInvariant, ValidationInvariant, PTL

-----------------------------------------------------------------------------
(* The error explorer.                                                     *)

\* One call at a time is awaited, and a card that met no fault shows what its
\* trigger raises, whatever the options are.
DemoInv ==
    /\ Errors!TypeOK
    /\ \A c, d \in demoCalls : c.seen /\ d.seen => c = d
    /\ \A c \in demoCalls :
           c.seen /\ c.phase = "done" =>
               c.raised = Errors!Raised(c.code) \/ c.code \in disturbed
    /\ \A code \in Errors!Codes \ disturbed :
           results[code] # Errors!None =>
               results[code] = Errors!Snapshot(Errors!Raised(code))
    /\ demoObjects \subseteq Errors!Escaping

LEMMA ErrorsFrame ==
    ASSUME [DashboardNext]_allVars
    PROVE  Errors!Next \/ Errors!Leave \/ UNCHANGED errorsVars
<1>1. ASSUME NEW to, NEW isOld, Navigate(to, isOld)
      PROVE  Errors!Leave \/ UNCHANGED errorsVars
  BY <1>1 DEF Navigate
<1>2. CASE SignedStep \/ ScannerStep \/ ValidationStep \/ TenantsStep
  BY <1>2 DEF SignedStep, ScannerStep, ValidationStep, TenantsStep
<1>3. CASE DirectStep \/ UploadStep \/ ViewsStep \/ DrawerStep
  BY <1>3 DEF DirectStep, UploadStep, ViewsStep, DrawerStep
<1>4. CASE ErrorsStep
  BY <1>4 DEF ErrorsStep
<1>5. CASE UNCHANGED allVars
  BY <1>5 DEF allVars
<1> QED
  BY <1>1, <1>2, <1>3, <1>4, <1>5 DEF DashboardNext

\* What each trigger raises.
LEMMA TriggerRaises ==
    ASSUME config \in Errors!Config, NEW code \in Errors!Codes
    PROVE  /\ Errors!Raised(code) \in Errors!Shown \cup {Errors!None}
           /\ Errors!Raised(code) =
                  IF Errors!Reproducible(code) /\ code \notin Errors!Escaping
                  THEN code ELSE Errors!None
           /\ code \in Errors!PipelineCodes /\ Errors!Raised(code) = Errors!None
                  => code \in Errors!Escaping
<1>1. config.maxSize \in Nat
  BY DEF Errors!Config
<1> USE DEF Errors!None, Errors!Codes, Errors!GuardCodes, Errors!PipelineCodes,
        Errors!SignedCodes, Errors!ScopedCodes, Errors!NotReproducible,
        Errors!Reproducible, Errors!Shown, Errors!Escaping
<1>2. CASE code \in Errors!PipelineCodes
  <2>1. Errors!Raised(code) = Errors!Refusal(config, Errors!File(code))
    BY <1>2 DEF Errors!Raised
  <2> USE DEF Errors!Refusal, Errors!ScanRefusal, Errors!ValidationRefusal,
          Errors!MimeWhitelist, Errors!Scan, Errors!PdfMagicBytes,
          Errors!File, Errors!Upload, Errors!Oversize
  <2>2. CASE code = "STORAGE_MIME_NOT_ALLOWED"
    BY <1>1, <2>1, <2>2
  <2>3. CASE code = "STORAGE_SIZE_EXCEEDED"
    BY <1>1, <2>1, <2>3
  <2>4. CASE code = "STORAGE_VALIDATION_FAILED"
    BY <1>1, <2>1, <2>4
  <2>5. CASE code = "STORAGE_SCAN_INFECTED"
    BY <1>1, <2>1, <2>5 DEF Errors!Config
  <2> QED
    BY <1>2, <2>2, <2>3, <2>4, <2>5
<1>3. CASE code = "STORAGE_SCAN_INCONCLUSIVE"
  <2>1. Errors!Refusal(Errors!RejectUnknown, Errors!UnknownFile) = code
    BY <1>3 DEF Errors!Refusal, Errors!ScanRefusal, Errors!ValidationRefusal,
       Errors!MimeWhitelist, Errors!Scan, Errors!PdfMagicBytes,
       Errors!RejectUnknown, Errors!UnknownFile, Errors!Upload, Errors!Oversize
  <2> QED
    BY <1>3, <2>1 DEF Errors!Raised
<1>4. CASE code \notin Errors!PipelineCodes /\ code # "STORAGE_SCAN_INCONCLUSIVE"
  BY <1>4 DEF Errors!Raised
<1> QED
  BY <1>2, <1>3, <1>4

LEMMA DemoStep ==
    ASSUME DemoInv, clicks \in Nat, config \in Errors!Config, config' = config,
           Errors!Next \/ Errors!Leave
    PROVE  DemoInv'
<1>1. /\ \A code : Errors!Raised(code)' = Errors!Raised(code)
      /\ Errors!Escaping' = Errors!Escaping
  BY DEF Errors!Raised, Errors!Escaping, Errors!Refusal, Errors!ScanRefusal,
     Errors!ValidationRefusal, Errors!Scan, Errors!PdfMagicBytes
<1>2. /\ Errors!TypeOK
      /\ results \in [Errors!Codes -> Errors!Shown \cup {Errors!None}]
      /\ \A c \in demoCalls : c.code \in Errors!Codes
      /\ Errors!PipelineCodes \subseteq Errors!Codes
  BY DEF DemoInv, Errors!TypeOK, Errors!Codes
<1>3. \A raised \in Errors!Shown \cup {Errors!None} :
          Errors!Snapshot(raised) \in Errors!Shown
  BY DEF Errors!Snapshot, Errors!Shown
<1>4. ASSUME NEW c \in demoCalls, NEW d,
             demoCalls' = (demoCalls \ {c}) \cup {d},
             d \in [code : Errors!Codes, seen : BOOLEAN, phase : {"sent", "done"},
                    raised : Errors!Shown \cup {Errors!None}, id : 1..MaxCalls],
             d.code = c.code, d.seen => c.seen
      PROVE  /\ demoCalls' \subseteq
                    [code : Errors!Codes, seen : BOOLEAN, phase : {"sent", "done"},
                     raised : Errors!Shown \cup {Errors!None}, id : 1..MaxCalls]
             /\ \A e, f \in demoCalls' : e.seen /\ f.seen => e = f
             /\ \A e \in demoCalls' : e \in demoCalls \/ e = d
  BY <1>2, <1>4 DEF DemoInv, Errors!TypeOK
<1>5. ASSUME NEW code \in Errors!Codes, Errors!HandleTrigger(code) PROVE DemoInv'
  <2>1. PICK d : d = [code |-> code, seen |-> TRUE, phase |-> "sent",
                      raised |-> Errors!None, id |-> clicks']
    OBVIOUS
  <2>2. /\ demoCalls' = demoCalls \cup {d} /\ clicks' \in 1..MaxCalls
        /\ \A c \in demoCalls : ~c.seen
        /\ UNCHANGED <<results, demoObjects, disturbed>>
    BY <1>5, <2>1, BoundsAssumption DEF Errors!HandleTrigger, Errors!MayTrigger
  <2>3. /\ d \in [code : Errors!Codes, seen : BOOLEAN, phase : {"sent", "done"},
                  raised : Errors!Shown \cup {Errors!None}, id : 1..MaxCalls]
        /\ d.phase = "sent"
    BY <2>1, <2>2
  <2>4. Errors!TypeOK'
    BY <1>2, <2>2, <2>3 DEF Errors!TypeOK
  <2> QED
    BY <1>1, <2>2, <2>3, <2>4 DEF DemoInv
<1>6. ASSUME NEW c \in demoCalls, Errors!RunTrigger(c) PROVE DemoInv'
  <2> DEFINE r == Errors!Raised(c.code)
  <2>1. PICK d : d = [c EXCEPT !.phase = "done", !.raised = r]
    OBVIOUS
  <2>2. /\ demoCalls' = (demoCalls \ {c}) \cup {d}
        /\ UNCHANGED <<results, disturbed>>
        /\ demoObjects' = IF c.code \in Errors!PipelineCodes /\ r = Errors!None
                          THEN demoObjects \cup {c.code} ELSE demoObjects
    BY <1>6, <2>1 DEF Errors!RunTrigger
  <2>3. /\ r \in Errors!Shown \cup {Errors!None}
        /\ c.code \in Errors!PipelineCodes /\ r = Errors!None =>
               c.code \in Errors!Escaping
    BY <1>2, TriggerRaises
  <2> HIDE DEF r
  <2>4. /\ d \in [code : Errors!Codes, seen : BOOLEAN, phase : {"sent", "done"},
                  raised : Errors!Shown \cup {Errors!None}, id : 1..MaxCalls]
        /\ d.code = c.code /\ d.seen = c.seen /\ d.raised = r
    BY <1>2, <2>1, <2>3 DEF Errors!TypeOK
  <2>5. d.raised = Errors!Raised(d.code)
    BY <2>4 DEF r
  <2>6. /\ \A e, f \in demoCalls' : e.seen /\ f.seen => e = f
        /\ \A e \in demoCalls' : e \in demoCalls \/ e = d
        /\ Errors!TypeOK'
    <3>1. demoObjects' \subseteq Errors!PipelineCodes
      BY <1>2, <2>2 DEF Errors!TypeOK
    <3> QED
      BY <1>2, <1>4, <2>2, <2>4, <3>1 DEF Errors!TypeOK
  <2>7. demoObjects' \subseteq Errors!Escaping
    BY <2>2, <2>3 DEF DemoInv
  <2> QED
    BY <1>1, <2>2, <2>5, <2>6, <2>7 DEF DemoInv
<1>7. ASSUME NEW c \in demoCalls, Errors!ProviderFails(c) PROVE DemoInv'
  <2>1. PICK d : d = [c EXCEPT !.phase = "done",
                               !.raised = "STORAGE_PROVIDER_ERROR"]
    OBVIOUS
  <2>2. /\ demoCalls' = (demoCalls \ {c}) \cup {d}
        /\ UNCHANGED results
        /\ disturbed' = IF c.seen THEN disturbed \cup {c.code} ELSE disturbed
        /\ demoObjects' \in
               {demoObjects, demoObjects \cup ({c.code} \cap Errors!PipelineCodes)}
        /\ Errors!AsksProvider(c.code)
    BY <1>7, <2>1 DEF Errors!ProviderFails
  <2>3. /\ d \in [code : Errors!Codes, seen : BOOLEAN, phase : {"sent", "done"},
                  raised : Errors!Shown \cup {Errors!None}, id : 1..MaxCalls]
        /\ d.code = c.code /\ d.seen = c.seen
    BY <1>2, <2>1 DEF Errors!TypeOK, Errors!Shown, Errors!Codes,
       Errors!ScopedCodes
  <2>4. c.code \in Errors!PipelineCodes => c.code \in Errors!Escaping
    <3>1. c.code \in Errors!PipelineCodes =>
              Errors!Raised(c.code) = Errors!None
      BY <2>2 DEF Errors!AsksProvider, Errors!PipelineCodes
    <3> QED
      BY <1>2, <3>1, TriggerRaises
  <2>5. /\ demoObjects' \subseteq Errors!Escaping
        /\ demoObjects' \subseteq Errors!PipelineCodes
    BY <1>2, <2>2, <2>4 DEF DemoInv, Errors!TypeOK
  <2>6. /\ \A e, f \in demoCalls' : e.seen /\ f.seen => e = f
        /\ \A e \in demoCalls' : e \in demoCalls \/ e = d
        /\ Errors!TypeOK'
    BY <1>2, <1>4, <2>2, <2>3, <2>5 DEF Errors!TypeOK
  <2> QED
    BY <1>1, <2>2, <2>3, <2>5, <2>6 DEF DemoInv
<1>8. ASSUME NEW c \in demoCalls, Errors!AnswerLost(c) PROVE DemoInv'
  <2>1. PICK d : d = [c EXCEPT !.seen = FALSE]
    OBVIOUS
  <2>2. /\ demoCalls' = (demoCalls \ {c}) \cup {d} /\ c.seen
        /\ results' = [results EXCEPT ![c.code] = "UNKNOWN"]
        /\ disturbed' = disturbed \cup {c.code}
        /\ UNCHANGED demoObjects
    BY <1>8, <2>1 DEF Errors!AnswerLost
  <2>3. /\ d \in [code : Errors!Codes, seen : BOOLEAN, phase : {"sent", "done"},
                  raised : Errors!Shown \cup {Errors!None}, id : 1..MaxCalls]
        /\ d.code = c.code /\ ~d.seen
    BY <1>2, <2>1 DEF Errors!TypeOK
  <2>4. /\ \A e, f \in demoCalls' : e.seen /\ f.seen => e = f
        /\ \A e \in demoCalls' : e \in demoCalls \/ e = d
    BY <1>4, <2>2, <2>3
  <2>5. Errors!TypeOK'
    BY <1>2, <1>4, <2>2, <2>3 DEF Errors!TypeOK, Errors!Shown
  <2>6. \A code \in Errors!Codes \ disturbed' : results'[code] = results[code]
    BY <1>2, <2>2
  <2>7. \A code \in Errors!Codes \ disturbed' :
            results'[code] # Errors!None =>
                results'[code] = Errors!Snapshot(Errors!Raised(code))
    BY <2>2, <2>6 DEF DemoInv
  <2>8. \A e \in demoCalls' :
            e.seen /\ e.phase = "done" =>
                e.raised = Errors!Raised(e.code) \/ e.code \in disturbed'
    BY <2>2, <2>3, <2>4 DEF DemoInv
  <2>9. demoObjects' \subseteq Errors!Escaping
    BY <2>2 DEF DemoInv
  <2>10. \A r : Errors!Snapshot(r)' = Errors!Snapshot(r)
    BY DEF Errors!Snapshot
  <2> QED
    BY <1>1, <2>4, <2>5, <2>7, <2>8, <2>9, <2>10 DEF DemoInv
<1>9. ASSUME NEW c \in demoCalls, Errors!Answers(c) PROVE DemoInv'
  <2>1. /\ demoCalls' = demoCalls \ {c} /\ c.phase = "done"
        /\ results' = IF c.seen
                      THEN [results EXCEPT ![c.code] = Errors!Snapshot(c.raised)]
                      ELSE results
        /\ disturbed' = IF c.seen /\ c.raised = Errors!Raised(c.code)
                        THEN disturbed \ {c.code} ELSE disturbed
        /\ UNCHANGED demoObjects
    BY <1>9 DEF Errors!Answers
  <2>2. Errors!Snapshot(c.raised) \in Errors!Shown
    BY <1>2, <1>3 DEF Errors!TypeOK
  <2>3. Errors!TypeOK'
    BY <1>2, <2>1, <2>2 DEF Errors!TypeOK
  <2>4. \A code \in Errors!Codes \ disturbed' :
            results'[code] # Errors!None =>
                results'[code] = Errors!Snapshot(Errors!Raised(code))
    <3>1. CASE ~c.seen
      BY <2>1, <3>1 DEF DemoInv
    <3>2. CASE c.seen
      <4>1. c.raised = Errors!Raised(c.code) \/ c.code \in disturbed
        BY <2>1, <3>2 DEF DemoInv
      <4>2. \A code \in Errors!Codes :
                /\ results'[code] = IF code = c.code
                       THEN Errors!Snapshot(c.raised) ELSE results[code]
                /\ code # c.code =>
                       (code \in disturbed' <=> code \in disturbed)
        BY <1>2, <2>1, <3>2
      <4>3. c.code \notin disturbed' => c.raised = Errors!Raised(c.code)
        BY <2>1, <4>1
      <4> QED
        BY <4>2, <4>3 DEF DemoInv
    <3> QED
      BY <3>1, <3>2
  <2>5. \A e \in demoCalls' :
            e.seen /\ e.phase = "done" =>
                e.raised = Errors!Raised(e.code) \/ e.code \in disturbed'
    <3>1. CASE c.seen
      BY <2>1, <3>1 DEF DemoInv
    <3>2. CASE ~c.seen
      BY <2>1, <3>2 DEF DemoInv
    <3> QED
      BY <3>1, <3>2
  <2>6. demoObjects' \subseteq Errors!Escaping
    BY <2>1 DEF DemoInv
  <2>7. \A e, f \in demoCalls' : e.seen /\ f.seen => e = f
    BY <2>1 DEF DemoInv
  <2>8. \A r : Errors!Snapshot(r)' = Errors!Snapshot(r)
    BY DEF Errors!Snapshot
  <2> QED
    BY <1>1, <2>3, <2>4, <2>5, <2>6, <2>7, <2>8 DEF DemoInv
<1>10. ASSUME NEW code, Errors!OtherDeletes(code) PROVE DemoInv'
  <2>1. /\ demoObjects' \subseteq demoObjects
        /\ UNCHANGED <<demoCalls, results, disturbed>>
    BY <1>10 DEF Errors!OtherDeletes
  <2>2. Errors!TypeOK'
    BY <1>2, <2>1 DEF Errors!TypeOK
  <2> QED
    BY <1>1, <2>1, <2>2 DEF DemoInv
<1>11. CASE Errors!Leave
  <2>1. /\ demoCalls' = {[c EXCEPT !.seen = FALSE] : c \in demoCalls}
        /\ results' = [code \in Errors!Codes |-> Errors!None]
        /\ disturbed' = {} /\ demoObjects' = demoObjects
    BY <1>11 DEF Errors!Leave
  <2>2. \A d \in demoCalls' :
            /\ d \in [code : Errors!Codes, seen : BOOLEAN,
                      phase : {"sent", "done"},
                      raised : Errors!Shown \cup {Errors!None}, id : 1..MaxCalls]
            /\ ~d.seen
    BY <1>2, <2>1 DEF Errors!TypeOK
  <2>3. Errors!TypeOK'
    BY <1>2, <2>1, <2>2 DEF Errors!TypeOK
  <2> QED
    BY <1>1, <2>1, <2>2, <2>3 DEF DemoInv
<1> QED
  BY <1>5, <1>6, <1>7, <1>8, <1>9, <1>10, <1>11 DEF Errors!Next

LEMMA ErrorsInvariant ==
    DashboardSpec => [](DemoInv /\ Errors!ArisesOnDemand)
<1>1. DashboardInit => DemoInv
  <2> SUFFICES ASSUME DashboardInit PROVE DemoInv
    OBVIOUS
  <2>1. Errors!Init
    BY DEF DashboardInit
  <2> QED
    BY <2>1 DEF Errors!Init, DemoInv, Errors!TypeOK
<1>2. DemoInv /\ SessionInv /\ [DashboardNext]_allVars => DemoInv'
  <2> SUFFICES ASSUME DemoInv, SessionInv, [DashboardNext]_allVars
               PROVE  DemoInv'
    OBVIOUS
  <2>1. config' = config /\ config \in Errors!Config /\ clicks \in Nat
    BY OptionsStay, SessionFacts DEF Pipeline!Config, Errors!Config
  <2>2. CASE Errors!Next \/ Errors!Leave
    BY <2>1, <2>2, DemoStep
  <2>3. CASE UNCHANGED errorsVars
    BY <2>1, <2>3 DEF errorsVars, DemoInv, Errors!TypeOK, Errors!Raised,
       Errors!Escaping,
       Errors!Snapshot, Errors!Refusal, Errors!ScanRefusal, Errors!Scan,
       Errors!ValidationRefusal, Errors!PdfMagicBytes
  <2> QED
    BY <2>2, <2>3, ErrorsFrame
<1>3. DemoInv /\ SessionInv => Errors!ArisesOnDemand
  <2> SUFFICES ASSUME DemoInv, SessionInv PROVE Errors!ArisesOnDemand
    OBVIOUS
  <2>1. \A code \in Errors!Codes :
            Errors!Raised(code) =
                IF Errors!Reproducible(code) /\ code \notin Errors!Escaping
                THEN code ELSE Errors!None
    BY TriggerRaises, SessionFacts DEF Pipeline!Config, Errors!Config
  <2>2. \A code \in Errors!Codes : code # Errors!None
    BY DEF Errors!Codes, Errors!None, Errors!GuardCodes, Errors!PipelineCodes,
       Errors!SignedCodes, Errors!ScopedCodes, Errors!NotReproducible
  <2> QED
    BY <2>1, <2>2 DEF DemoInv, Errors!ArisesOnDemand, Errors!Snapshot
<1> QED
  BY <1>1, <1>2, <1>3, SessionInvariant, PTL DEF DashboardSpec

\* For every option of the environment each button of the validation lab gets the
\* outcome of its label and each card of the error explorer shows its own code,
\* with three exceptions: the size button, where thirty MiB are within the cap or
\* beyond multer's; STORAGE_SIZE_EXCEEDED, where 1 TiB is within it; and
\* STORAGE_SCAN_INFECTED, scanned after the upload.  Only the last two cards
\* leave an object (validation-content.tsx, trigger.registry.ts).
THEOREM LabelsAreRight == DashboardSpec => []OutcomeAsLabelled
<1>1. Validation!OutcomeAsLabelled /\ Errors!ArisesOnDemand
          => OutcomeAsLabelled
  BY DEF OutcomeAsLabelled
<1> QED
  BY <1>1, ValidationInvariant, ErrorsInvariant, PTL

-----------------------------------------------------------------------------
(* The tenants page.                                                       *)

ListQuery == TenantsPanels!Query(SUBSET TenantsPanels!Objects)

\* The query shows the tenant's objects, or it will not stay as it is.
Fresh(q, data) ==
    \/ q.fetch = "asked"
    \/ q.fetch = "served" /\ q.answer = data
    \/ /\ q.fetch = "idle"
       /\ ~q.loaded \/ q.failed \/ q.invalidated \/ q.data = data

\* Some call of the tenant has yet to tell the query: it is under way, or it is
\* an upload, which refetches once more when it settles.
AwaitedIn(cs, t) ==
    \E c \in cs : c.tenant = t /\ (c.phase \in {"sent", "done"}
                                     \/ c.kind = "upload")

PanelInv ==
    /\ TenantsPanels!TypeOK
    /\ \A c \in tenantCalls : c.kind = "clear" => lists[c.tenant].loaded
    /\ \A t \in Tenants \ behind :
           AwaitedIn(tenantCalls, t) \/ Fresh(lists[t], objects[t])

LEMMA TenantsFrame ==
    ASSUME [DashboardNext]_allVars
    PROVE  \/ TenantsPanels!Next \/ TenantsPanels!Leave
           \/ \E isOld : TenantsPanels!Enter(isOld)
           \/ UNCHANGED tenantsVars
<1>1. ASSUME NEW to, NEW isOld, Navigate(to, isOld)
      PROVE  \/ TenantsPanels!Leave \/ TenantsPanels!Enter(isOld)
             \/ UNCHANGED tenantsVars
  BY <1>1 DEF Navigate
<1>2. CASE SignedStep \/ ScannerStep \/ ValidationStep \/ ErrorsStep
  BY <1>2 DEF SignedStep, ScannerStep, ValidationStep, ErrorsStep
<1>3. CASE DirectStep \/ UploadStep \/ ViewsStep \/ DrawerStep
  BY <1>3 DEF DirectStep, UploadStep, ViewsStep, DrawerStep
<1>4. CASE TenantsStep
  BY <1>4 DEF TenantsStep
<1>5. CASE UNCHANGED allVars
  BY <1>5 DEF allVars
<1> QED
  BY <1>1, <1>2, <1>3, <1>4, <1>5 DEF DashboardNext

\* What the steps of a list query do to it.
LEMMA ListFetches ==
    ASSUME NEW q \in ListQuery, NEW data
    PROVE  /\ TenantsPanels!Fetching(q, TRUE) \in ListQuery
           /\ (TenantsPanels!Fetching(q, TRUE).loaded <=> q.loaded)
           /\ Fresh(q, data) \/ q.loaded \/ q.fetch # "served" =>
                  Fresh(TenantsPanels!Fetching(q, TRUE), data)
           /\ \A isOld :
                  /\ TenantsPanels!Mounting(q, isOld) \in ListQuery
                  /\ (TenantsPanels!Mounting(q, isOld).loaded <=> q.loaded)
                  /\ Fresh(q, data) =>
                         Fresh(TenantsPanels!Mounting(q, isOld), data)
           /\ TenantsPanels!Marked(q) \in ListQuery
           /\ (TenantsPanels!Marked(q).loaded <=> q.loaded)
           /\ TenantsPanels!Marked(q).fetch = q.fetch
           /\ q.fetch # "served" => Fresh(TenantsPanels!Marked(q), data)
<1>1. q.fetch \in {"idle", "asked", "served"} /\ q.loaded \in BOOLEAN
  BY DEF ListQuery, TenantsPanels!Query
<1>2. /\ TenantsPanels!Fetching(q, TRUE) \in ListQuery
      /\ (TenantsPanels!Fetching(q, TRUE).loaded <=> q.loaded)
      /\ Fresh(q, data) \/ q.loaded \/ q.fetch # "served" =>
             Fresh(TenantsPanels!Fetching(q, TRUE), data)
  BY <1>1 DEF ListQuery, TenantsPanels!Query, TenantsPanels!Fetching, Fresh
<1>3. ASSUME NEW isOld
      PROVE  /\ TenantsPanels!Mounting(q, isOld) \in ListQuery
             /\ (TenantsPanels!Mounting(q, isOld).loaded <=> q.loaded)
             /\ Fresh(q, data) => Fresh(TenantsPanels!Mounting(q, isOld), data)
  <2>1. /\ TenantsPanels!Fetching(q, FALSE) \in ListQuery
        /\ (TenantsPanels!Fetching(q, FALSE).loaded <=> q.loaded)
        /\ Fresh(q, data) => Fresh(TenantsPanels!Fetching(q, FALSE), data)
    BY <1>1 DEF ListQuery, TenantsPanels!Query, TenantsPanels!Fetching, Fresh
  <2>2. TenantsPanels!Mounting(q, isOld) \in
            {q, TenantsPanels!Fetching(q, FALSE)}
    BY DEF TenantsPanels!Mounting
  <2> QED
    BY <2>1, <2>2
<1>4. /\ TenantsPanels!Marked(q) \in ListQuery
      /\ (TenantsPanels!Marked(q).loaded <=> q.loaded)
      /\ TenantsPanels!Marked(q).fetch = q.fetch
      /\ q.fetch # "served" => Fresh(TenantsPanels!Marked(q), data)
  BY <1>1 DEF ListQuery, TenantsPanels!Query, TenantsPanels!Marked, Fresh
<1> QED
  BY <1>2, <1>3, <1>4

LEMMA ListEnds ==
    ASSUME NEW q \in ListQuery, NEW data
    PROVE  /\ data \subseteq TenantsPanels!Objects =>
                  TenantsPanels!Served(q, data) \in ListQuery
           /\ (TenantsPanels!Served(q, data).loaded <=> q.loaded)
           /\ Fresh(TenantsPanels!Served(q, data), data)
           /\ TenantsPanels!Answered(q) \in ListQuery
           /\ TenantsPanels!Answered(q).loaded
           /\ q.fetch = "served" /\ Fresh(q, data) =>
                  Fresh(TenantsPanels!Answered(q), data)
           /\ TenantsPanels!Failed(q) \in ListQuery
           /\ (TenantsPanels!Failed(q).loaded <=> q.loaded)
           /\ Fresh(TenantsPanels!Failed(q), data)
  BY DEF ListQuery, TenantsPanels!Query, TenantsPanels!Served,
         TenantsPanels!Answered, TenantsPanels!Failed, Fresh

\* A list query moves to one that is as fresh.
LEMMA ListMoves ==
    ASSUME PanelInv, NEW t \in Tenants, NEW q \in ListQuery,
           lists' = [lists EXCEPT ![t] = q],
           lists[t].loaded => q.loaded,
           objects' = objects, behind' \subseteq Tenants,
           behind \ {t} \subseteq behind',
           tenantCalls' \subseteq TenantsPanels!Call,
           \A c \in tenantCalls' : \E d \in tenantCalls :
               c.tenant = d.tenant /\ c.kind = d.kind,
           \A u \in Tenants : AwaitedIn(tenantCalls, u) =>
               u = t \/ AwaitedIn(tenantCalls', u),
           t \notin behind' =>
               AwaitedIn(tenantCalls', t) \/ Fresh(q, objects[t])
    PROVE  PanelInv'
<1>1. /\ lists \in [Tenants -> ListQuery]
      /\ \A c \in tenantCalls : c.tenant \in Tenants
  BY DEF PanelInv, TenantsPanels!TypeOK, TenantsPanels!Call, ListQuery
<1>2. TenantsPanels!TypeOK'
  BY <1>1 DEF PanelInv, TenantsPanels!TypeOK, ListQuery
<1>3. \A c \in tenantCalls' : c.kind = "clear" => lists'[c.tenant].loaded
  BY <1>1 DEF PanelInv
<1>4. ASSUME NEW u \in Tenants, u \notin behind'
      PROVE  AwaitedIn(tenantCalls', u) \/ Fresh(lists'[u], objects'[u])
  <2>1. CASE u = t
    BY <1>1, <1>4, <2>1
  <2>2. CASE u # t
    BY <1>1, <1>4, <2>2 DEF PanelInv
  <2> QED
    BY <2>1, <2>2
<1> QED
  BY <1>2, <1>3, <1>4 DEF PanelInv

\* A call moves on, or ends where the page is not told, and the lists stay.
LEMMA CallMoves ==
    ASSUME PanelInv, NEW c \in tenantCalls, NEW d \in TenantsPanels!Call,
           d.tenant = c.tenant, d.kind = c.kind,
           d.phase \in {"sent", "done"} \/ c.tenant \in behind',
           \/ tenantCalls' = (tenantCalls \ {c}) \cup {d}
           \/ tenantCalls' = tenantCalls \ {c} /\ c.tenant \in behind',
           lists' = lists, behind \subseteq behind', behind' \subseteq Tenants,
           objects' \in [Tenants -> SUBSET TenantsPanels!Objects],
           \A u \in Tenants : u # c.tenant => objects'[u] = objects[u]
    PROVE  PanelInv'
<1>1. c.tenant \in Tenants
  BY DEF PanelInv, TenantsPanels!TypeOK, TenantsPanels!Call
<1>2. TenantsPanels!TypeOK'
  BY <1>1 DEF PanelInv, TenantsPanels!TypeOK
<1>3. \A e \in tenantCalls' : e.kind = "clear" => lists'[e.tenant].loaded
  BY DEF PanelInv
<1>4. ASSUME NEW u \in Tenants, u \notin behind'
      PROVE  AwaitedIn(tenantCalls', u) \/ Fresh(lists'[u], objects'[u])
  <2>1. CASE u = c.tenant
    BY <1>4, <2>1 DEF AwaitedIn
  <2>2. CASE u # c.tenant
    <3>1. objects'[u] = objects[u]
      BY <2>2
    <3>2. AwaitedIn(tenantCalls, u) => AwaitedIn(tenantCalls', u)
      BY <2>2 DEF AwaitedIn
    <3> QED
      BY <1>4, <3>1, <3>2 DEF PanelInv
  <2> QED
    BY <2>1, <2>2
<1> QED
  BY <1>2, <1>3, <1>4 DEF PanelInv

LEMMA PanelStep ==
    ASSUME PanelInv, clicks \in Nat, TenantsPanels!Next PROVE PanelInv'
<1>1. /\ TenantsPanels!TypeOK
      /\ lists \in [Tenants -> ListQuery]
      /\ objects \in [Tenants -> SUBSET TenantsPanels!Objects]
      /\ tenantCalls \subseteq TenantsPanels!Call
      /\ \A c \in tenantCalls : c.tenant \in Tenants
      /\ behind \subseteq Tenants
  BY DEF PanelInv, TenantsPanels!TypeOK, TenantsPanels!Call, ListQuery
<1>2. ASSUME NEW t \in Tenants, TenantsPanels!List(t) PROVE PanelInv'
  <2>1. PICK q : q = TenantsPanels!Served(lists[t], objects[t])
    OBVIOUS
  <2>2. /\ lists' = [lists EXCEPT ![t] = q] /\ behind' = behind \ {t}
        /\ UNCHANGED <<objects, tenantCalls>>
    BY <1>2, <2>1 DEF TenantsPanels!List
  <2>3. q \in ListQuery /\ (q.loaded <=> lists[t].loaded) /\ Fresh(q, objects[t])
    BY <1>1, <2>1, ListEnds
  <2> QED
    BY <1>1, <2>2, <2>3, ListMoves
<1>3. ASSUME NEW t \in Tenants, tenantCalls' = TenantsPanels!Released(t)
      PROVE  /\ tenantCalls' \subseteq TenantsPanels!Call
             /\ \A c \in tenantCalls' : \E d \in tenantCalls :
                    c.tenant = d.tenant /\ c.kind = d.kind
             /\ \A u \in Tenants : AwaitedIn(tenantCalls, u) =>
                    AwaitedIn(tenantCalls', u)
  <2>1. \A c \in tenantCalls : \E d \in tenantCalls' :
            /\ d \in TenantsPanels!Call
            /\ d.tenant = c.tenant /\ d.kind = c.kind
            /\ c.phase \in {"sent", "done"} => d.phase = c.phase
    BY <1>1, <1>3 DEF TenantsPanels!Released, TenantsPanels!Call
  <2>2. \A d \in tenantCalls' : \E c \in tenantCalls :
            /\ d \in TenantsPanels!Call
            /\ d.tenant = c.tenant /\ d.kind = c.kind
    BY <1>1, <1>3 DEF TenantsPanels!Released, TenantsPanels!Call
  <2>3. tenantCalls' \subseteq TenantsPanels!Call
    BY <2>2
  <2>4. ASSUME NEW u \in Tenants, AwaitedIn(tenantCalls, u)
        PROVE  AwaitedIn(tenantCalls', u)
    <3>1. PICK c \in tenantCalls :
              /\ c.tenant = u
              /\ c.phase \in {"sent", "done"} \/ c.kind = "upload"
      BY <2>4 DEF AwaitedIn
    <3>2. PICK d \in tenantCalls' :
              /\ d.tenant = c.tenant /\ d.kind = c.kind
              /\ c.phase \in {"sent", "done"} => d.phase = c.phase
      BY <2>1
    <3> QED
      BY <3>1, <3>2 DEF AwaitedIn
  <2> QED
    BY <2>2, <2>3, <2>4
<1>4. ASSUME NEW t \in Tenants, TenantsPanels!ListAnswers(t) PROVE PanelInv'
  <2>1. PICK q : q = TenantsPanels!Answered(lists[t])
    OBVIOUS
  <2>2. /\ lists[t].fetch = "served"
        /\ lists' = [lists EXCEPT ![t] = q]
        /\ tenantCalls' = TenantsPanels!Released(t)
        /\ UNCHANGED <<objects, behind>>
    BY <1>4, <2>1 DEF TenantsPanels!ListAnswers
  <2>3. /\ q \in ListQuery /\ q.loaded
        /\ Fresh(lists[t], objects[t]) => Fresh(q, objects[t])
    BY <1>1, <2>1, <2>2, ListEnds
  <2>4. t \notin behind => AwaitedIn(tenantCalls', t) \/ Fresh(q, objects[t])
    BY <1>3, <2>2, <2>3 DEF PanelInv
  <2> QED
    BY <1>1, <1>3, <2>2, <2>3, <2>4, ListMoves
<1>5. ASSUME NEW t \in Tenants, TenantsPanels!ListFails(t) PROVE PanelInv'
  <2>1. PICK q : q = TenantsPanels!Failed(lists[t])
    OBVIOUS
  <2>2. /\ lists' = [lists EXCEPT ![t] = q]
        /\ tenantCalls' = TenantsPanels!Released(t)
        /\ UNCHANGED <<objects, behind>>
    BY <1>5, <2>1 DEF TenantsPanels!ListFails
  <2>3. q \in ListQuery /\ (q.loaded <=> lists[t].loaded) /\ Fresh(q, objects[t])
    BY <1>1, <2>1, ListEnds
  <2> QED
    BY <1>1, <1>3, <2>2, <2>3, ListMoves
<1>6. ASSUME NEW t \in Tenants, TenantsPanels!Refresh(t) PROVE PanelInv'
  <2>1. PICK q : q = TenantsPanels!Fetching(lists[t], TRUE)
    OBVIOUS
  <2>2. /\ lists' = [lists EXCEPT ![t] = q]
        /\ UNCHANGED <<objects, tenantCalls, behind>>
    BY <1>6, <2>1 DEF TenantsPanels!Refresh
  <2>3. /\ q \in ListQuery /\ (q.loaded <=> lists[t].loaded)
        /\ Fresh(lists[t], objects[t]) => Fresh(q, objects[t])
    BY <1>1, <2>1, ListFetches
  <2>4. t \notin behind => AwaitedIn(tenantCalls, t) \/ Fresh(q, objects[t])
    BY <2>3 DEF PanelInv
  <2> QED
    BY <1>1, <2>2, <2>3, <2>4, ListMoves
<1>7. ASSUME NEW t \in Tenants,
             TenantsPanels!HandleUpload(t) \/ TenantsPanels!HandleClear(t)
      PROVE  PanelInv'
  <2>1. PICK kind \in {"upload", "clear"} :
            /\ TenantsPanels!Send(t, kind)
            /\ kind = "clear" => lists[t].loaded
    BY <1>7 DEF TenantsPanels!HandleUpload, TenantsPanels!HandleClear
  <2>2. clicks' \in 1..MaxCalls /\ UNCHANGED <<objects, lists, behind>>
    BY <1>7, BoundsAssumption DEF TenantsPanels!HandleUpload,
       TenantsPanels!HandleClear, TenantsPanels!Click
  <2>3. PICK d : d = [id |-> clicks', tenant |-> t, kind |-> kind,
                      phase |-> "sent", seen |-> TRUE]
    OBVIOUS
  <2>4. tenantCalls' = tenantCalls \cup {d}
    BY <2>1, <2>3 DEF TenantsPanels!Send
  <2>5. d \in TenantsPanels!Call /\ d.tenant = t /\ d.kind = kind
    BY <2>2, <2>3 DEF TenantsPanels!Call
  <2>6. TenantsPanels!TypeOK'
    BY <1>1, <2>2, <2>4, <2>5 DEF TenantsPanels!TypeOK
  <2>7. \A u \in Tenants : AwaitedIn(tenantCalls, u) => AwaitedIn(tenantCalls', u)
    BY <2>4 DEF AwaitedIn
  <2> QED
    BY <2>1, <2>2, <2>4, <2>5, <2>6, <2>7 DEF PanelInv
<1>8. ASSUME NEW t \in Tenants, TenantsPanels!OtherUploads(t) PROVE PanelInv'
  <2>1. /\ objects' = [objects EXCEPT ![t] = objects[t] \cup {0}]
        /\ behind' = behind \cup {t} /\ UNCHANGED <<lists, tenantCalls>>
    BY <1>8 DEF TenantsPanels!OtherUploads
  <2>2. 0 \in TenantsPanels!Objects
    BY BoundsAssumption DEF TenantsPanels!Objects
  <2>3. TenantsPanels!TypeOK'
    BY <1>1, <2>1, <2>2 DEF TenantsPanels!TypeOK
  <2>4. \A u \in Tenants \ behind' : objects'[u] = objects[u] /\ u \notin behind
    BY <1>1, <2>1
  <2> QED
    BY <2>1, <2>3, <2>4 DEF PanelInv
<1>9. ASSUME NEW c \in tenantCalls,
             NEW p \in {"done", "settling", "settled"}
      PROVE  \E d \in TenantsPanels!Call :
                 /\ d.tenant = c.tenant /\ d.kind = c.kind /\ d.phase = p
                 /\ TenantsPanels!Moved(c, p)
                        = (tenantCalls \ {c}) \cup {d}
  <2>1. PICK d : d = [c EXCEPT !.phase = p]
    OBVIOUS
  <2>2. /\ d \in TenantsPanels!Call
        /\ d.tenant = c.tenant /\ d.kind = c.kind /\ d.phase = p
    BY <1>1, <2>1 DEF TenantsPanels!Call
  <2>3. TenantsPanels!Moved(c, p) = (tenantCalls \ {c}) \cup {d}
    BY <2>1 DEF TenantsPanels!Moved
  <2> QED
    BY <2>2, <2>3
<1>10. ASSUME NEW c \in tenantCalls,
              TenantsPanels!UploadLands(c) \/ TenantsPanels!ClearEnds(c)
       PROVE  PanelInv'
  <2>1. PICK d \in TenantsPanels!Call :
            /\ d.tenant = c.tenant /\ d.kind = c.kind /\ d.phase = "done"
            /\ TenantsPanels!Moved(c, "done") = (tenantCalls \ {c}) \cup {d}
    BY <1>9
  <2>2. /\ tenantCalls' = (tenantCalls \ {c}) \cup {d}
        /\ UNCHANGED <<lists, behind>>
    BY <1>10, <2>1 DEF TenantsPanels!UploadLands, TenantsPanels!ClearEnds
  <2>3. /\ objects' \in [Tenants -> SUBSET TenantsPanels!Objects]
        /\ \A u \in Tenants : u # c.tenant => objects'[u] = objects[u]
    <3>1. CASE TenantsPanels!UploadLands(c)
      <4>1. c.id \in TenantsPanels!Objects
        BY <1>1 DEF TenantsPanels!Call, TenantsPanels!Objects
      <4>2. objects[c.tenant] \cup {c.id} \in SUBSET TenantsPanels!Objects
        BY <1>1, <4>1
      <4> QED
        BY <1>1, <3>1, <4>2 DEF TenantsPanels!UploadLands
    <3>2. CASE TenantsPanels!ClearEnds(c)
      BY <1>1, <3>2 DEF TenantsPanels!ClearEnds
    <3> QED
      BY <1>10, <3>1, <3>2
  <2> QED
    BY <1>1, <2>1, <2>2, <2>3, CallMoves
<1>11. ASSUME NEW c \in tenantCalls, NEW page, TenantsPanels!ClearDeletes(c, page)
       PROVE  PanelInv'
  <2>1. /\ objects' = [objects EXCEPT ![c.tenant] = objects[c.tenant] \ page]
        /\ c.phase = "sent" /\ UNCHANGED <<tenantCalls, lists, behind>>
    BY <1>11 DEF TenantsPanels!ClearDeletes
  <2>3. /\ tenantCalls' = (tenantCalls \ {c}) \cup {c}
        /\ c \in TenantsPanels!Call
        /\ objects' \in [Tenants -> SUBSET TenantsPanels!Objects]
        /\ \A u \in Tenants : u # c.tenant => objects'[u] = objects[u]
        /\ lists' = lists /\ behind' = behind
    BY <1>1, <2>1
  <2> QED
    BY <1>1, <2>1, <2>3, CallMoves
<1>12. ASSUME NEW c \in tenantCalls, TenantsPanels!CallFails(c) PROVE PanelInv'
  <2>1. /\ tenantCalls' = tenantCalls \ {c} /\ behind' = behind \cup {c.tenant}
        /\ UNCHANGED <<objects, lists>>
    BY <1>12 DEF TenantsPanels!CallFails
  <2>3. /\ objects' \in [Tenants -> SUBSET TenantsPanels!Objects]
        /\ \A u \in Tenants : u # c.tenant => objects'[u] = objects[u]
        /\ c \in TenantsPanels!Call
        /\ lists' = lists /\ behind \subseteq behind' /\ behind' \subseteq Tenants
        /\ c.tenant \in behind'
    BY <1>1, <2>1
  <2> QED
    BY <1>1, <2>1, <2>3, CallMoves
<1>13. ASSUME NEW c \in tenantCalls, TenantsPanels!CallAnswers(c) PROVE PanelInv'
  <2>1. PICK p \in {"settling", "settled"} :
            tenantCalls' = TenantsPanels!Moved(c, p)
    BY <1>13 DEF TenantsPanels!CallAnswers
  <2>2. PICK d \in TenantsPanels!Call :
            /\ d.tenant = c.tenant /\ d.kind = c.kind /\ d.phase = p
            /\ TenantsPanels!Moved(c, p) = (tenantCalls \ {c}) \cup {d}
    BY <1>9
  <2> DEFINE t == c.tenant
  <2>14. PICK m : m = TenantsPanels!Marked(lists[t])
    OBVIOUS
  <2>12. PICK f : f = TenantsPanels!Fetching(m, TRUE)
    OBVIOUS
  <2>3. PICK q \in {m, f} :
            /\ lists' = [lists EXCEPT ![t] = q]
            /\ \/ q = m /\ behind' = TenantsPanels!Outrun(t)
               \/ q = f /\ behind' = behind
    BY <1>13, <2>12, <2>14 DEF TenantsPanels!CallAnswers
  <2>4. /\ m \in ListQuery /\ (m.loaded <=> lists[t].loaded)
        /\ m.fetch = lists[t].fetch
        /\ m.fetch # "served" => Fresh(m, objects[t])
    BY <1>1, <2>14, ListFetches
  <2>13. /\ f \in ListQuery /\ (f.loaded <=> m.loaded)
         /\ m.loaded => Fresh(f, objects[t])
    BY <2>4, <2>12, ListFetches
  <2>5. /\ q \in ListQuery /\ (q.loaded <=> lists[t].loaded)
    <3>1. q = m \/ q = f
      BY <2>3
    <3>2. CASE q = m
      BY <2>4, <3>2
    <3>3. CASE q = f
      BY <2>4, <2>13, <3>3
    <3> QED
      BY <3>1, <3>2, <3>3
  <2>6. c.kind = "clear" => lists[t].loaded
    BY DEF PanelInv
  <2>7. behind \subseteq behind' /\ behind' \subseteq Tenants
        /\ objects' = objects
    BY <1>1, <1>13, <2>3 DEF TenantsPanels!Outrun, TenantsPanels!CallAnswers
  <2>8. t \notin behind' =>
            AwaitedIn(tenantCalls', t) \/ Fresh(q, objects[t])
    <3>1. CASE d.kind = "upload"
      BY <2>1, <2>2, <3>1 DEF AwaitedIn
    <3>2. CASE q = m /\ behind' = TenantsPanels!Outrun(t)
      BY <2>4, <3>2 DEF TenantsPanels!Outrun
    <3>3. CASE q = f /\ lists[t].loaded
      BY <2>4, <2>13, <3>3
    <3> QED
      BY <1>1, <2>2, <2>3, <2>6, <3>1, <3>2, <3>3 DEF TenantsPanels!Call
  <2>9. \A e \in tenantCalls' : \E g \in tenantCalls :
            e.tenant = g.tenant /\ e.kind = g.kind
    BY <2>1, <2>2
  <2>10. \A u \in Tenants : AwaitedIn(tenantCalls, u) =>
             u = t \/ AwaitedIn(tenantCalls', u)
    BY <2>1, <2>2 DEF AwaitedIn
  <2>11. tenantCalls' \subseteq TenantsPanels!Call /\ t \in Tenants
    BY <1>1, <2>1, <2>2
  <2> HIDE DEF t
  <2> QED
    BY <2>3, <2>5, <2>7, <2>8, <2>9, <2>10, <2>11, ListMoves
<1>14. ASSUME NEW c \in tenantCalls, TenantsPanels!Settled(c) PROVE PanelInv'
  <2> DEFINE t == c.tenant
  <2>1. /\ c.phase = "settled" /\ tenantCalls' = tenantCalls \ {c}
        /\ objects' = objects
        /\ behind' = IF ~lists[t].loaded THEN TenantsPanels!Outrun(t) ELSE behind
    BY <1>14 DEF TenantsPanels!Settled
  <2>8. PICK f : f = TenantsPanels!Fetching(lists[t], TRUE)
    OBVIOUS
  <2>9. /\ f \in ListQuery /\ (f.loaded <=> lists[t].loaded)
        /\ lists[t].loaded \/ lists[t].fetch # "served" => Fresh(f, objects[t])
    BY <1>1, <2>8, ListFetches
  <2>2. PICK q \in {lists[t], f} :
            /\ lists' = [lists EXCEPT ![t] = q]
            /\ IF c.kind = "upload" THEN q = f ELSE q = lists[t]
    <3>1. lists = [lists EXCEPT ![t] = lists[t]]
      BY <1>1
    <3> QED
      BY <1>14, <2>8, <3>1 DEF TenantsPanels!Settled
  <2>3. q \in ListQuery /\ (q.loaded <=> lists[t].loaded)
    BY <1>1, <2>2, <2>9
  <2>4. behind \subseteq behind' /\ behind' \subseteq Tenants
    BY <1>1, <2>1 DEF TenantsPanels!Outrun
  <2>5. t \notin behind' => AwaitedIn(tenantCalls', t) \/ Fresh(q, objects[t])
    <3>1. CASE c.kind = "upload"
      <4>1. t \notin behind' => lists[t].loaded \/ lists[t].fetch # "served"
        BY <2>1 DEF TenantsPanels!Outrun
      <4> QED
        BY <2>2, <2>9, <3>1, <4>1
    <3>2. CASE c.kind # "upload"
      <4>1. AwaitedIn(tenantCalls, t) => AwaitedIn(tenantCalls', t)
        BY <2>1, <3>2 DEF AwaitedIn
      <4> QED
        BY <1>1, <2>2, <2>4, <3>2, <4>1 DEF PanelInv
    <3> QED
      BY <3>1, <3>2
  <2>6. \A u \in Tenants : AwaitedIn(tenantCalls, u) =>
             u = t \/ AwaitedIn(tenantCalls', u)
    BY <2>1 DEF AwaitedIn
  <2>7. /\ tenantCalls' \subseteq TenantsPanels!Call /\ t \in Tenants
        /\ \A e \in tenantCalls' : \E g \in tenantCalls :
               e.tenant = g.tenant /\ e.kind = g.kind
    BY <1>1, <2>1
  <2> HIDE DEF t
  <2> QED
    BY <2>1, <2>2, <2>3, <2>4, <2>5, <2>6, <2>7, ListMoves
<1> QED
  BY <1>2, <1>4, <1>5, <1>6, <1>7, <1>8, <1>10, <1>11, <1>12, <1>13, <1>14
     DEF TenantsPanels!Next

LEMMA PanelInvariant ==
    DashboardSpec => [](PanelInv /\ TenantsPanels!QuietTableIsTrue)
<1>1. DashboardInit => PanelInv
  <2> SUFFICES ASSUME DashboardInit PROVE PanelInv
    OBVIOUS
  <2>1. TenantsPanels!Init
    BY DEF DashboardInit
  <2>2. /\ objects \in [Tenants -> SUBSET TenantsPanels!Objects]
        /\ tenantCalls = {} /\ behind = {}
        /\ lists = [t \in Tenants |-> TenantsPanels!NoQuery({})]
    BY <2>1, BoundsAssumption DEF TenantsPanels!Init, TenantsPanels!Objects
  <2>3. /\ TenantsPanels!NoQuery({}) \in ListQuery
        /\ TenantsPanels!NoQuery({}).fetch = "idle"
        /\ ~TenantsPanels!NoQuery({}).loaded
    BY DEF ListQuery, TenantsPanels!Query, TenantsPanels!NoQuery
  <2>4. TenantsPanels!TypeOK
    BY <2>2, <2>3 DEF TenantsPanels!TypeOK, ListQuery
  <2> QED
    BY <2>2, <2>3, <2>4 DEF PanelInv, Fresh
<1>2. PanelInv /\ SessionInv /\ [DashboardNext]_allVars => PanelInv'
  <2> SUFFICES ASSUME PanelInv, SessionInv, [DashboardNext]_allVars
               PROVE  PanelInv'
    OBVIOUS
  <2>1. /\ lists \in [Tenants -> ListQuery]
        /\ \A c \in tenantCalls : c.tenant \in Tenants
    BY DEF PanelInv, TenantsPanels!TypeOK, TenantsPanels!Call, ListQuery
  <2>2. CASE TenantsPanels!Next
    BY <2>2, PanelStep, SessionFacts
  <2>3. ASSUME NEW isOld, TenantsPanels!Enter(isOld) PROVE PanelInv'
    <3>1. /\ lists' = [t \in Tenants |->
                           TenantsPanels!Mounting(lists[t], isOld)]
          /\ UNCHANGED <<objects, tenantCalls, behind>>
      BY <2>3 DEF TenantsPanels!Enter
    <3>2. \A t \in Tenants :
              /\ lists'[t] \in ListQuery
              /\ (lists'[t].loaded <=> lists[t].loaded)
              /\ Fresh(lists[t], objects[t]) => Fresh(lists'[t], objects[t])
      BY <2>1, <3>1, ListFetches
    <3>3. TenantsPanels!TypeOK'
      BY <3>1, <3>2 DEF PanelInv, TenantsPanels!TypeOK, ListQuery
    <3> QED
      BY <2>1, <3>1, <3>2, <3>3 DEF PanelInv
  <2>4. CASE TenantsPanels!Leave
    <3>1. /\ tenantCalls' = {[c EXCEPT !.seen = FALSE] : c \in tenantCalls}
          /\ UNCHANGED <<objects, lists, behind>>
      BY <2>4 DEF TenantsPanels!Leave
    <3>2. /\ \A c \in tenantCalls : \E d \in tenantCalls' :
                 d.tenant = c.tenant /\ d.kind = c.kind /\ d.phase = c.phase
          /\ \A d \in tenantCalls' : \E c \in tenantCalls :
                 /\ d \in TenantsPanels!Call
                 /\ d.tenant = c.tenant /\ d.kind = c.kind
      <4>1. tenantCalls \subseteq TenantsPanels!Call
        BY DEF PanelInv, TenantsPanels!TypeOK
      <4>2. ASSUME NEW c \in tenantCalls
            PROVE  /\ [c EXCEPT !.seen = FALSE] \in tenantCalls'
                   /\ [c EXCEPT !.seen = FALSE] \in TenantsPanels!Call
                   /\ [c EXCEPT !.seen = FALSE].tenant = c.tenant
                   /\ [c EXCEPT !.seen = FALSE].kind = c.kind
                   /\ [c EXCEPT !.seen = FALSE].phase = c.phase
        BY <3>1, <4>1 DEF TenantsPanels!Call
      <4>3. ASSUME NEW d \in tenantCalls'
            PROVE  \E c \in tenantCalls : d = [c EXCEPT !.seen = FALSE]
        BY <3>1
      <4> QED
        BY <4>2, <4>3
    <3>3. TenantsPanels!TypeOK'
      BY <3>1, <3>2 DEF PanelInv, TenantsPanels!TypeOK
    <3>4. \A t : AwaitedIn(tenantCalls, t) => AwaitedIn(tenantCalls', t)
      BY <3>2 DEF AwaitedIn
    <3>5. \A d \in tenantCalls' : d.kind = "clear" => lists'[d.tenant].loaded
      BY <3>1, <3>2 DEF PanelInv
    <3>6. \A t \in Tenants \ behind' :
              AwaitedIn(tenantCalls', t) \/ Fresh(lists'[t], objects'[t])
      BY <3>1, <3>4 DEF PanelInv
    <3> QED
      BY <3>3, <3>5, <3>6 DEF PanelInv
  <2>5. CASE UNCHANGED tenantsVars
    BY <2>5 DEF tenantsVars, PanelInv, TenantsPanels!TypeOK
  <2> QED
    BY <2>2, <2>3, <2>4, <2>5, TenantsFrame
<1>3. PanelInv => TenantsPanels!QuietTableIsTrue
  <2> SUFFICES ASSUME PanelInv, NEW t \in Tenants, TenantsPanels!Quiet(t),
                      t \notin behind
               PROVE  TenantsPanels!Table(t) = objects[t]
    BY DEF TenantsPanels!QuietTableIsTrue
  <2>1. ~AwaitedIn(tenantCalls, t)
    BY DEF TenantsPanels!Quiet, AwaitedIn
  <2>2. Fresh(lists[t], objects[t])
    BY <2>1 DEF PanelInv
  <2> QED
    BY <2>2 DEF TenantsPanels!Quiet, TenantsPanels!Table, Fresh
<1> QED
  BY <1>1, <1>2, <1>3, SessionInvariant, PTL DEF DashboardSpec

-----------------------------------------------------------------------------
(* The drawer of the vault page.                                           *)

PartQuery == Drawer!Query(Drawer!Data)

\* Every object in data is what the part tells of one that the key had.
Explained(data, objs, part) ==
    \A o \in data : \E p \in objs : o = Drawer!Part(part, p)

\* A query whose key has had the objects objs since it was asked last, and now
\* has o.
Told(q, objs, o, part) ==
    /\ q.fetch = "asked" => o \in objs
    /\ q.fetch = "served" => Explained(q.answer, objs, part)
    /\ q.fetch = "idle" /\ q.loaded /\ ~q.failed =>
           Explained(q.data, objs, part)

\* A query whose key ever had the objects objs.
Drawn(q, objs, part) ==
    Explained(q.data, objs, part) /\ Explained(q.answer, objs, part)

DrawerInv ==
    /\ Drawer!TypeOK
    /\ \A k \in Keys : content[k] \in once[k]
    /\ \A k \in Keys, part \in Drawer!Parts : Drawn(parts[k][part], once[k], part)
    /\ \A k \in Keys, part \in Drawer!Parts :
           Told(parts[k][part], had[k][part], content[k], part)

LEMMA DrawerFrame ==
    ASSUME [DashboardNext]_allVars
    PROVE  Drawer!Next \/ Drawer!Leave \/ UNCHANGED drawerVars
<1>1. ASSUME NEW to, NEW isOld, Navigate(to, isOld)
      PROVE  Drawer!Leave \/ UNCHANGED drawerVars
  BY <1>1 DEF Navigate
<1>2. CASE SignedStep \/ ScannerStep \/ ValidationStep \/ ErrorsStep
  BY <1>2 DEF SignedStep, ScannerStep, ValidationStep, ErrorsStep
<1>3. CASE TenantsStep \/ DirectStep \/ UploadStep \/ ViewsStep
  BY <1>3 DEF TenantsStep, DirectStep, UploadStep, ViewsStep
<1>4. CASE DrawerStep
  BY <1>4 DEF DrawerStep
<1>5. CASE UNCHANGED allVars
  BY <1>5 DEF allVars
<1> QED
  BY <1>1, <1>2, <1>3, <1>4, <1>5 DEF DashboardNext

\* A query that mounts, or is fetched anew, is asked or what it was.
LEMMA PartFetches ==
    ASSUME NEW q \in PartQuery, NEW isOld
    PROVE  /\ Drawer!Mounting(q, isOld) \in PartQuery
           /\ \/ Drawer!Mounting(q, isOld) = q
              \/ Drawer!Mounting(q, isOld).fetch = "asked"
           /\ Drawer!Fetching(q, TRUE) \in PartQuery
           /\ \/ Drawer!Fetching(q, TRUE) = q
              \/ Drawer!Fetching(q, TRUE).fetch = "asked"
<1>1. /\ Drawer!Fetching(q, TRUE) \in PartQuery
      /\ \/ Drawer!Fetching(q, TRUE) = q
         \/ Drawer!Fetching(q, TRUE).fetch = "asked"
  BY DEF PartQuery, Drawer!Query, Drawer!Fetching
<1>2. /\ Drawer!Fetching(q, FALSE) \in PartQuery
      /\ \/ Drawer!Fetching(q, FALSE) = q
         \/ Drawer!Fetching(q, FALSE).fetch = "asked"
  BY DEF PartQuery, Drawer!Query, Drawer!Fetching
<1>3. Drawer!Mounting(q, isOld) \in {q, Drawer!Fetching(q, FALSE)}
  BY DEF Drawer!Mounting
<1> QED
  BY <1>1, <1>2, <1>3

\* What a query holds and what it has been served, before and after.
LEMMA PartHolds ==
    ASSUME NEW q \in PartQuery, NEW isOld
    PROVE  /\ \A r \in {Drawer!Mounting(q, isOld), Drawer!Fetching(q, TRUE),
                        Drawer!Marked(q), Drawer!Failed(q)} :
                  r.data = q.data /\ r.answer \in {q.data, q.answer}
           /\ Drawer!Answered(q).data = q.answer
           /\ Drawer!Answered(q).answer = q.answer
           /\ \A data \in Drawer!Data :
                  /\ Drawer!Served(q, data).data = q.data
                  /\ Drawer!Served(q, data).answer = data
  BY DEF PartQuery, Drawer!Query, Drawer!Mounting, Drawer!Fetching,
         Drawer!Marked, Drawer!Failed, Drawer!Answered, Drawer!Served

LEMMA PartEnds ==
    ASSUME NEW q \in PartQuery, NEW objs, NEW o, NEW part
    PROVE  /\ Drawer!Marked(q) \in PartQuery
           /\ Told(q, objs, o, part) => Told(Drawer!Marked(q), objs, o, part)
           /\ Drawer!Answered(q) \in PartQuery
           /\ Drawer!Answered(q).fetch # "asked"
           /\ Told(q, objs, o, part) /\ q.fetch = "served" =>
                  Told(Drawer!Answered(q), objs, o, part)
           /\ Drawer!Failed(q) \in PartQuery
           /\ Told(Drawer!Failed(q), objs, o, part)
           /\ \A data \in Drawer!Data :
                  /\ Drawer!Served(q, data) \in PartQuery
                  /\ Explained(data, objs, part) =>
                         Told(Drawer!Served(q, data), objs, o, part)
  BY DEF PartQuery, Drawer!Query, Drawer!Marked, Drawer!Answered,
         Drawer!Failed, Drawer!Served, Told

\* One query of a key moves, and nothing is asked anew.
LEMMA PartMoves ==
    ASSUME DrawerInv, NEW k \in Keys, NEW part \in Drawer!Parts,
           NEW q \in PartQuery,
           parts' = [parts EXCEPT ![k][part] = q],
           Told(q, had[k][part], content[k], part), Drawn(q, once[k], part),
           UNCHANGED <<content, opened, had, once>>, checkedSize' \subseteq Keys
    PROVE  DrawerInv'
<1>1. parts \in [Keys -> [Drawer!Parts -> PartQuery]]
  BY DEF DrawerInv, Drawer!TypeOK, PartQuery
<1>2. parts' \in [Keys -> [Drawer!Parts -> PartQuery]]
  BY <1>1
<1>3. Drawer!TypeOK'
  BY <1>2 DEF DrawerInv, Drawer!TypeOK, PartQuery
<1>4. \A l \in Keys, p \in Drawer!Parts :
          parts'[l][p] = IF l = k /\ p = part THEN q ELSE parts[l][p]
  BY <1>1
<1> QED
  BY <1>3, <1>4 DEF DrawerInv

\* The queries of a key move, and those now asked begin anew.
LEMMA PartsAsked ==
    ASSUME DrawerInv, NEW k \in Keys,
           NEW queries \in [Drawer!Parts -> PartQuery],
           Drawer!Asks(k, queries),
           \A part \in Drawer!Parts :
               \/ queries[part].fetch = "asked"
               \/ Told(queries[part], had[k][part], content[k], part),
           \A part \in Drawer!Parts : Drawn(queries[part], once[k], part),
           opened' \in Keys \cup {Blank}, UNCHANGED <<content, checkedSize>>
    PROVE  DrawerInv'
<1>1. /\ parts \in [Keys -> [Drawer!Parts -> PartQuery]]
      /\ had \in [Keys -> [Drawer!Parts -> SUBSET Drawer!Contents]]
      /\ content \in [Keys -> Drawer!Contents]
  BY DEF DrawerInv, Drawer!TypeOK, PartQuery
<1>2. PICK h : h = [part \in Drawer!Parts |->
                       IF queries[part].fetch = "asked"
                          /\ queries[part] # parts[k][part]
                       THEN {content[k]} ELSE had[k][part]]
  OBVIOUS
<1>3. /\ parts' = [parts EXCEPT ![k] = queries]
      /\ had' = [had EXCEPT ![k] = h]
      /\ once' = once
  BY <1>2 DEF Drawer!Asks
<1>4. h \in [Drawer!Parts -> SUBSET Drawer!Contents]
  BY <1>1, <1>2
<1>5. Drawer!TypeOK'
  <2>1. parts' \in [Keys -> [Drawer!Parts -> PartQuery]]
    BY <1>1, <1>3
  <2>2. had' \in [Keys -> [Drawer!Parts -> SUBSET Drawer!Contents]]
    BY <1>1, <1>3, <1>4
  <2>3. once' = once
    BY <1>3
  <2> QED
    BY <2>1, <2>2, <2>3 DEF DrawerInv, Drawer!TypeOK, PartQuery
<1>6. ASSUME NEW part \in Drawer!Parts
      PROVE  Told(queries[part], h[part], content[k], part)
  <2>1. CASE queries[part].fetch = "asked" /\ queries[part] # parts[k][part]
    BY <1>2, <2>1 DEF Told
  <2>2. CASE queries[part] = parts[k][part]
    BY <1>2, <2>2 DEF DrawerInv
  <2>3. CASE queries[part].fetch # "asked"
    BY <1>2, <2>3
  <2> QED
    BY <2>1, <2>2, <2>3
<1>7. ASSUME NEW l \in Keys, NEW part \in Drawer!Parts
      PROVE  Told(parts'[l][part], had'[l][part], content'[l], part)
  <2>1. CASE l = k
    BY <1>1, <1>3, <1>6, <2>1
  <2>2. CASE l # k
    BY <1>1, <1>3, <2>2 DEF DrawerInv
  <2> QED
    BY <2>1, <2>2
<1>8. ASSUME NEW l \in Keys, NEW part \in Drawer!Parts
      PROVE  Drawn(parts'[l][part], once'[l], part)
  <2>1. Drawn(parts[l][part], once[l], part)
    BY DEF DrawerInv
  <2>2. CASE l = k
    BY <1>1, <1>3, <2>2
  <2>3. CASE l # k
    BY <1>1, <1>3, <2>1, <2>3
  <2> QED
    BY <2>2, <2>3
<1> QED
  BY <1>3, <1>5, <1>7, <1>8 DEF DrawerInv

LEMMA DrawerMoves ==
    ASSUME DrawerInv, Drawer!Next \/ Drawer!Leave PROVE DrawerInv'
<1>1. /\ parts \in [Keys -> [Drawer!Parts -> PartQuery]]
      /\ had \in [Keys -> [Drawer!Parts -> SUBSET Drawer!Contents]]
      /\ once \in [Keys -> SUBSET Drawer!Contents]
      /\ content \in [Keys -> Drawer!Contents]
      /\ opened \in Keys \cup {Blank}
      /\ checkedSize \subseteq Keys
  BY DEF DrawerInv, Drawer!TypeOK, PartQuery
<1>2. CASE Drawer!Close \/ Drawer!Leave
  BY <1>2 DEF Drawer!Close, Drawer!Leave, DrawerInv, Drawer!TypeOK
<1>3. ASSUME NEW k \in Keys, NEW isOld \in BOOLEAN, Drawer!Open(k, isOld)
      PROVE  DrawerInv'
  <2>1. PICK queries : queries = [part \in Drawer!Parts |->
            IF part \in followed /\ Drawer!IsEnabled(part, parts[k])
            THEN Drawer!Mounting(parts[k][part], isOld) ELSE parts[k][part]]
    OBVIOUS
  <2>2. /\ Drawer!Asks(k, queries) /\ opened' = k
        /\ UNCHANGED <<content, checkedSize>>
    BY <1>3, <2>1 DEF Drawer!Open
  <2>3. ASSUME NEW part \in Drawer!Parts
        PROVE  /\ queries[part] \in PartQuery
               /\ \/ queries[part] = parts[k][part]
                  \/ queries[part].fetch = "asked"
               /\ Drawn(queries[part], once[k], part)
    <3>1. parts[k][part] \in PartQuery
      BY <1>1
    <3>2. PICK q : q = Drawer!Mounting(parts[k][part], isOld)
      OBVIOUS
    <3>3. q \in PartQuery /\ (q = parts[k][part] \/ q.fetch = "asked")
      BY <3>1, <3>2, PartFetches
    <3>4. queries[part] \in {q, parts[k][part]}
      BY <2>1, <3>2
    <3>5. Drawn(parts[k][part], once[k], part) /\ Drawn(q, once[k], part)
      BY <3>1, <3>2, PartHolds DEF DrawerInv, Drawn
    <3> QED
      BY <3>1, <3>3, <3>4, <3>5
  <2>4. queries \in [Drawer!Parts -> PartQuery]
    BY <2>1, <2>3
  <2>5. \A part \in Drawer!Parts :
            \/ queries[part].fetch = "asked"
            \/ Told(queries[part], had[k][part], content[k], part)
    BY <2>3 DEF DrawerInv
  <2>6. \A part \in Drawer!Parts : Drawn(queries[part], once[k], part)
    BY <2>3
  <2> QED
    BY <2>2, <2>4, <2>5, <2>6, PartsAsked
<1>4. ASSUME NEW k \in Keys, NEW part \in Drawer!Parts, NEW isOld \in BOOLEAN,
             Drawer!Answer(k, part, isOld)
      PROVE  DrawerInv'
  <2>1. PICK a : a = Drawer!Answered(parts[k][part])
    OBVIOUS
  <2>2. PICK qs : qs = [parts[k] EXCEPT ![part] = a]
    OBVIOUS
  <2>3. PICK queries : queries = Drawer!Enabling(k, qs, isOld)
    OBVIOUS
  <2>4. /\ Drawer!Asks(k, queries) /\ parts[k][part].fetch = "served"
        /\ UNCHANGED <<content, opened, checkedSize>>
    BY <1>4, <2>1, <2>2, <2>3 DEF Drawer!Answer
  <2>5. /\ a \in PartQuery
        /\ Told(a, had[k][part], content[k], part)
        /\ Drawn(a, once[k], part)
    <3>1. /\ parts[k][part] \in PartQuery
          /\ Told(parts[k][part], had[k][part], content[k], part)
          /\ Drawn(parts[k][part], once[k], part)
      BY <1>1 DEF DrawerInv
    <3>2. Drawn(a, once[k], part)
      BY <2>1, <3>1, PartHolds DEF Drawn
    <3> QED
      BY <2>1, <2>4, <3>1, <3>2, PartEnds
  <2>6. /\ qs \in [Drawer!Parts -> PartQuery]
        /\ \A p \in Drawer!Parts :
               /\ Told(qs[p], had[k][p], content[k], p)
               /\ Drawn(qs[p], once[k], p)
    BY <1>1, <2>2, <2>5 DEF DrawerInv
  <2>7. PICK m : m = Drawer!Mounting(qs.preview, isOld)
    OBVIOUS
  <2>8. /\ "preview" \in Drawer!Parts
        /\ m \in PartQuery /\ (m = qs.preview \/ m.fetch = "asked")
        /\ Drawn(m, once[k], "preview")
    <3>1. "preview" \in Drawer!Parts
      BY DEF Drawer!Parts
    <3>2. PICK q : q = qs["preview"]
      OBVIOUS
    <3>3. q \in PartQuery /\ Drawn(q, once[k], "preview")
      BY <2>6, <3>1, <3>2
    <3>4. m = Drawer!Mounting(q, isOld)
      BY <2>7, <3>2
    <3>5. m \in PartQuery /\ (m = q \/ m.fetch = "asked")
      BY <3>3, <3>4, PartFetches
    <3>6. m.data = q.data /\ m.answer \in {q.data, q.answer}
      BY <3>3, <3>4, PartHolds
    <3>7. Drawn(m, once[k], "preview")
      BY <3>3, <3>6 DEF Drawn
    <3> QED
      BY <3>1, <3>2, <3>5, <3>7
  <2>9. queries = qs \/ queries = [qs EXCEPT !.preview = m]
    BY <2>3, <2>7 DEF Drawer!Enabling
  <2>10. /\ queries \in [Drawer!Parts -> PartQuery]
         /\ \A p \in Drawer!Parts :
                /\ queries[p] = qs[p] \/ queries[p].fetch = "asked"
                /\ Drawn(queries[p], once[k], p)
    BY <2>6, <2>8, <2>9
  <2> QED
    BY <1>1, <2>4, <2>6, <2>10, PartsAsked
<1>5. ASSUME NEW k \in Keys, NEW part \in Drawer!Parts, Drawer!Fail(k, part)
      PROVE  DrawerInv'
  <2>1. PICK q : q = Drawer!Failed(parts[k][part])
    OBVIOUS
  <2>2. /\ parts' = [parts EXCEPT ![k][part] = q]
        /\ UNCHANGED <<content, opened, had, once>> /\ checkedSize' \subseteq Keys
    BY <1>1, <1>5, <2>1 DEF Drawer!Fail
  <2>3. q \in PartQuery /\ Told(q, had[k][part], content[k], part)
    BY <1>1, <2>1, PartEnds
  <2>4. Drawn(q, once[k], part)
    BY <1>1, <2>1, PartHolds DEF DrawerInv, Drawn
  <2> QED
    BY <2>2, <2>3, <2>4, PartMoves
<1>6. ASSUME NEW k \in Keys, NEW part \in Drawer!Parts, NEW data \in Drawer!Data,
             parts' = [parts EXCEPT ![k][part] =
                           Drawer!Served(parts[k][part], data)],
             parts[k][part].fetch = "asked",
             \A o \in data : o = Drawer!Part(part, content[k]),
             UNCHANGED <<content, opened, had, once>>, checkedSize' \subseteq Keys
      PROVE  DrawerInv'
  <2>1. PICK q : q = Drawer!Served(parts[k][part], data)
    OBVIOUS
  <2>2. content[k] \in had[k][part] /\ parts[k][part] \in PartQuery
    BY <1>1, <1>6 DEF DrawerInv, Told
  <2>3. Explained(data, had[k][part], part)
    BY <1>6, <2>2 DEF Explained
  <2>4. q \in PartQuery /\ Told(q, had[k][part], content[k], part)
    BY <2>1, <2>2, <2>3, PartEnds
  <2>5. Drawn(q, once[k], part)
    <3>1. Explained(data, once[k], part)
      BY <1>6 DEF DrawerInv, Explained
    <3>2. q.data = parts[k][part].data /\ q.answer = data
      BY <2>1, <2>2, PartHolds
    <3> QED
      BY <3>1, <3>2 DEF DrawerInv, Drawn
  <2> QED
    BY <1>6, <2>1, <2>4, <2>5, PartMoves
<1>7. \A o \in Drawer!Contents, part \in Drawer!Parts :
          {Drawer!Part(part, o)} \in Drawer!Data
  BY DEF Drawer!Part, Drawer!Data, Drawer!Contents
<1>8. ASSUME NEW k \in Keys, NEW part \in Drawer!Parts, Drawer!Serve(k, part)
      PROVE  DrawerInv'
  <2>1. PICK data : data = {Drawer!Part(part, content[k])}
    OBVIOUS
  <2>2. data \in Drawer!Data
    BY <1>1, <1>7, <2>1
  <2>3. /\ parts' = [parts EXCEPT ![k][part] =
                         Drawer!Served(parts[k][part], data)]
        /\ parts[k][part].fetch = "asked"
        /\ UNCHANGED <<content, opened, had, once, checkedSize>>
    BY <1>1, <1>8, <2>1 DEF Drawer!Serve
  <2> QED
    BY <1>1, <1>6, <2>1, <2>2, <2>3
<1>9. ASSUME NEW k \in Keys, Drawer!Download(k) PROVE DrawerInv'
  <2>1. "preview" \in Drawer!Parts
        /\ Drawer!Part("preview", content[k]) = content[k]
    BY DEF Drawer!Parts, Drawer!Part
  <2>2. PICK data : data = {content[k]}
    OBVIOUS
  <2>3. data \in Drawer!Data
    BY <1>1, <2>2 DEF Drawer!Data
  <2>4. /\ parts' = [parts EXCEPT ![k]["preview"] =
                         Drawer!Served(parts[k]["preview"], data)]
        /\ parts[k]["preview"].fetch = "asked"
        /\ checkedSize' \subseteq Keys /\ UNCHANGED <<content, opened, had, once>>
    BY <1>1, <1>9, <2>1, <2>2 DEF Drawer!Download
  <2> QED
    BY <1>6, <2>1, <2>2, <2>3, <2>4
<1>10. ASSUME NEW k \in Keys, Drawer!CheckSize(k) PROVE DrawerInv'
  <2>1. /\ checkedSize' \subseteq Keys
        /\ UNCHANGED <<content, opened, parts, had, once>>
    BY <1>1, <1>10 DEF Drawer!CheckSize
  <2> QED
    BY <2>1 DEF DrawerInv, Drawer!TypeOK
<1>11. ASSUME NEW k \in Keys, NEW o \in Drawer!Contents, Drawer!Write(k, o)
       PROVE  DrawerInv'
  <2>1. PICK h : h = [part \in Drawer!Parts |-> had[k][part] \cup {o}]
    OBVIOUS
  <2>2. /\ content' = [content EXCEPT ![k] = o]
        /\ had' = [had EXCEPT ![k] = h]
        /\ once' = [once EXCEPT ![k] = @ \cup {o}]
        /\ UNCHANGED <<opened, parts, checkedSize>>
    BY <1>11, <2>1 DEF Drawer!Write
  <2>3. h \in [Drawer!Parts -> SUBSET Drawer!Contents]
    BY <1>1, <2>1
  <2>4. Drawer!TypeOK'
    BY <1>1, <2>2, <2>3 DEF DrawerInv, Drawer!TypeOK
  <2>5. ASSUME NEW part \in Drawer!Parts
        PROVE  Told(parts[k][part], h[part], o, part)
    <3>1. Told(parts[k][part], had[k][part], content[k], part)
      BY DEF DrawerInv
    <3>2. h[part] = had[k][part] \cup {o}
      BY <2>1
    <3>3. \A data : Explained(data, had[k][part], part) =>
                        Explained(data, h[part], part)
      BY <3>2 DEF Explained
    <3> QED
      BY <3>1, <3>2, <3>3 DEF Told
  <2>6. ASSUME NEW l \in Keys, NEW part \in Drawer!Parts
        PROVE  Told(parts'[l][part], had'[l][part], content'[l], part)
    <3>1. CASE l = k
      BY <1>1, <2>2, <2>5, <3>1
    <3>2. CASE l # k
      BY <1>1, <2>2, <3>2 DEF DrawerInv
    <3> QED
      BY <3>1, <3>2
  <2>7. \A l \in Keys : content'[l] \in once'[l] /\ once[l] \subseteq once'[l]
    BY <1>1, <2>2 DEF DrawerInv
  <2>8. ASSUME NEW l \in Keys, NEW part \in Drawer!Parts
        PROVE  Drawn(parts'[l][part], once'[l], part)
    <3>1. \A data : Explained(data, once[l], part) =>
                        Explained(data, once'[l], part)
      BY <2>7 DEF Explained
    <3> QED
      BY <2>2, <3>1 DEF DrawerInv, Drawn
  <2> QED
    BY <2>4, <2>6, <2>7, <2>8 DEF DrawerInv
<1>12. CASE Drawer!Invalidate
  <2>1. /\ parts' = [k \in Keys |-> [part \in Drawer!Parts |->
                IF k = opened /\ part \in followed
                   /\ Drawer!IsEnabled(part, parts[k])
                THEN Drawer!Fetching(Drawer!Marked(parts[k][part]), TRUE)
                ELSE Drawer!Marked(parts[k][part])]]
        /\ had' = [k \in Keys |-> [part \in Drawer!Parts |->
                IF k = opened /\ parts'[k][part].fetch = "asked"
                THEN {content[k]} ELSE had[k][part]]]
        /\ checkedSize' \subseteq Keys
        /\ UNCHANGED <<content, opened, once>>
    BY <1>1, <1>12 DEF Drawer!Invalidate
  <2>2. ASSUME NEW k \in Keys, NEW part \in Drawer!Parts
        PROVE  /\ parts'[k][part] \in PartQuery
               /\ Told(parts'[k][part], had'[k][part], content[k], part)
               /\ Drawn(parts'[k][part], once[k], part)
    <3>1. parts[k][part] \in PartQuery
          /\ Told(parts[k][part], had[k][part], content[k], part)
      BY <1>1 DEF DrawerInv
    <3>2. PICK m : m = Drawer!Marked(parts[k][part])
      OBVIOUS
    <3>3. m \in PartQuery /\ Told(m, had[k][part], content[k], part)
      BY <3>1, <3>2, PartEnds
    <3>4. PICK q : q = Drawer!Fetching(m, TRUE)
      OBVIOUS
    <3>5. q \in PartQuery /\ (q = m \/ q.fetch = "asked")
      BY <3>3, <3>4, PartFetches
    <3>6. /\ parts'[k][part] = m \/ (k = opened /\ parts'[k][part] = q)
          /\ had'[k][part] = IF k = opened /\ parts'[k][part].fetch = "asked"
                             THEN {content[k]} ELSE had[k][part]
      BY <2>1, <3>2, <3>4
    <3>7. Drawn(parts'[k][part], once[k], part)
      <4>1. Drawn(m, once[k], part)
        BY <3>1, <3>2, PartHolds DEF DrawerInv, Drawn
      <4>2. Drawn(q, once[k], part)
        BY <3>3, <3>4, <4>1, PartHolds DEF Drawn
      <4> QED
        BY <3>6, <4>1, <4>2
    <3>8. CASE k = opened /\ parts'[k][part].fetch = "asked"
      BY <3>3, <3>5, <3>6, <3>7, <3>8 DEF Told
    <3>9. CASE ~(k = opened /\ parts'[k][part].fetch = "asked")
      BY <3>3, <3>5, <3>6, <3>7, <3>9
    <3> QED
      BY <3>8, <3>9
  <2>3. parts' \in [Keys -> [Drawer!Parts -> PartQuery]]
    BY <2>1, <2>2
  <2>4. had' \in [Keys -> [Drawer!Parts -> SUBSET Drawer!Contents]]
    <3>1. ASSUME NEW k \in Keys, NEW part \in Drawer!Parts
          PROVE  (IF k = opened /\ parts'[k][part].fetch = "asked"
                  THEN {content[k]} ELSE had[k][part])
                     \in SUBSET Drawer!Contents
      BY <1>1
    <3> QED
      BY <2>1, <3>1
  <2>5. Drawer!TypeOK'
    BY <2>1, <2>3, <2>4 DEF DrawerInv, Drawer!TypeOK, PartQuery
  <2> QED
    BY <2>1, <2>2, <2>5 DEF DrawerInv
<1> QED
  BY <1>2, <1>3, <1>4, <1>5, <1>8, <1>9, <1>10, <1>11, <1>12 DEF Drawer!Next

LEMMA DrawerInvariant ==
    DashboardSpec => [](DrawerInv /\ Drawer!DrawerTellsItsObject)
<1>1. DashboardInit => DrawerInv
  <2> SUFFICES ASSUME DashboardInit PROVE DrawerInv
    OBVIOUS
  <2>1. /\ content \in [Keys -> {Drawer!Object("image/png", 1),
                                 Drawer!Object("text/plain", 0)}]
        /\ opened = Blank /\ checkedSize = {}
        /\ parts = [k \in Keys |->
                       [part \in Drawer!Parts |-> Drawer!NoQuery({})]]
        /\ had = [k \in Keys |-> [part \in Drawer!Parts |-> {}]]
        /\ once = [k \in Keys |-> {content[k]}]
    BY DEF DashboardInit, Drawer!Init
  <2>2. /\ Drawer!NoQuery({}) \in PartQuery
        /\ Drawer!NoQuery({}).fetch = "idle"
        /\ ~Drawer!NoQuery({}).loaded
        /\ Drawer!NoQuery({}).data = {} /\ Drawer!NoQuery({}).answer = {}
    BY DEF PartQuery, Drawer!Query, Drawer!NoQuery, Drawer!Data
  <2>3. content \in [Keys -> Drawer!Contents]
    BY <2>1 DEF Drawer!Contents, Drawer!Objects
  <2>4. Drawer!TypeOK
    BY <2>1, <2>2, <2>3 DEF Drawer!TypeOK, PartQuery
  <2> QED
    BY <2>1, <2>2, <2>4 DEF DrawerInv, Told, Drawn, Explained
<1>2. DrawerInv /\ [DashboardNext]_allVars => DrawerInv'
  <2> SUFFICES ASSUME DrawerInv, [DashboardNext]_allVars PROVE DrawerInv'
    OBVIOUS
  <2>1. CASE UNCHANGED drawerVars
    BY <2>1 DEF drawerVars, DrawerInv, Drawer!TypeOK
  <2> QED
    BY <2>1, DrawerFrame, DrawerMoves
<1>3. DrawerInv => Drawer!DrawerTellsItsObject
  <2> SUFFICES ASSUME DrawerInv, NEW part \in Drawer!Parts, opened # Blank,
                      NEW o \in parts[opened][part].data
               PROVE  /\ \E p \in once[opened] : o = Drawer!Part(part, p)
                      /\ Drawer!AtRest(parts[opened][part]) =>
                             \E p \in had[opened][part] : o = Drawer!Part(part, p)
    BY DEF Drawer!DrawerTellsItsObject
  <2>1. opened \in Keys
    BY DEF DrawerInv, Drawer!TypeOK
  <2>2. /\ Told(parts[opened][part], had[opened][part], content[opened], part)
        /\ Drawn(parts[opened][part], once[opened], part)
    BY <2>1 DEF DrawerInv
  <2> QED
    BY <2>2 DEF Told, Drawn, Explained, Drawer!AtRest
<1> QED
  BY <1>1, <1>2, <1>3, PTL DEF DashboardSpec

-----------------------------------------------------------------------------
(* The cards about the API.                                                *)

\* What a query may hold.
Held(q) ==
    {{}} \cup IF q = "versioning"
              THEN {{s} : s \in [Buckets -> Views!Statuses]}
              ELSE {{Views!View(q, e)} : e \in Environments}

\* What the card of q told of an API that ran with one of envs.
CardsOf(q, envs) == {{Views!View(q, e)} : e \in envs}

\* A query since which was asked last the API has had envs, and now has env.
CardTold(q, v, envs, env) ==
    /\ v.fetch = "asked" => env \in envs
    /\ v.fetch = "served" => v.answer \in CardsOf(q, envs)
    /\ v.fetch = "idle" /\ v.loaded /\ ~v.failed => v.data \in CardsOf(q, envs)

\* Each row is one of the statuses of its bucket.
RowsOf(data, had1) == \A s \in data, b \in Buckets : s[b] \in had1[b]

\* The same of the versioning tab, whose buckets have had the statuses had1
\* and now have st, of which rd is read.
TabTold(v, st, rd, had1) ==
    /\ v.fetch = "asked" => \A b \in Buckets :
           st[b] \in had1[b] /\ rd[b] \in had1[b] \cup {Views!Unread}
    /\ v.fetch # "asked" => rd = Views!NothingRead
    /\ v.fetch = "served" => RowsOf(v.answer, had1)
    /\ v.fetch = "idle" /\ v.loaded /\ ~v.failed => RowsOf(v.data, had1)

Cards == Views!Queries \ {"versioning"}

ViewsInv ==
    /\ Views!TypeOK
    /\ views = [q \in Views!Queries |-> views[q]]
    /\ \A q \in Cards : CardTold(q, views[q], ranWith[q], environment)
    /\ TabTold(views["versioning"], status, reading, hadStatus)

LEMMA ViewsFrame ==
    ASSUME [DashboardNext]_allVars
    PROVE  \/ Views!Next
           \/ \E page, old : Views!Enter(page, old)
           \/ UNCHANGED viewsVars
<1>1. ASSUME NEW to, NEW isOld, Navigate(to, isOld)
      PROVE  \E page, old : Views!Enter(page, old)
  <2>1. PICK old \in SUBSET (Views!QueriesOf(to) \cap followed) :
            Views!Enter(to, old)
    BY <1>1 DEF Navigate
  <2> QED
    BY <2>1
<1>2. CASE SignedStep \/ ScannerStep \/ ValidationStep \/ ErrorsStep
  BY <1>2 DEF SignedStep, ScannerStep, ValidationStep, ErrorsStep
<1>3. CASE TenantsStep \/ DirectStep \/ UploadStep \/ DrawerStep
  BY <1>3 DEF TenantsStep, DirectStep, UploadStep, DrawerStep
<1>4. CASE ViewsStep
  BY <1>4 DEF ViewsStep
<1>5. CASE UNCHANGED allVars
  BY <1>5 DEF allVars
<1> QED
  BY <1>1, <1>2, <1>3, <1>4, <1>5 DEF DashboardNext

\* What the steps of a query do to it, whatever it holds.
LEMMA CardMounts ==
    ASSUME NEW Data, NEW v \in Views!Query(Data), NEW isOld
    PROVE  /\ Views!Mounting(v, isOld) \in Views!Query(Data)
           /\ \/ Views!Mounting(v, isOld) = v
              \/ v.fetch = "idle" /\ Views!Mounting(v, isOld).fetch = "asked"
<1>1. /\ Views!Fetching(v, FALSE) \in Views!Query(Data)
      /\ \/ Views!Fetching(v, FALSE) = v
         \/ v.fetch = "idle" /\ Views!Fetching(v, FALSE).fetch = "asked"
  BY DEF Views!Query, Views!Fetching
<1>2. Views!Mounting(v, isOld) \in {v, Views!Fetching(v, FALSE)}
  BY DEF Views!Mounting
<1> QED
  BY <1>1, <1>2

LEMMA CardEnds ==
    ASSUME NEW Data, NEW v \in Views!Query(Data)
    PROVE  /\ Views!Answered(v) \in Views!Query(Data)
           /\ Views!Answered(v).fetch = "idle"
           /\ Views!Answered(v).data = v.answer
           /\ Views!Failed(v) \in Views!Query(Data)
           /\ Views!Failed(v).fetch = "idle"
           /\ Views!Failed(v).failed
  BY DEF Views!Query, Views!Answered, Views!Failed

LEMMA CardServed ==
    ASSUME NEW Data, NEW v \in Views!Query(Data), NEW data \in Data
    PROVE  /\ Views!Served(v, data) \in Views!Query(Data)
           /\ Views!Served(v, data).fetch = "served"
           /\ Views!Served(v, data).answer = data
  BY DEF Views!Query, Views!Served

LEMMA ViewTypes ==
    ASSUME ViewsInv
    PROVE  /\ \A q \in Views!Queries : views[q] \in Views!Query(Held(q))
           /\ ranWith \in [Views!Queries -> SUBSET Environments]
           /\ hadStatus \in [Buckets -> SUBSET Views!Statuses]
           /\ environment \in Environments
           /\ status \in [Buckets -> Views!Statuses]
           /\ reading \in [Buckets -> Views!Statuses \cup {Views!Unread}]
           /\ running \in BOOLEAN /\ changes \in 0..MaxChanges
           /\ "versioning" \in Views!Queries
<1>1. \A q \in Views!Queries : Views!Holdings[q] = Views!Query(Held(q))
  BY DEF Views!Holdings, Held
<1> QED
  BY <1>1 DEF ViewsInv, Views!TypeOK, Views!Queries

\* The rest of the types, as they are stated.
LEMMA ViewsTyped ==
    ASSUME NEW vs, \A q \in Views!Queries : vs[q] \in Views!Query(Held(q))
    PROVE  \A q \in Views!Queries : vs[q] \in Views!Holdings[q]
  BY DEF Views!Holdings, Held

\* One query is answered, served or fails.
LEMMA CardMoves ==
    ASSUME ViewsInv, NEW q \in Views!Queries, NEW v \in Views!Query(Held(q)),
           views' = [views EXCEPT ![q] = v],
           reading' \in [Buckets -> Views!Statuses \cup {Views!Unread}],
           q # "versioning" => reading' = reading
                /\ CardTold(q, v, ranWith[q], environment),
           q = "versioning" => TabTold(v, status, reading', hadStatus),
           UNCHANGED <<changes, running, environment, status, ranWith,
                       hadStatus>>
    PROVE  ViewsInv'
<1>1. /\ views = [p \in Views!Queries |-> views[p]]
      /\ \A p \in Views!Queries : views[p] \in Views!Query(Held(p))
  BY ViewTypes DEF ViewsInv
<1>2. \A p \in Views!Queries : views'[p] = IF p = q THEN v ELSE views[p]
  BY <1>1
<1>3. views' = [p \in Views!Queries |-> views'[p]]
  BY <1>1
<1>4. \A p \in Views!Queries : views'[p] \in Views!Holdings[p]
  BY <1>1, <1>2, ViewsTyped
<1>5. Views!TypeOK'
  BY <1>4 DEF ViewsInv, Views!TypeOK
<1>6. \A p \in Cards : CardTold(p, views'[p], ranWith[p], environment)
  BY <1>2 DEF ViewsInv, Cards
<1>7. TabTold(views'["versioning"], status, reading', hadStatus)
  BY <1>2, ViewTypes DEF ViewsInv
<1> QED
  BY <1>3, <1>5, <1>6, <1>7 DEF ViewsInv

LEMMA ViewsMove ==
    ASSUME ViewsInv, Views!Next PROVE ViewsInv'
<1>1. /\ \A q \in Views!Queries : views[q] \in Views!Query(Held(q))
      /\ ranWith \in [Views!Queries -> SUBSET Environments]
      /\ hadStatus \in [Buckets -> SUBSET Views!Statuses]
      /\ environment \in Environments
      /\ status \in [Buckets -> Views!Statuses]
      /\ reading \in [Buckets -> Views!Statuses \cup {Views!Unread}]
      /\ running \in BOOLEAN /\ changes \in 0..MaxChanges
      /\ "versioning" \in Views!Queries
  BY ViewTypes
<1>2. Views!NothingRead \in [Buckets -> Views!Statuses \cup {Views!Unread}]
  BY DEF Views!NothingRead
<1>3. ASSUME NEW q \in Views!Queries, Views!Answer(q) PROVE ViewsInv'
  <2>1. PICK v : v = Views!Answered(views[q])
    OBVIOUS
  <2>2. /\ views' = [views EXCEPT ![q] = v] /\ views[q].fetch = "served"
        /\ UNCHANGED <<changes, running, environment, status, reading, ranWith,
                       hadStatus>>
    BY <1>3, <2>1 DEF Views!Answer
  <2>3. /\ v \in Views!Query(Held(q)) /\ v.fetch = "idle"
        /\ v.data = views[q].answer
    BY <1>1, <2>1, CardEnds
  <2>4. q # "versioning" => CardTold(q, v, ranWith[q], environment)
    BY <2>2, <2>3 DEF ViewsInv, Cards, CardTold
  <2>5. q = "versioning" => TabTold(v, status, reading, hadStatus)
    BY <2>2, <2>3 DEF ViewsInv, TabTold
  <2> QED
    BY <1>1, <2>2, <2>3, <2>4, <2>5, CardMoves
<1>4. ASSUME NEW q \in Views!Queries, Views!Fail(q) PROVE ViewsInv'
  <2>1. PICK v : v = Views!Failed(views[q])
    OBVIOUS
  <2>2. /\ views' = [views EXCEPT ![q] = v]
        /\ reading' = IF q = "versioning" THEN Views!NothingRead ELSE reading
        /\ UNCHANGED <<changes, running, environment, status, ranWith,
                       hadStatus>>
    BY <1>4, <2>1 DEF Views!Fail
  <2>3. v \in Views!Query(Held(q)) /\ v.fetch = "idle" /\ v.failed
    BY <1>1, <2>1, CardEnds
  <2>4. CardTold(q, v, ranWith[q], environment)
    BY <2>3 DEF CardTold
  <2>5. q = "versioning" => TabTold(v, status, reading', hadStatus)
    BY <2>2, <2>3 DEF TabTold
  <2>6. /\ reading' \in [Buckets -> Views!Statuses \cup {Views!Unread}]
        /\ q # "versioning" => reading' = reading
    BY <1>1, <1>2, <2>2
  <2> QED
    BY <2>2, <2>3, <2>4, <2>5, <2>6, CardMoves
<1>5. ASSUME NEW q \in Views!Queries, Views!Serve(q) PROVE ViewsInv'
  <2>1. PICK data : data = {Views!View(q, environment)}
    OBVIOUS
  <2>2. PICK v : v = Views!Served(views[q], data)
    OBVIOUS
  <2>3. /\ views' = [views EXCEPT ![q] = v] /\ views[q].fetch = "asked"
        /\ q # "versioning"
        /\ UNCHANGED <<changes, running, environment, status, reading, ranWith,
                       hadStatus>>
    BY <1>5, <2>1, <2>2 DEF Views!Serve
  <2>4. data \in Held(q)
    BY <1>1, <2>1, <2>3 DEF Held
  <2>5. v \in Views!Query(Held(q)) /\ v.fetch = "served" /\ v.answer = data
    BY <1>1, <2>2, <2>4, CardServed
  <2>6. environment \in ranWith[q]
    BY <2>3 DEF ViewsInv, Cards, CardTold
  <2>7. data \in CardsOf(q, ranWith[q])
    BY <2>1, <2>6 DEF CardsOf
  <2>8. CardTold(q, v, ranWith[q], environment)
    BY <2>5, <2>7 DEF CardTold
  <2> QED
    BY <1>1, <2>3, <2>5, <2>8, CardMoves
<1>6. ASSUME NEW b \in Buckets, Views!ReadBucket(b) PROVE ViewsInv'
  <2>1. PICK read : read = [reading EXCEPT ![b] = status[b]]
    OBVIOUS
  <2>2. /\ views["versioning"].fetch = "asked"
        /\ IF \E c \in Buckets : read[c] = Views!Unread
           THEN reading' = read /\ UNCHANGED views
           ELSE /\ reading' = Views!NothingRead
                /\ views' = [views EXCEPT !["versioning"] =
                                 Views!Served(views["versioning"], {read})]
        /\ UNCHANGED <<changes, running, environment, status, ranWith,
                       hadStatus>>
    BY <1>6, <2>1 DEF Views!ReadBucket
  <2>3. /\ read \in [Buckets -> Views!Statuses \cup {Views!Unread}]
        /\ \A c \in Buckets : status[c] \in hadStatus[c]
        /\ \A c \in Buckets : read[c] \in hadStatus[c] \cup {Views!Unread}
    BY <1>1, <2>1, <2>2 DEF ViewsInv, TabTold
  <2>4. CASE \E c \in Buckets : read[c] = Views!Unread
    <3>1. /\ reading' = read
          /\ UNCHANGED <<views, changes, running, environment, status, ranWith,
                         hadStatus>>
      BY <2>2, <2>4
    <3>2. Views!TypeOK'
      BY <2>3, <3>1 DEF ViewsInv, Views!TypeOK
    <3>3. TabTold(views["versioning"], status, read, hadStatus)
      BY <2>2, <2>3 DEF TabTold
    <3> QED
      BY <3>1, <3>2, <3>3 DEF ViewsInv
  <2>5. CASE ~\E c \in Buckets : read[c] = Views!Unread
    <3>0. PICK data : data = {read}
      OBVIOUS
    <3>1. PICK v : v = Views!Served(views["versioning"], data)
      OBVIOUS
    <3>2. /\ reading' = Views!NothingRead
          /\ views' = [views EXCEPT !["versioning"] = v]
      BY <2>2, <2>5, <3>0, <3>1
    <3>3. read \in [Buckets -> Views!Statuses] /\ RowsOf({read}, hadStatus)
      BY <2>3, <2>5 DEF RowsOf
    <3>4. data \in Held("versioning")
      BY <3>0, <3>3 DEF Held
    <3>5. /\ v \in Views!Query(Held("versioning"))
          /\ v.fetch = "served" /\ v.answer = data
      BY <1>1, <3>1, <3>4, CardServed
    <3>6. TabTold(v, status, reading', hadStatus)
      BY <3>0, <3>2, <3>3, <3>5 DEF TabTold
    <3> QED
      BY <1>1, <1>2, <2>2, <3>2, <3>5, <3>6, CardMoves
  <2> QED
    BY <2>4, <2>5
<1>7. ASSUME NEW b \in Buckets, NEW s \in Views!Statuses,
             Views!SetVersioning(b, s)
      PROVE  ViewsInv'
  <2>1. /\ changes' \in 0..MaxChanges
        /\ status' = [status EXCEPT ![b] = s]
        /\ hadStatus' = [hadStatus EXCEPT ![b] = hadStatus[b] \cup {s}]
        /\ UNCHANGED <<running, environment, reading, views, ranWith>>
    BY <1>1, <1>7, BoundsAssumption DEF Views!SetVersioning, Views!Change
  <2>2. Views!TypeOK'
    BY <1>1, <2>1 DEF ViewsInv, Views!TypeOK
  <2>3. /\ \A c \in Buckets : hadStatus[c] \subseteq hadStatus'[c]
        /\ \A c \in Buckets : status'[c] = status[c] \/ status'[c] \in hadStatus'[c]
    BY <1>1, <2>1
  <2>4. \A data : RowsOf(data, hadStatus) => RowsOf(data, hadStatus')
    BY <2>3 DEF RowsOf
  <2>5. TabTold(views["versioning"], status', reading, hadStatus')
    BY <2>3, <2>4 DEF ViewsInv, TabTold
  <2> QED
    BY <2>1, <2>2, <2>5 DEF ViewsInv
<1>8. ASSUME NEW e \in Environments, Views!Restart(e) PROVE ViewsInv'
  <2>1. /\ changes' \in 0..MaxChanges /\ running' \in BOOLEAN
        /\ environment' \in Environments
        /\ reading' = Views!NothingRead
        /\ ranWith' = [q \in Views!Queries |-> ranWith[q] \cup {environment'}]
        /\ UNCHANGED <<status, views, hadStatus>>
    BY <1>1, <1>8, BoundsAssumption DEF Views!Restart, Views!Change, Views!Boots
  <2>2. Views!TypeOK'
    BY <1>1, <1>2, <2>1 DEF ViewsInv, Views!TypeOK
  <2>3. ASSUME NEW q \in Cards
        PROVE  CardTold(q, views[q], ranWith'[q], environment')
    <3>1. ranWith'[q] = ranWith[q] \cup {environment'}
      BY <2>1 DEF Cards
    <3>2. CardsOf(q, ranWith[q]) \subseteq CardsOf(q, ranWith'[q])
      BY <3>1 DEF CardsOf
    <3> QED
      BY <3>1, <3>2 DEF ViewsInv, CardTold
  <2>4. TabTold(views["versioning"], status, reading', hadStatus)
    <3>1. \A b \in Buckets : reading'[b] = Views!Unread
      BY <2>1 DEF Views!NothingRead
    <3> QED
      BY <2>1, <3>1 DEF ViewsInv, TabTold
  <2> QED
    BY <2>1, <2>2, <2>3, <2>4 DEF ViewsInv
<1> QED
  BY <1>3, <1>4, <1>5, <1>6, <1>7, <1>8 DEF Views!Next

\* A page mounts its queries.
LEMMA ViewsEnter ==
    ASSUME ViewsInv, NEW page, NEW old, Views!Enter(page, old) PROVE ViewsInv'
<1>1. /\ \A q \in Views!Queries : views[q] \in Views!Query(Held(q))
      /\ ranWith \in [Views!Queries -> SUBSET Environments]
      /\ hadStatus \in [Buckets -> SUBSET Views!Statuses]
      /\ environment \in Environments
      /\ status \in [Buckets -> Views!Statuses]
      /\ "versioning" \in Views!Queries
  BY ViewTypes
<1> DEFINE Asked(q) == views[q].fetch = "idle" /\ views'[q].fetch = "asked"
<1>2. /\ views' = [q \in Views!Queries |-> views'[q]]
      /\ \A q \in Views!Queries :
             \/ views'[q] = views[q]
             \/ views'[q] = Views!Mounting(views[q], q \in old \ Views!NeverOld)
      /\ ranWith' = [q \in Views!Queries |->
                         IF Asked(q) THEN {environment} ELSE ranWith[q]]
      /\ hadStatus' = IF Asked("versioning")
                      THEN [b \in Buckets |-> {status[b]}] ELSE hadStatus
      /\ UNCHANGED <<changes, running, environment, status, reading>>
  BY DEF Views!Enter
<1>3. ASSUME NEW q \in Views!Queries
      PROVE  /\ views'[q] \in Views!Query(Held(q))
             /\ views'[q] = views[q] \/ Asked(q)
  <2>1. PICK isOld : isOld = (q \in old \ Views!NeverOld)
    OBVIOUS
  <2>2. PICK v : v = Views!Mounting(views[q], isOld)
    OBVIOUS
  <2>3. /\ v \in Views!Query(Held(q))
        /\ \/ v = views[q]
           \/ views[q].fetch = "idle" /\ v.fetch = "asked"
    BY <1>1, <2>2, CardMounts
  <2>4. views'[q] = views[q] \/ views'[q] = v
    BY <1>2, <2>1, <2>2
  <2> QED
    BY <1>1, <2>3, <2>4
<1>4. \A q \in Views!Queries :
          (views'[q] = views[q] => ~Asked(q)) /\ (Asked(q) \/ ~Asked(q))
  OBVIOUS
<1>5. Views!TypeOK'
  <2>1. \A q \in Views!Queries : views'[q] \in Views!Holdings[q]
    BY <1>3, ViewsTyped
  <2>2. ranWith' \in [Views!Queries -> SUBSET Environments]
    BY <1>1, <1>2
  <2>3. hadStatus' \in [Buckets -> SUBSET Views!Statuses]
    BY <1>1, <1>2
  <2> QED
    BY <1>2, <2>1, <2>2, <2>3 DEF ViewsInv, Views!TypeOK
<1>6. ASSUME NEW q \in Cards
      PROVE  CardTold(q, views'[q], ranWith'[q], environment)
  <2>1. q \in Views!Queries
    BY DEF Cards
  <2>2. CASE Asked(q)
    <3>1. ranWith'[q] = {environment}
      BY <1>2, <2>1, <2>2
    <3> QED
      BY <2>2, <3>1 DEF CardTold
  <2>3. CASE ~Asked(q)
    <3>1. ranWith'[q] = ranWith[q] /\ views'[q] = views[q]
      BY <1>2, <1>3, <2>1, <2>3
    <3> QED
      BY <3>1 DEF ViewsInv
  <2> QED
    BY <2>2, <2>3
<1>7. TabTold(views'["versioning"], status, reading, hadStatus')
  <2>1. CASE Asked("versioning")
    <3>1. \A b \in Buckets : hadStatus'[b] = {status[b]}
      BY <1>2, <2>1
    <3>2. reading = Views!NothingRead
      BY <2>1 DEF ViewsInv, TabTold
    <3>3. \A b \in Buckets : reading[b] = Views!Unread
      BY <3>2 DEF Views!NothingRead
    <3> QED
      BY <2>1, <3>1, <3>3 DEF TabTold
  <2>2. CASE ~Asked("versioning")
    <3>1. hadStatus' = hadStatus /\ views'["versioning"] = views["versioning"]
      BY <1>1, <1>2, <1>3, <2>2
    <3> QED
      BY <3>1 DEF ViewsInv
  <2> QED
    BY <2>1, <2>2
<1> QED
  BY <1>2, <1>5, <1>6, <1>7 DEF ViewsInv

\* What is answered of the options shows no secret.
LEMMA ViewsRedacted ==
    ASSUME NEW q \in {"config", "recipes"}, NEW e \in Environments
    PROVE  /\ Views!View(q, e).secretAccessKey = Views!Redacted
           /\ Views!View(q, e).accessKeyId.visible <= Views!VisibleKeyChars
<1>1. /\ Len(Views!AccessKeyId(e)) \in Nat
      /\ Len(Views!SampleOptions.accessKeyId) \in Nat
  BY StringsAssumption DEF Env!AccessKeyId, Env!SampleOptions, Env!OrDefault,
     Env!DevCredential, Env!Unset, Views!AccessKeyId, Views!SampleOptions,
     Views!OrDefault, Views!DevCredential, Views!Unset
<1>2. ASSUME NEW id, Len(id) \in Nat
      PROVE  Views!Masked(id).visible <= Views!VisibleKeyChars
  BY <1>2 DEF Views!Masked, Views!VisibleKeyChars
<1>3. CASE q = "config"
  <2>1. PICK o : o = Views!StorageOptions(e)
    OBVIOUS
  <2>2. o.accessKeyId = Views!AccessKeyId(e)
    BY <2>1 DEF Views!StorageOptions
  <2>3. Views!View(q, e) = Views!RedactStorageOptions(o)
    BY <1>3, <2>1 DEF Views!View, Views!ConfigView
  <2>4. /\ Views!View(q, e).accessKeyId = Views!Masked(o.accessKeyId)
        /\ Views!View(q, e).secretAccessKey = Views!Redacted
    BY <2>1, <2>3 DEF Views!RedactStorageOptions, Views!StorageOptions
  <2> QED
    BY <1>1, <1>2, <2>2, <2>4
<1>4. CASE q = "recipes"
  <2>1. Views!View(q, e) = Views!RedactStorageOptions(Views!SampleOptions)
    BY <1>4 DEF Views!View, Views!RecipesView
  <2>2. /\ Views!View(q, e).accessKeyId
               = Views!Masked(Views!SampleOptions.accessKeyId)
        /\ Views!View(q, e).secretAccessKey = Views!Redacted
    BY <2>1 DEF Views!RedactStorageOptions, Views!SampleOptions
  <2> QED
    BY <1>1, <1>2, <2>2
<1> QED
  BY <1>3, <1>4

LEMMA ViewsInvariant ==
    DashboardSpec =>
        [](ViewsInv /\ Views!CardsWereTrue /\ Views!NothingSecretLeaves)
<1>1. DashboardInit => ViewsInv
  <2> SUFFICES ASSUME DashboardInit PROVE ViewsInv
    OBVIOUS
  <2>1. Views!Init
    BY DEF DashboardInit
  <2>2. PICK n : n = Views!NoQuery({})
    OBVIOUS
  <2>3. /\ views = [q \in Views!Queries |-> n]
        /\ reading = Views!NothingRead
        /\ changes = 0 /\ running = TRUE /\ environment \in Environments
        /\ status = [b \in Buckets |-> "Unversioned"]
        /\ ranWith = [q \in Views!Queries |-> {}]
        /\ hadStatus = [b \in Buckets |-> {}]
    BY <2>1, <2>2 DEF Views!Init
  <2>4. /\ \A D : {} \in D => n \in Views!Query(D)
        /\ n.fetch = "idle" /\ ~n.loaded
    BY <2>2 DEF Views!NoQuery, Views!Query
  <2>5. \A q \in Views!Queries : views[q] \in Views!Query(Held(q))
    BY <2>3, <2>4 DEF Held
  <2>6. \A q \in Views!Queries : views[q] \in Views!Holdings[q]
    BY <2>5, ViewsTyped
  <2>7. Views!TypeOK
    <3>1. changes \in 0..MaxChanges
      BY <2>3, BoundsAssumption
    <3>2. /\ status \in [Buckets -> Views!Statuses]
          /\ reading \in [Buckets -> Views!Statuses \cup {Views!Unread}]
      BY <2>3 DEF Views!Statuses, Views!NothingRead
    <3>3. /\ ranWith \in [Views!Queries -> SUBSET Environments]
          /\ hadStatus \in [Buckets -> SUBSET Views!Statuses]
      BY <2>3
    <3> QED
      BY <2>3, <2>6, <3>1, <3>2, <3>3 DEF Views!TypeOK
  <2>8. "versioning" \in Views!Queries
    BY DEF Views!Queries
  <2> QED
    BY <2>3, <2>4, <2>7, <2>8 DEF ViewsInv, Cards, CardTold, TabTold
<1>2. ViewsInv /\ [DashboardNext]_allVars => ViewsInv'
  <2> SUFFICES ASSUME ViewsInv, [DashboardNext]_allVars PROVE ViewsInv'
    OBVIOUS
  <2>1. CASE UNCHANGED viewsVars
    BY <2>1 DEF viewsVars, ViewsInv, Views!TypeOK
  <2> QED
    BY <2>1, ViewsFrame, ViewsMove, ViewsEnter
<1>3. ViewsInv => Views!CardsWereTrue
  <2> SUFFICES ASSUME ViewsInv PROVE Views!CardsWereTrue
    OBVIOUS
  <2>1. ASSUME NEW q \in Views!Queries \ {"versioning"}, Views!AtRest(q)
        PROVE  views[q].data \in {{Views!View(q, e)} : e \in ranWith[q]}
    BY <2>1 DEF ViewsInv, Cards, CardTold, CardsOf, Views!AtRest
  <2>2. ASSUME Views!AtRest("versioning"), NEW b \in Buckets,
               NEW s \in views["versioning"].data
        PROVE  s[b] \in hadStatus[b]
    BY <2>2 DEF ViewsInv, TabTold, RowsOf, Views!AtRest
  <2> QED
    BY <2>1, <2>2 DEF Views!CardsWereTrue
<1>4. ViewsInv => Views!NothingSecretLeaves
  <2> SUFFICES ASSUME ViewsInv, NEW q \in {"config", "recipes"},
                      NEW v \in views[q].data \cup views[q].answer
               PROVE  /\ v.secretAccessKey = Views!Redacted
                      /\ v.accessKeyId.visible <= Views!VisibleKeyChars
    BY DEF Views!NothingSecretLeaves
  <2>1. q \in Views!Queries /\ q # "versioning"
    BY DEF Views!Queries
  <2>2. views[q].data \in Held(q) /\ views[q].answer \in Held(q)
    BY <2>1, ViewTypes DEF Views!Query
  <2>3. PICK e \in Environments : v = Views!View(q, e)
    BY <2>1, <2>2 DEF Held
  <2> QED
    BY <2>3, ViewsRedacted
<1> QED
  BY <1>1, <1>2, <1>3, <1>4, PTL DEF DashboardSpec

\* What is shown of the server is so, or was at a moment since it was asked for
\* last: the table of a tenant once its panel is quiet (use-tenants.ts), each
\* card about the API across its restarts (use-system.ts, page.tsx), each part
\* of the vault's drawer that is at rest (KeyDetailDrawer.tsx), where one that is
\* fetched anew or failed to be is of an object the key had once; and neither a
\* secret key nor more of a key id than its beginning is on its way
\* (config-redactor.ts).
THEOREM WhatIsShownIsTrue == DashboardSpec => []ShownStateIsTrue
<1>1. TenantsPanels!QuietTableIsTrue /\ Views!CardsWereTrue
        /\ Views!NothingSecretLeaves /\ Drawer!DrawerTellsItsObject
          => ShownStateIsTrue
  BY DEF ShownStateIsTrue
<1> QED
  BY <1>1, PanelInvariant, ViewsInvariant, DrawerInvariant, PTL

-----------------------------------------------------------------------------
(* The types of everything the dashboard keeps.                            *)

\* The fields of the upload lab that the proof about its log does not need.
FieldsInv ==
    /\ {singleResult, sseResult} \subseteq LabFiles \cup {NoFile}
    /\ strategy \in {"idle", "single", "multipart"}
    /\ gone \subseteq LabFiles
    /\ mixed \subseteq IdemKeys

LEMMA FieldsInvariant == DashboardSpec => []FieldsInv
<1>1. DashboardInit => FieldsInv
  BY DEF DashboardInit, Uploads!Init, FieldsInv
<1>2. ASSUME FieldsInv, LogInv, [DashboardNext]_allVars PROVE FieldsInv'
  <2> USE DEF Uploads!inputVars, Uploads!resultVars, Uploads!callVars,
      Uploads!apiVars, Uploads!historyVars
  <2>1. ASSUME NEW k \in IdemKeys, Uploads!TypeKey(k) \/ Uploads!Forget(k)
        PROVE  FieldsInv'
    BY <1>2, <2>1 DEF FieldsInv, Uploads!TypeKey, Uploads!Forget
  <2>2. ASSUME NEW m \in Uploads!Modes, Uploads!ChooseMode(m) PROVE FieldsInv'
    BY <1>2, <2>2 DEF FieldsInv, Uploads!ChooseMode
  <2>3. ASSUME NEW f \in LabFiles, NEW c \in Uploads!Cards, Uploads!Drop(f, c)
        PROVE  FieldsInv'
    BY <1>2, <2>3 DEF FieldsInv, Uploads!Drop, LogInv, LogTypes
  <2>4. ASSUME NEW f \in LabFiles,
               \/ Uploads!Read(f) \/ Uploads!ReadFails(f)
               \/ Uploads!Arrive(f) \/ Uploads!Disconnect(f)
               \/ Uploads!Stored(f) \/ Uploads!CallFails(f)
               \/ \E isStored \in BOOLEAN : Uploads!StoreFails(f, isStored)
        PROVE  FieldsInv'
    BY <1>2, <2>4 DEF FieldsInv, Uploads!Read, Uploads!ReadFails,
       Uploads!Arrive, Uploads!Disconnect, Uploads!Stored, Uploads!CallFails,
       Uploads!StoreFails
  <2>5. ASSUME NEW f \in LabFiles,
               \/ \E isMultipart \in BOOLEAN :
                      Uploads!HandleFile(f, isMultipart)
               \/ Uploads!HandleIdempotentUpload(f)
               \/ Uploads!HandleSseUpload(f) \/ Uploads!HandleElsewise(f)
        PROVE  FieldsInv'
    BY <1>2, <2>5 DEF FieldsInv, Uploads!HandleFile, Uploads!Over,
       Uploads!HandleIdempotentUpload, Uploads!HandleSseUpload,
       Uploads!HandleElsewise, Uploads!StrategyFromMultipart
  <2>6. CASE Uploads!Leave
    BY <1>2, <2>6 DEF FieldsInv, Uploads!Leave
  <2>7. CASE UNCHANGED uploadVars
    BY <1>2, <2>7 DEF FieldsInv, uploadVars
  <2> QED
    BY <1>2, <2>1, <2>2, <2>3, <2>4, <2>5, <2>6, <2>7, UploadFrame
       DEF Uploads!Next
<1> QED
  BY <1>1, <1>2, LogInvariant, PTL DEF DashboardSpec

LEMMA RowsTyped ==
    ASSUME RowsInv
    PROVE  /\ Len(idempotencyResults) \in Nat
           /\ DOMAIN idempotencyResults = 1..Len(idempotencyResults)
           /\ \A i \in DOMAIN idempotencyResults :
                  /\ idempotencyResults[i] \in LogRow
                  /\ idempotencyResults[i].call \in LabFiles
<1>1. \A i \in DOMAIN idempotencyResults : idempotencyResults[i] \in LogRow
  BY DEF RowsInv
<1> QED
  BY <1>1 DEF RowsInv, LogRow

\* No two rows are of one call, so there are no more rows than files.
LEMMA RowsFit ==
    ASSUME RowsInv
    PROVE  Len(idempotencyResults) <= Cardinality(LabFiles)
<1>1. PICK len : len = Len(idempotencyResults)
  OBVIOUS
<1>2. PICK callOf : callOf = [i \in 1..len |-> idempotencyResults[i].call]
  OBVIOUS
<1>3. len \in Nat /\ DOMAIN idempotencyResults = 1..len
  BY <1>1, RowsTyped
<1>4. callOf \in [1..len -> LabFiles]
  BY <1>2, <1>3, RowsTyped
<1>5. \A i, j \in 1..len : callOf[i] = callOf[j] => i = j
  BY <1>2, <1>3 DEF RowsInv
<1>6. callOf \in Injection(1..len, LabFiles)
  BY <1>4, <1>5 DEF Injection, IsInjective
<1>7. Cardinality(1..len) <= Cardinality(LabFiles)
  BY <1>6, UploadAssumption, FS_Injection
<1>8. Cardinality(1..len) = IF 1 > len THEN 0 ELSE len - 1 + 1
  BY <1>3, FS_Interval
<1>9. Cardinality(1..len) = len
  BY <1>3, <1>8
<1> QED
  BY <1>1, <1>7, <1>9

LEMMA LabTyped == ASSUME LogInv, FieldsInv PROVE Uploads!TypeOK
<1>1. RowsInv /\ Len(idempotencyResults) <= Cardinality(LabFiles)
  BY RowsFit DEF LogInv
<1>2. Cardinality(LabFiles) \in Nat
  BY UploadAssumption, FS_CardinalityType
<1>3. Uploads!Cardinality(LabFiles) = Cardinality(LabFiles)
  BY DEF Uploads!Cardinality, Cardinality
<1>4. ASSUME NEW i \in DOMAIN idempotencyResults
      PROVE  idempotencyResults[i] \in Uploads!Row
  <2>1. idempotencyResults[i] \in LogRow /\ idempotencyResults[i].callId = i
    BY <1>1, <1>4, RowsTyped DEF RowsInv, Uploads!LogKeepsEveryCall
  <2>2. i \in 1..Uploads!Cardinality(LabFiles)
    BY <1>1, <1>2, <1>3, <1>4, RowsTyped
  <2> QED
    BY <2>1, <2>2 DEF LogRow, Uploads!Row
<1>5. idempotencyResults \in Seq(Uploads!Row)
  BY <1>1, <1>4, RowsTyped DEF RowsInv
<1>6. logged \subseteq LabFiles
  BY <1>1, RowsTyped DEF RowsInv, Uploads!LogKeepsEveryCall
<1> QED
  BY <1>5, <1>6 DEF LogInv, LogTypes, FieldsInv, Uploads!TypeOK,
     Uploads!MaybeFile

\* Whatever the user, the API and the network do, the session and the page on
\* each route keep values of their types.
THEOREM DashboardTypeCorrect == DashboardSpec => []DashboardTypeOK
<1>1. ASSUME SessionInv, SignedInv, LabInv, ButtonInv, DemoInv, PanelInv,
             DirectInv, LogInv, FieldsInv, ViewsInv, DrawerInv
      PROVE  DashboardTypeOK
  <2>1. Signed!TypeOK
    BY <1>1 DEF SignedInv, FormInv, IssueInv, IssueTypes, Signed!TypeOK,
       MaybeKeys
  <2>2. Uploads!TypeOK
    BY <1>1, LabTyped
  <2>3. /\ Scanner!TypeOK /\ Validation!TypeOK /\ Errors!TypeOK
        /\ TenantsPanels!TypeOK /\ Direct!TypeOK /\ Views!TypeOK
        /\ Drawer!TypeOK
    BY <1>1 DEF LabInv, ButtonInv, DemoInv, PanelInv, DirectInv, ViewsInv,
       DrawerInv
  <2> QED
    BY <1>1, <2>1, <2>2, <2>3 DEF SessionInv, DashboardTypeOK
<1> QED
  BY <1>1, SessionInvariant, SignedInvariant, ScannerInvariant,
     ValidationInvariant, ErrorsInvariant, PanelInvariant, DirectInvariant,
     LogInvariant, FieldsInvariant, ViewsInvariant, DrawerInvariant, PTL

=============================================================================
