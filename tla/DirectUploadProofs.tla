------------------------- MODULE DirectUploadProofs -------------------------
(***************************************************************************)
(* Proofs about direct uploads, single and multipart, and their confirms,  *)
(* for any keys, calls, parts and number of PUTs.  The invariant says of   *)
(* each confirm what its reads have in common with the bucket, as long as  *)
(* nobody disturbs it or once the URL has expired.                         *)
(***************************************************************************)
EXTENDS MultipartUpload, FiniteSetTheorems, SequenceTheorems, TLAPS

Found(c) == bucket[target[c]]

\* What c's reads say of the bucket while nobody else writes.
Fresh(c) ==
    c \in undisturbed =>
        /\ step[c] # "new"
        /\ step[c] = "headed" => Found(c) = headed[c]
        /\ step[c] = "removing" => Found(c) = headed[c] /\ scanned[c] = headed[c]
        /\ step[c] = "reported" =>
             /\ scanned[c] = headed[c]
             /\ Found(c) = IF Removes(scanned[c]) THEN Absent ELSE headed[c]

\* And once nothing can be uploaded any more.
Final(c) ==
    c \in sealed =>
        /\ step[c] # "new"
        /\ url[target[c]] = "expired"
        /\ \A p \in sending : p.key # target[c]
        /\ Found(c) \in {Absent, headed[c]}
        /\ step[c] \in {"removing", "reported"} => scanned[c] = headed[c]

\* A call scans once, and removes what the scan condemned.
ScansOnce(c) ==
    /\ step[c] \in {"new", "headed"} => scanned[c] = Absent
    /\ step[c] = "removing" => Verdict(scanned[c]) = "infected"

Condemned(k) == \E c \in Calls : target[c] = k /\ Verdict(scanned[c]) = "infected"

Accounted(k) == k \in landed \ deletedBy /\ bucket[k] = Absent => Condemned(k)

SInv ==
    /\ SignedTypeOK
    /\ \A c \in Calls : Fresh(c) /\ Final(c) /\ ScansOnce(c)
    /\ \A k \in Keys : Accounted(k)

-----------------------------------------------------------------------------
(* Types.                                                                  *)

LEMMA ConfirmTypes ==
    ASSUME TypeOK, NEW c \in Calls,
           \/ HeadNotFound(c) \/ HeadFound(c) \/ ScanNotFound(c) \/ Scan(c)
           \/ Remove(c) \/ ProviderFails(c)
    PROVE  TypeOK'
<1>1. CASE HeadNotFound(c)
  BY <1>1 DEF HeadNotFound, TypeOK, Steps, providerVars
<1>2. CASE HeadFound(c)
  BY <1>2 DEF HeadFound, TypeOK, Steps, providerVars
<1>3. CASE ScanNotFound(c)
  BY <1>3 DEF ScanNotFound, TypeOK, Steps, providerVars
<1>4. CASE Scan(c)
  BY <1>4 DEF Scan, TypeOK, Steps, providerVars
<1>5. CASE Remove(c)
  BY <1>5 DEF Remove, TypeOK, Steps
<1>6. CASE ProviderFails(c)
  BY <1>6 DEF ProviderFails, TypeOK, Steps, providerVars
<1> QED
  BY <1>1, <1>2, <1>3, <1>4, <1>5, <1>6

\* A body on its way, by a PUT or by a completion.
LEMMA SendTypes ==
    ASSUME TypeOK, NEW k \in Keys, NEW body \in Bodies, puts < MaxPuts,
           puts' = puts + 1,
           sending' = sending \cup
             {[key |-> k,
               object |-> [id |-> puts', body |-> body, mime |-> urlMime[k]]]}
    PROVE  /\ puts' \in 0..MaxPuts
           /\ sending' \subseteq [key : Keys, object : Objects]
<1>1. puts' \in 1..MaxPuts
  BY MaxPutsAssumption DEF TypeOK
<1>2. [id |-> puts', body |-> body, mime |-> urlMime[k]] \in Objects
  BY <1>1 DEF TypeOK, Objects
<1> QED
  BY <1>1, <1>2, MaxPutsAssumption DEF TypeOK

LEMMA ProviderTypes ==
    ASSUME TypeOK, NEW k \in Keys,
           \/ \E mime \in Mimes : CreateUploadUrl(k, mime)
           \/ \E body \in Bodies : PutStarts(k, body)
           \/ UrlExpires(k)
           \/ \E copy \in Copied : VaultCopy(k, copy)
           \/ VaultDelete(k)
    PROVE  TypeOK'
<1>1. ASSUME NEW mime \in Mimes, CreateUploadUrl(k, mime) PROVE TypeOK'
  BY <1>1 DEF CreateUploadUrl, TypeOK, confirmVars
<1>2. ASSUME NEW body \in Bodies, PutStarts(k, body) PROVE TypeOK'
  <2>1. puts' \in 0..MaxPuts /\ sending' \subseteq [key : Keys, object : Objects]
    BY <1>2, SendTypes DEF PutStarts
  <2> QED
    BY <1>2, <2>1 DEF PutStarts, TypeOK, confirmVars
<1>3. CASE UrlExpires(k)
  BY <1>3 DEF UrlExpires, TypeOK, confirmVars
<1>4. CASE VaultDelete(k)
  BY <1>4 DEF VaultDelete, TypeOK, confirmVars
<1>5. ASSUME NEW copy \in Copied, VaultCopy(k, copy) PROVE TypeOK'
  <2>1. puts' \in 0..MaxPuts /\ puts' \in 1..MaxPuts
    BY <1>5, MaxPutsAssumption DEF VaultCopy, TypeOK
  <2>2. [id |-> puts', body |-> copy.body, mime |-> copy.mime] \in Objects
    BY <2>1, CopiedAssumption DEF Objects
  <2> QED
    BY <1>5, <2>1, <2>2 DEF VaultCopy, TypeOK
<1> QED
  BY <1>1, <1>2, <1>3, <1>4, <1>5

LEMMA WireTypes ==
    ASSUME TypeOK, NEW p \in sending, PutLands(p) \/ PutDrops(p)
    PROVE  TypeOK'
<1>1. p.key \in Keys /\ p.object \in Objects
  BY DEF TypeOK
<1>2. CASE PutLands(p)
  BY <1>1, <1>2 DEF PutLands, TypeOK, confirmVars
<1>3. CASE PutDrops(p)
  BY <1>3 DEF PutDrops, TypeOK, confirmVars
<1> QED
  BY <1>2, <1>3
LEMMA PartTypes ==
    ASSUME SignedTypeOK, NEW k \in Keys,
           \/ \E mime \in Mimes : CreateMultipartUrls(k, mime)
           \/ IssueFails(k)
           \/ \E n \in Parts : PartStarts(k, n) \/ PartLands(k, n) \/ PartDrops(k, n)
           \/ \E body \in Bodies : CompleteStarts(k, body)
    PROVE  SignedTypeOK'
<1>1. ASSUME NEW mime \in Mimes, CreateMultipartUrls(k, mime)
      PROVE  SignedTypeOK'
  <2>1. TypeOK'
    BY <1>1 DEF CreateMultipartUrls, SignedTypeOK, TypeOK, confirmVars
  <2> QED
    BY <1>1, <2>1 DEF CreateMultipartUrls, SignedTypeOK, Uploads
<1>2. CASE IssueFails(k)
  <2>1. TypeOK'
    BY <1>2 DEF IssueFails, SignedTypeOK, TypeOK, vars, providerVars, confirmVars
  <2> QED
    BY <1>2, <2>1 DEF IssueFails, SignedTypeOK, Uploads
<1>3. ASSUME NEW n \in Parts,
             PartStarts(k, n) \/ PartLands(k, n) \/ PartDrops(k, n)
      PROVE  SignedTypeOK'
  <2>1. TypeOK'
    BY <1>3 DEF PartStarts, PartLands, PartDrops, SignedTypeOK, TypeOK, vars,
                providerVars, confirmVars
  <2>2. upload' = upload /\ abort' = abort /\ settled' = settled
    BY <1>3 DEF PartStarts, PartLands, PartDrops
  <2>3. parts' \in [Keys -> SUBSET Parts] /\ wire' \subseteq Keys \X Parts
    BY <1>3 DEF PartStarts, PartLands, PartDrops, SignedTypeOK
  <2> QED
    BY <2>1, <2>2, <2>3 DEF SignedTypeOK
<1>4. ASSUME NEW body \in Bodies, CompleteStarts(k, body)
      PROVE  SignedTypeOK'
  <2>1. puts' \in 0..MaxPuts /\ sending' \subseteq [key : Keys, object : Objects]
    BY <1>4, SendTypes DEF CompleteStarts, SignedTypeOK
  <2>2. TypeOK'
    BY <1>4, <2>1 DEF CompleteStarts, SignedTypeOK, TypeOK, confirmVars
  <2> QED
    BY <1>4, <2>2 DEF CompleteStarts, SignedTypeOK, partVars
<1> QED
  BY <1>1, <1>2, <1>3, <1>4

LEMMA AbortTypes ==
    ASSUME SignedTypeOK, NEW k \in Keys,
           \/ \E path \in AbortKeys : AbortArrives(k, path)
           \/ AbortLands(k) \/ AbortFindsNothing(k) \/ AbortFails(k)
    PROVE  SignedTypeOK' /\ vars' = vars
<1>1. vars' = vars
  BY DEF AbortArrives, AbortLands, AbortFindsNothing, AbortFails
<1>2. TypeOK'
  BY <1>1 DEF SignedTypeOK, TypeOK, vars, providerVars, confirmVars
<1>3. upload' \in [Keys -> Uploads] /\ parts' \in [Keys -> SUBSET Parts]
  BY DEF AbortArrives, AbortLands, AbortFindsNothing, AbortFails, SignedTypeOK,
         Uploads
<1>4. wire' = wire /\ settled' \subseteq Keys
  BY DEF AbortArrives, AbortLands, AbortFindsNothing, AbortFails, Acknowledge,
         SignedTypeOK
<1>5. abort' \in [Keys -> [step : {"none", "sent", "done", "failed"},
                           key : AbortKeys \cup {<<>>}]]
  <2>1. ASSUME NEW path \in AbortKeys, AbortArrives(k, path)
        PROVE  \E a \in [step : {"none", "sent", "done", "failed"},
                         key : AbortKeys \cup {<<>>}] :
                 abort' = [abort EXCEPT ![k] = a]
    <3> DEFINE a == IF Refused(path) THEN [step |-> "failed", key |-> <<>>]
                                     ELSE [step |-> "sent", key |-> path]
    <3>1. a \in [step : {"none", "sent", "done", "failed"},
                 key : AbortKeys \cup {<<>>}]
      OBVIOUS
    <3>2. abort' = [abort EXCEPT ![k] = a]
      BY <2>1 DEF AbortArrives
    <3> HIDE DEF a
    <3> QED
      BY <3>1, <3>2
  <2>2. ASSUME AbortLands(k) \/ AbortFindsNothing(k) \/ AbortFails(k)
        PROVE  \E a \in [step : {"none", "sent", "done", "failed"},
                         key : AbortKeys \cup {<<>>}] :
                 abort' = [abort EXCEPT ![k] = a]
    BY <2>2 DEF AbortLands, AbortFindsNothing, AbortFails, Acknowledge
  <2>3. PICK a \in [step : {"none", "sent", "done", "failed"},
                    key : AbortKeys \cup {<<>>}] :
          abort' = [abort EXCEPT ![k] = a]
    BY <2>1, <2>2
  <2> QED
    BY <2>3 DEF SignedTypeOK
<1> QED
  BY <1>1, <1>2, <1>3, <1>4, <1>5 DEF SignedTypeOK

-----------------------------------------------------------------------------
(* What the confirms know.                                                 *)

CallInv == \A c \in Calls : Fresh(c) /\ Final(c) /\ ScansOnce(c)
KeyInv == \A k \in Keys : Accounted(k)

\* A provider's step that leaves the bucket alone, and lets nothing be sent to
\* a key whose URL has expired.
LEMMA QuietProvider ==
    ASSUME TypeOK, CallInv, KeyInv,
           UNCHANGED <<bucket, landed, deletedBy, confirmVars, undisturbed>>,
           \A k \in Keys : url[k] = "expired" => url'[k] = "expired",
           \A p \in sending' \ sending : url[p.key] # "expired"
    PROVE  CallInv' /\ KeyInv'
<1>1. ASSUME NEW c \in Calls PROVE (Fresh(c) /\ Final(c) /\ ScansOnce(c))'
  BY <1>1 DEF CallInv, TypeOK, Fresh, Final, ScansOnce, Found, confirmVars
<1>2. ASSUME NEW k \in Keys PROVE Accounted(k)'
  BY <1>2 DEF KeyInv, Accounted, Condemned, confirmVars
<1> QED
  BY <1>1, <1>2 DEF CallInv, KeyInv

\* An object lands under a key.
LEMMA LandStep ==
    ASSUME TypeOK, CallInv, KeyInv, NEW p \in sending, PutLands(p)
    PROVE  CallInv' /\ KeyInv'
<1>1. p.key \in Keys /\ p.object \in Objects /\ p.object # Absent
  BY DEF TypeOK, Objects, Absent
<1>2. /\ target' = target /\ step' = step /\ headed' = headed
      /\ scanned' = scanned /\ sealed' = sealed /\ url' = url
      /\ deletedBy' = deletedBy
      /\ undisturbed' = undisturbed \ CallsOn(p.key)
      /\ sending' = sending \ {p} /\ landed' = landed \cup {p.key}
      /\ bucket' = [bucket EXCEPT ![p.key] = p.object]
  BY DEF PutLands, confirmVars
<1>3. ASSUME NEW c \in Calls PROVE (Fresh(c) /\ Final(c) /\ ScansOnce(c))'
  <2>1. Fresh(c) /\ Final(c) /\ ScansOnce(c) /\ target[c] \in Keys
    BY DEF CallInv, TypeOK
  <2>2. CASE target[c] = p.key
    BY <1>2, <2>1, <2>2 DEF Fresh, Final, ScansOnce, CallsOn
  <2>3. CASE target[c] # p.key
    <3>1. Found(c)' = Found(c)
      BY <1>1, <1>2, <2>1, <2>3 DEF Found, TypeOK
    <3> QED
      BY <1>2, <2>1, <3>1 DEF Fresh, Final, ScansOnce
  <2> QED
    BY <2>2, <2>3
<1>4. ASSUME NEW k \in Keys PROVE Accounted(k)'
  BY <1>1, <1>2 DEF KeyInv, Accounted, Condemned, TypeOK
<1> QED
  BY <1>3, <1>4 DEF CallInv, KeyInv

\* The vault copies an object onto a key.
LEMMA VaultCopyStep ==
    ASSUME TypeOK, CallInv, KeyInv, NEW k \in Keys, NEW copy \in Copied,
           VaultCopy(k, copy)
    PROVE  CallInv' /\ KeyInv'
<1>1. /\ target' = target /\ step' = step /\ headed' = headed
      /\ scanned' = scanned /\ url' = url /\ sending' = sending
      /\ deletedBy' = deletedBy /\ landed' = landed \cup {k}
      /\ undisturbed' = undisturbed \ CallsOn(k)
      /\ sealed' = sealed \ CallsOn(k)
  BY DEF VaultCopy
<1>2. PICK o : o = [id |-> puts', body |-> copy.body, mime |-> copy.mime]
  OBVIOUS
<1>3. bucket' = [bucket EXCEPT ![k] = o]
  BY <1>2 DEF VaultCopy
<1>4. o # Absent
  BY <1>2, MaxPutsAssumption DEF VaultCopy, TypeOK, Absent
<1>5. ASSUME NEW c \in Calls PROVE (Fresh(c) /\ Final(c) /\ ScansOnce(c))'
  <2>1. Fresh(c) /\ Final(c) /\ ScansOnce(c) /\ target[c] \in Keys
    BY DEF CallInv, TypeOK
  <2>2. CASE target[c] = k
    BY <1>1, <2>1, <2>2 DEF Fresh, Final, ScansOnce, CallsOn
  <2>3. CASE target[c] # k
    <3>1. Found(c)' = Found(c)
      BY <1>1, <1>3, <2>1, <2>3 DEF Found, TypeOK
    <3> QED
      BY <1>1, <2>1, <3>1 DEF Fresh, Final, ScansOnce
  <2> QED
    BY <2>2, <2>3
<1>6. ASSUME NEW q \in Keys PROVE Accounted(q)'
  BY <1>1, <1>3, <1>4 DEF KeyInv, Accounted, Condemned, TypeOK
<1> QED
  BY <1>5, <1>6 DEF CallInv, KeyInv

\* The vault deletes an object.
LEMMA VaultDeleteStep ==
    ASSUME TypeOK, CallInv, KeyInv, NEW k \in Keys, VaultDelete(k)
    PROVE  CallInv' /\ KeyInv'
<1>1. /\ target' = target /\ step' = step /\ headed' = headed
      /\ scanned' = scanned /\ sealed' = sealed /\ url' = url
      /\ deletedBy' = deletedBy \cup {k}
      /\ undisturbed' = undisturbed \ CallsOn(k)
      /\ sending' = sending /\ landed' = landed
      /\ bucket' = [bucket EXCEPT ![k] = Absent]
  BY DEF VaultDelete, confirmVars
<1>2. ASSUME NEW c \in Calls PROVE (Fresh(c) /\ Final(c) /\ ScansOnce(c))'
  <2>1. Fresh(c) /\ Final(c) /\ ScansOnce(c) /\ target[c] \in Keys
    BY DEF CallInv, TypeOK
  <2>2. CASE target[c] = k
    <3>1. Found(c)' = Absent
      BY <1>1, <2>1, <2>2 DEF Found, TypeOK
    <3> QED
      BY <1>1, <2>1, <2>2, <3>1 DEF Fresh, Final, ScansOnce, CallsOn
  <2>3. CASE target[c] # k
    <3>1. Found(c)' = Found(c)
      BY <1>1, <2>1, <2>3 DEF Found, TypeOK
    <3> QED
      BY <1>1, <2>1, <3>1 DEF Fresh, Final, ScansOnce
  <2> QED
    BY <2>2, <2>3
<1>3. ASSUME NEW q \in Keys PROVE Accounted(q)'
  BY <1>1 DEF KeyInv, Accounted, Condemned, TypeOK
<1> QED
  BY <1>2, <1>3 DEF CallInv, KeyInv
\* A confirm's step: the others, and the keys, keep their part as long as the
\* bucket does.
LEMMA OtherCalls ==
    ASSUME TypeOK, CallInv, NEW c \in Calls, NEW d \in Calls, d # c,
           UNCHANGED <<url, sending, bucket, target>>,
           step'[d] = step[d], headed'[d] = headed[d],
           scanned'[d] = scanned[d],
           d \in undisturbed' <=> d \in undisturbed,
           d \in sealed' <=> d \in sealed
    PROVE  (Fresh(d) /\ Final(d) /\ ScansOnce(d))'
  BY DEF CallInv, Fresh, Final, ScansOnce, Found

LEMMA KeysKept ==
    ASSUME TypeOK, KeyInv, UNCHANGED <<bucket, landed, deletedBy, target>>,
           \A c \in Calls : Verdict(scanned[c]) = "infected" =>
                              scanned'[c] = scanned[c]
    PROVE  KeyInv'
<1>1. ASSUME NEW k \in Keys PROVE Accounted(k)'
  <2>1. Condemned(k) => Condemned(k)'
    BY DEF Condemned, Verdict
  <2> QED
    BY <2>1 DEF KeyInv, Accounted
<1> QED
  BY <1>1 DEF KeyInv

\* A call that ends without having confirmed.
LEMMA EndStep ==
    ASSUME TypeOK, CallInv, KeyInv, NEW c \in Calls,
           HeadNotFound(c) \/ ScanNotFound(c) \/ ProviderFails(c)
    PROVE  CallInv' /\ KeyInv'
<1>1. /\ UNCHANGED <<url, sending, bucket, landed, deletedBy, target, headed,
                     scanned, undisturbed, sealed>>
      /\ \E s \in {"notFound", "failed"} : step' = [step EXCEPT ![c] = s]
  BY DEF HeadNotFound, ScanNotFound, ProviderFails, providerVars
<1>2. step'[c] \in {"notFound", "failed"}
  BY <1>1 DEF TypeOK
<1>3. (Fresh(c) /\ Final(c) /\ ScansOnce(c))'
  BY <1>1, <1>2 DEF CallInv, Fresh, Final, ScansOnce, Found
<1>4. ASSUME NEW d \in Calls, d # c
      PROVE  (Fresh(d) /\ Final(d) /\ ScansOnce(d))'
  <2>1. step'[d] = step[d]
    BY <1>1, <1>4 DEF TypeOK
  <2> QED
    BY <1>1, <1>4, <2>1, OtherCalls
<1>5. KeyInv'
  BY <1>1, KeysKept
<1> QED
  BY <1>3, <1>4, <1>5 DEF CallInv

LEMMA HeadStep ==
    ASSUME TypeOK, CallInv, KeyInv, NEW c \in Calls, HeadFound(c)
    PROVE  CallInv' /\ KeyInv'
<1>1. /\ UNCHANGED <<url, sending, bucket, landed, deletedBy, target, scanned>>
      /\ step[c] = "new"
      /\ step' = [step EXCEPT ![c] = "headed"]
      /\ headed' = [headed EXCEPT ![c] = Found(c)]
      /\ undisturbed' = undisturbed \cup {c}
      /\ \/ sealed' = sealed
         \/ /\ sealed' = sealed \cup {c}
            /\ url[target[c]] = "expired"
            /\ \A p \in sending : p.key # target[c]
  BY DEF HeadFound, providerVars, Found
<1>2. (Fresh(c) /\ Final(c) /\ ScansOnce(c))'
  <2>1. step'[c] = "headed" /\ headed'[c] = Found(c) /\ Found(c)' = Found(c)
    BY <1>1 DEF TypeOK, Found
  <2>2. Fresh(c) /\ Final(c) /\ ScansOnce(c)
    BY DEF CallInv
  <2> QED
    BY <1>1, <2>1, <2>2 DEF Fresh, Final, ScansOnce
<1>3. ASSUME NEW d \in Calls, d # c
      PROVE  (Fresh(d) /\ Final(d) /\ ScansOnce(d))'
  <2>1. /\ step'[d] = step[d] /\ headed'[d] = headed[d]
        /\ scanned'[d] = scanned[d]
        /\ d \in undisturbed' <=> d \in undisturbed
        /\ d \in sealed' <=> d \in sealed
    BY <1>1, <1>3 DEF TypeOK
  <2> QED
    BY <1>1, <1>3, <2>1, OtherCalls
<1>4. KeyInv'
  BY <1>1, KeysKept
<1> QED
  BY <1>2, <1>3, <1>4 DEF CallInv

LEMMA ScanStep ==
    ASSUME TypeOK, CallInv, KeyInv, NEW c \in Calls, Scan(c)
    PROVE  CallInv' /\ KeyInv'
<1>1. /\ UNCHANGED <<url, sending, bucket, landed, deletedBy, target, headed,
                     undisturbed, sealed>>
      /\ step[c] = "headed" /\ Found(c) # Absent
      /\ step' = [step EXCEPT ![c] =
                    IF Removes(Found(c)) THEN "removing" ELSE "reported"]
      /\ scanned' = [scanned EXCEPT ![c] = Found(c)]
  BY DEF Scan, providerVars, Found
<1>2. Fresh(c) /\ Final(c) /\ ScansOnce(c)
  BY DEF CallInv
<1>3. (Fresh(c) /\ Final(c) /\ ScansOnce(c))'
  <2>1. /\ step'[c] = IF Removes(Found(c)) THEN "removing" ELSE "reported"
        /\ scanned'[c] = Found(c) /\ Found(c)' = Found(c)
    BY <1>1 DEF TypeOK, Found
  <2>2. Fresh(c)'
    BY <1>1, <1>2, <2>1 DEF Fresh
  <2>3. Final(c)'
    BY <1>1, <1>2, <2>1 DEF Final
  <2>4. ScansOnce(c)'
    BY <2>1 DEF ScansOnce, Removes
  <2> QED
    BY <2>2, <2>3, <2>4
<1>4. ASSUME NEW d \in Calls, d # c
      PROVE  (Fresh(d) /\ Final(d) /\ ScansOnce(d))'
  <2>1. step'[d] = step[d] /\ scanned'[d] = scanned[d]
    BY <1>1, <1>4 DEF TypeOK
  <2> QED
    BY <1>1, <1>4, <2>1, OtherCalls
<1>5. KeyInv'
  <2>1. ASSUME NEW d \in Calls, Verdict(scanned[d]) = "infected"
        PROVE  scanned'[d] = scanned[d]
    <3>1. d # c
      BY <1>1, <1>2, <2>1 DEF ScansOnce, Verdict, Absent
    <3> QED
      BY <1>1, <3>1 DEF TypeOK
  <2> QED
    BY <1>1, <2>1, KeysKept
<1> QED
  BY <1>3, <1>4, <1>5 DEF CallInv

LEMMA RemoveStep ==
    ASSUME TypeOK, CallInv, KeyInv, NEW c \in Calls, Remove(c)
    PROVE  CallInv' /\ KeyInv'
<1> DEFINE k == target[c]
<1>1. /\ UNCHANGED <<url, sending, landed, deletedBy, target, headed, scanned,
                     sealed>>
      /\ step[c] = "removing"
      /\ step' = [step EXCEPT ![c] = "reported"]
      /\ bucket' = [bucket EXCEPT ![k] = Absent]
      /\ undisturbed' = undisturbed \ (CallsOn(k) \ {c})
  BY DEF Remove
<1>2. Fresh(c) /\ Final(c) /\ ScansOnce(c) /\ k \in Keys
  BY DEF CallInv, TypeOK
<1>3. (Fresh(c) /\ Final(c) /\ ScansOnce(c))'
  <2>1. step'[c] = "reported" /\ Found(c)' = Absent /\ Removes(scanned[c])
    BY <1>1, <1>2 DEF TypeOK, Found, ScansOnce, Removes
  <2> QED
    BY <1>1, <1>2, <2>1 DEF Fresh, Final, ScansOnce
<1>4. ASSUME NEW d \in Calls, d # c
      PROVE  (Fresh(d) /\ Final(d) /\ ScansOnce(d))'
  <2>1. Fresh(d) /\ Final(d) /\ ScansOnce(d) /\ target[d] \in Keys
    BY DEF CallInv, TypeOK
  <2>2. step'[d] = step[d]
    BY <1>1, <1>4 DEF TypeOK
  <2>3. CASE target[d] = k
    <3>1. Found(d)' = Absent /\ d \notin undisturbed'
      BY <1>1, <1>4, <2>1, <2>3 DEF Found, TypeOK, CallsOn
    <3> QED
      BY <1>1, <2>1, <2>2, <3>1 DEF Fresh, Final, ScansOnce
  <2>4. CASE target[d] # k
    <3>1. Found(d)' = Found(d)
      BY <1>1, <1>2, <2>1, <2>4 DEF Found, TypeOK
    <3> QED
      BY <1>1, <2>1, <2>2, <3>1 DEF Fresh, Final, ScansOnce
  <2> QED
    BY <2>3, <2>4
<1>5. ASSUME NEW q \in Keys PROVE Accounted(q)'
  <2>1. CASE q = k
    <3>1. target'[c] = k /\ Verdict(scanned'[c]) = "infected"
      BY <1>1, <1>2 DEF ScansOnce, Verdict
    <3>2. Condemned(q)'
      BY <2>1, <3>1 DEF Condemned, Verdict
    <3> QED
      BY <3>2 DEF Accounted
  <2>2. CASE q # k
    <3>1. bucket'[q] = bucket[q]
      BY <1>1, <2>2 DEF TypeOK
    <3> QED
      BY <1>1, <3>1 DEF KeyInv, Accounted, Condemned
  <2> QED
    BY <2>1, <2>2
<1> QED
  BY <1>3, <1>4, <1>5 DEF CallInv, KeyInv
-----------------------------------------------------------------------------
(* The steps together.                                                     *)

LEMMA InitSInv == SignedInit => SInv
<1> SUFFICES ASSUME SignedInit PROVE SInv
  OBVIOUS
<1>1. TypeOK
  BY MaxPutsAssumption DEF SignedInit, Init, TypeOK, Mimes, Steps
<1>2. SignedTypeOK
  BY <1>1 DEF SignedInit, SignedTypeOK, Uploads, NoAbort
<1>3. ASSUME NEW c \in Calls PROVE Fresh(c) /\ Final(c) /\ ScansOnce(c)
  BY DEF SignedInit, Init, Fresh, Final, ScansOnce
<1>4. ASSUME NEW k \in Keys PROVE Accounted(k)
  BY DEF SignedInit, Init, Accounted
<1> QED
  BY <1>2, <1>3, <1>4 DEF SInv

LEMMA DirectStep == ASSUME SInv, DirectNext PROVE SInv'
<1>1. SignedTypeOK /\ TypeOK /\ CallInv /\ KeyInv
  BY DEF SInv, SignedTypeOK, CallInv, KeyInv
<1>2. SUFFICES TypeOK' /\ CallInv' /\ KeyInv'
  <2>1. /\ upload' = upload /\ parts' = parts /\ wire' = wire
        /\ abort' = abort /\ settled' = settled
    BY DEF DirectNext, partVars
  <2> QED
    BY <1>1, <1>2, <2>1 DEF SInv, SignedTypeOK, CallInv, KeyInv
<1>3. ASSUME NEW k \in Keys, NEW mime \in Mimes, CreateUploadUrl(k, mime)
      PROVE  TypeOK' /\ CallInv' /\ KeyInv'
  <2>1. \A q \in Keys : url[q] = "expired" => url'[q] = "expired"
    BY <1>1, <1>3 DEF CreateUploadUrl, TypeOK
  <2>2. /\ UNCHANGED <<bucket, landed, deletedBy, confirmVars, undisturbed>>
        /\ sending' = sending
    BY <1>3 DEF CreateUploadUrl
  <2> QED
    BY <1>1, <1>3, <2>1, <2>2, ProviderTypes, QuietProvider
<1>4. ASSUME NEW k \in Keys, NEW body \in Bodies, PutStarts(k, body)
      PROVE  TypeOK' /\ CallInv' /\ KeyInv'
  <2>1. /\ UNCHANGED <<bucket, landed, deletedBy, confirmVars, undisturbed>>
        /\ url' = url /\ url[k] = "valid"
        /\ \A p \in sending' \ sending : p.key = k
    BY <1>4 DEF PutStarts
  <2> QED
    BY <1>1, <1>4, <2>1, ProviderTypes, QuietProvider
<1>5. ASSUME NEW k \in Keys, UrlExpires(k)
      PROVE  TypeOK' /\ CallInv' /\ KeyInv'
  <2>1. \A q \in Keys : url[q] = "expired" => url'[q] = "expired"
    BY <1>1, <1>5 DEF UrlExpires, TypeOK
  <2>2. /\ UNCHANGED <<bucket, landed, deletedBy, confirmVars, undisturbed>>
        /\ sending' = sending
    BY <1>5 DEF UrlExpires
  <2> QED
    BY <1>1, <1>5, <2>1, <2>2, ProviderTypes, QuietProvider
<1>6. ASSUME NEW k \in Keys, VaultDelete(k)
      PROVE  TypeOK' /\ CallInv' /\ KeyInv'
  BY <1>1, <1>6, ProviderTypes, VaultDeleteStep
<1>7. ASSUME NEW p \in sending, PutLands(p)
      PROVE  TypeOK' /\ CallInv' /\ KeyInv'
  BY <1>1, <1>7, WireTypes, LandStep
<1>8. ASSUME NEW p \in sending, PutDrops(p)
      PROVE  TypeOK' /\ CallInv' /\ KeyInv'
  <2>1. /\ UNCHANGED <<bucket, landed, deletedBy, confirmVars, undisturbed>>
        /\ url' = url /\ sending' \ sending = {}
    BY <1>8 DEF PutDrops
  <2> QED
    BY <1>1, <1>8, <2>1, WireTypes, QuietProvider
<1>9. ASSUME NEW c \in Calls,
             \/ HeadNotFound(c) \/ HeadFound(c) \/ ScanNotFound(c) \/ Scan(c)
             \/ Remove(c) \/ ProviderFails(c)
      PROVE  TypeOK' /\ CallInv' /\ KeyInv'
  <2>1. TypeOK'
    BY <1>1, <1>9, ConfirmTypes
  <2>2. CallInv' /\ KeyInv'
    BY <1>1, <1>9, EndStep, HeadStep, ScanStep, RemoveStep
  <2> QED
    BY <2>1, <2>2
<1>10. ASSUME NEW k \in Keys, NEW copy \in Copied, VaultCopy(k, copy)
       PROVE  TypeOK' /\ CallInv' /\ KeyInv'
  BY <1>1, <1>10, ProviderTypes, VaultCopyStep
<1> QED
  BY <1>3, <1>4, <1>5, <1>6, <1>7, <1>8, <1>9, <1>10 DEF DirectNext

LEMMA MultipartStep == ASSUME SInv, MultipartNext PROVE SInv'
<1>1. SignedTypeOK /\ TypeOK /\ CallInv /\ KeyInv
  BY DEF SInv, SignedTypeOK, CallInv, KeyInv
<1>2. SUFFICES SignedTypeOK' /\ CallInv' /\ KeyInv'
  BY <1>2 DEF SInv, CallInv, KeyInv
<1>3. ASSUME NEW k \in Keys, NEW mime \in Mimes, CreateMultipartUrls(k, mime)
      PROVE  SignedTypeOK' /\ CallInv' /\ KeyInv'
  <2>1. \A q \in Keys : url[q] = "expired" => url'[q] = "expired"
    BY <1>1, <1>3 DEF CreateMultipartUrls, TypeOK
  <2>2. /\ UNCHANGED <<bucket, landed, deletedBy, confirmVars, undisturbed>>
        /\ sending' = sending
    BY <1>3 DEF CreateMultipartUrls
  <2> QED
    BY <1>1, <1>3, <2>1, <2>2, PartTypes, QuietProvider
<1>4. ASSUME NEW k \in Keys, NEW body \in Bodies, CompleteStarts(k, body)
      PROVE  SignedTypeOK' /\ CallInv' /\ KeyInv'
  <2>1. /\ UNCHANGED <<bucket, landed, deletedBy, confirmVars, undisturbed>>
        /\ url' = url /\ url[k] = "valid"
        /\ \A p \in sending' \ sending : p.key = k
    BY <1>4 DEF CompleteStarts
  <2> QED
    BY <1>1, <1>4, <2>1, PartTypes, QuietProvider
<1>5. ASSUME NEW p \in sending, CompleteLands(p)
      PROVE  SignedTypeOK' /\ CallInv' /\ KeyInv'
  <2>1. PutLands(p) /\ p.key \in Keys
    BY <1>1, <1>5 DEF CompleteLands, TypeOK
  <2>2. TypeOK' /\ CallInv' /\ KeyInv'
    BY <1>1, <2>1, WireTypes, LandStep
  <2> QED
    BY <1>1, <1>5, <2>1, <2>2 DEF CompleteLands, SignedTypeOK, Uploads
<1>6. ASSUME SignedTypeOK', vars' = vars
      PROVE  SignedTypeOK' /\ CallInv' /\ KeyInv'
  <2>1. /\ UNCHANGED <<bucket, landed, deletedBy, confirmVars, undisturbed>>
        /\ url' = url /\ sending' = sending
    BY <1>6 DEF vars, providerVars
  <2> QED
    BY <1>1, <1>6, <2>1, QuietProvider
<1>7. ASSUME NEW k \in Keys,
             \/ IssueFails(k)
             \/ \E n \in Parts :
                  PartStarts(k, n) \/ PartLands(k, n) \/ PartDrops(k, n)
      PROVE  SignedTypeOK' /\ CallInv' /\ KeyInv'
  <2>1. vars' = vars
    BY <1>7 DEF IssueFails, PartStarts, PartLands, PartDrops
  <2>2. SignedTypeOK'
    BY <1>1, <1>7, PartTypes
  <2> QED
    BY <1>6, <2>1, <2>2
<1>8. ASSUME NEW k \in Keys,
             \/ \E path \in AbortKeys : AbortArrives(k, path)
             \/ AbortLands(k) \/ AbortFindsNothing(k) \/ AbortFails(k)
      PROVE  SignedTypeOK' /\ CallInv' /\ KeyInv'
  BY <1>1, <1>6, <1>8, AbortTypes
<1> QED
  BY <1>3, <1>4, <1>5, <1>7, <1>8 DEF MultipartNext

LEMMA NextSInv == SInv /\ [SignedNext]_signedVars => SInv'
<1>1. ASSUME SInv, UNCHANGED signedVars PROVE SInv'
  BY <1>1 DEF signedVars, vars, providerVars, confirmVars, partVars, SInv,
              SignedTypeOK, TypeOK, Fresh, Final, ScansOnce, Found, Accounted,
              Condemned
<1> QED
  BY <1>1, DirectStep, MultipartStep DEF SignedNext

LEMMA SignedInvariant == SignedSpec => []SInv
  BY InitSInv, NextSInv, PTL DEF SignedSpec

-----------------------------------------------------------------------------

\* The variables of both kinds of direct upload keep their types.
THEOREM SignedTypeCorrect == SignedSpec => []SignedTypeOK
<1>1. SInv => SignedTypeOK
  BY DEF SInv
<1> QED
  BY <1>1, SignedInvariant, PTL

\* Size, type and content of one object, whatever it was uploaded by.
LEMMA ChecksAgree ==
    ASSUME NEW o \in Objects \cup {Absent}, IsSizeWithinPolicy(o),
           IsMimeWithinPolicy(o), Verdict(o) = "clean"
    PROVE  Conforms(o) /\ ~Removes(o)
  BY DEF IsSizeWithinPolicy, IsMimeWithinPolicy, Verdict, Conforms, Removes,
         Objects, Absent, Bodies, Mimes

\* confirm() of an object that nobody replaces or deletes meanwhile reports
\* `confirmed` only of a stored object that passes every check.
THEOREM ConfirmIsTrue == SignedSpec => []UndisturbedConfirmIsTrue
<1>1. ASSUME SInv PROVE UndisturbedConfirmIsTrue
  <2>1. SUFFICES ASSUME NEW c \in undisturbed, Confirmed(c)
                 PROVE  /\ Found(c) = headed[c]
                        /\ Conforms(Found(c))
    BY DEF UndisturbedConfirmIsTrue, Found
  <2>2. c \in Calls /\ headed[c] \in Objects \cup {Absent} /\ Fresh(c)
    BY <1>1, <2>1 DEF SInv, SignedTypeOK, TypeOK
  <2>3. /\ step[c] = "reported" /\ scanned[c] = headed[c]
        /\ Found(c) = IF Removes(headed[c]) THEN Absent ELSE headed[c]
    BY <2>1, <2>2 DEF Confirmed, Fresh
  <2>4. Conforms(headed[c]) /\ ~Removes(headed[c])
    BY <2>1, <2>2, <2>3, ChecksAgree DEF Confirmed
  <2> QED
    BY <2>3, <2>4
<1> QED
  BY <1>1, SignedInvariant, PTL

\* What a confirm after the URL has expired, nothing on the wire, reports as
\* confirmed, no PUT, part, other confirm or delete replaces by an object that
\* fails a check: only a copy of the vault onto the same key can.
THEOREM ConfirmSettles == SignedSpec => []ConfirmedAfterExpiryForGood
<1>1. ASSUME SInv PROVE ConfirmedAfterExpiryForGood
  <2>1. SUFFICES ASSUME NEW c \in sealed, Confirmed(c)
                 PROVE  Found(c) = Absent \/ Conforms(Found(c))
    BY DEF ConfirmedAfterExpiryForGood, Found
  <2>2. c \in Calls /\ headed[c] \in Objects \cup {Absent} /\ Final(c)
    BY <1>1, <2>1 DEF SInv, SignedTypeOK, TypeOK
  <2>3. scanned[c] = headed[c] /\ Found(c) \in {Absent, headed[c]}
    BY <2>1, <2>2 DEF Confirmed, Final
  <2>4. Conforms(headed[c])
    BY <2>1, <2>2, <2>3, ChecksAgree DEF Confirmed
  <2> QED
    BY <2>3, <2>4
<1> QED
  BY <1>1, SignedInvariant, PTL

\* What a confirm condemned is gone when it answers, and nothing else goes but by
\* a delete of the vault.
THEOREM OnlyThreatsGo == SignedSpec => []ThreatsAndOnlyTheyDisappear
<1>1. ASSUME SInv PROVE ThreatsAndOnlyTheyDisappear
  <2>1. ASSUME NEW c \in undisturbed, step[c] = "reported",
               Verdict(scanned[c]) = "infected"
        PROVE  bucket[target[c]] = Absent
    <3>1. Fresh(c)
      BY <1>1, <2>1 DEF SInv, SignedTypeOK, TypeOK
    <3> QED
      BY <2>1, <3>1 DEF Fresh, Found, Removes
  <2>2. ASSUME NEW k \in landed \ deletedBy, bucket[k] = Absent
        PROVE  \E c \in Calls : target[c] = k /\ Verdict(scanned[c]) = "infected"
    <3>1. k \in Keys /\ Accounted(k)
      BY <1>1, <2>2 DEF SInv, SignedTypeOK, TypeOK
    <3> QED
      BY <2>2, <3>1 DEF Accounted, Condemned
  <2> QED
    BY <2>1, <2>2 DEF ThreatsAndOnlyTheyDisappear
<1> QED
  BY <1>1, SignedInvariant, PTL

-----------------------------------------------------------------------------
(* Aborts.                                                                 *)

\* The raw client, given the issued key, names the upload as the library did.
LEMMA IssuedKeyFindsTheUpload ==
    ASSUME NEW k PROVE ComposeKey(IssuedKey(k)) = SignedKey(k)
<1> DEFINE path == <<"media", k>>
           front == Front(path)
           place(n) == CHOOSE i \in Filled(front) :
                           Cardinality(Filled(front) \cap (1..i)) = n
<1>1. front = <<"media">> /\ Last(path) = k
  <2>1. path \in Seq({"media", k}) /\ Len(path) = 2
    OBVIOUS
  <2>2. path[1] = "media" /\ path[2] = k
    OBVIOUS
  <2> HIDE DEF path
  <2>3. front \in Seq({"media", k}) /\ Len(front) = 1 /\ front[1] = path[1]
    BY <2>1 DEF Front
  <2> HIDE DEF front
  <2>4. front = <<"media">>
    BY <2>2, <2>3
  <2> QED
    BY <2>1, <2>2, <2>4 DEF Last
<1>2. Filled(front) = {1}
  <2>1. DOMAIN front = {1} /\ front[1] = "media"
    BY <1>1
  <2> HIDE DEF front
  <2> QED
    BY <2>1 DEF Filled
<1>3. Cardinality(Filled(front)) = 1
  BY <1>2, FS_Singleton
<1>4. place(1) = 1
  <2>1. Filled(front) \cap (1..1) = {1}
    BY <1>2
  <2>2. Cardinality(Filled(front) \cap (1..1)) = 1
    BY <2>1, FS_Singleton
  <2> QED
    BY <1>2, <2>2
<1>5. [n \in 1..Cardinality(Filled(front)) |-> front[place(n)]] = <<"media">>
  <2> DEFINE f == [n \in 1..Cardinality(Filled(front)) |-> front[place(n)]]
  <2>1. front[1] = "media"
    BY <1>1
  <2> HIDE DEF place, front
  <2>2. DOMAIN f = 1..1 /\ f[1] = "media"
    BY <1>3, <1>4, <2>1
  <2>3. f = [n \in 1..1 |-> f[n]]
    BY <1>3
  <2> HIDE DEF f
  <2>4. f \in Seq({"media"}) /\ Len(f) = 1
    BY <2>2, <2>3
  <2>5. f = <<"media">>
    BY <2>2, <2>4
  <2> QED
    BY <2>5 DEF f
<1>6. Collapse(path) = <<"media">> \o <<k>>
  BY <1>1, <1>5 DEF Collapse
<1>7. <<"media">> \o <<k>> = path
  <2> DEFINE S == {"media", k}
             a == <<"media">>
             b == <<k>>
  <2>1. /\ a \in Seq(S) /\ Len(a) = 1 /\ a[1] = "media"
        /\ b \in Seq(S) /\ Len(b) = 1 /\ b[1] = k
    OBVIOUS
  <2>2. path \in Seq(S) /\ Len(path) = 2 /\ path[1] = "media" /\ path[2] = k
    OBVIOUS
  <2> HIDE DEF S, a, b, path
  <2>3. /\ a \o b \in Seq(S)
        /\ Len(a \o b) = Len(a) + Len(b)
        /\ \A i \in 1..Len(a) + Len(b) :
             (a \o b)[i] = IF i <= Len(a) THEN a[i] ELSE b[i - Len(a)]
    BY <2>1, ConcatProperties, Zenon
  <2>4. Len(a \o b) = 2 /\ (a \o b)[1] = a[1] /\ (a \o b)[2] = b[1]
    BY <2>1, <2>3
  <2>5. a \o b = path
    BY <2>1, <2>2, <2>3, <2>4
  <2> QED
    BY <2>5 DEF a, b
<1> HIDE DEF place, front
<1> QED
  BY <1>6, <1>7 DEF ComposeKey, SignedKey, IssuedKey

\* Nothing is kept of a completed upload; an upload whose abort settled is over,
\* and nothing of it is kept or on its way.
PartInv ==
    /\ \A k \in Keys : upload[k] = "completed" => parts[k] = {}
    /\ \A k \in settled :
         /\ upload[k] \in {"aborted", "completed"}
         /\ parts[k] = {}
         /\ \A n \in Parts : <<k, n>> \notin wire

LEMMA AcknowledgeStep ==
    ASSUME SignedTypeOK, PartInv, NEW k \in Keys,
           AbortLands(k) \/ AbortFindsNothing(k)
    PROVE  PartInv'
<1>1. wire' = wire
  BY DEF AbortLands, AbortFindsNothing
<1>2. ASSUME NEW q \in Keys, q # k
      PROVE  upload'[q] = upload[q] /\ parts'[q] = parts[q]
  BY <1>2 DEF AbortLands, AbortFindsNothing, SignedTypeOK
<1>3. CASE AbortLands(k)
  <2>1. upload'[k] = "aborted" /\ parts'[k] = {}
    BY <1>3 DEF AbortLands, SignedTypeOK
  <2>2. /\ settled' \subseteq settled \cup {k}
        /\ k \in settled' => \A n \in Parts : <<k, n>> \notin wire
    BY <1>3 DEF AbortLands, Acknowledge, PartInv
  <2> QED
    BY <1>1, <1>2, <2>1, <2>2 DEF PartInv, SignedTypeOK
<1>4. CASE AbortFindsNothing(k)
  <2>1. upload' = upload /\ parts' = parts
    BY <1>4 DEF AbortFindsNothing
  <2>2. settled' = IF abort[k].key = IssuedKey(k)
                      /\ \A n \in Parts : <<k, n>> \notin wire
                   THEN settled \cup {k} ELSE settled
    BY <1>4 DEF AbortFindsNothing, Acknowledge
  <2>3. ASSUME abort[k].key = IssuedKey(k)
        PROVE  upload[k] \in {"aborted", "completed"} /\ parts[k] = {}
    <3>1. ComposeKey(abort[k].key) = SignedKey(k)
      BY <2>3, IssuedKeyFindsTheUpload
    <3> QED
      BY <1>4, <3>1 DEF AbortFindsNothing, PartInv
  <2> QED
    BY <1>1, <2>1, <2>2, <2>3 DEF PartInv
<1> QED
  BY <1>3, <1>4

LEMMA PartInvStep == SInv /\ PartInv /\ [SignedNext]_signedVars => PartInv'
<1> SUFFICES ASSUME SInv, PartInv, [SignedNext]_signedVars PROVE PartInv'
  OBVIOUS
<1>1. SignedTypeOK
  BY DEF SInv
<1>2. ASSUME UNCHANGED partVars PROVE PartInv'
  BY <1>2 DEF partVars, PartInv
<1>3. ASSUME NEW k \in Keys,
             \/ \E mime \in Mimes : CreateMultipartUrls(k, mime)
             \/ IssueFails(k)
      PROVE  PartInv'
  <2>1. /\ parts' = parts /\ wire' = wire /\ settled' = settled
        /\ upload[k] = "none"
        /\ \E u \in {"open", "lost"} : upload' = [upload EXCEPT ![k] = u]
    BY <1>3 DEF CreateMultipartUrls, IssueFails
  <2>2. k \notin settled
    BY <2>1 DEF PartInv
  <2>3. upload'[k] # "completed" /\ \A q \in Keys : q # k => upload'[q] = upload[q]
    BY <1>1, <2>1 DEF SignedTypeOK
  <2> QED
    BY <1>1, <2>1, <2>2, <2>3 DEF PartInv, SignedTypeOK
<1>4. ASSUME NEW k \in Keys, NEW n \in Parts, PartStarts(k, n)
      PROVE  PartInv'
  <2>1. k \notin settled
    BY <1>4 DEF PartStarts, PartInv
  <2> QED
    BY <1>4, <2>1 DEF PartStarts, PartInv
<1>5. ASSUME NEW k \in Keys, NEW n \in Parts, PartLands(k, n)
      PROVE  PartInv'
  <2>1. k \notin settled
    BY <1>5 DEF PartLands, PartInv
  <2>2. /\ upload[k] = "completed" => parts'[k] = parts[k]
        /\ \A q \in Keys : q # k => parts'[q] = parts[q]
    BY <1>1, <1>5 DEF PartLands, SignedTypeOK
  <2>3. upload' = upload /\ settled' = settled /\ wire' \subseteq wire
    BY <1>5 DEF PartLands
  <2> QED
    BY <1>1, <2>1, <2>2, <2>3 DEF PartInv, SignedTypeOK
<1>6. ASSUME NEW k \in Keys, NEW n \in Parts, PartDrops(k, n)
      PROVE  PartInv'
  BY <1>6 DEF PartDrops, PartInv
<1>7. ASSUME NEW k \in Keys, NEW body \in Bodies, CompleteStarts(k, body)
      PROVE  PartInv'
  BY <1>2, <1>7 DEF CompleteStarts
<1>8. ASSUME NEW k \in Keys,
             (\E path \in AbortKeys : AbortArrives(k, path)) \/ AbortFails(k)
      PROVE  PartInv'
  BY <1>8 DEF AbortArrives, AbortFails, PartInv
<1>9. ASSUME NEW k \in Keys, AbortLands(k) \/ AbortFindsNothing(k)
      PROVE  PartInv'
  BY <1>1, <1>9, AcknowledgeStep
<1>10. ASSUME NEW p \in sending, CompleteLands(p) PROVE PartInv'
  <2>1. p.key \in Keys
    BY <1>1 DEF SignedTypeOK, TypeOK
  <2>2. p.key \notin settled
    BY <1>10 DEF CompleteLands, PartInv
  <2>3. /\ parts'[p.key] = {}
        /\ \A q \in Keys : q # p.key =>
             parts'[q] = parts[q] /\ upload'[q] = upload[q]
        /\ wire' = wire /\ settled' = settled
    BY <1>1, <1>10, <2>1 DEF CompleteLands, SignedTypeOK
  <2> QED
    BY <1>1, <2>2, <2>3 DEF PartInv, SignedTypeOK
<1>11. CASE DirectNext
  BY <1>2, <1>11 DEF DirectNext
<1>12. CASE UNCHANGED signedVars
  BY <1>2, <1>12 DEF signedVars
<1> QED
  BY <1>3, <1>4, <1>5, <1>6, <1>7, <1>8, <1>9, <1>10, <1>11, <1>12
     DEF SignedNext, MultipartNext

\* An abort that was acknowledged for the issued key, no part being on the wire,
\* has left no part behind, and none comes later.
THEOREM AbortedIsGone == SignedSpec => []AbortSettles
<1>1. SignedInit => PartInv
  BY DEF SignedInit, PartInv
<1>2. PartInv => AbortSettles
  BY DEF PartInv, AbortSettles
<1> QED
  BY <1>1, <1>2, SignedInvariant, PartInvStep, PTL DEF SignedSpec

=============================================================================
