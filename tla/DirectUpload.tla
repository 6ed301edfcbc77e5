---------------------------- MODULE DirectUpload ----------------------------
(***************************************************************************)
(* Direct uploads: a presigned PUT takes the bytes to the bucket without   *)
(* passing through the API, and POST /signed/confirm checks afterwards     *)
(* what landed (apps/api/src/signed: signed.service.ts, confirm.service.ts *)
(* and scanner-confirm.ts).  A confirm makes up to three calls to the      *)
(* provider: head, a ranged download for the scanner, and a delete when    *)
(* the verdict is infected.  PUTs land between any two of them, the vault  *)
(* copies, renames and deletes under the same keys, and a key may be       *)
(* confirmed by several calls at once.                                     *)
(***************************************************************************)
EXTENDS Naturals, FiniteSets

CONSTANTS
    Keys,       \* keys a PUT URL can be issued for: `{category}/{uuid}`
    Calls,      \* calls of POST /signed/confirm
    Copied,     \* what the objects that the vault copies may be
    MaxPuts     \* bound of the model: PUTs and copies sent to the provider


VARIABLES
    url,        \* the presigned URL of each key
    urlMime,    \* the Content-Type it was signed for
    sending,    \* PUTs on the wire
    puts,       \* PUTs and copies started so far
    bucket,     \* the object stored under each key
    target,     \* the key of each confirm call
    step,       \* where each call is
    headed,     \* the object whose metadata head() returned
    scanned,    \* the object whose prefix was scanned
    \* History: nothing in the code reads these four.
    landed,     \* keys an object was ever stored under
    deletedBy,  \* keys deleted through DELETE /vault/object
    undisturbed,\* calls since whose head() no object landed or was deleted
                \* under the key, except by the call itself
    sealed      \* calls whose head() found the URL expired, no PUT on the wire,
                \* and no copy put another object under the key since

providerVars == <<url, urlMime, sending, puts, bucket, landed, deletedBy>>
confirmVars == <<target, step, headed, scanned, sealed>>
vars == <<providerVars, confirmVars, undisturbed>>

\* What the checks tell apart in a body: over maxSizeBytes, or with a marker
\* in the prefix the scanner reads.
Bodies == {"plain", "oversize", "infected", "unknown"}
Mimes == {"listed", "unlisted"}
Objects == [id : 1..MaxPuts, body : Bodies, mime : Mimes]
Absent == [id |-> 0, body |-> "none", mime |-> "none"]

ASSUME MaxPutsAssumption == MaxPuts \in Nat

ASSUME CopiedAssumption == Copied \subseteq [body : Bodies, mime : Mimes]

Steps == {"new", "headed", "removing", "reported", "notFound", "failed"}

TypeOK ==
    /\ url \in [Keys -> {"none", "valid", "expired"}]
    /\ urlMime \in [Keys -> Mimes]
    /\ sending \subseteq [key : Keys, object : Objects]
    /\ puts \in 0..MaxPuts
    /\ bucket \in [Keys -> Objects \cup {Absent}]
    /\ target \in [Calls -> Keys]
    /\ step \in [Calls -> Steps]
    /\ headed \in [Calls -> Objects \cup {Absent}]
    /\ scanned \in [Calls -> Objects \cup {Absent}]
    /\ landed \subseteq Keys
    /\ deletedBy \subseteq Keys
    /\ undisturbed \subseteq Calls
    /\ sealed \subseteq Calls

Init ==
    /\ url = [k \in Keys |-> "none"]
    /\ urlMime = [k \in Keys |-> "listed"]
    /\ sending = {}
    /\ puts = 0
    /\ bucket = [k \in Keys |-> Absent]
    /\ target \in [Calls -> Keys]
    /\ step = [c \in Calls |-> "new"]
    /\ headed = [c \in Calls |-> Absent]
    /\ scanned = [c \in Calls |-> Absent]
    /\ landed = {}
    /\ deletedBy = {}
    /\ undisturbed = {}
    /\ sealed = {}

-----------------------------------------------------------------------------
(* The policy that confirm() re-applies.                                   *)

\* Mutants: a size policy that is never read; a whitelist that is not.
AnySize(object) == TRUE
AnyMime(object) == TRUE

IsSizeWithinPolicy(object) == object.body # "oversize"
IsMimeWithinPolicy(object) == object.mime = "listed"

\* MarkerFileScanner: an infected marker wins, neither marker is clean.
Verdict(object) ==
    IF object.body \in {"infected", "unknown"} THEN object.body ELSE "clean"

Conforms(object) ==
    /\ object # Absent
    /\ object.body = "plain"
    /\ object.mime = "listed"

\* The report's `confirmed`: the checks of the two reads put together.
\* Mutant: only a threat spoils it, an inconclusive verdict does not.
ConfirmedUnlessInfected(c) ==
    /\ step[c] = "reported"
    /\ IsSizeWithinPolicy(headed[c])
    /\ IsMimeWithinPolicy(headed[c])
    /\ Verdict(scanned[c]) # "infected"

Confirmed(c) ==
    /\ step[c] = "reported"
    /\ IsSizeWithinPolicy(headed[c])
    /\ IsMimeWithinPolicy(headed[c])
    /\ Verdict(scanned[c]) = "clean"

-----------------------------------------------------------------------------
(* The presigned URL and the provider.                                     *)

CallsOn(k) == {c \in Calls : target[c] = k}

\* createUploadUrl(): the key is a new uuid, and the content type is signed.
CreateUploadUrl(k, mime) ==
    /\ url[k] = "none"
    /\ url' = [url EXCEPT ![k] = "valid"]
    /\ urlMime' = [urlMime EXCEPT ![k] = mime]
    /\ UNCHANGED <<sending, puts, bucket, landed, deletedBy,
                   confirmVars, undisturbed>>

\* The effective TTL runs out: the provider refuses PUTs from here on.
UrlExpires(k) ==
    /\ url[k] = "valid"
    /\ url' = [url EXCEPT ![k] = "expired"]
    /\ UNCHANGED <<urlMime, sending, puts, bucket, landed, deletedBy,
                   confirmVars, undisturbed>>

\* putWithHeaders(): the signature is checked when the request arrives.  The
\* signed URL may be used more than once.
PutStarts(k, body) ==
    /\ url[k] = "valid"
    /\ puts < MaxPuts
    /\ puts' = puts + 1
    /\ sending' = sending \cup
         {[key |-> k,
           object |-> [id |-> puts', body |-> body, mime |-> urlMime[k]]]}
    /\ UNCHANGED <<url, urlMime, bucket, landed, deletedBy,
                   confirmVars, undisturbed>>

\* The whole body has arrived: it replaces what the key held, at once.
PutLands(p) ==
    /\ sending' = sending \ {p}
    /\ bucket' = [bucket EXCEPT ![p.key] = p.object]
    /\ landed' = landed \cup {p.key}
    /\ undisturbed' = undisturbed \ CallsOn(p.key)
    /\ UNCHANGED <<url, urlMime, puts, deletedBy, confirmVars>>

\* The connection drops: a partial body is never stored.
PutDrops(p) ==
    /\ sending' = sending \ {p}
    /\ UNCHANGED <<url, urlMime, puts, bucket, landed, deletedBy,
                   confirmVars, undisturbed>>

\* POST /vault/copy onto the key, or a rename that ends there: any object of the
\* bucket, whatever URL or policy it came by, replaces what the key held.  (A
\* key that was never issued is a uuid nobody can name.)
VaultCopy(k, copy) ==
    /\ url[k] # "none"
    /\ puts < MaxPuts
    /\ puts' = puts + 1
    /\ bucket' = [bucket EXCEPT ![k] =
                    [id |-> puts', body |-> copy.body, mime |-> copy.mime]]
    /\ landed' = landed \cup {k}
    /\ undisturbed' = undisturbed \ CallsOn(k)
    /\ sealed' = sealed \ CallsOn(k)
    /\ UNCHANGED <<url, urlMime, sending, deletedBy, target, step, headed, scanned>>

\* DELETE /vault/object from elsewhere in the dashboard, or the delete that ends
\* a rename of the key.
VaultDelete(k) ==
    /\ bucket[k] # Absent
    /\ bucket' = [bucket EXCEPT ![k] = Absent]
    /\ deletedBy' = deletedBy \cup {k}
    /\ undisturbed' = undisturbed \ CallsOn(k)
    /\ UNCHANGED <<url, urlMime, sending, puts, landed, confirmVars>>

-----------------------------------------------------------------------------
(* POST /signed/confirm, one action per provider call.                     *)

\* confirm(): head() of a key that never landed answers 404.
HeadNotFound(c) ==
    /\ step[c] = "new"
    /\ bucket[target[c]] = Absent
    /\ step' = [step EXCEPT ![c] = "notFound"]
    /\ UNCHANGED <<providerVars, target, headed, scanned, undisturbed, sealed>>

HeadFound(c) ==
    /\ step[c] = "new"
    /\ bucket[target[c]] # Absent
    /\ headed' = [headed EXCEPT ![c] = bucket[target[c]]]
    /\ step' = [step EXCEPT ![c] = "headed"]
    /\ undisturbed' = undisturbed \cup {c}
    /\ sealed' = IF /\ url[target[c]] = "expired"
                    /\ \A p \in sending : p.key # target[c]
                 THEN sealed \cup {c} ELSE sealed
    /\ UNCHANGED <<providerVars, target, scanned>>

\* ScannerConfirm.scan(): the object went away since the head().
ScanNotFound(c) ==
    /\ step[c] = "headed"
    /\ bucket[target[c]] = Absent
    /\ step' = [step EXCEPT ![c] = "notFound"]
    /\ UNCHANGED <<providerVars, target, headed, scanned, undisturbed, sealed>>

\* Mutant: an inconclusive verdict removes the object as well.
RemovesUnlessClean(object) == Verdict(object) # "clean"

Removes(object) == Verdict(object) = "infected"

\* Mutant: the verdict is returned before the delete it calls for.
ScanAnswersVerdict(c) ==
    /\ step[c] = "headed"
    /\ bucket[target[c]] # Absent
    /\ scanned' = [scanned EXCEPT ![c] = bucket[target[c]]]
    /\ step' = [step EXCEPT ![c] = Verdict(bucket[target[c]])]
    /\ UNCHANGED <<providerVars, target, headed, undisturbed, sealed>>

\* The prefix of whatever the key holds now is scanned.
Scan(c) ==
    /\ step[c] = "headed"
    /\ bucket[target[c]] # Absent
    /\ scanned' = [scanned EXCEPT ![c] = bucket[target[c]]]
    /\ step' = [step EXCEPT ![c] =
                  IF Removes(bucket[target[c]]) THEN "removing" ELSE "reported"]
    /\ UNCHANGED <<providerVars, target, headed, undisturbed, sealed>>

\* Mutant: the refusal is returned without waiting for the delete.
RemoveUnawaited(c) ==
    /\ step[c] = "removing"
    /\ step' = [step EXCEPT ![c] = "reported"]
    /\ UNCHANGED <<providerVars, target, headed, scanned, undisturbed, sealed>>

\* The infected verdict's delete, by key: idempotent, it removes whatever the
\* key holds by now.
Remove(c) ==
    /\ step[c] = "removing"
    /\ bucket' = [bucket EXCEPT ![target[c]] = Absent]
    /\ step' = [step EXCEPT ![c] = "reported"]
    /\ undisturbed' = undisturbed \ (CallsOn(target[c]) \ {c})
    /\ UNCHANGED <<url, urlMime, sending, puts, landed, deletedBy,
                   target, headed, scanned, sealed>>

\* Any of the three calls fails: the exception leaves confirm(), and what was
\* done before stays done.
ProviderFails(c) ==
    /\ step[c] \in {"new", "headed", "removing"}
    /\ step' = [step EXCEPT ![c] = "failed"]
    /\ UNCHANGED <<providerVars, target, headed, scanned, undisturbed, sealed>>

Next ==
    \/ \E k \in Keys :
        \/ \E mime \in Mimes : CreateUploadUrl(k, mime)
        \/ UrlExpires(k)
        \/ \E body \in Bodies : PutStarts(k, body)
        \/ \E copy \in Copied : VaultCopy(k, copy)
        \/ VaultDelete(k)
    \/ \E p \in sending : PutLands(p) \/ PutDrops(p)
    \/ \E c \in Calls :
        \/ HeadNotFound(c) \/ HeadFound(c) \/ ScanNotFound(c) \/ Scan(c)
        \/ Remove(c) \/ ProviderFails(c)

Spec == Init /\ [][Next]_vars

-----------------------------------------------------------------------------
(* Safety.                                                                 *)

\* A confirm that nobody disturbed tells the truth about the bucket: the
\* object it confirmed is the one stored, and it passes the size, MIME and
\* content checks together although they come from two separate reads.
UndisturbedConfirmIsTrue ==
    \A c \in undisturbed :
        Confirmed(c) => /\ bucket[target[c]] = headed[c]
                        /\ Conforms(bucket[target[c]])

\* A confirm of a key whose URL had expired, with nothing left on the wire,
\* settles the matter for all that presigned URLs, other confirms and deletes
\* can do: the key holds a conforming object or none until the vault copies
\* another object onto it.  (One that is called earlier settles nothing: the URL
\* can still replace the object.)
ConfirmedAfterExpiryForGood ==
    \A c \in sealed :
        Confirmed(c) => \/ bucket[target[c]] = Absent
                        \/ Conforms(bucket[target[c]])

\* An infected verdict is returned only after the object is out of the bucket,
\* unless a later PUT or copy brought one; and confirming destroys nothing but
\* threats: an object that landed is missing only if somebody deleted it or a
\* confirm found a marker under that key.
ThreatsAndOnlyTheyDisappear ==
    /\ \A c \in undisturbed :
        step[c] = "reported" /\ Verdict(scanned[c]) = "infected" =>
            bucket[target[c]] = Absent
    /\ \A k \in landed \ deletedBy :
        bucket[k] = Absent =>
            \E c \in Calls : target[c] = k /\ Verdict(scanned[c]) = "infected"

\* The report's promise: `confirmed` is true only when size, MIME and a clean
\* scan all pass, that is, for an object that passes all three.
ConfirmedObjectPassedAll ==
    \A c \in Calls :
        Confirmed(c) => Conforms(headed[c]) \/ Conforms(scanned[c])

=============================================================================
