-------------------------- MODULE MultipartUpload --------------------------
(***************************************************************************)
(* Presigned multipart uploads beside the presigned PUTs of DirectUpload   *)
(* (apps/api/src/signed/signed.service.ts): POST /signed/multipart-urls    *)
(* opens an upload at the provider and signs one URL per part and one to   *)
(* complete; POST /signed/multipart-abort closes it through the raw client *)
(* and has to find it under the key the library signed.  Parts, the        *)
(* completion, the expiry and aborts race each other, and the object that  *)
(* a completion makes is confirmed like any other.                         *)
(***************************************************************************)
EXTENDS DirectUpload, Sequences

CONSTANTS
    Parts,      \* numbers of the parts that an issuance signs URLs for
    KeyPrefix,  \* STORAGE_KEY_PREFIX, split at its slashes
    AbortKeys   \* keys that a call of multipart-abort may bring

VARIABLES
    upload,     \* the multipart upload under each key
    parts,      \* the parts the provider keeps, and bills, for it
    wire,       \* parts on their way: pairs of a key and a number
    abort,      \* the call of multipart-abort about each upload
    \* History: nothing in the code reads this one.
    settled     \* keys whose abort was acknowledged, having reached the
                \* provider under the issued key with no part on the wire

partVars == <<upload, parts, wire, abort, settled>>
signedVars == <<vars, partVars>>

\* An upload is lost when its uploadId never reaches the consumer.
Uploads == {"none", "open", "lost", "aborted", "completed"}
NoAbort == [step |-> "none", key |-> <<>>]

SignedTypeOK ==
    /\ TypeOK
    /\ upload \in [Keys -> Uploads]
    /\ parts \in [Keys -> SUBSET Parts]
    /\ wire \subseteq Keys \X Parts
    /\ abort \in [Keys -> [step : {"none", "sent", "done", "failed"},
                          key : AbortKeys \cup {<<>>}]]
    /\ settled \subseteq Keys

SignedInit ==
    /\ Init
    /\ upload = [k \in Keys |-> "none"]
    /\ parts = [k \in Keys |-> {}]
    /\ wire = {}
    /\ abort = [k \in Keys |-> NoAbort]
    /\ settled = {}

-----------------------------------------------------------------------------
(* Keys are paths: sequences of the segments between their slashes.        *)

Filled(path) == {i \in DOMAIN path : path[i] # ""}
Last(path) == path[Len(path)]
Front(path) == SubSeq(path, 1, Len(path) - 1)

\* The key that both routes answer: `{category}/{uuid}`.
IssuedKey(k) == <<"media", k>>

\* Runs of slashes become one; a slash at the end stays.
Collapse(path) ==
    LET front == Front(path)
        place(n) == CHOOSE i \in Filled(front) :
                        Cardinality(Filled(front) \cap (1..i)) = n
    IN  [n \in 1..Cardinality(Filled(front)) |-> front[place(n)]]
            \o <<Last(path)>>

\* Without the slashes at its ends.
Trim(path) ==
    IF Filled(path) = {} THEN <<>>
    ELSE LET first == CHOOSE i \in Filled(path) :
                          \A j \in Filled(path) : i <= j
             last == CHOOSE i \in Filled(path) :
                          \A j \in Filled(path) : j <= i
         IN  SubSeq(path, first, last)

\* A path that begins with a slash has an empty first segment.
Refused(path) ==
    \/ Len(path) > 1 /\ path[1] = ""
    \/ \E i \in DOMAIN path : path[i] = ".."

\* Mutant: the raw client gets the raw key.
ComposeKeyBare(path) == Collapse(path)

ComposeKey(path) == Trim(KeyPrefix) \o Collapse(path)

\* What the library's key resolver makes of an issued key.
SignedKey(k) == Trim(KeyPrefix) \o IssuedKey(k)

-----------------------------------------------------------------------------
(* Issuing, sending and completing.                                        *)

\* createMultipartUrls(): the key is a new uuid, the URLs share one expiry.
CreateMultipartUrls(k, mime) ==
    /\ url[k] = "none" /\ upload[k] = "none"
    /\ url' = [url EXCEPT ![k] = "valid"]
    /\ urlMime' = [urlMime EXCEPT ![k] = mime]
    /\ upload' = [upload EXCEPT ![k] = "open"]
    /\ UNCHANGED <<sending, puts, bucket, landed, deletedBy, confirmVars,
                   undisturbed, parts, wire, abort, settled>>

\* The upload is open, and then the answer fails: the expiry cannot be read
\* off the URL, or the consumer is gone.
IssueFails(k) ==
    /\ url[k] = "none" /\ upload[k] = "none"
    /\ upload' = [upload EXCEPT ![k] = "lost"]
    /\ UNCHANGED <<vars, parts, wire, abort, settled>>

\* A part is admitted while its URL is valid and its upload open.
PartStarts(k, n) ==
    /\ url[k] = "valid" /\ upload[k] = "open"
    /\ wire' = wire \cup {<<k, n>>}
    /\ UNCHANGED <<vars, upload, parts, abort, settled>>

\* A part that was under way when its upload was aborted may yet be stored.
PartLands(k, n) ==
    /\ <<k, n>> \in wire
    /\ wire' = wire \ {<<k, n>>}
    /\ parts' = [parts EXCEPT ![k] =
                   IF upload[k] = "completed" THEN @ ELSE @ \cup {n}]
    /\ UNCHANGED <<vars, upload, abort, settled>>

PartDrops(k, n) ==
    /\ <<k, n>> \in wire
    /\ wire' = wire \ {<<k, n>>}
    /\ UNCHANGED <<vars, upload, parts, abort, settled>>

\* The consumer completes when every part is stored.
CompleteStarts(k, body) ==
    /\ url[k] = "valid" /\ upload[k] = "open" /\ parts[k] = Parts
    /\ puts < MaxPuts
    /\ puts' = puts + 1
    /\ sending' = sending \cup
         {[key |-> k,
           object |-> [id |-> puts', body |-> body, mime |-> urlMime[k]]]}
    /\ UNCHANGED <<url, urlMime, bucket, landed, deletedBy, confirmVars,
                   undisturbed, partVars>>

\* The object appears at once and the parts are no longer parts.
CompleteLands(p) ==
    /\ upload[p.key] = "open" /\ parts[p.key] = Parts
    /\ PutLands(p)
    /\ upload' = [upload EXCEPT ![p.key] = "completed"]
    /\ parts' = [parts EXCEPT ![p.key] = {}]
    /\ UNCHANGED <<wire, abort, settled>>

-----------------------------------------------------------------------------
(* abortMultipart().                                                       *)

\* The consumer aborts, for the first time or again, under any spelling.
AbortArrives(k, path) ==
    /\ upload[k] \in {"open", "aborted", "completed"}
    /\ abort[k].step # "sent"
    /\ abort' = [abort EXCEPT ![k] =
         IF Refused(path) THEN [step |-> "failed", key |-> <<>>]
                          ELSE [step |-> "sent", key |-> path]]
    /\ UNCHANGED <<vars, upload, parts, wire, settled>>

\* The answer `aborted: true`; history notes what it is worth.
Acknowledge(k) ==
    /\ abort' = [abort EXCEPT ![k] = [step |-> "done", key |-> <<>>]]
    /\ settled' = IF abort[k].key = IssuedKey(k)
                     /\ \A n \in Parts : <<k, n>> \notin wire
                  THEN settled \cup {k} ELSE settled

\* The command finds the upload by its key and id: the stored parts go.
AbortLands(k) ==
    /\ abort[k].step = "sent"
    /\ ComposeKey(abort[k].key) = SignedKey(k)
    /\ upload[k] \in {"open", "aborted"}
    /\ upload' = [upload EXCEPT ![k] = "aborted"]
    /\ parts' = [parts EXCEPT ![k] = {}]
    /\ Acknowledge(k)
    /\ UNCHANGED <<vars, wire>>

\* No such upload, or none any more: "AbortMultipartUpload is idempotent".
AbortFindsNothing(k) ==
    /\ abort[k].step = "sent"
    /\ \/ ComposeKey(abort[k].key) # SignedKey(k)
       \/ upload[k] = "completed"
       \/ upload[k] = "aborted" /\ parts[k] = {}
    /\ Acknowledge(k)
    /\ UNCHANGED <<vars, upload, parts, wire>>

\* The provider, or the way to it, fails: the route answers a provider error,
\* and does so too where an abort of no upload is an error.
AbortFails(k) ==
    /\ abort[k].step = "sent"
    /\ abort' = [abort EXCEPT ![k] = [step |-> "failed", key |-> <<>>]]
    /\ UNCHANGED <<vars, upload, parts, wire, settled>>

-----------------------------------------------------------------------------
(* Both kinds of direct upload and the confirms.                           *)

\* The steps of DirectUpload; a key has a PUT URL or a multipart upload.
DirectNext ==
    /\ \/ \E k \in Keys :
            \/ /\ upload[k] = "none"
               /\ \/ \E mime \in Mimes : CreateUploadUrl(k, mime)
                  \/ \E body \in Bodies : PutStarts(k, body)
            \/ UrlExpires(k)
            \/ \E copy \in Copied : VaultCopy(k, copy)
            \/ VaultDelete(k)
       \/ \E p \in sending :
            \/ upload[p.key] = "none" /\ PutLands(p)
            \/ PutDrops(p)
       \/ \E c \in Calls :
            \/ HeadNotFound(c) \/ HeadFound(c) \/ ScanNotFound(c) \/ Scan(c)
            \/ Remove(c) \/ ProviderFails(c)
    /\ UNCHANGED partVars

MultipartNext ==
    \/ \E k \in Keys :
        \/ \E mime \in Mimes : CreateMultipartUrls(k, mime)
        \/ IssueFails(k)
        \/ \E n \in Parts : PartStarts(k, n) \/ PartLands(k, n) \/ PartDrops(k, n)
        \/ \E body \in Bodies : CompleteStarts(k, body)
        \/ \E path \in AbortKeys : AbortArrives(k, path)
        \/ AbortLands(k) \/ AbortFindsNothing(k) \/ AbortFails(k)
    \/ \E p \in sending : CompleteLands(p)

SignedNext == DirectNext \/ MultipartNext

SignedSpec == SignedInit /\ [][SignedNext]_signedVars

-----------------------------------------------------------------------------

\* An acknowledged abort leaves no part behind for good, provided that it named
\* the upload by the key that was issued and no part was on the wire: the raw
\* client must have found the upload under the key the library signed.  (An
\* abort that overlaps a part may leave that part; one more abort removes it.)
AbortSettles == \A k \in settled : parts[k] = {} /\ upload[k] # "open"

=============================================================================
