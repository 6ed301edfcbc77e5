----------------------------- MODULE UploadLab -----------------------------
(***************************************************************************)
(* The dashboard's upload lab (apps/web/app/upload/upload-lab-content.tsx) *)
(* over the upload routes of the API: single-shot uploads, uploads with an *)
(* idempotency key and uploads with an encryption override, any number of  *)
(* them under way.  A handler uses the values of the render it was made    *)
(* in, and writes to the state of the moment it ends.                      *)
(*                                                                         *)
(* The routes keep no state.  The library dedupes by idempotency key in a  *)
(* cache of the process: modelled as far as the service relies on it.      *)
(***************************************************************************)
EXTENDS Naturals, Sequences, FiniteSets

CONSTANTS
    Files,      \* files the user may drop, each once; a call is named by it
    IdemKeys,   \* what the user may type as idempotency key
    FirstKey,   \* what the field holds at first
    NoFile,     \* null
    MaxClicks   \* bound of the model: what the user does

VARIABLES
    mounted,    \* this page is the one on screen
    clicks,     \* number of things the user has done
    idempotencyKey, sseMode,    \* the page's inputs
    lastResult, strategy, idempotencyResults, sseResult,  \* and its results
    card,       \* the card each file was dropped on
    arg,        \* the key or the mode its handler captured
    phase,      \* where its call is
    hit,        \* whether it was answered from the cache
    gone,       \* files dropped before the user left the page
    cache,      \* of the API process: the call whose result a key has
    object,     \* whose content `idempotent/{sha of key}.txt` holds
    \* History: nothing in the code reads these two.
    logged,     \* idempotent calls whose handler ran to its end
    mixed       \* keys with calls that overlap, or that the cache lost

inputVars == <<idempotencyKey, sseMode>>
resultVars == <<lastResult, strategy, idempotencyResults, sseResult>>
callVars == <<card, arg, phase, hit, gone>>
apiVars == <<cache, object>>
historyVars == <<logged, mixed>>
vars == <<inputVars, resultVars, callVars, apiVars, historyVars>>

Cards == {"single", "idempotent", "sse"}
Modes == {"AES256", "NONE"}
Row == [callId : 1..Cardinality(Files), call : Files, fromCache : BOOLEAN]
MaybeFile == Files \cup {NoFile}

TypeOK ==
    /\ idempotencyKey \in IdemKeys
    /\ sseMode \in Modes
    /\ {lastResult, sseResult} \subseteq MaybeFile
    /\ strategy \in {"idle", "single", "multipart"}
    /\ idempotencyResults \in Seq(Row)
    /\ card \in [Files -> Cards]
    /\ arg \in [Files -> IdemKeys \cup Modes]
    /\ phase \in [Files -> {"none", "reading", "sent", "storing", "adrift",
                            "answered", "failed", "over"}]
    /\ hit \in [Files -> BOOLEAN]
    /\ gone \subseteq Files
    /\ cache \in [IdemKeys -> MaybeFile]
    /\ object \in [IdemKeys -> MaybeFile]
    /\ logged \subseteq Files
    /\ mixed \subseteq IdemKeys

Init ==
    /\ idempotencyKey = FirstKey
    /\ sseMode = "NONE"
    /\ lastResult = NoFile
    /\ strategy = "idle"
    /\ idempotencyResults = <<>>
    /\ sseResult = NoFile
    /\ card = [f \in Files |-> "single"]
    /\ arg = [f \in Files |-> "NONE"]
    /\ phase = [f \in Files |-> "none"]
    /\ hit = [f \in Files |-> FALSE]
    /\ gone = {}
    /\ cache = [k \in IdemKeys |-> NoFile]
    /\ object = [k \in IdemKeys |-> NoFile]
    /\ logged = {}
    /\ mixed = {}

\* The page unmounts; its handlers run to their ends for nobody.
Leave ==
    /\ idempotencyKey' = FirstKey
    /\ sseMode' = "NONE"
    /\ lastResult' = NoFile
    /\ strategy' = "idle"
    /\ idempotencyResults' = <<>>
    /\ sseResult' = NoFile
    /\ gone' = {f \in Files : phase[f] # "none"}
    /\ logged' = {}
    /\ UNCHANGED <<card, arg, phase, hit, apiVars, mixed>>

\* Calls under way with key k.
CallsWith(k) ==
    {f \in Files : /\ card[f] = "idempotent"
                   /\ arg[f] = k
                   /\ phase[f] \notin {"none", "over"}}

-----------------------------------------------------------------------------
(* The user.                                                               *)

Click ==
    /\ mounted
    /\ clicks < MaxClicks
    /\ clicks' = clicks + 1

TypeKey(k) ==
    /\ Click
    /\ k # idempotencyKey
    /\ idempotencyKey' = k
    /\ UNCHANGED <<sseMode, resultVars, callVars, apiVars, historyVars>>

ChooseMode(m) ==
    /\ Click
    /\ m # sseMode
    /\ sseMode' = m
    /\ UNCHANGED <<idempotencyKey, resultVars, callVars, apiVars, historyVars>>

\* What the handler of each card closes over.
Captured(c) ==
    IF c = "idempotent" THEN idempotencyKey
    ELSE IF c = "sse" THEN sseMode ELSE "NONE"

\* A dropzone blocks the pointer while its card's last call is pending, but not
\* the keyboard; and the idempotent handler is not pending while it reads.
Drop(f, c) ==
    /\ Click
    /\ phase[f] = "none"
    /\ card' = [card EXCEPT ![f] = c]
    /\ arg' = [arg EXCEPT ![f] = Captured(c)]
    /\ phase' = [phase EXCEPT ![f] = IF c = "idempotent" THEN "reading"
                                     ELSE "sent"]
    /\ mixed' = IF c = "idempotent" /\ CallsWith(idempotencyKey) # {}
                THEN mixed \cup {idempotencyKey} ELSE mixed
    /\ UNCHANGED <<inputVars, resultVars, hit, gone, apiVars, logged>>

\* file.text() resolves, and the text goes out as JSON; or it rejects.
Read(f) ==
    /\ phase[f] = "reading"
    /\ phase' = [phase EXCEPT ![f] = "sent"]
    /\ UNCHANGED <<clicks, inputVars, resultVars, card, arg, hit, gone,
                   apiVars, historyVars>>

ReadFails(f) ==
    /\ phase[f] = "reading"
    /\ phase' = [phase EXCEPT ![f] = "failed"]
    /\ UNCHANGED <<clicks, inputVars, resultVars, card, arg, hit, gone,
                   apiVars, historyVars>>

-----------------------------------------------------------------------------
(* The API.                                                                *)

\* Mutant: the service does not pass the key on to the library.
DedupedByNone(f) == FALSE

\* uploadIdempotent(): the library knows the key.
Deduped(f) == card[f] = "idempotent" /\ cache[arg[f]] # NoFile

Arrive(f) ==
    /\ phase[f] = "sent"
    /\ hit' = [hit EXCEPT ![f] = Deduped(f)]
    /\ phase' = [phase EXCEPT ![f] =
                   IF Deduped(f) THEN "answered" ELSE "storing"]
    /\ UNCHANGED <<clicks, inputVars, resultVars, card, arg, gone, apiVars,
                   historyVars>>

\* The client loses the connection: its handler ends with a toast, and the API
\* goes on all the same.
Disconnect(f) ==
    /\ phase[f] = "storing"
    /\ phase' = [phase EXCEPT ![f] = "adrift"]
    /\ UNCHANGED <<clicks, inputVars, resultVars, card, arg, hit, gone,
                   apiVars, historyVars>>

\* What a client that is still there gets, and one that is not.
Answer(f, outcome) ==
    phase' = [phase EXCEPT ![f] = IF @ = "adrift" THEN "over" ELSE outcome]

Put(f) ==
    object' = IF card[f] = "idempotent" THEN [object EXCEPT ![arg[f]] = f]
              ELSE object

\* The provider has the object; a call with a key leaves its result in the
\* cache.  The objects of the other cards have a name of their own.
Stored(f) ==
    /\ phase[f] \in {"storing", "adrift"}
    /\ Answer(f, "answered")
    /\ Put(f)
    /\ cache' = IF card[f] = "idempotent" THEN [cache EXCEPT ![arg[f]] = f]
                ELSE cache
    /\ UNCHANGED <<clicks, inputVars, resultVars, card, arg, hit, gone,
                   historyVars>>

\* The API answers with an error, though the provider may have done its part.
StoreFails(f, isStored) ==
    /\ phase[f] \in {"storing", "adrift"}
    /\ Answer(f, "failed")
    /\ IF isStored THEN Put(f) ELSE UNCHANGED object
    /\ UNCHANGED <<clicks, inputVars, resultVars, card, arg, hit, gone, cache,
                   historyVars>>

\* The request does not reach the API or is refused, or the answer is lost.
CallFails(f) ==
    /\ phase[f] \in {"sent", "answered"}
    /\ phase' = [phase EXCEPT ![f] = "failed"]
    /\ UNCHANGED <<clicks, inputVars, resultVars, card, arg, hit, gone,
                   apiVars, historyVars>>

\* Eviction at 1000 entries or after 24 hours, or another instance answers, or
\* the process restarts.
Forget(k) ==
    /\ cache[k] # NoFile
    /\ cache' = [cache EXCEPT ![k] = NoFile]
    /\ mixed' = mixed \cup {k}
    /\ UNCHANGED <<clicks, inputVars, resultVars, callVars, object, logged>>

-----------------------------------------------------------------------------
(* The ends of the handlers.                                               *)

Over(f) ==
    /\ phase' = [phase EXCEPT ![f] = "over"]
    /\ UNCHANGED <<clicks, inputVars, card, arg, hit, gone, apiVars, mixed>>

StrategyFromMultipart(isMultipart) ==
    IF isMultipart THEN "multipart" ELSE "single"

\* The answer tells which way the file's size made the API take.
HandleFile(f, isMultipart) ==
    /\ f \notin gone
    /\ card[f] = "single"
    /\ phase[f] = "answered"
    /\ lastResult' = f
    /\ strategy' = StrategyFromMultipart(isMultipart)
    /\ Over(f)
    /\ UNCHANGED <<idempotencyResults, sseResult, logged>>

\* Mutant: a row has the identity of its storage key.
LoggedByKey(f) ==
    LET OfAnother(row) == arg[row.call] # arg[f]
        Kept == SelectSeq(idempotencyResults, OfAnother) IN
    Append(Kept, [callId |-> Len(Kept) + 1, call |-> f, fromCache |-> hit[f]])

\* setIdempotencyResults((prev) => [...prev, { callId: prev.length + 1, ... }])
Logged(f) ==
    Append(idempotencyResults,
           [callId |-> Len(idempotencyResults) + 1, call |-> f,
            fromCache |-> hit[f]])

HandleIdempotentUpload(f) ==
    /\ f \notin gone
    /\ card[f] = "idempotent"
    /\ phase[f] = "answered"
    /\ idempotencyResults' = Logged(f)
    /\ logged' = logged \cup {f}
    /\ Over(f)
    /\ UNCHANGED <<lastResult, strategy, sseResult>>

HandleSseUpload(f) ==
    /\ f \notin gone
    /\ card[f] = "sse"
    /\ phase[f] = "answered"
    /\ sseResult' = f
    /\ Over(f)
    /\ UNCHANGED <<lastResult, strategy, idempotencyResults, logged>>

\* A toast; or any end, in a page that is gone.
HandleElsewise(f) ==
    /\ phase[f] = "failed" \/ (phase[f] = "answered" /\ f \in gone)
    /\ Over(f)
    /\ UNCHANGED <<resultVars, logged>>

-----------------------------------------------------------------------------

Next ==
    \/ \E k \in IdemKeys : TypeKey(k) \/ Forget(k)
    \/ \E m \in Modes : ChooseMode(m)
    \/ \E f \in Files :
        \/ \E c \in Cards : Drop(f, c)
        \/ Read(f) \/ ReadFails(f)
        \/ Arrive(f) \/ Disconnect(f) \/ Stored(f) \/ CallFails(f)
        \/ \E isStored \in BOOLEAN : StoreFails(f, isStored)
        \/ \E isMultipart \in BOOLEAN : HandleFile(f, isMultipart)
        \/ HandleIdempotentUpload(f) \/ HandleSseUpload(f)
        \/ HandleElsewise(f)

-----------------------------------------------------------------------------
(* Properties.                                                             *)

\* The log has one row for every idempotent call that was answered, also for
\* calls with one key and for calls that end together, and no two rows have one
\* id, which React keys the rows by.
LogKeepsEveryCall ==
    /\ logged = {idempotencyResults[i].call : i \in DOMAIN idempotencyResults}
    /\ \A i \in DOMAIN idempotencyResults : idempotencyResults[i].callId = i

\* While the cache lasts and a key's calls follow one another, failures
\* included, the calls with it that the log reports as stored are one at most,
\* and the object is still that call's: a repeat changes nothing, whatever its
\* file.  Calls that overlap, or a cache that forgot, forfeit this.
StoredOnce ==
    \A i, j \in DOMAIN idempotencyResults :
        LET first == idempotencyResults[i]
            other == idempotencyResults[j]
            k == arg[first.call] IN
        ~first.fromCache /\ k \notin mixed =>
            /\ object[k] = first.call
            /\ arg[other.call] = k /\ ~other.fromCache => i = j

=============================================================================
