----------------------------- MODULE ErrorsDemo -----------------------------
(***************************************************************************)
(* The error explorer: a card for every code of the library, whose button  *)
(* makes the API raise it (apps/web/app/errors/page.tsx and                *)
(* hooks/use-errors.ts, calling apps/api/src/errors-demo).  One mutation   *)
(* serves all cards and disables all buttons while it is pending.          *)
(***************************************************************************)
EXTENDS Naturals, FiniteSets, UploadPipeline

CONSTANTS
    Tried,      \* bound of the model: the codes whose cards the user tries
    MaxClicks   \* bound of the model: what the user does

VARIABLES
    mounted,    \* this page is the one on screen
    clicks,     \* number of things the user has done
    config,     \* the module options, fixed at start
    calls,      \* POST /errors/:code calls under way
    results,    \* the code each card shows; None before it is triggered
    stored,     \* the demo's objects, each named by the code whose trigger put it
    \* History: nothing in the code reads this.
    disturbed   \* cards whose last call met a fault of the provider or network

vars == <<calls, results, stored, disturbed>>

\* Codes whose trigger is refused before any call of the provider.
GuardCodes == {"STORAGE_KEY_INVALID", "STORAGE_BODY_MISSING",
               "STORAGE_CONTENT_TYPE_REQUIRED", "STORAGE_BUCKET_UNDEFINED"}
PipelineCodes == {"STORAGE_MIME_NOT_ALLOWED", "STORAGE_SIZE_EXCEEDED",
                  "STORAGE_VALIDATION_FAILED", "STORAGE_SCAN_INFECTED"}
SignedCodes == {"STORAGE_SIGNED_URL_TTL_INVALID", "STORAGE_INVALID_PART_COUNT"}
ScopedCodes == {"STORAGE_NOT_CONFIGURED", "STORAGE_PROVIDER_ERROR",
                "STORAGE_SCAN_INCONCLUSIVE", "STORAGE_MULTIPART_ABORTED"}
NotReproducible == {"STORAGE_PART_TOO_SMALL", "STORAGE_TIMEOUT"}
Codes == GuardCodes \cup PipelineCodes \cup SignedCodes \cup ScopedCodes
            \cup NotReproducible
            \cup {"STORAGE_OBJECT_NOT_FOUND", "STORAGE_INVALID_CONFIG"}

\* The catalogue's flag.
Reproducible(code) == code \notin NotReproducible

Shown == Codes \cup {"UNKNOWN"}

TypeOK ==
    /\ calls \subseteq [code : Codes, seen : BOOLEAN, phase : {"sent", "done"},
                        raised : Shown \cup {None}, id : 1..MaxClicks]
    /\ results \in [Codes -> Shown \cup {None}]
    /\ stored \subseteq PipelineCodes
    /\ disturbed \subseteq Codes

Init ==
    /\ calls = {}
    /\ results = [code \in Codes |-> None]
    /\ stored = {}
    /\ disturbed = {}

\* The page unmounts; the API goes on with the call.
Leave ==
    /\ calls' = {[c EXCEPT !.seen = FALSE] : c \in calls}
    /\ results' = [code \in Codes |-> None]
    /\ disturbed' = {}
    /\ stored' = stored

-----------------------------------------------------------------------------
(* The triggers.                                                           *)

\* 1 TiB, in MiB.
Oversize == 1048576

\* The uploads of pipelineTriggers: the markers are in the bodies only.
File(code) ==
    CASE code = "STORAGE_MIME_NOT_ALLOWED" ->
            Upload("application/zip", 0, FALSE, "clean", "clean")
      [] code = "STORAGE_SIZE_EXCEEDED" ->
            Upload("image/png", Oversize, FALSE, "clean", "clean")
      [] code = "STORAGE_VALIDATION_FAILED" ->
            Upload("application/pdf", 0, TRUE, "clean", "clean")
      [] code = "STORAGE_SCAN_INFECTED" ->
            Upload("image/png", 0, FALSE, "infected", "clean")

\* rejectUnknownOptions: an instance that scans before the upload, and its file.
RejectUnknown == [mode |-> "pre-upload", rejectOnUnknown |-> TRUE,
                  prefixed |-> FALSE, maxSize |-> Oversize]
UnknownFile == Upload("text/plain", 0, FALSE, "unknown", "clean")

\* What the trigger throws; None when it returns.
Raised(code) ==
    IF code \in PipelineCodes THEN Refusal(config, File(code))
    ELSE IF code = "STORAGE_SCAN_INCONCLUSIVE"
    THEN Refusal(RejectUnknown, UnknownFile)
    ELSE IF code \in NotReproducible THEN None
    ELSE code

\* Triggers that need an answer of the provider on the way to their code.
AsksProvider(code) ==
    \/ code = "STORAGE_OBJECT_NOT_FOUND"
    \/ code \in PipelineCodes /\ Raised(code) = None

-----------------------------------------------------------------------------
(* The page.                                                               *)

\* trigger.isPending disables every button.
MayTrigger(code) == ~\E c \in calls : c.seen

HandleTrigger(code) ==
    /\ mounted
    /\ clicks < MaxClicks
    /\ MayTrigger(code)
    /\ clicks' = clicks + 1
    /\ calls' = calls \cup {[code |-> code, seen |-> TRUE, phase |-> "sent",
                             raised |-> None, id |-> clicks']}
    /\ UNCHANGED <<config, results, stored, disturbed>>

\* The API's side.
RunTrigger(c) ==
    /\ c.phase = "sent"
    /\ calls' = (calls \ {c})
                  \cup {[c EXCEPT !.phase = "done", !.raised = Raised(c.code)]}
    /\ stored' = IF c.code \in PipelineCodes /\ Raised(c.code) = None
                 THEN stored \cup {c.code} ELSE stored
    /\ UNCHANGED <<config, clicks, results, disturbed>>

ProviderFails(c) ==
    /\ c.phase = "sent"
    /\ AsksProvider(c.code)
    /\ calls' = (calls \ {c})
                  \cup {[c EXCEPT !.phase = "done",
                                  !.raised = "STORAGE_PROVIDER_ERROR"]}
    /\ disturbed' = IF c.seen THEN disturbed \cup {c.code} ELSE disturbed
    \* A write that failed may have reached the bucket.
    /\ stored' \in {stored, stored \cup ({c.code} \cap PipelineCodes)}
    /\ UNCHANGED <<config, clicks, results>>

\* useTriggerError never rejects: no error is a result too.
Snapshot(raised) == IF raised = None THEN "UNKNOWN" ELSE raised

Answers(c) ==
    /\ c.phase = "done"
    /\ calls' = calls \ {c}
    /\ results' = IF c.seen
                  THEN [results EXCEPT ![c.code] = Snapshot(c.raised)]
                  ELSE results
    /\ disturbed' = IF c.seen /\ c.raised = Raised(c.code)
                    THEN disturbed \ {c.code} ELSE disturbed
    /\ UNCHANGED <<config, clicks, stored>>

\* A network error is a snapshot with status 0; the API goes on.
AnswerLost(c) ==
    /\ c.seen
    /\ calls' = (calls \ {c}) \cup {[c EXCEPT !.seen = FALSE]}
    /\ results' = [results EXCEPT ![c.code] = "UNKNOWN"]
    /\ disturbed' = disturbed \cup {c.code}
    /\ UNCHANGED <<config, clicks, stored>>

\* Another client deletes a demo object.
OtherDeletes(code) ==
    /\ stored' = stored \ {code}
    /\ UNCHANGED <<config, clicks, calls, results, disturbed>>

Next ==
    \/ \E code \in Codes \cap Tried : HandleTrigger(code)
    \/ \E code \in stored : OtherDeletes(code)
    \/ \E c \in calls :
        RunTrigger(c) \/ ProviderFails(c) \/ Answers(c) \/ AnswerLost(c)

-----------------------------------------------------------------------------
(* Properties.                                                             *)

\* The options keep two codes from arising.  Scanned after the upload, an object
\* has its key for a body, and the marker is in the body; and the size cap takes
\* any positive number, where what is to exceed it declares 1 TiB.
Escaping ==
    {code \in {"STORAGE_SCAN_INFECTED"} : config.mode = "post-upload"}
    \cup {code \in {"STORAGE_SIZE_EXCEEDED"} : config.maxSize >= Oversize}

\* A card shows its own code whenever the provider and the network do not fail,
\* in every order of cards, and after leaving and coming back, unless it is one
\* of the two codes that the catalogue calls not reproducible or one that the
\* options keep from arising; these show no code.  And only the triggers of the
\* latter, accepted where they were to be refused, leave an object behind.
ArisesOnDemand ==
    /\ \A code \in Codes \ disturbed :
           results[code] # None =>
               results[code] = IF Reproducible(code) /\ code \notin Escaping
                               THEN code ELSE "UNKNOWN"
    /\ stored \subseteq Escaping

=============================================================================
