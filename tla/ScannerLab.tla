----------------------------- MODULE ScannerLab -----------------------------
(***************************************************************************)
(* The scanner lab: its page (apps/web/app/scanner/scanner-content.tsx),   *)
(* the routes it calls (apps/api/src/scanner-lab) and the objects they     *)
(* store.  The page's three buttons send content with a marker, under a    *)
(* seed that repeats, so each marker has one key.  No button is ever       *)
(* disabled: calls overlap, and their answers come in any order.           *)
(***************************************************************************)
EXTENDS Naturals, FiniteSets, QueryCache, UploadPipeline

CONSTANT MaxClicks  \* bound of the model: what the user does

VARIABLES
    mounted,    \* this page is the one on screen
    clicks,     \* number of things the user has done
    config,     \* the module options, fixed at start
    bucket,     \* the lab's objects, each named by the marker in its body
    scans,      \* POST /scanner/upload calls under way
    lastResult, \* the marker of the accepted content; None for null
    envelope,   \* the code of the envelope; None for null
    probes,     \* the existence query of each key
    \* History: nothing in the code reads these four.
    latest,     \* the content sent last in this visit
    overlapped, \* a call was sent in this visit while another was under way
    unscanned,  \* a fault cut short the scan of infected content in the bucket
    meddled     \* another client deleted an object, or a probe met a fault

pageVars == <<lastResult, envelope, latest, overlapped>>
vars == <<bucket, scans, pageVars, probes, unscanned, meddled>>

Codes == {"STORAGE_SCAN_INFECTED", "STORAGE_SCAN_INCONCLUSIVE",
          "STORAGE_PROVIDER_ERROR"}
MaybeMarker == Markers \cup {None}
Probe == {"true", "false", None}

\* seen: the page that sent it is still the one on screen.
Call == [id : 1..MaxClicks, marker : Markers, seen : BOOLEAN,
         phase : {"sent", "stored", "accepted", "refused"},
         code : Codes \cup {None}]

TypeOK ==
    /\ config \in Config
    /\ bucket \subseteq Markers
    /\ scans \subseteq Call
    /\ {lastResult, latest} \subseteq MaybeMarker
    /\ envelope \in Codes \cup {None}
    /\ probes \in [Markers -> Query(Probe)]
    /\ overlapped \in BOOLEAN
    /\ {unscanned, meddled} \subseteq BOOLEAN

Init ==
    /\ lastResult = None
    /\ envelope = None
    /\ latest = None
    /\ overlapped = FALSE
    /\ bucket = {}
    /\ scans = {}
    /\ probes = [m \in Markers |-> NoQuery(None)]
    /\ unscanned = FALSE
    /\ meddled = FALSE

\* The page unmounts; the API goes on with the calls.
Leave ==
    /\ lastResult' = None
    /\ envelope' = None
    /\ latest' = None
    /\ overlapped' = FALSE
    /\ scans' = {[c EXCEPT !.seen = FALSE] : c \in scans}
    /\ UNCHANGED <<bucket, probes, unscanned, meddled>>

UploadOf(m) == Upload("text/plain", 0, FALSE, m, m)

-----------------------------------------------------------------------------
(* The page.                                                               *)

\* Mutant: the envelope of the scan before is not taken away.
TriggerScanBeside(m) ==
    /\ mounted
    /\ clicks < MaxClicks
    /\ clicks' = clicks + 1
    /\ scans' = scans \cup {[id |-> clicks', marker |-> m, seen |-> TRUE,
                             phase |-> "sent", code |-> None]}
    /\ lastResult' = None
    /\ latest' = m
    /\ overlapped' = (overlapped \/ \E c \in scans : c.seen)
    /\ UNCHANGED <<config, bucket, envelope, probes, unscanned, meddled>>

TriggerScan(m) ==
    /\ mounted
    /\ clicks < MaxClicks
    /\ clicks' = clicks + 1
    /\ scans' = scans \cup {[id |-> clicks', marker |-> m, seen |-> TRUE,
                             phase |-> "sent", code |-> None]}
    /\ envelope' = None
    /\ lastResult' = None
    /\ latest' = m
    /\ overlapped' = (overlapped \/ \E c \in scans : c.seen)
    /\ UNCHANGED <<config, bucket, probes, unscanned, meddled>>

\* The verdict card, and the existence probe in it, are there only beside no
\* envelope.
Card(result, refusal) == IF refusal = None THEN result ELSE None

\* The probe of a new card's key, or of another key, mounts with it.
ProbesOn(m, isOld) ==
    IF m \in {None, Card(lastResult, envelope)} THEN probes
    ELSE [probes EXCEPT ![m] = Mounting(@, isOld)]

ScanAccepted(c, isOld) ==
    /\ c.phase = "accepted"
    /\ scans' = scans \ {c}
    /\ IF c.seen
       THEN /\ lastResult' = c.marker
            /\ probes' = ProbesOn(Card(c.marker, envelope), isOld)
       ELSE UNCHANGED <<lastResult, probes>>
    /\ UNCHANGED <<config, clicks, bucket, envelope, latest, overlapped,
                   unscanned, meddled>>

\* An error answer becomes the envelope; what was shown stays under it.
ScanRefused(c) ==
    /\ c.phase = "refused"
    /\ scans' = scans \ {c}
    /\ envelope' = IF c.seen THEN c.code ELSE envelope
    /\ UNCHANGED <<config, clicks, bucket, lastResult, latest, overlapped,
                   probes, unscanned, meddled>>

\* No answer comes: a toast, and the API goes on.
ScanAnswerLost(c) ==
    /\ c.seen
    /\ scans' = (scans \ {c}) \cup {[c EXCEPT !.seen = FALSE]}
    /\ UNCHANGED <<config, clicks, bucket, pageVars, probes, unscanned, meddled>>

-----------------------------------------------------------------------------
(* The API.                                                                *)

Moves(c, phase, code) ==
    scans' = (scans \ {c}) \cup {[c EXCEPT !.phase = phase, !.code = code]}

\* The pipeline runs up to the object's landing.
UploadLands(c) ==
    /\ c.phase = "sent"
    /\ LET u == UploadOf(c.marker) refusal == Refusal(config, u) IN
       IF StoredBeforeScan(config, u)
       THEN bucket' = bucket \cup {c.marker} /\ Moves(c, "stored", None)
       ELSE IF refusal # None
       THEN bucket' = bucket /\ Moves(c, "refused", refusal)
       ELSE bucket' = bucket \cup {c.marker} /\ Moves(c, "accepted", None)
    /\ UNCHANGED <<config, clicks, pageVars, probes, unscanned, meddled>>

\* Mutant: a refused object is left where it is.
ScanStoredKeeps(c) ==
    /\ c.phase = "stored"
    /\ LET refusal == ScanRefusal(config, UploadOf(c.marker)) IN
       Moves(c, IF refusal = None THEN "accepted" ELSE "refused", refusal)
    /\ UNCHANGED <<config, clicks, bucket, pageVars, probes, unscanned, meddled>>

\* The scan of what was stored, and the clean-up after a refusal.
ScanStored(c) ==
    /\ c.phase = "stored"
    /\ LET refusal == ScanRefusal(config, UploadOf(c.marker)) IN
       IF refusal = None
       THEN Moves(c, "accepted", None) /\ UNCHANGED <<bucket, unscanned>>
       ELSE /\ Moves(c, "refused", refusal)
            /\ IF CleanUpReaches(config)
               THEN /\ bucket' = bucket \ {c.marker}
                    /\ unscanned' = (unscanned /\ c.marker # "infected")
               ELSE UNCHANGED <<bucket, unscanned>>
    /\ UNCHANGED <<config, clicks, pageVars, probes, meddled>>

\* The provider fails, or the process stops, on the way.
ScanFails(c) ==
    /\ c.phase \in {"sent", "stored"}
    /\ Moves(c, "refused", "STORAGE_PROVIDER_ERROR")
    /\ unscanned' = (unscanned \/ (c.phase = "stored" /\ c.marker = "infected"))
    /\ UNCHANGED <<config, clicks, bucket, pageVars, probes, meddled>>

\* Another client deletes an object of the lab.
OtherDeletes(m) ==
    /\ m \in bucket
    /\ bucket' = bucket \ {m}
    /\ unscanned' = (unscanned /\ m # "infected")
    /\ meddled' = TRUE
    /\ UNCHANGED <<config, clicks, scans, pageVars, probes>>

\* GET /scanner/exists.  storage.exists() answers false when the provider fails.
Exists(m, providerFails) ==
    /\ probes[m].fetch = "asked"
    /\ probes' = [probes EXCEPT ![m] =
                    Served(@, IF m \in bucket /\ ~providerFails
                              THEN "true" ELSE "false")]
    /\ meddled' = (meddled \/ providerFails)
    /\ UNCHANGED <<config, clicks, bucket, scans, pageVars, unscanned>>

ProbeAnswers(m) ==
    /\ probes[m].fetch = "served"
    /\ probes' = [probes EXCEPT ![m] = Answered(@)]
    /\ UNCHANGED <<config, clicks, bucket, scans, pageVars, unscanned, meddled>>

ProbeFails(m) ==
    /\ probes[m].fetch # "idle"
    /\ probes' = [probes EXCEPT ![m] = Failed(@)]
    /\ UNCHANGED <<config, clicks, bucket, scans, pageVars, unscanned, meddled>>

Next ==
    \/ \E m \in Markers :
        \/ TriggerScan(m) \/ OtherDeletes(m) \/ ProbeAnswers(m) \/ ProbeFails(m)
        \/ \E providerFails \in BOOLEAN : Exists(m, providerFails)
    \/ \E c \in scans :
        \/ \E isOld \in BOOLEAN : ScanAccepted(c, isOld)
        \/ ScanRefused(c) \/ ScanAnswerLost(c)
        \/ UploadLands(c) \/ ScanStored(c) \/ ScanFails(c)

-----------------------------------------------------------------------------
(* Properties.                                                             *)

\* Infected content is in the bucket only while a call that scans it is under
\* way: before its verdict nothing is stored, or after it nothing is left.  This
\* needs the mode pre-upload or an empty key prefix; and a fault between the
\* upload and its scan leaves the object unscanned.
NoInfectedAtRest ==
    config.mode = "pre-upload" \/ ~config.prefixed =>
        \/ "infected" \notin bucket
        \/ unscanned
        \/ \E c \in scans : c.marker = "infected" /\ c.phase = "stored"

\* As long as no two calls of a visit overlap, the page shows the outcome of
\* the last one and nothing beside it: the verdict of the content sent last, or
\* the envelope its scan gave.  And unless another client deletes or a probe
\* fails, the proof in a verdict card never says "(removed by post-upload
\* scanner)", for there is a card only for what was accepted.
OutcomeOfLastTrigger ==
    /\ ~overlapped =>
        /\ lastResult \in {None, latest}
        /\ envelope \in {None, "STORAGE_PROVIDER_ERROR"}
               \cup {Refusal(config, UploadOf(m)) : m \in {latest} \cap Markers}
        /\ lastResult = None \/ envelope = None
    /\ LET shown == Card(lastResult, envelope) IN
       shown # None /\ ~meddled => probes[shown].data # "false"

=============================================================================
