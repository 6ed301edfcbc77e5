---------------------------- MODULE ValidationLab ----------------------------
(***************************************************************************)
(* The validation lab: four buttons, each of which uploads a file made to  *)
(* pass or to fail one stage of the pipeline                               *)
(* (apps/web/app/validation/validation-content.tsx, calling                *)
(* apps/api/src/validation-lab).  Each button is labelled with the outcome *)
(* it expects.  None is ever disabled: calls overlap.                      *)
(***************************************************************************)
EXTENDS Naturals, FiniteSets, UploadPipeline

CONSTANT MaxClicks  \* bound of the model: what the user does

VARIABLES
    mounted,    \* this page is the one on screen
    clicks,     \* number of things the user has done
    config,     \* the module options, fixed at start
    calls,      \* POST /validation/upload calls of this visit under way
    lastResult, \* the button whose file was accepted; None for null
    envelope,   \* the button and code of the envelope; NoEnvelope for null
    \* History: nothing in the code reads these two.
    latest,     \* the button pressed last in this visit
    overlapped  \* one was pressed while another's call was under way

vars == <<calls, lastResult, envelope, latest, overlapped>>

Buttons == {"mime", "size", "magic", "clean"}

\* The files: a ZIP, thirty MiB of zeros as a PNG, a text as a PDF, a PNG.
File(button) ==
    CASE button = "mime" -> Upload("application/zip", 0, FALSE, "clean", "clean")
      [] button = "size" -> Upload("image/png", 30, FALSE, "clean", "clean")
      [] button = "magic" -> Upload("application/pdf", 0, TRUE, "clean", "clean")
      [] button = "clean" -> Upload("image/png", 0, FALSE, "clean", "clean")

\* What the label says.
Expected(button) ==
    CASE button = "mime" -> "STORAGE_MIME_NOT_ALLOWED"
      [] button = "size" -> "STORAGE_SIZE_EXCEEDED"
      [] button = "magic" -> "STORAGE_VALIDATION_FAILED"
      [] button = "clean" -> None

Codes == {Expected(b) : b \in Buttons}
            \cup {"STORAGE_PROVIDER_ERROR", "UNKNOWN"}
NoEnvelope == [button |-> None, code |-> None]

\* multer's own cap is four times the library's; its error is no envelope.
MulterSafetyMargin == 4

TypeOK ==
    /\ calls \subseteq [id : 1..MaxClicks, button : Buttons]
    /\ {lastResult, latest} \subseteq Buttons \cup {None}
    /\ envelope \in [button : Buttons, code : Codes] \cup {NoEnvelope}
    /\ overlapped \in BOOLEAN

Init ==
    /\ calls = {}
    /\ lastResult = None
    /\ envelope = NoEnvelope
    /\ latest = None
    /\ overlapped = FALSE

\* The page unmounts.  What the API still stores has a key of its own that no
\* page asks for, so the calls are forgotten.
Leave ==
    /\ calls' = {}
    /\ lastResult' = None
    /\ envelope' = NoEnvelope
    /\ latest' = None
    /\ overlapped' = FALSE

\* triggerMimeRejection and its three sisters.
Trigger(button) ==
    /\ mounted
    /\ clicks < MaxClicks
    /\ clicks' = clicks + 1
    /\ calls' = calls \cup {[id |-> clicks', button |-> button]}
    /\ envelope' = NoEnvelope
    /\ lastResult' = None
    /\ latest' = button
    /\ overlapped' = (overlapped \/ calls # {})
    /\ config' = config

\* Mutant: multer's cap is the library's.
UploadAnswerAtCap(button) ==
    IF File(button).size > config.maxSize THEN "UNKNOWN"
    ELSE Refusal(config, File(button))

\* POST /validation/upload: multer, then the library's pipeline.
UploadAnswer(button) ==
    IF File(button).size > config.maxSize * MulterSafetyMargin THEN "UNKNOWN"
    ELSE Refusal(config, File(button))

\* The answer of a call sets its half of what is shown and leaves the other.
Shows(c, code) ==
    /\ calls' = calls \ {c}
    /\ IF code = None
       THEN lastResult' = c.button /\ UNCHANGED envelope
       ELSE /\ envelope' = [button |-> c.button, code |-> code]
            /\ UNCHANGED lastResult
    /\ UNCHANGED <<config, clicks, latest, overlapped>>

Answers(c) == Shows(c, UploadAnswer(c.button))

\* The provider fails on a file that passed.
ProviderFails(c) ==
    /\ UploadAnswer(c.button) = None
    /\ Shows(c, "STORAGE_PROVIDER_ERROR")

\* No answer comes: what is no StorageApiError is dropped without a word.
AnswerLost(c) ==
    /\ calls' = calls \ {c}
    /\ UNCHANGED <<config, clicks, lastResult, envelope, latest, overlapped>>

Next ==
    \/ \E button \in Buttons : Trigger(button)
    \/ \E c \in calls : Answers(c) \/ ProviderFails(c) \/ AnswerLost(c)

-----------------------------------------------------------------------------
(* Properties.                                                             *)

\* As long as no two calls of a visit overlap, what is shown is of the button
\* pressed last, and never an acceptance beside a refusal.
OutcomeOfLastTrigger ==
    ~overlapped =>
        /\ lastResult \in {None, latest}
        /\ envelope.button \in {None, latest}
        /\ lastResult = None \/ envelope = NoEnvelope

\* Each button gets the outcome its label promises, if the provider answers: the
\* stage that refuses is the one named, for every mode of the scanner and every
\* size cap.  Only thirty MiB may be no more than the cap, and are accepted, or
\* more than multer takes, and are refused without an envelope of the library.
OutcomeAsLabelled ==
    /\ lastResult # None =>
           \/ Expected(lastResult) = None
           \/ lastResult = "size" /\ 30 <= config.maxSize
    /\ envelope.code \notin {None, "STORAGE_PROVIDER_ERROR"} =>
           \/ envelope.code = Expected(envelope.button)
           \/ /\ envelope = [button |-> "size", code |-> "UNKNOWN"]
              /\ config.maxSize * MulterSafetyMargin < 30

=============================================================================
