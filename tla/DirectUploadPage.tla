-------------------------- MODULE DirectUploadPage --------------------------
(***************************************************************************)
(* The dashboard's direct-upload page                                      *)
(* (apps/web/app/direct/direct-upload-content.tsx): issue a presigned URL  *)
(* for the dropped file, PUT the file to it, confirm what landed.  Its two *)
(* handlers are async and share the page's state; each piece between two   *)
(* awaits is one action.  A piece uses the values its closure captured     *)
(* when the user clicked, and writes to the state of the moment.           *)
(***************************************************************************)
EXTENDS Naturals, FiniteSets

CONSTANTS
    Files,      \* files the user may drop, each at most once
    NoFile,     \* null
    MaxPuts     \* bound of the model: clicks on the PUT button

VARIABLES
    mounted,    \* this page is the one on screen
    step, issued, selectedFile, confirmResult,  \* the page's useState
    issuing,    \* files whose URL was asked for and not answered
    putting,    \* PUTs on the wire, with the file and the URL captured
    confirming, \* confirm requests on the wire
    dropped,    \* files dropped so far
    puts,       \* clicks on the PUT button so far
    stored,     \* the file whose bytes are under each file's URL
    overlapped  \* History: a file was dropped in this visit while a request was
                \* running.

\* A URL is named by the file it was issued for, and so is its key.
pageVars == <<step, issued, selectedFile, confirmResult>>
wireVars == <<issuing, putting, confirming>>
vars == <<pageVars, wireVars, dropped, puts, stored, overlapped>>

Steps == {"idle", "issued", "uploading", "confirming", "done"}
MaybeFile == Files \cup {NoFile}
Put == [n : 1..MaxPuts, file : Files, url : Files]

TypeOK ==
    /\ step \in Steps
    /\ issued \in MaybeFile
    /\ selectedFile \in MaybeFile
    /\ confirmResult \in MaybeFile
    /\ issuing \subseteq Files
    /\ putting \subseteq Put
    /\ confirming \subseteq Put
    /\ dropped \subseteq Files
    /\ puts \in 0..MaxPuts
    /\ stored \in [Files -> MaybeFile]
    /\ overlapped \in BOOLEAN

Init ==
    /\ step = "idle"
    /\ issued = NoFile
    /\ selectedFile = NoFile
    /\ confirmResult = NoFile
    /\ issuing = {}
    /\ putting = {}
    /\ confirming = {}
    /\ dropped = {}
    /\ puts = 0
    /\ stored = [f \in Files |-> NoFile]
    /\ overlapped = FALSE

\* The page unmounts.  What is still on the wire goes to a URL that no page asks
\* for again, so it is forgotten.
Leave ==
    /\ step' = "idle"
    /\ issued' = NoFile
    /\ selectedFile' = NoFile
    /\ confirmResult' = NoFile
    /\ issuing' = {}
    /\ putting' = {}
    /\ confirming' = {}
    /\ overlapped' = FALSE
    /\ UNCHANGED <<dropped, puts, stored>>

Busy == issuing \cup putting \cup confirming # {}

-----------------------------------------------------------------------------
(* handleFileSelect.                                                       *)

\* UploadDropzone: the pointer is blocked while a URL is being issued; the
\* keyboard and the file input are not, so a drop is possible at any time.
SelectFile(f) ==
    /\ mounted
    /\ f \notin dropped
    /\ dropped' = dropped \cup {f}
    /\ selectedFile' = f
    /\ step' = "idle"
    /\ issuing' = issuing \cup {f}
    /\ overlapped' = (overlapped \/ Busy)
    /\ UNCHANGED <<issued, confirmResult, putting, confirming, puts, stored>>

UrlIssued(f) ==
    /\ f \in issuing
    /\ issuing' = issuing \ {f}
    /\ issued' = f
    /\ step' = "issued"
    /\ UNCHANGED <<selectedFile, confirmResult, putting, confirming, dropped,
                   puts, stored, overlapped>>

\* Mutant: the failure returns the page to the last step that worked.
IssueFailsBack(f) ==
    /\ f \in issuing
    /\ issuing' = issuing \ {f}
    /\ step' = IF issued = NoFile THEN "idle" ELSE "issued"
    /\ UNCHANGED <<issued, selectedFile, confirmResult, putting, confirming,
                   dropped, puts, stored, overlapped>>

IssueFails(f) ==
    /\ f \in issuing
    /\ issuing' = issuing \ {f}
    /\ step' = "idle"
    /\ UNCHANGED <<issued, selectedFile, confirmResult, putting, confirming,
                   dropped, puts, stored, overlapped>>

-----------------------------------------------------------------------------
(* handlePut.                                                              *)

\* The button of step 2: shown in that step only, for the file selected now.
ClickPut ==
    /\ mounted
    /\ step = "issued"
    /\ issued # NoFile
    /\ selectedFile # NoFile
    /\ puts < MaxPuts
    /\ puts' = puts + 1
    /\ step' = "uploading"
    /\ putting' = putting \cup
         {[n |-> puts', file |-> selectedFile, url |-> issued]}
    /\ UNCHANGED <<issued, selectedFile, confirmResult, issuing, confirming,
                   dropped, stored, overlapped>>

\* putWithHeaders() resolves: the bytes are under the URL's key, and the
\* confirm request leaves.
PutSucceeds(p) ==
    /\ p \in putting
    /\ putting' = putting \ {p}
    /\ confirming' = confirming \cup {p}
    /\ stored' = [stored EXCEPT ![p.url] = p.file]
    /\ step' = "confirming"
    /\ UNCHANGED <<issued, selectedFile, confirmResult, issuing, dropped,
                   puts, overlapped>>

\* It rejects: an error status, an expired URL or no connection.
PutFails(p) ==
    /\ p \in putting
    /\ putting' = putting \ {p}
    /\ step' = "issued"
    /\ UNCHANGED <<issued, selectedFile, confirmResult, issuing, confirming,
                   dropped, puts, stored, overlapped>>

\* Mutant: the failure leaves the step alone.
ConfirmFailsSilently(p) ==
    /\ p \in confirming
    /\ confirming' = confirming \ {p}
    /\ UNCHANGED <<pageVars, issuing, putting, dropped, puts, stored,
                   overlapped>>

\* Mutant: the failure has a step of its own, which no card is drawn for.
ConfirmFailsNowhere(p) ==
    /\ p \in confirming
    /\ confirming' = confirming \ {p}
    /\ step' = "failed"
    /\ UNCHANGED <<issued, selectedFile, confirmResult, issuing, putting,
                   dropped, puts, stored, overlapped>>

ConfirmAnswers(p) ==
    /\ p \in confirming
    /\ confirming' = confirming \ {p}
    /\ confirmResult' = p.url
    /\ step' = "done"
    /\ UNCHANGED <<issued, selectedFile, issuing, putting, dropped, puts,
                   stored, overlapped>>

ConfirmFails(p) ==
    /\ p \in confirming
    /\ confirming' = confirming \ {p}
    /\ step' = "issued"
    /\ UNCHANGED <<issued, selectedFile, confirmResult, issuing, putting,
                   dropped, puts, stored, overlapped>>

-----------------------------------------------------------------------------

Answers ==
    \/ \E f \in Files : UrlIssued(f) \/ IssueFails(f)
    \/ \E p \in Put :
        \/ PutSucceeds(p) \/ PutFails(p)
        \/ ConfirmAnswers(p) \/ ConfirmFails(p)

Next ==
    \/ \E f \in Files : SelectFile(f)
    \/ ClickPut
    \/ Answers

-----------------------------------------------------------------------------

\* While the user drops one file at a time and waits for the page in between,
\* a file's bytes go only to the URL issued for that file, failures included: an
\* issue that fails after an earlier success must not offer the old URL.  And
\* what the done step shows is about the file on screen, which is what the
\* confirmed key holds.
SequentialUploadIsOwn ==
    ~overlapped =>
        /\ \A p \in putting \cup confirming : p.file = p.url
        /\ step = "done" => /\ confirmResult = selectedFile
                           /\ stored[selectedFile] = selectedFile

\* The page never waits for nothing: in a running step a request of the page is
\* under way whose end, whatever it is, moves the page on; also when the answers
\* of overlapping requests come in another order.
RunningStepHasARequest ==
    /\ step = "uploading" => putting # {}
    /\ step = "confirming" => confirming # {}
    /\ step = "done" => confirmResult # NoFile

\* The page's promise: the URL issued for a file is the one it is PUT to.
OwnUrl ==
    \A p \in putting : p.file = p.url

=============================================================================
