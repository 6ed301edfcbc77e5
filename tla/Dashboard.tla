----------------------------- MODULE Dashboard -----------------------------
(***************************************************************************)
(* The dashboard's pages together, as one user moves between them          *)
(* (apps/web/app, apps/web/components/layout).  Leaving a page throws its  *)
(* state away, but not what it asked for: the API goes on with the calls,  *)
(* the query cache keeps its data, and an answer may come when the user    *)
(* is elsewhere or back.  The API's options are fixed when it starts.      *)
(***************************************************************************)
EXTENDS Integers, FiniteSets, Sequences

CONSTANTS
    Keys, Blank, Ttls, FirstTtl, MaxTtl, MaxLag, Skews, MaxNow, \* SignedUrls
    Tenants,                                                \* TenantsPage
    Tried,                                                  \* ErrorsDemo
    Files, NoFile, MaxPuts,             \* DirectUploadPage
    LabFiles, IdemKeys, FirstKey,       \* UploadLab
    Environments, Buckets, MaxChanges,  \* SystemViews
    MaxClicks,  \* bound of the model: what the user does, moving aside
    MaxCalls,   \* bound of the model: and on the signed URL page and the pages
                \* whose calls outlive them
    Tours       \* bound of the model: which pages the user sees in one session
                \* and which of their read-only queries are looked at, and the
                \* options of the API meanwhile

Pages == {"signed", "scanner", "validation", "errors", "tenants", "direct",
          "upload", "overview", "system", "vault"}

Pipeline == INSTANCE UploadPipeline

Env == INSTANCE Environment

ASSUME TtlAssumption ==
    /\ Ttls \subseteq Nat
    /\ {FirstTtl, MaxTtl} \subseteq Nat
ASSUME BoundsAssumption ==
    /\ {MaxLag, MaxNow, MaxClicks, MaxCalls, MaxPuts, MaxChanges} \subseteq Nat
    /\ MaxCalls <= MaxClicks
ASSUME SkewAssumption == Skews \subseteq Int
ASSUME BlankAssumption == Blank \notin Keys
ASSUME UploadAssumption ==
    /\ NoFile \notin Files \cup LabFiles
    /\ FirstKey \in IdemKeys
    /\ IsFiniteSet(LabFiles)
\* A string has a length.
ASSUME StringsAssumption ==
    /\ \A e \in Environments : Len(Env!AccessKeyId(e)) \in Nat
    /\ Len(Env!SampleOptions.accessKeyId) \in Nat
ASSUME ToursAssumption ==
    Tours \subseteq [pages : SUBSET Pages, config : Pipeline!Config,
                     queries : SUBSET STRING]

VARIABLES
    route, clicks, config,
    tour,       \* the pages of this session
    followed,   \* the read-only queries looked at in it
    \* the signed URL page
    first, seeded, objectKey, requestedTtl, issue, signedResult, error,
    now, skew, remaining, nextTick, typed, asked,
    \* the scanner lab
    bucket, scans, scanResult, scanEnvelope, probes, latestScan,
    scansOverlapped, unscanned, meddled,
    \* the validation lab
    checks, checkResult, checkEnvelope, latestCheck, checksOverlapped,
    \* the error explorer
    demoCalls, results, demoObjects, disturbed,
    \* the tenants page
    objects, lists, tenantCalls, behind,
    \* the direct upload page
    step, issued, selectedFile, confirmResult, issuing, putting, confirming,
    dropped, puts, directStored, overlapped,
    \* the upload lab
    idempotencyKey, sseMode, singleResult, strategy, idempotencyResults,
    sseResult, card, arg, phase, hit, gone, cache, object, logged, mixed,
    \* the cards about the API, on several pages
    changes, running, environment, status, reading, views, ranWith, hadStatus,
    \* the drawer of the vault page
    content, opened, parts, checkedSize, had, once

signedVars == <<first, seeded, objectKey, requestedTtl, issue, signedResult,
                error, now, skew, remaining, nextTick, typed, asked>>
scannerVars == <<bucket, scans, scanResult, scanEnvelope, probes, latestScan,
                 scansOverlapped, unscanned, meddled>>
validationVars == <<checks, checkResult, checkEnvelope, latestCheck,
                    checksOverlapped>>
errorsVars == <<demoCalls, results, demoObjects, disturbed>>
tenantsVars == <<objects, lists, tenantCalls, behind>>
directVars == <<step, issued, selectedFile, confirmResult, issuing, putting,
                confirming, dropped, puts, directStored, overlapped>>
uploadVars == <<idempotencyKey, sseMode, singleResult, strategy,
                idempotencyResults, sseResult, card, arg, phase, hit, gone,
                cache, object, logged, mixed>>
viewsVars == <<changes, running, environment, status, reading, views, ranWith,
               hadStatus>>
drawerVars == <<content, opened, parts, checkedSize, had, once>>
sessionVars == <<route, tour, followed>>
allVars == <<sessionVars, clicks, config, signedVars, scannerVars,
             validationVars, errorsVars, tenantsVars, directVars, uploadVars,
             viewsVars, drawerVars>>

Signed == INSTANCE SignedUrls WITH
    mounted <- (route = "signed"), MaxClicks <- MaxCalls

Scanner == INSTANCE ScannerLab WITH
    mounted <- (route = "scanner"), MaxClicks <- MaxCalls,
    lastResult <- scanResult, envelope <- scanEnvelope, latest <- latestScan,
    overlapped <- scansOverlapped

Validation == INSTANCE ValidationLab WITH
    mounted <- (route = "validation"), MaxClicks <- MaxCalls, calls <- checks,
    lastResult <- checkResult, envelope <- checkEnvelope,
    latest <- latestCheck, overlapped <- checksOverlapped

Errors == INSTANCE ErrorsDemo WITH
    mounted <- (route = "errors" /\ views["catalogue"].loaded),
    MaxClicks <- MaxCalls,
    calls <- demoCalls, stored <- demoObjects

TenantsPanels == INSTANCE TenantsPage WITH
    mounted <- (route = "tenants"), MaxClicks <- MaxCalls,
    calls <- tenantCalls

Direct == INSTANCE DirectUploadPage WITH
    mounted <- (route = "direct"), stored <- directStored

Uploads == INSTANCE UploadLab WITH
    mounted <- (route = "upload"), lastResult <- singleResult,
    Files <- LabFiles

Views == INSTANCE SystemViews

Drawer == INSTANCE KeyDrawer WITH
    mounted <- (route = "vault"), MaxClicks <- MaxCalls

\* "elsewhere" is any other page.
Routes == Pages \cup {"elsewhere"}

\* The variables of pages that the session does not see stay as they are.
DashboardTypeOK ==
    /\ route \in Routes
    /\ [pages |-> tour, config |-> config, queries |-> followed] \in Tours
    /\ clicks \in 0..MaxClicks
    /\ "signed" \in tour => Signed!TypeOK
    /\ "scanner" \in tour => Scanner!TypeOK
    /\ "validation" \in tour => Validation!TypeOK
    /\ "errors" \in tour => Errors!TypeOK
    /\ "tenants" \in tour => TenantsPanels!TypeOK
    /\ "direct" \in tour => Direct!TypeOK
    /\ "upload" \in tour => Uploads!TypeOK
    /\ followed # {} => Views!TypeOK
    /\ "vault" \in tour => Drawer!TypeOK

DashboardInit ==
    /\ route = "elsewhere"
    /\ clicks = 0
    /\ \E t \in Tours :
        tour = t.pages /\ config = t.config /\ followed = t.queries
    /\ Signed!Init
    /\ Scanner!Init
    /\ Validation!Init
    /\ Errors!Init
    /\ TenantsPanels!Init
    /\ Direct!Init
    /\ Uploads!Init
    /\ Views!Init
    /\ Drawer!Init
    \* Bound of the model: what no page of the session shows stands still.
    /\ "tenants" \notin tour => \A t \in Tenants : objects[t] = {}
    /\ "vault" \notin tour => \A k, l \in Keys : content[k] = content[l]
    /\ followed = {} => environment = CHOOSE e \in Environments : Views!Boots(e)

-----------------------------------------------------------------------------

\* A link of the navigation: one page unmounts, another mounts.
Navigate(to, isOld) ==
    /\ route # to
    /\ route' = to
    /\ to \in tour \cup {"elsewhere"}
    /\ CASE route = "signed" -> Signed!Leave
         [] to = "signed" -> Signed!Enter(isOld)
         [] OTHER -> UNCHANGED signedVars
    /\ CASE route = "tenants" -> TenantsPanels!Leave
         [] to = "tenants" -> TenantsPanels!Enter(isOld)
         [] OTHER -> UNCHANGED tenantsVars
    /\ IF route = "scanner" THEN Scanner!Leave ELSE UNCHANGED scannerVars
    /\ IF route = "validation"
       THEN Validation!Leave ELSE UNCHANGED validationVars
    /\ IF route = "errors" THEN Errors!Leave ELSE UNCHANGED errorsVars
    /\ IF route = "direct" THEN Direct!Leave ELSE UNCHANGED directVars
    /\ IF route = "upload" THEN Uploads!Leave ELSE UNCHANGED uploadVars
    /\ IF route = "vault" THEN Drawer!Leave ELSE UNCHANGED drawerVars
    /\ \E old \in SUBSET (Views!QueriesOf(to) \cap followed) :
           Views!Enter(to, old)
    /\ UNCHANGED <<tour, followed, clicks, config>>

\* A step of one page, of the calls it made or of its query leaves the others
\* alone.  In a session that looks at cards the two labs send nothing.
SignedStep ==
    /\ "signed" \in tour
    /\ Signed!Next
    /\ UNCHANGED <<sessionVars, config, scannerVars, validationVars,
                   errorsVars, tenantsVars, directVars, uploadVars, viewsVars,
                   drawerVars>>

ScannerStep ==
    /\ followed = {}
    /\ "scanner" \in tour
    /\ Scanner!Next
    /\ UNCHANGED <<sessionVars, signedVars, validationVars, errorsVars,
                   tenantsVars, directVars, uploadVars, viewsVars, drawerVars>>

ValidationStep ==
    /\ followed = {}
    /\ "validation" \in tour
    /\ Validation!Next
    /\ UNCHANGED <<sessionVars, signedVars, scannerVars, errorsVars,
                   tenantsVars, directVars, uploadVars, viewsVars, drawerVars>>

ErrorsStep ==
    /\ "errors" \in tour
    /\ Errors!Next
    /\ UNCHANGED <<sessionVars, signedVars, scannerVars, validationVars,
                   tenantsVars, directVars, uploadVars, viewsVars, drawerVars>>

TenantsStep ==
    /\ "tenants" \in tour
    /\ TenantsPanels!Next
    /\ UNCHANGED <<sessionVars, config, signedVars, scannerVars,
                   validationVars, errorsVars, directVars, uploadVars,
                   viewsVars, drawerVars>>

DirectStep ==
    /\ "direct" \in tour
    /\ Direct!Next
    /\ UNCHANGED <<sessionVars, clicks, config, signedVars, scannerVars,
                   validationVars, errorsVars, tenantsVars, uploadVars,
                   viewsVars, drawerVars>>

UploadStep ==
    /\ "upload" \in tour
    /\ Uploads!Next
    /\ UNCHANGED <<sessionVars, config, signedVars, scannerVars,
                   validationVars, errorsVars, tenantsVars, directVars,
                   viewsVars, drawerVars>>

ViewsStep ==
    /\ Views!Next
    /\ UNCHANGED <<sessionVars, clicks, config, signedVars, scannerVars,
                   validationVars, errorsVars, tenantsVars, directVars,
                   uploadVars, drawerVars>>

DrawerStep ==
    /\ "vault" \in tour
    /\ Drawer!Next
    /\ UNCHANGED <<route, tour, config, signedVars, scannerVars,
                   validationVars, errorsVars, tenantsVars, directVars,
                   uploadVars, viewsVars>>

DashboardNext ==
    \/ \E to \in Routes, isOld \in BOOLEAN : Navigate(to, isOld)
    \/ SignedStep
    \/ ScannerStep
    \/ ValidationStep
    \/ ErrorsStep
    \/ TenantsStep
    \/ DirectStep
    \/ UploadStep
    \/ ViewsStep
    \/ DrawerStep

DashboardSpec == DashboardInit /\ [][DashboardNext]_allVars

-----------------------------------------------------------------------------
(* Properties: each page's, wherever the user is and has been.             *)

\* The field and the card of the signed URL page.
SignedUrlIsTold == Signed!TypedKeyStands /\ Signed!CardTellsTheUrl

\* Infected content, in the store.
NoInfectedAtRest == Scanner!NoInfectedAtRest

\* The three pages that show a result beside an error envelope never mix those
\* of different requests.
OutcomeOfLastTrigger ==
    /\ Signed!OneOutcome
    /\ Scanner!OutcomeOfLastTrigger
    /\ Validation!OutcomeOfLastTrigger

\* The buttons of the validation lab and the cards of the error explorer get
\* what they are labelled with, but for those that the options keep from it.
OutcomeAsLabelled ==
    /\ Validation!OutcomeAsLabelled
    /\ Errors!ArisesOnDemand

\* What is shown of the server, and cached: the tables of the tenants, the cards
\* about the API, the drawer of an object.
ShownStateIsTrue ==
    /\ TenantsPanels!QuietTableIsTrue
    /\ Views!CardsWereTrue
    /\ Views!NothingSecretLeaves
    /\ Drawer!DrawerTellsItsObject

\* The direct upload page: a user who waits has his file under its own URL, and
\* no user waits for nothing.
SequentialUploadIsOwn == Direct!SequentialUploadIsOwn
RunningStepHasARequest == Direct!RunningStepHasARequest

\* The log of the upload lab is complete, and the object is what its rows say.
LogIsTrue == Uploads!LogKeepsEveryCall /\ Uploads!StoredOnce

\* What the direct upload page promises; it breaks when requests overlap.
OwnUrl == Direct!OwnUrl

=============================================================================
