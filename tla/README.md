# nest-storage-example in TLA+

Specifications of the application in `src/`: a NestJS API (`apps/api`) that
exercises the storage library `@bymax-one/nest-storage` against an
S3-compatible bucket, and a Next.js dashboard (`apps/web`) that drives it.
The library and the bucket are not in the repository; they are modelled from
how the code calls them and marked external in `PROJECT.json`.

Check an instance with `tlc -config MCX.cfg MCX` from this directory (the module
of a `.cfg` is the one whose name it begins with), prove a module with
`tlapm XProofs.tla`.

## 1. Inventory

| Part | Code | State it keeps | Operations | What is hard |
|---|---|---|---|---|
| Upload session store | `api/src/uploads/upload-session.store.ts` | a Map of session id to snapshots; insertion order is recency | create, append, get, evict | cap, touch on every hit, an append for a session already evicted |
| Upload handlers | `api/src/uploads/uploads.{controller,service}.ts` | none of their own; the request in flight, its session | single, multipart, stream, idempotent, poll | progress callbacks of many uploads interleave with polls; the upload may reject after some parts |
| Signed URLs, confirm | `api/src/signed/*` | none; the bucket is the state | download, upload and multipart URLs, abort, confirm | confirm is three provider calls with a valid PUT URL outstanding |
| Direct upload page | `web/app/direct/*` | step, issued URL, selected file, confirm result | drop, PUT, confirm | two async handlers over shared state, any of which may fail |
| Vault | `api/src/vault/*` | none; the bucket | list, head, preview, range, delete, bulk delete, copy, rename | check-then-act against other writers; a crash between copy and delete |
| Vault page | `web/app/vault/*`, `web/components/vault/*`, `web/hooks/use-vault.ts` | query cache, selection, drawer | browse, delete, bulk delete, copy, sign | answers of one view applied while another is shown |
| Tenants | `api/src/tenants/*` | none; the bucket | upload, list, clear | isolation is a string prefix; clear pages through a set that changes |
| Scoped storage factory | `api/src/common/scoped-storage.factory.ts` | label to promise of a Nest context | get or build, close all | single flight; failed and slow builds; shutdown while building |
| Scanner lab | `api/src/scanner-lab/*` | none | upload through the scan pipeline | the pipeline is the library's |
| Scanner page | `web/app/scanner/*` | last result, error envelope | three triggers, an exists probe | no button is ever disabled: calls overlap |
| Validation lab and page | `api/src/validation-lab/*`, `web/app/validation/*` | as the scanner page | four triggers | labels promise an outcome that depends on the API's options |
| Errors demo and explorer | `api/src/errors-demo/*`, `web/app/errors/*` | results per code | a trigger per code | triggers store and delete shared objects |
| Signed URL page | `web/app/signed/*`, `web/components/transfer/*` | key field, TTL, URL, countdown | issue, edit | two clocks that differ, and their granularities; a seeded field, late answers |
| Upload lab page | `web/app/upload/*` | key, mode, log of results | drop on three cards | closures of an old render, the library's idempotency cache |
| Tenants page | `web/app/tenants/*` | a query per panel | upload, clear, list | invalidations and refetches overlap |
| System endpoints, cards | `api/src/system/*`, `web/app/system/*`, `web/app/overview-content.tsx` | query cache | health, config, versioning, recipes | cached across a restart of the API; health rests on a call that swallows errors |
| Configuration | `api/src/config/*` | none after start | validate, configure, render | what must not be shown, what production refuses |
| Query cache | `web/app/providers.tsx`, `web/hooks/*` | a query per key | mount, fetch, invalidate | data older than what it follows |
| Filter, pipe, formatting, UI kit, containers, scripts | `api/src/common/*`, `web/components/ui/*`, `docker`, `scripts` | none | | |

The API processes share nothing but the bucket; inside one process everything
runs on one event loop, so code between two `await`s is one step and the
interleavings are those of the awaits. Pages talk to the API by HTTP and to the
bucket by presigned URLs; the API talks to the bucket by provider calls. Every
call may fail. The hazards that follow from this are in `PROJECT.json` under
`hazards`, each at its line, with the properties that would catch it.

## 2. Modules

| Module | Models | Checked by |
|---|---|---|
| `RecencyCache` | what a bounded cache with touch promises: an abstract specification | refined by the next |
| `UploadSessionStore` | the store, method by method | the next |
| `Uploads`, `...Proofs` | multipart and streamed uploads and polls over the store, which it extends; theorems about both | `MCUploads.cfg`, `tlapm` |
| `DirectUpload` | bucket, presigned PUT, confirm, scanner, copies and deletes of the vault | the next |
| `MultipartUpload` | presigned multipart uploads beside it: issuance, parts, completion, abort | `MCDirectUpload.cfg`, `MCDirectUploadTwoReads.cfg` |
| `DirectUploadProofs` | theorems about both | `tlapm` |
| `Vault`, `VaultProofs` | preview, delete, copy, rename against other writers | `MCVault.cfg`, `tlapm` |
| `VaultPage`, `...Proofs` | the vault page and the listing and bulk delete it calls | `MCVaultPage.cfg`, `tlapm` |
| `Tenants`, `TenantsProofs` | uploads and clears of tenants, beside other routes and the vault | `MCTenants.cfg`, `MCTenantsCategory.cfg`, `tlapm` |
| `SharedInstances` | what the factory of instances promises: an abstract specification | refined by the next |
| `ScopedStorage`, `...Proofs` | the factory, its users, shutdown | `MCScopedStorage.cfg`, `tlapm` |
| `Health`, `...Proofs` | probe, top bar, overview | `MCHealth.cfg`, `MCHealthFault.cfg`, `tlapm` |
| `QueryCache` | one query of TanStack Query, as a record and operators on it | its users |
| `UploadPipeline` | the library's pipeline: whitelist, size, validators, scanner before or after | its users |
| `Environment` | validation and use of the process environment | `SystemViews` |
| `SignedUrls`, `ScannerLab`, `ValidationLab`, `ErrorsDemo`, `TenantsPage`, `DirectUploadPage`, `UploadLab`, `SystemViews`, `KeyDrawer` | one page each (the last: the vault page's drawer), with the routes it calls | `Dashboard` |
| `Dashboard`, `...Proofs` | the pages as one user moves between them | `MCDashboard.cfg`, `MCDashboardOverlap.cfg`, `tlapm` |

Each module's comment says how a step of the code became an action; `map` in
`PROJECT.json` gives the lines of every definition. Operators marked as mutants
are plausible wrong versions of the definition that follows them; no
specification uses them.

**UploadSessionStore.** `order` is the Map's key order and `snapshots` its
values. Each method is synchronous and so one action. `created`, `recorded`
and `newer` are history. The refinement maps `order` and `snapshots` to the
`RecencyCache` of the same capacity.

**Uploads.** A request is a small program: it creates its session, gets
progress callbacks from the library, has its object stored or rejected, and
continues with the final snapshot and the response. The client learns the session
id only from that response, so it cannot poll an upload that is running. Polls
are actions of their own. It extends the store: a handler's action is a method
of the store and the handler's own change.

**DirectUpload, MultipartUpload.** Objects have an identity, a body kind and a
MIME type; a PUT starts when the URL is valid and lands later; `confirm` runs
through head, scan (download, verdict), and possibly removal, each one step, with
any other step between. `head`'s answer is remembered as the code remembers it.
The vault's routes take any key of the bucket: `VaultCopy` puts an object of
`Copied`, whatever it is, under an issued key, and `VaultDelete` takes one away.
A multipart upload adds its parts, which travel, land or drop, a completion,
which lands as a PUT does, and aborts, each a call with its provider command.
An abort brings a key, as a path: the sequence of segments between its slashes;
`ComposeKey` is what the service makes of it and `SignedKey` what the library
made of the key it issued.

**Vault.** Places are a bucket and a key; a request is a sequence of provider
calls. `Crash` may stop the process between any two.

**VaultPage.** The page's state with a query per view, and mutations whose
promise waits for the refetch their `onSuccess` returns. A row's bin is never
disabled, so a key may have several deletes under way (`Deletes` names them). A
fetch takes three steps (asked, served, answered), so a delete may come before
or after the listing it races with.

**Tenants.** Keys are sequences of characters, so that one tenant's slug may
begin with another's, and the listing order is the code-unit order S3 uses.
A page is what `list` returned, of any length up to the limit; `deleteMany` may
fail for any subset of it. The vault knows no tenants: its calls copy onto and
delete the keys in `VaultKeys`.

**ScopedStorage.** A label's promise is the number of the build it stands for;
builds settle on their own; requests wait for them, use them or go away.
Shutdown follows Nest's order: stop listening, drain, hook. When the hook returns
or throws, the signal handler of `enableShutdownHooks` ends the process: no step
of a request or a build follows. The refinement maps
a label to the state of the build that its requests share, and a request whose
client went away to one who has gone; a build that such a request starts behind
the hook is no label's instance.

**Health.** One query, `['health']`, with two observers: each polls, each retries
as often as it says, and the labels are computed from the query alone. The
network, the API and the provider behind it change at any time.

**The pages.** A page module has the page's `useState` values and hooks, a set
or function of the calls it has sent with what their closures captured, and the
server state those calls read and write. A call is two or three steps: sent,
served by the API, answered, and may be lost on both ways. A failed write may
have reached the bucket. `mounted` is a parameter of the page; `Enter` and
`Leave` are what mounting and unmounting do to its state. `Dashboard`
instantiates every page with its own variables and with `mounted <- (route =
...)`; `Navigate` unmounts one page and mounts another in one step, and a page's
calls go on wherever the user is. The cards of `SystemViews` are queries of
several pages, over an API that restarts with another environment.

## 3. What the runs show

All properties are stated with a comment in their module. In short:

| Run | Question | States |
|---|---|---|
| `uploads` | does the store evict only what is stale and answer polls completely while uploads and polls share it; is a final snapshot one of a stored object; does progress never go back; does the store refine the abstract cache, and so keep its cap | 200 k |
| `direct` | is a confirm that nobody disturbed true; can no PUT, confirm or delete make it untrue once the URL has expired; does nothing but a threat disappear; does an acknowledged abort leave nothing | 2.29 M |
| `vault` | was every answer true at some moment of its request; does an undisturbed copy or rename keep the content through failures and crashes | 1.06 M |
| `tenants` | does a clear touch its tenant only, delete or report all that was there, count each once, and end | 470 k |
| `scoped` | one context per label, none used after close, none left open unless a build failed; is every request answered, and does shutdown end; does the factory refine the abstract one, with a single instance per label | 147 k |
| `vault_page` | does the table no longer show what the page reports deleted; does a drawer never show another drawer's URL | 652 k |
| `dashboard` | is what nine pages and the vault's drawer show true of what they asked, whatever overlaps and wherever the user goes | 481 k |
| `health` | do the two labels agree; does the chip follow the API in the end | 528 |

`dashboard` groups the pages' properties: `SignedUrlIsTold` (the field keeps what
was typed since it was seeded, the card tells the URL it has, and its countdown
errs by no more than the two clocks differ), `NoInfectedAtRest`,
`OutcomeOfLastTrigger` (result and error are of one request, the latest),
`OutcomeAsLabelled` (validation buttons and error cards get what they say, but for
the cases it names, under every option of the API), `ShownStateIsTrue` (the
tenants' tables when nothing is under way, the cards about the API, no secret in
them, the drawer's four queries), `SequentialUploadIsOwn`
and `RunningStepHasARequest` (direct upload page), `LogIsTrue` (upload lab).

Runs that end in a violation, each a statement of a comment or document that
the code does not keep (`findings` quotes them):

| Run | What happens |
|---|---|
| `direct_two_reads` | size and type checked on one object, virus scan on another |
| `direct_page_overlap` | a file is PUT to the URL issued for another |
| `tenants_category` | a tenant named `media` lists and clears the uploads under `media/` |
| `health_fault` | the provider stays away and the probe goes on answering `up` |

Preconditions in the properties mark where more would not hold. A maintainer
should know these. Some contradict a sentence of the repository; the models have
them as behaviour, and the properties name them or leave them out, without a run
of their own:

- in post-upload mode with a key prefix, which the environment has by default, the
  library's clean-up misses the object and an infected one stays
  (`test/scanner.e2e-spec.ts:55-59` says so; `scanner-lab.service.ts:4-6` says that
  the library deletes it). `NoInfectedAtRest` is about the other configurations;
- in post-upload mode the card `STORAGE_SCAN_INFECTED` does not raise its code and
  leaves its object behind: the scanner is given the key, and the marker is only in
  the body (`trigger.registry.ts:170`; its lines 4-5 say that "the code always
  arises on demand"). `OutcomeAsLabelled` says so of this card;
- with a size cap of 1 TiB or more, which the schema of the environment accepts, the
  card `STORAGE_SIZE_EXCEEDED` does not raise its code either, and leaves its object
  (`trigger.registry.ts:25` says that its declared size "always exceeds any
  configured `maxSizeBytes`"). `OutcomeAsLabelled` says so of this one too;
- an abort that overlaps a part may leave that part with the provider, although
  the answer says that "no orphan parts remain" (`signed.service.ts:290`).
  `AbortSettles` is about aborts with no part on the wire;
- when a build of a scoped instance has failed, the shutdown hook throws and the
  process ends, perhaps before the other instances are closed, although each is
  "closed once on application shutdown" (`scoped-storage.factory.ts:8-9`).
  `ClosedOnceStopped` excuses these.

Others nothing in the repository speaks of, or only by its wording:

- an infected verdict deletes by key: it may delete what was PUT after the scan
  (`ThreatsAndOnlyTheyDisappear` allows it);
- a copy or rename of the vault may end on any key of the default bucket, also one
  that was confirmed or one under a tenant's prefix, and no policy or scan is
  applied (`ConfirmedAfterExpiryForGood` lasts until then, and the listing of a
  tenant may have such a key);
- a rename deletes by key: it may delete what was uploaded after its copy
  (`RenameMovesOrKeeps` is about undisturbed content);
- a preview checks the size before it downloads, and a replaced object may be
  larger (`AnswersWereTrue` does not speak of it);
- on the vault page, a listing that was asked for before a delete and answers
  after the user turned away counts as fresh; a refetch joins a first load that
  is under way; and the drawer keeps its URL when the keyboard changes its key;
- the drawer goes on drawing what it had while it is fetched anew and after that
  fetch failed (`KeyDetailDrawer.tsx:170`), so also an object that was deleted;
- the countdown of a signed URL is wrong by what the browser's clock differs from
  the server's (`TtlCountdown.tsx:59`): it may say EXPIRED of a URL that is not;
- a key that is typed on the signed URL page before the first listing has answered
  is replaced by the seed;
- overlapping idempotent calls with one key all store, and the last one wins;
- in post-upload mode an infected object can be read until its scan ends, and
  with `SCANNER_REJECT_ON_UNKNOWN` off, or a scan that fails, content that no
  scanner judged stays (`NoInfectedAtRest` speaks of what was judged);
- with a size cap of thirty MiB or more the size button of the validation lab is
  accepted, and far below that its answer is multer's and no envelope of the
  library (`OutcomeAsLabelled` names both);
- on the pages whose buttons are never disabled, the answer of an earlier call
  may come last and stand as the latest (`OutcomeOfLastTrigger` is about calls
  that did not overlap);
- an issuance of a multipart upload whose answer is lost leaves an upload that
  nobody has the id of;
- the drawer's hex view asks for 256 bytes under a heading that says "first 1
  KiB", and the overview shows the first keys of a listing as recent objects.

### Bounds

- `uploads`: a cap of two sessions and three requests, so that eviction, a late
  append to an evicted session and another eviction occur; two snapshots each.
- `direct`: two confirms of one key, and `MaxPuts` = 2 PUTs or copies: the first
  confirms, the second disturbs. `Copied` has a clean object of a type that is
  not listed and an infected one of a type that is, so that the type check and
  the scan may each fail alone. More keys add nothing, since no step relates two
  keys. Two parts, so that one may be stored, on the wire or missing while the
  other is not. Aborts bring the issued key, the same with a doubled slash, with
  a leading slash and through `..`, and the key of something else; the prefix
  has slashes at both ends.
- `vault`: two requests of every kind over two keys and the archive, and three
  versions, so that an object can be replaced under each request.
- `tenants`: nested slugs, one of them also a category, two clears, and pages of
  one or two keys, for partial failure within a page and uploads between pages.
  `VaultKeys` has one key of one tenant in `MCTenants.cfg` and none in
  `MCTenantsCategory.cfg`, whose violation needs no call of the vault.
- `scoped`: three requests on two labels, so two of them share one, and as many
  builds.
- `vault_page`: two views that share one of two keys, so that it can be deleted in
  one and stale in the other, `MaxClicks` = 4 (tick, delete, browse, sign), and two
  `Deletes` beside the bulk delete, of two keys or both of one; their names are
  symmetric.
- `dashboard`: `Tours` lists the sessions that are looked at: which pages the user
  sees, which read-only queries, under which options of the API. Two pages share
  state only through the query cache and the options, so the tours pair the pages
  that share a query (overview and system, the two labs) and take the others
  singly; what a page does after the user has left it is in every tour, since
  "elsewhere" is always there. `MaxClicks` = 3 and `MaxCalls` = 2 let two calls
  overlap and a third click follow; `LabFiles` has two files and the direct page
  three, so that an answer may arrive for neither the first nor the last;
  `MaxNow`, `MaxLag` and the lifetimes 0, 1 and 3 over a maximum of 2 (in
  seconds; the clock counts halves) cover expiry at once, expiry and the clamp, and
  `Skews` has a browser half a second behind the server and one a second ahead; the
  size caps are the default, one that thirty MiB overshoot fourfold, one that they
  do not exceed, and 1 TiB;
  `MaxChanges` = 2 restarts follow one another. The files are symmetric: no
  definition tells them apart.
- `health` has no bound but the library's three retries.

Runs set `CHECK_DEADLOCK FALSE` where the bounded instance may finish: all
requests answered, all clicks used, or the process stopped.

### Fairness

Only what the platform gives: a started provider call or HTTP request ends in an
answer or an error, a promise that settles resumes its awaiter, a build of a
Nest context settles, the server's `close` returns when its requests are gone,
all as long as the process lives: nothing is fair about an application that has
stopped; in `Health`, the timers of a visible tab fire, and a request ends in an
answer if the API is there and in an error if it is not. No user action, upload,
fault, recovery or shutdown is fair: `ChipFollows` speaks of a world that has
come to rest.

## 4. What is proved

Every invariant and action property that a passing run checks is also a theorem,
for every value of the constants that the `ASSUME`s of the modules allow. So are
the refinements of the two abstract specifications. The runs showed first that
the properties and the inductive invariants hold, and go on showing that they
are about something.

`UploadsProofs`, for any sets of ids and snapshots, from
`MaxSessions \in Nat \ {0}` and `MaxRecorded \in Nat`. About the store:

- `TypeCorrect`: `Spec => []TypeOK`
- `CapHolds`: `Spec => []Bounded`
- `EvictionIsFair`: `Spec => []EvictedOnlyWhenStale`
- `PollsAreComplete`: `Spec => []LiveSessionIsComplete`
- `StoreIsACache`: `Spec => ImplementsRecencyCache`

The invariant `IInv` that carries them adds to the four properties that only
created sessions are live and the created ones finitely many, that `newer` of a
live session is exactly the live sessions behind it in the order
(`NewerIsBehind`, `NewerIsLive`), and that a session not yet created has recorded
nothing (`Fresh`). Without `NewerIsBehind`, the session evicted by `create` could
not be shown to be older than every other; without `Fresh`, a new session would
not answer with what was reported since its creation.
The lemmas about sequences (what delete-and-reinsert and evict do to an order)
are stated without the state and cited by every step.
For the refinement, the cache's order of use is the order of the Map's keys
(`OlderIsBefore`), delete-and-reinsert makes its session the one used last
(`TouchRefines`), and `create` admits one and evicts the least recently used
exactly when the cache is full (`CreateRefines`); that a session outside the Map
has no list (`GoneIsEmpty`) is needed beside `IInv`.

About the handlers, for any uploads and sizes, on top of these:

- `HandlersDriveTheStore`: `UploadsSpec => Spec`, every step of the handlers is a
  step of the store or leaves it alone
- `StoreUnderUploads`, `CacheUnderUploads`: the store's properties and its
  refinement, under the handlers
- `UploadsTypeCorrect`, `FinalIsStored`, `ProgressRises`: `UploadsTypeOK`,
  `FinalMeansStored`, `ProgressNeverGoesBack`

`UploadsInv` says what the list recorded for a request looks like in each phase of
it (`RecordOf`: rising, no final snapshot before the object is stored, none
greater than what was loaded) and that a poll's answer is such a list
(`AnswerOf`). The records, which no eviction touches, carry the induction; that a
live session's snapshots are the record is the store's theorem.

`DirectUploadProofs`, for any keys, bodies, parts and calls:

- `SignedTypeCorrect`: `SignedSpec => []SignedTypeOK`
- `ConfirmIsTrue`: `SignedSpec => []UndisturbedConfirmIsTrue`
- `ConfirmSettles`: `SignedSpec => []ConfirmedAfterExpiryForGood`
- `OnlyThreatsGo`: `SignedSpec => []ThreatsAndOnlyTheyDisappear`
- `AbortedIsGone`: `SignedSpec => []AbortSettles`

`SInv` adds to the types, for every call, that an undisturbed one's key still
holds what `head` saw (`Fresh`), that after the expiry nothing but a removal, a
delete or a copy can change it (`Final`), that a scan is of what was found, once
(`ScansOnce`), and for every key that an object that is gone was deleted or
condemned (`Accounted`). For the last theorem `PartInv` adds that no part of a
settled upload is on the wire and that a completed one has no parts left, and
`ComposeKey` of the key that was issued is shown to be the key the library
signed, whatever slashes the prefix has.

`VaultProofs`, for any keys, requests and bound on the versions:

- `VaultTypeCorrect`: `Spec => []TypeOK`
- `AnswersAreTrue`: `Spec => []AnswersWereTrue`
- `RenameIsSafe`: `Spec => []RenameMovesOrKeeps`

`VInv` is the types and, for each request, what its step implies of what it has
read (`StepOf`), the property of its answer, and where the content of a copy is
(`MoveOf`: at its source until the copy has landed, at its target from then on).

`TenantsProofs`, from the assumptions on the constants (slugs and categories have
no slash, a page has room for a key):

- `TenantsAreIsolated`: `Spec => Isolation`
- `TenantsTypeCorrect`: `Spec => []TypeOK`
- `NothingIsForgotten`: `Spec => []ClearedOrReported`
- `OnlyCategoriesMix`: if no slug is a category, what a clear has listed came by no
  other upload route, unless the vault copied an object onto that very key; for a
  slug that is one, `tenants_category` shows the opposite

For the first, a page lists only keys under its tenant's prefix (`PagesOwn`,
inductive), only the deletion of a page and a call of the vault that names it remove
a key, and a key under `{slug}/` is
composed for no other slug (`PrefixNamesTenant`: were one slug longer, the
other's slash would fall inside it). For the last, the order of the listing is
shown to be irreflexive, transitive and total (`BeforeTotal` needs the first place
where two keys differ, `LeastNumber`), so a finite set of keys has a first and a
last one (`FirstOne`, `LastOne`, by the well-foundedness of strict inclusion) and a
page is divided from the rest by its last key (`PageIsFirstPart`). `TInv` then says
of each clear that what was there at the start is gone, reported, on the page
or after the cursor (`Covered`), and of one that is alone that it has counted each
key once (`Counted`).

`ScopedStorageProofs`, for any labels and requests:

- `FactoryTypes`: `Spec => []TypeOK`
- `SingleFlight`: `Spec => []OneContextPerLabel`
- `ClosedAfterUse`: `Spec => []NoUseAfterClose`
- `AllClosed`: `Spec => []ClosedOnceStopped`
- `OneInstancePerLabel`: `Spec => ImplementsSharedInstances`

`IInv` says that builds are numbered as they start (`Numbered`); that until the
hook runs the Map has the build of every request and what is used is open
(`SharedWhileRunning`); and that afterwards every client that stayed was answered
(`AnsweredWhenEnded`), which is why no build counts as late for one. For
`AllClosed`, `ClosingInv` says that the Map has every build that the running
application started, that after the hook each of them is closed or on its way to
be, and that only a failed build among those the hook awaits ends it before all are.
For the refinement, `OwnersInv` says whose a build is: one that is not late has a
request that asked for it, and those who share it ask for the same label, as those
who ask for the same label share it. So what a step does to a build it does to one
label's instance or to nobody's (`BuildRefines`), a request that finds the label in
the Map changes no instance (`AskCachedRefines`), and one that does not makes the
first (`AskNewRefines`).

`VaultPageProofs`, for any keys, views and number of clicks:

- `PageTypeCorrect`: `Spec => []TypeOK`
- `ReportsAreTrue`: `Spec => []ReportedIsUnlisted`
- `DrawerIsItsOwn`: `Spec => []DrawerShowsItsUrl`

`PInv` follows each delete whose user has stayed (`StayedOf`): once it is done its
keys are not stored, while it settles a fetch of its view is under way, and what
that fetch has been served, and in the end the data, are without them. The
drawer's URL, shown or being signed, is its key's.

`HealthProofs`, for any number of retries above none:

- `HealthTypeCorrect`: `Spec => []TypeOK`
- `OneLabel`: `Spec => []LabelsAgree`

`HealthInv`: what the query holds is what a probe answered, and a query with
nothing to show is under way or has failed.

`DashboardProofs`, for any tours, hence for any configuration of the API and any
way through the pages, and any number of clicks, calls, restarts and ticks:

- `DashboardTypeCorrect`: `DashboardSpec => []DashboardTypeOK`
- `WaitingUserIsServed`: `DashboardSpec => []SequentialUploadIsOwn`
- `NoPageWaitsForNothing`: `DashboardSpec => []RunningStepHasARequest`
- `TheLogIsTrue`: `DashboardSpec => []LogIsTrue`
- `InfectedNeverRests`: `DashboardSpec => []NoInfectedAtRest`
- `SignedUrlTold`: `DashboardSpec => []SignedUrlIsTold`
- `OneOutcomeIsShown`: `DashboardSpec => []OutcomeOfLastTrigger`
- `LabelsAreRight`: `DashboardSpec => []OutcomeAsLabelled`
- `WhatIsShownIsTrue`: `DashboardSpec => []ShownStateIsTrue`

Each page begins with a frame lemma: to one page, a step of the dashboard is a step
of its own, its mounting or unmounting, or nothing. Then it has an invariant of
its own:

- `DirectInv` ties the step of the direct upload page to the one request under
  way (`OneAtATime`) while nothing overlapped.
- `LogInv` says of the upload lab that calls of a key that is not mixed follow one
  another, so that one that stores found the cache empty (`CallsInv`), and that
  every row is of a call that is over and, if it stored, is what cache and object
  still have (`RowInv`). No two rows are of one call, so there are no more rows than
  files (`RowsFit`).
- `ScanInv` says that in pre-upload mode no call of the scanner lab waits for its
  verdict with its object stored. `LabInv` adds that a call has the verdict on its
  marker or the provider's error, that the one call of an undisturbed visit stands
  beside an empty page (`ShownInv`), and that the existence of a marker is asked
  only when it is there to stay (`ProofInv`).
- `SignedInv`: what was typed since the field was seeded is in it (`FormInv`); an
  answer on its way is to the last request; and the countdown was last right, by
  the browser's clock, one second before its next tick or later (`CountdownInv`),
  which bounds what it shows from both sides.
- `ButtonInv` and `DemoInv` explain every result and envelope on the validation
  and errors pages by what the pipeline makes of that button or trigger; for the
  latter, a call that met no disturbance has raised what its trigger raises, and
  only what is accepted where it was to be refused (`Escaping`) leaves an object.
- `PanelInv`: a tenant's table is fresh, or a fetch or a call that has yet to tell
  the table is under way (`Fresh`, `AwaitedIn`).
- `DrawerInv` and `ViewsInv`: what a query has been served, and what it holds, is
  explained by a state its object or the API has had since the query was asked last,
  or ever, for what the drawer has from before a fetch that is under way or failed
  (`Told`, `CardTold`, and `TabTold` for the three reads that make up one tab).

The provers have strings as atoms and do not know that they are sequences; the
assumption `StringsAssumption`, that the access keys have a length, says what they
need for the redactor, and TLC evaluates it.

Left to the model checker: liveness (`ClearEnds`, `ShutdownEnds`,
`RequestsAreAnswered`, `ChipFollows`), which the provers do not reach, and the
four properties that do not hold. What `Environment` accepts and what the
pipeline refuses are operators that the theorems expand where they need them,
not theorems of their own.

## 5. Plan

The parts with state and concurrency are modelled. What is worth adding:

1. The error path as one composition: what the exception filter writes, the client
   parses and the page shows.
2. For more of the components an abstract specification that the detailed one
   is proved to implement, as `RecencyCache` is for the session store and
   `SharedInstances` for the factory: the idempotency key of the upload lab.

## 6. Not modelled

- The exception filter, the validation pipe and the client's parser as such: pure
  mappings of one request, whose effect (refused, failed, answered) is a branch of
  every call in the models. The wording of errors, formatting and logging are left
  out everywhere.
- Environment variables that decide no behaviour of the models (URLs, ports, log
  levels), and the module graph, which has no states.
- Static data: the text of the provider recipes, the catalogue of quirks, the
  list of recent objects on the overview.
- The `ttl = 0` and PDF fixtures of the demos, compile-time probes of the
  library's exports, layout and UI primitives, containers and scripts.
