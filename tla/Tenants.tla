------------------------------ MODULE Tenants ------------------------------
(***************************************************************************)
(* Tenants under one bucket (apps/api/src/tenants/tenants.service.ts): a   *)
(* tenant is no more than the first segment of its keys.  Clearing one     *)
(* pages through the listing of `{tenant}/` and deletes page by page,      *)
(* while uploads, other clears and the vault, which knows no tenants, go   *)
(* on.  Every provider call is one action.  Keys are the strings they are, *)
(* as sequences of characters, because the isolation of tenants rests on   *)
(* nothing but prefixes.                                                   *)
(***************************************************************************)
EXTENDS Naturals, Sequences, FiniteSets, SequencesExt

CONSTANTS
    Slugs,      \* tenants: /^[a-z0-9-]{2,32}$/
    Names,      \* what follows the slash: `{category}/{uuid}.{extension}`
    Categories, \* first segments of the other upload routes: avatars, ...
    Clears,     \* calls of DELETE /tenants/:t/objects
    PageSize,   \* most keys on a page of the listing
    VaultKeys   \* keys that calls of the vault copy onto and delete

Slash == 47     \* the character code

\* tenantSlugSchema: the character class leaves out the slash.
ASSUME SlugsAssumption == Slugs \subseteq Seq(Nat \ {Slash})
ASSUME NamesAssumption == Names \subseteq Seq(Nat)
ASSUME CategoriesAssumption == Categories \subseteq Seq(Nat \ {Slash})
ASSUME PageSizeAssumption == PageSize \in Nat \ {0}

VARIABLES
    bucket,     \* the keys stored
    tenant,     \* the tenant each clear is for
    step,       \* where each clear is
    cursor,     \* continuation token: the last key seen; <<>> at the start
    page,       \* the keys of the page that is being deleted, if one is
    more,       \* whether the listing has another page after that one
    deleted,    \* number of keys deleted so far
    failures,   \* keys the provider would not delete
    \* History: nothing in the code reads these five.
    issued,     \* keys that ever had an object
    foreign,    \* those uploaded through another route than the tenants'
    copied,     \* those that the vault copied an object onto
    atStart,    \* the objects, by key, that the tenant had when the clear began
    alone       \* clears whose tenant nobody else has written to since

clearVars == <<step, cursor, page, more, deleted, failures>>
historyVars == <<issued, foreign, copied, atStart, alone>>
vars == <<bucket, tenant, clearVars, historyVars>>

Compose(slug, name) == slug \o <<Slash>> \o name
KeysOf(slug) == {Compose(slug, name) : name \in Names}
Keys == UNION {KeysOf(first) : first \in Slugs \cup Categories}

ASSUME VaultKeysAssumption == VaultKeys \subseteq Keys

TypeOK ==
    /\ bucket \subseteq Keys
    /\ tenant \in [Clears -> Slugs]
    /\ step \in [Clears -> {"new", "listing", "deleting", "done", "failed"}]
    /\ cursor \in [Clears -> Keys \cup {<<>>}]
    /\ page \in [Clears -> SUBSET Keys]
    /\ more \in [Clears -> BOOLEAN]
    /\ deleted \in [Clears -> Nat]
    /\ failures \in [Clears -> SUBSET Keys]
    /\ issued \subseteq Keys
    /\ foreign \subseteq issued
    /\ copied \subseteq issued
    /\ atStart \in [Clears -> SUBSET Keys]
    /\ alone \subseteq Clears

Init ==
    /\ bucket = {}
    /\ tenant \in [Clears -> Slugs]
    /\ step = [c \in Clears |-> "new"]
    /\ cursor = [c \in Clears |-> <<>>]
    /\ page = [c \in Clears |-> {}]
    /\ more = [c \in Clears |-> FALSE]
    /\ deleted = [c \in Clears |-> 0]
    /\ failures = [c \in Clears |-> {}]
    /\ issued = {}
    /\ foreign = {}
    /\ copied = {}
    /\ atStart = [c \in Clears |-> {}]
    /\ alone = {}

-----------------------------------------------------------------------------
(* The provider's listing.                                                 *)

\* Mutant: the prefix without its trailing slash.
BarePrefix(slug) == slug

TenantPrefix(slug) == slug \o <<Slash>>

Listed == [slug \in Slugs |-> {k \in Keys : IsPrefix(TenantPrefix(slug), k)}]

\* Keys are listed in the order of their bytes.
Before(s, t) ==
    \/ IsStrictPrefix(s, t)
    \/ \E i \in DOMAIN s \cap DOMAIN t :
        /\ s[i] < t[i]
        /\ \A j \in 1..(i - 1) : s[j] = t[j]

After == [token \in Keys \cup {<<>>} |-> {k \in Keys : Before(token, k)}]

\* Mutant: the token is not passed on, and every page is the first one.
RemainingFromStart(slug, token) == bucket \cap Listed[slug]

\* What a listing that continues after the token has before it.
Remaining(slug, token) == bucket \cap Listed[slug] \cap After[token]

FirstPage(keys, size) ==
    {k \in keys : Cardinality({j \in keys : k \in After[j]}) < size}

LastKey(keys) == CHOOSE k \in keys : keys \cap After[k] = {}

-----------------------------------------------------------------------------
(* Uploads.                                                                *)

\* Clears of the tenant that have begun, other than those of `who`.
ClearsOf(slug, who) == {c \in Clears \ who : tenant[c] = slug}

\* The name holds a new uuid, so no key is ever stored twice.
Store(first, name) ==
    /\ Compose(first, name) \notin issued
    /\ bucket' = bucket \cup {Compose(first, name)}
    /\ issued' = issued \cup {Compose(first, name)}
    /\ alone' = alone \ ClearsOf(first, {})
    /\ UNCHANGED <<tenant, clearVars, copied, atStart>>

\* upload().
Upload(slug, name) ==
    /\ Store(slug, name)
    /\ UNCHANGED foreign

\* uploadSingle() and its siblings, and the presigned PUT: `{category}/{uuid}`
\* under the same global prefix.
UploadElsewhere(category, name) ==
    /\ Store(category, name)
    /\ foreign' = foreign \cup {Compose(category, name)}

-----------------------------------------------------------------------------
(* The vault's routes take whole keys, of any tenant or category.          *)

ClearsAt(k) == {c \in Clears : k \in KeysOf(tenant[c])}

\* POST /vault/copy of any object of the bucket, and the first half of a rename:
\* what k had is replaced.
VaultCopy(k) ==
    /\ bucket' = bucket \cup {k}
    /\ issued' = issued \cup {k}
    /\ copied' = copied \cup {k}
    /\ atStart' = [c \in Clears |-> atStart[c] \ {k}]
    /\ alone' = alone \ ClearsAt(k)
    /\ UNCHANGED <<tenant, clearVars, foreign>>

\* DELETE /vault/object, and the second half of a rename.
VaultDelete(k) ==
    /\ k \in bucket
    /\ bucket' = bucket \ {k}
    /\ alone' = alone \ ClearsAt(k)
    /\ UNCHANGED <<tenant, clearVars, issued, foreign, copied, atStart>>

-----------------------------------------------------------------------------
(* clear().                                                                *)

Start(c) ==
    /\ step[c] = "new"
    /\ step' = [step EXCEPT ![c] = "listing"]
    /\ atStart' = [atStart EXCEPT ![c] = bucket \cap KeysOf(tenant[c])]
    /\ alone' = alone \cup {c}
    /\ UNCHANGED <<bucket, tenant, cursor, page, more, deleted, failures,
                   issued, foreign, copied>>

\* list(): an empty page is the last one, and there is nothing to delete.  The
\* provider may end a page early.
List(c, size) ==
    /\ step[c] = "listing"
    /\ LET keys == Remaining(tenant[c], cursor[c])
           first == FirstPage(keys, size) IN
       /\ page' = [page EXCEPT ![c] = first]
       /\ more' = [more EXCEPT ![c] = first # keys]
       /\ cursor' = [cursor EXCEPT ![c] =
                        IF keys = {} THEN <<>> ELSE LastKey(first)]
       /\ step' = [step EXCEPT ![c] = IF keys = {} THEN "done" ELSE "deleting"]
    /\ UNCHANGED <<bucket, tenant, deleted, failures, historyVars>>

\* Mutants: stop after a page that had failures; do not collect them; name
\* them without their tenant, as the listing does.
NextStepUnlessFailed(c, failing) ==
    IF more[c] /\ failing = {} THEN "listing" ELSE "done"

NextStep(c, failing) == IF more[c] THEN "listing" ELSE "done"

Unreported(c, failing) == failures[c]

ReportedBare(c, failing) ==
    failures[c] \cup {SubSeq(k, Len(tenant[c]) + 2, Len(k)) : k \in failing}

Reported(c, failing) == failures[c] \cup failing

\* deleteMany(): one batch, in which any key may fail; a key that is already
\* gone counts as deleted.
DeletePage(c, failing) ==
    /\ step[c] = "deleting"
    /\ failing \subseteq page[c]
    /\ bucket' = bucket \ (page[c] \ failing)
    /\ deleted' = [deleted EXCEPT ![c] = @ + Cardinality(page[c] \ failing)]
    /\ failures' = [failures EXCEPT ![c] = Reported(c, failing)]
    /\ step' = [step EXCEPT ![c] = NextStep(c, failing)]
    /\ cursor' = [cursor EXCEPT ![c] = IF more[c] THEN @ ELSE <<>>]
    /\ page' = [page EXCEPT ![c] = {}]
    /\ more' = [more EXCEPT ![c] = FALSE]
    /\ alone' = alone \ ClearsOf(tenant[c], {c})
    /\ UNCHANGED <<tenant, issued, foreign, copied, atStart>>

\* A call that fails as a whole ends the request: what was deleted so far stays
\* deleted, and nobody is told of it.
CallFails(c) ==
    /\ step[c] \in {"listing", "deleting"}
    /\ step' = [step EXCEPT ![c] = "failed"]
    /\ cursor' = [cursor EXCEPT ![c] = <<>>]
    /\ page' = [page EXCEPT ![c] = {}]
    /\ more' = [more EXCEPT ![c] = FALSE]
    /\ deleted' = [deleted EXCEPT ![c] = 0]
    /\ failures' = [failures EXCEPT ![c] = {}]
    /\ atStart' = [atStart EXCEPT ![c] = {}]
    /\ alone' = alone \ {c}
    /\ UNCHANGED <<bucket, tenant, issued, foreign, copied>>

Continue(c) ==
    \/ \E size \in 1..PageSize : List(c, size)
    \/ \E failing \in SUBSET page[c] : DeletePage(c, failing)

Next ==
    \/ \E slug \in Slugs, name \in Names : Upload(slug, name)
    \/ \E category \in Categories, name \in Names :
            UploadElsewhere(category, name)
    \/ \E k \in VaultKeys : VaultCopy(k) \/ VaultDelete(k)
    \/ \E c \in Clears : Start(c) \/ Continue(c) \/ CallFails(c)

\* Provider calls settle.  Uploads and the vault's calls need not happen.
Fairness == \A c \in Clears : WF_vars(Continue(c))

Spec == Init /\ [][Next]_vars /\ Fairness

-----------------------------------------------------------------------------
(* Properties.                                                             *)

\* "Clearing one tenant provably cannot touch another tenant's objects": a key
\* that disappears belongs to the tenant of a clear that is deleting, also
\* when one tenant's name begins with another's, or is named, by itself, in a
\* call of the vault.
Isolation ==
    [][\A slug \in Slugs, k \in Keys :
          k \in KeysOf(slug) /\ k \in bucket /\ k \notin bucket' =>
              \/ \E c \in Clears : step[c] = "deleting" /\ tenant[c] = slug
              \/ VaultDelete(k)]_vars

\* A clear that ends normally has dealt with every object its tenant had when
\* it began: gone, or named among the failures.  A page that fails in part, or
\* objects that come and go between two pages, make it skip none; what the vault
\* copies onto a key meanwhile is another object, which may stay.  And if nobody
\* interfered, the two counts of its answer add up to what there was.
ClearedOrReported ==
    \A c \in Clears : step[c] = "done" =>
        /\ atStart[c] \cap bucket \subseteq failures[c]
        /\ c \in alone =>
            deleted[c] + Cardinality(failures[c]) = Cardinality(atStart[c])

\* What the tenants page says of the listing: it only ever has the tenant's own
\* objects in it.  A slug may be the name of a category, though, and the vault
\* copies any object to any key.
ListsOnlyItsOwn ==
    \A c \in Clears : page[c] \cap (foreign \cup copied) = {}

\* A clear ends, also when some objects can never be deleted: the continuation
\* token takes it past them.
ClearEnds ==
    \A c \in Clears : step[c] = "listing" ~> step[c] \in {"done", "failed"}

=============================================================================
