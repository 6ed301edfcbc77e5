----------------------------- MODULE SignedUrls -----------------------------
(***************************************************************************)
(* The signed URL page (apps/web/app/signed/signed-content.tsx and         *)
(* components/transfer/TtlCountdown.tsx) with the download route it calls  *)
(* (apps/api/src/signed/signed.service.ts): a key field seeded from the    *)
(* vault, a URL issued with a clamped lifetime, and a countdown of it.     *)
(*                                                                         *)
(* Time is counted in half seconds, for the API signs with a time cut down *)
(* to seconds and the countdown ticks every second.  The browser's clock   *)
(* is ahead of the server's, or behind it, by as much in every reading of  *)
(* a visit, and a timer that is due runs within MaxLag.                    *)
(***************************************************************************)
EXTENDS Integers, QueryCache

CONSTANTS
    Keys,       \* object keys
    Blank,      \* an empty key field
    Ttls,       \* what may be typed as a lifetime, in seconds
    FirstTtl,   \* what the field holds at first: more than the cap
    MaxTtl,     \* signedUrls.maxTtlSeconds
    MaxLag,     \* how late a timer may run
    Skews,      \* how far the browser's clock may be ahead of the server's
    MaxNow,     \* bound of the model: the clock's last value
    MaxClicks   \* bound of the model: what the user does

VARIABLES
    mounted,    \* this page is the one on screen
    clicks,     \* number of things the user has done
    first,      \* the query of the vault's first object
    seeded,     \* seededRef
    objectKey, requestedTtl,    \* the form
    issue,      \* the issue mutation: its request, and its answer once signed
    signedResult, error,        \* what the page shows of it
    now,        \* the server's clock, which a URL expires by
    skew,       \* what the browser's shows beyond it
    remaining,  \* state of the countdown
    nextTick,   \* when its timer is due
    \* History: nothing in the code reads these two.
    typed,      \* the key the user typed last, once the field was seeded
    asked       \* the request of the last click

formVars == <<seeded, objectKey, requestedTtl, typed>>
issueVars == <<issue, signedResult, error, remaining, nextTick, asked>>
clockVars == <<now, skew>>
pageVars == <<formVars, issueVars, clockVars>>
vars == <<first, pageVars>>

Second == 2
None == "none"
Codes == {"STORAGE_SIGNED_URL_TTL_INVALID", "STORAGE_PROVIDER_ERROR"}

Request == [key : Keys \cup {Blank}, ttl : Ttls \cup {0, FirstTtl}]
NoRequest == [key |-> Blank, ttl |-> 0]

\* TtlView, and the key in the URL.  NoUrl stands for null.
Url == [key : Keys \cup {Blank}, signedAt : 0..MaxNow, expiresAt : Nat,
        requestedTtlSeconds : Nat, effectiveTtlSeconds : Nat,
        clamped : BOOLEAN]
NoUrl == [key |-> Blank, signedAt |-> 0, expiresAt |-> 0,
          requestedTtlSeconds |-> 0, effectiveTtlSeconds |-> 0,
          clamped |-> FALSE]
Idle == [phase |-> "idle", url |-> NoUrl, code |-> None]

TypeOK ==
    /\ first \in Query(Keys \cup {None})
    /\ seeded \in BOOLEAN
    /\ {objectKey, typed} \subseteq Keys \cup {Blank, None}
    /\ requestedTtl \in Ttls \cup {FirstTtl}
    /\ issue \in [phase : {"idle", "sent", "signed", "refused"},
                  url : Url \cup {NoUrl}, code : Codes \cup {None}]
    /\ signedResult \in Url
    /\ error \in Codes \cup {None}
    /\ now \in 0..MaxNow
    /\ skew \in Skews \cup {0}
    /\ remaining \in Nat
    /\ nextTick \in Nat
    /\ asked \in Request

Init ==
    /\ seeded = FALSE
    /\ objectKey = Blank
    /\ requestedTtl = FirstTtl
    /\ issue = Idle
    /\ signedResult = NoUrl
    /\ error = None
    /\ now = 0
    /\ skew = 0
    /\ remaining = 0
    /\ nextTick = 0
    /\ typed = None
    /\ asked = NoRequest
    /\ first = NoQuery(None)

Click ==
    /\ mounted
    /\ clicks < MaxClicks
    /\ clicks' = clicks + 1

-----------------------------------------------------------------------------
(* The key field.                                                          *)

\* Mutant: without the ref every answer seeds.
SeedAlways(key) ==
    IF key # None
    THEN objectKey' = key /\ seeded' = TRUE
    ELSE UNCHANGED <<objectKey, seeded>>

\* The effect that runs when the first object changes.
Seed(key) ==
    IF key # None /\ ~seeded
    THEN objectKey' = key /\ seeded' = TRUE
    ELSE UNCHANGED <<objectKey, seeded>>

\* The page mounts: its state is new, the query may have data from before.
Enter(isOld) ==
    /\ first' = Mounting(first, isOld)
    /\ objectKey' = IF first.data = None THEN Blank ELSE first.data
    /\ seeded' = (first.data # None)
    /\ skew' \in Skews
    /\ UNCHANGED <<requestedTtl, typed, issueVars, now>>

\* The page unmounts: its state goes, and late answers are dropped.
Leave ==
    /\ seeded' = FALSE
    /\ objectKey' = Blank
    /\ requestedTtl' = FirstTtl
    /\ issue' = Idle
    /\ signedResult' = NoUrl
    /\ error' = None
    /\ now' = 0
    /\ skew' = 0
    /\ remaining' = 0
    /\ nextTick' = 0
    /\ typed' = None
    /\ asked' = NoRequest
    /\ first' = first

\* The API reads the vault's first object; other clients come and go.
ListFirst(key) ==
    /\ first.fetch = "asked"
    /\ first' = Served(first, key)
    /\ UNCHANGED <<clicks, pageVars>>

FirstAnswers ==
    /\ first.fetch = "served"
    /\ first' = Answered(first)
    /\ IF mounted THEN Seed(first.answer) ELSE UNCHANGED <<objectKey, seeded>>
    /\ UNCHANGED <<clicks, requestedTtl, typed, issueVars, clockVars>>

FirstFails ==
    /\ first.fetch # "idle"
    /\ first' = Failed(first)
    /\ UNCHANGED <<clicks, pageVars>>

\* The browser is online again (refetchOnReconnect).
Reconnect ==
    /\ Click
    /\ first' = Fetching(first, FALSE)
    /\ UNCHANGED pageVars

TypeKey(key) ==
    /\ Click
    /\ key # objectKey
    /\ objectKey' = key
    /\ typed' = IF seeded THEN key ELSE None
    /\ UNCHANGED <<first, seeded, requestedTtl, issueVars, clockVars>>

TypeTtl(ttl) ==
    /\ Click
    /\ ttl # requestedTtl
    /\ requestedTtl' = ttl
    /\ UNCHANGED <<first, seeded, objectKey, typed, issueVars, clockVars>>

-----------------------------------------------------------------------------
(* Issuing a URL.                                                          *)

\* The button: disabled while a request is pending or the key is blank.
HandleIssue ==
    /\ Click
    /\ issue = Idle
    /\ objectKey # Blank
    /\ issue' = [Idle EXCEPT !.phase = "sent"]
    /\ asked' = [key |-> objectKey, ttl |-> requestedTtl]
    /\ signedResult' = NoUrl
    /\ error' = None
    /\ remaining' = 0
    /\ nextTick' = 0
    /\ UNCHANGED <<first, formVars, clockVars>>

Least(a, b) == IF a <= b THEN a ELSE b
Positive(n) == IF n > 0 THEN n ELSE 0

\* readSignedUrlExpiry: X-Amz-Date and X-Amz-Expires.
Expiry(signedAt, ttl) == signedAt + ttl * Second

\* createDownloadUrl.  X-Amz-Date has whole seconds.
CreateDownloadUrl(request) ==
    LET signedAt == now - (now % Second)
        effective == Least(request.ttl, MaxTtl)
    IN  [key |-> request.key, signedAt |-> signedAt,
         expiresAt |-> Expiry(signedAt, effective),
         requestedTtlSeconds |-> request.ttl,
         effectiveTtlSeconds |-> effective,
         clamped |-> effective < request.ttl]

Sign ==
    /\ issue.phase = "sent"
    /\ issue' = IF asked.ttl <= 0
                THEN [Idle EXCEPT !.phase = "refused",
                                  !.code = "STORAGE_SIGNED_URL_TTL_INVALID"]
                ELSE [Idle EXCEPT !.phase = "signed",
                                  !.url = CreateDownloadUrl(asked)]
    /\ UNCHANGED <<clicks, first, formVars, signedResult, error, remaining,
                   nextTick, asked, clockVars>>

\* Mutant: the countdown starts from the lifetime, however late the answer.
IssueAnswersByTtl ==
    /\ issue.phase = "signed"
    /\ issue' = Idle
    /\ signedResult' = issue.url
    /\ remaining' = issue.url.effectiveTtlSeconds * Second
    /\ nextTick' = now + Second
    /\ UNCHANGED <<clicks, first, formVars, error, asked, clockVars>>

\* Date.now() in the browser.
BrowserNow == now + skew

\* The card appears, and its countdown with it.
IssueAnswers ==
    /\ issue.phase = "signed"
    /\ issue' = Idle
    /\ signedResult' = issue.url
    /\ remaining' = Positive(issue.url.expiresAt - BrowserNow)
    /\ nextTick' = now + Second
    /\ UNCHANGED <<clicks, first, formVars, error, asked, clockVars>>

\* An error answer is shown as an envelope.
IssueRefused ==
    /\ issue.phase = "refused"
    /\ issue' = Idle
    /\ error' = issue.code
    /\ UNCHANGED <<clicks, first, formVars, signedResult, remaining, nextTick,
                   asked, clockVars>>

\* The provider's client fails; or no answer comes, and a toast says so.
IssueFails(code) ==
    /\ issue.phase \in {"sent", "signed", "refused"}
    /\ issue' = Idle
    /\ error' = code
    /\ UNCHANGED <<clicks, first, formVars, signedResult, remaining, nextTick,
                   asked, clockVars>>

-----------------------------------------------------------------------------
(* The countdown.                                                          *)

HasCountdown == signedResult # NoUrl

\* wasClamped: the badge and the colours of the card.
WasClamped ==
    \/ signedResult.clamped
    \/ signedResult.effectiveTtlSeconds < signedResult.requestedTtlSeconds

\* The countdown says EXPIRED, or else the whole seconds that remain.
IsExpired == remaining = 0
FormatCountdown == remaining \div Second

\* setInterval: the next tick is due a second after this one was.
Tick ==
    /\ HasCountdown
    /\ now >= nextTick
    /\ remaining' = Positive(signedResult.expiresAt - BrowserNow)
    /\ nextTick' = nextTick + Second
    /\ UNCHANGED <<clicks, first, formVars, issue, signedResult, error, asked,
                   clockVars>>

TimePasses ==
    /\ mounted
    /\ now < MaxNow
    /\ HasCountdown => now < nextTick + MaxLag
    /\ issue # Idle \/ HasCountdown
    /\ now' = now + 1
    /\ UNCHANGED <<clicks, first, formVars, issueVars, skew>>

-----------------------------------------------------------------------------

Next ==
    \/ \E key \in Keys \cup {None} : ListFirst(key)
    \/ FirstAnswers \/ FirstFails \/ Reconnect
    \/ \E key \in Keys \cup {Blank} : TypeKey(key)
    \/ \E ttl \in Ttls : TypeTtl(ttl)
    \/ HandleIssue \/ Sign \/ IssueAnswers \/ IssueRefused
    \/ \E code \in {"STORAGE_PROVIDER_ERROR", None} : IssueFails(code)
    \/ Tick \/ TimePasses

-----------------------------------------------------------------------------
(* Properties.                                                             *)

\* The key the user typed into a field that had been seeded stays there: no
\* later answer of the vault's list replaces it.  (What is typed before the
\* first answer is replaced.)
TypedKeyStands == typed # None => objectKey = typed

\* The card speaks of the request that was made last, whatever the form holds by
\* now, and marks it as clamped if and only if the URL lives shorter than asked.
\* Its countdown is wrong by what the two clocks differ and no more: beyond that
\* it never shows less than the provider still grants the URL, so that EXPIRED
\* is said of a URL that has expired or is as near to it as the browser is ahead;
\* nor more than the URL had one late tick ago.
CardTellsTheUrl ==
    HasCountdown =>
        LET expiry == signedResult.signedAt
                        + signedResult.effectiveTtlSeconds * Second
            left == Positive(expiry - now)
        IN  /\ signedResult.key = asked.key
            /\ signedResult.requestedTtlSeconds = asked.ttl
            /\ WasClamped <=> expiry < signedResult.signedAt
                                         + asked.ttl * Second
            /\ IsExpired => left <= Positive(skew)
            /\ left < (FormatCountdown + 1) * Second + Positive(skew)
            /\ FormatCountdown * Second
                   <= left + Second + MaxLag + Positive(0 - skew)

\* A URL and an error are never shown together.
OneOutcome == ~(HasCountdown /\ error # None)

=============================================================================
