------------------------------- MODULE Health -------------------------------
(***************************************************************************)
(* The health probe of the API (apps/api/src/system/health.controller.ts)  *)
(* and the two places of the dashboard that poll it through one query: the *)
(* chip of the top bar (components/layout/Topbar.tsx), on every page, and  *)
(* the overview (app/overview-content.tsx).  The API, the storage provider *)
(* behind it and the browser's network come and go.                        *)
(***************************************************************************)
EXTENDS Naturals, QueryCache

CONSTANT MaxRetries     \* retries of a query that names no number of its own

ASSUME RetriesAssumption == MaxRetries \in Nat \ {0}

VARIABLES
    online,     \* navigator.onLine
    api,        \* the API runs
    provider,   \* the storage provider answers it
    overview,   \* the overview is the page on screen
    health,     \* the query ['health']; its data is the status in the report
    retries     \* how often its fetch has been tried again

vars == <<online, api, provider, overview, health, retries>>
worldVars == <<online, api, provider>>

None == "none"
Statuses == {"up", None}

TypeOK ==
    /\ {online, api, provider, overview} \subseteq BOOLEAN
    /\ health \in Query(Statuses)
    /\ retries \in 0..MaxRetries

\* The browser loads a page: the top bar mounts, and the overview perhaps.
Init ==
    /\ online \in BOOLEAN /\ api \in BOOLEAN /\ provider \in BOOLEAN
    /\ overview \in BOOLEAN
    /\ health = Fetching(NoQuery(None), FALSE)
    /\ retries = 0

-----------------------------------------------------------------------------
(* The query.                                                              *)

\* Asked by one of the two: a fetch under way is joined.
Asked(q) ==
    /\ health' = q
    /\ retries' = IF health.fetch = "idle" THEN 0 ELSE retries

\* Mutant: the interval stops at an error.
PollUnlessFailed ==
    /\ ~health.failed
    /\ Asked(Fetching(health, FALSE))
    /\ UNCHANGED <<worldVars, overview>>

\* refetchInterval, of the top bar and of the overview.
Poll ==
    /\ health.fetch = "idle"
    /\ Asked(Fetching(health, FALSE))
    /\ UNCHANGED <<worldVars, overview>>

\* HealthController.health(): the library's exists() answers false when the
\* provider does not, and the report says "up" whichever it answers.
Probe ==
    /\ health.fetch = "asked"
    /\ online
    /\ api
    /\ health' = Served(health, "up")
    /\ UNCHANGED <<worldVars, overview, retries>>

ProbeAnswers ==
    /\ health.fetch = "served"
    /\ online
    /\ health' = Answered(health)
    /\ UNCHANGED <<worldVars, overview, retries>>

\* There is no API, or the connection broke before its answer.
Failing ==
    \/ health.fetch = "asked" /\ online /\ ~api
    \/ health.fetch = "served" /\ ~(online /\ api)

\* Mutant: an attempt is always tried again.
AttemptFailsAlways ==
    /\ Failing
    /\ retries' = retries + 1
    /\ health' = [health EXCEPT !.fetch = "asked", !.answer = health.data]
    /\ UNCHANGED <<worldVars, overview>>

\* Tried again after a while; not before there is a network.
AttemptFails ==
    /\ Failing
    /\ retries < MaxRetries
    /\ retries' = retries + 1
    /\ health' = [health EXCEPT !.fetch = "asked", !.answer = health.data]
    /\ UNCHANGED <<worldVars, overview>>

\* The query gives up: after one retry if the overview asked, after three if the
\* top bar did.
GivesUp ==
    /\ Failing
    /\ retries \in {1, MaxRetries}
    /\ health' = Failed(health)
    /\ UNCHANGED <<worldVars, overview, retries>>

\* A navigation: both mount anew, and the old ones' fetch is kept.
Navigate(isOld) ==
    /\ overview' \in BOOLEAN
    /\ Asked(Mounting(health, isOld))
    /\ UNCHANGED worldVars

-----------------------------------------------------------------------------
(* The world.                                                              *)

\* refetchOnReconnect when the network is back; a paused fetch goes on.
NetworkChanges ==
    /\ online' = ~online
    /\ IF online THEN UNCHANGED <<health, retries>>
       ELSE Asked(Fetching(health, FALSE))
    /\ UNCHANGED <<api, provider, overview>>

ApiChanges ==
    /\ api' = ~api
    /\ UNCHANGED <<online, provider, overview, health, retries>>

ProviderChanges ==
    /\ provider' = ~provider
    /\ UNCHANGED <<online, api, overview, health, retries>>

Next ==
    \/ Poll \/ Probe \/ ProbeAnswers \/ AttemptFails \/ GivesUp
    \/ \E isOld \in BOOLEAN : Navigate(isOld)
    \/ NetworkChanges \/ ApiChanges \/ ProviderChanges

\* The timers of a visible tab fire, and every request ends: in an answer if the
\* API is there, else in an error.
Fairness ==
    /\ WF_vars(Poll)
    /\ WF_vars(Probe)
    /\ WF_vars(ProbeAnswers)
    /\ WF_vars(AttemptFails \/ GivesUp)

Spec == Init /\ [][Next]_vars /\ Fairness

-----------------------------------------------------------------------------
(* What the user reads.                                                    *)

\* isLoading: a first load that the browser does not hold back.
Loading == FirstLoad(health) /\ online

\* Mutant: there is no label for a first load.
ChipWithoutLoading == IF health.failed THEN "offline" ELSE "online"

\* chipLabel of the top bar.
Chip ==
    IF Loading THEN "checking" ELSE IF health.failed THEN "offline" ELSE "online"

\* The health card of the overview.
OverviewLabel ==
    IF Loading THEN "checking"
    ELSE IF health.failed THEN "offline"
    ELSE IF health.data = "up" THEN "online" ELSE "unavailable"

-----------------------------------------------------------------------------
(* Properties.                                                             *)

\* The two labels of one page agree, so that "online" is never said before a
\* probe was answered.  (In a browser without network the chip says it.)
LabelsAgree == overview /\ online => Chip = OverviewLabel

\* The chip follows the API: if the API stays reachable it says "online" in the
\* end and for good, and if the API stays away it says "offline" again and
\* again, whatever came before and wherever the user goes.
ChipFollows ==
    /\ <>[](online /\ api) => <>[](Chip = "online")
    /\ <>[](online /\ ~api) => []<>(Chip = "offline")

\* "With MinIO stopped: /health returns 503 down": a provider that stays away
\* shows in the chip in the end.
FaultShows == <>[](online /\ api /\ ~provider) => []<>(Chip = "offline")

=============================================================================
