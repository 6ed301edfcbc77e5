---------------------------- MODULE HealthProofs ----------------------------
(***************************************************************************)
(* Proofs about the health query and its two labels, for any number of     *)
(* retries, and whatever the network, the API and the provider do.         *)
(***************************************************************************)
EXTENDS Health, TLAPS

LEMMA Records ==
    ASSUME NEW q \in Query(Statuses)
    PROVE  /\ Fetching(q, FALSE) \in Query(Statuses)
           /\ \A isOld \in BOOLEAN : Mounting(q, isOld) \in Query(Statuses)
           /\ Served(q, "up") \in Query(Statuses)
           /\ Answered(q) \in Query(Statuses)
           /\ Failed(q) \in Query(Statuses)
           /\ [q EXCEPT !.fetch = "asked", !.answer = q.data] \in Query(Statuses)
  BY DEF Query, Statuses, Fetching, Mounting, Served, Answered, Failed

\* A query that is not loaded is under way or has failed; and what it holds is
\* what a probe answered.
HealthInv ==
    /\ TypeOK
    /\ health.loaded => health.data = "up"
    /\ health.fetch = "served" => health.answer = "up"
    /\ health.loaded \/ health.failed \/ health.fetch # "idle"

LEMMA HealthInit == Init => HealthInv
<1> SUFFICES ASSUME Init PROVE HealthInv
  OBVIOUS
<1>1. health = [loaded |-> FALSE, data |-> None, failed |-> FALSE,
                invalidated |-> FALSE, fetch |-> "asked", answer |-> None]
  BY DEF Init, Fetching, NoQuery
<1>2. health \in Query(Statuses)
  BY <1>1 DEF Query, Statuses
<1>3. retries = 0 /\ 0 \in 0..MaxRetries
  BY RetriesAssumption DEF Init
<1>4. {online, api, provider, overview} \subseteq BOOLEAN
  BY DEF Init
<1> QED
  BY <1>1, <1>2, <1>3, <1>4 DEF HealthInv, TypeOK

\* A fetch that is asked for, or joined.
LEMMA AskedStep ==
    ASSUME HealthInv, NEW isOld \in BOOLEAN,
           Asked(Fetching(health, FALSE)) \/ Asked(Mounting(health, isOld)),
           {online, api, provider, overview}' \subseteq BOOLEAN
    PROVE  HealthInv'
<1>1. health \in Query(Statuses)
  BY DEF HealthInv, TypeOK
<1>2. health' \in {health, [health EXCEPT !.fetch = "asked", !.answer = health.data,
                              !.failed = health.failed /\ health.loaded]}
  BY DEF Asked, Fetching, Mounting
<1>3. TypeOK'
  <2>1. retries' \in 0..MaxRetries
    <3>1. retries' = 0 \/ retries' = retries
      BY Zenon DEF Asked
    <3> QED
      BY <3>1, RetriesAssumption DEF HealthInv, TypeOK
  <2> QED
    BY <1>1, <2>1, Records DEF Asked, HealthInv, TypeOK
<1> QED
  BY <1>1, <1>2, <1>3 DEF HealthInv, Query

LEMMA HealthStep == HealthInv /\ [Next]_vars => HealthInv'
<1> SUFFICES ASSUME HealthInv, [Next]_vars PROVE HealthInv'
  OBVIOUS
<1> USE DEF worldVars
<1>1. health \in Query(Statuses) /\ TypeOK
  BY DEF HealthInv, TypeOK
<1>2. CASE Poll
  BY <1>1, <1>2, AskedStep DEF Poll, TypeOK
<1>3. CASE Probe
  <2>1. TypeOK'
    BY <1>1, <1>3, Records DEF Probe, TypeOK
  <2> QED
    BY <1>1, <1>3, <2>1 DEF Probe, HealthInv, Served, Query
<1>4. CASE ProbeAnswers
  <2>1. TypeOK'
    BY <1>1, <1>4, Records DEF ProbeAnswers, TypeOK
  <2> QED
    BY <1>1, <1>4, <2>1 DEF ProbeAnswers, HealthInv, Answered, Query
<1>5. CASE AttemptFails
  <2>1. retries' \in 0..MaxRetries
    BY <1>1, <1>5, RetriesAssumption DEF AttemptFails, TypeOK
  <2>2. TypeOK'
    BY <1>1, <1>5, <2>1, Records DEF AttemptFails, TypeOK
  <2> QED
    BY <1>1, <1>5, <2>2 DEF AttemptFails, HealthInv, Query
<1>6. CASE GivesUp
  <2>1. TypeOK'
    BY <1>1, <1>6, Records DEF GivesUp, TypeOK
  <2> QED
    BY <1>1, <1>6, <2>1 DEF GivesUp, HealthInv, Failed, Query
<1>7. ASSUME NEW isOld \in BOOLEAN, Navigate(isOld) PROVE HealthInv'
  BY <1>1, <1>7, AskedStep DEF Navigate, TypeOK
<1>8. CASE NetworkChanges
  <2>1. {online, api, provider, overview}' \subseteq BOOLEAN
    BY <1>1, <1>8 DEF NetworkChanges, TypeOK
  <2>2. CASE online
    BY <1>1, <1>8, <2>1, <2>2 DEF NetworkChanges, HealthInv, TypeOK
  <2>3. CASE ~online
    BY <1>8, <2>1, <2>3, AskedStep DEF NetworkChanges
  <2> QED
    BY <2>2, <2>3
<1>9. CASE ApiChanges \/ ProviderChanges
  BY <1>1, <1>9 DEF ApiChanges, ProviderChanges, HealthInv, TypeOK
<1>10. CASE UNCHANGED vars
  BY <1>10 DEF vars, HealthInv, TypeOK
<1> QED
  BY <1>2, <1>3, <1>4, <1>5, <1>6, <1>7, <1>8, <1>9, <1>10 DEF Next

LEMMA HealthInvariant == Spec => []HealthInv
  BY HealthInit, HealthStep, PTL DEF Spec

\* The health query keeps its shape, and its retries their number.
THEOREM HealthTypeCorrect == Spec => []TypeOK
<1>1. HealthInv => TypeOK
  BY DEF HealthInv
<1> QED
  BY <1>1, HealthInvariant, PTL

\* The chip and the card of the overview say the same in a browser that has a
\* network: "online" means that a probe was answered.
THEOREM OneLabel == Spec => []LabelsAgree
<1>1. ASSUME HealthInv PROVE LabelsAgree
  BY <1>1 DEF HealthInv, TypeOK, LabelsAgree, Chip, OverviewLabel, Loading,
     FirstLoad
<1> QED
  BY <1>1, HealthInvariant, PTL

=============================================================================
