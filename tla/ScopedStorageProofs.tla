------------------------ MODULE ScopedStorageProofs ------------------------
(***************************************************************************)
(* What holds of ScopedStorage for any labels, requests and bound on the   *)
(* builds: requests for one label share one context until the shutdown     *)
(* hook runs, and no request a client waits for works with a closed one.   *)
(***************************************************************************)
EXTENDS ScopedStorage, TLAPS

Running == app \in {"serving", "draining"}

\* Builds are numbered in the order they start; a request that waits for one
\* or uses it has one.
Numbered ==
    /\ \A b \in 1..builds : state[b] # "none"
    /\ \A r \in Requests :
        /\ build[r] <= builds
        /\ step[r] \in {"waiting", "using"} => build[r] # NoBuild
    /\ \A l \in Labels : contexts[l] <= builds
    /\ late \subseteq 1..builds

\* Before the hook: the Map has the build of every request, and all are open
\* that are used.
SharedWhileRunning ==
    Running =>
        /\ closing = {} /\ late = {}
        /\ \A b \in Builds : state[b] # "closed"
        /\ \A r \in Requests :
            /\ build[r] # NoBuild => contexts[label[r]] = build[r]
            /\ step[r] = "using" => state[build[r]] = "open"

\* After it: the clients that stayed have been answered.
AnsweredWhenEnded ==
    /\ ~Running => \A r \in connected : step[r] = "done"
    /\ \A r \in connected : build[r] \notin late

IInv ==
    /\ TypeOK
    /\ Numbered
    /\ SharedWhileRunning
    /\ AnsweredWhenEnded

-----------------------------------------------------------------------------

LEMMA InitIInv == Init => IInv
  <1> SUFFICES ASSUME Init PROVE IInv
    OBVIOUS
  <1> USE MaxBuildsAssumption
  <1>1. TypeOK
    BY DEF Init, TypeOK, NoBuild, Builds
  <1>2. Numbered
    BY DEF Init, Numbered, NoBuild, Builds
  <1>3. SharedWhileRunning /\ AnsweredWhenEnded
    BY DEF Init, SharedWhileRunning, AnsweredWhenEnded, Running, NoBuild, Builds
  <1> QED
    BY <1>1, <1>2, <1>3 DEF IInv

\* A request starts a build: the only step that adds one.
LEMMA AskNewKeepsIInv ==
    ASSUME IInv, NEW r \in Requests, AskNew(r)
    PROVE  IInv'
  <1> USE MaxBuildsAssumption
  <1> DEFINE b == builds + 1
  <1>1. /\ step[r] = "started" /\ contexts[label[r]] = NoBuild
        /\ builds' = b /\ b \in Builds /\ builds \in Nat
        /\ state' = [state EXCEPT ![b] = "pending"]
        /\ build' = [build EXCEPT ![r] = b]
        /\ step' = [step EXCEPT ![r] = "waiting"]
        /\ late' = IF Running THEN late ELSE late \cup {b}
        /\ contexts' = [contexts EXCEPT ![label[r]] = b]
        /\ UNCHANGED <<label, connected, app, closing>>
    BY DEF AskNew, StartBuild, IInv, TypeOK, Builds, Running
  <1>2. /\ label[r] \in Labels
        /\ \A q \in Requests : build[q] # b /\ build[q] \in Nat
        /\ b \notin late
    BY <1>1 DEF IInv, Numbered, TypeOK
  <1>3. TypeOK'
    BY <1>1, <1>2 DEF IInv, TypeOK, Builds
  <1>4. Numbered'
    <2>1. \A c \in 1..b : state'[c] # "none"
      BY <1>1 DEF IInv, Numbered, TypeOK, Builds
    <2>2. \A q \in Requests :
            /\ build'[q] <= b
            /\ step'[q] \in {"waiting", "using"} => build'[q] # NoBuild
      BY <1>1, <1>2 DEF IInv, Numbered, TypeOK, NoBuild
    <2>3. \A l \in Labels : contexts'[l] <= b
      BY <1>1, <1>2 DEF IInv, Numbered, TypeOK
    <2>4. late' \subseteq 1..b
      BY <1>1 DEF IInv, Numbered
    <2> QED
      BY <1>1, <2>1, <2>2, <2>3, <2>4 DEF Numbered
  <1>5. SharedWhileRunning'
    <2> SUFFICES ASSUME Running'
                 PROVE  /\ closing' = {} /\ late' = {}
                        /\ \A c \in Builds : state'[c] # "closed"
                        /\ \A q \in Requests :
                            /\ build'[q] # NoBuild =>
                                 contexts'[label'[q]] = build'[q]
                            /\ step'[q] = "using" => state'[build'[q]] = "open"
      BY DEF SharedWhileRunning
    <2>1. Running /\ SharedWhileRunning
      BY <1>1 DEF Running, IInv
    <2>2. closing' = {} /\ late' = {} /\ \A c \in Builds : state'[c] # "closed"
      BY <1>1, <2>1 DEF SharedWhileRunning, IInv, TypeOK
    <2>3. \A q \in Requests :
            build'[q] # NoBuild => contexts'[label'[q]] = build'[q]
      BY <1>1, <1>2, <2>1 DEF SharedWhileRunning, IInv, TypeOK, NoBuild
    <2>4. \A q \in Requests : step'[q] = "using" => state'[build'[q]] = "open"
      BY <1>1, <1>2, <2>1 DEF SharedWhileRunning, IInv, TypeOK
    <2> QED
      BY <2>2, <2>3, <2>4
  <1>6. AnsweredWhenEnded'
    <2>1. Running' <=> Running
      BY <1>1 DEF Running
    <2>2. ~Running => r \notin connected
      BY <1>1 DEF IInv, AnsweredWhenEnded
    <2>3. ~Running' => \A q \in connected' : step'[q] = "done"
      BY <1>1, <2>1, <2>2 DEF IInv, AnsweredWhenEnded, TypeOK
    <2>4. \A q \in connected' : build'[q] \notin late'
      <3>1. CASE Running
        BY <3>1, <1>1 DEF IInv, SharedWhileRunning
      <3>2. CASE ~Running
        BY <3>2, <1>1, <1>2, <2>2 DEF IInv, AnsweredWhenEnded, TypeOK
      <3> QED
        BY <3>1, <3>2
    <2> QED
      BY <2>3, <2>4 DEF AnsweredWhenEnded
  <1> QED
    BY <1>3, <1>4, <1>5, <1>6 DEF IInv

\* The hook: nobody who is still connected is at work.
LEMMA ShutdownHookKeepsIInv ==
    ASSUME IInv, ShutdownHook
    PROVE  IInv'
  <1> USE MaxBuildsAssumption
  <1>1. /\ app = "draining" /\ \A r \in connected : step[r] = "done"
        /\ closing' = Cached
        /\ contexts' = [l \in Labels |-> NoBuild]
        /\ app' = "closing"
        /\ UNCHANGED <<builds, state, requestVars, late>>
    BY DEF ShutdownHook, TakeContexts, Drained
  <1>2. Cached \subseteq Builds
    BY DEF IInv, TypeOK, Cached, NoBuild, Builds
  <1>3. TypeOK'
    BY <1>1, <1>2 DEF IInv, TypeOK, NoBuild, requestVars
  <1>4. Numbered'
    BY <1>1 DEF IInv, Numbered, TypeOK, NoBuild, requestVars
  <1>5. SharedWhileRunning' /\ AnsweredWhenEnded'
    BY <1>1
    DEF IInv, SharedWhileRunning, AnsweredWhenEnded, Running, requestVars
  <1> QED
    BY <1>3, <1>4, <1>5 DEF IInv

\* Steps of the builds: one settles, one is closed.
LEMMA BuildStepsKeepIInv ==
    ASSUME IInv, NEW b \in Builds, BuildSettles(b) \/ CloseContext(b)
    PROVE  IInv'
  <1>1. CASE BuildSettles(b)
    <2>1. PICK outcome \in {"open", "failed"} :
            /\ state[b] = "pending"
            /\ state' = [state EXCEPT ![b] = outcome]
            /\ UNCHANGED <<contexts, builds, requestVars, app, closing, late>>
      BY <1>1 DEF BuildSettles
    <2>2. TypeOK'
      BY <2>1 DEF IInv, TypeOK, requestVars
    <2>3. Numbered'
      BY <2>1 DEF IInv, Numbered, TypeOK, requestVars
    <2>4. SharedWhileRunning'
      BY <2>1 DEF IInv, SharedWhileRunning, TypeOK, Running, requestVars
    <2>5. AnsweredWhenEnded'
      BY <2>1 DEF IInv, AnsweredWhenEnded, Running, requestVars
    <2> QED
      BY <2>2, <2>3, <2>4, <2>5 DEF IInv
  <1>2. CASE CloseContext(b)
    <2>1. /\ b \in closing /\ state[b] = "open"
          /\ state' = [state EXCEPT ![b] = "closed"]
          /\ closing' = closing \ {b}
          /\ UNCHANGED <<contexts, builds, requestVars, app, late>>
      BY <1>2 DEF CloseContext
    <2>2. TypeOK'
      BY <2>1 DEF IInv, TypeOK, requestVars
    <2>3. Numbered'
      BY <2>1 DEF IInv, Numbered, TypeOK, requestVars
    <2>4. ~Running /\ ~Running'
      BY <2>1 DEF IInv, SharedWhileRunning, Running
    <2>5. SharedWhileRunning' /\ AnsweredWhenEnded'
      BY <2>1, <2>4
      DEF IInv, SharedWhileRunning, AnsweredWhenEnded, requestVars
    <2> QED
      BY <2>2, <2>3, <2>5 DEF IInv
  <1> QED
    BY <1>1, <1>2

\* The other steps of a request.
LEMMA RequestStepsKeepIInv ==
    ASSUME IInv, NEW r \in Requests,
           \/ Arrive(r) \/ AskCached(r) \/ Resume(r)
           \/ Finish(r) \/ Disconnect(r)
    PROVE  IInv'
  <1>1. CASE Arrive(r)
    <2>1. TypeOK' /\ Numbered'
      BY <1>1 DEF Arrive, IInv, TypeOK, Numbered, cacheVars
    <2>2. SharedWhileRunning' /\ AnsweredWhenEnded'
      BY <1>1 DEF Arrive, IInv, TypeOK, SharedWhileRunning, AnsweredWhenEnded,
                  Running, cacheVars
    <2> QED
      BY <2>1, <2>2 DEF IInv
  <1>2. CASE AskCached(r)
    <2>1. label[r] \in Labels /\ contexts[label[r]] \in 0..MaxBuilds
      BY DEF IInv, TypeOK
    <2>2. TypeOK'
      BY <1>2, <2>1 DEF AskCached, IInv, TypeOK, cacheVars
    <2>3. Numbered'
      BY <1>2, <2>1 DEF AskCached, IInv, TypeOK, Numbered, cacheVars
    <2>4. SharedWhileRunning'
      BY <1>2, <2>1
      DEF AskCached, IInv, TypeOK, SharedWhileRunning, Running, cacheVars
    <2>5. AnsweredWhenEnded'
      <3>1. ~Running => r \notin connected
        BY <1>2 DEF AskCached, IInv, AnsweredWhenEnded
      <3>2. Running => late = {}
        BY DEF IInv, SharedWhileRunning
      <3> QED
        BY <1>2, <3>1, <3>2
        DEF AskCached, IInv, TypeOK, AnsweredWhenEnded, Running, cacheVars
    <2> QED
      BY <2>2, <2>3, <2>4, <2>5 DEF IInv
  <1>3. CASE Resume(r)
    <2>1. TypeOK' /\ Numbered'
      BY <1>3 DEF Resume, IInv, TypeOK, Numbered, cacheVars
    <2>2. build[r] \in 1..builds /\ build[r] \in Builds
      BY <1>3, MaxBuildsAssumption
      DEF Resume, IInv, TypeOK, Numbered, NoBuild, Builds
    <2>3. Running /\ state[build[r]] # "failed" => state[build[r]] = "open"
      BY <1>3, <2>2
      DEF Resume, IInv, TypeOK, Numbered, SharedWhileRunning
    <2>4. SharedWhileRunning'
      BY <1>3, <2>3
      DEF Resume, IInv, TypeOK, SharedWhileRunning, Running, cacheVars
    <2>5. AnsweredWhenEnded'
      BY <1>3
      DEF Resume, IInv, TypeOK, AnsweredWhenEnded, Running, cacheVars
    <2> QED
      BY <2>1, <2>4, <2>5 DEF IInv
  <1>4. CASE Finish(r)
    <2>1. TypeOK' /\ Numbered'
      BY <1>4 DEF Finish, IInv, TypeOK, Numbered, cacheVars
    <2>2. SharedWhileRunning' /\ AnsweredWhenEnded'
      BY <1>4 DEF Finish, IInv, TypeOK, SharedWhileRunning, AnsweredWhenEnded,
                  Running, cacheVars
    <2> QED
      BY <2>1, <2>2 DEF IInv
  <1>5. CASE Disconnect(r)
    BY <1>5 DEF Disconnect, IInv, TypeOK, Numbered, SharedWhileRunning,
                AnsweredWhenEnded, Running, cacheVars
  <1> QED
    BY <1>1, <1>2, <1>3, <1>4, <1>5

LEMMA LifetimeStepsKeepIInv ==
    ASSUME IInv, StopListening \/ HookReturns
    PROVE  IInv'
  BY DEF StopListening, HookReturns, IInv, TypeOK, Numbered, SharedWhileRunning,
         AnsweredWhenEnded, Running, cacheVars, requestVars

LEMMA StutterKeepsIInv == IInv /\ UNCHANGED vars => IInv'
  BY DEF vars, IInv, TypeOK, Numbered, SharedWhileRunning, AnsweredWhenEnded,
         Running, cacheVars, requestVars

LEMMA NextKeepsIInv == IInv /\ [Next]_vars => IInv'
  BY AskNewKeepsIInv, ShutdownHookKeepsIInv, BuildStepsKeepIInv,
     RequestStepsKeepIInv, LifetimeStepsKeepIInv, StutterKeepsIInv DEF Next

LEMMA Inductive == Spec => []IInv
  BY InitIInv, NextKeepsIInv, PTL DEF Spec

-----------------------------------------------------------------------------

\* The Map, the builds and the requests keep their types.
THEOREM FactoryTypes == Spec => []TypeOK
  <1>1. IInv => TypeOK
    BY DEF IInv
  <1> QED
    BY <1>1, Inductive, PTL

\* context(): the promise is in the Map before anything is awaited, so that two
\* requests for a label never build two contexts while the application runs.
THEOREM SingleFlight == Spec => []OneContextPerLabel
  <1>1. IInv => OneContextPerLabel
    BY DEF IInv, SharedWhileRunning, Running, OneContextPerLabel
  <1> QED
    BY <1>1, Inductive, PTL

\* onApplicationShutdown() runs once the connections are done: it never closes
\* a context that a request with a client uses, nor is one started for such a
\* request after it.
THEOREM ClosedAfterUse == Spec => []NoUseAfterClose
  <1>1. ASSUME IInv PROVE NoUseAfterClose
    <2>1. ASSUME NEW r \in connected, step[r] = "using"
          PROVE  state[build[r]] = "open"
      <3>1. r \in Requests
        BY <1>1 DEF IInv, TypeOK
      <3>2. Running
        BY <1>1, <2>1 DEF IInv, AnsweredWhenEnded
      <3> QED
        BY <1>1, <2>1, <3>1, <3>2 DEF IInv, SharedWhileRunning
    <2>2. \A r \in connected : build[r] \notin late
      BY <1>1 DEF IInv, AnsweredWhenEnded
    <2> QED
      BY <2>1, <2>2 DEF NoUseAfterClose
  <1> QED
    BY <1>1, Inductive, PTL

-----------------------------------------------------------------------------
(* Closing.                                                                *)

\* Every build of the running application is in the Map, and then is closed or
\* waits for it; a hook that returned early met a rejected promise.
ClosingInv ==
    /\ Running => \A b \in 1..builds : \E l \in Labels : contexts[l] = b
    /\ ~Running => \A b \in 1..builds \ late : b \in closing \/ state[b] = "closed"
    /\ app = "stopped" =>
           closing = {} \/ \E b \in closing : state[b] = "failed"
    /\ \A b \in Builds : b > builds => state[b] = "none"

LEMMA AskNewKeepsClosing ==
    ASSUME IInv, ClosingInv, NEW r \in Requests, AskNew(r)
    PROVE  ClosingInv'
<1>1. /\ builds \in Nat /\ builds' = builds + 1 /\ builds' \in Builds
      /\ contexts \in [Labels -> 0..MaxBuilds]
      /\ label[r] \in Labels
      /\ state \in [Builds -> {"none", "pending", "open", "failed", "closed"}]
  BY MaxBuildsAssumption DEF IInv, TypeOK, AskNew, StartBuild, Builds
<1>2. /\ contexts' = [contexts EXCEPT ![label[r]] = builds']
      /\ contexts[label[r]] = NoBuild
      /\ state' = [state EXCEPT ![builds'] = "pending"]
      /\ app' = app /\ closing' = closing
      /\ late' = IF Running THEN late ELSE late \cup {builds'}
  BY DEF AskNew, StartBuild, Running, IInv, TypeOK
<1>3. ASSUME Running, NEW b \in 1..builds'
      PROVE  \E l \in Labels : contexts'[l] = b
  <2>1. CASE b = builds'
    BY <1>1, <1>2, <2>1
  <2>2. CASE b # builds'
    <3>1. b \in 1..builds
      BY <1>1, <2>2
    <3>2. PICK l \in Labels : contexts[l] = b
      BY <1>3, <3>1 DEF ClosingInv
    <3>3. l # label[r]
      BY <1>2, <3>1, <3>2 DEF NoBuild
    <3> QED
      BY <1>1, <1>2, <3>2, <3>3
  <2> QED
    BY <2>1, <2>2
<1>4. ASSUME ~Running, NEW b \in 1..builds' \ late'
      PROVE  b \in closing' \/ state'[b] = "closed"
  <2>1. b \in 1..builds \ late /\ b # builds'
    BY <1>1, <1>2, <1>4
  <2> QED
    BY <1>1, <1>2, <1>4, <2>1 DEF ClosingInv, Builds
<1>5. app # "stopped"
  BY DEF AskNew, StartBuild
<1>6. \A b \in Builds : b > builds' => state'[b] = "none"
  BY <1>1, <1>2 DEF ClosingInv, Builds
<1> QED
  BY <1>2, <1>3, <1>4, <1>5, <1>6 DEF ClosingInv, Running

LEMMA ClosingStep == IInv /\ ClosingInv /\ [Next]_vars => ClosingInv'
<1> SUFFICES ASSUME IInv, ClosingInv, [Next]_vars PROVE ClosingInv'
  OBVIOUS
<1>1. /\ state \in [Builds -> {"none", "pending", "open", "failed", "closed"}]
      /\ contexts \in [Labels -> 0..MaxBuilds]
      /\ builds \in 0..MaxBuilds
      /\ 1..builds \subseteq Builds
  BY MaxBuildsAssumption DEF IInv, TypeOK, Builds
<1>2. ASSUME NEW r \in Requests, AskNew(r) PROVE ClosingInv'
  BY <1>2, AskNewKeepsClosing
<1>3. ASSUME NEW r \in Requests,
             \/ Arrive(r) \/ AskCached(r) \/ Resume(r) \/ Finish(r)
             \/ Disconnect(r)
      PROVE  ClosingInv'
  BY <1>3 DEF Arrive, AskCached, Resume, Finish, Disconnect, cacheVars,
     ClosingInv, Running
<1>4. ASSUME NEW b \in Builds, BuildSettles(b) PROVE ClosingInv'
  <2>1. /\ \A c \in Builds : state[c] \in {"closed", "failed", "none"} =>
                                 state'[c] = state[c]
        /\ app # "stopped"
        /\ UNCHANGED <<contexts, builds, app, closing, late>>
    BY <1>1, <1>4 DEF BuildSettles
  <2> QED
    BY <1>1, <2>1 DEF ClosingInv, Running
<1>5. ASSUME NEW b \in Builds, CloseContext(b) PROVE ClosingInv'
  <2>1. /\ state'[b] = "closed" /\ state[b] = "open"
        /\ \A c \in Builds : c # b => state'[c] = state[c]
        /\ closing' = closing \ {b} /\ app # "stopped"
        /\ UNCHANGED <<contexts, builds, app, late>>
    BY <1>1, <1>5 DEF CloseContext
  <2> QED
    BY <1>1, <2>1 DEF ClosingInv, Running
<1>6. CASE StopListening
  BY <1>6 DEF StopListening, cacheVars, ClosingInv, Running
<1>7. CASE ShutdownHook
  <2>1. /\ Running /\ app' = "closing"
        /\ closing' = Cached
        /\ UNCHANGED <<builds, state, late>>
    BY <1>7 DEF ShutdownHook, TakeContexts, Running
  <2>2. \A b \in 1..builds : b \in Cached
    BY <1>1, <2>1 DEF ClosingInv, Cached, NoBuild
  <2> QED
    BY <2>1, <2>2 DEF ClosingInv, Running
<1>8. CASE HookReturns
  <2>1. /\ app = "closing" /\ app' = "stopped"
        /\ closing = {} \/ \E b \in closing : state[b] = "failed"
        /\ closing \subseteq Builds
        /\ UNCHANGED <<builds, state, closing, late>>
    BY <1>8 DEF HookReturns, cacheVars, IInv, TypeOK
  <2> QED
    BY <2>1 DEF ClosingInv, Running
<1>9. CASE UNCHANGED vars
  BY <1>9 DEF vars, cacheVars, ClosingInv, Running
<1> QED
  BY <1>2, <1>3, <1>4, <1>5, <1>6, <1>7, <1>8, <1>9 DEF Next

LEMMA ClosingInit == Init => ClosingInv
  BY MaxBuildsAssumption DEF Init, ClosingInv, Running, Builds

-----------------------------------------------------------------------------
(* The factory implements SharedInstances.                                 *)

\* Every build has a label, that of the requests that have it, and no label has
\* two that the hook knows of; a Map that was cleared holds only late ones.
OwnersInv ==
    /\ \A r \in Requests :
           step[r] \in {"new", "started"} => build[r] = NoBuild
    /\ \A r \in connected : step[r] # "new"
    /\ \A l, m \in Labels :
           contexts[l] = contexts[m] /\ contexts[l] # NoBuild => l = m
    /\ \A r \in Requests, l \in Labels :
           build[r] # NoBuild /\ contexts[l] = build[r] => label[r] = l
    /\ \A r, q \in Requests :
           build[r] # NoBuild /\ build[r] = build[q] => label[r] = label[q]
    /\ \A r, q \in Requests :
           /\ label[r] = label[q]
           /\ build[r] \notin late \cup {NoBuild}
           /\ build[q] \notin late \cup {NoBuild}
           => build[r] = build[q]
    /\ \A b \in 1..builds \ late : \E r \in Requests : build[r] = b
    /\ closing \subseteq 1..builds \ late
    /\ ~Running =>
           \A l \in Labels : contexts[l] # NoBuild => contexts[l] \in late

LEMMA OwnersInit == Init => OwnersInv
  BY DEF Init, OwnersInv, Running, NoBuild

LEMMA OwnersAskNew ==
    ASSUME IInv, OwnersInv, NEW r \in Requests, AskNew(r)
    PROVE  OwnersInv'
<1>1. PICK b : b = builds + 1
  OBVIOUS
<1>2. /\ builds \in Nat /\ b \in Nat /\ b # NoBuild
      /\ label[r] \in Labels
      /\ step[r] = "started"
      /\ contexts[label[r]] = NoBuild
      /\ builds' = b
      /\ label' = label /\ connected' = connected
      /\ app' = app /\ closing' = closing
      /\ late' = IF Running THEN late ELSE late \cup {b}
      /\ late \subseteq 1..builds
  BY <1>1, MaxBuildsAssumption
  DEF AskNew, StartBuild, Running, IInv, TypeOK, Numbered, NoBuild
<1>3. /\ build'[r] = b /\ step'[r] = "waiting"
      /\ \A q \in Requests \ {r} : build'[q] = build[q] /\ step'[q] = step[q]
      /\ \A q \in Requests : build[q] \in Nat /\ build[q] <= builds
  BY <1>1 DEF AskNew, StartBuild, IInv, TypeOK, Numbered
<1>4. /\ contexts'[label[r]] = b
      /\ \A l \in Labels \ {label[r]} : contexts'[l] = contexts[l]
      /\ \A l \in Labels : contexts[l] \in Nat /\ contexts[l] <= builds
  BY <1>1, <1>2 DEF AskNew, StartBuild, IInv, TypeOK, Numbered
<1>5. \A q \in Requests : build[q] # b
  BY <1>1, <1>2, <1>3
<1>6. \A l \in Labels : contexts[l] # b
  BY <1>1, <1>2, <1>4
<1>7. /\ \A q \in Requests :
             step'[q] \in {"new", "started"} => build'[q] = NoBuild
      /\ \A q \in connected' : step'[q] # "new"
  BY <1>2, <1>3 DEF OwnersInv, IInv, TypeOK
<1>8. /\ \A l, m \in Labels :
             contexts'[l] = contexts'[m] /\ contexts'[l] # NoBuild => l = m
      /\ \A q \in Requests, l \in Labels :
             build'[q] # NoBuild /\ contexts'[l] = build'[q] => label[q] = l
      /\ \A p, q \in Requests :
             build'[p] # NoBuild /\ build'[p] = build'[q] => label[p] = label[q]
  BY <1>2, <1>3, <1>4, <1>5, <1>6 DEF OwnersInv
<1>9. ASSUME NEW q \in Requests, q # r, label[q] = label[r],
             build[q] \notin late' \cup {NoBuild}, b \notin late'
      PROVE  FALSE
  BY <1>2, <1>9 DEF IInv, SharedWhileRunning
<1>10. \A p, q \in Requests :
           /\ label[p] = label[q]
           /\ build'[p] \notin late' \cup {NoBuild}
           /\ build'[q] \notin late' \cup {NoBuild}
           => build'[p] = build'[q]
  BY <1>2, <1>3, <1>9 DEF OwnersInv
<1>11. ASSUME NEW c \in 1..b \ late' PROVE \E q \in Requests : build'[q] = c
  <2>1. CASE c = b
    BY <1>3, <2>1
  <2>2. CASE c # b
    <3>1. c \in 1..builds \ late
      BY <1>1, <1>2, <1>11, <2>2
    <3>2. PICK q \in Requests : build[q] = c
      BY <3>1 DEF OwnersInv
    <3>3. q # r
      BY <1>2, <3>1, <3>2 DEF OwnersInv, NoBuild
    <3> QED
      BY <1>3, <3>2, <3>3
  <2> QED
    BY <2>1, <2>2
<1>12. closing' \subseteq 1..b \ late'
  BY <1>1, <1>2 DEF OwnersInv
<1>13. ~Running => \A l \in Labels :
           contexts'[l] # NoBuild => contexts'[l] \in late'
  BY <1>2, <1>4 DEF OwnersInv
<1> QED
  BY <1>2, <1>7, <1>8, <1>10, <1>11, <1>12, <1>13 DEF OwnersInv, Running

LEMMA OwnersAskCached ==
    ASSUME IInv, OwnersInv, NEW r \in Requests, AskCached(r)
    PROVE  OwnersInv'
<1>1. PICK b : b = contexts[label[r]]
  OBVIOUS
<1>2. /\ label[r] \in Labels /\ b # NoBuild
      /\ step[r] = "started"
      /\ UNCHANGED <<contexts, builds, label, connected, app, closing, late>>
      /\ build'[r] = b /\ step'[r] = "waiting"
      /\ \A q \in Requests \ {r} : build'[q] = build[q] /\ step'[q] = step[q]
  BY <1>1 DEF AskCached, cacheVars, IInv, TypeOK
<1>3. build[r] = NoBuild
  BY <1>2 DEF OwnersInv
<1>4. ASSUME NEW q \in Requests, label[q] = label[r], b \notin late,
             build[q] \notin late \cup {NoBuild}
      PROVE  build[q] = b
  BY <1>1, <1>2, <1>4 DEF OwnersInv, IInv, SharedWhileRunning
<1>5. /\ \A q \in Requests :
             step'[q] \in {"new", "started"} => build'[q] = NoBuild
      /\ \A q \in connected' : step'[q] # "new"
  BY <1>2 DEF OwnersInv, IInv, TypeOK
<1>6. /\ \A q \in Requests, l \in Labels :
             build'[q] # NoBuild /\ contexts[l] = build'[q] => label[q] = l
      /\ \A p, q \in Requests :
             build'[p] # NoBuild /\ build'[p] = build'[q] => label[p] = label[q]
  BY <1>1, <1>2 DEF OwnersInv
<1>7. \A p, q \in Requests :
           /\ label[p] = label[q]
           /\ build'[p] \notin late \cup {NoBuild}
           /\ build'[q] \notin late \cup {NoBuild}
           => build'[p] = build'[q]
  BY <1>2, <1>4 DEF OwnersInv
<1>8. \A c \in 1..builds \ late : \E q \in Requests : build'[q] = c
  <2> TAKE c \in 1..builds \ late
  <2>1. PICK q \in Requests : build[q] = c
    BY DEF OwnersInv
  <2>2. q # r
    BY <1>3, <2>1 DEF NoBuild
  <2> QED
    BY <1>2, <2>1, <2>2
<1> QED
  BY <1>2, <1>5, <1>6, <1>7, <1>8 DEF OwnersInv, Running

LEMMA OwnersStep == IInv /\ ClosingInv /\ OwnersInv /\ [Next]_vars => OwnersInv'
<1> SUFFICES ASSUME IInv, ClosingInv, OwnersInv, [Next]_vars PROVE OwnersInv'
  OBVIOUS
<1>1. ASSUME NEW r \in Requests,
             Arrive(r) \/ Resume(r) \/ Finish(r) \/ Disconnect(r)
      PROVE  OwnersInv'
  <2>1. /\ UNCHANGED <<cacheVars, label, build, app, closing, late>>
        /\ \A q \in Requests : q # r => step'[q] = step[q]
        /\ step'[r] \in {"new", "started"} => step[r] \in {"new", "started"}
        /\ connected' \subseteq connected \cup {r}
        /\ r \in connected' => step'[r] # "new"
    BY <1>1 DEF Arrive, Resume, Finish, Disconnect, cacheVars, IInv, TypeOK,
       OwnersInv
  <2>2. \A q \in connected' : step'[q] # "new"
    BY <2>1 DEF OwnersInv, IInv, TypeOK
  <2>3. \A q \in Requests :
            step'[q] \in {"new", "started"} => build'[q] = NoBuild
    BY <2>1 DEF OwnersInv
  <2> QED
    BY <2>1, <2>2, <2>3 DEF OwnersInv, Running, cacheVars
<1>2. ASSUME NEW b \in Builds, BuildSettles(b) \/ CloseContext(b)
      PROVE  OwnersInv'
  <2>1. /\ UNCHANGED <<contexts, builds, requestVars, app, late>>
        /\ closing' \subseteq closing
    BY <1>2 DEF BuildSettles, CloseContext
  <2> QED
    BY <2>1 DEF OwnersInv, Running, requestVars
<1>3. CASE StopListening \/ HookReturns
  <2>1. /\ UNCHANGED <<contexts, builds, label, step, build, connected, closing,
                       late>>
        /\ Running' <=> Running
    BY <1>3 DEF StopListening, HookReturns, Running, cacheVars, requestVars
  <2> QED
    BY <2>1 DEF OwnersInv
<1>4. CASE ShutdownHook
  <2>1. /\ Running /\ late = {} /\ UNCHANGED <<builds, requestVars, late>>
        /\ closing' = Cached
        /\ contexts' = [l \in Labels |-> NoBuild]
    BY <1>4 DEF ShutdownHook, TakeContexts, Running, IInv, SharedWhileRunning
  <2>2. closing' \subseteq 1..builds
    BY <2>1 DEF Cached, IInv, TypeOK, Numbered, NoBuild
  <2> QED
    BY <2>1, <2>2 DEF OwnersInv, requestVars
<1>5. CASE UNCHANGED vars
  BY <1>5 DEF vars, cacheVars, requestVars, OwnersInv, Running
<1> QED
  BY <1>1, <1>2, <1>3, <1>4, <1>5, OwnersAskNew, OwnersAskCached DEF Next

\* "Closed once on application shutdown so no S3 client leaks": when the
\* application has stopped and none of the builds that were started while it ran
\* had failed, all of these are closed.
THEOREM AllClosed == Spec => []ClosedOnceStopped
<1>1. Spec => []ClosingInv
  BY ClosingInit, ClosingStep, Inductive, PTL DEF Spec
<1>2. Spec => []OwnersInv
  BY <1>1, OwnersInit, OwnersStep, Inductive, PTL DEF Spec
<1>3. ClosingInv /\ OwnersInv => ClosedOnceStopped
  BY DEF ClosingInv, OwnersInv, ClosedOnceStopped, Running
<1> QED
  BY <1>1, <1>2, <1>3, PTL

\* The instance of a label is its build that the hook knows of, if there is one.
OwnedBy(l, b) ==
    /\ b \in Builds \ late
    /\ \E r \in Requests : label[r] = l /\ build[r] = b

LEMMA OwnBuild ==
    ASSUME NEW l, NEW b, OwnedBy(l, b), \A c : OwnedBy(l, c) => c = b
    PROVE  Instance(l) = state[b]
<1>1. Own(l) = {b}
  BY DEF Own, OwnedBy
<1>2. (CHOOSE c \in {b} : TRUE) = b
  OBVIOUS
<1> QED
  BY <1>1, <1>2 DEF Instance

LEMMA NoOwnBuild ==
    ASSUME NEW l, \A c : ~OwnedBy(l, c)
    PROVE  Instance(l) = "none"
<1>1. Own(l) = {}
  BY DEF Own, OwnedBy
<1> QED
  BY <1>1 DEF Instance

InstancesAre ==
    /\ \A l, b : OwnedBy(l, b) => Instance(l) = state[b]
    /\ \A l : (\A b : ~OwnedBy(l, b)) => Instance(l) = "none"

LEMMA InstancesNow == OwnersInv => InstancesAre
<1> SUFFICES ASSUME OwnersInv PROVE InstancesAre
  OBVIOUS
<1>1. ASSUME NEW l, NEW b, NEW c, OwnedBy(l, b), OwnedBy(l, c) PROVE c = b
  BY <1>1 DEF OwnedBy, OwnersInv, Builds, NoBuild
<1> QED
  BY <1>1, OwnBuild, NoOwnBuild DEF InstancesAre

LEMMA InstancesThen == OwnersInv' => InstancesAre'
  BY InstancesNow, PTL

LEMMA InstanceKept ==
    ASSUME OwnersInv, OwnersInv', NEW l,
           \A b : OwnedBy(l, b)' <=> OwnedBy(l, b),
           \A b : OwnedBy(l, b) => state'[b] = state[b]
    PROVE  Instance(l)' = Instance(l)
<1>1. CASE \E b : OwnedBy(l, b)
  BY <1>1, InstancesNow, InstancesThen DEF InstancesAre
<1>2. CASE \A b : ~OwnedBy(l, b)
  BY <1>2, InstancesNow, InstancesThen DEF InstancesAre
<1> QED
  BY <1>1, <1>2

\* What is left alone, and what one label's instance or one user does, as the
\* promise has it.
LEMMA SameInstances ==
    ASSUME \A l \in Labels : Instance(l)' = Instance(l)
    PROVE  [l \in Labels |-> Instance(l)]' = [l \in Labels |-> Instance(l)]
  OBVIOUS

LEMMA OneInstance ==
    ASSUME NEW m \in Labels, NEW s, Instance(m)' = s,
           \A l \in Labels \ {m} : Instance(l)' = Instance(l)
    PROVE  [l \in Labels |-> Instance(l)]'
               = [[l \in Labels |-> Instance(l)] EXCEPT ![m] = s]
  OBVIOUS

LEMMA SameUsers ==
    ASSUME \A r \in Requests : User(r)' = User(r)
    PROVE  [r \in Requests |-> User(r)]' = [r \in Requests |-> User(r)]
  OBVIOUS

LEMMA OneUser ==
    ASSUME NEW q \in Requests, NEW s, User(q)' = s,
           \A r \in Requests \ {q} : User(r)' = User(r)
    PROVE  [r \in Requests |-> User(r)]'
               = [[r \in Requests |-> User(r)] EXCEPT ![q] = s]
  OBVIOUS

\* A request that has a build the hook knows of owns its label's instance.
LEMMA OwnInstance ==
    ASSUME IInv, OwnersInv, NEW r \in Requests,
           build[r] # NoBuild, build[r] \notin late
    PROVE  /\ OwnedBy(label[r], build[r])
           /\ Instance(label[r]) = state[build[r]]
           /\ state[build[r]] # "none"
<1>1. build[r] \in 1..builds /\ build[r] \in Builds
  BY MaxBuildsAssumption DEF IInv, TypeOK, Numbered, NoBuild, Builds
<1>2. OwnedBy(label[r], build[r])
  BY <1>1 DEF OwnedBy
<1> QED
  BY <1>1, <1>2, InstancesNow DEF InstancesAre, IInv, Numbered

\* A request that has a client runs before the hook.
LEMMA ClientsRun ==
    ASSUME IInv, NEW r \in connected, step[r] # "done"
    PROVE  Running /\ late = {} /\ r \in Requests /\ Phase = "running"
  BY DEF IInv, TypeOK, AnsweredWhenEnded, SharedWhileRunning, Running, Phase

-----------------------------------------------------------------------------

LEMMA AskCachedRefines ==
    ASSUME IInv, OwnersInv, OwnersInv', NEW r \in Requests, AskCached(r)
    PROVE  Promise!Ask(r) \/ UNCHANGED Promise!vars
<1>1. PICK b : b = contexts[label[r]]
  OBVIOUS
<1>2. /\ label[r] \in Labels /\ b # NoBuild /\ b \in 1..builds
      /\ step[r] = "started" /\ build[r] = NoBuild
      /\ UNCHANGED <<contexts, builds, state, label, connected, app, late>>
      /\ build'[r] = b /\ step'[r] = "waiting"
      /\ \A q \in Requests \ {r} : build'[q] = build[q] /\ step'[q] = step[q]
  BY <1>1 DEF AskCached, cacheVars, IInv, TypeOK, Numbered, OwnersInv, NoBuild
<1>3. b \notin late => \E q \in Requests : label[q] = label[r] /\ build[q] = b
  <2> SUFFICES ASSUME b \notin late
               PROVE  \E q \in Requests : label[q] = label[r] /\ build[q] = b
    OBVIOUS
  <2>1. PICK q \in Requests : build[q] = b
    BY <1>2 DEF OwnersInv
  <2>2. label[q] = label[r]
    BY <1>1, <1>2, <2>1 DEF OwnersInv
  <2> QED
    BY <2>1, <2>2
<1>4. \A l, c : OwnedBy(l, c)' <=> OwnedBy(l, c)
  BY <1>2, <1>3 DEF OwnedBy, Builds, NoBuild
<1>5. \A l \in Labels : Instance(l)' = Instance(l)
  BY <1>2, <1>4, InstanceKept
<1>6. Phase' = Phase /\ label' = label
      /\ \A q \in Requests \ {r} : User(q)' = User(q)
  BY <1>2 DEF Phase, User
<1>7. CASE r \in connected
  <2>1. Running /\ late = {} /\ Phase = "running"
    BY <1>2, <1>7, ClientsRun
  <2>2. PICK q \in Requests : label[q] = label[r] /\ build[q] = b
    BY <1>3, <2>1
  <2>3. Instance(label[r]) # "none"
    BY <1>2, <2>1, <2>2, OwnInstance
  <2>4. User(r) = "started" /\ User(r)' = "waiting"
    BY <1>2, <1>7 DEF User
  <2> QED
    BY <1>2, <1>5, <1>6, <2>1, <2>3, <2>4, SameInstances, OneUser
    DEF Promise!Ask, Promise!Moves, Promise!Wanted
<1>8. CASE r \notin connected
  <2>1. User(r)' = User(r)
    BY <1>2, <1>8 DEF User
  <2> QED
    BY <1>5, <1>6, <2>1, SameInstances, SameUsers DEF Promise!vars
<1> QED
  BY <1>7, <1>8

LEMMA AskNewRefines ==
    ASSUME IInv, OwnersInv, OwnersInv', NEW r \in Requests, AskNew(r)
    PROVE  Promise!Ask(r) \/ Promise!AskGone(r) \/ UNCHANGED Promise!vars
<1>1. PICK b : b = builds + 1
  OBVIOUS
<1>2. /\ b \in Builds /\ b # NoBuild /\ b \notin late
      /\ label[r] \in Labels
      /\ step[r] = "started" /\ build[r] = NoBuild
      /\ contexts[label[r]] = NoBuild
      /\ label' = label /\ connected' = connected /\ app' = app
      /\ late' = IF Running THEN late ELSE late \cup {b}
      /\ state'[b] = "pending"
      /\ \A c \in Builds \ {b} : state'[c] = state[c]
      /\ build'[r] = b /\ step'[r] = "waiting"
      /\ \A q \in Requests \ {r} : build'[q] = build[q] /\ step'[q] = step[q]
      /\ \A q \in Requests : build[q] # b
  BY <1>1, MaxBuildsAssumption
  DEF AskNew, StartBuild, Running, IInv, TypeOK, Numbered, NoBuild, Builds,
      OwnersInv
<1>3. \A l, c : c # b => (OwnedBy(l, c)' <=> OwnedBy(l, c))
  BY <1>2 DEF OwnedBy, Builds, NoBuild
<1>4. Phase' = Phase /\ label' = label
      /\ \A q \in Requests \ {r} : User(q)' = User(q)
  BY <1>2 DEF Phase, User
<1>5. \A l : ~OwnedBy(l, b)
  BY <1>2 DEF OwnedBy
<1>6. CASE Running
  <2>1. OwnedBy(label[r], b)'
    BY <1>2, <1>6 DEF OwnedBy
  <2>2. Instance(label[r])' = "pending"
    BY <1>2, <2>1, InstancesThen DEF InstancesAre
  <2>3. ASSUME NEW c PROVE ~OwnedBy(label[r], c)
    <3>1. SUFFICES ASSUME OwnedBy(label[r], c) PROVE FALSE
      OBVIOUS
    <3>2. PICK q \in Requests : label[q] = label[r] /\ build[q] = c
      BY <3>1 DEF OwnedBy
    <3>3. contexts[label[r]] = c /\ c # NoBuild
      BY <1>6, <3>1, <3>2
      DEF OwnedBy, Builds, NoBuild, IInv, SharedWhileRunning
    <3> QED
      BY <1>2, <3>3
  <2>4. Instance(label[r]) = "none"
    BY <2>3, InstancesNow DEF InstancesAre
  <2>5. ASSUME NEW l \in Labels \ {label[r]} PROVE Instance(l)' = Instance(l)
    <3>1. ~OwnedBy(l, b)'
      BY <1>2, <2>5 DEF OwnedBy
    <3>2. \A c : OwnedBy(l, c)' <=> OwnedBy(l, c)
      BY <1>3, <1>5, <3>1
    <3>3. \A c : OwnedBy(l, c) => state'[c] = state[c]
      BY <1>2, <1>5 DEF OwnedBy
    <3> QED
      BY <3>2, <3>3, InstanceKept
  <2>6. [l \in Labels |-> Instance(l)]' =
            [[l \in Labels |-> Instance(l)] EXCEPT ![label[r]] = "pending"]
    BY <1>2, <2>2, <2>5, OneInstance
  <2>7. Promise!Wanted(label[r])
    BY <1>2, <2>4, <2>6 DEF Promise!Wanted
  <2>8. Phase = "running"
    BY <1>6 DEF Running, Phase
  <2>9. CASE r \in connected
    <3>1. User(r) = "started" /\ User(r)' = "waiting"
      BY <1>2, <2>9 DEF User
    <3> QED
      BY <1>4, <2>7, <2>8, <3>1, OneUser DEF Promise!Ask, Promise!Moves
  <2>10. CASE r \notin connected
    <3>1. User(r) = "gone" /\ User(r)' = User(r)
      BY <1>2, <2>10 DEF User
    <3> QED
      BY <1>4, <2>7, <2>8, <3>1, SameUsers DEF Promise!AskGone
  <2> QED
    BY <2>9, <2>10
<1>7. CASE ~Running
  <2>1. \A l, c : OwnedBy(l, c)' <=> OwnedBy(l, c)
    BY <1>2, <1>3, <1>5, <1>7 DEF OwnedBy
  <2>2. \A l, c : OwnedBy(l, c) => state'[c] = state[c]
    BY <1>2, <1>5 DEF OwnedBy
  <2>3. \A l \in Labels : Instance(l)' = Instance(l)
    BY <2>1, <2>2, InstanceKept
  <2>4. r \notin connected
    BY <1>2, <1>7, ClientsRun
  <2>5. User(r)' = User(r)
    BY <1>2, <2>4 DEF User
  <2> QED
    BY <1>4, <2>3, <2>5, SameInstances, SameUsers DEF Promise!vars
<1> QED
  BY <1>6, <1>7

LEMMA RequestRefines ==
    ASSUME IInv, OwnersInv, OwnersInv', NEW r \in Requests,
           Arrive(r) \/ Resume(r) \/ Finish(r) \/ Disconnect(r)
    PROVE  \/ Promise!Come(r) \/ Promise!Use(r) \/ Promise!Fail(r)
           \/ Promise!Finish(r) \/ Promise!Leave(r)
           \/ UNCHANGED Promise!vars
<1>1. /\ UNCHANGED <<builds, state, label, build, app, late>>
      /\ \A q \in Requests \ {r} :
             step'[q] = step[q] /\ (q \in connected' <=> q \in connected)
  BY DEF Arrive, Resume, Finish, Disconnect, cacheVars, IInv, TypeOK
<1>2. \A l \in Labels : Instance(l)' = Instance(l)
  <2>1. \A l, b : OwnedBy(l, b)' <=> OwnedBy(l, b)
    BY <1>1 DEF OwnedBy
  <2> QED
    BY <1>1, <2>1, InstanceKept
<1>3. Phase' = Phase /\ \A q \in Requests \ {r} : User(q)' = User(q)
  BY <1>1 DEF Phase, User
<1>4. label[r] \in Labels
  BY DEF IInv, TypeOK
<1>5. CASE Arrive(r)
  <2>1. User(r) = "new" /\ User(r)' = "started" /\ Phase = "running"
    BY <1>5 DEF Arrive, User, Phase, IInv, TypeOK
  <2> QED
    BY <1>1, <1>2, <1>3, <2>1, SameInstances, OneUser
    DEF Promise!Come, Promise!Moves
<1>6. CASE Resume(r) /\ r \in connected
  <2>1. /\ step[r] = "waiting" /\ state[build[r]] # "pending"
        /\ connected' = connected
        /\ step'[r] = IF state[build[r]] = "failed" THEN "done" ELSE "using"
    BY <1>6 DEF Resume, IInv, TypeOK
  <2>2. Running /\ late = {}
    BY <1>6, <2>1, ClientsRun
  <2>3. build[r] # NoBuild /\ build[r] \in Builds
    BY <2>1, MaxBuildsAssumption DEF IInv, TypeOK, Numbered, Builds, NoBuild
  <2>4. Instance(label[r]) = state[build[r]] /\ state[build[r]] # "none"
    BY <2>2, <2>3, OwnInstance
  <2>5. state[build[r]] \in {"open", "failed"}
    BY <2>1, <2>2, <2>3, <2>4 DEF IInv, TypeOK, SharedWhileRunning
  <2>6. User(r) = "waiting" /\ User(r)' = step'[r]
    BY <1>6, <2>1 DEF User
  <2>7. CASE state[build[r]] = "open"
    BY <1>1, <1>2, <1>3, <1>4, <2>1, <2>4, <2>6, <2>7, SameInstances, OneUser
    DEF Promise!Use, Promise!Moves
  <2>8. CASE state[build[r]] = "failed"
    BY <1>1, <1>2, <1>3, <1>4, <2>1, <2>4, <2>6, <2>8, SameInstances, OneUser
    DEF Promise!Fail, Promise!Moves
  <2> QED
    BY <2>5, <2>7, <2>8
<1>7. CASE Finish(r) /\ r \in connected
  <2>1. /\ step[r] = "using" /\ connected' = connected /\ step'[r] = "done"
    BY <1>7 DEF Finish, IInv, TypeOK
  <2>2. Running /\ late = {}
    BY <1>7, <2>1, ClientsRun
  <2>3. build[r] # NoBuild /\ state[build[r]] = "open"
    BY <2>1, <2>2 DEF IInv, Numbered, SharedWhileRunning
  <2>4. Instance(label[r]) = "open"
    BY <2>2, <2>3, OwnInstance
  <2>5. User(r) = "using" /\ User(r)' = "done"
    BY <1>7, <2>1 DEF User
  <2> QED
    BY <1>1, <1>2, <1>3, <1>4, <2>4, <2>5, SameInstances, OneUser
    DEF Promise!Finish, Promise!Moves
<1>8. CASE (Resume(r) \/ Finish(r)) /\ r \notin connected
  <2>1. User(r)' = User(r)
    BY <1>8 DEF Resume, Finish, User, IInv, TypeOK
  <2> QED
    BY <1>1, <1>2, <1>3, <2>1, SameInstances, SameUsers DEF Promise!vars
<1>9. CASE Disconnect(r)
  <2>1. /\ r \in connected /\ r \notin connected' /\ step' = step
        /\ step[r] \in Promise!AtWork
    BY <1>9 DEF Disconnect, IInv, TypeOK, OwnersInv, Promise!AtWork
  <2>2. User(r) = step[r] /\ User(r)' = "gone"
    BY <2>1 DEF User, Promise!AtWork
  <2> QED
    BY <1>1, <1>2, <1>3, <2>1, <2>2, SameInstances, OneUser
    DEF Promise!Leave, Promise!Moves
<1> QED
  BY <1>5, <1>6, <1>7, <1>8, <1>9

\* A build that settles or is closed is one label's instance, or nobody's.
LEMMA BuildRefines ==
    ASSUME IInv, OwnersInv, OwnersInv', NEW b \in Builds,
           BuildSettles(b) \/ CloseContext(b)
    PROVE  \/ \E l \in Labels : Promise!Settle(l) \/ Promise!Close(l)
           \/ UNCHANGED Promise!vars
<1>1. /\ UNCHANGED <<builds, requestVars, app, late>> /\ app # "stopped"
      /\ \A c \in Builds \ {b} : state'[c] = state[c]
      /\ \/ state[b] = "pending" /\ state'[b] \in {"open", "failed"}
         \/ state[b] = "open" /\ state'[b] = "closed" /\ b \in closing
  BY DEF BuildSettles, CloseContext, IInv, TypeOK
<1>2. \A l, c : OwnedBy(l, c)' <=> OwnedBy(l, c)
  BY <1>1 DEF OwnedBy, requestVars
<1>3. /\ label' = label /\ Phase' = Phase
      /\ \A r \in Requests : User(r)' = User(r)
  BY <1>1 DEF requestVars, Phase, User
<1>4. Phase # "stopped" /\ (b \in closing => Phase = "closing")
  <2>1. b \in closing => ~Running
    BY DEF IInv, SharedWhileRunning
  <2>2. ~Running => Phase = "closing"
    BY <1>1 DEF Running, Phase, IInv, TypeOK
  <2>3. Phase # "stopped"
    BY <1>1 DEF Phase
  <2> QED
    BY <2>1, <2>2, <2>3
<1>5. CASE \A l \in Labels : ~OwnedBy(l, b)
  <2>1. \A l \in Labels : Instance(l)' = Instance(l)
    <3> TAKE l \in Labels
    <3>1. \A c : OwnedBy(l, c) => state'[c] = state[c]
      BY <1>1, <1>5 DEF OwnedBy
    <3> QED
      BY <1>2, <3>1, InstanceKept
  <2> QED
    BY <1>3, <2>1, SameInstances, SameUsers DEF Promise!vars
<1>6. ASSUME NEW l \in Labels, OwnedBy(l, b)
      PROVE  Promise!Settle(l) \/ Promise!Close(l)
  <2>1. Instance(l) = state[b] /\ Instance(l)' = state'[b]
    BY <1>2, <1>6, InstancesNow, InstancesThen DEF InstancesAre
  <2>2. ASSUME NEW m \in Labels \ {l} PROVE Instance(m)' = Instance(m)
    <3>1. ~OwnedBy(m, b)
      BY <1>6, <2>2 DEF OwnedBy, OwnersInv, Builds, NoBuild
    <3>2. \A c : OwnedBy(m, c) => state'[c] = state[c]
      BY <1>1, <3>1 DEF OwnedBy
    <3> QED
      BY <1>2, <3>2, InstanceKept
  <2>3. [m \in Labels |-> Instance(m)]' =
            [[m \in Labels |-> Instance(m)] EXCEPT ![l] = state'[b]]
    BY <2>1, <2>2, OneInstance
  <2>4. CASE state[b] = "pending" /\ state'[b] \in {"open", "failed"}
    BY <1>3, <1>4, <2>1, <2>3, <2>4, SameUsers DEF Promise!Settle
  <2>5. CASE state[b] = "open" /\ state'[b] = "closed" /\ b \in closing
    BY <1>3, <1>4, <2>1, <2>3, <2>5, SameUsers DEF Promise!Close
  <2> QED
    BY <1>1, <2>4, <2>5
<1> QED
  BY <1>5, <1>6

\* The application's own steps.
LEMMA LifetimeRefines ==
    ASSUME IInv, ClosingInv, OwnersInv, OwnersInv',
           StopListening \/ ShutdownHook \/ HookReturns
    PROVE  Promise!BeginClosing \/ Promise!Stop \/ UNCHANGED Promise!vars
<1>1. UNCHANGED <<builds, state, label, step, build, connected, late>>
  BY DEF StopListening, ShutdownHook, TakeContexts, HookReturns, cacheVars,
     requestVars
<1>2. \A l, b : OwnedBy(l, b)' <=> OwnedBy(l, b)
  BY <1>1 DEF OwnedBy
<1>3. \A l \in Labels : Instance(l)' = Instance(l)
  BY <1>1, <1>2, InstanceKept
<1>4. \A r \in Requests : User(r)' = User(r)
  BY <1>1 DEF User
<1>5. CASE StopListening
  <2>1. Phase' = Phase
    BY <1>5 DEF StopListening, Phase
  <2> QED
    BY <1>1, <1>3, <1>4, <2>1, SameInstances, SameUsers DEF Promise!vars
<1>6. CASE ShutdownHook
  <2>1. Phase = "running" /\ Phase' = "closing"
    BY <1>6 DEF ShutdownHook, TakeContexts, Phase
  <2>2. \A r \in Requests : User(r) \notin Promise!AtWork
    BY <1>6 DEF ShutdownHook, Drained, User, Promise!AtWork
  <2> QED
    BY <1>1, <1>3, <1>4, <2>1, <2>2, SameInstances, SameUsers
    DEF Promise!BeginClosing
<1>7. CASE HookReturns
  <2>1. /\ app = "closing" /\ Phase = "closing" /\ Phase' = "stopped"
        /\ closing = {} \/ \E b \in closing : state[b] = "failed"
    BY <1>7 DEF HookReturns, Phase
  <2>2. ASSUME closing = {}, NEW l \in Labels
        PROVE  Instance(l) \in {"none", "closed"}
    <3>1. ASSUME NEW b, OwnedBy(l, b) PROVE Instance(l) = "closed"
      <4>1. b \in 1..builds \ late
        BY <3>1 DEF OwnedBy, Builds, IInv, TypeOK, Numbered
      <4>2. state[b] = "closed"
        BY <2>1, <2>2, <4>1 DEF ClosingInv, Running
      <4> QED
        BY <3>1, <4>2, InstancesNow DEF InstancesAre
    <3> QED
      BY <3>1, InstancesNow DEF InstancesAre
  <2>3. ASSUME NEW b \in closing, state[b] = "failed"
        PROVE  \E l \in Labels : Instance(l) = "failed"
    <3>1. PICK r \in Requests : build[r] = b
      BY <2>3 DEF OwnersInv
    <3>2. b \notin late /\ b # NoBuild
      BY <2>3 DEF OwnersInv, NoBuild
    <3>3. Instance(label[r]) = "failed" /\ label[r] \in Labels
      BY <2>3, <3>1, <3>2, OwnInstance DEF IInv, TypeOK
    <3> QED
      BY <3>3
  <2> QED
    BY <1>1, <1>3, <1>4, <2>1, <2>2, <2>3, SameInstances, SameUsers
    DEF Promise!Stop
<1> QED
  BY <1>5, <1>6, <1>7

LEMMA FactoryInit == Init => Promise!Init
<1> SUFFICES ASSUME Init PROVE Promise!Init
  OBVIOUS
<1>1. \A l, b : ~OwnedBy(l, b)
  BY DEF Init, OwnedBy, Builds, NoBuild
<1>2. \A l \in Labels : Instance(l) = "none"
  BY <1>1, NoOwnBuild
<1>3. Phase = "running" /\ \A r \in Requests : User(r) = "new"
  BY DEF Init, Phase, User
<1> QED
  BY <1>2, <1>3 DEF Init, Promise!Init

\* "Created lazily and cached by label, then closed once on application
\* shutdown": to those whose client is there the Map of promises, its builds and
\* the hook are one instance per label, which is asked for, shared, and closed
\* after its use.
THEOREM OneInstancePerLabel == Spec => ImplementsSharedInstances
<1>1. IInv /\ ClosingInv /\ OwnersInv /\ OwnersInv' /\ [Next]_vars =>
          [Promise!Next]_(Promise!vars)
  <2> SUFFICES ASSUME IInv, ClosingInv, OwnersInv, OwnersInv', [Next]_vars
               PROVE  Promise!Next \/ UNCHANGED Promise!vars
    OBVIOUS
  <2>1. CASE UNCHANGED vars
    <3>1. /\ \A l, b : OwnedBy(l, b)' <=> OwnedBy(l, b)
          /\ UNCHANGED <<state, label, Phase>>
          /\ \A r \in Requests : User(r)' = User(r)
      BY <2>1 DEF vars, cacheVars, requestVars, OwnedBy, Phase, User
    <3>2. \A l \in Labels : Instance(l)' = Instance(l)
      BY <3>1, InstanceKept
    <3> QED
      BY <3>1, <3>2, SameInstances, SameUsers DEF Promise!vars
  <2> QED
    BY <2>1, AskCachedRefines, AskNewRefines, RequestRefines, BuildRefines,
       LifetimeRefines DEF Next, Promise!Next
<1>2. Spec => []ClosingInv
  BY ClosingInit, ClosingStep, Inductive, PTL DEF Spec
<1>3. Spec => []OwnersInv
  BY <1>2, OwnersInit, OwnersStep, Inductive, PTL DEF Spec
<1> QED
  BY <1>1, <1>2, <1>3, FactoryInit, Inductive, PTL
  DEF Spec, ImplementsSharedInstances, Promise!Spec

=============================================================================
