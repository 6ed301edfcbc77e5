---------------------------- MODULE ScopedStorage ----------------------------
(***************************************************************************)
(* The cache of auxiliary storage instances                                *)
(* (apps/api/src/common/scoped-storage.factory.ts), with the requests that *)
(* use it (errors-demo/trigger.registry.ts, system/quirks.service.ts) and  *)
(* the application's shutdown (enableShutdownHooks in app.factory.ts).     *)
(* The Map holds promises: the first request for a label starts a build,   *)
(* later ones wait for the same one.  Each piece between awaits is one     *)
(* action.                                                                 *)
(***************************************************************************)
EXTENDS Naturals, FiniteSets

CONSTANTS
    Labels,     \* cache labels: 'unconfigured', 'wrong-credentials', ...
    Requests,   \* requests that need a scoped instance
    MaxBuilds   \* bound of the model: application contexts ever built

ASSUME MaxBuildsAssumption == MaxBuilds \in Nat

VARIABLES
    contexts,   \* the Map: a build, or NoBuild, for each label
    builds,     \* number of createApplicationContext() calls so far
    state,      \* the state of each build
    label,      \* the label each request asks for
    step,       \* where each request is
    build,      \* the build whose promise it awaits
    connected,  \* requests whose client is still there
    app,        \* where the application's lifetime is
    closing,    \* builds the shutdown hook is to close
    late        \* History: builds started after the shutdown hook ran

cacheVars == <<contexts, builds, state>>
requestVars == <<label, step, build, connected>>
vars == <<cacheVars, requestVars, app, closing, late>>

NoBuild == 0
Builds == 1..MaxBuilds

TypeOK ==
    /\ contexts \in [Labels -> 0..MaxBuilds]
    /\ builds \in 0..MaxBuilds
    /\ state \in [Builds -> {"none", "pending", "open", "failed", "closed"}]
    /\ label \in [Requests -> Labels]
    /\ step \in [Requests -> {"new", "started", "waiting", "using", "done"}]
    /\ build \in [Requests -> 0..MaxBuilds]
    /\ connected \subseteq Requests
    /\ app \in {"serving", "draining", "closing", "stopped"}
    /\ closing \subseteq Builds
    /\ late \subseteq Builds

Init ==
    /\ contexts = [l \in Labels |-> NoBuild]
    /\ builds = 0
    /\ state = [b \in Builds |-> "none"]
    /\ label \in [Requests -> Labels]
    /\ step = [r \in Requests |-> "new"]
    /\ build = [r \in Requests |-> NoBuild]
    /\ connected = {}
    /\ app = "serving"
    /\ closing = {}
    /\ late = {}

-----------------------------------------------------------------------------
(* context(), called by storage() and signedUrls().                        *)

Arrive(r) ==
    /\ app = "serving"
    /\ step[r] = "new"
    /\ step' = [step EXCEPT ![r] = "started"]
    /\ connected' = connected \cup {r}
    /\ UNCHANGED <<cacheVars, label, build, app, closing, late>>

\* A label that is cached: wait for the promise that is there, whatever has
\* become of it.
AskCached(r) ==
    /\ app # "stopped"
    /\ step[r] = "started"
    /\ contexts[label[r]] # NoBuild
    /\ build' = [build EXCEPT ![r] = contexts[label[r]]]
    /\ step' = [step EXCEPT ![r] = "waiting"]
    /\ UNCHANGED <<cacheVars, label, connected, app, closing, late>>

StartBuild(r) ==
    /\ app # "stopped"
    /\ step[r] = "started"
    /\ contexts[label[r]] = NoBuild
    /\ builds < MaxBuilds
    /\ builds' = builds + 1
    /\ state' = [state EXCEPT ![builds'] = "pending"]
    /\ build' = [build EXCEPT ![r] = builds']
    /\ step' = [step EXCEPT ![r] = "waiting"]
    /\ late' = IF app = "closing" THEN late \cup {builds'} ELSE late

\* Mutants: the Map is filled once the context is there; it never is.
AskNewCachedWhenReady(r) ==
    /\ StartBuild(r)
    /\ UNCHANGED <<contexts, label, connected, app, closing>>

\* A new label: the promise goes into the Map before anything is awaited.
AskNew(r) ==
    /\ StartBuild(r)
    /\ contexts' = [contexts EXCEPT ![label[r]] = builds']
    /\ UNCHANGED <<label, connected, app, closing>>

BuildSettles(b) ==
    /\ app # "stopped"
    /\ state[b] = "pending"
    /\ \E outcome \in {"open", "failed"} :
            state' = [state EXCEPT ![b] = outcome]
    /\ UNCHANGED <<contexts, builds, requestVars, app, closing, late>>

\* Mutant: nobody handles the rejection.
ResumeIfOpen(r) ==
    /\ app # "stopped"
    /\ step[r] = "waiting"
    /\ state[build[r]] \in {"open", "closed"}
    /\ step' = [step EXCEPT ![r] = "using"]
    /\ UNCHANGED <<cacheVars, label, build, connected, app, closing, late>>

\* The await returns: the request works with the instance, or fails with it.
Resume(r) ==
    /\ app # "stopped"
    /\ step[r] = "waiting"
    /\ state[build[r]] # "pending"
    /\ step' = [step EXCEPT ![r] =
                  IF state[build[r]] = "failed" THEN "done" ELSE "using"]
    /\ UNCHANGED <<cacheVars, label, build, connected, app, closing, late>>

Finish(r) ==
    /\ app # "stopped"
    /\ step[r] = "using"
    /\ step' = [step EXCEPT ![r] = "done"]
    /\ UNCHANGED <<cacheVars, label, build, connected, app, closing, late>>

\* The client goes away; the handler does not notice and runs on.
Disconnect(r) ==
    /\ app # "stopped"
    /\ r \in connected
    /\ step[r] # "done"
    /\ connected' = connected \ {r}
    /\ UNCHANGED <<cacheVars, label, step, build, app, closing, late>>

-----------------------------------------------------------------------------
(* Shutdown.                                                               *)

\* SIGTERM: the listener is closed, and the connections that are open are let
\* finish.
StopListening ==
    /\ app = "serving"
    /\ app' = "draining"
    /\ UNCHANGED <<cacheVars, requestVars, closing, late>>

Drained == \A r \in connected : step[r] = "done"

\* onApplicationShutdown(): take the promises, then clear the Map.
TakeContexts(promises) ==
    /\ closing' = promises
    /\ contexts' = [l \in Labels |-> NoBuild]
    /\ app' = "closing"
    /\ UNCHANGED <<builds, state, requestVars, late>>

Cached == {contexts[l] : l \in Labels} \ {NoBuild}

\* Mutants: the hook runs while requests do; it reads the Map after clearing
\* it; it goes over the labels, cached or not.
ShutdownHookUndrained == app = "draining" /\ TakeContexts(Cached)

ShutdownHookClearsFirst == app = "draining" /\ Drained /\ TakeContexts({})

ShutdownHookAllLabels ==
    app = "draining" /\ Drained /\ TakeContexts({contexts[l] : l \in Labels})

ShutdownHook == app = "draining" /\ Drained /\ TakeContexts(Cached)

\* Mutant: a context that is not ready when its turn comes is passed over.
CloseContextReady(b) ==
    /\ app # "stopped"
    /\ b \in closing
    /\ state[b] # "failed"
    /\ state' = [state EXCEPT ![b] = IF @ = "open" THEN "closed" ELSE @]
    /\ closing' = closing \ {b}
    /\ UNCHANGED <<contexts, builds, requestVars, app, late>>

\* Each promise is awaited, then its context closed.
CloseContext(b) ==
    /\ app # "stopped"
    /\ b \in closing
    /\ state[b] = "open"
    /\ state' = [state EXCEPT ![b] = "closed"]
    /\ closing' = closing \ {b}
    /\ UNCHANGED <<contexts, builds, requestVars, app, late>>

\* Promise.all(): the hook returns when all are closed, or throws as soon as
\* one of the promises turns out to be rejected.  Either way the signal handler
\* of enableShutdownHooks() ends the process, with all that is under way in it.
HookReturns ==
    /\ app = "closing"
    /\ closing = {} \/ \E b \in closing : state[b] = "failed"
    /\ app' = "stopped"
    /\ UNCHANGED <<cacheVars, requestVars, closing, late>>

Next ==
    \/ \E r \in Requests :
        \/ Arrive(r) \/ AskCached(r) \/ AskNew(r)
        \/ Resume(r) \/ Finish(r) \/ Disconnect(r)
    \/ \E b \in Builds : BuildSettles(b) \/ CloseContext(b)
    \/ StopListening \/ ShutdownHook \/ HookReturns

\* The event loop runs what is ready; a build settles, a request that has its
\* instance ends.  Nothing makes requests arrive or the signal come.
Fairness ==
    /\ \A r \in Requests :
        /\ WF_vars(AskCached(r)) /\ WF_vars(AskNew(r))
        /\ WF_vars(Resume(r)) /\ WF_vars(Finish(r))
    /\ \A b \in Builds : WF_vars(BuildSettles(b)) /\ WF_vars(CloseContext(b))
    /\ WF_vars(ShutdownHook) /\ WF_vars(HookReturns)

Spec == Init /\ [][Next]_vars /\ Fairness

-----------------------------------------------------------------------------
(* Properties.                                                             *)

\* Requests that ask for one label at the same time share one context: until
\* the shutdown hook runs there are never two for a label, built or building.
OneContextPerLabel ==
    app \in {"serving", "draining"} =>
        \A r, q \in Requests :
            /\ label[r] = label[q]
            /\ build[r] # NoBuild
            /\ build[q] # NoBuild
            => build[r] = build[q]

\* No request a client waits for ever works with an instance that has been
\* closed: closing waits for the connections, and a label that was asked for
\* while the application drains still counts.  Nor is a context started for it
\* behind the hook's back, which nothing would close.
NoUseAfterClose ==
    \A r \in connected :
        /\ step[r] = "using" => state[build[r]] = "open"
        /\ build[r] \notin late

\* "Closed once on application shutdown so no S3 client leaks": all that was
\* built while the application ran is closed by the time it has stopped, also a
\* context whose build was still under way when the hook ran, unless one of
\* these builds had failed.  (Then the process may end before the others are
\* closed; a failure of a build that was started later excuses nothing.)
ClosedOnceStopped ==
    app = "stopped" /\ (\A b \in 1..builds \ late : state[b] # "failed") =>
        \A b \in 1..builds \ late : state[b] = "closed"

\* A request that asks for an instance gets it, or the failure to build it, as
\* long as the process lives: the promise of a failed build stays in the Map and
\* answers every later request for the label as well.
RequestsAreAnswered ==
    \A r \in Requests : step[r] = "started" ~> step[r] = "done" \/ app = "stopped"

\* Shutdown ends: the hook waits for builds and requests, none waits for it.
ShutdownEnds == app = "draining" ~> app = "stopped"

\* The build of a label that the shutdown hook knows of, and how it is; who
\* still has a client.
Own(l) ==
    {b \in Builds \ late : \E r \in Requests : label[r] = l /\ build[r] = b}
Instance(l) ==
    IF Own(l) = {} THEN "none" ELSE state[CHOOSE b \in Own(l) : TRUE]
User(r) == IF r \in connected \/ step[r] = "new" THEN step[r] ELSE "gone"
Phase == IF app \in {"serving", "draining"} THEN "running" ELSE app

Promise == INSTANCE SharedInstances WITH
    Users <- Requests, phase <- Phase,
    instance <- [l \in Labels |-> Instance(l)],
    user <- [r \in Requests |-> User(r)]

\* The factory gives its users what it promises: one instance per label, "created
\* lazily and cached by label, then closed once on application shutdown".
ImplementsSharedInstances == Promise!Spec

=============================================================================
