------------------------------- MODULE Vault -------------------------------
(***************************************************************************)
(* The vault handlers that touch the bucket more than once                 *)
(* (apps/api/src/vault/vault.service.ts): preview (head, then download),   *)
(* deleteOne (head, then delete) and copy (head, then copy, then perhaps   *)
(* delete), running against each other and against uploads.  S3 offers no  *)
(* transaction: every provider call is one action, and the process may die *)
(* between two of them.                                                    *)
(***************************************************************************)
EXTENDS Naturals, FiniteSets

CONSTANTS
    Keys,       \* raw object keys of the default bucket
    Requests,   \* requests to the vault
    MaxVersion  \* bound of the model: objects ever uploaded

ASSUME MaxVersionAssumption == MaxVersion \in Nat \ {0}

\* A stored object is named by the upload that made it; copies keep its name.
\* Objects with an odd name are over the preview limit.
Absent == 0
Versions == 1..MaxVersion
TooLarge(v) == v % 2 = 1

\* The second bucket, target of destination = 'archive', holds the same keys.
Buckets == {"vault", "archive"}
Places == Buckets \X Keys
InVault(k) == <<"vault", k>>

VARIABLES
    bucket,     \* the object at each place
    uploaded,   \* number of uploads so far
    op,         \* what each request asks for
    step,       \* where it is
    seen,       \* what its first call found under its key
    answer,     \* what it answered
    \* History: nothing in the code reads these two.
    disturbed,  \* requests since whose head() somebody else has written
                \* where they work
    held        \* what others have left under the key in a request's time

providerVars == <<bucket, uploaded>>
requestVars == <<op, step, seen, answer>>
historyVars == <<disturbed, held>>
vars == <<providerVars, requestVars, historyVars>>

Ops == [kind : {"preview", "delete"}, key : Keys]
       \cup [kind : {"copy", "rename"}, key : Keys, to : Places]
Steps == {"new", "found", "absent", "copied", "done", "failed", "crashed"}
\* An answer is a status and the object, or flag, in the body.
Answers == [status : {0, 200, 404, 413, 502},
            object : 0..MaxVersion, warned : BOOLEAN]
NoAnswer == [status |-> 0, object |-> Absent, warned |-> FALSE]
Reply(code, v, flag) == [status |-> code, object |-> v, warned |-> flag]

TypeOK ==
    /\ bucket \in [Places -> 0..MaxVersion]
    /\ uploaded \in 0..MaxVersion
    /\ op \in [Requests -> Ops]
    /\ step \in [Requests -> Steps]
    /\ seen \in [Requests -> 0..MaxVersion]
    /\ answer \in [Requests -> Answers]
    /\ disturbed \subseteq Requests
    /\ held \in [Requests -> SUBSET (0..MaxVersion)]

Running(r) == step[r] \in {"found", "absent", "copied"}

\* The places a request reads or writes.
WorksOn(r) ==
    {InVault(op[r].key)}
        \cup (IF op[r].kind \in {"copy", "rename"} THEN {op[r].to} ELSE {})

Init ==
    /\ bucket = [p \in Places |-> Absent]
    /\ uploaded = 0
    /\ op \in [Requests -> Ops]
    /\ step = [r \in Requests |-> "new"]
    /\ seen = [r \in Requests |-> Absent]
    /\ answer = [r \in Requests |-> NoAnswer]
    /\ disturbed = {}
    /\ held = [r \in Requests |-> {}]

\* Somebody (a request, or no one of ours) stores v at place p.
Write(p, v, writers) ==
    /\ bucket' = [bucket EXCEPT ![p] = v]
    /\ disturbed' = disturbed \cup
         {r \in Requests \ writers : step[r] # "new" /\ p \in WorksOn(r)}
    /\ held' = [r \in Requests |->
                  IF Running(r) /\ r \notin writers /\ p = InVault(op[r].key)
                  THEN held[r] \cup {v} ELSE held[r]]

Finish(r, code, v, flag) ==
    /\ step' = [step EXCEPT ![r] = "done"]
    /\ answer' = [answer EXCEPT ![r] = Reply(code, v, flag)]

-----------------------------------------------------------------------------
(* Uploads, from anywhere: a new object replaces what the key held.        *)

Upload(k) ==
    /\ uploaded < MaxVersion
    /\ uploaded' = uploaded + 1
    /\ Write(InVault(k), uploaded', {})
    /\ UNCHANGED requestVars

-----------------------------------------------------------------------------
(* The first call of every handler is a head().                            *)

HeadFinds(r) ==
    /\ step[r] = "new"
    /\ LET v == bucket[InVault(op[r].key)] IN
       /\ seen' = [seen EXCEPT ![r] = v]
       /\ held' = [held EXCEPT ![r] = {v}]
       /\ step' = [step EXCEPT ![r] = IF v = Absent THEN "absent" ELSE "found"]
    /\ UNCHANGED <<providerVars, op, answer, disturbed>>

\* Only preview() and copy() turn an absent object into a 404; deleteOne()
\* goes on, and remembers it for `warned`.
AnswersNotFound(r) ==
    /\ step[r] = "absent"
    /\ op[r].kind # "delete"
    /\ Finish(r, 404, Absent, FALSE)
    /\ UNCHANGED <<providerVars, op, seen, historyVars>>

\* exists() lets every other error through, and so do the calls after it.
ProviderFails(r) ==
    /\ step[r] = "new" \/ Running(r)
    /\ step' = [step EXCEPT ![r] = "failed"]
    /\ answer' = [answer EXCEPT ![r] = Reply(502, Absent, FALSE)]
    /\ UNCHANGED <<providerVars, op, seen, historyVars>>

\* The process stops: what was done stays done, nobody is answered.
Crash ==
    /\ \E r \in Requests : Running(r)
    /\ step' = [r \in Requests |-> IF Running(r) THEN "crashed" ELSE step[r]]
    /\ UNCHANGED <<providerVars, op, seen, answer, historyVars>>

-----------------------------------------------------------------------------
(* preview().                                                              *)

\* The guard looks at the object head() saw.
PreviewRefuses(r) ==
    /\ op[r].kind = "preview"
    /\ step[r] = "found"
    /\ TooLarge(seen[r])
    /\ Finish(r, 413, Absent, FALSE)
    /\ UNCHANGED <<providerVars, op, seen, historyVars>>

\* Mutant: the download is not awaited, the body is the promise.
PreviewAnswersPromise(r) ==
    /\ op[r].kind = "preview"
    /\ step[r] = "found"
    /\ ~TooLarge(seen[r])
    /\ step' = [step EXCEPT ![r] = "pending"]
    /\ UNCHANGED <<providerVars, op, seen, answer, historyVars>>

\* downloadBuffer() answers the bytes and the metadata of one object, the one
\* stored by now, and both go into the response.
PreviewDownloads(r) ==
    /\ op[r].kind = "preview"
    /\ step[r] = "found"
    /\ ~TooLarge(seen[r])
    /\ LET v == bucket[InVault(op[r].key)] IN
       IF v = Absent THEN Finish(r, 404, Absent, FALSE)
                     ELSE Finish(r, 200, v, FALSE)
    /\ UNCHANGED <<providerVars, op, seen, historyVars>>

-----------------------------------------------------------------------------
(* deleteOne().                                                            *)

\* Mutant: the flag without its negation.
WarnedInverted(r) == seen[r] # Absent

\* The flag is what the first call found, not what the delete found.
Warned(r) == seen[r] = Absent

DeleteOne(r) ==
    /\ op[r].kind = "delete"
    /\ step[r] \in {"found", "absent"}
    /\ Write(InVault(op[r].key), Absent, {r})
    /\ Finish(r, 200, Absent, Warned(r))
    /\ UNCHANGED <<uploaded, op, seen>>

-----------------------------------------------------------------------------
(* copy().                                                                 *)

\* Mutants: deleteSource is forgotten; the delete does not wait for the copy.
CopyKeepsSource(r) ==
    /\ op[r].kind \in {"copy", "rename"}
    /\ step[r] = "found"
    /\ LET v == bucket[InVault(op[r].key)] IN
       /\ v # Absent
       /\ Write(op[r].to, v, {r})
       /\ Finish(r, 200, v, FALSE)
    /\ UNCHANGED <<uploaded, op, seen>>

DeleteSourceUnawaited(r) ==
    /\ op[r].kind = "rename"
    /\ step[r] \in {"found", "copied"}
    /\ Write(InVault(op[r].key), Absent, {r})
    /\ Finish(r, 200, answer[r].object, FALSE)
    /\ UNCHANGED <<uploaded, op, seen>>

\* CopyObject reads and writes at the provider in one call.  Copying an object
\* onto itself is refused by S3.
CopyLands(r) ==
    /\ op[r].kind \in {"copy", "rename"}
    /\ step[r] = "found"
    /\ op[r].to # InVault(op[r].key)
    /\ LET v == bucket[InVault(op[r].key)] IN
       /\ v # Absent
       /\ Write(op[r].to, v, {r})
       /\ IF op[r].kind = "rename"
          THEN /\ step' = [step EXCEPT ![r] = "copied"]
               /\ answer' = [answer EXCEPT ![r].object = v]
          ELSE Finish(r, 200, v, FALSE)
    /\ UNCHANGED <<uploaded, op, seen>>

\* The source went away since the precheck: CopyObject finds nothing.
CopyFindsNothing(r) ==
    /\ op[r].kind \in {"copy", "rename"}
    /\ step[r] = "found"
    /\ bucket[InVault(op[r].key)] = Absent
    /\ Finish(r, 404, Absent, FALSE)
    /\ UNCHANGED <<providerVars, op, seen, historyVars>>

\* deleteSource, after the copy: whatever the key holds by now goes.
DeleteSource(r) ==
    /\ op[r].kind = "rename"
    /\ step[r] = "copied"
    /\ Write(InVault(op[r].key), Absent, {r})
    /\ Finish(r, 200, answer[r].object, FALSE)
    /\ UNCHANGED <<uploaded, op, seen>>

Next ==
    \/ \E k \in Keys : Upload(k)
    \/ \E r \in Requests :
        \/ HeadFinds(r) \/ AnswersNotFound(r) \/ ProviderFails(r)
        \/ PreviewRefuses(r) \/ PreviewDownloads(r)
        \/ DeleteOne(r)
        \/ CopyLands(r) \/ CopyFindsNothing(r) \/ DeleteSource(r)
    \/ Crash

Spec == Init /\ [][Next]_vars

-----------------------------------------------------------------------------
(* Safety.                                                                 *)

\* What r answers was true of its key at some moment of r's time.
AnswerWasTrue(r) ==
    LET a == answer[r] IN
    /\ a.status = 404 => Absent \in held[r]
    /\ a.status = 413 => \E v \in held[r] : v # Absent /\ TooLarge(v)
    /\ a.status = 200 =>
        IF op[r].kind = "delete"
        THEN \E v \in held[r] : a.warned = (v = Absent)
        ELSE a.object \in held[r] \ {Absent}

\* What a request answers was true of its key at some moment of its own time,
\* whatever the others did meanwhile: the object it returns or copied was
\* stored, a 404 means the key was empty, a 413 that the object was too large,
\* and `warned` tells whether the delete found anything.
AnswersWereTrue == \A r \in Requests : AnswerWasTrue(r)

Undisturbed(r) == r \notin disturbed /\ step[r] # "new"

\* A rename nobody disturbed moves the object: gone from the source, and the
\* same one at the destination.  And at no moment, nor after a failure or a crash
\* at any of its steps, is the object in neither place.
RenameMovesOrKeeps ==
    \A r \in Requests :
        LET source == bucket[InVault(op[r].key)] target == bucket[op[r].to] IN
        Undisturbed(r) /\ seen[r] # Absent /\ op[r].kind \in {"copy", "rename"} =>
            /\ seen[r] \in {source, target}
            /\ op[r].kind = "rename" /\ answer[r].status = 200 =>
                   source = Absent /\ target = seen[r]

=============================================================================
