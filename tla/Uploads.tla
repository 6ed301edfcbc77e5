------------------------------- MODULE Uploads -------------------------------
(***************************************************************************)
(* The upload handlers that record progress                                *)
(* (apps/api/src/uploads/uploads.service.ts and uploads.controller.ts) and *)
(* the session store they share.  A handler runs in three pieces: up to    *)
(* the await of storage.upload(), the onProgress callbacks that run during *)
(* it, and what follows once the promise settles.  Pieces of different     *)
(* requests interleave.  A request is named by its session's id, which is  *)
(* its own; the store is driven only through its methods.                  *)
(***************************************************************************)
EXTENDS UploadSessionStore

CONSTANT MaxSize    \* bound of the model: the largest upload, in chunks

\* What the handlers put in the store.
Snapshot == [loaded : 0..MaxSize, final : BOOLEAN]

ASSUME MaxSizeAssumption ==
    MaxSize \in Nat /\ Snapshots = Snapshot /\ MaxRecorded = MaxSize + 1

VARIABLES
    phase,      \* where each request is
    kind,       \* the route that serves it
    size,       \* its Content-Length or file size, in chunks
    lastLoaded, \* the closure variable of uploadStream
    stored,     \* requests whose object is in the bucket
    polled      \* what the last poll of each session was answered

Requests == SessionIds
Answer == [status : {200, 404}, body : Seq(Snapshots)]
NotAsked == [status |-> 0, body |-> <<>>]
NotFound == [status |-> 404, body |-> <<>>]
Found(list) == [status |-> 200, body |-> list]

uploadVars == <<phase, kind, size, lastLoaded, stored>>
allVars == <<vars, uploadVars, polled>>

Kinds == {"multipart", "stream"}

UploadsTypeOK ==
    /\ TypeOK
    /\ phase \in [Requests -> {"new", "uploading", "landed", "done", "failed"}]
    /\ kind \in [Requests -> Kinds]
    /\ size \in [Requests -> 0..MaxSize]
    /\ lastLoaded \in [Requests -> 0..MaxSize]
    /\ stored \subseteq Requests
    /\ polled \in [Requests -> Answer \cup {NotAsked}]

UploadsInit ==
    /\ Init
    /\ phase = [r \in Requests |-> "new"]
    /\ kind = [r \in Requests |-> "multipart"]
    /\ size = [r \in Requests |-> 0]
    /\ lastLoaded = [r \in Requests |-> 0]
    /\ stored = {}
    /\ polled = [r \in Requests |-> NotAsked]

-----------------------------------------------------------------------------
(* uploadMultipart and uploadStream.                                       *)

\* The session exists before the library is called.
Start(r, route, length) ==
    /\ phase[r] = "new"
    /\ Create(r)
    /\ phase' = [phase EXCEPT ![r] = "uploading"]
    /\ kind' = [kind EXCEPT ![r] = route]
    /\ size' = [size EXCEPT ![r] = length]
    /\ UNCHANGED <<lastLoaded, stored, polled>>

\* Mutant: the callback announces the strategy itself at its last byte.
OnProgressFinal(r) ==
    /\ phase[r] = "uploading"
    /\ lastLoaded[r] < size[r]
    /\ lastLoaded' = [lastLoaded EXCEPT ![r] = @ + 1]
    /\ AppendSnapshot(r, [loaded |-> lastLoaded[r] + 1,
                        final |-> lastLoaded[r] + 1 = size[r]])
    /\ UNCHANGED <<phase, kind, size, stored, polled>>

\* The onProgress callback.  What the library has sent never shrinks.
OnProgress(r) ==
    /\ phase[r] = "uploading"
    /\ lastLoaded[r] < size[r]
    /\ lastLoaded' = [lastLoaded EXCEPT ![r] = @ + 1]
    /\ AppendSnapshot(r, [loaded |-> lastLoaded[r] + 1, final |-> FALSE])
    /\ UNCHANGED <<phase, kind, size, stored, polled>>

\* storage.upload() resolves: the object is in the bucket.  A body below the
\* multipart threshold goes up in one request, with no progress to report.
ObjectLands(r) ==
    /\ phase[r] = "uploading"
    /\ lastLoaded[r] \in {0, size[r]}
    /\ phase' = [phase EXCEPT ![r] = "landed"]
    /\ stored' = stored \cup {r}
    /\ UNCHANGED <<vars, kind, size, lastLoaded, polled>>

\* storage.upload() rejects: the exception leaves the handler, and the session
\* stays in the store with whatever was recorded.
UploadRejects(r) ==
    /\ phase[r] = "uploading"
    /\ phase' = [phase EXCEPT ![r] = "failed"]
    /\ UNCHANGED <<vars, kind, size, lastLoaded, stored, polled>>

\* Mutant: the stream's Content-Length is not known, so its size stays 0.
FinalCountUnknown(r) == IF kind[r] = "multipart" THEN size[r] ELSE 0

\* The byte count of the last snapshot: the file's size, or for a stream what
\* the library last reported.
FinalCount(r) == IF kind[r] = "multipart" THEN size[r] ELSE lastLoaded[r]

\* The continuation of the await: the final snapshot, then the response, which
\* is where the client learns the session id.
Respond(r) ==
    /\ phase[r] = "landed"
    /\ AppendSnapshot(r, [loaded |-> FinalCount(r), final |-> TRUE])
    /\ phase' = [phase EXCEPT ![r] = "done"]
    /\ UNCHANGED <<kind, size, lastLoaded, stored, polled>>

-----------------------------------------------------------------------------
(* GET /uploads/sessions/:id.                                              *)

\* Mutant: the id is handed out as soon as the session exists.
ClientKnowsIdEarly(r) == phase[r] # "new"

ClientKnowsId(r) == phase[r] = "done"

PollHit(r) ==
    /\ ClientKnowsId(r)
    /\ GetHit(r)
    /\ polled' = [polled EXCEPT ![r] = Found(snapshots[r])]
    /\ UNCHANGED uploadVars

PollMiss(r) ==
    /\ ClientKnowsId(r)
    /\ GetMiss(r)
    /\ polled' = [polled EXCEPT ![r] = NotFound]
    /\ UNCHANGED uploadVars

UploadsNext ==
    \E r \in Requests :
        \/ \E route \in Kinds, length \in 0..MaxSize : Start(r, route, length)
        \/ OnProgress(r) \/ ObjectLands(r) \/ UploadRejects(r)
        \/ Respond(r) \/ PollHit(r) \/ PollMiss(r)

UploadsSpec == UploadsInit /\ [][UploadsNext]_allVars

-----------------------------------------------------------------------------
(* Safety.                                                                 *)

\* A snapshot that announces the upload's strategy is recorded only once the
\* object is in the bucket, however the callbacks and the continuation fall
\* between those of other requests.  And a session that is still there when its
\* id is used shows a finished upload: the response that carries the id leaves
\* after the final snapshot is in.
FinalMeansStored ==
    \A r \in Requests :
        /\ \A i \in DOMAIN recorded[r] :
            recorded[r][i].final => r \in stored /\ i = Len(recorded[r])
        /\ polled[r].status = 200 =>
            polled[r].body # <<>> /\ polled[r].body[Len(polled[r].body)].final

\* A progress bar drawn from a session never moves backwards, not even at the
\* final snapshot, which is computed in another way than the others.
ProgressNeverGoesBack ==
    \A r \in Live : \A i, j \in DOMAIN snapshots[r] :
        i < j => snapshots[r][i].loaded <= snapshots[r][j].loaded

=============================================================================
