----------------------------- MODULE QueryCache -----------------------------
(***************************************************************************)
(* What the dashboard relies on of a query of TanStack Query, its cache of *)
(* server state (apps/web/app/providers.tsx sets it up, the hooks of       *)
(* apps/web/hooks use it).  A query is a record; a fetch is asked for,     *)
(* served by the API and answered in three steps, and other things happen  *)
(* meanwhile.  Data read by the API but not yet answered is in "answer".   *)
(***************************************************************************)

Query(Data) ==
    [loaded : BOOLEAN, data : Data, failed : BOOLEAN, invalidated : BOOLEAN,
     fetch : {"idle", "asked", "served"}, answer : Data]

\* A query nobody has used yet; none stands for undefined data.
NoQuery(none) ==
    [loaded |-> FALSE, data |-> none, failed |-> FALSE, invalidated |-> FALSE,
     fetch |-> "idle", answer |-> none]

\* Query.fetch(): a fetch under way is joined, unless it may be cancelled and
\* there is data to show meanwhile; a first load has no error yet.
Fetching(q, cancelRefetch) ==
    IF q.fetch = "idle" \/ (cancelRefetch /\ q.loaded)
    THEN [q EXCEPT !.fetch = "asked", !.answer = q.data,
                   !.failed = q.failed /\ q.loaded]
    ELSE q

\* An observer mounts: fetched if there is nothing to show, if it was
\* invalidated, or if it is older than staleTime.
Mounting(q, isOld) ==
    IF ~q.loaded \/ q.invalidated \/ isOld THEN Fetching(q, FALSE) ELSE q

\* invalidateQueries() on a query without an observer.
Marked(q) == [q EXCEPT !.invalidated = q.loaded]

\* The API has read what it will answer.
Served(q, data) == [q EXCEPT !.fetch = "served", !.answer = data]

Answered(q) ==
    [q EXCEPT !.loaded = TRUE, !.data = q.answer, !.failed = FALSE,
              !.invalidated = FALSE, !.fetch = "idle"]

\* After the retries.
Failed(q) == [q EXCEPT !.failed = TRUE, !.fetch = "idle", !.answer = q.data]

\* isLoading.
FirstLoad(q) == ~q.loaded /\ q.fetch # "idle"

=============================================================================
