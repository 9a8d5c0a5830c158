----------------------------- MODULE QueryCache -----------------------------
(***************************************************************************)
(* One entry of the query cache the web client keeps (TanStack Query with  *)
(* the defaults of main.tsx: staleTime 0, no refetch on focus), as a       *)
(* constant-level library.  `misses` is history: the writes of this tab    *)
(* that the API committed after it had read what the entry will show, the  *)
(* answer of a fetch that is under way or else the data.                   *)
(***************************************************************************)

CONSTANT Missing   \* no data yet, no fetch under way

\* `answer` holds what the API has when the fetch starts, the oldest data it
\* can come back with.
EmptyEntry == [data |-> Missing, answer |-> Missing, failed |-> FALSE, misses |-> {}]

Fetching(e) == e.answer # Missing

Fetch(e, now) == [e EXCEPT !.answer = now, !.misses = {}]

\* A mounted query is stale at once: it is fetched, unless that is under way.
MountEntry(e, now) == IF Fetching(e) THEN e ELSE Fetch(e, now)

\* Fault: a fetch that is under way is good enough.
InvalidateReusing(e, now) == MountEntry(e, now)

\* invalidateQueries, for a query that is mounted: it is fetched anew, and a
\* fetch that is under way is given up, unless it is the first.  Queries that
\* are not mounted wait for their next mount.
Invalidate(e, now) == IF e.data = Missing /\ Fetching(e) THEN e ELSE Fetch(e, now)

Arrived(e) == [e EXCEPT !.data = e.answer, !.answer = Missing, !.failed = FALSE]

\* The fetch and its retry failed: the data stay, beside the error.
FetchFailed(e) == [e EXCEPT !.answer = Missing, !.failed = TRUE, !.misses = {}]

\* The API commits write `w`: what had been read is behind it.
CommittedAfter(e, w) ==
  IF Fetching(e) \/ (e.data # Missing /\ ~e.failed)
  THEN [e EXCEPT !.misses = @ \cup {w}]
  ELSE e

\* Write `w` goes by the name `v` from now on; no `v`, no more of it.
Renamed(e, w, v) ==
  [e EXCEPT !.misses = IF w \in @ THEN (@ \ {w}) \cup v ELSE @]
=============================================================================
