----------------------------- MODULE SearchOverlay -----------------------------
(***************************************************************************)
(* The search overlay of the web client: a box whose text starts a search  *)
(* after a pause, searches that are aborted by the next one, and answers   *)
(* that come in any order or not at all.                                   *)
(*                                                                         *)
(* web/src/lib/components/SearchOverlay.svelte, api/search.ts.             *)
(*                                                                         *)
(* The hits of a query are the query; which of them is selected is left    *)
(* out.  None is the empty query, and no hits.                             *)
(***************************************************************************)
EXTENDS Naturals, Nothing

CONSTANTS
    Queries,
    MaxRequests     \* bound: requests not yet settled

SearchAssumption == None \notin Queries /\ MaxRequests \in Nat

VARIABLES
    open, query,
    timer,          \* the text the debounce will search for
    requests,       \* requests not yet settled
    lastAbort,      \* the request the next search or close() aborts
    lastQueryRun,
    hits, loading, error

searchVars == <<open, query, timer, requests, lastAbort, lastQueryRun, hits, loading, error>>
results == <<hits, loading, error>>

------------------------------------------------------------------------------
(* State.                                                                  *)

SearchText == Queries \cup {None}
NoTimer == [set |-> FALSE, text |-> None]
RequestIds == 1 .. MaxRequests
SearchRequest == [id: RequestIds, text: Queries, aborted: BOOLEAN]

SearchTypeOK ==
    /\ open \in BOOLEAN /\ query \in SearchText
    /\ timer \in [set: BOOLEAN, text: SearchText]
    /\ requests \in SUBSET SearchRequest
    /\ lastAbort \in RequestIds \cup {0}
    /\ lastQueryRun \in SearchText
    /\ hits \in SearchText /\ loading \in BOOLEAN /\ error \in BOOLEAN

SearchInit ==
    /\ open = FALSE /\ query = None /\ timer = NoTimer
    /\ requests = {} /\ lastAbort = 0 /\ lastQueryRun = None
    /\ hits = None /\ loading = FALSE /\ error = FALSE

\* The requests after lastAbort was aborted.
AbortedRequests(R) == {IF r.id = lastAbort THEN [r EXCEPT !.aborted = TRUE] ELSE r : r \in R}
InUse == {r.id : r \in requests}

------------------------------------------------------------------------------
(* The box.                                                                *)

\* Mod-K works while the overlay is open, too.
Open ==
    /\ ~open
    /\ open' = TRUE
    /\ UNCHANGED <<query, timer, requests, lastAbort, lastQueryRun, results>>

\* Escape, a click outside, or a hit that is opened; the debounce goes on.
Close ==
    /\ open
    /\ open' = FALSE /\ query' = None
    /\ hits' = None /\ error' = FALSE
    /\ requests' = AbortedRequests(requests) /\ lastAbort' = 0
    /\ UNCHANGED <<timer, lastQueryRun, loading>>

\* The debounce starts over with the new text.
Type(q) ==
    /\ open /\ q # query
    /\ query' = q
    /\ timer' = [set |-> TRUE, text |-> q]
    /\ UNCHANGED <<open, requests, lastAbort, lastQueryRun, results>>

\* An empty text only clears what is shown.
RunEmpty ==
    /\ timer.set /\ timer.text = None
    /\ timer' = NoTimer
    /\ hits' = None /\ loading' = FALSE /\ error' = FALSE
    /\ UNCHANGED <<open, query, requests, lastAbort, lastQueryRun>>

RunSearch ==
    /\ timer.set /\ timer.text # None
    /\ timer' = NoTimer
    /\ \E i \in RequestIds \ InUse :
        /\ requests' = AbortedRequests(requests) \cup
                {[id |-> i, text |-> timer.text, aborted |-> FALSE]}
        /\ lastAbort' = i
    /\ lastQueryRun' = timer.text
    /\ loading' = TRUE
    /\ UNCHANGED <<open, query, hits, error>>

------------------------------------------------------------------------------
(* Answers.                                                                *)

\* The end of a request that was not aborted while it was the latest one.
Settle(r) ==
    /\ requests' = requests \ {r}
    /\ loading' = (loading /\ lastQueryRun # r.text)
    /\ UNCHANGED <<open, query, timer, lastAbort, lastQueryRun>>

\* Faulty: whatever arrives is shown.
CommitsAnything(r) == TRUE

\* The race guard, with what the abort already keeps out.
Commits(r) == ~r.aborted /\ lastQueryRun = r.text

HitsArrive(r) ==
    /\ r \in requests
    /\ IF Commits(r) THEN hits' = r.text /\ error' = FALSE ELSE UNCHANGED <<hits, error>>
    /\ Settle(r)

\* A failure is shown whichever search it is of.
SearchFails(r) ==
    /\ r \in requests /\ ~r.aborted
    /\ hits' = None /\ error' = TRUE
    /\ Settle(r)

SearchNext ==
    \/ Open \/ Close \/ RunEmpty \/ RunSearch
    \/ \E q \in SearchText : Type(q)
    \/ \E r \in requests : HitsArrive(r) \/ SearchFails(r)

SearchSpec == SearchInit /\ [][SearchNext]_searchVars

------------------------------------------------------------------------------
(* Properties.                                                             *)

\* Once typing has paused and every search is settled, an error is shown or
\* the hits of the text in the box: not those of a text that was typed
\* before, cleared, typed again, or typed before the overlay was closed and
\* opened again.
HitsMatchQuery ==
    open /\ query # None /\ ~timer.set /\ (\A r \in requests : r.aborted) /\ ~error =>
        hits = query /\ lastQueryRun = query

==============================================================================
