----------------------------- MODULE FileSearch -----------------------------
(***************************************************************************)
(* src/plugins/filesearch: a query typed key by key, a debounced pipeline  *)
(* of two processes (fd | fzf) for each, a thread pool that turns paths    *)
(* into rows, and a narrowing in memory that spares a new search.          *)
(***************************************************************************)
EXTENDS Naturals, FiniteSets, FiniteSetsExt

CONSTANTS
    Terms,       \* what can be typed, "" apart
    Extensions,  \* <<t, s>>: t starts with s
    Hits,        \* Hits[t]: the files fzf finds for t, fewer for a longer term
    Containing,  \* Containing[t]: those of them that contain t, letter by letter
    MaxResults,  \* m_config.maxResults
    MaxKeys      \* bound on the calls of the user

VARIABLES
    query,       \* m_query, trimmed
    pending,     \* [term, debounce]: m_pendingTerm, the debounce timer
    request,     \* m_currentRequestId
    pipeline,    \* ProcessPipeline: the request it runs, or none
    builds,      \* lists being made on the pool, and those on their way back
    shown,       \* m_results
    completed,   \* m_lastCompletedTerm, m_lastCompletedCount
    searching,   \* m_searching
    past         \* history: keys typed, what may have spoilt the list

searchVars == <<query, pending, request, pipeline, builds, shown, completed, searching, past>>

NoRun == [id |-> 0, term |-> ""]               \* killProcesses
Started(id, t) == [id |-> id, term |-> t]      \* startSearch

Init ==
    /\ query = ""
    /\ pending = [term |-> "", debounce |-> FALSE]
    /\ request = 0
    /\ pipeline = NoRun
    /\ builds = {}
    /\ shown = {}
    /\ completed = [term |-> "", count |-> 0]
    /\ searching = FALSE
    /\ past = [keys |-> 0, overtaken |-> FALSE, emptied |-> FALSE, failed |-> FALSE]

Typed == past.keys < MaxKeys
Key(overtaken, emptied) ==
    past' = [past EXCEPT !.keys = @ + 1, !.overtaken = overtaken, !.emptied = emptied]

\* A list of the current request is still being built.
Building == \E b \in builds : b.id = request

-----------------------------------------------------------------------------
(* setQuery, a disjunct for each of its ways out.                          *)

ClearQuery ==
    /\ Typed
    /\ query' = "" /\ shown' = {} /\ searching' = FALSE
    /\ pending' = [term |-> "", debounce |-> FALSE]
    /\ pipeline' = NoRun
    /\ Key(past.overtaken \/ Building, TRUE)
    /\ UNCHANGED <<request, builds, completed>>

Repeats(t) == t = pending.term /\ searching

SameTerm ==
    /\ Typed
    /\ \E t \in Terms : Repeats(t) /\ query' = t
    /\ past' = [past EXCEPT !.keys = @ + 1]
    /\ UNCHANGED <<pending, request, pipeline, builds, shown, completed, searching>>

Narrows(t) ==
    /\ completed.count > 0 /\ completed.count < MaxResults
    /\ t = completed.term \/ <<t, completed.term>> \in Extensions

\* tryInMemoryNarrowing: a filter of what is shown, stricter than fzf's; the request
\* stays current.
Narrow ==
    /\ Typed
    /\ \E t \in Terms :
         /\ ~Repeats(t) /\ Narrows(t)
         /\ query' = t
         /\ pending' = [term |-> t, debounce |-> FALSE]
         /\ shown' = shown \cap Containing[t]
         /\ completed' = [term |-> t, count |-> Cardinality(shown')]
    /\ pipeline' = NoRun /\ searching' = FALSE
    /\ Key(past.overtaken \/ Building, past.emptied)
    /\ UNCHANGED <<request, builds>>

\* A new request: at once if enough was typed, or when the timer fires.
NewRequest ==
    /\ Typed
    /\ \E t \in Terms :
         /\ ~Repeats(t) /\ ~Narrows(t)
         /\ query' = t
         /\ request' = request + 1
         /\ \/ /\ pending' = [term |-> t, debounce |-> TRUE]
               /\ pipeline' = NoRun
               /\ UNCHANGED searching
            \/ /\ pending' = [term |-> t, debounce |-> FALSE]
               /\ pipeline' = Started(request', t)
               /\ searching' = TRUE
    /\ Key(FALSE, past.emptied)
    /\ UNCHANGED <<builds, shown, completed>>

\* cancel(): what is shown stays, and so does the request.
Cancel ==
    /\ Typed
    /\ pending' = [pending EXCEPT !.debounce = FALSE]
    /\ pipeline' = NoRun /\ searching' = FALSE
    /\ Key(TRUE, past.emptied)
    /\ UNCHANGED <<query, request, builds, shown, completed>>

-----------------------------------------------------------------------------
OnDebounceTimeout ==
    /\ pending.debounce
    /\ pending' = [pending EXCEPT !.debounce = FALSE]
    /\ pipeline' = Started(request, pending.term)
    /\ searching' = TRUE
    /\ UNCHANGED <<query, request, builds, shown, completed, past>>

\* onFzfReadyRead stops fzf as soon as it has printed MaxResults paths.
Enough(t) == IF Cardinality(Hits[t]) < MaxResults THEN {} ELSE kSubset(MaxResults, Hits[t])

\* onFzfFinished: all that fzf has found.
Complete(t) == IF Cardinality(Hits[t]) <= MaxResults THEN {Hits[t]} ELSE {}

Found(t) == Enough(t) \cup Complete(t)

\* onTimeout reports an empty list, as if nothing had been found.
TimedOut == {{}}

\* searchFinished: the pool builds the rows.
PipelineFinishes ==
    /\ pipeline # NoRun
    /\ pipeline' = NoRun
    /\ \E list \in Found(pipeline.term) \cup TimedOut :
         /\ builds' = builds \cup {[id |-> pipeline.id, term |-> pending.term, list |-> list]}
         /\ past' = [past EXCEPT !.failed = list \notin Found(pipeline.term)]
    /\ UNCHANGED <<query, pending, request, shown, completed, searching>>

\* searchError: the list is emptied, what was completed is not forgotten.
PipelineFails ==
    /\ pipeline # NoRun
    /\ pipeline' = NoRun
    /\ shown' = {} /\ searching' = FALSE
    /\ past' = [past EXCEPT !.failed = TRUE, !.emptied = TRUE]
    /\ UNCHANGED <<query, pending, request, builds, completed>>

\* Mutant: the rows of an earlier request are shown.
DeliverAny ==
    \E b \in builds :
        /\ builds' = builds \ {b}
        /\ shown' = b.list /\ searching' = FALSE
        /\ completed' = [term |-> b.term, count |-> Cardinality(b.list)]
        /\ past' = [past EXCEPT !.emptied = FALSE]
        /\ UNCHANGED <<query, pending, request, pipeline>>

\* The rows arrive in the GUI's thread; those of an earlier request are dropped.
Deliver ==
    \E b \in builds :
        /\ builds' = builds \ {b}
        /\ IF b.id # request THEN UNCHANGED <<shown, completed, searching, past>>
           ELSE /\ shown' = b.list /\ searching' = FALSE
                /\ completed' = [term |-> b.term, count |-> Cardinality(b.list)]
                /\ past' = [past EXCEPT !.emptied = FALSE]
        /\ UNCHANGED <<query, pending, request, pipeline>>

Next ==
    \/ ClearQuery \/ SameTerm \/ Narrow \/ NewRequest \/ Cancel
    \/ OnDebounceTimeout \/ PipelineFinishes \/ PipelineFails \/ Deliver

Spec == Init /\ [][Next]_searchVars

-----------------------------------------------------------------------------
\* Every variable holds what its C++ type and its handlers allow: above all, the
\* processes only ever run for the current request.
TypeOK ==
    /\ query \in Terms \cup {""} /\ pending.term \in Terms \cup {""}
    /\ pipeline = NoRun \/ pipeline = [id |-> request, term |-> pending.term]
    /\ pending.debounce => pipeline = NoRun
    /\ \A b \in builds : b.id \in 1..request
    /\ Cardinality(shown) <= MaxResults
    /\ past.keys \in 0..MaxKeys

Idle == ~pending.debounce /\ pipeline = NoRun /\ builds = {}

\* What fzf finds, or all the files with that name out of what it found for less.
Answers(t) == Found(t) \cup {list \in SUBSET Hits[t] : Containing[t] \subseteq list}

(* When everything has come to rest the list is the one of the query.  It is
   another one only if a list was being built when the search was cleared,
   narrowed or cancelled (overtaken), if the list that was narrowed had been
   emptied while m_lastCompletedTerm stayed (emptied), or if the search
   failed or ran out of time. *)
ListAnswersQuery ==
    Idle /\ ~past.overtaken =>
        IF query = "" THEN shown = {}
        ELSE shown \in Answers(query) \/ past.emptied \/ past.failed
=============================================================================
