----------------------------- MODULE PathProbe -----------------------------
(***************************************************************************)
(* src/plugins/pathprobe: paths typed into the launcher are looked up on   *)
(* the thread pool; a file is revealed through the session bus, with the   *)
(* command line to fall back on, or handed to the portal.                  *)
(***************************************************************************)
EXTENDS Naturals, FiniteSets

CONSTANTS
    Paths,       \* texts that look like a path
    Words,       \* texts that do not
    MaxLookups   \* bound on the calls of the user

VARIABLES
    text,        \* m_query
    lookup,      \* m_requestId, m_busy
    lookups,     \* lookups on the thread pool and answers on their way back
    answer,      \* m_result: the path it describes, or nothing
    reveal,      \* the call on the bus, the programs started, descriptors held
    calls        \* [made, overtaken]: the bound; history, a word typed during a lookup

pathVars == <<text, lookup, lookups, answer, reveal, calls>>

Empty == ""

Init ==
    /\ text = Empty
    /\ lookup = [id |-> 0, busy |-> FALSE]
    /\ lookups = {}
    /\ answer = Empty
    /\ reveal = [pending |-> FALSE, shown |-> FALSE, cli |-> FALSE, fd |-> FALSE, asked |-> FALSE]
    /\ calls = [made |-> 0, overtaken |-> FALSE]

Call(overtaken) ==
    /\ calls.made < MaxLookups
    /\ calls' = [made |-> calls.made + 1, overtaken |-> overtaken]

\* classify, on the thread pool: what becomes known is about the path it was given.
Lookup(n, p) == [id |-> n, path |-> p]

\* classifyAsync of a path: a new number, also for the text that is there already.
ClassifyPath ==
    /\ Call(FALSE)
    /\ \E p \in Paths :
         /\ text' = p
         /\ lookup' = [id |-> lookup.id + 1, busy |-> TRUE]
         /\ lookups' = lookups \cup {Lookup(lookup'.id, p)}
    /\ UNCHANGED <<answer, reveal>>

\* Another text empties the result and leaves the number as it is.
ClassifyWord ==
    /\ Call(calls.overtaken \/ \E l \in lookups : l.id = lookup.id)
    /\ text' \in Words
    /\ answer' = Empty
    /\ lookup' = [lookup EXCEPT !.busy = FALSE]
    /\ UNCHANGED <<lookups, reveal>>

\* The pool's threads answer in any order; only the current number is heard.
Classified ==
    \E l \in lookups :
        /\ lookups' = lookups \ {l}
        /\ IF l.id = lookup.id
           THEN answer' = l.path /\ lookup' = [lookup EXCEPT !.busy = FALSE]
           ELSE UNCHANGED <<answer, lookup>>
        /\ UNCHANGED <<text, reveal, calls>>

-----------------------------------------------------------------------------
\* reveal, of one file: at once by the command line when there is no file manager on the bus.
Reveal ==
    /\ Call(calls.overtaken) /\ ~reveal.pending /\ ~reveal.asked
    /\ \/ reveal' = [reveal EXCEPT !.asked = TRUE, !.pending = TRUE]
       \/ reveal' = [reveal EXCEPT !.asked = TRUE, !.cli = TRUE]
    /\ UNCHANGED <<text, lookup, lookups, answer>>

\* An error, or 1.5 s without an answer, starts dolphin; the daemon may still
\* show the folder afterwards.
RevealAnswered ==
    /\ reveal.pending
    /\ \/ reveal' = [reveal EXCEPT !.pending = FALSE, !.shown = TRUE]
       \/ \E late \in BOOLEAN :
            reveal' = [reveal EXCEPT !.pending = FALSE, !.cli = TRUE, !.shown = late]
    /\ UNCHANGED <<text, lookup, lookups, answer, calls>>

\* openWith: the file may be gone, or there is no portal; the descriptor is
\* closed on every way out, the portal's copy of it by the bus.
OpenWith ==
    /\ Call(calls.overtaken)
    /\ \E exists, portal \in BOOLEAN : reveal' = [reveal EXCEPT !.fd = exists /\ portal]
    /\ UNCHANGED <<text, lookup, lookups, answer>>

PortalAnswered ==
    /\ reveal.fd
    /\ reveal' = [reveal EXCEPT !.fd = FALSE]
    /\ UNCHANGED <<text, lookup, lookups, answer, calls>>

Answers == Classified \/ RevealAnswered \/ PortalAnswered
Next == ClassifyPath \/ ClassifyWord \/ Reveal \/ OpenWith \/ Answers

Spec == Init /\ [][Next]_pathVars

-----------------------------------------------------------------------------
\* Every variable holds what its C++ type and its handlers allow: above all, no two
\* lookups have one number.
TypeOK ==
    /\ text \in Paths \cup Words \cup {Empty} /\ answer \in Paths \cup {Empty}
    /\ lookup.id \in 0..MaxLookups /\ calls.made \in 0..MaxLookups
    /\ \A l \in lookups : l.id \in 1..lookup.id /\ l.path \in Paths
    /\ Cardinality({l.id : l \in lookups}) = Cardinality(lookups)

(* The result is the one of the text, or empty, once nothing is under way; a
   lookup overtaken by a text that is no path is the one exception.  Who asked
   for a file to be revealed sees it, by the daemon or by dolphin. *)
AnswerFitsText ==
    /\ ~lookup.busy => answer \in {text, Empty} \/ calls.overtaken
    /\ ~lookup.busy /\ text \in Paths /\ lookups = {} => answer = text
    /\ reveal.asked => reveal.pending \/ reveal.shown \/ reveal.cli
=============================================================================
