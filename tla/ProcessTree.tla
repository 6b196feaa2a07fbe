----------------------------- MODULE ProcessTree -----------------------------
(***************************************************************************)
(* src/libs/processcore: killProcessTree(), which reads the parents of all *)
(* processes from /proc, entry by entry, collects the tree below a root and *)
(* signals it from the leaves up, while its processes go on forking,        *)
(* exiting and being stopped by others.  A process takes the default action *)
(* of a signal; numbers are not used twice.                                 *)
(***************************************************************************)
EXTENDS Naturals, Sequences, FiniteSets, SequencesExt, Collections

CONSTANTS
    Numbers,       \* pids; 1 is init
    Signals,       \* what the callers send
    MaxOthers,     \* bound on the forks, exits and stops of others
    MaxAttempts    \* the 30 looks of waitExited

VARIABLES
    live,    \* the processes: number -> [parent, stopped, term: a TERM waits]
    others,  \* [steps, touched]: what others did; the processes it was done to
    kill     \* the call: what it has read, whom it will signal, how far it is

treeVars == <<live, others, kill>>

NoOne == [parent |-> 0, stopped |-> FALSE, term |-> FALSE]
Living == {p \in Numbers : live[p] # NoOne}
Process(up, st) == [parent |-> up, stopped |-> st, term |-> FALSE]

Idle == [phase |-> "idle", root |-> 0, signal |-> "none", wait |-> FALSE, next |-> 0,
         parent |-> [p \in {} |-> 0], stopped |-> {}, targets |-> <<>>, tries |-> 0,
         answer |-> FALSE]

\* A root, its child and a grandchild, any of them stopped; the other numbers
\* are free.  The call has been made for the root.
Init ==
    /\ live \in {[p \in Numbers |-> CASE p = 2 -> Process(1, "a" \in st)
                                      [] p = 3 -> Process(2, "b" \in st)
                                      [] p = 4 -> Process(3, "c" \in st)
                                      [] OTHER -> NoOne] : st \in SUBSET {"a", "b", "c"}}
    /\ others = [steps |-> 0, touched |-> {}]
    /\ \E s \in Signals, w \in BOOLEAN :
          kill = [Idle EXCEPT !.phase = "reading", !.root = 2, !.signal = s, !.wait = w]

-----------------------------------------------------------------------------
(* What a signal does.                                                     *)

Gone(ps, procs) == [p \in Numbers |-> IF p \in ps THEN NoOne
                                      ELSE IF procs[p].parent \in ps THEN [procs[p] EXCEPT !.parent = 1]
                                      ELSE procs[p]]

\* A stopped process acts on TERM when it is continued, on KILL at once.
Signalled(procs, p, s) ==
    IF procs[p] = NoOne THEN procs
    ELSE CASE s = "KILL" -> Gone({p}, procs)
           [] s = "TERM" -> IF procs[p].stopped THEN [procs EXCEPT ![p].term = TRUE] ELSE Gone({p}, procs)
           [] s = "STOP" -> [procs EXCEPT ![p].stopped = TRUE]
           [] s = "CONT" -> IF procs[p].term THEN Gone({p}, procs) ELSE [procs EXCEPT ![p].stopped = FALSE]

-----------------------------------------------------------------------------
(* killProcessTree.                                                        *)

\* The next entry of /proc: its parent and state, or nothing if it has gone.
ReadEntry ==
    /\ kill.phase = "reading" /\ \E p \in Numbers : p > kill.next
    /\ LET p == CHOOSE q \in Numbers : q > kill.next /\ \A r \in Numbers : r > kill.next => q <= r
       IN kill' = [kill EXCEPT !.next = p,
              !.parent = IF p \in Living
                         THEN [q \in DOMAIN @ \cup {p} |-> IF q = p THEN live[p].parent ELSE @[q]]
                         ELSE @,
              !.stopped = IF p \in Living /\ live[p].stopped THEN @ \cup {p} ELSE @]
    /\ UNCHANGED <<live, others>>

\* collectPostOrder: the children, last read first, before their parent.
PostOrder(parent, root) ==
    LET children(p) == Descending({q \in DOMAIN parent : parent[q] = p})
        under[n \in 0..Cardinality(Numbers)] ==
            [p \in Numbers |->
               IF n = 0 THEN <<>>
               ELSE FlattenSeq([i \in DOMAIN children(p) |-> under[n-1][children(p)[i]]]) \o <<p>>]
    IN under[Cardinality(Numbers)][root]

\* The root itself was not there any more.
RootNotFound ==
    /\ kill.phase = "reading" /\ \A p \in Numbers : p <= kill.next
    /\ kill.root \notin DOMAIN kill.parent
    /\ kill' = [kill EXCEPT !.phase = "returned", !.answer = FALSE]
    /\ UNCHANGED <<live, others>>

Collect ==
    /\ kill.phase = "reading" /\ \A p \in Numbers : p <= kill.next
    /\ kill.root \in DOMAIN kill.parent
    /\ kill' = [kill EXCEPT !.phase = "continuing", !.targets = PostOrder(kill.parent, kill.root),
                            !.next = 1]
    /\ UNCHANGED <<live, others>>

\* After the last target of a pass: the next pass, the wait, or the answer.
AfterPass ==
    IF kill.phase = "continuing" THEN "signalling"
    ELSE IF kill.signal \in {"TERM", "KILL"} /\ kill.wait THEN "waiting" ELSE "returned"

Passed ==
    IF kill.next < Len(kill.targets) THEN [kill EXCEPT !.next = @ + 1]
    ELSE [kill EXCEPT !.next = 1, !.phase = AfterPass, !.answer = AfterPass = "returned"]

\* The first pass continues the targets that were stopped.
ContinueTarget ==
    /\ kill.phase = "continuing"
    /\ LET p == kill.targets[kill.next]
       IN live' = IF p \in kill.stopped THEN Signalled(live, p, "CONT") ELSE live
    /\ kill' = Passed
    /\ UNCHANGED others

\* Mutant: every target is continued after its signal.
ContinuesAll(p) == kill.signal # "CONT"

\* Whether the second pass continues a target after its signal.
ContinuesAfter(p) == kill.signal # "CONT" /\ p \in kill.stopped

SignalTarget ==
    /\ kill.phase = "signalling"
    /\ LET p == kill.targets[kill.next]
           sent == Signalled(live, p, kill.signal)
       IN live' = IF ContinuesAfter(p) THEN Signalled(sent, p, "CONT") ELSE sent
    /\ kill' = Passed
    /\ UNCHANGED others

\* waitExited: looks again until none of the targets, or the root, is alive.
Exited == Living \cap Range(kill.targets) = {} \/ kill.root \notin Living

Look ==
    /\ kill.phase = "waiting"
    /\ kill' = IF Exited \/ kill.tries + 1 = MaxAttempts
               THEN [kill EXCEPT !.phase = "returned", !.answer = Exited, !.tries = @ + 1]
               ELSE [kill EXCEPT !.tries = @ + 1]
    /\ UNCHANGED <<live, others>>

Call == ReadEntry \/ RootNotFound \/ Collect \/ ContinueTarget \/ SignalTarget \/ Look

-----------------------------------------------------------------------------
(* The others.                                                             *)

Others(ps) ==
    /\ others.steps < MaxOthers /\ kill.phase # "returned"
    /\ others' = [steps |-> others.steps + 1, touched |-> others.touched \cup ps]
    /\ UNCHANGED kill

ForkChild ==
    \E p \in Living, c \in Numbers \ Living :
       /\ c \notin others.touched /\ c > 4 /\ ~live[p].stopped
       /\ live' = [live EXCEPT ![c] = Process(p, FALSE)]
       /\ Others({c})

ExitsItself == \E p \in Living : ~live[p].stopped /\ live' = Gone({p}, live) /\ Others({p})

StoppedOrContinued ==
    \E p \in Living, s \in {"STOP", "CONT"} : live' = Signalled(live, p, s) /\ Others({p})

Environment == ForkChild \/ ExitsItself \/ StoppedOrContinued

Next == Call \/ Environment

Spec == Init /\ [][Next]_treeVars

-----------------------------------------------------------------------------

\* The call's and the processes' variables have their types.
TypeOK ==
    /\ live \in [Numbers -> [parent : Numbers \cup {0, 1}, stopped : BOOLEAN, term : BOOLEAN]]
    /\ others.steps \in 0..MaxOthers /\ others.touched \subseteq Numbers
    /\ kill.phase \in {"reading", "continuing", "signalling", "waiting", "returned"}
    /\ DOMAIN kill.parent \subseteq Numbers /\ kill.stopped \subseteq DOMAIN kill.parent
    /\ Range(kill.targets) \subseteq Numbers /\ kill.tries \in 0..MaxAttempts

\* The root and the processes found below it when /proc was read.
FoundBelow(parent, root) ==
    LET within[n \in 0..Cardinality(Numbers)] ==
            IF n = 0 THEN {root}
            ELSE within[n-1] \cup {p \in DOMAIN parent : parent[p] \in within[n-1]}
    IN within[Cardinality(Numbers)]
Found == FoundBelow(kill.parent, kill.root)

\* When killProcessTree has returned true, every process found in the tree
\* when it was read, and that nobody else signalled meanwhile, has acted on the signal: a stopped
\* one is not left stopped with its TERM waiting, a frozen one is not running.
\* A process that was stopped already when STOP was sent is excepted: the second
\* pass continues it.
SignalActedOn ==
    kill.phase = "returned" /\ kill.targets # <<>> =>
        \A p \in Found \ others.touched :
            CASE kill.signal \in {"TERM", "KILL"} -> p \notin Living
              [] kill.signal = "STOP" -> p \in Living /\ (live[p].stopped \/ p \in kill.stopped)
              [] kill.signal = "CONT" -> p \in Living /\ ~live[p].stopped
=============================================================================
