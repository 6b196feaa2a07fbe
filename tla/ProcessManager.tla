--------------------------- MODULE ProcessManager ---------------------------
(***************************************************************************)
(* src/plugins/processmanager: the list of processes and services of the   *)
(* launcher's kill mode.  A worker thread reads /proc and asks systemd; the *)
(* GUI thread answers searches from the lists last read.  Each list has a  *)
(* dirty flag and a pending flag: a request made while one is pending is   *)
(* dropped, since the pending one will serve it too.                       *)
(***************************************************************************)
EXTENDS Naturals, Sequences, FiniteSets, SequencesExt, Collections

CONSTANTS
    Pids,             \* processes there may be; init, 1, is none of them
    Forests,          \* the process trees at start: functions from Pids to processes
    MaxProcessSteps,  \* bound on the forks, exits and changes of units
    MaxCommands       \* bound on the user's searches, signals and commands

VARIABLES
    machine,   \* the processes, a version for each list, systemd's signals under way
    scanner,   \* ProcessWorker: its queue, what it does, what it has read
    lists,     \* ProcessManager: for each list, what it holds and its flags
    command    \* [waits, used]: controlService waiting for systemd; requests so far

processVars == <<machine, scanner, lists, command>>

Kinds == {"processes", "services"}
Init1 == 1
Absent == [parent |-> 0, shell |-> FALSE, stopped |-> FALSE]
Alive(t) == {p \in DOMAIN t : t[p] # Absent}

NoList == [version |-> 0, tree |-> [p \in {} |-> Absent], groups |-> {}]

\* asked is the version of the data when a request was last accepted.
Init ==
    /\ machine \in [tree : Forests, version : {[k \in Kinds |-> 1]}, signals : {0}, steps : {0}]
    /\ scanner = [queue |-> <<"all">>, doing |-> <<>>, read |-> NoList, stored |-> FALSE]
    /\ lists = [k \in Kinds |-> [cached |-> NoList, dirty |-> TRUE, pending |-> FALSE, asked |-> 0]]
    /\ command = [waits |-> FALSE, used |-> 0]

-----------------------------------------------------------------------------
(* The root a process is listed under.                                     *)

\* The answer for a process that is its own root.
Top(t, p) == t[p].parent <= Init1 \/ t[p].shell

\* Whether the climb ends at p's parent: it was not read or is a shell.
Stops(t, p) == t[p].parent \notin Alive(t) \/ t[t[p].parent].shell

\* The climb from each process through the parents, with the roots found so far:
\* the root, and the processes passed.
Ways(t, memo) ==
    LET up[q \in Alive(t)] ==
            IF t[q].parent <= Init1 \/ Stops(t, q) THEN <<q, {q}>>
            ELSE IF t[q].parent \in DOMAIN memo THEN <<memo[t[q].parent], {q}>>
            ELSE <<up[t[q].parent][1], up[t[q].parent][2] \cup {q}>>
    IN up

\* getRootFast: the answer is recorded for every process passed.
Climb(t, p, memo) ==
    LET found == IF Top(t, p) THEN <<p, {p}>> ELSE Ways(t, memo)[p]
    IN [q \in DOMAIN memo \cup found[2] |-> IF q \in found[2] THEN found[1] ELSE memo[q]]

RootOf(t, p, memo) == IF p \in DOMAIN memo THEN memo ELSE Climb(t, p, memo)

\* The roots found when the first n processes have been looked at.
Roots(t, order) ==
    LET memo[n \in 0 .. Len(order)] ==
            IF n = 0 THEN [p \in {} |-> 0] ELSE RootOf(t, order[n], memo[n - 1])
    IN memo[Len(order)]

\* scanProcFS: one row for each root.  The row begins with the root's state
\* when its first member is met, whose own state is not looked at; it is paused
\* by the root or by a later member.
Groups(t, order) ==
    LET root == Roots(t, order)
        Members(r) == Picked(order, {i \in DOMAIN order : root[order[i]] = r})
    IN {[pid |-> r, members |-> Range(Members(r)),
         paused |-> \E p \in {r} \cup Range(Tail(Members(r))) : t[p].stopped] : r \in Range(root)}

-----------------------------------------------------------------------------
(* The worker's thread.                                                    *)

\* doRefreshProcesses, doRefreshServices and doRefreshAll, taken from the queue.
Take ==
    /\ scanner.doing = <<>> /\ scanner.queue # <<>>
    /\ scanner' = [scanner EXCEPT !.queue = Tail(@),
                   !.doing = IF Head(scanner.queue) = "all" THEN <<"processes", "services">>
                             ELSE <<Head(scanner.queue)>>]
    /\ UNCHANGED <<machine, lists, command>>

\* A process whose stat cannot be read any more is left out.
Without(t, gone) == [p \in DOMAIN t |-> IF p \in gone THEN Absent ELSE t[p]]

\* scanProcFS reads /proc, which lists the processes by their numbers.
ReadProcesses ==
    /\ scanner.doing # <<>> /\ Head(scanner.doing) = "processes" /\ scanner.read = NoList
    /\ \E gone \in SUBSET Alive(machine.tree) :
          /\ Cardinality(gone) <= 1
          /\ LET t == Without(machine.tree, gone)
             IN scanner' = [scanner EXCEPT !.read =
                    [version |-> machine.version["processes"], tree |-> t,
                     groups |-> Groups(t, Ascending(Alive(t)))]]
    /\ UNCHANGED <<machine, lists, command>>

\* scanServicesDBus: the services of both buses.
ReadServices ==
    /\ scanner.doing # <<>> /\ Head(scanner.doing) = "services" /\ scanner.read = NoList
    /\ scanner' = [scanner EXCEPT !.read = [NoList EXCEPT !.version = machine.version["services"]]]
    /\ UNCHANGED <<machine, lists, command>>

\* updateCachedProcesses, updateCachedServices: the list is stored under the
\* lock, the pending flag falls after it.
Store ==
    /\ scanner.read # NoList /\ ~scanner.stored
    /\ lists' = [lists EXCEPT ![Head(scanner.doing)].cached = [scanner.read EXCEPT !.tree = NoList.tree],
                              ![Head(scanner.doing)].dirty = FALSE]
    /\ scanner' = [scanner EXCEPT !.stored = TRUE]
    /\ UNCHANGED <<machine, command>>

\* Mutant: the flag is left up.
ReleasedNever(l) == [l EXCEPT !.dirty = FALSE]

\* The list's flag once its reading is over.
Released(l) == [l EXCEPT !.pending = FALSE]

Release ==
    /\ scanner.stored
    /\ lists' = [lists EXCEPT ![Head(scanner.doing)] = Released(@)]
    /\ scanner' = [scanner EXCEPT !.doing = Tail(@), !.read = NoList, !.stored = FALSE]
    /\ UNCHANGED <<machine, command>>

-----------------------------------------------------------------------------
(* The GUI thread.  command.waits: it sits in controlService.              *)

\* A request is accepted, and posted, unless one is pending.
Accepts(ks, k) == k \in ks /\ ~lists[k].pending
Posted(ks, k) == IF Accepts(ks, k) THEN <<k>> ELSE <<>>
Asked(ks, ds, k) ==
    [lists[k] EXCEPT !.dirty = @ \/ k \in ds, !.pending = @ \/ Accepts(ks, k),
                     !.asked = IF Accepts(ks, k) THEN machine.version[k] ELSE @]

\* triggerProcessRefresh, triggerServiceRefresh for the kinds ks, of which ds
\* are first marked dirty; the processes come first.  (Between the mark and the
\* exchange of the flag the worker may only serve the request sooner.)
Trigger(ks, ds) ==
    /\ lists' = [k \in Kinds |-> Asked(ks, ds, k)]
    /\ scanner' = [scanner EXCEPT !.queue = @ \o Posted(ks, "processes") \o Posted(ks, "services")]

\* search: a list that is dirty or old is asked for, the row is made from the
\* list at hand.
Search ==
    /\ ~command.waits /\ command.used < MaxCommands
    /\ \E old \in SUBSET Kinds : Trigger({k \in Kinds : lists[k].dirty \/ k \in old}, {})
    /\ command' = [command EXCEPT !.used = @ + 1]
    /\ UNCHANGED machine

\* onSystemdUnitsChanged.
OnSystemdUnitsChanged ==
    /\ ~command.waits /\ machine.signals > 0
    /\ machine' = [machine EXCEPT !.signals = @ - 1]
    /\ Trigger({"services"}, {"services"})
    /\ UNCHANGED command

Tree(t, p) ==
    LET under[n \in 0..Cardinality(DOMAIN t)] ==
            IF n = 0 THEN {p} ELSE under[n-1] \cup {q \in Alive(t) : t[q].parent \in under[n-1]}
    IN under[Cardinality(DOMAIN t)]

Changed(k) == [machine.version EXCEPT ![k] = @ + 1]

\* Those that exit leave their children to init.
Exited(t, ps) == [p \in DOMAIN t |-> IF p \in ps THEN Absent
                                     ELSE IF t[p].parent \in ps THEN [t[p] EXCEPT !.parent = Init1]
                                     ELSE t[p]]

\* sendSignal of a row: the tree is signalled (module ProcessTree), both lists
\* are asked for.  Its processes exit at once or, Exit, later.
SendSignal ==
    /\ ~command.waits /\ command.used < MaxCommands
    /\ \E g \in lists["processes"].cached.groups, atOnce \in BOOLEAN :
          /\ atOnce => machine.steps < MaxProcessSteps /\ g.pid \in Alive(machine.tree)
          /\ IF atOnce
             THEN machine' = [machine EXCEPT !.tree = Exited(@, Tree(@, g.pid)),
                                             !.version = Changed("processes"), !.steps = @ + 1]
             ELSE UNCHANGED machine
    /\ Trigger(Kinds, Kinds)
    /\ command' = [command EXCEPT !.used = @ + 1]

\* controlService asks for the lists first and then waits for systemd's answer.
ControlService ==
    /\ ~command.waits /\ command.used < MaxCommands
    /\ Trigger(Kinds, Kinds)
    /\ command' = [waits |-> TRUE, used |-> command.used + 1]
    /\ UNCHANGED machine

\* An error, or the unit has changed and systemd has said so.
ControlAnswered ==
    /\ command.waits
    /\ command' = [command EXCEPT !.waits = FALSE]
    /\ \/ UNCHANGED machine
       \/ /\ machine.steps < MaxProcessSteps
          /\ machine' = [machine EXCEPT !.version = Changed("services"), !.signals = @ + 1,
                                        !.steps = @ + 1]
    /\ UNCHANGED <<scanner, lists>>

-----------------------------------------------------------------------------
(* The machine.                                                            *)

UnitChanges ==
    /\ machine.steps < MaxProcessSteps
    /\ machine' = [machine EXCEPT !.version = Changed("services"), !.signals = @ + 1, !.steps = @ + 1]
    /\ UNCHANGED <<scanner, lists, command>>

Fork ==
    /\ machine.steps < MaxProcessSteps
    /\ \E p \in Alive(machine.tree), c \in Pids \ Alive(machine.tree) :
          machine' = [machine EXCEPT !.tree[c] = [parent |-> p, shell |-> FALSE, stopped |-> FALSE],
                                     !.version = Changed("processes"), !.steps = @ + 1]
    /\ UNCHANGED <<scanner, lists, command>>

Exit ==
    /\ machine.steps < MaxProcessSteps
    /\ \E p \in Alive(machine.tree) :
          machine' = [machine EXCEPT !.tree = Exited(@, {p}),
                                     !.version = Changed("processes"), !.steps = @ + 1]
    /\ UNCHANGED <<scanner, lists, command>>

Worker == Take \/ ReadProcesses \/ ReadServices \/ Store \/ Release
User == Search \/ SendSignal \/ ControlService

Next == Worker \/ User \/ OnSystemdUnitsChanged \/ ControlAnswered \/ UnitChanges \/ Fork \/ Exit

Spec == Init /\ [][Next]_processVars

-----------------------------------------------------------------------------

ListType(l) == /\ l.version \in 0..(MaxProcessSteps + 1)
               /\ \A g \in l.groups : g.pid \in Pids /\ g.members \subseteq Pids /\ g.paused \in BOOLEAN

\* The lists' and the worker's variables have their types.
TypeOK ==
    /\ machine.tree \in [Pids -> [parent : Pids \cup {0, 1}, shell : BOOLEAN, stopped : BOOLEAN]]
    /\ machine.steps \in 0..MaxProcessSteps /\ machine.signals \in 0..MaxProcessSteps
    /\ scanner.queue \in Seq(Kinds \cup {"all"}) /\ Range(scanner.doing) \subseteq Kinds
    /\ ListType(scanner.read)
    /\ \A k \in Kinds : ListType(lists[k].cached) /\ {lists[k].dirty, lists[k].pending} \subseteq BOOLEAN
    /\ command.waits \in BOOLEAN /\ command.used \in 0..MaxCommands

\* A read of this list is queued, or being made.
UnderWay(k) == \/ k \in Range(scanner.queue) \/ "all" \in Range(scanner.queue)
               \/ k \in Range(scanner.doing)

\* A request is dropped only while a read is under way, and once none is, the
\* list is at least as new as the last request that was accepted: no request is
\* lost to a pending flag that nothing will clear (triggerProcessRefresh,
\* triggerServiceRefresh and updateCached* on two threads).
RefreshServed ==
    \A k \in Kinds : ~UnderWay(k) => ~lists[k].pending /\ lists[k].cached.version >= lists[k].asked

\* The topmost ancestor reached without passing init or a shell.
TopAncestor(t, p) ==
    LET up[q \in Alive(t)] == IF t[q].parent <= Init1 \/ Stops(t, q) THEN q ELSE up[t[q].parent]
    IN IF t[p].shell THEN p ELSE up[p]

\* Every process that was read is in one row, its topmost ancestor's below a
\* shell, whatever order /proc gave them in and whatever getRootFast remembered.
\* A paused row has a stopped member, and a stopped root's row is paused.
RowsAgree ==
    LET t == scanner.read.tree
        Under(r) == {p \in Alive(t) : TopAncestor(t, p) = r}
    IN /\ {[pid |-> g.pid, members |-> g.members] : g \in scanner.read.groups} =
              {[pid |-> r, members |-> Under(r)] : r \in {TopAncestor(t, p) : p \in Alive(t)}}
       /\ \A g \in scanner.read.groups :
             (t[g.pid].stopped => g.paused) /\ (g.paused => \E p \in g.members : t[p].stopped)

\* What the launcher can rely on.
ListsServed == RefreshServed /\ RowsAgree
=============================================================================
