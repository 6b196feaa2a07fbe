------------------------------ MODULE MCDesktop ------------------------------
(***************************************************************************)
(* The services and views of the desktop that share no state with each     *)
(* other, checked as a disjoint sum, as in MCMonitors: which says the one  *)
(* that runs in a behaviour, and the others stay in one initial state.     *)
(***************************************************************************)
EXTENDS Naturals, Sequences, FiniteSets, TLC

CONSTANTS
    Pids, Forests, MaxProcessSteps, MaxCommands,                    \* ProcessManager
    Numbers, Signals, MaxOthers, MaxAttempts,                       \* ProcessTree
    Threads, MaxToRead, MaxSamples, MaxOpenings,                    \* ProcessMonitor
    MaxGraphSteps, MaxDeaths, MaxUses,                              \* PrivacyMonitor
    Clients, Percents, MaxJobs, kMaxFinishedHistory, MaxMoves,      \* JobServer
    MaxInstances, MaxLives, MaxActions,                             \* KWinManager
    MaxRequests                                                     \* PowerManager

ASSUME BoundsAssumption ==
    {MaxProcessSteps, MaxCommands, MaxOthers, MaxAttempts, MaxToRead, MaxSamples, MaxOpenings,
     MaxGraphSteps, MaxDeaths, MaxUses, MaxJobs, kMaxFinishedHistory, MaxMoves, MaxInstances,
     MaxLives, MaxActions, MaxRequests} \subseteq Nat

\* The pool has 2 to 6 threads.
ASSUME ThreadsAssumption == IsFiniteSet(Threads) /\ Threads # {}

VARIABLES
    which,
    machine, scanner, lists, command,
    live, others, kill,
    pool, sample, sampler, window,
    audio, dumper, orders, news, indicator, spent,
    living, bus, watched, jobs, history, owners, server, moves,
    kwin, toKWin, fromKWin, manager, lived,
    firmware, logind, tools, power, requests

\* A stopped leaf below a parent with a higher number; a shell with two below it.
Process(parent, shell, stopped) == [parent |-> parent, shell |-> shell, stopped |-> stopped]
Free == Process(0, FALSE, FALSE)
Leaning == (2 :> Process(3, FALSE, TRUE)) @@ (3 :> Process(4, FALSE, FALSE))
           @@ (4 :> Process(1, FALSE, FALSE)) @@ (5 :> Free)
Shelled == (2 :> Process(1, TRUE, FALSE)) @@ (3 :> Process(2, FALSE, FALSE))
           @@ (4 :> Process(3, FALSE, FALSE)) @@ (5 :> Free)
LeaningOrShelled == {Leaning, Shelled}

Lists == INSTANCE ProcessManager

\* The kernel's process trees: a parent is a process that lives, or init or the
\* kernel, and nobody descends from itself, so that there is a depth.
ASSUME ForestsAssumption ==
    /\ Pids \subseteq Nat \ {0, 1} /\ IsFiniteSet(Pids)
    /\ \A t \in Forests :
          /\ t \in [Pids -> [parent : Pids \cup {0, 1}, shell : BOOLEAN, stopped : BOOLEAN]]
          /\ \A p \in Lists!Alive(t) : t[p].parent \in Lists!Alive(t) \cup {0, 1}
          /\ \E depth \in [Pids -> 0 .. Cardinality(Pids)] :
                \A p \in Lists!Alive(t) : t[p].parent \in Pids => depth[t[p].parent] < depth[p]

\* A process's number is positive, and the tree that is signalled has three;
\* waitExited looks at least once.
ASSUME NumbersAssumption ==
    /\ {2, 3, 4} \subseteq Numbers /\ Numbers \subseteq Nat \ {0} /\ IsFiniteSet(Numbers)
    /\ Signals \subseteq {"TERM", "KILL", "STOP", "CONT"} /\ MaxAttempts > 0

Tree == INSTANCE ProcessTree
Top == INSTANCE ProcessMonitor
Privacy == INSTANCE PrivacyMonitor
Server == INSTANCE JobServer
Windows == INSTANCE KWinManager
Power == INSTANCE PowerManager

listVars == <<machine, scanner, lists, command>>
treeVars == <<live, others, kill>>
topVars == <<pool, sample, sampler, window>>
privacyVars == <<audio, dumper, orders, news, indicator, spent>>
jobVars == <<living, bus, watched, jobs, history, owners, server, moves>>
windowVars == <<kwin, toKWin, fromKWin, manager, lived>>
powerVars == <<firmware, logind, tools, power, requests>>
vars == <<which, listVars, treeVars, topVars, privacyVars, jobVars, windowVars, powerVars>>

Components == {"lists", "tree", "top", "privacy", "jobs", "windows", "power"}

\* A component that does not run stays in one of its initial states.
Init ==
    /\ which \in Components
    /\ Lists!Init /\ (which # "lists" => machine.tree = CHOOSE t \in Forests : TRUE)
    /\ Tree!Init /\ (which # "tree" => \A p \in Numbers : ~live[p].stopped)
    /\ (which # "tree" => kill.signal = CHOOSE s \in Signals : TRUE) /\ (which # "tree" => ~kill.wait)
    /\ Top!Init
    /\ Privacy!Init
    /\ (which # "privacy" => audio.up /\ audio.stream = "none" /\ audio.alsa = "idle")
    /\ Server!Init /\ (which # "jobs" => \A n \in DOMAIN owners : owners[n] = "us")
    /\ Windows!Init
    /\ Power!Init /\ (which # "power" => firmware.entry)

OnlyLists ==
    which = "lists" /\ UNCHANGED <<which, treeVars, topVars, privacyVars, jobVars, windowVars, powerVars>>
OnlyTree ==
    which = "tree" /\ UNCHANGED <<which, listVars, topVars, privacyVars, jobVars, windowVars, powerVars>>
OnlyTop ==
    which = "top" /\ UNCHANGED <<which, listVars, treeVars, privacyVars, jobVars, windowVars, powerVars>>
OnlyPrivacy ==
    which = "privacy" /\ UNCHANGED <<which, listVars, treeVars, topVars, jobVars, windowVars, powerVars>>
OnlyJobs ==
    which = "jobs" /\ UNCHANGED <<which, listVars, treeVars, topVars, privacyVars, windowVars, powerVars>>
OnlyWindows ==
    which = "windows" /\ UNCHANGED <<which, listVars, treeVars, topVars, privacyVars, jobVars, powerVars>>
OnlyPower ==
    which = "power" /\ UNCHANGED <<which, listVars, treeVars, topVars, privacyVars, jobVars, windowVars>>

Next ==
    \/ OnlyLists /\ Lists!Next
    \/ OnlyTree /\ Tree!Next
    \/ OnlyTop /\ Top!Next
    \/ OnlyPrivacy /\ Privacy!Next
    \/ OnlyJobs /\ Server!Next
    \/ OnlyWindows /\ Windows!Next
    \/ OnlyPower /\ Power!Next

Spec == Init /\ [][Next]_vars

-----------------------------------------------------------------------------

\* The variables of every component have their types.
TypesOK ==
    /\ Lists!TypeOK /\ Tree!TypeOK /\ Top!TypeOK /\ Privacy!TypeOK
    /\ Server!TypeOK /\ Windows!TypeOK /\ Power!TypeOK

\* The launcher's lists are as new as the last request and group every process with
\* its topmost ancestor (ProcessManager).
ListsServed == Lists!ListsServed

\* What the user ordered has been done when it is said to be: the processes of a tree
\* have acted on its signal, and the machine reboots into Windows (ProcessTree,
\* PowerManager).
ActionsHonest == Tree!SignalActedOn /\ Power!RebootHonest

\* A sample goes on when all of its memory is read, and it never sleeps on
\* (ProcessMonitor).
PoolDone == Top!PoolDone

\* What is shown of another process follows its life: a job that of its client, the
\* windows those of KWin, and the microphone's indicator that of a program that
\* records (JobServer, KWinManager, PrivacyMonitor).
PeersShown == Server!JobsHaveClients /\ Windows!WindowsTracked /\ Privacy!MicrophoneShown
=============================================================================
