------------------------------ MODULE KWinManager ------------------------------
(***************************************************************************)
(* src/plugins/kwin: the windows of the desktop.  The first instance has a *)
(* script loaded into KWin that calls back with the list of windows, the   *)
(* last one has it unloaded; an action on a window is a script of its own. *)
(* Every step is an asynchronous D-Bus call, answered in order.            *)
(***************************************************************************)
EXTENDS Naturals, Sequences

CONSTANTS
    MaxInstances,
    MaxLives,     \* bound on the instances made
    MaxActions    \* bound on the actions, and on the changes KWin makes itself

VARIABLES
    kwin,       \* external: the tracking script there, the windows (their version)
    toKWin,     \* calls on their way
    fromKWin,   \* answers and updateWindowsPacked on their way
    manager,    \* the statics: instances, script id and file, model, action scripts
    lived       \* [lives, actions]

kwinVars == <<kwin, toKWin, fromKWin, manager, lived>>

Scripts == {"tracker", "action"}
NoModel == 0

Init ==
    /\ kwin = [script |-> "none", windows |-> 1]
    /\ toKWin = <<>> /\ fromKWin = <<>>
    /\ manager = [instances |-> 0, id |-> FALSE, file |-> FALSE, model |-> NoModel,
                  actions |-> 0, slipped |-> FALSE]     \* the last: history
    /\ lived = [lives |-> 0, actions |-> 0]

Call(type, script) == [type |-> type, script |-> script]
Update == [type |-> "windows", windows |-> kwin.windows]

-----------------------------------------------------------------------------
(* KWin.  A script that is loaded is not loaded again; its file is read    *)
(* when it is run.                                                         *)

Serves(type, script) ==
    toKWin # <<>> /\ Head(toKWin) = Call(type, script) /\ toKWin' = Tail(toKWin)
Answers(type, script, ok) ==
    fromKWin' = Append(fromKWin, [type |-> type, script |-> script, ok |-> ok])

LoadTracker ==
    /\ Serves("load", "tracker")
    /\ kwin' = IF kwin.script = "none" THEN [kwin EXCEPT !.script = "loaded"] ELSE kwin
    /\ Answers("load", "tracker", kwin.script = "none")
    /\ UNCHANGED <<manager, lived>>

RunTracker ==
    /\ Serves("run", "tracker")
    /\ IF kwin.script = "loaded" /\ manager.file
       THEN kwin' = [kwin EXCEPT !.script = "running"] /\ fromKWin' = Append(fromKWin, Update)
       ELSE UNCHANGED <<kwin, fromKWin>>
    /\ UNCHANGED <<manager, lived>>

UnloadTracker ==
    /\ Serves("unload", "tracker")
    /\ kwin' = [kwin EXCEPT !.script = "none"]
    /\ UNCHANGED <<fromKWin, manager, lived>>

Changed == [kwin EXCEPT !.windows = 3 - @]
Tells(windows) == IF kwin.script = "running" THEN <<[type |-> "windows", windows |-> windows]>> ELSE <<>>

\* The script of an action is answered, or refused; it changes a window, or finds none.
ServeAction ==
    /\ \/ \E ok \in BOOLEAN : Serves("load", "action") /\ Answers("load", "action", ok) /\ UNCHANGED kwin
       \/ /\ Serves("run", "action")
          /\ Answers("run", "action", TRUE)
          /\ UNCHANGED kwin
       \/ /\ Serves("run", "action")
          /\ kwin' = Changed
          /\ fromKWin' = fromKWin \o Tells(Changed.windows)
                         \o <<[type |-> "run", script |-> "action", ok |-> TRUE]>>
       \/ Serves("unload", "action") /\ Answers("unload", "action", TRUE) /\ UNCHANGED kwin
    /\ UNCHANGED <<manager, lived>>

WindowsChange ==
    /\ lived.actions < MaxActions /\ lived' = [lived EXCEPT !.actions = @ + 1]
    /\ kwin' = Changed /\ fromKWin' = fromKWin \o Tells(Changed.windows)
    /\ UNCHANGED <<toKWin, manager>>

-----------------------------------------------------------------------------
(* The shell.                                                              *)

\* The first instance writes the file and has it loaded (installTrackingScript),
\* or cannot write it or does not find KWin.
Create ==
    /\ manager.instances < MaxInstances /\ lived.lives < MaxLives
    /\ lived' = [lived EXCEPT !.lives = @ + 1]
    /\ LET more == [manager EXCEPT !.instances = @ + 1]
       IN \/ manager.instances > 0 /\ manager' = more /\ UNCHANGED toKWin
          \/ /\ manager.instances = 0
             /\ manager' = [more EXCEPT !.file = TRUE]
             /\ toKWin' = Append(toKWin, Call("load", "tracker"))
          \/ /\ manager.instances = 0
             /\ manager' = [more EXCEPT !.file = FALSE, !.slipped = TRUE]
             /\ UNCHANGED toKWin
    /\ UNCHANGED <<kwin, fromKWin>>

LoadUnderWay ==
    \/ \E i \in DOMAIN toKWin : toKWin[i] = Call("load", "tracker")
    \/ \E i \in DOMAIN fromKWin : fromKWin[i].type = "load" /\ fromKWin[i].script = "tracker"

\* With the last one the model goes, and the script if its id is known by now.
Destroy ==
    /\ manager.instances > 0
    /\ IF manager.instances > 1
       THEN manager' = [manager EXCEPT !.instances = @ - 1] /\ UNCHANGED toKWin
       ELSE /\ manager' = [manager EXCEPT !.instances = 0, !.id = FALSE, !.file = FALSE,
                               !.model = NoModel, !.slipped = @ \/ LoadUnderWay]
            /\ toKWin' = IF manager.id THEN Append(toKWin, Call("unload", "tracker")) ELSE toKWin
    /\ UNCHANGED <<kwin, fromKWin, lived>>

Answered(type, script) ==
    /\ fromKWin # <<>> /\ Head(fromKWin).type = type /\ Head(fromKWin).script = script
    /\ fromKWin' = Tail(fromKWin)

\* An answer nobody waits for any more leaves the script in KWin.
OnTrackerLoaded ==
    /\ Answered("load", "tracker")
    /\ IF manager.instances > 0 /\ Head(fromKWin).ok
       THEN manager' = [manager EXCEPT !.id = TRUE] /\ toKWin' = Append(toKWin, Call("run", "tracker"))
       ELSE manager' = [manager EXCEPT !.file = FALSE] /\ UNCHANGED toKWin
    /\ UNCHANGED <<kwin, lived>>

\* handleDbusUpdatePacked and WindowModel::updateRecords.
OnWindows ==
    /\ fromKWin # <<>> /\ Head(fromKWin).type = "windows" /\ fromKWin' = Tail(fromKWin)
    /\ manager' = IF manager.instances > 0 THEN [manager EXCEPT !.model = Head(fromKWin).windows]
                  ELSE manager
    /\ UNCHANGED <<kwin, toKWin, lived>>

\* runActionScript: the file of a script is removed when it has been unloaded, or
\* could not be loaded.
DispatchAction ==
    /\ manager.instances > 0
    /\ lived.actions < MaxActions /\ lived' = [lived EXCEPT !.actions = @ + 1]
    /\ manager' = [manager EXCEPT !.actions = @ + 1]
    /\ toKWin' = Append(toKWin, Call("load", "action"))
    /\ UNCHANGED <<kwin, fromKWin>>

OnActionLoaded ==
    /\ Answered("load", "action")
    /\ IF Head(fromKWin).ok
       THEN /\ \E next \in {"run", "unload"} : toKWin' = Append(toKWin, Call(next, "action"))
            /\ UNCHANGED manager
       ELSE manager' = [manager EXCEPT !.actions = @ - 1] /\ UNCHANGED toKWin
    /\ UNCHANGED <<kwin, lived>>

OnActionRan ==
    /\ Answered("run", "action")
    /\ toKWin' = Append(toKWin, Call("unload", "action"))
    /\ UNCHANGED <<kwin, manager, lived>>

OnActionUnloaded ==
    /\ Answered("unload", "action")
    /\ manager' = [manager EXCEPT !.actions = @ - 1]
    /\ UNCHANGED <<kwin, toKWin, lived>>

Next ==
    \/ LoadTracker \/ RunTracker \/ UnloadTracker \/ ServeAction \/ WindowsChange
    \/ Create \/ Destroy \/ OnTrackerLoaded \/ OnWindows
    \/ DispatchAction \/ OnActionLoaded \/ OnActionRan \/ OnActionUnloaded

Spec == Init /\ [][Next]_kwinVars

-----------------------------------------------------------------------------

\* The manager's variables have their types.
TypeOK ==
    /\ kwin.script \in {"none", "loaded", "running"} /\ kwin.windows \in {1, 2}
    /\ manager.instances \in 0..MaxInstances /\ manager.model \in {NoModel, 1, 2}
    /\ manager.actions \in 0..MaxActions
    /\ \A i \in DOMAIN toKWin : toKWin[i].script \in Scripts

\* Once every call is answered: the model shows KWin's windows as long as there is an
\* instance, and without one neither a script nor a file of it is left; unless the
\* last instance went while the script was being loaded, or it could not be
\* installed at all (slipped).  No file of an
\* action is left in any case.
WindowsTracked ==
    toKWin = <<>> /\ fromKWin = <<>> =>
        /\ manager.actions = 0
        /\ manager.slipped \/
              IF manager.instances > 0 THEN manager.model = kwin.windows
              ELSE kwin.script = "none" /\ ~manager.file
=============================================================================
