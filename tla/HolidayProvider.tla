-------------------------- MODULE HolidayProvider --------------------------
(***************************************************************************)
(* src/plugins/holidayprovider: a calendar file is read on the thread pool *)
(* whenever the path is set, the user asks, or a file watcher reports.     *)
(***************************************************************************)
EXTENDS Naturals

CONSTANTS
    Calendars,    \* paths of calendar files
    NoPath,
    MaxSets,      \* bound on the calls of the user
    MaxEdits      \* bound on the versions of a file

VARIABLES
    calendars,    \* the files: [there, version] of each
    path,         \* m_icsPath
    watch,        \* the path the watcher still watches, the changes it has not reported
    loads,        \* on the pool: m_requestId of each, what it has read if it has
    events,       \* m_eventsByDate, m_loaded: the version of the file they come from
    serial        \* m_requestId, calls and edits made

holidayVars == <<calendars, path, watch, loads, events, serial>>

NoEvents == [of |-> NoPath, version |-> 0]

Init ==
    /\ calendars = [c \in Calendars |-> [there |-> TRUE, version |-> 0]]
    /\ path = NoPath
    /\ watch = [on |-> NoPath, changed |-> {}]
    /\ loads = {}
    /\ events = NoEvents
    /\ serial = [id |-> 0, sets |-> 0, edits |-> 0]

-----------------------------------------------------------------------------
\* The file is written in place, replaced by a rename or removed: the last two
\* are reported, and end the watch.
Edit ==
    /\ serial.edits < MaxEdits
    /\ serial' = [serial EXCEPT !.edits = @ + 1]
    /\ \E c \in Calendars, how \in {"write", "replace", "remove"} :
         /\ calendars' = [calendars EXCEPT ![c] = [there |-> how # "remove", version |-> serial'.edits]]
         /\ watch' = IF watch.on # c THEN watch
                     ELSE [on |-> IF how = "write" THEN c ELSE NoPath,
                           changed |-> watch.changed \cup {c}]
    /\ UNCHANGED <<path, loads, events>>

\* triggerLoad: nothing for an empty path, not even a new number.
Load(p, s) ==
    IF p = NoPath THEN serial' = s /\ UNCHANGED loads
    ELSE /\ serial' = [s EXCEPT !.id = @ + 1]
         /\ loads' = loads \cup {[id |-> s.id + 1, of |-> p, read |-> FALSE, version |-> 0]}

\* setIcsPath: the watch is set before the load, and only if the file is there.
SetIcsPath ==
    /\ serial.sets < MaxSets
    /\ \E p \in Calendars \cup {NoPath} :
         /\ p # path /\ path' = p
         /\ watch' = [watch EXCEPT !.on = IF p # NoPath /\ calendars[p].there THEN p ELSE NoPath]
         /\ Load(p, [serial EXCEPT !.sets = @ + 1])
    /\ UNCHANGED <<calendars, events>>

Reload ==
    /\ serial.sets < MaxSets
    /\ Load(path, [serial EXCEPT !.sets = @ + 1])
    /\ UNCHANGED <<calendars, path, watch, events>>

OnFileChanged ==
    \E c \in watch.changed :
        /\ watch' = [watch EXCEPT !.changed = @ \ {c}]
        /\ IF c = path THEN Load(path, serial) ELSE UNCHANGED <<loads, serial>>
        /\ UNCHANGED <<calendars, path, events>>

\* The file is read, and then the result travels to the GUI's thread; a file
\* that cannot be opened gives an empty one.
ReadFile ==
    \E l \in loads :
        /\ ~l.read
        /\ loads' = (loads \ {l}) \cup {[l EXCEPT !.read = TRUE, !.version =
                        IF calendars[l.of].there THEN calendars[l.of].version ELSE 0]}
        /\ UNCHANGED <<calendars, path, watch, events, serial>>

\* Mutant: a result is taken whatever its number.
EventsLoadedAny ==
    \E l \in loads :
        /\ l.read
        /\ loads' = loads \ {l}
        /\ events' = [of |-> l.of, version |-> l.version]
        /\ UNCHANGED <<calendars, path, watch, serial>>

\* Only the result with the number given last is taken.
EventsLoaded ==
    \E l \in loads :
        /\ l.read
        /\ loads' = loads \ {l}
        /\ events' = IF l.id = serial.id THEN [of |-> l.of, version |-> l.version] ELSE events
        /\ UNCHANGED <<calendars, path, watch, serial>>

Internal == OnFileChanged \/ ReadFile \/ EventsLoaded
Next == Edit \/ SetIcsPath \/ Reload \/ Internal

Spec == Init /\ [][Next]_holidayVars

-----------------------------------------------------------------------------
\* Every variable holds what its C++ type and its handlers allow: above all, the
\* watcher holds the path that is set, or none.
TypeOK ==
    /\ path \in Calendars \cup {NoPath}
    /\ watch.on \in {path, NoPath} /\ watch.changed \subseteq Calendars
    /\ \A l \in loads : l.id \in 1..serial.id /\ l.of \in Calendars
    /\ events.of \in Calendars \cup {NoPath}

(* As long as the watcher holds the file, nothing read late or out of order
   stays: when all is quiet the events are those of the file as it is.  A path
   that is emptied keeps the events of the one before. *)
CalendarCurrent ==
    loads = {} /\ watch.changed = {} /\ watch.on # NoPath =>
        events = [of |-> path, version |-> calendars[path].version]
=============================================================================
