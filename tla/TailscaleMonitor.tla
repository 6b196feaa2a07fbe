-------------------------- MODULE TailscaleMonitor --------------------------
(***************************************************************************)
(* src/plugins/tailscale: a worker thread subscribed to the daemon's       *)
(* notification bus.  A notification makes it read the whole status, in    *)
(* several requests; a file watcher and a retry timer bring the            *)
(* subscription back after the daemon has gone.                            *)
(***************************************************************************)
EXTENDS Naturals, Sequences

CONSTANTS
    MaxEvents,   \* bound on what the daemon does of its own accord
    MaxAsks      \* bound on what the user asks for

VARIABLES
    daemon,      \* outside: listening, its socket's file and directory, its state
    tailscale,   \* TailscaleWorker, with what its socket has to read
    asks,        \* calls queued for the worker's thread
    answers,     \* signals queued for the GUI's thread
    panel,       \* TailscaleMonitor
    used         \* [events, asks]

tailscaleVars == <<daemon, tailscale, asks, answers, panel, used>>

Offline == [on |-> FALSE, status |-> 0, prefs |-> 0]
Now == IF daemon.listens THEN [on |-> TRUE, status |-> daemon.state, prefs |-> daemon.state]
       ELSE Offline
NoRead == [at |-> "none", read |-> Offline, after |-> "nothing"]

Init ==
    /\ daemon \in [listens : {TRUE}, file : {TRUE}, dir : {TRUE}, state : {1}]
                  \cup [listens : {FALSE}, file : {FALSE}, dir : BOOLEAN, state : {1}]
    /\ tailscale = [watch |-> "none", line |-> FALSE, hangup |-> FALSE, watching |-> FALSE,
                    change |-> FALSE, retry |-> FALSE, debounce |-> FALSE,
                    initialized |-> FALSE, last |-> Offline, sample |-> NoRead,
                    slipped |-> FALSE, glimpsed |-> FALSE]     \* the last two: history
    /\ asks = <<"start">>
    /\ answers = <<>>
    /\ panel = [running |-> TRUE, busy |-> FALSE, netcheck |-> FALSE, shown |-> Offline]
    /\ used = [events |-> 0, asks |-> 0]

Connected == tailscale.watch \in {"opened", "streaming"}    \* m_watchConnected

-----------------------------------------------------------------------------
(* The daemon.  It may be killed, leaving its file, or stop in order,      *)
(* taking the file and perhaps the directory with it.                      *)

Event == used.events < MaxEvents /\ used' = [used EXCEPT !.events = @ + 1]

DaemonStarts ==
    /\ Event /\ ~daemon.listens
    /\ daemon' = [daemon EXCEPT !.listens = TRUE, !.file = TRUE, !.dir = TRUE]
    /\ tailscale' = [tailscale EXCEPT !.change = @ \/ tailscale.watching,
                                      !.slipped = @ \/ tailscale.sample.at = "rewatch"]
    /\ UNCHANGED <<asks, answers, panel>>

DaemonEnds ==
    /\ Event /\ daemon.listens
    /\ \E f, d \in BOOLEAN :
         /\ f => d
         /\ daemon' = [daemon EXCEPT !.listens = FALSE, !.file = f, !.dir = d]
         /\ tailscale' = [tailscale EXCEPT !.change = @ \/ (tailscale.watching /\ ~f),
                                           !.watching = @ /\ d, !.hangup = Connected]
    /\ UNCHANGED <<asks, answers, panel>>

DaemonChanges ==
    /\ Event /\ daemon.listens
    /\ daemon' = [daemon EXCEPT !.state = 3 - @]
    /\ tailscale' = [tailscale EXCEPT !.line = Connected]
    /\ UNCHANGED <<asks, answers, panel>>

-----------------------------------------------------------------------------
(* fetchFullStatus: the status, then the preferences and the other lists.  *)
(* A later request that fails leaves its part of the state at its default. *)

Reading(w, after) == [w EXCEPT !.sample = [at |-> "status", read |-> Offline, after |-> after]]

Lost(w) == [w EXCEPT !.watch = "none", !.line = FALSE, !.hangup = FALSE]

\* connectWatchBus.  A local socket connects, or is refused, at once: then the first
\* line will follow, or the timer starts.  Without a file nothing is tried again.
Attempt(w) ==
    IF ~daemon.file THEN Lost(w)
    ELSE IF daemon.listens
    THEN [w EXCEPT !.watch = "opened", !.retry = FALSE, !.line = TRUE, !.hangup = FALSE]
    ELSE [Lost(w) EXCEPT !.retry = TRUE]

\* What a handler does when its sample has returned.
Rest(w) ==
    CASE w.sample.after \in {"lost", "abort"} ->
           IF daemon.file
           THEN LET r == [w EXCEPT !.retry = TRUE, !.sample = NoRead]
                IN IF w.sample.after = "abort" THEN Attempt(r) ELSE r
           ELSE [w EXCEPT !.sample.at = "rewatch"]
      [] OTHER -> [w EXCEPT !.sample = NoRead]

Final(after) ==
    IF after = "action" THEN <<[type |-> "busy", busy |-> FALSE]>> ELSE <<>>

Publish(w, state) ==
    /\ tailscale' = Rest([w EXCEPT !.initialized = TRUE, !.last = state,
                                   !.glimpsed = state.on /\ w.watch = "none"])
    /\ answers' = answers
                  \o (IF w.initialized /\ state = w.last THEN <<>>
                      ELSE <<[type |-> "state", state |-> state]>>)
                  \o Final(w.sample.after)

ReadStatus ==
    /\ tailscale.sample.at = "status"
    /\ IF daemon.listens
       THEN /\ tailscale' = [tailscale EXCEPT !.sample.at = "prefs",
                               !.sample.read = [on |-> TRUE, status |-> daemon.state, prefs |-> 0]]
            /\ UNCHANGED answers
       ELSE Publish(tailscale, Offline)
    /\ UNCHANGED <<daemon, asks, panel, used>>

ReadPrefs ==
    /\ tailscale.sample.at = "prefs"
    /\ Publish(tailscale, [tailscale.sample.read EXCEPT !.prefs = Now.prefs])
    /\ UNCHANGED <<daemon, asks, panel, used>>

\* The file was not there: setupFsWatcher, and the reconnection if abort() led here.
Rewatch ==
    /\ tailscale.sample.at = "rewatch"
    /\ LET w == [tailscale EXCEPT !.sample = NoRead, !.watching = daemon.dir, !.change = FALSE]
       IN tailscale' = IF tailscale.sample.after = "abort" THEN Attempt(w) ELSE w
    /\ UNCHANGED <<daemon, asks, answers, panel, used>>

-----------------------------------------------------------------------------
Waiting == tailscale.sample.at = "none"

\* Mutant: a subscription that has gone takes no sample.
LostUnsampled ==
    /\ Waiting /\ Connected /\ tailscale.hangup /\ ~tailscale.line
    /\ tailscale' = Rest([Lost(tailscale) EXCEPT !.sample.after = "lost"])
    /\ UNCHANGED <<daemon, asks, answers, panel, used>>

\* onWatchSocketDisconnected, and onWatchSocketError which does the same.
OnWatchSocketDisconnected ==
    /\ Waiting /\ Connected /\ tailscale.hangup /\ ~tailscale.line
    /\ tailscale' = Reading(Lost(tailscale), "lost")
    /\ UNCHANGED <<daemon, asks, answers, panel, used>>

\* triggerSampleDebounced
Trigger(w) == IF w.initialized THEN [w EXCEPT !.debounce = TRUE] ELSE Reading(w, "nothing")

OnWatchSocketReadyRead ==
    /\ Waiting /\ Connected /\ tailscale.line
    /\ tailscale' = Trigger([tailscale EXCEPT !.watch = "streaming", !.line = FALSE])
    /\ UNCHANGED <<daemon, asks, answers, panel, used>>

\* Another status than 200, a malformed chunk or the last one: abort() reports the
\* disconnection from within, which samples and starts the timer; then it reconnects.
OnWatchSocketRefused ==
    /\ Waiting /\ Connected /\ Event
    /\ tailscale' = Reading(Lost(tailscale), "abort")
    /\ UNCHANGED <<daemon, asks, answers, panel>>

OnSocketDirectoryChanged ==
    /\ Waiting /\ tailscale.change
    /\ LET w == [tailscale EXCEPT !.change = FALSE]
       IN tailscale' = IF ~Connected /\ daemon.file
                       THEN Attempt([w EXCEPT !.retry = FALSE, !.watching = daemon.dir])
                       ELSE w
    /\ UNCHANGED <<daemon, asks, answers, panel, used>>

ReconnectWatchBus ==
    /\ Waiting /\ tailscale.retry
    /\ tailscale' = Attempt([tailscale EXCEPT !.retry = FALSE])
    /\ UNCHANGED <<daemon, asks, answers, panel, used>>

Debounced ==
    /\ Waiting /\ tailscale.debounce
    /\ tailscale' = Reading([tailscale EXCEPT !.debounce = FALSE], "nothing")
    /\ UNCHANGED <<daemon, asks, answers, panel, used>>

-----------------------------------------------------------------------------
Take(call) ==
    /\ Waiting /\ asks # <<>> /\ Head(asks) = call
    /\ asks' = Tail(asks)
    /\ UNCHANGED <<panel, used>>

Start ==
    /\ Take("start")
    /\ tailscale' = Reading(Attempt([tailscale EXCEPT !.watching = daemon.dir, !.change = FALSE]),
                            "nothing")
    /\ UNCHANGED <<daemon, answers>>

Stop ==
    /\ Take("stop")
    /\ tailscale' = [Lost(tailscale) EXCEPT !.watching = FALSE, !.change = FALSE,
                                            !.retry = FALSE, !.debounce = FALSE]
    /\ UNCHANGED <<daemon, answers>>

Sample ==
    /\ Take("refresh")
    /\ tailscale' = Reading(tailscale, "nothing")
    /\ UNCHANGED <<daemon, answers>>

\* setPref changes a preference, or its request fails.
PrefSet == IF daemon.listens THEN {daemon, [daemon EXCEPT !.state = 3 - @]} ELSE {daemon}

\* runTailscaleCli may fail to start, fail or be killed after its time, all of them
\* with or without an effect; serveStop runs it twice.
CliRuns == IF daemon.listens THEN {daemon, [daemon EXCEPT !.state = 3 - @]} ELSE {daemon}

\* Whether the command succeeded or not, it samples and then reports.
RunAction ==
    /\ Take("action")
    /\ answers' = Append(answers, [type |-> "busy", busy |-> TRUE])
    /\ daemon' \in PrefSet \cup CliRuns
    /\ tailscale' = Reading([tailscale EXCEPT !.line = @ \/ (daemon' # daemon /\ Connected)], "action")

RunNetcheck ==
    /\ Take("netcheck")
    /\ answers' = Append(answers, [type |-> "netcheck"])
    /\ UNCHANGED <<daemon, tailscale>>

-----------------------------------------------------------------------------
AskFor(call) ==
    /\ used.asks < MaxAsks /\ used' = [used EXCEPT !.asks = @ + 1]
    /\ asks' = Append(asks, call)
    /\ UNCHANGED <<daemon, tailscale, answers>>

SetRunning ==
    /\ AskFor(IF panel.running THEN "stop" ELSE "start")
    /\ panel' = [panel EXCEPT !.running = ~@]

AskWork ==
    /\ \E call \in {"refresh", "action"} : AskFor(call)
    /\ UNCHANGED panel

Netcheck ==
    /\ AskFor("netcheck")
    /\ panel' = [panel EXCEPT !.netcheck = TRUE]

Hear ==
    /\ answers # <<>>
    /\ answers' = Tail(answers)
    /\ LET a == Head(answers)
       IN panel' = CASE a.type = "state" -> [panel EXCEPT !.shown = a.state]
                     [] a.type = "busy" -> [panel EXCEPT !.busy = a.busy]
                     [] OTHER -> [panel EXCEPT !.netcheck = FALSE]
    /\ UNCHANGED <<daemon, tailscale, asks, used>>

-----------------------------------------------------------------------------
Worker ==
    \/ ReadStatus \/ ReadPrefs \/ Rewatch
    \/ OnWatchSocketDisconnected \/ OnWatchSocketReadyRead \/ OnSocketDirectoryChanged
    \/ ReconnectWatchBus \/ Debounced
    \/ Start \/ Stop \/ Sample \/ RunAction \/ RunNetcheck

Next ==
    \/ DaemonStarts \/ DaemonEnds \/ DaemonChanges \/ OnWatchSocketRefused
    \/ Worker \/ SetRunning \/ AskWork \/ Netcheck \/ Hear

Spec == Init /\ [][Next]_tailscaleVars

-----------------------------------------------------------------------------
\* Every variable holds what its C++ type and its handlers allow: above all, a
\* socket that is not connected has nothing left to be read.
TypeOK ==
    /\ daemon.listens => daemon.file
    /\ daemon.file => daemon.dir
    /\ tailscale.watch \in {"none", "opened", "streaming"}
    /\ tailscale.sample.at \in {"none", "status", "prefs", "rewatch"}
    /\ Waiting \/ tailscale.sample.after \in {"nothing", "lost", "abort", "action"}
    /\ tailscale.line \/ tailscale.hangup => Connected
    /\ used \in [events : 0..MaxEvents, asks : 0..MaxAsks]

Settled ==
    /\ asks = <<>> /\ answers = <<>> /\ Waiting
    /\ ~tailscale.debounce /\ ~tailscale.retry /\ ~tailscale.change
    /\ ~tailscale.line /\ ~tailscale.hangup

(* When nothing is left to do, a running monitor shows the daemon as it is:
   no notification is lost that came during the requests of a sample or while
   it reconnected.  It may miss a daemon that came back only if the directory
   was gone, and so not watched, or the file appeared between the test that
   did not find it and the watch (slipped); and one that went only if a sample
   made without a subscription had found it (glimpsed). *)
DaemonCurrent ==
    Settled /\ panel.running =>
        \/ tailscale.watch = "streaming" /\ panel.shown = Now
        \/ /\ tailscale.watch = "none"
           /\ ~daemon.listens /\ (panel.shown = Offline \/ tailscale.glimpsed)
        \/ tailscale.watch = "none" /\ (~tailscale.watching \/ tailscale.slipped)
=============================================================================
