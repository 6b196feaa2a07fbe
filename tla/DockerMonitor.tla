---------------------------- MODULE DockerMonitor ---------------------------
(***************************************************************************)
(* How the shell's picture of Docker is kept: DockerWorker on its thread,  *)
(* which samples the daemon and listens to its GET /events stream, and     *)
(* DockerMonitor on the GUI thread with the buttons of                     *)
(* DockerControlCenter.qml.  Nothing is polled: a sample is taken when an  *)
(* event, a lost connection or a request asks for one, and the connection  *)
(* is retried when a timer or the watch of the socket's directory says so. *)
(* A handler that blocks is a list of steps, todo, between which the       *)
(* daemon and the GUI go on.                                               *)
(***************************************************************************)
EXTENDS Naturals, Sequences

CONSTANTS
    Unknown,     \* what was not read
    UserOps,     \* what the user asks for
    Timeouts,    \* whether a running daemon may fail to answer in time
    MaxRequests, \* bound: how often the user asks
    MaxChanges,  \* bound: how often the containers change
    MaxStarts    \* bound: how often the daemon starts

ASSUME UserOpsAssumption ==
    UserOps \subseteq {"refresh", "action", "remove", "logs", "project", "startService",
                     "stopService"}
ASSUME UnknownAssumption == Unknown \notin Nat
ASSUME TimeoutsAssumption == Timeouts \in BOOLEAN
ASSUME BoundsAssumption == {MaxRequests, MaxChanges, MaxStarts} \subseteq Nat

VARIABLES
    todo,        \* the steps the running handler has still to take
    conn,        \* the events socket: "none", or how much of it is there
    initialized, \* m_initialized
    lastState,   \* m_lastState
    snap,        \* the state fetchFullState is filling in
    debounce,    \* m_debounceTimer is active
    reconnect,   \* m_reconnectTimer is active
    watching,    \* m_fsWatcher exists
    notice,      \* it has a change to report
    wq,          \* requests queued to the worker
    gq,          \* signals queued to the GUI
    view, busy,  \* DockerMonitor's m_state and m_isBusy
    requests,
    up,          \* the daemon is listening
    file,        \* its socket exists in the file system
    world,       \* the version of the containers, images and volumes it has
    starts,
    stream       \* what the worker has not read of the events connection

workerVars == <<todo, conn, initialized, lastState, snap, debounce, reconnect, watching>>
guiVars == <<view, busy, requests>>
daemonVars == <<up, file, world, starts>>
vars == <<workerVars, notice, wq, gq, guiVars, daemonVars, stream>>

Seen == (0 .. MaxChanges) \cup {Unknown}
States == [info : Seen, list : Seen]

Down == [info |-> Unknown, list |-> Unknown]
Current == IF up THEN [info |-> world, list |-> world] ELSE Down

NoStream == [hello |-> "none", events |-> FALSE, end |-> "no"]
Sample == <<"info", "list", "publish">>

Busy(b) == [n |-> "busy", v |-> b]
Changed(s) == [n |-> "state", v |-> s]

Init ==
    /\ todo = <<"watch">> \o Sample \o <<"connect">>
    /\ conn = "none" /\ initialized = FALSE /\ lastState = Down /\ snap = Down
    /\ debounce = FALSE /\ reconnect = FALSE /\ watching = FALSE /\ notice = FALSE
    /\ wq = <<>> /\ gq = <<>>
    /\ view = Down /\ busy = FALSE /\ requests = 0
    /\ up \in BOOLEAN /\ file \in {TRUE, up} /\ world = 0 /\ starts = 0
    /\ stream = NoStream

-----------------------------------------------------------------------------
(* The steps of a handler.                                                 *)

Step(s) == todo # <<>> /\ Head(todo) = s
GoOn == todo' = Tail(todo)

CloseEvents == conn' = "none" /\ stream' = NoStream

(* setupFsWatcher(): what the old watcher had to report is gone with it.   *)
SetupFsWatcher ==
    /\ Step("watch") /\ GoOn
    /\ watching' = TRUE /\ notice' = FALSE
    /\ UNCHANGED <<conn, initialized, lastState, snap, debounce, reconnect, gq, stream>>

(* connectEvents(): a local connect() is made or refused at once.  When it *)
(* is refused, onEventsError() goes on as OnEventsLost does.               *)
ConnectEvents ==
    /\ Step("connect")
    /\ stream' = NoStream
    /\ conn' = IF file /\ up THEN "headers" ELSE "none"
    /\ reconnect' = (reconnect /\ ~(file /\ up))
    /\ todo' = IF file /\ ~up THEN <<"retry">> \o Tail(todo) ELSE Tail(todo)
    /\ UNCHANGED <<initialized, lastState, snap, debounce, watching, notice, gq>>

CloseForService ==
    /\ Step("close") /\ GoOn /\ CloseEvents
    /\ UNCHANGED <<initialized, lastState, snap, debounce, reconnect, watching, notice, gq>>

(* Mutant: what was read of the broken stream is kept.                     *)
BreakKeepsStream ==
    /\ Step("broken") /\ GoOn
    /\ conn' = "none" /\ reconnect' = TRUE
    /\ UNCHANGED <<initialized, lastState, snap, debounce, watching, notice, gq, stream>>

(* The end of the stream, or one that cannot be parsed.                    *)
BreakStream ==
    /\ Step("broken") /\ GoOn /\ CloseEvents
    /\ reconnect' = TRUE
    /\ UNCHANGED <<initialized, lastState, snap, debounce, watching, notice, gq>>

(* The end of onEventsError() and onEventsDisconnected().                  *)
RetryOrWatch ==
    /\ Step("retry")
    /\ IF file THEN GoOn /\ reconnect' = TRUE
               ELSE todo' = <<"watch">> \o Tail(todo) /\ UNCHANGED reconnect
    /\ UNCHANGED <<conn, initialized, lastState, snap, debounce, watching, notice, gq, stream>>

(* fetchFullState(): the ping and what is read with it, then the lists.    *)
(* Only the ping's failure ends it; a list that is not answered is empty.  *)
ReadInfo ==
    /\ Step("info")
    /\ \/ up /\ snap' = [info |-> world, list |-> Unknown] /\ GoOn
       \/ (~up \/ Timeouts) /\ snap' = Down /\ todo' = Tail(Tail(todo))
    /\ UNCHANGED <<conn, initialized, lastState, debounce, reconnect, watching, notice, gq, stream>>

ReadList ==
    /\ Step("list") /\ GoOn
    /\ \/ up /\ snap' = [snap EXCEPT !.list = world]
       \/ (~up \/ Timeouts) /\ UNCHANGED snap
    /\ UNCHANGED <<conn, initialized, lastState, debounce, reconnect, watching, notice, gq, stream>>

(* Mutant: remembers the state without sending it.                         *)
PublishSilently ==
    /\ Step("publish") /\ GoOn
    /\ initialized' = TRUE /\ lastState' = snap
    /\ gq' = IF ~initialized THEN Append(gq, Changed(snap)) ELSE gq
    /\ snap' = Down
    /\ UNCHANGED <<conn, debounce, reconnect, watching, notice, stream>>

Publish ==
    /\ Step("publish") /\ GoOn
    /\ IF ~initialized \/ snap # lastState
       THEN initialized' = TRUE /\ lastState' = snap /\ gq' = Append(gq, Changed(snap))
       ELSE UNCHANGED <<initialized, lastState, gq>>
    /\ snap' = Down
    /\ UNCHANGED <<conn, debounce, reconnect, watching, notice, stream>>

(* runProjectAction() looks for its containers in a state of its own.      *)
AdoptState ==
    /\ Step("adopt") /\ GoOn
    /\ lastState' = snap /\ snap' = Down
    /\ UNCHANGED <<conn, initialized, debounce, reconnect, watching, notice, gq, stream>>

(* triggerSampleDebounced().                                               *)
TriggerSample ==
    /\ Step("event")
    /\ IF initialized THEN debounce' = TRUE /\ GoOn
                      ELSE todo' = Sample \o Tail(todo) /\ UNCHANGED debounce
    /\ UNCHANGED <<conn, initialized, lastState, snap, reconnect, watching, notice, gq, stream>>

SetIdle ==
    /\ Step("idle") /\ GoOn
    /\ gq' = Append(gq, Busy(FALSE))
    /\ UNCHANGED <<conn, initialized, lastState, snap, debounce, reconnect, watching, notice, stream>>

HandlerStep ==
    /\ \/ SetupFsWatcher \/ ConnectEvents \/ CloseForService \/ BreakStream \/ RetryOrWatch
       \/ ReadInfo \/ ReadList \/ Publish \/ AdoptState \/ TriggerSample \/ SetIdle
    /\ UNCHANGED <<wq, guiVars, daemonVars>>

-----------------------------------------------------------------------------
(* What the worker's event loop starts a handler for.                      *)

Readable == stream.hello # "none" \/ stream.events \/ stream.end = "chunk"

(* Mutant: trusts the sample taken before the connection was made.         *)
ParseUnsampled ==
    LET events == IF stream.events THEN <<"event">> ELSE <<>>
        end == IF stream.end = "chunk" THEN <<"broken">> ELSE <<>>
    IN IF stream.hello = "bad" THEN <<"broken">> ELSE events \o end

(* onEventsReadyRead() takes all there is.  Every event triggers a sample, *)
(* the answer to the request for them too, unless it is a refusal.         *)
Parse ==
    LET opening == IF conn = "headers" THEN Sample ELSE <<>>
        events == IF stream.events THEN <<"event">> ELSE <<>>
        end == IF stream.end = "chunk" THEN <<"broken">> ELSE <<>>
    IN IF stream.hello = "bad" THEN <<"broken">> ELSE opening \o events \o end

OnEventsReadyRead ==
    /\ Readable /\ (conn = "headers" => stream.hello # "none")
    /\ todo' = Parse
    /\ conn' = IF stream.hello = "ok" THEN "live" ELSE conn
    /\ stream' = [stream EXCEPT !.hello = "none", !.events = FALSE]
    /\ UNCHANGED <<debounce, reconnect, notice, wq, gq>>

(* onEventsDisconnected(), onEventsError() of a connection that was made.  *)
OnEventsLost ==
    /\ conn # "none" /\ ~Readable /\ stream.end = "eof"
    /\ CloseEvents
    /\ todo' = Sample \o <<"retry">>
    /\ UNCHANGED <<debounce, reconnect, notice, wq, gq>>

OnSocketDirectoryChanged ==
    /\ notice /\ notice' = FALSE
    /\ IF conn = "none" /\ file
       THEN todo' = <<"watch", "connect">> /\ reconnect' = FALSE
       ELSE UNCHANGED <<todo, reconnect>>
    /\ UNCHANGED <<conn, debounce, wq, gq, stream>>

DebounceTimeout ==
    /\ debounce /\ debounce' = FALSE
    /\ todo' = Sample
    /\ UNCHANGED <<conn, reconnect, notice, wq, gq, stream>>

ReconnectEvents ==
    /\ reconnect /\ reconnect' = FALSE
    /\ todo' = <<"connect">>
    /\ UNCHANGED <<conn, debounce, notice, wq, gq, stream>>

(* Mutant: a refusal of systemd ends the handler before setBusy(false).    *)
ScriptsStayBusy(op) ==
    CASE op \in {"refresh", "action", "remove", "project"} -> {Sample \o <<"idle">>}
      [] op = "logs" -> {<<"idle">>}
      [] op = "startService" -> {<<>>, <<"watch", "connect">> \o Sample \o <<"idle">>}
      [] op = "stopService" -> {<<>>, <<"close">> \o Sample \o <<"watch", "idle">>}

(* The requests.  What an action does to the containers is the daemon's    *)
(* business, answered in time or not; systemd, asked to start or stop the  *)
(* service, may refuse.                                                    *)
Scripts(op) ==
    CASE op \in {"refresh", "action", "remove"} -> {Sample \o <<"idle">>}
      [] op = "logs" -> {<<"idle">>}
      [] op = "project" ->
            {(IF lastState.list = Unknown THEN <<"info", "list", "adopt">> ELSE <<>>)
             \o Sample \o <<"idle">>}
      [] op = "startService" -> {<<"idle">>, <<"watch", "connect">> \o Sample \o <<"idle">>}
      [] op = "stopService" -> {<<"idle">>, <<"close">> \o Sample \o <<"watch", "idle">>}

RunRequest ==
    /\ wq # <<>> /\ wq' = Tail(wq)
    /\ gq' = Append(gq, Busy(TRUE))
    /\ todo' \in Scripts(Head(wq))
    /\ UNCHANGED <<conn, debounce, reconnect, notice, stream>>

Handle ==
    /\ todo = <<>>
    /\ \/ OnEventsReadyRead \/ OnEventsLost \/ OnSocketDirectoryChanged
       \/ DebounceTimeout \/ ReconnectEvents \/ RunRequest
    /\ UNCHANGED <<initialized, lastState, snap, watching, guiVars, daemonVars>>

-----------------------------------------------------------------------------
(* The GUI thread.  Buttons are dimmed while busy, as far as the GUI knows, *)
(* but not those of the log view, nor those that remove another image or   *)
(* volume than the one being removed.                                      *)

Allowed(op) ==
    /\ op \notin {"logs", "remove"} => ~busy
    /\ op \in {"action", "remove", "logs", "project"} => view.list # Unknown
    /\ op = "stopService" => view # Down
    /\ op = "startService" => view = Down

Request ==
    /\ requests < MaxRequests
    /\ \E op \in UserOps : Allowed(op) /\ wq' = Append(wq, op)
    /\ requests' = requests + 1
    /\ UNCHANGED <<workerVars, notice, gq, view, busy, daemonVars, stream>>

Deliver ==
    /\ gq # <<>> /\ gq' = Tail(gq)
    /\ view' = IF Head(gq).n = "state" THEN Head(gq).v ELSE view
    /\ busy' = IF Head(gq).n = "busy" THEN Head(gq).v ELSE busy
    /\ UNCHANGED <<workerVars, notice, wq, requests, daemonVars, stream>>

-----------------------------------------------------------------------------
(* The daemon, and everybody else who changes the socket's directory.      *)

Touched == notice' = watching

DaemonStarts ==
    /\ ~up /\ starts < MaxStarts
    /\ up' = TRUE /\ file' = TRUE /\ starts' = starts + 1 /\ Touched
    /\ UNCHANGED <<world, stream>>

(* Orderly, with the last chunk of the stream, or at a crash, which leaves *)
(* the socket's name behind.                                               *)
DaemonExits ==
    /\ up /\ up' = FALSE
    /\ \E end \in {"chunk", "eof"} :
        stream' = IF conn = "none" THEN stream
                  ELSE [stream EXCEPT !.end = IF @ # "no" THEN @ ELSE
                          IF conn = "live" \/ stream.hello = "ok" THEN end ELSE "eof"]
    /\ \/ file' = FALSE /\ Touched
       \/ UNCHANGED <<file, notice>>
    /\ UNCHANGED <<world, starts>>

Subscribed == stream.end = "no" /\ (conn = "live" \/ stream.hello = "ok")

WorldChanges ==
    /\ up /\ world < MaxChanges
    /\ world' = world + 1
    /\ stream' = IF Subscribed THEN [stream EXCEPT !.events = TRUE] ELSE stream
    /\ UNCHANGED <<up, file, starts, notice>>

DaemonAnswers ==
    /\ up /\ conn = "headers" /\ stream = NoStream
    /\ \E hello \in {"ok", "bad"} : stream' = [stream EXCEPT !.hello = hello]
    /\ UNCHANGED <<daemonVars, notice>>

OtherFile ==
    /\ Touched
    /\ UNCHANGED <<daemonVars, stream>>

Daemon ==
    /\ DaemonStarts \/ DaemonExits \/ WorldChanges \/ DaemonAnswers \/ OtherFile
    /\ UNCHANGED <<workerVars, wq, gq, guiVars>>

Next == HandlerStep \/ Handle \/ Request \/ Deliver \/ Daemon

Spec == Init /\ [][Next]_vars

(* Both threads and their timers run, the watch reports what it has seen,  *)
(* and a daemon that is up answers.                                        *)
FairSpec ==
    /\ Spec
    /\ WF_vars(HandlerStep) /\ WF_vars(Deliver)
    /\ SF_vars(Handle /\ OnEventsReadyRead) /\ SF_vars(Handle /\ OnEventsLost)
    /\ SF_vars(Handle /\ OnSocketDirectoryChanged)
    /\ SF_vars(Handle /\ DebounceTimeout) /\ SF_vars(Handle /\ ReconnectEvents)
    /\ SF_vars(Handle /\ RunRequest)
    /\ WF_vars(DaemonAnswers /\ Daemon)

-----------------------------------------------------------------------------
Ops == {"watch", "connect", "close", "broken", "retry", "info", "list", "publish",
        "adopt", "event", "idle"}

TypeOK ==
    /\ todo \in Seq(Ops) /\ conn \in {"none", "headers", "live"}
    /\ {lastState, snap, view} \subseteq States
    /\ {initialized, debounce, reconnect, watching, notice, busy, up, file} \subseteq BOOLEAN
    /\ wq \in Seq(UserOps)
    /\ gq \in Seq([n : {"busy"}, v : BOOLEAN] \cup [n : {"state"}, v : States])
    /\ requests \in 0 .. MaxRequests /\ world \in 0 .. MaxChanges /\ starts \in 0 .. MaxStarts
    /\ stream \in [hello : {"none", "ok", "bad"}, events : BOOLEAN,
                    end : {"no", "chunk", "eof"}]
    /\ conn = "none" => stream = NoStream

Takes(s) == \E i \in DOMAIN todo : todo[i] = s

(* No change is lost between the samples: over a live connection a state   *)
(* that is not the daemon's is one that an unread event, the debounce      *)
(* timer or the running handler will mend, whatever changed while a sample *)
(* was being read (sample(), triggerSampleDebounced()).                    *)
NoLostEvent ==
    conn = "live" /\ stream.end = "no" /\ lastState # Current =>
        \/ stream.events \/ debounce \/ Takes("info") \/ Takes("event")
        \/ Step("list") /\ snap.info = world
        \/ Step("publish") /\ snap = Current

(* The panel stops spinning.                                               *)
BusyEnds == busy ~> ~busy

(* With a connection that lasts, what is shown is what the daemon has      *)
(* (DockerWorker: one full sample, then it stays current by listening).    *)
LiveViewCurrent == <>[](conn = "live" /\ up) => <>[](view = Current)

(* The same of a daemon that is gone.                                      *)
GoneIsShown == <>[]~up => <>[](view = Down)
=============================================================================
