--------------------------- MODULE EthernetMonitor ---------------------------
(***************************************************************************)
(* src/plugins/ethernet: a worker thread that samples the wired link when  *)
(* the kernel (netlink) or NetworkManager (D-Bus) says something changed,  *)
(* and the GUI object that posts requests to it and shows what it reports. *)
(* No timer polls: what is shown is current only if no signal is lost.     *)
(***************************************************************************)
EXTENDS Naturals, Sequences

CONSTANTS
    Links,         \* some of "absent", "unplugged", "connecting" (no address), "up"
    Connections,   \* NetworkManager's connections: name, gateway, DNS
    NoConnection,
    MaxChanges,    \* bound on what happens outside
    MaxOps,        \* bound on what the user asks for
    MaxReports     \* bound on the reports a tick of the throughput timer finds queued

VARIABLES
    net,        \* outside: the cable and address, NetworkManager's verdict, its connection
    signals,    \* readable netlink messages, undelivered D-Bus signals
    worker,     \* EthernetWorker and the statics of EthernetProbe
    posts,      \* requests queued for the worker's thread
    reports,    \* signals queued for the GUI's thread
    gui,        \* EthernetMonitor
    steps       \* [changes, ops]: how much of the bounds is used up

ethernetVars == <<net, signals, worker, posts, reports, gui, steps>>

States == [link : {"absent", "unplugged", "connecting", "up"}, internet : BOOLEAN, connection : Connections \cup {NoConnection}]
Blank == [link |-> "absent", internet |-> FALSE, connection |-> NoConnection]

Idle == [at |-> "idle", force |-> FALSE, carrier |-> FALSE, full |-> FALSE, after |-> "nothing"]

Init ==
    /\ net \in [link : {"up"}, full : {TRUE}, connection : Connections]
    /\ signals = [netlink |-> FALSE, dbus |-> FALSE]
    /\ worker = [fd |-> FALSE, subscribed |-> FALSE, debounce |-> FALSE, ticking |-> FALSE,
                 tracking |-> FALSE, last |-> Blank, initialized |-> FALSE, job |-> Idle,
                 nmcli |-> "none", cache |-> NoConnection, cacheFresh |-> FALSE]
    /\ posts = <<"start">>
    /\ reports = <<>>
    /\ gui = [running |-> TRUE, busy |-> FALSE, pinging |-> FALSE, tracking |-> FALSE,
              shown |-> Blank, rate |-> 0, overridden |-> FALSE]
    /\ steps = [changes |-> 0, ops |-> 0]

-----------------------------------------------------------------------------
(* Outside.  A change of the link makes netlink readable if the socket is  *)
(* bound; NetworkManager signals its own changes to whoever subscribed.    *)

ChangeLink ==
    /\ steps.changes < MaxChanges
    /\ \E l \in Links \ {net.link} : net' = [net EXCEPT !.link = l]
    /\ signals' = [signals EXCEPT !.netlink = worker.fd]
    /\ steps' = [steps EXCEPT !.changes = @ + 1]
    /\ UNCHANGED <<worker, posts, reports, gui>>

ChangeManager ==
    /\ steps.changes < MaxChanges
    /\ \E f \in BOOLEAN, c \in Connections \cup {NoConnection} :
         net' = [net EXCEPT !.full = f, !.connection = c]
    /\ net' # net
    /\ signals' = [signals EXCEPT !.dbus = worker.subscribed]
    /\ steps' = [steps EXCEPT !.changes = @ + 1]
    /\ UNCHANGED <<worker, posts, reports, gui>>

\* Three seconds pass: the next probe asks NetworkManager for its connection again.
CacheAges ==
    /\ worker.cacheFresh
    /\ worker' = [worker EXCEPT !.cacheFresh = FALSE]
    /\ UNCHANGED <<net, signals, posts, reports, gui, steps>>

-----------------------------------------------------------------------------
(* EthernetProbe::probe asks the kernel, then NetworkManager, then the      *)
(* kernel again for the address, and the world may change in between.      *)

Begin(w, force, after) == [w EXCEPT !.job = [Idle EXCEPT !.at = "kernel", !.force = force, !.after = after]]

Carrier == net.link \in {"connecting", "up"}

\* findEthernetInterfaces finds none: the probe ends there; else queryNetlinkAndEthtool.
ProbeKernel ==
    /\ worker.job.at = "kernel"
    /\ worker' = [worker EXCEPT !.job.at = IF net.link = "absent" THEN "none" ELSE "manager",
                                !.job.carrier = Carrier]
    /\ UNCHANGED <<net, signals, posts, reports, gui, steps>>

\* queryNetworkManagerFast: the connection is kept three seconds and never forgotten.
ProbeManager ==
    /\ worker.job.at = "manager"
    /\ worker' = [worker EXCEPT
         !.job.at = "address", !.job.full = net.full,
         !.cache = IF (worker.cacheFresh /\ @ # NoConnection) \/ net.connection = NoConnection
                   THEN @ ELSE net.connection,
         !.cacheFresh = TRUE]
    /\ UNCHANGED <<net, signals, posts, reports, gui, steps>>

\* querySysfsAndPosixFallback: the address, and a carrier that has come meanwhile.
LinkNow ==
    IF worker.job.at = "none" THEN "absent"
    ELSE IF net.link = "up" THEN "up"
    ELSE IF worker.job.carrier \/ Carrier THEN "connecting" ELSE "unplugged"

\* testInternetSocket, asked when NetworkManager denies connectivity: any answer.
SocketAnswers ==
    IF worker.job.force /\ LinkNow = "up" /\ ~worker.job.full THEN BOOLEAN ELSE {FALSE}

Probed(answers) ==
    [link |-> LinkNow,
     internet |-> LinkNow = "up" /\ (worker.job.full \/ answers),
     connection |-> IF LinkNow = "absent" THEN NoConnection ELSE worker.cache]

After(job) ==
    CASE job.after = "reconnected" -> <<[type |-> "reconnected"]>>
      [] job.after = "vnstat" -> <<[type |-> "vnstat"]>>
      [] OTHER -> <<>>

\* sample: a rate if 50 ms have passed since the last one, and the state only
\* when it differs from the one reported last.
ProbeEnds ==
    /\ worker.job.at \in {"address", "none"}
    /\ \E answers \in SocketAnswers, slow \in {worker.tracking /\ worker.initialized, FALSE} :
         LET state == Probed(answers)
             told == worker.initialized /\ state = worker.last
             rate == IF slow THEN <<[type |-> "rate", rate |-> 1]>> ELSE <<>>
         IN /\ worker' = [worker EXCEPT !.job = Idle, !.initialized = TRUE, !.last = state]
            /\ reports' = reports \o rate
                          \o (IF told THEN <<>> ELSE <<[type |-> "state", state |-> state]>>)
                          \o After(worker.job)
    /\ UNCHANGED <<net, signals, posts, gui, steps>>

-----------------------------------------------------------------------------
(* The worker's event loop: one event at a time, while no probe runs.      *)

Free == worker.job.at = "idle"

Armed(w) == [w EXCEPT !.debounce = TRUE]     \* triggerSampleDebounced

OnNetlinkActivated ==
    /\ Free /\ worker.fd /\ signals.netlink
    /\ signals' = [signals EXCEPT !.netlink = FALSE]
    /\ worker' = Armed(worker)
    /\ UNCHANGED <<net, posts, reports, gui, steps>>

OnNmSignal ==
    /\ Free /\ signals.dbus
    /\ signals' = [signals EXCEPT !.dbus = FALSE]
    /\ worker' = Armed(worker)
    /\ UNCHANGED <<net, posts, reports, gui, steps>>

Debounced ==
    /\ Free /\ worker.debounce
    /\ worker' = Begin([worker EXCEPT !.debounce = FALSE], FALSE, "nothing")
    /\ UNCHANGED <<net, signals, posts, reports, gui, steps>>

\* Nothing is reported when the interface's counters cannot be read.
SampleThroughput ==
    /\ Free /\ worker.ticking
    /\ reports' = Append(reports, [type |-> "rate", rate |-> 1])
    /\ Len(reports) < MaxReports
    /\ UNCHANGED <<net, signals, worker, posts, gui, steps>>

Serve(r) ==
    /\ Free /\ posts # <<>> /\ Head(posts) = r
    /\ posts' = Tail(posts)
    /\ UNCHANGED <<net, gui, steps>>

\* Mutant: the socket is opened the first time only.
SourcesOnce(w) == [w EXCEPT !.fd = ~w.subscribed, !.subscribed = TRUE]

\* setupNetlink and the D-Bus subscriptions come before the first sample.
WithSources(w) == [w EXCEPT !.fd = TRUE, !.subscribed = TRUE]

Start ==
    /\ Serve("start")
    /\ worker' = Begin(WithSources(worker), TRUE, "vnstat")
    /\ UNCHANGED <<signals, reports>>

\* Mutant: what the closed socket had for the worker is still to come.
StopUndrained ==
    /\ Serve("stop")
    /\ worker' = [worker EXCEPT !.fd = FALSE, !.debounce = FALSE, !.ticking = FALSE]
    /\ UNCHANGED <<signals, reports>>

\* The D-Bus subscriptions stay, and m_throughputTracking stays as it is.
Stop ==
    /\ Serve("stop")
    /\ worker' = [worker EXCEPT !.fd = FALSE, !.debounce = FALSE, !.ticking = FALSE]
    /\ signals' = [signals EXCEPT !.netlink = FALSE]
    /\ UNCHANGED reports

\* requestSample, and runCheck: its own verdict is not used.
Sample ==
    /\ \/ Serve("refresh") /\ worker' = Begin(worker, FALSE, "nothing")
       \/ Serve("check") /\ worker' = Begin(worker, TRUE, "nothing")
    /\ UNCHANGED <<signals, reports>>

Ping ==
    /\ Serve("ping")
    /\ reports' = Append(reports, [type |-> "pinged"])
    /\ UNCHANGED <<signals, worker>>

Vnstat ==
    /\ Serve("vnstat")
    /\ reports' = Append(reports, [type |-> "vnstat"])
    /\ UNCHANGED <<signals, worker>>

\* The sample it takes at once comes too soon after the counters were read.
SetThroughputTracking ==
    /\ \E on \in BOOLEAN :
         /\ Serve(IF on THEN "track" ELSE "untrack")
         /\ worker' = IF worker.tracking = on THEN worker
                      ELSE [worker EXCEPT !.tracking = on, !.ticking = on]
         /\ reports' = IF worker.tracking /\ ~on
                       THEN Append(reports, [type |-> "rate", rate |-> 0]) ELSE reports
    /\ UNCHANGED signals

\* Without an interface it fails at once; while nmcli runs it is ignored.
Reconnect ==
    /\ Serve("reconnect")
    /\ \/ net.link = "absent" /\ worker' = Begin(worker, FALSE, "reconnected")
       \/ net.link # "absent" /\ worker.nmcli # "none" /\ UNCHANGED worker
       \/ net.link # "absent" /\ worker.nmcli = "none"
          /\ worker' = [worker EXCEPT !.nmcli = "reapply"]
    /\ UNCHANGED <<signals, reports>>

\* "reapply" falls back to "connect"; any other end is final, as is a failure to start.
NmcliEnds ==
    /\ Free /\ worker.nmcli # "none"
    /\ \/ worker.nmcli = "reapply" /\ worker' = [worker EXCEPT !.nmcli = "connect"]
       \/ worker' = Begin([worker EXCEPT !.nmcli = "none"], FALSE, "reconnected")
    /\ UNCHANGED <<net, signals, posts, reports, gui, steps>>

-----------------------------------------------------------------------------
(* The GUI's thread.                                                       *)

Ask(r) ==
    /\ steps.ops < MaxOps
    /\ steps' = [steps EXCEPT !.ops = @ + 1]
    /\ posts' = Append(posts, r)
    /\ UNCHANGED <<net, signals, worker, reports>>

SetRunning ==
    /\ Ask(IF gui.running THEN "stop" ELSE "start")
    /\ gui' = [gui EXCEPT !.running = ~@]

TrackThroughput ==
    /\ Ask(IF gui.tracking THEN "untrack" ELSE "track")
    /\ gui' = [gui EXCEPT !.tracking = ~@]

RunPing ==
    /\ Ask("ping")
    /\ gui' = [gui EXCEPT !.pinging = TRUE]

RefreshVnstat ==
    /\ Ask("vnstat")
    /\ UNCHANGED gui

AskSample ==
    /\ \E r \in {"refresh", "check", "reconnect"} : Ask(r)
    /\ gui' = [gui EXCEPT !.busy = TRUE]

Receive(type) ==
    /\ reports # <<>> /\ Head(reports).type = type
    /\ reports' = Tail(reports)
    /\ UNCHANGED <<net, signals, worker, posts, steps>>

OnStateChanged ==
    /\ Receive("state")
    /\ gui' = [gui EXCEPT !.shown = Head(reports).state, !.busy = FALSE, !.overridden = FALSE]

OnThroughputUpdated ==
    /\ Receive("rate")
    /\ gui' = [gui EXCEPT !.rate = Head(reports).rate]

OnPingFinished ==
    /\ Receive("pinged")
    /\ gui' = [gui EXCEPT !.pinging = FALSE]

OnReconnectFinished ==
    /\ Receive("reconnected")
    /\ gui' = [gui EXCEPT !.busy = FALSE]

OnVnstatUpdated == Receive("vnstat") /\ UNCHANGED gui

\* Qt's own signal overwrites a field of the state the worker sent; the
\* worker, which compares with what it sent, does not learn of it.
OnReachabilityChanged ==
    /\ steps.changes < MaxChanges
    /\ steps' = [steps EXCEPT !.changes = @ + 1]
    /\ gui' = [gui EXCEPT !.shown.internet = ~@, !.overridden = TRUE]
    /\ UNCHANGED <<net, signals, worker, posts, reports>>

-----------------------------------------------------------------------------
Worker ==
    \/ OnNetlinkActivated \/ OnNmSignal \/ Debounced \/ Start \/ Stop \/ Sample \/ Ping \/ Vnstat
    \/ SetThroughputTracking \/ Reconnect \/ NmcliEnds
    \/ ProbeKernel \/ ProbeManager \/ ProbeEnds

GuiReceives ==
    OnStateChanged \/ OnThroughputUpdated \/ OnPingFinished \/ OnReconnectFinished \/ OnVnstatUpdated

Next ==
    \/ ChangeLink \/ ChangeManager \/ CacheAges \/ SampleThroughput \/ Worker
    \/ SetRunning \/ TrackThroughput \/ RunPing \/ RefreshVnstat \/ AskSample \/ GuiReceives
    \/ OnReachabilityChanged

Spec == Init /\ [][Next]_ethernetVars

-----------------------------------------------------------------------------
\* Every variable of the worker and of the GUI holds what its C++ type and its
\* handlers allow: above all, no undelivered message of a closed netlink socket.
TypeOK ==
    /\ net \in [link : Links, full : BOOLEAN, connection : Connections \cup {NoConnection}]
    /\ signals \in [netlink : BOOLEAN, dbus : BOOLEAN]
    /\ worker.last \in States /\ worker.nmcli \in {"none", "reapply", "connect"}
    /\ worker.cache \in Connections \cup {NoConnection}
    /\ gui.shown \in States /\ gui.rate \in {0, 1}      \* 1: not zero
    /\ signals.netlink => worker.fd
    /\ steps \in [changes : 0..MaxChanges, ops : 0..MaxOps]

Settled ==
    /\ posts = <<>> /\ reports = <<>> /\ Free
    /\ ~worker.debounce /\ ~signals.netlink /\ ~signals.dbus

(* When every queue and timer has run dry, a running monitor shows the link
   as it is, whatever changed during a probe, between a stop and a start or
   while nmcli ran; the internet flag is the worker's unless Qt's signal has
   overwritten it; and the rate is zero once tracking is off. *)
LinkCurrent ==
    Settled =>
        /\ gui.running => gui.shown.link = net.link
        /\ gui.overridden \/ gui.shown = worker.last
        /\ gui.tracking \/ gui.rate = 0

\* A reconnection is asked for, or nmcli runs.
Reconnecting == "reconnect" \in {posts[i] : i \in DOMAIN posts} \/ worker.nmcli # "none"
=============================================================================
