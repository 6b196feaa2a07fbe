--------------------------- MODULE PrivacyMonitor ---------------------------
(***************************************************************************)
(* src/plugins/privacy: whether a program records from the microphone.  A  *)
(* worker thread follows the PipeWire graph through the output of a child  *)
(* process, pw-dump, which may die, and looks at ALSA itself when the graph *)
(* shows no recording.  The graph here has one source and one stream that   *)
(* a link may connect.                                                     *)
(***************************************************************************)
EXTENDS Naturals, Sequences

CONSTANTS
    MaxGraphSteps,  \* bound on the changes of the graph and of ALSA
    MaxDeaths,      \* bound on the exits of pw-dump and the failed starts
    MaxUses         \* bound on the calls of the user

VARIABLES
    audio,     \* whether PipeWire is up; the stream and the link; who captures from
               \* ALSA; what pw-dump has printed
    dumper,    \* PrivacyWorker: process, graph, timers, m_lastState
    orders,    \* requests queued for the worker
    news,      \* stateChanged queued for the GUI
    indicator, \* PrivacyMonitor: [running, mic]
    spent      \* [graph, deaths, uses]

privacyVars == <<audio, dumper, orders, news, indicator, spent>>

\* No stream, or its state; no link, or its state.
Streams == {"none", "suspended", "running"}
Links == {"none", "paused", "active"}

Captures == {"idle", "pipewire", "program"}

NoGraph == [source |-> FALSE, stream |-> "none", link |-> "none"]
Timers == {"restart", "debounce", "poll"}

NewWorker == [process |-> "none", graph |-> NoGraph, timers |-> {}, polls |-> FALSE,
              initialized |-> FALSE, mic |-> FALSE]

Init ==
    /\ audio \in [up : BOOLEAN, stream : Streams, link : Links, alsa : Captures, printed : {<<>>}]
    /\ ~audio.up => audio.stream = "none"
    /\ audio.stream = "none" => audio.link = "none"
    /\ dumper = NewWorker
    /\ orders = <<"start">>
    /\ news = <<>>
    /\ indicator = [running |-> TRUE, mic |-> FALSE]
    /\ spent = [graph |-> 0, deaths |-> 0, uses |-> 0]

-----------------------------------------------------------------------------
(* The recording.                                                          *)

\* A graph shows a recording: the source, the stream and an active link
\* between them, the stream running.
Records(g) == g.source /\ g.stream = "running" /\ g.link = "active"

Recording == audio.stream = "running" /\ audio.link = "active"

\* A capture that PipeWire itself keeps open is none of a program's.
CheckAlsaCapture == audio.alsa # "idle" /\ (audio.up => audio.alsa = "program")

\* pw-dump run once; wpctl, which shows an active link of a stream in any state.
ResolvePipeWireMetadata == Recording
CheckWpctl == audio.link = "active"

\* PrivacyProbe::probe.
Probed == ResolvePipeWireMetadata \/ CheckWpctl \/ CheckAlsaCapture

\* Mutant: the poll timer is not started when a recording is found.
EvaluatedOnce(w) ==
    [w EXCEPT !.initialized = TRUE, !.mic = Records(w.graph) \/ CheckAlsaCapture]

\* evaluatePrivacyState for the worker w.
Evaluated(w) ==
    LET mic == Records(w.graph) \/ CheckAlsaCapture
    IN [w EXCEPT !.initialized = TRUE, !.mic = mic,
                 !.timers = IF ~w.polls THEN @ ELSE IF mic THEN @ \cup {"poll"} ELSE @ \ {"poll"}]

Reported(w, w2) == IF ~w.initialized \/ w.mic # w2.mic THEN Append(news, w2.mic) ELSE news

-----------------------------------------------------------------------------
(* The worker's steps.                                                     *)

\* stopPwProcess, which also stops the restart timer; what the process had
\* printed is not read any more.
NoProcess(w) == [w EXCEPT !.process = "none", !.graph = NoGraph, !.timers = @ \ {"restart"}]

\* setupPwProcess: the new process prints the whole graph first.
WithProcess(w) == [NoProcess(w) EXCEPT !.process = "starting"]
Unread == [audio EXCEPT !.printed = <<>>]

Ordered(o) == orders # <<>> /\ Head(orders) = o /\ orders' = Tail(orders)

OnStart ==
    /\ Ordered("start")
    /\ dumper' = LET w == [WithProcess(dumper) EXCEPT !.polls = TRUE]
                 IN IF w.mic THEN [w EXCEPT !.timers = @ \cup {"poll"}] ELSE w
    /\ audio' = Unread
    /\ UNCHANGED <<news, indicator, spent>>

OnStop ==
    /\ Ordered("stop")
    /\ dumper' = [NoProcess(dumper) EXCEPT !.timers = {}]
    /\ audio' = Unread
    /\ UNCHANGED <<news, indicator, spent>>

\* sample(): the graph at hand, or pw-dump run once when it is empty.
OnSample ==
    /\ Ordered("sample")
    /\ dumper' = IF dumper.graph = NoGraph
                 THEN [dumper EXCEPT !.initialized = TRUE, !.mic = Probed]
                 ELSE Evaluated(dumper)
    /\ news' = Reported(dumper, dumper')
    /\ UNCHANGED <<audio, indicator, spent>>

\* The process has started, and prints the graph, or will find no PipeWire.
ProcessStarts ==
    /\ dumper.process = "starting"
    /\ dumper' = [dumper EXCEPT !.process = "runs"]
    /\ audio' = [audio EXCEPT !.printed =
           IF audio.up THEN <<[source |-> TRUE, stream |-> audio.stream, link |-> audio.link]>> ELSE <<>>]
    /\ UNCHANGED <<orders, news, indicator, spent>>

\* onPwError: it could not be started.
ProcessFails ==
    /\ dumper.process = "starting" /\ spent.deaths < MaxDeaths
    /\ dumper' = [dumper EXCEPT !.process = "dead", !.timers = @ \cup {"restart"}]
    /\ spent' = [spent EXCEPT !.deaths = @ + 1]
    /\ UNCHANGED <<audio, orders, news, indicator>>

\* onPwStdoutReady, processPwBuffer, handleJsonArray: the arrays that are
\* complete change the graph; an array cut in two waits for its rest.  A stream
\* that goes takes its link along.
Merged(g, chunk) ==
    LET s == IF chunk.stream = "same" THEN g.stream ELSE chunk.stream
        l == IF chunk.link = "same" THEN g.link ELSE chunk.link
    IN [source |-> g.source \/ chunk.source, stream |-> s, link |-> IF s = "none" THEN "none" ELSE l]

OnPwStdoutReady ==
    /\ dumper.process = "runs" /\ audio.printed # <<>>
    /\ dumper' = [dumper EXCEPT !.graph = Merged(@, Head(audio.printed)),
                                !.timers = @ \cup {"debounce"}]
    /\ audio' = [audio EXCEPT !.printed = Tail(@)]
    /\ UNCHANGED <<orders, news, indicator, spent>>

\* onPwFinished: the process is gone, and with it the graph.
OnPwFinished ==
    /\ dumper.process = "runs" /\ (audio.up => spent.deaths < MaxDeaths)
    /\ LET w == [dumper EXCEPT !.process = "dead", !.graph = NoGraph]
       IN /\ dumper' = [Evaluated(w) EXCEPT !.timers = @ \cup {"restart"}]
          /\ news' = Reported(w, Evaluated(w))
    /\ audio' = Unread
    /\ spent' = IF audio.up THEN [spent EXCEPT !.deaths = @ + 1] ELSE spent
    /\ UNCHANGED <<orders, indicator>>

Fires(timer) == timer \in dumper.timers

OnDebounce ==
    /\ Fires("debounce")
    /\ LET w == [dumper EXCEPT !.timers = @ \ {"debounce"}]
       IN dumper' = Evaluated(w) /\ news' = Reported(w, Evaluated(w))
    /\ UNCHANGED <<audio, orders, indicator, spent>>

OnRestart ==
    /\ Fires("restart")
    /\ dumper' = WithProcess(dumper)
    /\ audio' = Unread
    /\ UNCHANGED <<orders, news, indicator, spent>>

\* The poll timer: a dead process is restarted at once, a recording looked at.
OnPoll ==
    /\ Fires("poll")
    /\ IF dumper.process \in {"none", "dead"}
       THEN /\ dumper' = WithProcess(dumper)
            /\ audio' = Unread
            /\ UNCHANGED news
       ELSE /\ dumper' = IF dumper.mic THEN Evaluated(dumper)
                         ELSE [dumper EXCEPT !.timers = @ \ {"poll"}]
            /\ news' = IF dumper.mic THEN Reported(dumper, Evaluated(dumper)) ELSE news
            /\ UNCHANGED audio
    /\ UNCHANGED <<orders, indicator, spent>>

Worker == OnStart \/ OnStop \/ OnSample \/ ProcessStarts \/ OnPwStdoutReady \/ OnDebounce
          \/ OnRestart \/ OnPoll

-----------------------------------------------------------------------------
(* The GUI thread.                                                         *)

OnStateChanged ==
    /\ news # <<>>
    /\ indicator' = [indicator EXCEPT !.mic = Head(news)]
    /\ news' = Tail(news)
    /\ UNCHANGED <<audio, dumper, orders, spent>>

SetRunning ==
    /\ spent.uses < MaxUses
    /\ indicator' = [indicator EXCEPT !.running = ~@]
    /\ orders' = Append(orders, IF indicator.running THEN "stop" ELSE "start")
    /\ spent' = [spent EXCEPT !.uses = @ + 1]
    /\ UNCHANGED <<audio, dumper, news>>

Refresh ==
    /\ spent.uses < MaxUses
    /\ orders' = Append(orders, "sample")
    /\ spent' = [spent EXCEPT !.uses = @ + 1]
    /\ UNCHANGED <<audio, dumper, news, indicator>>

-----------------------------------------------------------------------------
(* PipeWire and ALSA.  A change is printed by a process that has printed   *)
(* the graph before.                                                       *)

Printed(s, l) == IF dumper.process = "runs"
                 THEN Append(audio.printed, [source |-> FALSE, stream |-> s, link |-> l])
                 ELSE audio.printed

GraphStep == spent.graph < MaxGraphSteps /\ spent' = [spent EXCEPT !.graph = @ + 1]

StreamChanges ==
    /\ GraphStep /\ audio.up
    /\ \E s \in Streams \ {audio.stream} :
          audio' = [audio EXCEPT !.stream = s, !.link = IF s = "none" THEN "none" ELSE @,
                                 !.printed = Printed(s, "same")]
    /\ UNCHANGED <<dumper, orders, news, indicator>>

LinkChanges ==
    /\ GraphStep /\ audio.stream # "none"
    /\ \E l \in Links \ {audio.link} :
          audio' = [audio EXCEPT !.link = l, !.printed = Printed("same", l)]
    /\ UNCHANGED <<dumper, orders, news, indicator>>

\* A program opens or closes the device past PipeWire; nothing is printed.
AlsaChanges ==
    /\ GraphStep
    /\ \E c \in Captures \ {audio.alsa} : audio' = [audio EXCEPT !.alsa = c]
    /\ UNCHANGED <<dumper, orders, news, indicator>>

Next == Worker \/ ProcessFails \/ OnPwFinished \/ OnStateChanged \/ SetRunning \/ Refresh
        \/ StreamChanges \/ LinkChanges \/ AlsaChanges

Spec == Init /\ [][Next]_privacyVars

-----------------------------------------------------------------------------

\* Every variable holds what its C++ type and its handlers allow: above all, what
\* is left to be read was printed by a process that runs.
TypeOK ==
    /\ audio.stream \in Streams /\ audio.link \in Links /\ audio.alsa \in Captures
    /\ audio.printed = <<>> \/ dumper.process = "runs"
    /\ dumper.process \in {"none", "starting", "runs", "dead"} /\ dumper.timers \subseteq Timers
    /\ dumper.graph.stream \in Streams /\ dumper.graph.link \in Links
    /\ \A i \in 1..Len(orders) : orders[i] \in {"start", "stop", "sample"}
    /\ \A i \in 1..Len(news) : news[i] \in BOOLEAN
    /\ {indicator.running, indicator.mic} \subseteq BOOLEAN

\* PipeWire is up, the monitor runs and everything that was under way has arrived.
Settled ==
    /\ audio.up /\ indicator.running /\ orders = <<>> /\ news = <<>>
    /\ dumper.process = "runs" /\ audio.printed = <<>> /\ "debounce" \notin dumper.timers

\* While the monitor runs, and once what pw-dump printed has been worked up, a
\* recording through PipeWire is shown; what is shown without a recording is
\* still being looked at; and a process that has gone is about to be replaced.
\* (A recording past PipeWire is only noticed at the next event of the graph.)
MicrophoneShown ==
    /\ Settled /\ Recording => indicator.mic
    /\ Settled /\ indicator.mic /\ ~Recording => "poll" \in dumper.timers
    /\ indicator.running /\ orders = <<>> /\ dumper.process \in {"none", "dead"} =>
          dumper.timers \cap {"restart", "poll"} # {}
=============================================================================
