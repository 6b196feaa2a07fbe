------------------------------ MODULE MCMonitors ------------------------------
(***************************************************************************)
(* The monitors and searches that share no state with each other, checked  *)
(* as a disjoint sum: which says the one that runs in a behaviour, and the *)
(* others stay in an initial state.  Every behaviour of every component is *)
(* a behaviour of this specification, and there are no others.             *)
(***************************************************************************)
EXTENDS Integers, Sequences, FiniteSets, TLC

CONSTANTS
    Links, Connections, NoConnection, MaxChanges, MaxOps, MaxReports,       \* EthernetMonitor
    MaxEvents, MaxAsks,                                                     \* TailscaleMonitor
    Files, Rows, DayChoices, DefaultDays, MaxChoices, MaxFailures, MaxRestarts,  \* UsageMonitor
    Calendars, NoPath, MaxSets, MaxEdits,                                   \* HolidayProvider
    MaxFetches, MaxFaults,                                                  \* ModelPricing
    MaxResults, MaxKeys,                                                    \* FileSearch
    Paths, Words, MaxLookups                                                \* PathProbe

ASSUME BoundsAssumption ==
    {MaxChanges, MaxOps, MaxReports, MaxEvents, MaxAsks, MaxChoices, MaxFailures, MaxRestarts,
     MaxSets, MaxEdits, MaxFetches, MaxFaults, MaxResults, MaxKeys, MaxLookups} \subseteq Nat

ASSUME LinksAssumption == "up" \in Links /\ Links \subseteq {"absent", "unplugged", "connecting", "up"}

\* The databases that the usage is read from, and the numbers of days the user can
\* type: a cache that was there at first holds a token that they still hold.
ASSUME RowsAssumption ==
    /\ IsFiniteSet(Files)
    /\ \A f \in Files : Rows[f] \in Seq([key : STRING, tokens : Nat, today : BOOLEAN])
    /\ \E f \in Files : \E i \in DOMAIN Rows[f] : Rows[f][i].tokens > 0
    /\ DayChoices \subseteq Int /\ DefaultDays \in 1..400

\* A text looks like a path or does not.
ASSUME PathsAssumption == Paths \cap Words = {}

VARIABLES
    which,
    net, signals, worker, posts, reports, gui, steps,
    daemon, tailscale, asks, answers, panel, used,
    disk, thread, results, usage, choices,
    calendars, path, watch, loads, events, serial,
    version, files, fetcher, errands, outcomes, prices, uses,
    query, pending, request, pipeline, builds, shown, completed, searching, past,
    text, lookup, lookups, answer, reveal, calls

\* Two databases: the first holds a key twice, the second holds it too.
Turn(key, tokens, today) == [key |-> key, tokens |-> tokens, today |-> today]
TwoDatabases == ("f1" :> <<Turn("k1", 2, TRUE), Turn("k1", 1, FALSE)>>)
                @@ ("f2" :> <<Turn("k1", 1, TRUE), Turn("k2", 1, FALSE)>>)

\* A catalogue and its next version: a gateway mirrors models, one model moves.
Owner(model, provider, family, npm, price) ==
    [model |-> model, provider |-> provider, family |-> family, npm |-> npm, price |-> price]
Catalogues ==
    << {Owner("a", 1, "f", "lab", 1), Owner("b", 1, "f", "lab", 1),
        Owner("a", 2, "f", "gate", 2), Owner("c", 2, "g", "gate", 3)},
       {Owner("a", 1, "f", "lab", 4), Owner("a", 2, "f", "gate", 2), Owner("b", 3, "f", "lab", 1)} >>
Markers == [plain |-> {"gate"}, open |-> {}, bad |-> {}, web |-> {}]
Broken == {"bad"}
Remote == {"web"}

\* "x" finds more than MaxResults; "ab" has a fuzzy hit that does not contain it.
\* What contains a term contains those it starts with.
Terms == {"a", "ab", "x", "xy"}
Extensions == {<<"ab", "a">>, <<"xy", "x">>}
Hits == [t \in Terms |-> CASE t \in {"a", "ab"} -> {1, 2}
                           [] t = "x" -> {3, 4, 5, 6}
                           [] t = "xy" -> {3, 6}]
Containing == [t \in Terms |-> CASE t = "a" -> {1, 2} [] t = "ab" -> {1}
                                 [] t = "x" -> {3, 6} [] t = "xy" -> {6}]

Ethernet == INSTANCE EthernetMonitor
Tailscale == INSTANCE TailscaleMonitor
Usage == INSTANCE UsageMonitor
Holidays == INSTANCE HolidayProvider
Pricing == INSTANCE ModelPricing
Search == INSTANCE FileSearch
Probe == INSTANCE PathProbe

ethernetVars == <<net, signals, worker, posts, reports, gui, steps>>
tailscaleVars == <<daemon, tailscale, asks, answers, panel, used>>
usageVars == <<disk, thread, results, usage, choices>>
holidayVars == <<calendars, path, watch, loads, events, serial>>
pricingVars == <<version, files, fetcher, errands, outcomes, prices, uses>>
searchVars == <<query, pending, request, pipeline, builds, shown, completed, searching, past>>
pathVars == <<text, lookup, lookups, answer, reveal, calls>>

Components == {"ethernet", "tailscale", "usage", "holidays", "pricing", "search", "probe"}

Init ==
    /\ which \in Components
    /\ Ethernet!Init /\ Holidays!Init /\ Pricing!Init /\ Search!Init /\ Probe!Init
    /\ Tailscale!Init /\ (which # "tailscale" => daemon.listens)
    /\ Usage!Init /\ (which # "usage" => disk.collector = "opencode" /\ disk.cache = Usage!Nothing)

OnlyEthernet ==
    which = "ethernet" /\ UNCHANGED <<which, tailscaleVars, usageVars, holidayVars, pricingVars, searchVars, pathVars>>
OnlyTailscale ==
    which = "tailscale" /\ UNCHANGED <<which, ethernetVars, usageVars, holidayVars, pricingVars, searchVars, pathVars>>
OnlyUsage ==
    which = "usage" /\ UNCHANGED <<which, ethernetVars, tailscaleVars, holidayVars, pricingVars, searchVars, pathVars>>
OnlyHolidays ==
    which = "holidays" /\ UNCHANGED <<which, ethernetVars, tailscaleVars, usageVars, pricingVars, searchVars, pathVars>>
OnlyPricing ==
    which = "pricing" /\ UNCHANGED <<which, ethernetVars, tailscaleVars, usageVars, holidayVars, searchVars, pathVars>>
OnlySearch ==
    which = "search" /\ UNCHANGED <<which, ethernetVars, tailscaleVars, usageVars, holidayVars, pricingVars, pathVars>>
OnlyProbe ==
    which = "probe" /\ UNCHANGED <<which, ethernetVars, tailscaleVars, usageVars, holidayVars, pricingVars, searchVars>>

Next ==
    \/ OnlyEthernet /\ Ethernet!Next
    \/ OnlyTailscale /\ Tailscale!Next
    \/ OnlyUsage /\ Usage!Next
    \/ OnlyHolidays /\ Holidays!Next
    \/ OnlyPricing /\ Pricing!Next
    \/ OnlySearch /\ Search!Next
    \/ OnlyProbe /\ Probe!Next

vars == <<which, ethernetVars, tailscaleVars, usageVars, holidayVars, pricingVars, searchVars, pathVars>>

\* A step of the usage monitor's worker, told by the queue: no other step shortens it.
TakesJob == thread # <<>> /\ thread' = Tail(thread)

\* Threads and event loops that have something to do do it at last; nothing is
\* assumed of the user, the daemons, the network and the timers of the outside.
Fairness ==
    /\ WF_ethernetVars(which = "ethernet" /\ Ethernet!Worker)
    /\ WF_ethernetVars(which = "ethernet" /\ Ethernet!GuiReceives)
    /\ WF_tailscaleVars(which = "tailscale" /\ Tailscale!Worker)
    /\ WF_tailscaleVars(which = "tailscale" /\ Tailscale!Hear)
    /\ WF_thread(which = "usage" /\ TakesJob)
    /\ WF_usageVars(which = "usage" /\ Usage!GuiReceives)
    /\ WF_pricingVars(which = "pricing" /\ Pricing!Worker)
    /\ WF_pricingVars(which = "pricing" /\ Pricing!GuiHears)
    /\ WF_searchVars(which = "search" /\ Search!OnDebounceTimeout)
    /\ WF_searchVars(which = "search" /\ (Search!PipelineFinishes \/ Search!PipelineFails))
    /\ WF_searchVars(which = "search" /\ Search!Deliver)

Spec == Init /\ [][Next]_vars /\ Fairness

-----------------------------------------------------------------------------

\* The variables of every component have their types.
TypesOK ==
    /\ Ethernet!TypeOK /\ Tailscale!TypeOK /\ Usage!TypeOK /\ Holidays!TypeOK
    /\ Pricing!TypeOK /\ Search!TypeOK /\ Probe!TypeOK

\* The link shown is the link there is, once all reports are in (EthernetMonitor).
LinkCurrent == Ethernet!LinkCurrent

\* The state shown of tailscaled is its state, once all events are in (TailscaleMonitor).
DaemonCurrent == Tailscale!DaemonCurrent

\* The numbers shown are those of the days chosen last (UsageMonitor).
UsageCurrent == Usage!UsageCurrent

\* The events shown are those of the file chosen last (HolidayProvider).
CalendarCurrent == Holidays!CalendarCurrent

\* The prices shown after a check are those of the catalogue and of the markers in
\* force (ModelPricing).
PricesCurrent == Pricing!PricesCurrent

\* The list answers the query in the field, and the probe's answer the text in it
\* (FileSearch, PathProbe).
AnswersFit == Search!ListAnswersQuery /\ Probe!AnswerFitsText

\* What the user has asked for and sees no end of.
Indicated == gui.pinging \/ panel.busy \/ usage.busy \/ prices.busy \/ searching

\* Every request ends: the ping of the network, an action of tailscale, the reading
\* of the usage, the fetching of prices and the search put out their indicator, and
\* so do the reconnection and the network check: every path of their handlers, the
\* dropped and the refused request included, ends in a signal to the GUI.
RequestsEnd ==
    /\ Indicated ~> ~Indicated
    /\ (Ethernet!Reconnecting \/ panel.netcheck) ~> ~gui.busy /\ ~panel.netcheck
=============================================================================
