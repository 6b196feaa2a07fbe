---------------------------- MODULE UsageMonitor ----------------------------
(***************************************************************************)
(* src/libs/usagemonitor with its two collectors, the plugins tokenusage   *)
(* and antigravityusage: a thread that adds up the tokens found in several *)
(* databases, a cache file shown until the first result, and the number of *)
(* days the user chose.                                                    *)
(***************************************************************************)
EXTENDS Naturals, Sequences, FiniteSetsExt, SequencesExt, Collections

CONSTANTS
    Files,       \* databases on disk
    Rows,        \* what they hold: a function from Files to rows in order
    DayChoices,  \* what setLastDays is called with
    DefaultDays, \* m_lastDays of a new object
    MaxChoices,  \* bound on the calls of the user
    MaxFailures, \* bound on the databases that cannot be read
    MaxRestarts  \* bound on the restarts of the shell

VARIABLES
    disk,     \* the collector, the cache file, failures so far
    thread,   \* the worker's queue
    results,  \* signals queued for the GUI
    usage,    \* UsageMonitorBase
    choices   \* [made, restarts]

usageVars == <<disk, thread, results, usage, choices>>

\* A row: its key, its tokens, whether it was made today.
Nothing == [days |-> 0, today |-> 0, all |-> 0, torn |-> FALSE]

\* In the worker's queue: the start, or a refresh for a number of days.
Load == 0

NewObject == [lastDays |-> DefaultDays, windows |-> Nothing, refreshed |-> FALSE,
              configured |-> FALSE, busy |-> FALSE, error |-> FALSE]

Init ==
    /\ disk \in [collector : {"opencode", "antigravity"}, failed : {0},
                 cache : {Nothing, [days |-> DefaultDays, today |-> 1, all |-> 1, torn |-> FALSE]}]
    /\ thread = <<Load>>
    /\ results = <<>>
    /\ usage = NewObject
    /\ choices = [made |-> 0, restarts |-> 0]

-----------------------------------------------------------------------------
(* The collectors: one file after another, in the directory's order.       *)

Tokens(today) == [f \in Files |-> Total([i \in DOMAIN Rows[f] |-> Rows[f][i].tokens],
                                        {i \in DOMAIN Rows[f] : Rows[f][i].today \in today})]
Today == Tokens({TRUE})
Always == Tokens(BOOLEAN)
Fresh == [today |-> 0, all |-> 0, seen |-> {}, readable |-> 0, torn |-> FALSE]

\* collectFromDb adds each window as soon as its query has answered, so a
\* database that fails at a later query has added to the earlier windows.
AddOpenCode(sum, f, outcome) ==
    CASE outcome = "unreadable" -> sum
      [] outcome = "torn" -> [sum EXCEPT !.today = @ + Today[f], !.torn = TRUE]
      [] outcome = "read" -> [sum EXCEPT !.today = @ + Today[f], !.all = @ + Always[f],
                                         !.readable = @ + 1]

Keys(f) == {Rows[f][i].key : i \in DOMAIN Rows[f]}
RowsOf(f, k) == {i \in DOMAIN Rows[f] : Rows[f][i].key = k}

\* The rows of one key in one file are one turn: the largest count, the first time.
FileTurn(f, k) ==
    [tokens |-> Max({Rows[f][i].tokens : i \in RowsOf(f, k)}),
     today |-> Rows[f][Min(RowsOf(f, k))].today]
FileTurns == [f \in Files |-> [k \in Keys(f) |-> FileTurn(f, k)]]

Counted(f, ks) == Total([k \in Keys(f) |-> FileTurns[f][k].tokens], ks)

\* collectFromAgDb reads the whole file before it adds anything, and skips the
\* keys that a file visited before has brought.
AddAntigravity(sum, f, outcome) ==
    LET new == Keys(f) \ sum.seen
    IN IF outcome # "read" THEN sum
       ELSE [sum EXCEPT !.today = @ + Counted(f, {k \in new : FileTurns[f][k].today}),
                        !.all = @ + Counted(f, new), !.seen = @ \cup new, !.readable = @ + 1]

Added(sum, f, outcome) ==
    IF disk.collector = "opencode" THEN AddOpenCode(sum, f, outcome)
    ELSE AddAntigravity(sum, f, outcome)

Collected(order, outcome) ==
    LET sum[n \in 0 .. Len(order)] ==
            IF n = 0 THEN Fresh ELSE Added(sum[n - 1], order[n], outcome[order[n]])
    IN sum[Len(order)]

Failing(outcome) == Cardinality({f \in Files : outcome[f] # "read"})

-----------------------------------------------------------------------------
(* The worker.                                                             *)

\* A cache of another version, or none, is not reported.
LoadCache ==
    /\ thread # <<>> /\ Head(thread) = Load
    /\ thread' = Tail(thread)
    /\ results' = IF disk.cache = Nothing THEN results
                  ELSE Append(results, [type |-> "cached", windows |-> disk.cache])
    /\ UNCHANGED <<disk, usage, choices>>

\* saveUsageCache replaces the file in one step, and only by a good result.
CollectUsage ==
    /\ thread # <<>> /\ Head(thread) # Load
    /\ thread' = Tail(thread)
    /\ \E order \in SetToSeqs(Files), outcome \in [Files -> {"read", "torn", "unreadable"}] :
         /\ disk.failed + Failing(outcome) <= MaxFailures
         /\ LET sum == Collected(order, outcome)
                windows == [days |-> Head(thread), today |-> sum.today, all |-> sum.all,
                            torn |-> sum.torn]
                ok == sum.readable > 0
            IN /\ results' = Append(results, [type |-> "refreshed", ok |-> ok, found |-> TRUE,
                                              windows |-> windows])
               /\ disk' = [disk EXCEPT !.failed = @ + Failing(outcome),
                                       !.cache = IF ok THEN windows ELSE @]
    /\ UNCHANGED <<usage, choices>>

\* Neither a database nor a directory of them is there.
FindNothing ==
    /\ thread # <<>> /\ Head(thread) # Load /\ disk.failed < MaxFailures
    /\ thread' = Tail(thread)
    /\ disk' = [disk EXCEPT !.failed = @ + 1]
    /\ results' = Append(results, [type |-> "refreshed", ok |-> FALSE, found |-> FALSE,
                                   windows |-> Nothing])
    /\ UNCHANGED <<usage, choices>>

-----------------------------------------------------------------------------
(* The GUI's object.                                                       *)

Refreshing(u) == IF u.busy THEN u ELSE [u EXCEPT !.busy = TRUE]
Requested(u) == IF u.busy THEN thread ELSE Append(thread, u.lastDays)

Refresh ==
    /\ choices.made < MaxChoices
    /\ choices' = [choices EXCEPT !.made = @ + 1]
    /\ usage' = Refreshing(usage)
    /\ thread' = Requested(usage)
    /\ UNCHANGED <<disk, results>>

Clamped(days) == IF days < 1 THEN 1 ELSE IF days > 400 THEN 400 ELSE days

SetLastDays ==
    /\ choices.made < MaxChoices
    /\ \E days \in DayChoices :
         LET u == [usage EXCEPT !.lastDays = Clamped(days)]
         IN /\ u # usage
            /\ usage' = Refreshing(u)
            /\ thread' = Requested(u)
    /\ choices' = [choices EXCEPT !.made = @ + 1]
    /\ UNCHANGED <<disk, results>>

Reported(type) == results # <<>> /\ Head(results).type = type /\ results' = Tail(results)

\* The cache's number of days replaces the one in force, unless a result came first.
ApplyCachedResult ==
    /\ Reported("cached")
    /\ usage' = IF usage.configured /\ usage.refreshed THEN usage
                ELSE [usage EXCEPT !.windows = Head(results).windows, !.configured = TRUE,
                                   !.lastDays = Head(results).windows.days, !.refreshed = TRUE]
    /\ UNCHANGED <<disk, thread, choices>>

\* Mutant: a result is shown for whatever number of days is in force.
OnRefreshedOnce ==
    /\ Reported("refreshed")
    /\ LET r == Head(results)
           idle == [usage EXCEPT !.busy = FALSE, !.configured = r.found, !.error = ~r.ok]
       IN usage' = IF r.ok THEN [idle EXCEPT !.windows = r.windows, !.refreshed = TRUE] ELSE idle
    /\ UNCHANGED <<disk, thread, choices>>

\* A result for another number of days than the one in force asks again.
OnRefreshed ==
    /\ Reported("refreshed")
    /\ LET r == Head(results)
           idle == [usage EXCEPT !.busy = FALSE, !.configured = r.found, !.error = ~r.ok]
           u == [idle EXCEPT !.windows = r.windows, !.refreshed = TRUE]
       IN IF ~r.ok THEN usage' = idle /\ UNCHANGED thread
          ELSE IF r.windows.days = u.lastDays THEN usage' = u /\ UNCHANGED thread
          ELSE usage' = Refreshing(u) /\ thread' = Requested(u)
    /\ UNCHANGED <<disk, choices>>

\* The shell is restarted: the file stays.
Restart ==
    /\ choices.restarts < MaxRestarts
    /\ choices' = [choices EXCEPT !.restarts = @ + 1]
    /\ thread' = <<Load>> /\ results' = <<>> /\ usage' = NewObject
    /\ UNCHANGED disk

Worker == LoadCache \/ CollectUsage \/ FindNothing
GuiReceives == ApplyCachedResult \/ OnRefreshed
Next == Worker \/ GuiReceives \/ Refresh \/ SetLastDays \/ Restart

Spec == Init /\ [][Next]_usageVars

-----------------------------------------------------------------------------
\* Every variable holds what its C++ type and its handlers allow: above all, the
\* busy flag is set exactly while one refresh is queued or on its way back.
TypeOK ==
    /\ usage.lastDays \in 1..400
    /\ usage.windows.torn => disk.collector = "opencode"
    /\ usage.busy <=> (\E i \in DOMAIN thread : thread[i] # Load)
                      \/ (\E i \in DOMAIN results : results[i].type = "refreshed")
    /\ disk.failed \in 0..MaxFailures

AllKeys == UNION {Keys(f) : f \in Files}
Best == [k \in AllKeys |-> Max({FileTurns[f][k].tokens : f \in {g \in Files : k \in Keys(g)}})]
BestOfAll == Total(Best, AllKeys)

(* Whenever nothing is under way, the numbers shown are for the number of
   days in force, or the last collection failed and says so; today's are
   part of all, but for a database that failed half-way; and of the turns
   that several antigravity files hold none is counted twice. *)
UsageCurrent ==
    /\ ~usage.busy /\ usage.refreshed => usage.error \/ usage.windows.days = usage.lastDays
    /\ usage.windows.torn \/ usage.windows.today <= usage.windows.all
    /\ disk.collector = "antigravity" /\ usage.refreshed =>
           usage.windows.all <= BestOfAll
=============================================================================
