------------------------------ MODULE JobServer ------------------------------
(***************************************************************************)
(* src/plugins/kuiserver: the jobs (copies, downloads) that programs show  *)
(* through D-Bus.  A program that dies without ending its job is noticed   *)
(* by a watch of its name; a cancelled job is given three seconds.  The    *)
(* service's two names may belong to another desktop's server.             *)
(***************************************************************************)
EXTENDS Naturals, Sequences, SequencesExt, FiniteSets, Collections

CONSTANTS
    Clients,
    Percents,             \* what a client reports as its job's progress
    MaxJobs,              \* bound on the jobs requested
    kMaxFinishedHistory,  \* 30 in the code
    MaxMoves              \* bound on what the user and the other server do

VARIABLES
    living,     \* the clients that run
    bus,        \* messages the bus has for this process, in order
    watched,    \* m_clientWatcher's names
    jobs,       \* m_items, and for each whether its client died unwatched
    history,    \* m_finishedHistory, newest first
    owners,     \* the owner of each name: "us", "other" or "none"
    server,     \* [active, owns, count, percent: their mean progress, launcher]
    moves       \* how much of the bounds is used up: [jobs, moves]

jobVars == <<living, bus, watched, jobs, history, owners, server, moves>>

Names == {"kuiserver", "JobViewServer"}
Owners == {"us", "other", "none"}
JobStates == {"running", "suspended"}     \* a stopped job is no item any more

-----------------------------------------------------------------------------
(* tryClaimServiceNames: a name that another server holds stays there, and *)
(* the other name is taken all the same.                                   *)

Claimed(o) == [n \in Names |-> IF o[n] = "none" THEN "us" ELSE o[n]]
Owns(o) == \A n \in Names : o[n] = "us"

Claim == owners' = Claimed(owners) /\ server' = [server EXCEPT !.owns = Owns(owners')]

Init ==
    /\ living = Clients /\ bus = <<>> /\ watched = {} /\ jobs = <<>> /\ history = <<>>
    /\ \E o \in [Names -> {"none", "other"}] :
          /\ owners = Claimed(o)
          /\ server = [active |-> TRUE, owns |-> Owns(Claimed(o)), count |-> 0, percent |-> 0,
                       launcher |-> <<0, 0>>]
    /\ moves = [jobs |-> 0, moves |-> 0]

-----------------------------------------------------------------------------
(* What every change of the items ends with: recomputeState counts them,   *)
(* updateLauncherProgress tells the task bar.                              *)

Active(items) == Picked(items, {i \in DOMAIN items : items[i].state \in JobStates})
MeanPercent(items) ==
    IF items = <<>> THEN 0
    ELSE SumFunction([i \in DOMAIN items |-> items[i].percent]) \div Len(items)

Recomputed(items) == [server EXCEPT !.count = Len(Active(items)), !.percent = MeanPercent(Active(items))]

\* With updateLauncherProgress; all programs are of one desktop entry here.
Recounted(items) ==
    [Recomputed(items) EXCEPT !.launcher = <<Len(Active(items)), MeanPercent(Active(items))>>]

\* terminate and the server's finished handler, for the items that have ended.
Items == {jobs[i] : i \in DOMAIN jobs}
IdsOf(items) == [i \in DOMAIN items |-> items[i].id]
\* Mutant: the history has no limit.
RememberedAll(ids) == Reverse(ids) \o history

Remembered(ids) ==
    SubSeq(Reverse(ids) \o history, 1,
           IF Len(ids) + Len(history) < kMaxFinishedHistory THEN Len(ids) + Len(history)
           ELSE kMaxFinishedHistory)

Finish(ended) ==
    /\ jobs' = Picked(jobs, {i \in DOMAIN jobs : jobs[i] \notin ended})
    /\ history' = Remembered(IdsOf(Picked(jobs, {i \in DOMAIN jobs : jobs[i] \in ended})))
    /\ server' = Recounted(jobs')

-----------------------------------------------------------------------------
(* The bus.                                                                *)

Deliver(type) == bus # <<>> /\ Head(bus).type = type /\ bus' = Tail(bus)

\* The items of a client that died before it was watched are never told.
OnRequestView ==
    /\ Deliver("request")
    /\ IF server.active
       THEN LET c == Head(bus).client
            IN /\ watched' = watched \cup {c}
               /\ jobs' = Append(jobs, [id |-> moves.jobs + 1, client |-> c, state |-> "running", percent |-> 0,
                                        kill |-> FALSE, orphan |-> c \notin living])
               /\ server' = Recounted(jobs')
               /\ moves' = [moves EXCEPT !.jobs = @ + 1]
       ELSE UNCHANGED <<watched, jobs, server, moves>>
    /\ UNCHANGED <<living, history, owners>>

\* v2Set... and updateProperties.  A message to an item that is gone is answered
\* with an error.
OnUpdate ==
    /\ Deliver("update")
    /\ jobs' = [i \in DOMAIN jobs |->
                  IF jobs[i].id = Head(bus).id
                  THEN [jobs[i] EXCEPT !.state = Head(bus).state, !.percent = Head(bus).percent]
                  ELSE jobs[i]]
    /\ server' = Recounted(jobs')
    /\ UNCHANGED <<living, watched, history, owners, moves>>

OnTerminate ==
    /\ Deliver("terminate")
    /\ Finish({j \in Items : j.id = Head(bus).id})
    /\ UNCHANGED <<living, watched, owners, moves>>

\* Mutant: a job that is suspended is left as it is.
OnlyRunningEnd ==
    /\ Deliver("gone")
    /\ watched' = watched \ {Head(bus).client}
    /\ Finish({j \in Items : j.client = Head(bus).client /\ j.state = "running"})
    /\ UNCHANGED <<living, owners, moves>>

OnClientServiceUnregistered ==
    /\ Deliver("gone")
    /\ watched' = watched \ {Head(bus).client}
    /\ Finish({j \in Items : j.client = Head(bus).client})
    /\ UNCHANGED <<living, owners, moves>>

\* Whoever gave the name up, and whether the server is active or not.
OnServiceOwnerChanged ==
    /\ Deliver("free")
    /\ Claim
    /\ UNCHANGED <<living, watched, jobs, history, moves>>

-----------------------------------------------------------------------------
(* The clients.                                                            *)

Send(m) == bus' = Append(bus, m)

Requests == Cardinality({i \in DOMAIN bus : bus[i].type = "request"})

RequestView ==
    /\ moves.jobs + Requests < MaxJobs /\ owners["JobViewServer"] = "us"
    /\ \E c \in living : Send([type |-> "request", client |-> c])
    /\ UNCHANGED <<living, watched, jobs, history, owners, server, moves>>

\* One message of an item is in flight at a time.
Talks(j) == j.client \in living /\ \A i \in DOMAIN bus : bus[i].type \in {"request", "free"}

ClientSpeaks ==
    /\ \E i \in DOMAIN jobs :
          /\ Talks(jobs[i])
          /\ \/ Send([type |-> "terminate", id |-> jobs[i].id])
             \/ \E s \in JobStates, p \in Percents :
                   Send([type |-> "update", id |-> jobs[i].id, state |-> s, percent |-> p])
    /\ UNCHANGED <<living, watched, jobs, history, owners, server, moves>>

ClientDies ==
    /\ \E c \in living :
          /\ living' = living \ {c}
          /\ bus' = IF c \in watched THEN Append(bus, [type |-> "gone", client |-> c]) ELSE bus
    /\ UNCHANGED <<watched, jobs, history, owners, server, moves>>

-----------------------------------------------------------------------------
(* The user, the timer and the other server.                               *)

Move == moves.moves < MaxMoves /\ moves' = [moves EXCEPT !.moves = @ + 1]

\* cancelJob and removeJob of a running job: it is asked, and the timer started.
CancelJob ==
    /\ \E i \in DOMAIN jobs : ~jobs[i].kill /\ jobs' = [jobs EXCEPT ![i].kill = TRUE]
    /\ UNCHANGED <<living, bus, watched, history, owners, server, moves>>

KillTimeout ==
    /\ \E i \in DOMAIN jobs : jobs[i].kill /\ Finish({jobs[i]})
    /\ UNCHANGED <<living, bus, watched, owners, moves>>

RemoveJob ==
    /\ Move
    /\ \E id \in {history[i] : i \in DOMAIN history} :
          history' = Picked(history, {i \in DOMAIN history : history[i] # id})
    /\ server' = Recomputed(jobs)
    /\ UNCHANGED <<living, bus, watched, jobs, owners>>

ClearFinished ==
    /\ Move /\ history # <<>>
    /\ history' = <<>>
    /\ server' = Recomputed(jobs)
    /\ UNCHANGED <<living, bus, watched, jobs, owners>>

Freed(names) == [i \in 1..Cardinality(names) |-> [type |-> "free"]]

\* registerDbus and unregisterDbus: only the names of a server that owns both are
\* given up, and the watch of the names reports that too.
SetActive ==
    /\ Move
    /\ IF server.active
       THEN /\ server' = [server EXCEPT !.active = FALSE, !.owns = FALSE]
            /\ owners' = IF server.owns THEN [n \in Names |-> "none"] ELSE owners
            /\ bus' = IF server.owns THEN bus \o Freed(Names) ELSE bus
       ELSE /\ owners' = Claimed(owners)
            /\ server' = [server EXCEPT !.active = TRUE, !.owns = Owns(owners')]
            /\ UNCHANGED bus
    /\ UNCHANGED <<living, watched, jobs, history>>

OtherServerStarts ==
    /\ Move
    /\ \E n \in Names : owners[n] = "none" /\ owners' = [owners EXCEPT ![n] = "other"]
    /\ UNCHANGED <<living, bus, watched, jobs, history, server>>

OtherServerEnds ==
    /\ Move
    /\ LET held == {n \in Names : owners[n] = "other"}
       IN /\ held # {}
          /\ owners' = [n \in Names |-> IF n \in held THEN "none" ELSE owners[n]]
          /\ bus' = bus \o Freed(held)
    /\ UNCHANGED <<living, watched, jobs, history, server>>

-----------------------------------------------------------------------------
Handle == OnRequestView \/ OnUpdate \/ OnTerminate \/ OnClientServiceUnregistered
          \/ OnServiceOwnerChanged

Next == Handle \/ RequestView \/ ClientSpeaks \/ ClientDies \/ CancelJob \/ KillTimeout
        \/ RemoveJob \/ ClearFinished \/ SetActive \/ OtherServerStarts \/ OtherServerEnds

Spec == Init /\ [][Next]_jobVars

-----------------------------------------------------------------------------

\* The server's variables have their types.
TypeOK ==
    /\ living \subseteq Clients /\ watched \subseteq Clients
    /\ \A i \in DOMAIN jobs : /\ jobs[i].state \in JobStates /\ jobs[i].id \in 1..MaxJobs
                              /\ jobs[i].percent \in Percents \cup {0}
    /\ \A i \in DOMAIN history : history[i] \in 1..MaxJobs
    /\ Len(history) <= kMaxFinishedHistory
    /\ owners \in [Names -> Owners]

Told(type) == {bus[i].client : i \in {k \in DOMAIN bus : bus[k].type = type}}

\* A job that is shown as running has a client that runs, or whose end is about to
\* be told, unless the client died before its request was handled and so before it
\* was watched.  A job is shown once, running or finished; the count, the mean
\* progress and the task bar agree with the list.  And once no message is under way no name is left
\* unclaimed, and ownsService says whether both are this server's.
JobsHaveClients ==
    /\ \A i \in DOMAIN jobs :
          jobs[i].client \in living \/ jobs[i].client \in Told("gone") \/ jobs[i].orphan
    /\ \A i, k \in DOMAIN jobs : i # k => jobs[i].id # jobs[k].id
    /\ \A i, k \in DOMAIN history : i # k => history[i] # history[k]
    /\ \A i \in DOMAIN jobs : \A k \in DOMAIN history : jobs[i].id # history[k]
    /\ server.launcher = <<Len(jobs), MeanPercent(jobs)>>
    /\ <<server.count, server.percent>> = server.launcher
    /\ server.owns <=> Owns(owners)
    /\ bus = <<>> => \A n \in Names : owners[n] # "none"
=============================================================================
