--------------------------- MODULE ProcessMonitor ---------------------------
(***************************************************************************)
(* src/plugins/topprocesses: a worker object in a thread of its own samples *)
(* the processes on a timer while the popup is open.  The memory of the    *)
(* largest ones is read by a pool of threads that share, by reference, the *)
(* counters and the condition variable of one call of sample(); the call    *)
(* waits until all have finished.                                          *)
(***************************************************************************)
EXTENDS Naturals, Sequences, FiniteSets

CONSTANTS
    Threads,      \* SimpleThreadPool's threads
    MaxToRead,    \* bound on the processes whose memory one sample reads
    MaxSamples,   \* bound on the samples
    MaxOpenings   \* bound on the changes of the popup and the kills

VARIABLES
    pool,      \* [tasks: tasks in the queue, threads: what each does, claimed: its index]
    sample,    \* the locals of sample(), and where it stands
    sampler,   \* SamplerWorker: its queue, its timer, kills' late samples
    window     \* ProcessMonitor: [running, opened, samples, shown, ready]

topVars == <<pool, sample, sampler, window>>

NoSample == [phase |-> "none", total |-> 0, workers |-> 0, nextIndex |-> 0, completed |-> 0, read |-> {}]

Init ==
    /\ pool = [tasks |-> 0, threads |-> [t \in Threads |-> "idle"],
               claimed |-> [t \in Threads |-> 0]]
    /\ sample = NoSample
    /\ sampler = [queue |-> <<>>, timer |-> FALSE, late |-> 0]
    /\ window = [running |-> FALSE, opened |-> 0, samples |-> 0, shown |-> FALSE, ready |-> 0]

-----------------------------------------------------------------------------
(* The GUI thread.                                                         *)

\* setRunning, with the request it posts.
SetRunning ==
    /\ window.opened < MaxOpenings
    /\ window' = [window EXCEPT !.running = ~@, !.opened = @ + 1]
    /\ sampler' = [sampler EXCEPT !.queue = Append(@, IF window.running THEN "stop" ELSE "start")]
    /\ UNCHANGED <<pool, sample>>

\* kill(), refresh().
Ask(request) ==
    /\ window.opened < MaxOpenings
    /\ window' = [window EXCEPT !.opened = @ + 1]
    /\ sampler' = [sampler EXCEPT !.queue = Append(@, request)]
    /\ UNCHANGED <<pool, sample>>

\* onDataReady.
OnDataReady ==
    /\ window.ready > 0
    /\ window' = [window EXCEPT !.ready = @ - 1, !.shown = TRUE]
    /\ UNCHANGED <<pool, sample, sampler>>

-----------------------------------------------------------------------------
(* The sampler's thread.                                                   *)

Least(a, b) == IF a <= b THEN a ELSE b

\* sample() up to the wait: total processes have to be read, a task is queued
\* for each thread that will have one to read.
Begin(total) ==
    LET n == Least(Cardinality(Threads), total)
    IN /\ window.samples < MaxSamples
       /\ sample' = [phase |-> IF total = 0 THEN "counted" ELSE "queued", total |-> total, workers |-> n,
                     nextIndex |-> 0, completed |-> 0, read |-> {}]
       /\ pool' = [pool EXCEPT !.tasks = @ + n]
       /\ window' = [window EXCEPT !.samples = @ + 1]

Free == sample.phase = "none"

\* start(): a timer that runs already stays as it is.
Start ==
    /\ Free /\ sampler.queue # <<>> /\ Head(sampler.queue) = "start"
    /\ sampler' = [sampler EXCEPT !.queue = Tail(@), !.timer = TRUE]
    /\ IF sampler.timer THEN UNCHANGED <<sample, pool, window>>
       ELSE \E total \in 0..MaxToRead : Begin(total)

Stop ==
    /\ Free /\ sampler.queue # <<>> /\ Head(sampler.queue) = "stop"
    /\ sampler' = [sampler EXCEPT !.queue = Tail(@), !.timer = FALSE]
    /\ UNCHANGED <<pool, sample, window>>

\* refresh() posts sample itself.
Refresh ==
    /\ Free /\ sampler.queue # <<>> /\ Head(sampler.queue) = "sample"
    /\ sampler' = [sampler EXCEPT !.queue = Tail(@)]
    /\ \E total \in 0..MaxToRead : Begin(total)

\* killProcess(): the tree is signalled (module ProcessTree), a sample follows
\* 150 ms later even if the popup has been closed.
KillProcess ==
    /\ Free /\ sampler.queue # <<>> /\ Head(sampler.queue) = "kill"
    /\ sampler' = [sampler EXCEPT !.queue = Tail(@), !.late = @ + 1]
    /\ UNCHANGED <<pool, sample, window>>

LateSample ==
    /\ Free /\ sampler.late > 0
    /\ sampler' = [sampler EXCEPT !.late = @ - 1]
    /\ \E total \in 0..MaxToRead : Begin(total)

Tick ==
    /\ Free /\ sampler.timer
    /\ UNCHANGED sampler
    /\ \E total \in 0..MaxToRead : Begin(total)

\* doneCv.wait, with doneMutex held while "locked" and "blocking": the count is
\* looked at, and the mutex is let go when the thread has blocked.
Lock ==
    /\ sample.phase = "queued"
    /\ sample' = [sample EXCEPT !.phase = "locked"]
    /\ UNCHANGED <<pool, sampler, window>>

\* Mutant: waits for the last process to be taken, not for the tasks to end.
CheckTaken ==
    /\ sample.phase = "locked"
    /\ sample' = [sample EXCEPT !.phase = IF sample.nextIndex >= sample.total THEN "counted" ELSE "blocking"]
    /\ UNCHANGED <<pool, sampler, window>>

CheckDone ==
    /\ sample.phase = "locked"
    /\ sample' = [sample EXCEPT !.phase = IF sample.completed = sample.workers THEN "counted" ELSE "blocking"]
    /\ UNCHANGED <<pool, sampler, window>>

Block ==
    /\ sample.phase = "blocking"
    /\ sample' = [sample EXCEPT !.phase = "blocked"]
    /\ UNCHANGED <<pool, sampler, window>>

SpuriousWakeup ==
    /\ sample.phase = "blocked"
    /\ sample' = [sample EXCEPT !.phase = "locked"]
    /\ UNCHANGED <<pool, sampler, window>>

\* The rest of sample(): the rows are made and sent.  The counters, the mutex
\* and the condition variable are gone.
Send ==
    /\ sample.phase = "counted"
    /\ sample' = NoSample
    /\ window' = [window EXCEPT !.ready = @ + 1]
    /\ UNCHANGED <<pool, sampler>>

-----------------------------------------------------------------------------
(* A thread of the pool: "idle", "loop", "reading", "done", "notify",      *)
(* "stuck".                                                                *)

Becomes(t, what) == [pool EXCEPT !.threads[t] = what]

TakeTask(t) ==
    /\ pool.threads[t] = "idle" /\ pool.tasks > 0
    /\ pool' = [Becomes(t, "loop") EXCEPT !.tasks = @ - 1]
    /\ UNCHANGED <<sample, sampler, window>>

\* nextIndex.fetch_add.
Claim(t) ==
    /\ pool.threads[t] = "loop"
    /\ sample' = [sample EXCEPT !.nextIndex = @ + 1]
    /\ pool' = IF sample.nextIndex >= sample.total THEN Becomes(t, "done")
               ELSE [Becomes(t, "reading") EXCEPT !.claimed[t] = sample.nextIndex]
    /\ UNCHANGED <<sampler, window>>

\* The memory of the process claimed is read, or the process has exited.
ReadMemory(t) ==
    /\ pool.threads[t] = "reading"
    /\ sample' = [sample EXCEPT !.read = @ \cup {pool.claimed[t]}]
    /\ pool' = Becomes(t, "loop")
    /\ UNCHANGED <<sampler, window>>

\* completedWorkers.fetch_add: the last one goes on to notify.
Complete(t) ==
    /\ pool.threads[t] = "done"
    /\ sample' = [sample EXCEPT !.completed = @ + 1]
    /\ pool' = Becomes(t, IF sample.completed + 1 = sample.workers THEN "notify" ELSE "idle")
    /\ UNCHANGED <<sampler, window>>

\* The lock of doneMutex and notify_one; nobody may be waiting yet.
Notify(t) ==
    /\ pool.threads[t] = "notify" /\ sample.phase \in {"queued", "blocked"}
    /\ sample' = [sample EXCEPT !.phase = IF @ = "blocked" THEN "locked" ELSE @]
    /\ pool' = Becomes(t, "idle")
    /\ UNCHANGED <<sampler, window>>

\* sample() saw the count without waiting and has left: the mutex locked is
\* memory that holds something else.  The thread comes through, or waits for ever.
NotifyTooLate(t) ==
    /\ pool.threads[t] = "notify" /\ sample.phase \in {"counted", "none"}
    /\ \E what \in {"idle", "stuck"} : pool' = Becomes(t, what)
    /\ UNCHANGED <<sample, sampler, window>>

PoolThread(t) ==
    TakeTask(t) \/ Claim(t) \/ ReadMemory(t) \/ Complete(t) \/ Notify(t) \/ NotifyTooLate(t)

User == SetRunning \/ Ask("kill") \/ Ask("sample")
SamplerThread == Start \/ Stop \/ Refresh \/ KillProcess \/ LateSample \/ Tick \/ Lock \/ CheckDone
                 \/ Block \/ Send

Next == User \/ OnDataReady \/ SamplerThread \/ SpuriousWakeup \/ \E t \in Threads : PoolThread(t)

Spec == Init /\ [][Next]_topVars

-----------------------------------------------------------------------------

\* The pool's, the sample's and the sampler's variables have their types.
TypeOK ==
    /\ pool.tasks \in 0..Cardinality(Threads)
    /\ \A t \in Threads : pool.threads[t] \in {"idle", "loop", "reading", "done", "notify", "stuck"}
    /\ sample.phase \in {"none", "queued", "locked", "blocking", "blocked", "counted"}
    /\ sample.completed \in 0..sample.workers /\ sample.read \subseteq 0..(MaxToRead - 1)
    /\ sampler.queue \in Seq({"start", "stop", "kill", "sample"}) /\ sampler.timer \in BOOLEAN
    /\ window.running \in BOOLEAN /\ window.samples \in 0..MaxSamples

\* sample() goes on only when the memory of every process it asked for has been
\* read and no thread of the pool is still in its loop, whose counters and list
\* are locals of sample(); and it never sleeps on with all of its tasks
\* completed and nobody left to wake it (doneCv, doneMutex, completedWorkers).
PoolDone ==
    /\ sample.phase = "counted" =>
          /\ sample.read = 0..(sample.total - 1)
          /\ pool.tasks = 0 /\ \A t \in Threads : pool.threads[t] \notin {"loop", "reading", "done"}
    /\ sample.phase = "blocked" /\ sample.completed = sample.workers =>
          \E t \in Threads : pool.threads[t] = "notify"
=============================================================================
