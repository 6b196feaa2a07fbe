---------------------------- MODULE DesktopProofs ----------------------------
(***************************************************************************)
(* What the services and views of MCDesktop show, for any bounds, threads  *)
(* and clients: an invariant for each component, which the steps of the    *)
(* others do not touch, and the claims that are its parts.                 *)
(***************************************************************************)
EXTENDS MCDesktop, CollectionsProofs

-----------------------------------------------------------------------------
(* The pool of threads of the process monitor.                             *)

ThreadStates == {"idle", "loop", "reading", "done", "notify", "stuck"}
Waits == {"none", "queued", "locked", "blocking", "blocked", "counted"}

PoolTypes ==
    /\ pool \in [tasks : Nat, threads : [Threads -> ThreadStates], claimed : [Threads -> Nat]]
    /\ sample \in [phase : Waits, total : Nat, workers : Nat, nextIndex : Nat, completed : Nat,
                   read : SUBSET Nat]

\* The threads that are at the sample's counters.
Busy == {t \in Threads : pool.threads[t] \in {"loop", "reading", "done"}}

\* Each of the sample's tasks is queued, at work or completed.
TasksCounted == pool.tasks + Cardinality(Busy) + sample.completed = sample.workers

\* A process is taken before its memory is read, once, and none is forgotten.
IndicesClaimed ==
    /\ sample.read \subseteq 0 .. (sample.total - 1)
    /\ \A t \in Threads : pool.threads[t] = "reading" => pool.claimed[t] \in 0 .. (sample.total - 1)
    /\ \A i \in 0 .. (sample.total - 1) : i < sample.nextIndex =>
          \/ i \in sample.read
          \/ \E t \in Threads : pool.threads[t] = "reading" /\ pool.claimed[t] = i

\* A task ends when all the processes have been taken.
NoneLeft ==
    /\ sample.total > 0 => sample.workers > 0
    /\ sample.completed > 0 \/ (\E t \in Threads : pool.threads[t] = "done") =>
          sample.nextIndex >= sample.total

\* sample() goes on when all tasks have ended; when they have ended while it does
\* not look, somebody will wake it.
WakeComes ==
    /\ sample.phase \in {"none", "counted"} => sample.completed = sample.workers
    /\ sample.phase \in {"blocking", "blocked"} /\ sample.completed = sample.workers =>
          \E t \in Threads : pool.threads[t] = "notify"

PoolInv == PoolTypes /\ TasksCounted /\ IndicesClaimed /\ NoneLeft /\ WakeComes

(* The module's Cardinality is that of FiniteSets, and the busy threads    *)
(* are finite.                                                             *)
LEMMA SameCardinality == \A S : Top!Cardinality(S) = Cardinality(S)
BY DEF Top!Cardinality, Cardinality

\* The busy threads can be counted, and one who leaves or joins counts for one.
LEMMA BusyFinite ==
    /\ IsFiniteSet(Busy) /\ Cardinality(Busy) \in Nat
    /\ Cardinality(Busy) = 0 => Busy = {}
<1>1. IsFiniteSet(Busy) BY ThreadsAssumption, FS_Subset DEF Busy
<1> QED BY <1>1, FS_CardinalityType, FS_EmptySet

(* The pool is idle at first.                                              *)
LEMMA PoolInit == Top!Init => PoolInv
<1> SUFFICES ASSUME Top!Init PROVE PoolInv
  OBVIOUS
<1>1. Busy = {} BY DEF Top!Init, Busy
<1>2. Cardinality(Busy) = 0 BY <1>1, FS_EmptySet
<1>3. PoolTypes BY DEF Top!Init, PoolTypes, ThreadStates, Waits, Top!NoSample
<1>4. TasksCounted BY <1>2 DEF Top!Init, TasksCounted, Top!NoSample
<1> QED BY <1>3, <1>4
        DEF Top!Init, PoolInv, IndicesClaimed, NoneLeft, WakeComes, Top!NoSample

(* A sample begins when no task of the last one is left.                   *)
LEMMA PoolBegins ==
    ASSUME PoolInv, NEW total \in 0 .. MaxToRead, Top!Free, Top!Begin(total) PROVE PoolInv'
<1> DEFINE n == Top!Least(Top!Cardinality(Threads), total)
<1>1. n \in Nat /\ (total > 0 => n > 0) /\ (total = 0 => n = 0)
  <2>1. Cardinality(Threads) \in Nat /\ Cardinality(Threads) # 0
    BY ThreadsAssumption, FS_CardinalityType, FS_EmptySet
  <2> QED BY <2>1, SameCardinality DEF Top!Least
<1>2. /\ sample' = [phase |-> IF total = 0 THEN "counted" ELSE "queued", total |-> total,
                    workers |-> n, nextIndex |-> 0, completed |-> 0, read |-> {}]
      /\ pool' = [pool EXCEPT !.tasks = @ + n]
  BY DEF Top!Begin
<1> HIDE DEF n
<1>3. /\ PoolTypes /\ sample.phase = "none" /\ sample.completed = sample.workers
      /\ pool.tasks + Cardinality(Busy) + sample.completed = sample.workers
  BY DEF PoolInv, Top!Free, WakeComes, TasksCounted
<1>4. pool.tasks = 0 /\ Busy = {} BY <1>3, BusyFinite DEF PoolTypes
<1>5. total \in Nat BY BoundsAssumption
<1>6. PoolTypes' BY <1>1, <1>2, <1>3, <1>4, <1>5 DEF PoolTypes, Waits
<1>7. pool'.threads = pool.threads /\ pool'.tasks = n /\ Busy' = {}
  BY <1>1, <1>2, <1>3, <1>4 DEF PoolTypes, Busy
<1>8. TasksCounted'
  <2>1. Cardinality(Busy') = 0 BY <1>7, FS_EmptySet
  <2>2. sample'.completed = 0 /\ sample'.workers = n BY <1>2
  <2> QED BY <1>1, <1>7, <2>1, <2>2 DEF TasksCounted
<1>9. IndicesClaimed' BY <1>2, <1>5, <1>7 DEF IndicesClaimed, Busy
<1>10. NoneLeft' BY <1>1, <1>2, <1>7 DEF NoneLeft, Busy
<1>11. WakeComes' BY <1>1, <1>2 DEF WakeComes
<1> QED BY <1>6, <1>8, <1>9, <1>10, <1>11 DEF PoolInv

(* A step that touches neither the pool nor the sample.                    *)
LEMMA PoolUntouched == PoolInv /\ UNCHANGED <<pool, sample>> => PoolInv'
<1> SUFFICES ASSUME PoolInv, UNCHANGED <<pool, sample>> PROVE PoolInv'
  OBVIOUS
<1>1. Busy' = Busy BY DEF Busy
<1>2. TasksCounted' BY <1>1 DEF PoolInv, TasksCounted
<1> QED BY <1>2 DEF PoolInv, PoolTypes, IndicesClaimed, NoneLeft, WakeComes

(* The sampler's steps before and after the wait.                          *)
LEMMA PoolSampler ==
    ASSUME PoolInv, \/ Top!Start \/ Top!Stop \/ Top!Refresh \/ Top!KillProcess
                    \/ Top!LateSample \/ Top!Tick \/ Top!Lock \/ Top!CheckDone \/ Top!Block
                    \/ Top!Send \/ Top!SpuriousWakeup
    PROVE  PoolInv'
<1>1. CASE Top!Refresh \/ Top!LateSample \/ Top!Tick
  BY <1>1, PoolBegins DEF Top!Refresh, Top!LateSample, Top!Tick
<1>2. CASE Top!Start
  <2>1. CASE sampler.timer
    BY <1>2, <2>1, PoolUntouched DEF Top!Start
  <2> QED BY <1>2, <2>1, PoolBegins DEF Top!Start
<1>3. CASE Top!Stop \/ Top!KillProcess
  BY <1>3, PoolUntouched DEF Top!Stop, Top!KillProcess
<1>4. CASE \/ Top!Lock \/ Top!CheckDone \/ Top!Block \/ Top!SpuriousWakeup
  <2>1. PICK phase \in Waits \ {"none"} :
           /\ sample' = [sample EXCEPT !.phase = phase] /\ UNCHANGED pool
           /\ phase = "counted" => sample.completed = sample.workers
           /\ phase = "blocking" => sample.completed # sample.workers
           /\ phase = "blocked" => sample.phase = "blocking"
    BY <1>4 DEF Top!Lock, Top!CheckDone, Top!Block, Top!SpuriousWakeup, Waits
  <2>2. PoolTypes' BY <2>1 DEF PoolInv, PoolTypes
  <2>3. /\ sample'.phase = phase /\ sample'.total = sample.total
        /\ sample'.workers = sample.workers /\ sample'.nextIndex = sample.nextIndex
        /\ sample'.completed = sample.completed /\ sample'.read = sample.read
    BY <2>1 DEF PoolInv, PoolTypes
  <2> QED BY <2>1, <2>2, <2>3
          DEF PoolInv, TasksCounted, IndicesClaimed, NoneLeft, WakeComes, Busy
<1>5. CASE Top!Send
  <2>1. /\ sample.phase = "counted" /\ UNCHANGED pool
        /\ sample' = [phase |-> "none", total |-> 0, workers |-> 0, nextIndex |-> 0,
                      completed |-> 0, read |-> {}]
    BY <1>5 DEF Top!Send, Top!NoSample
  <2>2. pool.tasks = 0 /\ Busy = {}
    BY <2>1, BusyFinite DEF PoolInv, PoolTypes, WakeComes, TasksCounted
  <2>3. PoolTypes' BY <2>1 DEF PoolInv, PoolTypes, Waits
  <2>4. TasksCounted'
    <3>1. Cardinality(Busy') = 0 BY <2>1, <2>2, FS_EmptySet DEF Busy
    <3> QED BY <2>1, <2>2, <3>1 DEF TasksCounted
  <2>5. IndicesClaimed' /\ NoneLeft' /\ WakeComes'
    BY <2>1, <2>2 DEF IndicesClaimed, NoneLeft, WakeComes, Busy
  <2> QED BY <2>3, <2>4, <2>5 DEF PoolInv
<1> QED BY <1>1, <1>2, <1>3, <1>4, <1>5

(* A thread of the pool takes a task, takes processes, reads and completes. *)
LEMMA PoolThreads ==
    ASSUME PoolInv, NEW t \in Threads, Top!PoolThread(t) PROVE PoolInv'
<1>0. PoolTypes /\ TasksCounted /\ IndicesClaimed /\ NoneLeft /\ WakeComes BY DEF PoolInv
<1>1. CASE Top!TakeTask(t)
  <2>1. /\ pool.threads[t] = "idle" /\ pool.tasks > 0 /\ UNCHANGED sample
        /\ pool' = [[pool EXCEPT !.threads[t] = "loop"] EXCEPT !.tasks = @ - 1]
    BY <1>1 DEF Top!TakeTask, Top!Becomes
  <2>2. /\ pool'.threads = [pool.threads EXCEPT ![t] = "loop"] /\ pool'.tasks = pool.tasks - 1
        /\ pool'.claimed = pool.claimed
    BY <1>0, <2>1 DEF PoolTypes
  <2>3. PoolTypes'
    <3>1. [pool EXCEPT !.threads[t] = "loop"] \in
             [tasks : Nat, threads : [Threads -> ThreadStates], claimed : [Threads -> Nat]]
      BY <1>0 DEF PoolTypes, ThreadStates
    <3>2. [pool EXCEPT !.threads[t] = "loop"].tasks - 1 \in Nat BY <1>0, <2>1 DEF PoolTypes
    <3> QED BY <1>0, <2>1, <3>1, <3>2 DEF PoolTypes
  <2>4. TasksCounted'
    <3>1. Busy' = Busy \cup {t} /\ t \notin Busy
      BY <1>0, <2>1, <2>2 DEF Busy, PoolTypes
    <3>2. Cardinality(Busy') = Cardinality(Busy) + 1 BY <3>1, BusyFinite, FS_AddElement
    <3> QED BY <1>0, <2>1, <2>2, <3>2, BusyFinite DEF TasksCounted, PoolTypes
  <2>5. IndicesClaimed' BY <1>0, <2>1, <2>2 DEF IndicesClaimed, PoolTypes
  <2>6. NoneLeft' /\ WakeComes' BY <1>0, <2>1, <2>2 DEF NoneLeft, WakeComes, PoolTypes
  <2> QED BY <2>3, <2>4, <2>5, <2>6 DEF PoolInv
<1>2. CASE Top!Claim(t)
  <2> DEFINE next == sample.nextIndex
  <2>1. /\ pool.threads[t] = "loop" /\ sample' = [sample EXCEPT !.nextIndex = next + 1]
        /\ next >= sample.total => pool' = [pool EXCEPT !.threads[t] = "done"]
        /\ next < sample.total =>
              pool' = [[pool EXCEPT !.threads[t] = "reading"] EXCEPT !.claimed[t] = next]
    BY <1>0, <1>2 DEF Top!Claim, Top!Becomes, PoolTypes
  <2>2. PICK state \in {"done", "reading"} :
           /\ pool'.threads = [pool.threads EXCEPT ![t] = state] /\ pool'.tasks = pool.tasks
           /\ state = "done" => next >= sample.total /\ pool'.claimed = pool.claimed
           /\ state = "reading" =>
                 next < sample.total /\ pool'.claimed = [pool.claimed EXCEPT ![t] = next]
           /\ pool' \in [tasks : Nat, threads : [Threads -> ThreadStates], claimed : [Threads -> Nat]]
    <3>0. next \in Nat /\ sample.total \in Nat BY <1>0 DEF PoolTypes
    <3>1. CASE next >= sample.total
      <4>1. pool' = [pool EXCEPT !.threads[t] = "done"] BY <2>1, <3>1
      <4>2. /\ pool'.threads = [pool.threads EXCEPT ![t] = "done"] /\ pool'.tasks = pool.tasks
            /\ pool'.claimed = pool.claimed
        BY <1>0, <4>1 DEF PoolTypes
      <4>3. pool' \in [tasks : Nat, threads : [Threads -> ThreadStates], claimed : [Threads -> Nat]]
        BY <1>0, <4>1 DEF PoolTypes, ThreadStates
      <4> QED BY <3>1, <4>2, <4>3
    <3>2. CASE next < sample.total
      <4>1. pool' = [[pool EXCEPT !.threads[t] = "reading"] EXCEPT !.claimed[t] = next]
        BY <2>1, <3>2
      <4>2. /\ pool'.threads = [pool.threads EXCEPT ![t] = "reading"] /\ pool'.tasks = pool.tasks
            /\ pool'.claimed = [pool.claimed EXCEPT ![t] = next]
        BY <1>0, <4>1 DEF PoolTypes
      <4>3. pool' \in [tasks : Nat, threads : [Threads -> ThreadStates], claimed : [Threads -> Nat]]
        BY <1>0, <3>0, <4>1 DEF PoolTypes, ThreadStates
      <4> QED BY <3>2, <4>2, <4>3
    <3> QED BY <3>0, <3>1, <3>2
  <2>3. PoolTypes' /\ sample'.nextIndex = next + 1
    BY <1>0, <2>1, <2>2 DEF PoolTypes
  <2>4. /\ sample'.phase = sample.phase /\ sample'.total = sample.total
        /\ sample'.workers = sample.workers /\ sample'.read = sample.read
        /\ sample'.completed = sample.completed
    BY <1>0, <2>1 DEF PoolTypes
  <2>5. TasksCounted'
    <3>1. Busy' = Busy BY <1>0, <2>1, <2>2 DEF Busy, PoolTypes
    <3> QED BY <1>0, <2>2, <2>4, <3>1 DEF TasksCounted
  <2>6. IndicesClaimed'
    <3>1. next \in Nat /\ sample.total \in Nat BY <1>0 DEF PoolTypes
    <3>2. \A u \in Threads : u # t => /\ pool'.threads[u] = pool.threads[u]
                                      /\ pool'.claimed[u] = pool.claimed[u]
      BY <1>0, <2>2 DEF PoolTypes
    <3>3. pool'.threads[t] = state /\ (state = "reading" => pool'.claimed[t] = next)
      BY <1>0, <2>2 DEF PoolTypes
    <3>4. ASSUME NEW u \in Threads, pool'.threads[u] = "reading"
          PROVE  pool'.claimed[u] \in 0 .. (sample.total - 1)
      <4>1. CASE u = t BY <2>2, <3>1, <3>3, <3>4, <4>1
      <4>2. CASE u # t BY <1>0, <3>2, <3>4, <4>2 DEF IndicesClaimed
      <4> QED BY <4>1, <4>2
    <3>5. ASSUME NEW i \in 0 .. (sample.total - 1), i < next + 1
          PROVE  \/ i \in sample.read
                 \/ \E u \in Threads : pool'.threads[u] = "reading" /\ pool'.claimed[u] = i
      <4>1. CASE i = next
        <5>1. state = "reading" BY <2>2, <3>1, <3>5, <4>1
        <5> QED BY <3>3, <4>1, <5>1
      <4>2. CASE i < next
        BY <1>0, <2>1, <3>2, <4>2 DEF IndicesClaimed
      <4> QED BY <3>1, <3>5, <4>1, <4>2
    <3> QED BY <1>0, <2>3, <2>4, <3>4, <3>5 DEF IndicesClaimed
  <2>7. NoneLeft'
    <3>1. next \in Nat /\ sample.total \in Nat BY <1>0 DEF PoolTypes
    <3>2. ASSUME NEW u \in Threads, pool'.threads[u] = "done" PROVE next + 1 >= sample.total
      <4>1. CASE u = t BY <1>0, <2>2, <3>1, <3>2, <4>1 DEF PoolTypes
      <4>2. CASE u # t
        <5>1. pool.threads[u] = "done" BY <1>0, <2>2, <3>2, <4>2 DEF PoolTypes
        <5> QED BY <1>0, <3>1, <5>1 DEF NoneLeft
      <4> QED BY <4>1, <4>2
    <3> QED BY <1>0, <2>3, <2>4, <3>1, <3>2 DEF NoneLeft
  <2>8. WakeComes'
    <3>1. \A u \in Threads : pool.threads[u] = "notify" => pool'.threads[u] = "notify"
      BY <1>0, <2>1, <2>2 DEF PoolTypes
    <3> QED BY <1>0, <2>4, <3>1 DEF WakeComes
  <2> QED BY <2>3, <2>5, <2>6, <2>7, <2>8 DEF PoolInv
<1>3. CASE Top!ReadMemory(t)
  <2> DEFINE i == pool.claimed[t]
  <2>1. /\ pool.threads[t] = "reading" /\ sample' = [sample EXCEPT !.read = @ \cup {i}]
        /\ pool' = [pool EXCEPT !.threads[t] = "loop"]
    BY <1>3 DEF Top!ReadMemory, Top!Becomes
  <2>2. /\ pool'.threads = [pool.threads EXCEPT ![t] = "loop"] /\ pool'.tasks = pool.tasks
        /\ pool'.claimed = pool.claimed
    BY <1>0, <2>1 DEF PoolTypes
  <2>3. /\ sample'.phase = sample.phase /\ sample'.total = sample.total
        /\ sample'.workers = sample.workers /\ sample'.nextIndex = sample.nextIndex
        /\ sample'.completed = sample.completed /\ sample'.read = sample.read \cup {i}
    BY <1>0, <2>1 DEF PoolTypes
  <2>4. PoolTypes'
    <3>1. pool' \in [tasks : Nat, threads : [Threads -> ThreadStates], claimed : [Threads -> Nat]]
      BY <1>0, <2>1 DEF PoolTypes, ThreadStates
    <3>2. sample' \in [phase : Waits, total : Nat, workers : Nat, nextIndex : Nat,
                       completed : Nat, read : SUBSET Nat]
      BY <1>0, <2>1 DEF PoolTypes
    <3> QED BY <3>1, <3>2 DEF PoolTypes
  <2>5. TasksCounted'
    <3>1. Busy' = Busy BY <1>0, <2>1, <2>2 DEF Busy, PoolTypes
    <3> QED BY <1>0, <2>2, <2>3, <3>1 DEF TasksCounted
  <2>6. IndicesClaimed' BY <1>0, <2>1, <2>2, <2>3 DEF IndicesClaimed, PoolTypes
  <2>7. NoneLeft' /\ WakeComes' BY <1>0, <2>1, <2>2, <2>3 DEF NoneLeft, WakeComes, PoolTypes
  <2> QED BY <2>4, <2>5, <2>6, <2>7 DEF PoolInv
<1>4. CASE Top!Complete(t)
  <2> DEFINE state == IF sample.completed + 1 = sample.workers THEN "notify" ELSE "idle"
  <2>1. /\ pool.threads[t] = "done" /\ sample' = [sample EXCEPT !.completed = @ + 1]
        /\ pool' = [pool EXCEPT !.threads[t] = state]
    BY <1>4 DEF Top!Complete, Top!Becomes
  <2>2. /\ state \in {"notify", "idle"}
        /\ sample.completed + 1 = sample.workers => state = "notify"
    OBVIOUS
  <2> HIDE DEF state
  <2>3. /\ pool'.threads = [pool.threads EXCEPT ![t] = state] /\ pool'.tasks = pool.tasks
        /\ pool'.claimed = pool.claimed
    BY <1>0, <2>1 DEF PoolTypes
  <2>4. /\ sample'.phase = sample.phase /\ sample'.total = sample.total
        /\ sample'.workers = sample.workers /\ sample'.nextIndex = sample.nextIndex
        /\ sample'.completed = sample.completed + 1 /\ sample'.read = sample.read
    BY <1>0, <2>1 DEF PoolTypes
  <2>5. PoolTypes' BY <1>0, <2>1, <2>2 DEF PoolTypes, ThreadStates
  <2>6. Busy' = Busy \ {t} /\ t \in Busy BY <1>0, <2>1, <2>2, <2>3 DEF Busy, PoolTypes
  <2>7. TasksCounted'
    <3>1. Cardinality(Busy') = Cardinality(Busy) - 1
      BY <2>6, BusyFinite, FS_RemoveElement
    <3> QED BY <1>0, <2>3, <2>4, <3>1, BusyFinite DEF TasksCounted, PoolTypes
  <2>8. IndicesClaimed' BY <1>0, <2>1, <2>2, <2>3, <2>4 DEF IndicesClaimed, PoolTypes
  <2>9. NoneLeft' BY <1>0, <2>1, <2>2, <2>3, <2>4 DEF NoneLeft, PoolTypes
  <2>10. WakeComes'
    <3>1. sample.completed # sample.workers
      <4>1. Cardinality(Busy) # 0 BY <2>6, BusyFinite
      <4> QED BY <1>0, <4>1, BusyFinite DEF TasksCounted, PoolTypes
    <3>2. pool'.threads[t] = state BY <1>0, <2>3 DEF PoolTypes
    <3> QED BY <1>0, <2>2, <2>4, <3>1, <3>2 DEF WakeComes
  <2> QED BY <2>5, <2>7, <2>8, <2>9, <2>10 DEF PoolInv
<1>5. CASE Top!Notify(t) \/ Top!NotifyTooLate(t)
  <2>1. PICK state \in {"idle", "stuck"}, phase \in Waits :
           /\ pool.threads[t] = "notify" /\ pool' = [pool EXCEPT !.threads[t] = state]
           /\ sample' = [sample EXCEPT !.phase = phase]
           /\ phase \notin {"blocking", "blocked"}
           /\ phase \in {"none", "counted"} => phase = sample.phase
    <3>1. sample = [sample EXCEPT !.phase = sample.phase] /\ sample.phase \in Waits
      BY <1>0 DEF PoolTypes
    <3>2. CASE Top!Notify(t)
      <4>1. CASE sample.phase = "queued"
        BY <3>1, <3>2, <4>1 DEF Top!Notify, Top!Becomes, Waits
      <4>2. CASE sample.phase = "blocked"
        BY <3>1, <3>2, <4>2 DEF Top!Notify, Top!Becomes, Waits
      <4> QED BY <3>2, <4>1, <4>2 DEF Top!Notify
    <3>3. CASE Top!NotifyTooLate(t)
      BY <3>1, <3>3 DEF Top!NotifyTooLate, Top!Becomes
    <3> QED BY <1>5, <3>2, <3>3
  <2>2. /\ pool'.threads = [pool.threads EXCEPT ![t] = state] /\ pool'.tasks = pool.tasks
        /\ pool'.claimed = pool.claimed
    BY <1>0, <2>1 DEF PoolTypes
  <2>3. /\ sample'.phase = phase /\ sample'.total = sample.total
        /\ sample'.workers = sample.workers /\ sample'.nextIndex = sample.nextIndex
        /\ sample'.completed = sample.completed /\ sample'.read = sample.read
    BY <1>0, <2>1 DEF PoolTypes
  <2>4. PoolTypes' BY <1>0, <2>1 DEF PoolTypes, ThreadStates
  <2>5. TasksCounted'
    <3>1. Busy' = Busy BY <1>0, <2>1, <2>2 DEF Busy, PoolTypes
    <3> QED BY <1>0, <2>2, <2>3, <3>1 DEF TasksCounted
  <2>6. IndicesClaimed' BY <1>0, <2>1, <2>2, <2>3 DEF IndicesClaimed, PoolTypes
  <2>7. NoneLeft' BY <1>0, <2>1, <2>2, <2>3 DEF NoneLeft, PoolTypes
  <2>8. WakeComes' BY <1>0, <2>1, <2>3 DEF WakeComes
  <2> QED BY <2>4, <2>5, <2>6, <2>7, <2>8 DEF PoolInv
<1> QED BY <1>1, <1>2, <1>3, <1>4, <1>5 DEF Top!PoolThread

(* The pool keeps its invariant through the steps of all components.       *)
LEMMA PoolInvariant == Spec => []PoolInv
<1>1. Init => PoolInv BY PoolInit DEF Init
<1>2. PoolInv /\ [Next]_vars => PoolInv'
  <2> SUFFICES ASSUME PoolInv, [Next]_vars PROVE PoolInv'
    OBVIOUS
  <2>1. CASE Top!Next
    <3>1. CASE Top!User \/ Top!OnDataReady
      BY <3>1, PoolUntouched DEF Top!User, Top!OnDataReady, Top!SetRunning, Top!Ask
    <3> QED BY <2>1, <3>1, PoolSampler, PoolThreads DEF Top!Next, Top!SamplerThread
  <2>2. CASE UNCHANGED topVars
    BY <2>2, PoolUntouched DEF topVars
  <2>3. Top!Next \/ UNCHANGED topVars
    BY DEF Next, vars, OnlyLists, OnlyTree, OnlyTop, OnlyPrivacy, OnlyJobs, OnlyWindows,
           OnlyPower, topVars
  <2> QED BY <2>1, <2>2, <2>3
<1> QED BY <1>1, <1>2, PTL DEF Spec

(* PoolDone holds for any number of threads and of processes to read:      *)
(* sample() goes on only when all memory is read and no thread of the pool *)
(* uses its locals, and it never sleeps on (ProcessMonitor.cpp).           *)
THEOREM PoolAlwaysDone == Spec => []PoolDone
<1>1. PoolInv => Top!PoolDone
  <2> SUFFICES ASSUME PoolInv PROVE Top!PoolDone
    OBVIOUS
  <2>1. ASSUME sample.phase = "counted"
        PROVE  /\ sample.read = 0 .. (sample.total - 1) /\ pool.tasks = 0
               /\ \A t \in Threads : pool.threads[t] \notin {"loop", "reading", "done"}
    <3>1. sample.completed = sample.workers BY <2>1 DEF PoolInv, WakeComes
    <3>2. pool.tasks = 0 /\ Busy = {}
      BY <3>1, BusyFinite DEF PoolInv, PoolTypes, TasksCounted
    <3>3. sample.total > 0 => sample.nextIndex >= sample.total
      BY <3>1 DEF PoolInv, PoolTypes, NoneLeft
    <3>4. ASSUME NEW i \in 0 .. (sample.total - 1) PROVE i \in sample.read
      <4>1. i < sample.nextIndex BY <3>3 DEF PoolInv, PoolTypes
      <4> QED BY <3>2, <4>1 DEF PoolInv, IndicesClaimed, Busy
    <3> QED BY <3>2, <3>4 DEF PoolInv, IndicesClaimed, Busy
  <2> QED BY <2>1 DEF PoolInv, WakeComes, Top!PoolDone
<1> QED BY <1>1, PoolInvariant, PTL DEF PoolDone

-----------------------------------------------------------------------------
(* The reboot into Windows.                                                *)

PowerTypes ==
    /\ firmware \in [entry : BOOLEAN, next : BOOLEAN]
    /\ logind.sent \in Nat
    /\ logind = [calls |-> logind.calls, sent |-> logind.sent, accepted |-> logind.accepted]
    /\ tools \in [list : BOOLEAN, sudo : Nat, pkexec : Nat]
    /\ power \in [entry : BOOLEAN, rebooting : BOOLEAN, told : BOOLEAN, asked : BOOLEAN]

\* A reboot into Windows goes on only when the firmware was told of it and logind
\* was asked for it.
RebootPrepared == power.rebooting => firmware.next /\ Power!Rebooting

\* Who works at a reboot that was asked for, or what became of it.
RebootPursued ==
    power.asked =>
       \/ tools.sudo > 0 \/ tools.pkexec > 0
       \/ power.rebooting \/ logind.accepted \/ power.told

PowerInv == PowerTypes /\ RebootPrepared /\ RebootPursued

(* Nothing was asked for at first.                                         *)
LEMMA PowerInit == Power!Init => PowerInv
<1> SUFFICES ASSUME Power!Init PROVE PowerInv
  OBVIOUS
<1>1. firmware \in [entry : BOOLEAN, next : BOOLEAN] BY DEF Power!Init
<1>2. ~power.rebooting /\ ~power.asked BY DEF Power!Init
<1>3. PowerTypes BY <1>1 DEF Power!Init, PowerTypes
<1> QED BY <1>2, <1>3 DEF PowerInv, RebootPrepared, RebootPursued

(* A call to logind is under way afterwards, or has failed at once; a      *)
(* reboot that fails is told to whoever waits for it.                      *)
LEMMA PowerCall ==
    ASSUME PowerTypes,
           NEW p \in [entry : BOOLEAN, rebooting : BOOLEAN, told : BOOLEAN, asked : BOOLEAN],
           NEW method, Power!Call(p, method)
    PROVE  /\ logind'.sent \in Nat
           /\ logind' = [calls |-> logind'.calls, sent |-> logind'.sent,
                         accepted |-> logind'.accepted]
           /\ logind'.accepted = logind.accepted
           /\ power' \in [entry : BOOLEAN, rebooting : BOOLEAN, told : BOOLEAN, asked : BOOLEAN]
           /\ power'.asked = p.asked
           /\ p.told => power'.told
           /\ power'.rebooting => p.rebooting
           /\ p.rebooting => power'.rebooting \/ power'.told
           /\ Power!Rebooting => Power!Rebooting'
           /\ method = "Reboot" /\ power'.rebooting => Power!Rebooting'
<1>1. CASE /\ logind' = [logind EXCEPT !.calls = @ \cup {<<method, logind.sent>>}, !.sent = @ + 1]
           /\ power' = p
  <2>1. /\ logind'.calls = logind.calls \cup {<<method, logind.sent>>}
        /\ logind'.sent = logind.sent + 1 /\ logind'.accepted = logind.accepted
    BY <1>1 DEF PowerTypes
  <2>2. <<method, logind.sent>>[1] = method OBVIOUS
  <2>3. logind' = [calls |-> logind'.calls, sent |-> logind'.sent, accepted |-> logind'.accepted]
    BY <1>1 DEF PowerTypes
  <2>4. method = "Reboot" => Power!Rebooting' BY <2>1, <2>2 DEF Power!Rebooting
  <2>5. Power!Rebooting => Power!Rebooting' BY <2>1 DEF Power!Rebooting
  <2> QED BY <1>1, <2>1, <2>3, <2>4, <2>5 DEF PowerTypes
<1>2. CASE UNCHANGED logind /\ power' = Power!Refused(p, method)
  <2>1. Power!Rebooting' = Power!Rebooting BY <1>2 DEF Power!Rebooting
  <2>2. CASE p.rebooting /\ method = "Reboot"
    <3>1. power' = [p EXCEPT !.rebooting = FALSE, !.told = TRUE]
      BY <1>2, <2>2 DEF Power!Refused
    <3> QED BY <1>2, <2>1, <2>2, <3>1 DEF PowerTypes
  <2>3. CASE ~(p.rebooting /\ method = "Reboot")
    <3>1. power' = p BY <1>2, <2>3 DEF Power!Refused
    <3> QED BY <1>2, <2>1, <2>3, <3>1 DEF PowerTypes
  <2> QED BY <2>2, <2>3
<1> QED BY <1>1, <1>2 DEF Power!Call

(* The programs that run are counted.                                      *)
LEMMA ToolNumbers == PowerTypes => tools.sudo \in Nat /\ tools.pkexec \in Nat
BY DEF PowerTypes

\* Starting or ending a tool changes its own count alone.
LEMMA ToolsCounted ==
    ASSUME PowerTypes
    PROVE  /\ \A n \in Nat :
                 /\ [tools EXCEPT !.sudo = n] \in [list : BOOLEAN, sudo : Nat, pkexec : Nat]
                 /\ [tools EXCEPT !.sudo = n].sudo = n
                 /\ [tools EXCEPT !.pkexec = n] \in [list : BOOLEAN, sudo : Nat, pkexec : Nat]
           /\ \A n, m \in Nat : LET both == [tools EXCEPT !.sudo = n, !.pkexec = m]
                               IN /\ both \in [list : BOOLEAN, sudo : Nat, pkexec : Nat]
                                  /\ both.pkexec = m
BY DEF PowerTypes

(* Every step keeps the invariant.                                         *)
LEMMA PowerStep == ASSUME PowerInv, Power!Next PROVE PowerInv'
<1>0. PowerTypes /\ RebootPrepared /\ RebootPursued BY DEF PowerInv
<1>1. CASE Power!RefreshBootEntries \/ Power!ListEnds
  BY <1>1 DEF Power!RefreshBootEntries, Power!ListEnds, PowerInv, PowerTypes, RebootPrepared,
              RebootPursued, Power!Rebooting
<1>2. CASE Power!RequestMethod
  <2>1. PICK m \in Power!Methods : Power!Call(power, m) BY <1>2 DEF Power!RequestMethod
  <2>2. UNCHANGED <<firmware, tools>> BY <1>2 DEF Power!RequestMethod
  <2>3. power \in [entry : BOOLEAN, rebooting : BOOLEAN, told : BOOLEAN, asked : BOOLEAN]
    BY <1>0 DEF PowerTypes
  <2> HIDE DEF PowerInv
  <2> QED BY <1>0, <2>1, <2>2, <2>3, PowerCall
          DEF PowerInv, PowerTypes, RebootPrepared, RebootPursued
<1>3. CASE Power!LogindAnswers
  <2>1. PICK c \in logind.calls :
           \/ /\ logind' = [logind EXCEPT !.calls = @ \ {c}, !.accepted = @ \/ c[1] = "Reboot"]
              /\ UNCHANGED power
           \/ /\ logind' = [logind EXCEPT !.calls = @ \ {c}]
              /\ power' = Power!Refused(power, c[1])
    BY <1>3 DEF Power!LogindAnswers
  <2>2. UNCHANGED <<firmware, tools>> BY <1>3 DEF Power!LogindAnswers
  <2>3. /\ logind'.calls = logind.calls \ {c} /\ logind'.sent = logind.sent
        /\ logind.accepted => logind'.accepted
        /\ c[1] = "Reboot" /\ UNCHANGED power => logind'.accepted \/ power' = Power!Refused(power, c[1])
        /\ logind' = [calls |-> logind'.calls, sent |-> logind'.sent, accepted |-> logind'.accepted]
    BY <1>0, <2>1 DEF PowerTypes
  <2>4. /\ power' \in [entry : BOOLEAN, rebooting : BOOLEAN, told : BOOLEAN, asked : BOOLEAN]
        /\ power'.asked = power.asked /\ (power.told => power'.told)
        /\ power'.rebooting => power.rebooting
        /\ power.rebooting => power'.rebooting \/ power'.told
        /\ c[1] = "Reboot" /\ power' = Power!Refused(power, c[1]) => ~power'.rebooting
    BY <1>0, <2>1 DEF PowerTypes, Power!Refused
  <2>5. RebootPrepared'
    <3>1. SUFFICES ASSUME power'.rebooting PROVE firmware'.next /\ Power!Rebooting'
      BY DEF RebootPrepared
    <3>2. firmware.next /\ Power!Rebooting BY <1>0, <2>4, <3>1 DEF RebootPrepared
    <3>3. CASE c[1] = "Reboot"
      BY <2>1, <2>2, <2>3, <2>4, <3>1, <3>2, <3>3 DEF Power!Rebooting
    <3>4. CASE c[1] # "Reboot"
      BY <2>2, <2>3, <3>2, <3>4 DEF Power!Rebooting
    <3> QED BY <3>3, <3>4
  <2> QED BY <1>0, <2>2, <2>3, <2>4, <2>5 DEF PowerInv, PowerTypes, RebootPursued
<1>4. CASE Power!RequestRebootToWindows
  <2>1. UNCHANGED <<firmware, logind>> /\ Power!Rebooting' = Power!Rebooting
    BY <1>4 DEF Power!RequestRebootToWindows, Power!Rebooting
  <2>2. CASE power.entry
    <3>1. /\ tools' = [tools EXCEPT !.sudo = @ + 1]
          /\ power' = [power EXCEPT !.asked = TRUE, !.told = FALSE]
      BY <1>4, <2>2 DEF Power!RequestRebootToWindows
    <3>2. /\ power' \in [entry : BOOLEAN, rebooting : BOOLEAN, told : BOOLEAN, asked : BOOLEAN]
          /\ power'.rebooting = power.rebooting
      BY <1>0, <3>1 DEF PowerTypes
    <3>3. tools.sudo + 1 \in Nat /\ tools.sudo + 1 > 0 BY <1>0, ToolNumbers
    <3>4. tools' \in [list : BOOLEAN, sudo : Nat, pkexec : Nat] /\ tools'.sudo > 0
      BY <1>0, <3>1, <3>3, ToolsCounted
    <3>5. PowerTypes' BY <1>0, <2>1, <3>2, <3>4 DEF PowerTypes
    <3> QED BY <1>0, <2>1, <3>2, <3>4, <3>5 DEF PowerInv, RebootPrepared, RebootPursued
  <2>3. CASE ~power.entry
    <3>1. UNCHANGED tools /\ power' = [power EXCEPT !.told = TRUE]
      BY <1>4, <2>3 DEF Power!RequestRebootToWindows
    <3> QED BY <1>0, <2>1, <3>1 DEF PowerInv, PowerTypes, RebootPrepared, RebootPursued
  <2> QED BY <2>2, <2>3
<1>5. ASSUME NEW tool \in {"sudo", "pkexec"}, Power!Succeeds(tool) PROVE PowerInv'
  <2> DEFINE p == [power EXCEPT !.rebooting = TRUE]
  <2>1. /\ tools[tool] > 0 /\ tools' = [tools EXCEPT ![tool] = @ - 1]
        /\ firmware' = [firmware EXCEPT !.next = TRUE] /\ Power!Call(p, "Reboot")
    BY <1>5 DEF Power!Succeeds
  <2>2. /\ p \in [entry : BOOLEAN, rebooting : BOOLEAN, told : BOOLEAN, asked : BOOLEAN]
        /\ p.rebooting
    BY <1>0 DEF PowerTypes
  <2>3. /\ firmware' \in [entry : BOOLEAN, next : BOOLEAN] /\ firmware'.next
        /\ tools' \in [list : BOOLEAN, sudo : Nat, pkexec : Nat]
    <3>1. tools[tool] - 1 \in Nat /\ (tool = "sudo" \/ tool = "pkexec")
      <4>1. tools[tool] \in Nat BY <1>0, ToolNumbers
      <4> QED BY <2>1, <4>1
    <3>2. tools' \in [list : BOOLEAN, sudo : Nat, pkexec : Nat]
      BY <1>0, <2>1, <3>1, ToolsCounted
    <3> QED BY <1>0, <2>1, <3>2 DEF PowerTypes
  <2> HIDE DEF p
  <2> QED BY <1>0, <2>1, <2>2, <2>3, PowerCall
          DEF PowerInv, PowerTypes, RebootPrepared, RebootPursued
<1>6. CASE Power!SudoFails
  <2>1. PICK started \in {1, 2} :
           tools' = [tools EXCEPT !.sudo = @ - 1, !.pkexec = @ + started]
    BY <1>6 DEF Power!SudoFails
  <2>2. UNCHANGED <<firmware, logind, power>> /\ tools.sudo > 0 BY <1>6 DEF Power!SudoFails
  <2>3. tools' \in [list : BOOLEAN, sudo : Nat, pkexec : Nat] /\ tools'.pkexec > 0
    <3>1. /\ tools.sudo - 1 \in Nat /\ tools.pkexec + started \in Nat
          /\ tools.pkexec + started > 0
      BY <1>0, <2>2, ToolNumbers
    <3> QED BY <1>0, <2>1, <3>1, ToolsCounted
  <2> QED BY <1>0, <2>2, <2>3 DEF PowerInv, PowerTypes, RebootPrepared, RebootPursued, Power!Rebooting
<1>7. CASE Power!PkexecFails
  <2>1. UNCHANGED <<firmware, logind>> /\ tools.pkexec > 0 BY <1>7 DEF Power!PkexecFails
  <2>2. tools' \in [list : BOOLEAN, sudo : Nat, pkexec : Nat]
    BY <1>0, <1>7 DEF Power!PkexecFails, PowerTypes
  <2>3. /\ power' \in [entry : BOOLEAN, rebooting : BOOLEAN, told : BOOLEAN, asked : BOOLEAN]
        /\ power'.told /\ power'.rebooting = power.rebooting
    BY <1>0, <1>7 DEF Power!PkexecFails, PowerTypes
  <2> QED BY <1>0, <2>1, <2>2, <2>3
          DEF PowerInv, PowerTypes, RebootPrepared, RebootPursued, Power!Rebooting
<1> QED BY <1>1, <1>2, <1>3, <1>4, <1>5, <1>6, <1>7 DEF Power!Next

(* Every reachable state satisfies the invariant of the reboot.            *)
LEMMA PowerAlways == Spec => []PowerInv
<1>1. Init => PowerInv BY PowerInit DEF Init
<1>2. PowerInv /\ [Next]_vars => PowerInv'
  <2> SUFFICES ASSUME PowerInv, [Next]_vars PROVE PowerInv'
    OBVIOUS
  <2>1. CASE UNCHANGED powerVars
    BY <2>1 DEF powerVars, PowerInv, PowerTypes, RebootPrepared, RebootPursued, Power!Rebooting
  <2>2. Power!Next \/ UNCHANGED powerVars
    BY DEF Next, vars, OnlyLists, OnlyTree, OnlyTop, OnlyPrivacy, OnlyJobs, OnlyWindows,
           OnlyPower, powerVars
  <2> QED BY <2>1, <2>2, PowerStep
<1> QED BY <1>1, <1>2, PTL DEF Spec

(* RebootHonest holds for any number of requests: the shell says that it   *)
(* reboots into Windows only when the next boot is set and a reboot on its *)
(* way, and no such reboot vanishes (PowerManager.cpp).                    *)
THEOREM RebootsHonest == Spec => []Power!RebootHonest
<1>1. PowerInv => Power!RebootHonest
  BY DEF PowerInv, RebootPrepared, RebootPursued, Power!RebootHonest, Power!Rebooting
<1> QED BY <1>1, PowerAlways, PTL

-----------------------------------------------------------------------------
(* The lists of processes and services.                                    *)

Kinds == Lists!Kinds
Requested == Kinds \cup {"all"}
Doings == {<<>>, <<"processes">>, <<"services">>, <<"processes", "services">>}

\* A record has these fields; what they hold does not matter.
Has(record, fields) == record = [f \in fields |-> record[f]]

ListTypes ==
    /\ Has(machine, {"tree", "version", "signals", "steps"})
    /\ machine.version \in [Kinds -> Nat] /\ \A k \in Kinds : machine.version[k] > 0
    /\ Has(scanner, {"queue", "doing", "read", "stored"})
    /\ scanner.queue \in Seq(Requested) /\ scanner.doing \in Doings
    /\ Has(scanner.read, {"version", "tree", "groups"}) /\ scanner.read.version \in Nat
    /\ scanner.stored \in BOOLEAN
    /\ lists = [k \in Kinds |-> lists[k]]
    /\ \A k \in Kinds : /\ Has(lists[k], {"cached", "dirty", "pending", "asked"})
                         /\ lists[k].asked \in Nat /\ lists[k].cached.version \in Nat

Reading == scanner.read # Lists!NoList

\* The worker reads what it has taken, and stores what it has read.
WorkerOrder == (scanner.stored => Reading) /\ (Reading => scanner.doing # <<>>)

Queued(k) == k \in Lists!Range(scanner.queue) \/ "all" \in Lists!Range(scanner.queue)
Doing(k) == k \in Lists!Range(scanner.doing)

\* A pending flag is one that a read will clear.
PendingUnderWay == \A k \in Kinds : lists[k].pending => Queued(k) \/ Doing(k)

\* A request that was accepted will be read, or what was read is new enough for it:
\* before it is stored the worker has it, afterwards the list.
RequestsServed ==
    \A k \in Kinds :
       /\ lists[k].asked <= machine.version[k]
       /\ Queued(k) \/ (Doing(k) /\ (k # Head(scanner.doing) \/ ~Reading))
          \/ (IF Doing(k) /\ ~scanner.stored THEN scanner.read.version ELSE lists[k].cached.version)
             >= lists[k].asked

ListsInv == ListTypes /\ WorkerOrder /\ PendingUnderWay /\ RequestsServed

(* A list that was read.                                                   *)
LEMMA ReadIsRecord ==
    \A v, t, g : LET r == [version |-> v, tree |-> t, groups |-> g]
                 IN Has(r, {"version", "tree", "groups"}) /\ r.version = v
BY DEF Has

\* Setting the age of a list keeps its other fields.
LEMMA VersionSet ==
    ASSUME NEW r, Has(r, {"version", "tree", "groups"}), NEW v
    PROVE  LET n == [r EXCEPT !.version = v]
           IN Has(n, {"version", "tree", "groups"}) /\ n.version = v
BY DEF Has

(* What is in a queue that has grown, or has lost its head.                *)
LEMMA RangeGrows ==
    ASSUME NEW S, NEW q \in Seq(S), NEW r \in Seq(S)
    PROVE  q \o r \in Seq(S) /\ Lists!Range(q \o r) = Lists!Range(q) \cup Lists!Range(r)
<1> DEFINE b == q \o r
<1>1. /\ b \in Seq(S) /\ Len(q) \in Nat /\ Len(r) \in Nat /\ Len(b) = Len(q) + Len(r)
      /\ DOMAIN q = 1 .. Len(q) /\ DOMAIN r = 1 .. Len(r) /\ DOMAIN b = 1 .. Len(b)
  OBVIOUS
<1>5. ASSUME NEW i \in 1 .. Len(b)
      PROVE  b[i] = IF i <= Len(q) THEN q[i] ELSE r[i - Len(q)]
  OBVIOUS
<1> HIDE DEF b
<1>2. ASSUME NEW i \in DOMAIN b PROVE b[i] \in Lists!Range(q) \cup Lists!Range(r)
  <2>1. CASE i <= Len(q) BY <1>1, <1>5, <2>1 DEF Lists!Range
  <2>2. CASE ~(i <= Len(q))
    <3>1. i - Len(q) \in DOMAIN r /\ b[i] = r[i - Len(q)] BY <1>1, <1>5, <2>2
    <3> QED BY <3>1 DEF Lists!Range
  <2> QED BY <2>1, <2>2
<1>3. ASSUME NEW i \in DOMAIN q PROVE q[i] \in Lists!Range(b)
  <2>1. i \in DOMAIN b /\ b[i] = q[i] BY <1>1, <1>5
  <2> QED BY <2>1 DEF Lists!Range
<1>4. ASSUME NEW i \in DOMAIN r PROVE r[i] \in Lists!Range(b)
  <2>1. Len(q) + i \in DOMAIN b /\ b[Len(q) + i] = r[i] BY <1>1, <1>5
  <2> QED BY <2>1 DEF Lists!Range
<1> QED BY <1>1, <1>2, <1>3, <1>4 DEF Lists!Range, b

\* Taking the head of a queue leaves a queue with no new elements.
LEMMA RangeShrinks ==
    ASSUME NEW S, NEW q \in Seq(S), q # <<>>
    PROVE  /\ Head(q) \in S /\ Tail(q) \in Seq(S)
           /\ Lists!Range(q) = {Head(q)} \cup Lists!Range(Tail(q))
<1> DEFINE r == Tail(q)
<1>1. /\ r \in Seq(S) /\ Len(q) \in Nat /\ Len(r) = Len(q) - 1 /\ Head(q) = q[1] /\ q[1] \in S
      /\ DOMAIN q = 1 .. Len(q) /\ DOMAIN r = 1 .. Len(r) /\ 1 \in DOMAIN q
      /\ \A i \in 1 .. Len(r) : r[i] = q[i + 1]
  OBVIOUS
<1> HIDE DEF r
<1>2. ASSUME NEW i \in DOMAIN q PROVE q[i] \in {Head(q)} \cup Lists!Range(r)
  <2>1. CASE i = 1 BY <1>1, <2>1
  <2>2. CASE i # 1
    <3>1. i - 1 \in DOMAIN r /\ r[i - 1] = q[i] BY <1>1, <2>2
    <3> QED BY <3>1 DEF Lists!Range
  <2> QED BY <2>1, <2>2
<1>3. ASSUME NEW i \in DOMAIN r PROVE r[i] \in Lists!Range(q)
  <2>1. i + 1 \in DOMAIN q /\ r[i] = q[i + 1] BY <1>1
  <2> QED BY <2>1 DEF Lists!Range
<1>4. Head(q) \in Lists!Range(q) BY <1>1 DEF Lists!Range
<1> QED BY <1>1, <1>2, <1>3, <1>4 DEF Lists!Range, r

(* What the worker does in one go.                                         *)
LEMMA DoingsAre ==
    /\ Lists!Range(<<>>) = {} /\ Lists!Range(<<"processes">>) = {"processes"}
    /\ Lists!Range(<<"services">>) = {"services"}
    /\ Lists!Range(<<"processes", "services">>) = {"processes", "services"}
    /\ \A d \in Doings :
          d # <<>> => /\ Head(d) \in Kinds /\ Tail(d) \in Doings
                      /\ Lists!Range(d) \subseteq Kinds
                      /\ Head(d) \in Lists!Range(d)
                      /\ Lists!Range(Tail(d)) = Lists!Range(d) \ {Head(d)}
<1>1. /\ Lists!Range(<<>>) = {} /\ Lists!Range(<<"processes">>) = {"processes"}
      /\ Lists!Range(<<"services">>) = {"services"}
  BY DEF Lists!Range
<1>2. Lists!Range(<<"processes", "services">>) = {"processes", "services"}
  <2> DEFINE d == <<"processes", "services">>
  <2>1. DOMAIN d = {1, 2} /\ d[1] = "processes" /\ d[2] = "services" OBVIOUS
  <2> HIDE DEF d
  <2>2. Lists!Range(d) = {"processes", "services"} BY <2>1 DEF Lists!Range
  <2> QED BY <2>2 DEF d
<1>3. /\ Head(<<"processes">>) = "processes" /\ Tail(<<"processes">>) = <<>>
      /\ Head(<<"services">>) = "services" /\ Tail(<<"services">>) = <<>>
      /\ Head(<<"processes", "services">>) = "processes"
      /\ Tail(<<"processes", "services">>) = <<"services">>
  OBVIOUS
<1> QED BY <1>1, <1>2, <1>3 DEF Doings, Kinds, Lists!Kinds

(* The first read is under way at the start.                               *)
LEMMA ListsInit == Lists!Init => ListsInv
<1> SUFFICES ASSUME Lists!Init PROVE ListsInv
  OBVIOUS
<1>1. /\ Has(machine, {"tree", "version", "signals", "steps"})
      /\ machine.version = [k \in Kinds |-> 1]
  BY DEF Lists!Init, Has, Kinds
<1>2. /\ scanner = [queue |-> <<"all">>, doing |-> <<>>, read |-> Lists!NoList, stored |-> FALSE]
      /\ lists = [k \in Kinds |-> [cached |-> Lists!NoList, dirty |-> TRUE, pending |-> FALSE,
                                   asked |-> 0]]
  BY DEF Lists!Init, Kinds
<1>3. Has(Lists!NoList, {"version", "tree", "groups"}) /\ Lists!NoList.version = 0
  BY DEF Has, Lists!NoList
<1>4. "all" \in Lists!Range(scanner.queue) /\ scanner.queue \in Seq(Requested)
  BY <1>2 DEF Lists!Range, Requested
<1>5. ListTypes
  <2>1. machine.version \in [Kinds -> Nat] /\ \A k \in Kinds : machine.version[k] > 0
    BY <1>1
  <2>2. Has(scanner, {"queue", "doing", "read", "stored"}) BY <1>2 DEF Has
  <2>3. /\ scanner.doing \in Doings /\ scanner.read = Lists!NoList /\ scanner.stored = FALSE
    BY <1>2 DEF Doings
  <2>4. lists = [k \in Kinds |-> lists[k]] BY <1>2
  <2>5. ASSUME NEW k \in Kinds
        PROVE  /\ Has(lists[k], {"cached", "dirty", "pending", "asked"})
               /\ lists[k].asked = 0 /\ lists[k].cached = Lists!NoList
    BY <1>2 DEF Has
  <2>6. /\ Has(scanner.read, {"version", "tree", "groups"}) /\ scanner.read.version \in Nat
        /\ scanner.stored \in BOOLEAN
    <3>1. Has(scanner.read, {"version", "tree", "groups"}) BY <1>3, <2>3
    <3>2. scanner.read.version \in Nat BY <1>3, <2>3
    <3> QED BY <2>3, <3>1, <3>2
  <2>7. \A k \in Kinds : /\ Has(lists[k], {"cached", "dirty", "pending", "asked"})
                        /\ lists[k].asked \in Nat /\ lists[k].cached.version \in Nat
    BY <1>3, <2>5
  <2> QED BY <1>1, <1>4, <2>1, <2>2, <2>3, <2>4, <2>6, <2>7, Zenon DEF ListTypes
<1> QED BY <1>1, <1>2, <1>4, <1>5
        DEF ListsInv, WorkerOrder, Reading, PendingUnderWay, RequestsServed, Queued

(* The worker takes what is queued, all lists or one.                      *)
LEMMA ListsTake == ASSUME ListsInv, Lists!Take PROVE ListsInv'
<1>0. ListTypes /\ WorkerOrder /\ PendingUnderWay /\ RequestsServed BY DEF ListsInv
<1> DEFINE q == scanner.queue
           first == Head(q)
           next == IF first = "all" THEN <<"processes", "services">> ELSE <<first>>
<1>1. /\ scanner.doing = <<>> /\ q # <<>> /\ UNCHANGED <<machine, lists>>
      /\ scanner' = [scanner EXCEPT !.queue = Tail(@), !.doing = next]
  BY DEF Lists!Take
<1>2. q \in Seq(Requested) BY <1>0 DEF ListTypes
<1>3. /\ first \in Requested /\ Tail(q) \in Seq(Requested)
      /\ Lists!Range(q) = {first} \cup Lists!Range(Tail(q))
  BY <1>1, <1>2, RangeShrinks
<1>4. /\ next \in Doings /\ next # <<>>
      /\ Lists!Range(next) = IF first = "all" THEN Kinds ELSE {first}
  <2>1. first \in {"all", "processes", "services"} BY <1>3 DEF Requested, Kinds, Lists!Kinds
  <2> HIDE DEF first
  <2>2. Kinds = {"processes", "services"} BY DEF Kinds, Lists!Kinds
  <2> QED BY <2>1, <2>2, DoingsAre DEF Doings
<1> HIDE DEF next, first
<1>5. /\ scanner'.queue = Tail(q) /\ scanner'.doing = next /\ scanner'.read = scanner.read
      /\ scanner'.stored = scanner.stored
      /\ Has(scanner', {"queue", "doing", "read", "stored"})
  BY <1>0, <1>1 DEF ListTypes, Has
<1>6. ~Reading /\ ~scanner.stored BY <1>0, <1>1 DEF WorkerOrder
<1>7. ListTypes' BY <1>0, <1>1, <1>3, <1>4, <1>5 DEF ListTypes
<1>8. WorkerOrder' BY <1>4, <1>5, <1>6 DEF WorkerOrder, Reading
<1>9. ASSUME NEW k \in Kinds, Queued(k) PROVE Queued(k)' \/ Doing(k)'
  BY <1>3, <1>4, <1>5, <1>9 DEF Queued, Doing
<1>10. \A k \in Kinds : ~Doing(k)
  BY <1>1, DoingsAre DEF Doing
<1>11. PendingUnderWay' BY <1>0, <1>1, <1>9, <1>10 DEF PendingUnderWay
<1>12. RequestsServed'
  <2>1. \A k \in Kinds : lists[k].asked <= machine.version[k] BY <1>0 DEF RequestsServed
  <2>2. ASSUME NEW k \in Kinds, ~Queued(k)', ~(Doing(k)' /\ ~Reading')
        PROVE  ~Doing(k)' /\ lists[k].cached.version >= lists[k].asked
    <3>1. ~Reading' BY <1>5, <1>6 DEF Reading
    <3>2. ~Queued(k) BY <1>9, <2>2, <3>1
    <3>3. lists[k].cached.version >= lists[k].asked
      BY <1>0, <1>10, <3>2 DEF RequestsServed
    <3> QED BY <2>2, <3>1, <3>3
  <2> QED BY <1>1, <2>1, <2>2 DEF RequestsServed
<1> QED BY <1>7, <1>8, <1>11, <1>12 DEF ListsInv

(* What it reads is as new as the machine.                                 *)
LEMMA ListsRead ==
    ASSUME ListsInv, Lists!ReadProcesses \/ Lists!ReadServices PROVE ListsInv'
<1>0. ListTypes /\ WorkerOrder /\ PendingUnderWay /\ RequestsServed BY DEF ListsInv
<1>1. PICK read : /\ scanner' = [scanner EXCEPT !.read = read]
                  /\ Has(read, {"version", "tree", "groups"})
                  /\ read.version = machine.version[Head(scanner.doing)]
  <2>1. CASE Lists!ReadProcesses
    <3>1. PICK t, g : scanner' = [scanner EXCEPT !.read =
                         [version |-> machine.version["processes"], tree |-> t, groups |-> g]]
      BY <2>1 DEF Lists!ReadProcesses
    <3>2. Head(scanner.doing) = "processes" BY <2>1 DEF Lists!ReadProcesses
    <3> DEFINE r == [version |-> machine.version["processes"], tree |-> t, groups |-> g]
    <3>3. Has(r, {"version", "tree", "groups"}) /\ r.version = machine.version["processes"]
      BY ReadIsRecord
    <3> HIDE DEF r
    <3>4. scanner' = [scanner EXCEPT !.read = r] BY <3>1 DEF r
    <3> QED BY <3>2, <3>3, <3>4
  <2>2. CASE Lists!ReadServices
    <3>1. /\ scanner' = [scanner EXCEPT !.read =
                           [Lists!NoList EXCEPT !.version = machine.version["services"]]]
          /\ Head(scanner.doing) = "services"
      BY <2>2 DEF Lists!ReadServices
    <3> DEFINE r == [Lists!NoList EXCEPT !.version = machine.version["services"]]
    <3>2. Has(Lists!NoList, {"version", "tree", "groups"}) BY DEF Has, Lists!NoList
    <3>3. Has(r, {"version", "tree", "groups"}) /\ r.version = machine.version["services"]
      BY <3>2, VersionSet
    <3>4. scanner' = [scanner EXCEPT !.read = r] BY <3>1
    <3> HIDE DEF r
    <3> QED BY <3>1, <3>3, <3>4
  <2> QED BY <2>1, <2>2
<1>2. scanner.doing # <<>> /\ ~Reading /\ UNCHANGED <<machine, lists>>
  BY DEF Lists!ReadProcesses, Lists!ReadServices, Reading
<1>3. /\ scanner'.queue = scanner.queue /\ scanner'.doing = scanner.doing
      /\ scanner'.read = read /\ scanner'.stored = scanner.stored
      /\ Has(scanner', {"queue", "doing", "read", "stored"})
  BY <1>0, <1>1 DEF ListTypes, Has
<1> DEFINE of == Head(scanner.doing)
<1>4. of \in Kinds BY <1>0, <1>2, DoingsAre DEF ListTypes
<1>5. read.version \in Nat /\ read.version > 0 BY <1>0, <1>1, <1>4 DEF ListTypes
<1>6. ListTypes' BY <1>0, <1>1, <1>2, <1>3, <1>5 DEF ListTypes
<1>7. ~scanner.stored BY <1>0, <1>2 DEF WorkerOrder
<1>8. WorkerOrder' BY <1>2, <1>3, <1>7 DEF WorkerOrder
<1>9. \A k : (Queued(k)' <=> Queued(k)) /\ (Doing(k)' <=> Doing(k))
  BY <1>3 DEF Queued, Doing
<1>10. PendingUnderWay' BY <1>0, <1>2, <1>9 DEF PendingUnderWay
<1>11. RequestsServed'
  <2>1. ASSUME NEW k \in Kinds, ~Queued(k), ~(Doing(k) /\ k # of)
        PROVE  (IF Doing(k) /\ ~scanner'.stored THEN read.version ELSE lists[k].cached.version)
               >= lists[k].asked
    <3>1. CASE Doing(k)
      <4>1. k = of BY <2>1, <3>1
      <4>2. machine.version[k] >= lists[k].asked BY <1>0 DEF RequestsServed, ListTypes
      <4> QED BY <1>1, <1>3, <1>7, <3>1, <4>1, <4>2
    <3>2. CASE ~Doing(k) BY <1>0, <2>1, <3>2 DEF RequestsServed
    <3> QED BY <3>1, <3>2
  <2> QED BY <1>0, <1>2, <1>3, <1>9, <2>1 DEF RequestsServed
<1> QED BY <1>6, <1>8, <1>10, <1>11 DEF ListsInv

(* The list that was read is stored, and then its pending flag falls.      *)
LEMMA ListsStore == ASSUME ListsInv, Lists!Store PROVE ListsInv'
<1>0. ListTypes /\ WorkerOrder /\ PendingUnderWay /\ RequestsServed BY DEF ListsInv
<1> DEFINE of == Head(scanner.doing)
           rows == [scanner.read EXCEPT !.tree = Lists!NoList.tree]
<1>1. /\ Reading /\ ~scanner.stored /\ UNCHANGED machine
      /\ lists' = [lists EXCEPT ![of].cached = rows, ![of].dirty = FALSE]
      /\ scanner' = [scanner EXCEPT !.stored = TRUE]
  BY DEF Lists!Store, Reading
<1>2. rows.version = scanner.read.version /\ scanner.read.version \in Nat
  BY <1>0 DEF ListTypes, Has
<1>3. of \in Kinds BY <1>0, <1>1, DoingsAre DEF ListTypes, WorkerOrder
<1> HIDE DEF rows, of
<1>4. /\ scanner'.queue = scanner.queue /\ scanner'.doing = scanner.doing
      /\ scanner'.read = scanner.read /\ scanner'.stored = TRUE
      /\ Has(scanner', {"queue", "doing", "read", "stored"})
  BY <1>0, <1>1 DEF ListTypes, Has
<1>5. /\ \A k \in Kinds : k # of => lists'[k] = lists[k]
      /\ lists'[of] = [[lists[of] EXCEPT !.cached = rows] EXCEPT !.dirty = FALSE]
      /\ lists' = [k \in Kinds |-> lists'[k]]
  BY <1>0, <1>1, <1>3 DEF ListTypes
<1>6. /\ Has(lists'[of], {"cached", "dirty", "pending", "asked"})
      /\ lists'[of].cached = rows /\ lists'[of].asked = lists[of].asked
      /\ lists'[of].pending = lists[of].pending
  BY <1>0, <1>3, <1>5 DEF ListTypes, Has
<1>7. ListTypes'
  <2>1. \A k \in Kinds : /\ Has(lists'[k], {"cached", "dirty", "pending", "asked"})
                        /\ lists'[k].asked \in Nat /\ lists'[k].cached.version \in Nat
    BY <1>0, <1>2, <1>5, <1>6 DEF ListTypes
  <2> QED BY <1>0, <1>1, <1>4, <1>5, <2>1 DEF ListTypes
<1>8. \A k : (Queued(k)' <=> Queued(k)) /\ (Doing(k)' <=> Doing(k)) /\ (Reading' <=> Reading)
  BY <1>4 DEF Queued, Doing, Reading
<1>9. WorkerOrder' BY <1>0, <1>1, <1>4, <1>8 DEF WorkerOrder
<1>10. PendingUnderWay' BY <1>0, <1>5, <1>6, <1>8 DEF PendingUnderWay
<1>11. RequestsServed'
  <2>1. ASSUME NEW k \in Kinds, ~Queued(k), ~(Doing(k) /\ k # of)
        PROVE  lists'[k].cached.version >= lists'[k].asked
    <3>1. CASE k = of
      <4>1. Doing(of) BY <1>0, <1>1, DoingsAre DEF ListTypes, WorkerOrder, Doing, of
      <4>2. scanner.read.version >= lists[of].asked
        BY <1>0, <1>1, <2>1, <3>1, <4>1 DEF RequestsServed, of
      <4> QED BY <1>2, <1>6, <3>1, <4>2
    <3>2. CASE k # of
      <4>1. ~Doing(k) BY <2>1, <3>2
      <4> QED BY <1>0, <1>5, <2>1, <3>2, <4>1 DEF RequestsServed
    <3> QED BY <3>1, <3>2
  <2>2. \A k \in Kinds : lists'[k].asked <= machine'.version[k]
    BY <1>0, <1>1, <1>5, <1>6 DEF RequestsServed
  <2>3. Head(scanner'.doing) = of /\ (Reading' <=> Reading) BY <1>4 DEF Reading, of
  <2>4. scanner'.stored /\ Reading' BY <1>1, <1>4, <2>3
  <2>5. ASSUME NEW k \in Kinds, ~Queued(k)', ~(Doing(k)' /\ (k # Head(scanner'.doing) \/ ~Reading'))
        PROVE  lists'[k].cached.version >= lists'[k].asked
    BY <1>8, <2>1, <2>3, <2>4, <2>5
  <2> HIDE DEF of
  <2> QED BY <2>2, <2>4, <2>5 DEF RequestsServed
<1> QED BY <1>7, <1>9, <1>10, <1>11 DEF ListsInv

\* The pending flag falls: the next request is accepted, none is lost before it.
LEMMA ListsRelease == ASSUME ListsInv, Lists!Release PROVE ListsInv'
<1>0. ListTypes /\ WorkerOrder /\ PendingUnderWay /\ RequestsServed BY DEF ListsInv
<1> DEFINE d == scanner.doing
           of == Head(d)
<1>1. /\ scanner.stored /\ UNCHANGED machine
      /\ lists' = [lists EXCEPT ![of] = [@ EXCEPT !.pending = FALSE]]
      /\ scanner' = [scanner EXCEPT !.doing = Tail(@), !.read = Lists!NoList, !.stored = FALSE]
  BY DEF Lists!Release, Lists!Released
<1>2. /\ d \in Doings /\ d # <<>> /\ of \in Kinds /\ Tail(d) \in Doings
      /\ of \in Lists!Range(d) /\ Lists!Range(Tail(d)) = Lists!Range(d) \ {of}
  BY <1>0, <1>1, DoingsAre DEF ListTypes, WorkerOrder
<1>3. /\ scanner'.queue = scanner.queue /\ scanner'.doing = Tail(d)
      /\ scanner'.read = Lists!NoList /\ scanner'.stored = FALSE
      /\ Has(scanner', {"queue", "doing", "read", "stored"})
  BY <1>0, <1>1 DEF ListTypes, Has
<1> HIDE DEF d, of
<1>4. /\ \A k \in Kinds : k # of => lists'[k] = lists[k]
      /\ lists'[of] = [lists[of] EXCEPT !.pending = FALSE]
      /\ lists' = [k \in Kinds |-> lists'[k]]
  BY <1>0, <1>1, <1>2 DEF ListTypes
<1>5. /\ Has(lists'[of], {"cached", "dirty", "pending", "asked"})
      /\ lists'[of].cached = lists[of].cached /\ lists'[of].asked = lists[of].asked
      /\ lists'[of].pending = FALSE
  BY <1>0, <1>2, <1>4 DEF ListTypes, Has
<1>6. ListTypes'
  <2>1. \A k \in Kinds : /\ Has(lists'[k], {"cached", "dirty", "pending", "asked"})
                        /\ lists'[k].asked \in Nat /\ lists'[k].cached.version \in Nat
    BY <1>0, <1>4, <1>5 DEF ListTypes
  <2>2. Has(Lists!NoList, {"version", "tree", "groups"}) /\ Lists!NoList.version \in Nat
    BY DEF Has, Lists!NoList
  <2> QED BY <1>0, <1>1, <1>2, <1>3, <1>4, <2>1, <2>2 DEF ListTypes
<1>7. ~Reading' BY <1>3 DEF Reading
<1>8. WorkerOrder' BY <1>3, <1>7 DEF WorkerOrder
<1>9. \A k : (Queued(k)' <=> Queued(k)) /\ (Doing(k)' <=> Doing(k) /\ k # of)
  BY <1>2, <1>3 DEF Queued, Doing, d
<1>10. PendingUnderWay' BY <1>0, <1>4, <1>5, <1>9 DEF PendingUnderWay
<1>11. RequestsServed'
  <2>1. ASSUME NEW k \in Kinds, ~Queued(k), ~Doing(k) \/ k = of
        PROVE  lists'[k].cached.version >= lists'[k].asked
    <3>1. Reading BY <1>0, <1>1 DEF WorkerOrder
    <3>2. lists[k].cached.version >= lists[k].asked
      BY <1>0, <1>1, <2>1, <3>1 DEF RequestsServed, of, d
    <3> QED BY <1>4, <1>5, <3>2
  <2>2. \A k \in Kinds : lists'[k].asked <= machine'.version[k]
    BY <1>0, <1>1, <1>4, <1>5 DEF RequestsServed
  <2> QED BY <1>7, <1>9, <2>1, <2>2 DEF RequestsServed
<1> QED BY <1>6, <1>8, <1>10, <1>11 DEF ListsInv

\* The data the lists are made of only become newer.
MachineAges ==
    /\ Has(machine', {"tree", "version", "signals", "steps"})
    /\ machine'.version \in [Kinds -> Nat]
    /\ \A k \in Kinds : machine'.version[k] >= machine.version[k]

(* A step that changes what a list is made of, or that changes nothing.    *)
LEMMA Ages ==
    ASSUME ListTypes, Has(machine', {"tree", "version", "signals", "steps"}),
           machine'.version = machine.version
           \/ \E k \in Kinds : machine'.version = Lists!Changed(k)
    PROVE  MachineAges
<1>1. CASE machine'.version = machine.version BY <1>1 DEF ListTypes, MachineAges
<1>2. ASSUME NEW k \in Kinds, machine'.version = Lists!Changed(k) PROVE MachineAges
  <2>1. machine'.version = [machine.version EXCEPT ![k] = @ + 1] BY <1>2 DEF Lists!Changed
  <2>2. machine.version \in [Kinds -> Nat] BY DEF ListTypes
  <2>3. machine'.version \in [Kinds -> Nat] BY <2>1, <2>2
  <2>4. \A l \in Kinds : machine'.version[l] >= machine.version[l] BY <2>1, <2>2
  <2> QED BY <2>3, <2>4 DEF MachineAges
<1> QED BY <1>1, <1>2

(* A request is queued, or dropped because one is pending.                 *)
LEMMA ListsTrigger ==
    ASSUME ListsInv, NEW ks \in SUBSET Kinds, NEW ds \in SUBSET Kinds, Lists!Trigger(ks, ds), MachineAges
    PROVE  ListsInv'
<1>0. ListTypes /\ WorkerOrder /\ PendingUnderWay /\ RequestsServed BY DEF ListsInv
<1>15. /\ Has(machine', {"tree", "version", "signals", "steps"})
       /\ machine'.version \in [Kinds -> Nat]
       /\ \A k \in Kinds : machine'.version[k] >= machine.version[k]
  BY DEF MachineAges
<1> DEFINE accepted == {k \in Kinds : Lists!Accepts(ks, k)}
           posts(k) == Lists!Posted(ks, k)
           q == scanner.queue \o posts("processes") \o posts("services")
<1>1. /\ lists' = [k \in Kinds |-> Lists!Asked(ks, ds, k)]
      /\ scanner' = [scanner EXCEPT !.queue = q]
  BY DEF Lists!Trigger, Kinds
<1>2. Kinds = {"processes", "services"} BY DEF Kinds, Lists!Kinds
<1>3. ASSUME NEW k \in Kinds
      PROVE  posts(k) \in Seq(Requested) /\ Lists!Range(posts(k)) = accepted \cap {k}
  <2>1. CASE Lists!Accepts(ks, k)
    <3>1. posts(k) = <<k>> /\ k \in Requested BY <2>1 DEF Lists!Posted, Requested
    <3>2. Lists!Range(<<k>>) = {k} BY DEF Lists!Range
    <3> QED BY <2>1, <3>1, <3>2
  <2>2. CASE ~Lists!Accepts(ks, k)
    <3>1. posts(k) = <<>> BY <2>2 DEF Lists!Posted
    <3> QED BY <2>2, <3>1, DoingsAre
  <2> QED BY <2>1, <2>2
<1> HIDE DEF posts
<1>4. q \in Seq(Requested) /\ Lists!Range(q) = Lists!Range(scanner.queue) \cup accepted
  <2>1. scanner.queue \in Seq(Requested) BY <1>0 DEF ListTypes
  <2>2. "processes" \in Kinds /\ "services" \in Kinds BY <1>2
  <2> HIDE DEF accepted
  <2>3. /\ scanner.queue \o posts("processes") \in Seq(Requested)
        /\ Lists!Range(scanner.queue \o posts("processes")) =
              Lists!Range(scanner.queue) \cup (accepted \cap {"processes"})
    BY <1>3, <2>1, <2>2, RangeGrows
  <2> DEFINE a == scanner.queue \o posts("processes")
  <2>6. q = a \o posts("services") OBVIOUS
  <2>7. /\ a \in Seq(Requested)
        /\ Lists!Range(a) = Lists!Range(scanner.queue) \cup (accepted \cap {"processes"})
    BY <2>3
  <2> HIDE DEF a, q
  <2>4. /\ q \in Seq(Requested)
        /\ Lists!Range(q) = (Lists!Range(scanner.queue) \cup (accepted \cap {"processes"}))
                              \cup (accepted \cap {"services"})
    BY <1>3, <2>2, <2>6, <2>7, RangeGrows
  <2>5. accepted \subseteq {"processes", "services"} BY <1>2 DEF accepted
  <2> QED BY <2>4, <2>5
<1>5. ASSUME NEW k \in Kinds
      PROVE  LET new == Lists!Asked(ks, ds, k)
             IN /\ Has(new, {"cached", "dirty", "pending", "asked"})
                /\ new.cached = lists[k].cached
                /\ new.pending => lists[k].pending \/ k \in accepted
                /\ new.asked = IF k \in accepted THEN machine.version[k] ELSE lists[k].asked
  <2> DEFINE dirty == lists[k].dirty \/ k \in ds
             pending == lists[k].pending \/ Lists!Accepts(ks, k)
             asked == IF Lists!Accepts(ks, k) THEN machine.version[k] ELSE lists[k].asked
  <2>1. Has(lists[k], {"cached", "dirty", "pending", "asked"}) BY <1>0 DEF ListTypes
  <2>2. /\ pending => lists[k].pending \/ k \in accepted
        /\ asked = IF k \in accepted THEN machine.version[k] ELSE lists[k].asked
    OBVIOUS
  <2>3. Lists!Asked(ks, ds, k) = [[[lists[k] EXCEPT !.dirty = dirty] EXCEPT !.pending = pending]
                                  EXCEPT !.asked = asked]
    BY Zenon DEF Lists!Asked
  <2> HIDE DEF accepted, dirty, pending, asked
  <2> QED BY <2>1, <2>2, <2>3 DEF Has
<1>6. \A k \in Kinds : lists'[k] = Lists!Asked(ks, ds, k) BY <1>1
<1>7. lists' = [k \in Kinds |-> lists'[k]] BY <1>1
<1> HIDE DEF q, accepted
<1>8. /\ scanner'.queue = q /\ scanner'.doing = scanner.doing
      /\ scanner'.read = scanner.read /\ scanner'.stored = scanner.stored
      /\ Has(scanner', {"queue", "doing", "read", "stored"})
  BY <1>0, <1>1 DEF ListTypes, Has
<1>9. ListTypes'
  <2>1. \A k \in Kinds : /\ Has(lists'[k], {"cached", "dirty", "pending", "asked"})
                        /\ lists'[k].asked \in Nat /\ lists'[k].cached.version \in Nat
    BY <1>0, <1>5, <1>6 DEF ListTypes
  <2>2. \A k \in Kinds : machine'.version[k] > 0 BY <1>0, <1>15 DEF ListTypes
  <2> QED BY <1>0, <1>4, <1>7, <1>8, <1>15, <2>1, <2>2 DEF ListTypes
<1>10. \A k \in Kinds : /\ Queued(k)' <=> Queued(k) \/ k \in accepted
                        /\ Doing(k)' <=> Doing(k)
  <2>1. "all" \notin accepted BY <1>2 DEF accepted
  <2> QED BY <1>4, <1>8, <2>1 DEF Queued, Doing
<1>11. Reading' <=> Reading BY <1>8 DEF Reading
<1>12. WorkerOrder' BY <1>0, <1>8, <1>11 DEF WorkerOrder
<1>13. PendingUnderWay' BY <1>0, <1>5, <1>6, <1>10 DEF PendingUnderWay
<1>14. RequestsServed'
  <2>1. ASSUME NEW k \in Kinds PROVE lists'[k].asked <= machine'.version[k]
    <3>1. lists[k].asked <= machine.version[k] BY <1>0 DEF RequestsServed
    <3>2. /\ lists[k].asked \in Nat /\ machine.version[k] \in Nat
          /\ machine'.version[k] \in Nat
      BY <1>0, <1>15 DEF ListTypes
    <3> QED BY <1>5, <1>6, <1>15, <3>1, <3>2
  <2>2. ASSUME NEW k \in Kinds, k \notin accepted
        PROVE  lists'[k].cached = lists[k].cached /\ lists'[k].asked = lists[k].asked
    BY <1>5, <1>6, <2>2
  <2> QED BY <1>0, <1>8, <1>10, <1>11, <2>1, <2>2 DEF RequestsServed
<1> QED BY <1>9, <1>12, <1>13, <1>14 DEF ListsInv

(* The machine gets on: what is asked for was there before.                *)
LEMMA ListsMachine ==
    ASSUME ListsInv, UNCHANGED <<scanner, lists>>, MachineAges
    PROVE  ListsInv'
<1>0. ListTypes /\ WorkerOrder /\ PendingUnderWay /\ RequestsServed BY DEF ListsInv
<1>1. /\ \A k : (Queued(k)' <=> Queued(k)) /\ (Doing(k)' <=> Doing(k))
      /\ Reading' <=> Reading
  BY DEF Queued, Doing, Reading
<1>2. ListTypes'
  <2>1. \A k \in Kinds : machine'.version[k] > 0 BY <1>0 DEF ListTypes, MachineAges
  <2> QED BY <1>0, <2>1 DEF ListTypes, MachineAges
<1>3. \A k \in Kinds : lists'[k].asked <= machine'.version[k]
  BY <1>0 DEF ListTypes, RequestsServed, MachineAges
<1> QED BY <1>0, <1>1, <1>2, <1>3 DEF ListsInv, WorkerOrder, PendingUnderWay, RequestsServed

(* Every step keeps the invariant.                                         *)
LEMMA ListsStep == ASSUME ListsInv, Lists!Next PROVE ListsInv'
<1>0. ListTypes /\ Has(machine, {"tree", "version", "signals", "steps"})
  BY DEF ListsInv, ListTypes
<1>1. CASE Lists!Worker
  BY <1>1, ListsTake, ListsRead, ListsStore, ListsRelease DEF Lists!Worker
<1>2. UNCHANGED machine => MachineAges BY <1>0, Ages
<1>3. "processes" \in Kinds /\ "services" \in Kinds BY DEF Kinds, Lists!Kinds
<1>4. CASE Lists!Search
  <2>1. PICK old \in SUBSET Kinds : Lists!Trigger({k \in Kinds : lists[k].dirty \/ k \in old}, {})
    BY <1>4 DEF Lists!Search, Kinds
  <2>2. UNCHANGED machine BY <1>4 DEF Lists!Search
  <2> QED BY <1>2, <2>1, <2>2, ListsTrigger
<1>5. CASE Lists!OnSystemdUnitsChanged
  <2>1. /\ machine' = [machine EXCEPT !.signals = @ - 1]
        /\ Lists!Trigger({"services"}, {"services"})
    BY <1>5 DEF Lists!OnSystemdUnitsChanged
  <2>2. /\ Has(machine', {"tree", "version", "signals", "steps"})
        /\ machine'.version = machine.version
    BY <1>0, <2>1 DEF Has
  <2> QED BY <1>0, <1>3, <2>1, <2>2, Ages, ListsTrigger
<1>6. CASE Lists!SendSignal
  <2>1. Lists!Trigger(Kinds, Kinds) BY <1>6 DEF Lists!SendSignal, Kinds
  <2>2. MachineAges
    <3>1. CASE UNCHANGED machine BY <1>2, <3>1
    <3>2. CASE ~UNCHANGED machine
      <4>1. PICK t : machine' = [machine EXCEPT !.tree = t, !.version = Lists!Changed("processes"),
                                                !.steps = @ + 1]
        <5>1. PICK g \in lists["processes"].cached.groups :
                 machine' = [machine EXCEPT !.tree = Lists!Exited(@, Lists!Tree(@, g.pid)),
                                    !.version = Lists!Changed("processes"), !.steps = @ + 1]
          BY <1>6, <3>2, Zenon DEF Lists!SendSignal
        <5> DEFINE t == Lists!Exited(machine.tree, Lists!Tree(machine.tree, g.pid))
        <5>2. machine' = [machine EXCEPT !.tree = t, !.version = Lists!Changed("processes"),
                                         !.steps = @ + 1]
          BY <5>1, Zenon
        <5> QED BY <5>2, Zenon
      <4>2. /\ Has(machine', {"tree", "version", "signals", "steps"})
            /\ machine'.version = Lists!Changed("processes")
        BY <1>0, <4>1 DEF Has
      <4> QED BY <1>0, <1>3, <4>2, Ages
    <3> QED BY <3>1, <3>2
  <2> QED BY <2>1, <2>2, ListsTrigger
<1>7. CASE Lists!ControlService
  BY <1>2, <1>7, ListsTrigger DEF Lists!ControlService, Kinds
<1>8. CASE Lists!ControlAnswered \/ Lists!UnitChanges
  <2>1. UNCHANGED <<scanner, lists>> BY <1>8 DEF Lists!ControlAnswered, Lists!UnitChanges
  <2>2. CASE UNCHANGED machine BY <1>2, <2>1, <2>2, ListsMachine
  <2>3. CASE ~UNCHANGED machine
    <3>1. machine' = [machine EXCEPT !.version = Lists!Changed("services"), !.signals = @ + 1,
                                     !.steps = @ + 1]
      BY <1>8, <2>3 DEF Lists!ControlAnswered, Lists!UnitChanges
    <3>2. /\ Has(machine', {"tree", "version", "signals", "steps"})
          /\ machine'.version = Lists!Changed("services")
      BY <1>0, <3>1 DEF Has
    <3> QED BY <1>0, <1>3, <2>1, <3>2, Ages, ListsMachine
  <2> QED BY <2>2, <2>3
<1>9. CASE Lists!Fork \/ Lists!Exit
  <2>1. UNCHANGED <<scanner, lists>>
    <3>1. CASE Lists!Fork BY <3>1, Zenon DEF Lists!Fork
    <3>2. CASE Lists!Exit BY <3>2, Zenon DEF Lists!Exit
    <3> QED BY <1>9, <3>1, <3>2
  <2>2. CASE Lists!Fork
    <3>1. PICK p, c :
             machine' = [machine EXCEPT !.tree[c] = [parent |-> p, shell |-> FALSE, stopped |-> FALSE],
                                        !.version = Lists!Changed("processes"), !.steps = @ + 1]
      BY <2>2, Zenon DEF Lists!Fork
    <3>2. /\ Has(machine', {"tree", "version", "signals", "steps"})
          /\ machine'.version = Lists!Changed("processes")
      BY <1>0, <3>1 DEF Has
    <3> QED BY <1>0, <1>3, <2>1, <3>2, Ages, ListsMachine
  <2>3. CASE Lists!Exit
    <3>1. PICK p : machine' = [machine EXCEPT !.tree = Lists!Exited(@, {p}),
                                        !.version = Lists!Changed("processes"), !.steps = @ + 1]
      BY <2>3, Zenon DEF Lists!Exit
    <3>2. /\ Has(machine', {"tree", "version", "signals", "steps"})
          /\ machine'.version = Lists!Changed("processes")
      BY <1>0, <3>1 DEF Has
    <3> QED BY <1>0, <1>3, <2>1, <3>2, Ages, ListsMachine
  <2> QED BY <1>9, <2>2, <2>3
<1> QED BY <1>1, <1>4, <1>5, <1>6, <1>7, <1>8, <1>9 DEF Lists!Next, Lists!User

(* Every reachable state satisfies the invariant of the lists.             *)
LEMMA ListsAlways == Spec => []ListsInv
<1>1. Init => ListsInv BY ListsInit DEF Init
<1>2. ListsInv /\ [Next]_vars => ListsInv'
  <2> SUFFICES ASSUME ListsInv, [Next]_vars PROVE ListsInv'
    OBVIOUS
  <2>1. CASE UNCHANGED listVars
    <3>1. MachineAges
      <4>1. /\ Has(machine, {"tree", "version", "signals", "steps"}) /\ UNCHANGED machine
            /\ ListTypes
        BY <2>1 DEF listVars, ListsInv, ListTypes
      <4> QED BY <4>1, Ages
    <3> QED BY <2>1, <3>1, ListsMachine DEF listVars
  <2>2. Lists!Next \/ UNCHANGED listVars
    BY DEF Next, vars, OnlyLists, OnlyTree, OnlyTop, OnlyPrivacy, OnlyJobs, OnlyWindows,
           OnlyPower, listVars
  <2> QED BY <2>1, <2>2, ListsStep
<1> QED BY <1>1, <1>2, PTL DEF Spec

(* RefreshServed holds for any number of commands, searches and changes of *)
(* the machine: no request for a list is lost to a pending flag, and once  *)
(* none is under way the list is as new as the last one accepted           *)
(* (ProcessManager.cpp).                                                   *)
THEOREM RefreshesServed == Spec => []Lists!RefreshServed
<1>1. ListsInv => Lists!RefreshServed
  <2> SUFFICES ASSUME ListsInv, NEW k \in Kinds, ~Lists!UnderWay(k)
               PROVE  ~lists[k].pending /\ lists[k].cached.version >= lists[k].asked
    BY DEF Lists!RefreshServed, Kinds
  <2>1. ~Queued(k) /\ ~Doing(k) BY DEF Lists!UnderWay, Queued, Doing
  <2> QED BY <2>1 DEF ListsInv, PendingUnderWay, RequestsServed
<1> QED BY <1>1, ListsAlways, PTL

-----------------------------------------------------------------------------
(* The rows of the processes (ProcessManager).                             *)

Processes == [parent : Pids \cup {0, 1}, shell : BOOLEAN, stopped : BOOLEAN]

\* A tree of processes as it is read: what lives descends from something else.
Climbable(t) ==
    /\ t \in [Pids -> Processes]
    /\ \E N \in Nat : \E depth \in [Pids -> 0 .. N] :
          \A p \in Lists!Alive(t) :
             t[p].parent \in Lists!Alive(t) => depth[t[p].parent] < depth[p]

Ends(t, p) == t[p].parent <= 1 \/ Lists!Stops(t, p)

\* top is where the climb from each process ends, and root the row it is in.
TopsOf(t, top) ==
    /\ top \in [Lists!Alive(t) -> Lists!Alive(t)]
    /\ \A p \in Lists!Alive(t) : top[p] = IF Ends(t, p) THEN p ELSE top[t[p].parent]
RootIn(t, top, p) == IF t[p].shell THEN p ELSE top[p]

(* What lives is a process.                                                *)
LEMMA AliveAt ==
    ASSUME NEW t, Climbable(t)
    PROVE  /\ Lists!Alive(t) \in SUBSET Pids /\ Lists!Alive(t) \in SUBSET Nat
           /\ IsFiniteSet(Lists!Alive(t))
           /\ \A p \in Lists!Alive(t) : t[p] \in Processes /\ t[p].parent \in Nat
<1>1. Lists!Alive(t) \in SUBSET Pids BY DEF Climbable, Lists!Alive
<1>2. Pids \in SUBSET Nat /\ IsFiniteSet(Pids) BY ForestsAssumption
<1>3. IsFiniteSet(Lists!Alive(t)) BY <1>1, <1>2, FS_Subset
<1>4. \A p \in Lists!Alive(t) : t[p] \in Processes BY <1>1 DEF Climbable
<1>5. \A r \in Processes : r.parent \in Nat
  <2>1. \A p \in Pids \cup {0, 1} : p \in Nat BY <1>2
  <2> QED BY <2>1 DEF Processes
<1> QED BY <1>1, <1>2, <1>3, <1>4, <1>5

(* A climb that does not end at a process goes on from its parent.         *)
LEMMA ClimbsOn ==
    ASSUME NEW t, Climbable(t), NEW p \in Lists!Alive(t), ~Ends(t, p)
    PROVE  t[p].parent \in Lists!Alive(t) /\ ~t[t[p].parent].shell
  BY DEF Ends, Lists!Stops

(* Every process has one topmost ancestor.                                 *)
LEMMA TopsExist ==
    ASSUME NEW t, Climbable(t)
    PROVE  \E top : /\ TopsOf(t, top)
                    /\ \A p \in Lists!Alive(t) : Lists!TopAncestor(t, p) = RootIn(t, top, p)
<1> DEFINE A == Lists!Alive(t)
           B == {q \in A : Ends(t, q)}
           base == [q \in B |-> q]
           next == [q \in A \ B |-> t[q].parent]
           step == [x \in A \X A |-> x[2]]
           U == CHOOSE up : up = [q \in A |-> IF t[q].parent <= Lists!Init1 \/ Lists!Stops(t, q) THEN q
                                              ELSE up[t[q].parent]]
<1>0. PICK N \in Nat : \E depth \in [Pids -> 0 .. N] :
         \A p \in A : t[p].parent \in A => depth[t[p].parent] < depth[p]
  BY DEF Climbable
<1>1. PICK depth \in [Pids -> 0 .. N] :
         \A p \in A : t[p].parent \in A => depth[t[p].parent] < depth[p]
  BY <1>0
<1> DEFINE rank == [q \in A |-> depth[q]]
<1>2. A \in SUBSET Pids BY AliveAt
<1>3. \A q \in A \ B : t[q].parent \in A BY ClimbsOn
<1>4. /\ rank \in [A -> 0 .. N] /\ B \in SUBSET A /\ base \in [B -> A] /\ next \in [A \ B -> A]
      /\ step \in [A \X A -> A]
  BY <1>1, <1>2, <1>3
<1>5. \A d \in A \ B : rank[next[d]] < rank[d]
  BY <1>1, <1>3
<1>6. /\ \A q \in B : base[q] = q
      /\ \A q \in A \ B : next[q] = t[q].parent
      /\ \A q, v \in A : step[<<q, v>>] = v
  OBVIOUS
<1> HIDE DEF rank, base, next, step, B
<1>7. Recursive(A, A, B, base, next, step)
  <2> HIDE DEF A
  <2> QED BY <1>4, <1>5 DEF Recursive
<1>8. PICK g : Solution(g, A, A, B, base, next, step) BY <1>7, Recursion
<1>9. /\ g \in [A -> A]
      /\ \A d \in A : g[d] = IF d \in B THEN base[d] ELSE step[<<d, g[next[d]]>>]
      /\ \A f : (/\ f = [d \in A |-> f[d]]
                 /\ \A d \in B : f[d] = base[d]
                 /\ \A d \in A \ B : f[next[d]] \in A => f[d] = step[<<d, f[next[d]]>>])
                => f = g
  BY <1>8 DEF Solution
<1>10. \A q \in A : q \in B <=> Ends(t, q) BY DEF B
<1>11. \A q \in A : g[q] = IF Ends(t, q) THEN q ELSE g[t[q].parent]
  <2> HIDE DEF A
  <2>1. ASSUME NEW q \in A, q \in B PROVE g[q] = q BY <1>6, <1>9, <2>1
  <2>2. ASSUME NEW q \in A, q \notin B PROVE g[q] = g[t[q].parent]
    <3>1. next[q] = t[q].parent /\ t[q].parent \in A BY <1>3, <1>6, <2>2
    <3>2. g[q] = step[<<q, g[t[q].parent]>>] /\ g[t[q].parent] \in A BY <1>9, <2>2, <3>1
    <3> QED BY <1>6, <3>2
  <2> QED BY <1>10, <2>1, <2>2
<1>12. \A q : Ends(t, q) <=> t[q].parent <= Lists!Init1 \/ Lists!Stops(t, q)
  BY DEF Ends, Lists!Init1
<1>13. U = g
  <2> DEFINE F(up) == [q \in A |-> IF t[q].parent <= Lists!Init1 \/ Lists!Stops(t, q) THEN q
                                   ELSE up[t[q].parent]]
  <2>1. g = F(g)
    <3>1. g = [q \in A |-> g[q]] BY <1>9
    <3>2. \A q \in A : g[q] = IF t[q].parent <= Lists!Init1 \/ Lists!Stops(t, q) THEN q
                              ELSE g[t[q].parent]
      BY <1>11, <1>12
    <3> HIDE DEF A
    <3> QED BY <3>1, <3>2
  <2>2. ASSUME NEW f, f = F(f) PROVE f = g
    <3>1. \A q \in A : f[q] = IF Ends(t, q) THEN q ELSE f[t[q].parent]
      <4> HIDE DEF A
      <4>1. \A q \in A : f[q] = IF t[q].parent <= Lists!Init1 \/ Lists!Stops(t, q) THEN q
                                ELSE f[t[q].parent]
        BY <2>2, Zenon
      <4> QED BY <1>12, <4>1
    <3>2. f = [q \in A |-> f[q]] BY <2>2, <3>1, Zenon
    <3>3. \A d \in B : f[d] = base[d] BY <1>4, <1>6, <1>10, <3>1
    <3>4. \A d \in A \ B : f[next[d]] \in A => f[d] = step[<<d, f[next[d]]>>] BY <1>6, <1>10, <3>1
    <3> QED BY <1>9, <3>2, <3>3, <3>4
  <2>3. U = CHOOSE up : up = F(up) OBVIOUS
  <2> HIDE DEF F, U
  <2> QED BY <2>1, <2>2, <2>3
<1>14. \A p : Lists!TopAncestor(t, p) = IF t[p].shell THEN p ELSE U[p] BY DEF Lists!TopAncestor
<1> HIDE DEF U
<1>15. TopsOf(t, g) BY <1>9, <1>11 DEF TopsOf
<1>16. \A p \in A : Lists!TopAncestor(t, p) = RootIn(t, g, p) BY <1>13, <1>14 DEF RootIn
<1> QED BY <1>15, <1>16

(* What passes from a process's parent to it holds of all.                 *)
LEMMA ClimbInduction ==
    ASSUME NEW t, Climbable(t), NEW P,
           \A p \in Lists!Alive(t) : (~Ends(t, p) => t[p].parent \in P) => p \in P
    PROVE  \A p \in Lists!Alive(t) : p \in P
<1> DEFINE A == Lists!Alive(t)
<1>0. PICK N \in Nat : \E depth \in [Pids -> 0 .. N] :
         \A p \in A : t[p].parent \in A => depth[t[p].parent] < depth[p]
  BY DEF Climbable
<1>1. PICK depth \in [Pids -> 0 .. N] :
         \A p \in A : t[p].parent \in A => depth[t[p].parent] < depth[p]
  BY <1>0
<1>2. \A p \in A : depth[p] \in Nat BY AliveAt
<1> DEFINE T == {depth[p] : p \in {q \in A : q \notin P}}
<1>3. ASSUME T # {} PROVE FALSE
  <2>1. T \in SUBSET Nat BY <1>2
  <2>2. PICK m \in T : \A k \in T : m <= k
    <3> HIDE DEF T
    <3> QED BY <1>3, <2>1, LeastNat
  <2>3. PICK p \in A : p \notin P /\ depth[p] = m BY <2>2
  <2>4. ~Ends(t, p) /\ t[p].parent \notin P BY <2>3
  <2>5. t[p].parent \in A BY <2>4, ClimbsOn
  <2>6. depth[t[p].parent] \in T BY <2>4, <2>5
  <2>7. depth[t[p].parent] < depth[p] BY <1>1, <2>5
  <2>8. m <= depth[t[p].parent] /\ depth[t[p].parent] \in Nat /\ depth[p] \in Nat
    BY <1>2, <2>2, <2>5, <2>6
  <2> QED BY <2>3, <2>7, <2>8
<1> QED BY <1>3

\* What getRootFast remembers is right.
Remembers(t, top, memo) ==
    /\ DOMAIN memo \in SUBSET Lists!Alive(t)
    /\ memo = [q \in DOMAIN memo |-> memo[q]]
    /\ \A q \in DOMAIN memo : memo[q] = RootIn(t, top, q)

(* A climb ends at the topmost ancestor; no process passed but the first is *)
(* a shell, and each has the same topmost ancestor.                        *)
LEMMA WaysLead ==
    ASSUME NEW t, Climbable(t), NEW top, TopsOf(t, top), NEW memo, Remembers(t, top, memo),
           NEW p \in Lists!Alive(t)
    PROVE  /\ Lists!Ways(t, memo)[p][1] = top[p] /\ p \in Lists!Ways(t, memo)[p][2]
           /\ Lists!Ways(t, memo)[p][2] \in SUBSET Lists!Alive(t)
           /\ \A q \in Lists!Ways(t, memo)[p][2] : top[q] = top[p] /\ (q # p => ~t[q].shell)
<1> DEFINE A == Lists!Alive(t)
           M == DOMAIN memo
           V == A \X SUBSET A
           B == {q \in A : Ends(t, q) \/ t[q].parent \in M}
           base == [q \in B |-> IF Ends(t, q) THEN <<q, {q}>> ELSE <<memo[t[q].parent], {q}>>]
           next == [q \in A \ B |-> t[q].parent]
           step == [x \in A \X V |-> <<x[2][1], x[2][2] \cup {x[1]}>>]
           F(up) == [q \in A |-> IF t[q].parent <= Lists!Init1 \/ Lists!Stops(t, q) THEN <<q, {q}>>
                                 ELSE IF t[q].parent \in DOMAIN memo THEN <<memo[t[q].parent], {q}>>
                                 ELSE <<up[t[q].parent][1], up[t[q].parent][2] \cup {q}>>]
           U == CHOOSE up : up = F(up)
<1>0. PICK N \in Nat : \E depth \in [Pids -> 0 .. N] :
         \A q \in A : t[q].parent \in A => depth[t[q].parent] < depth[q]
  BY DEF Climbable
<1>1. PICK depth \in [Pids -> 0 .. N] :
         \A q \in A : t[q].parent \in A => depth[t[q].parent] < depth[q]
  BY <1>0
<1> DEFINE rank == [q \in A |-> depth[q]]
<1>2. A \in SUBSET Pids BY AliveAt
<1>3. \A q \in A : ~Ends(t, q) => t[q].parent \in A /\ ~t[t[q].parent].shell BY ClimbsOn
<1>4. \A q \in M : q \in A /\ memo[q] \in A /\ (~t[q].shell => memo[q] = top[q])
  BY DEF Remembers, RootIn, TopsOf
<1>5. /\ top \in [A -> A]
      /\ \A q \in A : top[q] = IF Ends(t, q) THEN q ELSE top[t[q].parent]
  BY DEF TopsOf
<1>6. \A q \in A : Ends(t, q) <=> t[q].parent <= Lists!Init1 \/ Lists!Stops(t, q)
  BY DEF Ends, Lists!Init1
<1> HIDE DEF A, M
<1>7. /\ rank \in [A -> 0 .. N] /\ B \in SUBSET A /\ next \in [A \ B -> A]
      /\ \A d \in A \ B : rank[next[d]] < rank[d]
  BY <1>1, <1>2, <1>3
<1>8. base \in [B -> V]
  <2>1. \A q \in B : <<q, {q}>> \in V /\ (t[q].parent \in M => <<memo[t[q].parent], {q}>> \in V) BY <1>4
  <2> QED BY <2>1
<1>9. step \in [A \X V -> V]
  <2>1. ASSUME NEW x \in A \X V PROVE <<x[2][1], x[2][2] \cup {x[1]}>> \in V
    <3>1. x[1] \in A /\ x[2] \in V OBVIOUS
    <3>2. x[2][1] \in A /\ x[2][2] \in SUBSET A BY <3>1
    <3> QED BY <3>1, <3>2
  <2> QED BY <2>1
<1>10. /\ \A q \in B : base[q] = IF Ends(t, q) THEN <<q, {q}>> ELSE <<memo[t[q].parent], {q}>>
       /\ \A q \in A \ B : next[q] = t[q].parent
       /\ \A q \in A : q \in B <=> Ends(t, q) \/ t[q].parent \in M
  OBVIOUS
<1>11. \A q \in A, v \in V : step[<<q, v>>] = <<v[1], v[2] \cup {q}>>
  <2> HIDE DEF V
  <2> QED OBVIOUS
<1> HIDE DEF rank, base, next, step, B, V
<1>12. Recursive(A, V, B, base, next, step) BY <1>7, <1>8, <1>9 DEF Recursive
<1>13. PICK g : Solution(g, A, V, B, base, next, step) BY <1>12, Recursion
<1>14. /\ g \in [A -> V]
       /\ \A d \in A : g[d] = IF d \in B THEN base[d] ELSE step[<<d, g[next[d]]>>]
       /\ \A f : (/\ f = [d \in A |-> f[d]]
                  /\ \A d \in B : f[d] = base[d]
                  /\ \A d \in A \ B : f[next[d]] \in V => f[d] = step[<<d, f[next[d]]>>])
                 => f = g
  BY <1>13 DEF Solution
<1>15. \A q \in A : g[q] = IF Ends(t, q) THEN <<q, {q}>>
                          ELSE IF t[q].parent \in M THEN <<memo[t[q].parent], {q}>>
                          ELSE <<g[t[q].parent][1], g[t[q].parent][2] \cup {q}>>
  <2>1. ASSUME NEW q \in A, q \notin B
        PROVE  g[q] = <<g[t[q].parent][1], g[t[q].parent][2] \cup {q}>>
    <3>1. next[q] = t[q].parent /\ t[q].parent \in A BY <1>3, <1>10, <2>1
    <3>2. g[q] = step[<<q, g[t[q].parent]>>] /\ g[t[q].parent] \in V BY <1>14, <2>1, <3>1
    <3> QED BY <1>11, <3>2
  <2>2. \A q \in A : q \in B => g[q] = base[q] BY <1>14
  <2> QED BY <1>10, <2>1, <2>2
<1>16. U = g
  <2>1. g = F(g)
    <3>1. g = [q \in A |-> g[q]] BY <1>14
    <3>2. \A q \in A : g[q] = IF t[q].parent <= Lists!Init1 \/ Lists!Stops(t, q) THEN <<q, {q}>>
                              ELSE IF t[q].parent \in DOMAIN memo THEN <<memo[t[q].parent], {q}>>
                              ELSE <<g[t[q].parent][1], g[t[q].parent][2] \cup {q}>>
      BY <1>6, <1>15 DEF M
    <3> QED BY <3>1, <3>2
  <2>2. ASSUME NEW f, f = F(f) PROVE f = g
    <3>0. \A q \in A : f[q] = IF t[q].parent <= Lists!Init1 \/ Lists!Stops(t, q) THEN <<q, {q}>>
                              ELSE IF t[q].parent \in DOMAIN memo THEN <<memo[t[q].parent], {q}>>
                              ELSE <<f[t[q].parent][1], f[t[q].parent][2] \cup {q}>>
      BY <2>2, Zenon
    <3>1. f = [q \in A |-> f[q]] BY <2>2, <3>0, Zenon
    <3>2. \A q \in A : f[q] = IF Ends(t, q) THEN <<q, {q}>>
                              ELSE IF t[q].parent \in M THEN <<memo[t[q].parent], {q}>>
                              ELSE <<f[t[q].parent][1], f[t[q].parent][2] \cup {q}>>
      BY <1>6, <3>0 DEF M
    <3>3. \A d \in B : f[d] = base[d] BY <1>7, <1>10, <3>2
    <3>4. ASSUME NEW d \in A \ B, f[next[d]] \in V PROVE f[d] = step[<<d, f[next[d]]>>]
      <4>1. next[d] = t[d].parent /\ ~Ends(t, d) /\ t[d].parent \notin M BY <1>10
      <4>2. f[d] = <<f[next[d]][1], f[next[d]][2] \cup {d}>> BY <3>2, <4>1
      <4> QED BY <1>11, <3>4, <4>2
    <3> QED BY <1>14, <3>1, <3>3, <3>4
  <2> HIDE DEF F
  <2> QED BY <2>1, <2>2
<1>17. Lists!Ways(t, memo) = U BY DEF Lists!Ways, A
<1> HIDE DEF U, F
\* Up from the processes at which a climb ends.
<1> DEFINE P == {q \in A : /\ g[q][1] = top[q] /\ q \in g[q][2] /\ g[q][2] \in SUBSET A
                           /\ \A r \in g[q][2] : top[r] = top[q] /\ (r # q => ~t[r].shell)}
<1>18. ASSUME NEW q \in A, ~Ends(t, q) => t[q].parent \in P PROVE q \in P
  <2>1. CASE Ends(t, q)
    <3>1. g[q] = <<q, {q}>> /\ top[q] = q BY <1>5, <1>15, <2>1
    <3> QED BY <3>1
  <2>2. CASE ~Ends(t, q) /\ t[q].parent \in M
    <3>1. g[q] = <<memo[t[q].parent], {q}>> /\ top[q] = top[t[q].parent] BY <1>5, <1>15, <2>2
    <3>2. memo[t[q].parent] = top[t[q].parent] BY <1>3, <1>4, <2>2
    <3> QED BY <3>1, <3>2
  <2>3. CASE ~Ends(t, q) /\ t[q].parent \notin M
    <3> DEFINE r == t[q].parent
    <3>1. /\ r \in A /\ ~t[r].shell /\ top[q] = top[r]
          /\ g[q] = <<g[r][1], g[r][2] \cup {q}>>
      BY <1>3, <1>5, <1>15, <2>3
    <3>2. /\ g[r][1] = top[r] /\ g[r][2] \in SUBSET A
          /\ \A s \in g[r][2] : top[s] = top[r] /\ (s # r => ~t[s].shell)
      BY <1>18, <2>3
    <3> HIDE DEF r
    <3>3. g[q][1] = g[r][1] /\ g[q][2] = g[r][2] \cup {q} BY <3>1
    <3> QED BY <3>1, <3>2, <3>3
  <2> QED BY <2>1, <2>2, <2>3
<1>19. \A q \in A : q \in P
  <2> HIDE DEF P
  <2> QED BY <1>18, ClimbInduction DEF A
<1>20. p \in P BY <1>19 DEF A
<1> QED BY <1>16, <1>17, <1>20 DEF A

(* The root of a process is found and remembered, with those passed.       *)
LEMMA RootRemembered ==
    ASSUME NEW t, Climbable(t), NEW top, TopsOf(t, top), NEW memo, Remembers(t, top, memo),
           NEW p \in Lists!Alive(t)
    PROVE  /\ Remembers(t, top, Lists!RootOf(t, p, memo))
           /\ DOMAIN memo \cup {p} \subseteq DOMAIN Lists!RootOf(t, p, memo)
<1> DEFINE A == Lists!Alive(t)
           M == DOMAIN memo
           found == IF Lists!Top(t, p) THEN <<p, {p}>> ELSE Lists!Ways(t, memo)[p]
           new == [q \in M \cup found[2] |-> IF q \in found[2] THEN found[1] ELSE memo[q]]
<1>1. /\ M \in SUBSET A /\ \A q \in M : memo[q] = RootIn(t, top, q) BY DEF Remembers
<1>2. CASE p \in M BY <1>2 DEF Lists!RootOf
<1>3. CASE p \notin M
  <2>1. Lists!RootOf(t, p, memo) = new BY <1>3 DEF Lists!RootOf, Lists!Climb
  <2>2. p \in found[2] /\ found[2] \in SUBSET A /\ \A q \in found[2] : RootIn(t, top, q) = found[1]
    <3>1. CASE Lists!Top(t, p)
      <4>1. found = <<p, {p}>> BY <3>1
      <4>2. t[p].shell \/ Ends(t, p) BY <3>1 DEF Lists!Top, Lists!Init1, Ends
      <4>3. RootIn(t, top, p) = p BY <4>2 DEF RootIn, TopsOf
      <4> QED BY <4>1, <4>3
    <3>2. CASE ~Lists!Top(t, p)
      <4>1. found = Lists!Ways(t, memo)[p] /\ ~t[p].shell BY <3>2 DEF Lists!Top
      <4> DEFINE w == Lists!Ways(t, memo)[p]
      <4>2. /\ w[1] = top[p] /\ p \in w[2] /\ w[2] \in SUBSET A
            /\ \A q \in w[2] : top[q] = top[p] /\ (q # p => ~t[q].shell)
        BY WaysLead
      <4> HIDE DEF w
      <4>3. \A q \in w[2] : RootIn(t, top, q) = w[1] BY <4>1, <4>2 DEF RootIn
      <4>4. found = w BY <4>1 DEF w
      <4> HIDE DEF found
      <4> QED BY <4>2, <4>3, <4>4
    <3> QED BY <3>1, <3>2
  <2> HIDE DEF found
  <2>3. DOMAIN new = M \cup found[2] /\ \A q \in DOMAIN new : new[q] = RootIn(t, top, q)
    BY <1>1, <2>2
  <2>4. Remembers(t, top, new) BY <1>1, <2>2, <2>3 DEF Remembers
  <2>5. M \cup {p} \subseteq DOMAIN new BY <2>2, <2>3
  <2> HIDE DEF new
  <2> QED BY <2>1, <2>4, <2>5
<1> QED BY <1>2, <1>3

(* Whatever their order, every process read is given its root.             *)
LEMMA RootsFound ==
    ASSUME NEW t, Climbable(t), NEW top, TopsOf(t, top), NEW order \in Seq(Lists!Alive(t)),
           \A p \in Lists!Alive(t) : \E i \in DOMAIN order : order[i] = p
    PROVE  Lists!Roots(t, order) = [p \in Lists!Alive(t) |-> RootIn(t, top, p)]
<1> DEFINE A == Lists!Alive(t)
           L == Len(order)
           D == 0 .. L
           V == {m \in UNION {[M -> A] : M \in SUBSET A} : Remembers(t, top, m)}
           none == [p \in {} |-> 0]
           base == [n \in {0} |-> none]
           next == [n \in D \ {0} |-> n - 1]
           step == [x \in D \X V |-> IF x[1] = 0 THEN x[2] ELSE Lists!RootOf(t, order[x[1]], x[2])]
           rank == [n \in D |-> n]
           F(memo) == [n \in 0 .. Len(order) |-> IF n = 0 THEN [p \in {} |-> 0]
                                               ELSE Lists!RootOf(t, order[n], memo[n - 1])]
           U == CHOOSE memo : memo = F(memo)
<1>1. L \in Nat /\ DOMAIN order = 1 .. L /\ \A i \in 1 .. L : order[i] \in A OBVIOUS
<1>2. \A q \in A : top[q] \in A BY DEF TopsOf
<1>3. \A m : Remembers(t, top, m) => m \in V
  <2> SUFFICES ASSUME NEW m, Remembers(t, top, m) PROVE m \in V
    OBVIOUS
  <2>1. DOMAIN m \in SUBSET A /\ m = [q \in DOMAIN m |-> m[q]] /\ \A q \in DOMAIN m : m[q] \in A
    BY <1>2 DEF Remembers, RootIn
  <2>2. m \in [DOMAIN m -> A] BY <2>1
  <2> QED BY <2>1, <2>2
<1>4. \A m \in V : Remembers(t, top, m) OBVIOUS
<1>5. none \in V
  <2>1. Remembers(t, top, none) BY DEF Remembers
  <2> QED BY <1>3, <2>1
<1> HIDE DEF V, A, L, none
<1>6. ASSUME NEW n \in D \ {0}, NEW m \in V
      PROVE  /\ Lists!RootOf(t, order[n], m) \in V
             /\ DOMAIN m \cup {order[n]} \subseteq DOMAIN Lists!RootOf(t, order[n], m)
  <2>1. order[n] \in A BY <1>1
  <2> QED BY <1>3, <1>4, <2>1, RootRemembered DEF A
<1>7. /\ rank \in [D -> 0 .. L] /\ {0} \in SUBSET D /\ base \in [{0} -> V] /\ next \in [D \ {0} -> D]
      /\ \A d \in D \ {0} : rank[next[d]] < rank[d]
  BY <1>1, <1>5
<1>8. step \in [D \X V -> V]
  <2>1. ASSUME NEW x \in D \X V
        PROVE  (IF x[1] = 0 THEN x[2] ELSE Lists!RootOf(t, order[x[1]], x[2])) \in V
    <3> HIDE DEF D
    <3>1. x[1] \in D /\ x[2] \in V OBVIOUS
    <3>2. x[1] # 0 => Lists!RootOf(t, order[x[1]], x[2]) \in V BY <1>6, <3>1
    <3> QED BY <3>1, <3>2
  <2> HIDE DEF D
  <2> QED BY <2>1
<1>9. /\ base[0] = none /\ \A n \in D \ {0} : next[n] = n - 1 /\ n - 1 \in D
      /\ \A n \in D \ {0}, m \in V : step[<<n, m>>] = Lists!RootOf(t, order[n], m)
  BY <1>1
<1> HIDE DEF rank, base, next, step
<1>10. Recursive(D, V, {0}, base, next, step)
  <2> HIDE DEF D
  <2> QED BY <1>1, <1>7, <1>8 DEF Recursive
<1>11. PICK g : Solution(g, D, V, {0}, base, next, step) BY <1>10, Recursion
<1>12. /\ g \in [D -> V]
       /\ \A d \in D : g[d] = IF d \in {0} THEN base[d] ELSE step[<<d, g[next[d]]>>]
       /\ \A f : (/\ f = [d \in D |-> f[d]]
                  /\ \A d \in {0} : f[d] = base[d]
                  /\ \A d \in D \ {0} : f[next[d]] \in V => f[d] = step[<<d, f[next[d]]>>])
                 => f = g
  BY <1>11 DEF Solution
<1>13. \A n \in D : g[n] = IF n = 0 THEN none ELSE Lists!RootOf(t, order[n], g[n - 1])
  <2>1. 0 \in D BY <1>7
  <2>2. ASSUME NEW n \in D, n # 0 PROVE g[n] = Lists!RootOf(t, order[n], g[n - 1])
    <3>1. next[n] = n - 1 /\ n - 1 \in D BY <1>9, <2>2
    <3> HIDE DEF D
    <3>2. g[n] = step[<<n, g[n - 1]>>] /\ g[n - 1] \in V BY <1>12, <2>2, <3>1
    <3> QED BY <1>9, <2>2, <3>2
  <2> HIDE DEF D
  <2> QED BY <1>9, <1>12, <2>1, <2>2
<1>14. U = g
  <2>1. g = F(g)
    <3>1. g = [n \in D |-> g[n]] BY <1>12
    <3>2. \A n \in 0 .. Len(order) : g[n] = IF n = 0 THEN [p \in {} |-> 0]
                                           ELSE Lists!RootOf(t, order[n], g[n - 1])
      BY <1>13 DEF L, none
    <3>3. D = 0 .. Len(order) BY DEF L
    <3> HIDE DEF D
    <3> QED BY <3>1, <3>2, <3>3
  <2>2. ASSUME NEW f, f = F(f) PROVE f = g
    <3>1. \A n \in 0 .. Len(order) : f[n] = IF n = 0 THEN [p \in {} |-> 0]
                                           ELSE Lists!RootOf(t, order[n], f[n - 1])
      BY <2>2, Zenon
    <3>2. f = [n \in 0 .. Len(order) |-> f[n]] BY <2>2, <3>1, Zenon
    <3>3. D = 0 .. Len(order) BY DEF L
    <3> HIDE DEF D
    <3>4. f = [n \in D |-> f[n]] BY <3>2, <3>3
    <3>5. \A d \in {0} : f[d] = base[d] BY <1>7, <1>9, <3>1, <3>3 DEF none
    <3>6. ASSUME NEW d \in D \ {0}, f[next[d]] \in V PROVE f[d] = step[<<d, f[next[d]]>>]
      <4>1. next[d] = d - 1 BY <1>9
      <4>2. f[d] = Lists!RootOf(t, order[d], f[d - 1]) BY <3>1, <3>3
      <4> QED BY <1>9, <3>6, <4>1, <4>2
    <3> QED BY <1>12, <3>4, <3>5, <3>6
  <2> HIDE DEF F
  <2> QED BY <2>1, <2>2
<1>15. Lists!Roots(t, order) = U[L] BY DEF Lists!Roots, L
<1> HIDE DEF U, F
\* After n processes the roots of those are known.
<1> DEFINE P == {n \in Nat : n \in D => \A i \in 1 .. n : order[i] \in DOMAIN g[n]}
<1>16. 0 \in P BY <1>1
<1>17. ASSUME NEW n \in Nat, n \in P PROVE n + 1 \in P
  <2> SUFFICES ASSUME n + 1 \in D, NEW i \in 1 .. n + 1 PROVE order[i] \in DOMAIN g[n + 1]
    OBVIOUS
  <2>1. n \in D /\ n + 1 \in D \ {0} /\ n + 1 - 1 = n BY <1>1
  <2>2. g[n + 1] = Lists!RootOf(t, order[n + 1], g[n]) BY <1>13, <2>1
  <2>3. g[n] \in V
    <3> HIDE DEF D
    <3> QED BY <1>12, <2>1
  <2>4. DOMAIN g[n] \cup {order[n + 1]} \subseteq DOMAIN g[n + 1]
    <3> HIDE DEF D
    <3> QED BY <1>6, <2>1, <2>2, <2>3
  <2>5. i \in 1 .. n \/ i = n + 1 OBVIOUS
  <2>6. \A k \in 1 .. n : order[k] \in DOMAIN g[n] BY <1>17, <2>1
  <2> QED BY <2>4, <2>5, <2>6
<1>18. L \in P
  <2> HIDE DEF P
  <2> QED BY <1>1, <1>16, <1>17, NatUp
<1>19. L \in D BY <1>1
<1>20. Remembers(t, top, g[L])
  <2> HIDE DEF D
  <2> QED BY <1>4, <1>12, <1>19
<1>21. A \subseteq DOMAIN g[L]
  <2>1. \A i \in 1 .. L : order[i] \in DOMAIN g[L] BY <1>18, <1>19
  <2>2. \A p \in A : \E i \in 1 .. L : order[i] = p BY <1>1 DEF A
  <2> QED BY <2>1, <2>2
<1>22. DOMAIN g[L] = A BY <1>20, <1>21 DEF Remembers, A
<1>23. g[L] = [p \in A |-> RootIn(t, top, p)]
  <2>1. g[L] = [p \in A |-> g[L][p]] /\ \A p \in A : g[L][p] = RootIn(t, top, p)
    BY <1>20, <1>22 DEF Remembers
  <2> QED BY <2>1
<1> QED BY <1>14, <1>15, <1>23 DEF A

(* The module's operators are those of Collections.                        *)
LEMMA ListsPicked ==
    /\ \A s, S : Lists!Picked(s, S) = Picked(s, S)
    /\ \A S : Lists!Ascending(S) = Ascending(S)
<1>1. \A S : Lists!Cardinality(S) = Cardinality(S) BY DEF Lists!Cardinality, Cardinality
<1>2. \A S, n : Lists!Nth(S, n) = Nth(S, n) BY <1>1 DEF Lists!Nth, Nth
<1> QED BY <1>1, <1>2 DEF Lists!Picked, Picked, Lists!Ascending, Ascending

\* The rows that agree with what was read.
RowsOf(t, groups) ==
    /\ {[pid |-> g.pid, members |-> g.members] : g \in groups} =
         {[pid |-> r, members |-> {p \in Lists!Alive(t) : Lists!TopAncestor(t, p) = r}] :
             r \in {Lists!TopAncestor(t, p) : p \in Lists!Alive(t)}}
    /\ \A g \in groups :
          (t[g.pid].stopped => g.paused) /\ (g.paused => \E p \in g.members : t[p].stopped)

(* The rows made from a tree agree with it.                                *)
LEMMA RowsMade ==
    ASSUME NEW t, Climbable(t)
    PROVE  RowsOf(t, Lists!Groups(t, Lists!Ascending(Lists!Alive(t))))
<1> DEFINE A == Lists!Alive(t)
           order == Lists!Ascending(A)
           root == Lists!Roots(t, order)
<1>1. PICK top : TopsOf(t, top) /\ \A p \in A : Lists!TopAncestor(t, p) = RootIn(t, top, p)
  BY TopsExist
<1>2. /\ order \in Seq(A) /\ DOMAIN order \subseteq Nat
      /\ \A p \in A : \E i \in DOMAIN order : order[i] = p
  <2>1. order = Ascending(A) BY ListsPicked
  <2>2. A \in SUBSET Nat /\ IsFiniteSet(A) BY AliveAt
  <2> HIDE DEF A, order
  <2> QED BY <2>1, <2>2, AscendingAt
<1>3. root = [p \in A |-> RootIn(t, top, p)]
  <2> HIDE DEF order
  <2> QED BY <1>1, <1>2, RootsFound
<1> DEFINE at(p) == Lists!TopAncestor(t, p)
           Under(r) == {p \in A : at(p) = r}
           R == {at(p) : p \in A}
<1>4. \A p \in A : root[p] = at(p) /\ at(p) \in A /\ at(at(p)) = at(p)
  <2> SUFFICES ASSUME NEW p \in A PROVE root[p] = at(p) /\ at(p) \in A /\ at(at(p)) = at(p)
    OBVIOUS
  <2>1. top \in [A -> A] /\ \A q \in A : top[q] = IF Ends(t, q) THEN q ELSE top[t[q].parent]
    BY <1>1 DEF TopsOf
  <2> DEFINE P == {q \in A : top[top[q]] = top[q]}
  <2>2. \A q \in A : (~Ends(t, q) => t[q].parent \in P) => q \in P BY <2>1
  <2>3. p \in P
    <3> HIDE DEF P
    <3> QED BY <2>2, ClimbInduction
  <2>4. RootIn(t, top, p) \in A /\ RootIn(t, top, RootIn(t, top, p)) = RootIn(t, top, p)
    BY <2>1, <2>3 DEF RootIn
  <2>5. at(p) = RootIn(t, top, p) BY <1>1
  <2>6. at(RootIn(t, top, p)) = RootIn(t, top, RootIn(t, top, p)) BY <1>1, <2>4
  <2>7. root[p] = RootIn(t, top, p) BY <1>3
  <2> HIDE DEF root, at
  <2> QED BY <2>4, <2>5, <2>6, <2>7
<1>5. Lists!Range(root) = R
  <2>1. DOMAIN root = A BY <1>3
  <2> HIDE DEF root, at
  <2> QED BY <1>4, <2>1 DEF Lists!Range
<1> HIDE DEF root, order, A, at
<1> DEFINE S(r) == {i \in DOMAIN order : root[order[i]] = r}
           Members(r) == Lists!Picked(order, S(r))
           paused(r) == \E p \in {r} \cup Lists!Range(Tail(Members(r))) : t[p].stopped
           row(r) == [pid |-> r, members |-> Lists!Range(Members(r)), paused |-> paused(r)]
<1>6. ASSUME NEW r \in R
      PROVE  /\ Lists!Range(Members(r)) = Under(r) /\ r \in Under(r)
             /\ Lists!Range(Tail(Members(r))) \subseteq Under(r)
  <2> DEFINE s == Members(r)
  <2>1. S(r) \in SUBSET DOMAIN order /\ \A i \in DOMAIN order : order[i] \in A BY <1>2
  <2>2. \A i \in DOMAIN order : i \in S(r) <=> order[i] \in Under(r) BY <1>4, <2>1
  <2>3. s = Picked(order, S(r)) BY ListsPicked
  <2> HIDE DEF S, s, R
  <2>4. /\ s \in Seq(A)
        /\ \A n \in DOMAIN s : Nth(S(r), n) \in S(r) /\ s[n] = order[Nth(S(r), n)]
        /\ \A i \in S(r) : \E n \in DOMAIN s : Nth(S(r), n) = i
    BY <1>2, <2>1, <2>3, PickedAt
  <2>5. Lists!Range(s) = Under(r)
    <3>1. \A n \in DOMAIN s : s[n] \in Under(r) BY <2>1, <2>2, <2>4
    <3>2. ASSUME NEW p \in Under(r) PROVE p \in Lists!Range(s)
      <4>1. PICK i \in DOMAIN order : order[i] = p BY <1>2
      <4>2. i \in S(r) BY <2>2, <4>1
      <4>3. PICK n \in DOMAIN s : Nth(S(r), n) = i BY <2>4, <4>2
      <4>4. s[n] = p BY <2>4, <4>1, <4>3
      <4> QED BY <4>4 DEF Lists!Range
    <3> QED BY <3>1, <3>2 DEF Lists!Range
  <2>6. r \in Under(r) BY <1>4 DEF R
  <2>7. s # <<>> BY <2>5, <2>6 DEF Lists!Range
  <2>8. Lists!Range(Tail(s)) \subseteq Lists!Range(s)
    <3>1. \A n \in DOMAIN Tail(s) : n + 1 \in DOMAIN s /\ Tail(s)[n] = s[n + 1] BY <2>4, <2>7
    <3> QED BY <3>1 DEF Lists!Range
  <2> QED BY <2>5, <2>6, <2>8 DEF s
<1>7. Lists!Groups(t, order) = {row(r) : r \in R} BY <1>5 DEF Lists!Groups, root
<1>8. \A r : paused(r) \in BOOLEAN OBVIOUS
<1>9. \A r \in R : /\ t[r].stopped => paused(r)
                   /\ paused(r) => \E p \in Under(r) : t[p].stopped
  BY <1>6
<1> HIDE DEF S, Members, paused, R, Under
<1>10. \A r \in R : row(r).pid = r /\ row(r).members = Under(r) /\ row(r).paused = paused(r)
  BY <1>6
<1> HIDE DEF row
<1>11. {[pid |-> g.pid, members |-> g.members] : g \in {row(r) : r \in R}} =
           {[pid |-> r, members |-> Under(r)] : r \in R}
  BY <1>10
<1>12. \A g \in {row(r) : r \in R} :
          (t[g.pid].stopped => g.paused) /\ (g.paused => \E p \in g.members : t[p].stopped)
  <2> SUFFICES ASSUME NEW r \in R
               PROVE  /\ t[row(r).pid].stopped => row(r).paused
                      /\ row(r).paused => \E p \in row(r).members : t[p].stopped
    OBVIOUS
  <2> QED BY <1>9, <1>10
<1> QED BY <1>7, <1>11, <1>12 DEF RowsOf, R, Under, A, order, at

\* The machine's processes: a parent lives, or is init or the kernel.
Forest(t) ==
    Climbable(t) /\ \A p \in Lists!Alive(t) : t[p].parent \in Lists!Alive(t) \cup {0, 1}

RowsInv == Forest(machine.tree) /\ Lists!RowsAgree

(* The machine begins with such a forest.                                  *)
LEMMA ForestAtFirst == ASSUME NEW t \in Forests PROVE Forest(t)
<1> DEFINE A == Lists!Alive(t)
<1>1. /\ Pids \subseteq Nat \ {0, 1} /\ IsFiniteSet(Pids) /\ t \in [Pids -> Processes]
      /\ \A p \in A : t[p].parent \in A \cup {0, 1}
  BY ForestsAssumption DEF Processes
<1>2. \E depth \in [Pids -> 0 .. Cardinality(Pids)] :
         \A p \in A : t[p].parent \in Pids => depth[t[p].parent] < depth[p]
  BY ForestsAssumption
<1>3. A \subseteq Pids BY <1>1 DEF Lists!Alive
<1>4. Cardinality(Pids) \in Nat BY <1>1, FS_CardinalityType
<1> HIDE DEF A
<1>5. \E depth \in [Pids -> 0 .. Cardinality(Pids)] :
         \A p \in A : t[p].parent \in A => depth[t[p].parent] < depth[p]
  BY <1>2, <1>3
<1>6. Climbable(t) BY <1>1, <1>4, <1>5 DEF Climbable, A
<1> QED BY <1>1, <1>6 DEF Forest, A

(* A tree with less in it can be climbed.                                  *)
LEMMA StillClimbable ==
    ASSUME NEW t, Climbable(t), NEW u \in [Pids -> Processes],
           Lists!Alive(u) \subseteq Lists!Alive(t),
           \A p \in Lists!Alive(u) : u[p].parent = t[p].parent \/ u[p].parent = 1
    PROVE  Climbable(u)
<1> DEFINE A == Lists!Alive(t)
           B == Lists!Alive(u)
<1>0. PICK N \in Nat : \E depth \in [Pids -> 0 .. N] :
         \A p \in A : t[p].parent \in A => depth[t[p].parent] < depth[p]
  BY DEF Climbable
<1>1. PICK depth \in [Pids -> 0 .. N] :
         \A p \in A : t[p].parent \in A => depth[t[p].parent] < depth[p]
  BY <1>0
<1>2. 1 \notin B BY ForestsAssumption DEF Lists!Alive
<1> HIDE DEF A, B
<1>3. \A p \in B : u[p].parent \in B => depth[u[p].parent] < depth[p]
  BY <1>1, <1>2 DEF A, B
<1> QED BY <1>3 DEF Climbable, B

(* What cannot be read is left out.                                        *)
LEMMA LeftOut ==
    ASSUME NEW t, Forest(t), NEW gone
    PROVE  Climbable(Lists!Without(t, gone))
<1> DEFINE u == Lists!Without(t, gone)
<1>1. Climbable(t) /\ t \in [Pids -> Processes] BY DEF Forest, Climbable
<1>2. Lists!Absent \in Processes BY DEF Lists!Absent, Processes
<1>3. u = [p \in Pids |-> IF p \in gone THEN Lists!Absent ELSE t[p]] BY <1>1 DEF Lists!Without
<1>4. u \in [Pids -> Processes] BY <1>1, <1>2, <1>3
<1>5. \A p \in Lists!Alive(u) : p \in Lists!Alive(t) /\ u[p] = t[p]
  BY <1>1, <1>3 DEF Lists!Alive
<1> HIDE DEF u
<1>6. Climbable(u) BY <1>1, <1>4, <1>5, StillClimbable
<1> QED BY <1>6 DEF u

(* Those that exit leave their children to init.                           *)
LEMMA ForestExited ==
    ASSUME NEW t, Forest(t), NEW ps \in SUBSET Pids
    PROVE  Forest(Lists!Exited(t, ps))
<1> DEFINE u == Lists!Exited(t, ps)
           A == Lists!Alive(t)
           B == Lists!Alive(u)
<1>1. /\ Climbable(t) /\ t \in [Pids -> Processes]
      /\ \A p \in A : t[p].parent \in A \cup {0, 1}
  BY DEF Forest, Climbable
<1>2. /\ Lists!Absent \in Processes /\ Lists!Absent.parent = 0 /\ 0 \notin Pids /\ 1 \notin Pids
      /\ Lists!Init1 = 1
  BY ForestsAssumption DEF Lists!Absent, Processes, Lists!Init1
<1> DEFINE orphaned(p) == [t[p] EXCEPT !.parent = Lists!Init1]
<1>3. u = [p \in Pids |-> IF p \in ps THEN Lists!Absent
                          ELSE IF t[p].parent \in ps THEN orphaned(p) ELSE t[p]]
  BY <1>1 DEF Lists!Exited
<1>4. \A p \in Pids : orphaned(p) \in Processes /\ orphaned(p).parent = 1
  <2>1. \A p \in Pids : t[p] \in Processes BY <1>1
  <2> QED BY <1>2, <2>1 DEF Processes
<1>5. A = {p \in Pids : t[p] # Lists!Absent} BY <1>1 DEF Lists!Alive
<1> HIDE DEF orphaned, A
<1>6. u \in [Pids -> Processes] BY <1>1, <1>2, <1>3, <1>4
<1>7. B = {p \in Pids : u[p] # Lists!Absent} BY <1>6 DEF Lists!Alive
<1> HIDE DEF u, B
<1>8. ASSUME NEW p \in B
      PROVE  /\ p \in A
             /\ u[p].parent = t[p].parent \/ u[p].parent = 1
             /\ u[p].parent \in B \cup {0, 1}
  <2>1. p \in Pids /\ p \notin ps BY <1>3, <1>7
  <2>2. p \in A
    <3>1. SUFFICES ASSUME t[p] = Lists!Absent PROVE FALSE BY <1>5, <2>1
    <3>2. t[p].parent \notin ps BY <1>2, <3>1
    <3>3. u[p] = Lists!Absent BY <1>3, <2>1, <3>1, <3>2
    <3> QED BY <1>7, <3>3
  <2>3. CASE t[p].parent \in ps
    <3>1. u[p].parent = 1 BY <1>3, <1>4, <2>1, <2>3
    <3> QED BY <2>2, <3>1
  <2>4. CASE t[p].parent \notin ps
    <3>1. u[p] = t[p] BY <1>3, <2>1, <2>4
    <3>2. CASE t[p].parent \in {0, 1} BY <2>2, <3>1, <3>2
    <3>3. CASE t[p].parent \in A
      <4> DEFINE q == t[p].parent
      <4>1. q \in Pids /\ q \notin ps /\ t[q] # Lists!Absent BY <1>5, <2>4, <3>3
      <4> HIDE DEF q
      <4>2. u[q] # Lists!Absent
        <5>1. CASE t[q].parent \in ps
          <6>1. u[q].parent = 1 BY <1>3, <1>4, <4>1, <5>1
          <6> QED BY <1>2, <6>1
        <5>2. CASE t[q].parent \notin ps BY <1>3, <4>1, <5>2
        <5> QED BY <5>1, <5>2
      <4>3. q \in B BY <1>7, <4>1, <4>2
      <4> QED BY <2>2, <3>1, <4>3 DEF q
    <3> QED BY <1>1, <2>2, <3>2, <3>3
  <2> QED BY <2>3, <2>4
<1>9. Climbable(u) BY <1>1, <1>6, <1>8, StillClimbable DEF A, B
<1> QED BY <1>8, <1>9 DEF Forest, u, B

(* The processes below one are processes.                                  *)
LEMMA TreeWithin ==
    ASSUME NEW t \in [Pids -> Processes], NEW p \in Pids
    PROVE  Lists!Tree(t, p) \in SUBSET Pids
<1> DEFINE n == Lists!Cardinality(DOMAIN t)
           D == 0 .. n
           V == SUBSET Pids
           A == Lists!Alive(t)
           more(s) == s \cup {q \in A : t[q].parent \in s}
           base == [k \in {0} |-> {p}]
           next == [k \in D \ {0} |-> k - 1]
           step == [x \in D \X V |-> more(x[2])]
           rank == [k \in D |-> k]
           F(under) == [k \in 0 .. n |-> IF k = 0 THEN {p}
                                        ELSE under[k-1] \cup {q \in A : t[q].parent \in under[k-1]}]
           U == CHOOSE under : under = F(under)
<1>1. n \in Nat
  <2>1. Lists!Cardinality(DOMAIN t) = Cardinality(Pids) BY DEF Lists!Cardinality, Cardinality
  <2> QED BY <2>1, ForestsAssumption, FS_CardinalityType
<1>2. A \in SUBSET Pids BY DEF Lists!Alive
<1> HIDE DEF n, A
<1>3. \A s \in V : more(s) \in V BY <1>2
<1> HIDE DEF V, more
<1>4. /\ rank \in [D -> 0 .. n] /\ {0} \in SUBSET D /\ base \in [{0} -> V] /\ next \in [D \ {0} -> D]
      /\ \A d \in D \ {0} : rank[next[d]] < rank[d]
  BY <1>1 DEF V
<1>5. step \in [D \X V -> V]
  <2> HIDE DEF D
  <2> QED BY <1>3
<1>6. /\ base[0] = {p} /\ \A k \in D \ {0} : next[k] = k - 1 /\ k - 1 \in D
      /\ \A k \in D, s \in V : step[<<k, s>>] = more(s)
  BY <1>1
<1> HIDE DEF rank, base, next, step
<1>7. Recursive(D, V, {0}, base, next, step)
  <2> HIDE DEF D
  <2> QED BY <1>1, <1>4, <1>5 DEF Recursive
<1>8. PICK g : Solution(g, D, V, {0}, base, next, step) BY <1>7, Recursion
<1>9. /\ g \in [D -> V]
      /\ \A d \in D : g[d] = IF d \in {0} THEN base[d] ELSE step[<<d, g[next[d]]>>]
      /\ \A f : (/\ f = [d \in D |-> f[d]]
                 /\ \A d \in {0} : f[d] = base[d]
                 /\ \A d \in D \ {0} : f[next[d]] \in V => f[d] = step[<<d, f[next[d]]>>])
                => f = g
  BY <1>8 DEF Solution
<1>10. \A k \in D : g[k] = IF k = 0 THEN {p} ELSE more(g[k-1])
  <2>1. ASSUME NEW k \in D, k # 0 PROVE g[k] = more(g[k-1])
    <3>1. next[k] = k - 1 /\ k - 1 \in D BY <1>6, <2>1
    <3> HIDE DEF D
    <3>2. g[k] = step[<<k, g[k-1]>>] /\ g[k-1] \in V BY <1>9, <2>1, <3>1
    <3> QED BY <1>6, <3>2
  <2>2. 0 \in D BY <1>4
  <2> HIDE DEF D
  <2> QED BY <1>6, <1>9, <2>1, <2>2
<1>11. U = g
  <2>1. g = F(g)
    <3>1. g = [k \in D |-> g[k]] BY <1>9
    <3> QED BY <1>10, <3>1 DEF more
  <2>2. ASSUME NEW f, f = F(f) PROVE f = g
    <3>1. \A k \in D : f[k] = IF k = 0 THEN {p}
                             ELSE f[k-1] \cup {q \in A : t[q].parent \in f[k-1]}
      BY <2>2, Zenon
    <3>2. f = [k \in D |-> f[k]] BY <2>2, <3>1, Zenon
    <3>3. \A d \in {0} : f[d] = base[d] BY <1>4, <1>6, <3>1
    <3>4. ASSUME NEW d \in D \ {0}, f[next[d]] \in V PROVE f[d] = step[<<d, f[next[d]]>>]
      <4>1. next[d] = d - 1 BY <1>6
      <4>2. f[d] = more(f[d-1]) BY <3>1 DEF more
      <4> QED BY <1>6, <3>4, <4>1, <4>2
    <3> QED BY <1>9, <3>2, <3>3, <3>4
  <2> HIDE DEF F
  <2> QED BY <2>1, <2>2
<1>12. Lists!Tree(t, p) = U[n] BY DEF Lists!Tree, n, A
<1> HIDE DEF U
<1>13. g[n] \in V
  <2>1. n \in D BY <1>1
  <2> HIDE DEF D
  <2> QED BY <1>9, <2>1
<1> QED BY <1>11, <1>12, <1>13 DEF V

(* A fork's child is below its parent, and nobody was below its number.    *)
LEMMA ForestForked ==
    ASSUME NEW t, Forest(t), NEW p \in Lists!Alive(t), NEW c \in Pids \ Lists!Alive(t)
    PROVE  Forest([t EXCEPT ![c] = [parent |-> p, shell |-> FALSE, stopped |-> FALSE]])
<1> DEFINE new == [parent |-> p, shell |-> FALSE, stopped |-> FALSE]
           u == [t EXCEPT ![c] = new]
           A == Lists!Alive(t)
           B == Lists!Alive(u)
<1>1. /\ Climbable(t) /\ t \in [Pids -> Processes]
      /\ \A q \in A : t[q].parent \in A \cup {0, 1}
  BY DEF Forest, Climbable
<1>2. A \in SUBSET Pids /\ p \in A BY <1>1, AliveAt
<1>3. c \in Pids /\ c \notin A /\ 0 \notin Pids /\ 1 \notin Pids BY ForestsAssumption
<1>4. new \in Processes /\ new.parent = p BY <1>2 DEF Processes
<1>5. new # Lists!Absent
  <2>1. Lists!Absent.parent = 0 BY DEF Lists!Absent
  <2>2. p # 0 BY <1>2, <1>3
  <2> QED BY <1>4, <2>1, <2>2
<1> HIDE DEF new
<1>6. /\ u \in [Pids -> Processes] /\ u[c] = new
      /\ \A q \in Pids : q # c => u[q] = t[q]
  BY <1>1, <1>3, <1>4
<1>7. B = A \cup {c} BY <1>1, <1>3, <1>5, <1>6 DEF Lists!Alive
<1>8. PICK N \in Nat : \E depth \in [Pids -> 0 .. N] :
         \A q \in A : t[q].parent \in A => depth[t[q].parent] < depth[q]
  BY <1>1 DEF Climbable
<1>9. PICK depth \in [Pids -> 0 .. N] :
         \A q \in A : t[q].parent \in A => depth[t[q].parent] < depth[q]
  BY <1>8
<1> HIDE DEF u, A, B
<1> DEFINE d == [depth EXCEPT ![c] = depth[p] + 1]
<1>10. /\ d \in [Pids -> 0 .. N + 1] /\ d[c] = depth[p] + 1 /\ depth[p] \in Nat
       /\ \A q \in Pids : q # c => d[q] = depth[q]
  <2>1. \A q \in Pids : depth[q] \in Nat /\ depth[q] <= N OBVIOUS
  <2>2. depth[p] + 1 \in 0 .. N + 1 BY <1>2, <2>1
  <2>3. 0 .. N \subseteq 0 .. N + 1 OBVIOUS
  <2> QED BY <1>2, <1>3, <2>1, <2>2, <2>3
<1> HIDE DEF d
<1>11. ASSUME NEW q \in B, u[q].parent \in B PROVE d[u[q].parent] < d[q]
  <2>1. CASE q = c
    <3>1. u[q].parent = p /\ p # c BY <1>2, <1>3, <1>4, <1>6, <2>1
    <3>2. d[p] = depth[p] /\ d[q] = depth[p] + 1 BY <1>2, <1>10, <2>1, <3>1
    <3> QED BY <1>10, <3>1, <3>2
  <2>2. CASE q # c
    <3>1. q \in A /\ u[q] = t[q] /\ q \in Pids BY <1>2, <1>6, <1>7, <2>2
    <3>2. t[q].parent \in A BY <1>1, <1>2, <1>3, <1>7, <1>11, <3>1
    <3>3. t[q].parent # c /\ t[q].parent \in Pids BY <1>2, <1>3, <3>2
    <3>4. depth[t[q].parent] < depth[q] BY <1>9, <3>1, <3>2
    <3> QED BY <1>10, <2>2, <3>1, <3>3, <3>4
  <2> QED BY <2>1, <2>2
<1>12. N + 1 \in Nat OBVIOUS
<1>13. \E e \in [Pids -> 0 .. N + 1] : \A q \in B : u[q].parent \in B => e[u[q].parent] < e[q]
  BY <1>10, <1>11
<1>14. Climbable(u) BY <1>6, <1>12, <1>13 DEF Climbable, B
<1>15. \A q \in B : u[q].parent \in B \cup {0, 1}
  <2>1. u[c].parent \in B BY <1>2, <1>4, <1>6, <1>7
  <2>2. \A q \in A : q \in Pids /\ q # c BY <1>2, <1>3
  <2>3. \A q \in A : u[q].parent \in B \cup {0, 1} BY <1>1, <1>6, <1>7, <2>2
  <2> QED BY <1>7, <2>1, <2>3
<1>16. Forest(u) BY <1>14, <1>15 DEF Forest, B
<1> QED BY <1>16 DEF u, new

(* At first nothing has been read.                                         *)
LEMMA RowsInit == Lists!Init => RowsInv
<1> SUFFICES ASSUME Lists!Init PROVE RowsInv
  OBVIOUS
<1>1. machine.tree \in Forests BY DEF Lists!Init
<1>2. scanner.read = Lists!NoList BY DEF Lists!Init
<1>3. Lists!RowsAgree BY <1>2 DEF Lists!RowsAgree, Lists!NoList, Lists!Alive
<1> QED BY <1>1, <1>3, ForestAtFirst DEF RowsInv

(* What is read agrees with the processes that were read.                  *)
LEMMA RowsRead ==
    ASSUME RowsInv, ListTypes, Lists!ReadProcesses
    PROVE  Lists!RowsAgree'
<1>1. PICK gone : scanner' = [scanner EXCEPT !.read =
                    [version |-> machine.version["processes"],
                     tree |-> Lists!Without(machine.tree, gone),
                     groups |-> Lists!Groups(Lists!Without(machine.tree, gone),
                                   Lists!Ascending(Lists!Alive(Lists!Without(machine.tree, gone))))]]
  BY DEF Lists!ReadProcesses
<1> DEFINE t == Lists!Without(machine.tree, gone)
           groups == Lists!Groups(t, Lists!Ascending(Lists!Alive(t)))
<1>2. RowsOf(t, groups)
  <2>1. Climbable(t) BY LeftOut DEF RowsInv
  <2> HIDE DEF t
  <2> QED BY <2>1, RowsMade
<1> HIDE DEF t, groups
<1>3. scanner'.read.tree = t /\ scanner'.read.groups = groups
  <2>1. scanner' = [scanner EXCEPT !.read = [version |-> machine.version["processes"], tree |-> t,
                                             groups |-> groups]]
    BY <1>1 DEF t, groups
  <2> QED BY <2>1 DEF ListTypes, Has
<1>4. RowsOf(scanner'.read.tree, scanner'.read.groups) BY <1>2, <1>3
<1> QED BY <1>4 DEF RowsOf, Lists!RowsAgree, Lists!TopAncestor, Lists!Alive, Lists!Stops

(* The machine's processes stay a forest.                                  *)
LEMMA ForestStays ==
    ASSUME Forest(machine.tree), ListTypes, Lists!Next
    PROVE  Forest(machine'.tree)
<1> DEFINE t == machine.tree
<1>1. machine = [f \in {"tree", "version", "signals", "steps"} |-> machine[f]] BY DEF ListTypes, Has
<1>2. Climbable(t) /\ t \in [Pids -> Processes] BY DEF Forest, Climbable
<1>3. CASE Lists!SendSignal
  <2>1. PICK g \in lists["processes"].cached.groups, atOnce \in BOOLEAN :
           /\ atOnce => g.pid \in Lists!Alive(t)
           /\ IF atOnce
              THEN machine' = [machine EXCEPT !.tree = Lists!Exited(@, Lists!Tree(@, g.pid)),
                                 !.version = Lists!Changed("processes"), !.steps = @ + 1]
              ELSE UNCHANGED machine
    BY <1>3 DEF Lists!SendSignal
  <2>2. CASE atOnce
    <3>1. machine'.tree = Lists!Exited(t, Lists!Tree(t, g.pid)) BY <1>1, <2>1, <2>2
    <3>2. g.pid \in Pids BY <1>2, <2>1, <2>2, AliveAt
    <3>3. Lists!Tree(t, g.pid) \in SUBSET Pids BY <1>2, <3>2, TreeWithin
    <3> QED BY <3>1, <3>3, ForestExited
  <2>3. CASE ~atOnce BY <2>1, <2>3
  <2> QED BY <2>2, <2>3
<1>4. CASE Lists!Exit
  <2>1. PICK p \in Lists!Alive(t) :
           machine' = [machine EXCEPT !.tree = Lists!Exited(@, {p}),
                                      !.version = Lists!Changed("processes"), !.steps = @ + 1]
    BY <1>4 DEF Lists!Exit
  <2>2. machine'.tree = Lists!Exited(t, {p}) BY <1>1, <2>1
  <2>3. {p} \in SUBSET Pids BY <1>2, AliveAt
  <2> QED BY <2>2, <2>3, ForestExited
<1>5. CASE Lists!Fork
  <2>1. PICK p \in Lists!Alive(t), c \in Pids \ Lists!Alive(t) :
           machine' = [machine EXCEPT
                         !.tree[c] = [parent |-> p, shell |-> FALSE, stopped |-> FALSE],
                         !.version = Lists!Changed("processes"), !.steps = @ + 1]
    BY <1>5 DEF Lists!Fork
  <2>2. machine'.tree = [t EXCEPT ![c] = [parent |-> p, shell |-> FALSE, stopped |-> FALSE]]
    BY <1>1, <2>1
  <2> QED BY <2>2, ForestForked
<1>6. CASE ~(Lists!SendSignal \/ Lists!Exit \/ Lists!Fork)
  <2>1. \/ machine' = machine
        \/ \E v, s : machine' = [machine EXCEPT !.version = v, !.signals = s, !.steps = @ + 1]
        \/ \E s : machine' = [machine EXCEPT !.signals = s]
    BY <1>6 DEF Lists!Next, Lists!Worker, Lists!User, Lists!Take, Lists!ReadProcesses,
       Lists!ReadServices, Lists!Store, Lists!Release, Lists!Search, Lists!ControlService,
       Lists!OnSystemdUnitsChanged, Lists!ControlAnswered, Lists!UnitChanges
  <2>2. machine'.tree = t BY <1>1, <2>1
  <2> QED BY <2>2
<1> QED BY <1>3, <1>4, <1>5, <1>6

(* And the rows keep agreeing with what was read, or nothing is read.      *)
LEMMA RowsStep ==
    ASSUME RowsInv, ListTypes, Lists!Next
    PROVE  RowsInv'
<1>1. scanner = [f \in {"queue", "doing", "read", "stored"} |-> scanner[f]] BY DEF ListTypes, Has
<1>2. Forest(machine.tree)' BY ForestStays DEF RowsInv, Forest, Climbable, Lists!Alive
<1>3. CASE Lists!ReadProcesses BY <1>2, <1>3, RowsRead DEF RowsInv
<1>4. CASE ~Lists!ReadProcesses
  <2>1. \/ scanner'.read = scanner.read
        \/ scanner'.read.tree = Lists!NoList.tree /\ scanner'.read.groups = Lists!NoList.groups
    <3>1. CASE Lists!ReadServices
      <4>1. scanner' = [scanner EXCEPT !.read = [Lists!NoList EXCEPT !.version = machine.version["services"]]]
        BY <3>1 DEF Lists!ReadServices
      <4>2. scanner'.read = [Lists!NoList EXCEPT !.version = machine.version["services"]] BY <1>1, <4>1
      <4> QED BY <4>2 DEF Lists!NoList
    <3>2. CASE Lists!Release
      <4>1. scanner' = [scanner EXCEPT !.doing = Tail(@), !.read = Lists!NoList, !.stored = FALSE]
        BY <3>2 DEF Lists!Release
      <4> QED BY <1>1, <4>1
    <3>3. CASE Lists!Take
      <4>1. PICK d : scanner' = [scanner EXCEPT !.queue = Tail(@), !.doing = d]
        BY <3>3 DEF Lists!Take
      <4> QED BY <1>1, <4>1
    <3>4. CASE Lists!Store
      <4>1. scanner' = [scanner EXCEPT !.stored = TRUE] BY <3>4 DEF Lists!Store
      <4> QED BY <1>1, <4>1
    <3>5. CASE ~(Lists!Worker)
      <4>1. \/ scanner' = scanner
            \/ \E r, s : scanner' = [scanner EXCEPT !.queue = @ \o r \o s]
        BY <3>5 DEF Lists!Next, Lists!User, Lists!Search, Lists!SendSignal, Lists!ControlService,
           Lists!OnSystemdUnitsChanged, Lists!ControlAnswered, Lists!UnitChanges, Lists!Fork,
           Lists!Exit, Lists!Trigger
      <4> QED BY <1>1, <4>1
    <3> QED BY <1>4, <3>1, <3>2, <3>3, <3>4, <3>5 DEF Lists!Worker
  <2>2. RowsOf(scanner'.read.tree, scanner'.read.groups)
    <3>1. RowsOf(scanner.read.tree, scanner.read.groups)
      BY DEF RowsInv, RowsOf, Lists!RowsAgree, Lists!TopAncestor, Lists!Alive, Lists!Stops
    <3>2. RowsOf(Lists!NoList.tree, Lists!NoList.groups)
      BY DEF RowsOf, Lists!NoList, Lists!Alive
    <3> QED BY <2>1, <3>1, <3>2
  <2>3. Lists!RowsAgree'
    BY <2>2 DEF RowsOf, Lists!RowsAgree, Lists!TopAncestor, Lists!Alive, Lists!Stops
  <2> QED BY <1>2, <2>3 DEF RowsInv
<1> QED BY <1>3, <1>4

(* Every reachable state satisfies the invariant of the rows.              *)
LEMMA RowsAlways == Spec => []RowsInv
<1>1. Init => RowsInv BY RowsInit DEF Init
<1>2. RowsInv /\ ListsInv /\ [Next]_vars => RowsInv'
  <2> SUFFICES ASSUME RowsInv, ListsInv, [Next]_vars PROVE RowsInv'
    OBVIOUS
  <2>1. CASE UNCHANGED listVars
    <3>1. machine' = machine /\ scanner' = scanner BY <2>1 DEF listVars
    <3>2. Forest(machine.tree)' BY <3>1 DEF RowsInv, Forest, Climbable, Lists!Alive
    <3>3. RowsOf(scanner.read.tree, scanner.read.groups)
      BY DEF RowsInv, RowsOf, Lists!RowsAgree, Lists!TopAncestor, Lists!Alive, Lists!Stops
    <3>4. RowsOf(scanner'.read.tree, scanner'.read.groups) BY <3>1, <3>3
    <3>5. Lists!RowsAgree'
      BY <3>4 DEF RowsOf, Lists!RowsAgree, Lists!TopAncestor, Lists!Alive, Lists!Stops
    <3> QED BY <3>2, <3>5 DEF RowsInv
  <2>2. Lists!Next \/ UNCHANGED listVars
    BY DEF Next, vars, OnlyLists, OnlyTree, OnlyTop, OnlyPrivacy, OnlyJobs, OnlyWindows,
           OnlyPower, listVars
  <2>3. ListTypes BY DEF ListsInv
  <2> QED BY <2>1, <2>2, <2>3, RowsStep
<1> QED BY <1>1, <1>2, ListsAlways, PTL DEF Spec

(* Every process that was read is in one row, that of its topmost ancestor *)
(* below a shell, for any tree of processes, any order /proc gives them in *)
(* and whatever the walk remembered of the processes before               *)
(* (buildGroupsFromMap and getRootFast of ProcessManager.cpp).             *)
THEOREM RowsAlwaysAgree == Spec => []Lists!RowsAgree
<1>1. RowsInv => Lists!RowsAgree BY DEF RowsInv
<1> QED BY <1>1, RowsAlways, PTL

(* What the launcher relies on: each refresh is served, and its rows agree *)
(* with the processes that were read.                                      *)
THEOREM ListsAlwaysServed == Spec => []ListsServed
  BY RefreshesServed, RowsAlwaysAgree, PTL DEF ListsServed, Lists!ListsServed

-----------------------------------------------------------------------------
(* The tree of a signal (ProcessTree).                                     *)

(* A list and another have the elements of both.                           *)
LEMMA RangeJoined ==
    ASSUME NEW E, NEW s \in Seq(E), NEW t \in Seq(E)
    PROVE  Tree!Range(s \o t) = Tree!Range(s) \cup Tree!Range(t)
<1> DEFINE u == s \o t
<1>1. /\ u \in Seq(E) /\ Len(u) = Len(s) + Len(t) /\ DOMAIN u = 1 .. Len(u)
      /\ \A i \in 1 .. Len(u) : u[i] = IF i <= Len(s) THEN s[i] ELSE t[i - Len(s)]
  BY JoinedAt
<1>2. Len(s) \in Nat /\ Len(t) \in Nat /\ DOMAIN s = 1 .. Len(s) /\ DOMAIN t = 1 .. Len(t) OBVIOUS
<1> HIDE DEF u
<1>3. \A i \in 1 .. Len(s) : i \in DOMAIN u /\ u[i] = s[i] BY <1>1, <1>2
<1>4. \A i \in 1 .. Len(t) : i + Len(s) \in DOMAIN u /\ u[i + Len(s)] = t[i] BY <1>1, <1>2
<1>5. \A i \in DOMAIN u : \/ i \in 1 .. Len(s) /\ u[i] = s[i]
                          \/ i - Len(s) \in 1 .. Len(t) /\ u[i] = t[i - Len(s)]
  BY <1>1, <1>2
<1>6. Tree!Range(u) = Tree!Range(s) \cup Tree!Range(t)
  BY <1>2, <1>3, <1>4, <1>5 DEF Tree!Range
<1> QED BY <1>6 DEF u

(* A list of lists, made into one, has the elements of all of them.        *)
LEMMA FlattenedAt ==
    ASSUME NEW E, NEW ss \in Seq(Seq(E))
    PROVE  /\ Tree!FlattenSeq(ss) \in Seq(E)
           /\ Tree!Range(Tree!FlattenSeq(ss)) = UNION {Tree!Range(ss[i]) : i \in DOMAIN ss}
<1> DEFINE n == Len(ss)
           D == 1 .. n
           V == Seq(E)
           base == [i \in {1} |-> ss[1]]
           next == [i \in D \ {1} |-> i - 1]
           step == [x \in D \X V |-> x[2] \o ss[x[1]]]
           rank == [i \in D |-> i]
           F(f) == [i \in 1 .. Len(ss) |-> IF i = 1 THEN ss[i] ELSE f[i - 1] \o ss[i]]
           U == CHOOSE f : f = F(f)
<1>1. n \in Nat /\ DOMAIN ss = D /\ \A i \in D : ss[i] \in V OBVIOUS
<1>2. CASE n = 0
  <2>1. Tree!FlattenSeq(ss) = ss /\ ss = <<>> BY <1>2 DEF Tree!FlattenSeq
  <2>2. <<>> \in Seq(E) /\ DOMAIN ss = {} /\ Tree!Range(ss) = {} BY <2>1 DEF Tree!Range
  <2> QED BY <2>1, <2>2
<1>3. CASE n # 0
  <2>1. 1 \in D BY <1>1, <1>3
  <2>2. /\ {1} \in SUBSET D /\ base \in [{1} -> V] /\ next \in [D \ {1} -> D]
        /\ rank \in [D -> 0 .. n] /\ \A d \in D \ {1} : rank[next[d]] < rank[d]
    BY <1>1, <2>1
  <2>3. step \in [D \X V -> V]
    <3>1. ASSUME NEW x \in D \X V PROVE x[2] \o ss[x[1]] \in V
      <4>1. x[1] \in D /\ x[2] \in Seq(E) OBVIOUS
      <4>2. ss[x[1]] \in Seq(E) BY <1>1, <4>1
      <4> HIDE DEF D
      <4> QED BY <4>1, <4>2, JoinedAt
    <3> QED BY <3>1
  <2>4. /\ base[1] = ss[1] /\ \A d \in D \ {1} : next[d] = d - 1
        /\ \A d \in D, v \in V : step[<<d, v>>] = v \o ss[d]
    <3> HIDE DEF V
    <3> QED OBVIOUS
  <2> HIDE DEF D, V, base, next, step, rank
  <2>5. Recursive(D, V, {1}, base, next, step) BY <1>1, <2>2, <2>3 DEF Recursive
  <2>6. PICK g : Solution(g, D, V, {1}, base, next, step) BY <2>5, Recursion
  <2>7. /\ g \in [D -> V]
        /\ \A d \in D : g[d] = IF d \in {1} THEN base[d] ELSE step[<<d, g[next[d]]>>]
        /\ \A f : (/\ f = [d \in D |-> f[d]]
                   /\ \A d \in {1} : f[d] = base[d]
                   /\ \A d \in D \ {1} : f[next[d]] \in V => f[d] = step[<<d, f[next[d]]>>])
                  => f = g
    BY <2>6 DEF Solution
  <2>8. \A d \in D : /\ g[d] = IF d = 1 THEN ss[d] ELSE g[d - 1] \o ss[d]
                     /\ d # 1 => d - 1 \in D
    <3>1. \A d \in D : d # 1 => d - 1 \in D BY <1>1 DEF D
    <3>2. ASSUME NEW d \in D, d # 1 PROVE g[d] = g[d - 1] \o ss[d]
      <4>1. next[d] = d - 1 /\ g[d - 1] \in V BY <2>4, <2>7, <3>1, <3>2
      <4>2. g[d] = step[<<d, g[d - 1]>>] BY <2>7, <3>2, <4>1
      <4> QED BY <2>4, <4>1, <4>2
    <3> QED BY <2>4, <2>7, <3>1, <3>2
  <2>9. U = g
    <3>1. g = F(g)
      <4>1. g = [d \in D |-> g[d]] BY <2>7
      <4> QED BY <2>8, <4>1 DEF D
    <3>2. ASSUME NEW f, f = F(f) PROVE f = g
      <4>1. \A d \in D : f[d] = IF d = 1 THEN ss[d] ELSE f[d - 1] \o ss[d] BY <3>2, Zenon DEF D
      <4>2. f = [d \in D |-> f[d]] BY <3>2, <4>1, Zenon DEF D
      <4>3. \A d \in {1} : f[d] = base[d] BY <2>1, <2>4, <4>1
      <4>4. ASSUME NEW d \in D \ {1}, f[next[d]] \in V PROVE f[d] = step[<<d, f[next[d]]>>]
        <5>1. next[d] = d - 1 /\ d # 1 BY <2>4
        <5>2. f[d] = f[next[d]] \o ss[d] BY <4>1, <5>1
        <5> QED BY <2>4, <4>4, <5>2
      <4> QED BY <2>7, <4>2, <4>3, <4>4
    <3> HIDE DEF F
    <3> QED BY <3>1, <3>2
  <2>10. Tree!FlattenSeq(ss) = U[n] BY <1>3 DEF Tree!FlattenSeq
  <2> HIDE DEF U
  <2>11. Tree!FlattenSeq(ss) = g[n] /\ n \in D BY <1>1, <1>3, <2>9, <2>10 DEF D
  <2> DEFINE P == {m \in Nat : m + 1 \in D =>
                      Tree!Range(g[m + 1]) = UNION {Tree!Range(ss[i]) : i \in 1 .. m + 1}}
  <2>12. 0 \in P
    <3>1. 1 .. 1 = {1} /\ 0 + 1 = 1 OBVIOUS
    <3>2. g[1] = ss[1] BY <2>1, <2>8
    <3> QED BY <3>1, <3>2
  <2>13. ASSUME NEW m \in Nat, m \in P PROVE m + 1 \in P
    <3> DEFINE d == m + 1 + 1
    <3>1. SUFFICES ASSUME d \in D
                   PROVE Tree!Range(g[d]) = UNION {Tree!Range(ss[i]) : i \in 1 .. d}
      OBVIOUS
    <3>2. d # 1 /\ d - 1 = m + 1 /\ 1 .. d = (1 .. m + 1) \cup {d} OBVIOUS
    <3> HIDE DEF d
    <3>3. g[d] = g[m + 1] \o ss[d] /\ m + 1 \in D BY <2>8, <3>1, <3>2
    <3>4. Tree!Range(g[m + 1]) = UNION {Tree!Range(ss[i]) : i \in 1 .. m + 1} BY <2>13, <3>3
    <3>5. Tree!Range(g[d]) = Tree!Range(g[m + 1]) \cup Tree!Range(ss[d])
      <4>1. g[m + 1] \in Seq(E) /\ ss[d] \in Seq(E) BY <1>1, <2>7, <3>1, <3>3 DEF V, D
      <4> QED BY <3>3, <4>1, RangeJoined
    <3> QED BY <3>2, <3>4, <3>5
  <2>14. \A m \in Nat : m \in P
    <3> HIDE DEF P
    <3> QED BY <2>12, <2>13, NatUp
  <2>15. n - 1 \in Nat /\ n - 1 + 1 = n BY <1>1, <1>3
  <2>16. Tree!Range(g[n - 1 + 1]) = UNION {Tree!Range(ss[i]) : i \in 1 .. n - 1 + 1}
    BY <2>11, <2>14, <2>15
  <2>17. g[n] \in Seq(E) /\ 1 .. n - 1 + 1 = DOMAIN ss BY <1>1, <2>7, <2>11, <2>15 DEF V, D
  <2> HIDE DEF n
  <2> QED BY <2>11, <2>15, <2>16, <2>17
<1> QED BY <1>2, <1>3

(* The module's numbers and lists are those of Collections.                *)
LEMMA TreeDescending ==
    /\ \A S : Tree!Cardinality(S) = Cardinality(S)
    /\ \A S : Tree!Descending(S) = Descending(S)
<1>1. \A S : Tree!Cardinality(S) = Cardinality(S) BY DEF Tree!Cardinality, Cardinality
<1>2. \A S, n : Tree!Nth(S, n) = Nth(S, n) BY <1>1 DEF Tree!Nth, Nth
<1> QED BY <1>1, <1>2 DEF Tree!Descending, Descending

Below(parent, p) == {q \in DOMAIN parent : parent[q] = p}

\* What is in a process's tree, to a depth, and what is found below a root, to one.
Reaching(reach, parent) ==
    /\ reach \in [0 .. Cardinality(Numbers) -> [Numbers -> SUBSET Numbers]]
    /\ \A n \in 0 .. Cardinality(Numbers), p \in Numbers :
          reach[n][p] = IF n = 0 THEN {}
                        ELSE {p} \cup UNION {reach[n - 1][c] : c \in Below(parent, p)}
Within(within, parent, root) ==
    /\ within \in [0 .. Cardinality(Numbers) -> SUBSET Numbers]
    /\ \A n \in 0 .. Cardinality(Numbers) :
          within[n] = IF n = 0 THEN {root}
                      ELSE within[n - 1] \cup {p \in DOMAIN parent : parent[p] \in within[n - 1]}

(* The list of a process's tree is in Numbers; what is in it, to a depth,  *)
(* is the process and what is below its children, to one less.             *)
LEMMA PostOrderAt ==
    ASSUME NEW parent, DOMAIN parent \in SUBSET Numbers, NEW root \in Numbers
    PROVE  /\ Tree!PostOrder(parent, root) \in Seq(Numbers)
           /\ \E reach : /\ Reaching(reach, parent)
                         /\ Tree!Range(Tree!PostOrder(parent, root)) = reach[Cardinality(Numbers)][root]
<1> DEFINE N == Cardinality(Numbers)
           D == 0 .. N
           V == [Numbers -> Seq(Numbers)]
           children(p) == Tree!Descending({q \in DOMAIN parent : parent[q] = p})
           row(v, p) == Tree!FlattenSeq([i \in DOMAIN children(p) |-> v[children(p)[i]]]) \o <<p>>
           base == [d \in {0} |-> [p \in Numbers |-> <<>>]]
           next == [d \in D \ {0} |-> d - 1]
           step == [x \in D \X V |-> [p \in Numbers |-> row(x[2], p)]]
           rank == [d \in D |-> d]
           F(u) == [n \in 0 .. Tree!Cardinality(Numbers) |->
                      [p \in Numbers |-> IF n = 0 THEN <<>> ELSE row(u[n - 1], p)]]
           U == CHOOSE u : u = F(u)
<1>1. N \in Nat /\ Numbers \in SUBSET Nat /\ IsFiniteSet(Numbers)
  BY NumbersAssumption, FS_CardinalityType
<1>2. ASSUME NEW p
      PROVE  children(p) \in Seq(Numbers) /\ Tree!Range(children(p)) = Below(parent, p)
  <2> DEFINE S == {q \in DOMAIN parent : parent[q] = p}
  <2>1. S \in SUBSET Numbers OBVIOUS
  <2>2. S \in SUBSET Nat /\ IsFiniteSet(S) BY <1>1, <2>1, FS_Subset
  <2>3. S = Below(parent, p) BY DEF Below
  <2> HIDE DEF S
  <2>4. Tree!Descending(S) \in Seq(S) /\ Tree!Range(Tree!Descending(S)) = S
    BY <2>2, DescendingAt, TreeDescending DEF Tree!Range
  <2>5. Tree!Descending(S) \in Seq(Numbers) BY <2>1, <2>4
  <2> QED BY <2>3, <2>4, <2>5 DEF S
<1> HIDE DEF children
<1>3. ASSUME NEW v \in V, NEW p \in Numbers
      PROVE  /\ row(v, p) \in Seq(Numbers)
             /\ Tree!Range(row(v, p)) = {p} \cup UNION {Tree!Range(v[c]) : c \in Below(parent, p)}
  <2> DEFINE ch == children(p)
             ss == [i \in DOMAIN ch |-> v[ch[i]]]
             f == Tree!FlattenSeq(ss)
  <2>1. ch \in Seq(Numbers) /\ Tree!Range(ch) = Below(parent, p) BY <1>2
  <2> HIDE DEF ch
  <2>2. \A i \in DOMAIN ch : ch[i] \in Numbers BY <2>1
  <2>3. \A i \in DOMAIN ch : v[ch[i]] \in Seq(Numbers) BY <2>2
  <2>4. ss \in Seq(Seq(Numbers)) /\ DOMAIN ss = DOMAIN ch /\ \A i \in DOMAIN ch : ss[i] = v[ch[i]]
    <3>1. DOMAIN ch = 1 .. Len(ch) /\ Len(ch) \in Nat BY <2>1
    <3>2. ss \in [1 .. Len(ch) -> Seq(Numbers)] BY <2>3, <3>1
    <3>3. ss \in Seq(Seq(Numbers))
      <4> HIDE DEF ss
      <4>1. \A T : \A n \in Nat : \A s \in [1 .. n -> T] : s \in Seq(T) OBVIOUS
      <4>2. \A s \in [1 .. Len(ch) -> Seq(Numbers)] : s \in Seq(Seq(Numbers)) BY <3>1, <4>1
      <4> QED BY <3>2, <4>2
    <3> QED BY <3>3
  <2> HIDE DEF ss
  <2>5. f \in Seq(Numbers) /\ Tree!Range(f) = UNION {Tree!Range(ss[i]) : i \in DOMAIN ss}
    BY <2>4, FlattenedAt
  <2>6. {Tree!Range(ss[i]) : i \in DOMAIN ss} = {Tree!Range(v[c]) : c \in Below(parent, p)}
    <3>1. \A c \in Below(parent, p) : \E i \in DOMAIN ch : ch[i] = c BY <2>1 DEF Tree!Range
    <3>2. \A i \in DOMAIN ch : ch[i] \in Below(parent, p) BY <2>1 DEF Tree!Range
    <3>3. \A i \in DOMAIN ch : Tree!Range(ss[i]) = Tree!Range(v[ch[i]]) BY <2>4
    <3> QED BY <2>4, <3>1, <3>2, <3>3
  <2> DEFINE one == <<p>>
  <2>7. row(v, p) = f \o one BY DEF ch, ss
  <2>8. one \in Seq(Numbers) /\ Tree!Range(one) = {p} BY DEF Tree!Range
  <2> HIDE DEF f, one
  <2>9. f \o one \in Seq(Numbers) BY <2>5, <2>8, JoinedAt
  <2>10. Tree!Range(f \o one) = Tree!Range(f) \cup {p}
    <3>1. f \in Seq(Numbers) /\ one \in Seq(Numbers) BY <2>5, <2>8
    <3>2. Tree!Range(f \o one) = Tree!Range(f) \cup Tree!Range(one) BY <3>1, RangeJoined
    <3> QED BY <2>8, <3>2
  <2> HIDE DEF row
  <2> QED BY <2>5, <2>6, <2>7, <2>9, <2>10
<1> HIDE DEF row
<1>4. step \in [D \X V -> V]
  <2> SUFFICES ASSUME NEW x \in D \X V PROVE [p \in Numbers |-> row(x[2], p)] \in V
    OBVIOUS
  <2>1. x[2] \in V OBVIOUS
  <2>2. \A p \in Numbers : row(x[2], p) \in Seq(Numbers) BY <1>3, <2>1
  <2> QED BY <2>2
<1>5. /\ {0} \in SUBSET D /\ next \in [D \ {0} -> D]
      /\ rank \in [D -> 0 .. N] /\ \A d \in D \ {0} : rank[next[d]] < rank[d]
      /\ \A d \in D \ {0} : next[d] = d - 1
  BY <1>1
<1>6. base \in [{0} -> V] /\ base[0] = [p \in Numbers |-> <<>>]
  <2>1. <<>> \in Seq(Numbers) OBVIOUS
  <2> QED BY <2>1
<1>7. \A d \in D, v \in V : step[<<d, v>>] = [p \in Numbers |-> row(v, p)]
  <2> HIDE DEF V
  <2> QED OBVIOUS
<1> HIDE DEF D, V, base, next, step, rank, N
<1>8. Recursive(D, V, {0}, base, next, step) BY <1>1, <1>4, <1>5, <1>6 DEF Recursive
<1>9. PICK g : Solution(g, D, V, {0}, base, next, step) BY <1>8, Recursion
<1>10. /\ g \in [D -> V]
       /\ \A d \in D : g[d] = IF d \in {0} THEN base[d] ELSE step[<<d, g[next[d]]>>]
       /\ \A f : (/\ f = [d \in D |-> f[d]]
                  /\ \A d \in {0} : f[d] = base[d]
                  /\ \A d \in D \ {0} : f[next[d]] \in V => f[d] = step[<<d, f[next[d]]>>])
                 => f = g
  BY <1>9 DEF Solution
<1>11. \A d \in D : d # 0 => d - 1 \in D BY <1>1 DEF D
<1>12. g[0] = [p \in Numbers |-> <<>>] /\ 0 \in D BY <1>5, <1>6, <1>10
<1>13. ASSUME NEW d \in D, d # 0 PROVE g[d] = [p \in Numbers |-> row(g[d - 1], p)] /\ g[d - 1] \in V
  <2>1. next[d] = d - 1 /\ g[d - 1] \in V BY <1>5, <1>10, <1>11, <1>13
  <2>2. g[d] = step[<<d, g[d - 1]>>] BY <1>10, <1>13, <2>1
  <2> QED BY <1>7, <2>1, <2>2
<1>14. U = g
  <2> DEFINE G(u) == [d \in D |-> [p \in Numbers |-> IF d = 0 THEN <<>> ELSE row(u[d - 1], p)]]
  <2>1. U = CHOOSE u : u = G(u)
    <3>1. D = 0 .. Tree!Cardinality(Numbers) BY TreeDescending DEF D, N
    <3> QED BY <3>1
  <2>2. g = G(g)
    <3>1. g = [d \in D |-> g[d]] BY <1>10
    <3>2. ASSUME NEW d \in D
          PROVE  g[d] = [p \in Numbers |-> IF d = 0 THEN <<>> ELSE row(g[d - 1], p)]
      <4>1. CASE d = 0 BY <1>12, <4>1
      <4>2. CASE d # 0 BY <1>13, <4>2
      <4> QED BY <4>1, <4>2
    <3> QED BY <3>1, <3>2
  <2>3. ASSUME NEW f, f = G(f) PROVE f = g
    <3>1. \A d \in D : f[d] = [p \in Numbers |-> IF d = 0 THEN <<>> ELSE row(f[d - 1], p)]
      BY <2>3, Zenon
    <3>2. f = [d \in D |-> f[d]] BY <2>3, <3>1, Zenon
    <3>3. \A d \in {0} : f[d] = base[d]
      <4>1. f[0] = [p \in Numbers |-> <<>>] BY <1>12, <3>1
      <4> QED BY <1>6, <4>1
    <3>4. ASSUME NEW d \in D \ {0}, f[next[d]] \in V PROVE f[d] = step[<<d, f[next[d]]>>]
      <4>1. next[d] = d - 1 /\ d # 0 BY <1>5
      <4>2. f[d] = [p \in Numbers |-> row(f[d - 1], p)] BY <3>1, <4>1
      <4> QED BY <1>7, <3>4, <4>1, <4>2
    <3> QED BY <1>10, <3>2, <3>3, <3>4
  <2> HIDE DEF G, U
  <2> QED BY <2>1, <2>2, <2>3
<1>15. Tree!PostOrder(parent, root) = U[Tree!Cardinality(Numbers)][root]
  BY Zenon DEF Tree!PostOrder, row, children
<1> HIDE DEF U, F
<1>16. N \in D /\ Tree!PostOrder(parent, root) = g[N][root] BY <1>1, <1>14, <1>15, TreeDescending DEF D, N
<1>17. \A d \in D, p \in Numbers : g[d][p] \in Seq(Numbers) BY <1>10 DEF V
<1> DEFINE reach == [d \in D |-> [p \in Numbers |-> Tree!Range(g[d][p])]]
<1>18. reach \in [D -> [Numbers -> SUBSET Numbers]]
  <2>1. \A d \in D, p \in Numbers : Tree!Range(g[d][p]) \in SUBSET Numbers
    <3>1. \A s \in Seq(Numbers) : Tree!Range(s) \in SUBSET Numbers
      <4>1. \A s \in Seq(Numbers) : \A i \in DOMAIN s : s[i] \in Numbers OBVIOUS
      <4> QED BY <4>1 DEF Tree!Range
    <3> QED BY <1>17, <3>1
  <2> QED BY <2>1
<1>19. ASSUME NEW d \in D, NEW p \in Numbers
       PROVE  reach[d][p] = IF d = 0 THEN {} ELSE {p} \cup UNION {reach[d - 1][c] : c \in Below(parent, p)}
  <2>1. reach[d][p] = Tree!Range(g[d][p]) OBVIOUS
  <2>2. CASE d = 0
    <3>1. g[d][p] = <<>> BY <1>12, <2>2
    <3> QED BY <2>1, <2>2, <3>1 DEF Tree!Range
  <2>3. CASE d # 0
    <3>1. g[d][p] = row(g[d - 1], p) /\ g[d - 1] \in V BY <1>13, <2>3
    <3>2. Tree!Range(g[d][p]) = {p} \cup UNION {Tree!Range(g[d - 1][c]) : c \in Below(parent, p)}
      BY <1>3, <3>1
    <3>3. d - 1 \in D /\ Below(parent, p) \in SUBSET Numbers BY <1>11, <2>3 DEF Below
    <3>4. \A c \in Below(parent, p) : reach[d - 1][c] = Tree!Range(g[d - 1][c]) BY <3>3
    <3>5. {reach[d - 1][c] : c \in Below(parent, p)} = {Tree!Range(g[d - 1][c]) : c \in Below(parent, p)}
      BY <3>4
    <3> HIDE DEF reach
    <3> QED BY <2>1, <2>3, <3>2, <3>5
  <2> QED BY <2>2, <2>3
<1>20. reach[N][root] = Tree!Range(Tree!PostOrder(parent, root)) BY <1>16
<1>21. Tree!PostOrder(parent, root) \in Seq(Numbers) BY <1>16, <1>17
<1>22. D = 0 .. Cardinality(Numbers) /\ N = Cardinality(Numbers) BY DEF D, N
<1> HIDE DEF reach
<1>23. Reaching(reach, parent) BY <1>18, <1>19, <1>22 DEF Reaching
<1> QED BY <1>20, <1>21, <1>22, <1>23

(* What is found below a process, to a depth, is what is found to one less *)
(* and its children.                                                       *)
LEMMA FoundAt ==
    ASSUME NEW parent, DOMAIN parent \in SUBSET Numbers, NEW root \in Numbers
    PROVE  \E within : /\ Within(within, parent, root)
                       /\ Tree!FoundBelow(parent, root) = within[Cardinality(Numbers)]
<1> DEFINE N == Cardinality(Numbers)
           D == 0 .. N
           V == SUBSET Numbers
           more(v) == v \cup {p \in DOMAIN parent : parent[p] \in v}
           base == [d \in {0} |-> {root}]
           next == [d \in D \ {0} |-> d - 1]
           step == [x \in D \X V |-> more(x[2])]
           rank == [d \in D |-> d]
           F(u) == [n \in 0 .. Tree!Cardinality(Numbers) |-> IF n = 0 THEN {root} ELSE more(u[n - 1])]
           U == CHOOSE u : u = F(u)
<1>1. N \in Nat BY NumbersAssumption, FS_CardinalityType
<1>2. D = 0 .. Tree!Cardinality(Numbers) BY TreeDescending
<1>3. \A v \in V : more(v) \in V OBVIOUS
<1>4. /\ {0} \in SUBSET D /\ next \in [D \ {0} -> D] /\ step \in [D \X V -> V]
      /\ rank \in [D -> 0 .. N] /\ \A d \in D \ {0} : rank[next[d]] < rank[d]
      /\ \A d \in D \ {0} : next[d] = d - 1
      /\ base \in [{0} -> V] /\ base[0] = {root}
  BY <1>1
<1>5. \A d \in D, v \in V : step[<<d, v>>] = more(v)
  <2> HIDE DEF V
  <2> QED OBVIOUS
<1>6. \A d \in D : d # 0 => d - 1 \in D BY <1>1
<1> HIDE DEF D, V, base, next, step, rank, more
<1>7. Recursive(D, V, {0}, base, next, step) BY <1>1, <1>4 DEF Recursive
<1>8. PICK g : Solution(g, D, V, {0}, base, next, step) BY <1>7, Recursion
<1>9. /\ g \in [D -> V]
      /\ \A d \in D : g[d] = IF d \in {0} THEN base[d] ELSE step[<<d, g[next[d]]>>]
      /\ \A f : (/\ f = [d \in D |-> f[d]]
                 /\ \A d \in {0} : f[d] = base[d]
                 /\ \A d \in D \ {0} : f[next[d]] \in V => f[d] = step[<<d, f[next[d]]>>])
                => f = g
  BY <1>8 DEF Solution
<1>10. ASSUME NEW d \in D PROVE g[d] = IF d = 0 THEN {root} ELSE more(g[d - 1])
  <2>1. CASE d = 0 BY <1>4, <1>9, <2>1
  <2>2. CASE d # 0
    <3>1. next[d] = d - 1 /\ g[d - 1] \in V BY <1>4, <1>6, <1>9, <2>2
    <3>2. g[d] = step[<<d, g[d - 1]>>] BY <1>9, <2>2, <3>1
    <3> QED BY <1>5, <2>2, <3>1, <3>2
  <2> QED BY <2>1, <2>2
<1>11. U = g
  <2> DEFINE G(u) == [d \in D |-> IF d = 0 THEN {root} ELSE more(u[d - 1])]
  <2>1. U = CHOOSE u : u = G(u) BY <1>2
  <2>2. g = G(g)
    <3>1. g = [d \in D |-> g[d]] BY <1>9
    <3> QED BY <1>10, <3>1
  <2>3. ASSUME NEW f, f = G(f) PROVE f = g
    <3>1. \A d \in D : f[d] = IF d = 0 THEN {root} ELSE more(f[d - 1]) BY <2>3, Zenon
    <3>2. f = [d \in D |-> f[d]] BY <2>3, <3>1, Zenon
    <3>3. \A d \in {0} : f[d] = base[d] BY <1>4, <3>1
    <3>4. ASSUME NEW d \in D \ {0}, f[next[d]] \in V PROVE f[d] = step[<<d, f[next[d]]>>]
      <4>1. next[d] = d - 1 /\ d # 0 BY <1>4
      <4>2. f[d] = more(f[d - 1]) BY <3>1, <4>1
      <4> QED BY <1>5, <3>4, <4>1, <4>2
    <3> QED BY <1>9, <3>2, <3>3, <3>4
  <2> HIDE DEF G, U
  <2> QED BY <2>1, <2>2, <2>3
<1>12. Tree!FoundBelow(parent, root) = U[Tree!Cardinality(Numbers)]
  BY Zenon DEF Tree!FoundBelow, more
<1> HIDE DEF U, F
<1>13. Tree!FoundBelow(parent, root) = g[N] BY <1>11, <1>12, TreeDescending
<1>14. Within(g, parent, root) BY <1>9, <1>10 DEF D, V, N, more, Within
<1> QED BY <1>13, <1>14 DEF N

(* All that is found below a process is in its list, and was read.         *)
LEMMA FoundListed ==
    ASSUME NEW parent, DOMAIN parent \in SUBSET Numbers, NEW root \in DOMAIN parent
    PROVE  /\ Tree!PostOrder(parent, root) \in Seq(Numbers)
           /\ root \in Tree!FoundBelow(parent, root)
           /\ Tree!FoundBelow(parent, root) \subseteq Tree!Range(Tree!PostOrder(parent, root))
           /\ Tree!FoundBelow(parent, root) \subseteq DOMAIN parent
<1> DEFINE N == Cardinality(Numbers)
           list == Tree!PostOrder(parent, root)
           found == Tree!FoundBelow(parent, root)
           kids(S) == {p \in DOMAIN parent : parent[p] \in S}
<1>1. root \in Numbers /\ IsFiniteSet(Numbers) BY NumbersAssumption
<1>2. N \in Nat /\ N # 0 BY <1>1, FS_CardinalityType, FS_EmptySet
<1>3. list \in Seq(Numbers) /\ \E reach : Reaching(reach, parent) /\ Tree!Range(list) = reach[N][root]
  BY <1>1, PostOrderAt, Zenon
<1>4. PICK reach : Reaching(reach, parent) /\ Tree!Range(list) = reach[N][root] BY <1>3
<1>5. \E within : Within(within, parent, root) /\ found = within[N] BY <1>1, FoundAt, Zenon
<1> HIDE DEF list, found
<1>6. PICK within : Within(within, parent, root) /\ found = within[N] BY <1>5
<1>7. /\ reach \in [0 .. N -> [Numbers -> SUBSET Numbers]]
      /\ \A n \in 0 .. N, p \in Numbers :
            reach[n][p] = IF n = 0 THEN {}
                          ELSE {p} \cup UNION {reach[n - 1][c] : c \in Below(parent, p)}
      /\ Tree!Range(list) = reach[N][root]
  BY <1>4 DEF Reaching
<1>8. /\ within \in [0 .. N -> SUBSET Numbers]
      /\ \A n \in 0 .. N :
            within[n] = IF n = 0 THEN {root} ELSE within[n - 1] \cup kids(within[n - 1])
      /\ found = within[N]
  BY <1>6 DEF Within
<1> HIDE DEF N, kids
<1>9. /\ 0 \in 0 .. N /\ N \in 0 .. N
      /\ \A n \in Nat : n + 1 \in 0 .. N => n \in 0 .. N /\ n + 1 - 1 = n /\ n + 1 # 0
  BY <1>2
<1>10. /\ \A p \in Numbers : reach[0][p] = {}
      /\ \A n \in Nat : n + 1 \in 0 .. N => \A p \in Numbers :
            reach[n + 1][p] = {p} \cup UNION {reach[n][c] : c \in Below(parent, p)}
  <2>1. \A p \in Numbers : reach[0][p] = {} BY <1>7, <1>9
  <2>2. ASSUME NEW n \in Nat, n + 1 \in 0 .. N, NEW p \in Numbers
        PROVE  reach[n + 1][p] = {p} \cup UNION {reach[n][c] : c \in Below(parent, p)}
    <3> DEFINE m == n + 1
    <3>1. m \in 0 .. N /\ m # 0 /\ m - 1 = n BY <1>9, <2>2
    <3> HIDE DEF m
    <3>2. reach[m][p] = {p} \cup UNION {reach[m - 1][c] : c \in Below(parent, p)} BY <1>7, <3>1
    <3> QED BY <3>1, <3>2 DEF m
  <2> QED BY <2>1, <2>2
<1>11. /\ within[0] = {root}
      /\ \A n \in Nat : n + 1 \in 0 .. N => within[n + 1] = within[n] \cup kids(within[n])
  BY <1>8, <1>9
\* A child of what is reached is reached, one deeper.
<1>12. \A n \in Nat : n + 1 \in 0 .. N => \A p \in Numbers :
          /\ reach[n][p] \subseteq reach[n + 1][p]
          /\ \A q \in reach[n][p] : Below(parent, q) \subseteq reach[n + 1][p]
  <2> DEFINE Deeper(n) == \A p \in Numbers :
                /\ reach[n][p] \subseteq reach[n + 1][p]
                /\ \A q \in reach[n][p] : Below(parent, q) \subseteq reach[n + 1][p]
             P == {n \in Nat : n + 1 \in 0 .. N => Deeper(n)}
  <2>1. Deeper(0) BY <1>10
  <2>2. ASSUME NEW n \in Nat, n + 1 + 1 \in 0 .. N, Deeper(n) PROVE Deeper(n + 1)
    <3> SUFFICES ASSUME NEW p \in Numbers
                 PROVE  /\ reach[n + 1][p] \subseteq reach[n + 1 + 1][p]
                        /\ \A q \in reach[n + 1][p] : Below(parent, q) \subseteq reach[n + 1 + 1][p]
      OBVIOUS
    <3>1. n + 1 \in Nat /\ n + 1 \in 0 .. N BY <1>9, <2>2
    <3>2. \A r \in Numbers : reach[n + 1][r] = {r} \cup UNION {reach[n][c] : c \in Below(parent, r)}
      BY <1>10, <3>1
    <3>3. reach[n + 1 + 1][p] = {p} \cup UNION {reach[n + 1][c] : c \in Below(parent, p)}
      BY <1>10, <2>2, <3>1
    <3>4. \A r : Below(parent, r) \subseteq Numbers BY DEF Below
    <3>5. \A r \in Numbers : r \in reach[n + 1][r] BY <3>2
    <3>6. Below(parent, p) \subseteq reach[n + 1 + 1][p]
      <4> SUFFICES ASSUME NEW c \in Below(parent, p) PROVE c \in reach[n + 1 + 1][p]
        OBVIOUS
      <4>1. c \in reach[n + 1][c] BY <3>4, <3>5
      <4> QED BY <3>3, <4>1
    <3>7. ASSUME NEW q \in reach[n + 1][p]
          PROVE  q \in reach[n + 1 + 1][p] /\ Below(parent, q) \subseteq reach[n + 1 + 1][p]
      <4>1. CASE q = p BY <3>3, <3>6, <4>1
      <4>2. CASE q # p
        <5>1. PICK c \in Below(parent, p) : q \in reach[n][c] BY <3>2, <4>2
        <5>2. c \in Numbers BY <3>4
        <5>3. q \in reach[n + 1][c] /\ Below(parent, q) \subseteq reach[n + 1][c]
          BY <2>2, <5>1, <5>2
        <5> QED BY <3>3, <5>1, <5>3
      <4> QED BY <4>1, <4>2
    <3> QED BY <3>7
  <2>3. 0 \in P BY <2>1
  <2>4. ASSUME NEW n \in Nat, n \in P PROVE n + 1 \in P
    <3> SUFFICES ASSUME n + 1 + 1 \in 0 .. N PROVE Deeper(n + 1)
      OBVIOUS
    <3>1. n + 1 \in 0 .. N BY <1>9
    <3>2. Deeper(n) BY <2>4, <3>1
    <3> HIDE DEF Deeper
    <3> QED BY <2>2, <3>2
  <2>5. \A n \in Nat : n \in P
    <3> HIDE DEF P
    <3> QED BY <2>3, <2>4, NatUp
  <2> QED BY <2>5
<1>13. \A n \in Nat : n + 1 \in 0 .. N => within[n] \subseteq reach[n + 1][root]
  <2> DEFINE P == {n \in Nat : n + 1 \in 0 .. N => within[n] \subseteq reach[n + 1][root]}
  <2>1. 0 \in P BY <1>1, <1>10, <1>11
  <2>2. ASSUME NEW n \in Nat, n \in P PROVE n + 1 \in P
    <3> SUFFICES ASSUME n + 1 + 1 \in 0 .. N PROVE within[n + 1] \subseteq reach[n + 1 + 1][root]
      OBVIOUS
    <3>1. n + 1 \in Nat /\ n + 1 \in 0 .. N BY <1>9
    <3>2. within[n] \subseteq reach[n + 1][root] BY <2>2, <3>1
    <3>3. /\ reach[n + 1][root] \subseteq reach[n + 1 + 1][root]
          /\ \A q \in reach[n + 1][root] : Below(parent, q) \subseteq reach[n + 1 + 1][root]
      BY <1>1, <1>12, <3>1
    <3>4. within[n + 1] = within[n] \cup kids(within[n]) BY <1>11, <3>1
    <3>5. kids(within[n]) \subseteq reach[n + 1 + 1][root]
      <4> SUFFICES ASSUME NEW p \in kids(within[n]) PROVE p \in reach[n + 1 + 1][root]
        OBVIOUS
      <4>1. parent[p] \in within[n] /\ p \in Below(parent, parent[p]) BY DEF kids, Below
      <4> QED BY <3>2, <3>3, <4>1
    <3> QED BY <3>2, <3>3, <3>4, <3>5
  <2>3. \A n \in Nat : n \in P
    <3> HIDE DEF P
    <3> QED BY <2>1, <2>2, NatUp
  <2> QED BY <2>3
\* Each depth adds a process, or there are no more.
<1>14. \A n \in Nat : n + 1 \in 0 .. N =>
          within[n + 1] = within[n] \/ Cardinality(within[n]) >= n + 1
  <2> DEFINE P == {n \in Nat : n + 1 \in 0 .. N =>
                      within[n + 1] = within[n] \/ Cardinality(within[n]) >= n + 1}
  <2>1. 0 \in P
    <3>1. Cardinality(within[0]) = 1 BY <1>11, FS_Singleton
    <3> QED BY <3>1
  <2>2. ASSUME NEW n \in Nat, n \in P PROVE n + 1 \in P
    <3> SUFFICES ASSUME n + 1 + 1 \in 0 .. N, within[n + 1 + 1] # within[n + 1]
                 PROVE  Cardinality(within[n + 1]) >= n + 1 + 1
      OBVIOUS
    <3>1. n + 1 \in Nat /\ n + 1 \in 0 .. N BY <1>9
    <3>2. within[n + 1] = within[n] \cup kids(within[n]) BY <1>11, <3>1
    <3>3. within[n + 1 + 1] = within[n + 1] \cup kids(within[n + 1]) BY <1>11, <3>1
    <3>4. within[n + 1] # within[n] BY <3>2, <3>3
    <3>5. Cardinality(within[n]) >= n + 1 BY <2>2, <3>1, <3>4
    <3>6. within[n + 1] \in SUBSET Numbers BY <1>8, <3>1
    <3>7. IsFiniteSet(within[n + 1]) BY <1>1, <3>6, FS_Subset
    <3>8. within[n] \in SUBSET within[n + 1] BY <3>2
    <3>9. /\ IsFiniteSet(within[n]) /\ Cardinality(within[n]) <= Cardinality(within[n + 1])
          /\ Cardinality(within[n]) # Cardinality(within[n + 1])
      BY <3>4, <3>7, <3>8, FS_Subset
    <3>10. Cardinality(within[n]) \in Nat /\ Cardinality(within[n + 1]) \in Nat
      BY <3>7, <3>9, FS_CardinalityType
    <3> QED BY <3>5, <3>9, <3>10
  <2>3. \A n \in Nat : n \in P
    <3> HIDE DEF P
    <3> QED BY <2>1, <2>2, NatUp
  <2> QED BY <2>3
<1>15. found = within[N - 1] /\ N - 1 \in Nat /\ N - 1 + 1 = N
  <2> DEFINE m == N - 1
  <2>1. m \in Nat /\ m + 1 = N /\ m \in 0 .. N BY <1>2
  <2> HIDE DEF m
  <2>2. within[N] = within[m] \/ Cardinality(within[m]) >= N BY <1>9, <1>14, <2>1
  <2>3. ASSUME Cardinality(within[m]) >= N PROVE within[N] = within[m]
    <3>1. within[m] \in SUBSET Numbers /\ within[N] \in SUBSET Numbers BY <1>8, <1>9, <2>1
    <3>2. Cardinality(within[m]) <= Cardinality(Numbers) /\ IsFiniteSet(within[m])
      BY <1>1, <3>1, FS_Subset
    <3>3. Cardinality(within[m]) \in Nat BY <3>2, FS_CardinalityType
    <3>4. Cardinality(within[m]) = Cardinality(Numbers) BY <1>2, <2>3, <3>2, <3>3 DEF N
    <3>5. within[m] = Numbers BY <1>1, <3>1, <3>4, FS_Subset
    <3>6. within[N] = within[m] \cup kids(within[m]) BY <1>9, <1>11, <2>1
    <3> QED BY <3>1, <3>5, <3>6
  <2> QED BY <1>8, <2>1, <2>2, <2>3 DEF m
<1>16. found \subseteq Tree!Range(list) BY <1>7, <1>9, <1>13, <1>15
<1>17. \A n \in Nat : n \in 0 .. N => within[n] \subseteq DOMAIN parent /\ root \in within[n]
  <2> DEFINE P == {n \in Nat : n \in 0 .. N => within[n] \subseteq DOMAIN parent /\ root \in within[n]}
  <2>1. 0 \in P BY <1>11
  <2>2. ASSUME NEW n \in Nat, n \in P PROVE n + 1 \in P
    <3> SUFFICES ASSUME n + 1 \in 0 .. N
                 PROVE  within[n + 1] \subseteq DOMAIN parent /\ root \in within[n + 1]
      OBVIOUS
    <3>1. within[n] \subseteq DOMAIN parent /\ root \in within[n] BY <1>9, <2>2
    <3>2. within[n + 1] = within[n] \cup kids(within[n]) BY <1>11
    <3> QED BY <3>1, <3>2 DEF kids
  <2>3. \A n \in Nat : n \in P
    <3> HIDE DEF P
    <3> QED BY <2>1, <2>2, NatUp
  <2> QED BY <2>3
<1>18. found \subseteq DOMAIN parent /\ root \in found BY <1>2, <1>8, <1>9, <1>17
<1> QED BY <1>3, <1>16, <1>18 DEF list, found

\* What a process is to the call: there, stopped, with a TERM that waits.
Procs == [parent : Numbers \cup {1}, stopped : BOOLEAN, term : BOOLEAN] \cup {Tree!NoOne}
Same(a, b) == (a = Tree!NoOne <=> b = Tree!NoOne) /\ a.stopped = b.stopped /\ a.term = b.term
Follows(a) == a # Tree!NoOne /\ ~a.term

(* A process that is gone leaves the others, whose parent it was or not,   *)
(* as they were.                                                           *)
LEMMA GoneAt ==
    ASSUME NEW procs \in [Numbers -> Procs], NEW p \in Numbers
    PROVE  /\ Tree!Gone({p}, procs) \in [Numbers -> Procs]
           /\ Tree!Gone({p}, procs)[p] = Tree!NoOne
           /\ \A q \in Numbers : q # p => Same(procs[q], Tree!Gone({p}, procs)[q])
<1> DEFINE new == Tree!Gone({p}, procs)
           moved(q) == [procs[q] EXCEPT !.parent = 1]
<1>1. Tree!NoOne \in Procs BY DEF Tree!NoOne, Procs
<1>2. ASSUME NEW q \in Numbers, procs[q].parent = p
      PROVE  /\ moved(q) \in Procs /\ procs[q] # Tree!NoOne /\ moved(q) # Tree!NoOne
             /\ moved(q).stopped = procs[q].stopped /\ moved(q).term = procs[q].term
  <2>1. p # 0 BY NumbersAssumption
  <2>2. procs[q] \in Procs OBVIOUS
  <2>3. procs[q] # Tree!NoOne BY <1>2, <2>1 DEF Tree!NoOne
  <2>4. moved(q) \in Procs /\ moved(q).parent = 1 BY <2>2, <2>3 DEF Procs
  <2>5. moved(q) # Tree!NoOne BY <2>4 DEF Tree!NoOne
  <2>6. moved(q).stopped = procs[q].stopped /\ moved(q).term = procs[q].term
    BY <2>2, <2>3 DEF Procs
  <2> QED BY <2>3, <2>4, <2>5, <2>6
<1> HIDE DEF moved
<1>3. new = [q \in Numbers |-> IF q = p THEN Tree!NoOne ELSE IF procs[q].parent = p THEN moved(q)
                               ELSE procs[q]]
  BY DEF Tree!Gone, moved
<1> HIDE DEF new
<1>4. \A q \in Numbers : new[q] \in Procs BY <1>1, <1>2, <1>3
<1>5. new \in [Numbers -> Procs] BY <1>3, <1>4
<1>6. new[p] = Tree!NoOne BY <1>3
<1>7. \A q \in Numbers : q # p => Same(procs[q], new[q]) BY <1>2, <1>3 DEF Same
<1> QED BY <1>5, <1>6, <1>7 DEF new

(* What a signal does to its process, and that it does it to no other.     *)
LEMMA SignalledAt ==
    ASSUME NEW procs \in [Numbers -> Procs], NEW p \in Numbers,
           NEW s \in {"TERM", "KILL", "STOP", "CONT"}
    PROVE  /\ Tree!Signalled(procs, p, s) \in [Numbers -> Procs]
           /\ \A q \in Numbers : q # p => Same(procs[q], Tree!Signalled(procs, p, s)[q])
           /\ procs[p] = Tree!NoOne => Tree!Signalled(procs, p, s)[p] = Tree!NoOne
           /\ s = "KILL" => Tree!Signalled(procs, p, s)[p] = Tree!NoOne
           /\ s = "TERM" /\ ~procs[p].stopped => Tree!Signalled(procs, p, s)[p] = Tree!NoOne
           /\ s = "STOP" /\ Follows(procs[p]) => /\ Follows(Tree!Signalled(procs, p, s)[p])
                                                 /\ Tree!Signalled(procs, p, s)[p].stopped
           /\ s = "CONT" /\ Follows(procs[p]) => /\ Follows(Tree!Signalled(procs, p, s)[p])
                                                 /\ ~Tree!Signalled(procs, p, s)[p].stopped
<1> DEFINE new == Tree!Signalled(procs, p, s)
           gone == Tree!Gone({p}, procs)
           held == [procs EXCEPT ![p].term = TRUE]
           frozen == [procs EXCEPT ![p].stopped = TRUE]
           freed == [procs EXCEPT ![p].stopped = FALSE]
<1>1. /\ gone \in [Numbers -> Procs] /\ gone[p] = Tree!NoOne
      /\ \A q \in Numbers : q # p => Same(procs[q], gone[q])
  BY GoneAt
<1>2. procs[p] \in Procs /\ \A q : Same(procs[q], procs[q]) BY DEF Same
<1>3. procs[p] # Tree!NoOne =>
         /\ held \in [Numbers -> Procs] /\ \A q \in Numbers : q # p => held[q] = procs[q]
         /\ frozen \in [Numbers -> Procs] /\ \A q \in Numbers : q # p => frozen[q] = procs[q]
         /\ freed \in [Numbers -> Procs] /\ \A q \in Numbers : q # p => freed[q] = procs[q]
  BY <1>2 DEF Procs
<1>4. procs[p] # Tree!NoOne =>
         /\ frozen[p].stopped = TRUE /\ frozen[p].term = procs[p].term /\ frozen[p].parent # 0
         /\ freed[p].stopped = FALSE /\ freed[p].term = procs[p].term /\ freed[p].parent # 0
  <2> SUFFICES ASSUME procs[p] # Tree!NoOne
               PROVE  /\ frozen[p].stopped = TRUE /\ frozen[p].term = procs[p].term
                      /\ freed[p].stopped = FALSE /\ freed[p].term = procs[p].term
                      /\ frozen[p].parent # 0 /\ freed[p].parent # 0
    OBVIOUS
  <2>1. procs[p] \in [parent : Numbers \cup {1}, stopped : BOOLEAN, term : BOOLEAN] BY <1>2 DEF Procs
  <2>2. 0 \notin Numbers \cup {1} BY NumbersAssumption
  <2>3. frozen[p].parent = procs[p].parent /\ freed[p].parent = procs[p].parent BY <2>1
  <2> QED BY <2>1, <2>2, <2>3
<1>5. procs[p] # Tree!NoOne => frozen[p] # Tree!NoOne /\ freed[p] # Tree!NoOne
  BY <1>4 DEF Tree!NoOne
<1>6. new = IF procs[p] = Tree!NoOne THEN procs
            ELSE IF s = "KILL" THEN gone
            ELSE IF s = "TERM" THEN IF procs[p].stopped THEN held ELSE gone
            ELSE IF s = "STOP" THEN frozen
            ELSE IF procs[p].term THEN gone ELSE freed
  BY DEF Tree!Signalled
<1> HIDE DEF new, gone, held, frozen, freed
<1>7. new \in [Numbers -> Procs] BY <1>1, <1>3, <1>6
<1>8. \A q \in Numbers : q # p => Same(procs[q], new[q]) BY <1>1, <1>2, <1>3, <1>6
<1>9. /\ procs[p] = Tree!NoOne => new[p] = Tree!NoOne
      /\ s = "KILL" => new[p] = Tree!NoOne
      /\ s = "TERM" /\ ~procs[p].stopped => new[p] = Tree!NoOne
  BY <1>1, <1>6
<1>10. s = "STOP" /\ Follows(procs[p]) => Follows(new[p]) /\ new[p].stopped
  BY <1>4, <1>5, <1>6 DEF Follows
<1>11. s = "CONT" /\ Follows(procs[p]) => Follows(new[p]) /\ ~new[p].stopped
  BY <1>4, <1>5, <1>6 DEF Follows
<1> QED BY <1>7, <1>8, <1>9, <1>10, <1>11 DEF new

KillFields == {"phase", "root", "signal", "wait", "next", "parent", "stopped", "targets", "tries", "answer"}

TreeTypes ==
    /\ live \in [Numbers -> Procs]
    /\ others \in [steps : 0 .. MaxOthers, touched : SUBSET Numbers]
    /\ Has(kill, KillFields)
    /\ kill.phase \in {"reading", "continuing", "signalling", "waiting", "returned"}
    /\ kill.signal \in Signals /\ kill.next \in Nat
    /\ DOMAIN kill.parent \in SUBSET Numbers /\ kill.stopped \in SUBSET DOMAIN kill.parent
    /\ kill.targets \in Seq(Numbers) /\ kill.tries \in 0 .. MaxAttempts
    /\ kill.phase # "returned" => kill.tries < MaxAttempts

\* A process that was found and that nobody else has touched.
Ours(p) == p \in Tree!Found /\ p \notin others.touched

\* The pass that is under way has come to the process.
Sent(p) == \E i \in DOMAIN kill.targets : i < kill.next /\ kill.targets[i] = p

\* A process has acted on the signal of the call.
Acted(a, p) ==
    IF kill.signal \in {"TERM", "KILL"} THEN a = Tree!NoOne
    ELSE Follows(a) /\ (IF kill.signal = "STOP" THEN a.stopped \/ p \in kill.stopped ELSE ~a.stopped)

\* While /proc is read: what is read of a process that nobody touches stays true.
TreeRead ==
    kill.phase = "reading" =>
        /\ kill.targets = <<>>
        /\ \A p \in Numbers : p \notin others.touched =>
              /\ ~live[p].term
              /\ p \in DOMAIN kill.parent =>
                    live[p] # Tree!NoOne /\ (live[p].stopped <=> p \in kill.stopped)

\* Afterwards: all that was found is a target.
TreeFound ==
    kill.phase # "reading" /\ (kill.phase = "returned" => kill.targets # <<>>) =>
        /\ Tree!Found \subseteq Tree!Range(kill.targets) /\ Tree!Found \subseteq DOMAIN kill.parent
        /\ kill.next \in DOMAIN kill.targets

\* The first pass continues what was stopped; the second sends the signal.
TreeContinued ==
    kill.phase = "continuing" => \A p \in Numbers : Ours(p) =>
        Follows(live[p]) /\ (live[p].stopped <=> p \in kill.stopped /\ ~Sent(p))
TreeSignalled ==
    kill.phase = "signalling" => \A p \in Numbers : Ours(p) =>
        IF Sent(p) THEN Acted(live[p], p) ELSE Follows(live[p]) /\ ~live[p].stopped
TreeDone ==
    kill.phase \in {"waiting", "returned"} /\ kill.targets # <<>> => \A p \in Numbers : Ours(p) =>
        Acted(live[p], p)

TreeInv == TreeTypes /\ TreeRead /\ TreeFound /\ TreeContinued /\ TreeSignalled /\ TreeDone

(* At first the call has read nothing.                                     *)
LEMMA TreeInit == Tree!Init => TreeInv
<1> SUFFICES ASSUME Tree!Init PROVE TreeInv
  OBVIOUS
<1>1. PICK st \in SUBSET {"a", "b", "c"} :
         live = [p \in Numbers |-> CASE p = 2 -> Tree!Process(1, "a" \in st)
                                     [] p = 3 -> Tree!Process(2, "b" \in st)
                                     [] p = 4 -> Tree!Process(3, "c" \in st)
                                     [] OTHER -> Tree!NoOne]
  BY DEF Tree!Init
<1>2. PICK s \in Signals, w \in BOOLEAN :
         kill = [Tree!Idle EXCEPT !.phase = "reading", !.root = 2, !.signal = s, !.wait = w]
  BY DEF Tree!Init
<1>3. live \in [Numbers -> Procs] /\ \A p \in Numbers : live[p].term = FALSE
  <2> DEFINE a == "a" \in st
             b == "b" \in st
             c == "c" \in st
  <2>1. a \in BOOLEAN /\ b \in BOOLEAN /\ c \in BOOLEAN OBVIOUS
  <2>2. live = [p \in Numbers |-> IF p = 2 THEN Tree!Process(1, a) ELSE IF p = 3 THEN Tree!Process(2, b)
                                  ELSE IF p = 4 THEN Tree!Process(3, c) ELSE Tree!NoOne]
    BY <1>1
  <2> HIDE DEF a, b, c
  <2>3. /\ Tree!Process(1, a) \in Procs /\ Tree!Process(2, b) \in Procs /\ Tree!Process(3, c) \in Procs
        /\ Tree!NoOne \in Procs
    BY <2>1, NumbersAssumption DEF Tree!Process, Procs
  <2>4. /\ Tree!Process(1, a).term = FALSE /\ Tree!Process(2, b).term = FALSE
        /\ Tree!Process(3, c).term = FALSE /\ Tree!NoOne.term = FALSE
    BY DEF Tree!Process, Tree!NoOne
  <2> QED BY <2>2, <2>3, <2>4
<1>4. /\ Has(kill, KillFields) /\ kill.phase = "reading" /\ kill.signal = s /\ kill.next = 0
      /\ DOMAIN kill.parent = {} /\ kill.stopped = {} /\ kill.targets = <<>> /\ kill.tries = 0
  BY <1>2 DEF Tree!Idle, Has, KillFields
<1>5. others \in [steps : 0 .. MaxOthers, touched : SUBSET Numbers]
  <2>1. others = [steps |-> 0, touched |-> {}] /\ MaxOthers \in Nat BY BoundsAssumption DEF Tree!Init
  <2> QED BY <2>1
<1>6. 0 \in 0 .. MaxAttempts /\ 0 < MaxAttempts BY BoundsAssumption, NumbersAssumption
<1>7. TreeTypes BY <1>3, <1>4, <1>5, <1>6 DEF TreeTypes
<1>8. TreeRead BY <1>3, <1>4 DEF TreeRead
<1> QED BY <1>4, <1>7, <1>8 DEF TreeInv, TreeFound, TreeContinued, TreeSignalled, TreeDone

(* What others do to a process leaves the rest of the tree, and the call.  *)
LEMMA TreeTouched ==
    ASSUME TreeInv, NEW ps \in SUBSET Numbers, Tree!Others(ps), live' \in [Numbers -> Procs],
           \A q \in Numbers : q \notin ps => Same(live[q], live'[q])
    PROVE  TreeInv'
<1>1. kill' = kill /\ kill.phase # "returned" BY DEF Tree!Others
<1>2. /\ others' = [steps |-> others.steps + 1, touched |-> others.touched \cup ps]
      /\ others.steps < MaxOthers
  BY DEF Tree!Others
<1>3. TreeTypes /\ others \in [steps : 0 .. MaxOthers, touched : SUBSET Numbers] BY DEF TreeInv, TreeTypes
<1>4. others' \in [steps : 0 .. MaxOthers, touched : SUBSET Numbers]
  <2>1. others.steps \in 0 .. MaxOthers /\ others.touched \in SUBSET Numbers BY <1>3
  <2>2. MaxOthers \in Nat BY BoundsAssumption
  <2>3. others.steps + 1 \in 0 .. MaxOthers BY <1>2, <2>1, <2>2
  <2> QED BY <1>2, <2>1, <2>3
<1>5. TreeTypes' BY <1>1, <1>3, <1>4 DEF TreeTypes
<1>6. Tree!Found' = Tree!Found BY <1>1 DEF Tree!Found
<1>7. \A q \in Numbers : q \notin others'.touched =>
         /\ q \notin others.touched
         /\ live'[q].stopped = live[q].stopped /\ live'[q].term = live[q].term
         /\ live'[q] = Tree!NoOne <=> live[q] = Tree!NoOne
  BY <1>2 DEF Same
<1>8. TreeRead' BY <1>1, <1>7 DEF TreeInv, TreeRead
<1>9. TreeFound' BY <1>1, <1>6 DEF TreeInv, TreeFound
<1>10. \A q \in Numbers : Ours(q)' => Ours(q) BY <1>6, <1>7 DEF Ours
<1>11. \A q \in Numbers : q \notin others'.touched =>
          /\ Follows(live[q])' <=> Follows(live[q])
          /\ Acted(live[q], q)' <=> Acted(live[q], q)
          /\ Sent(q)' <=> Sent(q)
  BY <1>1, <1>7 DEF Follows, Acted, Sent
<1>12. \A q \in Numbers : Ours(q)' => q \notin others'.touched BY DEF Ours
<1>13. TreeContinued' BY <1>1, <1>7, <1>10, <1>11, <1>12 DEF TreeInv, TreeContinued
<1>14. TreeSignalled' BY <1>1, <1>7, <1>10, <1>11, <1>12 DEF TreeInv, TreeSignalled
<1>15. TreeDone' BY <1>1, <1>10, <1>11, <1>12 DEF TreeInv, TreeDone
<1> QED BY <1>5, <1>8, <1>9, <1>13, <1>14, <1>15 DEF TreeInv

(* Forks, exits and signals of others.                                     *)
LEMMA TreeEnvironment == ASSUME TreeInv, Tree!Environment PROVE TreeInv'
<1>1. live \in [Numbers -> Procs] BY DEF TreeInv, TreeTypes
<1>2. \A a : Same(a, a) BY DEF Same
<1>3. CASE Tree!ForkChild
  <2>1. PICK p \in Tree!Living, c \in Numbers \ Tree!Living :
           /\ live' = [live EXCEPT ![c] = Tree!Process(p, FALSE)]
           /\ Tree!Others({c})
    BY <1>3 DEF Tree!ForkChild
  <2>2. p \in Numbers BY DEF Tree!Living
  <2>3. Tree!Process(p, FALSE) \in Procs BY <2>2 DEF Tree!Process, Procs
  <2>4. live' \in [Numbers -> Procs] BY <1>1, <2>1, <2>3
  <2>5. \A q \in Numbers : q \notin {c} => Same(live[q], live'[q]) BY <1>1, <1>2, <2>1
  <2> QED BY <2>1, <2>4, <2>5, TreeTouched
<1>4. CASE Tree!ExitsItself
  <2>1. PICK p \in Tree!Living : live' = Tree!Gone({p}, live) /\ Tree!Others({p})
    BY <1>4 DEF Tree!ExitsItself
  <2>2. p \in Numbers BY DEF Tree!Living
  <2>3. live' \in [Numbers -> Procs] /\ \A q \in Numbers : q # p => Same(live[q], live'[q])
    BY <1>1, <2>1, <2>2, GoneAt
  <2> QED BY <2>1, <2>2, <2>3, TreeTouched
<1>5. CASE Tree!StoppedOrContinued
  <2>1. PICK p \in Tree!Living, s \in {"STOP", "CONT"} :
           live' = Tree!Signalled(live, p, s) /\ Tree!Others({p})
    BY <1>5 DEF Tree!StoppedOrContinued
  <2>2. p \in Numbers BY DEF Tree!Living
  <2>3. live' \in [Numbers -> Procs] /\ \A q \in Numbers : q # p => Same(live[q], live'[q])
    BY <1>1, <2>1, <2>2, SignalledAt
  <2> QED BY <2>1, <2>2, <2>3, TreeTouched
<1> QED BY <1>3, <1>4, <1>5 DEF Tree!Environment

(* The next entry of /proc.                                                *)
LEMMA TreeReadEntry == ASSUME TreeInv, Tree!ReadEntry PROVE TreeInv'
<1> DEFINE T == {q \in Numbers : q > kill.next}
           next == CHOOSE q \in Numbers : q > kill.next /\ \A r \in Numbers : r > kill.next => q <= r
<1>1. TreeTypes /\ kill.phase = "reading" /\ T # {} BY DEF Tree!ReadEntry, TreeInv
<1>2. next \in Numbers /\ Numbers \in SUBSET Nat
  <2>1. Numbers \in SUBSET Nat BY NumbersAssumption
  <2>2. \E m \in T : \A k \in T : m <= k
    <3>1. T \in SUBSET Nat BY <2>1
    <3> HIDE DEF T
    <3> QED BY <1>1, <3>1, LeastNat
  <2>3. \E q \in Numbers : q > kill.next /\ \A r \in Numbers : r > kill.next => q <= r BY <2>2
  <2> QED BY <2>1, <2>3
<1> DEFINE parent == IF next \in Tree!Living
                     THEN [q \in DOMAIN kill.parent \cup {next} |->
                             IF q = next THEN live[next].parent ELSE kill.parent[q]]
                     ELSE kill.parent
           stopped == IF next \in Tree!Living /\ live[next].stopped THEN kill.stopped \cup {next}
                      ELSE kill.stopped
<1>3. kill' = [kill EXCEPT !.next = next, !.parent = parent, !.stopped = stopped]
  BY Zenon DEF Tree!ReadEntry
<1>4. live' = live /\ others' = others BY DEF Tree!ReadEntry
<1> HIDE DEF next
<1>5. /\ DOMAIN parent = DOMAIN kill.parent \cup (IF next \in Tree!Living THEN {next} ELSE {})
      /\ stopped = IF next \in Tree!Living /\ live[next].stopped THEN kill.stopped \cup {next}
                   ELSE kill.stopped
  OBVIOUS
<1> HIDE DEF parent, stopped
<1>6. DOMAIN parent \in SUBSET Numbers /\ stopped \in SUBSET DOMAIN parent
  <2>1. DOMAIN kill.parent \in SUBSET Numbers /\ kill.stopped \in SUBSET DOMAIN kill.parent
    BY <1>1 DEF TreeTypes
  <2> QED BY <1>2, <1>5, <2>1
<1>7. /\ Has(kill', KillFields) /\ kill'.phase = "reading" /\ kill'.next = next
      /\ kill'.parent = parent /\ kill'.stopped = stopped
      /\ kill'.signal = kill.signal /\ kill'.targets = kill.targets /\ kill'.tries = kill.tries
  <2>1. kill = [f \in KillFields |-> kill[f]] BY <1>1 DEF TreeTypes, Has
  <2> QED BY <1>1, <1>3, <2>1 DEF Has, KillFields
<1>8. next \in Nat BY <1>2
<1>9. TreeTypes' BY <1>1, <1>4, <1>6, <1>7, <1>8 DEF TreeTypes
<1>10. TreeRead'
  <2>1. /\ kill.targets = <<>>
        /\ \A p \in Numbers : p \notin others.touched =>
              /\ ~live[p].term
              /\ p \in DOMAIN kill.parent =>
                    live[p] # Tree!NoOne /\ (live[p].stopped <=> p \in kill.stopped)
    BY <1>1 DEF TreeInv, TreeRead
  <2>2. kill.stopped \in SUBSET DOMAIN kill.parent BY <1>1 DEF TreeTypes
  <2>3. ASSUME NEW p \in Numbers, p \notin others.touched, p \in DOMAIN parent
        PROVE  live[p] # Tree!NoOne /\ (live[p].stopped <=> p \in stopped)
    <3>1. CASE p = next /\ next \in Tree!Living
      <4>1. live[p] # Tree!NoOne BY <3>1 DEF Tree!Living
      <4>2. CASE p \in DOMAIN kill.parent BY <1>5, <2>1, <2>3, <3>1, <4>1, <4>2
      <4>3. CASE p \notin DOMAIN kill.parent BY <1>5, <2>2, <3>1, <4>1, <4>3
      <4> QED BY <4>2, <4>3
    <3>2. CASE ~(p = next /\ next \in Tree!Living)
      <4>1. p \in DOMAIN kill.parent BY <1>5, <2>3, <3>2
      <4> QED BY <1>5, <2>1, <2>3, <3>2, <4>1
    <3> QED BY <3>1, <3>2
  <2> QED BY <1>4, <1>7, <2>1, <2>3 DEF TreeRead
<1> QED BY <1>7, <1>9, <1>10 DEF TreeInv, TreeFound, TreeContinued, TreeSignalled, TreeDone

(* When all is read: the root has gone, or the tree below it is collected. *)
LEMMA TreeCollect == ASSUME TreeInv, Tree!RootNotFound \/ Tree!Collect PROVE TreeInv'
<1>1. TreeTypes /\ kill.phase = "reading" /\ live' = live /\ others' = others
  BY DEF Tree!RootNotFound, Tree!Collect, TreeInv
<1>2. kill = [f \in KillFields |-> kill[f]] BY <1>1 DEF TreeTypes, Has
<1>3. /\ kill.targets = <<>>
      /\ \A p \in Numbers : p \notin others.touched =>
            /\ ~live[p].term
            /\ p \in DOMAIN kill.parent =>
                  live[p] # Tree!NoOne /\ (live[p].stopped <=> p \in kill.stopped)
  BY <1>1 DEF TreeInv, TreeRead
<1>4. CASE Tree!RootNotFound
  <2>1. kill' = [kill EXCEPT !.phase = "returned", !.answer = FALSE] BY <1>4 DEF Tree!RootNotFound
  <2>2. /\ Has(kill', KillFields) /\ kill'.phase = "returned" /\ kill'.next = kill.next
        /\ kill'.parent = kill.parent /\ kill'.stopped = kill.stopped
        /\ kill'.signal = kill.signal /\ kill'.targets = <<>> /\ kill'.tries = kill.tries
    BY <1>2, <1>3, <2>1 DEF Has, KillFields
  <2>3. TreeTypes' BY <1>1, <1>3, <2>2 DEF TreeTypes
  <2> QED BY <2>2, <2>3 DEF TreeInv, TreeRead, TreeFound, TreeContinued, TreeSignalled, TreeDone
<1>5. CASE Tree!Collect
  <2> DEFINE list == Tree!PostOrder(kill.parent, kill.root)
  <2>1. /\ kill' = [kill EXCEPT !.phase = "continuing", !.targets = list, !.next = 1]
        /\ kill.root \in DOMAIN kill.parent
    BY <1>5 DEF Tree!Collect
  <2>2. DOMAIN kill.parent \in SUBSET Numbers BY <1>1 DEF TreeTypes
  <2>3. /\ list \in Seq(Numbers) /\ kill.root \in Tree!Found
        /\ Tree!Found \subseteq Tree!Range(list) /\ Tree!Found \subseteq DOMAIN kill.parent
    BY <2>1, <2>2, FoundListed DEF Tree!Found
  <2> HIDE DEF list
  <2>4. /\ Has(kill', KillFields) /\ kill'.phase = "continuing" /\ kill'.next = 1
        /\ kill'.parent = kill.parent /\ kill'.root = kill.root /\ kill'.stopped = kill.stopped
        /\ kill'.signal = kill.signal /\ kill'.targets = list /\ kill'.tries = kill.tries
    BY <1>2, <2>1 DEF Has, KillFields
  <2>5. Tree!Found' = Tree!Found BY <2>4 DEF Tree!Found
  <2>6. 1 \in DOMAIN list
    <3>1. PICK i \in DOMAIN list : list[i] = kill.root BY <2>3 DEF Tree!Range
    <3>2. DOMAIN list = 1 .. Len(list) /\ Len(list) \in Nat BY <2>3
    <3> QED BY <3>1, <3>2
  <2>7. TreeTypes' BY <1>1, <2>3, <2>4 DEF TreeTypes
  <2>8. TreeFound' BY <2>3, <2>4, <2>5, <2>6 DEF TreeFound
  <2>9. TreeContinued'
    <3>1. ASSUME NEW p \in Numbers, Ours(p)'
          PROVE  Follows(live[p]) /\ (live[p].stopped <=> p \in kill.stopped) /\ ~Sent(p)'
      <4>1. p \in DOMAIN kill.parent /\ p \notin others.touched BY <1>1, <2>3, <2>5, <3>1 DEF Ours
      <4>2. ~Sent(p)'
        <5>1. DOMAIN list = 1 .. Len(list) BY <2>3
        <5> QED BY <2>4, <5>1 DEF Sent
      <4> QED BY <1>3, <4>1, <4>2 DEF Follows
    <3> QED BY <1>1, <2>4, <3>1 DEF TreeContinued, Follows
  <2> QED BY <2>4, <2>7, <2>8, <2>9 DEF TreeInv, TreeRead, TreeSignalled, TreeDone
<1> QED BY <1>4, <1>5

(* The pass goes on to the next target, or all that was found is passed.   *)
LEMMA PassGoesOn ==
    ASSUME TreeInv, kill.phase \in {"continuing", "signalling"}, kill' = Tree!Passed
    PROVE  /\ kill.next \in DOMAIN kill.targets /\ kill.targets[kill.next] \in Numbers
           /\ Has(kill', KillFields)
           /\ kill'.root = kill.root /\ kill'.parent = kill.parent /\ kill'.stopped = kill.stopped
           /\ kill'.signal = kill.signal /\ kill'.targets = kill.targets /\ kill'.tries = kill.tries
           /\ kill'.next \in DOMAIN kill.targets
           /\ \/ /\ kill'.phase = kill.phase
                 /\ \A q : Sent(q)' <=> Sent(q) \/ q = kill.targets[kill.next]
              \/ /\ kill'.phase = Tree!AfterPass
                 /\ \A q \in Tree!Found : Sent(q) \/ q = kill.targets[kill.next]
                 /\ \A q : ~Sent(q)'
<1>1. kill = [f \in KillFields |-> kill[f]] BY DEF TreeInv, TreeTypes, Has
<1>2. /\ kill.targets \in Seq(Numbers) /\ kill.next \in DOMAIN kill.targets
      /\ Tree!Found \subseteq Tree!Range(kill.targets)
  BY DEF TreeInv, TreeTypes, TreeFound
<1>3. /\ DOMAIN kill.targets = 1 .. Len(kill.targets) /\ Len(kill.targets) \in Nat /\ kill.next \in Nat
      /\ kill.targets[kill.next] \in Numbers
  BY <1>2
<1>4. CASE kill.next < Len(kill.targets)
  <2>1. kill' = [kill EXCEPT !.next = @ + 1] BY <1>4 DEF Tree!Passed
  <2>2. /\ Has(kill', KillFields) /\ kill'.next = kill.next + 1 /\ kill'.phase = kill.phase
        /\ kill'.root = kill.root /\ kill'.parent = kill.parent /\ kill'.stopped = kill.stopped
        /\ kill'.signal = kill.signal /\ kill'.targets = kill.targets /\ kill'.tries = kill.tries
    BY <1>1, <2>1 DEF Has, KillFields
  <2>3. kill'.next \in DOMAIN kill.targets BY <1>3, <1>4, <2>2
  <2>4. \A q : Sent(q)' <=> Sent(q) \/ q = kill.targets[kill.next]
    <3>1. \A i \in DOMAIN kill.targets : i < kill.next + 1 <=> i < kill.next \/ i = kill.next BY <1>3
    <3> QED BY <1>2, <2>2, <3>1 DEF Sent
  <2> QED BY <1>2, <1>3, <2>2, <2>3, <2>4
<1>5. CASE ~(kill.next < Len(kill.targets))
  <2>1. kill' = [kill EXCEPT !.next = 1, !.phase = Tree!AfterPass,
                             !.answer = Tree!AfterPass = "returned"]
    BY <1>5 DEF Tree!Passed
  <2>2. /\ Has(kill', KillFields) /\ kill'.next = 1 /\ kill'.phase = Tree!AfterPass
        /\ kill'.root = kill.root /\ kill'.parent = kill.parent /\ kill'.stopped = kill.stopped
        /\ kill'.signal = kill.signal /\ kill'.targets = kill.targets /\ kill'.tries = kill.tries
    BY <1>1, <2>1 DEF Has, KillFields
  <2>3. 1 \in DOMAIN kill.targets BY <1>2, <1>3
  <2>4. \A q : ~Sent(q)' BY <1>3, <2>2 DEF Sent
  <2>5. \A q \in Tree!Found : Sent(q) \/ q = kill.targets[kill.next]
    <3> SUFFICES ASSUME NEW q \in Tree!Found PROVE Sent(q) \/ q = kill.targets[kill.next]
      OBVIOUS
    <3>1. PICK i \in DOMAIN kill.targets : kill.targets[i] = q BY <1>2 DEF Tree!Range
    <3>2. i < kill.next \/ i = kill.next BY <1>3, <1>5
    <3> QED BY <3>1, <3>2 DEF Sent
  <2> QED BY <1>2, <1>3, <2>2, <2>3, <2>4, <2>5
<1> QED BY <1>4, <1>5

(* A step of a pass keeps the types, and what was found.                   *)
LEMMA PassKeeps ==
    ASSUME TreeInv, kill.phase \in {"continuing", "signalling"}, kill' = Tree!Passed,
           live' \in [Numbers -> Procs], others' = others
    PROVE  TreeTypes' /\ TreeRead' /\ TreeFound' /\ Tree!Found' = Tree!Found
<1>1. /\ Has(kill', KillFields)
      /\ kill'.root = kill.root /\ kill'.parent = kill.parent /\ kill'.stopped = kill.stopped
      /\ kill'.signal = kill.signal /\ kill'.targets = kill.targets /\ kill'.tries = kill.tries
      /\ kill'.next \in DOMAIN kill.targets
      /\ kill'.phase = kill.phase \/ kill'.phase = Tree!AfterPass
  BY PassGoesOn
<1>2. kill'.phase \in {"continuing", "signalling", "waiting", "returned"} BY <1>1 DEF Tree!AfterPass
<1>3. TreeTypes /\ TreeFound BY DEF TreeInv
<1>4. kill.tries < MaxAttempts BY <1>3 DEF TreeTypes
<1>5. kill'.next \in Nat
  <2>1. kill.targets \in Seq(Numbers) BY <1>3 DEF TreeTypes
  <2>2. DOMAIN kill.targets = 1 .. Len(kill.targets) BY <2>1
  <2> QED BY <1>1, <2>2
<1>6. TreeTypes' BY <1>1, <1>2, <1>3, <1>4, <1>5 DEF TreeTypes
<1>7. Tree!Found' = Tree!Found BY <1>1 DEF Tree!Found
<1>8. TreeFound' BY <1>1, <1>3, <1>7 DEF TreeFound
<1>9. TreeRead' BY <1>2 DEF TreeRead
<1> QED BY <1>6, <1>7, <1>8, <1>9

(* The first pass continues a target that was stopped.                     *)
LEMMA TreeContinueTarget == ASSUME TreeInv, Tree!ContinueTarget PROVE TreeInv'
<1> DEFINE p == kill.targets[kill.next]
<1>1. kill.phase = "continuing" /\ kill' = Tree!Passed /\ others' = others BY DEF Tree!ContinueTarget
<1>2. live' = IF p \in kill.stopped THEN Tree!Signalled(live, p, "CONT") ELSE live
  BY DEF Tree!ContinueTarget
<1>3. /\ p \in Numbers /\ kill'.stopped = kill.stopped
      /\ \/ /\ kill'.phase = kill.phase
            /\ \A q : Sent(q)' <=> Sent(q) \/ q = p
         \/ /\ kill'.phase = Tree!AfterPass
            /\ \A q \in Tree!Found : Sent(q) \/ q = p
            /\ \A q : ~Sent(q)'
  BY <1>1, PassGoesOn
<1> HIDE DEF p
<1>4. live \in [Numbers -> Procs] BY DEF TreeInv, TreeTypes
<1>5. /\ live' \in [Numbers -> Procs]
      /\ \A q \in Numbers : q # p => Same(live[q], live'[q])
      /\ Follows(live[p]) /\ p \in kill.stopped => Follows(live'[p]) /\ ~live'[p].stopped
      /\ p \notin kill.stopped => live'[p] = live[p]
  <2>1. CASE p \in kill.stopped BY <1>2, <1>3, <1>4, <2>1, SignalledAt
  <2>2. CASE p \notin kill.stopped BY <1>2, <1>4, <2>2 DEF Same
  <2> QED BY <2>1, <2>2
<1>6. TreeTypes' /\ TreeRead' /\ TreeFound' /\ Tree!Found' = Tree!Found BY <1>1, <1>5, PassKeeps
<1>7. ASSUME NEW q \in Numbers, Ours(q)'
      PROVE  Follows(live'[q]) /\ (live'[q].stopped <=> q \in kill.stopped /\ ~(Sent(q) \/ q = p))
  <2>1. Ours(q) BY <1>1, <1>6, <1>7 DEF Ours
  <2>2. Follows(live[q]) /\ (live[q].stopped <=> q \in kill.stopped /\ ~Sent(q))
    BY <1>1, <2>1 DEF TreeInv, TreeContinued
  <2>3. CASE q = p BY <1>5, <2>2, <2>3
  <2>4. CASE q # p
    <3>1. Same(live[q], live'[q]) BY <1>5, <2>4
    <3> QED BY <2>2, <2>4, <3>1 DEF Same, Follows
  <2> QED BY <2>3, <2>4
<1>8. CASE kill'.phase = kill.phase /\ \A q : Sent(q)' <=> Sent(q) \/ q = p
  <2>1. TreeContinued' BY <1>1, <1>3, <1>7, <1>8 DEF TreeContinued, Follows
  <2> QED BY <1>1, <1>6, <1>8, <2>1 DEF TreeInv, TreeSignalled, TreeDone
<1>9. CASE /\ kill'.phase = Tree!AfterPass
           /\ \A q \in Tree!Found : Sent(q) \/ q = p
           /\ \A q : ~Sent(q)'
  <2>1. kill'.phase = "signalling" BY <1>1, <1>9 DEF Tree!AfterPass
  <2>2. ASSUME NEW q \in Numbers, Ours(q)' PROVE Follows(live'[q]) /\ ~live'[q].stopped
    <3>1. Sent(q) \/ q = p BY <1>6, <1>9, <2>2 DEF Ours
    <3> QED BY <1>7, <2>2, <3>1
  <2>3. TreeSignalled' BY <1>9, <2>2 DEF TreeSignalled, Follows
  <2> QED BY <1>6, <2>1, <2>3 DEF TreeInv, TreeContinued, TreeDone
<1> QED BY <1>3, <1>8, <1>9

(* The second pass signals a target, and continues what was stopped.       *)
LEMMA TreeSignalTarget == ASSUME TreeInv, Tree!SignalTarget PROVE TreeInv'
<1> DEFINE p == kill.targets[kill.next]
           sent == Tree!Signalled(live, p, kill.signal)
<1>1. kill.phase = "signalling" /\ kill' = Tree!Passed /\ others' = others BY DEF Tree!SignalTarget
<1>2. live' = IF kill.signal # "CONT" /\ p \in kill.stopped
              THEN Tree!Signalled(sent, p, "CONT") ELSE sent
  BY DEF Tree!SignalTarget, Tree!ContinuesAfter
<1>3. /\ p \in Numbers /\ kill'.stopped = kill.stopped /\ kill'.signal = kill.signal
      /\ kill'.targets = kill.targets
      /\ \/ /\ kill'.phase = kill.phase
            /\ \A q : Sent(q)' <=> Sent(q) \/ q = p
         \/ /\ kill'.phase = Tree!AfterPass
            /\ \A q \in Tree!Found : Sent(q) \/ q = p
            /\ \A q : ~Sent(q)'
  BY <1>1, PassGoesOn
<1>4. /\ live \in [Numbers -> Procs] /\ kill.signal \in {"TERM", "KILL", "STOP", "CONT"}
  BY NumbersAssumption DEF TreeInv, TreeTypes
<1> HIDE DEF p
<1>5. /\ sent \in [Numbers -> Procs]
      /\ \A q \in Numbers : q # p => Same(live[q], sent[q])
      /\ live[p] = Tree!NoOne => sent[p] = Tree!NoOne
      /\ kill.signal = "KILL" => sent[p] = Tree!NoOne
      /\ kill.signal = "TERM" /\ ~live[p].stopped => sent[p] = Tree!NoOne
      /\ kill.signal = "STOP" /\ Follows(live[p]) => Follows(sent[p]) /\ sent[p].stopped
      /\ kill.signal = "CONT" /\ Follows(live[p]) => Follows(sent[p]) /\ ~sent[p].stopped
  <2> DEFINE s == kill.signal
  <2>1. s \in {"TERM", "KILL", "STOP", "CONT"} /\ sent = Tree!Signalled(live, p, s) BY <1>4
  <2> HIDE DEF s, sent
  <2>2. /\ Tree!Signalled(live, p, s) \in [Numbers -> Procs]
        /\ \A q \in Numbers : q # p => Same(live[q], Tree!Signalled(live, p, s)[q])
        /\ live[p] = Tree!NoOne => Tree!Signalled(live, p, s)[p] = Tree!NoOne
        /\ s = "KILL" => Tree!Signalled(live, p, s)[p] = Tree!NoOne
        /\ s = "TERM" /\ ~live[p].stopped => Tree!Signalled(live, p, s)[p] = Tree!NoOne
        /\ s = "STOP" /\ Follows(live[p]) => /\ Follows(Tree!Signalled(live, p, s)[p])
                                             /\ Tree!Signalled(live, p, s)[p].stopped
        /\ s = "CONT" /\ Follows(live[p]) => /\ Follows(Tree!Signalled(live, p, s)[p])
                                             /\ ~Tree!Signalled(live, p, s)[p].stopped
    BY <1>3, <1>4, <2>1, SignalledAt
  <2> QED BY <2>1, <2>2 DEF s
<1> HIDE DEF sent
<1>6. /\ live' \in [Numbers -> Procs]
      /\ \A q \in Numbers : q # p => Same(sent[q], live'[q])
      /\ sent[p] = Tree!NoOne => live'[p] = Tree!NoOne
      /\ Follows(sent[p]) => Follows(live'[p])
      /\ kill.signal = "CONT" \/ p \notin kill.stopped => live'[p] = sent[p]
  <2>1. CASE kill.signal # "CONT" /\ p \in kill.stopped BY <1>2, <1>3, <1>5, <2>1, SignalledAt
  <2>2. CASE ~(kill.signal # "CONT" /\ p \in kill.stopped) BY <1>2, <1>5, <2>2 DEF Same
  <2> QED BY <2>1, <2>2
<1>7. TreeTypes' /\ TreeRead' /\ TreeFound' /\ Tree!Found' = Tree!Found BY <1>1, <1>6, PassKeeps
\* What a target does when it is signalled, for the first time or again.
<1>8. ASSUME Acted(live[p], p) \/ (Follows(live[p]) /\ ~live[p].stopped)
      PROVE  Acted(live'[p], p)
  <2>1. CASE kill.signal \in {"TERM", "KILL"}
    <3>1. live[p] = Tree!NoOne \/ ~live[p].stopped BY <1>8, <2>1 DEF Acted
    <3> QED BY <1>5, <1>6, <2>1, <3>1 DEF Acted
  <2>2. CASE kill.signal = "STOP"
    <3>1. Follows(live[p]) BY <1>8, <2>2 DEF Acted
    <3>2. Follows(live'[p]) /\ (p \notin kill.stopped => live'[p].stopped) BY <1>5, <1>6, <2>2, <3>1
    <3> QED BY <2>2, <3>2 DEF Acted
  <2>3. CASE kill.signal = "CONT"
    <3>1. Follows(live[p]) BY <1>8, <2>3 DEF Acted
    <3>2. Follows(live'[p]) /\ ~live'[p].stopped BY <1>5, <1>6, <2>3, <3>1
    <3> QED BY <2>3, <3>2 DEF Acted
  <2> QED BY <1>4, <2>1, <2>2, <2>3
<1>9. ASSUME NEW q \in Numbers, Ours(q)'
      PROVE  IF Sent(q) \/ q = p THEN Acted(live'[q], q) ELSE Follows(live'[q]) /\ ~live'[q].stopped
  <2>1. Ours(q) BY <1>1, <1>7, <1>9 DEF Ours
  <2>2. IF Sent(q) THEN Acted(live[q], q) ELSE Follows(live[q]) /\ ~live[q].stopped
    BY <1>1, <2>1 DEF TreeInv, TreeSignalled
  <2>3. CASE q = p BY <1>8, <2>2, <2>3
  <2>4. CASE q # p
    <3>1. Same(live[q], sent[q]) /\ Same(sent[q], live'[q]) BY <1>5, <1>6, <2>4
    <3>2. Same(live[q], live'[q]) BY <3>1 DEF Same
    <3> QED BY <2>2, <2>4, <3>2 DEF Same, Follows, Acted
  <2> QED BY <2>3, <2>4
<1>10. CASE kill'.phase = kill.phase /\ \A q : Sent(q)' <=> Sent(q) \/ q = p
  <2>1. TreeSignalled' BY <1>3, <1>9, <1>10 DEF TreeSignalled, Acted, Follows
  <2> QED BY <1>1, <1>7, <1>10, <2>1 DEF TreeInv, TreeContinued, TreeDone
<1>11. CASE /\ kill'.phase = Tree!AfterPass
            /\ \A q \in Tree!Found : Sent(q) \/ q = p
            /\ \A q : ~Sent(q)'
  <2>1. kill'.phase \in {"waiting", "returned"} BY <1>1, <1>11 DEF Tree!AfterPass
  <2>2. ASSUME NEW q \in Numbers, Ours(q)' PROVE Acted(live'[q], q)
    <3>1. Sent(q) \/ q = p BY <1>7, <1>11, <2>2 DEF Ours
    <3> QED BY <1>9, <2>2, <3>1
  <2>3. TreeDone' BY <1>3, <2>2 DEF TreeDone, Acted, Follows
  <2> QED BY <1>7, <2>1, <2>3 DEF TreeInv, TreeContinued, TreeSignalled
<1> QED BY <1>3, <1>10, <1>11

(* waitExited looks once more, or gives up.                                *)
LEMMA TreeLook == ASSUME TreeInv, Tree!Look PROVE TreeInv'
<1>1. /\ kill.phase = "waiting" /\ live' = live /\ others' = others /\ TreeTypes
      /\ kill' = IF Tree!Exited \/ kill.tries + 1 = MaxAttempts
                 THEN [kill EXCEPT !.phase = "returned", !.answer = Tree!Exited, !.tries = @ + 1]
                 ELSE [kill EXCEPT !.tries = @ + 1]
  BY DEF Tree!Look, TreeInv
<1>2. kill = [f \in KillFields |-> kill[f]] BY <1>1 DEF TreeTypes, Has
<1>3. /\ Has(kill', KillFields) /\ kill'.tries = kill.tries + 1 /\ kill'.next = kill.next
      /\ kill'.root = kill.root /\ kill'.parent = kill.parent /\ kill'.stopped = kill.stopped
      /\ kill'.signal = kill.signal /\ kill'.targets = kill.targets
      /\ kill'.phase = "returned" \/ (kill'.phase = "waiting" /\ kill.tries + 1 # MaxAttempts)
  <2> DEFINE exited == Tree!Exited
  <2> HIDE DEF exited
  <2>1. kill' = IF exited \/ kill.tries + 1 = MaxAttempts
                THEN [kill EXCEPT !.phase = "returned", !.answer = exited, !.tries = @ + 1]
                ELSE [kill EXCEPT !.tries = @ + 1]
    BY <1>1 DEF exited
  <2> QED BY <1>1, <1>2, <2>1 DEF Has, KillFields
<1>4. kill'.tries \in 0 .. MaxAttempts /\ (kill'.phase # "returned" => kill'.tries < MaxAttempts)
  <2>1. kill.tries \in 0 .. MaxAttempts /\ kill.tries < MaxAttempts BY <1>1 DEF TreeTypes
  <2>2. MaxAttempts \in Nat BY BoundsAssumption
  <2> QED BY <1>3, <2>1, <2>2
<1>5. TreeTypes' BY <1>1, <1>3, <1>4 DEF TreeTypes
<1>6. Tree!Found' = Tree!Found BY <1>3 DEF Tree!Found
<1>7. TreeFound' BY <1>1, <1>3, <1>6 DEF TreeInv, TreeFound
<1>8. TreeDone' BY <1>1, <1>3, <1>6 DEF TreeInv, TreeDone, Ours, Acted, Follows
<1> QED BY <1>3, <1>5, <1>7, <1>8 DEF TreeInv, TreeRead, TreeContinued, TreeSignalled

(* Every step keeps the invariant.                                         *)
LEMMA TreeStep == ASSUME TreeInv, Tree!Next PROVE TreeInv'
  BY TreeReadEntry, TreeCollect, TreeContinueTarget, TreeSignalTarget, TreeLook, TreeEnvironment
     DEF Tree!Next, Tree!Call

(* Every reachable state satisfies the invariant of the tree.              *)
LEMMA TreeAlways == Spec => []TreeInv
<1>1. Init => TreeInv BY TreeInit DEF Init
<1>2. TreeInv /\ [Next]_vars => TreeInv'
  <2> SUFFICES ASSUME TreeInv, [Next]_vars PROVE TreeInv'
    OBVIOUS
  <2>1. CASE UNCHANGED treeVars
    <3>1. live' = live /\ others' = others /\ kill' = kill BY <2>1 DEF treeVars
    <3>2. Tree!Found' = Tree!Found BY <3>1 DEF Tree!Found
    <3>3. TreeTypes' BY <3>1 DEF TreeInv, TreeTypes
    <3>4. TreeRead' /\ TreeFound' BY <3>1, <3>2 DEF TreeInv, TreeRead, TreeFound
    <3>5. \A p : (Ours(p)' <=> Ours(p)) /\ (Sent(p)' <=> Sent(p)) BY <3>1, <3>2 DEF Ours, Sent
    <3>6. TreeContinued' BY <3>1, <3>5 DEF TreeInv, TreeContinued, Follows
    <3>7. TreeSignalled' /\ TreeDone' BY <3>1, <3>5 DEF TreeInv, TreeSignalled, TreeDone, Acted, Follows
    <3> QED BY <3>3, <3>4, <3>6, <3>7 DEF TreeInv
  <2>2. Tree!Next \/ UNCHANGED treeVars
    BY DEF Next, vars, OnlyLists, OnlyTree, OnlyTop, OnlyPrivacy, OnlyJobs, OnlyWindows,
           OnlyPower, treeVars
  <2> QED BY <2>1, <2>2, TreeStep
<1> QED BY <1>1, <1>2, PTL DEF Spec

(* When killProcessTree has returned, every process of the tree that was   *)
(* read has acted on the signal unless others touched it: for any number   *)
(* of processes, forked and read in any order, and whatever was stopped.   *)
THEOREM SignalsActedOn == Spec => []Tree!SignalActedOn
<1>1. TreeInv => Tree!SignalActedOn
  <2> SUFFICES ASSUME TreeInv, kill.phase = "returned", kill.targets # <<>>,
                      NEW p \in Tree!Found \ others.touched
               PROVE  CASE kill.signal \in {"TERM", "KILL"} -> p \notin Tree!Living
                        [] kill.signal = "STOP" ->
                              p \in Tree!Living /\ (live[p].stopped \/ p \in kill.stopped)
                        [] kill.signal = "CONT" -> p \in Tree!Living /\ ~live[p].stopped
    BY DEF Tree!SignalActedOn
  <2>1. p \in Numbers /\ Ours(p) BY DEF TreeInv, TreeTypes, TreeFound, Ours
  <2>2. Acted(live[p], p) BY <2>1 DEF TreeInv, TreeDone
  <2>3. kill.signal \in {"TERM", "KILL", "STOP", "CONT"} BY NumbersAssumption DEF TreeInv, TreeTypes
  <2> QED BY <2>1, <2>2, <2>3 DEF Acted, Follows, Tree!Living
<1> QED BY <1>1, TreeAlways, PTL

-----------------------------------------------------------------------------
(* The microphone's indicator.                                             *)

Graphs == [source : BOOLEAN, stream : Privacy!Streams, link : Privacy!Links]
Chunks == [source : BOOLEAN, stream : Privacy!Streams \cup {"same"}, link : Privacy!Links \cup {"same"}]
Orders == {"start", "stop", "sample"}
Workers == [process : {"none", "starting", "runs", "dead"}, graph : Graphs, timers : SUBSET Privacy!Timers,
            polls : BOOLEAN, initialized : BOOLEAN, mic : BOOLEAN]

PrivacyTypes ==
    /\ audio \in [up : BOOLEAN, stream : Privacy!Streams, link : Privacy!Links,
                  alsa : Privacy!Captures, printed : Seq(Chunks)]
    /\ dumper \in Workers
    /\ orders \in Seq(Orders) /\ news \in Seq(BOOLEAN)
    /\ indicator \in [running : BOOLEAN, mic : BOOLEAN]

\* A monitor that runs will not end stopped: a start comes after each stop, and
\* without a process there is one to come.
Restarted ==
    indicator.running =>
       /\ \A i \in DOMAIN orders : orders[i] = "stop" =>
             \E j \in DOMAIN orders : i < j /\ orders[j] = "start"
       /\ dumper.process = "none" => \E j \in DOMAIN orders : orders[j] = "start"

\* Only a process that runs has shown a graph; one that is dead is to be replaced;
\* before the first start nothing is.
ProcessKept ==
    /\ dumper.process # "runs" => dumper.graph = Privacy!NoGraph
    /\ dumper.process = "dead" => "restart" \in dumper.timers
    /\ ~dumper.polls => dumper.process = "none" /\ dumper.timers = {}

\* What h says of the graph: how each piece of p changes it, from g to the end.
Unfolds(h, p, g, end) ==
    /\ h \in [0 .. Len(p) -> Graphs]
    /\ h[0] = g /\ h[Len(p)] = end
    /\ \A i \in 1 .. Len(p) : h[i] = Privacy!Merged(h[i - 1], p[i])

\* What was printed leads from the graph at hand to PipeWire's.
GraphFollows ==
    IF dumper.process = "runs" /\ audio.up
    THEN \E h \in [0 .. Len(audio.printed) -> Graphs] :
            Unfolds(h, audio.printed, dumper.graph,
                        [source |-> TRUE, stream |-> audio.stream, link |-> audio.link])
    ELSE audio.printed = <<>>

\* PipeWire has a stream before it has a link.
StreamsLink ==
    /\ audio.stream = "none" => audio.link = "none"
    /\ ~audio.up => audio.stream = "none"

\* What was read of the graph has been judged, or is about to be.
Judged ==
    "debounce" \notin dumper.timers =>
       /\ Privacy!Records(dumper.graph) => dumper.mic
       /\ dumper.graph # Privacy!NoGraph /\ dumper.mic => "poll" \in dumper.timers

\* The indicator shows what the worker found, or the last notice will say it.
Noticed == IF news = <<>> THEN indicator.mic = dumper.mic ELSE news[Len(news)] = dumper.mic

PrivacyInv ==
    PrivacyTypes /\ Restarted /\ ProcessKept /\ GraphFollows /\ StreamsLink /\ Judged /\ Noticed

(* Nothing runs yet, and the start is on its way.                          *)
LEMMA PrivacyInit == Privacy!Init => PrivacyInv
<1> SUFFICES ASSUME Privacy!Init PROVE PrivacyInv
  OBVIOUS
<1>1. /\ dumper = Privacy!NewWorker /\ orders = <<"start">> /\ news = <<>>
      /\ indicator = [running |-> TRUE, mic |-> FALSE]
      /\ audio \in [up : BOOLEAN, stream : Privacy!Streams, link : Privacy!Links,
                     alsa : Privacy!Captures, printed : {<<>>}]
      /\ StreamsLink
  BY DEF Privacy!Init, StreamsLink
<1>2. Privacy!NoGraph \in Graphs BY DEF Privacy!NoGraph, Graphs, Privacy!Streams, Privacy!Links
<1>3. dumper \in Workers BY <1>1, <1>2 DEF Privacy!NewWorker, Workers
<1>4. orders \in Seq(Orders) /\ 1 \in DOMAIN orders /\ orders[1] = "start"
      /\ \A i \in DOMAIN orders : orders[i] # "stop"
  BY <1>1 DEF Orders
<1>5. audio.printed = <<>> /\ <<>> \in Seq(Chunks) BY <1>1
<1>6. audio \in [up : BOOLEAN, stream : Privacy!Streams, link : Privacy!Links,
                  alsa : Privacy!Captures, printed : Seq(Chunks)]
  BY <1>1, <1>5
<1>7. /\ dumper.process = "none" /\ dumper.graph = Privacy!NoGraph /\ dumper.timers = {}
      /\ dumper.polls = FALSE /\ dumper.mic = FALSE /\ indicator.mic = FALSE
  BY <1>1 DEF Privacy!NewWorker
<1>8. PrivacyTypes BY <1>1, <1>3, <1>4, <1>6 DEF PrivacyTypes
<1>9. Restarted BY <1>4 DEF Restarted
<1>10. ProcessKept BY <1>7 DEF ProcessKept
<1>11. GraphFollows BY <1>5, <1>7 DEF GraphFollows
<1>12. Judged BY <1>7 DEF Judged, Privacy!Records, Privacy!NoGraph
<1>13. Noticed BY <1>1, <1>7 DEF Noticed
<1> QED BY <1>1, <1>8, <1>9, <1>10, <1>11, <1>12, <1>13 DEF PrivacyInv

-----------------------------------------------------------------------------

(* evaluatePrivacyState: a recording that the graph shows is found, and    *)
(* looked at again as long as it is.                                       *)
LEMMA EvaluatedWorker ==
    ASSUME NEW w \in Workers
    PROVE  LET v == Privacy!Evaluated(w)
           IN /\ v \in Workers /\ v.process = w.process /\ v.graph = w.graph /\ v.polls = w.polls
              /\ \A t \in {"restart", "debounce"} : t \in v.timers <=> t \in w.timers
              /\ ~w.polls => v.timers = w.timers
              /\ Privacy!Records(w.graph) => v.mic
              /\ v.mic /\ w.polls => "poll" \in v.timers
<1> DEFINE m == Privacy!Records(w.graph) \/ Privacy!CheckAlsaCapture
           t == IF ~w.polls THEN w.timers
                ELSE IF m THEN w.timers \cup {"poll"} ELSE w.timers \ {"poll"}
           v == [w EXCEPT !.initialized = TRUE, !.mic = m, !.timers = t]
<1>1. /\ m \in BOOLEAN /\ (Privacy!Records(w.graph) => m)
      /\ t \in SUBSET Privacy!Timers /\ (~w.polls => t = w.timers)
      /\ (m /\ w.polls => "poll" \in t)
      /\ \A s \in {"restart", "debounce"} : s \in t <=> s \in w.timers
  BY DEF Workers, Privacy!Timers
<1>2. Privacy!Evaluated(w) = v BY DEF Privacy!Evaluated
<1> HIDE DEF m, t
<1>3. /\ v \in Workers /\ v.process = w.process /\ v.graph = w.graph /\ v.polls = w.polls
      /\ v.timers = t /\ v.mic = m
  BY <1>1 DEF Workers
<1> HIDE DEF v
<1> QED BY <1>1, <1>2, <1>3

(* stopPwProcess and setupPwProcess.                                       *)
LEMMA StoppedWorker ==
    ASSUME NEW w \in Workers
    PROVE  /\ LET v == Privacy!NoProcess(w)
              IN /\ v \in Workers /\ v.process = "none" /\ v.graph = Privacy!NoGraph
                 /\ v.polls = w.polls /\ v.mic = w.mic
                 /\ v.initialized = w.initialized
           /\ LET v == Privacy!WithProcess(w)
              IN /\ v \in Workers /\ v.process = "starting" /\ v.graph = Privacy!NoGraph
                 /\ v.polls = w.polls /\ v.mic = w.mic
                 /\ v.initialized = w.initialized
<1>1. Privacy!NoGraph \in Graphs BY DEF Privacy!NoGraph, Graphs, Privacy!Streams, Privacy!Links
<1> DEFINE t == w.timers \ {"restart"}
           g == Privacy!NoGraph
           n == [w EXCEPT !.process = "none", !.graph = g, !.timers = t]
           s == [n EXCEPT !.process = "starting"]
<1>2. Privacy!NoProcess(w) = n BY DEF Privacy!NoProcess
<1>3. Privacy!WithProcess(w) = s BY <1>2 DEF Privacy!WithProcess
<1>4. t \in SUBSET Privacy!Timers BY DEF Workers
<1>5. g \in Graphs BY <1>1
<1> HIDE DEF t, g
<1>6. /\ n \in Workers /\ n.process = "none" /\ n.graph = g /\ n.polls = w.polls
      /\ n.mic = w.mic /\ n.initialized = w.initialized
  BY <1>4, <1>5 DEF Workers
<1> HIDE DEF n
<1>7. /\ s \in Workers /\ s.process = "starting" /\ s.graph = g /\ s.polls = w.polls
      /\ s.mic = w.mic /\ s.initialized = w.initialized
  BY <1>6 DEF Workers
<1> HIDE DEF s
<1> QED BY <1>2, <1>3, <1>6, <1>7 DEF g

(* A notice is posted unless the GUI has been told the same.               *)
LEMMA NoticePosted ==
    ASSUME news \in Seq(BOOLEAN), Noticed, NEW w \in Workers, NEW v \in Workers,
           w.mic = dumper.mic, dumper'.mic = v.mic, indicator'.mic = indicator.mic,
           news' = Privacy!Reported(w, v)
    PROVE  news' \in Seq(BOOLEAN) /\ Noticed'
<1> DEFINE b == v.mic
<1>1. b \in BOOLEAN BY DEF Workers
<1>2. CASE news' = Append(news, b)
  <2> HIDE DEF b
  <2>1. news' \in Seq(BOOLEAN) /\ news' # <<>> /\ news'[Len(news')] = b BY <1>1, <1>2
  <2> QED BY <2>1 DEF Noticed, b
<1>3. CASE news' = news /\ w.mic = b
  BY <1>3 DEF Noticed
<1> QED BY <1>2, <1>3 DEF Privacy!Reported

(* What becomes of the orders.                                             *)
LEMMA OrderTaken ==
    ASSUME PrivacyTypes, Restarted, NEW o \in Orders, Privacy!Ordered(o), UNCHANGED indicator
    PROVE  /\ orders' \in Seq(Orders)
           /\ dumper'.process # "none" \/ o = "stop"
              \/ (o = "sample" /\ dumper'.process = dumper.process) => Restarted'
<1>1. /\ orders \in Seq(Orders) /\ orders # <<>> /\ orders[1] = o /\ orders' = Tail(orders)
  BY DEF PrivacyTypes, Privacy!Ordered
<1>2. /\ orders' \in Seq(Orders) /\ Len(orders) \in Nat /\ Len(orders') = Len(orders) - 1
      /\ DOMAIN orders' = 1 .. Len(orders') /\ DOMAIN orders = 1 .. Len(orders)
      /\ \A i \in DOMAIN orders' : orders'[i] = orders[i + 1]
  BY <1>1
<1>3. ASSUME NEW j \in DOMAIN orders, 1 < j
      PROVE  j - 1 \in DOMAIN orders' /\ orders'[j - 1] = orders[j]
  BY <1>2, <1>3
<1>4. ASSUME indicator.running, NEW i \in DOMAIN orders', orders'[i] = "stop"
      PROVE  \E j \in DOMAIN orders' : i < j /\ orders'[j] = "start"
  <2>1. i + 1 \in DOMAIN orders /\ orders[i + 1] = "stop" BY <1>2, <1>4
  <2>2. PICK j \in DOMAIN orders : i + 1 < j /\ orders[j] = "start" BY <1>4, <2>1 DEF Restarted
  <2>3. 1 < j /\ i < j - 1 BY <1>2, <2>2
  <2> QED BY <1>3, <2>2, <2>3
<1>5. ASSUME indicator.running, o = "stop"
      PROVE  \E j \in DOMAIN orders' : orders'[j] = "start"
  <2>1. 1 \in DOMAIN orders BY <1>1, <1>2
  <2>2. PICK j \in DOMAIN orders : 1 < j /\ orders[j] = "start" BY <1>1, <1>5, <2>1 DEF Restarted
  <2> QED BY <1>3, <2>2
<1>6. ASSUME indicator.running, o = "sample", dumper.process = "none"
      PROVE  \E j \in DOMAIN orders' : orders'[j] = "start"
  <2>1. PICK j \in DOMAIN orders : orders[j] = "start" BY <1>6 DEF Restarted
  <2>2. 1 < j BY <1>1, <1>2, <1>6, <2>1
  <2> QED BY <1>3, <2>1, <2>2
<1> QED BY <1>2, <1>4, <1>5, <1>6 DEF Restarted

(* A step that takes and gives no orders, and does not stop the process.   *)
LEMMA RestartKept ==
    ASSUME Restarted, UNCHANGED orders, indicator'.running = indicator.running,
           dumper'.process = dumper.process \/ dumper'.process # "none"
    PROVE  Restarted'
BY DEF Restarted

(* A step that neither prints nor reads.                                   *)
LEMMA GraphKept ==
    ASSUME GraphFollows, UNCHANGED audio, dumper'.process = dumper.process,
           dumper'.graph = dumper.graph
    PROVE  GraphFollows'
BY DEF GraphFollows, Unfolds

-----------------------------------------------------------------------------

(* The process is stopped or started anew, with what it had printed lost.  *)
LEMMA PrivacyAnew ==
    ASSUME PrivacyInv, indicator' = indicator, news' = news,
           audio' = Privacy!Unread, orders' \in Seq(Orders), Restarted',
           dumper' \in Workers, dumper'.process \in {"none", "starting"},
           dumper'.graph = Privacy!NoGraph, dumper'.mic = dumper.mic,
           ~dumper'.polls => dumper'.process = "none" /\ dumper'.timers = {}
    PROVE  PrivacyInv'
<1>1. audio' = [audio EXCEPT !.printed = <<>>] BY DEF Privacy!Unread
<1>2. audio \in [up : BOOLEAN, stream : Privacy!Streams, link : Privacy!Links,
                 alsa : Privacy!Captures, printed : Seq(Chunks)]
  BY DEF PrivacyInv, PrivacyTypes
<1>3. <<>> \in Seq(Chunks) OBVIOUS
<1>4. /\ audio' \in [up : BOOLEAN, stream : Privacy!Streams, link : Privacy!Links,
                     alsa : Privacy!Captures, printed : Seq(Chunks)]
      /\ audio'.printed = <<>> /\ audio'.up = audio.up /\ audio'.stream = audio.stream
      /\ audio'.link = audio.link
  BY <1>1, <1>2, <1>3
<1>5. PrivacyTypes' BY <1>4 DEF PrivacyInv, PrivacyTypes
<1>6. ProcessKept' BY DEF ProcessKept
<1>7. GraphFollows' BY <1>4 DEF GraphFollows
<1>8. StreamsLink' BY <1>4 DEF PrivacyInv, StreamsLink
<1>9. Judged' BY DEF Judged, Privacy!Records, Privacy!NoGraph
<1>10. Noticed' BY DEF PrivacyInv, Noticed
<1> QED BY <1>5, <1>6, <1>7, <1>8, <1>9, <1>10 DEF PrivacyInv

(* The state is judged, of a worker that has dropped a timer or the graph. *)
LEMMA PrivacyJudges ==
    ASSUME PrivacyInv, UNCHANGED indicator, orders' \in Seq(Orders), Restarted',
           NEW w \in Workers, w.mic = dumper.mic, ProcessKept',
           news' = Privacy!Reported(w, Privacy!Evaluated(w)),
           dumper' \in Workers, dumper'.mic = Privacy!Evaluated(w).mic,
           dumper'.graph = w.graph, w.polls \/ w.graph = Privacy!NoGraph,
           "poll" \in Privacy!Evaluated(w).timers => "poll" \in dumper'.timers,
           StreamsLink', GraphFollows',
           audio' \in [up : BOOLEAN, stream : Privacy!Streams, link : Privacy!Links,
                       alsa : Privacy!Captures, printed : Seq(Chunks)]
    PROVE  PrivacyInv'
<1> DEFINE v == Privacy!Evaluated(w)
<1>1. /\ v \in Workers
      /\ Privacy!Records(w.graph) => v.mic
      /\ v.mic /\ w.polls => "poll" \in v.timers
  BY EvaluatedWorker
<1>2. /\ news' = Privacy!Reported(w, v) /\ dumper'.mic = v.mic
      /\ "poll" \in v.timers => "poll" \in dumper'.timers
  OBVIOUS
<1> HIDE DEF v
<1>3. news \in Seq(BOOLEAN) /\ Noticed /\ indicator \in [running : BOOLEAN, mic : BOOLEAN]
  BY DEF PrivacyInv, PrivacyTypes
<1>4. news' \in Seq(BOOLEAN) /\ Noticed' BY <1>1, <1>2, <1>3, NoticePosted
<1>5. PrivacyTypes' BY <1>3, <1>4 DEF PrivacyTypes
<1>6. Judged'
  <2>1. Privacy!Records(dumper'.graph) => dumper'.mic BY <1>1, <1>2 DEF Privacy!Records
  <2>2. dumper'.graph # Privacy!NoGraph /\ dumper'.mic => "poll" \in dumper'.timers
    BY <1>1, <1>2
  <2> QED BY <2>1, <2>2 DEF Judged, Privacy!Records
<1> QED BY <1>4, <1>5, <1>6 DEF PrivacyInv

(* The orders of the GUI thread.                                           *)
LEMMA PrivacyOrders ==
    ASSUME PrivacyInv, Privacy!OnStart \/ Privacy!OnStop \/ Privacy!OnSample
    PROVE  PrivacyInv'
<1>1. /\ PrivacyTypes /\ Restarted /\ ProcessKept /\ GraphFollows /\ dumper \in Workers
      /\ audio \in [up : BOOLEAN, stream : Privacy!Streams, link : Privacy!Links,
                     alsa : Privacy!Captures, printed : Seq(Chunks)]
  BY DEF PrivacyInv, PrivacyTypes
<1>2. CASE Privacy!OnStart
  <2> DEFINE n == Privacy!WithProcess(dumper)
             w == [n EXCEPT !.polls = TRUE]
             r == [w EXCEPT !.timers = w.timers \cup {"poll"}]
  <2>1. /\ n \in Workers /\ n.process = "starting" /\ n.graph = Privacy!NoGraph /\ n.mic = dumper.mic
    BY <1>1, StoppedWorker
  <2>2. /\ Privacy!Ordered("start") /\ UNCHANGED <<news, indicator, spent>>
        /\ audio' = Privacy!Unread
        /\ dumper' = w \/ dumper' = r
    BY <1>2 DEF Privacy!OnStart
  <2> HIDE DEF n
  <2>3. /\ w \in Workers /\ w.process = "starting" /\ w.graph = Privacy!NoGraph /\ w.polls = TRUE
        /\ w.mic = dumper.mic
    BY <2>1 DEF Workers
  <2> HIDE DEF w
  <2>4. /\ r \in Workers /\ r.process = "starting" /\ r.graph = Privacy!NoGraph /\ r.polls = TRUE
        /\ r.mic = dumper.mic
    BY <2>3 DEF Workers, Privacy!Timers
  <2> HIDE DEF r
  <2>5. orders' \in Seq(Orders) /\ Restarted'
    BY <1>1, <2>2, <2>3, <2>4, OrderTaken DEF Orders
  <2> QED BY <2>2, <2>3, <2>4, <2>5, PrivacyAnew
<1>3. CASE Privacy!OnStop
  <2> DEFINE n == Privacy!NoProcess(dumper)
             w == [n EXCEPT !.timers = {}]
  <2>1. /\ n \in Workers /\ n.process = "none" /\ n.graph = Privacy!NoGraph /\ n.mic = dumper.mic
    BY <1>1, StoppedWorker
  <2>2. /\ Privacy!Ordered("stop") /\ UNCHANGED <<news, indicator, spent>>
        /\ audio' = Privacy!Unread
        /\ dumper' = w
    BY <1>3 DEF Privacy!OnStop
  <2> HIDE DEF n
  <2>3. /\ w \in Workers /\ w.process = "none" /\ w.graph = Privacy!NoGraph
        /\ w.mic = dumper.mic /\ w.timers = {}
    BY <2>1 DEF Workers
  <2> HIDE DEF w
  <2>5. orders' \in Seq(Orders) /\ Restarted'
    BY <1>1, <2>2, OrderTaken DEF Orders
  <2> QED BY <2>2, <2>3, <2>5, PrivacyAnew
<1>4. CASE Privacy!OnSample /\ dumper.graph = Privacy!NoGraph
  <2> DEFINE m == Privacy!Probed
             v == [dumper EXCEPT !.initialized = TRUE, !.mic = m]
  <2>1. m \in BOOLEAN
    BY DEF Privacy!Probed, Privacy!ResolvePipeWireMetadata, Privacy!Recording, Privacy!CheckWpctl,
           Privacy!CheckAlsaCapture
  <2>2. /\ Privacy!Ordered("sample") /\ UNCHANGED <<audio, indicator, spent>>
        /\ dumper' = v /\ news' = Privacy!Reported(dumper, v)
    BY <1>4 DEF Privacy!OnSample
  <2> HIDE DEF m
  <2>3. /\ v \in Workers /\ v.process = dumper.process /\ v.graph = dumper.graph
        /\ v.polls = dumper.polls /\ v.timers = dumper.timers
    BY <1>1, <2>1 DEF Workers
  <2> HIDE DEF v
  <2>4. orders' \in Seq(Orders) /\ Restarted'
    BY <1>1, <2>2, <2>3, OrderTaken DEF Orders
  <2>5. news \in Seq(BOOLEAN) /\ Noticed BY DEF PrivacyInv, PrivacyTypes
  <2>6. news' \in Seq(BOOLEAN) /\ Noticed' BY <1>1, <2>2, <2>3, <2>5, NoticePosted
  <2>7. PrivacyTypes' BY <1>1, <2>2, <2>3, <2>4, <2>6 DEF PrivacyTypes
  <2>8. ProcessKept' BY <1>1, <2>2, <2>3 DEF ProcessKept
  <2>9. GraphFollows' BY <1>1, <2>2, <2>3, GraphKept
  <2>10. StreamsLink' BY <2>2 DEF PrivacyInv, StreamsLink
  <2>11. Judged' BY <1>4, <2>2, <2>3 DEF Judged, Privacy!Records, Privacy!NoGraph
  <2> QED BY <2>4, <2>6, <2>7, <2>8, <2>9, <2>10, <2>11 DEF PrivacyInv
<1>5. CASE Privacy!OnSample /\ dumper.graph # Privacy!NoGraph
  <2> DEFINE v == Privacy!Evaluated(dumper)
  <2>1. /\ Privacy!Ordered("sample") /\ UNCHANGED <<audio, indicator, spent>>
        /\ dumper' = v /\ news' = Privacy!Reported(dumper, v)
    BY <1>5 DEF Privacy!OnSample
  <2>2. /\ v \in Workers /\ v.process = dumper.process /\ v.graph = dumper.graph
        /\ v.polls = dumper.polls
        /\ ~dumper.polls => v.timers = dumper.timers
        /\ "restart" \in v.timers <=> "restart" \in dumper.timers
    BY <1>1, EvaluatedWorker
  <2>3. orders' \in Seq(Orders) /\ Restarted'
    <3> HIDE DEF v
    <3> QED BY <1>1, <2>1, <2>2, OrderTaken DEF Orders
  <2>4. ProcessKept'
    <3> HIDE DEF v
    <3> QED BY <1>1, <2>1, <2>2 DEF ProcessKept
  <2>5. GraphFollows'
    <3> HIDE DEF v
    <3> QED BY <1>1, <2>1, <2>2, GraphKept
  <2>6. StreamsLink' BY <2>1 DEF PrivacyInv, StreamsLink
  <2>7. dumper.polls BY <1>1, <1>5 DEF ProcessKept
  <2> QED BY <1>1, <2>1, <2>2, <2>3, <2>4, <2>5, <2>6, <2>7, PrivacyJudges
<1> QED BY <1>2, <1>3, <1>4, <1>5

\* What pw-dump prints, and what is read of it.
AudioIs(a) == a \in [up : BOOLEAN, stream : Privacy!Streams, link : Privacy!Links,
                      alsa : Privacy!Captures, printed : Seq(Chunks)]

(* A graph that a piece changes is a graph.                                *)
LEMMA MergedGraph ==
    ASSUME NEW g \in Graphs, NEW c \in Chunks
    PROVE  Privacy!Merged(g, c) \in Graphs
<1> DEFINE b == g.source \/ c.source
           s == IF c.stream = "same" THEN g.stream ELSE c.stream
           l == IF c.link = "same" THEN g.link ELSE c.link
           k == IF s = "none" THEN "none" ELSE l
<1>1. b \in BOOLEAN /\ s \in Privacy!Streams /\ l \in Privacy!Links
  BY DEF Graphs, Chunks
<1>2. k \in Privacy!Links BY <1>1 DEF Privacy!Links
<1>3. Privacy!Merged(g, c) = [source |-> b, stream |-> s, link |-> k] BY DEF Privacy!Merged
<1> HIDE DEF b, s, k
<1> QED BY <1>1, <1>2, <1>3 DEF Graphs

(* A piece that PipeWire's change adds leads from its graph to its graph.  *)
LEMMA GraphPrinted ==
    ASSUME NEW p \in Seq(Chunks), NEW g \in Graphs, NEW end \in Graphs, NEW c \in Chunks,
           NEW h \in [0 .. Len(p) -> Graphs], Unfolds(h, p, g, end)
    PROVE  \E f \in [0 .. Len(Append(p, c)) -> Graphs] :
               Unfolds(f, Append(p, c), g, Privacy!Merged(end, c))
<1> DEFINE n == Len(p)
           q == Append(p, c)
           f == [i \in 0 .. n + 1 |-> IF i = n + 1 THEN Privacy!Merged(end, c) ELSE h[i]]
<1>1. /\ n \in Nat /\ Len(q) = n + 1 /\ q[n + 1] = c
      /\ \A i \in 1 .. n : q[i] = p[i]
  OBVIOUS
<1>2. Privacy!Merged(end, c) \in Graphs BY MergedGraph
<1> HIDE DEF q, n
<1>3. ASSUME NEW i \in 0 .. n PROVE h[i] \in Graphs BY DEF n
<1>4. f \in [0 .. n + 1 -> Graphs]
  <2>1. ASSUME NEW i \in 0 .. n + 1 PROVE (IF i = n + 1 THEN Privacy!Merged(end, c) ELSE h[i]) \in Graphs
    <3>1. CASE i = n + 1 BY <1>2, <3>1
    <3>2. CASE i # n + 1
      <4>1. i \in 0 .. n BY <1>1, <3>2
      <4> QED BY <1>3, <3>2, <4>1
    <3> QED BY <3>1, <3>2
  <2> QED BY <2>1
<1>5. h[0] = g /\ h[n] = end /\ \A i \in 1 .. n : h[i] = Privacy!Merged(h[i - 1], p[i])
  BY DEF Unfolds, n
<1>6. f[0] = g /\ f[n + 1] = Privacy!Merged(end, c)
  <2>1. 0 \in 0 .. n + 1 /\ n + 1 \in 0 .. n + 1 /\ 0 # n + 1 BY <1>1
  <2> QED BY <1>5, <2>1
<1>7. ASSUME NEW i \in 1 .. n + 1 PROVE f[i] = Privacy!Merged(f[i - 1], q[i])
  <2>1. CASE i = n + 1
    <3>1. i - 1 = n /\ n \in 0 .. n + 1 /\ n # n + 1 /\ i \in 0 .. n + 1 BY <1>1, <2>1
    <3>2. f[i - 1] = end BY <1>5, <3>1
    <3> QED BY <1>1, <2>1, <3>1, <3>2
  <2>2. CASE i # n + 1
    <3>1. /\ i \in 1 .. n /\ i \in 0 .. n + 1 /\ i - 1 \in 0 .. n + 1 /\ i - 1 # n + 1
      BY <1>1, <2>2
    <3>2. f[i] = h[i] /\ f[i - 1] = h[i - 1] BY <2>2, <3>1
    <3> QED BY <1>1, <1>5, <3>1, <3>2
  <2> QED BY <2>1, <2>2
<1> HIDE DEF f
<1>8. Unfolds(f, q, g, Privacy!Merged(end, c)) BY <1>1, <1>4, <1>6, <1>7 DEF Unfolds
<1> QED BY <1>1, <1>4, <1>8 DEF q

(* A piece that is read leaves the rest.                                   *)
LEMMA GraphRead ==
    ASSUME NEW p \in Seq(Chunks), p # <<>>, NEW g \in Graphs, NEW end,
           NEW h \in [0 .. Len(p) -> Graphs], Unfolds(h, p, g, end)
    PROVE  \E f \in [0 .. Len(Tail(p)) -> Graphs] :
               Unfolds(f, Tail(p), Privacy!Merged(g, Head(p)), end)
<1> DEFINE n == Len(p)
           q == Tail(p)
           f == [i \in 0 .. n - 1 |-> h[i + 1]]
<1>1. /\ n \in Nat /\ n # 0 /\ Len(q) = n - 1 /\ Head(p) = p[1]
      /\ \A i \in 1 .. n - 1 : q[i] = p[i + 1]
  OBVIOUS
<1> HIDE DEF q, n
<1>2. h[0] = g /\ h[n] = end /\ \A i \in 1 .. n : h[i] = Privacy!Merged(h[i - 1], p[i])
  BY DEF Unfolds, n
<1>3. f \in [0 .. n - 1 -> Graphs]
  <2>1. ASSUME NEW i \in 0 .. n - 1 PROVE h[i + 1] \in Graphs
    <3>1. i + 1 \in 0 .. n BY <1>1
    <3> QED BY <3>1 DEF n
  <2> QED BY <2>1
<1>4. f[0] = Privacy!Merged(g, Head(p)) /\ f[n - 1] = end
  <2>1. 0 \in 0 .. n - 1 /\ n - 1 \in 0 .. n - 1 /\ 1 \in 1 .. n /\ (n - 1) + 1 = n BY <1>1
  <2>2. f[0] = h[1] /\ f[n - 1] = h[n] BY <2>1
  <2>3. h[1] = Privacy!Merged(h[0], p[1]) BY <1>2, <2>1
  <2> QED BY <1>1, <1>2, <2>2, <2>3
<1>5. ASSUME NEW i \in 1 .. n - 1 PROVE f[i] = Privacy!Merged(f[i - 1], q[i])
  <2>1. i \in 0 .. n - 1 /\ i - 1 \in 0 .. n - 1 /\ i + 1 \in 1 .. n /\ (i - 1) + 1 = i
        /\ (i + 1) - 1 = i
    BY <1>1
  <2>2. f[i] = h[i + 1] /\ f[i - 1] = h[i] BY <2>1
  <2>3. h[i + 1] = Privacy!Merged(h[i], p[i + 1]) BY <1>2, <2>1
  <2> QED BY <1>1, <2>2, <2>3
<1> HIDE DEF f
<1>6. Unfolds(f, q, Privacy!Merged(g, Head(p)), end) BY <1>1, <1>3, <1>4, <1>5 DEF Unfolds
<1> QED BY <1>1, <1>3, <1>6 DEF q

(* The life of pw-dump and what it prints.                                 *)
LEMMA PrivacyProcess ==
    ASSUME PrivacyInv, Privacy!ProcessStarts \/ Privacy!ProcessFails \/ Privacy!OnPwStdoutReady
    PROVE  PrivacyInv'
<1>1. /\ PrivacyTypes /\ Restarted /\ ProcessKept /\ GraphFollows /\ StreamsLink /\ Judged /\ Noticed
      /\ AudioIs(audio) /\ dumper \in Workers
  BY DEF PrivacyInv, PrivacyTypes, AudioIs
<1>2. /\ dumper.graph \in Graphs /\ dumper.timers \in SUBSET Privacy!Timers
      /\ audio.printed \in Seq(Chunks) /\ audio.stream \in Privacy!Streams
      /\ audio.link \in Privacy!Links
  BY <1>1 DEF Workers, AudioIs
<1>3. UNCHANGED <<orders, news, indicator>>
  BY DEF Privacy!ProcessStarts, Privacy!ProcessFails, Privacy!OnPwStdoutReady
<1> DEFINE end == [source |-> TRUE, stream |-> audio.stream, link |-> audio.link]
<1>4. end \in Graphs /\ end \in Chunks BY <1>2 DEF Graphs, Chunks
<1>5. CASE Privacy!ProcessStarts
  <2> DEFINE p == IF audio.up THEN <<end>> ELSE <<>>
             v == [dumper EXCEPT !.process = "runs"]
             a == [audio EXCEPT !.printed = p]
  <2>1. dumper.process = "starting" /\ dumper' = v /\ audio' = a BY <1>5 DEF Privacy!ProcessStarts
  <2>2. p \in Seq(Chunks) BY <1>4
  <2> HIDE DEF p
  <2>3. /\ v \in Workers /\ v.process = "runs" /\ v.graph = dumper.graph /\ v.timers = dumper.timers
        /\ v.polls = dumper.polls /\ v.mic = dumper.mic
    BY <1>1 DEF Workers
  <2>4. /\ AudioIs(a) /\ a.printed = p /\ a.up = audio.up /\ a.stream = audio.stream
        /\ a.link = audio.link
    BY <1>1, <2>2 DEF AudioIs
  <2> HIDE DEF v, a
  <2>5. dumper.graph = Privacy!NoGraph BY <1>1, <2>1 DEF ProcessKept
  <2>6. PrivacyTypes' BY <1>1, <1>3, <2>1, <2>3, <2>4 DEF PrivacyTypes, AudioIs
  <2>7. Restarted' BY <1>1, <1>3, <2>1, <2>3, RestartKept
  <2>8. ProcessKept' BY <1>1, <2>1, <2>3 DEF ProcessKept
  <2>9. GraphFollows'
    <3>1. CASE ~audio.up BY <2>1, <2>4, <3>1 DEF GraphFollows, p
    <3>2. CASE audio.up
      <4> DEFINE g == Privacy!NoGraph
                 h == [i \in 0 .. 0 |-> g]
                 q == <<>>
      <4>1. g \in Graphs BY <1>2, <2>5
      <4>2. q \in Seq(Chunks) /\ Len(q) = 0 OBVIOUS
      <4> HIDE DEF g
      <4>3. h \in [0 .. 0 -> Graphs] /\ h[0] = g BY <4>1
      <4> HIDE DEF h
      <4>4. Unfolds(h, q, g, g) BY <4>2, <4>3 DEF Unfolds
      <4>5. Append(q, end) = p
        <5>1. p = <<end>> BY <3>2 DEF p
        <5>2. \A e : Append(<<>>, e) = <<e>> OBVIOUS
        <5> HIDE DEF p, end
        <5> QED BY <5>1, <5>2
      <4> HIDE DEF q, end
      <4>6. \E f \in [0 .. Len(p) -> Graphs] : Unfolds(f, p, g, Privacy!Merged(g, end))
        BY <1>4, <4>1, <4>2, <4>3, <4>4, <4>5, GraphPrinted
      <4>7. Privacy!Merged(g, end) = end
        BY <1>1, <1>2 DEF Privacy!Merged, StreamsLink, end, g, Privacy!NoGraph,
                          Privacy!Streams, Privacy!Links
      <4> QED BY <2>1, <2>3, <2>4, <2>5, <3>2, <4>6, <4>7 DEF GraphFollows, g, end
    <3> QED BY <3>1, <3>2
  <2>10. StreamsLink' BY <1>1, <2>1, <2>4 DEF StreamsLink
  <2>11. Judged' BY <1>1, <2>1, <2>3 DEF Judged, Privacy!Records
  <2>12. Noticed' BY <1>1, <1>3, <2>1, <2>3 DEF Noticed
  <2> QED BY <2>6, <2>7, <2>8, <2>9, <2>10, <2>11, <2>12 DEF PrivacyInv
<1>6. CASE Privacy!ProcessFails
  <2> DEFINE t == dumper.timers \cup {"restart"}
             v == [dumper EXCEPT !.process = "dead", !.timers = t]
  <2>1. dumper.process = "starting" /\ dumper' = v /\ UNCHANGED audio
    BY <1>6 DEF Privacy!ProcessFails
  <2>2. t \in SUBSET Privacy!Timers BY <1>2 DEF Privacy!Timers
  <2> HIDE DEF t
  <2>3. /\ v \in Workers /\ v.process = "dead" /\ v.graph = dumper.graph /\ v.timers = t
        /\ v.polls = dumper.polls /\ v.mic = dumper.mic
    BY <1>1, <2>2 DEF Workers
  <2> HIDE DEF v
  <2>4. dumper.graph = Privacy!NoGraph /\ dumper.polls BY <1>1, <2>1 DEF ProcessKept
  <2>5. PrivacyTypes' BY <1>1, <1>3, <2>1, <2>3 DEF PrivacyTypes
  <2>6. Restarted' BY <1>1, <1>3, <2>1, <2>3, RestartKept
  <2>7. ProcessKept' BY <1>1, <2>1, <2>3, <2>4 DEF ProcessKept, t
  <2>8. GraphFollows' BY <1>1, <2>1, <2>3 DEF GraphFollows
  <2>9. StreamsLink' BY <1>1, <2>1 DEF StreamsLink
  <2>10. Judged' BY <2>1, <2>3, <2>4 DEF Judged, Privacy!Records, Privacy!NoGraph
  <2>11. Noticed' BY <1>1, <1>3, <2>1, <2>3 DEF Noticed
  <2> QED BY <2>5, <2>6, <2>7, <2>8, <2>9, <2>10, <2>11 DEF PrivacyInv
<1>7. CASE Privacy!OnPwStdoutReady
  <2> DEFINE p == audio.printed
             g == Privacy!Merged(dumper.graph, Head(p))
             t == dumper.timers \cup {"debounce"}
             v == [dumper EXCEPT !.graph = g, !.timers = t]
             q == Tail(p)
             a == [audio EXCEPT !.printed = q]
  <2>1. dumper.process = "runs" /\ p # <<>> /\ dumper' = v /\ audio' = a
    BY <1>7 DEF Privacy!OnPwStdoutReady
  <2>2. t \in SUBSET Privacy!Timers BY <1>2 DEF Privacy!Timers
  <2>3. q \in Seq(Chunks) /\ Head(p) \in Chunks BY <1>2, <2>1
  <2>4. g \in Graphs BY <1>2, <2>3, MergedGraph
  <2>5. audio.up /\ \E h \in [0 .. Len(p) -> Graphs] : Unfolds(h, p, dumper.graph, end)
    BY <1>1, <2>1 DEF GraphFollows
  <2>6. \E f \in [0 .. Len(q) -> Graphs] : Unfolds(f, q, g, end)
    <3> HIDE DEF p, end
    <3> QED BY <1>2, <2>1, <2>5, GraphRead DEF p
  <2> HIDE DEF t, g, q
  <2>7. /\ v \in Workers /\ v.process = dumper.process /\ v.graph = g /\ v.timers = t
        /\ v.polls = dumper.polls /\ v.mic = dumper.mic
    BY <1>1, <2>2, <2>4 DEF Workers
  <2>8. /\ AudioIs(a) /\ a.printed = q /\ a.up = audio.up /\ a.stream = audio.stream
        /\ a.link = audio.link
    BY <1>1, <2>3 DEF AudioIs
  <2> HIDE DEF v, a
  <2>9. PrivacyTypes' BY <1>1, <1>3, <2>1, <2>7, <2>8 DEF PrivacyTypes, AudioIs
  <2>10. Restarted' BY <1>1, <1>3, <2>1, <2>7, RestartKept
  <2>11. ProcessKept' BY <1>1, <2>1, <2>7 DEF ProcessKept
  <2>12. GraphFollows' BY <2>1, <2>5, <2>6, <2>7, <2>8 DEF GraphFollows
  <2>13. StreamsLink' BY <1>1, <2>1, <2>8 DEF StreamsLink
  <2>14. Judged' BY <2>1, <2>7 DEF Judged, t
  <2>15. Noticed' BY <1>1, <1>3, <2>1, <2>7 DEF Noticed
  <2> QED BY <2>9, <2>10, <2>11, <2>12, <2>13, <2>14, <2>15 DEF PrivacyInv
<1> QED BY <1>5, <1>6, <1>7

(* The timers, and the end of the process.                                 *)
LEMMA PrivacyTimers ==
    ASSUME PrivacyInv,
           Privacy!OnPwFinished \/ Privacy!OnDebounce \/ Privacy!OnRestart \/ Privacy!OnPoll
    PROVE  PrivacyInv'
<1>1. /\ PrivacyTypes /\ Restarted /\ ProcessKept /\ GraphFollows /\ StreamsLink /\ Judged /\ Noticed
      /\ AudioIs(audio) /\ dumper \in Workers /\ orders \in Seq(Orders)
  BY DEF PrivacyInv, PrivacyTypes, AudioIs
<1>2. UNCHANGED <<orders, indicator>>
  BY DEF Privacy!OnPwFinished, Privacy!OnDebounce, Privacy!OnRestart, Privacy!OnPoll
<1>3. CASE Privacy!OnPwFinished
  <2> DEFINE w == [dumper EXCEPT !.process = "dead", !.graph = Privacy!NoGraph]
             e == Privacy!Evaluated(w)
             t == e.timers \cup {"restart"}
             v == [e EXCEPT !.timers = t]
             a == [audio EXCEPT !.printed = <<>>]
  <2>1. /\ dumper.process = "runs" /\ dumper' = v /\ news' = Privacy!Reported(w, e) /\ audio' = a
    BY <1>3 DEF Privacy!OnPwFinished, Privacy!Unread
  <2>2. Privacy!NoGraph \in Graphs
    BY DEF Privacy!NoGraph, Graphs, Privacy!Streams, Privacy!Links
  <2>3. /\ w \in Workers /\ w.process = "dead" /\ w.graph = Privacy!NoGraph
        /\ w.polls = dumper.polls /\ w.mic = dumper.mic
    BY <1>1, <2>2 DEF Workers
  <2>4. e \in Workers /\ e.process = "dead" /\ e.graph = Privacy!NoGraph /\ e.polls = dumper.polls
    <3> HIDE DEF w
    <3> QED BY <2>3, EvaluatedWorker
  <2> HIDE DEF e
  <2>5. t \in SUBSET Privacy!Timers /\ "restart" \in t /\ ("poll" \in e.timers => "poll" \in t)
    BY <2>4 DEF Workers, Privacy!Timers
  <2> HIDE DEF t
  <2>6. /\ v \in Workers /\ v.process = "dead" /\ v.graph = Privacy!NoGraph /\ v.polls = dumper.polls
        /\ v.mic = e.mic /\ v.timers = t
    BY <2>4, <2>5 DEF Workers
  <2>7. <<>> \in Seq(Chunks) OBVIOUS
  <2>8. /\ AudioIs(a) /\ a.printed = <<>> /\ a.up = audio.up /\ a.stream = audio.stream
        /\ a.link = audio.link
    BY <1>1, <2>7 DEF AudioIs
  <2> HIDE DEF v, a, w
  <2>9. Restarted' BY <1>1, <1>2, <2>1, <2>6, RestartKept
  <2>10. dumper.polls BY <1>1, <2>1 DEF ProcessKept
  <2>11. ProcessKept' BY <2>1, <2>5, <2>6, <2>10 DEF ProcessKept
  <2>12. GraphFollows' BY <2>1, <2>6, <2>8 DEF GraphFollows
  <2>13. StreamsLink' BY <1>1, <2>1, <2>8 DEF StreamsLink
  <2>14. AudioIs(audio') BY <2>1, <2>8
  <2> QED BY <1>1, <1>2, <2>1, <2>3, <2>4, <2>5, <2>6, <2>9, <2>11, <2>12, <2>13, <2>14,
             PrivacyJudges DEF e, AudioIs
<1>4. CASE Privacy!OnDebounce
  <2> DEFINE t == dumper.timers \ {"debounce"}
             w == [dumper EXCEPT !.timers = t]
             e == Privacy!Evaluated(w)
  <2>1. /\ "debounce" \in dumper.timers /\ dumper' = e /\ news' = Privacy!Reported(w, e)
        /\ UNCHANGED audio
    BY <1>4 DEF Privacy!OnDebounce, Privacy!Fires
  <2>2. t \in SUBSET Privacy!Timers /\ ("restart" \in t <=> "restart" \in dumper.timers)
    BY <1>1 DEF Workers
  <2> HIDE DEF t
  <2>3. /\ w \in Workers /\ w.process = dumper.process /\ w.graph = dumper.graph
        /\ w.polls = dumper.polls /\ w.mic = dumper.mic /\ w.timers = t
    BY <1>1, <2>2 DEF Workers
  <2> HIDE DEF w
  <2>4. /\ e \in Workers /\ e.process = dumper.process /\ e.graph = dumper.graph
        /\ e.polls = dumper.polls
        /\ "restart" \in e.timers <=> "restart" \in dumper.timers
    BY <2>2, <2>3, EvaluatedWorker
  <2> HIDE DEF e
  <2>5. dumper.polls BY <1>1, <2>1 DEF ProcessKept
  <2>6. Restarted' BY <1>1, <1>2, <2>1, <2>4, RestartKept
  <2>7. ProcessKept' BY <1>1, <2>1, <2>4, <2>5 DEF ProcessKept
  <2>8. GraphFollows' BY <1>1, <2>1, <2>4, GraphKept
  <2>9. StreamsLink' BY <1>1, <2>1 DEF StreamsLink
  <2>10. AudioIs(audio') BY <1>1, <2>1
  <2> QED BY <1>1, <1>2, <2>1, <2>3, <2>4, <2>5, <2>6, <2>7, <2>8, <2>9, <2>10,
             PrivacyJudges DEF e, AudioIs
<1>5. CASE dumper' = Privacy!WithProcess(dumper) /\ audio' = Privacy!Unread /\ UNCHANGED news
           /\ dumper.timers # {}
  <2> DEFINE v == Privacy!WithProcess(dumper)
  <2>1. /\ v \in Workers /\ v.process = "starting" /\ v.graph = Privacy!NoGraph
        /\ v.polls = dumper.polls /\ v.mic = dumper.mic
    BY <1>1, StoppedWorker
  <2> HIDE DEF v
  <2>2. dumper' = v BY <1>5 DEF v
  <2>3. dumper.polls BY <1>1, <1>5 DEF ProcessKept
  <2>4. Restarted' BY <1>1, <1>2, <2>1, <2>2, RestartKept
  <2> QED BY <1>1, <1>2, <1>5, <2>1, <2>2, <2>3, <2>4, PrivacyAnew
<1>6. CASE Privacy!OnRestart
  BY <1>5, <1>6 DEF Privacy!OnRestart, Privacy!Fires
<1>7. CASE Privacy!OnPoll
  <2>1. "poll" \in dumper.timers BY <1>7 DEF Privacy!OnPoll, Privacy!Fires
  <2>2. CASE dumper.process \in {"none", "dead"}
    BY <1>5, <1>7, <2>1, <2>2 DEF Privacy!OnPoll
  <2>3. CASE dumper.process \notin {"none", "dead"} /\ dumper.mic
    <3> DEFINE e == Privacy!Evaluated(dumper)
    <3>1. dumper' = e /\ news' = Privacy!Reported(dumper, e) /\ UNCHANGED audio
      BY <1>7, <2>3 DEF Privacy!OnPoll
    <3>2. /\ e \in Workers /\ e.process = dumper.process /\ e.graph = dumper.graph
          /\ e.polls = dumper.polls
          /\ "restart" \in e.timers <=> "restart" \in dumper.timers
      BY <1>1, EvaluatedWorker
    <3> HIDE DEF e
    <3>3. dumper.polls BY <1>1, <2>1 DEF ProcessKept
    <3>4. Restarted' BY <1>1, <1>2, <3>1, <3>2, RestartKept
    <3>5. ProcessKept' BY <1>1, <3>1, <3>2, <3>3 DEF ProcessKept
    <3>6. GraphFollows' BY <1>1, <3>1, <3>2, GraphKept
    <3>7. StreamsLink' BY <1>1, <3>1 DEF StreamsLink
    <3>8. AudioIs(audio') BY <1>1, <3>1
    <3> QED BY <1>1, <1>2, <3>1, <3>2, <3>3, <3>4, <3>5, <3>6, <3>7, <3>8,
               PrivacyJudges DEF e, AudioIs
  <2>4. CASE dumper.process \notin {"none", "dead"} /\ ~dumper.mic
    <3> DEFINE t == dumper.timers \ {"poll"}
               v == [dumper EXCEPT !.timers = t]
    <3>1. dumper' = v /\ UNCHANGED <<news, audio>> BY <1>7, <2>4 DEF Privacy!OnPoll
    <3>2. /\ t \in SUBSET Privacy!Timers /\ ("restart" \in t <=> "restart" \in dumper.timers)
          /\ "debounce" \in t <=> "debounce" \in dumper.timers
      BY <1>1 DEF Workers
    <3> HIDE DEF t
    <3>3. /\ v \in Workers /\ v.process = dumper.process /\ v.graph = dumper.graph
          /\ v.polls = dumper.polls /\ v.mic = dumper.mic /\ v.timers = t
      BY <1>1, <3>2 DEF Workers
    <3> HIDE DEF v
    <3>4. dumper.polls BY <1>1, <2>1 DEF ProcessKept
    <3>5. PrivacyTypes' BY <1>1, <1>2, <3>1, <3>3 DEF PrivacyTypes
    <3>6. Restarted' BY <1>1, <1>2, <3>1, <3>3, RestartKept
    <3>7. ProcessKept' BY <1>1, <3>1, <3>2, <3>3, <3>4 DEF ProcessKept
    <3>8. GraphFollows' BY <1>1, <3>1, <3>3, GraphKept
    <3>9. StreamsLink' BY <1>1, <3>1 DEF StreamsLink
    <3>10. Judged' BY <1>1, <2>4, <3>1, <3>2, <3>3 DEF Judged, Privacy!Records
    <3>11. Noticed' BY <1>1, <1>2, <3>1, <3>3 DEF Noticed
    <3> QED BY <3>5, <3>6, <3>7, <3>8, <3>9, <3>10, <3>11 DEF PrivacyInv
  <2> QED BY <2>2, <2>3, <2>4
<1> QED BY <1>3, <1>4, <1>6, <1>7

(* The GUI thread, PipeWire and ALSA.                                      *)
LEMMA PrivacyOthers ==
    ASSUME PrivacyInv,
           \/ Privacy!OnStateChanged \/ Privacy!SetRunning \/ Privacy!Refresh
           \/ Privacy!StreamChanges \/ Privacy!LinkChanges \/ Privacy!AlsaChanges
    PROVE  PrivacyInv'
<1>1. /\ PrivacyTypes /\ Restarted /\ ProcessKept /\ GraphFollows /\ StreamsLink /\ Judged /\ Noticed
      /\ AudioIs(audio) /\ dumper \in Workers /\ orders \in Seq(Orders) /\ news \in Seq(BOOLEAN)
      /\ indicator \in [running : BOOLEAN, mic : BOOLEAN]
  BY DEF PrivacyInv, PrivacyTypes, AudioIs
<1>2. UNCHANGED dumper
  BY DEF Privacy!OnStateChanged, Privacy!SetRunning, Privacy!Refresh, Privacy!StreamChanges,
         Privacy!LinkChanges, Privacy!AlsaChanges
<1>3. ProcessKept' /\ Judged' BY <1>1, <1>2 DEF ProcessKept, Judged, Privacy!Records
<1>4. CASE Privacy!OnStateChanged
  <2> DEFINE b == Head(news)
  <2>1. /\ news # <<>> /\ indicator' = [indicator EXCEPT !.mic = b] /\ news' = Tail(news)
        /\ UNCHANGED <<audio, orders>>
    BY <1>4 DEF Privacy!OnStateChanged
  <2>2. b \in BOOLEAN /\ news' \in Seq(BOOLEAN) BY <1>1, <2>1
  <2> HIDE DEF b
  <2>3. /\ indicator' \in [running : BOOLEAN, mic : BOOLEAN]
        /\ indicator'.running = indicator.running /\ indicator'.mic = b
    BY <1>1, <2>1, <2>2
  <2>4. Noticed'
    <3>1. CASE news' = <<>>
      <4>1. Len(news) = 1
        <5>1. Len(news) \in Nat /\ Len(news') = Len(news) - 1 BY <1>1, <2>1
        <5>2. Len(news') = 0 BY <3>1
        <5> QED BY <5>1, <5>2
      <4>2. news[Len(news)] = dumper.mic BY <1>1, <2>1 DEF Noticed
      <4>3. b = dumper.mic BY <1>1, <2>1, <4>1, <4>2 DEF b
      <4> QED BY <1>2, <2>3, <3>1, <4>3 DEF Noticed
    <3>2. CASE news' # <<>>
      <4>1. news'[Len(news')] = news[Len(news)] BY <1>1, <2>1, <3>2
      <4> QED BY <1>1, <1>2, <2>1, <3>2, <4>1 DEF Noticed
    <3> QED BY <3>1, <3>2
  <2>5. PrivacyTypes' BY <1>1, <1>2, <2>1, <2>2, <2>3 DEF PrivacyTypes
  <2>6. Restarted' BY <1>1, <1>2, <2>1, <2>3, RestartKept
  <2>7. GraphFollows' /\ StreamsLink' BY <1>1, <1>2, <2>1, GraphKept DEF StreamsLink
  <2> QED BY <1>3, <2>4, <2>5, <2>6, <2>7 DEF PrivacyInv
<1>5. CASE Privacy!SetRunning \/ Privacy!Refresh
  <2>1. PICK o \in Orders :
           /\ orders' = Append(orders, o)
           /\ \/ o = "sample" /\ UNCHANGED indicator
              \/ /\ indicator' = [indicator EXCEPT !.running = ~@]
                 /\ o = IF indicator.running THEN "stop" ELSE "start"
    BY <1>5 DEF Privacy!SetRunning, Privacy!Refresh, Orders
  <2>2. /\ indicator' \in [running : BOOLEAN, mic : BOOLEAN] /\ indicator'.mic = indicator.mic
        /\ \/ o = "sample" /\ indicator'.running = indicator.running
           \/ o = "stop" /\ indicator.running /\ ~indicator'.running
           \/ o = "start"
    BY <1>1, <2>1
  <2>3. UNCHANGED <<audio, news>> BY <1>5 DEF Privacy!SetRunning, Privacy!Refresh
  <2>4. /\ orders' \in Seq(Orders) /\ Len(orders) \in Nat
        /\ DOMAIN orders' = 1 .. (Len(orders) + 1) /\ DOMAIN orders = 1 .. Len(orders)
        /\ orders'[Len(orders) + 1] = o
        /\ \A i \in DOMAIN orders : i \in DOMAIN orders' /\ orders'[i] = orders[i]
    BY <1>1, <2>1
  <2>5. Restarted'
    <3>1. CASE o = "start"
      <4>1. Len(orders) + 1 \in DOMAIN orders' /\ orders'[Len(orders) + 1] = "start" BY <2>4, <3>1
      <4>2. \A i \in DOMAIN orders' : orders'[i] = "stop" => i < Len(orders) + 1
        BY <2>4, <3>1
      <4> QED BY <4>1, <4>2 DEF Restarted
    <3>2. CASE o = "sample" /\ indicator'.running = indicator.running
      <4>1. ASSUME indicator.running, NEW i \in DOMAIN orders', orders'[i] = "stop"
            PROVE  \E j \in DOMAIN orders' : i < j /\ orders'[j] = "start"
        <5>1. i \in DOMAIN orders /\ orders[i] = "stop" BY <2>4, <3>2, <4>1
        <5> QED BY <1>1, <2>4, <4>1, <5>1 DEF Restarted
      <4>2. ASSUME indicator.running, dumper.process = "none"
            PROVE  \E j \in DOMAIN orders' : orders'[j] = "start"
        BY <1>1, <2>4, <4>2 DEF Restarted
      <4> QED BY <1>2, <3>2, <4>1, <4>2 DEF Restarted
    <3>3. CASE ~indicator'.running BY <3>3 DEF Restarted
    <3> QED BY <2>2, <3>1, <3>2, <3>3
  <2>6. PrivacyTypes' BY <1>1, <1>2, <2>2, <2>3, <2>4 DEF PrivacyTypes
  <2>7. Noticed' BY <1>1, <1>2, <2>2, <2>3 DEF Noticed
  <2>8. GraphFollows' /\ StreamsLink' BY <1>1, <1>2, <2>3, GraphKept DEF StreamsLink
  <2> QED BY <1>3, <2>5, <2>6, <2>7, <2>8 DEF PrivacyInv
<1>6. CASE Privacy!StreamChanges \/ Privacy!LinkChanges \/ Privacy!AlsaChanges
  <2>1. UNCHANGED <<orders, news, indicator>>
    BY <1>6 DEF Privacy!StreamChanges, Privacy!LinkChanges, Privacy!AlsaChanges
  <2>2. Restarted' /\ Noticed' BY <1>1, <1>2, <2>1, RestartKept DEF Noticed
  <2>3. SUFFICES AudioIs(audio') /\ GraphFollows' /\ StreamsLink'
    BY <1>1, <1>2, <1>3, <2>1, <2>2 DEF PrivacyInv, PrivacyTypes, AudioIs
  <2> DEFINE end == [source |-> TRUE, stream |-> audio.stream, link |-> audio.link]
  <2>4. /\ audio.up \in BOOLEAN /\ audio.stream \in Privacy!Streams /\ audio.link \in Privacy!Links
        /\ audio.printed \in Seq(Chunks)
    BY <1>1 DEF AudioIs
  <2>5. end \in Graphs BY <2>4 DEF Graphs
  <2>6. CASE Privacy!AlsaChanges
    <3>1. PICK c \in Privacy!Captures : audio' = [audio EXCEPT !.alsa = c]
      BY <2>6, Zenon DEF Privacy!AlsaChanges
    <3>2. /\ AudioIs(audio') /\ audio'.printed = audio.printed /\ audio'.up = audio.up
          /\ audio'.stream = audio.stream /\ audio'.link = audio.link
      BY <1>1, <3>1 DEF AudioIs
    <3>3. StreamsLink' BY <1>1, <3>2 DEF StreamsLink
    <3>4. GraphFollows'
      <4>1. CASE ~(dumper.process = "runs" /\ audio.up)
        BY <1>1, <1>2, <3>2, <4>1 DEF GraphFollows
      <4>2. CASE dumper.process = "runs" /\ audio.up
        <5>1. PICK h \in [0 .. Len(audio.printed) -> Graphs] :
                  Unfolds(h, audio.printed, dumper.graph, end)
          BY <1>1, <4>2 DEF GraphFollows
        <5> QED BY <1>2, <3>2, <4>2, <5>1 DEF GraphFollows
      <4> QED BY <4>1, <4>2
    <3> QED BY <3>2, <3>3, <3>4
  <2>7. ASSUME NEW s \in Privacy!Streams, NEW l \in Privacy!Links, NEW c \in Chunks,
               (s = "none" => l = "none"), audio.up,
               Privacy!Merged(end, c) = [source |-> TRUE, stream |-> s, link |-> l],
               audio' = [audio EXCEPT !.stream = s, !.link = l,
                            !.printed = IF dumper.process = "runs" THEN Append(@, c) ELSE @]
        PROVE  AudioIs(audio') /\ GraphFollows' /\ StreamsLink'
    <3> DEFINE p == IF dumper.process = "runs" THEN Append(audio.printed, c) ELSE audio.printed
    <3>1. p \in Seq(Chunks) BY <2>4
    <3>2. audio' = [audio EXCEPT !.stream = s, !.link = l, !.printed = p] BY <2>7
    <3> HIDE DEF p
    <3>3. /\ AudioIs(audio') /\ audio'.printed = p /\ audio'.up = audio.up
          /\ audio'.stream = s /\ audio'.link = l
      BY <1>1, <3>1, <3>2 DEF AudioIs
    <3>4. StreamsLink' BY <2>7, <3>3 DEF StreamsLink
    <3>5. ASSUME dumper.process # "runs" PROVE GraphFollows'
      BY <1>1, <1>2, <3>3, <3>5 DEF GraphFollows, p
    <3>6. ASSUME dumper.process = "runs" PROVE GraphFollows'
      <4> DEFINE q == audio.printed
                 g == dumper.graph
                 m == Privacy!Merged(end, c)
      <4>1. PICK h \in [0 .. Len(q) -> Graphs] : Unfolds(h, q, g, end)
        BY <1>1, <2>7, <3>6 DEF GraphFollows
      <4>2. g \in Graphs /\ q \in Seq(Chunks) /\ p = Append(q, c)
        BY <1>1, <2>4, <3>6 DEF Workers, p
      <4> HIDE DEF q, g, end
      <4>3. \E f \in [0 .. Len(p) -> Graphs] : Unfolds(f, p, g, m)
        BY <2>5, <2>7, <4>1, <4>2, GraphPrinted
      <4>4. m = [source |-> TRUE, stream |-> s, link |-> l] BY <2>7
      <4> HIDE DEF m
      <4> QED BY <1>2, <2>7, <3>3, <3>6, <4>3, <4>4 DEF GraphFollows, g
    <3> QED BY <3>3, <3>4, <3>5, <3>6
  <2>8. CASE Privacy!StreamChanges
    <3>1. PICK s \in Privacy!Streams :
             audio' = [audio EXCEPT !.stream = s, !.link = IF s = "none" THEN "none" ELSE @,
                                    !.printed = Privacy!Printed(s, "same")]
      BY <2>8, Zenon DEF Privacy!StreamChanges
    <3> DEFINE l == IF s = "none" THEN "none" ELSE audio.link
               c == [source |-> FALSE, stream |-> s, link |-> "same"]
    <3>2. l \in Privacy!Links /\ (s = "none" => l = "none") /\ audio.up
      BY <2>4, <2>8 DEF Privacy!Links, Privacy!StreamChanges
    <3>3. c \in Chunks BY DEF Chunks
    <3>4. Privacy!Merged(end, c) = [source |-> TRUE, stream |-> s, link |-> l]
      BY DEF Privacy!Merged, Privacy!Streams
    <3>5. audio' = [audio EXCEPT !.stream = s, !.link = l,
                       !.printed = IF dumper.process = "runs" THEN Append(@, c) ELSE @]
      BY <3>1, Zenon DEF Privacy!Printed
    <3> HIDE DEF l, c, end
    <3> QED BY <2>7, <3>2, <3>3, <3>4, <3>5
  <2>9. CASE Privacy!LinkChanges
    <3>1. PICK k \in Privacy!Links :
             audio' = [audio EXCEPT !.link = k, !.printed = Privacy!Printed("same", k)]
      BY <2>9, Zenon DEF Privacy!LinkChanges
    <3> DEFINE s == audio.stream
               c == [source |-> FALSE, stream |-> "same", link |-> k]
    <3>2. s # "none" /\ audio.up
      BY <1>1, <2>4, <2>9 DEF Privacy!LinkChanges, StreamsLink
    <3>3. c \in Chunks BY DEF Chunks
    <3>4. Privacy!Merged(end, c) = [source |-> TRUE, stream |-> s, link |-> k]
      BY <3>2 DEF Privacy!Merged, Privacy!Links
    <3>5. audio' = [audio EXCEPT !.stream = s, !.link = k,
                       !.printed = IF dumper.process = "runs" THEN Append(@, c) ELSE @]
      BY <1>1, <3>1 DEF Privacy!Printed, AudioIs
    <3>6. s \in Privacy!Streams BY <2>4
    <3> HIDE DEF s, c, end
    <3> QED BY <2>7, <3>2, <3>3, <3>4, <3>5, <3>6
  <2> QED BY <1>6, <2>6, <2>8, <2>9
<1> QED BY <1>4, <1>5, <1>6

(* Every step of the monitor keeps the invariant.                          *)
LEMMA PrivacyStep == ASSUME PrivacyInv, Privacy!Next PROVE PrivacyInv'
BY PrivacyOrders, PrivacyProcess, PrivacyTimers, PrivacyOthers DEF Privacy!Next, Privacy!Worker

(* The claim: the microphone's indicator.                                  *)
LEMMA PrivacyClaim == PrivacyInv => Privacy!MicrophoneShown
<1> SUFFICES ASSUME PrivacyInv PROVE Privacy!MicrophoneShown
  OBVIOUS
<1>1. ASSUME Privacy!Settled
      PROVE  /\ Privacy!Recording => indicator.mic
             /\ indicator.mic /\ ~Privacy!Recording => "poll" \in dumper.timers
  <2>1. /\ audio.up /\ dumper.process = "runs" /\ audio.printed = <<>> /\ news = <<>>
        /\ "debounce" \notin dumper.timers
    BY <1>1 DEF Privacy!Settled
  <2> DEFINE end == [source |-> TRUE, stream |-> audio.stream, link |-> audio.link]
  <2>2. PICK h \in [0 .. Len(audio.printed) -> Graphs] :
            Unfolds(h, audio.printed, dumper.graph, end)
    BY <2>1 DEF PrivacyInv, GraphFollows
  <2>3. dumper.graph = end
    <3>1. Len(audio.printed) = 0 BY <2>1
    <3> HIDE DEF end
    <3> QED BY <2>2, <3>1 DEF Unfolds
  <2>4. end.source = TRUE /\ end # Privacy!NoGraph BY DEF Privacy!NoGraph
  <2>5. Privacy!Records(dumper.graph) <=> Privacy!Recording
    BY <2>3 DEF Privacy!Records, Privacy!Recording
  <2>6. indicator.mic = dumper.mic BY <2>1 DEF PrivacyInv, Noticed
  <2> HIDE DEF end
  <2> QED BY <2>1, <2>3, <2>4, <2>5, <2>6 DEF PrivacyInv, Judged
<1>2. ASSUME indicator.running, orders = <<>>, dumper.process \in {"none", "dead"}
      PROVE  dumper.timers \cap {"restart", "poll"} # {}
  BY <1>2 DEF PrivacyInv, Restarted, ProcessKept
<1> QED BY <1>1, <1>2 DEF Privacy!MicrophoneShown

(* Every reachable state satisfies the invariant of the microphone.        *)
LEMMA PrivacyAlways == Spec => []PrivacyInv
<1>1. Init => PrivacyInv BY PrivacyInit DEF Init
<1>2. PrivacyInv /\ [Next]_vars => PrivacyInv'
  <2> SUFFICES ASSUME PrivacyInv, [Next]_vars PROVE PrivacyInv'
    OBVIOUS
  <2>1. CASE UNCHANGED privacyVars
    <3>1. UNCHANGED <<audio, dumper, orders, news, indicator>> BY <2>1 DEF privacyVars
    <3>2. /\ PrivacyTypes' /\ Restarted' /\ ProcessKept' /\ StreamsLink' /\ Judged' /\ Noticed'
      BY <3>1 DEF PrivacyInv, PrivacyTypes, Restarted, ProcessKept, StreamsLink, Judged, Noticed,
                  Privacy!Records
    <3>3. GraphFollows' BY <3>1, GraphKept DEF PrivacyInv
    <3> QED BY <3>2, <3>3 DEF PrivacyInv
  <2>2. Privacy!Next \/ UNCHANGED privacyVars
    BY DEF Next, vars, OnlyLists, OnlyTree, OnlyTop, OnlyPrivacy, OnlyJobs, OnlyWindows,
           OnlyPower, privacyVars
  <2> QED BY <2>1, <2>2, PrivacyStep
<1> QED BY <1>1, <1>2, PTL DEF Spec

(* MicrophoneShown holds for any number of changes of the graph, deaths of *)
(* pw-dump and calls of the user: a recording that PipeWire shows is       *)
(* indicated once what was printed has been read, an indicator that stays  *)
(* on is looked at again, and a process that has gone is about to be       *)
(* replaced (PrivacyMonitor.cpp).                                          *)
THEOREM MicrophoneAlwaysShown == Spec => []Privacy!MicrophoneShown
  BY PrivacyAlways, PrivacyClaim, PTL

-----------------------------------------------------------------------------
(* The windows of KWin.                                                    *)

Types == {"load", "run", "unload"}
Calls == [type : Types, script : Windows!Scripts]
Answers == [type : Types, script : Windows!Scripts, ok : BOOLEAN]
Updates == [type : {"windows"}, windows : {1, 2}]

WindowTypes ==
    /\ kwin \in [script : {"none", "loaded", "running"}, windows : {1, 2}]
    /\ manager \in [instances : Nat, id : BOOLEAN, file : BOOLEAN, model : {0, 1, 2},
                    actions : Nat, slipped : BOOLEAN]
    /\ toKWin \in Seq(Calls) /\ fromKWin \in Seq(Answers \cup Updates)

ActionCalls == [type : Types, script : {"action"}]
ActionAnswers == [type : Types, script : {"action"}, ok : BOOLEAN]

\* Each script of an action is in one message, on its way there or back.
ActionsCounted ==
    manager.actions = Count(toKWin, ActionCalls) + Count(fromKWin, ActionAnswers)

\* The calls and the answer that are about the tracking script.
Loads == {Windows!Call("load", "tracker")}
Runs == {Windows!Call("run", "tracker")}
Unloads == {Windows!Call("unload", "tracker")}
Loadeds == [type : {"load"}, script : {"tracker"}, ok : BOOLEAN]
Refusals == [type : {"load"}, script : {"tracker"}, ok : {FALSE}]

\* They come once each, in the order of the life of a script.
CallsOrdered(q) ==
    /\ Single(q, Loads) /\ Single(q, Runs) /\ Single(q, Unloads)
    /\ Before(q, Runs, Unloads) /\ Before(q, Unloads, Loads) /\ Before(q, Runs, Loads)

\* The earlier script is unloaded, or about to be.
Cleared ==
    ~Carries(toKWin, Unloads) => kwin.script = "none" /\ ~Carries(toKWin, Runs)

\* The updates of today's windows.
Today == {u \in Updates : u.windows = kwin.windows}

\* The model shows today's windows when all has been delivered.
ModelFollows ==
    /\ manager.model # kwin.windows => Carries(fromKWin, Today)
    /\ \A i \in DOMAIN fromKWin : fromKWin[i] \in Updates \ Today =>
          \E j \in DOMAIN fromKWin : i < j /\ fromKWin[j] \in Today

\* No instance; a first one whose script is to be loaded, or has been; and one
\* whose script is to be run, or runs.
Gone ==
    /\ ~manager.id /\ ~manager.file
    /\ ~Carries(toKWin, Loads) /\ ~Carries(fromKWin, Loadeds) /\ Cleared
Loading ==
    /\ manager.file
    /\ \/ Carries(toKWin, Loads) /\ ~Carries(fromKWin, Loadeds) /\ Cleared
       \/ /\ ~Carries(toKWin, Loads) /\ ~Carries(toKWin, Runs) /\ ~Carries(toKWin, Unloads)
          /\ Carries(fromKWin, Loadeds) /\ ~Carries(fromKWin, Refusals)
          /\ kwin.script = "loaded"
Tracking ==
    /\ manager.file
    /\ ~Carries(toKWin, Loads) /\ ~Carries(toKWin, Unloads) /\ ~Carries(fromKWin, Loadeds)
    /\ IF Carries(toKWin, Runs) THEN kwin.script = "loaded"
       ELSE kwin.script = "running" /\ ModelFollows

TrackerFollows ==
    ~manager.slipped =>
       /\ CallsOrdered(toKWin) /\ Single(fromKWin, Loadeds)
       /\ IF manager.instances = 0 THEN Gone ELSE IF manager.id THEN Tracking ELSE Loading

WindowsInv == WindowTypes /\ ActionsCounted /\ TrackerFollows

-----------------------------------------------------------------------------

(* Which message is which.                                                 *)
LEMMA MessagesApart ==
    /\ \A t \in Types, x \in Windows!Scripts : Windows!Call(t, x) \in Calls
    /\ \A t \in Types : Windows!Call(t, "action") \in ActionCalls
    /\ \A c \in ActionCalls : c \in Calls /\ c \notin Loads /\ c \notin Runs /\ c \notin Unloads
    /\ \A t \in Types : Windows!Call(t, "tracker") \notin ActionCalls
    /\ \A c \in Loads : c \notin Runs /\ c \notin Unloads
    /\ \A c \in Runs : c \notin Loads /\ c \notin Unloads
    /\ \A c \in Unloads : c \notin Runs /\ c \notin Loads
    /\ \A a \in ActionAnswers : a \in Answers /\ a \notin Loadeds /\ a \notin Refusals /\ a \notin Updates
    /\ \A u \in Updates : u \notin Loadeds /\ u \notin Refusals /\ u \notin ActionAnswers
    /\ \A a \in Loadeds : a \in Answers /\ a \notin ActionAnswers /\ a \notin Updates
                          /\ (a \in Refusals <=> ~a.ok)
    /\ \A a \in Refusals : a \in Loadeds
<1>1. /\ \A t \in Types, x \in Windows!Scripts : Windows!Call(t, x) \in Calls
      /\ \A t \in Types : Windows!Call(t, "action") \in ActionCalls
      /\ \A t \in Types : Windows!Call(t, "tracker") \notin ActionCalls
  BY DEF Calls, ActionCalls, Windows!Call, Windows!Scripts
<1>2. \A c \in ActionCalls : c \in Calls /\ c \notin Loads /\ c \notin Runs /\ c \notin Unloads
  BY DEF Calls, ActionCalls, Windows!Call, Windows!Scripts, Loads, Runs, Unloads
<1>3. /\ \A c \in Loads : c \notin Runs /\ c \notin Unloads
      /\ \A c \in Runs : c \notin Loads /\ c \notin Unloads
      /\ \A c \in Unloads : c \notin Runs /\ c \notin Loads
  BY DEF Windows!Call, Loads, Runs, Unloads
<1>4. \A a \in ActionAnswers : a \in Answers /\ a \notin Loadeds /\ a \notin Refusals /\ a \notin Updates
  BY DEF ActionAnswers, Answers, Loadeds, Refusals, Updates, Types, Windows!Scripts
<1>5. \A u \in Updates : u \notin Loadeds /\ u \notin Refusals /\ u \notin ActionAnswers
  BY DEF ActionAnswers, Loadeds, Refusals, Updates, Types
<1>6. \A a \in Loadeds : a \in Answers /\ a \notin ActionAnswers /\ a \notin Updates
                         /\ (a \in Refusals <=> ~a.ok)
  BY DEF ActionAnswers, Answers, Loadeds, Refusals, Updates, Types, Windows!Scripts
<1>7. \A a \in Refusals : a \in Loadeds BY DEF Loadeds, Refusals
<1> QED BY <1>1, <1>2, <1>3, <1>4, <1>5, <1>6, <1>7

(* Nothing has been called yet.                                            *)
LEMMA WindowsInit == Windows!Init => WindowsInv
<1> SUFFICES ASSUME Windows!Init PROVE WindowsInv
  OBVIOUS
<1>1. WindowTypes BY DEF Windows!Init, Windows!NoModel, WindowTypes
<1>2. /\ toKWin = <<>> /\ fromKWin = <<>> /\ kwin.script = "none" /\ manager.instances = 0
      /\ ~manager.id /\ ~manager.file /\ manager.actions = 0
  BY DEF Windows!Init
<1>3. \A M : Count(toKWin, M) = 0 /\ Count(fromKWin, M) = 0
  <2> SUFFICES ASSUME NEW M PROVE Count(<<>>, M) = 0
    BY <1>2
  <2> DEFINE I == {i \in 1 .. Len(<<>>) : <<>>[i] \in M}
  <2>1. I = {} OBVIOUS
  <2> QED BY <2>1, FS_EmptySet DEF Count
<1>4. ActionsCounted BY <1>2, <1>3 DEF ActionsCounted
<1>5. TrackerFollows
  BY <1>2 DEF TrackerFollows, CallsOrdered, Single, Before, Carries, Gone, Cleared
<1> QED BY <1>1, <1>4, <1>5 DEF WindowsInv

-----------------------------------------------------------------------------

(* A step that is not about the tracking script.                           *)
LEMMA TrackerKept ==
    ASSUME TrackerFollows, manager'.slipped = manager.slipped, manager'.id = manager.id,
           manager'.file = manager.file, (manager'.instances = 0) <=> (manager.instances = 0),
           kwin'.script = kwin.script,
           \A M \in {Loads, Runs, Unloads} : Carries(toKWin', M) <=> Carries(toKWin, M),
           \A M \in {Loadeds, Refusals} : Carries(fromKWin', M) <=> Carries(fromKWin, M),
           CallsOrdered(toKWin) => CallsOrdered(toKWin'),
           Single(fromKWin, Loadeds) => Single(fromKWin', Loadeds),
           kwin.script = "running" /\ ModelFollows => ModelFollows'
    PROVE  TrackerFollows'
<1>1. Cleared => Cleared' BY DEF Cleared
<1>2. Gone => Gone' BY <1>1 DEF Gone
<1>3. Loading => Loading' BY <1>1 DEF Loading
<1>4. Tracking => Tracking' BY DEF Tracking
<1> QED BY <1>2, <1>3, <1>4 DEF TrackerFollows

(* A call for an action's script comes or goes.                            *)
LEMMA CallsKept ==
    ASSUME NEW q \in Seq(Calls), NEW r,
           \/ q # <<>> /\ Head(q) \in ActionCalls /\ r = Tail(q)
           \/ \E c \in ActionCalls : r = Append(q, c)
    PROVE  /\ r \in Seq(Calls)
           /\ \A M \in {Loads, Runs, Unloads} : Carries(r, M) <=> Carries(q, M)
           /\ CallsOrdered(q) => CallsOrdered(r)
<1>1. CASE q # <<>> /\ Head(q) \in ActionCalls /\ r = Tail(q)
  <2>1. r \in Seq(Calls) BY <1>1, MessageTaken
  <2>2. \A M \in {Loads, Runs, Unloads} : Carries(r, M) <=> Carries(q, M)
    BY <1>1, MessageTaken, MessagesApart
  <2>3. CallsOrdered(q) => CallsOrdered(r)
    BY <1>1, MessageTaken DEF CallsOrdered
  <2> QED BY <2>1, <2>2, <2>3
<1>2. CASE \E c \in ActionCalls : r = Append(q, c)
  <2>1. PICK c \in ActionCalls : r = Append(q, c) BY <1>2
  <2>2. c \in Calls /\ c \notin Loads /\ c \notin Runs /\ c \notin Unloads BY MessagesApart
  <2>3. /\ r \in Seq(Calls)
        /\ \A M : Carries(r, M) <=> Carries(q, M) \/ c \in M
        /\ \A M : Single(q, M) /\ (c \in M => ~Carries(q, M)) => Single(r, M)
        /\ \A M, N : Before(q, M, N) /\ c \notin M => Before(r, M, N)
    BY <2>1, <2>2, MessageAdded
  <2> QED BY <2>2, <2>3 DEF CallsOrdered
<1> QED BY <1>1, <1>2

(* An answer for an action's script, or an update, comes or goes.          *)
LEMMA AnswersKept ==
    ASSUME NEW q \in Seq(Answers \cup Updates), NEW r,
           \/ q # <<>> /\ Head(q) \in ActionAnswers \cup Updates /\ r = Tail(q)
           \/ \E m \in ActionAnswers \cup Updates : r = Append(q, m)
    PROVE  /\ r \in Seq(Answers \cup Updates)
           /\ \A M \in {Loadeds, Refusals} : Carries(r, M) <=> Carries(q, M)
           /\ Single(q, Loadeds) => Single(r, Loadeds)
<1>1. \A m \in ActionAnswers \cup Updates :
         m \in Answers \cup Updates /\ m \notin Loadeds /\ m \notin Refusals
  BY MessagesApart
<1>2. CASE q # <<>> /\ Head(q) \in ActionAnswers \cup Updates /\ r = Tail(q)
  BY <1>1, <1>2, MessageTaken
<1>3. CASE \E m \in ActionAnswers \cup Updates : r = Append(q, m)
  <2>1. PICK m \in ActionAnswers \cup Updates : r = Append(q, m) BY <1>3
  <2> QED BY <1>1, <2>1, MessageAdded
<1> QED BY <1>2, <1>3

(* KWin tells of the windows there are.                                    *)
LEMMA ModelTold ==
    ASSUME NEW q \in Seq(Answers \cup Updates), NEW u \in Updates, u.windows = kwin'.windows,
           fromKWin' = Append(q, u)
    PROVE  ModelFollows'
<1> DEFINE n == Len(q)
<1>1. u \in Today' BY DEF Today
<1>2. /\ n \in Nat /\ DOMAIN fromKWin' = 1 .. n + 1 /\ fromKWin'[n + 1] = u
  OBVIOUS
<1> HIDE DEF n
<1>3. n + 1 \in DOMAIN fromKWin' BY <1>2
<1>4. Carries(fromKWin', Today') BY <1>1, <1>2, <1>3 DEF Carries
<1>5. ASSUME NEW i \in DOMAIN fromKWin', fromKWin'[i] \in (Updates \ Today)'
      PROVE  i < n + 1
  BY <1>1, <1>2, <1>5
<1> QED BY <1>1, <1>2, <1>3, <1>4, <1>5 DEF ModelFollows

(* An answer is added behind.                                              *)
LEMMA ModelKeptBehind ==
    ASSUME NEW q \in Seq(Answers \cup Updates), NEW m \in Answers, m \notin Updates,
           ModelFollows, q = fromKWin, manager'.model = manager.model, kwin'.windows = kwin.windows,
           fromKWin' = Append(q, m)
    PROVE  ModelFollows'
<1> DEFINE n == Len(q)
<1>1. Today' = Today /\ m \notin Updates /\ m \notin Today BY DEF Today
<1>2. /\ n \in Nat /\ DOMAIN q = 1 .. n /\ DOMAIN fromKWin' = 1 .. n + 1 /\ fromKWin'[n + 1] = m
      /\ \A i \in 1 .. n : fromKWin'[i] = q[i]
  OBVIOUS
<1> HIDE DEF n
<1>3. ASSUME NEW i \in DOMAIN q PROVE i \in DOMAIN fromKWin' /\ fromKWin'[i] = fromKWin[i]
  BY <1>2
<1>4. ASSUME NEW i \in DOMAIN fromKWin', fromKWin'[i] \in Updates PROVE i \in DOMAIN q
  BY <1>1, <1>2, <1>4
<1>5. manager'.model # kwin'.windows => Carries(fromKWin', Today')
  <2> SUFFICES ASSUME manager.model # kwin.windows PROVE Carries(fromKWin', Today')
    OBVIOUS
  <2>1. PICK i \in DOMAIN fromKWin : fromKWin[i] \in Today BY DEF ModelFollows, Carries
  <2>2. i \in DOMAIN fromKWin' /\ fromKWin'[i] = fromKWin[i] BY <1>3
  <2> QED BY <1>1, <2>1, <2>2 DEF Carries
<1>6. ASSUME NEW i \in DOMAIN fromKWin', fromKWin'[i] \in Updates \ Today'
      PROVE  \E j \in DOMAIN fromKWin' : i < j /\ fromKWin'[j] \in Today'
  <2>1. i \in DOMAIN q /\ fromKWin[i] \in Updates \ Today BY <1>1, <1>3, <1>4, <1>6
  <2>2. PICK j \in DOMAIN fromKWin : i < j /\ fromKWin[j] \in Today BY <2>1 DEF ModelFollows
  <2>3. j \in DOMAIN fromKWin' /\ fromKWin'[j] = fromKWin[j] BY <1>3
  <2> QED BY <1>1, <2>2, <2>3
<1> QED BY <1>5, <1>6 DEF ModelFollows

(* The message at the head is taken; an update is what the model shows.    *)
LEMMA ModelKeptAhead ==
    ASSUME NEW q \in Seq(Answers \cup Updates), q # <<>>, q = fromKWin,
           ModelFollows, kwin'.windows = kwin.windows, fromKWin' = Tail(q),
           IF Head(q) \in Updates THEN manager'.model = Head(q).windows
           ELSE manager'.model = manager.model
    PROVE  ModelFollows'
<1> DEFINE n == Len(q)
<1>1. Today' = Today BY DEF Today
<1>2. /\ n \in Nat /\ n # 0 /\ DOMAIN q = 1 .. n /\ DOMAIN fromKWin' = 1 .. n - 1 /\ Head(q) = q[1]
      /\ \A i \in 1 .. n - 1 : fromKWin'[i] = q[i + 1]
  OBVIOUS
<1> HIDE DEF n
<1>3. ASSUME NEW j \in DOMAIN q, 1 < j PROVE j - 1 \in DOMAIN fromKWin' /\ fromKWin'[j - 1] = q[j]
  BY <1>2, <1>3
<1>4. ASSUME NEW i \in DOMAIN fromKWin', fromKWin'[i] \in Updates \ Today'
      PROVE  \E j \in DOMAIN fromKWin' : i < j /\ fromKWin'[j] \in Today'
  <2>1. i + 1 \in DOMAIN q /\ q[i + 1] \in Updates \ Today BY <1>1, <1>2, <1>4
  <2>2. PICK j \in DOMAIN q : i + 1 < j /\ q[j] \in Today BY <2>1 DEF ModelFollows
  <2>3. 1 < j /\ i < j - 1 BY <1>2, <2>2
  <2>4. j - 1 \in DOMAIN fromKWin' /\ fromKWin'[j - 1] = q[j] BY <1>3, <2>3
  <2> QED BY <1>1, <2>2, <2>3, <2>4
<1>5. ASSUME manager'.model # kwin'.windows PROVE Carries(fromKWin', Today')
  <2>1. \E j \in DOMAIN q : 1 < j /\ q[j] \in Today
    <3>1. CASE Head(q) \in Updates
      <4>1. 1 \in DOMAIN q /\ q[1] \in Updates \ Today BY <1>2, <1>5, <3>1 DEF Today
      <4> QED BY <4>1 DEF ModelFollows
    <3>2. CASE Head(q) \notin Updates
      <4>1. PICK j \in DOMAIN q : q[j] \in Today BY <1>5, <3>2 DEF ModelFollows, Carries
      <4>2. j # 1 BY <1>2, <3>2, <4>1 DEF Today
      <4> QED BY <1>2, <4>1, <4>2
    <3> QED BY <3>1, <3>2
  <2>2. PICK j \in DOMAIN q : 1 < j /\ q[j] \in Today BY <2>1
  <2>3. j - 1 \in DOMAIN fromKWin' /\ fromKWin'[j - 1] = q[j] BY <1>3, <2>2
  <2> QED BY <1>1, <2>2, <2>3 DEF Carries
<1> QED BY <1>4, <1>5 DEF ModelFollows

(* The windows change: KWin tells of it when the script runs.              *)
LEMMA WindowsTold ==
    ASSUME WindowTypes, kwin' = Windows!Changed
    PROVE  /\ kwin' \in [script : {"none", "loaded", "running"}, windows : {1, 2}]
           /\ kwin'.script = kwin.script
           /\ \E m \in Seq(Answers \cup Updates) :
                 /\ m = fromKWin \o Windows!Tells(Windows!Changed.windows)
                 /\ IF kwin.script = "running"
                    THEN \E u \in Updates : u.windows = kwin'.windows /\ m = Append(fromKWin, u)
                    ELSE m = fromKWin
<1> DEFINE w == 3 - kwin.windows
           u == [type |-> "windows", windows |-> w]
           m == fromKWin \o Windows!Tells(w)
<1>1. kwin \in [script : {"none", "loaded", "running"}, windows : {1, 2}]
      /\ fromKWin \in Seq(Answers \cup Updates)
  BY DEF WindowTypes
<1>2. w \in {1, 2} /\ kwin' = [kwin EXCEPT !.windows = w] BY <1>1 DEF Windows!Changed
<1> HIDE DEF w
<1>3. /\ kwin' \in [script : {"none", "loaded", "running"}, windows : {1, 2}]
      /\ kwin'.script = kwin.script /\ kwin'.windows = w
  BY <1>1, <1>2
<1>4. u \in Updates /\ u.windows = w BY <1>2 DEF Updates
<1>5. CASE kwin.script = "running"
  <2>1. Windows!Tells(w) = <<u>> BY <1>5 DEF Windows!Tells
  <2> HIDE DEF u
  <2>2. fromKWin \o <<u>> = Append(fromKWin, u) /\ Append(fromKWin, u) \in Seq(Answers \cup Updates)
    BY <1>1, <1>4
  <2> QED BY <1>2, <1>3, <1>4, <1>5, <2>1, <2>2
<1>6. CASE kwin.script # "running"
  <2>1. Windows!Tells(w) = <<>> BY <1>6 DEF Windows!Tells
  <2>2. fromKWin \o <<>> = fromKWin BY <1>1
  <2> QED BY <1>1, <1>2, <1>3, <1>6, <2>1, <2>2
<1> QED BY <1>5, <1>6

-----------------------------------------------------------------------------

(* An update is no answer for an action's script.                          *)
LEMMA UpdateNotCounted ==
    ASSUME NEW q \in Seq(Answers \cup Updates), NEW u \in Updates
    PROVE  /\ Count(q, ActionAnswers) \in Nat
           /\ Count(Append(q, u), ActionAnswers) = Count(q, ActionAnswers)
<1>1. u \notin ActionAnswers BY MessagesApart
<1> QED BY <1>1, CountedAdded

(* KWin serves the call of an action's script, which may change a window.  *)
LEMMA WindowsServe ==
    ASSUME WindowsInv, Windows!ServeAction
    PROVE  WindowsInv'
<1>1. WindowTypes /\ ActionsCounted /\ TrackerFollows /\ toKWin \in Seq(Calls)
      /\ fromKWin \in Seq(Answers \cup Updates)
  BY DEF WindowsInv, WindowTypes
<1>2. UNCHANGED manager BY DEF Windows!ServeAction
<1>3. PICK b \in ActionAnswers :
         /\ toKWin # <<>> /\ Head(toKWin) \in ActionCalls /\ toKWin' = Tail(toKWin)
         /\ \/ UNCHANGED kwin /\ fromKWin' = Append(fromKWin, b)
            \/ /\ kwin' = Windows!Changed
               /\ fromKWin' = (fromKWin \o Windows!Tells(Windows!Changed.windows)) \o <<b>>
  <2>1. CASE \E ok \in BOOLEAN : /\ Windows!Serves("load", "action")
                                 /\ Windows!Answers("load", "action", ok) /\ UNCHANGED kwin
    BY <2>1, MessagesApart DEF Windows!Serves, Windows!Answers, ActionAnswers, Types
  <2>2. CASE /\ Windows!Serves("run", "action") /\ Windows!Answers("run", "action", TRUE)
             /\ UNCHANGED kwin
    BY <2>2, MessagesApart DEF Windows!Serves, Windows!Answers, ActionAnswers, Types
  <2>3. CASE /\ Windows!Serves("run", "action")
             /\ kwin' = Windows!Changed
             /\ fromKWin' = fromKWin \o Windows!Tells(Windows!Changed.windows)
                            \o <<[type |-> "run", script |-> "action", ok |-> TRUE]>>
    <3> DEFINE b == [type |-> "run", script |-> "action", ok |-> TRUE]
    <3>1. b \in ActionAnswers BY DEF ActionAnswers, Types
    <3>2. toKWin # <<>> /\ Head(toKWin) \in ActionCalls /\ toKWin' = Tail(toKWin)
      BY <2>3, MessagesApart DEF Windows!Serves, Types
    <3> HIDE DEF b
    <3>3. fromKWin' = (fromKWin \o Windows!Tells(Windows!Changed.windows)) \o <<b>>
      BY <2>3 DEF b
    <3> QED BY <2>3, <3>1, <3>2, <3>3
  <2>4. CASE /\ Windows!Serves("unload", "action") /\ Windows!Answers("unload", "action", TRUE)
             /\ UNCHANGED kwin
    BY <2>4, MessagesApart DEF Windows!Serves, Windows!Answers, ActionAnswers, Types
  <2> QED BY <2>1, <2>2, <2>3, <2>4 DEF Windows!ServeAction
<1>4. b \in Answers /\ b \notin Updates BY MessagesApart
<1>5. PICK q \in Seq(Answers \cup Updates) :
         /\ fromKWin' = Append(q, b)
         /\ \/ UNCHANGED kwin /\ q = fromKWin
            \/ /\ kwin' = Windows!Changed
               /\ IF kwin.script = "running"
                  THEN \E u \in Updates : u.windows = kwin'.windows /\ q = Append(fromKWin, u)
                  ELSE q = fromKWin
  <2>1. CASE UNCHANGED kwin /\ fromKWin' = Append(fromKWin, b) BY <1>1, <2>1
  <2>2. CASE /\ kwin' = Windows!Changed
             /\ fromKWin' = (fromKWin \o Windows!Tells(Windows!Changed.windows)) \o <<b>>
    <3>1. PICK m \in Seq(Answers \cup Updates) :
             /\ m = fromKWin \o Windows!Tells(Windows!Changed.windows)
             /\ IF kwin.script = "running"
                THEN \E u \in Updates : u.windows = kwin'.windows /\ m = Append(fromKWin, u)
                ELSE m = fromKWin
      BY <1>1, <2>2, WindowsTold
    <3>2. m \o <<b>> = Append(m, b) BY <1>4
    <3> QED BY <2>2, <3>1, <3>2
  <2> QED BY <1>3, <2>1, <2>2
<1>6. /\ kwin' \in [script : {"none", "loaded", "running"}, windows : {1, 2}]
      /\ kwin'.script = kwin.script
  BY <1>1, <1>5, WindowsTold DEF WindowTypes
<1>7. /\ toKWin' \in Seq(Calls)
      /\ \A M \in {Loads, Runs, Unloads} : Carries(toKWin', M) <=> Carries(toKWin, M)
      /\ CallsOrdered(toKWin) => CallsOrdered(toKWin')
  BY <1>1, <1>3, CallsKept
<1>8. /\ \A M \in {Loadeds, Refusals} : Carries(q, M) <=> Carries(fromKWin, M)
      /\ Single(fromKWin, Loadeds) => Single(q, Loadeds)
  BY <1>1, <1>5, AnswersKept
<1>9. /\ fromKWin' \in Seq(Answers \cup Updates)
      /\ \A M \in {Loadeds, Refusals} : Carries(fromKWin', M) <=> Carries(q, M)
      /\ Single(q, Loadeds) => Single(fromKWin', Loadeds)
  <2>1. \E m \in ActionAnswers \cup Updates : fromKWin' = Append(q, m) BY <1>5
  <2> QED BY <2>1, AnswersKept
<1>10. ASSUME kwin.script = "running", ModelFollows PROVE ModelFollows'
  <2>1. CASE UNCHANGED kwin /\ q = fromKWin
    BY <1>2, <1>4, <1>5, <1>10, <2>1, ModelKeptBehind
  <2>2. CASE \E u \in Updates : u.windows = kwin'.windows /\ q = Append(fromKWin, u)
    <3>1. PICK u \in Updates : u.windows = kwin'.windows /\ q = Append(fromKWin, u) BY <2>2
    <3> DEFINE n == Len(fromKWin)
    <3>2. /\ n \in Nat /\ Len(fromKWin') = n + 2 /\ DOMAIN fromKWin' = 1 .. n + 2
          /\ fromKWin'[n + 1] = u /\ fromKWin'[n + 2] = b
      <4>1. /\ q \in Seq(Answers \cup Updates) /\ n \in Nat /\ Len(q) = n + 1 /\ q[n + 1] = u
        BY <1>1, <3>1
      <4> HIDE DEF n
      <4>2. /\ Len(fromKWin') = (n + 1) + 1 /\ DOMAIN fromKWin' = 1 .. (n + 1) + 1
            /\ fromKWin'[n + 1] = q[n + 1] /\ fromKWin'[(n + 1) + 1] = b
        BY <1>5, <4>1
      <4> QED BY <4>1, <4>2
    <3> HIDE DEF n
    <3>3. u \in Today' /\ b \notin Updates BY <1>4, <3>1 DEF Today
    <3>4. n + 1 \in DOMAIN fromKWin' BY <3>2
    <3>5. Carries(fromKWin', Today') BY <3>2, <3>3, <3>4 DEF Carries
    <3>6. ASSUME NEW i \in DOMAIN fromKWin', fromKWin'[i] \in Updates \ Today' PROVE i < n + 1
      BY <3>2, <3>3, <3>6
    <3> QED BY <3>2, <3>3, <3>4, <3>5, <3>6 DEF ModelFollows
  <2> QED BY <1>5, <1>10, <2>1, <2>2
<1>11. ActionsCounted'
  <2>1. /\ Count(toKWin, ActionCalls) = Count(toKWin', ActionCalls) + 1
        /\ Count(toKWin', ActionCalls) \in Nat
    BY <1>1, <1>3, CountedTaken
  <2>2. Count(q, ActionAnswers) = Count(fromKWin, ActionAnswers) /\ Count(q, ActionAnswers) \in Nat
    <3>1. Count(fromKWin, ActionAnswers) \in Nat BY <1>1, CountIsNumber
    <3>2. CASE q = fromKWin BY <3>1, <3>2
    <3>3. CASE \E u \in Updates : q = Append(fromKWin, u)
      BY <1>1, <3>1, <3>3, UpdateNotCounted
    <3> QED BY <1>5, <3>2, <3>3
  <2>3. Count(fromKWin', ActionAnswers) = Count(q, ActionAnswers) + 1
    BY <1>4, <1>5, CountedAdded
  <2> QED BY <1>1, <1>2, <2>1, <2>2, <2>3 DEF ActionsCounted
<1>12. WindowTypes' BY <1>1, <1>2, <1>6, <1>7, <1>9 DEF WindowTypes
<1>13. TrackerFollows' BY <1>1, <1>2, <1>6, <1>7, <1>8, <1>9, <1>10, TrackerKept
<1> QED BY <1>11, <1>12, <1>13 DEF WindowsInv

(* KWin's windows change, and the shell shows an update.                   *)
LEMMA WindowsShown ==
    ASSUME WindowsInv, Windows!WindowsChange \/ Windows!OnWindows
    PROVE  WindowsInv'
<1>1. WindowTypes /\ ActionsCounted /\ TrackerFollows /\ toKWin \in Seq(Calls)
      /\ fromKWin \in Seq(Answers \cup Updates)
  BY DEF WindowsInv, WindowTypes
<1>2. UNCHANGED toKWin BY DEF Windows!WindowsChange, Windows!OnWindows
<1>3. CASE Windows!WindowsChange
  <2>1. /\ kwin' = Windows!Changed /\ UNCHANGED manager
        /\ fromKWin' = fromKWin \o Windows!Tells(Windows!Changed.windows)
    BY <1>3 DEF Windows!WindowsChange
  <2>2. /\ kwin' \in [script : {"none", "loaded", "running"}, windows : {1, 2}]
        /\ kwin'.script = kwin.script
        /\ fromKWin' \in Seq(Answers \cup Updates)
        /\ IF kwin.script = "running"
           THEN \E u \in Updates : u.windows = kwin'.windows /\ fromKWin' = Append(fromKWin, u)
           ELSE fromKWin' = fromKWin
    BY <1>1, <2>1, WindowsTold
  <2>3. /\ \A M \in {Loadeds, Refusals} : Carries(fromKWin', M) <=> Carries(fromKWin, M)
        /\ Single(fromKWin, Loadeds) => Single(fromKWin', Loadeds)
    BY <1>1, <2>2, AnswersKept
  <2>4. kwin.script = "running" => ModelFollows' BY <1>1, <2>2, ModelTold
  <2>5. ActionsCounted'
    <3>1. Count(fromKWin', ActionAnswers) = Count(fromKWin, ActionAnswers)
      BY <1>1, <2>2, UpdateNotCounted
    <3> QED BY <1>1, <1>2, <2>1, <3>1 DEF ActionsCounted
  <2>6. WindowTypes' BY <1>1, <1>2, <2>1, <2>2 DEF WindowTypes
  <2>7. TrackerFollows' BY <1>1, <1>2, <2>1, <2>2, <2>3, <2>4, TrackerKept
  <2> QED BY <2>5, <2>6, <2>7 DEF WindowsInv
<1>4. CASE Windows!OnWindows
  <2>1. /\ fromKWin # <<>> /\ Head(fromKWin).type = "windows" /\ fromKWin' = Tail(fromKWin)
        /\ manager' = IF manager.instances > 0 THEN [manager EXCEPT !.model = Head(fromKWin).windows]
                      ELSE manager
        /\ UNCHANGED kwin
    BY <1>4 DEF Windows!OnWindows
  <2>2. Head(fromKWin) \in Updates
    <3>1. Head(fromKWin) \in Answers \cup Updates BY <1>1, <2>1
    <3> QED BY <2>1, <3>1 DEF Answers, Types
  <2>3. /\ manager' \in [instances : Nat, id : BOOLEAN, file : BOOLEAN, model : {0, 1, 2},
                          actions : Nat, slipped : BOOLEAN]
        /\ manager'.instances = manager.instances /\ manager'.id = manager.id
        /\ manager'.file = manager.file /\ manager'.slipped = manager.slipped
        /\ manager'.actions = manager.actions
        /\ manager.instances # 0 => manager'.model = Head(fromKWin).windows
    <3> DEFINE w == Head(fromKWin).windows
    <3>1. w \in {0, 1, 2} BY <2>2 DEF Updates
    <3>2. manager' = IF manager.instances > 0 THEN [manager EXCEPT !.model = w] ELSE manager
      BY <2>1
    <3> HIDE DEF w
    <3>3. /\ manager' \in [instances : Nat, id : BOOLEAN, file : BOOLEAN, model : {0, 1, 2},
                            actions : Nat, slipped : BOOLEAN]
          /\ manager'.instances = manager.instances /\ manager'.id = manager.id
          /\ manager'.file = manager.file /\ manager'.slipped = manager.slipped
          /\ manager'.actions = manager.actions
          /\ manager.instances # 0 => manager'.model = w
      BY <1>1, <3>1, <3>2 DEF WindowTypes
    <3> QED BY <3>3 DEF w
  <2>4. /\ fromKWin' \in Seq(Answers \cup Updates)
        /\ \A M \in {Loadeds, Refusals} : Carries(fromKWin', M) <=> Carries(fromKWin, M)
        /\ Single(fromKWin, Loadeds) => Single(fromKWin', Loadeds)
    BY <1>1, <2>1, <2>2, AnswersKept
  <2>5. ActionsCounted'
    <3>1. Count(fromKWin', ActionAnswers) = Count(fromKWin, ActionAnswers)
      BY <1>1, <2>1, <2>2, CountedTaken, MessagesApart
    <3> QED BY <1>1, <1>2, <2>3, <3>1 DEF ActionsCounted
  <2>6. WindowTypes' BY <1>1, <1>2, <2>1, <2>3, <2>4 DEF WindowTypes
  <2>7. CASE manager.instances # 0
    <3>1. ModelFollows => ModelFollows' BY <1>1, <2>1, <2>2, <2>3, <2>7, ModelKeptAhead
    <3>2. TrackerFollows' BY <1>1, <1>2, <2>1, <2>3, <2>4, <3>1, TrackerKept
    <3> QED BY <2>5, <2>6, <3>2 DEF WindowsInv
  <2>8. CASE manager.instances = 0
    <3>1. Gone => Gone' BY <1>2, <2>1, <2>3, <2>4 DEF Gone, Cleared
    <3>2. TrackerFollows' BY <1>1, <1>2, <2>3, <2>4, <2>8, <3>1 DEF TrackerFollows
    <3> QED BY <2>5, <2>6, <3>2 DEF WindowsInv
  <2> QED BY <2>7, <2>8
<1> QED BY <1>3, <1>4

(* An action is asked for, and its answers lead to the next call.          *)
LEMMA WindowsAct ==
    ASSUME WindowsInv,
           \/ Windows!DispatchAction \/ Windows!OnActionLoaded
           \/ Windows!OnActionRan \/ Windows!OnActionUnloaded
    PROVE  WindowsInv'
<1>1. WindowTypes /\ ActionsCounted /\ TrackerFollows /\ toKWin \in Seq(Calls)
      /\ fromKWin \in Seq(Answers \cup Updates) /\ manager.actions \in Nat
  BY DEF WindowsInv, WindowTypes
<1>2. Count(toKWin, ActionCalls) \in Nat /\ Count(fromKWin, ActionAnswers) \in Nat
  BY <1>1, CountIsNumber
<1>3. /\ UNCHANGED kwin
      /\ \/ /\ UNCHANGED fromKWin
            /\ \E c \in ActionCalls : toKWin' = Append(toKWin, c)
            /\ manager' = [manager EXCEPT !.actions = @ + 1]
         \/ /\ fromKWin # <<>> /\ Head(fromKWin) \in ActionAnswers /\ fromKWin' = Tail(fromKWin)
            /\ \/ (\E c \in ActionCalls : toKWin' = Append(toKWin, c)) /\ UNCHANGED manager
               \/ UNCHANGED toKWin /\ manager' = [manager EXCEPT !.actions = @ - 1]
  <2>1. ASSUME NEW t \in Types, Windows!Answered(t, "action")
        PROVE  fromKWin # <<>> /\ Head(fromKWin) \in ActionAnswers /\ fromKWin' = Tail(fromKWin)
    <3>1. /\ fromKWin # <<>> /\ Head(fromKWin).type = t /\ Head(fromKWin).script = "action"
          /\ fromKWin' = Tail(fromKWin)
      BY <2>1 DEF Windows!Answered
    <3>2. Head(fromKWin) \in Answers \cup Updates BY <1>1, <3>1
    <3>3. Head(fromKWin) \in ActionAnswers
      BY <3>1, <3>2 DEF Answers, Updates, ActionAnswers, Types, Windows!Scripts
    <3> QED BY <3>1, <3>3
  <2>2. CASE Windows!DispatchAction
    BY <2>2, MessagesApart DEF Windows!DispatchAction, Types
  <2>3. CASE Windows!OnActionLoaded
    <3>1. /\ Windows!Answered("load", "action") /\ UNCHANGED kwin
          /\ \/ (\E t \in {"run", "unload"} : toKWin' = Append(toKWin, Windows!Call(t, "action")))
                /\ UNCHANGED manager
             \/ UNCHANGED toKWin /\ manager' = [manager EXCEPT !.actions = @ - 1]
      BY <2>3 DEF Windows!OnActionLoaded
    <3> QED BY <2>1, <3>1, MessagesApart DEF Types
  <2>4. CASE Windows!OnActionRan
    BY <2>1, <2>4, MessagesApart DEF Windows!OnActionRan, Types
  <2>5. CASE Windows!OnActionUnloaded
    BY <2>1, <2>5 DEF Windows!OnActionUnloaded, Types
  <2> QED BY <2>2, <2>3, <2>4, <2>5
<1>4. ASSUME NEW n \in Nat, manager' = [manager EXCEPT !.actions = n] \/ (UNCHANGED manager /\ n = manager.actions)
      PROVE  /\ manager' \in [instances : Nat, id : BOOLEAN, file : BOOLEAN, model : {0, 1, 2},
                              actions : Nat, slipped : BOOLEAN]
             /\ manager'.instances = manager.instances /\ manager'.id = manager.id
             /\ manager'.file = manager.file /\ manager'.slipped = manager.slipped
             /\ manager'.model = manager.model /\ manager'.actions = n
  BY <1>1, <1>4 DEF WindowTypes
<1>5. CASE /\ UNCHANGED fromKWin
           /\ \E c \in ActionCalls : toKWin' = Append(toKWin, c)
           /\ manager' = [manager EXCEPT !.actions = @ + 1]
  <2>1. manager.actions + 1 \in Nat BY <1>1
  <2>2. /\ manager' \in [instances : Nat, id : BOOLEAN, file : BOOLEAN, model : {0, 1, 2},
                          actions : Nat, slipped : BOOLEAN]
        /\ manager'.instances = manager.instances /\ manager'.id = manager.id
        /\ manager'.file = manager.file /\ manager'.slipped = manager.slipped
        /\ manager'.model = manager.model /\ manager'.actions = manager.actions + 1
    BY <1>4, <1>5, <2>1
  <2>3. /\ toKWin' \in Seq(Calls)
        /\ \A M \in {Loads, Runs, Unloads} : Carries(toKWin', M) <=> Carries(toKWin, M)
        /\ CallsOrdered(toKWin) => CallsOrdered(toKWin')
    BY <1>1, <1>5, CallsKept
  <2>4. Count(toKWin', ActionCalls) = Count(toKWin, ActionCalls) + 1
    <3>1. PICK c \in ActionCalls : toKWin' = Append(toKWin, c) BY <1>5
    <3>2. c \in Calls BY MessagesApart
    <3> QED BY <1>1, <3>1, <3>2, CountedAdded
  <2>5. ActionsCounted' BY <1>1, <1>2, <1>5, <2>2, <2>4 DEF ActionsCounted
  <2>6. WindowTypes' BY <1>1, <1>3, <1>5, <2>2, <2>3 DEF WindowTypes
  <2>7. ModelFollows => ModelFollows' BY <1>3, <1>5, <2>2 DEF ModelFollows, Today, Carries
  <2>8. TrackerFollows' BY <1>1, <1>3, <1>5, <2>2, <2>3, <2>7, TrackerKept
  <2> QED BY <2>5, <2>6, <2>8 DEF WindowsInv
<1>6. CASE /\ fromKWin # <<>> /\ Head(fromKWin) \in ActionAnswers /\ fromKWin' = Tail(fromKWin)
           /\ \/ (\E c \in ActionCalls : toKWin' = Append(toKWin, c)) /\ UNCHANGED manager
              \/ UNCHANGED toKWin /\ manager' = [manager EXCEPT !.actions = @ - 1]
  <2>1. /\ fromKWin' \in Seq(Answers \cup Updates)
        /\ \A M \in {Loadeds, Refusals} : Carries(fromKWin', M) <=> Carries(fromKWin, M)
        /\ Single(fromKWin, Loadeds) => Single(fromKWin', Loadeds)
    <3>1. Head(fromKWin) \in ActionAnswers \cup Updates BY <1>6
    <3> QED BY <1>1, <1>6, <3>1, AnswersKept
  <2>2. /\ Count(fromKWin, ActionAnswers) = Count(fromKWin', ActionAnswers) + 1
        /\ Count(fromKWin', ActionAnswers) \in Nat
    BY <1>1, <1>6, CountedTaken
  <2>3. /\ manager' \in [instances : Nat, id : BOOLEAN, file : BOOLEAN, model : {0, 1, 2},
                          actions : Nat, slipped : BOOLEAN]
        /\ manager'.instances = manager.instances /\ manager'.id = manager.id
        /\ manager'.file = manager.file /\ manager'.slipped = manager.slipped
        /\ manager'.model = manager.model
        /\ \/ UNCHANGED toKWin /\ manager'.actions = manager.actions - 1
           \/ (\E c \in ActionCalls : toKWin' = Append(toKWin, c))
              /\ manager'.actions = manager.actions
    <3>1. manager.actions - 1 \in Nat BY <1>1, <1>2, <2>2 DEF ActionsCounted
    <3>2. CASE UNCHANGED toKWin /\ manager' = [manager EXCEPT !.actions = @ - 1]
      BY <1>4, <3>1, <3>2
    <3>3. CASE (\E c \in ActionCalls : toKWin' = Append(toKWin, c)) /\ UNCHANGED manager
      BY <1>1, <1>4, <3>3
    <3> QED BY <1>6, <3>2, <3>3
  <2>4. /\ toKWin' \in Seq(Calls)
        /\ \A M \in {Loads, Runs, Unloads} : Carries(toKWin', M) <=> Carries(toKWin, M)
        /\ CallsOrdered(toKWin) => CallsOrdered(toKWin')
    BY <1>1, <2>3, CallsKept
  <2>5. ActionsCounted'
    <3>1. CASE UNCHANGED toKWin /\ manager'.actions = manager.actions - 1
      BY <1>1, <1>2, <2>2, <3>1 DEF ActionsCounted
    <3>2. CASE (\E c \in ActionCalls : toKWin' = Append(toKWin, c))
               /\ manager'.actions = manager.actions
      <4>1. PICK c \in ActionCalls : toKWin' = Append(toKWin, c) BY <3>2
      <4>2. c \in Calls BY MessagesApart
      <4>3. Count(toKWin', ActionCalls) = Count(toKWin, ActionCalls) + 1
        BY <1>1, <4>1, <4>2, CountedAdded
      <4> QED BY <1>1, <1>2, <2>2, <3>2, <4>3 DEF ActionsCounted
    <3> QED BY <2>3, <3>1, <3>2
  <2>6. WindowTypes' BY <1>1, <1>3, <2>1, <2>3, <2>4 DEF WindowTypes
  <2>7. ModelFollows => ModelFollows'
    <3>1. Head(fromKWin) \notin Updates BY <1>6, MessagesApart
    <3> QED BY <1>1, <1>3, <1>6, <2>3, <3>1, ModelKeptAhead
  <2>8. TrackerFollows' BY <1>1, <1>3, <2>1, <2>3, <2>4, <2>7, TrackerKept
  <2> QED BY <2>5, <2>6, <2>8 DEF WindowsInv
<1> QED BY <1>3, <1>5, <1>6

(* KWin loads, runs and unloads the tracking script.                       *)
LEMMA WindowsTrack ==
    ASSUME WindowsInv, Windows!LoadTracker \/ Windows!RunTracker \/ Windows!UnloadTracker
    PROVE  WindowsInv'
<1>1. /\ WindowTypes /\ ActionsCounted /\ TrackerFollows /\ toKWin \in Seq(Calls)
      /\ fromKWin \in Seq(Answers \cup Updates) /\ manager.instances \in Nat
      /\ kwin \in [script : {"none", "loaded", "running"}, windows : {1, 2}]
  BY DEF WindowsInv, WindowTypes
<1>2. UNCHANGED manager
  BY DEF Windows!LoadTracker, Windows!RunTracker, Windows!UnloadTracker
<1>3. PICK t \in Types :
         /\ toKWin # <<>> /\ Head(toKWin) = Windows!Call(t, "tracker") /\ toKWin' = Tail(toKWin)
         /\ \/ t = "load" /\ Windows!LoadTracker
            \/ t = "run" /\ Windows!RunTracker
            \/ t = "unload" /\ Windows!UnloadTracker
  BY DEF Windows!LoadTracker, Windows!RunTracker, Windows!UnloadTracker, Windows!Serves, Types
<1>4. /\ toKWin' \in Seq(Calls)
      /\ \A M : Carries(toKWin', M) => Carries(toKWin, M)
      /\ \A M : Head(toKWin) \in M => Carries(toKWin, M)
      /\ \A M : Carries(toKWin, M) /\ Head(toKWin) \notin M => Carries(toKWin', M)
      /\ \A M : Single(toKWin, M) => Single(toKWin', M)
      /\ \A M : Single(toKWin, M) /\ Head(toKWin) \in M => ~Carries(toKWin', M)
      /\ \A M, N : Before(toKWin, M, N) => Before(toKWin', M, N)
      /\ \A M, N : Before(toKWin, M, N) /\ Head(toKWin) \in N => ~Carries(toKWin, M)
  BY <1>1, <1>3, MessageTaken
<1>5. CallsOrdered(toKWin) => CallsOrdered(toKWin') BY <1>4 DEF CallsOrdered
<1>6. Count(toKWin', ActionCalls) = Count(toKWin, ActionCalls)
  <2>1. Head(toKWin) \notin ActionCalls BY <1>3, MessagesApart
  <2> QED BY <1>1, <1>3, <2>1, CountedTaken
<1>7. Count(fromKWin, ActionAnswers) \in Nat BY <1>1, CountIsNumber
<1>8. CASE t = "load"
  <2> DEFINE ok == kwin.script = "none"
             a == [type |-> "load", script |-> "tracker", ok |-> ok]
  <2>1. /\ kwin' = IF kwin.script = "none" THEN [kwin EXCEPT !.script = "loaded"] ELSE kwin
        /\ fromKWin' = Append(fromKWin, a)
    BY <1>3, <1>8 DEF Windows!LoadTracker, Windows!Answers
  <2>2. /\ kwin' \in [script : {"none", "loaded", "running"}, windows : {1, 2}]
        /\ kwin.script = "none" => kwin'.script = "loaded"
    BY <1>1, <2>1
  <2>3. ok \in BOOLEAN /\ (ok <=> kwin.script = "none") OBVIOUS
  <2> HIDE DEF ok
  <2>4. a \in Loadeds /\ a.ok = ok BY <2>3 DEF Loadeds
  <2> HIDE DEF a
  <2>5. a \in Answers /\ a \notin ActionAnswers /\ (a \in Refusals <=> ~ok) BY <2>4, MessagesApart
  <2>6. /\ fromKWin' \in Seq(Answers \cup Updates)
        /\ \A M : Carries(fromKWin', M) <=> Carries(fromKWin, M) \/ a \in M
        /\ \A M : Single(fromKWin, M) /\ (a \in M => ~Carries(fromKWin, M)) => Single(fromKWin', M)
    BY <1>1, <2>1, <2>5, MessageAdded
  <2>7. Count(fromKWin', ActionAnswers) = Count(fromKWin, ActionAnswers)
    BY <1>1, <2>1, <2>5, CountedAdded
  <2>8. ActionsCounted' BY <1>1, <1>2, <1>6, <2>7 DEF ActionsCounted
  <2>9. WindowTypes' BY <1>1, <1>2, <1>4, <2>2, <2>6 DEF WindowTypes
  <2>10. ASSUME ~manager.slipped PROVE TrackerFollows'
    <3>1. Head(toKWin) \in Loads /\ Head(toKWin) \notin Runs /\ Head(toKWin) \notin Unloads
      BY <1>3, <1>8, MessagesApart DEF Loads
    <3>2. CallsOrdered(toKWin) /\ Single(fromKWin, Loadeds) BY <1>1, <2>10 DEF TrackerFollows
    <3>3. /\ Carries(toKWin, Loads) /\ ~Carries(toKWin, Runs) /\ ~Carries(toKWin, Unloads)
          /\ ~Carries(toKWin', Loads) /\ ~Carries(toKWin', Runs) /\ ~Carries(toKWin', Unloads)
      BY <1>4, <3>1, <3>2 DEF CallsOrdered
    <3>4. manager.instances # 0 /\ ~manager.id /\ Loading
      BY <1>1, <2>10, <3>3 DEF TrackerFollows, Gone, Tracking
    <3>5. kwin.script = "none" /\ ~Carries(fromKWin, Loadeds) /\ manager.file
      BY <3>3, <3>4 DEF Loading, Cleared
    <3>6. ~Carries(fromKWin, Refusals) BY <3>5, MessagesApart DEF Carries
    <3>7. Loading' BY <1>2, <2>2, <2>3, <2>4, <2>5, <2>6, <3>3, <3>5, <3>6 DEF Loading
    <3>8. Single(fromKWin', Loadeds) BY <2>6, <3>2, <3>5
    <3> QED BY <1>2, <1>5, <3>2, <3>4, <3>7, <3>8 DEF TrackerFollows
  <2>11. TrackerFollows' BY <1>2, <2>10 DEF TrackerFollows
  <2> QED BY <2>8, <2>9, <2>11 DEF WindowsInv
<1>9. CASE t = "run"
  <2> DEFINE u == [type |-> "windows", windows |-> kwin.windows]
  <2>1. IF kwin.script = "loaded" /\ manager.file
        THEN kwin' = [kwin EXCEPT !.script = "running"] /\ fromKWin' = Append(fromKWin, u)
        ELSE UNCHANGED <<kwin, fromKWin>>
    BY <1>3, <1>9 DEF Windows!RunTracker, Windows!Update
  <2>2. u \in Updates /\ u.windows = kwin.windows BY <1>1 DEF Updates
  <2> HIDE DEF u
  <2>3. /\ kwin' \in [script : {"none", "loaded", "running"}, windows : {1, 2}]
        /\ kwin'.windows = kwin.windows
        /\ kwin.script = "loaded" /\ manager.file => kwin'.script = "running"
        /\ kwin.script = "none" => kwin'.script = "none"
    BY <1>1, <2>1
  <2>4. /\ fromKWin' \in Seq(Answers \cup Updates)
        /\ \A M \in {Loadeds, Refusals} : Carries(fromKWin', M) <=> Carries(fromKWin, M)
        /\ Single(fromKWin, Loadeds) => Single(fromKWin', Loadeds)
        /\ Count(fromKWin', ActionAnswers) = Count(fromKWin, ActionAnswers)
    <3>1. CASE fromKWin' = fromKWin BY <1>1, <3>1
    <3>2. CASE fromKWin' = Append(fromKWin, u)
      <4>1. \E m \in ActionAnswers \cup Updates : fromKWin' = Append(fromKWin, m) BY <2>2, <3>2
      <4>2. /\ fromKWin' \in Seq(Answers \cup Updates)
            /\ \A M \in {Loadeds, Refusals} : Carries(fromKWin', M) <=> Carries(fromKWin, M)
            /\ Single(fromKWin, Loadeds) => Single(fromKWin', Loadeds)
        BY <1>1, <4>1, AnswersKept
      <4>3. Count(fromKWin', ActionAnswers) = Count(fromKWin, ActionAnswers)
        BY <1>1, <2>2, <3>2, UpdateNotCounted
      <4> QED BY <4>2, <4>3
    <3> QED BY <2>1, <3>1, <3>2
  <2>5. ActionsCounted' BY <1>1, <1>2, <1>6, <2>4 DEF ActionsCounted
  <2>6. WindowTypes' BY <1>1, <1>2, <1>4, <2>3, <2>4 DEF WindowTypes
  <2>7. ASSUME ~manager.slipped PROVE TrackerFollows'
    <3>1. Head(toKWin) \in Runs /\ Head(toKWin) \notin Loads /\ Head(toKWin) \notin Unloads
      BY <1>3, <1>9, MessagesApart DEF Runs
    <3>2. CallsOrdered(toKWin) /\ Single(fromKWin, Loadeds) BY <1>1, <2>7 DEF TrackerFollows
    <3>3. /\ Carries(toKWin, Runs) /\ ~Carries(toKWin', Runs)
          /\ Carries(toKWin', Loads) <=> Carries(toKWin, Loads)
          /\ Carries(toKWin', Unloads) <=> Carries(toKWin, Unloads)
      BY <1>4, <3>1, <3>2 DEF CallsOrdered
    <3>4. Cleared => Cleared' BY <3>3 DEF Cleared
    <3>5. Gone => Gone' BY <1>2, <2>4, <3>3, <3>4 DEF Gone
    <3>6. Loading => Loading' BY <1>2, <2>4, <3>3, <3>4 DEF Loading
    <3>7. Tracking => Tracking'
      <4>1. SUFFICES ASSUME Tracking PROVE Tracking'
        OBVIOUS
      <4>2. kwin.script = "loaded" /\ manager.file BY <3>3, <4>1 DEF Tracking
      <4>3. ModelFollows' BY <1>1, <2>1, <2>2, <2>3, <4>2, ModelTold
      <4> QED BY <1>2, <2>3, <2>4, <3>3, <4>1, <4>2, <4>3 DEF Tracking
    <3> QED BY <1>1, <1>2, <1>5, <2>4, <3>5, <3>6, <3>7 DEF TrackerFollows
  <2>8. TrackerFollows' BY <1>2, <2>7 DEF TrackerFollows
  <2> QED BY <2>5, <2>6, <2>8 DEF WindowsInv
<1>10. CASE t = "unload"
  <2>1. kwin' = [kwin EXCEPT !.script = "none"] /\ UNCHANGED fromKWin
    BY <1>3, <1>10 DEF Windows!UnloadTracker
  <2>2. /\ kwin' \in [script : {"none", "loaded", "running"}, windows : {1, 2}]
        /\ kwin'.script = "none"
    BY <1>1, <2>1
  <2>3. ActionsCounted' BY <1>1, <1>2, <1>6, <2>1 DEF ActionsCounted
  <2>4. WindowTypes' BY <1>1, <1>2, <1>4, <2>1, <2>2 DEF WindowTypes
  <2>5. ASSUME ~manager.slipped PROVE TrackerFollows'
    <3>1. Head(toKWin) \in Unloads /\ Head(toKWin) \notin Loads /\ Head(toKWin) \notin Runs
      BY <1>3, <1>10, MessagesApart DEF Unloads
    <3>2. CallsOrdered(toKWin) /\ Single(fromKWin, Loadeds) BY <1>1, <2>5 DEF TrackerFollows
    <3>3. /\ Carries(toKWin, Unloads) /\ ~Carries(toKWin', Runs)
          /\ Carries(toKWin', Loads) <=> Carries(toKWin, Loads)
      BY <1>4, <3>1, <3>2 DEF CallsOrdered
    <3>4. Cleared' BY <2>2, <3>3 DEF Cleared
    <3>5. Gone => Gone' BY <1>2, <2>1, <3>3, <3>4 DEF Gone
    <3>6. Loading => Loading' BY <1>2, <2>1, <3>3, <3>4 DEF Loading
    <3>7. ~Tracking BY <3>3 DEF Tracking
    <3> QED BY <1>1, <1>2, <1>5, <2>1, <2>5, <3>2, <3>5, <3>6, <3>7 DEF TrackerFollows
  <2>6. TrackerFollows' BY <1>2, <2>5 DEF TrackerFollows
  <2> QED BY <2>3, <2>4, <2>6 DEF WindowsInv
<1> QED BY <1>8, <1>9, <1>10 DEF Types

(* An instance of the component comes: the first one has the script        *)
(* loaded, or cannot install it.                                           *)
LEMMA WindowsCreate ==
    ASSUME WindowsInv, Windows!Create
    PROVE  WindowsInv'
<1>1. /\ WindowTypes /\ ActionsCounted /\ TrackerFollows /\ toKWin \in Seq(Calls)
      /\ fromKWin \in Seq(Answers \cup Updates) /\ manager.instances \in Nat
      /\ manager \in [instances : Nat, id : BOOLEAN, file : BOOLEAN, model : {0, 1, 2},
                      actions : Nat, slipped : BOOLEAN]
  BY DEF WindowsInv, WindowTypes
<1>2. UNCHANGED kwin /\ UNCHANGED fromKWin BY DEF Windows!Create
<1> DEFINE c == Windows!Call("load", "tracker")
           more == [manager EXCEPT !.instances = @ + 1]
<1>3. c \in Calls /\ c \notin ActionCalls /\ c \in Loads /\ c \notin Runs /\ c \notin Unloads
  BY MessagesApart DEF Types, Windows!Scripts, Loads
<1>4. \/ /\ manager.instances > 0 /\ UNCHANGED toKWin
         /\ manager' = more
      \/ /\ manager.instances = 0 /\ toKWin' = Append(toKWin, c)
         /\ manager' = [more EXCEPT !.file = TRUE]
      \/ /\ manager.instances = 0 /\ UNCHANGED toKWin
         /\ manager' = [more EXCEPT !.file = FALSE, !.slipped = TRUE]
  BY DEF Windows!Create
<1> HIDE DEF c
<1>5. /\ more \in [instances : Nat, id : BOOLEAN, file : BOOLEAN, model : {0, 1, 2},
                   actions : Nat, slipped : BOOLEAN]
      /\ more.instances = manager.instances + 1 /\ more.id = manager.id
      /\ more.file = manager.file /\ more.slipped = manager.slipped
      /\ more.model = manager.model /\ more.actions = manager.actions
  BY <1>1
<1> HIDE DEF more
<1>6. CASE manager.instances > 0 /\ UNCHANGED toKWin /\ manager' = more
  <2>1. /\ manager' \in [instances : Nat, id : BOOLEAN, file : BOOLEAN, model : {0, 1, 2},
                          actions : Nat, slipped : BOOLEAN]
        /\ manager'.instances = manager.instances + 1 /\ manager'.id = manager.id
        /\ manager'.file = manager.file /\ manager'.slipped = manager.slipped
        /\ manager'.model = manager.model /\ manager'.actions = manager.actions
    BY <1>5, <1>6
  <2>2. WindowTypes' BY <1>1, <1>2, <1>6, <2>1 DEF WindowTypes
  <2>3. ActionsCounted' BY <1>1, <1>2, <1>6, <2>1 DEF ActionsCounted
  <2>4. ModelFollows => ModelFollows' BY <1>2, <2>1 DEF ModelFollows, Today, Carries
  <2>5. (manager'.instances = 0) <=> (manager.instances = 0) BY <1>1, <1>6, <2>1
  <2>6. TrackerFollows' BY <1>1, <1>2, <1>6, <2>1, <2>4, <2>5, TrackerKept
  <2> QED BY <2>2, <2>3, <2>6 DEF WindowsInv
<1>7. CASE /\ manager.instances = 0 /\ toKWin' = Append(toKWin, c)
           /\ manager' = [more EXCEPT !.file = TRUE]
  <2>1. /\ manager' \in [instances : Nat, id : BOOLEAN, file : BOOLEAN, model : {0, 1, 2},
                          actions : Nat, slipped : BOOLEAN]
        /\ manager'.instances # 0 /\ manager'.id = manager.id
        /\ manager'.file /\ manager'.slipped = manager.slipped
        /\ manager'.actions = manager.actions
    <3>1. more.instances # 0 BY <1>1, <1>5
    <3> QED BY <1>5, <1>7, <3>1
  <2>2. /\ toKWin' \in Seq(Calls)
        /\ \A M : Carries(toKWin', M) <=> Carries(toKWin, M) \/ c \in M
        /\ \A M : Single(toKWin, M) /\ (c \in M => ~Carries(toKWin, M)) => Single(toKWin', M)
        /\ \A M, N : Before(toKWin, M, N) /\ c \notin M => Before(toKWin', M, N)
    BY <1>1, <1>3, <1>7, MessageAdded
  <2>3. WindowTypes' BY <1>1, <1>2, <2>1, <2>2 DEF WindowTypes
  <2>4. Count(toKWin', ActionCalls) = Count(toKWin, ActionCalls)
    BY <1>1, <1>3, <1>7, CountedAdded
  <2>5. ActionsCounted' BY <1>1, <1>2, <2>1, <2>4 DEF ActionsCounted
  <2>6. ASSUME ~manager.slipped PROVE TrackerFollows'
    <3>1. CallsOrdered(toKWin) /\ Single(fromKWin, Loadeds) /\ Gone
      BY <1>1, <1>7, <2>6 DEF TrackerFollows
    <3>2. ~Carries(toKWin, Loads) BY <3>1 DEF Gone
    <3>3. CallsOrdered(toKWin') BY <1>3, <2>2, <3>1, <3>2 DEF CallsOrdered
    <3>4. Cleared' BY <1>2, <1>3, <2>2, <3>1 DEF Gone, Cleared
    <3>5. Carries(toKWin', Loads) BY <1>3, <2>2
    <3>6. Loading' BY <1>2, <2>1, <3>1, <3>4, <3>5 DEF Gone, Loading
    <3>7. manager'.instances # 0 /\ ~manager'.id BY <2>1, <3>1 DEF Gone
    <3> QED BY <1>2, <3>1, <3>3, <3>6, <3>7 DEF TrackerFollows
  <2>7. TrackerFollows' BY <2>1, <2>6 DEF TrackerFollows
  <2> QED BY <2>3, <2>5, <2>7 DEF WindowsInv
<1>8. CASE /\ manager.instances = 0 /\ UNCHANGED toKWin
           /\ manager' = [more EXCEPT !.file = FALSE, !.slipped = TRUE]
  <2>1. /\ manager' \in [instances : Nat, id : BOOLEAN, file : BOOLEAN, model : {0, 1, 2},
                          actions : Nat, slipped : BOOLEAN]
        /\ manager'.slipped /\ manager'.actions = manager.actions
    BY <1>5, <1>8
  <2>2. WindowTypes' BY <1>1, <1>2, <1>8, <2>1 DEF WindowTypes
  <2>3. ActionsCounted' BY <1>1, <1>2, <1>8, <2>1 DEF ActionsCounted
  <2>4. TrackerFollows' BY <2>1 DEF TrackerFollows
  <2> QED BY <2>2, <2>3, <2>4 DEF WindowsInv
<1> QED BY <1>4, <1>6, <1>7, <1>8

(* An instance goes: with the last one the script is to be unloaded, or    *)
(* slips through when it is still being loaded.                            *)
LEMMA WindowsDestroy ==
    ASSUME WindowsInv, Windows!Destroy
    PROVE  WindowsInv'
<1>1. /\ WindowTypes /\ ActionsCounted /\ TrackerFollows /\ toKWin \in Seq(Calls)
      /\ fromKWin \in Seq(Answers \cup Updates) /\ manager.instances \in Nat
      /\ manager \in [instances : Nat, id : BOOLEAN, file : BOOLEAN, model : {0, 1, 2},
                      actions : Nat, slipped : BOOLEAN]
  BY DEF WindowsInv, WindowTypes
<1>2. UNCHANGED kwin /\ UNCHANGED fromKWin /\ manager.instances > 0 BY DEF Windows!Destroy
<1>3. CASE manager.instances > 1
  <2>1. UNCHANGED toKWin /\ manager' = [manager EXCEPT !.instances = @ - 1]
    BY <1>3 DEF Windows!Destroy
  <2>2. /\ manager' \in [instances : Nat, id : BOOLEAN, file : BOOLEAN, model : {0, 1, 2},
                          actions : Nat, slipped : BOOLEAN]
        /\ manager'.instances = manager.instances - 1 /\ manager'.id = manager.id
        /\ manager'.file = manager.file /\ manager'.slipped = manager.slipped
        /\ manager'.model = manager.model /\ manager'.actions = manager.actions
    BY <1>1, <1>3, <2>1
  <2>3. WindowTypes' BY <1>1, <1>2, <2>1, <2>2 DEF WindowTypes
  <2>4. ActionsCounted' BY <1>1, <1>2, <2>1, <2>2 DEF ActionsCounted
  <2>5. ModelFollows => ModelFollows' BY <1>2, <2>2 DEF ModelFollows, Today, Carries
  <2>6. (manager'.instances = 0) <=> (manager.instances = 0) BY <1>1, <1>3, <2>2
  <2>7. TrackerFollows' BY <1>1, <1>2, <2>1, <2>2, <2>5, <2>6, TrackerKept
  <2> QED BY <2>3, <2>4, <2>7 DEF WindowsInv
<1>4. CASE ~(manager.instances > 1)
  <2> DEFINE way == Windows!LoadUnderWay
             slips == manager.slipped \/ way
             c == Windows!Call("unload", "tracker")
  <2>1. /\ manager' = [manager EXCEPT !.instances = 0, !.id = FALSE, !.file = FALSE,
                               !.model = 0, !.slipped = slips]
        /\ toKWin' = IF manager.id THEN Append(toKWin, c) ELSE toKWin
    BY <1>4 DEF Windows!Destroy, Windows!NoModel
  <2>2. slips \in BOOLEAN /\ (slips <=> manager.slipped \/ way) BY <1>1
  <2> HIDE DEF slips
  <2>3. /\ manager' \in [instances : Nat, id : BOOLEAN, file : BOOLEAN, model : {0, 1, 2},
                          actions : Nat, slipped : BOOLEAN]
        /\ manager'.instances = 0 /\ ~manager'.id /\ ~manager'.file
        /\ manager'.slipped = slips /\ manager'.actions = manager.actions
    BY <1>1, <2>1, <2>2
  <2>4. c \in Calls /\ c \notin ActionCalls /\ c \in Unloads /\ c \notin Runs /\ c \notin Loads
    BY MessagesApart DEF Types, Windows!Scripts, Unloads
  <2> HIDE DEF c
  <2>5. toKWin' \in Seq(Calls) BY <1>1, <2>1, <2>4, MessageAdded
  <2>6. Count(toKWin', ActionCalls) = Count(toKWin, ActionCalls)
    BY <1>1, <2>1, <2>4, CountedAdded
  <2>7. WindowTypes' BY <1>1, <1>2, <2>3, <2>5 DEF WindowTypes
  <2>8. ActionsCounted' BY <1>1, <1>2, <2>3, <2>6 DEF ActionsCounted
  <2>9. Carries(toKWin, Loads) => way BY DEF Carries, Loads, Windows!LoadUnderWay
  <2>10. Carries(fromKWin, Loadeds) => way BY DEF Carries, Loadeds, Windows!LoadUnderWay
  <2> HIDE DEF way
  <2>11. ASSUME ~slips PROVE TrackerFollows'
    <3>1. /\ CallsOrdered(toKWin) /\ Single(fromKWin, Loadeds)
          /\ ~Carries(toKWin, Loads) /\ ~Carries(fromKWin, Loadeds)
          /\ IF manager.id THEN Tracking ELSE Loading
      BY <1>1, <1>2, <2>2, <2>9, <2>10, <2>11 DEF TrackerFollows
    <3>2. manager.id /\ Tracking BY <3>1 DEF Loading
    <3>3. ~Carries(toKWin, Unloads) BY <3>2 DEF Tracking
    <3>4. /\ \A M : Carries(toKWin', M) <=> Carries(toKWin, M) \/ c \in M
          /\ \A M : Single(toKWin, M) /\ (c \in M => ~Carries(toKWin, M)) => Single(toKWin', M)
          /\ \A M, N : Before(toKWin, M, N) /\ c \notin M => Before(toKWin', M, N)
          /\ \A M, N : Before(toKWin, M, N) /\ ~Carries(toKWin, N) /\ c \notin N
                => Before(toKWin', M, N)
      BY <1>1, <2>1, <2>4, <3>2, MessageAdded
    <3>5. CallsOrdered(toKWin') BY <2>4, <3>1, <3>3, <3>4 DEF CallsOrdered
    <3>6. Cleared' BY <2>4, <3>4 DEF Cleared
    <3>7. Gone' BY <1>2, <2>3, <2>4, <3>1, <3>4, <3>6 DEF Gone
    <3> QED BY <1>2, <2>3, <3>1, <3>5, <3>7 DEF TrackerFollows
  <2>12. TrackerFollows' BY <2>3, <2>11 DEF TrackerFollows
  <2> QED BY <2>7, <2>8, <2>12 DEF WindowsInv
<1> QED BY <1>3, <1>4

(* The answer that the script is loaded, or is not.                        *)
LEMMA WindowsLoaded ==
    ASSUME WindowsInv, Windows!OnTrackerLoaded
    PROVE  WindowsInv'
<1>1. /\ WindowTypes /\ ActionsCounted /\ TrackerFollows /\ toKWin \in Seq(Calls)
      /\ fromKWin \in Seq(Answers \cup Updates) /\ manager.instances \in Nat
      /\ manager \in [instances : Nat, id : BOOLEAN, file : BOOLEAN, model : {0, 1, 2},
                      actions : Nat, slipped : BOOLEAN]
  BY DEF WindowsInv, WindowTypes
<1> DEFINE c == Windows!Call("run", "tracker")
<1>2. /\ UNCHANGED kwin /\ fromKWin # <<>> /\ fromKWin' = Tail(fromKWin)
      /\ Head(fromKWin).type = "load" /\ Head(fromKWin).script = "tracker"
      /\ IF manager.instances > 0 /\ Head(fromKWin).ok
         THEN manager' = [manager EXCEPT !.id = TRUE] /\ toKWin' = Append(toKWin, c)
         ELSE manager' = [manager EXCEPT !.file = FALSE] /\ UNCHANGED toKWin
  BY DEF Windows!OnTrackerLoaded, Windows!Answered
<1>3. c \in Calls /\ c \notin ActionCalls /\ c \in Runs /\ c \notin Unloads /\ c \notin Loads
  BY MessagesApart DEF Types, Windows!Scripts, Runs
<1> HIDE DEF c
<1>4. /\ fromKWin' \in Seq(Answers \cup Updates) /\ Head(fromKWin) \in Answers \cup Updates
      /\ \A M : Carries(fromKWin', M) => Carries(fromKWin, M)
      /\ \A M : Head(fromKWin) \in M => Carries(fromKWin, M)
      /\ \A M : Single(fromKWin, M) => Single(fromKWin', M)
      /\ \A M : Single(fromKWin, M) /\ Head(fromKWin) \in M => ~Carries(fromKWin', M)
  BY <1>1, <1>2, MessageTaken
<1>5. Head(fromKWin) \in Loadeds BY <1>2, <1>4 DEF Answers, Updates, Loadeds
<1>6. Head(fromKWin) \notin ActionAnswers /\ (Head(fromKWin) \in Refusals <=> ~Head(fromKWin).ok)
  BY <1>5, MessagesApart
<1>7. /\ manager' \in [instances : Nat, id : BOOLEAN, file : BOOLEAN, model : {0, 1, 2},
                        actions : Nat, slipped : BOOLEAN]
      /\ manager'.instances = manager.instances /\ manager'.slipped = manager.slipped
      /\ manager'.actions = manager.actions
  BY <1>1, <1>2
<1>8. toKWin' = toKWin \/ toKWin' = Append(toKWin, c) BY <1>2
<1>9. WindowTypes'
  <2>1. toKWin' \in Seq(Calls) BY <1>1, <1>3, <1>8, MessageAdded
  <2> QED BY <1>1, <1>2, <1>4, <1>7, <2>1 DEF WindowTypes
<1>10. ActionsCounted'
  <2>1. Count(toKWin', ActionCalls) = Count(toKWin, ActionCalls)
    <3>1. CASE toKWin' = toKWin BY <3>1
    <3>2. CASE toKWin' = Append(toKWin, c) BY <1>1, <1>3, <3>2, CountedAdded
    <3> QED BY <1>8, <3>1, <3>2
  <2>2. Count(fromKWin', ActionAnswers) = Count(fromKWin, ActionAnswers)
    BY <1>1, <1>2, <1>6, CountedTaken
  <2> QED BY <1>1, <1>7, <2>1, <2>2 DEF ActionsCounted
<1>11. ASSUME ~manager.slipped PROVE TrackerFollows'
  <2>1. CallsOrdered(toKWin) /\ Single(fromKWin, Loadeds) /\ Carries(fromKWin, Loadeds)
    BY <1>1, <1>4, <1>5, <1>11 DEF TrackerFollows
  <2>2. manager.instances # 0 /\ ~manager.id /\ Loading
    BY <1>1, <1>11, <2>1 DEF TrackerFollows, Gone, Tracking
  <2>3. /\ manager.file /\ ~Carries(toKWin, Loads) /\ ~Carries(toKWin, Runs)
        /\ ~Carries(toKWin, Unloads) /\ ~Carries(fromKWin, Refusals) /\ kwin.script = "loaded"
    BY <2>1, <2>2 DEF Loading
  <2>4. Head(fromKWin).ok /\ manager.instances > 0 BY <1>1, <1>4, <1>6, <2>2, <2>3
  <2>5. manager' = [manager EXCEPT !.id = TRUE] /\ toKWin' = Append(toKWin, c) BY <1>2, <2>4
  <2>6. manager'.id /\ manager'.file BY <1>1, <2>3, <2>5
  <2>7. /\ \A M : Carries(toKWin', M) <=> Carries(toKWin, M) \/ c \in M
        /\ \A M : Single(toKWin, M) /\ (c \in M => ~Carries(toKWin, M)) => Single(toKWin', M)
        /\ \A M, N : Before(toKWin, M, N) /\ c \notin M => Before(toKWin', M, N)
        /\ \A M, N : Before(toKWin, M, N) /\ ~Carries(toKWin, N) /\ c \notin N
              => Before(toKWin', M, N)
    BY <1>1, <1>3, <2>5, MessageAdded
  <2>8. CallsOrdered(toKWin') BY <1>3, <2>1, <2>3, <2>7 DEF CallsOrdered
  <2>9. /\ Carries(toKWin', Runs) /\ ~Carries(toKWin', Loads) /\ ~Carries(toKWin', Unloads)
        /\ ~Carries(fromKWin', Loadeds)
    BY <1>3, <1>4, <1>5, <2>1, <2>3, <2>7
  <2>10. Tracking' BY <1>2, <2>3, <2>6, <2>9 DEF Tracking
  <2>11. Single(fromKWin', Loadeds) BY <1>4, <2>1
  <2> QED BY <1>7, <2>2, <2>6, <2>8, <2>10, <2>11 DEF TrackerFollows
<1>12. TrackerFollows' BY <1>7, <1>11 DEF TrackerFollows
<1> QED BY <1>9, <1>10, <1>12 DEF WindowsInv

(* Every step keeps the invariant.                                         *)
LEMMA WindowsStep == ASSUME WindowsInv, Windows!Next PROVE WindowsInv'
BY WindowsServe, WindowsShown, WindowsAct, WindowsTrack, WindowsCreate, WindowsDestroy,
   WindowsLoaded DEF Windows!Next

(* The claim: what is left when every call has been answered.              *)
LEMMA WindowsClaim == WindowsInv => Windows!WindowsTracked
<1> SUFFICES ASSUME WindowsInv, toKWin = <<>>, fromKWin = <<>>
             PROVE  /\ manager.actions = 0
                    /\ \/ manager.slipped
                       \/ IF manager.instances > 0 THEN manager.model = kwin.windows
                          ELSE kwin.script = "none" /\ ~manager.file
  BY DEF Windows!WindowsTracked
<1>1. \A M : Count(toKWin, M) = 0 /\ Count(fromKWin, M) = 0
  <2> SUFFICES ASSUME NEW M PROVE Count(<<>>, M) = 0
    OBVIOUS
  <2> DEFINE I == {i \in 1 .. Len(<<>>) : <<>>[i] \in M}
  <2>1. I = {} OBVIOUS
  <2> QED BY <2>1, FS_EmptySet DEF Count
<1>2. manager.actions = 0 BY <1>1 DEF WindowsInv, ActionsCounted
<1>3. \A M : ~Carries(toKWin, M) /\ ~Carries(fromKWin, M) BY DEF Carries
<1>4. manager.instances \in Nat BY DEF WindowsInv, WindowTypes
<1>5. ASSUME ~manager.slipped, manager.instances > 0 PROVE manager.model = kwin.windows
  <2>1. IF manager.id THEN Tracking ELSE Loading BY <1>4, <1>5 DEF WindowsInv, TrackerFollows
  <2>2. Tracking BY <1>3, <2>1 DEF Loading
  <2> QED BY <1>3, <2>2 DEF Tracking, ModelFollows
<1>6. ASSUME ~manager.slipped, ~(manager.instances > 0) PROVE kwin.script = "none" /\ ~manager.file
  <2>1. Gone BY <1>4, <1>6 DEF WindowsInv, TrackerFollows
  <2> QED BY <1>3, <2>1 DEF Gone, Cleared
<1> QED BY <1>2, <1>5, <1>6

(* Every reachable state satisfies the invariant of the windows.           *)
LEMMA WindowsAlways == Spec => []WindowsInv
<1>1. Init => WindowsInv BY WindowsInit DEF Init
<1>2. WindowsInv /\ [Next]_vars => WindowsInv'
  <2> SUFFICES ASSUME WindowsInv, [Next]_vars PROVE WindowsInv'
    OBVIOUS
  <2>1. CASE UNCHANGED windowVars
    <3>1. UNCHANGED <<kwin, toKWin, fromKWin, manager>> BY <2>1 DEF windowVars
    <3>2. WindowTypes' BY <3>1 DEF WindowsInv, WindowTypes
    <3>3. ActionsCounted' BY <3>1 DEF WindowsInv, ActionsCounted
    <3>4. TrackerFollows'
      BY <3>1 DEF WindowsInv, TrackerFollows, Gone, Loading, Tracking, Cleared, ModelFollows, Today
    <3> QED BY <3>2, <3>3, <3>4 DEF WindowsInv
  <2>2. Windows!Next \/ UNCHANGED windowVars
    BY DEF Next, vars, OnlyLists, OnlyTree, OnlyTop, OnlyPrivacy, OnlyJobs, OnlyWindows,
           OnlyPower, windowVars
  <2> QED BY <2>1, <2>2, WindowsStep
<1> QED BY <1>1, <1>2, PTL DEF Spec

(* WindowsTracked holds for any number of instances, actions and changes:  *)
(* once KWin has answered every call, the model shows its windows as long  *)
(* as a component lives, no script and no file of it is left without one,  *)
(* unless the last one went while the script was being loaded, and no file *)
(* of an action is left (KWinManager.cpp).                                 *)
THEOREM WindowsAlwaysTracked == Spec => []Windows!WindowsTracked
  BY WindowsAlways, WindowsClaim, PTL

-----------------------------------------------------------------------------
(* The jobs of other programs (JobServer).                                 *)

Messages == [type : {"request", "gone"}, client : Clients] \cup [type : {"terminate"}, id : Nat]
            \cup [type : {"update"}, id : Nat, state : Server!JobStates, percent : Percents]
            \cup [type : {"free"}]
Jobs == [id : Nat, client : Clients, state : Server!JobStates, percent : Percents \cup {0},
         kill : BOOLEAN, orphan : BOOLEAN]

JobTypes ==
    /\ living \in SUBSET Clients /\ watched \in SUBSET Clients
    /\ bus \in Seq(Messages) /\ jobs \in Seq(Jobs)
    /\ history \in Seq(Nat) /\ Len(history) <= kMaxFinishedHistory
    /\ owners \in [Server!Names -> Server!Owners]
    /\ Has(server, {"active", "owns", "count", "percent", "launcher"})
    /\ server.active \in BOOLEAN /\ server.owns \in BOOLEAN
    /\ moves \in [jobs : Nat, moves : Nat]

\* A job has a number of its own, and is in one of the lists.
JobsOnce ==
    /\ \A i \in DOMAIN jobs : jobs[i].id <= moves.jobs /\ jobs[i].id # 0
    /\ \A i \in DOMAIN history : history[i] <= moves.jobs /\ history[i] # 0
    /\ \A i, k \in DOMAIN jobs : i # k => jobs[i].id # jobs[k].id
    /\ \A i, k \in DOMAIN history : i # k => history[i] # history[k]
    /\ \A i \in DOMAIN jobs : \A k \in DOMAIN history : jobs[i].id # history[k]

\* The client of a job runs and is watched, or its end is about to be told.
Ending(c) == Carries(bus, {[type |-> "gone", client |-> c]})
JobsFollowed ==
    \A i \in DOMAIN jobs :
       jobs[i].orphan \/ jobs[i].client \in living \cap watched \/ Ending(jobs[i].client)

\* What is counted are the jobs shown.
JobsCounted ==
    /\ server.launcher = <<Len(jobs), Server!MeanPercent(jobs)>>
    /\ server.count = Len(jobs) /\ server.percent = Server!MeanPercent(jobs)

\* A name that nobody owns is about to be told free.
Frees == {[type |-> "free"]}
NamesClaimed ==
    /\ server.owns <=> Server!Owns(owners)
    /\ (\E n \in Server!Names : owners[n] = "none") => Carries(bus, Frees)

\* The bound on the jobs.
RequestMessages == [type : {"request"}, client : Clients]
RequestsBounded == moves.jobs + Count(bus, RequestMessages) <= MaxJobs

JobsInv == JobTypes /\ JobsOnce /\ JobsFollowed /\ JobsCounted /\ NamesClaimed /\ RequestsBounded

-----------------------------------------------------------------------------
(* The module's Picked is that of Collections.                             *)
LEMMA ServerPicked == \A s, S : Server!Picked(s, S) = Picked(s, S)
<1>1. \A S : Server!Cardinality(S) = Cardinality(S) BY DEF Server!Cardinality, Cardinality
<1>2. \A S, n : Server!Nth(S, n) = Nth(S, n) BY <1>1 DEF Server!Nth, Nth
<1> QED BY <1>1, <1>2 DEF Server!Picked, Picked

(* All items are active ones.                                              *)
LEMMA AllActive == ASSUME NEW items \in Seq(Jobs) PROVE Server!Active(items) = items
<1>1. \A i \in DOMAIN items : items[i] \in Jobs OBVIOUS
<1>2. \A j \in Jobs : j.state \in Server!JobStates BY DEF Jobs
<1>3. {i \in DOMAIN items : items[i].state \in Server!JobStates} = DOMAIN items BY <1>1, <1>2
<1> QED BY <1>3, ServerPicked, PickedAll DEF Server!Active

(* What the recount of the items leaves in the server's variables.         *)
LEMMA JobsRecounted ==
    ASSUME JobTypes, NEW items \in Seq(Jobs), NEW s,
           \/ s = Server!Recounted(items)
           \/ s = Server!Recomputed(items) /\ server.launcher = <<Len(items), Server!MeanPercent(items)>>
    PROVE  /\ Has(s, {"active", "owns", "count", "percent", "launcher"})
           /\ s.active = server.active /\ s.owns = server.owns
           /\ s.launcher = <<Len(items), Server!MeanPercent(items)>>
           /\ s.count = Len(items) /\ s.percent = Server!MeanPercent(items)
<1> DEFINE n == Len(items)
           p == Server!MeanPercent(items)
           F == {"active", "owns", "count", "percent", "launcher"}
<1>1. Server!Active(items) = items BY AllActive
<1>2. \/ s = [[server EXCEPT !.count = n, !.percent = p] EXCEPT !.launcher = <<n, p>>]
      \/ s = [server EXCEPT !.count = n, !.percent = p] /\ server.launcher = <<n, p>>
  BY <1>1, Zenon DEF Server!Recounted, Server!Recomputed
<1>3. server = [f \in F |-> server[f]] BY DEF JobTypes, Has
<1> HIDE DEF n, p
<1>4. DOMAIN server = F BY <1>3
<1>5. CASE s = [[server EXCEPT !.count = n, !.percent = p] EXCEPT !.launcher = <<n, p>>]
  BY <1>4, <1>5 DEF Has, n, p
<1>6. CASE s = [server EXCEPT !.count = n, !.percent = p] /\ server.launcher = <<n, p>>
  BY <1>4, <1>6 DEF Has, n, p
<1> QED BY <1>2, <1>5, <1>6

(* The end of jobs: each goes from the one list to the other.              *)
LEMMA JobsFinish ==
    ASSUME JobTypes, JobsOnce, NEW ended, Server!Finish(ended)
    PROVE  /\ jobs' \in Seq(Jobs) /\ history' \in Seq(Nat) /\ Len(history') <= kMaxFinishedHistory
           /\ \A i \in DOMAIN jobs' : \E k \in DOMAIN jobs : jobs[k] \notin ended /\ jobs'[i] = jobs[k]
           /\ moves' = moves => JobsOnce'
<1> DEFINE S == {i \in DOMAIN jobs : jobs[i] \notin ended}
           D == {i \in DOMAIN jobs : jobs[i] \in ended}
           e == Picked(jobs, D)
           ids == [i \in DOMAIN e |-> e[i].id]
           r == Server!Reverse(ids)
           w == r \o history
           m == IF Len(ids) + Len(history) < kMaxFinishedHistory THEN Len(ids) + Len(history)
                ELSE kMaxFinishedHistory
<1>1. jobs \in Seq(Jobs) /\ history \in Seq(Nat) /\ kMaxFinishedHistory \in Nat
  BY BoundsAssumption DEF JobTypes
<1>2. S \in SUBSET DOMAIN jobs /\ D \in SUBSET DOMAIN jobs OBVIOUS
<1>3. /\ \A i \in S : jobs[i] \notin ended
      /\ \A i \in S : i \notin D
  OBVIOUS
<1>4. jobs' = Picked(jobs, S) /\ history' = SubSeq(w, 1, m)
  BY ServerPicked DEF Server!Finish, Server!Remembered, Server!IdsOf
<1> HIDE DEF S, D
<1>5. /\ jobs' \in Seq(Jobs)
      /\ \A n \in DOMAIN jobs' : Nth(S, n) \in S /\ jobs'[n] = jobs[Nth(S, n)]
      /\ \A n, k \in DOMAIN jobs' : n < k => Nth(S, n) < Nth(S, k)
  BY <1>1, <1>2, <1>4, PickedAt
<1>6. /\ e \in Seq(Jobs)
      /\ \A n \in DOMAIN e : Nth(D, n) \in D /\ e[n] = jobs[Nth(D, n)]
      /\ \A n, k \in DOMAIN e : n < k => Nth(D, n) < Nth(D, k)
  BY <1>1, <1>2, PickedAt
<1>7. DOMAIN jobs \subseteq Nat BY <1>1
<1>8. \A n, k \in DOMAIN jobs' : n # k => Nth(S, n) # Nth(S, k)
  <2>1. \A n \in DOMAIN jobs' : n \in Nat /\ Nth(S, n) \in Nat BY <1>2, <1>5, <1>7
  <2> QED BY <1>5, <2>1
<1>9. \A n, k \in DOMAIN e : n # k => Nth(D, n) # Nth(D, k)
  <2>1. \A n \in DOMAIN e : n \in Nat /\ Nth(D, n) \in Nat BY <1>2, <1>6, <1>7
  <2> QED BY <1>6, <2>1
<1> HIDE DEF e
<1>10. /\ ids \in Seq(Nat) /\ DOMAIN ids = DOMAIN e /\ \A n \in DOMAIN ids : ids[n] = e[n].id
  <2>1. \A j \in Jobs : j.id \in Nat BY DEF Jobs
  <2>2. \A n \in DOMAIN e : e[n].id \in Nat BY <1>6, <2>1
  <2>3. DOMAIN e = 1 .. Len(e) /\ Len(e) \in Nat BY <1>6
  <2>4. \A f : f = [n \in DOMAIN e |-> e[n].id] => f \in Seq(Nat) BY <2>2, <2>3
  <2> QED BY <2>4
<1>11. /\ \A n \in DOMAIN ids : Nth(D, n) \in D /\ ids[n] = jobs[Nth(D, n)].id
       /\ \A n, k \in DOMAIN ids : n # k => Nth(D, n) # Nth(D, k)
  BY <1>6, <1>9, <1>10
<1> HIDE DEF ids
<1>12. /\ r \in Seq(Nat) /\ Len(r) = Len(ids)
       /\ \A i \in 1 .. Len(r) : Len(ids) - i + 1 \in DOMAIN ids /\ r[i] = ids[Len(ids) - i + 1]
  BY <1>10 DEF Server!Reverse
<1> HIDE DEF r
<1>13. /\ Len(ids) \in Nat /\ Len(history) \in Nat /\ m \in Nat /\ m <= kMaxFinishedHistory
       /\ m <= Len(ids) + Len(history)
  BY <1>1, <1>10
<1> HIDE DEF m
<1>14. /\ w \in Seq(Nat) /\ Len(w) = Len(ids) + Len(history) /\ DOMAIN w = 1 .. Len(w)
       /\ \A i \in 1 .. Len(w) : w[i] = IF i <= Len(r) THEN r[i] ELSE history[i - Len(r)]
  <2>1. r \in Seq(Nat) /\ Len(r) = Len(ids) BY <1>12
  <2>2. /\ w \in Seq(Nat) /\ Len(w) = Len(r) + Len(history) /\ DOMAIN w = 1 .. Len(w)
        /\ \A i \in 1 .. Len(w) : w[i] = IF i <= Len(r) THEN r[i] ELSE history[i - Len(r)]
    BY <1>1, <2>1, JoinedAt
  <2> QED BY <2>1, <2>2
<1> HIDE DEF w
<1>15. /\ history' \in Seq(Nat) /\ Len(history') = m /\ DOMAIN history' = 1 .. m
       /\ \A i \in 1 .. m : i \in 1 .. Len(w) /\ history'[i] = w[i]
  BY <1>4, <1>13, <1>14
\* Where an entry of the longer history comes from.
<1> DEFINE at(i) == Nth(D, Len(ids) - i + 1)
<1>16. ASSUME NEW i \in 1 .. Len(w)
       PROVE  \/ i <= Len(r) /\ at(i) \in D /\ w[i] = jobs[at(i)].id
              \/ ~(i <= Len(r)) /\ i - Len(r) \in DOMAIN history /\ w[i] = history[i - Len(r)]
  <2>1. CASE i <= Len(r)
    <3>1. i \in 1 .. Len(r) BY <1>12, <1>13, <2>1
    <3>2. w[i] = ids[Len(ids) - i + 1] /\ Len(ids) - i + 1 \in DOMAIN ids BY <1>12, <1>14, <2>1, <3>1
    <3> QED BY <1>11, <2>1, <3>2
  <2>2. CASE ~(i <= Len(r))
    <3>1. i - Len(r) \in DOMAIN history BY <1>1, <1>12, <1>13, <1>14, <2>2
    <3> QED BY <1>14, <2>2, <3>1
  <2> QED BY <2>1, <2>2
<1>17. \A i, k \in 1 .. Len(w) : i <= Len(r) /\ k <= Len(r) /\ i # k => at(i) # at(k)
  <2> SUFFICES ASSUME NEW i \in 1 .. Len(w), NEW k \in 1 .. Len(w), i <= Len(r), k <= Len(r), i # k
               PROVE  at(i) # at(k)
    OBVIOUS
  <2>1. i \in 1 .. Len(r) /\ k \in 1 .. Len(r) BY <1>12, <1>13
  <2>2. Len(ids) - i + 1 # Len(ids) - k + 1 BY <1>13, <2>1
  <2> QED BY <1>11, <1>12, <2>1, <2>2
<1> HIDE DEF at
<1>18. ASSUME moves' = moves PROVE JobsOnce'
  <2>1. \A i \in DOMAIN jobs' : jobs'[i].id <= moves.jobs /\ jobs'[i].id # 0
    BY <1>2, <1>5 DEF JobsOnce
  <2>2. \A i \in DOMAIN history' : history'[i] <= moves.jobs /\ history'[i] # 0
    <3>1. \A i \in D : jobs[i].id <= moves.jobs /\ jobs[i].id # 0 BY <1>2 DEF JobsOnce
    <3>2. \A i \in 1 .. Len(w) : w[i] <= moves.jobs /\ w[i] # 0 BY <1>16, <3>1 DEF JobsOnce
    <3> QED BY <1>15, <3>2
  <2>3. \A i, k \in DOMAIN jobs' : i # k => jobs'[i].id # jobs'[k].id
    BY <1>2, <1>5, <1>8 DEF JobsOnce
  <2>4. \A i, k \in DOMAIN history' : i # k => history'[i] # history'[k]
    <3>1. ASSUME NEW i \in 1 .. Len(w), NEW k \in 1 .. Len(w), i # k PROVE w[i] # w[k]
      <4>1. CASE i <= Len(r) /\ k <= Len(r)
        <5>1. at(i) \in D /\ at(k) \in D /\ w[i] = jobs[at(i)].id /\ w[k] = jobs[at(k)].id
          BY <1>16, <4>1
        <5> QED BY <1>2, <1>17, <3>1, <4>1, <5>1 DEF JobsOnce
      <4>2. CASE i <= Len(r) /\ ~(k <= Len(r))
        <5>1. at(i) \in D /\ w[i] = jobs[at(i)].id BY <1>16, <4>2
        <5>2. k - Len(r) \in DOMAIN history /\ w[k] = history[k - Len(r)] BY <1>16, <4>2
        <5> QED BY <1>2, <5>1, <5>2 DEF JobsOnce
      <4>3. CASE ~(i <= Len(r)) /\ k <= Len(r)
        <5>1. at(k) \in D /\ w[k] = jobs[at(k)].id BY <1>16, <4>3
        <5>2. i - Len(r) \in DOMAIN history /\ w[i] = history[i - Len(r)] BY <1>16, <4>3
        <5> QED BY <1>2, <5>1, <5>2 DEF JobsOnce
      <4>4. CASE ~(i <= Len(r)) /\ ~(k <= Len(r))
        <5>1. i - Len(r) \in DOMAIN history /\ w[i] = history[i - Len(r)] BY <1>16, <4>4
        <5>2. k - Len(r) \in DOMAIN history /\ w[k] = history[k - Len(r)] BY <1>16, <4>4
        <5>3. i - Len(r) # k - Len(r) BY <1>12, <1>13, <3>1
        <5> QED BY <5>1, <5>2, <5>3 DEF JobsOnce
      <4> QED BY <4>1, <4>2, <4>3, <4>4
    <3> QED BY <1>15, <3>1
  <2>5. ASSUME NEW i \in DOMAIN jobs', NEW k \in DOMAIN history' PROVE jobs'[i].id # history'[k]
    <3>1. Nth(S, i) \in S /\ jobs'[i] = jobs[Nth(S, i)] BY <1>5
    <3>2. k \in 1 .. Len(w) /\ history'[k] = w[k] BY <1>15
    <3>3. CASE k <= Len(r)
      <4>1. at(k) \in D /\ w[k] = jobs[at(k)].id BY <1>16, <3>2, <3>3
      <4>2. at(k) # Nth(S, i) BY <1>3, <3>1, <4>1
      <4> QED BY <1>2, <3>1, <3>2, <4>1, <4>2 DEF JobsOnce
    <3>4. CASE ~(k <= Len(r))
      <4>1. k - Len(r) \in DOMAIN history /\ w[k] = history[k - Len(r)] BY <1>16, <3>2, <3>4
      <4> QED BY <1>2, <3>1, <3>2, <4>1 DEF JobsOnce
    <3> QED BY <3>3, <3>4
  <2> QED BY <1>18, <2>1, <2>2, <2>3, <2>4, <2>5 DEF JobsOnce
<1>19. \A i \in DOMAIN jobs' : \E k \in DOMAIN jobs : jobs[k] \notin ended /\ jobs'[i] = jobs[k]
  BY <1>2, <1>3, <1>5
<1> QED BY <1>5, <1>13, <1>15, <1>18, <1>19

-----------------------------------------------------------------------------
(* The bus.                                                                *)

(* The message at the head goes: what it was, and what the others say.     *)
LEMMA BusTaken ==
    ASSUME JobTypes, NEW t, Server!Deliver(t)
    PROVE  /\ bus' \in Seq(Messages)
           /\ t = "request" => Head(bus).client \in Clients
           /\ t = "update" => Head(bus).state \in Server!JobStates /\ Head(bus).percent \in Percents
           /\ \A c : Ending(c) /\ ~(t = "gone" /\ c = Head(bus).client) => Ending(c)'
           /\ t # "free" => (Carries(bus, Frees) => Carries(bus', Frees))
           /\ Count(bus', RequestMessages) \in Nat
           /\ Count(bus, RequestMessages) = IF t = "request" THEN Count(bus', RequestMessages) + 1
                                            ELSE Count(bus', RequestMessages)
<1> DEFINE m == Head(bus)
<1>1. bus \in Seq(Messages) /\ bus # <<>> /\ bus' = Tail(bus) /\ m.type = t
  BY DEF JobTypes, Server!Deliver
<1>2. /\ m \in Messages /\ bus' \in Seq(Messages)
      /\ \A M : Carries(bus, M) /\ m \notin M => Carries(bus', M)
  BY <1>1, MessageTaken
<1>3. /\ Count(bus', RequestMessages) \in Nat
      /\ Count(bus, RequestMessages) = IF m \in RequestMessages THEN Count(bus', RequestMessages) + 1
                                       ELSE Count(bus', RequestMessages)
  BY <1>1, CountedTaken
<1> HIDE DEF m
<1>4. /\ t = "request" => m.client \in Clients
      /\ t = "update" => m.state \in Server!JobStates /\ m.percent \in Percents
      /\ m \in RequestMessages <=> t = "request"
  BY <1>1, <1>2 DEF Messages, RequestMessages
<1>5. ASSUME NEW c, Ending(c), ~(t = "gone" /\ c = m.client) PROVE Ending(c)'
  <2>1. m # [type |-> "gone", client |-> c] BY <1>1, <1>5
  <2> QED BY <1>2, <1>5, <2>1 DEF Ending
<1>6. ASSUME t # "free", Carries(bus, Frees) PROVE Carries(bus', Frees)
  <2>1. m \notin Frees BY <1>1, <1>6 DEF Frees
  <2> QED BY <1>2, <1>6, <2>1
<1> QED BY <1>2, <1>3, <1>4, <1>5, <1>6 DEF m

(* A message is sent.                                                      *)
LEMMA BusSent ==
    ASSUME JobTypes, NEW m \in Messages, bus' = Append(bus, m)
    PROVE  /\ bus' \in Seq(Messages)
           /\ \A c : Ending(c) \/ m = [type |-> "gone", client |-> c] => Ending(c)'
           /\ Carries(bus, Frees) => Carries(bus', Frees)
           /\ Count(bus', RequestMessages) = IF m.type = "request" THEN Count(bus, RequestMessages) + 1
                                             ELSE Count(bus, RequestMessages)
<1>1. bus \in Seq(Messages) BY DEF JobTypes
<1>2. /\ bus' \in Seq(Messages)
      /\ \A M : Carries(bus', M) <=> Carries(bus, M) \/ m \in M
  BY <1>1, MessageAdded
<1>3. m \in RequestMessages <=> m.type = "request" BY DEF Messages, RequestMessages
<1>4. Count(bus', RequestMessages) = IF m.type = "request" THEN Count(bus, RequestMessages) + 1
                                     ELSE Count(bus, RequestMessages)
  BY <1>1, <1>3, CountedAdded
<1>5. \A c : Ending(c) \/ m = [type |-> "gone", client |-> c] => Ending(c)' BY <1>2 DEF Ending
<1> QED BY <1>2, <1>4, <1>5

(* Names are told free.                                                    *)
LEMMA NamesFreed ==
    ASSUME JobTypes, NEW names \in SUBSET Server!Names, names # {}, bus' = bus \o Server!Freed(names)
    PROVE  /\ bus' \in Seq(Messages)
           /\ \A c : Ending(c) => Ending(c)'
           /\ Carries(bus', Frees)
           /\ Count(bus', RequestMessages) = Count(bus, RequestMessages)
<1> DEFINE q == Server!Freed(names)
           n == Cardinality(names)
<1>1. bus \in Seq(Messages) BY DEF JobTypes
<1>2. n \in Nat /\ n # 0
  <2>1. IsFiniteSet(Server!Names) 
    <3>1. Server!Names = ({} \cup {"kuiserver"}) \cup {"JobViewServer"} BY DEF Server!Names
    <3>2. IsFiniteSet({} \cup {"kuiserver"}) BY FS_EmptySet, FS_AddElement
    <3> QED BY <3>1, <3>2, FS_AddElement
  <2>2. IsFiniteSet(names) BY <2>1, FS_Subset
  <2> QED BY <2>2, FS_CardinalityType, FS_EmptySet
<1>3. q = [i \in 1 .. n |-> [type |-> "free"]]
  <2>1. Server!Cardinality(names) = n BY DEF Server!Cardinality, Cardinality
  <2> QED BY <2>1 DEF Server!Freed
<1> HIDE DEF n, q
<1>4. q \in Seq(Messages) /\ DOMAIN q = 1 .. n /\ \A i \in DOMAIN q : q[i] = [type |-> "free"]
  <2>1. [type |-> "free"] \in Messages BY DEF Messages
  <2> QED BY <1>2, <1>3, <2>1
<1>5. Carries(q, Frees)
  <2>1. 1 \in DOMAIN q BY <1>2, <1>4
  <2> QED BY <1>4, <2>1 DEF Carries, Frees
<1>6. ~Carries(q, RequestMessages)
  <2>1. [type |-> "free"] \notin RequestMessages BY DEF RequestMessages
  <2> QED BY <1>4, <2>1 DEF Carries
<1>7. bus' = bus \o q BY DEF q
<1>8. /\ bus' \in Seq(Messages)
      /\ \A M : Carries(bus', M) <=> Carries(bus, M) \/ Carries(q, M)
      /\ \A M : ~Carries(q, M) => Count(bus', M) = Count(bus, M)
  BY <1>1, <1>4, <1>7, MessagesJoined
<1>9. \A c : Ending(c) => Ending(c)' BY <1>8 DEF Ending
<1> QED BY <1>5, <1>6, <1>8, <1>9

(* The requests under way are counted.                                     *)
LEMMA RequestsCounted == ASSUME JobTypes PROVE Server!Requests = Count(bus, RequestMessages)
<1>1. bus \in Seq(Messages) BY DEF JobTypes
<1>2. DOMAIN bus = 1 .. Len(bus) /\ \A i \in DOMAIN bus : bus[i] \in Messages BY <1>1
<1>3. \A m \in Messages : m.type = "request" <=> m \in RequestMessages
  BY DEF Messages, RequestMessages
<1>4. {i \in DOMAIN bus : bus[i].type = "request"} = {i \in 1 .. Len(bus) : bus[i] \in RequestMessages}
  BY <1>2, <1>3
<1>5. \A S : Server!Cardinality(S) = Cardinality(S) BY DEF Server!Cardinality, Cardinality
<1> QED BY <1>4, <1>5 DEF Server!Requests, Count

-----------------------------------------------------------------------------
(* The steps.                                                              *)

(* At first there are no jobs.                                             *)
LEMMA JobsInit == Server!Init => JobsInv
<1> SUFFICES ASSUME Server!Init PROVE JobsInv
  OBVIOUS
<1>1. PICK o \in [Server!Names -> {"none", "other"}] :
         /\ owners = Server!Claimed(o)
         /\ server = [active |-> TRUE, owns |-> Server!Owns(Server!Claimed(o)), count |-> 0,
                      percent |-> 0, launcher |-> <<0, 0>>]
  BY DEF Server!Init
<1>2. /\ living = Clients /\ bus = <<>> /\ watched = {} /\ jobs = <<>> /\ history = <<>>
      /\ moves = [jobs |-> 0, moves |-> 0]
  BY DEF Server!Init
<1>3. owners \in [Server!Names -> Server!Owners] /\ \A n \in Server!Names : owners[n] # "none"
  BY <1>1 DEF Server!Claimed, Server!Owners
<1> DEFINE owns == Server!Owns(owners)
<1>4. owns \in BOOLEAN BY DEF Server!Owns
<1>5. server = [active |-> TRUE, owns |-> owns, count |-> 0, percent |-> 0, launcher |-> <<0, 0>>]
  BY <1>1
<1> HIDE DEF owns
<1>6. /\ Has(server, {"active", "owns", "count", "percent", "launcher"}) /\ server.active \in BOOLEAN
      /\ server.owns = owns /\ server.count = 0 /\ server.percent = 0 /\ server.launcher = <<0, 0>>
  BY <1>5 DEF Has
<1>7. JobTypes BY <1>2, <1>3, <1>4, <1>6, BoundsAssumption DEF JobTypes
<1>8. JobsCounted BY <1>2, <1>6 DEF JobsCounted, Server!MeanPercent
<1>9. NamesClaimed BY <1>3, <1>6 DEF NamesClaimed, owns
<1>10. RequestsBounded
  <2>1. {i \in 1 .. Len(bus) : bus[i] \in RequestMessages} = {} BY <1>2
  <2>2. Count(bus, RequestMessages) = 0 BY <2>1, FS_EmptySet DEF Count
  <2> QED BY <1>2, <2>2, BoundsAssumption DEF RequestsBounded
<1> QED BY <1>2, <1>7, <1>8, <1>9, <1>10 DEF JobsInv, JobsOnce, JobsFollowed

(* Jobs that were followed are.                                            *)
LEMMA StillFollowed ==
    ASSUME JobTypes, JobsFollowed, NEW gone \in SUBSET Clients,
           \A i \in DOMAIN jobs' : \E k \in DOMAIN jobs :
              /\ jobs'[i].client = jobs[k].client /\ jobs'[i].orphan = jobs[k].orphan
              /\ jobs[k].client \notin gone,
           \A c \in Clients \ gone : c \in living \cap watched => c \in living' \cap watched' \/ Ending(c)',
           \A c \in Clients \ gone : Ending(c) => Ending(c)'
    PROVE  JobsFollowed'
<1> SUFFICES ASSUME NEW i \in DOMAIN jobs'
             PROVE  \/ jobs'[i].orphan \/ jobs'[i].client \in living' \cap watched'
                    \/ Carries(bus', {[type |-> "gone", client |-> jobs'[i].client]})
  BY DEF JobsFollowed, Ending
<1>1. PICK k \in DOMAIN jobs :
         /\ jobs'[i].client = jobs[k].client /\ jobs'[i].orphan = jobs[k].orphan
         /\ jobs[k].client \notin gone
  OBVIOUS
<1>2. jobs[k].client \in Clients
  <2>1. jobs \in Seq(Jobs) BY DEF JobTypes
  <2>2. jobs[k] \in Jobs BY <2>1
  <2> QED BY <2>2 DEF Jobs
<1>3. \/ jobs[k].orphan \/ jobs[k].client \in living \cap watched
      \/ Carries(bus, {[type |-> "gone", client |-> jobs[k].client]})
  BY DEF JobsFollowed, Ending
<1> QED BY <1>1, <1>2, <1>3 DEF Ending

(* The jobs end, by a message about them or by the timer.                  *)
LEMMA JobsEnd ==
    ASSUME JobsInv, NEW ended, Server!Finish(ended), UNCHANGED <<living, owners, moves>>,
           bus' \in Seq(Messages), watched' \in SUBSET Clients,
           NEW gone \in SUBSET Clients, \A i \in DOMAIN jobs : jobs[i].client \in gone => jobs[i] \in ended,
           \A c \in Clients \ gone : (c \in watched => c \in watched') /\ (Ending(c) => Ending(c)'),
           Carries(bus, Frees) => Carries(bus', Frees),
           Count(bus', RequestMessages) = Count(bus, RequestMessages)
    PROVE  JobsInv'
<1>1. JobTypes /\ JobsOnce /\ JobsFollowed /\ NamesClaimed /\ RequestsBounded BY DEF JobsInv
<1>2. /\ jobs' \in Seq(Jobs) /\ history' \in Seq(Nat) /\ Len(history') <= kMaxFinishedHistory
      /\ \A i \in DOMAIN jobs' : \E k \in DOMAIN jobs : jobs[k] \notin ended /\ jobs'[i] = jobs[k]
      /\ JobsOnce'
  BY <1>1, JobsFinish
<1>3. server' = Server!Recounted(jobs') BY DEF Server!Finish
<1>4. /\ Has(server', {"active", "owns", "count", "percent", "launcher"})
      /\ server'.active = server.active /\ server'.owns = server.owns
      /\ server'.launcher = <<Len(jobs'), Server!MeanPercent(jobs')>>
      /\ server'.count = Len(jobs') /\ server'.percent = Server!MeanPercent(jobs')
  BY <1>1, <1>2, <1>3, JobsRecounted
<1>5. JobTypes' BY <1>1, <1>2, <1>4 DEF JobTypes
<1>6. JobsFollowed'
  <2>1. \A i \in DOMAIN jobs' : \E k \in DOMAIN jobs :
           /\ jobs'[i].client = jobs[k].client /\ jobs'[i].orphan = jobs[k].orphan
           /\ jobs[k].client \notin gone
    BY <1>2
  <2>2. \A c \in Clients \ gone :
           c \in living \cap watched => c \in living' \cap watched' \/ Ending(c)'
    OBVIOUS
  <2>3. \A c \in Clients \ gone : Ending(c) => Ending(c)' OBVIOUS
  <2> QED BY <1>1, <2>1, <2>2, <2>3, StillFollowed
<1>7. JobsCounted' BY <1>4 DEF JobsCounted, Server!MeanPercent
<1>8. NamesClaimed' BY <1>1, <1>4 DEF NamesClaimed, Server!Owns
<1>9. RequestsBounded' BY <1>1 DEF RequestsBounded
<1> QED BY <1>2, <1>5, <1>6, <1>7, <1>8, <1>9 DEF JobsInv

(* A step that leaves the lists as they are.                               *)
LEMMA JobsAlike ==
    ASSUME JobsInv, UNCHANGED <<jobs, history>>,
           living' \in SUBSET Clients, UNCHANGED watched, bus' \in Seq(Messages),
           owners' \in [Server!Names -> Server!Owners],
           Has(server', {"active", "owns", "count", "percent", "launcher"}),
           server'.active \in BOOLEAN, server'.owns \in BOOLEAN, server'.launcher = server.launcher,
           server'.count = server.count, server'.percent = server.percent,
           moves' \in [jobs : Nat, moves : Nat], moves'.jobs = moves.jobs,
           \A c \in Clients : Ending(c) => Ending(c)',
           \A c \in Clients : c \in living \cap watched => c \in living' \/ Ending(c)',
           NamesClaimed', RequestsBounded'
    PROVE  JobsInv'
<1>1. JobTypes /\ JobsOnce /\ JobsFollowed /\ JobsCounted BY DEF JobsInv
<1>2. JobTypes' BY <1>1 DEF JobTypes
<1>3. JobsOnce' BY <1>1 DEF JobsOnce
<1>4. JobsFollowed'
  <2>1. \A i \in DOMAIN jobs' : \E k \in DOMAIN jobs :
           /\ jobs'[i].client = jobs[k].client /\ jobs'[i].orphan = jobs[k].orphan
           /\ jobs[k].client \notin {}
    OBVIOUS
  <2>2. {} \in SUBSET Clients OBVIOUS
  <2>3. \A c \in Clients \ {} :
           c \in living \cap watched => c \in living' \cap watched' \/ Ending(c)'
    OBVIOUS
  <2>4. \A c \in Clients \ {} : Ending(c) => Ending(c)' OBVIOUS
  <2> QED BY <1>1, <2>1, <2>2, <2>3, <2>4, StillFollowed
<1>5. JobsCounted' BY <1>1 DEF JobsCounted, Server!MeanPercent
<1> QED BY <1>2, <1>3, <1>4, <1>5 DEF JobsInv

(* A request is served: a job of a client that is watched from now on.     *)
LEMMA JobsRequested == ASSUME JobsInv, Server!OnRequestView PROVE JobsInv'
<1> DEFINE c == Head(bus).client
           orphan == c \notin living
           j == [id |-> moves.jobs + 1, client |-> c, state |-> "running", percent |-> 0,
                 kill |-> FALSE, orphan |-> orphan]
<1>1. /\ JobTypes /\ JobsOnce /\ JobsFollowed /\ JobsCounted /\ NamesClaimed /\ RequestsBounded
      /\ Server!Deliver("request") /\ UNCHANGED <<living, history, owners>>
  BY DEF JobsInv, Server!OnRequestView
<1>2. /\ bus' \in Seq(Messages) /\ c \in Clients
      /\ \A d : Ending(d) => Ending(d)'
      /\ Carries(bus, Frees) => Carries(bus', Frees)
      /\ Count(bus', RequestMessages) \in Nat
      /\ Count(bus, RequestMessages) = Count(bus', RequestMessages) + 1
  BY <1>1, BusTaken
<1>3. moves.jobs \in Nat /\ moves \in [jobs : Nat, moves : Nat] /\ MaxJobs \in Nat
  BY <1>1, BoundsAssumption DEF JobTypes
<1>4. CASE server.active
  <2>1. /\ watched' = watched \cup {c} /\ jobs' = Append(jobs, j)
        /\ server' = Server!Recounted(jobs') /\ moves' = [moves EXCEPT !.jobs = @ + 1]
    BY <1>4 DEF Server!OnRequestView
  <2>2. orphan \in BOOLEAN /\ (~orphan => c \in living) OBVIOUS
  <2> HIDE DEF orphan, c
  <2>3. j \in Jobs BY <1>2, <1>3, <2>2 DEF Jobs, Server!JobStates
  <2>4. j.id = moves.jobs + 1 /\ j.client = c /\ j.orphan = orphan OBVIOUS
  <2> HIDE DEF j
  <2>5. jobs \in Seq(Jobs) /\ DOMAIN jobs = 1 .. Len(jobs) /\ Len(jobs) \in Nat BY <1>1 DEF JobTypes
  <2>6. /\ jobs' \in Seq(Jobs) /\ DOMAIN jobs' = 1 .. Len(jobs) + 1 /\ jobs'[Len(jobs) + 1] = j
        /\ \A i \in 1 .. Len(jobs) : jobs'[i] = jobs[i]
    BY <2>1, <2>3, <2>5
  <2>7. ASSUME NEW i \in DOMAIN jobs'
        PROVE  \/ i \in DOMAIN jobs /\ jobs'[i] = jobs[i]
               \/ i = Len(jobs) + 1 /\ jobs'[i] = j
    BY <2>5, <2>6
  <2>8. /\ Has(server', {"active", "owns", "count", "percent", "launcher"})
        /\ server'.active = server.active /\ server'.owns = server.owns
        /\ server'.launcher = <<Len(jobs'), Server!MeanPercent(jobs')>>
        /\ server'.count = Len(jobs') /\ server'.percent = Server!MeanPercent(jobs')
    BY <1>1, <2>1, <2>6, JobsRecounted
  <2>9. moves' \in [jobs : Nat, moves : Nat] /\ moves'.jobs = moves.jobs + 1 BY <1>3, <2>1
  <2>10. JobTypes' BY <1>1, <1>2, <2>1, <2>6, <2>8, <2>9 DEF JobTypes
  <2>11. JobsOnce'
    <3>1. \A i \in DOMAIN jobs : /\ jobs[i].id \in Nat /\ jobs[i].id <= moves.jobs /\ jobs[i].id # 0
                                 /\ jobs[i].id # moves.jobs + 1
      <4>1. \A i \in DOMAIN jobs : jobs[i] \in Jobs BY <2>5
      <4>2. \A i \in DOMAIN jobs : jobs[i].id \in Nat BY <4>1 DEF Jobs
      <4>3. \A i \in DOMAIN jobs : jobs[i].id <= moves.jobs /\ jobs[i].id # 0 BY <1>1 DEF JobsOnce
      <4> QED BY <1>3, <4>2, <4>3
    <3>2. \A i \in DOMAIN history : /\ history[i] \in Nat /\ history[i] <= moves.jobs /\ history[i] # 0
                                    /\ history[i] # moves.jobs + 1
      <4>1. \A i \in DOMAIN history : history[i] \in Nat BY <1>1 DEF JobTypes
      <4>2. \A i \in DOMAIN history : history[i] <= moves.jobs /\ history[i] # 0 BY <1>1 DEF JobsOnce
      <4> QED BY <1>3, <4>1, <4>2
    <3>3. \A i \in DOMAIN jobs' : jobs'[i].id <= moves.jobs + 1 /\ jobs'[i].id # 0
      BY <1>3, <2>4, <2>7, <3>1
    <3>4. \A i \in DOMAIN history : history[i] <= moves.jobs + 1 /\ history[i] # 0 BY <1>3, <3>2
    <3>5. \A i, k \in DOMAIN jobs' : i # k => jobs'[i].id # jobs'[k].id
      BY <1>1, <2>4, <2>7, <3>1 DEF JobsOnce
    <3>6. \A i \in DOMAIN jobs' : \A k \in DOMAIN history : jobs'[i].id # history[k]
      BY <1>1, <2>4, <2>7, <3>2 DEF JobsOnce
    <3> QED BY <1>1, <2>9, <3>3, <3>4, <3>5, <3>6 DEF JobsOnce
  <2>12. JobsFollowed'
    <3> SUFFICES ASSUME NEW i \in DOMAIN jobs'
                 PROVE  \/ jobs'[i].orphan \/ jobs'[i].client \in living' \cap watched'
                        \/ Carries(bus', {[type |-> "gone", client |-> jobs'[i].client]})
      BY DEF JobsFollowed, Ending
    <3>1. CASE i \in DOMAIN jobs /\ jobs'[i] = jobs[i]
      <4>1. \/ jobs[i].orphan \/ jobs[i].client \in living \cap watched
            \/ Ending(jobs[i].client)
        BY <1>1, <3>1 DEF JobsFollowed
      <4>2. Ending(jobs[i].client) => Carries(bus', {[type |-> "gone", client |-> jobs[i].client]})
        BY <1>2 DEF Ending
      <4> QED BY <1>1, <2>1, <3>1, <4>1, <4>2
    <3>2. CASE jobs'[i] = j BY <1>1, <2>1, <2>2, <2>4, <3>2
    <3> QED BY <2>7, <3>1, <3>2
  <2>13. JobsCounted' BY <2>8 DEF JobsCounted, Server!MeanPercent
  <2>14. NamesClaimed' BY <1>1, <1>2, <2>8 DEF NamesClaimed, Server!Owns
  <2>15. RequestsBounded' BY <1>1, <1>2, <1>3, <2>9 DEF RequestsBounded
  <2> QED BY <2>10, <2>11, <2>12, <2>13, <2>14, <2>15 DEF JobsInv
<1>5. CASE ~server.active
  <2>1. UNCHANGED <<watched, jobs, server, moves>> BY <1>5 DEF Server!OnRequestView
  <2>2. NamesClaimed' BY <1>1, <1>2, <2>1 DEF NamesClaimed, Server!Owns
  <2>3. RequestsBounded' BY <1>1, <1>2, <1>3, <2>1 DEF RequestsBounded
  <2> QED BY <1>1, <1>2, <2>1, <2>2, <2>3, JobsAlike DEF JobTypes
<1> QED BY <1>4, <1>5

(* What happens to an item without ending it.                              *)
LEMMA JobsChanged ==
    ASSUME JobsInv, jobs' \in Seq(Jobs), DOMAIN jobs' = DOMAIN jobs,
           \A i \in DOMAIN jobs : /\ jobs'[i].id = jobs[i].id /\ jobs'[i].client = jobs[i].client
                                  /\ jobs'[i].orphan = jobs[i].orphan,
           UNCHANGED <<living, watched, history, owners, moves>>,
           bus' \in Seq(Messages), \A c \in Clients : Ending(c) => Ending(c)',
           Carries(bus, Frees) => Carries(bus', Frees),
           Count(bus', RequestMessages) = Count(bus, RequestMessages),
           Has(server', {"active", "owns", "count", "percent", "launcher"}),
           server'.active = server.active, server'.owns = server.owns, JobsCounted'
    PROVE  JobsInv'
<1>1. JobTypes /\ JobsOnce /\ JobsFollowed /\ NamesClaimed /\ RequestsBounded BY DEF JobsInv
<1>2. JobTypes' BY <1>1 DEF JobTypes
<1>3. JobsOnce' BY <1>1 DEF JobsOnce
<1>4. JobsFollowed'
  <2>1. \A i \in DOMAIN jobs' : \E k \in DOMAIN jobs :
           /\ jobs'[i].client = jobs[k].client /\ jobs'[i].orphan = jobs[k].orphan
           /\ jobs[k].client \notin {}
    OBVIOUS
  <2>2. {} \in SUBSET Clients OBVIOUS
  <2>3. \A c \in Clients \ {} :
           c \in living \cap watched => c \in living' \cap watched' \/ Ending(c)'
    OBVIOUS
  <2>4. \A c \in Clients \ {} : Ending(c) => Ending(c)' OBVIOUS
  <2> QED BY <1>1, <2>1, <2>2, <2>3, <2>4, StillFollowed
<1>5. NamesClaimed' BY <1>1 DEF NamesClaimed, Server!Owns
<1>6. RequestsBounded' BY <1>1 DEF RequestsBounded
<1> QED BY <1>2, <1>3, <1>4, <1>5, <1>6 DEF JobsInv

(* A message changes what is shown of an item.                             *)
LEMMA JobsUpdated == ASSUME JobsInv, Server!OnUpdate PROVE JobsInv'
<1> DEFINE m == Head(bus)
           changed(i) == [jobs[i] EXCEPT !.state = m.state, !.percent = m.percent]
<1>0. jobs' = [i \in DOMAIN jobs |-> IF jobs[i].id = m.id THEN changed(i) ELSE jobs[i]]
  BY DEF Server!OnUpdate
<1> HIDE DEF changed
<1>1. /\ JobTypes /\ Server!Deliver("update") /\ server' = Server!Recounted(jobs')
      /\ UNCHANGED <<living, watched, history, owners, moves>>
  BY DEF JobsInv, Server!OnUpdate
<1>2. /\ bus' \in Seq(Messages) /\ m.state \in Server!JobStates /\ m.percent \in Percents
      /\ \A d : Ending(d) => Ending(d)'
      /\ Carries(bus, Frees) => Carries(bus', Frees)
      /\ Count(bus', RequestMessages) = Count(bus, RequestMessages)
  BY <1>1, BusTaken
<1>3. jobs \in Seq(Jobs) /\ DOMAIN jobs = 1 .. Len(jobs) /\ Len(jobs) \in Nat BY <1>1 DEF JobTypes
<1> HIDE DEF m
<1>4. ASSUME NEW i \in DOMAIN jobs
      PROVE  /\ jobs'[i] \in Jobs /\ jobs'[i].id = jobs[i].id /\ jobs'[i].client = jobs[i].client
             /\ jobs'[i].orphan = jobs[i].orphan
  <2>1. jobs[i] \in Jobs BY <1>3
  <2>2. /\ changed(i) \in Jobs /\ changed(i).id = jobs[i].id /\ changed(i).client = jobs[i].client
        /\ changed(i).orphan = jobs[i].orphan
    BY <1>2, <2>1 DEF Jobs, changed
  <2>3. jobs'[i] = changed(i) \/ jobs'[i] = jobs[i] BY <1>0
  <2> QED BY <2>1, <2>2, <2>3
<1>5. DOMAIN jobs' = DOMAIN jobs /\ jobs' \in Seq(Jobs)
  <2>1. DOMAIN jobs' = DOMAIN jobs BY <1>0
  <2>2. jobs' = [i \in 1 .. Len(jobs) |-> jobs'[i]] BY <1>0, <1>3
  <2> QED BY <1>3, <1>4, <2>1, <2>2
<1>6. /\ Has(server', {"active", "owns", "count", "percent", "launcher"})
      /\ server'.active = server.active /\ server'.owns = server.owns
      /\ server'.launcher = <<Len(jobs'), Server!MeanPercent(jobs')>>
      /\ server'.count = Len(jobs') /\ server'.percent = Server!MeanPercent(jobs')
  BY <1>1, <1>5, JobsRecounted
<1>7. JobsCounted' BY <1>6 DEF JobsCounted, Server!MeanPercent
<1> QED BY <1>1, <1>2, <1>4, <1>5, <1>6, <1>7, JobsChanged

(* A job is cancelled: the percentages, and so their mean, are the same.   *)
LEMMA JobsCancelled == ASSUME JobsInv, Server!CancelJob PROVE JobsInv'
<1>1. PICK k \in DOMAIN jobs : jobs' = [jobs EXCEPT ![k].kill = TRUE]
  BY DEF Server!CancelJob
<1>2. UNCHANGED <<living, bus, watched, history, owners, server, moves>> BY DEF Server!CancelJob
<1>3. /\ JobTypes /\ JobsCounted
      /\ jobs \in Seq(Jobs) /\ DOMAIN jobs = 1 .. Len(jobs) /\ Len(jobs) \in Nat
  BY DEF JobsInv, JobTypes
<1>4. ASSUME NEW i \in DOMAIN jobs
      PROVE  /\ jobs'[i] \in Jobs /\ jobs'[i].id = jobs[i].id /\ jobs'[i].client = jobs[i].client
             /\ jobs'[i].orphan = jobs[i].orphan /\ jobs'[i].percent = jobs[i].percent
  <2>1. jobs[i] \in Jobs BY <1>3
  <2>2. jobs'[i] = jobs[i] \/ jobs'[i] = [jobs[i] EXCEPT !.kill = TRUE] BY <1>1
  <2> QED BY <2>1, <2>2 DEF Jobs
<1>5. DOMAIN jobs' = DOMAIN jobs BY <1>1
<1>6. jobs' \in Seq(Jobs) /\ Len(jobs') = Len(jobs)
  <2>1. jobs' = [i \in 1 .. Len(jobs) |-> jobs'[i]] BY <1>1, <1>3
  <2> QED BY <1>3, <1>4, <1>5, <2>1
<1>7. Server!MeanPercent(jobs)' = Server!MeanPercent(jobs)
  <2>1. [i \in DOMAIN jobs' |-> jobs'[i].percent] = [i \in DOMAIN jobs |-> jobs[i].percent]
    BY <1>4, <1>5
  <2>2. jobs' = <<>> <=> jobs = <<>> BY <1>3, <1>6
  <2> QED BY <1>6, <2>1, <2>2 DEF Server!MeanPercent
<1>8. JobsCounted' BY <1>2, <1>3, <1>6, <1>7 DEF JobsCounted
<1>9. \A c \in Clients : Ending(c) => Ending(c)' BY <1>2 DEF Ending
<1> QED BY <1>2, <1>3, <1>4, <1>5, <1>6, <1>8, <1>9, JobsChanged DEF JobTypes

(* A job ends by its client's word, by the end of its client, by the timer. *)
LEMMA JobsEnded ==
    ASSUME JobsInv,
           Server!OnTerminate \/ Server!OnClientServiceUnregistered \/ Server!KillTimeout
    PROVE  JobsInv'
<1>1. JobTypes /\ {} \in SUBSET Clients BY DEF JobsInv
<1>2. CASE Server!OnTerminate
  <2>1. PICK ended : Server!Finish(ended) BY <1>2 DEF Server!OnTerminate
  <2>2. Server!Deliver("terminate") /\ UNCHANGED <<living, watched, owners, moves>>
    BY <1>2 DEF Server!OnTerminate
  <2>3. /\ bus' \in Seq(Messages) /\ \A d : Ending(d) => Ending(d)'
        /\ Carries(bus, Frees) => Carries(bus', Frees)
        /\ Count(bus', RequestMessages) = Count(bus, RequestMessages)
    BY <1>1, <2>2, BusTaken
  <2>4. \A c \in Clients \ {} : (c \in watched => c \in watched') /\ (Ending(c) => Ending(c)')
    BY <2>2, <2>3
  <2>5. watched' \in SUBSET Clients BY <1>1, <2>2 DEF JobTypes
  <2>6. \A i \in DOMAIN jobs : jobs[i].client \in {} => jobs[i] \in ended OBVIOUS
  <2> QED BY <1>1, <2>1, <2>2, <2>3, <2>4, <2>5, <2>6, JobsEnd
<1>3. CASE Server!OnClientServiceUnregistered
  <2> DEFINE c == Head(bus).client
             ended == {j \in Server!Items : j.client = c}
             gone == Clients \cap {c}
  <2>1. /\ Server!Deliver("gone") /\ UNCHANGED <<living, owners, moves>>
        /\ watched' = watched \ {c} /\ Server!Finish(ended)
    BY <1>3 DEF Server!OnClientServiceUnregistered
  <2>2. /\ bus' \in Seq(Messages) /\ \A d : Ending(d) /\ d # c => Ending(d)'
        /\ Carries(bus, Frees) => Carries(bus', Frees)
        /\ Count(bus', RequestMessages) = Count(bus, RequestMessages)
    BY <1>1, <2>1, BusTaken
  <2>3. gone \in SUBSET Clients OBVIOUS
  <2>4. \A d \in Clients \ gone : (d \in watched => d \in watched') /\ (Ending(d) => Ending(d)')
    BY <2>1, <2>2
  <2>5. watched' \in SUBSET Clients BY <1>1, <2>1 DEF JobTypes
  <2>6. \A i \in DOMAIN jobs : jobs[i].client \in gone => jobs[i] \in ended BY DEF Server!Items
  <2> HIDE DEF c, ended, gone
  <2> QED BY <2>1, <2>2, <2>3, <2>4, <2>5, <2>6, JobsEnd
<1>4. CASE Server!KillTimeout
  <2>1. PICK ended : Server!Finish(ended) BY <1>4 DEF Server!KillTimeout
  <2>2. UNCHANGED <<living, bus, watched, owners, moves>> BY <1>4 DEF Server!KillTimeout
  <2>3. bus' \in Seq(Messages) /\ watched' \in SUBSET Clients BY <1>1, <2>2 DEF JobTypes
  <2>4. \A c \in Clients \ {} : (c \in watched => c \in watched') /\ (Ending(c) => Ending(c)')
    BY <2>2 DEF Ending
  <2>5. Carries(bus, Frees) => Carries(bus', Frees) BY <2>2
  <2>6. Count(bus', RequestMessages) = Count(bus, RequestMessages) BY <2>2
  <2>7. \A i \in DOMAIN jobs : jobs[i].client \in {} => jobs[i] \in ended OBVIOUS
  <2> QED BY <1>1, <2>1, <2>2, <2>3, <2>4, <2>5, <2>6, <2>7, JobsEnd
<1> QED BY <1>2, <1>3, <1>4

(* What a claim leaves no name for others to take.                         *)
LEMMA NamesTaken ==
    ASSUME JobTypes
    PROVE  /\ Server!Claimed(owners) \in [Server!Names -> Server!Owners]
           /\ \A n \in Server!Names : Server!Claimed(owners)[n] # "none"
  BY DEF JobTypes, Server!Claimed, Server!Owners

(* A name is free again: it is claimed.                                    *)
LEMMA JobsFreed == ASSUME JobsInv, Server!OnServiceOwnerChanged PROVE JobsInv'
<1> DEFINE o == Server!Claimed(owners)
           owns == Server!Owns(o)
<1>1. /\ JobTypes /\ NamesClaimed /\ RequestsBounded /\ Server!Deliver("free")
      /\ UNCHANGED <<living, watched, jobs, history, moves>>
  BY DEF JobsInv, Server!OnServiceOwnerChanged
<1>2. owners' = o /\ server' = [server EXCEPT !.owns = owns]
  BY DEF Server!OnServiceOwnerChanged, Server!Claim
<1>3. o \in [Server!Names -> Server!Owners] /\ \A n \in Server!Names : o[n] # "none"
  BY <1>1, NamesTaken
<1>4. /\ bus' \in Seq(Messages) /\ \A d : Ending(d) => Ending(d)'
      /\ Count(bus', RequestMessages) = Count(bus, RequestMessages)
  BY <1>1, BusTaken
<1> HIDE DEF o
<1>5. owns \in BOOLEAN BY DEF Server!Owns
<1>6. NamesClaimed' <=> ((server'.owns <=> owns)
                         /\ ((\E n \in Server!Names : o[n] = "none") => Carries(bus', Frees)))
  BY <1>2 DEF NamesClaimed, Server!Owns
<1> HIDE DEF owns
<1>7. /\ Has(server', {"active", "owns", "count", "percent", "launcher"})
      /\ server'.active = server.active /\ server'.owns = owns
      /\ server'.launcher = server.launcher /\ server'.count = server.count
      /\ server'.percent = server.percent
  BY <1>1, <1>2 DEF JobTypes, Has
<1>8. NamesClaimed' BY <1>3, <1>6, <1>7
<1>9. RequestsBounded' BY <1>1, <1>4 DEF RequestsBounded
<1>10. /\ moves' \in [jobs : Nat, moves : Nat] /\ moves'.jobs = moves.jobs
       /\ living' \in SUBSET Clients /\ server.active \in BOOLEAN
  BY <1>1 DEF JobTypes
<1>11. owners' \in [Server!Names -> Server!Owners] BY <1>2, <1>3
<1>12. \A c \in Clients : c \in living \cap watched => c \in living' \/ Ending(c)' BY <1>1
<1>13. server'.active \in BOOLEAN /\ server'.owns \in BOOLEAN BY <1>5, <1>7, <1>10
<1> QED BY <1>1, <1>4, <1>7, <1>8, <1>9, <1>10, <1>11, <1>12, <1>13, JobsAlike

(* A program asks for a view, or speaks of its job.                        *)
LEMMA JobsSpoken == ASSUME JobsInv, Server!RequestView \/ Server!ClientSpeaks PROVE JobsInv'
<1>1. /\ JobTypes /\ NamesClaimed /\ RequestsBounded
      /\ UNCHANGED <<living, watched, jobs, history, owners, server, moves>>
  BY DEF JobsInv, Server!RequestView, Server!ClientSpeaks
<1>2. MaxJobs \in Nat /\ moves.jobs \in Nat /\ Count(bus, RequestMessages) \in Nat
  BY <1>1, BoundsAssumption, CountIsNumber DEF JobTypes
<1>3. PICK m \in Messages :
         /\ bus' = Append(bus, m)
         /\ m.type = "request" => moves.jobs + Count(bus, RequestMessages) < MaxJobs
  <2>1. CASE Server!RequestView
    <3>1. PICK c \in living : bus' = Append(bus, [type |-> "request", client |-> c])
      BY <2>1 DEF Server!RequestView, Server!Send
    <3>2. [type |-> "request", client |-> c] \in Messages BY <1>1 DEF Messages, JobTypes
    <3>3. moves.jobs + Count(bus, RequestMessages) < MaxJobs
      BY <1>1, <2>1, RequestsCounted DEF Server!RequestView
    <3> QED BY <3>1, <3>2, <3>3
  <2>2. CASE Server!ClientSpeaks
    <3>1. PICK i \in DOMAIN jobs :
             \/ bus' = Append(bus, [type |-> "terminate", id |-> jobs[i].id])
             \/ \E s \in Server!JobStates, p \in Percents :
                   bus' = Append(bus, [type |-> "update", id |-> jobs[i].id, state |-> s, percent |-> p])
      BY <2>2 DEF Server!ClientSpeaks, Server!Send
    <3>2. jobs[i].id \in Nat
      <4>1. jobs \in Seq(Jobs) BY <1>1 DEF JobTypes
      <4>2. jobs[i] \in Jobs BY <4>1
      <4> QED BY <4>2 DEF Jobs
    <3>3. CASE bus' = Append(bus, [type |-> "terminate", id |-> jobs[i].id])
      <4>1. [type |-> "terminate", id |-> jobs[i].id] \in Messages BY <3>2 DEF Messages
      <4> QED BY <3>3, <4>1
    <3>4. CASE \E s \in Server!JobStates, p \in Percents :
                 bus' = Append(bus, [type |-> "update", id |-> jobs[i].id, state |-> s, percent |-> p])
      <4>1. PICK s \in Server!JobStates, p \in Percents :
               bus' = Append(bus, [type |-> "update", id |-> jobs[i].id, state |-> s, percent |-> p])
        BY <3>4
      <4>2. [type |-> "update", id |-> jobs[i].id, state |-> s, percent |-> p] \in Messages
        BY <3>2 DEF Messages
      <4> QED BY <4>1, <4>2
    <3> QED BY <3>1, <3>3, <3>4
  <2> QED BY <2>1, <2>2
<1>4. /\ bus' \in Seq(Messages) /\ \A c : Ending(c) => Ending(c)'
      /\ Carries(bus, Frees) => Carries(bus', Frees)
      /\ Count(bus', RequestMessages) = IF m.type = "request" THEN Count(bus, RequestMessages) + 1
                                        ELSE Count(bus, RequestMessages)
  BY <1>1, <1>3, BusSent
<1>5. NamesClaimed' BY <1>1, <1>4 DEF NamesClaimed, Server!Owns
<1>6. RequestsBounded' BY <1>1, <1>2, <1>3, <1>4 DEF RequestsBounded
<1>7. JobTypes' BY <1>1, <1>4 DEF JobTypes
<1>8. \A c \in Clients : c \in living \cap watched => c \in living' \/ Ending(c)' BY <1>1
<1> QED BY <1>1, <1>4, <1>5, <1>6, <1>7, <1>8, JobsAlike DEF JobTypes

(* A program dies: that is told if its name is watched.                    *)
LEMMA JobsDeath == ASSUME JobsInv, Server!ClientDies PROVE JobsInv'
<1>1. /\ JobTypes /\ NamesClaimed /\ RequestsBounded
      /\ UNCHANGED <<watched, jobs, history, owners, server, moves>>
  BY DEF JobsInv, Server!ClientDies
<1>2. PICK c \in living :
         /\ living' = living \ {c}
         /\ bus' = IF c \in watched THEN Append(bus, [type |-> "gone", client |-> c]) ELSE bus
  BY DEF Server!ClientDies
<1> DEFINE m == [type |-> "gone", client |-> c]
<1>3. m \in Messages /\ m.type = "gone" BY <1>1 DEF Messages, JobTypes
<1>4. /\ bus' \in Seq(Messages) /\ \A d : Ending(d) => Ending(d)'
      /\ Carries(bus, Frees) => Carries(bus', Frees)
      /\ Count(bus', RequestMessages) = Count(bus, RequestMessages)
      /\ c \in watched => Ending(c)'
  <2>1. CASE c \in watched
    <3>1. bus' = Append(bus, m) BY <1>2, <2>1
    <3>2. m.type # "request" BY <1>3
    <3>3. m = [type |-> "gone", client |-> c] OBVIOUS
    <3> HIDE DEF m
    <3>4. /\ bus' \in Seq(Messages) /\ \A d : Ending(d) => Ending(d)'
          /\ Carries(bus, Frees) => Carries(bus', Frees)
          /\ Count(bus', RequestMessages) = Count(bus, RequestMessages)
          /\ \A d : m = [type |-> "gone", client |-> d] => Ending(d)'
      BY <1>1, <1>3, <3>1, <3>2, BusSent
    <3>5. Ending(c)' BY <3>3, <3>4
    <3> QED BY <3>4, <3>5
  <2>2. CASE c \notin watched
    <3>1. bus' = bus BY <1>2, <2>2
    <3> QED BY <1>1, <2>2, <3>1 DEF JobTypes, Ending
  <2> QED BY <2>1, <2>2
<1>5. NamesClaimed' BY <1>1, <1>4 DEF NamesClaimed, Server!Owns
<1>6. RequestsBounded' BY <1>1, <1>4 DEF RequestsBounded
<1>7. living' \in SUBSET Clients /\ JobTypes' BY <1>1, <1>2, <1>4 DEF JobTypes
<1>8. \A d \in Clients : d \in living \cap watched => d \in living' \/ Ending(d)'
  <2> SUFFICES ASSUME NEW d \in Clients, d \in living, d \in watched, d \notin living'
               PROVE  Ending(d)'
    OBVIOUS
  <2>1. d = c BY <1>2
  <2> QED BY <1>4, <2>1
<1> QED BY <1>1, <1>4, <1>5, <1>6, <1>7, <1>8, JobsAlike DEF JobTypes

(* An entry of the history goes, or all do; the rest stays in its order.   *)
LEMMA JobsForgotten == ASSUME JobsInv, Server!RemoveJob \/ Server!ClearFinished PROVE JobsInv'
<1>1. /\ JobTypes /\ JobsOnce /\ JobsFollowed /\ JobsCounted /\ NamesClaimed /\ RequestsBounded
      /\ UNCHANGED <<living, bus, watched, jobs, owners>> /\ server' = Server!Recomputed(jobs)
      /\ moves' = [moves EXCEPT !.moves = @ + 1]
  BY DEF JobsInv, Server!RemoveJob, Server!ClearFinished, Server!Move
<1>2. moves' \in [jobs : Nat, moves : Nat] /\ moves'.jobs = moves.jobs
  <2>1. moves \in [jobs : Nat, moves : Nat] BY <1>1 DEF JobTypes
  <2>2. moves' = [moves EXCEPT !.moves = @ + 1] BY <1>1
  <2> QED BY <2>1, <2>2
<1>3. /\ history' \in Seq(Nat) /\ Len(history') <= Len(history)
      /\ \E at \in [DOMAIN history' -> DOMAIN history] :
            /\ \A n \in DOMAIN history' : history'[n] = history[at[n]]
            /\ \A n, k \in DOMAIN history' : n # k => at[n] # at[k]
  <2>1. history \in Seq(Nat) BY <1>1 DEF JobTypes
  <2>2. CASE Server!ClearFinished
    <3>1. history' = <<>> BY <2>2 DEF Server!ClearFinished
    <3>2. DOMAIN history' = {} /\ history' \in Seq(Nat) /\ Len(history') = 0 BY <3>1
    <3>3. PICK at : at = [n \in {} |-> 1] OBVIOUS
    <3>4. at \in [DOMAIN history' -> DOMAIN history] BY <3>2, <3>3
    <3>5. Len(history') <= Len(history) BY <2>1, <3>2
    <3>6. /\ \A n \in DOMAIN history' : history'[n] = history[at[n]]
          /\ \A n, k \in DOMAIN history' : n # k => at[n] # at[k]
      BY <3>2
    <3> QED BY <3>2, <3>4, <3>5, <3>6
  <2>3. CASE Server!RemoveJob
    <3>1. PICK id : history' = Server!Picked(history, {i \in DOMAIN history : history[i] # id})
      BY <2>3 DEF Server!RemoveJob
    <3> DEFINE S == {i \in DOMAIN history : history[i] # id}
               at == [n \in DOMAIN history' |-> Nth(S, n)]
    <3>2. history' = Picked(history, S) /\ S \in SUBSET DOMAIN history BY <3>1, ServerPicked
    <3> HIDE DEF S
    <3>3. /\ history' \in Seq(Nat) /\ Len(history') <= Len(history)
          /\ \A n \in DOMAIN history' : Nth(S, n) \in S /\ history'[n] = history[Nth(S, n)]
          /\ \A n, k \in DOMAIN history' : n < k => Nth(S, n) < Nth(S, k)
      BY <2>1, <3>2, PickedAt
    <3>4. at \in [DOMAIN history' -> DOMAIN history] BY <3>2, <3>3
    <3>5. \A n \in DOMAIN history' : n \in Nat /\ at[n] \in Nat /\ at[n] = Nth(S, n) BY <2>1, <3>3, <3>4
    <3>6. \A n \in DOMAIN history' : history'[n] = history[at[n]] BY <3>3, <3>5
    <3>7. \A n, k \in DOMAIN history' : n < k => at[n] < at[k] BY <3>3, <3>5
    <3> HIDE DEF at
    <3>8. \A n, k \in DOMAIN history' : n # k => at[n] # at[k] BY <3>5, <3>7
    <3> QED BY <3>3, <3>4, <3>6, <3>8
  <2> QED BY <2>2, <2>3
<1>4. PICK at \in [DOMAIN history' -> DOMAIN history] :
         /\ \A n \in DOMAIN history' : history'[n] = history[at[n]]
         /\ \A n, k \in DOMAIN history' : n # k => at[n] # at[k]
  BY <1>3
<1>5. jobs \in Seq(Jobs) BY <1>1 DEF JobTypes
<1>6. /\ Has(server', {"active", "owns", "count", "percent", "launcher"})
      /\ server'.active = server.active /\ server'.owns = server.owns
      /\ server'.launcher = <<Len(jobs), Server!MeanPercent(jobs)>>
      /\ server'.count = Len(jobs) /\ server'.percent = Server!MeanPercent(jobs)
  BY <1>1, <1>5, JobsRecounted DEF JobsCounted
<1>7. Len(history') <= kMaxFinishedHistory
  <2>1. Len(history) \in Nat /\ Len(history') \in Nat /\ kMaxFinishedHistory \in Nat
    <3>1. history \in Seq(Nat) /\ history' \in Seq(Nat) BY <1>1, <1>3 DEF JobTypes
    <3>2. Len(history) \in Nat BY <3>1
    <3>3. Len(history') \in Nat BY <3>1
    <3>4. kMaxFinishedHistory \in Nat BY BoundsAssumption
    <3> QED BY <3>2, <3>3, <3>4
  <2>2. Len(history) <= kMaxFinishedHistory BY <1>1 DEF JobTypes
  <2> QED BY <1>3, <2>1, <2>2
<1>8. JobTypes' BY <1>1, <1>2, <1>3, <1>6, <1>7 DEF JobTypes
<1>9. JobsOnce' BY <1>1, <1>2, <1>4 DEF JobsOnce
<1>10. JobsFollowed' BY <1>1 DEF JobsFollowed, Ending
<1>11. JobsCounted' BY <1>1, <1>6 DEF JobsCounted, Server!MeanPercent
<1>12. NamesClaimed' BY <1>1, <1>6 DEF NamesClaimed, Server!Owns
<1>13. RequestsBounded' BY <1>1, <1>2 DEF RequestsBounded
<1> QED BY <1>8, <1>9, <1>10, <1>11, <1>12, <1>13 DEF JobsInv

(* The server is switched off or on: a name it had is told free.           *)
LEMMA JobsSwitched == ASSUME JobsInv, Server!SetActive PROVE JobsInv'
<1>1. /\ JobTypes /\ NamesClaimed /\ RequestsBounded
      /\ UNCHANGED <<living, watched, jobs, history>> /\ moves' = [moves EXCEPT !.moves = @ + 1]
  BY DEF JobsInv, Server!SetActive, Server!Move
<1>2. moves' \in [jobs : Nat, moves : Nat] /\ moves'.jobs = moves.jobs
  <2>1. moves \in [jobs : Nat, moves : Nat] BY <1>1 DEF JobTypes
  <2>2. moves' = [moves EXCEPT !.moves = @ + 1] BY <1>1
  <2> QED BY <2>1, <2>2
<1>3. /\ Has(server, {"active", "owns", "count", "percent", "launcher"})
      /\ owners \in [Server!Names -> Server!Owners] /\ living' \in SUBSET Clients
      /\ server.active \in BOOLEAN /\ server.owns \in BOOLEAN
  BY <1>1 DEF JobTypes
<1>4. /\ owners' \in [Server!Names -> Server!Owners]
      /\ Has(server', {"active", "owns", "count", "percent", "launcher"})
      /\ server'.active \in BOOLEAN /\ server'.owns \in BOOLEAN /\ server'.launcher = server.launcher
      /\ server'.count = server.count /\ server'.percent = server.percent
      /\ bus' \in Seq(Messages) /\ \A c : Ending(c) => Ending(c)'
      /\ Count(bus', RequestMessages) = Count(bus, RequestMessages)
      /\ NamesClaimed'
  <2>1. CASE server.active /\ server.owns
    <3>1. /\ server' = [server EXCEPT !.active = FALSE, !.owns = FALSE]
          /\ owners' = [n \in Server!Names |-> "none"] /\ bus' = bus \o Server!Freed(Server!Names)
      BY <2>1 DEF Server!SetActive
    <3>2. Server!Names \in SUBSET Server!Names /\ Server!Names # {} BY DEF Server!Names
    <3>3. /\ bus' \in Seq(Messages) /\ \A c : Ending(c) => Ending(c)'
          /\ Carries(bus', Frees) /\ Count(bus', RequestMessages) = Count(bus, RequestMessages)
      BY <1>1, <3>1, <3>2, NamesFreed
    <3>4. /\ Has(server', {"active", "owns", "count", "percent", "launcher"})
          /\ server'.active = FALSE /\ server'.owns = FALSE /\ server'.launcher = server.launcher
          /\ server'.count = server.count /\ server'.percent = server.percent
      BY <1>3, <3>1 DEF Has
    <3>5. owners' \in [Server!Names -> Server!Owners] BY <3>1 DEF Server!Owners
    <3>6. \E n \in Server!Names : owners'[n] # "us" BY <3>1 DEF Server!Names
    <3>7. ~Server!Owns(owners)' BY <3>6 DEF Server!Owns
    <3>8. ~server'.owns BY <3>4
    <3>9. NamesClaimed' BY <3>3, <3>7, <3>8 DEF NamesClaimed
    <3> QED BY <3>3, <3>4, <3>5, <3>9
  <2>2. CASE server.active /\ ~server.owns
    <3>1. /\ server' = [server EXCEPT !.active = FALSE, !.owns = FALSE] /\ owners' = owners /\ bus' = bus
      BY <2>2 DEF Server!SetActive
    <3>2. /\ Has(server', {"active", "owns", "count", "percent", "launcher"})
          /\ server'.active = FALSE /\ server'.owns = FALSE /\ server'.launcher = server.launcher
          /\ server'.count = server.count /\ server'.percent = server.percent
      BY <1>3, <3>1 DEF Has
    <3>3. NamesClaimed' BY <1>1, <2>2, <3>1, <3>2 DEF NamesClaimed, Server!Owns
    <3>4. bus' \in Seq(Messages) /\ \A c : Ending(c) => Ending(c)' BY <1>1, <3>1 DEF JobTypes, Ending
    <3> QED BY <1>3, <3>1, <3>2, <3>3, <3>4
  <2>3. CASE ~server.active
    <3> DEFINE o == Server!Claimed(owners)
               owns == Server!Owns(o)
    <3>1. owners' = o /\ bus' = bus /\ server' = [server EXCEPT !.active = TRUE, !.owns = owns]
      BY <2>3 DEF Server!SetActive
    <3>2. o \in [Server!Names -> Server!Owners] /\ \A n \in Server!Names : o[n] # "none"
      BY <1>1, NamesTaken
    <3> HIDE DEF o
    <3>3. owns \in BOOLEAN /\ (owns <=> \A n \in Server!Names : o[n] = "us") BY DEF Server!Owns
    <3> HIDE DEF owns
    <3>4. /\ Has(server', {"active", "owns", "count", "percent", "launcher"})
          /\ server'.active = TRUE /\ server'.owns = owns /\ server'.launcher = server.launcher
          /\ server'.count = server.count /\ server'.percent = server.percent
      BY <1>3, <3>1 DEF Has
    <3>5. server'.owns <=> Server!Owns(owners)' BY <3>1, <3>3, <3>4 DEF Server!Owns
    <3>6. NamesClaimed' BY <3>1, <3>2, <3>5 DEF NamesClaimed
    <3>7. bus' \in Seq(Messages) /\ \A c : Ending(c) => Ending(c)' BY <1>1, <3>1 DEF JobTypes, Ending
    <3> QED BY <3>1, <3>2, <3>3, <3>4, <3>6, <3>7
  <2> QED BY <1>3, <2>1, <2>2, <2>3
<1>5. RequestsBounded' BY <1>1, <1>2, <1>4 DEF RequestsBounded
<1>6. \A c \in Clients : c \in living \cap watched => c \in living' \/ Ending(c)' BY <1>1
<1> QED BY <1>1, <1>2, <1>3, <1>4, <1>5, <1>6, JobsAlike

(* Another server comes or goes: it takes what is free, and frees it.      *)
LEMMA JobsRivalled == ASSUME JobsInv, Server!OtherServerStarts \/ Server!OtherServerEnds PROVE JobsInv'
<1>1. /\ JobTypes /\ NamesClaimed /\ RequestsBounded
      /\ UNCHANGED <<living, watched, jobs, history, server>>
      /\ moves' = [moves EXCEPT !.moves = @ + 1]
  BY DEF JobsInv, Server!OtherServerStarts, Server!OtherServerEnds, Server!Move
<1>2. moves' \in [jobs : Nat, moves : Nat] /\ moves'.jobs = moves.jobs
  <2>1. moves \in [jobs : Nat, moves : Nat] BY <1>1 DEF JobTypes
  <2>2. moves' = [moves EXCEPT !.moves = @ + 1] BY <1>1
  <2> QED BY <2>1, <2>2
<1>3. owners \in [Server!Names -> Server!Owners] BY <1>1 DEF JobTypes
<1>4. /\ owners' \in [Server!Names -> Server!Owners] /\ (Server!Owns(owners)' <=> Server!Owns(owners))
      /\ bus' \in Seq(Messages) /\ \A c : Ending(c) => Ending(c)'
      /\ Count(bus', RequestMessages) = Count(bus, RequestMessages)
      /\ (\E n \in Server!Names : owners'[n] = "none") => Carries(bus', Frees)
  <2>1. CASE Server!OtherServerStarts
    <3>1. PICK m \in Server!Names : owners[m] = "none" /\ owners' = [owners EXCEPT ![m] = "other"]
      BY <2>1 DEF Server!OtherServerStarts
    <3>2. bus' = bus BY <2>1 DEF Server!OtherServerStarts
    <3>3. /\ owners'[m] = "other" /\ \A n \in Server!Names : n # m => owners'[n] = owners[n]
          /\ owners' \in [Server!Names -> Server!Owners]
      BY <1>3, <3>1 DEF Server!Owners
    <3>4. ~Server!Owns(owners)' /\ ~Server!Owns(owners) BY <3>1, <3>3 DEF Server!Owns
    <3>5. bus' \in Seq(Messages) /\ \A c : Ending(c) => Ending(c)' BY <1>1, <3>2 DEF JobTypes, Ending
    <3>6. Carries(bus', Frees) BY <1>1, <3>1, <3>2 DEF NamesClaimed
    <3>7. Count(bus', RequestMessages) = Count(bus, RequestMessages) BY <3>2
    <3>8. Server!Owns(owners)' <=> Server!Owns(owners) BY <3>4
    <3> QED BY <3>3, <3>5, <3>6, <3>7, <3>8, Zenon
  <2>2. CASE Server!OtherServerEnds
    <3> DEFINE held == {n \in Server!Names : owners[n] = "other"}
    <3>1. /\ held # {} /\ owners' = [n \in Server!Names |-> IF n \in held THEN "none" ELSE owners[n]]
          /\ bus' = bus \o Server!Freed(held)
      BY <2>2 DEF Server!OtherServerEnds
    <3>2. PICK m \in Server!Names : owners[m] = "other" BY <3>1
    <3>3. owners'[m] = "none" /\ owners' \in [Server!Names -> Server!Owners]
      BY <1>3, <3>1, <3>2 DEF Server!Owners
    <3>4. Server!Owns(owners)' <=> Server!Owns(owners) BY <3>2, <3>3 DEF Server!Owns
    <3>5. held \in SUBSET Server!Names OBVIOUS
    <3> HIDE DEF held
    <3>6. /\ bus' \in Seq(Messages) /\ \A c : Ending(c) => Ending(c)'
          /\ Carries(bus', Frees) /\ Count(bus', RequestMessages) = Count(bus, RequestMessages)
      BY <1>1, <3>1, <3>5, NamesFreed
    <3> QED BY <3>3, <3>4, <3>6
  <2> QED BY <2>1, <2>2
<1>5. NamesClaimed' BY <1>1, <1>4 DEF NamesClaimed
<1>6. RequestsBounded' BY <1>1, <1>2, <1>4 DEF RequestsBounded
<1>7. /\ Has(server', {"active", "owns", "count", "percent", "launcher"})
      /\ server'.active \in BOOLEAN /\ server'.owns \in BOOLEAN /\ living' \in SUBSET Clients
  BY <1>1 DEF JobTypes, Has
<1>8. \A c \in Clients : c \in living \cap watched => c \in living' \/ Ending(c)' BY <1>1
<1> QED BY <1>1, <1>2, <1>4, <1>5, <1>6, <1>7, <1>8, JobsAlike

(* The invariant holds on.                                                 *)
LEMMA JobsStep == ASSUME JobsInv, Server!Next PROVE JobsInv'
  BY JobsRequested, JobsUpdated, JobsEnded, JobsFreed, JobsSpoken, JobsDeath, JobsCancelled,
     JobsForgotten, JobsSwitched, JobsRivalled DEF Server!Next, Server!Handle

(* What is claimed of the jobs follows.                                    *)
LEMMA JobsClaim == JobsInv => Server!JobsHaveClients
<1> SUFFICES ASSUME JobsInv PROVE Server!JobsHaveClients
  OBVIOUS
<1>1. JobTypes /\ JobsOnce /\ JobsFollowed /\ JobsCounted /\ NamesClaimed BY DEF JobsInv
<1>2. \A c : Ending(c) => c \in Server!Told("gone")
  <2> SUFFICES ASSUME NEW c, Ending(c) PROVE c \in Server!Told("gone")
    OBVIOUS
  <2>1. PICK i \in DOMAIN bus : bus[i] = [type |-> "gone", client |-> c] BY DEF Ending, Carries
  <2>2. bus[i].type = "gone" /\ bus[i].client = c BY <2>1
  <2> QED BY <2>2 DEF Server!Told
<1>3. \A i \in DOMAIN jobs :
         jobs[i].client \in living \/ jobs[i].client \in Server!Told("gone") \/ jobs[i].orphan
  BY <1>1, <1>2 DEF JobsFollowed
<1>4. bus = <<>> => \A n \in Server!Names : owners[n] # "none"
  BY <1>1 DEF NamesClaimed, Carries
<1>5. server.owns <=> Server!Owns(owners) BY <1>1 DEF NamesClaimed
<1> QED BY <1>1, <1>3, <1>4, <1>5 DEF JobsOnce, JobsCounted, Server!JobsHaveClients

(* And the types of the server's variables.                                *)
LEMMA JobsTyped == JobsInv => Server!TypeOK
<1> SUFFICES ASSUME JobsInv PROVE Server!TypeOK
  OBVIOUS
<1>1. JobTypes /\ JobsOnce /\ RequestsBounded BY DEF JobsInv
<1>2. moves.jobs \in Nat /\ moves.jobs <= MaxJobs /\ MaxJobs \in Nat
  <2>1. bus \in Seq(Messages) /\ moves.jobs \in Nat
    <3>1. bus \in Seq(Messages) /\ moves \in [jobs : Nat, moves : Nat] BY <1>1 DEF JobTypes
    <3> QED BY <3>1
  <2>2. Count(bus, RequestMessages) \in Nat BY <2>1, CountIsNumber
  <2>3. moves.jobs + Count(bus, RequestMessages) <= MaxJobs BY <1>1 DEF RequestsBounded
  <2>4. MaxJobs \in Nat BY BoundsAssumption
  <2> QED BY <2>1, <2>2, <2>3, <2>4
<1>3. \A i \in DOMAIN jobs : /\ jobs[i].state \in Server!JobStates /\ jobs[i].id \in 1 .. MaxJobs
                             /\ jobs[i].percent \in Percents \cup {0}
  <2>1. jobs \in Seq(Jobs) BY <1>1 DEF JobTypes
  <2>2. \A i \in DOMAIN jobs : jobs[i] \in Jobs BY <2>1
  <2>3. \A i \in DOMAIN jobs : /\ jobs[i].state \in Server!JobStates /\ jobs[i].id \in Nat
                               /\ jobs[i].percent \in Percents \cup {0}
    BY <2>2 DEF Jobs
  <2>4. \A i \in DOMAIN jobs : jobs[i].id <= moves.jobs /\ jobs[i].id # 0 BY <1>1 DEF JobsOnce
  <2> QED BY <1>2, <2>3, <2>4
<1>4. \A i \in DOMAIN history : history[i] \in 1 .. MaxJobs
  <2>1. \A i \in DOMAIN history : history[i] \in Nat BY <1>1 DEF JobTypes
  <2>2. \A i \in DOMAIN history : history[i] <= moves.jobs /\ history[i] # 0 BY <1>1 DEF JobsOnce
  <2> QED BY <1>2, <2>1, <2>2
<1> QED BY <1>1, <1>3, <1>4 DEF JobTypes, Server!TypeOK

(* Every reachable state satisfies the invariant of the jobs.              *)
LEMMA JobsAlways == Spec => []JobsInv
<1>1. Init => JobsInv BY JobsInit DEF Init
<1>2. JobsInv /\ [Next]_vars => JobsInv'
  <2> SUFFICES ASSUME JobsInv, [Next]_vars PROVE JobsInv'
    OBVIOUS
  <2>1. CASE UNCHANGED jobVars
    <3>1. UNCHANGED <<living, bus, watched, jobs, history, owners, server, moves>> BY <2>1 DEF jobVars
    <3>2. JobTypes' BY <3>1 DEF JobsInv, JobTypes
    <3>3. JobsOnce' /\ RequestsBounded' BY <3>1 DEF JobsInv, JobsOnce, RequestsBounded
    <3>4. JobsFollowed' BY <3>1 DEF JobsInv, JobsFollowed, Ending
    <3>5. JobsCounted' BY <3>1 DEF JobsInv, JobsCounted, Server!MeanPercent
    <3>6. NamesClaimed' BY <3>1 DEF JobsInv, NamesClaimed, Server!Owns
    <3> QED BY <3>2, <3>3, <3>4, <3>5, <3>6 DEF JobsInv
  <2>2. Server!Next \/ UNCHANGED jobVars
    BY DEF Next, vars, OnlyLists, OnlyTree, OnlyTop, OnlyPrivacy, OnlyJobs, OnlyWindows,
           OnlyPower, jobVars
  <2> QED BY <2>1, <2>2, JobsStep
<1> QED BY <1>1, <1>2, PTL DEF Spec

(* A job shown as running has a client that runs, or one whose end is about *)
(* to be told, for any number of programs and jobs; it is in one list, the  *)
(* counts are those of the list, and no name is left unclaimed for good.    *)
THEOREM JobsAlwaysFollowed == Spec => []Server!JobsHaveClients
  BY JobsAlways, JobsClaim, PTL

(* What the user ordered has been done when it is said to be: the tree has *)
(* acted on its signal, and the machine reboots into Windows.              *)
THEOREM ActionsAlwaysHonest == Spec => []ActionsHonest
  BY SignalsActedOn, RebootsHonest, PTL DEF ActionsHonest

(* What is shown of another process follows its life: a job that of its    *)
(* client, the windows those of KWin, the indicator a program that records. *)
THEOREM PeersAlwaysShown == Spec => []PeersShown
  BY JobsAlwaysFollowed, WindowsAlwaysTracked, MicrophoneAlwaysShown, PTL DEF PeersShown

-----------------------------------------------------------------------------
(* The types of the variables.                                             *)

(* The microphone's variables have their types; what is left to be read    *)
(* was printed by a process that runs.                                     *)
LEMMA PrivacyTyped == PrivacyInv => Privacy!TypeOK
<1> SUFFICES ASSUME PrivacyInv PROVE Privacy!TypeOK
  OBVIOUS
<1>1. PrivacyTypes /\ GraphFollows BY DEF PrivacyInv
<1>2. /\ audio.stream \in Privacy!Streams /\ audio.link \in Privacy!Links
      /\ audio.alsa \in Privacy!Captures
  BY <1>1 DEF PrivacyTypes
<1>3. audio.printed = <<>> \/ dumper.process = "runs" BY <1>1 DEF GraphFollows
<1>4. /\ dumper.process \in {"none", "starting", "runs", "dead"} /\ dumper.timers \subseteq Privacy!Timers
      /\ dumper.graph.stream \in Privacy!Streams /\ dumper.graph.link \in Privacy!Links
  BY <1>1 DEF PrivacyTypes, Workers, Graphs
<1>5. \A i \in 1 .. Len(orders) : orders[i] \in {"start", "stop", "sample"}
  BY <1>1 DEF PrivacyTypes, Orders
<1>6. \A i \in 1 .. Len(news) : news[i] \in BOOLEAN BY <1>1 DEF PrivacyTypes
<1>7. {indicator.running, indicator.mic} \subseteq BOOLEAN BY <1>1 DEF PrivacyTypes
<1> QED BY <1>2, <1>3, <1>4, <1>5, <1>6, <1>7 DEF Privacy!TypeOK

(* So have those of the tree that is signalled.                            *)
LEMMA TreeTyped == TreeInv => Tree!TypeOK
<1> SUFFICES ASSUME TreeInv PROVE Tree!TypeOK
  OBVIOUS
<1>1. TreeTypes BY DEF TreeInv
<1>2. live \in [Numbers -> [parent : Numbers \cup {0, 1}, stopped : BOOLEAN, term : BOOLEAN]]
  <2>1. Procs \subseteq [parent : Numbers \cup {0, 1}, stopped : BOOLEAN, term : BOOLEAN]
    <3>1. [parent : Numbers \cup {1}, stopped : BOOLEAN, term : BOOLEAN] \subseteq
             [parent : Numbers \cup {0, 1}, stopped : BOOLEAN, term : BOOLEAN]
      OBVIOUS
    <3>2. Tree!NoOne \in [parent : Numbers \cup {0, 1}, stopped : BOOLEAN, term : BOOLEAN]
      BY DEF Tree!NoOne
    <3> QED BY <3>1, <3>2 DEF Procs
  <2> QED BY <1>1, <2>1 DEF TreeTypes
<1>3. others.steps \in 0 .. MaxOthers /\ others.touched \subseteq Numbers
  BY <1>1 DEF TreeTypes
<1>4. Tree!Range(kill.targets) \subseteq Numbers
  <2>1. kill.targets \in Seq(Numbers) BY <1>1 DEF TreeTypes
  <2> QED BY <2>1 DEF Tree!Range
<1>5. /\ kill.phase \in {"reading", "continuing", "signalling", "waiting", "returned"}
      /\ DOMAIN kill.parent \subseteq Numbers /\ kill.stopped \subseteq DOMAIN kill.parent
      /\ kill.tries \in 0 .. MaxAttempts
  BY <1>1 DEF TreeTypes
<1> QED BY <1>2, <1>3, <1>4, <1>5 DEF Tree!TypeOK

\* What the sampler's thread and the popup hold; a sample starts no more tasks than
\* there are threads.
Errands == {"start", "stop", "kill", "sample"}
SampleBounds ==
    /\ sampler \in [queue : Seq(Errands), timer : BOOLEAN, late : Nat]
    /\ window \in [running : BOOLEAN, opened : Nat, samples : 0 .. MaxSamples, shown : BOOLEAN, ready : Nat]
    /\ sample.total <= MaxToRead /\ sample.workers <= Cardinality(Threads)

(* A sample that begins keeps them.                                        *)
LEMMA SampleBegins ==
    ASSUME PoolTypes, SampleBounds, NEW total \in 0 .. MaxToRead, Top!Begin(total),
           sampler' \in [queue : Seq(Errands), timer : BOOLEAN, late : Nat]
    PROVE  SampleBounds'
<1> DEFINE n == Top!Least(Top!Cardinality(Threads), total)
<1>1. Cardinality(Threads) \in Nat /\ MaxToRead \in Nat /\ MaxSamples \in Nat
  BY ThreadsAssumption, FS_CardinalityType, BoundsAssumption
<1>2. n <= Cardinality(Threads) BY <1>1, SameCardinality DEF Top!Least
<1>3. /\ sample' = [phase |-> IF total = 0 THEN "counted" ELSE "queued", total |-> total,
                    workers |-> n, nextIndex |-> 0, completed |-> 0, read |-> {}]
      /\ window.samples < MaxSamples /\ window' = [window EXCEPT !.samples = @ + 1]
  BY DEF Top!Begin
<1> HIDE DEF n
<1>4. sample'.total <= MaxToRead /\ sample'.workers <= Cardinality(Threads) BY <1>1, <1>2, <1>3
<1>5. window' \in [running : BOOLEAN, opened : Nat, samples : 0 .. MaxSamples, shown : BOOLEAN,
                   ready : Nat]
  <2>1. window.samples + 1 \in 0 .. MaxSamples BY <1>1, <1>3 DEF SampleBounds
  <2> QED BY <1>3, <2>1 DEF SampleBounds
<1> QED BY <1>4, <1>5 DEF SampleBounds

(* So does every other step.                                               *)
LEMMA SampleBounded ==
    ASSUME PoolTypes, SampleBounds, Top!Next
    PROVE  SampleBounds'
<1>0. /\ sampler \in [queue : Seq(Errands), timer : BOOLEAN, late : Nat]
      /\ window \in [running : BOOLEAN, opened : Nat, samples : 0 .. MaxSamples, shown : BOOLEAN,
                     ready : Nat]
      /\ sample.total <= MaxToRead /\ sample.workers <= Cardinality(Threads)
  BY DEF SampleBounds
<1>1. Cardinality(Threads) \in Nat /\ MaxToRead \in Nat
  BY ThreadsAssumption, FS_CardinalityType, BoundsAssumption
<1>2. sampler.queue # <<>> => Tail(sampler.queue) \in Seq(Errands)
  <2>1. \A q \in Seq(Errands) : q # <<>> => Tail(q) \in Seq(Errands) OBVIOUS
  <2> QED BY <1>0, <2>1
<1>3. CASE Top!User
  <2>1. PICK r \in Errands : sampler' = [sampler EXCEPT !.queue = Append(@, r)]
    BY <1>3 DEF Top!User, Top!SetRunning, Top!Ask, Errands
  <2>2. Append(sampler.queue, r) \in Seq(Errands)
    <3>1. \A q \in Seq(Errands) : Append(q, r) \in Seq(Errands) OBVIOUS
    <3> QED BY <1>0, <3>1
  <2>3. sampler' \in [queue : Seq(Errands), timer : BOOLEAN, late : Nat] BY <1>0, <2>1, <2>2
  <2>4. window' \in [running : BOOLEAN, opened : Nat, samples : 0 .. MaxSamples, shown : BOOLEAN,
                     ready : Nat]
    <3> DEFINE other == ~window.running
    <3>1. \/ window' = [window EXCEPT !.running = other, !.opened = @ + 1]
          \/ window' = [window EXCEPT !.opened = @ + 1]
      BY <1>3 DEF Top!User, Top!SetRunning, Top!Ask
    <3>2. window.opened + 1 \in Nat BY <1>0
    <3>3. other \in BOOLEAN OBVIOUS
    <3> HIDE DEF other
    <3> QED BY <1>0, <3>1, <3>2, <3>3
  <2>5. sample' = sample BY <1>3 DEF Top!User, Top!SetRunning, Top!Ask
  <2> QED BY <1>0, <2>3, <2>4, <2>5 DEF SampleBounds
<1>4. CASE Top!OnDataReady
  <2>1. window.ready - 1 \in Nat BY <1>0, <1>4 DEF Top!OnDataReady
  <2>2. window' = [window EXCEPT !.ready = @ - 1, !.shown = TRUE] /\ UNCHANGED <<sampler, sample>>
    BY <1>4 DEF Top!OnDataReady
  <2> QED BY <1>0, <2>1, <2>2 DEF SampleBounds
<1>5. CASE Top!Start
  <2>1. sampler' = [sampler EXCEPT !.queue = Tail(@), !.timer = TRUE] /\ sampler.queue # <<>>
    BY <1>5 DEF Top!Start
  <2>2. sampler' \in [queue : Seq(Errands), timer : BOOLEAN, late : Nat] BY <1>0, <1>2, <2>1
  <2>3. UNCHANGED <<sample, window>> \/ \E total \in 0 .. MaxToRead : Top!Begin(total)
    BY <1>5 DEF Top!Start
  <2>4. CASE UNCHANGED <<sample, window>> BY <1>0, <2>2, <2>4 DEF SampleBounds
  <2> QED BY <2>2, <2>3, <2>4, SampleBegins
<1>6. CASE Top!Stop
  <2>1. /\ sampler' = [sampler EXCEPT !.queue = Tail(@), !.timer = FALSE] /\ sampler.queue # <<>>
        /\ UNCHANGED <<sample, window>>
    BY <1>6 DEF Top!Stop
  <2>2. sampler' \in [queue : Seq(Errands), timer : BOOLEAN, late : Nat] BY <1>0, <1>2, <2>1
  <2> QED BY <1>0, <2>1, <2>2 DEF SampleBounds
<1>7. CASE Top!Refresh
  <2>1. sampler' = [sampler EXCEPT !.queue = Tail(@)] /\ sampler.queue # <<>>
    BY <1>7 DEF Top!Refresh
  <2>2. sampler' \in [queue : Seq(Errands), timer : BOOLEAN, late : Nat] BY <1>0, <1>2, <2>1
  <2>3. \E total \in 0 .. MaxToRead : Top!Begin(total) BY <1>7 DEF Top!Refresh
  <2> QED BY <2>2, <2>3, SampleBegins
<1>8. CASE Top!KillProcess
  <2>1. /\ sampler' = [sampler EXCEPT !.queue = Tail(@), !.late = @ + 1] /\ sampler.queue # <<>>
        /\ UNCHANGED <<sample, window>>
    BY <1>8 DEF Top!KillProcess
  <2>2. sampler.late + 1 \in Nat BY <1>0
  <2>3. sampler' \in [queue : Seq(Errands), timer : BOOLEAN, late : Nat] BY <1>0, <1>2, <2>1, <2>2
  <2> QED BY <1>0, <2>1, <2>3 DEF SampleBounds
<1>9. CASE Top!LateSample
  <2>1. sampler' = [sampler EXCEPT !.late = @ - 1] /\ sampler.late - 1 \in Nat
    BY <1>0, <1>9 DEF Top!LateSample
  <2>2. sampler' \in [queue : Seq(Errands), timer : BOOLEAN, late : Nat] BY <1>0, <2>1
  <2>3. \E total \in 0 .. MaxToRead : Top!Begin(total) BY <1>9 DEF Top!LateSample
  <2> QED BY <2>2, <2>3, SampleBegins
<1>10. CASE Top!Tick
  <2>1. sampler' = sampler BY <1>10 DEF Top!Tick
  <2>2. \E total \in 0 .. MaxToRead : Top!Begin(total) BY <1>10 DEF Top!Tick
  <2> QED BY <1>0, <2>1, <2>2, SampleBegins
<1>11. CASE Top!Send
  <2>1. /\ sample' = Top!NoSample /\ window' = [window EXCEPT !.ready = @ + 1]
        /\ sampler' = sampler
    BY <1>11 DEF Top!Send
  <2>2. sample'.total <= MaxToRead /\ sample'.workers <= Cardinality(Threads)
    BY <1>1, <2>1 DEF Top!NoSample
  <2> QED BY <1>0, <2>1, <2>2 DEF SampleBounds
<1>12. CASE \/ Top!Lock \/ Top!CheckDone \/ Top!Block \/ Top!SpuriousWakeup
            \/ \E t \in Threads : Top!PoolThread(t)
  <2>1. sampler' = sampler /\ window' = window
    BY <1>12 DEF Top!Lock, Top!CheckDone, Top!Block, Top!SpuriousWakeup, Top!PoolThread, Top!TakeTask,
       Top!Claim, Top!ReadMemory, Top!Complete, Top!Notify, Top!NotifyTooLate
  <2>2. sample'.total = sample.total /\ sample'.workers = sample.workers
    BY <1>12 DEF PoolTypes, Top!Lock, Top!CheckDone, Top!Block, Top!SpuriousWakeup, Top!PoolThread,
       Top!TakeTask, Top!Claim, Top!ReadMemory, Top!Complete, Top!Notify, Top!NotifyTooLate
  <2> QED BY <1>0, <2>1, <2>2 DEF SampleBounds
<1> QED BY <1>3, <1>4, <1>5, <1>6, <1>7, <1>8, <1>9, <1>10, <1>11, <1>12
        DEF Top!Next, Top!SamplerThread

(* With these bounds the pool's and the sample's variables have their types. *)
LEMMA SampleTyped == PoolInv /\ SampleBounds => Top!TypeOK
<1> SUFFICES ASSUME PoolInv, SampleBounds PROVE Top!TypeOK
  OBVIOUS
<1>1. PoolTypes /\ TasksCounted /\ IndicesClaimed BY DEF PoolInv
<1>2. /\ Cardinality(Threads) \in Nat /\ MaxToRead \in Nat /\ Cardinality(Busy) \in Nat
      /\ Top!Cardinality(Threads) = Cardinality(Threads)
  BY ThreadsAssumption, FS_CardinalityType, BoundsAssumption, BusyFinite, SameCardinality
<1>3. pool.tasks \in 0 .. Top!Cardinality(Threads) /\ sample.completed \in 0 .. sample.workers
  <2>1. /\ pool.tasks \in Nat /\ sample.completed \in Nat /\ sample.workers \in Nat
        /\ pool.tasks + Cardinality(Busy) + sample.completed = sample.workers
        /\ sample.workers <= Cardinality(Threads)
    BY <1>1 DEF PoolTypes, TasksCounted, SampleBounds
  <2> QED BY <1>2, <2>1
<1>4. sample.read \subseteq 0 .. (MaxToRead - 1)
  <2>1. sample.total \in Nat /\ sample.total <= MaxToRead BY <1>1 DEF PoolTypes, SampleBounds
  <2>2. sample.read \subseteq 0 .. (sample.total - 1) BY <1>1 DEF IndicesClaimed
  <2> QED BY <1>2, <2>1, <2>2
<1>5. /\ \A t \in Threads : pool.threads[t] \in ThreadStates
      /\ sample.phase \in Waits
  BY <1>1 DEF PoolTypes
<1>6. /\ sampler.queue \in Seq({"start", "stop", "kill", "sample"}) /\ sampler.timer \in BOOLEAN
      /\ window.running \in BOOLEAN /\ window.samples \in 0 .. MaxSamples
  BY DEF SampleBounds, Errands
<1> QED BY <1>3, <1>4, <1>5, <1>6 DEF Top!TypeOK, ThreadStates, Waits

\* No more scripts of actions than actions, and no more instances than there may be.
WindowBounds ==
    /\ lived \in [lives : Nat, actions : 0 .. MaxActions]
    /\ manager.instances <= MaxInstances /\ manager.actions <= lived.actions

(* Every step keeps these bounds.                                          *)
LEMMA WindowsBounded ==
    ASSUME WindowTypes, WindowTypes', WindowBounds, Windows!Next
    PROVE  WindowBounds'
<1>0. /\ manager \in [instances : Nat, id : BOOLEAN, file : BOOLEAN, model : {0, 1, 2},
                      actions : Nat, slipped : BOOLEAN]
      /\ lived \in [lives : Nat, actions : 0 .. MaxActions]
      /\ manager.instances <= MaxInstances /\ manager.actions <= lived.actions
      /\ MaxActions \in Nat /\ MaxInstances \in Nat
  BY BoundsAssumption DEF WindowTypes, WindowBounds
<1>1. manager'.instances \in Nat /\ manager'.actions \in Nat BY DEF WindowTypes
<1>2. CASE \/ Windows!LoadTracker \/ Windows!RunTracker \/ Windows!UnloadTracker
           \/ Windows!ServeAction \/ Windows!OnActionRan
  <2>1. manager' = manager /\ lived' = lived
    BY <1>2 DEF Windows!LoadTracker, Windows!RunTracker, Windows!UnloadTracker,
       Windows!ServeAction, Windows!OnActionRan
  <2> QED BY <1>0, <2>1 DEF WindowBounds
<1>3. CASE Windows!WindowsChange
  <2>1. manager' = manager /\ lived.actions < MaxActions /\ lived' = [lived EXCEPT !.actions = @ + 1]
    BY <1>3 DEF Windows!WindowsChange
  <2> QED BY <1>0, <2>1 DEF WindowBounds
<1>4. CASE Windows!Create
  <2>1. /\ lived' = [lived EXCEPT !.lives = @ + 1] /\ manager.instances < MaxInstances
        /\ \/ manager' = [manager EXCEPT !.instances = @ + 1]
           \/ manager' = [[manager EXCEPT !.instances = @ + 1] EXCEPT !.file = TRUE]
           \/ manager' = [[manager EXCEPT !.instances = @ + 1] EXCEPT !.file = FALSE, !.slipped = TRUE]
    BY <1>4 DEF Windows!Create
  <2>2. manager'.instances = manager.instances + 1 /\ manager'.actions = manager.actions
    BY <1>0, <2>1
  <2>3. lived' \in [lives : Nat, actions : 0 .. MaxActions] /\ lived'.actions = lived.actions
    BY <1>0, <2>1
  <2> QED BY <1>0, <2>1, <2>2, <2>3 DEF WindowBounds
<1>5. CASE Windows!Destroy
  <2>1. /\ lived' = lived
        /\ manager'.actions = manager.actions
        /\ manager'.instances = manager.instances - 1 \/ manager'.instances = 0
    BY <1>0, <1>5 DEF Windows!Destroy
  <2>2. manager'.instances <= MaxInstances BY <1>0, <2>1
  <2> QED BY <1>0, <2>1, <2>2 DEF WindowBounds
<1>6. CASE Windows!OnTrackerLoaded \/ Windows!OnWindows
  <2>1. /\ lived' = lived /\ manager'.actions = manager.actions
        /\ manager'.instances = manager.instances
    BY <1>0, <1>6 DEF Windows!OnTrackerLoaded, Windows!OnWindows
  <2> QED BY <1>0, <2>1 DEF WindowBounds
<1>7. CASE Windows!DispatchAction
  <2>1. /\ lived.actions < MaxActions /\ lived' = [lived EXCEPT !.actions = @ + 1]
        /\ manager' = [manager EXCEPT !.actions = @ + 1]
    BY <1>7 DEF Windows!DispatchAction
  <2>2. /\ manager'.instances = manager.instances /\ manager'.actions = manager.actions + 1
        /\ lived'.actions = lived.actions + 1
        /\ lived' \in [lives : Nat, actions : 0 .. MaxActions]
    BY <1>0, <2>1
  <2> QED BY <1>0, <2>1, <2>2 DEF WindowBounds
<1>8. CASE Windows!OnActionLoaded \/ Windows!OnActionUnloaded
  <2>1. lived' = lived /\ (manager' = manager \/ manager' = [manager EXCEPT !.actions = @ - 1])
    BY <1>8 DEF Windows!OnActionLoaded, Windows!OnActionUnloaded
  <2>2. manager'.instances = manager.instances /\ manager'.actions <= manager.actions
    BY <1>0, <2>1
  <2> QED BY <1>0, <1>1, <2>1, <2>2 DEF WindowBounds
<1> QED BY <1>2, <1>3, <1>4, <1>5, <1>6, <1>7, <1>8 DEF Windows!Next

(* With these bounds the manager's variables have their types.             *)
LEMMA WindowsTyped == WindowTypes /\ WindowBounds => Windows!TypeOK
<1> SUFFICES ASSUME WindowTypes, WindowBounds PROVE Windows!TypeOK
  OBVIOUS
<1>1. MaxInstances \in Nat /\ MaxActions \in Nat BY BoundsAssumption
<1>2. /\ kwin.script \in {"none", "loaded", "running"} /\ kwin.windows \in {1, 2}
      /\ manager.instances \in Nat /\ manager.actions \in Nat
      /\ manager.model \in {Windows!NoModel, 1, 2}
  BY DEF WindowTypes, Windows!NoModel
<1>3. manager.instances \in 0 .. MaxInstances /\ manager.actions \in 0 .. MaxActions
  <2>1. manager.instances <= MaxInstances /\ manager.actions <= lived.actions
        /\ lived.actions \in 0 .. MaxActions
    BY DEF WindowBounds
  <2> QED BY <1>1, <1>2, <2>1
<1>4. \A i \in DOMAIN toKWin : toKWin[i].script \in Windows!Scripts
  <2>1. \A i \in DOMAIN toKWin : toKWin[i] \in Calls BY DEF WindowTypes
  <2> QED BY <2>1 DEF Calls
<1> QED BY <1>2, <1>3, <1>4 DEF Windows!TypeOK

\* A reboot that is asked for starts sudo, and each sudo at most two pkexecs; the calls
\* are of logind's methods.
PowerBounds ==
    /\ requests \in Nat /\ requests <= MaxRequests
    /\ 2 * tools.sudo + tools.pkexec <= 2 * requests
    /\ \A c \in logind.calls : c[1] \in Power!Methods

(* A call to logind is of one of its methods.                              *)
LEMMA CallNamed ==
    ASSUME PowerTypes, PowerBounds, NEW p, NEW m \in Power!Methods, Power!Call(p, m)
    PROVE  \A c \in logind'.calls : c[1] \in Power!Methods
<1>1. \/ logind' = [logind EXCEPT !.calls = @ \cup {<<m, logind.sent>>}, !.sent = @ + 1]
      \/ logind' = logind
  BY DEF Power!Call
<1>2. logind'.calls \subseteq logind.calls \cup {<<m, logind.sent>>}
  BY <1>1 DEF PowerTypes
<1>3. <<m, logind.sent>>[1] = m OBVIOUS
<1> QED BY <1>2, <1>3 DEF PowerBounds

(* Every step keeps the bounds.                                            *)
LEMMA PowerBounded ==
    ASSUME PowerTypes, PowerBounds, Power!Next
    PROVE  PowerBounds'
<1>0. /\ requests \in Nat /\ requests <= MaxRequests /\ MaxRequests \in Nat
      /\ 2 * tools.sudo + tools.pkexec <= 2 * requests
      /\ \A c \in logind.calls : c[1] \in Power!Methods
      /\ tools.sudo \in Nat /\ tools.pkexec \in Nat
  BY BoundsAssumption, ToolNumbers DEF PowerBounds
<1>1. CASE Power!RefreshBootEntries \/ Power!ListEnds
  <2>1. /\ logind' = logind /\ tools'.sudo = tools.sudo /\ tools'.pkexec = tools.pkexec
        /\ requests' = requests \/ (requests < MaxRequests /\ requests' = requests + 1)
    BY <1>1 DEF PowerTypes, Power!RefreshBootEntries, Power!ListEnds, Power!Requested
  <2> QED BY <1>0, <2>1 DEF PowerBounds
<1>2. CASE Power!RequestMethod
  <2>1. PICK m \in Power!Methods : Power!Call(power, m) BY <1>2 DEF Power!RequestMethod
  <2>2. requests < MaxRequests /\ requests' = requests + 1 /\ tools' = tools
    BY <1>2 DEF Power!RequestMethod, Power!Requested
  <2>3. \A c \in logind'.calls : c[1] \in Power!Methods BY <2>1, CallNamed
  <2> QED BY <1>0, <2>2, <2>3 DEF PowerBounds
<1>3. CASE Power!LogindAnswers
  <2>1. logind'.calls \subseteq logind.calls /\ tools' = tools /\ requests' = requests
    BY <1>3 DEF PowerTypes, Power!LogindAnswers
  <2> QED BY <1>0, <2>1 DEF PowerBounds
<1>4. CASE Power!RequestRebootToWindows
  <2>1. /\ requests < MaxRequests /\ requests' = requests + 1 /\ logind' = logind
        /\ tools' = tools \/ tools' = [tools EXCEPT !.sudo = @ + 1]
    BY <1>4 DEF Power!RequestRebootToWindows, Power!Requested
  <2>2. /\ tools'.pkexec = tools.pkexec
        /\ tools'.sudo = tools.sudo \/ tools'.sudo = tools.sudo + 1
    BY <2>1 DEF PowerTypes
  <2> QED BY <1>0, <2>1, <2>2 DEF PowerBounds
<1>5. ASSUME NEW tool \in {"sudo", "pkexec"}, Power!Succeeds(tool) PROVE PowerBounds'
  <2>1. /\ tools[tool] > 0 /\ tools' = [tools EXCEPT ![tool] = @ - 1] /\ requests' = requests
        /\ Power!Call([power EXCEPT !.rebooting = TRUE], "Reboot")
    BY <1>5 DEF Power!Succeeds
  <2>2. \/ tools'.sudo = tools.sudo /\ tools'.pkexec = tools.pkexec - 1
        \/ tools'.sudo = tools.sudo - 1 /\ tools'.pkexec = tools.pkexec
    BY <2>1 DEF PowerTypes
  <2>3. "Reboot" \in Power!Methods BY DEF Power!Methods
  <2>4. \A c \in logind'.calls : c[1] \in Power!Methods BY <2>1, <2>3, CallNamed
  <2> QED BY <1>0, <2>1, <2>2, <2>4 DEF PowerBounds
<1>6. CASE Power!SudoFails
  <2>1. PICK started \in {1, 2} :
           tools' = [tools EXCEPT !.sudo = @ - 1, !.pkexec = @ + started]
    BY <1>6 DEF Power!SudoFails
  <2>2. logind' = logind /\ requests' = requests BY <1>6 DEF Power!SudoFails
  <2>3. tools'.sudo = tools.sudo - 1 /\ tools'.pkexec = tools.pkexec + started
    BY <2>1 DEF PowerTypes
  <2> QED BY <1>0, <2>2, <2>3 DEF PowerBounds
<1>7. CASE Power!PkexecFails
  <2>1. /\ tools' = [tools EXCEPT !.pkexec = @ - 1] /\ logind' = logind /\ requests' = requests
    BY <1>7 DEF Power!PkexecFails
  <2>2. tools'.sudo = tools.sudo /\ tools'.pkexec = tools.pkexec - 1 BY <2>1 DEF PowerTypes
  <2> QED BY <1>0, <2>1, <2>2 DEF PowerBounds
<1> QED BY <1>1, <1>2, <1>3, <1>4, <1>5, <1>6, <1>7 DEF Power!Next

(* With these bounds the manager's variables have their types.             *)
LEMMA PowerTyped == PowerTypes /\ PowerBounds => Power!TypeOK
<1> SUFFICES ASSUME PowerTypes, PowerBounds PROVE Power!TypeOK
  OBVIOUS
<1>1. /\ requests \in Nat /\ requests <= MaxRequests /\ MaxRequests \in Nat
      /\ 2 * tools.sudo + tools.pkexec <= 2 * requests
      /\ \A c \in logind.calls : c[1] \in Power!Methods
      /\ tools.sudo \in Nat /\ tools.pkexec \in Nat
  BY BoundsAssumption, ToolNumbers DEF PowerBounds
<1>2. tools.sudo \in 0 .. 2 * MaxRequests /\ tools.pkexec \in 0 .. 2 * MaxRequests BY <1>1
<1>3. /\ firmware \in [entry : BOOLEAN, next : BOOLEAN] /\ tools.list \in BOOLEAN
      /\ power \in [entry : BOOLEAN, rebooting : BOOLEAN, told : BOOLEAN, asked : BOOLEAN]
  BY DEF PowerTypes
<1> QED BY <1>1, <1>2, <1>3 DEF Power!TypeOK
\* What the user may still do, and how old the machine's data can be; every list has
\* the type of one.
ListBounds ==
    /\ command \in [waits : BOOLEAN, used : 0 .. MaxCommands]
    /\ machine.steps \in 0 .. MaxProcessSteps /\ machine.signals \in 0 .. machine.steps
    /\ \A k \in Kinds : machine.version[k] <= machine.steps + 1
    /\ Lists!ListType(scanner.read)
    /\ \A k \in Kinds : Lists!ListType(lists[k].cached) /\ {lists[k].dirty, lists[k].pending} \subseteq BOOLEAN

\* The machine has stayed, told of a change, or changed.
MachineSteps ==
    \/ machine' = machine
    \/ /\ machine.signals > 0 /\ machine'.signals = machine.signals - 1
       /\ machine'.steps = machine.steps /\ machine'.version = machine.version
    \/ /\ machine.steps < MaxProcessSteps /\ machine'.steps = machine.steps + 1
       /\ machine'.signals \in {machine.signals, machine.signals + 1}
       /\ \E k \in Kinds : machine'.version = Lists!Changed(k)

(* A row of a tree is of its processes.                                    *)
LEMMA RowsTyped ==
    ASSUME NEW t, Climbable(t)
    PROVE  \A g \in Lists!Groups(t, Lists!Ascending(Lists!Alive(t))) :
              g.pid \in Pids /\ g.members \subseteq Pids /\ g.paused \in BOOLEAN
<1> DEFINE A == Lists!Alive(t)
           Under(r) == {p \in A : Lists!TopAncestor(t, p) = r}
           R == {Lists!TopAncestor(t, p) : p \in A}
           order == Lists!Ascending(A)
           groups == Lists!Groups(t, order)
<1>1. A \subseteq Pids BY AliveAt
<1>2. R \subseteq Pids
  <2>1. PICK top : TopsOf(t, top) /\ \A p \in A : Lists!TopAncestor(t, p) = RootIn(t, top, p)
    BY TopsExist
  <2>2. \A p \in A : RootIn(t, top, p) \in A BY <2>1 DEF RootIn, TopsOf
  <2> HIDE DEF A
  <2> QED BY <1>1, <2>1, <2>2
<1>3. {[pid |-> g.pid, members |-> g.members] : g \in groups} =
         {[pid |-> r, members |-> Under(r)] : r \in R}
  BY RowsMade DEF RowsOf
<1>4. \A g \in groups : g.paused \in BOOLEAN
  <2> DEFINE root == Lists!Roots(t, order)
             Members(r) == Lists!Picked(order, {i \in DOMAIN order : root[order[i]] = r})
             paused(r) == \E p \in {r} \cup Lists!Range(Tail(Members(r))) : t[p].stopped
             row(r) == [pid |-> r, members |-> Lists!Range(Members(r)), paused |-> paused(r)]
  <2>1. groups = {row(r) : r \in Lists!Range(root)} BY DEF Lists!Groups
  <2>2. \A r : paused(r) \in BOOLEAN OBVIOUS
  <2> HIDE DEF groups, root, Members, paused
  <2> QED BY <2>1, <2>2
<1>5. \A r \in R : Under(r) \subseteq Pids BY <1>1
<1> HIDE DEF groups, order, A, R, Under
<1>6. ASSUME NEW g \in groups PROVE g.pid \in Pids /\ g.members \subseteq Pids
  <2>1. [pid |-> g.pid, members |-> g.members] \in {[pid |-> r, members |-> Under(r)] : r \in R}
    BY <1>3
  <2>2. PICK r \in R : [pid |-> g.pid, members |-> g.members] = [pid |-> r, members |-> Under(r)]
    BY <2>1
  <2>3. g.pid = r /\ g.members = Under(r) BY <2>2
  <2> QED BY <1>2, <1>5, <2>3
<1> QED BY <1>4, <1>6 DEF groups, order, A

(* No list has been read at first.                                         *)
LEMMA NoListTyped == Lists!ListType(Lists!NoList)
<1>1. MaxProcessSteps \in Nat BY BoundsAssumption
<1> QED BY <1>1 DEF Lists!ListType, Lists!NoList

(* The machine keeps its bounds.                                           *)
LEMMA MachineBounded ==
    ASSUME ListTypes, ListBounds, MachineSteps
    PROVE  /\ machine'.steps \in 0 .. MaxProcessSteps /\ machine'.signals \in 0 .. machine'.steps
           /\ \A k \in Kinds : machine'.version[k] <= machine'.steps + 1
<1>1. /\ machine.steps \in 0 .. MaxProcessSteps /\ machine.signals \in 0 .. machine.steps
      /\ \A k \in Kinds : machine.version[k] <= machine.steps + 1
      /\ machine.version \in [Kinds -> Nat] /\ MaxProcessSteps \in Nat
  BY BoundsAssumption DEF ListBounds, ListTypes
<1>2. CASE machine' = machine BY <1>1, <1>2
<1>3. CASE /\ machine.signals > 0 /\ machine'.signals = machine.signals - 1
           /\ machine'.steps = machine.steps /\ machine'.version = machine.version
  BY <1>1, <1>3
<1>4. ASSUME machine.steps < MaxProcessSteps, machine'.steps = machine.steps + 1,
             machine'.signals \in {machine.signals, machine.signals + 1},
             NEW k \in Kinds, machine'.version = Lists!Changed(k)
      PROVE  /\ machine'.steps \in 0 .. MaxProcessSteps /\ machine'.signals \in 0 .. machine'.steps
             /\ \A l \in Kinds : machine'.version[l] <= machine'.steps + 1
  <2>1. machine'.steps \in 0 .. MaxProcessSteps /\ machine'.signals \in 0 .. machine'.steps
    BY <1>1, <1>4
  <2>2. machine'.version = [machine.version EXCEPT ![k] = @ + 1] BY <1>4 DEF Lists!Changed
  <2>3. ASSUME NEW l \in Kinds PROVE machine'.version[l] <= machine'.steps + 1
    <3>1. machine.version[l] <= machine.steps + 1 /\ machine.version[l] \in Nat BY <1>1
    <3>2. machine'.version[l] = machine.version[l] \/ machine'.version[l] = machine.version[l] + 1
      BY <1>1, <2>2
    <3> QED BY <1>1, <1>4, <3>1, <3>2
  <2> QED BY <2>1, <2>3
<1> QED BY <1>2, <1>3, <1>4 DEF MachineSteps

(* A request keeps the types of the lists.                                 *)
LEMMA TriggerTyped ==
    ASSUME ListTypes, ListBounds, NEW ks, NEW ds, Lists!Trigger(ks, ds)
    PROVE  /\ Lists!ListType(scanner'.read)
           /\ \A k \in Kinds : /\ Lists!ListType(lists'[k].cached)
                               /\ {lists'[k].dirty, lists'[k].pending} \subseteq BOOLEAN
<1>1. /\ lists' = [k \in Kinds |-> Lists!Asked(ks, ds, k)]
      /\ \E q : scanner' = [scanner EXCEPT !.queue = q]
  BY DEF Lists!Trigger, Kinds
<1>2. scanner'.read = scanner.read BY <1>1 DEF ListTypes, Has
<1>3. ASSUME NEW k \in Kinds
      PROVE  /\ lists'[k].cached = lists[k].cached
             /\ {lists'[k].dirty, lists'[k].pending} \subseteq BOOLEAN
  <2> DEFINE dirty == lists[k].dirty \/ k \in ds
             pending == lists[k].pending \/ Lists!Accepts(ks, k)
             asked == IF Lists!Accepts(ks, k) THEN machine.version[k] ELSE lists[k].asked
  <2>1. Has(lists[k], {"cached", "dirty", "pending", "asked"}) BY DEF ListTypes
  <2>2. dirty \in BOOLEAN /\ pending \in BOOLEAN OBVIOUS
  <2>3. Lists!Asked(ks, ds, k) = [[[lists[k] EXCEPT !.dirty = dirty] EXCEPT !.pending = pending]
                                  EXCEPT !.asked = asked]
    BY Zenon DEF Lists!Asked
  <2>4. lists'[k] = Lists!Asked(ks, ds, k) BY <1>1
  <2> HIDE DEF dirty, pending, asked
  <2>5. lists'[k].cached = lists[k].cached /\ lists'[k].dirty = dirty /\ lists'[k].pending = pending
    BY <2>1, <2>3, <2>4 DEF Has
  <2> QED BY <2>2, <2>5
<1> QED BY <1>2, <1>3 DEF ListBounds

(* The worker keeps the bounds.                                            *)
LEMMA WorkerBounded ==
    ASSUME ListsInv, Forest(machine.tree), ListBounds, Lists!Worker
    PROVE  ListBounds'
<1>0. /\ ListTypes /\ WorkerOrder
      /\ scanner = [f \in {"queue", "doing", "read", "stored"} |-> scanner[f]]
  BY DEF ListsInv, ListTypes, Has
<1>1. /\ machine' = machine /\ command' = command
  BY DEF Lists!Worker, Lists!Take, Lists!ReadProcesses, Lists!ReadServices, Lists!Store, Lists!Release
<1>2. SUFFICES /\ Lists!ListType(scanner'.read)
               /\ \A k \in Kinds : /\ Lists!ListType(lists'[k].cached)
                                   /\ {lists'[k].dirty, lists'[k].pending} \subseteq BOOLEAN
  BY <1>1 DEF ListBounds
<1>3. /\ Lists!ListType(scanner.read)
      /\ \A k \in Kinds : /\ Lists!ListType(lists[k].cached)
                          /\ {lists[k].dirty, lists[k].pending} \subseteq BOOLEAN
  BY DEF ListBounds
<1>4. \A k \in Kinds : machine.version[k] \in 0 .. (MaxProcessSteps + 1)
  <2>1. /\ machine.steps \in 0 .. MaxProcessSteps /\ machine.version \in [Kinds -> Nat]
        /\ \A k \in Kinds : machine.version[k] <= machine.steps + 1
        /\ MaxProcessSteps \in Nat
    BY <1>0, BoundsAssumption DEF ListBounds, ListTypes
  <2> QED BY <2>1
<1>5. "processes" \in Kinds /\ "services" \in Kinds BY DEF Kinds, Lists!Kinds
<1>6. CASE Lists!Take
  <2>1. lists' = lists /\ \E q, d : scanner' = [scanner EXCEPT !.queue = q, !.doing = d]
    BY <1>6 DEF Lists!Take
  <2> QED BY <1>0, <1>3, <2>1
<1>7. CASE Lists!ReadProcesses
  <2>1. lists' = lists BY <1>7, Zenon DEF Lists!ReadProcesses
  <2>2. PICK gone : scanner' = [scanner EXCEPT !.read =
                    [version |-> machine.version["processes"],
                     tree |-> Lists!Without(machine.tree, gone),
                     groups |-> Lists!Groups(Lists!Without(machine.tree, gone),
                                   Lists!Ascending(Lists!Alive(Lists!Without(machine.tree, gone))))]]
    BY <1>7 DEF Lists!ReadProcesses
  <2> DEFINE t == Lists!Without(machine.tree, gone)
             groups == Lists!Groups(t, Lists!Ascending(Lists!Alive(t)))
  <2>3. Climbable(t) BY LeftOut
  <2>4. \A g \in groups : g.pid \in Pids /\ g.members \subseteq Pids /\ g.paused \in BOOLEAN
    <3> HIDE DEF t
    <3> QED BY <2>3, RowsTyped
  <2>5. scanner' = [scanner EXCEPT !.read = [version |-> machine.version["processes"], tree |-> t,
                                             groups |-> groups]]
    BY <2>2
  <2> HIDE DEF t, groups
  <2>6. scanner'.read = [version |-> machine.version["processes"], tree |-> t, groups |-> groups]
    BY <1>0, <2>5
  <2>7. scanner'.read.version = machine.version["processes"] /\ scanner'.read.groups = groups
    BY <2>6
  <2> QED BY <1>3, <1>4, <1>5, <2>1, <2>4, <2>7 DEF Lists!ListType
<1>8. CASE Lists!ReadServices
  <2>1. /\ lists' = lists
        /\ scanner' = [scanner EXCEPT !.read = [Lists!NoList EXCEPT !.version = machine.version["services"]]]
    BY <1>8 DEF Lists!ReadServices
  <2>2. scanner'.read = [Lists!NoList EXCEPT !.version = machine.version["services"]] BY <1>0, <2>1
  <2>3. scanner'.read.version = machine.version["services"] /\ scanner'.read.groups = {}
    BY <2>2 DEF Lists!NoList
  <2> QED BY <1>3, <1>4, <1>5, <2>1, <2>3 DEF Lists!ListType
<1>9. CASE Lists!Store
  <2> DEFINE of == Head(scanner.doing)
             rows == [scanner.read EXCEPT !.tree = Lists!NoList.tree]
  <2>1. /\ lists' = [lists EXCEPT ![of].cached = rows, ![of].dirty = FALSE]
        /\ scanner' = [scanner EXCEPT !.stored = TRUE] /\ Reading
    BY <1>9 DEF Lists!Store, Reading
  <2>2. rows.version = scanner.read.version /\ rows.groups = scanner.read.groups
    BY <1>0 DEF ListTypes, Has
  <2>3. Lists!ListType(rows) BY <1>3, <2>2 DEF Lists!ListType
  <2>4. of \in Kinds BY <1>0, <2>1, DoingsAre DEF ListTypes, WorkerOrder
  <2>5. Has(lists[of], {"cached", "dirty", "pending", "asked"}) BY <1>0, <2>4 DEF ListTypes
  <2> HIDE DEF rows, of
  <2>6. /\ \A k \in Kinds : k # of => lists'[k] = lists[k]
        /\ lists'[of] = [[lists[of] EXCEPT !.cached = rows] EXCEPT !.dirty = FALSE]
    BY <1>0, <2>1, <2>4 DEF ListTypes
  <2>7. /\ lists'[of].cached = rows /\ lists'[of].dirty = FALSE
        /\ lists'[of].pending = lists[of].pending
    BY <2>5, <2>6 DEF Has
  <2>8. scanner'.read = scanner.read BY <1>0, <2>1
  <2> QED BY <1>3, <2>3, <2>4, <2>6, <2>7, <2>8
<1>10. CASE Lists!Release
  <2> DEFINE of == Head(scanner.doing)
  <2>1. /\ lists' = [lists EXCEPT ![of] = [@ EXCEPT !.pending = FALSE]] /\ scanner.stored
        /\ scanner' = [scanner EXCEPT !.doing = Tail(@), !.read = Lists!NoList, !.stored = FALSE]
    BY <1>10 DEF Lists!Release, Lists!Released
  <2>2. of \in Kinds BY <1>0, <2>1, DoingsAre DEF ListTypes, WorkerOrder
  <2>3. Has(lists[of], {"cached", "dirty", "pending", "asked"}) BY <1>0, <2>2 DEF ListTypes
  <2> HIDE DEF of
  <2>4. /\ \A k \in Kinds : k # of => lists'[k] = lists[k]
        /\ lists'[of] = [lists[of] EXCEPT !.pending = FALSE]
    BY <1>0, <2>1, <2>2 DEF ListTypes
  <2>5. /\ lists'[of].cached = lists[of].cached /\ lists'[of].dirty = lists[of].dirty
        /\ lists'[of].pending = FALSE
    BY <2>3, <2>4 DEF Has
  <2>6. scanner'.read = Lists!NoList BY <1>0, <2>1
  <2> QED BY <1>3, <2>2, <2>4, <2>5, <2>6, NoListTyped
<1> QED BY <1>6, <1>7, <1>8, <1>9, <1>10 DEF Lists!Worker

(* So do the user and the machine.                                         *)
LEMMA ListsBounded ==
    ASSUME ListsInv, Forest(machine.tree), ListBounds, Lists!Next
    PROVE  ListBounds'
<1>0. /\ ListTypes /\ Has(machine, {"tree", "version", "signals", "steps"})
      /\ command \in [waits : BOOLEAN, used : 0 .. MaxCommands] /\ MaxCommands \in Nat
      /\ "processes" \in Kinds /\ "services" \in Kinds
      /\ machine = [f \in {"tree", "version", "signals", "steps"} |-> machine[f]]
  BY BoundsAssumption DEF ListsInv, ListTypes, ListBounds, Kinds, Lists!Kinds, Has
<1>1. CASE Lists!Worker BY <1>1, WorkerBounded
<1>2. CASE ~Lists!Worker
  <2>1. MachineSteps
    <3>1. CASE UNCHANGED machine BY <3>1 DEF MachineSteps
    <3>2. CASE Lists!OnSystemdUnitsChanged
      <4>1. machine.signals > 0 /\ machine' = [machine EXCEPT !.signals = @ - 1]
        BY <3>2 DEF Lists!OnSystemdUnitsChanged
      <4>2. machine'.signals = machine.signals - 1 /\ machine'.steps = machine.steps
            /\ machine'.version = machine.version
        BY <1>0, <4>1
      <4> QED BY <4>1, <4>2 DEF MachineSteps
    <3>3. CASE (Lists!ControlAnswered \/ Lists!UnitChanges) /\ ~UNCHANGED machine
      <4>1. /\ machine.steps < MaxProcessSteps
            /\ machine' = [machine EXCEPT !.version = Lists!Changed("services"), !.signals = @ + 1,
                                          !.steps = @ + 1]
        BY <3>3 DEF Lists!ControlAnswered, Lists!UnitChanges
      <4>2. machine'.signals = machine.signals + 1 /\ machine'.steps = machine.steps + 1
            /\ machine'.version = Lists!Changed("services")
        BY <1>0, <4>1
      <4> QED BY <1>0, <4>1, <4>2 DEF MachineSteps
    <3>4. CASE (Lists!SendSignal \/ Lists!Fork \/ Lists!Exit) /\ ~UNCHANGED machine
      <4>1. machine.steps < MaxProcessSteps
        BY <3>4, Zenon DEF Lists!SendSignal, Lists!Fork, Lists!Exit
      <4>2. PICK t : machine' = [machine EXCEPT !.tree = t, !.version = Lists!Changed("processes"),
                                                !.steps = @ + 1]
        <5>1. CASE Lists!SendSignal
          <6>1. PICK g \in lists["processes"].cached.groups :
                   machine' = [machine EXCEPT !.tree = Lists!Exited(@, Lists!Tree(@, g.pid)),
                                      !.version = Lists!Changed("processes"), !.steps = @ + 1]
            BY <3>4, <5>1, Zenon DEF Lists!SendSignal
          <6> DEFINE t == Lists!Exited(machine.tree, Lists!Tree(machine.tree, g.pid))
          <6>2. machine' = [machine EXCEPT !.tree = t, !.version = Lists!Changed("processes"),
                                           !.steps = @ + 1]
            BY <6>1, Zenon
          <6> QED BY <6>2, Zenon
        <5>2. CASE Lists!Exit
          <6>1. PICK p : machine' = [machine EXCEPT !.tree = Lists!Exited(@, {p}),
                                        !.version = Lists!Changed("processes"), !.steps = @ + 1]
            BY <5>2, Zenon DEF Lists!Exit
          <6> DEFINE t == Lists!Exited(machine.tree, {p})
          <6>2. machine' = [machine EXCEPT !.tree = t, !.version = Lists!Changed("processes"),
                                           !.steps = @ + 1]
            BY <6>1, Zenon
          <6> QED BY <6>2, Zenon
        <5>3. CASE Lists!Fork
          <6>1. PICK p, c :
                   machine' = [machine EXCEPT
                                 !.tree[c] = [parent |-> p, shell |-> FALSE, stopped |-> FALSE],
                                 !.version = Lists!Changed("processes"), !.steps = @ + 1]
            BY <5>3, Zenon DEF Lists!Fork
          <6> DEFINE t == [machine.tree EXCEPT ![c] = [parent |-> p, shell |-> FALSE, stopped |-> FALSE]]
          <6>2. machine' = [machine EXCEPT !.tree = t, !.version = Lists!Changed("processes"),
                                           !.steps = @ + 1]
            BY <6>1, Zenon
          <6> QED BY <6>2, Zenon
        <5> QED BY <3>4, <5>1, <5>2, <5>3
      <4>3. machine'.signals = machine.signals /\ machine'.steps = machine.steps + 1
            /\ machine'.version = Lists!Changed("processes")
        BY <1>0, <4>2
      <4> QED BY <1>0, <4>1, <4>3 DEF MachineSteps
    <3>5. CASE Lists!Search \/ Lists!ControlService
      BY <3>1, <3>5 DEF Lists!Search, Lists!ControlService
    <3> QED BY <1>2, <3>1, <3>2, <3>3, <3>4, <3>5 DEF Lists!Next, Lists!User
  <2>2. /\ Lists!ListType(scanner'.read)
        /\ \A k \in Kinds : /\ Lists!ListType(lists'[k].cached)
                            /\ {lists'[k].dirty, lists'[k].pending} \subseteq BOOLEAN
    <3>1. CASE \E ks, ds : Lists!Trigger(ks, ds) BY <1>0, <3>1, TriggerTyped
    <3>2. CASE scanner' = scanner /\ lists' = lists BY <3>2 DEF ListBounds
    <3>3. (\E ks, ds : Lists!Trigger(ks, ds)) \/ (scanner' = scanner /\ lists' = lists)
      BY <1>2, Zenon DEF Lists!Next, Lists!User, Lists!Search, Lists!SendSignal, Lists!ControlService,
         Lists!OnSystemdUnitsChanged, Lists!ControlAnswered, Lists!UnitChanges, Lists!Fork, Lists!Exit
    <3> QED BY <3>1, <3>2, <3>3
  <2>3. command' \in [waits : BOOLEAN, used : 0 .. MaxCommands]
    <3>1. \/ command' = command \/ command' = [command EXCEPT !.waits = FALSE]
          \/ /\ command.used < MaxCommands
             /\ \/ command' = [command EXCEPT !.used = @ + 1]
                \/ command' = [waits |-> TRUE, used |-> command.used + 1]
      BY <1>2, Zenon DEF Lists!Next, Lists!User, Lists!Search, Lists!SendSignal, Lists!ControlService,
         Lists!OnSystemdUnitsChanged, Lists!ControlAnswered, Lists!UnitChanges, Lists!Fork, Lists!Exit
    <3>2. command.used < MaxCommands => command.used + 1 \in 0 .. MaxCommands BY <1>0
    <3>3. CASE command' = command \/ command' = [command EXCEPT !.waits = FALSE] BY <1>0, <3>3
    <3>4. CASE command.used < MaxCommands /\ command' = [command EXCEPT !.used = @ + 1]
      BY <1>0, <3>2, <3>4
    <3>5. CASE command.used < MaxCommands /\ command' = [waits |-> TRUE, used |-> command.used + 1]
      BY <1>0, <3>2, <3>5
    <3> QED BY <3>1, <3>3, <3>4, <3>5
  <2>4. /\ machine'.steps \in 0 .. MaxProcessSteps /\ machine'.signals \in 0 .. machine'.steps
        /\ \A k \in Kinds : machine'.version[k] <= machine'.steps + 1
    BY <1>0, <2>1, MachineBounded
  <2> QED BY <2>2, <2>3, <2>4 DEF ListBounds
<1> QED BY <1>1, <1>2

(* With these bounds the lists' variables have their types.                *)
LEMMA ListsTyped == ListsInv /\ RowsInv /\ ListBounds => Lists!TypeOK
<1> SUFFICES ASSUME ListsInv, RowsInv, ListBounds PROVE Lists!TypeOK
  OBVIOUS
<1>1. ListTypes BY DEF ListsInv
<1>2. machine.tree \in [Pids -> Processes] BY DEF RowsInv, Forest, Climbable
<1>3. scanner.queue \in Seq(Requested) /\ Lists!Range(scanner.doing) \subseteq Kinds
  <2>1. scanner.doing \in Doings /\ scanner.queue \in Seq(Requested) BY <1>1 DEF ListTypes
  <2>2. scanner.doing # <<>> => Lists!Range(scanner.doing) \subseteq Kinds BY <2>1, DoingsAre
  <2>3. scanner.doing = <<>> => Lists!Range(scanner.doing) \subseteq Kinds BY DoingsAre
  <2> QED BY <2>1, <2>2, <2>3
<1>4. machine.steps \in 0 .. MaxProcessSteps /\ machine.signals \in 0 .. MaxProcessSteps
  <2>1. MaxProcessSteps \in Nat BY BoundsAssumption
  <2> QED BY <2>1 DEF ListBounds
<1>5. command.waits \in BOOLEAN /\ command.used \in 0 .. MaxCommands BY DEF ListBounds
<1>6. /\ Lists!ListType(scanner.read)
      /\ \A k \in Kinds : /\ Lists!ListType(lists[k].cached)
                          /\ {lists[k].dirty, lists[k].pending} \subseteq BOOLEAN
  BY DEF ListBounds
<1> QED BY <1>2, <1>3, <1>4, <1>5, <1>6 DEF Lists!TypeOK, Kinds, Requested, Processes

\* What the types need beside the invariants of the claims.
DesktopBounds == ListBounds /\ SampleBounds /\ WindowBounds /\ PowerBounds

(* The bounds hold at first.                                               *)
LEMMA BoundsInit == Init => DesktopBounds
<1> SUFFICES ASSUME Init PROVE DesktopBounds
  OBVIOUS
<1>0. /\ MaxCommands \in Nat /\ MaxProcessSteps \in Nat /\ MaxSamples \in Nat /\ MaxToRead \in Nat
      /\ MaxActions \in Nat /\ MaxInstances \in Nat /\ MaxRequests \in Nat
      /\ Cardinality(Threads) \in Nat
  BY BoundsAssumption, ThreadsAssumption, FS_CardinalityType
<1>1. ListBounds
  <2>1. Lists!Init BY DEF Init
  <2>2. /\ command = [waits |-> FALSE, used |-> 0] /\ machine.steps = 0 /\ machine.signals = 0
        /\ machine.version = [k \in Kinds |-> 1] /\ scanner.read = Lists!NoList
        /\ \A k \in Kinds : /\ lists[k].cached = Lists!NoList /\ lists[k].dirty = TRUE
                            /\ lists[k].pending = FALSE
    BY <2>1 DEF Lists!Init, Kinds
  <2>3. command \in [waits : BOOLEAN, used : 0 .. MaxCommands] BY <1>0, <2>2
  <2>4. \A k \in Kinds : machine.version[k] <= machine.steps + 1 BY <2>2
  <2>5. machine.steps \in 0 .. MaxProcessSteps /\ machine.signals \in 0 .. machine.steps
    BY <1>0, <2>2
  <2>6. /\ Lists!ListType(scanner.read)
        /\ \A k \in Kinds : Lists!ListType(lists[k].cached)
    BY <2>2, NoListTyped
  <2>7. \A k \in Kinds : {lists[k].dirty, lists[k].pending} \subseteq BOOLEAN BY <2>2
  <2> QED BY <2>3, <2>4, <2>5, <2>6, <2>7 DEF ListBounds
<1>2. SampleBounds
  <2>1. Top!Init BY DEF Init
  <2>2. /\ sampler = [queue |-> <<>>, timer |-> FALSE, late |-> 0]
        /\ window = [running |-> FALSE, opened |-> 0, samples |-> 0, shown |-> FALSE, ready |-> 0]
        /\ sample.total = 0 /\ sample.workers = 0
    BY <2>1 DEF Top!Init, Top!NoSample
  <2>3. <<>> \in Seq(Errands) OBVIOUS
  <2> QED BY <1>0, <2>2, <2>3 DEF SampleBounds
<1>3. WindowBounds
  <2>1. Windows!Init BY DEF Init
  <2> QED BY <1>0, <2>1 DEF Windows!Init, WindowBounds
<1>4. PowerBounds
  <2>1. Power!Init BY DEF Init
  <2> QED BY <1>0, <2>1 DEF Power!Init, PowerBounds
<1> QED BY <1>1, <1>2, <1>3, <1>4 DEF DesktopBounds

(* And in every reachable state.                                           *)
LEMMA BoundsAlways == Spec => []DesktopBounds
<1>1. ListsInv /\ RowsInv /\ PoolInv /\ WindowsInv /\ WindowsInv' /\ PowerInv /\ DesktopBounds /\ [Next]_vars
         => DesktopBounds'
  <2> SUFFICES ASSUME ListsInv, RowsInv, PoolInv, WindowsInv, WindowsInv', PowerInv, DesktopBounds,
                      [Next]_vars
               PROVE  DesktopBounds'
    OBVIOUS
  <2>1. ListBounds /\ SampleBounds /\ WindowBounds /\ PowerBounds BY DEF DesktopBounds
  <2>2. /\ Lists!Next \/ UNCHANGED listVars
        /\ Top!Next \/ UNCHANGED topVars
        /\ Windows!Next \/ UNCHANGED windowVars
        /\ Power!Next \/ UNCHANGED powerVars
    BY DEF Next, vars, OnlyLists, OnlyTree, OnlyTop, OnlyPrivacy, OnlyJobs, OnlyWindows, OnlyPower,
           listVars, topVars, windowVars, powerVars
  <2>3. ListBounds'
    <3>1. CASE UNCHANGED listVars BY <2>1, <3>1 DEF listVars, ListBounds
    <3>2. CASE Lists!Next BY <2>1, <3>2, ListsBounded DEF RowsInv
    <3> QED BY <2>2, <3>1, <3>2
  <2>4. SampleBounds'
    <3>1. CASE UNCHANGED topVars BY <2>1, <3>1 DEF topVars, SampleBounds
    <3>2. CASE Top!Next BY <2>1, <3>2, SampleBounded DEF PoolInv
    <3> QED BY <2>2, <3>1, <3>2
  <2>5. WindowBounds'
    <3>1. CASE UNCHANGED windowVars BY <2>1, <3>1 DEF windowVars, WindowBounds
    <3>2. CASE Windows!Next
      <4>1. WindowTypes /\ WindowTypes' BY DEF WindowsInv
      <4> QED BY <2>1, <3>2, <4>1, WindowsBounded
    <3> QED BY <2>2, <3>1, <3>2
  <2>6. PowerBounds'
    <3>1. CASE UNCHANGED powerVars BY <2>1, <3>1 DEF powerVars, PowerBounds
    <3>2. CASE Power!Next BY <2>1, <3>2, PowerBounded DEF PowerInv
    <3> QED BY <2>2, <3>1, <3>2
  <2> QED BY <2>3, <2>4, <2>5, <2>6 DEF DesktopBounds
<1> QED BY <1>1, BoundsInit, ListsAlways, RowsAlways, PoolInvariant, WindowsAlways, PowerAlways, PTL
        DEF Spec

(* The variables of every component have their types, whatever the bounds. *)
THEOREM DesktopTypeCorrect == Spec => []TypesOK
<1>1. ListsInv /\ RowsInv /\ TreeInv /\ PoolInv /\ PrivacyInv /\ JobsInv /\ WindowsInv /\ PowerInv
         /\ DesktopBounds => TypesOK
  BY ListsTyped, TreeTyped, SampleTyped, PrivacyTyped, JobsTyped, WindowsTyped, PowerTyped
     DEF TypesOK, DesktopBounds, WindowsInv, PowerInv
<1> QED BY <1>1, BoundsAlways, ListsAlways, RowsAlways, TreeAlways, PoolInvariant, PrivacyAlways,
           JobsAlways, WindowsAlways, PowerAlways, PTL

=============================================================================
