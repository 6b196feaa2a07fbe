------------------------ MODULE UpdateStagingProofs -------------------------
(***************************************************************************)
(* What keeps the operations of the update panel apart when updates are    *)
(* only staged (NoOverlap, TransactionUndisturbed, IdleShowsNoStage), and  *)
(* that what the panel says of a staged update is true: updates that it    *)
(* calls ready are staged (ReadyIsStaged), and the key it asks about is one *)
(* the daemon waits for (PromptIsLive); for any number of sessions, keys and *)
(* requests.                                                               *)
(***************************************************************************)
EXTENDS UpdateManagerProofs, FiniteSetTheorems

-----------------------------------------------------------------------------
(* What a queue holds, how often, and in which order.                      *)
Has(q, A) == \E i \in DOMAIN q : q[i] \in A
One(q, A) == \A i, j \in DOMAIN q : q[i] \in A /\ q[j] \in A => i = j
Precede(q, A, B) ==
    \A i \in DOMAIN q : q[i] \in A => \E j \in DOMAIN q : i < j /\ q[j] \in B

(* Taking the head keeps the order, and empties what it was the only one   *)
(* of.                                                                     *)
LEMMA TailHolds ==
    ASSUME NEW S, NEW q \in Seq(S), q # <<>>, NEW A, NEW B
    PROVE  /\ Head(q) \in A => Has(q, A)
           /\ Has(Tail(q), A) => Has(q, A)
           /\ Has(q, A) /\ Head(q) \notin A => Has(Tail(q), A)
           /\ One(q, A) => One(Tail(q), A)
           /\ One(q, A) /\ Head(q) \in A => ~Has(Tail(q), A)
           /\ Precede(q, A, B) => Precede(Tail(q), A, B)
           /\ Precede(q, A, B) /\ One(q, B) /\ Head(q) \in B => ~Has(q, A)
<1> DEFINE r == Tail(q)
<1>1. /\ 1 \in DOMAIN q /\ q[1] = Head(q)
      /\ \A i \in DOMAIN q : i \in Nat /\ 1 <= i
      /\ \A i \in DOMAIN r : i \in Nat /\ 1 <= i /\ i + 1 \in DOMAIN q /\ r[i] = q[i + 1]
      /\ \A i \in DOMAIN q : i # 1 => i - 1 \in DOMAIN r /\ r[i - 1] = q[i]
  BY TailAt
<1> HIDE DEF r
<1>2. /\ Head(q) \in A => Has(q, A)
      /\ Has(r, A) => Has(q, A)
      /\ Has(q, A) /\ Head(q) \notin A => Has(r, A)
  BY <1>1 DEF Has
<1>3. One(q, A) => One(r, A)
  BY <1>1 DEF One
<1>4. One(q, A) /\ Head(q) \in A => ~Has(r, A)
  <2> SUFFICES ASSUME One(q, A), Head(q) \in A, NEW i \in DOMAIN r, r[i] \in A
               PROVE  FALSE
    BY DEF Has
  <2>1. i + 1 = 1 BY <1>1 DEF One
  <2> QED BY <1>1, <2>1
<1>5. Precede(q, A, B) => Precede(r, A, B)
  <2> SUFFICES ASSUME Precede(q, A, B), NEW i \in DOMAIN r, r[i] \in A
               PROVE  \E j \in DOMAIN r : i < j /\ r[j] \in B
    BY DEF Precede
  <2>1. PICK j \in DOMAIN q : i + 1 < j /\ q[j] \in B BY <1>1 DEF Precede
  <2>2. j - 1 \in DOMAIN r /\ r[j - 1] = q[j] /\ i < j - 1 BY <1>1, <2>1
  <2> QED BY <2>1, <2>2
<1>6. Precede(q, A, B) /\ One(q, B) /\ Head(q) \in B => ~Has(q, A)
  <2> SUFFICES ASSUME Precede(q, A, B), One(q, B), Head(q) \in B,
                      NEW i \in DOMAIN q, q[i] \in A
               PROVE  FALSE
    BY DEF Has
  <2>1. PICK j \in DOMAIN q : i < j /\ q[j] \in B BY DEF Precede
  <2>2. j = 1 BY <1>1, <2>1 DEF One
  <2> QED BY <1>1, <2>1, <2>2
<1> QED BY <1>2, <1>3, <1>4, <1>5, <1>6 DEF r

(* What is behind all that is there.                                       *)
LEMMA ConcatHolds ==
    ASSUME NEW S, NEW q \in Seq(S), NEW r \in Seq(S), NEW A, NEW B
    PROVE  /\ Has(q \o r, A) <=> Has(q, A) \/ Has(r, A)
           /\ One(q, A) /\ ~Has(r, A) => One(q \o r, A)
           /\ ~Has(q, A) /\ One(r, A) => One(q \o r, A)
           /\ Precede(q, A, B) /\ Precede(r, A, B) => Precede(q \o r, A, B)
           /\ Has(r, B) /\ Precede(r, A, B) => Precede(q \o r, A, B)
<1> DEFINE s == q \o r
<1>1. /\ \A i \in DOMAIN q :
            /\ i \in Nat /\ 1 <= i /\ i <= Len(q)
            /\ i \in DOMAIN s /\ s[i] = q[i]
      /\ \A k \in DOMAIN r :
            /\ k \in Nat /\ 1 <= k
            /\ Len(q) + k \in DOMAIN s /\ s[Len(q) + k] = r[k]
      /\ \A i \in DOMAIN s :
            \/ i \in DOMAIN q
            \/ /\ i \in Nat /\ Len(q) < i
               /\ i - Len(q) \in DOMAIN r /\ s[i] = r[i - Len(q)]
      /\ Len(q) \in Nat
  BY ConcatAt
<1> HIDE DEF s
<1>2. Has(s, A) <=> Has(q, A) \/ Has(r, A) BY <1>1 DEF Has
<1>3. One(q, A) /\ ~Has(r, A) => One(s, A) BY <1>1 DEF Has, One
<1>4. ~Has(q, A) /\ One(r, A) => One(s, A)
  <2> SUFFICES ASSUME ~Has(q, A), One(r, A),
                      NEW i \in DOMAIN s, NEW j \in DOMAIN s, s[i] \in A, s[j] \in A
               PROVE  i = j
    BY DEF One
  <2>1. i \notin DOMAIN q /\ j \notin DOMAIN q BY <1>1 DEF Has
  <2>2. i - Len(q) = j - Len(q) BY <1>1, <2>1 DEF One
  <2> QED BY <1>1, <2>1, <2>2
<1>5. ASSUME Precede(r, A, B), NEW i \in DOMAIN s, s[i] \in A, i \notin DOMAIN q
      PROVE  \E j \in DOMAIN s : i < j /\ s[j] \in B
  <2>1. i \in Nat /\ i - Len(q) \in DOMAIN r /\ s[i] = r[i - Len(q)] BY <1>1, <1>5
  <2>2. PICK k \in DOMAIN r : i - Len(q) < k /\ r[k] \in B
    BY <1>5, <2>1 DEF Precede
  <2>3. Len(q) + k \in DOMAIN s /\ s[Len(q) + k] \in B /\ i < Len(q) + k
    BY <1>1, <2>1, <2>2
  <2> QED BY <2>3
<1>6. Precede(q, A, B) /\ Precede(r, A, B) => Precede(s, A, B)
  <2> SUFFICES ASSUME Precede(q, A, B), Precede(r, A, B), NEW i \in DOMAIN s, s[i] \in A
               PROVE  \E j \in DOMAIN s : i < j /\ s[j] \in B
    BY DEF Precede
  <2>1. CASE i \in DOMAIN q BY <1>1, <2>1 DEF Precede
  <2> QED BY <1>5, <2>1
<1>7. Has(r, B) /\ Precede(r, A, B) => Precede(s, A, B)
  <2> SUFFICES ASSUME Has(r, B), Precede(r, A, B), NEW i \in DOMAIN s, s[i] \in A
               PROVE  \E j \in DOMAIN s : i < j /\ s[j] \in B
    BY DEF Precede
  <2>1. CASE i \in DOMAIN q
    <3>1. PICK k \in DOMAIN r : r[k] \in B BY DEF Has
    <3>2. Len(q) + k \in DOMAIN s /\ s[Len(q) + k] \in B /\ i < Len(q) + k
      BY <1>1, <2>1, <3>1
    <3> QED BY <3>2
  <2> QED BY <1>5, <2>1
<1> QED BY <1>2, <1>3, <1>4, <1>6, <1>7 DEF s

(* The same for one entry.                                                 *)
LEMMA AppendHolds ==
    ASSUME NEW S, NEW q \in Seq(S), NEW x \in S, NEW A, NEW B
    PROVE  /\ Has(Append(q, x), A) <=> Has(q, A) \/ x \in A
           /\ One(q, A) /\ x \notin A => One(Append(q, x), A)
           /\ ~Has(q, A) => One(Append(q, x), A)
           /\ Precede(q, A, B) /\ x \notin A => Precede(Append(q, x), A, B)
           /\ x \in B /\ x \notin A => Precede(Append(q, x), A, B)
<1> DEFINE r == Append(q, x)
<1>1. /\ \A i \in DOMAIN q : /\ i \in Nat /\ 1 <= i /\ i < Len(q) + 1
                            /\ i \in DOMAIN r /\ r[i] = q[i]
      /\ Len(q) + 1 \in DOMAIN r /\ r[Len(q) + 1] = x
      /\ \A i \in DOMAIN r : i \in DOMAIN q \/ i = Len(q) + 1
  BY AppendAt
<1> HIDE DEF r
<1>2. Has(r, A) <=> Has(q, A) \/ x \in A BY <1>1 DEF Has
<1>3. One(q, A) /\ x \notin A => One(r, A) BY <1>1 DEF One
<1>4. ~Has(q, A) => One(r, A) BY <1>1 DEF One, Has
<1>5. Precede(q, A, B) /\ x \notin A => Precede(r, A, B) BY <1>1 DEF Precede
<1>6. x \in B /\ x \notin A => Precede(r, A, B) BY <1>1 DEF Precede
<1> QED BY <1>2, <1>3, <1>4, <1>5, <1>6 DEF r

(* What one or two entries are.                                            *)
LEMMA FewHold ==
    ASSUME NEW S, NEW x \in S, NEW y \in S, NEW A, NEW B
    PROVE  /\ <<x>> \in Seq(S) /\ <<x, y>> \in Seq(S)
           /\ Has(<<x>>, A) <=> x \in A
           /\ Has(<<x, y>>, A) <=> x \in A \/ y \in A
           /\ One(<<x>>, A)
           /\ x \notin A \/ y \notin A => One(<<x, y>>, A)
           /\ x \notin A => Precede(<<x>>, A, B)
           /\ y \notin A /\ (x \in A => y \in B) => Precede(<<x, y>>, A, B)
<1> DEFINE r == <<x, y>>
<1>1. r \in Seq(S) /\ DOMAIN r = {1, 2} /\ r[1] = x /\ r[2] = y
  OBVIOUS
<1> HIDE DEF r
<1>2. /\ Has(r, A) <=> x \in A \/ y \in A
      /\ x \notin A \/ y \notin A => One(r, A)
  BY <1>1 DEF Has, One
<1>3. y \notin A /\ (x \in A => y \in B) => Precede(r, A, B)
  BY <1>1 DEF Precede
<1> USE DEF r
<1>4. <<x>> \in Seq(S) /\ DOMAIN <<x>> = {1} /\ <<x>>[1] = x
  OBVIOUS
<1>5. /\ Has(<<x>>, A) <=> x \in A
      /\ One(<<x>>, A)
      /\ x \notin A => Precede(<<x>>, A, B)
  BY <1>4 DEF Has, One, Precede
<1> QED BY <1>1, <1>2, <1>3, <1>4, <1>5

(* Nothing is before something where it is not.                            *)
LEMMA HoldsNot ==
    ASSUME NEW q, NEW A, NEW B
    PROVE  /\ ~Has(q, A) => Precede(q, A, B) /\ One(q, A)
           /\ Precede(q, A, B) /\ Has(q, A) => Has(q, B)
BY DEF Has, One, Precede

(* A step takes the head of a queue or puts entries behind it, and either  *)
(* way they are of T.                                                      *)
Touches(q, r, T) ==
    \/ r = q
    \/ q # <<>> /\ r = Tail(q) /\ Head(q) \in T
    \/ \E ns \in Seq(T) : r = q \o ns

(* All other entries are still there, as often and before what they were.  *)
LEMMA Untouched ==
    ASSUME NEW S, NEW T \in SUBSET S, NEW q \in Seq(S), NEW r, Touches(q, r, T),
           NEW A, T \cap A = {}, NEW B
    PROVE  /\ Has(r, A) <=> Has(q, A)
           /\ One(q, A) => One(r, A)
           /\ Precede(q, A, B) => Precede(r, A, B)
<1>1. CASE r = q BY <1>1
<1>2. CASE q # <<>> /\ r = Tail(q) /\ Head(q) \in T
  BY <1>2, TailHolds
<1>3. CASE \E ns \in Seq(T) : r = q \o ns
  <2>1. PICK ns \in Seq(T) : r = q \o ns BY <1>3
  <2>2. ns \in Seq(S) /\ \A i \in DOMAIN ns : ns[i] \in T OBVIOUS
  <2>3. ~Has(ns, A) BY <2>2 DEF Has
  <2> QED BY <2>1, <2>2, <2>3, ConcatHolds, HoldsNot
<1> QED BY <1>1, <1>2, <1>3 DEF Touches

(* The kinds of entries in the queue are those there were and those of T.  *)
LEMMA TouchType ==
    ASSUME NEW S, NEW T \in SUBSET S, NEW q \in Seq(S), NEW r, Touches(q, r, T)
    PROVE  r \in Seq(S)
<1>1. CASE \E ns \in Seq(T) : r = q \o ns
  <2>1. PICK ns \in Seq(T) : r = q \o ns BY <1>1
  <2>2. ns \in Seq(S) OBVIOUS
  <2> QED BY <2>1, <2>2
<1> QED BY <1>1 DEF Touches

(* One entry more is a touch.                                              *)
LEMMA TouchAppend ==
    ASSUME NEW S, NEW q \in Seq(S), NEW x \in S, NEW T, x \in T
    PROVE  Touches(q, Append(q, x), T)
<1>1. <<x>> \in Seq(T) /\ Append(q, x) = q \o <<x>>
  OBVIOUS
<1> QED BY <1>1 DEF Touches

-----------------------------------------------------------------------------
(* The operations of the panel when updates are staged: no in-place        *)
(* upgrade, and as before no cleanCache, autoremove or rebootAndApply.     *)
StagingOps == {"check", "stage", "cancel", "confirm", "changelog", "discard"}

Ev(K) == {x \in Event : x.e \in K}
No(K) == {x \in Notice : x.n \in K}

StagingEvent ==
    {x \in Ev(StagingOps \cup {"reply", "progress", "keyRequest"}) :
        x.e = "reply" => x.kind = "stage"}
StagingNotice == No({"checkStarted", "checkFinished", "stageShown", "keyRequested",
                     "offlineReady", "finished", "changelogFetched"})

(* Nothing belongs to an operation that was not asked for.                 *)
StagingKinds ==
    /\ wq \in Seq(StagingEvent) /\ gq \in Seq(StagingNotice)
    /\ pc \in {"idle", "checking", "changelog", "stage"}
    /\ timers = 0
    /\ \A t \in txs : t.kind = "stage" /\ t.phase \in {"sent", "downloading"}

(* The steps that are left.                                                *)
UserStages ==
    /\ \/ CheckForUpdates \/ StageOfflineUpgrade
       \/ FetchChangelog \/ CancelClicked \/ DiscardClicked \/ ConfirmClicked
    /\ UNCHANGED <<workerVars, daemonVars, gq>>

GuiStages ==
    /\ \/ HandleCheckStarted \/ HandleCheckFinished
       \/ Receive("stageShown") /\ HandleProgressStageUpdated
       \/ HandleRepoKeyImportRequested \/ HandleOperationFinished
       \/ HandleOfflineStagedReady \/ HandleChangelogFetched
    /\ gq' = Tail(gq)
    /\ UNCHANGED <<workerVars, daemonVars, wq, requests>>

WorkerStages ==
    /\ \/ CheckBegin \/ CheckEnd \/ ChangelogBegin \/ ChangelogEnd
       \/ TransactionBegin("stage") \/ TransactionSend("stage") \/ StageReply
       \/ CancelOperation \/ CleanOffline \/ ConfirmRepoKey \/ HandleKeyRequest
       \/ Take("progress") /\ HandleSignal
    /\ UNCHANGED guiVars

DaemonStages ==
    /\ \/ \E t \in txs : DaemonDownloads(t) \/ DaemonAsksKey(t) \/ DaemonReplies(t)
       \/ DaemonAsksEarly
    /\ UNCHANGED <<workerVars, gq, guiVars>>

(* With these operations, and nothing of another one in a queue, no other  *)
(* step is enabled.                                                        *)
LEMMA StagingNext ==
    ASSUME TypeOK, StagingKinds, Next, UserOps \subseteq StagingOps
    PROVE  UserStages \/ GuiStages \/ WorkerStages \/ DaemonStages
<1>1. CASE UserNext
  <2>1. ~CleanAll /\ ~Autoremove /\ ~StartInPlaceUpgrade /\ ~RebootClicked
    BY DEF StagingOps, CleanAll, Autoremove, StartInPlaceUpgrade, RebootClicked,
           StartOperation, PostAnyway, Post
  <2> QED BY <1>1, <2>1 DEF UserNext, UserStages
<1>2. CASE GuiNext
  <2>1. gq # <<>> => Head(gq) \in StagingNotice BY DEF StagingKinds
  <2>2. /\ ~HandleInPlaceApplyStarted /\ ~HandleCleanFinished
        /\ ~HandleAutoremoveFinished /\ ~Receive("stageCleared")
    BY <2>1 DEF StagingNotice, No, Receive, HandleInPlaceApplyStarted,
                HandleCleanFinished, HandleAutoremoveFinished
  <2>3. HandleProgressStageUpdated => Receive("stageShown")
    BY <2>2 DEF HandleProgressStageUpdated
  <2> QED BY <1>2, <2>2, <2>3 DEF GuiNext, GuiStages
<1>3. CASE WorkerStep
  <2>1. wq # <<>> => Head(wq) \in StagingEvent BY DEF StagingKinds
  <2>2. \A e \in {"inplace", "autoremove", "clean", "reboot", "beforeBegin",
                  "afterComplete"} : ~Take(e)
    BY <2>1 DEF Take, StagingEvent, Ev, StagingOps
  <2>3. ~TakeReply("inplace") /\ ~TakeReply("autoremove")
    BY <2>1 DEF TakeReply, Take, StagingEvent
  <2>4. ~InPlaceReply /\ ~AutoremoveReply
    BY <2>3 DEF InPlaceReply, AutoremoveReply
  <2>5. ~Verify /\ ~SelfPost
    BY DEF Verify, SelfPost, StagingKinds
  <2>6. ~RebootAndApply /\ ~CleanCache
    BY <2>2 DEF RebootAndApply, CleanCache
  <2>7. \A kind \in TxKinds :
           TransactionBegin(kind) \/ TransactionSend(kind) => kind = "stage"
    BY <2>2 DEF TransactionBegin, TransactionSend, TxKinds, StagingKinds
  <2>8. HandleSignal => Take("progress") BY <2>2 DEF HandleSignal
  <2>9. UNCHANGED guiVars /\ WorkerNext BY <1>3 DEF WorkerStep
  <2>10. CASE \E kind \in TxKinds : TransactionBegin(kind) \/ TransactionSend(kind)
    <3>1. TransactionBegin("stage") \/ TransactionSend("stage") BY <2>7, <2>10
    <3> QED BY <2>9, <3>1 DEF WorkerStages
  <2> QED
    BY <2>4, <2>5, <2>6, <2>8, <2>9, <2>10 DEF WorkerNext, WorkerStages
<1>4. CASE DaemonStep
  <2>1. \A t \in txs : ~DaemonBegins(t) /\ ~DaemonCompletes(t)
    BY DEF DaemonBegins, DaemonCompletes, StagingKinds
  <2> QED BY <1>4, <2>1 DEF DaemonStep, DaemonNext, DaemonStages
<1> QED BY <1>1, <1>2, <1>3, <1>4 DEF Next

-----------------------------------------------------------------------------
(* What each step does to the two queues.                                  *)

(* The user posts what was asked for.                                      *)
LEMMA UserTouches ==
    ASSUME TypeOK
    PROVE  /\ CheckForUpdates => Touches(wq, wq', Ev({"check"}))
           /\ StageOfflineUpgrade => Touches(wq, wq', Ev({"stage"}))
           /\ FetchChangelog => Touches(wq, wq', Ev({"changelog"}))
           /\ CancelClicked => Touches(wq, wq', Ev({"cancel"}))
           /\ DiscardClicked => Touches(wq, wq', Ev({"discard"}))
           /\ ConfirmClicked => Touches(wq, wq', Ev({"confirm"}))
<1>1. wq \in Seq(Event) BY DEF TypeOK
<1>2. /\ \A e \in {"check", "stage", "changelog", "cancel", "discard"} :
            [e |-> e] \in Event /\ [e |-> e] \in Ev({e})
      /\ \A k \in Keys : /\ [e |-> "confirm", key |-> k] \in Event
                         /\ [e |-> "confirm", key |-> k] \in Ev({"confirm"})
  BY DEF Event, Plain, TxKinds, Ev
<1>3. /\ \A e \in {"check", "stage", "changelog", "cancel", "discard"} :
            Touches(wq, Append(wq, [e |-> e]), Ev({e}))
      /\ \A k \in Keys :
            Touches(wq, Append(wq, [e |-> "confirm", key |-> k]), Ev({"confirm"}))
  BY <1>1, <1>2, TouchAppend
<1>4. prompt # NoKey => prompt \in Keys BY DEF TypeOK
<1> QED
  BY <1>3, <1>4
  DEF CheckForUpdates, StageOfflineUpgrade, FetchChangelog, CancelClicked,
      DiscardClicked, ConfirmClicked, StartOperation, PostAnyway, Post

(* The worker takes an event, or goes on with the one it took.             *)
LEMMA WorkerTakes ==
    ASSUME TypeOK, StagingKinds
    PROVE  /\ \A e : Take(e) => Touches(wq, wq', Ev({e}))
           /\ CheckBegin => Touches(wq, wq', Ev({"check"}))
           /\ ChangelogBegin => Touches(wq, wq', Ev({"changelog"}))
           /\ TransactionBegin("stage") => Touches(wq, wq', Ev({"stage"}))
           /\ StageReply => Touches(wq, wq', Ev({"reply"}))
           /\ CancelOperation => Touches(wq, wq', Ev({"cancel"}))
           /\ CleanOffline => Touches(wq, wq', Ev({"discard"}))
           /\ ConfirmRepoKey => Touches(wq, wq', Ev({"confirm"}))
           /\ HandleKeyRequest => Touches(wq, wq', Ev({"keyRequest"}))
           /\ CheckEnd \/ ChangelogEnd \/ TransactionSend("stage") => wq' = wq
<1>1. \A e : Take(e) => Touches(wq, wq', Ev({e}))
  BY TakeType DEF Take, Touches, Ev, TypeOK
<1>2. pc # "check" BY DEF StagingKinds
<1> QED
  BY <1>1, <1>2
  DEF CheckBegin, ChangelogBegin, TransactionBegin, StageReply, TakeReply,
      CancelOperation, CleanOffline, ConfirmRepoKey, HandleKeyRequest,
      CheckEnd, ChangelogEnd, TransactionSend

(* What the notices of the handlers are made of.                           *)
LEMMA NoticesOf ==
    /\ \A u \in Upgrades \cup {"failed"} :
          /\ <<CheckDone(u)>> \in Seq(No({"checkFinished"}))
          /\ <<Note("checkStarted"), CheckDone(u)>>
                \in Seq(No({"checkStarted", "checkFinished"}))
          /\ \A b \in BOOLEAN : <<Told("offlineReady", b), CheckDone(u)>>
                \in Seq(No({"offlineReady", "checkFinished"}))
    /\ \A n \in {"checkStarted", "changelogFetched", "stageShown"} :
          <<Note(n)>> \in Seq(No({n}))
    /\ \A b \in BOOLEAN :
          /\ <<Told("finished", b)>> \in Seq(No({"finished"}))
          /\ <<Told("offlineReady", b)>> \in Seq(No({"offlineReady"}))
          /\ \A c \in BOOLEAN : <<Told("offlineReady", b), Told("finished", c)>>
                \in Seq(No({"offlineReady", "finished"}))
    /\ \A k \in Keys : <<[n |-> "keyRequested", key |-> k]>> \in Seq(No({"keyRequested"}))
<1>1. /\ \A u \in Upgrades \cup {"failed"} :
            CheckDone(u) \in Notice /\ CheckDone(u).n = "checkFinished"
      /\ \A n \in {"checkStarted", "changelogFetched", "stageShown"} :
            Note(n) \in Notice /\ Note(n).n = n
      /\ \A n \in {"offlineReady", "finished"}, b \in BOOLEAN :
            Told(n, b) \in Notice /\ Told(n, b).n = n
      /\ \A k \in Keys : [n |-> "keyRequested", key |-> k] \in Notice
  BY DEF CheckDone, Note, Told, Notice
<1> QED BY <1>1 DEF No

(* What a staged download answers with.                                    *)
StageOutcomes ==
    {<<Told("offlineReady", TRUE), Told("finished", TRUE)>>, <<Told("finished", FALSE)>>}

(* What the handlers tell, in full.                                        *)
LEMMA TellsInFull ==
    ASSUME TypeOK, StagingKinds
    PROVE  /\ CheckBegin =>
                \/ gq' = gq \o <<Note("checkStarted")>> /\ pc' = "checking"
                \/ gq' = gq \o <<Note("checkStarted"), CheckDone("failed")>> /\ pc' = "idle"
           /\ CheckEnd => \E u \in Upgrades \cup {"failed"} :
                \/ gq' = gq \o <<CheckDone(u)>>
                \/ gq' = gq \o <<Told("offlineReady", staged), CheckDone(u)>>
           /\ TransactionBegin("stage") =>
                \/ gq' = gq \o <<Note("stageShown")>> /\ pc' = "stage"
                \/ gq' = gq \o <<Told("finished", FALSE)>> /\ pc' = pc
           /\ TransactionSend("stage") =>
                \/ gq' = gq \o <<Told("finished", FALSE)>> /\ txs' = txs
                \/ /\ gq' = gq \o <<Note("stageShown")>>
                   /\ txs' = txs \cup {[kind |-> "stage", sess |-> session,
                                        phase |-> "sent", key |-> NoKey]}
           /\ StageReply => \E ns \in StageOutcomes :
                \/ gq' = gq \o ns /\ staged' = staged
                \/ gq' = gq \o (<<Told("offlineReady", FALSE)>> \o ns) /\ cancelled
<1>1. Answer("stage", FALSE) = <<Told("finished", FALSE)>> BY DEF Answer
<1>2. /\ <<>> \o <<Told("finished", FALSE)>> = <<Told("finished", FALSE)>>
      /\ <<>> \o <<Note("stageShown")>> = <<Note("stageShown")>>
  OBVIOUS
<1>3. CheckBegin =>
        \/ gq' = gq \o <<Note("checkStarted")>> /\ pc' = "checking"
        \/ gq' = gq \o <<Note("checkStarted"), CheckDone("failed")>> /\ pc' = "idle"
  BY DEF CheckBegin, Emit
<1>4. CheckEnd => \E u \in Upgrades \cup {"failed"} :
        \/ gq' = gq \o <<CheckDone(u)>>
        \/ gq' = gq \o <<Told("offlineReady", staged), CheckDone(u)>>
  BY DEF CheckEnd, Emit
<1>5. TransactionBegin("stage") =>
        \/ gq' = gq \o <<Note("stageShown")>> /\ pc' = "stage"
        \/ gq' = gq \o <<Told("finished", FALSE)>> /\ pc' = pc
  BY <1>1, <1>2 DEF TransactionBegin, Emit
<1>6. TransactionSend("stage") =>
        \/ gq' = gq \o <<Told("finished", FALSE)>> /\ txs' = txs
        \/ /\ gq' = gq \o <<Note("stageShown")>>
           /\ txs' = txs \cup {[kind |-> "stage", sess |-> session,
                                phase |-> "sent", key |-> NoKey]}
  BY <1>1 DEF TransactionSend, Emit
<1>7. StageReply => \E ns \in StageOutcomes :
        \/ gq' = gq \o ns /\ staged' = staged
        \/ gq' = gq \o (<<Told("offlineReady", FALSE)>> \o ns) /\ cancelled
  BY DEF StageReply, Emit, StageOutcomes
<1> QED BY <1>3, <1>4, <1>5, <1>6, <1>7

(* A step that only puts entries of T behind a queue.                      *)
Adds(q, r, T) == r = q \/ \E ns \in Seq(T) : r = q \o ns

(* What was there is there still.                                          *)
LEMMA AddsHolds ==
    ASSUME NEW S, NEW T \in SUBSET S, NEW q \in Seq(S), NEW r, Adds(q, r, T),
           NEW A, Has(q, A)
    PROVE  Has(r, A)
<1>1. CASE \E ns \in Seq(T) : r = q \o ns
  <2>1. PICK ns \in Seq(T) : r = q \o ns BY <1>1
  <2>2. ns \in Seq(S) OBVIOUS
  <2> QED BY <2>1, <2>2, ConcatHolds
<1> QED BY <1>1 DEF Adds

(* In short: the kinds of notices they emit.                               *)
LEMMA WorkerAdds ==
    ASSUME TypeOK, StagingKinds
    PROVE  /\ CheckBegin => Adds(gq, gq', No({"checkStarted", "checkFinished"}))
           /\ CheckEnd => Adds(gq, gq', No({"offlineReady", "checkFinished"}))
           /\ ChangelogBegin \/ ChangelogEnd =>
                Adds(gq, gq', No({"changelogFetched"}))
           /\ TransactionBegin("stage") \/ TransactionSend("stage") =>
                Adds(gq, gq', No({"stageShown", "finished"}))
           /\ StageReply => Adds(gq, gq', No({"offlineReady", "finished"}))
           /\ CleanOffline => Adds(gq, gq', No({"offlineReady"}))
           /\ Take("progress") /\ HandleSignal => Adds(gq, gq', No({"stageShown"}))
           /\ HandleKeyRequest => Adds(gq, gq', No({"keyRequested"}))
           /\ CancelOperation \/ ConfirmRepoKey => gq' = gq
<1>1. \A K, L : K \subseteq L => No(K) \subseteq No(L) /\ Seq(No(K)) \subseteq Seq(No(L))
  <2> SUFFICES ASSUME NEW K, NEW L, K \subseteq L
               PROVE  No(K) \subseteq No(L) /\ Seq(No(K)) \subseteq Seq(No(L))
    OBVIOUS
  <2>1. No(K) \subseteq No(L) BY DEF No
  <2> QED BY <2>1
<1>2. \A K : \A ns \in Seq(No(K)) : gq' = gq \o ns => Adds(gq, gq', No(K))
  BY DEF Adds
<1>3. \A K : gq' = gq => Adds(gq, gq', No(K)) BY DEF Adds
<1>4. CheckBegin => Adds(gq, gq', No({"checkStarted", "checkFinished"}))
  <2>1. <<Note("checkStarted")>> \in Seq(No({"checkStarted", "checkFinished"}))
    BY <1>1, NoticesOf
  <2> QED BY <1>2, <2>1, NoticesOf, TellsInFull
<1>5. CheckEnd => Adds(gq, gq', No({"offlineReady", "checkFinished"}))
  <2> SUFFICES ASSUME CheckEnd
               PROVE  Adds(gq, gq', No({"offlineReady", "checkFinished"}))
    OBVIOUS
  <2>1. PICK u \in Upgrades \cup {"failed"} :
           \/ gq' = gq \o <<CheckDone(u)>>
           \/ gq' = gq \o <<Told("offlineReady", staged), CheckDone(u)>>
    BY TellsInFull
  <2>2. <<CheckDone(u)>> \in Seq(No({"offlineReady", "checkFinished"}))
    BY <1>1, NoticesOf
  <2>3. <<Told("offlineReady", staged), CheckDone(u)>>
           \in Seq(No({"offlineReady", "checkFinished"}))
    BY NoticesOf DEF TypeOK
  <2> QED BY <1>2, <2>1, <2>2, <2>3
<1>6. ChangelogBegin \/ ChangelogEnd => Adds(gq, gq', No({"changelogFetched"}))
  BY <1>2, <1>3, NoticesOf DEF ChangelogBegin, ChangelogEnd, Emit
<1>7. TransactionBegin("stage") \/ TransactionSend("stage") =>
        Adds(gq, gq', No({"stageShown", "finished"}))
  <2>1. \A n \in {"stageShown", "finished"} :
           Seq(No({n})) \subseteq Seq(No({"stageShown", "finished"}))
    BY <1>1
  <2>2. /\ <<Note("stageShown")>> \in Seq(No({"stageShown", "finished"}))
        /\ <<Told("finished", FALSE)>> \in Seq(No({"stageShown", "finished"}))
    BY <2>1, NoticesOf
  <2> QED BY <1>2, <2>2, TellsInFull
<1>8. StageReply => Adds(gq, gq', No({"offlineReady", "finished"}))
  <2> DEFINE T == No({"offlineReady", "finished"})
  <2>0. \A n \in {"offlineReady", "finished"} : Seq(No({n})) \subseteq Seq(T)
    BY <1>1
  <2>1. \A ns \in StageOutcomes : ns \in Seq(T)
    BY <2>0, NoticesOf DEF StageOutcomes
  <2>2. <<Told("offlineReady", FALSE)>> \in Seq(T) BY <2>0, NoticesOf
  <2> HIDE DEF T
  <2>3. \A ms, ns \in Seq(T) : ms \o ns \in Seq(T) OBVIOUS
  <2>4. \A ns \in StageOutcomes : <<Told("offlineReady", FALSE)>> \o ns \in Seq(T)
    BY <2>1, <2>2, <2>3
  <2> USE DEF T
  <2> QED BY <1>2, <2>1, <2>4, TellsInFull
<1>9. CleanOffline => Adds(gq, gq', No({"offlineReady"}))
  BY <1>2, <1>3, NoticesOf DEF CleanOffline, Emit
<1>10. Take("progress") /\ HandleSignal => Adds(gq, gq', No({"stageShown"}))
  BY <1>2, NoticesOf DEF HandleSignal, Take, Emit
<1>11. HandleKeyRequest => Adds(gq, gq', No({"keyRequested"}))
  <2> SUFFICES ASSUME HandleKeyRequest PROVE Adds(gq, gq', No({"keyRequested"}))
    OBVIOUS
  <2>1. Head(wq) \in Event /\ Head(wq).e = "keyRequest"
    BY TakeType DEF HandleKeyRequest, TypeOK
  <2>2. Head(wq).key \in Keys
    BY <2>1 DEF Event, Plain, Signals, TxKinds
  <2> QED BY <1>2, <2>2, NoticesOf DEF HandleKeyRequest, Emit
<1>12. CancelOperation \/ ConfirmRepoKey => gq' = gq
  BY DEF CancelOperation, ConfirmRepoKey
<1> QED
  BY <1>4, <1>5, <1>6, <1>7, <1>8, <1>9, <1>10, <1>11, <1>12

(* So they touch no other kind.                                            *)
LEMMA WorkerTells ==
    ASSUME TypeOK, StagingKinds
    PROVE  /\ CheckBegin => Touches(gq, gq', No({"checkStarted", "checkFinished"}))
           /\ CheckEnd => Touches(gq, gq', No({"offlineReady", "checkFinished"}))
           /\ ChangelogBegin \/ ChangelogEnd =>
                Touches(gq, gq', No({"changelogFetched"}))
           /\ TransactionBegin("stage") \/ TransactionSend("stage") =>
                Touches(gq, gq', No({"stageShown", "finished"}))
           /\ StageReply => Touches(gq, gq', No({"offlineReady", "finished"}))
           /\ CleanOffline => Touches(gq, gq', No({"offlineReady"}))
           /\ Take("progress") /\ HandleSignal => Touches(gq, gq', No({"stageShown"}))
           /\ HandleKeyRequest => Touches(gq, gq', No({"keyRequested"}))
           /\ CancelOperation \/ ConfirmRepoKey => gq' = gq
<1>1. \A L : Adds(gq, gq', No(L)) => Touches(gq, gq', No(L))
  BY DEF Adds, Touches
<1> QED BY <1>1, WorkerAdds

(* The daemon posts signals while the worker listens, and replies.         *)
LEMMA DaemonTouches ==
    ASSUME TypeOK
    PROVE  /\ DaemonAsksEarly => Touches(wq, wq', Ev({"keyRequest"}))
           /\ \A t \in txs :
                /\ DaemonDownloads(t) => Touches(wq, wq', Ev({"progress"}))
                /\ DaemonAsksKey(t) => Touches(wq, wq', Ev({"keyRequest"}))
                /\ DaemonReplies(t) => Touches(wq, wq', Ev({"reply"}))
<1>1. wq \in Seq(Event) BY DEF TypeOK
<1>2. \A x, K : x \in Ev(K) => Touches(wq, Append(wq, x), Ev(K))
  BY <1>1, TouchAppend DEF Ev
<1>3. \A K : wq' = wq => Touches(wq, wq', Ev(K)) BY DEF Touches
<1>4. /\ [e |-> "progress"] \in Ev({"progress"})
      /\ \A k \in Keys : [e |-> "keyRequest", key |-> k] \in Ev({"keyRequest"})
      /\ \A kind \in TxKinds, s \in Sessions, res \in Results :
            [e |-> "reply", kind |-> kind, sess |-> s, res |-> res] \in Ev({"reply"})
  BY DEF Event, Signals, Ev
<1>5. \A t \in txs : t.kind \in TxKinds /\ t.sess \in Sessions
  BY DEF TypeOK, Transaction
<1>6. DaemonAsksEarly => Touches(wq, wq', Ev({"keyRequest"}))
  BY <1>2, <1>4 DEF DaemonAsksEarly
<1>7. ASSUME NEW t \in txs
      PROVE  /\ DaemonDownloads(t) => Touches(wq, wq', Ev({"progress"}))
             /\ DaemonAsksKey(t) => Touches(wq, wq', Ev({"keyRequest"}))
             /\ DaemonReplies(t) => Touches(wq, wq', Ev({"reply"}))
  <2>1. DaemonDownloads(t) => Touches(wq, wq', Ev({"progress"}))
    BY <1>2, <1>3, <1>4 DEF DaemonDownloads, Hear
  <2>2. DaemonAsksKey(t) => Touches(wq, wq', Ev({"keyRequest"}))
    BY <1>2, <1>3, <1>4 DEF DaemonAsksKey, Hear
  <2>3. DaemonReplies(t) => Touches(wq, wq', Ev({"reply"}))
    BY <1>2, <1>4, <1>5 DEF DaemonReplies
  <2> QED BY <2>1, <2>2, <2>3
<1> QED BY <1>6, <1>7

(* A queue that is left alone is not touched.                              *)
LEMMA NotTouched ==
    /\ wq' = wq => \A K : Touches(wq, wq', Ev(K))
    /\ gq' = gq => \A L : Touches(gq, gq', No(L))
BY DEF Touches

(* A handler serves one kind of event.                                     *)
LEMMA WorkerTakesOne ==
    ASSUME TypeOK, StagingKinds, WorkerStages
    PROVE  \E e : /\ Touches(wq, wq', Ev({e}))
                  /\ e = "check" => CheckBegin
                  /\ e = "stage" => TransactionBegin("stage")
                  /\ e = "reply" => StageReply
                  /\ e = "discard" => CleanOffline
                  /\ e = "cancel" => CancelOperation
                  /\ e = "confirm" => ConfirmRepoKey
                  /\ e = "keyRequest" => HandleKeyRequest
                  /\ e = "progress" => HandleSignal
<1> DEFINE Serves(e) == /\ e = "check" => CheckBegin
                        /\ e = "stage" => TransactionBegin("stage")
                        /\ e = "reply" => StageReply
                        /\ e = "discard" => CleanOffline
                        /\ e = "cancel" => CancelOperation
                        /\ e = "confirm" => ConfirmRepoKey
                        /\ e = "keyRequest" => HandleKeyRequest
                        /\ e = "progress" => HandleSignal
<1>1. /\ CheckBegin => Serves("check")
      /\ TransactionBegin("stage") => Serves("stage")
      /\ StageReply => Serves("reply")
      /\ CleanOffline => Serves("discard")
      /\ CancelOperation => Serves("cancel")
      /\ ConfirmRepoKey => Serves("confirm")
      /\ HandleKeyRequest => Serves("keyRequest")
      /\ HandleSignal => Serves("progress")
      /\ Serves("changelog")
  OBVIOUS
<1> HIDE DEF Serves
<1>2. CheckEnd \/ ChangelogEnd \/ TransactionSend("stage") =>
        Touches(wq, wq', Ev({"changelog"}))
  BY WorkerTakes, NotTouched
<1>3. \E e : Touches(wq, wq', Ev({e})) /\ Serves(e)
  <2>1. CASE CheckBegin
    <3>1. Touches(wq, wq', Ev({"check"})) BY <2>1, WorkerTakes
    <3> QED BY <1>1, <2>1, <3>1
  <2>2. CASE TransactionBegin("stage")
    <3>1. Touches(wq, wq', Ev({"stage"})) BY <2>2, WorkerTakes
    <3> QED BY <1>1, <2>2, <3>1
  <2>3. CASE StageReply
    <3>1. Touches(wq, wq', Ev({"reply"})) BY <2>3, WorkerTakes
    <3> QED BY <1>1, <2>3, <3>1
  <2>4. CASE CleanOffline
    <3>1. Touches(wq, wq', Ev({"discard"})) BY <2>4, WorkerTakes
    <3> QED BY <1>1, <2>4, <3>1
  <2>5. CASE CancelOperation
    <3>1. Touches(wq, wq', Ev({"cancel"})) BY <2>5, WorkerTakes
    <3> QED BY <1>1, <2>5, <3>1
  <2>6. CASE ConfirmRepoKey
    <3>1. Touches(wq, wq', Ev({"confirm"})) BY <2>6, WorkerTakes
    <3> QED BY <1>1, <2>6, <3>1
  <2>7. CASE HandleKeyRequest
    <3>1. Touches(wq, wq', Ev({"keyRequest"})) BY <2>7, WorkerTakes
    <3> QED BY <1>1, <2>7, <3>1
  <2>8. CASE Take("progress") /\ HandleSignal
    <3>1. Touches(wq, wq', Ev({"progress"})) BY <2>8, WorkerTakes
    <3> QED BY <1>1, <2>8, <3>1
  <2>9. CASE ChangelogBegin
    <3>1. Touches(wq, wq', Ev({"changelog"})) BY <2>9, WorkerTakes
    <3> QED BY <1>1, <2>9, <3>1
  <2>10. CASE CheckEnd \/ ChangelogEnd \/ TransactionSend("stage")
    BY <1>1, <1>2, <2>10
  <2> QED
    BY <2>1, <2>2, <2>3, <2>4, <2>5, <2>6, <2>7, <2>8, <2>9, <2>10 DEF WorkerStages
<1> QED BY <1>3 DEF Serves

-----------------------------------------------------------------------------
(* Nothing of another operation ever comes up.                             *)
LEMMA KindsKept ==
    ASSUME TypeOK, StagingKinds,
           UserStages \/ GuiStages \/ WorkerStages \/ DaemonStages
    PROVE  StagingKinds'
<1>1. /\ \A K \in SUBSET (StagingOps \cup {"progress", "keyRequest"}) :
            Touches(wq, wq', Ev(K)) => wq' \in Seq(StagingEvent)
      /\ wq' = wq => wq' \in Seq(StagingEvent)
  <2> SUFFICES ASSUME NEW K \in SUBSET (StagingOps \cup {"progress", "keyRequest"}),
                      Touches(wq, wq', Ev(K))
               PROVE  wq' \in Seq(StagingEvent)
    BY DEF StagingKinds
  <2>1. Ev(K) \subseteq StagingEvent BY DEF Ev, StagingEvent, StagingOps
  <2> QED BY <2>1, TouchType DEF StagingKinds
<1>2. /\ \A K \in SUBSET {"checkStarted", "checkFinished", "stageShown", "keyRequested",
                          "offlineReady", "finished", "changelogFetched"} :
            Touches(gq, gq', No(K)) => gq' \in Seq(StagingNotice)
      /\ gq' = gq => gq' \in Seq(StagingNotice)
  <2> SUFFICES ASSUME NEW K \in SUBSET {"checkStarted", "checkFinished", "stageShown",
                                        "keyRequested", "offlineReady", "finished",
                                        "changelogFetched"},
                      Touches(gq, gq', No(K))
               PROVE  gq' \in Seq(StagingNotice)
    BY DEF StagingKinds
  <2>1. No(K) \subseteq StagingNotice BY DEF No, StagingNotice
  <2> QED BY <2>1, TouchType DEF StagingKinds
<1>3. CASE UserStages
  <2>1. wq' \in Seq(StagingEvent)
    BY <1>1, <1>3, UserTouches DEF UserStages, StagingOps
  <2> QED BY <1>2, <1>3, <2>1 DEF UserStages, StagingKinds, workerVars, daemonVars
<1>4. CASE GuiStages
  <2>1. gq # <<>> BY <1>4 DEF GuiStages, Receive, HandleCheckStarted,
          HandleCheckFinished, HandleRepoKeyImportRequested, HandleOperationFinished,
          HandleOfflineStagedReady, HandleChangelogFetched
  <2>2. gq' \in Seq(StagingNotice) BY <1>4, <2>1 DEF GuiStages, StagingKinds
  <2> QED BY <1>4, <2>2 DEF GuiStages, StagingKinds, workerVars, daemonVars
<1>5. CASE WorkerStages
  <2>1. wq' \in Seq(StagingEvent)
    <3>1. (\E e : Take(e)) => wq' \in Seq(StagingEvent)
      BY DEF Take, StagingKinds
    <3>2. StageReply => \E e : Take(e) BY DEF StageReply, TakeReply
    <3> QED BY <1>1, <1>5, <3>1, <3>2, WorkerTakes DEF WorkerStages, StagingOps
  <2>2. gq' \in Seq(StagingNotice) BY <1>2, <1>5, WorkerTells DEF WorkerStages
  <2>3. pc' \in {"idle", "checking", "changelog", "stage"} /\ timers' = 0
    BY <1>5 DEF WorkerStages, StagingKinds, CheckBegin, CheckEnd, ChangelogBegin,
         ChangelogEnd, TransactionBegin, TransactionSend, StageReply, CancelOperation,
         CleanOffline, ConfirmRepoKey, HandleSignal, HandleKeyRequest, workerVars
  <2>4. \A t \in txs' : t.kind = "stage" /\ t.phase \in {"sent", "downloading"}
    <3>1. CASE TransactionSend("stage")
      BY <3>1, TellsInFull DEF StagingKinds
    <3>2. CASE ConfirmRepoKey
      <4> DEFINE f(t) == IF /\ session # NoSession /\ Head(wq).key = workerKey
                            /\ t.sess = session /\ t.key = Head(wq).key
                         THEN [t EXCEPT !.key = NoKey] ELSE t
      <4>1. txs' = {f(t) : t \in txs} BY <3>2 DEF ConfirmRepoKey
      <4>2. \A t \in txs : f(t).kind = t.kind /\ f(t).phase = t.phase
        BY DEF TypeOK, Transaction
      <4> HIDE DEF f
      <4> QED BY <4>1, <4>2 DEF StagingKinds
    <3>3. CASE UNCHANGED txs BY <3>3 DEF StagingKinds
    <3> QED
      BY <1>5, <3>1, <3>2, <3>3
      DEF WorkerStages, CheckBegin, CheckEnd, ChangelogBegin, ChangelogEnd,
          TransactionBegin, StageReply, CancelOperation, CleanOffline, HandleSignal,
          HandleKeyRequest, daemonVars
  <2> QED BY <2>1, <2>2, <2>3, <2>4 DEF StagingKinds
<1>6. CASE DaemonStages
  <2>1. ASSUME NEW t \in txs, DaemonDownloads(t) \/ DaemonAsksKey(t) \/ DaemonReplies(t)
        PROVE  /\ wq' \in Seq(StagingEvent)
               /\ \A u \in txs' : u.kind = "stage" /\ u.phase \in {"sent", "downloading"}
    <3>1. /\ t.kind = "stage" /\ t.phase \in {"sent", "downloading"}
          /\ t.sess \in Sessions /\ t \in Transaction
      BY DEF TypeOK, StagingKinds, Transaction
    <3>2. CASE DaemonDownloads(t)
      <4>1. wq' \in Seq(StagingEvent) BY <1>1, <3>2, DaemonTouches
      <4>2. [t EXCEPT !.phase = "downloading"].kind = "stage"
        BY <3>1 DEF Transaction
      <4>3. [t EXCEPT !.phase = "downloading"].phase = "downloading"
        BY <3>1 DEF Transaction
      <4> QED BY <3>2, <4>1, <4>2, <4>3 DEF DaemonDownloads, Advance, StagingKinds
    <3>3. CASE DaemonAsksKey(t)
      <4>1. wq' \in Seq(StagingEvent) BY <1>1, <3>3, DaemonTouches
      <4>2. \A k : /\ [t EXCEPT !.key = k].kind = t.kind
                   /\ [t EXCEPT !.key = k].phase = t.phase
        BY <3>1 DEF Transaction
      <4> QED BY <3>1, <3>3, <4>1, <4>2 DEF DaemonAsksKey, StagingKinds
    <3>4. CASE DaemonReplies(t)
      <4>1. PICK res \in Results :
               wq' = Append(wq, [e |-> "reply", kind |-> t.kind, sess |-> t.sess,
                                 res |-> res])
        BY <3>4 DEF DaemonReplies
      <4>2. [e |-> "reply", kind |-> t.kind, sess |-> t.sess, res |-> res]
               \in StagingEvent
        BY <3>1 DEF StagingEvent, Ev, Event, TxKinds
      <4> QED BY <3>4, <4>1, <4>2 DEF DaemonReplies, StagingKinds
    <3> QED BY <2>1, <3>2, <3>3, <3>4
  <2>2. CASE DaemonAsksEarly
    <3>1. wq' \in Seq(StagingEvent) BY <1>1, <2>2, DaemonTouches
    <3>2. gq' \in Seq(StagingNotice) /\ UNCHANGED <<pc, timers, txs>>
      BY <1>2, <1>6, <2>2 DEF DaemonStages, DaemonAsksEarly, workerVars
    <3> QED BY <3>1, <3>2 DEF StagingKinds
  <2>3. gq' \in Seq(StagingNotice) /\ pc' = pc /\ timers' = timers
    BY <1>2, <1>6 DEF DaemonStages, workerVars
  <2>4. /\ wq' \in Seq(StagingEvent)
        /\ \A u \in txs' : u.kind = "stage" /\ u.phase \in {"sent", "downloading"}
    <3>1. CASE DaemonAsksEarly BY <2>2, <3>1 DEF StagingKinds
    <3>2. CASE \E t \in txs : DaemonDownloads(t) \/ DaemonAsksKey(t) \/ DaemonReplies(t)
      BY <2>1, <3>2
    <3> QED BY <1>6, <3>1, <3>2 DEF DaemonStages
  <2> QED BY <2>3, <2>4 DEF StagingKinds
<1> QED BY <1>3, <1>4, <1>5, <1>6

-----------------------------------------------------------------------------
(* The one place of the staged download (FlightInv), in terms of the two   *)
(* queues.                                                                 *)
Requests == Ev({"stage", "reply"})
Finished == No({"finished"})
Downloading == Has(wq, Requests) \/ pc = "stage" \/ txs # {}

StagingPlaces ==
    /\ One(wq, Requests) /\ One(gq, Finished)
    /\ Has(wq, Requests) => pc # "stage" /\ txs = {}
    /\ pc = "stage" => txs = {}
    /\ \A t, u \in txs : t = u
    /\ Downloading => ~Has(gq, Finished)
    /\ Upgrading <=> (Downloading \/ Has(gq, Finished))
    /\ Has(wq, Ev({"progress"})) => Downloading

(* FlightInv, said of the queues.                                          *)
LEMMA PlacesHeld == TypeOK /\ FlightInv /\ StagingKinds => StagingPlaces
<1> SUFFICES ASSUME TypeOK, FlightInv, StagingKinds PROVE StagingPlaces
  OBVIOUS
<1>1. /\ \A i \in DOMAIN wq : wq[i] \in Event /\ wq[i].e # "inplace"
      /\ \A i \in DOMAIN gq : gq[i] \in Notice
  <2>1. /\ \A i \in DOMAIN wq : wq[i] \in StagingEvent
        /\ \A i \in DOMAIN gq : gq[i] \in StagingNotice
    BY DEF StagingKinds
  <2> QED BY <2>1 DEF StagingEvent, StagingNotice, Ev, No, StagingOps
<1>2. /\ \A i \in DOMAIN wq : i \in Tokens <=> wq[i] \in Requests
      /\ Tokens \subseteq DOMAIN wq
  BY <1>1 DEF Tokens, Requests, Ev, UpgradeOps
<1>3. /\ \A i \in DOMAIN gq : i \in Ends <=> gq[i] \in Finished
      /\ Ends \subseteq DOMAIN gq
  BY <1>1 DEF Ends, Finished, No
<1>4. (Has(wq, Requests) <=> Tokens # {}) /\ (Has(gq, Finished) <=> Ends # {})
  BY <1>2, <1>3 DEF Has
<1>5. One(wq, Requests) /\ One(gq, Finished)
  BY <1>2, <1>3 DEF One, FlightInv, Once
<1>6. pc \in UpgradeOps <=> pc = "stage" BY DEF StagingKinds, UpgradeOps
<1>7. timers = 0 BY DEF StagingKinds
<1>8. /\ Has(wq, Requests) => pc # "stage" /\ txs = {}
      /\ pc = "stage" => txs = {}
      /\ \A t, u \in txs : t = u
      /\ Downloading => ~Has(gq, Finished)
  BY <1>4, <1>6 DEF FlightInv, OnePlace, Once, Downloading
<1>9. Upgrading <=> (Downloading \/ Has(gq, Finished))
  BY <1>4, <1>6, <1>7 DEF FlightInv, Indicated, Downloading
<1>10. Has(wq, Ev({"progress"})) => Downloading
  <2> SUFFICES ASSUME NEW i \in DOMAIN wq, wq[i] \in Ev({"progress"})
               PROVE  Downloading
    BY DEF Has
  <2>1. txs # {} \/ Replies # {}
    BY DEF Ev, Signals, FlightInv, SignalsFirst
  <2>2. Replies \subseteq Tokens BY DEF Replies, Tokens
  <2> QED BY <1>4, <2>1, <2>2 DEF Downloading
<1> QED BY <1>5, <1>8, <1>9, <1>10 DEF StagingPlaces

-----------------------------------------------------------------------------
(* A check is in one place too: requested, in its handler, or as an answer *)
(* in the GUI's queue, and while it is anywhere isChecking is set.         *)
Checks == Ev({"check"})
CheckStarts == No({"checkStarted"})
CheckEnds == No({"checkFinished"})

CheckPlaces ==
    /\ busy \in {{}, {"checking"}, {"downloading"}}
    /\ One(wq, Checks) /\ One(gq, CheckEnds)
    /\ Has(wq, Checks) => pc # "checking" /\ ~Has(gq, CheckEnds)
    /\ pc = "checking" => ~Has(gq, CheckEnds)
    /\ "checking" \in busy <=>
          (Has(wq, Checks) \/ pc = "checking" \/ Has(gq, CheckEnds))
    /\ pc = "checking" \/ Precede(gq, CheckStarts, CheckEnds)

(* Neither queue, nor the handler, nor the flag of a check.                *)
LEMMA CheckQuiet ==
    ASSUME TypeOK, CheckPlaces, busy' \in {{}, {"checking"}, {"downloading"}},
           NEW K, Touches(wq, wq', Ev(K)), "check" \notin K,
           NEW L, Touches(gq, gq', No(L)), L \cap {"checkStarted", "checkFinished"} = {},
           pc' = "checking" <=> pc = "checking",
           "checking" \in busy' <=> "checking" \in busy
    PROVE  CheckPlaces'
<1>1. /\ wq \in Seq(Event) /\ Ev(K) \in SUBSET Event /\ Ev(K) \cap Checks = {}
      /\ gq \in Seq(Notice) /\ No(L) \in SUBSET Notice
      /\ No(L) \cap CheckStarts = {} /\ No(L) \cap CheckEnds = {}
  BY DEF TypeOK, Ev, No, Checks, CheckStarts, CheckEnds
<1>2. /\ Has(wq', Checks) <=> Has(wq, Checks)
      /\ One(wq', Checks)
      /\ Has(gq', CheckEnds) <=> Has(gq, CheckEnds)
      /\ One(gq', CheckEnds)
      /\ Precede(gq, CheckStarts, CheckEnds) => Precede(gq', CheckStarts, CheckEnds)
  <2>1. (Has(wq', Checks) <=> Has(wq, Checks)) /\ One(wq', Checks)
    BY <1>1, Untouched DEF CheckPlaces
  <2>2. (Has(gq', CheckEnds) <=> Has(gq, CheckEnds)) /\ One(gq', CheckEnds)
    BY <1>1, Untouched DEF CheckPlaces
  <2>3. Precede(gq, CheckStarts, CheckEnds) => Precede(gq', CheckStarts, CheckEnds)
    BY <1>1, Untouched
  <2> QED BY <2>1, <2>2, <2>3
<1> QED BY <1>2 DEF CheckPlaces

(* The GUI takes the notice its slot is for.                               *)
LEMMA GuiTakes ==
    ASSUME TypeOK, GuiStages
    PROVE  /\ gq # <<>> /\ gq \in Seq(Notice) /\ gq' = Tail(gq) /\ Head(gq) \in Notice
           /\ HandleCheckStarted <=> Head(gq).n = "checkStarted" /\ HandleCheckStarted
           /\ wq' = wq /\ pc' = pc
           /\ \A L : Head(gq).n \in L => Touches(gq, gq', No(L))
<1>1. gq # <<>> /\ gq' = Tail(gq) /\ wq' = wq /\ pc' = pc
  BY DEF GuiStages, Receive, HandleCheckStarted, HandleCheckFinished, workerVars,
         HandleRepoKeyImportRequested, HandleOperationFinished,
         HandleOfflineStagedReady, HandleChangelogFetched
<1>2. gq \in Seq(Notice) /\ Head(gq) \in Notice BY <1>1 DEF TypeOK
<1>3. HandleCheckStarted => Head(gq).n = "checkStarted"
  BY DEF HandleCheckStarted, Receive
<1> QED BY <1>1, <1>2, <1>3 DEF Touches, No

(* A check stays in one place.                                             *)
LEMMA CheckKept ==
    ASSUME TypeOK, StagingKinds, CheckPlaces, StagingPlaces,
           UserStages \/ GuiStages \/ WorkerStages \/ DaemonStages
    PROVE  CheckPlaces'
<1>1. CASE UserStages
  <2>1. gq' = gq /\ pc' = pc BY <1>1 DEF UserStages, workerVars
  <2>2. CASE CheckForUpdates
    <3>1. busy = {} /\ busy' = {"checking"} /\ wq' = Append(wq, [e |-> "check"])
      BY <2>2 DEF CheckForUpdates, StartOperation, Post, isBusy
    <3>2. [e |-> "check"] \in Event /\ [e |-> "check"] \in Checks
      BY DEF Event, Plain, Checks, Ev
    <3>3. ~Has(wq, Checks) /\ wq \in Seq(Event)
      BY <3>1 DEF TypeOK, CheckPlaces
    <3>4. Has(wq', Checks) /\ One(wq', Checks)
      BY <3>1, <3>2, <3>3, AppendHolds
    <3> QED BY <2>1, <3>1, <3>4 DEF CheckPlaces
  <2>3. CASE StageOfflineUpgrade
    <3>1. busy = {} /\ busy' = {"downloading"}
      BY <2>3 DEF StageOfflineUpgrade, StartOperation, isBusy
    <3> QED BY <2>1, <2>3, <3>1, UserTouches, NotTouched, CheckQuiet
  <2>4. CASE FetchChangelog \/ CancelClicked \/ DiscardClicked \/ ConfirmClicked
    <3>1. busy' = busy
      BY <2>4 DEF FetchChangelog, CancelClicked, DiscardClicked, ConfirmClicked,
                  PostAnyway
    <3>2. busy' \in {{}, {"checking"}, {"downloading"}} BY <3>1 DEF CheckPlaces
    <3>3. \E K : Touches(wq, wq', Ev(K)) /\ "check" \notin K
      BY <2>4, UserTouches
    <3> QED BY <2>1, <3>1, <3>2, <3>3, NotTouched, CheckQuiet
  <2> QED BY <1>1, <2>2, <2>3, <2>4 DEF UserStages
<1>2. CASE GuiStages
  <2>0. /\ gq # <<>> /\ gq \in Seq(Notice) /\ gq' = Tail(gq) /\ Head(gq) \in Notice
        /\ wq' = wq /\ pc' = pc
        /\ \A L : Head(gq).n \in L => Touches(gq, gq', No(L))
    BY <1>2, GuiTakes
  <2>1. CASE HandleCheckStarted
    <3>1. Head(gq) \in CheckStarts /\ Head(gq) \notin CheckEnds
      BY <2>0, <2>1 DEF HandleCheckStarted, Receive, CheckStarts, CheckEnds, No
    <3>2. /\ Has(gq, CheckStarts)
          /\ Has(gq', CheckEnds) <=> Has(gq, CheckEnds)
          /\ One(gq', CheckEnds)
          /\ Precede(gq, CheckStarts, CheckEnds) => Precede(gq', CheckStarts, CheckEnds)
      <4>1. Has(gq, CheckStarts) /\ One(gq', CheckEnds)
        BY <2>0, <3>1, TailHolds DEF CheckPlaces
      <4>2. Has(gq', CheckEnds) <=> Has(gq, CheckEnds)
        BY <2>0, <3>1, TailHolds
      <4>3. Precede(gq, CheckStarts, CheckEnds) => Precede(gq', CheckStarts, CheckEnds)
        BY <2>0, TailHolds
      <4> QED BY <4>1, <4>2, <4>3
    <3>3. Precede(gq, CheckStarts, CheckEnds) => Has(gq, CheckEnds)
      BY <3>2, HoldsNot
    <3>4. "checking" \in busy BY <3>2, <3>3 DEF CheckPlaces
    <3>5. busy' = busy
      BY <2>1, <3>4 DEF HandleCheckStarted
    <3> QED BY <2>0, <3>2, <3>5 DEF CheckPlaces
  <2>2. CASE HandleCheckFinished
    <3>1. Head(gq) \in CheckEnds
      BY <2>0, <2>2 DEF HandleCheckFinished, Receive, CheckEnds, No
    <3>2. /\ Has(gq, CheckEnds) /\ ~Has(gq', CheckEnds)
          /\ One(gq', CheckEnds)
          /\ Precede(gq, CheckStarts, CheckEnds) => Precede(gq', CheckStarts, CheckEnds)
      <4>1. Has(gq, CheckEnds) /\ ~Has(gq', CheckEnds)
        BY <2>0, <3>1, TailHolds DEF CheckPlaces
      <4>2. Precede(gq, CheckStarts, CheckEnds) => Precede(gq', CheckStarts, CheckEnds)
        BY <2>0, TailHolds
      <4> QED BY <4>1, <4>2, HoldsNot
    <3>3. "checking" \in busy /\ busy' = busy \ {"checking"}
      BY <2>2, <3>2 DEF HandleCheckFinished, CheckPlaces
    <3>4. busy' = {} BY <3>3 DEF CheckPlaces
    <3> QED BY <2>0, <3>2, <3>4 DEF CheckPlaces
  <2>3. CASE HandleOperationFinished
    <3>1. busy' = busy \cap {"checking"} /\ Head(gq).n = "finished"
      BY <2>3 DEF HandleOperationFinished, Receive
    <3>2. busy' \in {{}, {"checking"}, {"downloading"}} BY <3>1 DEF CheckPlaces
    <3> QED BY <2>0, <3>1, <3>2, NotTouched, CheckQuiet
  <2>4. CASE \/ Receive("stageShown") /\ HandleProgressStageUpdated
             \/ HandleRepoKeyImportRequested \/ HandleOfflineStagedReady
             \/ HandleChangelogFetched
    <3>1. /\ busy' = busy
          /\ Head(gq).n \in {"stageShown", "keyRequested", "offlineReady",
                             "changelogFetched"}
      BY <2>4 DEF HandleProgressStageUpdated, HandleRepoKeyImportRequested, Receive,
                  HandleOfflineStagedReady, HandleChangelogFetched
    <3>2. busy' \in {{}, {"checking"}, {"downloading"}} BY <3>1 DEF CheckPlaces
    <3> QED BY <2>0, <3>1, <3>2, NotTouched, CheckQuiet
  <2> QED BY <1>2, <2>1, <2>2, <2>3, <2>4 DEF GuiStages
<1>3. CASE WorkerStages
  <2>1. busy' = busy BY <1>3 DEF WorkerStages, guiVars
  <2>2. busy' \in {{}, {"checking"}, {"downloading"}} BY <2>1 DEF CheckPlaces
  <2>3. CASE CheckBegin
    <3>1. wq # <<>> /\ wq' = Tail(wq) /\ Head(wq) \in Checks /\ wq \in Seq(Event)
      BY <2>3, TakeType DEF CheckBegin, Take, Checks, Ev, StagingKinds, TypeOK
    <3>2. Has(wq, Checks) /\ ~Has(wq', Checks)
      BY <3>1, TailHolds DEF CheckPlaces
    <3>3. /\ ~Has(gq, CheckEnds) /\ Precede(gq, CheckStarts, CheckEnds)
          /\ "checking" \in busy /\ gq \in Seq(Notice)
      BY <3>2 DEF CheckPlaces, TypeOK
    <3>4. CASE gq' = gq \o <<Note("checkStarted")>> /\ pc' = "checking"
      <4>1. Touches(gq, gq', CheckStarts)
        BY <3>4, NoticesOf DEF Touches, CheckStarts
      <4>2. CheckStarts \in SUBSET Notice /\ CheckStarts \cap CheckEnds = {}
        BY DEF CheckStarts, CheckEnds, No
      <4>3. ~Has(gq', CheckEnds) BY <3>3, <4>1, <4>2, Untouched
      <4> QED BY <2>1, <3>2, <3>3, <3>4, <4>3, HoldsNot DEF CheckPlaces
    <3>5. CASE gq' = gq \o <<Note("checkStarted"), CheckDone("failed")>> /\ pc' = "idle"
      <4> DEFINE r == <<Note("checkStarted"), CheckDone("failed")>>
      <4>1. r \in Seq(Notice) /\ r[1] \notin CheckEnds /\ r[2] \in CheckEnds
        BY DEF Note, CheckDone, CheckEnds, No, Notice
      <4>2. Has(r, CheckEnds) /\ One(r, CheckEnds) /\ Precede(r, CheckStarts, CheckEnds)
        <5>1. DOMAIN r = {1, 2} OBVIOUS
        <5>2. r[2] \notin CheckStarts BY <4>1 DEF CheckStarts, CheckEnds, No
        <5> HIDE DEF r
        <5> QED BY <4>1, <5>1, <5>2 DEF Has, One, Precede
      <4> HIDE DEF r
      <4>3. gq' = gq \o r BY <3>5 DEF r
      <4>4. Has(gq', CheckEnds) /\ One(gq', CheckEnds)
        BY <3>3, <4>1, <4>2, <4>3, ConcatHolds
      <4>5. Precede(gq', CheckStarts, CheckEnds)
        BY <3>3, <4>1, <4>2, <4>3, ConcatHolds
      <4> QED BY <2>1, <3>2, <3>3, <3>5, <4>4, <4>5, HoldsNot DEF CheckPlaces
    <3> QED BY <2>3, <3>4, <3>5, TellsInFull
  <2>4. CASE CheckEnd
    <3>1. pc = "checking" /\ pc' = "idle" /\ wq' = wq /\ gq \in Seq(Notice)
      BY <2>4 DEF CheckEnd, TypeOK
    <3>2. /\ ~Has(gq, CheckEnds) /\ ~Has(wq, Checks) /\ "checking" \in busy
      BY <3>1 DEF CheckPlaces
    <3>3. PICK r \in Seq(Notice) : /\ gq' = gq \o r
                                   /\ Has(r, CheckEnds) /\ One(r, CheckEnds)
                                   /\ Precede(r, CheckStarts, CheckEnds)
      <4>1. PICK u \in Upgrades \cup {"failed"} :
               \/ gq' = gq \o <<CheckDone(u)>>
               \/ gq' = gq \o <<Told("offlineReady", staged), CheckDone(u)>>
        BY <2>4, TellsInFull
      <4>2. /\ CheckDone(u) \in Notice /\ CheckDone(u) \in CheckEnds
            /\ CheckDone(u) \notin CheckStarts
        BY DEF CheckDone, Notice, CheckEnds, CheckStarts, No
      <4>3. /\ Told("offlineReady", staged) \in Notice
            /\ Told("offlineReady", staged) \notin CheckEnds
            /\ Told("offlineReady", staged) \notin CheckStarts
        BY DEF Told, Notice, CheckEnds, CheckStarts, No, TypeOK
      <4>4. \A x, y : /\ Has(<<x>>, CheckEnds) <=> x \in CheckEnds
                      /\ One(<<x>>, CheckEnds)
                      /\ x \notin CheckStarts => Precede(<<x>>, CheckStarts, CheckEnds)
                      /\ y \in CheckEnds => Has(<<x, y>>, CheckEnds)
                      /\ x \notin CheckEnds => One(<<x, y>>, CheckEnds)
                      /\ x \notin CheckStarts /\ y \notin CheckStarts =>
                            Precede(<<x, y>>, CheckStarts, CheckEnds)
        BY DEF Has, One, Precede
      <4>5. CASE gq' = gq \o <<CheckDone(u)>>
        <5>1. <<CheckDone(u)>> \in Seq(Notice) BY <4>2
        <5> QED BY <4>2, <4>4, <4>5, <5>1
      <4>6. CASE gq' = gq \o <<Told("offlineReady", staged), CheckDone(u)>>
        <5>1. <<Told("offlineReady", staged), CheckDone(u)>> \in Seq(Notice)
          BY <4>2, <4>3
        <5> QED BY <4>2, <4>3, <4>4, <4>6, <5>1
      <4> QED BY <4>1, <4>5, <4>6
    <3>4. Has(gq', CheckEnds) /\ One(gq', CheckEnds)
      BY <3>1, <3>2, <3>3, ConcatHolds
    <3>5. Precede(gq', CheckStarts, CheckEnds)
      BY <3>1, <3>2, <3>3, ConcatHolds
    <3> QED BY <2>1, <3>1, <3>2, <3>4, <3>5, HoldsNot DEF CheckPlaces
  <2>5. CASE ~CheckBegin /\ ~CheckEnd
    <3>1. pc' = "checking" <=> pc = "checking"
      BY <1>3, <2>5 DEF WorkerStages, ChangelogBegin, ChangelogEnd, TransactionBegin,
         TransactionSend, StageReply, CancelOperation, CleanOffline, ConfirmRepoKey,
         HandleSignal, HandleKeyRequest, Take, TakeReply, workerVars
    <3>2. \E e : Touches(wq, wq', Ev({e})) /\ e # "check"
      BY <1>3, <2>5, WorkerTakesOne
    <3>3. \E L : /\ Touches(gq, gq', No(L))
                 /\ L \cap {"checkStarted", "checkFinished"} = {}
      BY <1>3, <2>5, WorkerTells, NotTouched DEF WorkerStages
    <3> QED BY <2>1, <2>2, <3>1, <3>2, <3>3, CheckQuiet
  <2> QED BY <2>3, <2>4, <2>5
<1>4. CASE DaemonStages
  <2>1. gq' = gq /\ pc' = pc /\ busy' = busy
    BY <1>4 DEF DaemonStages, workerVars, guiVars
  <2>2. busy' \in {{}, {"checking"}, {"downloading"}} BY <2>1 DEF CheckPlaces
  <2>3. \E K : Touches(wq, wq', Ev(K)) /\ "check" \notin K
    BY <1>4, DaemonTouches DEF DaemonStages
  <2> QED BY <2>1, <2>2, <2>3, NotTouched, CheckQuiet
<1> QED BY <1>1, <1>2, <1>3, <1>4

-----------------------------------------------------------------------------
(* Progress is only shown while something is on its way, and what the      *)
(* worker tells of a download's progress the GUI reads before its end.     *)
Shown == No({"stageShown"})

StageShown ==
    /\ stage => isBusy
    /\ Has(gq, Shown) => "downloading" \in busy
    /\ Has(gq, Finished) => Precede(gq, Shown, Finished)

(* With staged updates only, an upgrade is a download.                     *)
LEMMA UpgradeIsDownload ==
    CheckPlaces => /\ Upgrading <=> "downloading" \in busy
                   /\ Upgrading => "checking" \notin busy
BY DEF CheckPlaces, Upgrading

(* What the GUI takes is gone; what is left was there before.              *)
LEMMA GuiLeaves ==
    ASSUME TypeOK, GuiStages
    PROVE  \A A, B : /\ Has(gq', A) => Has(gq, A)
                     /\ One(gq, A) => One(gq', A)
                     /\ Precede(gq, A, B) => Precede(gq', A, B)
                     /\ Head(gq) \in A => Has(gq, A)
                     /\ One(gq, A) /\ Head(gq) \in A => ~Has(gq', A)
                     /\ Head(gq) \notin A => (Has(gq, A) <=> Has(gq', A))
                     /\ Precede(gq, A, B) /\ One(gq, B) /\ Head(gq) \in B => ~Has(gq, A)
<1>1. gq # <<>> /\ gq \in Seq(Notice) /\ gq' = Tail(gq) BY GuiTakes
<1> QED BY <1>1, TailHolds

(* Which of the sets of notices those the handlers emit are of.            *)
LEMMA NoticeSets ==
    /\ \A b \in BOOLEAN : /\ Told("finished", b) \in Finished \cap Notice
                          /\ Told("finished", b) \notin Shown
                          /\ Told("offlineReady", b) \in Notice
                          /\ Told("offlineReady", b) \notin Shown \cup Finished
    /\ Note("stageShown") \in Shown \cap Notice /\ Note("stageShown") \notin Finished
BY DEF Told, Note, Notice, Finished, Shown, No

(* The answers of a staged download end with the end.                      *)
LEMMA OutcomesEnd ==
    \A ns \in StageOutcomes \cup {<<Told("finished", FALSE)>>} :
       LET ms == <<Told("offlineReady", FALSE)>> \o ns
       IN \A r \in {ns, ms} : /\ r \in Seq(Notice) /\ ~Has(r, Shown)
                              /\ Has(r, Finished) /\ Precede(r, Shown, Finished)
<1> SUFFICES ASSUME NEW ns \in StageOutcomes \cup {<<Told("finished", FALSE)>>}
             PROVE  LET ms == <<Told("offlineReady", FALSE)>> \o ns
                    IN \A r \in {ns, ms} : /\ r \in Seq(Notice) /\ ~Has(r, Shown)
                                           /\ Has(r, Finished)
                                           /\ Precede(r, Shown, Finished)
  OBVIOUS
<1> DEFINE hd == <<Told("offlineReady", FALSE)>>
<1> DEFINE no == Told("offlineReady", FALSE)
           yes == Told("offlineReady", TRUE)
           end == Told("finished", TRUE)
<1>0. /\ no \in Notice /\ no \notin Shown
      /\ yes \in Notice /\ yes \notin Shown
      /\ end \in Notice /\ end \notin Shown /\ end \in Finished
  BY NoticeSets
<1> HIDE DEF no, yes, end
<1>1. hd \in Seq(Notice) /\ ~Has(hd, Shown)
  <2>1. <<no>> \in Seq(Notice) /\ ~Has(<<no>>, Shown)
    BY <1>0, FewHold
  <2> QED BY <2>1 DEF no
<1>2. ns \in Seq(Notice) /\ ~Has(ns, Shown) /\ Has(ns, Finished)
  <2>1. CASE ns = <<Told("finished", FALSE)>>
    BY <2>1, NoticeSets, FewHold
  <2>2. CASE ns = <<Told("offlineReady", TRUE), Told("finished", TRUE)>>
    <3>1. <<yes, end>> \in Seq(Notice) BY <1>0, FewHold
    <3>2. ~Has(<<yes, end>>, Shown) /\ Has(<<yes, end>>, Finished)
      BY <1>0, FewHold
    <3> QED BY <2>2, <3>1, <3>2 DEF yes, end
  <2> QED BY <2>1, <2>2 DEF StageOutcomes
<1> HIDE DEF hd
<1>3. hd \o ns \in Seq(Notice) BY <1>1, <1>2, ConcatType
<1>4. ~Has(hd \o ns, Shown) /\ Has(hd \o ns, Finished)
  BY <1>1, <1>2, ConcatHolds
<1> QED BY <1>2, <1>3, <1>4, HoldsNot DEF hd

(* Progress on the screen stays owed to an operation.                      *)
LEMMA ShownKept ==
    ASSUME TypeOK, StagingKinds, CheckPlaces, CheckPlaces', StagingPlaces,
           StagingPlaces', StageShown,
           UserStages \/ GuiStages \/ WorkerStages \/ DaemonStages
    PROVE  StageShown'
<1>0. /\ Upgrading <=> "downloading" \in busy
      /\ Upgrading => "checking" \notin busy
      /\ gq \in Seq(Notice)
  BY UpgradeIsDownload DEF TypeOK
<1>1. CASE UserStages
  <2>1. gq' = gq BY <1>1 DEF UserStages
  <2>2. CASE CheckForUpdates \/ StageOfflineUpgrade
    <3>1. busy = {} /\ busy' # {}
      BY <2>2 DEF CheckForUpdates, StageOfflineUpgrade, StartOperation, isBusy
    <3> QED BY <2>1, <3>1, HoldsNot DEF StageShown, isBusy
  <2>3. CASE FetchChangelog \/ CancelClicked \/ DiscardClicked \/ ConfirmClicked
    <3>1. UNCHANGED <<busy, stage>>
      BY <2>3 DEF FetchChangelog, CancelClicked, DiscardClicked, ConfirmClicked,
                  PostAnyway
    <3> QED BY <2>1, <3>1 DEF StageShown, isBusy
  <2> QED BY <1>1, <2>2, <2>3 DEF UserStages
<1>2. CASE GuiStages
  <2>0. /\ Has(gq', Shown) => Has(gq, Shown)
        /\ Has(gq', Finished) => Precede(gq', Shown, Finished)
    BY <1>2, GuiLeaves DEF StageShown
  <2>1. CASE HandleCheckStarted
    BY <2>0, <2>1 DEF HandleCheckStarted, StageShown, isBusy
  <2>2. CASE HandleCheckFinished
    <3>1. Head(gq) \in CheckEnds
      BY <1>2, <2>2, GuiTakes DEF HandleCheckFinished, Receive, CheckEnds, No
    <3>2. "downloading" \notin busy
      BY <1>0, <1>2, <3>1, GuiLeaves DEF CheckPlaces
    <3> QED BY <2>0, <2>2, <3>2 DEF HandleCheckFinished, StageShown
  <2>3. CASE HandleOperationFinished
    <3>1. Head(gq) \in Finished
      BY <1>2, <2>3, GuiTakes DEF HandleOperationFinished, Receive, Finished, No
    <3>2. ~Has(gq, Shown)
      BY <1>2, <3>1, GuiLeaves DEF StagingPlaces, StageShown
    <3> QED BY <2>0, <2>3, <3>2 DEF HandleOperationFinished, StageShown
  <2>4. CASE Receive("stageShown") /\ HandleProgressStageUpdated
    <3>1. Head(gq) \in Shown
      BY <1>2, <2>4, GuiTakes DEF Receive, Shown, No
    <3>2. "downloading" \in busy
      BY <1>2, <3>1, GuiLeaves DEF StageShown
    <3> QED
      BY <2>0, <2>4, <3>2 DEF HandleProgressStageUpdated, Receive, StageShown, isBusy
  <2>5. CASE \/ HandleRepoKeyImportRequested \/ HandleOfflineStagedReady
             \/ HandleChangelogFetched
    BY <2>0, <2>5 DEF HandleRepoKeyImportRequested, HandleOfflineStagedReady,
                      HandleChangelogFetched, StageShown, isBusy
  <2> QED BY <1>2, <2>1, <2>2, <2>3, <2>4, <2>5 DEF GuiStages
<1>3. CASE WorkerStages
  <2>1. UNCHANGED <<busy, stage>> BY <1>3 DEF WorkerStages, guiVars
  <2>2. ASSUME gq' = gq \o <<Note("stageShown")>>, Upgrading, ~Has(gq', Finished)
        PROVE  StageShown'
    BY <1>0, <2>1, <2>2 DEF StageShown, isBusy
  <2>3. ASSUME NEW r \in Seq(Notice), gq' = gq \o r, ~Has(r, Shown), Has(r, Finished),
               Precede(r, Shown, Finished)
        PROVE  StageShown'
    <3>1. (Has(gq', Shown) <=> Has(gq, Shown)) /\ Precede(gq', Shown, Finished)
      BY <1>0, <2>3, ConcatHolds
    <3> QED BY <2>1, <3>1 DEF StageShown, isBusy
  <2>4. CASE TransactionBegin("stage")
    <3>1. wq # <<>> /\ wq \in Seq(Event) /\ Head(wq) \in Requests
      BY <2>4, TakeType DEF TransactionBegin, Take, Requests, Ev, TypeOK
    <3>2. Downloading BY <3>1, TailHolds DEF Downloading
    <3>3. CASE gq' = gq \o <<Note("stageShown")>> /\ pc' = "stage"
      BY <2>2, <3>2, <3>3 DEF StagingPlaces, Downloading
    <3>4. CASE gq' = gq \o <<Told("finished", FALSE)>>
      BY <2>3, <3>4, OutcomesEnd
    <3> QED BY <2>4, <3>3, <3>4, TellsInFull
  <2>5. CASE TransactionSend("stage")
    <3>1. Downloading BY <2>5 DEF TransactionSend, Downloading
    <3>2. CASE gq' = gq \o <<Note("stageShown")>> /\ txs' # {}
      BY <2>2, <3>1, <3>2 DEF StagingPlaces, Downloading
    <3>3. CASE gq' = gq \o <<Told("finished", FALSE)>>
      BY <2>3, <3>3, OutcomesEnd
    <3> QED BY <2>5, <3>2, <3>3, TellsInFull
  <2>6. CASE StageReply
    <3>1. PICK ns \in StageOutcomes :
             gq' = gq \o ns \/ gq' = gq \o (<<Told("offlineReady", FALSE)>> \o ns)
      BY <2>6, TellsInFull
    <3>2. CASE gq' = gq \o ns BY <2>3, <3>2, OutcomesEnd
    <3>3. CASE gq' = gq \o (<<Told("offlineReady", FALSE)>> \o ns)
      BY <2>3, <3>3, OutcomesEnd
    <3> QED BY <3>1, <3>2, <3>3
  <2>7. CASE Take("progress") /\ HandleSignal
    <3>1. wq # <<>> /\ wq \in Seq(Event) /\ Head(wq) \in Ev({"progress"})
      BY <2>7, TakeType DEF Take, Ev, TypeOK
    <3>2. Downloading BY <3>1, TailHolds DEF StagingPlaces
    <3>3. gq' = gq \o <<Note("stageShown")>>
      BY <2>7 DEF HandleSignal, Take, Emit
    <3>4. ~Has(gq', Finished)
      <4>1. Touches(gq, gq', Shown) BY <2>7, WorkerTells DEF Shown
      <4>2. Shown \in SUBSET Notice /\ Shown \cap Finished = {}
        BY DEF Shown, Finished, No
      <4> QED BY <1>0, <3>2, <4>1, <4>2, Untouched DEF StagingPlaces
    <3> QED BY <2>2, <3>2, <3>3, <3>4 DEF StagingPlaces
  <2>8. ASSUME NEW L, Touches(gq, gq', No(L)), L \cap {"stageShown", "finished"} = {}
        PROVE  StageShown'
    <3>1. /\ No(L) \in SUBSET Notice
          /\ No(L) \cap Shown = {} /\ No(L) \cap Finished = {}
      BY <2>8 DEF No, Shown, Finished
    <3>2. /\ Has(gq', Shown) <=> Has(gq, Shown)
          /\ Precede(gq, Shown, Finished) => Precede(gq', Shown, Finished)
      BY <1>0, <2>8, <3>1, Untouched
    <3>3. Has(gq', Finished) <=> Has(gq, Finished)
      BY <1>0, <2>8, <3>1, Untouched
    <3> QED BY <2>1, <3>2, <3>3 DEF StageShown, isBusy
  <2>9. CASE \/ CheckBegin \/ CheckEnd \/ ChangelogBegin \/ ChangelogEnd \/ CleanOffline
             \/ CancelOperation \/ ConfirmRepoKey \/ HandleKeyRequest
    <3>1. \E L : Touches(gq, gq', No(L)) /\ L \cap {"stageShown", "finished"} = {}
      BY <2>9, WorkerTells, NotTouched
    <3> QED BY <2>8, <3>1
  <2> QED BY <1>3, <2>4, <2>5, <2>6, <2>7, <2>9 DEF WorkerStages
<1>4. CASE DaemonStages
  BY <1>4 DEF DaemonStages, guiVars, StageShown, isBusy
<1> QED BY <1>1, <1>2, <1>3, <1>4

-----------------------------------------------------------------------------
(* While a download is on its way the interface does not say that updates  *)
(* are ready, and what will make it say so is read before the end of the   *)
(* operation that told it.                                                 *)
Offers == {x \in Notice : x.n = "offlineReady" /\ x.ok}

ReadyOffered ==
    /\ Downloading => ~ready
    /\ Precede(gq, Offers, Finished \cup CheckEnds)

(* A download only starts with a click.                                    *)
LEMMA DownloadingStarts ==
    ASSUME TypeOK, StagingKinds, Downloading',
           UserStages \/ GuiStages \/ WorkerStages \/ DaemonStages
    PROVE  Downloading \/ StageOfflineUpgrade
<1>0. wq \in Seq(Event) BY DEF TypeOK
<1>1. CASE UserStages
  <2>1. pc' = pc /\ txs' = txs BY <1>1 DEF UserStages, workerVars, daemonVars
  <2>2. CASE StageOfflineUpgrade BY <2>2
  <2>3. CASE \/ CheckForUpdates \/ FetchChangelog \/ CancelClicked \/ DiscardClicked
             \/ ConfirmClicked
    <3>1. PICK K : Touches(wq, wq', Ev(K)) /\ K \cap {"stage", "reply"} = {}
      BY <2>3, UserTouches
    <3>2. Ev(K) \in SUBSET Event /\ Ev(K) \cap Requests = {}
      BY <3>1 DEF Ev, Requests
    <3>3. Has(wq', Requests) <=> Has(wq, Requests)
      BY <1>0, <3>1, <3>2, Untouched
    <3> QED BY <2>1, <3>3 DEF Downloading
  <2> QED BY <1>1, <2>2, <2>3 DEF UserStages
<1>2. CASE GuiStages
  BY <1>2 DEF GuiStages, Downloading, workerVars, daemonVars
<1>3. CASE WorkerStages
  <2>1. wq' = wq \/ (wq # <<>> /\ wq' = Tail(wq))
    BY <1>3 DEF WorkerStages, CheckBegin, CheckEnd, ChangelogBegin, ChangelogEnd,
       TransactionBegin, TransactionSend, StageReply, TakeReply, CancelOperation,
       CleanOffline, ConfirmRepoKey, HandleKeyRequest, Take
  <2>2. Has(wq', Requests) => Has(wq, Requests)
    BY <1>0, <2>1, TailHolds
  <2>3. pc' = "stage" => pc = "stage" \/ TransactionBegin("stage")
    BY <1>3 DEF WorkerStages, CheckBegin, CheckEnd, ChangelogBegin, ChangelogEnd,
       TransactionSend, StageReply, CancelOperation, CleanOffline, ConfirmRepoKey,
       HandleSignal, HandleKeyRequest, workerVars
  <2>4. TransactionBegin("stage") => Has(wq, Requests)
    <3>1. TransactionBegin("stage") => wq # <<>> /\ Head(wq) \in Requests
      BY <1>0, TakeType DEF TransactionBegin, Take, Requests, Ev
    <3> QED BY <1>0, <3>1, TailHolds
  <2>5. txs' # {} => txs # {} \/ pc = "stage"
    BY <1>3 DEF WorkerStages, CheckBegin, CheckEnd, ChangelogBegin, ChangelogEnd,
       TransactionBegin, TransactionSend, StageReply, CancelOperation, CleanOffline,
       ConfirmRepoKey, HandleSignal, HandleKeyRequest, daemonVars
  <2> QED BY <2>2, <2>3, <2>4, <2>5 DEF Downloading
<1>4. CASE DaemonStages
  <2>1. CASE DaemonAsksEarly
    BY <2>1 DEF DaemonAsksEarly, StagingKinds, Downloading, TxKinds
  <2> QED BY <1>4, <2>1 DEF DaemonStages, Downloading
<1> QED BY <1>1, <1>2, <1>3, <1>4

(* An end in the GUI's queue, and there is no download.                    *)
LEMMA EndedNotDownloading ==
    ASSUME CheckPlaces, StagingPlaces, Has(gq, Finished \cup CheckEnds)
    PROVE  ~Downloading
<1>1. Has(gq, Finished) \/ Has(gq, CheckEnds) BY DEF Has
<1>2. Has(gq, CheckEnds) => ~Upgrading
  BY UpgradeIsDownload DEF CheckPlaces
<1> QED BY <1>1, <1>2 DEF StagingPlaces

(* A restart is offered only with nothing to download.                     *)
LEMMA OfferedKept ==
    ASSUME TypeOK, StagingKinds, CheckPlaces, StagingPlaces, ReadyOffered,
           UserStages \/ GuiStages \/ WorkerStages \/ DaemonStages
    PROVE  ReadyOffered'
<1> DEFINE E == Finished \cup CheckEnds
<1>0. gq \in Seq(Notice) BY DEF TypeOK
<1>1. CASE UserStages
  <2>1. gq' = gq /\ ready' = ready
    BY <1>1 DEF UserStages, CheckForUpdates, StageOfflineUpgrade, FetchChangelog,
       CancelClicked, DiscardClicked, ConfirmClicked, StartOperation, PostAnyway
  <2>2. StageOfflineUpgrade => ~ready BY DEF StageOfflineUpgrade, StartVisible
  <2> QED BY <1>1, <2>1, <2>2, DownloadingStarts DEF ReadyOffered
<1>2. CASE GuiStages
  <2>1. Precede(gq', Offers, E) BY <1>2, GuiLeaves DEF ReadyOffered
  <2>2. Downloading' => Downloading
    BY <1>2 DEF GuiStages, Downloading, workerVars, daemonVars
  <2>3. ready' => ready \/ ~Downloading
    <3>1. CASE HandleOfflineStagedReady /\ ready'
      <4>1. Head(gq) \in Offers
        BY <1>2, <3>1, GuiTakes DEF HandleOfflineStagedReady, Receive, Offers
      <4>2. Has(gq, E)
        <5>1. Has(gq, Offers) BY <1>2, <4>1, GuiLeaves
        <5> QED BY <5>1, HoldsNot DEF ReadyOffered
      <4> QED BY <4>2, EndedNotDownloading
    <3>2. CASE ~HandleOfflineStagedReady
      BY <1>2, <3>2 DEF GuiStages, HandleCheckStarted, HandleCheckFinished,
         HandleProgressStageUpdated, HandleRepoKeyImportRequested,
         HandleOperationFinished, HandleChangelogFetched
    <3> QED BY <3>1, <3>2
  <2> QED BY <2>1, <2>2, <2>3 DEF ReadyOffered
<1>3. CASE WorkerStages
  <2>1. (Downloading' => Downloading) /\ ready' = ready
    <3>1. ready' = ready BY <1>3 DEF WorkerStages, guiVars
    <3>2. StageOfflineUpgrade => FALSE
      BY <1>3 DEF WorkerStages, guiVars, StageOfflineUpgrade, StartOperation, isBusy
    <3> QED BY <1>3, <3>1, <3>2, DownloadingStarts
  <2>2. \A r \in Seq(Notice) :
           gq' = gq \o r /\ Precede(r, Offers, E) => Precede(gq', Offers, E)
    BY <1>0, ConcatHolds DEF ReadyOffered
  <2>3. CASE CheckEnd
    <3>1. PICK u \in Upgrades \cup {"failed"} :
             \/ gq' = gq \o <<CheckDone(u)>>
             \/ gq' = gq \o <<Told("offlineReady", staged), CheckDone(u)>>
      BY <2>3, TellsInFull
    <3> DEFINE x == CheckDone(u)
               y == Told("offlineReady", staged)
    <3>2. x \in Notice /\ x \in E /\ x \notin Offers /\ y \in Notice
      BY DEF CheckDone, Told, Notice, CheckEnds, Offers, No, TypeOK
    <3>3. gq' = gq \o <<x>> \/ gq' = gq \o <<y, x>> BY <3>1
    <3> HIDE DEF x, y, E
    <3>4. <<x>> \in Seq(Notice) /\ Precede(<<x>>, Offers, E) BY <3>2, FewHold
    <3>5. <<y, x>> \in Seq(Notice) /\ Precede(<<y, x>>, Offers, E) BY <3>2, FewHold
    <3>6. Precede(gq', Offers, E) BY <2>2, <3>3, <3>4, <3>5
    <3> QED BY <2>1, <3>6 DEF ReadyOffered, E
  <2>4. CASE StageReply
    <3>1. PICK ns \in StageOutcomes :
             gq' = gq \o ns \/ gq' = gq \o (<<Told("offlineReady", FALSE)>> \o ns)
      BY <2>4, TellsInFull
    <3> DEFINE no == Told("offlineReady", FALSE)
               yes == Told("offlineReady", TRUE)
               end == Told("finished", TRUE)
               bad == Told("finished", FALSE)
    <3>2. /\ no \in Notice /\ yes \in Notice /\ end \in Notice /\ bad \in Notice
          /\ no \notin Offers /\ end \notin Offers /\ bad \notin Offers /\ end \in E
      BY DEF Told, Notice, Finished, Offers, No
    <3>3. ns = <<yes, end>> \/ ns = <<bad>> BY DEF StageOutcomes
    <3>4. gq' = gq \o ns \/ gq' = gq \o (<<no>> \o ns) BY <3>1
    <3> HIDE DEF no, yes, end, bad, E
    <3>5. <<yes, end>> \in Seq(Notice) /\ Precede(<<yes, end>>, Offers, E)
      BY <3>2, FewHold
    <3>6. <<bad>> \in Seq(Notice) /\ Precede(<<bad>>, Offers, E) BY <3>2, FewHold
    <3>7. <<no>> \in Seq(Notice) /\ Precede(<<no>>, Offers, E) BY <3>2, FewHold
    <3>8. ns \in Seq(Notice) /\ Precede(ns, Offers, E) BY <3>3, <3>5, <3>6
    <3>9. <<no>> \o ns \in Seq(Notice) BY <3>7, <3>8, ConcatType
    <3>10. Precede(<<no>> \o ns, Offers, E) BY <3>7, <3>8, ConcatHolds
    <3>11. Precede(gq', Offers, E) BY <2>2, <3>4, <3>8, <3>9, <3>10
    <3> QED BY <2>1, <3>11 DEF ReadyOffered, E
  <2>5. CASE CleanOffline
    <3>1. gq' = gq \/ gq' = gq \o <<Told("offlineReady", FALSE)>>
      BY <2>5 DEF CleanOffline, Emit
    <3> DEFINE no == Told("offlineReady", FALSE)
    <3>2. no \in Notice /\ no \notin Offers BY DEF Told, Notice, Offers
    <3> HIDE DEF no, E
    <3>3. <<no>> \in Seq(Notice) /\ Precede(<<no>>, Offers, E) BY <3>2, FewHold
    <3>4. Precede(gq', Offers, E) BY <2>2, <3>1, <3>3 DEF ReadyOffered, no, E
    <3> QED BY <2>1, <3>4 DEF ReadyOffered, E
  <2>6. CASE ~CheckEnd /\ ~StageReply /\ ~CleanOffline
    <3>1. PICK L : Touches(gq, gq', No(L)) /\ "offlineReady" \notin L
      BY <1>3, <2>6, WorkerTells, NotTouched DEF WorkerStages
    <3>2. No(L) \in SUBSET Notice /\ No(L) \cap Offers = {}
      BY <3>1 DEF No, Offers
    <3>3. Precede(gq', Offers, E) BY <1>0, <3>1, <3>2, Untouched DEF ReadyOffered
    <3> QED BY <2>1, <3>3 DEF ReadyOffered
  <2> QED BY <2>3, <2>4, <2>5, <2>6
<1>4. CASE DaemonStages
  <2>1. gq' = gq /\ UNCHANGED guiVars BY <1>4 DEF DaemonStages
  <2>2. StageOfflineUpgrade => FALSE
    BY <2>1 DEF guiVars, StageOfflineUpgrade, StartOperation, isBusy
  <2>3. Downloading' => Downloading BY <1>4, <2>2, DownloadingStarts
  <2> QED BY <2>1, <2>3 DEF ReadyOffered, guiVars
<1> QED BY <1>1, <1>2, <1>3, <1>4

-----------------------------------------------------------------------------
(* A staged update is only discarded while nothing is on its way, and      *)
(* before what was clicked after it.                                       *)
Discards == Ev({"discard"})
Stages == Ev({"stage"})
Replied == Ev({"reply"})

DiscardFirst ==
    Has(wq, Discards) =>
        /\ ~Has(wq, Replied) /\ txs = {} /\ pc # "stage"
        /\ Has(wq, Stages) => Precede(wq, Discards, Stages)

(* A discard stays ahead of every download.                                *)
LEMMA DiscardKept ==
    ASSUME TypeOK, StagingKinds, StagingPlaces, ReadyOffered, DiscardFirst,
           UserStages \/ GuiStages \/ WorkerStages \/ DaemonStages
    PROVE  DiscardFirst'
<1>0. wq \in Seq(Event) BY DEF TypeOK
<1>1. CASE UserStages
  <2>1. pc' = pc /\ txs' = txs BY <1>1 DEF UserStages, workerVars, daemonVars
  <2>2. CASE DiscardClicked
    <3>1. ready /\ wq' = Append(wq, [e |-> "discard"])
      BY <2>2 DEF DiscardClicked, PostAnyway, Post
    <3>2. ~Downloading BY <3>1 DEF ReadyOffered
    <3>3. [e |-> "discard"] \in Event /\ [e |-> "discard"] \notin Requests
      BY DEF Event, Plain, Requests, Ev
    <3>4. ~Has(wq', Requests)
      BY <1>0, <3>1, <3>2, <3>3, AppendHolds DEF Downloading
    <3>5. ~Has(wq', Replied) /\ ~Has(wq', Stages)
      BY <3>4 DEF Has, Replied, Stages, Requests, Ev
    <3> QED BY <2>1, <3>2, <3>5 DEF Downloading, DiscardFirst
  <2>3. CASE StageOfflineUpgrade
    <3> DEFINE x == [e |-> "stage"]
    <3>1. wq' = Append(wq, x)
      BY <2>3 DEF StageOfflineUpgrade, StartOperation, Post
    <3>2. /\ x \in Event /\ x \in Stages
          /\ x \notin Discards /\ x \notin Replied
      BY DEF Event, Plain, TxKinds, Stages, Discards, Replied, Ev
    <3> HIDE DEF x
    <3>3. (Has(wq', Discards) <=> Has(wq, Discards)) /\ Precede(wq', Discards, Stages)
      BY <1>0, <3>1, <3>2, AppendHolds
    <3>4. Has(wq', Replied) <=> Has(wq, Replied)
      BY <1>0, <3>1, <3>2, AppendHolds
    <3> QED BY <2>1, <3>3, <3>4 DEF DiscardFirst
  <2>4. CASE CheckForUpdates \/ FetchChangelog \/ CancelClicked \/ ConfirmClicked
    <3>1. PICK K : Touches(wq, wq', Ev(K)) /\ K \cap {"discard", "reply", "stage"} = {}
      BY <2>4, UserTouches
    <3>2. /\ Ev(K) \in SUBSET Event /\ Ev(K) \cap Discards = {}
          /\ Ev(K) \cap Replied = {} /\ Ev(K) \cap Stages = {}
      BY <3>1 DEF Ev, Discards, Replied, Stages
    <3>3. /\ Has(wq', Discards) <=> Has(wq, Discards)
          /\ Precede(wq, Discards, Stages) => Precede(wq', Discards, Stages)
      BY <1>0, <3>1, <3>2, Untouched
    <3>4. Has(wq', Replied) <=> Has(wq, Replied)
      BY <1>0, <3>1, <3>2, Untouched
    <3>5. Has(wq', Stages) <=> Has(wq, Stages)
      BY <1>0, <3>1, <3>2, Untouched
    <3> QED BY <2>1, <3>3, <3>4, <3>5 DEF DiscardFirst
  <2> QED BY <1>1, <2>2, <2>3, <2>4 DEF UserStages
<1>2. CASE GuiStages
  BY <1>2 DEF GuiStages, workerVars, daemonVars, DiscardFirst
<1>3. CASE WorkerStages
  <2>1. CASE TransactionBegin("stage")
    <3>1. /\ wq # <<>> /\ wq' = Tail(wq)
          /\ Head(wq) \in Stages /\ Head(wq) \in Event
      BY <1>0, <2>1, TakeType DEF TransactionBegin, Take, Stages, Ev
    <3>2. One(wq, Stages)
      <4>1. Stages \subseteq Requests BY DEF Stages, Requests, Ev
      <4> QED BY <4>1 DEF StagingPlaces, One
    <3>3. Has(wq, Stages) /\ (Precede(wq, Discards, Stages) => ~Has(wq, Discards))
      BY <1>0, <3>1, <3>2, TailHolds
    <3>4. ~Has(wq, Discards) BY <3>3 DEF DiscardFirst
    <3>5. ~Has(wq', Discards) BY <1>0, <3>1, <3>4, TailHolds
    <3> QED BY <3>5 DEF DiscardFirst
  <2>2. CASE TransactionSend("stage")
    BY <2>2 DEF TransactionSend, DiscardFirst
  <2>3. CASE ~TransactionBegin("stage") /\ ~TransactionSend("stage")
    <3>1. wq' = wq \/ (wq # <<>> /\ wq' = Tail(wq))
      BY <1>3, <2>3 DEF WorkerStages, CheckBegin, CheckEnd, ChangelogBegin,
         ChangelogEnd, StageReply, TakeReply, CancelOperation, CleanOffline,
         ConfirmRepoKey, HandleKeyRequest, Take
    <3>2. /\ pc' = "stage" => pc = "stage"
          /\ txs = {} => txs' = {}
      BY <1>3, <2>3 DEF WorkerStages, CheckBegin, CheckEnd, ChangelogBegin,
         ChangelogEnd, StageReply, CancelOperation, CleanOffline, ConfirmRepoKey,
         HandleSignal, HandleKeyRequest, workerVars, daemonVars
    <3>3. /\ Has(wq', Discards) => Has(wq, Discards)
          /\ Has(wq', Replied) => Has(wq, Replied)
          /\ Has(wq', Stages) => Has(wq, Stages)
          /\ Precede(wq, Discards, Stages) => Precede(wq', Discards, Stages)
      <4>1. CASE wq' = wq BY <4>1
      <4>2. CASE wq # <<>> /\ wq' = Tail(wq)
        <5>1. \A A, B : /\ Has(wq', A) => Has(wq, A)
                        /\ Precede(wq, A, B) => Precede(wq', A, B)
          BY <1>0, <4>2, TailHolds
        <5> QED BY <5>1
      <4> QED BY <3>1, <4>1, <4>2
    <3> QED BY <3>2, <3>3 DEF DiscardFirst
  <2> QED BY <2>1, <2>2, <2>3
<1>4. CASE DaemonStages
  <2>1. txs # {} \/ pc = "stage"
    BY <1>4 DEF DaemonStages, DaemonAsksEarly, StagingKinds, TxKinds
  <2>2. PICK K : Touches(wq, wq', Ev(K)) /\ "discard" \notin K
    BY <1>4, DaemonTouches DEF DaemonStages
  <2>3. Ev(K) \in SUBSET Event /\ Ev(K) \cap Discards = {}
    BY <2>2 DEF Ev, Discards
  <2>4. ~Has(wq', Discards)
    BY <1>0, <2>1, <2>2, <2>3, Untouched DEF DiscardFirst
  <2> QED BY <2>4 DEF DiscardFirst
<1> QED BY <1>1, <1>2, <1>3, <1>4

-----------------------------------------------------------------------------
(* The worker's session is the one of the transaction, and a changelog is  *)
(* read with another.                                                      *)
SessionsApart ==
    /\ \A t \in txs : session = t.sess /\ connected
    /\ pc = "changelog" => \A t \in txs : ephemeral # t.sess

(* The handlers that close a session only run without a transaction.       *)
SessionCloses ==
    \/ CheckBegin \/ CheckEnd \/ TransactionBegin("stage") \/ TransactionSend("stage")
    \/ StageReply \/ CleanOffline

(* They only run then.                                                     *)
LEMMA ClosesAlone ==
    ASSUME TypeOK, StagingKinds, CheckPlaces, StagingPlaces, DiscardFirst, SessionCloses
    PROVE  txs = {}
<1>0. wq \in Seq(Event) BY DEF TypeOK
<1>1. "checking" \in busy => txs = {}
  BY UpgradeIsDownload DEF StagingPlaces, Downloading
<1>2. ASSUME NEW e, Take(e) PROVE Has(wq, Ev({e}))
  <2>1. wq # <<>> /\ Head(wq) \in Ev({e}) BY <1>0, <1>2, TakeType DEF Take, Ev
  <2> QED BY <1>0, <2>1, TailHolds
<1>3. CASE CheckBegin
  <2>1. Has(wq, Checks) BY <1>2, <1>3 DEF CheckBegin, StagingKinds, Checks
  <2> QED BY <1>1, <2>1 DEF CheckPlaces
<1>4. CASE CheckEnd BY <1>1, <1>4 DEF CheckEnd, CheckPlaces
<1>5. CASE TransactionBegin("stage") \/ StageReply
  <2>1. Has(wq, Stages) \/ Has(wq, Replied)
    BY <1>2, <1>5 DEF TransactionBegin, StageReply, TakeReply, Stages, Replied
  <2>2. Has(wq, Requests) BY <2>1 DEF Has, Stages, Replied, Requests, Ev
  <2> QED BY <2>2 DEF StagingPlaces
<1>6. CASE TransactionSend("stage")
  BY <1>6 DEF TransactionSend, StagingPlaces
<1>7. CASE CleanOffline
  <2>1. Has(wq, Discards) BY <1>2, <1>7 DEF CleanOffline, Discards
  <2> QED BY <2>1 DEF DiscardFirst
<1> QED BY <1>3, <1>4, <1>5, <1>6, <1>7 DEF SessionCloses

(* Whatever the daemon does with a transaction, its session stays.         *)
LEMMA DaemonSessions ==
    ASSUME TypeOK, DaemonStages
    PROVE  /\ UNCHANGED <<pc, session, connected, ephemeral>>
           /\ \A u \in txs' : \E t \in txs : u.sess = t.sess
<1>1. UNCHANGED <<pc, session, connected, ephemeral>>
  BY DEF DaemonStages, workerVars
<1>2. CASE DaemonAsksEarly BY <1>1, <1>2 DEF DaemonAsksEarly
<1>3. ASSUME NEW t \in txs, DaemonDownloads(t) \/ DaemonAsksKey(t) \/ DaemonReplies(t)
      PROVE  \A u \in txs' : \E v \in txs : u.sess = v.sess
  <2>1. t \in Transaction BY DEF TypeOK
  <2>2. \A x : /\ [t EXCEPT !.phase = x].sess = t.sess
               /\ [t EXCEPT !.key = x].sess = t.sess
    BY <2>1 DEF Transaction
  <2>3. CASE DaemonDownloads(t) BY <2>2, <2>3 DEF DaemonDownloads, Advance
  <2>4. CASE DaemonAsksKey(t) BY <2>2, <2>4 DEF DaemonAsksKey
  <2>5. CASE DaemonReplies(t) BY <2>5 DEF DaemonReplies
  <2> QED BY <1>3, <2>3, <2>4, <2>5
<1> QED BY <1>1, <1>2, <1>3 DEF DaemonStages

(* Nor does an answer about a key change it.                               *)
LEMMA ConfirmSessions ==
    ASSUME TypeOK, ConfirmRepoKey
    PROVE  \A u \in txs' : \E t \in txs : u.sess = t.sess
<1> DEFINE f(t) == IF /\ session # NoSession /\ Head(wq).key = workerKey
                      /\ t.sess = session /\ t.key = Head(wq).key
                   THEN [t EXCEPT !.key = NoKey] ELSE t
<1>1. txs' = {f(t) : t \in txs} BY DEF ConfirmRepoKey
<1>2. \A t \in txs : f(t).sess = t.sess BY DEF TypeOK, Transaction
<1> HIDE DEF f
<1> QED BY <1>1, <1>2

(* So the session of a transaction stays the session of the worker.        *)
LEMMA ApartKept ==
    ASSUME SessionInv, StagingKinds, CheckPlaces, StagingPlaces, DiscardFirst,
           SessionsApart, UserStages \/ GuiStages \/ WorkerStages \/ DaemonStages
    PROVE  SessionsApart'
<1>0. TypeOK BY DEF SessionInv
<1>1. CASE UserStages \/ GuiStages
  BY <1>1 DEF UserStages, GuiStages, workerVars, daemonVars, SessionsApart
<1>2. CASE WorkerStages /\ SessionCloses
  <2>1. txs = {} BY <1>0, <1>2, ClosesAlone
  <2>2. CASE txs' = {} BY <2>2 DEF SessionsApart
  <2>3. CASE TransactionSend("stage") /\ txs' # {}
    <3>1. txs' = txs \cup {[kind |-> "stage", sess |-> session,
                            phase |-> "sent", key |-> NoKey]}
      BY <1>0, <2>1, <2>3, TellsInFull
    <3>2. pc = "stage" /\ pc' = "idle" /\ UNCHANGED <<session, connected>>
      BY <2>1, <2>3 DEF TransactionSend
    <3>3. connected BY <3>2 DEF SessionInv, TxKinds
    <3> QED BY <2>1, <3>1, <3>2, <3>3 DEF SessionsApart
  <2>4. CASE ~TransactionSend("stage")
    BY <1>2, <2>1, <2>2, <2>4
    DEF SessionCloses, CheckBegin, CheckEnd, TransactionBegin, StageReply, CleanOffline
  <2> QED BY <2>2, <2>3, <2>4
<1>3. CASE WorkerStages /\ ~SessionCloses
  <2>1. CASE ChangelogBegin
    <3>1. txs' = txs /\ session' = session /\ connected' = connected /\ pc = "idle"
      BY <2>1 DEF ChangelogBegin, Take
    <3>2. pc' = "changelog" => \A t \in txs : ephemeral' # t.sess
      BY <2>1, <3>1 DEF ChangelogBegin, Fresh, SessionsApart
    <3> QED BY <3>1, <3>2 DEF SessionsApart
  <2>2. CASE ConfirmRepoKey
    <3>1. pc' = "idle" /\ UNCHANGED <<session, connected>>
      BY <2>2 DEF ConfirmRepoKey, Take
    <3> QED BY <1>0, <2>2, <3>1, ConfirmSessions DEF SessionsApart
  <2>3. CASE \/ ChangelogEnd \/ CancelOperation \/ HandleKeyRequest
             \/ Take("progress") /\ HandleSignal
    BY <2>3 DEF ChangelogEnd, CancelOperation, HandleKeyRequest, HandleSignal, Take,
                workerVars, daemonVars, SessionsApart
  <2> QED BY <1>3, <2>1, <2>2, <2>3 DEF WorkerStages, SessionCloses
<1>4. CASE DaemonStages
  BY <1>0, <1>4, DaemonSessions DEF SessionsApart
<1> QED BY <1>1, <1>2, <1>3, <1>4

-----------------------------------------------------------------------------
(* All together are inductive.                                             *)
StagingInv ==
    /\ StagingKinds /\ CheckPlaces /\ StageShown /\ ReadyOffered /\ DiscardFirst
    /\ SessionsApart

(* Nothing is under way at first.                                          *)
LEMMA StagingInit == Init => StagingInv
<1> SUFFICES ASSUME Init PROVE StagingInv
  OBVIOUS
<1>1. /\ wq = <<>> /\ gq = <<>> /\ pc = "idle" /\ timers = 0 /\ txs = {}
      /\ busy = {} /\ stage = FALSE /\ ready = FALSE
  BY DEF Init, WorkerInit
<1>2. <<>> \in Seq(StagingEvent) /\ <<>> \in Seq(StagingNotice) /\ DOMAIN <<>> = {}
  OBVIOUS
<1>3. \A A, B : ~Has(<<>>, A) /\ One(<<>>, A) /\ Precede(<<>>, A, B)
  BY <1>2 DEF Has, One, Precede
<1>4. StagingKinds BY <1>1, <1>2 DEF StagingKinds
<1>5. CheckPlaces BY <1>1, <1>3 DEF CheckPlaces
<1>6. StageShown /\ ReadyOffered BY <1>1, <1>3 DEF StageShown, ReadyOffered
<1>7. DiscardFirst /\ SessionsApart BY <1>1, <1>3 DEF DiscardFirst, SessionsApart
<1> QED BY <1>4, <1>5, <1>6, <1>7 DEF StagingInv

(* Every step keeps the parts of the invariant together.                   *)
LEMMA StagingStep ==
    ASSUME UserOps \subseteq StagingOps, SessionInv, FlightInv, StagingInv,
           SessionInv', FlightInv', [Next]_vars
    PROVE  StagingInv'
<1>0. TypeOK BY DEF SessionInv
<1>1. CASE Next
  <2>1. UserStages \/ GuiStages \/ WorkerStages \/ DaemonStages
    BY <1>0, <1>1, StagingNext DEF StagingInv
  <2>2. StagingKinds' BY <1>0, <2>1, KindsKept DEF StagingInv
  <2>3. StagingPlaces BY <1>0, PlacesHeld DEF StagingInv
  <2>4. StagingPlaces'
    <3>1. TypeOK' /\ FlightInv' /\ StagingKinds' => StagingPlaces'
      BY PlacesHeld, PTL
    <3> QED BY <2>2, <3>1 DEF SessionInv
  <2>5. CheckPlaces' BY <1>0, <2>1, <2>3, CheckKept DEF StagingInv
  <2>6. StageShown' BY <1>0, <2>1, <2>3, <2>4, <2>5, ShownKept DEF StagingInv
  <2>7. ReadyOffered' BY <1>0, <2>1, <2>3, OfferedKept DEF StagingInv
  <2>8. DiscardFirst' BY <1>0, <2>1, <2>3, DiscardKept DEF StagingInv
  <2>9. SessionsApart' BY <2>1, <2>3, ApartKept DEF StagingInv
  <2> QED BY <2>2, <2>5, <2>6, <2>7, <2>8, <2>9 DEF StagingInv
<1>2. CASE UNCHANGED vars
  <2>1. UNCHANGED <<wq, gq, pc, timers, txs, busy, stage, ready, session, connected,
                    ephemeral>>
    BY <1>2 DEF vars, wdVars, workerVars, daemonVars, guiVars
  <2>2. StagingKinds' /\ CheckPlaces' BY <2>1 DEF StagingInv, StagingKinds, CheckPlaces
  <2>3. StageShown' BY <2>1 DEF StagingInv, StageShown, isBusy
  <2>4. ReadyOffered' BY <2>1 DEF StagingInv, ReadyOffered, Downloading
  <2>5. DiscardFirst' /\ SessionsApart'
    BY <2>1 DEF StagingInv, DiscardFirst, SessionsApart
  <2> QED BY <2>2, <2>3, <2>4, <2>5 DEF StagingInv
<1> QED BY <1>1, <1>2

(* With these operations the invariants hold in every reachable state.     *)
LEMMA StagingInvariance ==
    ASSUME UserOps \subseteq StagingOps
    PROVE  Spec => [](SessionInv /\ FlightInv /\ StagingInv)
<1>1. UserOps \subseteq FlightOps BY DEF StagingOps, FlightOps
<1>2. Spec => []FlightInv BY <1>1, FlightInvariance
<1>3. /\ SessionInv /\ FlightInv /\ StagingInv
      /\ SessionInv' /\ FlightInv' /\ [Next]_vars
      => StagingInv'
  BY StagingStep
<1> QED BY <1>2, <1>3, SessionInvariance, StagingInit, PTL DEF Spec

(* When updates are only staged, no operation of the panel begins while    *)
(* the daemon works on a transaction, and it works on one at a time        *)
(* (isBusy() in every slot of UpdateManager).                              *)
THEOREM OperationsNeverOverlap ==
    ASSUME UserOps \subseteq StagingOps PROVE Spec => []NoOverlap
<1>1. SessionInv /\ FlightInv /\ StagingInv => NoOverlap
  <2> SUFFICES ASSUME SessionInv, FlightInv, StagingInv PROVE NoOverlap
    OBVIOUS
  <2>1. StagingPlaces BY PlacesHeld DEF SessionInv, StagingInv
  <2>2. Cardinality(txs) <= 1
    <3>1. CASE txs = {} BY <3>1, FS_EmptySet
    <3>2. CASE txs # {}
      <4>1. PICK t \in txs : txs = {t} BY <2>1, <3>2 DEF StagingPlaces
      <4>2. Cardinality({t}) = 1 BY FS_Singleton, Zenon
      <4> QED BY <4>1, <4>2
    <3> QED BY <3>1, <3>2
  <2>3. pc = "checking" => txs = {}
    BY <2>1, UpgradeIsDownload DEF StagingInv, CheckPlaces, StagingPlaces, Downloading
  <2>4. pc \in TxKinds => pc = "stage" BY DEF StagingInv, StagingKinds, TxKinds
  <2> QED BY <2>1, <2>2, <2>3, <2>4 DEF NoOverlap, StagingPlaces
<1> QED BY <1>1, StagingInvariance, PTL

(* And the panel shows no progress when nothing is on its way.             *)
THEOREM IdleNeverShowsStage ==
    ASSUME UserOps \subseteq StagingOps PROVE Spec => []IdleShowsNoStage
<1>1. StagingInv => IdleShowsNoStage
  BY DEF StagingInv, StageShown, IdleShowsNoStage
<1> QED BY <1>1, StagingInvariance, PTL

(* The worker never closes the session of a transaction that is under way, *)
(* although its handlers close whatever session there is.                  *)
THEOREM TransactionsNeverDisturbed ==
    ASSUME UserOps \subseteq StagingOps PROVE Spec => TransactionUndisturbed
<1> DEFINE Undisturbed == \A t \in txs, u \in txs' :
              t.sess = u.sess /\ t.sess \in dsess => t.sess \in dsess'
<1>1. SessionInv /\ FlightInv /\ StagingInv /\ [Next]_vars => Undisturbed \/ UNCHANGED vars
  <2> SUFFICES ASSUME SessionInv, FlightInv, StagingInv, Next PROVE Undisturbed
    OBVIOUS
  <2>0. TypeOK BY DEF SessionInv
  <2>1. UserStages \/ GuiStages \/ WorkerStages \/ DaemonStages
    BY <2>0, StagingNext DEF StagingInv
  <2>2. StagingPlaces BY <2>0, PlacesHeld DEF StagingInv
  <2>3. CASE UserStages \/ GuiStages
    BY <2>3 DEF UserStages, GuiStages, daemonVars
  <2>4. CASE WorkerStages /\ SessionCloses
    <3>1. txs = {} BY <2>0, <2>2, <2>4, ClosesAlone DEF StagingInv
    <3> QED BY <3>1
  <2>5. CASE ChangelogEnd
    <3>1. dsess' = dsess \ {ephemeral} /\ pc = "changelog" BY <2>5 DEF ChangelogEnd
    <3> QED BY <3>1 DEF StagingInv, SessionsApart
  <2>6. CASE \/ ChangelogBegin \/ CancelOperation \/ ConfirmRepoKey \/ HandleKeyRequest
             \/ Take("progress") /\ HandleSignal
    BY <2>6 DEF ChangelogBegin, CancelOperation, ConfirmRepoKey, HandleKeyRequest,
                HandleSignal, daemonVars
  <2>7. CASE DaemonStages
    <3>1. CASE UNCHANGED dsess BY <3>1
    <3>2. ASSUME NEW t \in txs, DaemonReplies(t) PROVE txs' = {}
      BY <2>2, <3>2 DEF DaemonReplies, StagingPlaces
    <3> QED
      BY <2>7, <3>1, <3>2 DEF DaemonStages, DaemonDownloads, DaemonAsksKey, DaemonAsksEarly
  <2> QED BY <2>1, <2>3, <2>4, <2>5, <2>6, <2>7 DEF WorkerStages, SessionCloses
<1>2. SessionInv /\ FlightInv /\ StagingInv /\ [Next]_vars => [Undisturbed]_vars
  BY <1>1
<1> QED BY <1>2, StagingInvariance, PTL DEF Spec, TransactionUndisturbed

-----------------------------------------------------------------------------
(* What the notices say in the end: the last offlineReady there is, or     *)
(* else what was said before (ShownReady, of any queue).                   *)
Said(q) == {i \in DOMAIN q : q[i].n = "offlineReady"}
SaysYes(q) == \E i \in Said(q) : q[i].ok /\ \A j \in Said(q) : j <= i
Says(q, before) == IF Said(q) = {} THEN before ELSE SaysYes(q)

(* Reading the first notice changes nothing of it.                         *)
LEMMA SaysTail ==
    ASSUME NEW q \in Seq(Notice), q # <<>>, NEW before
    PROVE  LET x == Head(q)
               now == IF x.n = "offlineReady" THEN x.ok ELSE before
           IN Says(Tail(q), now) => Says(q, before)
<1> DEFINE r == Tail(q)
           x == Head(q)
           now == IF x.n = "offlineReady" THEN x.ok ELSE before
<1>1. /\ 1 \in DOMAIN q /\ q[1] = x
      /\ \A i \in DOMAIN q : i \in Nat /\ 1 <= i
      /\ \A i \in DOMAIN r : i \in Nat /\ 1 <= i /\ i + 1 \in DOMAIN q /\ r[i] = q[i + 1]
      /\ \A i \in DOMAIN q : i # 1 => i - 1 \in DOMAIN r /\ r[i - 1] = q[i]
  BY TailAt
<1> HIDE DEF r, x
<1>2. SUFFICES ASSUME Says(r, now) PROVE Says(q, before)
  BY DEF r, x
<1>3. CASE Said(r) = {}
  <2>1. \A i \in Said(q) : i = 1 BY <1>1, <1>3 DEF Said
  <2>2. now BY <1>2, <1>3 DEF Says
  <2>3. CASE x.n = "offlineReady"
    <3>1. 1 \in Said(q) /\ q[1].ok BY <1>1, <2>2, <2>3 DEF Said
    <3>2. SaysYes(q) BY <2>1, <3>1 DEF SaysYes
    <3> QED BY <3>1, <3>2 DEF Says
  <2>4. CASE x.n # "offlineReady"
    <3>1. 1 \notin Said(q) BY <1>1, <2>4 DEF Said
    <3> QED BY <2>1, <2>2, <2>4, <3>1 DEF Says
  <2> QED BY <2>3, <2>4
<1>4. CASE Said(r) # {}
  <2>1. PICK i \in Said(r) : r[i].ok /\ \A j \in Said(r) : j <= i
    BY <1>2, <1>4 DEF Says, SaysYes
  <2>2. i + 1 \in Said(q) /\ q[i + 1].ok BY <1>1, <2>1 DEF Said
  <2>3. ASSUME NEW j \in Said(q) PROVE j <= i + 1
    <3>1. j \in Nat /\ i \in Nat /\ 1 <= i /\ (j # 1 => j - 1 \in Said(r))
      BY <1>1, <2>1 DEF Said
    <3>2. CASE j = 1 BY <3>1, <3>2
    <3>3. CASE j # 1
      <4>1. j - 1 <= i BY <2>1, <3>1, <3>3
      <4> QED BY <3>1, <4>1
    <3> QED BY <3>2, <3>3
  <2>4. SaysYes(q) BY <2>2, <2>3 DEF SaysYes
  <2> QED BY <2>2, <2>4 DEF Says
<1> QED BY <1>3, <1>4

(* More notices say it themselves or leave it.                             *)
LEMMA SaysConcat ==
    ASSUME NEW q \in Seq(Notice), NEW r \in Seq(Notice), NEW before, Says(q \o r, before)
    PROVE  /\ Said(r) = {} => Says(q, before)
           /\ Said(r) # {} => SaysYes(r)
<1> DEFINE s == q \o r
<1>1. /\ \A i \in DOMAIN q : /\ i \in Nat /\ 1 <= i /\ i <= Len(q)
                             /\ i \in DOMAIN s /\ s[i] = q[i]
      /\ \A k \in DOMAIN r : /\ k \in Nat /\ 1 <= k
                             /\ Len(q) + k \in DOMAIN s /\ s[Len(q) + k] = r[k]
      /\ \A i \in DOMAIN s : \/ i \in DOMAIN q
                             \/ /\ i \in Nat /\ Len(q) < i
                                /\ i - Len(q) \in DOMAIN r /\ s[i] = r[i - Len(q)]
      /\ Len(q) \in Nat
  BY ConcatAt
<1>2. Says(s, before) OBVIOUS
<1> HIDE DEF s
<1>3. ASSUME Said(r) = {} PROVE Says(q, before)
  <2>1. Said(s) = Said(q) /\ \A i \in Said(q) : s[i] = q[i]
    BY <1>1, <1>3 DEF Said
  <2> QED BY <1>2, <2>1 DEF Says, SaysYes
<1>4. ASSUME Said(r) # {} PROVE SaysYes(r)
  <2>1. PICK k \in Said(r) : TRUE BY <1>4
  <2>2. Len(q) + k \in Said(s) /\ k \in Nat /\ 1 <= k BY <1>1, <2>1 DEF Said
  <2>3. PICK i \in Said(s) : s[i].ok /\ \A j \in Said(s) : j <= i
    BY <1>2, <2>2 DEF Says, SaysYes
  <2>4. i \notin DOMAIN q
    <3>1. Len(q) + k <= i BY <2>2, <2>3
    <3> QED BY <1>1, <2>2, <3>1
  <2>5. i - Len(q) \in Said(r) /\ r[i - Len(q)].ok /\ i \in Nat
    BY <1>1, <2>3, <2>4 DEF Said
  <2>6. ASSUME NEW j \in Said(r) PROVE j <= i - Len(q)
    <3>1. Len(q) + j \in Said(s) /\ j \in Nat BY <1>1 DEF Said
    <3>2. Len(q) + j <= i BY <2>3, <3>1
    <3> QED BY <1>1, <2>5, <3>1, <3>2
  <2> QED BY <2>5, <2>6 DEF SaysYes
<1> QED BY <1>3, <1>4

(* The notices about it, and the ends.                                     *)
LEMMA ToldForms ==
    /\ <<Told("offlineReady", FALSE)>> \in Seq(Notice)
    /\ <<Told("finished", FALSE)>> \in Seq(Notice)
    /\ <<Told("offlineReady", TRUE), Told("finished", TRUE)>> \in Seq(Notice)
    /\ Told("offlineReady", FALSE).n = "offlineReady"
    /\ ~Told("offlineReady", FALSE).ok
    /\ Told("finished", FALSE).n # "offlineReady"
<1> DEFINE no == Told("offlineReady", FALSE)
           yes == Told("offlineReady", TRUE)
           end == Told("finished", TRUE)
           bad == Told("finished", FALSE)
<1>1. /\ no \in Notice /\ yes \in Notice /\ end \in Notice /\ bad \in Notice
      /\ no.n = "offlineReady" /\ ~no.ok /\ bad.n # "offlineReady"
  BY DEF Told, Notice
<1> HIDE DEF no, yes, end, bad
<1>2. /\ <<no>> \in Seq(Notice) /\ <<bad>> \in Seq(Notice)
      /\ <<yes, end>> \in Seq(Notice)
  BY <1>1
<1> QED BY <1>1, <1>2 DEF no, yes, end, bad

(* Nor do notices that say nothing of it change anything.                  *)
LEMMA SaysTouch ==
    ASSUME TypeOK, NEW L, "offlineReady" \notin L, Touches(gq, gq', No(L)), NEW before,
           Says(gq', before)
    PROVE  Says(gq, before)
<1>0. gq \in Seq(Notice) BY DEF TypeOK
<1>1. CASE gq' = gq BY <1>1
<1>2. CASE gq # <<>> /\ gq' = Tail(gq) /\ Head(gq) \in No(L)
  <2>1. Head(gq).n # "offlineReady" BY <1>2 DEF No
  <2> QED BY <1>0, <1>2, <2>1, SaysTail
<1>3. CASE \E ns \in Seq(No(L)) : gq' = gq \o ns
  <2>1. PICK ns \in Seq(No(L)) : gq' = gq \o ns BY <1>3
  <2>2. ns \in Seq(Notice) /\ \A i \in DOMAIN ns : ns[i].n # "offlineReady"
    <3>1. No(L) \subseteq Notice /\ \A i \in DOMAIN ns : ns[i] \in No(L)
      BY DEF No
    <3>2. ns \in Seq(Notice) BY <3>1
    <3> QED BY <3>1, <3>2 DEF No
  <2>3. Said(ns) = {} BY <2>2 DEF Said
  <2> QED BY <1>0, <2>1, <2>2, <2>3, SaysConcat
<1> QED BY <1>1, <1>2, <1>3 DEF Touches

-----------------------------------------------------------------------------
(* Ready means staged, as long as the download is not cancelled: the       *)
(* handler of its reply clears what was staged and says "ready" after that *)
(* (see StageReply).                                                       *)
ReadyOps == StagingOps \ {"cancel"}

Cancels == Ev({"cancel"})
OkReplies == {x \in Event : x.e = "reply" /\ x.res = "ok"}

ReadyInv ==
    /\ ~cancelled /\ ~Has(wq, Cancels)
    /\ Has(wq, OkReplies) => staged
    /\ Says(gq, ready) => staged

(* What a queue loses, or gets of another kind, does no harm.              *)
LEMMA QueueHarmless ==
    ASSUME TypeOK, ReadyInv, NEW K, Touches(wq, wq', Ev(K)), K \cap {"cancel", "reply"} = {}
    PROVE  ~Has(wq', Cancels) /\ (Has(wq', OkReplies) => Has(wq, OkReplies))
<1>1. /\ wq \in Seq(Event) /\ Ev(K) \in SUBSET Event
      /\ Ev(K) \cap Cancels = {} /\ Ev(K) \cap OkReplies = {}
  BY DEF TypeOK, Ev, Cancels, OkReplies
<1>2. Has(wq', Cancels) <=> Has(wq, Cancels) BY <1>1, Untouched
<1>3. Has(wq', OkReplies) <=> Has(wq, OkReplies) BY <1>1, Untouched
<1> QED BY <1>2, <1>3 DEF ReadyInv

(* No step makes the interface say "ready" of updates that are not staged. *)
LEMMA ReadyKept ==
    ASSUME UserOps \subseteq ReadyOps, TypeOK, StagingInv, ReadyInv,
           UserStages \/ GuiStages \/ WorkerStages \/ DaemonStages
    PROVE  ReadyInv'
<1>0. wq \in Seq(Event) /\ gq \in Seq(Notice) BY DEF TypeOK
<1>1. CASE UserStages
  <2>1. ~CancelClicked
    BY DEF CancelClicked, PostAnyway, Post, ReadyOps
  <2>2. UNCHANGED <<cancelled, staged, gq, ready>>
    BY <1>1 DEF UserStages, CheckForUpdates, StageOfflineUpgrade, FetchChangelog,
       CancelClicked, DiscardClicked, ConfirmClicked, StartOperation, PostAnyway,
       workerVars, daemonVars
  <2>3. PICK K : Touches(wq, wq', Ev(K)) /\ K \cap {"cancel", "reply"} = {}
    BY <1>1, <2>1, UserTouches DEF UserStages
  <2> QED BY <2>2, <2>3, QueueHarmless DEF ReadyInv
<1>2. CASE GuiStages
  <2>1. UNCHANGED <<cancelled, staged, wq>>
    BY <1>2 DEF GuiStages, workerVars, daemonVars
  <2>2. gq # <<>> /\ gq' = Tail(gq) BY <1>2, GuiTakes
  <2>3. ready' = IF Head(gq).n = "offlineReady" THEN Head(gq).ok ELSE ready
    BY <1>2 DEF GuiStages, HandleCheckStarted, HandleCheckFinished, Receive,
       HandleProgressStageUpdated, HandleRepoKeyImportRequested,
       HandleOperationFinished, HandleOfflineStagedReady, HandleChangelogFetched
  <2>4. Says(gq', ready') => Says(gq, ready)
    BY <1>0, <2>2, <2>3, SaysTail
  <2> QED BY <2>1, <2>4 DEF ReadyInv
<1>3. CASE WorkerStages
  <2>1. ready' = ready BY <1>3 DEF WorkerStages, guiVars
  <2>2. wq' = wq \/ (wq # <<>> /\ wq' = Tail(wq))
    BY <1>3 DEF WorkerStages, CheckBegin, CheckEnd, ChangelogBegin, ChangelogEnd,
       TransactionBegin, TransactionSend, StageReply, TakeReply, CancelOperation,
       CleanOffline, ConfirmRepoKey, HandleKeyRequest, Take
  <2>3. \A A : Has(wq', A) => Has(wq, A) BY <1>0, <2>2, TailHolds
  <2>4. ~CancelOperation
    <3>1. CancelOperation => wq # <<>> /\ Head(wq) \in Cancels
      BY <1>0, TakeType DEF CancelOperation, Take, Cancels, Ev
    <3>2. CancelOperation => Has(wq, Cancels) BY <1>0, <3>1, TailHolds
    <3> QED BY <3>2 DEF ReadyInv
  <2>5. ~cancelled'
    BY <1>3, <2>4 DEF ReadyInv, WorkerStages, CheckBegin, CheckEnd, ChangelogBegin,
       ChangelogEnd, TransactionBegin, TransactionSend, StageReply, CleanOffline,
       ConfirmRepoKey, HandleSignal, HandleKeyRequest, OpenSession, OpenFails,
       OpenAndClose, KeepSession, workerVars
  <2>6. CASE CleanOffline
    <3>1. wq # <<>> /\ Head(wq) \in Discards
      BY <1>0, <2>6, TakeType DEF CleanOffline, Take, Discards, Ev
    <3>2. Has(wq, Discards) BY <1>0, <3>1, TailHolds
    <3>3. ~Has(wq, OkReplies)
      BY <3>2 DEF StagingInv, DiscardFirst, Has, OkReplies, Replied, Ev
    <3>4. CASE UNCHANGED <<gq, staged>>
      BY <2>1, <2>3, <2>5, <3>4 DEF ReadyInv
    <3>5. CASE gq' = gq \o <<Told("offlineReady", FALSE)>>
      <4> DEFINE r == <<Told("offlineReady", FALSE)>>
      <4>1. r \in Seq(Notice) /\ DOMAIN r = {1} /\ r[1].n = "offlineReady" /\ ~r[1].ok
        BY ToldForms DEF Told
      <4>2. Said(r) = {1} /\ ~SaysYes(r) BY <4>1 DEF Said, SaysYes
      <4> HIDE DEF r
      <4>3. gq' = gq \o r BY <3>5 DEF r
      <4>4. ~Says(gq', ready') BY <1>0, <4>1, <4>2, <4>3, SaysConcat
      <4> QED BY <2>3, <2>5, <3>3, <4>4 DEF ReadyInv
    <3> QED BY <2>6, <3>4, <3>5 DEF CleanOffline, Emit
  <2>7. ASSUME UNCHANGED staged, Says(gq', ready') => Says(gq, ready) \/ staged
        PROVE  ReadyInv'
    BY <2>3, <2>5, <2>7 DEF ReadyInv
  <2>8. ASSUME NEW r \in Seq(Notice), gq' = gq \o r, UNCHANGED staged,
               \A i \in DOMAIN r : r[i].n = "offlineReady" /\ r[i].ok => staged
        PROVE  ReadyInv'
    <3>1. Says(gq', ready') => Says(gq, ready) \/ SaysYes(r)
      BY <1>0, <2>1, <2>8, SaysConcat
    <3>2. SaysYes(r) => staged BY <2>8 DEF SaysYes, Said
    <3> QED BY <2>7, <2>8, <3>1, <3>2
  <2>9. CASE CheckEnd
    <3>1. PICK u \in Upgrades \cup {"failed"} :
             \/ gq' = gq \o <<CheckDone(u)>>
             \/ gq' = gq \o <<Told("offlineReady", staged), CheckDone(u)>>
      BY <2>9, TellsInFull DEF StagingInv
    <3> DEFINE q == <<CheckDone(u)>>
               r == <<Told("offlineReady", staged), CheckDone(u)>>
    <3>2. q \in Seq(Notice) /\ DOMAIN q = {1} /\ q[1].n # "offlineReady"
      BY NoticeForms DEF CheckDone
    <3>3. /\ r \in Seq(Notice) /\ DOMAIN r = {1, 2}
          /\ r[1].ok = staged /\ r[2].n # "offlineReady"
      BY NoticeForms DEF CheckDone, Told, TypeOK
    <3>4. UNCHANGED staged BY <2>9 DEF CheckEnd
    <3>5. gq' = gq \o q \/ gq' = gq \o r BY <3>1
    <3> HIDE DEF q, r
    <3> QED BY <2>8, <3>2, <3>3, <3>4, <3>5
  <2>10. CASE StageReply
    <3>1. wq # <<>> /\ Head(wq) \in Event /\ Head(wq).e = "reply"
      BY <1>0, <2>10, TakeType DEF StageReply, TakeReply, Take
    <3>2. Head(wq).res = "ok" => staged
      <4>1. Head(wq).res = "ok" => Head(wq) \in OkReplies BY <3>1 DEF OkReplies
      <4>2. Head(wq).res = "ok" => Has(wq, OkReplies) BY <1>0, <3>1, <4>1, TailHolds
      <4> QED BY <4>2 DEF ReadyInv
    <3> DEFINE q == <<Told("finished", FALSE)>>
               r == <<Told("offlineReady", TRUE), Told("finished", TRUE)>>
    <3>3. /\ UNCHANGED staged
          /\ gq' = gq \o q \/ (gq' = gq \o r /\ Head(wq).res = "ok")
      BY <2>10 DEF StageReply, Emit, ReadyInv
    <3>4. q \in Seq(Notice) /\ DOMAIN q = {1} /\ q[1].n # "offlineReady"
      BY ToldForms DEF Told
    <3>5. r \in Seq(Notice) /\ DOMAIN r = {1, 2} BY ToldForms DEF Told
    <3> HIDE DEF q, r
    <3> QED BY <2>8, <3>2, <3>3, <3>4, <3>5
  <2>11. CASE ~CleanOffline /\ ~CheckEnd /\ ~StageReply
    <3>1. PICK L : Touches(gq, gq', No(L)) /\ "offlineReady" \notin L
      BY <1>3, <2>11, WorkerTells, NotTouched DEF WorkerStages, StagingInv
    <3>2. UNCHANGED staged
      BY <1>3, <2>11 DEF WorkerStages, CheckBegin, ChangelogBegin, ChangelogEnd,
         TransactionBegin, TransactionSend, CancelOperation, ConfirmRepoKey,
         HandleSignal, HandleKeyRequest, daemonVars
    <3> QED BY <2>1, <2>7, <3>1, <3>2, SaysTouch
  <2> QED BY <2>6, <2>9, <2>10, <2>11
<1>4. CASE DaemonStages
  <2>1. UNCHANGED <<gq, ready, cancelled>>
    BY <1>4 DEF DaemonStages, guiVars, workerVars
  <2>2. CASE ~\E t \in txs : DaemonReplies(t)
    <3>1. PICK K : Touches(wq, wq', Ev(K)) /\ K \cap {"cancel", "reply"} = {}
      BY <1>4, <2>2, DaemonTouches DEF DaemonStages
    <3>2. staged' = staged
      BY <1>4, <2>2 DEF DaemonStages, DaemonDownloads, DaemonAsksKey, DaemonAsksEarly
    <3> QED BY <2>1, <3>1, <3>2, QueueHarmless DEF ReadyInv
  <2>3. ASSUME NEW t \in txs, DaemonReplies(t) PROVE ReadyInv'
    <3>1. PICK res \in Results :
             /\ staged' = (staged \/ (t.kind = "stage" /\ res = "ok"))
             /\ wq' = Append(wq, [e |-> "reply", kind |-> t.kind, sess |-> t.sess,
                                  res |-> res])
      BY <2>3 DEF DaemonReplies
    <3> DEFINE x == [e |-> "reply", kind |-> t.kind, sess |-> t.sess, res |-> res]
    <3>2. t.kind = "stage" /\ t.kind \in TxKinds /\ t.sess \in Sessions
      BY DEF StagingInv, StagingKinds, TypeOK, Transaction
    <3>3. /\ x \in Event /\ x \notin Cancels
          /\ x \in OkReplies => res = "ok"
      BY <3>2 DEF Event, Cancels, Ev, OkReplies
    <3>4. wq' = Append(wq, x) BY <3>1
    <3> HIDE DEF x
    <3>5. Has(wq', Cancels) <=> Has(wq, Cancels)
      BY <1>0, <3>3, <3>4, AppendHolds
    <3>6. Has(wq', OkReplies) => Has(wq, OkReplies) \/ res = "ok"
      BY <1>0, <3>3, <3>4, AppendHolds
    <3> QED BY <2>1, <3>1, <3>2, <3>5, <3>6 DEF ReadyInv
  <2> QED BY <2>2, <2>3
<1> QED BY <1>1, <1>2, <1>3, <1>4

(* What the interface calls ready for the restart is staged in the daemon, *)
(* whatever is checked, staged and discarded in between, unless a download *)
(* was cancelled.                                                          *)
THEOREM ReadyAlwaysStaged ==
    ASSUME UserOps \subseteq ReadyOps PROVE Spec => []ReadyIsStaged
<1>0. UserOps \subseteq StagingOps BY DEF ReadyOps
<1>1. Init => ReadyInv
  <2> SUFFICES ASSUME Init PROVE ReadyInv
    OBVIOUS
  <2>1. wq = <<>> /\ gq = <<>> /\ ~cancelled /\ ready = FALSE
    BY DEF Init, WorkerInit
  <2>2. DOMAIN <<>> = {} OBVIOUS
  <2> QED BY <2>1, <2>2 DEF ReadyInv, Has, Says, Said
<1>2. SessionInv /\ FlightInv /\ StagingInv /\ ReadyInv /\ [Next]_vars => ReadyInv'
  <2> SUFFICES ASSUME SessionInv, StagingInv, ReadyInv, [Next]_vars PROVE ReadyInv'
    OBVIOUS
  <2>1. CASE Next
    <3>1. UserStages \/ GuiStages \/ WorkerStages \/ DaemonStages
      BY <1>0, <2>1, StagingNext DEF StagingInv, SessionInv
    <3> QED BY <3>1, ReadyKept DEF SessionInv
  <2>2. CASE UNCHANGED vars
    BY <2>2 DEF vars, wdVars, workerVars, daemonVars, guiVars, ReadyInv
  <2> QED BY <2>1, <2>2
<1>3. ReadyInv => ReadyIsStaged
  BY DEF ReadyInv, ReadyIsStaged, ShownReady, Says, SaysYes, Said
<1> QED BY <1>0, <1>1, <1>2, <1>3, StagingInvariance, PTL DEF Spec

-----------------------------------------------------------------------------
(* The question about a key.                                               *)
Asking == Ev({"keyRequest"})
Asked == No({"keyRequested"})
AskingFor(k) == {x \in Event : x.e = "keyRequest" /\ x.key = k}
AskedFor(k) == {x \in Notice : x.n = "keyRequested" /\ x.key = k}
AnswerFor(k) == {x \in Event : x.e = "confirm" /\ x.key = k}

(* Only what the daemon asked is asked and answered.                       *)
KeysAsked ==
    /\ \A t \in txs : t.key \in asked \cup {NoKey}
    /\ \A k \in Keys :
          \/ Has(wq, AskingFor(k)) \/ Has(wq, AnswerFor(k)) \/ Has(gq, AskedFor(k))
          \/ prompt = k
          => k \in asked

(* With no transaction left, the reply is behind the question in the       *)
(* worker's queue, or the end of the operation is behind it in the GUI's,  *)
(* and the end takes the question off the screen.                          *)
QuestionsOwed ==
    /\ txs = {} => Precede(wq, Asking, Replied)
    /\ txs = {} /\ ~Has(wq, Replied) => Precede(gq, Asked, Finished)
    /\ prompt # NoKey => txs # {} \/ Has(wq, Replied) \/ Has(gq, Finished)

(* A transaction waits for one answer at a time, and until that is on its  *)
(* way the question is in one place.                                       *)
OneQuestion ==
    \A t \in txs :
       /\ prompt # NoKey =>
             workerKey = prompt /\ t.key = prompt /\ ~Has(gq, Asked) /\ ~Has(wq, Asking)
       /\ \A k \in Keys : Has(gq, AskedFor(k)) =>
             workerKey = k /\ t.key = k /\ ~Has(wq, Asking)
       /\ \A k \in Keys : Has(wq, AskingFor(k)) => t.key = k
       /\ One(gq, Asked) /\ One(wq, Asking)
       /\ \A k \in Keys : Has(wq, AnswerFor(k)) /\ t.key = k =>
             prompt = NoKey /\ ~Has(gq, Asked) /\ ~Has(wq, Asking)

PromptInv == KeysAsked /\ QuestionsOwed /\ OneQuestion

(* A question is about a key.                                              *)
LEMMA AskingIs ==
    TypeOK => /\ Has(wq, Asking) <=> \E k \in Keys : Has(wq, AskingFor(k))
              /\ Has(gq, Asked) <=> \E k \in Keys : Has(gq, AskedFor(k))
<1> SUFFICES ASSUME TypeOK
             PROVE  /\ Has(wq, Asking) <=> \E k \in Keys : Has(wq, AskingFor(k))
                    /\ Has(gq, Asked) <=> \E k \in Keys : Has(gq, AskedFor(k))
  OBVIOUS
<1>1. \A x : x \in Asking <=> \E k \in Keys : x \in AskingFor(k)
  <2>1. \A x \in Event : x.e = "keyRequest" => x.key \in Keys
    BY DEF Event, Plain, Signals, TxKinds
  <2> QED BY <2>1 DEF Asking, Ev, AskingFor
<1>2. \A x : x \in Asked <=> \E k \in Keys : x \in AskedFor(k)
  <2>1. \A x \in Notice : x.n = "keyRequested" => x.key \in Keys
    BY DEF Notice
  <2> QED BY <2>1 DEF Asked, No, AskedFor
<1> QED BY <1>1, <1>2 DEF Has

(* Steps that have nothing to do with keys.                                *)
LEMMA PromptQuiet ==
    ASSUME TypeOK, PromptInv, UNCHANGED <<prompt, asked>>,
           NEW K, Touches(wq, wq', Ev(K)),
           K \cap {"confirm", "keyRequest", "reply"} = {},
           NEW L, Touches(gq, gq', No(L)), "keyRequested" \notin L,
           Has(gq, Finished) => Has(gq', Finished),
           workerKey' = workerKey \/ txs = {},
           txs' = {} <=> txs = {}, \A u \in txs' : \E t \in txs : u.key = t.key
    PROVE  PromptInv'
<1>1. /\ wq \in Seq(Event) /\ Ev(K) \in SUBSET Event
      /\ gq \in Seq(Notice) /\ No(L) \in SUBSET Notice
      /\ \A k : Ev(K) \cap AskingFor(k) = {} /\ Ev(K) \cap AnswerFor(k) = {}
      /\ \A k : No(L) \cap AskedFor(k) = {}
      /\ Ev(K) \cap Asking = {} /\ Ev(K) \cap Replied = {}
      /\ No(L) \cap Asked = {}
  BY DEF TypeOK, Ev, No, AskingFor, AnswerFor, AskedFor, Asking, Asked, Replied
<1>2. \A k : /\ Has(wq', AskingFor(k)) <=> Has(wq, AskingFor(k))
             /\ Has(wq', AnswerFor(k)) <=> Has(wq, AnswerFor(k))
  BY <1>1, Untouched
<1>3. \A k : Has(gq', AskedFor(k)) <=> Has(gq, AskedFor(k))
  BY <1>1, Untouched
<1>4. /\ Has(wq', Asking) <=> Has(wq, Asking)
      /\ One(wq, Asking) => One(wq', Asking)
      /\ Precede(wq, Asking, Replied) => Precede(wq', Asking, Replied)
  BY <1>1, Untouched
<1>5. Has(wq', Replied) <=> Has(wq, Replied)
  BY <1>1, Untouched
<1>6. /\ Has(gq', Asked) <=> Has(gq, Asked)
      /\ One(gq, Asked) => One(gq', Asked)
      /\ Precede(gq, Asked, Finished) => Precede(gq', Asked, Finished)
  BY <1>1, Untouched
<1>7. KeysAsked' BY <1>2, <1>3 DEF PromptInv, KeysAsked
<1>8. QuestionsOwed' BY <1>4, <1>5, <1>6 DEF PromptInv, QuestionsOwed
<1>9. OneQuestion'
  <2> SUFFICES ASSUME NEW u \in txs'
               PROVE  OneQuestion!(u)'
    BY DEF OneQuestion
  <2>1. PICK t \in txs : u.key = t.key OBVIOUS
  <2>2. workerKey' = workerKey OBVIOUS
  <2> QED BY <1>2, <1>3, <1>4, <1>6, <2>1, <2>2 DEF PromptInv, OneQuestion
<1> QED BY <1>7, <1>8, <1>9 DEF PromptInv

(* The answer of the user.                                                 *)
LEMMA PromptUser ==
    ASSUME TypeOK, PromptInv, UserStages
    PROVE  PromptInv'
<1>0. /\ wq \in Seq(Event)
      /\ UNCHANGED <<gq, txs, asked, workerKey>>
  BY DEF TypeOK, UserStages, workerVars, daemonVars
<1>1. CASE ConfirmClicked
  <2> DEFINE x == [e |-> "confirm", key |-> prompt]
  <2>1. prompt # NoKey /\ prompt \in Keys /\ prompt' = NoKey /\ wq' = Append(wq, x)
    BY <1>1 DEF ConfirmClicked, Post, TypeOK
  <2>2. /\ x \in Event /\ x \notin Asking
        /\ \A k : x \notin AskingFor(k) /\ (x \in AnswerFor(k) => k = prompt)
    BY <2>1 DEF Event, Asking, Ev, AskingFor, AnswerFor
  <2>3. x \notin Replied BY DEF Replied, Ev
  <2> HIDE DEF x
  <2>4. \A k : /\ Has(wq', AskingFor(k)) => Has(wq, AskingFor(k))
               /\ Has(wq', AnswerFor(k)) => Has(wq, AnswerFor(k)) \/ k = prompt
    BY <1>0, <2>1, <2>2, AppendHolds
  <2>5. /\ Has(wq', Asking) <=> Has(wq, Asking)
        /\ One(wq, Asking) => One(wq', Asking)
        /\ Precede(wq, Asking, Replied) => Precede(wq', Asking, Replied)
    BY <1>0, <2>1, <2>2, AppendHolds
  <2>6. Has(wq', Replied) <=> Has(wq, Replied)
    BY <1>0, <2>1, <2>2, <2>3, AppendHolds
  <2>7. KeysAsked'
    BY <1>0, <2>1, <2>4, NoKeyAssumption DEF PromptInv, KeysAsked
  <2>8. QuestionsOwed'
    BY <1>0, <2>1, <2>5, <2>6 DEF PromptInv, QuestionsOwed
  <2>9. OneQuestion'
    BY <1>0, <2>1, <2>4, <2>5 DEF PromptInv, OneQuestion
  <2> QED BY <2>7, <2>8, <2>9 DEF PromptInv
<1>2. CASE \/ CheckForUpdates \/ StageOfflineUpgrade \/ FetchChangelog \/ CancelClicked
           \/ DiscardClicked
  <2>1. PICK K : /\ Touches(wq, wq', Ev(K))
                 /\ K \cap {"confirm", "keyRequest", "reply"} = {}
    BY <1>2, UserTouches
  <2>2. prompt' = prompt
    BY <1>2 DEF CheckForUpdates, StageOfflineUpgrade, FetchChangelog, CancelClicked,
                DiscardClicked, StartOperation, PostAnyway
  <2>3. Touches(gq, gq', No({})) BY <1>0, NotTouched
  <2> QED BY <1>0, <2>1, <2>2, <2>3, PromptQuiet
<1> QED BY <1>1, <1>2 DEF UserStages

(* The question comes and goes.                                            *)
LEMMA PromptGui ==
    ASSUME TypeOK, PromptInv, StagingPlaces, GuiStages
    PROVE  PromptInv'
<1>0. /\ gq # <<>> /\ gq \in Seq(Notice) /\ gq' = Tail(gq) /\ Head(gq) \in Notice
      /\ UNCHANGED <<wq, txs, asked, workerKey>>
  BY GuiTakes DEF GuiStages, workerVars, daemonVars
<1>1. \A A : /\ Has(gq', A) => Has(gq, A)
             /\ One(gq, A) => One(gq', A)
             /\ Head(gq) \in A => Has(gq, A)
             /\ One(gq, A) /\ Head(gq) \in A => ~Has(gq', A)
             /\ Head(gq) \notin A => (Has(gq, A) <=> Has(gq', A))
  BY GuiLeaves
<1>2. Precede(gq, Asked, Finished) => Precede(gq', Asked, Finished)
  BY GuiLeaves
<1>3. CASE HandleRepoKeyImportRequested
  <2> DEFINE k == Head(gq).key
  <2>1. /\ Head(gq).n = "keyRequested" /\ prompt' = k
        /\ Head(gq) \in Asked /\ Head(gq) \in AskedFor(k) /\ k \in Keys
        /\ Head(gq) \notin Finished
    BY <1>0, <1>3 DEF HandleRepoKeyImportRequested, Receive, Asked, AskedFor, No,
                      Notice, Finished
  <2> HIDE DEF k
  <2>2. Has(gq, Asked) /\ Has(gq, AskedFor(k)) BY <1>1, <2>1
  <2>3. k \in asked BY <2>1, <2>2 DEF PromptInv, KeysAsked
  <2>4. KeysAsked'
    BY <1>0, <1>1, <2>1, <2>3 DEF PromptInv, KeysAsked
  <2>5. QuestionsOwed'
    <3>1. txs = {} /\ ~Has(wq, Replied) => Has(gq', Finished)
      BY <1>1, <2>1, <2>2, HoldsNot DEF PromptInv, QuestionsOwed
    <3> QED BY <1>0, <1>2, <2>1, <3>1 DEF PromptInv, QuestionsOwed
  <2>6. OneQuestion'
    BY <1>0, <1>1, <2>1, <2>2 DEF PromptInv, OneQuestion
  <2> QED BY <2>4, <2>5, <2>6 DEF PromptInv
<1>4. CASE HandleOperationFinished
  <2>1. prompt' = NoKey BY <1>4 DEF HandleOperationFinished
  <2>2. KeysAsked'
    BY <1>0, <1>1, <2>1, NoKeyAssumption DEF PromptInv, KeysAsked
  <2>3. QuestionsOwed' BY <1>0, <1>2, <2>1 DEF PromptInv, QuestionsOwed
  <2>4. OneQuestion' BY <1>0, <1>1, <2>1 DEF PromptInv, OneQuestion
  <2> QED BY <2>2, <2>3, <2>4 DEF PromptInv
<1>5. CASE ~HandleRepoKeyImportRequested /\ ~HandleOperationFinished
  <2>1. /\ prompt' = prompt
        /\ Head(gq).n \in {"checkStarted", "checkFinished", "stageShown",
                           "offlineReady", "changelogFetched"}
    BY <1>5 DEF GuiStages, HandleCheckStarted, HandleCheckFinished, Receive,
       HandleProgressStageUpdated, HandleOfflineStagedReady, HandleChangelogFetched
  <2>2. Head(gq) \notin Finished BY <2>1 DEF Finished, No
  <2>3. Touches(gq, gq', No({Head(gq).n})) BY GuiTakes
  <2>4. Touches(wq, wq', Ev({})) BY <1>0, NotTouched
  <2>5. Has(gq, Finished) => Has(gq', Finished) BY <1>1, <2>2
  <2> QED BY <1>0, <2>1, <2>3, <2>4, <2>5, PromptQuiet
<1> QED BY <1>3, <1>4, <1>5

(* The worker forgets a key only when it closes its session, and then no   *)
(* transaction waits for one.                                              *)
LEMMA KeyForgotten ==
    ASSUME TypeOK, StagingInv, StagingPlaces, WorkerStages,
           ~ConfirmRepoKey, ~HandleKeyRequest
    PROVE  workerKey' = workerKey \/ txs = {}
<1>1. SessionCloses => txs = {} BY ClosesAlone DEF StagingInv
<1>2. CASE ~SessionCloses
  BY <1>2 DEF WorkerStages, SessionCloses, ChangelogBegin, ChangelogEnd,
     CancelOperation, HandleSignal, workerVars
<1> QED BY <1>1, <1>2

(* A staged download is sent to the daemon when no key is asked about.     *)
LEMMA PromptSend ==
    ASSUME TypeOK, StagingInv, StagingPlaces, PromptInv, UNCHANGED <<prompt, asked>>,
           TransactionSend("stage"), txs' # txs
    PROVE  PromptInv'
<1>1. /\ pc = "stage" /\ txs = {} /\ wq' = wq
      /\ gq' = gq \o <<Note("stageShown")>>
      /\ txs' = txs \cup {[kind |-> "stage", sess |-> session,
                           phase |-> "sent", key |-> NoKey]}
  BY TellsInFull DEF TransactionSend, StagingPlaces, StagingInv
<1>2. \A t \in txs' : t.key = NoKey BY <1>1
<1>3. txs' # {} BY <1>1
<1>4. ~Has(wq, Replied) /\ ~Has(gq, Finished)
  <2>1. Has(wq, Replied) => Has(wq, Requests) BY DEF Has, Replied, Requests, Ev
  <2> QED BY <1>1, <2>1 DEF StagingPlaces, Downloading
<1>5. prompt = NoKey /\ ~Has(wq, Asking) /\ ~Has(gq, Asked)
  BY <1>1, <1>4, HoldsNot DEF PromptInv, QuestionsOwed
<1>6. \A k \in Keys : ~Has(wq, AskingFor(k)) /\ ~Has(gq, AskedFor(k))
  BY <1>5, AskingIs
<1>7. /\ \A k : Has(gq', AskedFor(k)) <=> Has(gq, AskedFor(k))
      /\ Has(gq', Asked) <=> Has(gq, Asked)
  <2>1. Touches(gq, gq', No({"stageShown", "finished"}))
    BY WorkerTells DEF StagingInv
  <2>2. /\ gq \in Seq(Notice) /\ No({"stageShown", "finished"}) \in SUBSET Notice
        /\ \A k : No({"stageShown", "finished"}) \cap AskedFor(k) = {}
        /\ No({"stageShown", "finished"}) \cap Asked = {}
    BY DEF TypeOK, No, AskedFor, Asked
  <2> QED BY <2>1, <2>2, Untouched
<1>8. KeysAsked' BY <1>1, <1>2, <1>7 DEF PromptInv, KeysAsked
<1>9. QuestionsOwed' BY <1>3 DEF QuestionsOwed
<1>10. OneQuestion'
  BY <1>1, <1>2, <1>5, <1>6, <1>7, HoldsNot, NoKeyAssumption DEF OneQuestion
<1> QED BY <1>8, <1>9, <1>10 DEF PromptInv

(* Its reply leaves the end of the operation behind every question.        *)
LEMMA PromptReply ==
    ASSUME TypeOK, StagingInv, StagingPlaces, PromptInv, UNCHANGED <<prompt, asked>>,
           StageReply
    PROVE  PromptInv'
<1>0. wq \in Seq(Event) /\ gq \in Seq(Notice) BY DEF TypeOK
<1>1. txs = {} /\ txs' = txs
  BY ClosesAlone DEF StagingInv, SessionCloses, StageReply
<1>2. wq # <<>> /\ wq' = Tail(wq) /\ Head(wq) \in Replied
  BY <1>0, TakeType DEF StageReply, TakeReply, Take, Replied, Ev
<1>3. One(wq, Replied) /\ ~Has(wq', Replied)
  <2>1. One(wq, Replied) BY DEF StagingPlaces, One, Replied, Requests, Ev
  <2> QED BY <1>0, <1>2, <2>1, TailHolds
<1>4. ~Has(wq, Asking)
  BY <1>0, <1>1, <1>2, <1>3, TailHolds DEF PromptInv, QuestionsOwed
<1>5. \A A : Has(wq', A) => Has(wq, A) BY <1>0, <1>2, TailHolds
<1>6. \E r \in Seq(Notice) : gq' = gq \o r /\ Has(r, Finished) /\ ~Has(r, Asked)
  <2> DEFINE no == Told("offlineReady", FALSE)
             yes == Told("offlineReady", TRUE)
             end == Told("finished", TRUE)
             bad == Told("finished", FALSE)
  <2>1. /\ no \in Notice /\ yes \in Notice /\ end \in Notice /\ bad \in Notice
        /\ end \in Finished /\ bad \in Finished
    BY NoticeSets
  <2>2. no \notin Asked /\ yes \notin Asked /\ end \notin Asked /\ bad \notin Asked
    BY DEF Told, Asked, No
  <2>3. PICK ns \in StageOutcomes : gq' = gq \o ns \/ gq' = gq \o (<<no>> \o ns)
    BY TellsInFull DEF StagingInv
  <2>4. ns = <<yes, end>> \/ ns = <<bad>> BY DEF StageOutcomes
  <2> HIDE DEF no, yes, end, bad
  <2>5. ns \in Seq(Notice) /\ Has(ns, Finished) /\ ~Has(ns, Asked)
    <3>1. CASE ns = <<yes, end>> BY <2>1, <2>2, <3>1, FewHold
    <3>2. CASE ns = <<bad>> BY <2>1, <2>2, <3>2, FewHold
    <3> QED BY <2>4, <3>1, <3>2
  <2>6. <<no>> \in Seq(Notice) /\ ~Has(<<no>>, Asked)
    BY <2>1, <2>2, FewHold
  <2> DEFINE hd == <<no>>
  <2>7. hd \in Seq(Notice) /\ ~Has(hd, Asked) BY <2>6
  <2>8. gq' = gq \o ns \/ gq' = gq \o (hd \o ns) BY <2>3
  <2> HIDE DEF hd
  <2>9. /\ hd \o ns \in Seq(Notice)
        /\ Has(hd \o ns, Finished) /\ ~Has(hd \o ns, Asked)
    BY <2>5, <2>7, ConcatHolds
  <2> QED BY <2>5, <2>8, <2>9
<1>7. PICK r \in Seq(Notice) : gq' = gq \o r /\ Has(r, Finished) /\ ~Has(r, Asked)
  BY <1>6
<1>8. Has(gq', Finished) /\ Precede(gq', Asked, Finished)
  BY <1>0, <1>7, ConcatHolds, HoldsNot
<1>9. \A k \in Keys : Has(gq', AskedFor(k)) => Has(gq, AskedFor(k))
  <2>1. \A k : AskedFor(k) \subseteq Asked BY DEF AskedFor, Asked, No
  <2>2. \A k : ~Has(r, AskedFor(k)) BY <1>7, <2>1 DEF Has
  <2> QED BY <1>0, <1>7, <2>2, ConcatHolds
<1>10. KeysAsked' BY <1>1, <1>5, <1>9 DEF PromptInv, KeysAsked
<1>11. Precede(wq', Asking, Replied) BY <1>4, <1>5, HoldsNot
<1>12. QuestionsOwed' BY <1>8, <1>11 DEF QuestionsOwed
<1>13. OneQuestion' BY <1>1 DEF OneQuestion
<1> QED BY <1>10, <1>12, <1>13 DEF PromptInv

(* The answer is passed on to the transaction that waits for it; one that  *)
(* comes too late changes nothing.                                         *)
LEMMA PromptAnswered ==
    ASSUME TypeOK, StagingInv, StagingPlaces, PromptInv, UNCHANGED <<prompt, asked>>,
           ConfirmRepoKey
    PROVE  PromptInv'
<1> DEFINE key == Head(wq).key
           live == session # NoSession /\ key = workerKey
           f(t) == IF live /\ t.sess = session /\ t.key = key
                   THEN [t EXCEPT !.key = NoKey] ELSE t
<1>0. wq \in Seq(Event) BY DEF TypeOK
<1>1. /\ wq # <<>> /\ wq' = Tail(wq) /\ Head(wq) \in Event /\ Head(wq).e = "confirm"
      /\ gq' = gq
      /\ workerKey' = IF live THEN NoKey ELSE workerKey
  BY <1>0, TakeType DEF ConfirmRepoKey
<1>2. txs' = {f(t) : t \in txs} BY DEF ConfirmRepoKey
<1>3. key \in Keys /\ Head(wq) \in AnswerFor(key)
  BY <1>1 DEF Event, Plain, Signals, TxKinds, AnswerFor
<1>4. /\ \A A : Has(wq', A) => Has(wq, A)
      /\ \A A : One(wq, A) => One(wq', A)
      /\ \A A : Head(wq) \in A => Has(wq, A)
      /\ \A A, B : Precede(wq, A, B) => Precede(wq', A, B)
      /\ \A A : Head(wq) \notin A => (Has(wq', A) <=> Has(wq, A))
  BY <1>0, <1>1, TailHolds
<1>5. /\ Has(wq, AnswerFor(key))
      /\ Has(wq', Replied) <=> Has(wq, Replied)
  BY <1>1, <1>3, <1>4 DEF Replied, Ev
<1>6. \A t \in txs : /\ session = t.sess /\ session # NoSession
                     /\ f(t) = t \/ f(t).key = NoKey
                     /\ live /\ t.key = key => f(t).key = NoKey
                     /\ t.key # key => f(t) = t
  BY NoSessionAssumption DEF StagingInv, SessionsApart, TypeOK, Transaction
<1> HIDE DEF f
<1>7. KeysAsked'
  BY <1>1, <1>2, <1>4, <1>6 DEF PromptInv, KeysAsked
<1>8. QuestionsOwed'
  <2>1. txs' = {} <=> txs = {} BY <1>2
  <2> QED BY <1>1, <1>4, <1>5, <2>1 DEF PromptInv, QuestionsOwed
<1>9. ASSUME NEW t \in txs
      PROVE  /\ prompt # NoKey =>
                  /\ workerKey' = prompt /\ f(t).key = prompt
                  /\ ~Has(gq, Asked) /\ ~Has(wq', Asking)
             /\ \A k \in Keys : Has(gq, AskedFor(k)) =>
                  workerKey' = k /\ f(t).key = k /\ ~Has(wq', Asking)
             /\ \A k \in Keys : Has(wq', AskingFor(k)) => f(t).key = k
             /\ One(gq, Asked) /\ One(wq', Asking)
             /\ \A k \in Keys : Has(wq', AnswerFor(k)) /\ f(t).key = k =>
                  prompt = NoKey /\ ~Has(gq, Asked) /\ ~Has(wq', Asking)
  <2>1. CASE t.key = key
    <3>1. prompt = NoKey /\ ~Has(gq, Asked) /\ ~Has(wq, Asking)
      BY <1>3, <1>5, <2>1 DEF PromptInv, OneQuestion
    <3>2. \A k \in Keys : ~Has(gq, AskedFor(k)) /\ ~Has(wq, AskingFor(k))
      BY <3>1, AskingIs
    <3> QED BY <1>4, <3>1, <3>2, HoldsNot
  <2>2. CASE t.key # key
    <3>1. f(t) = t BY <1>6, <2>2
    <3>2. live => prompt = NoKey /\ \A k \in Keys : ~Has(gq, AskedFor(k))
      BY <2>2 DEF PromptInv, OneQuestion
    <3> HIDE DEF live
    <3> QED BY <1>1, <1>4, <3>1, <3>2 DEF PromptInv, OneQuestion
  <2> QED BY <2>1, <2>2
<1>10. OneQuestion'
  <2> SUFFICES ASSUME NEW u \in txs' PROVE OneQuestion!(u)'
    BY DEF OneQuestion
  <2>1. PICK t \in txs : u = f(t) BY <1>2
  <2> QED BY <1>1, <1>9, <2>1
<1> QED BY <1>7, <1>8, <1>10 DEF PromptInv

(* The worker passes the question on to the GUI.                           *)
LEMMA PromptPassedOn ==
    ASSUME TypeOK, StagingInv, StagingPlaces, PromptInv, UNCHANGED <<prompt, asked>>,
           HandleKeyRequest
    PROVE  PromptInv'
<1> DEFINE key == Head(wq).key
           q == [n |-> "keyRequested", key |-> key]
<1>0. wq \in Seq(Event) /\ gq \in Seq(Notice) BY DEF TypeOK
<1>1. /\ wq # <<>> /\ wq' = Tail(wq) /\ Head(wq) \in Event
      /\ Head(wq).e = "keyRequest"
      /\ gq' = gq \o <<q>> /\ workerKey' = key /\ txs' = txs
  BY <1>0, TakeType DEF HandleKeyRequest, Emit, daemonVars
<1>2. /\ key \in Keys /\ Head(wq) \in AskingFor(key) /\ Head(wq) \in Asking
      /\ Head(wq) \notin Replied
  BY <1>1 DEF Event, Plain, Signals, TxKinds, AskingFor, Asking, Replied, Ev
<1>3. /\ \A A : Has(wq', A) => Has(wq, A)
      /\ \A A : One(wq, A) => One(wq', A)
      /\ \A A : Head(wq) \in A => Has(wq, A)
      /\ \A A : One(wq, A) /\ Head(wq) \in A => ~Has(wq', A)
      /\ \A A, B : Precede(wq, A, B) => Precede(wq', A, B)
      /\ \A A : Head(wq) \notin A => (Has(wq', A) <=> Has(wq, A))
  BY <1>0, <1>1, TailHolds
<1>4. q \in Notice /\ \A k : q \in AskedFor(k) => k = key
  BY <1>2 DEF Notice, AskedFor
<1>5. q \notin Finished BY DEF Finished, No
<1> HIDE DEF q
<1>6. /\ <<q>> \in Seq(Notice) /\ One(<<q>>, Asked) /\ ~Has(<<q>>, Finished)
      /\ \A k : Has(<<q>>, AskedFor(k)) => k = key
  BY <1>4, <1>5, FewHold
<1> DEFINE r == <<q>>
<1>7. r \in Seq(Notice) /\ One(r, Asked) /\ gq' = gq \o r
  BY <1>1, <1>6
<1>8. \A k : Has(r, AskedFor(k)) => k = key BY <1>6
<1> HIDE DEF r
<1>9. /\ \A k : Has(gq', AskedFor(k)) => Has(gq, AskedFor(k)) \/ k = key
      /\ \A A : Has(gq, A) => Has(gq', A)
      /\ ~Has(gq, Asked) => One(gq', Asked)
  BY <1>0, <1>7, <1>8, ConcatHolds
<1>10. Has(wq, AskingFor(key)) /\ Has(wq, Asking) BY <1>2, <1>3
<1>11. KeysAsked'
  <2>1. key \in asked BY <1>2, <1>10 DEF PromptInv, KeysAsked
  <2> QED BY <1>1, <1>3, <1>9, <2>1 DEF PromptInv, KeysAsked
<1>12. QuestionsOwed'
  <2>1. txs = {} => Has(wq, Replied)
    BY <1>10, HoldsNot DEF PromptInv, QuestionsOwed
  <2> QED BY <1>1, <1>2, <1>3, <1>9, <2>1 DEF PromptInv, QuestionsOwed
<1>13. ASSUME NEW t \in txs
       PROVE  /\ t.key = key /\ prompt = NoKey /\ ~Has(gq, Asked) /\ One(wq, Asking)
              /\ ~Has(wq, AnswerFor(key))
  <2>1. t.key = key /\ One(wq, Asking)
    BY <1>2, <1>10 DEF PromptInv, OneQuestion
  <2>2. prompt = NoKey /\ \A k \in Keys : ~Has(gq, AskedFor(k))
    BY <1>10 DEF PromptInv, OneQuestion
  <2>3. ~Has(wq, AnswerFor(key))
    BY <1>2, <1>10, <2>1 DEF PromptInv, OneQuestion
  <2> QED BY <2>1, <2>2, <2>3, AskingIs
<1>14. OneQuestion'
  <2> SUFFICES ASSUME NEW t \in txs PROVE OneQuestion!(t)'
    BY <1>1 DEF OneQuestion
  <2>1. ~Has(wq', Asking) /\ One(wq', Asking) /\ One(gq', Asked)
    BY <1>2, <1>3, <1>9, <1>13
  <2>2. \A k \in Keys : ~Has(gq, AskedFor(k)) BY <1>13, AskingIs
  <2>3. \A k \in Keys : ~Has(wq', AskingFor(k))
    <3>1. \A k : AskingFor(k) \subseteq Asking BY DEF AskingFor, Asking, Ev
    <3> QED BY <2>1, <3>1 DEF Has
  <2> QED BY <1>1, <1>3, <1>9, <1>13, <2>1, <2>2, <2>3
<1> QED BY <1>11, <1>12, <1>14 DEF PromptInv

(* What the worker does keeps the questions where they belong.             *)
LEMMA PromptWorker ==
    ASSUME TypeOK, StagingInv, StagingPlaces, PromptInv, WorkerStages
    PROVE  PromptInv'
<1>0. /\ wq \in Seq(Event) /\ gq \in Seq(Notice)
      /\ UNCHANGED <<prompt, asked>>
  BY DEF TypeOK, WorkerStages, guiVars, daemonVars, CheckBegin, CheckEnd, ChangelogBegin,
         ChangelogEnd, TransactionBegin, TransactionSend, StageReply, CancelOperation,
         CleanOffline, ConfirmRepoKey, HandleSignal, HandleKeyRequest
<1>1. CASE TransactionSend("stage") /\ txs' # txs BY <1>0, <1>1, PromptSend
<1>2. CASE StageReply BY <1>0, <1>2, PromptReply
<1>3. CASE ConfirmRepoKey BY <1>0, <1>3, PromptAnswered
<1>4. CASE HandleKeyRequest BY <1>0, <1>4, PromptPassedOn
<1>5. CASE ~StageReply /\ ~ConfirmRepoKey /\ ~HandleKeyRequest /\ txs' = txs
  <2>1. PICK K : /\ Touches(wq, wq', Ev(K))
                 /\ K \cap {"confirm", "keyRequest", "reply"} = {}
    <3>1. PICK e : /\ Touches(wq, wq', Ev({e}))
                   /\ e \notin {"confirm", "keyRequest", "reply"}
      BY <1>5, WorkerTakesOne DEF StagingInv
    <3> QED BY <3>1
  <2>2. PICK L : Adds(gq, gq', No(L)) /\ "keyRequested" \notin L
    <3>1. gq' = gq => Adds(gq, gq', No({})) BY DEF Adds
    <3> QED BY <1>5, <3>1, WorkerAdds DEF WorkerStages, StagingInv
  <2>3. Touches(gq, gq', No(L)) BY <2>2 DEF Adds, Touches
  <2>4. Has(gq, Finished) => Has(gq', Finished)
    BY <1>0, <2>2, AddsHolds DEF No
  <2>5. workerKey' = workerKey \/ txs = {} BY <1>5, KeyForgotten
  <2> QED BY <1>0, <1>5, <2>1, <2>2, <2>3, <2>4, <2>5, PromptQuiet
<1> QED
  <2>1. txs' # txs => TransactionSend("stage") \/ ConfirmRepoKey
    BY DEF WorkerStages, CheckBegin, CheckEnd, ChangelogBegin, ChangelogEnd,
       TransactionBegin, StageReply, CancelOperation, CleanOffline, HandleSignal,
       HandleKeyRequest, daemonVars
  <2> QED BY <1>1, <1>2, <1>3, <1>4, <1>5, <2>1

(* A question is asked of a worker that listens, with no other of its      *)
(* transaction on its way, and the reply is behind every question.         *)
LEMMA PromptDaemon ==
    ASSUME ~AsksEarly, TypeOK, StagingInv, StagingPlaces, PromptInv, DaemonStages
    PROVE  PromptInv'
<1>0. /\ wq \in Seq(Event)
      /\ UNCHANGED <<gq, prompt, workerKey>>
  BY DEF TypeOK, DaemonStages, workerVars, guiVars
<1>1. PICK t \in txs : DaemonDownloads(t) \/ DaemonAsksKey(t) \/ DaemonReplies(t)
  BY DEF DaemonStages, DaemonAsksEarly
<1>2. /\ t \in Transaction /\ t.kind \in TxKinds /\ t.sess \in Sessions
      /\ session = t.sess /\ connected /\ \A u \in txs : u = t
  BY DEF TypeOK, Transaction, StagingInv, SessionsApart, StagingPlaces
<1>3. CASE DaemonDownloads(t)
  <2> DEFINE v == [t EXCEPT !.phase = "downloading"]
  <2>1. v.key = t.key BY <1>2 DEF Transaction
  <2> HIDE DEF v
  <2>2. txs' = (txs \ {t}) \cup {v} /\ asked' = asked
    BY <1>3 DEF DaemonDownloads, Advance, v
  <2>3. Touches(wq, wq', Ev({"progress"})) BY <1>3, DaemonTouches
  <2>4. Touches(gq, gq', No({})) BY <1>0, NotTouched
  <2>5. (txs' = {} <=> txs = {}) /\ \A u \in txs' : u.key = t.key
    BY <1>2, <2>1, <2>2
  <2> QED BY <1>0, <2>2, <2>3, <2>4, <2>5, PromptQuiet
<1>4. CASE DaemonAsksKey(t)
  <2>1. PICK k \in Keys \ asked :
           /\ txs' = (txs \ {t}) \cup {[t EXCEPT !.key = k]}
           /\ asked' = asked \cup {k}
           /\ wq' = Append(wq, [e |-> "keyRequest", key |-> k])
    BY <1>2, <1>4 DEF DaemonAsksKey, Hear
  <2> DEFINE x == [e |-> "keyRequest", key |-> k]
             v == [t EXCEPT !.key = k]
  <2>2. /\ x \in Event /\ \A j : x \in AskingFor(j) => j = k
        /\ \A j : x \notin AnswerFor(j)
        /\ v.key = k /\ t.key = NoKey
    BY <1>2, <1>4 DEF Event, AskingFor, AnswerFor, Transaction, DaemonAsksKey
  <2>3. wq' = Append(wq, x) /\ txs' = {v} BY <1>2, <2>1
  <2> HIDE DEF x, v
  <2>4. /\ \A j : Has(wq', AskingFor(j)) => Has(wq, AskingFor(j)) \/ j = k
        /\ \A j : Has(wq', AnswerFor(j)) => Has(wq, AnswerFor(j))
        /\ ~Has(wq, Asking) => One(wq', Asking)
    BY <1>0, <2>2, <2>3, AppendHolds
  <2>5. /\ prompt = NoKey /\ One(gq, Asked)
        /\ \A j \in Keys : ~Has(gq, AskedFor(j)) /\ ~Has(wq, AskingFor(j))
    BY <2>2, NoKeyAssumption DEF PromptInv, OneQuestion
  <2>6. ~Has(gq, Asked) /\ ~Has(wq, Asking) BY <2>5, AskingIs
  <2>7. ~Has(wq, AnswerFor(k)) BY <2>1 DEF PromptInv, KeysAsked
  <2>8. KeysAsked'
    BY <1>0, <2>1, <2>2, <2>3, <2>4 DEF PromptInv, KeysAsked
  <2>9. QuestionsOwed' BY <2>3 DEF QuestionsOwed
  <2>10. OneQuestion'
    BY <1>0, <2>2, <2>3, <2>4, <2>5, <2>6, <2>7 DEF OneQuestion
  <2> QED BY <2>8, <2>9, <2>10 DEF PromptInv
<1>5. CASE DaemonReplies(t)
  <2>1. PICK res \in Results :
           wq' = Append(wq, [e |-> "reply", kind |-> t.kind, sess |-> t.sess,
                             res |-> res])
    BY <1>5 DEF DaemonReplies
  <2> DEFINE x == [e |-> "reply", kind |-> t.kind, sess |-> t.sess, res |-> res]
  <2>2. /\ x \in Event /\ x \in Replied /\ x \notin Asking
        /\ \A k : x \notin AskingFor(k) /\ x \notin AnswerFor(k)
    BY <1>2 DEF Event, Replied, Asking, Ev, AskingFor, AnswerFor
  <2>3. wq' = Append(wq, x) /\ txs' = {} /\ asked' = asked
    BY <1>2, <1>5, <2>1 DEF DaemonReplies
  <2> HIDE DEF x
  <2>4. /\ \A k : Has(wq', AskingFor(k)) => Has(wq, AskingFor(k))
        /\ \A k : Has(wq', AnswerFor(k)) => Has(wq, AnswerFor(k))
        /\ Has(wq', Replied) /\ Precede(wq', Asking, Replied)
    BY <1>0, <2>2, <2>3, AppendHolds
  <2>5. KeysAsked' BY <1>0, <2>3, <2>4 DEF PromptInv, KeysAsked
  <2>6. QuestionsOwed' BY <2>4 DEF QuestionsOwed
  <2>7. OneQuestion' BY <2>3 DEF OneQuestion
  <2> QED BY <2>5, <2>6, <2>7 DEF PromptInv
<1> QED BY <1>1, <1>3, <1>4, <1>5

(* A key the panel asks about is one the daemon waits for and whose answer *)
(* the worker passes on, or the end of the operation, which takes the      *)
(* question away, is on its way: as long as the daemon does not ask while  *)
(* the worker is blocked in a call (Staging.cfg leaves that case out too).  *)
THEOREM QuestionsAlwaysLive ==
    ASSUME UserOps \subseteq StagingOps, ~AsksEarly PROVE Spec => []PromptIsLive
<1>1. Init => PromptInv
  <2> SUFFICES ASSUME Init PROVE PromptInv
    OBVIOUS
  <2>1. wq = <<>> /\ gq = <<>> /\ txs = {} /\ prompt = NoKey
    BY DEF Init, WorkerInit
  <2>2. DOMAIN <<>> = {} OBVIOUS
  <2>3. \A A : ~Has(wq, A) /\ ~Has(gq, A) BY <2>1, <2>2 DEF Has
  <2>4. KeysAsked BY <2>1, <2>3, NoKeyAssumption DEF KeysAsked
  <2>5. QuestionsOwed BY <2>1, <2>3, HoldsNot DEF QuestionsOwed
  <2>6. OneQuestion BY <2>1 DEF OneQuestion
  <2> QED BY <2>4, <2>5, <2>6 DEF PromptInv
<1>2. SessionInv /\ FlightInv /\ StagingInv /\ PromptInv /\ [Next]_vars => PromptInv'
  <2> SUFFICES ASSUME SessionInv, FlightInv, StagingInv, PromptInv, [Next]_vars
               PROVE  PromptInv'
    OBVIOUS
  <2>0. TypeOK /\ StagingPlaces BY PlacesHeld DEF StagingInv, SessionInv
  <2>1. CASE Next
    <3>1. UserStages \/ GuiStages \/ WorkerStages \/ DaemonStages
      BY <2>0, <2>1, StagingNext DEF StagingInv
    <3> QED BY <2>0, <3>1, PromptUser, PromptGui, PromptWorker, PromptDaemon
  <2>2. CASE UNCHANGED vars
    BY <2>2 DEF vars, wdVars, workerVars, daemonVars, guiVars, PromptInv, KeysAsked,
                QuestionsOwed, OneQuestion
  <2> QED BY <2>1, <2>2
<1>3. StagingInv /\ PromptInv => PromptIsLive
  <2> SUFFICES ASSUME StagingInv, PromptInv, prompt # NoKey,
                      Replying = {}, ~\E i \in DOMAIN gq : gq[i].n = "finished"
               PROVE  workerKey = prompt /\ \E t \in txs : t.sess = session /\ t.key = prompt
    BY DEF PromptIsLive
  <2>1. ~Has(wq, Replied) BY DEF Has, Replied, Ev, Replying
  <2>2. ~Has(gq, Finished) BY DEF Has, Finished, No
  <2>3. txs # {} BY <2>1, <2>2 DEF PromptInv, QuestionsOwed
  <2> QED BY <2>3 DEF PromptInv, OneQuestion, StagingInv, SessionsApart
<1> QED BY <1>1, <1>2, <1>3, StagingInvariance, PTL DEF Spec
=============================================================================
