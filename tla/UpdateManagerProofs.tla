------------------------ MODULE UpdateManagerProofs -------------------------
(***************************************************************************)
(* Invariants of the update subsystem, proved for any number of sessions,  *)
(* keys and requests and for any choice of the operations asked for; and   *)
(* that an upgrade is one flight of an operation (OperationFlight), as     *)
(* long as none of the operations is asked for that end with two signals   *)
(* (cleanCache and autoremove, see NoOverlap) or that end nothing          *)
(* (rebootAndApply).                                                       *)
(***************************************************************************)
EXTENDS UpdateManager, TLAPS

-----------------------------------------------------------------------------
(* What the handlers read from and write to the two queues.                *)

(* Taking an event leaves a queue of events and yields an event.           *)
LEMMA TakeType ==
    ASSUME wq \in Seq(Event), NEW e, Take(e)
    PROVE  /\ pc = "idle" /\ wq # <<>>
           /\ wq' = Tail(wq) /\ wq' \in Seq(Event)
           /\ Head(wq) \in Event /\ Head(wq).e = e
BY DEF Take

(* Every notice the worker makes is one the GUI has a slot for.            *)
LEMMA NoticeForms ==
    /\ \A n \in {"checkStarted", "applyStarted", "stageShown", "stageCleared",
                 "changelogFetched"} : Note(n) \in Notice
    /\ \A n \in {"offlineReady", "finished", "cleanFinished",
                 "autoremoveFinished"}, ok \in BOOLEAN : Told(n, ok) \in Notice
    /\ \A u \in Upgrades \cup {"failed"} : CheckDone(u) \in Notice
BY DEF Note, Told, CheckDone, Notice

(* The signals that end an operation are one or two notices.               *)
LEMMA AnswerType ==
    ASSUME NEW kind, NEW ok \in BOOLEAN
    PROVE  Answer(kind, ok) \in Seq(Notice)
<1>1. /\ Told("finished", ok) \in Notice
      /\ Told("cleanFinished", ok) \in Notice
      /\ Told("autoremoveFinished", ok) \in Notice
    BY NoticeForms
<1>2. CASE kind = "autoremove" BY <1>1, <1>2 DEF Answer
<1>3. CASE kind = "clean" BY <1>1, <1>3 DEF Answer
<1>4. CASE kind # "autoremove" /\ kind # "clean" BY <1>1, <1>4 DEF Answer
<1> QED BY <1>2, <1>3, <1>4

(* Notices are appended to the queue they are emitted to.                  *)
LEMMA EmitType ==
    ASSUME gq \in Seq(Notice), NEW ns \in Seq(Notice), Emit(ns)
    PROVE  gq' \in Seq(Notice)
BY DEF Emit

(* Two runs of notices make one.                                           *)
LEMMA ConcatType ==
    ASSUME NEW a \in Seq(Notice), NEW b \in Seq(Notice)
    PROVE  a \o b \in Seq(Notice)
OBVIOUS

-----------------------------------------------------------------------------
(* The session helpers.                                                    *)

(* What is left when the session is closed.                                *)
LEMMA CloseType ==
    ASSUME TypeOK, CloseSession
    PROVE  /\ session' = NoSession /\ inhibited' = FALSE /\ workerKey' = NoKey
           /\ connected' \in BOOLEAN /\ dsess' \subseteq Sessions
BY DEF TypeOK, CloseSession

(* What an open session leaves.                                            *)
LEMMA OpenType ==
    ASSUME TypeOK, NEW tx \in BOOLEAN, OpenSession(tx)
    PROVE  /\ session' \in Sessions /\ connected' \in BOOLEAN
           /\ inhibited' \in BOOLEAN /\ workerKey' = NoKey
           /\ cancelled' = FALSE /\ dsess' \subseteq Sessions
BY DEF TypeOK, OpenSession, Fresh

-----------------------------------------------------------------------------
(* Type correctness, one lemma per handler.                                *)

(* The check's two steps.                                                  *)
LEMMA CheckType ==
    ASSUME TypeOK, CheckBegin \/ CheckEnd, UNCHANGED guiVars
    PROVE  TypeOK'
<1> USE DEF guiVars
<1>1. CASE CheckBegin
  <2>1. wq' \in Seq(Event)
    BY <1>1, TakeType DEF CheckBegin, TypeOK
  <2>2. CASE OpenSession(FALSE) /\ Emit(<<Note("checkStarted")>>) /\ pc' = "checking"
    <3>1. <<Note("checkStarted")>> \in Seq(Notice) BY NoticeForms
    <3>2. gq' \in Seq(Notice) BY <2>2, <3>1, EmitType DEF TypeOK
    <3> QED BY <1>1, <2>1, <2>2, <3>2, OpenType DEF CheckBegin, TypeOK
  <2>3. CASE /\ OpenFails /\ pc' = "idle"
             /\ Emit(<<Note("checkStarted"), CheckDone("failed")>>)
    <3>1. <<Note("checkStarted"), CheckDone("failed")>> \in Seq(Notice)
      BY NoticeForms
    <3>2. gq' \in Seq(Notice) BY <2>3, <3>1, EmitType DEF TypeOK
    <3> QED BY <1>1, <2>1, <2>3, <3>2, CloseType DEF CheckBegin, OpenFails, TypeOK
  <2> QED BY <1>1, <2>2, <2>3 DEF CheckBegin
<1>2. CASE CheckEnd
  <2>1. avail' \in Upgrades BY <1>2 DEF CheckEnd, TypeOK
  <2>2. gq' \in Seq(Notice)
    <3>1. /\ CheckDone("failed") \in Notice /\ CheckDone(avail') \in Notice
          /\ Told("offlineReady", staged) \in Notice
      BY <2>1, NoticeForms DEF TypeOK
    <3>2. /\ <<CheckDone("failed")>> \in Seq(Notice)
          /\ <<CheckDone(avail')>> \in Seq(Notice)
          /\ <<Told("offlineReady", staged), CheckDone(avail')>> \in Seq(Notice)
      BY <3>1
    <3>3. \/ Emit(<<CheckDone("failed")>>)
          \/ Emit(<<CheckDone(avail')>>)
          \/ Emit(<<Told("offlineReady", staged), CheckDone(avail')>>)
      BY <1>2 DEF CheckEnd
    <3> QED BY <3>2, <3>3, EmitType DEF TypeOK
  <2> QED BY <1>2, <2>1, <2>2, CloseType DEF CheckEnd, TypeOK
<1> QED BY <1>1, <1>2

(* The changelog's two steps.                                              *)
LEMMA ChangelogType ==
    ASSUME TypeOK, ChangelogBegin \/ ChangelogEnd, UNCHANGED guiVars
    PROVE  TypeOK'
<1> USE DEF guiVars
<1>1. ASSUME Emit(<<Note("changelogFetched")>>) PROVE gq' \in Seq(Notice)
  <2>1. <<Note("changelogFetched")>> \in Seq(Notice) BY NoticeForms
  <2> QED BY <1>1, <2>1, EmitType DEF TypeOK
<1>2. CASE ChangelogBegin
  <2>1. wq' \in Seq(Event) BY <1>2, TakeType DEF ChangelogBegin, TypeOK
  <2>2. gq' \in Seq(Notice) BY <1>1, <1>2 DEF ChangelogBegin, TypeOK
  <2> QED BY <1>2, <2>1, <2>2 DEF ChangelogBegin, Fresh, TypeOK
<1>3. CASE ChangelogEnd
  BY <1>1, <1>3 DEF ChangelogEnd, TypeOK
<1> QED BY <1>2, <1>3

(* The steps before a transaction is sent to the daemon.                   *)
LEMMA TransactionType ==
    ASSUME TypeOK, UNCHANGED guiVars, NEW kind \in TxKinds,
           TransactionBegin(kind) \/ TransactionSend(kind),
           pc = kind => session \in Sessions
    PROVE  TypeOK'
<1> USE DEF guiVars
<1>1. \A ok \in BOOLEAN : Answer(kind, ok) \in Seq(Notice)
  BY AnswerType
<1>2. CASE TransactionBegin(kind)
  <2>1. wq' \in Seq(Event) BY <1>2, TakeType DEF TransactionBegin, TypeOK
  <2> DEFINE preparing == IF kind = "stage" THEN <<>> ELSE <<Note("stageShown")>>
  <2>2. preparing \in Seq(Notice) /\ <<Note("stageShown")>> \in Seq(Notice)
    BY NoticeForms
  <2>3. /\ preparing \o <<Note("stageShown")>> \in Seq(Notice)
        /\ \A ok \in BOOLEAN : preparing \o Answer(kind, ok) \in Seq(Notice)
    <3> HIDE DEF preparing
    <3> QED BY <1>1, <2>2
  <2>4. gq' \in Seq(Notice)
    <3>1. \/ Emit(preparing \o <<Note("stageShown")>>)
          \/ Emit(preparing \o Answer(kind, FALSE))
          \/ \E ok \in BOOLEAN : Emit(Answer(kind, ok))
      BY <1>2 DEF TransactionBegin
    <3> HIDE DEF preparing
    <3> QED BY <1>1, <2>3, <3>1, EmitType DEF TypeOK
  <2>5. /\ pc' \in {pc, kind} /\ session' \in Sessions \cup {NoSession}
        /\ connected' \in BOOLEAN /\ inhibited' \in BOOLEAN
        /\ workerKey' \in Keys \cup {NoKey} /\ cancelled' \in BOOLEAN
        /\ dsess' \subseteq Sessions
    BY <1>2, OpenType, CloseType DEF TransactionBegin, OpenFails, KeepSession, TypeOK
  <2> QED BY <1>2, <2>1, <2>4, <2>5 DEF TransactionBegin, TypeOK
<1>3. CASE TransactionSend(kind)
  <2>1. gq' \in Seq(Notice)
    <3>1. <<Note("stageShown")>> \in Seq(Notice) BY NoticeForms
    <3>2. \/ Emit(<<Note("stageShown")>>)
          \/ \E ok \in BOOLEAN : Emit(Answer(kind, ok))
      BY <1>3 DEF TransactionSend
    <3> QED BY <1>1, <3>1, <3>2, EmitType DEF TypeOK
  <2>2. txs' \subseteq Transaction
    <3>1. session \in Sessions BY <1>3 DEF TransactionSend
    <3>2. [kind |-> kind, sess |-> session, phase |-> "sent", key |-> NoKey]
             \in Transaction
      BY <3>1 DEF Transaction, Phases
    <3> QED BY <1>3, <3>2 DEF TransactionSend, TypeOK
  <2>3. /\ session' \in Sessions \cup {NoSession}
        /\ connected' \in BOOLEAN /\ inhibited' \in BOOLEAN
        /\ workerKey' \in Keys \cup {NoKey}
        /\ dsess' \subseteq Sessions
    BY <1>3, CloseType DEF TransactionSend, TypeOK
  <2> QED BY <1>3, <2>1, <2>2, <2>3 DEF TransactionSend, TypeOK
<1> QED BY <1>2, <1>3

(* The replies of the three transactions.                                  *)
LEMMA ReplyType ==
    ASSUME TypeOK, StageReply \/ InPlaceReply \/ AutoremoveReply, UNCHANGED guiVars
    PROVE  TypeOK'
<1> USE DEF guiVars
<1>0. /\ wq' \in Seq(Event)
      /\ session' = NoSession /\ inhibited' = FALSE /\ workerKey' = NoKey
      /\ connected' \in BOOLEAN /\ dsess' \subseteq Sessions
  BY TakeType, CloseType
  DEF StageReply, InPlaceReply, AutoremoveReply, TakeReply, TypeOK
<1>1. \A kind : \A ok \in BOOLEAN : Answer(kind, ok) \in Seq(Notice)
  BY AnswerType
<1>2. CASE StageReply
  <2> DEFINE ok == Head(wq).res = "ok"
             outcome == IF ok THEN <<Told("offlineReady", TRUE), Told("finished", TRUE)>>
                              ELSE <<Told("finished", FALSE)>>
  <2>1. /\ outcome \in Seq(Notice)
        /\ <<Told("offlineReady", FALSE)>> \o outcome \in Seq(Notice)
    <3>1. /\ <<Told("offlineReady", TRUE), Told("finished", TRUE)>> \in Seq(Notice)
          /\ <<Told("finished", FALSE)>> \in Seq(Notice)
          /\ <<Told("offlineReady", FALSE)>> \in Seq(Notice)
      BY DEF Told, Notice
    <3>2. outcome \in Seq(Notice) BY <3>1
    <3> HIDE DEF outcome
    <3> QED BY <3>1, <3>2, ConcatType
  <2>2. \/ Emit(outcome)
        \/ Emit(<<Told("offlineReady", FALSE)>> \o outcome)
    BY <1>2 DEF StageReply
  <2>3. gq' \in Seq(Notice)
    <3> HIDE DEF outcome
    <3> QED BY <2>1, <2>2, EmitType DEF TypeOK
  <2> QED BY <1>0, <1>2, <2>3 DEF StageReply, TypeOK
<1>3. CASE InPlaceReply
  <2>1. gq' \in Seq(Notice)
    <3>1. \/ \E ok \in BOOLEAN : Emit(Answer("inplace", ok))
          \/ UNCHANGED gq
      BY <1>3 DEF InPlaceReply
    <3> QED BY <1>1, <3>1, EmitType DEF TypeOK
  <2>2. timers' \in Nat
    <3>1. timers' = timers \/ timers' = timers + 1 BY <1>3 DEF InPlaceReply
    <3> QED BY <3>1 DEF TypeOK
  <2>3. pc' = pc \/ pc' = "selfpost" BY <1>3 DEF InPlaceReply
  <2> QED BY <1>0, <1>3, <2>1, <2>2, <2>3 DEF InPlaceReply, TypeOK
<1>4. CASE AutoremoveReply
  <2>1. gq' \in Seq(Notice)
    <3>1. \E ok \in BOOLEAN : Emit(Answer("autoremove", ok))
      BY <1>4 DEF AutoremoveReply
    <3> QED BY <1>1, <3>1, EmitType DEF TypeOK
  <2> QED BY <1>0, <1>4, <2>1 DEF AutoremoveReply, TypeOK
<1> QED BY <1>2, <1>3, <1>4

(* The handlers that open and close a session within one step.             *)
LEMMA OneStepType ==
    ASSUME TypeOK, Verify \/ RebootAndApply \/ CleanOffline \/ CleanCache,
           UNCHANGED guiVars
    PROVE  TypeOK'
<1> USE DEF guiVars
<1>0. /\ session' = NoSession /\ inhibited' = FALSE /\ workerKey' = NoKey
      /\ connected' \in BOOLEAN /\ dsess' \subseteq Sessions
      /\ cancelled' = FALSE
  BY CloseType
  DEF Verify, RebootAndApply, CleanOffline, CleanCache, OpenFails, OpenAndClose
<1>1. \A kind : \A ok \in BOOLEAN : Answer(kind, ok) \in Seq(Notice)
  BY AnswerType
<1>2. wq' \in Seq(Event)
  BY TakeType DEF Verify, RebootAndApply, CleanOffline, CleanCache, TypeOK
<1>3. CASE Verify
  <2>1. <<Note("stageCleared")>> \in Seq(Notice)
    BY NoticeForms
  <2>2. \/ \E ok \in BOOLEAN : Emit(Answer("inplace", ok))
        \/ Emit(<<Note("stageCleared")>> \o Answer("inplace", TRUE))
    BY <1>3 DEF Verify
  <2>3. <<Note("stageCleared")>> \o Answer("inplace", TRUE) \in Seq(Notice)
    BY <1>1, <2>1, ConcatType
  <2>4. gq' \in Seq(Notice)
    BY <1>1, <2>2, <2>3, EmitType DEF TypeOK
  <2>5. timers' \in Nat
    <3>1. timers \in Nat /\ timers > 0 /\ timers' = timers - 1
      BY <1>3 DEF Verify, TypeOK
    <3> QED BY <3>1
  <2>6. pc' = pc \/ pc' = "selfpost" BY <1>3 DEF Verify
  <2> QED BY <1>0, <1>2, <1>3, <2>4, <2>5, <2>6 DEF Verify, TypeOK
<1>4. CASE RebootAndApply
  <2>1. Emit(Answer("reboot", FALSE)) \/ UNCHANGED gq
    BY <1>4 DEF RebootAndApply
  <2>2. gq' \in Seq(Notice) BY <1>1, <2>1, EmitType DEF TypeOK
  <2> QED BY <1>0, <1>2, <1>4, <2>2 DEF RebootAndApply, TypeOK
<1>5. CASE CleanOffline
  <2>1. <<Told("offlineReady", FALSE)>> \in Seq(Notice) BY DEF Told, Notice
  <2>2. Emit(<<Told("offlineReady", FALSE)>>) \/ UNCHANGED gq
    BY <1>5 DEF CleanOffline
  <2>3. gq' \in Seq(Notice) BY <2>1, <2>2, EmitType DEF TypeOK
  <2> QED BY <1>0, <1>2, <1>5, <2>3 DEF CleanOffline, TypeOK
<1>6. CASE CleanCache
  <2>1. \E ok \in BOOLEAN : Emit(Answer("clean", ok))
    BY <1>6 DEF CleanCache
  <2>2. gq' \in Seq(Notice) BY <1>1, <2>1, EmitType DEF TypeOK
  <2> QED BY <1>0, <1>2, <1>6, <2>2 DEF CleanCache, TypeOK
<1> QED BY <1>3, <1>4, <1>5, <1>6

(* The handlers that leave the session alone.                              *)
LEMMA SmallType ==
    ASSUME TypeOK, UNCHANGED guiVars,
           \/ SelfPost \/ CancelOperation \/ ConfirmRepoKey
           \/ HandleSignal \/ HandleKeyRequest
    PROVE  TypeOK'
<1> USE DEF guiVars, daemonVars, workerVars
<1>1. CASE SelfPost
  <2>1. [e |-> "check"] \in Event BY DEF Event, Plain
  <2> QED BY <1>1, <2>1 DEF SelfPost, TypeOK
<1>2. CASE CancelOperation
  <2>1. wq' \in Seq(Event) BY <1>2, TakeType DEF CancelOperation, TypeOK
  <2> QED BY <1>2, <2>1 DEF CancelOperation, TypeOK
<1>3. CASE ConfirmRepoKey
  <2>1. wq' \in Seq(Event) BY <1>3, TakeType DEF ConfirmRepoKey, TypeOK
  <2>2. \A t \in Transaction : [t EXCEPT !.key = NoKey] \in Transaction
    BY DEF Transaction
  <2>3. txs' \subseteq Transaction BY <1>3, <2>2 DEF ConfirmRepoKey, TypeOK
  <2>4. workerKey' \in Keys \cup {NoKey} BY <1>3 DEF ConfirmRepoKey, TypeOK
  <2> QED BY <1>3, <2>1, <2>3, <2>4 DEF ConfirmRepoKey, TypeOK
<1>4. CASE HandleSignal
  <2>1. wq' \in Seq(Event) BY <1>4, TakeType DEF HandleSignal, TypeOK
  <2>2. /\ <<Note("stageShown")>> \in Seq(Notice)
        /\ <<Note("applyStarted"), Note("stageShown")>> \in Seq(Notice)
        /\ <<Note("stageCleared")>> \in Seq(Notice)
    BY NoticeForms
  <2>3. \/ Emit(<<Note("stageShown")>>)
        \/ Emit(<<Note("applyStarted"), Note("stageShown")>>)
        \/ Emit(<<Note("stageCleared")>>)
    BY <1>4 DEF HandleSignal
  <2>4. gq' \in Seq(Notice) BY <2>2, <2>3, EmitType DEF TypeOK
  <2> QED BY <1>4, <2>1, <2>4 DEF HandleSignal, TypeOK
<1>5. CASE HandleKeyRequest
  <2>1. wq' \in Seq(Event) BY <1>5, TakeType DEF HandleKeyRequest, TypeOK
  <2>2. Head(wq).key \in Keys
    <3>1. Head(wq) \in Event /\ Head(wq).e = "keyRequest"
      BY <1>5, TakeType DEF HandleKeyRequest, TypeOK
    <3> QED BY <3>1 DEF Event, Plain, Signals, TxKinds
  <2>3. <<[n |-> "keyRequested", key |-> Head(wq).key]>> \in Seq(Notice)
    BY <2>2 DEF Notice
  <2>4. gq' \in Seq(Notice)
    BY <1>5, <2>3, EmitType DEF HandleKeyRequest, TypeOK
  <2> QED BY <1>5, <2>1, <2>2, <2>4 DEF HandleKeyRequest, TypeOK
<1> QED BY <1>1, <1>2, <1>3, <1>4, <1>5

(* The user's clicks.                                                      *)
LEMMA UserType ==
    ASSUME TypeOK, UserNext
    PROVE  TypeOK'
<1> USE MaxRequestsAssumption DEF workerVars, daemonVars
<1>1. ASSUME NEW x \in Event, Post(x)
      PROVE  wq' \in Seq(Event) /\ requests' \in 0..MaxRequests
  BY <1>1 DEF Post, TypeOK
<1>2. \A op \in Plain : [e |-> op] \in Event
  BY DEF Event
<1>3. ASSUME NEW op \in Plain, NEW f \in Flags, StartOperation(op, f),
             UNCHANGED <<workerVars, daemonVars, gq>>
      PROVE  TypeOK'
  BY <1>1, <1>2, <1>3 DEF StartOperation, TypeOK
<1>4. ASSUME NEW op \in Plain, PostAnyway(op),
             UNCHANGED <<workerVars, daemonVars, gq>>
      PROVE  TypeOK'
  BY <1>1, <1>2, <1>4 DEF PostAnyway, TypeOK
<1>5. CASE ConfirmClicked
  <2>1. [e |-> "confirm", key |-> prompt] \in Event
    BY <1>5 DEF ConfirmClicked, Event, TypeOK
  <2>2. wq' \in Seq(Event) /\ requests' \in 0..MaxRequests
    BY <1>1, <1>5, <2>1 DEF ConfirmClicked
  <2> QED BY <1>5, <2>2 DEF ConfirmClicked, UserNext, TypeOK
<1> QED
  BY <1>3, <1>4, <1>5
  DEF UserNext, CheckForUpdates, CleanAll, Autoremove, StageOfflineUpgrade,
      StartInPlaceUpgrade, FetchChangelog, CancelClicked, RebootClicked,
      DiscardClicked, Plain, TxKinds, Flags

(* The steps of the daemon.                                                *)
LEMMA DaemonType ==
    ASSUME TypeOK, DaemonStep
    PROVE  TypeOK'
<1> USE DEF workerVars, guiVars
<1>1. ASSUME NEW x \in Event, NEW t, Hear(t, x)
      PROVE  wq' \in Seq(Event)
  BY <1>1 DEF Hear, TypeOK
<1>2. ASSUME NEW t \in txs, NEW p \in Phases, Advance(t, p)
      PROVE  txs' \subseteq Transaction
  <2>1. t \in Transaction BY DEF TypeOK
  <2>2. [t EXCEPT !.phase = p] \in Transaction BY <2>1 DEF Transaction
  <2> QED BY <1>2, <2>2 DEF Advance, TypeOK
<1>3. /\ \A x \in Signals : [e |-> x] \in Event
      /\ \A k \in Keys : [e |-> "keyRequest", key |-> k] \in Event
  BY DEF Event
<1>4. ASSUME NEW t \in txs, DaemonDownloads(t) PROVE TypeOK'
  <2>1. wq' \in Seq(Event) BY <1>1, <1>3, <1>4 DEF DaemonDownloads, Signals
  <2>2. txs' \subseteq Transaction BY <1>2, <1>4 DEF DaemonDownloads, Phases
  <2> QED BY <1>4, <2>1, <2>2 DEF DaemonDownloads, DaemonStep, DaemonNext, TypeOK
<1>5. ASSUME NEW t \in txs, DaemonBegins(t) PROVE TypeOK'
  <2>1. wq' \in Seq(Event) BY <1>1, <1>3, <1>5 DEF DaemonBegins, Signals
  <2>2. txs' \subseteq Transaction BY <1>2, <1>5 DEF DaemonBegins, Phases
  <2> QED BY <1>5, <2>1, <2>2 DEF DaemonBegins, DaemonStep, DaemonNext, TypeOK
<1>6. ASSUME NEW t \in txs, DaemonCompletes(t) PROVE TypeOK'
  <2>1. wq' \in Seq(Event) BY <1>1, <1>3, <1>6 DEF DaemonCompletes, Signals
  <2>2. txs' \subseteq Transaction BY <1>2, <1>6 DEF DaemonCompletes, Phases
  <2>3. avail' \in Upgrades BY <1>6 DEF DaemonCompletes, Upgrades, TypeOK
  <2> QED
    BY <1>6, <2>1, <2>2, <2>3 DEF DaemonCompletes, DaemonStep, DaemonNext, TypeOK
<1>7. ASSUME NEW t \in txs, DaemonAsksKey(t) PROVE TypeOK'
  <2>1. PICK k \in Keys \ asked :
          /\ txs' = (txs \ {t}) \cup {[t EXCEPT !.key = k]}
          /\ asked' = asked \cup {k}
          /\ Hear(t, [e |-> "keyRequest", key |-> k])
    BY <1>7 DEF DaemonAsksKey
  <2>2. [t EXCEPT !.key = k] \in Transaction
    <3>1. t \in Transaction BY DEF TypeOK
    <3> QED BY <3>1 DEF Transaction
  <2>3. wq' \in Seq(Event) BY <1>1, <1>3, <2>1
  <2>4. asked' \subseteq Keys /\ txs' \subseteq Transaction
    BY <2>1, <2>2 DEF TypeOK
  <2> QED BY <1>7, <2>3, <2>4 DEF DaemonAsksKey, DaemonStep, DaemonNext, TypeOK
<1>8. CASE DaemonAsksEarly
  BY <1>3, <1>8 DEF DaemonAsksEarly, DaemonStep, DaemonNext, TypeOK
<1>9. ASSUME NEW t \in txs, DaemonReplies(t) PROVE TypeOK'
  <2>1. t.kind \in TxKinds /\ t.sess \in Sessions
    BY DEF TypeOK, Transaction
  <2>2. \A res \in Results :
          [e |-> "reply", kind |-> t.kind, sess |-> t.sess, res |-> res] \in Event
    BY <2>1 DEF Event
  <2>3. /\ wq' \in Seq(Event) /\ staged' \in BOOLEAN /\ dsess' \subseteq Sessions
    BY <1>9, <2>2 DEF DaemonReplies, TypeOK
  <2> QED BY <1>9, <2>3 DEF DaemonReplies, DaemonStep, DaemonNext, TypeOK
<1> QED
  BY <1>4, <1>5, <1>6, <1>7, <1>8, <1>9 DEF DaemonStep, DaemonNext

(* The slots of the GUI thread.                                            *)
LEMMA GuiType ==
    ASSUME TypeOK, GuiNext
    PROVE  TypeOK'
<1> USE DEF workerVars, daemonVars
<1>0. gq' = Tail(gq) /\ UNCHANGED <<workerVars, daemonVars, wq, requests>>
  BY DEF GuiNext
<1>1. gq # <<>> /\ gq' \in Seq(Notice) /\ Head(gq) \in Notice
  BY DEF GuiNext, Receive, TypeOK, HandleCheckStarted, HandleCheckFinished,
         HandleProgressStageUpdated, HandleInPlaceApplyStarted,
         HandleRepoKeyImportRequested, HandleOperationFinished,
         HandleCleanFinished, HandleAutoremoveFinished,
         HandleOfflineStagedReady, HandleChangelogFetched
<1>2. CASE HandleCheckStarted
  BY <1>0, <1>1, <1>2 DEF HandleCheckStarted, Flags, TypeOK
<1>3. CASE HandleCheckFinished
  <2>1. Head(gq).items \in Upgrades \cup {"failed"}
    BY <1>0, <1>1, <1>3 DEF HandleCheckFinished, Receive, Notice
  <2>2. model' \in Upgrades BY <1>3, <2>1 DEF HandleCheckFinished, TypeOK
  <2>3. busy' \subseteq Flags /\ stage' \in BOOLEAN
    BY <1>3 DEF HandleCheckFinished, TypeOK
  <2> QED BY <1>0, <1>1, <1>3, <2>2, <2>3 DEF HandleCheckFinished, TypeOK
<1>4. CASE HandleProgressStageUpdated
  <2>1. stage' \in BOOLEAN BY <1>4 DEF HandleProgressStageUpdated
  <2> QED BY <1>0, <1>1, <1>4, <2>1 DEF HandleProgressStageUpdated, TypeOK
<1>5. CASE HandleInPlaceApplyStarted
  BY <1>0, <1>1, <1>5 DEF HandleInPlaceApplyStarted, Flags, TypeOK
<1>6. CASE HandleRepoKeyImportRequested
  <2>1. Head(gq).key \in Keys
    BY <1>0, <1>1, <1>6 DEF HandleRepoKeyImportRequested, Receive, Notice
  <2> QED BY <1>0, <1>1, <1>6, <2>1 DEF HandleRepoKeyImportRequested, TypeOK
<1>7. CASE HandleOperationFinished
  <2>1. model' \in Upgrades
    BY <1>7 DEF HandleOperationFinished, Upgrades, TypeOK
  <2> QED BY <1>0, <1>1, <1>7, <2>1 DEF HandleOperationFinished, TypeOK
<1>8. CASE HandleCleanFinished \/ HandleAutoremoveFinished
  <2>1. /\ busy' \subseteq Flags /\ stage' \in BOOLEAN
        /\ UNCHANGED <<ready, prompt, model>>
    BY <1>8 DEF HandleCleanFinished, HandleAutoremoveFinished, TypeOK
  <2> QED BY <1>0, <1>1, <2>1 DEF TypeOK
<1>9. CASE HandleOfflineStagedReady
  <2>1. Head(gq).ok \in BOOLEAN
    BY <1>0, <1>1, <1>9 DEF HandleOfflineStagedReady, Receive, Notice
  <2> QED BY <1>0, <1>1, <1>9, <2>1 DEF HandleOfflineStagedReady, TypeOK
<1>10. CASE HandleChangelogFetched
  BY <1>0, <1>1, <1>10 DEF HandleChangelogFetched, TypeOK
<1> QED
  BY <1>2, <1>3, <1>4, <1>5, <1>6, <1>7, <1>8, <1>9, <1>10 DEF GuiNext

-----------------------------------------------------------------------------
(* The inductive invariant.  A handler that runs a transaction has opened  *)
(* a session and hears its signals, and only a changelog in progress has a *)
(* session of its own: ResourcesOwned and NoSessionLeak do not follow from *)
(* themselves without that, nor TypeOK, for it is the open session that a  *)
(* transaction is sent in.                                                 *)
SessionInv ==
    /\ TypeOK
    /\ ResourcesOwned
    /\ NoSessionLeak
    /\ pc \in TxKinds => session # NoSession /\ connected
    /\ ephemeral # NoSession => pc = "changelog"

(* Initially nothing is held.                                              *)
LEMMA SessionInit == Init => SessionInv
<1> SUFFICES ASSUME Init PROVE SessionInv
  OBVIOUS
<1>1. TypeOK
  <2>1. <<>> \in Seq(Event) /\ <<>> \in Seq(Notice) OBVIOUS
  <2>2. 0 \in 0..MaxRequests BY MaxRequestsAssumption
  <2>3. /\ pc = "idle" /\ session = NoSession /\ ephemeral = NoSession
        /\ connected \in BOOLEAN /\ inhibited \in BOOLEAN /\ cancelled \in BOOLEAN
        /\ workerKey = NoKey /\ timers = 0 /\ wq = <<>> /\ gq = <<>>
    BY DEF Init, WorkerInit
  <2>4. /\ dsess = {} /\ txs = {} /\ asked = {}
        /\ staged \in BOOLEAN /\ avail \in Upgrades
    BY DEF Init, WorkerInit
  <2>5. /\ busy = {} /\ stage \in BOOLEAN /\ ready \in BOOLEAN
        /\ prompt = NoKey /\ model \in Upgrades /\ requests = 0
    BY DEF Init, Upgrades
  <2> QED BY <2>1, <2>2, <2>3, <2>4, <2>5 DEF TypeOK
<1> QED
  BY <1>1 DEF Init, WorkerInit, SessionInv, ResourcesOwned, NoSessionLeak, TxKinds

(* The sessions whose reply is still to come or in the queue.              *)
Owners == {t.sess : t \in txs} \cup Replying

(* Only a reply leaving the queue takes an owner away.                     *)
LEMMA TakeOwners ==
    ASSUME TypeOK, NEW e, Take(e), e # "reply"
    PROVE  Replying \subseteq Replying'
<1> SUFFICES ASSUME NEW i \in DOMAIN wq, wq[i].e = "reply"
             PROVE  \E j \in DOMAIN wq' : wq'[j].e = "reply" /\ wq'[j].sess = wq[i].sess
  BY DEF Replying
<1>1. wq \in Seq(Event) /\ wq # <<>> /\ wq' = Tail(wq) /\ Head(wq).e = e
  BY DEF TypeOK, Take
<1>2. i \in 1..Len(wq) /\ i # 1
  BY <1>1
<1>3. i - 1 \in DOMAIN wq' /\ wq'[i - 1] = wq[i]
  BY <1>1, <1>2
<1> QED BY <1>3

(* A queue that grows at its end loses no owner.                           *)
LEMMA AppendOwners ==
    ASSUME TypeOK, NEW x, wq' = Append(wq, x)
    PROVE  /\ Replying \subseteq Replying'
           /\ x.e = "reply" => x.sess \in Replying'
<1>1. wq \in Seq(Event) BY DEF TypeOK
<1>2. /\ \A i \in DOMAIN wq : i \in DOMAIN wq' /\ wq'[i] = wq[i]
      /\ Len(wq) + 1 \in DOMAIN wq' /\ wq'[Len(wq) + 1] = x
  BY <1>1
<1> QED BY <1>2 DEF Replying

(* A step that closes the session and opens no other leaves nothing held.  *)
LEMMA Closed ==
    ASSUME SessionInv, CloseSession, pc' \notin TxKinds, ephemeral' = NoSession,
           ephemeral = NoSession
    PROVE  /\ ResourcesOwned' /\ NoSessionLeak'
           /\ pc' \in TxKinds => session' # NoSession /\ connected'
           /\ ephemeral' # NoSession => pc' = "changelog"
BY DEF SessionInv, CloseSession, ResourcesOwned, NoSessionLeak, TypeOK

(* A step that keeps the session, its event loop and its owners keeps what *)
(* is said of them.                                                        *)
LEMMA Kept ==
    ASSUME SessionInv, UNCHANGED <<session, connected, ephemeral>>,
           inhibited' \in {FALSE, inhibited},
           Owners \subseteq Owners', dsess' \subseteq dsess,
           UNCHANGED pc \/ (InEventLoop /\ InEventLoop' /\ ephemeral = NoSession)
    PROVE  /\ ResourcesOwned' /\ NoSessionLeak'
           /\ pc' \in TxKinds => session' # NoSession /\ connected'
           /\ ephemeral' # NoSession => pc' = "changelog"
<1>1. InEventLoop /\ session # NoSession => session \in Owners /\ connected
  BY DEF SessionInv, ResourcesOwned, Owners
<1>2. InEventLoop' /\ session' # NoSession => session' \in Owners' /\ connected'
  BY <1>1 DEF InEventLoop
<1>3. (connected' \/ inhibited') => session' # NoSession
  BY DEF SessionInv, ResourcesOwned, TypeOK
<1>4. ResourcesOwned'
  BY <1>2, <1>3 DEF ResourcesOwned, Owners
<1>5. NoSessionLeak'
  BY DEF SessionInv, NoSessionLeak
<1> QED
  BY <1>4, <1>5 DEF SessionInv, InEventLoop, TxKinds

(* The steps that hold a session from one step to the next.                *)
LEMMA HoldingSteps ==
    ASSUME SessionInv, UNCHANGED guiVars,
           \/ CheckBegin \/ CheckEnd \/ ChangelogBegin \/ ChangelogEnd
           \/ \E kind \in TxKinds : TransactionBegin(kind) \/ TransactionSend(kind)
    PROVE  SessionInv'
<1>1. CASE CheckBegin
  <2>1. TypeOK' BY <1>1, CheckType DEF SessionInv
  <2>2. ephemeral = NoSession /\ ephemeral' = NoSession
    BY <1>1 DEF CheckBegin, Take, SessionInv
  <2>3. CASE OpenSession(FALSE) /\ pc' = "checking"
    BY <2>1, <2>2, <2>3
    DEF OpenSession, SessionInv, ResourcesOwned, NoSessionLeak, InEventLoop, TxKinds, TypeOK
  <2>4. CASE OpenFails /\ pc' = "idle"
    BY <2>1, <2>2, <2>4, Closed DEF OpenFails, SessionInv, TxKinds
  <2> QED BY <1>1, <2>3, <2>4 DEF CheckBegin
<1>2. CASE CheckEnd
  <2>1. TypeOK' BY <1>2, CheckType DEF SessionInv
  <2> QED BY <1>2, <2>1, Closed DEF CheckEnd, SessionInv, TxKinds
<1>3. CASE ChangelogBegin
  <2>1. TypeOK' BY <1>3, ChangelogType DEF SessionInv
  <2>2. pc = "idle" /\ ephemeral = NoSession /\ UNCHANGED <<session, txs>>
        /\ UNCHANGED <<connected, inhibited>>
    BY <1>3 DEF ChangelogBegin, Take, SessionInv
  <2>3. Replying \subseteq Replying'
    BY <1>3, TakeOwners DEF ChangelogBegin, SessionInv
  <2>4. /\ pc' \in {"idle", "changelog"} /\ dsess' \subseteq dsess \cup {ephemeral'}
        /\ ephemeral' # NoSession => pc' = "changelog"
    BY <1>3, <2>2 DEF ChangelogBegin
  <2>5. session # NoSession => session \in Owners
    BY <2>2 DEF SessionInv, ResourcesOwned, InEventLoop, Owners
  <2>6. session' # NoSession => session' \in Owners' /\ connected'
    BY <2>2, <2>3, <2>5 DEF SessionInv, ResourcesOwned, InEventLoop, Owners
  <2>7. ResourcesOwned'
    BY <2>2, <2>6 DEF SessionInv, ResourcesOwned, Owners
  <2>8. NoSessionLeak'
    BY <2>2, <2>4, NoSessionAssumption DEF SessionInv, NoSessionLeak, TypeOK
  <2> QED
    BY <2>1, <2>4, <2>7, <2>8 DEF SessionInv, TxKinds
<1>4. CASE ChangelogEnd
  <2>1. TypeOK' BY <1>4, ChangelogType DEF SessionInv
  <2>2. /\ pc = "changelog" /\ pc' = "idle" /\ ephemeral' = NoSession
        /\ dsess' = dsess \ {ephemeral}
        /\ UNCHANGED <<session, connected, inhibited, txs, wq>>
    BY <1>4 DEF ChangelogEnd
  <2> QED
    BY <2>1, <2>2
    DEF SessionInv, ResourcesOwned, NoSessionLeak, InEventLoop, TxKinds, Replying
<1>5. ASSUME NEW kind \in TxKinds, TransactionBegin(kind) PROVE SessionInv'
  <2>1. pc = "idle" /\ ephemeral = NoSession /\ UNCHANGED <<ephemeral, txs>>
    BY <1>5 DEF TransactionBegin, Take, SessionInv
  <2>2. TypeOK'
    BY <1>5, <2>1, TransactionType DEF SessionInv, TxKinds
  <2>3. CASE OpenSession(TRUE) /\ pc' = kind
    BY <1>5, <2>1, <2>2, <2>3, NoSessionAssumption
    DEF OpenSession, Fresh, SessionInv, ResourcesOwned, NoSessionLeak, InEventLoop,
        TxKinds, TypeOK
  <2>4. CASE OpenFails /\ UNCHANGED pc
    BY <2>1, <2>2, <2>4, Closed DEF OpenFails, SessionInv, TxKinds
  <2>5. CASE KeepSession /\ UNCHANGED pc
    <3>1. Replying \subseteq Replying'
      BY <1>5, TakeOwners DEF TransactionBegin, TxKinds, SessionInv
    <3> QED BY <2>1, <2>2, <2>5, <3>1, Kept DEF KeepSession, Owners, SessionInv
  <2> QED BY <1>5, <2>3, <2>4, <2>5 DEF TransactionBegin
<1>6. ASSUME NEW kind \in TxKinds, TransactionSend(kind) PROVE SessionInv'
  <2>1. /\ pc = kind /\ pc' = "idle" /\ session \in Sessions
        /\ ephemeral = NoSession /\ ephemeral' = NoSession
    BY <1>6 DEF TransactionSend, SessionInv, TypeOK, TxKinds
  <2>2. TypeOK' BY <1>6, <2>1, TransactionType DEF SessionInv
  <2>3. CASE CloseSession
    BY <2>1, <2>2, <2>3, Closed DEF SessionInv, TxKinds
  <2>4. CASE /\ txs' = txs \cup {[kind |-> kind, sess |-> session,
                                   phase |-> "sent", key |-> NoKey]}
             /\ UNCHANGED <<session, connected, inhibited, workerKey, dsess>>
    <3> DEFINE r == [kind |-> kind, sess |-> session, phase |-> "sent", key |-> NoKey]
    <3>0. r \in txs' /\ r.sess = session BY <2>4
    <3> HIDE DEF r
    <3>1. session \in {t.sess : t \in txs'} BY <3>0
    <3> QED
      BY <2>1, <2>2, <2>4, <3>1
      DEF SessionInv, ResourcesOwned, NoSessionLeak, InEventLoop, TxKinds
  <2> QED BY <1>6, <2>3, <2>4 DEF TransactionSend
<1> QED BY <1>1, <1>2, <1>3, <1>4, <1>5, <1>6

(* The handlers after which no session is open.                            *)
LEMMA ClosingSteps ==
    ASSUME SessionInv, UNCHANGED guiVars,
           \/ StageReply \/ InPlaceReply \/ AutoremoveReply
           \/ Verify \/ RebootAndApply \/ CleanOffline \/ CleanCache
    PROVE  SessionInv'
<1>1. TypeOK' BY ReplyType, OneStepType DEF SessionInv
<1>2. /\ pc = "idle" /\ UNCHANGED ephemeral
      /\ pc' \in {"idle", "check", "selfpost"}
  BY DEF StageReply, InPlaceReply, AutoremoveReply, TakeReply, Verify,
         RebootAndApply, CleanOffline, CleanCache, Take
<1>3. CloseSession
  BY DEF StageReply, InPlaceReply, AutoremoveReply, Verify,
         RebootAndApply, CleanOffline, CleanCache, OpenFails, OpenAndClose
<1> QED BY <1>1, <1>2, <1>3, Closed DEF SessionInv, TxKinds

(* The handlers that leave the session to its transaction.                 *)
LEMMA KeepingSteps ==
    ASSUME SessionInv, UNCHANGED guiVars,
           \/ SelfPost \/ CancelOperation \/ ConfirmRepoKey
           \/ HandleSignal \/ HandleKeyRequest
    PROVE  SessionInv'
<1>1. TypeOK' BY SmallType DEF SessionInv
<1>2. UNCHANGED <<session, connected, inhibited, ephemeral, dsess>>
  BY DEF SelfPost, CancelOperation, ConfirmRepoKey, HandleSignal,
         HandleKeyRequest, workerVars, daemonVars
<1>3. Replying \subseteq Replying'
  BY TakeOwners, AppendOwners
  DEF SelfPost, CancelOperation, ConfirmRepoKey, HandleSignal,
      HandleKeyRequest, SessionInv
<1>4. {t.sess : t \in txs} \subseteq {t.sess : t \in txs'}
  <2>1. CASE ConfirmRepoKey
    <3>1. \A t \in txs : /\ [t EXCEPT !.key = NoKey].sess = t.sess
      BY DEF SessionInv, TypeOK, Transaction
    <3> QED BY <2>1, <3>1 DEF ConfirmRepoKey
  <2>2. CASE UNCHANGED txs BY <2>2
  <2> QED
    BY <2>1, <2>2
    DEF SelfPost, CancelOperation, HandleSignal, HandleKeyRequest, daemonVars
<1>5. UNCHANGED pc \/ (InEventLoop /\ InEventLoop' /\ ephemeral = NoSession)
  BY DEF SelfPost, CancelOperation, ConfirmRepoKey, HandleSignal,
         HandleKeyRequest, workerVars, InEventLoop, SessionInv
<1> QED BY <1>1, <1>2, <1>3, <1>4, <1>5, Kept DEF Owners, SessionInv

(* The user, the GUI and the daemon.                                       *)
LEMMA OtherSteps ==
    ASSUME SessionInv, UserNext \/ GuiNext \/ DaemonStep
    PROVE  SessionInv'
<1>1. TypeOK' BY UserType, GuiType, DaemonType DEF SessionInv
<1>2. UNCHANGED <<pc, session, connected, inhibited, ephemeral>>
  BY DEF UserNext, GuiNext, DaemonStep, DaemonNext, workerVars
<1>3. CASE UserNext
  <2>1. UNCHANGED <<txs, dsess>> BY <1>3 DEF UserNext, daemonVars
  <2>2. PICK x : wq' = Append(wq, x)
    BY <1>3
    DEF UserNext, CheckForUpdates, CleanAll, Autoremove, StageOfflineUpgrade,
        StartInPlaceUpgrade, FetchChangelog, CancelClicked, RebootClicked,
        DiscardClicked, ConfirmClicked, StartOperation, PostAnyway, Post
  <2>3. Replying \subseteq Replying' BY <2>2, AppendOwners DEF SessionInv
  <2>4. Owners \subseteq Owners' BY <2>1, <2>3 DEF Owners
  <2> QED BY <1>1, <1>2, <2>1, <2>4, Kept DEF SessionInv
<1>4. CASE GuiNext
  <2>1. UNCHANGED <<txs, dsess, wq>> BY <1>4 DEF GuiNext, daemonVars
  <2>2. Owners' = Owners BY <2>1 DEF Owners, Replying
  <2> QED BY <1>1, <1>2, <2>1, <2>2, Kept DEF SessionInv
<1>5. CASE DaemonStep
  <2>1. dsess' \subseteq dsess
    BY <1>5
    DEF DaemonStep, DaemonNext, DaemonDownloads, DaemonBegins, DaemonCompletes,
        DaemonAsksKey, DaemonAsksEarly, DaemonReplies
  <2>2. UNCHANGED wq \/ \E x : wq' = Append(wq, x)
    BY <1>5
    DEF DaemonStep, DaemonNext, DaemonDownloads, DaemonBegins, DaemonCompletes,
        DaemonAsksKey, DaemonAsksEarly, DaemonReplies, Hear
  <2>3. Replying \subseteq Replying'
    <3>1. CASE UNCHANGED wq BY <3>1 DEF Replying
    <3> QED BY <2>2, <3>1, AppendOwners DEF SessionInv
  <2>4. ASSUME NEW t \in txs, NEW u, u.sess = t.sess,
               txs' = (txs \ {t}) \cup {u}
        PROVE  {v.sess : v \in txs} \subseteq {v.sess : v \in txs'}
    BY <2>4
  <2>5. \A t \in txs : \A p, k : /\ [t EXCEPT !.phase = p].sess = t.sess
                                  /\ [t EXCEPT !.key = k].sess = t.sess
    BY DEF SessionInv, TypeOK, Transaction
  <2>6. Owners \subseteq Owners'
    <3>1. ASSUME NEW t \in txs, NEW p, Advance(t, p)
          PROVE  {v.sess : v \in txs} \subseteq {v.sess : v \in txs'}
      BY <2>4, <2>5, <3>1 DEF Advance
    <3>2. ASSUME NEW t \in txs,
                 DaemonDownloads(t) \/ DaemonBegins(t) \/ DaemonCompletes(t)
          PROVE  Owners \subseteq Owners'
      <4>1. PICK p : Advance(t, p)
        BY <3>2 DEF DaemonDownloads, DaemonBegins, DaemonCompletes
      <4> QED BY <2>3, <3>1, <4>1 DEF Owners
    <3>3. ASSUME NEW t \in txs, DaemonAsksKey(t) PROVE Owners \subseteq Owners'
      <4>1. PICK k : txs' = (txs \ {t}) \cup {[t EXCEPT !.key = k]}
        BY <3>3 DEF DaemonAsksKey
      <4> QED BY <2>3, <2>4, <2>5, <4>1 DEF Owners
    <3>4. CASE DaemonAsksEarly
      BY <2>3, <3>4 DEF DaemonAsksEarly, Owners
    <3>5. ASSUME NEW t \in txs, DaemonReplies(t) PROVE Owners \subseteq Owners'
      <4>1. PICK res : wq' = Append(wq, [e |-> "reply", kind |-> t.kind,
                                         sess |-> t.sess, res |-> res])
        BY <3>5 DEF DaemonReplies
      <4> DEFINE x == [e |-> "reply", kind |-> t.kind, sess |-> t.sess, res |-> res]
      <4>2. x.e = "reply" /\ x.sess = t.sess OBVIOUS
      <4>3. wq' = Append(wq, x) BY <4>1
      <4> HIDE DEF x
      <4>4. t.sess \in Replying' BY <4>2, <4>3, AppendOwners DEF SessionInv
      <4>5. txs' = txs \ {t} BY <3>5 DEF DaemonReplies
      <4> QED BY <2>3, <4>4, <4>5 DEF Owners
    <3> QED
      BY <1>5, <3>2, <3>3, <3>4, <3>5 DEF DaemonStep, DaemonNext
  <2> QED BY <1>1, <1>2, <2>1, <2>6, Kept DEF SessionInv
<1> QED BY <1>3, <1>4, <1>5

(* Every step of the system preserves the invariant.                       *)
LEMMA SessionStep == SessionInv /\ [Next]_vars => SessionInv'
<1> SUFFICES ASSUME SessionInv, [Next]_vars PROVE SessionInv'
  OBVIOUS
<1>1. CASE UserNext \/ GuiNext \/ DaemonStep BY <1>1, OtherSteps
<1>2. CASE WorkerStep
  BY <1>2, HoldingSteps, ClosingSteps, KeepingSteps DEF WorkerStep, WorkerNext
<1>3. CASE UNCHANGED vars
  BY <1>3
  DEF vars, wdVars, workerVars, daemonVars, guiVars, SessionInv, TypeOK,
      ResourcesOwned, NoSessionLeak, InEventLoop, Replying
<1> QED BY <1>1, <1>2, <1>3 DEF Next

(* The invariant holds in every reachable state.                           *)
LEMMA SessionInvariance == Spec => []SessionInv
<1>1. Init => SessionInv BY SessionInit
<1>2. SessionInv /\ [Next]_vars => SessionInv' BY SessionStep
<1> QED BY <1>1, <1>2, PTL DEF Spec

(* No handler stores or sends a value of the wrong kind, in any execution. *)
THEOREM TypeCorrect == Spec => []TypeOK
<1>1. SessionInv => TypeOK BY DEF SessionInv
<1> QED BY <1>1, SessionInvariance, PTL

(* Between two events a session, its signals and the shutdown inhibitor    *)
(* are held only for a transaction that is still to be answered.           *)
THEOREM ResourcesAlwaysOwned == Spec => []ResourcesOwned
<1>1. SessionInv => ResourcesOwned BY DEF SessionInv
<1> QED BY <1>1, SessionInvariance, PTL

(* The worker never forgets a session that is open in the daemon.          *)
THEOREM SessionsNeverLeak == Spec => []NoSessionLeak
<1>1. SessionInv => NoSessionLeak BY DEF SessionInv
<1> QED BY <1>1, SessionInvariance, PTL
-----------------------------------------------------------------------------
(* Positions in a queue from which the head is taken, and to which entries *)
(* are appended.                                                           *)

(* Every entry but the first moves up by one.                              *)
LEMMA TailAt ==
    ASSUME NEW S, NEW s \in Seq(S), s # <<>>
    PROVE  /\ 1 \in DOMAIN s /\ s[1] = Head(s)
           /\ \A i \in DOMAIN s : i \in Nat /\ 1 <= i
           /\ \A i \in DOMAIN Tail(s) :
                 /\ i \in Nat /\ 1 <= i
                 /\ i + 1 \in DOMAIN s /\ Tail(s)[i] = s[i + 1]
           /\ \A i \in DOMAIN s :
                 i # 1 => i - 1 \in DOMAIN Tail(s) /\ Tail(s)[i - 1] = s[i]
OBVIOUS

(* The new entry is behind all others.                                     *)
LEMMA AppendAt ==
    ASSUME NEW S, NEW s \in Seq(S), NEW x
    PROVE  /\ \A i \in DOMAIN s :
                 /\ i \in Nat /\ 1 <= i /\ i < Len(s) + 1
                 /\ i \in DOMAIN Append(s, x) /\ Append(s, x)[i] = s[i]
           /\ Len(s) + 1 \in DOMAIN Append(s, x)
           /\ Append(s, x)[Len(s) + 1] = x
           /\ \A i \in DOMAIN Append(s, x) : i \in DOMAIN s \/ i = Len(s) + 1
OBVIOUS

(* The entries of the second sequence are behind those of the first.       *)
LEMMA ConcatAt ==
    ASSUME NEW S, NEW s \in Seq(S), NEW t \in Seq(S)
    PROVE  /\ \A i \in DOMAIN s :
                 /\ i \in Nat /\ 1 <= i /\ i <= Len(s)
                 /\ i \in DOMAIN (s \o t) /\ (s \o t)[i] = s[i]
           /\ \A k \in DOMAIN t :
                 /\ k \in Nat /\ 1 <= k
                 /\ Len(s) + k \in DOMAIN (s \o t) /\ (s \o t)[Len(s) + k] = t[k]
           /\ \A i \in DOMAIN (s \o t) :
                 \/ i \in DOMAIN s
                 \/ /\ i \in Nat /\ Len(s) < i
                    /\ i - Len(s) \in DOMAIN t /\ (s \o t)[i] = t[i - Len(s)]
OBVIOUS

-----------------------------------------------------------------------------
(* The operations of the user that may be asked for.                       *)
FlightOps == {"check", "stage", "inplace", "cancel", "confirm", "changelog",
              "discard"}

(* Nothing belongs to another operation.                                   *)
FlightKinds ==
    /\ \A i \in DOMAIN wq :
          /\ wq[i].e \notin {"clean", "autoremove", "reboot"}
          /\ wq[i].e = "reply" => wq[i].kind \in UpgradeOps
    /\ pc \notin {"check", "autoremove"}
    /\ \A t \in txs : t.kind \in UpgradeOps
    /\ \A i \in DOMAIN gq : gq[i].n \notin {"cleanFinished", "autoremoveFinished"}

(* Where an upgrade can be on its way: as a request or a reply in the      *)
(* worker's queue, in a handler, with the daemon, waiting for a timer, or  *)
(* as an answer in the GUI's queue.                                        *)
Tokens == {i \in DOMAIN wq : wq[i].e \in UpgradeOps \cup {"reply"}}
Replies == {i \in DOMAIN wq : wq[i].e = "reply"}
Ends == {i \in DOMAIN gq : gq[i].n = "finished"}

(* It is in one of these places at a time, once, and while it is anywhere  *)
(* the indicator is on.                                                    *)
OnePlace ==
    /\ Tokens # {} => pc \notin UpgradeOps /\ txs = {} /\ timers = 0 /\ Ends = {}
    /\ pc \in UpgradeOps => txs = {} /\ timers = 0 /\ Ends = {}
    /\ txs # {} => timers = 0 /\ Ends = {}
    /\ timers # 0 => Ends = {}

Once ==
    /\ \A i, j \in Tokens : i = j
    /\ \A t, u \in txs : t = u
    /\ timers \in {0, 1}
    /\ \A i, j \in Ends : i = j

Indicated ==
    Upgrading <=>
        Tokens # {} \/ pc \in UpgradeOps \/ txs # {} \/ timers # 0 \/ Ends # {}

(* The signals of a transaction are handled before its reply, and what     *)
(* they lead to before its end.                                            *)
SignalsFirst ==
    \A i \in DOMAIN wq : wq[i].e \in Signals => txs # {} \/ \E j \in Replies : i < j

AppliesFirst ==
    \A i \in DOMAIN gq :
        gq[i].n = "applyStarted" => Upgrading /\ \A j \in Ends : i < j

FlightInv ==
    FlightKinds /\ OnePlace /\ Once /\ Indicated /\ SignalsFirst /\ AppliesFirst

-----------------------------------------------------------------------------
(* What becomes of the places when a queue changes.                        *)

(* Taking an event that is neither a request nor a reply.                  *)
LEMMA TakeOther ==
    ASSUME TypeOK, NEW e, Take(e), e \notin UpgradeOps \cup {"reply"}
    PROVE  /\ Tokens' = {} <=> Tokens = {}
           /\ (\A i, j \in Tokens : i = j) => \A i, j \in Tokens' : i = j
           /\ \A i \in DOMAIN wq' : i + 1 \in DOMAIN wq /\ wq'[i] = wq[i + 1]
           /\ \A j \in Replies : 1 < j /\ j - 1 \in Replies'
           /\ \A i \in DOMAIN wq' : i \in Nat
<1>1. wq \in Seq(Event) /\ wq # <<>> /\ wq' = Tail(wq) /\ Head(wq).e = e
  BY TakeType DEF TypeOK
<1>2. /\ wq[1].e = e
      /\ \A i \in DOMAIN wq : i \in Nat /\ 1 <= i
      /\ \A i \in DOMAIN wq' :
            i \in Nat /\ 1 <= i /\ i + 1 \in DOMAIN wq /\ wq'[i] = wq[i + 1]
      /\ \A i \in DOMAIN wq : i # 1 => i - 1 \in DOMAIN wq' /\ wq'[i - 1] = wq[i]
  BY <1>1, TailAt
<1>3. \A i \in Tokens : i # 1 /\ i - 1 \in Tokens'
  BY <1>2 DEF Tokens
<1>4. \A i \in Tokens' : i \in Nat /\ i + 1 \in Tokens
  BY <1>2 DEF Tokens
<1>5. \A j \in Replies : 1 < j /\ j - 1 \in Replies'
  BY <1>2 DEF Replies
<1>6. Tokens' = {} <=> Tokens = {} BY <1>3, <1>4
<1>7. (\A i, j \in Tokens : i = j) => \A i, j \in Tokens' : i = j
  BY <1>4
<1> QED BY <1>2, <1>5, <1>6, <1>7

(* Taking the only request or reply there is.                              *)
LEMMA TakeToken ==
    ASSUME TypeOK, Once, NEW e, Take(e), e \in UpgradeOps \cup {"reply"}
    PROVE  /\ Tokens # {} /\ Tokens' = {} /\ Replies' = {}
           /\ \A i \in DOMAIN wq' : i + 1 \in DOMAIN wq /\ wq'[i] = wq[i + 1]
           /\ 1 \in Tokens /\ \A j \in Replies : j = 1
           /\ \A i \in DOMAIN wq' : i \in Nat /\ 1 <= i
<1>1. wq \in Seq(Event) /\ wq # <<>> /\ wq' = Tail(wq) /\ Head(wq).e = e
  BY TakeType DEF TypeOK
<1>2. /\ 1 \in DOMAIN wq /\ wq[1].e = e
      /\ \A i \in DOMAIN wq' :
            i \in Nat /\ 1 <= i /\ i + 1 \in DOMAIN wq /\ wq'[i] = wq[i + 1]
  BY <1>1, TailAt
<1>3. 1 \in Tokens BY <1>2 DEF Tokens
<1>4. \A i \in Tokens : i = 1 BY <1>3 DEF Once
<1>5. Tokens' = {} BY <1>2, <1>4 DEF Tokens
<1>6. Replies' = {} /\ \A j \in Replies : j \in Tokens
  BY <1>5 DEF Replies, Tokens
<1> QED BY <1>2, <1>3, <1>4, <1>5, <1>6

(* Posting an event that is neither.                                       *)
LEMMA PostOther ==
    ASSUME TypeOK, NEW x, wq' = Append(wq, x), x.e \notin UpgradeOps \cup {"reply"}
    PROVE  /\ Tokens' = Tokens /\ Replies' = Replies
           /\ \A i \in DOMAIN wq' : \/ i \in DOMAIN wq /\ wq'[i] = wq[i]
                                    \/ wq'[i] = x
<1>1. wq \in Seq(Event) BY DEF TypeOK
<1> QED BY <1>1, AppendAt DEF Tokens, Replies

(* Posting the only one.                                                   *)
LEMMA PostToken ==
    ASSUME TypeOK, Tokens = {}, NEW x, wq' = Append(wq, x),
           x.e \in UpgradeOps \cup {"reply"}
    PROVE  /\ Tokens' = {Len(wq) + 1}
           /\ x.e = "reply" => Replies' = {Len(wq) + 1}
           /\ \A i \in DOMAIN wq' :
                 \/ i \in DOMAIN wq /\ wq'[i] = wq[i] /\ i < Len(wq) + 1
                 \/ i = Len(wq) + 1 /\ wq'[i] = x
<1>1. wq \in Seq(Event) BY DEF TypeOK
<1>2. Replies = {} BY DEF Tokens, Replies
<1> QED BY <1>1, <1>2, AppendAt DEF Tokens, Replies

(* Notices that end nothing.                                               *)
LEMMA TellOther ==
    ASSUME TypeOK, NEW ns \in Seq(Notice), gq' = gq \o ns,
           \A k \in DOMAIN ns : ns[k].n # "finished"
    PROVE  /\ Ends' = Ends
           /\ \A i \in DOMAIN gq' : \/ i \in DOMAIN gq /\ gq'[i] = gq[i]
                                    \/ \E k \in DOMAIN ns : gq'[i] = ns[k]
<1> DEFINE r == gq \o ns
<1>1. gq \in Seq(Notice) BY DEF TypeOK
<1>2. /\ \A i \in DOMAIN gq : i \in DOMAIN r /\ r[i] = gq[i]
      /\ \A i \in DOMAIN r : \/ i \in DOMAIN gq
                             \/ i - Len(gq) \in DOMAIN ns /\ r[i] = ns[i - Len(gq)]
  BY <1>1, ConcatAt
<1>3. gq' = r OBVIOUS
<1> HIDE DEF r
<1>4. /\ \A i \in DOMAIN gq : i \in DOMAIN gq' /\ gq'[i] = gq[i]
      /\ \A i \in DOMAIN gq' : \/ i \in DOMAIN gq
                               \/ i - Len(gq) \in DOMAIN ns /\ gq'[i] = ns[i - Len(gq)]
  BY <1>2, <1>3
<1> QED BY <1>4 DEF Ends

(* Notices of which the last is the only end there is.                     *)
LEMMA TellEnd ==
    ASSUME TypeOK, Ends = {}, NEW ns \in Seq(Notice), gq' = gq \o ns, ns # <<>>,
           \A k \in DOMAIN ns : ns[k].n = "finished" <=> k = Len(ns)
    PROVE  /\ Ends' = {Len(gq) + Len(ns)}
           /\ \A i \in DOMAIN gq' :
                 \/ i \in DOMAIN gq /\ gq'[i] = gq[i] /\ i < Len(gq) + Len(ns)
                 \/ \E k \in DOMAIN ns : gq'[i] = ns[k] /\ i = Len(gq) + k
<1>1. gq \in Seq(Notice) BY DEF TypeOK
<1>2. Len(ns) \in DOMAIN ns /\ Len(ns) \in Nat /\ Len(ns) >= 1 /\ Len(gq) \in Nat
  BY <1>1
<1>3. /\ \A i \in DOMAIN gq : /\ i \in DOMAIN gq' /\ gq'[i] = gq[i]
                              /\ i \in Nat /\ i <= Len(gq)
      /\ \A k \in DOMAIN ns :
            k \in Nat /\ Len(gq) + k \in DOMAIN gq' /\ gq'[Len(gq) + k] = ns[k]
      /\ \A i \in DOMAIN gq' :
            \/ i \in DOMAIN gq
            \/ /\ i \in Nat
               /\ i - Len(gq) \in DOMAIN ns /\ gq'[i] = ns[i - Len(gq)]
  BY <1>1, ConcatAt
<1>4. \A i \in Ends' : i = Len(gq) + Len(ns)
  <2> TAKE i \in Ends'
  <2>1. i \in DOMAIN gq' /\ gq'[i].n = "finished" BY DEF Ends
  <2>2. i \notin DOMAIN gq BY <1>3, <2>1 DEF Ends
  <2>3. /\ i \in Nat /\ i - Len(gq) \in DOMAIN ns
        /\ ns[i - Len(gq)].n = "finished"
    BY <1>3, <2>1, <2>2
  <2>4. i - Len(gq) = Len(ns) BY <2>3
  <2> QED BY <1>2, <2>3, <2>4
<1>5. Len(gq) + Len(ns) \in Ends' BY <1>2, <1>3 DEF Ends
<1>6. Ends' = {Len(gq) + Len(ns)} BY <1>4, <1>5
<1>7. ASSUME NEW i \in DOMAIN gq'
      PROVE  \/ i \in DOMAIN gq /\ gq'[i] = gq[i] /\ i < Len(gq) + Len(ns)
             \/ \E k \in DOMAIN ns : gq'[i] = ns[k] /\ i = Len(gq) + k
  <2>1. CASE i \in DOMAIN gq BY <1>2, <1>3, <2>1
  <2>2. CASE /\ i \in Nat
             /\ i - Len(gq) \in DOMAIN ns /\ gq'[i] = ns[i - Len(gq)]
    <3>1. i = Len(gq) + (i - Len(gq)) BY <1>2, <2>2
    <3> QED BY <2>2, <3>1
  <2> QED BY <1>3, <2>1, <2>2
<1> QED BY <1>6, <1>7

-----------------------------------------------------------------------------
(* Steps that leave the upgrade where it is: whatever they take, post and  *)
(* emit, it is neither a request, nor a reply, nor an end.                 *)
Passes(x) ==
    /\ x.e \notin UpgradeOps \cup {"reply", "clean", "autoremove", "reboot"}
    /\ x.e \in Signals => txs # {}

Quiet ==
    \/ \E e : Take(e) /\ e \notin UpgradeOps \cup {"reply"}
    \/ UNCHANGED wq
    \/ \E x : wq' = Append(wq, x) /\ Passes(x)

Idles(ns) ==
    \A k \in DOMAIN ns :
        ns[k].n \notin {"finished", "applyStarted", "cleanFinished", "autoremoveFinished"}

(* They keep the invariant.                                                *)
LEMMA QuietStep ==
    ASSUME TypeOK, FlightInv,
           NEW ns \in Seq(Notice), gq' = gq \o ns, Idles(ns),
           Quiet,
           txs' = {} <=> txs = {}, \A t, u \in txs' : t = u,
           \A t \in txs' : t.kind \in UpgradeOps,
           pc' \in UpgradeOps <=> pc \in UpgradeOps, pc' \notin {"check", "autoremove"},
           timers' = timers, Upgrading' <=> Upgrading
    PROVE  FlightInv'
<1> USE DEF Idles
<1>1. /\ Ends' = Ends
      /\ \A i \in DOMAIN gq' : \/ i \in DOMAIN gq /\ gq'[i] = gq[i]
                               \/ \E k \in DOMAIN ns : gq'[i] = ns[k]
  BY TellOther
<1>2. AppliesFirst'
  BY <1>1 DEF FlightInv, AppliesFirst
<1>3. \A i \in DOMAIN gq' : gq'[i].n \notin {"cleanFinished", "autoremoveFinished"}
  BY <1>1 DEF FlightInv, FlightKinds
<1>4. /\ Tokens' = {} <=> Tokens = {}
      /\ \A i, j \in Tokens' : i = j
      /\ \A i \in DOMAIN wq' :
            /\ wq'[i].e \notin {"clean", "autoremove", "reboot"}
            /\ wq'[i].e = "reply" => wq'[i].kind \in UpgradeOps
      /\ SignalsFirst'
  <2>1. ASSUME NEW e, Take(e), e \notin UpgradeOps \cup {"reply"} PROVE <1>4!:
    <3>1. /\ Tokens' = {} <=> Tokens = {}
          /\ \A i, j \in Tokens' : i = j
          /\ \A i \in DOMAIN wq' : i \in Nat /\ i + 1 \in DOMAIN wq /\ wq'[i] = wq[i + 1]
          /\ \A j \in Replies : 1 < j /\ j - 1 \in Replies'
          /\ \A j \in Replies : j \in Nat
      <4>1. wq \in Seq(Event) BY DEF TypeOK
      <4>2. \A j \in Replies : j \in Nat BY <4>1 DEF Replies
      <4> QED BY <2>1, <4>2, TakeOther DEF FlightInv, Once
    <3>2. SignalsFirst'
      <4> SUFFICES ASSUME NEW i \in DOMAIN wq', wq'[i].e \in Signals, txs' = {}
                   PROVE  \E j \in Replies' : i < j
        BY DEF SignalsFirst
      <4>1. PICK j \in Replies : i + 1 < j
        BY <3>1 DEF FlightInv, SignalsFirst
      <4>2. i < j - 1 BY <3>1, <4>1
      <4> QED BY <3>1, <4>2
    <3> QED BY <3>1, <3>2 DEF FlightInv, FlightKinds
  <2>2. CASE UNCHANGED wq
    BY <2>2 DEF Tokens, Replies, SignalsFirst, FlightInv, FlightKinds, Once
  <2>3. ASSUME NEW x, wq' = Append(wq, x), Passes(x) PROVE <1>4!:
    <3>1. /\ Tokens' = Tokens /\ Replies' = Replies
          /\ \A i \in DOMAIN wq' : (i \in DOMAIN wq /\ wq'[i] = wq[i]) \/ wq'[i] = x
      BY <2>3, PostOther DEF Passes
    <3> QED
      BY <2>3, <3>1 DEF Passes, SignalsFirst, FlightInv, FlightKinds, Once
  <2> QED BY <2>1, <2>2, <2>3 DEF Quiet
<1> QED
  BY <1>1, <1>2, <1>3, <1>4 DEF FlightInv, FlightKinds, OnePlace, Once, Indicated

(* The notices that end nothing.                                           *)
LEMMA IdleNotices ==
    /\ <<>> \in Seq(Notice) /\ Idles(<<>>)
    /\ \A n \in {"checkStarted", "stageShown", "stageCleared", "changelogFetched"} :
          <<Note(n)>> \in Seq(Notice) /\ Idles(<<Note(n)>>)
    /\ \A b \in BOOLEAN :
          <<Told("offlineReady", b)>> \in Seq(Notice) /\ Idles(<<Told("offlineReady", b)>>)
    /\ \A u \in Upgrades \cup {"failed"} :
          /\ <<CheckDone(u)>> \in Seq(Notice) /\ Idles(<<CheckDone(u)>>)
          /\ <<Note("checkStarted"), CheckDone(u)>> \in Seq(Notice)
          /\ Idles(<<Note("checkStarted"), CheckDone(u)>>)
          /\ \A b \in BOOLEAN :
                /\ <<Told("offlineReady", b), CheckDone(u)>> \in Seq(Notice)
                /\ Idles(<<Told("offlineReady", b), CheckDone(u)>>)
    /\ \A k \in Keys : LET q == <<[n |-> "keyRequested", key |-> k]>>
                       IN q \in Seq(Notice) /\ Idles(q)
<1>1. /\ \A n \in {"checkStarted", "stageShown", "stageCleared", "changelogFetched"} :
             Note(n) \in Notice /\ Note(n).n = n
      /\ \A b \in BOOLEAN : /\ Told("offlineReady", b) \in Notice
                            /\ Told("offlineReady", b).n = "offlineReady"
      /\ \A u \in Upgrades \cup {"failed"} :
             CheckDone(u) \in Notice /\ CheckDone(u).n = "checkFinished"
      /\ \A k \in Keys : [n |-> "keyRequested", key |-> k] \in Notice
  BY DEF Note, Told, CheckDone, Notice
<1> QED BY <1>1 DEF Idles

(* Nor do two runs of them.                                                *)
LEMMA IdlesBoth ==
    ASSUME NEW ms \in Seq(Notice), Idles(ms), NEW ns \in Seq(Notice), Idles(ns)
    PROVE  ms \o ns \in Seq(Notice) /\ Idles(ms \o ns)
<1>1. \A k \in DOMAIN (ms \o ns) : \/ k \in DOMAIN ms /\ (ms \o ns)[k] = ms[k]
                                   \/ /\ k - Len(ms) \in DOMAIN ns
                                      /\ (ms \o ns)[k] = ns[k - Len(ms)]
  BY ConcatAt
<1> QED BY <1>1 DEF Idles

(* A queue that does not grow has grown by nothing.                        *)
LEMMA TellNothing == ASSUME TypeOK, UNCHANGED gq PROVE gq' = gq \o <<>>
BY DEF TypeOK

(* The handlers of the worker that do not serve an upgrade.                *)
LEMMA QuietWorker ==
    ASSUME TypeOK, FlightInv, UNCHANGED guiVars,
           \/ CheckBegin \/ CheckEnd \/ ChangelogBegin \/ ChangelogEnd \/ SelfPost
           \/ CancelOperation \/ CleanOffline \/ ConfirmRepoKey \/ HandleKeyRequest
           \/ HandleSignal /\ Head(wq).e # "beforeBegin"
    PROVE  FlightInv'
<1> USE DEF guiVars, workerVars, daemonVars
<1>1. \E ns \in Seq(Notice) : gq' = gq \o ns /\ Idles(ns)
  <2>1. CASE UNCHANGED gq BY <2>1, TellNothing, IdleNotices
  <2>2. CASE CheckBegin
    BY <2>2, IdleNotices DEF CheckBegin, Emit
  <2>3. CASE CheckEnd
    <3>1. avail' \in Upgrades /\ staged \in BOOLEAN BY <2>3 DEF CheckEnd, TypeOK
    <3> QED BY <2>3, <3>1, IdleNotices DEF CheckEnd, Emit
  <2>4. CASE ChangelogBegin \/ ChangelogEnd
    BY <2>1, <2>4, IdleNotices DEF ChangelogBegin, ChangelogEnd, Emit
  <2>5. CASE CleanOffline
    BY <2>1, <2>5, IdleNotices DEF CleanOffline, Emit
  <2>6. CASE HandleSignal /\ Head(wq).e # "beforeBegin"
    BY <2>6, IdleNotices DEF HandleSignal, Take, Emit
  <2>7. CASE HandleKeyRequest
    <3>1. Head(wq) \in Event /\ Head(wq).e = "keyRequest"
      BY <2>7, TakeType DEF HandleKeyRequest, TypeOK
    <3>2. Head(wq).key \in Keys
      BY <3>1 DEF Event, Plain, Signals, TxKinds
    <3> QED BY <2>7, <3>2, IdleNotices DEF HandleKeyRequest, Emit
  <2> QED
    BY <2>1, <2>2, <2>3, <2>4, <2>5, <2>6, <2>7
    DEF SelfPost, CancelOperation, ConfirmRepoKey
<1>2. Quiet
  <2>1. \A e \in {"check", "changelog", "cancel", "discard", "confirm", "keyRequest",
                  "progress", "afterComplete"} : Take(e) => Quiet
    BY DEF Quiet, UpgradeOps
  <2>2. UNCHANGED wq => Quiet BY DEF Quiet
  <2>3. CASE SelfPost
    <3>1. Passes([e |-> "check"]) BY DEF Passes, UpgradeOps, Signals
    <3> QED BY <2>3, <3>1 DEF SelfPost, Quiet
  <2>4. CASE CheckBegin \/ ChangelogBegin
    BY <2>1, <2>2, <2>4 DEF CheckBegin, ChangelogBegin
  <2>5. CASE CheckEnd \/ ChangelogEnd BY <2>2, <2>5 DEF CheckEnd, ChangelogEnd
  <2>6. CASE CancelOperation \/ CleanOffline
    BY <2>1, <2>6 DEF CancelOperation, CleanOffline
  <2>7. CASE ConfirmRepoKey BY <2>1, <2>7 DEF ConfirmRepoKey
  <2>8. CASE HandleKeyRequest BY <2>1, <2>8 DEF HandleKeyRequest
  <2>9. CASE HandleSignal /\ Head(wq).e # "beforeBegin"
    BY <2>1, <2>9 DEF HandleSignal, Take
  <2> QED BY <2>3, <2>4, <2>5, <2>6, <2>7, <2>8, <2>9
<1>3. /\ txs' = {} <=> txs = {}
      /\ \A t, u \in txs' : t = u
      /\ \A t \in txs' : t.kind \in UpgradeOps
  <2>1. CASE ConfirmRepoKey
    <3> DEFINE f(t) == IF /\ session # NoSession /\ Head(wq).key = workerKey
                          /\ t.sess = session /\ t.key = Head(wq).key
                       THEN [t EXCEPT !.key = NoKey] ELSE t
    <3>1. txs' = {f(t) : t \in txs} BY <2>1 DEF ConfirmRepoKey
    <3>2. \A t \in txs : f(t).kind = t.kind BY DEF TypeOK, Transaction
    <3> HIDE DEF f
    <3> QED BY <3>1, <3>2 DEF FlightInv, FlightKinds, Once
  <2>2. CASE UNCHANGED txs BY <2>2 DEF FlightInv, FlightKinds, Once
  <2> QED
    BY <2>1, <2>2
    DEF CheckBegin, CheckEnd, ChangelogBegin, ChangelogEnd, SelfPost,
        CancelOperation, CleanOffline, HandleKeyRequest, HandleSignal
<1>4. /\ pc' \in UpgradeOps <=> pc \in UpgradeOps
      /\ pc' \notin {"check", "autoremove"}
      /\ timers' = timers /\ (Upgrading' <=> Upgrading)
  BY DEF FlightInv, FlightKinds, UpgradeOps, Upgrading, Take,
         CheckBegin, CheckEnd, ChangelogBegin, ChangelogEnd, SelfPost,
         CancelOperation, CleanOffline, ConfirmRepoKey, HandleKeyRequest, HandleSignal
<1>5. PICK ns \in Seq(Notice) : gq' = gq \o ns /\ Idles(ns) BY <1>1
<1> QED BY <1>2, <1>3, <1>4, <1>5, QuietStep

(* The handler that tells of the start of the application.                 *)
LEMMA BeginWorker ==
    ASSUME TypeOK, FlightInv, UNCHANGED guiVars, HandleSignal, Head(wq).e = "beforeBegin"
    PROVE  FlightInv'
<1> DEFINE ns == <<Note("applyStarted"), Note("stageShown")>>
<1>1. /\ Take("beforeBegin") /\ gq' = gq \o ns /\ UNCHANGED <<workerVars, daemonVars>>
      /\ UNCHANGED busy
  BY DEF HandleSignal, Take, Emit, guiVars
<1>2. /\ ns \in Seq(Notice)
      /\ \A k \in DOMAIN ns : ns[k].n \in {"applyStarted", "stageShown"}
  BY NoticeForms DEF Note
<1> HIDE DEF ns
<1>3. /\ Ends' = Ends
      /\ \A i \in DOMAIN gq' : \/ i \in DOMAIN gq /\ gq'[i] = gq[i]
                               \/ gq'[i].n \in {"applyStarted", "stageShown"}
  BY <1>1, <1>2, TellOther
<1>4. /\ Tokens' = {} <=> Tokens = {}
      /\ \A i, j \in Tokens' : i = j
      /\ \A i \in DOMAIN wq' : i \in Nat /\ i + 1 \in DOMAIN wq /\ wq'[i] = wq[i + 1]
      /\ \A j \in Replies : 1 < j /\ j - 1 \in Replies' /\ j \in Nat
  <2>1. \A j \in Replies : j \in Nat BY DEF Replies, TypeOK
  <2> QED BY <1>1, <2>1, TakeOther DEF UpgradeOps, FlightInv, Once
<1>5. Upgrading /\ Ends = {}
  <2>1. 1 \in DOMAIN wq /\ wq[1] = Head(wq)
    BY <1>1, TakeType, TailAt DEF TypeOK
  <2>2. txs # {} \/ Replies # {}
    BY <2>1 DEF FlightInv, SignalsFirst, Signals
  <2>3. Replies # {} => Tokens # {} BY DEF Replies, Tokens
  <2> QED BY <2>2, <2>3 DEF FlightInv, OnePlace, Indicated
<1>6. SignalsFirst'
  <2> SUFFICES ASSUME NEW i \in DOMAIN wq', wq'[i].e \in Signals, txs' = {}
               PROVE  \E j \in Replies' : i < j
    BY DEF SignalsFirst
  <2>1. PICK j \in Replies : i + 1 < j
    BY <1>1, <1>4 DEF FlightInv, SignalsFirst, daemonVars
  <2>2. i < j - 1 BY <1>4, <2>1
  <2> QED BY <1>4, <2>1, <2>2
<1>7. AppliesFirst'
  BY <1>1, <1>3, <1>5 DEF FlightInv, AppliesFirst, Upgrading
<1>8. FlightKinds'
  BY <1>1, <1>3, <1>4 DEF FlightInv, FlightKinds, workerVars, daemonVars
<1> QED
  BY <1>1, <1>3, <1>4, <1>6, <1>7, <1>8
  DEF FlightInv, OnePlace, Once, Indicated, workerVars, daemonVars, Upgrading

-----------------------------------------------------------------------------
(* Steps that move the upgrade on.                                         *)

(* With the last reply gone no signal is left in the worker's queue.       *)
LEMMA NoSignals ==
    ASSUME TypeOK, FlightInv, txs = {}, \A j \in Replies : j = 1
    PROVE  \A i \in DOMAIN wq : wq[i].e \notin Signals
<1>1. \A i \in DOMAIN wq : i \in Nat /\ 1 <= i BY DEF TypeOK
<1> QED BY <1>1 DEF FlightInv, SignalsFirst

(* The notices that end an upgrade: one end, and it is the last.           *)
Closes(ns) ==
    /\ ns # <<>>
    /\ \A k \in DOMAIN ns :
          /\ ns[k].n = "finished" <=> k = Len(ns)
          /\ ns[k].n \notin {"applyStarted", "cleanFinished", "autoremoveFinished"}

(* Notices that end nothing may come before them.                          *)
LEMMA ClosesLast ==
    ASSUME NEW ms \in Seq(Notice), Idles(ms), NEW ns \in Seq(Notice), Closes(ns)
    PROVE  ms \o ns \in Seq(Notice) /\ Closes(ms \o ns)
<1>1. /\ ms \o ns \in Seq(Notice) /\ Len(ms \o ns) = Len(ms) + Len(ns)
      /\ Len(ms) \in Nat /\ Len(ns) \in Nat /\ Len(ns) >= 1
  BY DEF Closes
<1>2. ms \o ns # <<>> BY <1>1
<1>3. ASSUME NEW k \in DOMAIN (ms \o ns)
      PROVE  /\ (ms \o ns)[k].n = "finished" <=> k = Len(ms \o ns)
             /\ (ms \o ns)[k].n
                    \notin {"applyStarted", "cleanFinished", "autoremoveFinished"}
  <2>1. CASE k \in DOMAIN ms
    <3>1. k <= Len(ms) /\ k \in Nat /\ (ms \o ns)[k] = ms[k] BY <2>1, ConcatAt
    <3> QED BY <1>1, <2>1, <3>1 DEF Idles
  <2>2. CASE /\ k \in Nat /\ k - Len(ms) \in DOMAIN ns
             /\ (ms \o ns)[k] = ns[k - Len(ms)]
    <3>1. k - Len(ms) = Len(ns) <=> k = Len(ms) + Len(ns) BY <1>1, <2>2
    <3> QED BY <1>1, <2>2, <3>1 DEF Closes
  <2> QED BY <2>1, <2>2, ConcatAt
<1> QED BY <1>1, <1>2, <1>3 DEF Closes

(* The ends the handlers report.                                           *)
LEMMA ClosingNotices ==
    /\ \A b \in BOOLEAN : /\ <<Told("finished", b)>> \in Seq(Notice)
                          /\ Closes(<<Told("finished", b)>>)
    /\ <<Told("offlineReady", TRUE), Told("finished", TRUE)>> \in Seq(Notice)
    /\ Closes(<<Told("offlineReady", TRUE), Told("finished", TRUE)>>)
<1>1. \A b \in BOOLEAN :
         /\ Told("offlineReady", b) \in Notice /\ Told("finished", b) \in Notice
         /\ Told("offlineReady", b).n = "offlineReady"
         /\ Told("finished", b).n = "finished"
  BY DEF Told, Notice
<1>2. ASSUME NEW x \in Notice, x.n = "offlineReady", NEW y \in Notice, y.n = "finished"
      PROVE  <<x, y>> \in Seq(Notice) /\ Closes(<<x, y>>)
  BY <1>2 DEF Closes
<1>3. ASSUME NEW y \in Notice, y.n = "finished"
      PROVE  <<y>> \in Seq(Notice) /\ Closes(<<y>>)
  BY <1>3 DEF Closes
<1> QED BY <1>1, <1>2, <1>3

(* Entries that stay in the worker's queue.                                *)
Dwindles == \A i \in DOMAIN wq' : \E j \in DOMAIN wq : wq'[i] = wq[j]

(* The answer.                                                             *)
LEMMA EndStep ==
    ASSUME TypeOK, FlightInv, Upgrading, Upgrading', Ends = {},
           NEW ns \in Seq(Notice), gq' = gq \o ns, Closes(ns),
           \A i \in DOMAIN wq : wq[i].e \notin Signals,
           Dwindles, Tokens' = {}, txs' = {}, timers' = 0,
           pc' \notin UpgradeOps, pc' \notin {"check", "autoremove"}
    PROVE  FlightInv'
<1>1. /\ Ends' = {Len(gq) + Len(ns)}
      /\ \A i \in DOMAIN gq' :
            \/ i \in DOMAIN gq /\ gq'[i] = gq[i] /\ i < Len(gq) + Len(ns)
            \/ \E k \in DOMAIN ns : gq'[i] = ns[k] /\ i = Len(gq) + k
  BY TellEnd DEF Closes
<1>2. AppliesFirst' BY <1>1 DEF AppliesFirst, Closes
<1>3. SignalsFirst' BY DEF SignalsFirst, Dwindles
<1>4. FlightKinds' BY <1>1 DEF FlightKinds, FlightInv, Dwindles, Closes
<1> QED
  BY <1>1, <1>2, <1>3, <1>4 DEF FlightInv, OnePlace, Once, Indicated

(* Into a handler, to the daemon, to a timer.                              *)
LEMMA MoveStep ==
    ASSUME TypeOK, FlightInv, Upgrading, Upgrading', Ends = {},
           NEW ns \in Seq(Notice), gq' = gq \o ns, Idles(ns),
           \A i \in DOMAIN wq : wq[i].e \notin Signals,
           Dwindles, Tokens' = {},
           pc' \notin {"check", "autoremove"}, \A t \in txs' : t.kind \in UpgradeOps,
           \/ pc' \in UpgradeOps /\ txs' = {} /\ timers' = 0
           \/ pc' \notin UpgradeOps /\ (\E t : txs' = {t}) /\ timers' = 0
           \/ pc' \notin UpgradeOps /\ txs' = {} /\ timers' = 1
    PROVE  FlightInv'
<1>1. /\ Ends' = Ends
      /\ \A i \in DOMAIN gq' : \/ i \in DOMAIN gq /\ gq'[i] = gq[i]
                               \/ \E k \in DOMAIN ns : gq'[i] = ns[k]
  BY TellOther DEF Idles
<1>2. AppliesFirst' BY <1>1 DEF FlightInv, AppliesFirst, Idles
<1>3. SignalsFirst' BY DEF SignalsFirst, Dwindles
<1>4. FlightKinds' BY <1>1 DEF FlightKinds, FlightInv, Dwindles, Idles
<1>5. /\ \A i, j \in Tokens' : i = j
      /\ \A t, u \in txs' : t = u
      /\ timers' \in {0, 1}
      /\ \A i, j \in Ends' : i = j
  BY <1>1 DEF FlightInv, Once
<1> QED
  BY <1>1, <1>2, <1>3, <1>4, <1>5 DEF FlightInv, OnePlace, Once, Indicated

(* Taking the request or the reply of an upgrade.                          *)
LEMMA TakesUp ==
    ASSUME TypeOK, FlightInv, NEW e, Take(e), e \in UpgradeOps \cup {"reply"}
    PROVE  /\ Upgrading /\ Ends = {} /\ Tokens' = {} /\ txs = {} /\ timers = 0
           /\ Dwindles /\ \A i \in DOMAIN wq : wq[i].e \notin Signals
           /\ pc = "idle"
<1>1. /\ Tokens # {} /\ Tokens' = {}
      /\ \A i \in DOMAIN wq' : i + 1 \in DOMAIN wq /\ wq'[i] = wq[i + 1]
      /\ \A j \in Replies : j = 1
  BY TakeToken DEF FlightInv
<1>2. txs = {} /\ timers = 0 /\ Ends = {} /\ Upgrading
  BY <1>1 DEF FlightInv, OnePlace, Indicated
<1> QED BY <1>1, <1>2, NoSignals DEF Dwindles, Take

(* The two steps before the daemon has the transaction.                    *)
LEMMA BeginUpgrade ==
    ASSUME TypeOK, FlightInv, UNCHANGED guiVars, NEW kind \in TxKinds,
           TransactionBegin(kind)
    PROVE  FlightInv'
<1>1. kind \in UpgradeOps
  <2>1. 1 \in DOMAIN wq /\ wq[1].e = kind
    BY TakeType, TailAt DEF TransactionBegin, TypeOK
  <2> QED BY <2>1 DEF TxKinds, UpgradeOps, FlightInv, FlightKinds
<1>2. /\ Upgrading /\ Ends = {} /\ Tokens' = {} /\ txs = {} /\ timers = 0
      /\ Dwindles /\ \A i \in DOMAIN wq : wq[i].e \notin Signals
      /\ pc = "idle"
  BY <1>1, TakesUp DEF TransactionBegin
<1>3. /\ Upgrading' /\ txs' = {} /\ timers' = 0
  BY <1>2 DEF Upgrading, guiVars, TransactionBegin
<1> DEFINE preparing == IF kind = "stage" THEN <<>> ELSE <<Note("stageShown")>>
<1>4. preparing \in Seq(Notice) /\ Idles(preparing)
  BY IdleNotices
<1>5. \/ gq' = gq \o (preparing \o <<Note("stageShown")>>) /\ pc' = kind
      \/ gq' = gq \o (preparing \o <<Told("finished", FALSE)>>) /\ pc' = pc
  BY <1>1 DEF TransactionBegin, Emit, Answer, UpgradeOps
<1> HIDE DEF preparing
<1>6. CASE gq' = gq \o (preparing \o <<Note("stageShown")>>) /\ pc' = kind
  <2> DEFINE ns == preparing \o <<Note("stageShown")>>
  <2>1. ns \in Seq(Notice) /\ Idles(ns)
    BY <1>4, IdleNotices, IdlesBoth
  <2>2. gq' = gq \o ns BY <1>6
  <2> HIDE DEF ns
  <2>3. pc' \notin {"check", "autoremove"} /\ pc' \in UpgradeOps
    BY <1>1, <1>6 DEF UpgradeOps
  <2> QED BY <1>2, <1>3, <2>1, <2>2, <2>3, MoveStep
<1>7. CASE gq' = gq \o (preparing \o <<Told("finished", FALSE)>>) /\ pc' = pc
  <2> DEFINE ns == preparing \o <<Told("finished", FALSE)>>
  <2>1. ns \in Seq(Notice) /\ Closes(ns)
    BY <1>4, ClosingNotices, ClosesLast
  <2>2. gq' = gq \o ns BY <1>7
  <2> HIDE DEF ns
  <2>3. pc' \notin {"check", "autoremove"} /\ pc' \notin UpgradeOps
    BY <1>2, <1>7 DEF UpgradeOps
  <2> QED BY <1>2, <1>3, <2>1, <2>2, <2>3, EndStep
<1> QED BY <1>5, <1>6, <1>7

(* resolve has answered: sent, or over.                                    *)
LEMMA SendUpgrade ==
    ASSUME TypeOK, FlightInv, UNCHANGED guiVars, NEW kind \in TxKinds,
           TransactionSend(kind)
    PROVE  FlightInv'
<1>1. kind \in UpgradeOps /\ pc \in UpgradeOps /\ pc = kind /\ pc' = "idle"
  BY DEF TransactionSend, TxKinds, UpgradeOps, FlightInv, FlightKinds
<1>2. /\ Upgrading /\ Ends = {} /\ Tokens = {} /\ txs = {} /\ timers = 0
      /\ UNCHANGED wq /\ timers' = timers /\ Upgrading'
  BY <1>1 DEF FlightInv, OnePlace, Indicated, TransactionSend, guiVars, Upgrading
<1>3. \A i \in DOMAIN wq : wq[i].e \notin Signals
  <2>1. Replies = {} BY <1>2 DEF Replies, Tokens
  <2> QED BY <1>2, <2>1, NoSignals
<1>4. Tokens' = {} /\ Dwindles /\ timers' = 0
  BY <1>2 DEF Tokens, Dwindles
<1>5. pc' \notin {"check", "autoremove"} /\ pc' \notin UpgradeOps
  BY <1>1 DEF UpgradeOps
<1>6. CASE gq' = gq \o <<Told("finished", FALSE)>> /\ UNCHANGED txs
  <2>1. <<Told("finished", FALSE)>> \in Seq(Notice) /\ Closes(<<Told("finished", FALSE)>>)
    BY ClosingNotices
  <2>2. txs' = {} BY <1>2, <1>6
  <2> QED BY <1>2, <1>3, <1>4, <1>5, <1>6, <2>1, <2>2, EndStep
<1>7. CASE /\ txs' = txs \cup {[kind |-> kind, sess |-> session,
                                phase |-> "sent", key |-> NoKey]}
           /\ gq' = gq \o <<Note("stageShown")>>
  <2>1. <<Note("stageShown")>> \in Seq(Notice) /\ Idles(<<Note("stageShown")>>)
    BY IdleNotices
  <2>2. (\E t : txs' = {t}) /\ \A t \in txs' : t.kind \in UpgradeOps
    <3> DEFINE r == [kind |-> kind, sess |-> session, phase |-> "sent", key |-> NoKey]
    <3>1. txs' = {r} BY <1>2, <1>7
    <3>2. r.kind = kind OBVIOUS
    <3> HIDE DEF r
    <3> QED BY <1>1, <3>1, <3>2
  <2> QED BY <1>2, <1>3, <1>4, <1>5, <1>7, <2>1, <2>2, MoveStep
<1> QED
  BY <1>1, <1>6, <1>7 DEF TransactionSend, Emit, Answer, UpgradeOps

(* The replies.                                                            *)
LEMMA ReplyUpgrade ==
    ASSUME TypeOK, FlightInv, UNCHANGED guiVars, StageReply \/ InPlaceReply
    PROVE  FlightInv'
<1>1. Take("reply") BY DEF StageReply, InPlaceReply, TakeReply
<1>2. /\ Upgrading /\ Ends = {} /\ Tokens' = {} /\ txs = {} /\ timers = 0
      /\ Dwindles /\ \A i \in DOMAIN wq : wq[i].e \notin Signals
      /\ pc = "idle"
  BY <1>1, TakesUp
<1>3. Upgrading' /\ txs' = {}
  BY <1>2 DEF Upgrading, guiVars, StageReply, InPlaceReply
<1>4. pc' \in {"idle", "selfpost"}
  BY <1>2 DEF StageReply, InPlaceReply
<1>5. pc' \notin {"check", "autoremove"} /\ pc' \notin UpgradeOps
  BY <1>4 DEF UpgradeOps
<1>6. ASSUME NEW ns \in Seq(Notice), Closes(ns), gq' = gq \o ns, timers' = 0
      PROVE  FlightInv'
  BY <1>2, <1>3, <1>5, <1>6, EndStep
<1>7. CASE StageReply
  <2> DEFINE ok == Head(wq).res = "ok"
             outcome == IF ok THEN <<Told("offlineReady", TRUE), Told("finished", TRUE)>>
                              ELSE <<Told("finished", FALSE)>>
             cleaned == <<Told("offlineReady", FALSE)>> \o outcome
  <2>1. outcome \in Seq(Notice) /\ Closes(outcome) BY ClosingNotices
  <2>2. timers' = 0 /\ (gq' = gq \o outcome \/ gq' = gq \o cleaned)
    BY <1>2, <1>7 DEF StageReply, Emit
  <2> HIDE DEF outcome
  <2>3. cleaned \in Seq(Notice) /\ Closes(cleaned)
    BY <2>1, IdleNotices, ClosesLast
  <2> HIDE DEF cleaned
  <2> QED BY <1>6, <2>1, <2>2, <2>3
<1>8. CASE InPlaceReply
  <2>1. CASE /\ timers' = timers
             /\ \E b \in BOOLEAN : gq' = gq \o <<Told("finished", b)>>
    BY <1>2, <1>6, <2>1, ClosingNotices
  <2>2. CASE timers' = timers + 1 /\ UNCHANGED gq
    <3>1. timers' = 1 BY <1>2, <2>2
    <3>2. gq' = gq \o <<>> BY <2>2, TellNothing
    <3>3. \A t \in txs' : t.kind \in UpgradeOps BY <1>3
    <3> QED BY <1>2, <1>3, <1>5, <3>1, <3>2, <3>3, IdleNotices, MoveStep
  <2>3. \A b : Answer("inplace", b) = <<Told("finished", b)>> BY DEF Answer
  <2> QED BY <1>8, <2>1, <2>2, <2>3 DEF InPlaceReply, Emit
<1> QED BY <1>7, <1>8

(* The timer.                                                              *)
LEMMA VerifyUpgrade ==
    ASSUME TypeOK, FlightInv, UNCHANGED guiVars, Verify
    PROVE  FlightInv'
<1>1. /\ pc = "idle" /\ pc' \in {"idle", "selfpost"} /\ UNCHANGED <<wq, txs>>
      /\ timers > 0 /\ timers' = timers - 1
  BY DEF Verify
<1>2. timers = 1 /\ timers' = 0
  BY <1>1 DEF FlightInv, Once
<1>3. Tokens = {} /\ txs = {} /\ Ends = {} /\ Upgrading
  BY <1>1, <1>2 DEF FlightInv, OnePlace, Indicated
<1>4. \A i \in DOMAIN wq : wq[i].e \notin Signals
  <2>1. Replies = {} BY <1>3 DEF Replies, Tokens
  <2> QED BY <1>3, <2>1, NoSignals
<1>5. Tokens' = {} /\ Dwindles /\ txs' = {} /\ Upgrading'
  BY <1>1, <1>3 DEF Tokens, Dwindles, Upgrading, guiVars
<1>6. pc' \notin {"check", "autoremove"} /\ pc' \notin UpgradeOps
  BY <1>1 DEF UpgradeOps
<1>7. \E ns \in Seq(Notice) : gq' = gq \o ns /\ Closes(ns)
  <2>1. \A b : Answer("inplace", b) = <<Told("finished", b)>> BY DEF Answer
  <2>2. \/ \E b \in BOOLEAN : gq' = gq \o <<Told("finished", b)>>
        \/ gq' = gq \o (<<Note("stageCleared")>> \o <<Told("finished", TRUE)>>)
    BY <2>1 DEF Verify, Emit
  <2>3. LET ns == <<Note("stageCleared")>> \o <<Told("finished", TRUE)>>
        IN  ns \in Seq(Notice) /\ Closes(ns)
    BY IdleNotices, ClosingNotices, ClosesLast
  <2> QED BY <2>2, <2>3, ClosingNotices
<1>8. PICK ns \in Seq(Notice) : gq' = gq \o ns /\ Closes(ns) BY <1>7
<1> QED BY <1>2, <1>3, <1>4, <1>5, <1>6, <1>8, EndStep

-----------------------------------------------------------------------------
(* The user, the GUI and the daemon.                                       *)

(* A request for an upgrade is made when there is none.                    *)
LEMMA UserFlight ==
    ASSUME TypeOK, FlightInv, UserOps \subseteq FlightOps, UserNext
    PROVE  FlightInv'
<1> USE DEF workerVars, daemonVars
<1>1. /\ UNCHANGED <<pc, timers, txs, gq>>
      /\ gq' = gq \o <<>> /\ <<>> \in Seq(Notice) /\ Idles(<<>>)
      /\ txs' = {} <=> txs = {}
      /\ \A t, u \in txs' : t = u
      /\ \A t \in txs' : t.kind \in UpgradeOps
      /\ pc' \notin {"check", "autoremove"}
  BY TellNothing, IdleNotices DEF UserNext, FlightInv, FlightKinds, Once
<1>2. ASSUME NEW x, Post(x), x.e \notin UpgradeOps \cup {"reply"} \cup Signals,
             Upgrading' <=> Upgrading
      PROVE  FlightInv'
  <2>1. wq' = Append(wq, x) /\ x.e \in FlightOps
    BY <1>2 DEF Post
  <2>2. Passes(x) BY <1>2, <2>1 DEF Passes, FlightOps
  <2>3. Quiet BY <2>1, <2>2 DEF Quiet
  <2> QED BY <1>1, <1>2, <2>3, QuietStep
<1>3. ASSUME NEW op \in UpgradeOps, StartOperation(op, "downloading")
      PROVE  FlightInv'
  <2> DEFINE x == [e |-> op]
  <2>1. ~Upgrading /\ Upgrading'
    BY <1>3 DEF StartOperation, isBusy, Upgrading
  <2>2. Tokens = {} /\ pc \notin UpgradeOps /\ txs = {} /\ timers = 0 /\ Ends = {}
    BY <2>1 DEF FlightInv, Indicated
  <2>3. wq' = Append(wq, x) /\ x.e = op
    BY <1>3 DEF StartOperation, Post
  <2> HIDE DEF x
  <2>4. /\ Tokens' = {Len(wq) + 1}
        /\ \A i \in DOMAIN wq' : \/ i \in DOMAIN wq /\ wq'[i] = wq[i]
                                 \/ wq'[i] = x
    BY <2>2, <2>3, PostToken
  <2>5. Ends' = {} BY <1>1, <2>2 DEF Ends
  <2>6. SignalsFirst'
    <3>1. Replies = {} BY <2>2 DEF Tokens, Replies
    <3>2. \A i \in DOMAIN wq : wq[i].e \notin Signals
      BY <2>2, <3>1, NoSignals
    <3> QED BY <2>3, <2>4, <3>2 DEF SignalsFirst, Signals, UpgradeOps
  <2>7. AppliesFirst' BY <1>1, <2>1 DEF FlightInv, AppliesFirst
  <2>8. FlightKinds'
    BY <1>1, <2>3, <2>4 DEF FlightInv, FlightKinds, UpgradeOps
  <2> QED
    BY <1>1, <2>1, <2>2, <2>4, <2>5, <2>6, <2>7, <2>8
    DEF FlightInv, OnePlace, Once, Indicated
<1>4. CASE CheckForUpdates
  <2>1. Post([e |-> "check"]) /\ (Upgrading' <=> Upgrading)
    BY <1>4 DEF CheckForUpdates, StartOperation, isBusy, Upgrading
  <2>2. [e |-> "check"].e \notin UpgradeOps \cup {"reply"} \cup Signals
    BY DEF UpgradeOps, Signals
  <2> QED BY <1>2, <2>1, <2>2
<1>5. CASE CleanAll \/ Autoremove
  <2>1. \E op \in {"clean", "autoremove"} : Post([e |-> op])
    BY <1>5 DEF CleanAll, Autoremove, StartOperation
  <2> QED BY <2>1 DEF Post, FlightOps
<1>6. CASE StageOfflineUpgrade \/ StartInPlaceUpgrade
  BY <1>3, <1>6 DEF StageOfflineUpgrade, StartInPlaceUpgrade, UpgradeOps
<1>7. CASE FetchChangelog \/ CancelClicked \/ RebootClicked \/ DiscardClicked
  <2>1. PICK op \in {"changelog", "cancel", "reboot", "discard"} : PostAnyway(op)
    BY <1>7 DEF FetchChangelog, CancelClicked, RebootClicked, DiscardClicked
  <2>2. Post([e |-> op]) /\ (Upgrading' <=> Upgrading)
    BY <2>1 DEF PostAnyway, Upgrading
  <2>3. [e |-> op].e \notin UpgradeOps \cup {"reply"} \cup Signals
    BY DEF UpgradeOps, Signals
  <2> QED BY <1>2, <2>2, <2>3
<1>8. CASE ConfirmClicked
  <2>1. /\ Post([e |-> "confirm", key |-> prompt]) /\ (Upgrading' <=> Upgrading)
    BY <1>8 DEF ConfirmClicked, Upgrading
  <2>2. [e |-> "confirm", key |-> prompt].e \notin UpgradeOps \cup {"reply"} \cup Signals
    BY DEF UpgradeOps, Signals
  <2> QED BY <1>2, <2>1, <2>2
<1> QED BY <1>4, <1>5, <1>6, <1>7, <1>8 DEF UserNext

(* Taking a notice.                                                        *)
LEMMA TailEnds ==
    ASSUME TypeOK, gq # <<>>, gq' = Tail(gq)
    PROVE  /\ 1 \in DOMAIN gq /\ gq[1] = Head(gq)
           /\ \A i \in DOMAIN gq' :
                 i \in Nat /\ 1 <= i /\ i + 1 \in DOMAIN gq /\ gq'[i] = gq[i + 1]
           /\ \A i \in Ends' : i + 1 \in Ends
           /\ \A i \in Ends : i # 1 => i - 1 \in Ends'
<1>1. gq \in Seq(Notice) BY DEF TypeOK
<1>2. /\ 1 \in DOMAIN gq /\ gq[1] = Head(gq)
      /\ \A i \in DOMAIN gq' :
            i \in Nat /\ 1 <= i /\ i + 1 \in DOMAIN gq /\ gq'[i] = gq[i + 1]
      /\ \A i \in DOMAIN gq : i # 1 => i - 1 \in DOMAIN gq' /\ gq'[i - 1] = gq[i]
  BY <1>1, TailAt
<1> QED BY <1>2 DEF Ends

(* The slots: the indicator is changed by the start and the end only.      *)
LEMMA GuiFlight ==
    ASSUME TypeOK, FlightInv, GuiNext
    PROVE  FlightInv'
<1>1. /\ gq' = Tail(gq) /\ gq # <<>>
      /\ UNCHANGED <<wq, pc, timers, txs>>
  BY DEF GuiNext, Receive, workerVars, daemonVars, HandleCheckStarted,
         HandleCheckFinished, HandleProgressStageUpdated, HandleInPlaceApplyStarted,
         HandleRepoKeyImportRequested, HandleOperationFinished,
         HandleCleanFinished, HandleAutoremoveFinished,
         HandleOfflineStagedReady, HandleChangelogFetched
<1>2. /\ 1 \in DOMAIN gq /\ gq[1] = Head(gq)
      /\ \A i \in DOMAIN gq' :
            i \in Nat /\ 1 <= i /\ i + 1 \in DOMAIN gq /\ gq'[i] = gq[i + 1]
      /\ \A i \in Ends' : i + 1 \in Ends
      /\ \A i \in Ends : i # 1 => i - 1 \in Ends'
  BY <1>1, TailEnds
<1>3. /\ FlightKinds' /\ SignalsFirst' /\ Tokens' = Tokens
      /\ \A i, j \in Ends' : i = j
  <2>1. \A i \in Ends' : i \in Nat BY <1>2 DEF Ends
  <2>2. \A i, j \in Ends' : i = j BY <1>2, <2>1 DEF FlightInv, Once
  <2> QED
    BY <1>1, <1>2, <2>2
    DEF FlightInv, FlightKinds, SignalsFirst, Tokens, Replies
<1>4. CASE Head(gq).n = "finished"
  <2>1. HandleOperationFinished
    BY <1>4 DEF GuiNext, Receive, HandleCheckStarted,
         HandleCheckFinished, HandleProgressStageUpdated, HandleInPlaceApplyStarted,
         HandleRepoKeyImportRequested, HandleCleanFinished, HandleAutoremoveFinished,
         HandleOfflineStagedReady, HandleChangelogFetched
  <2>2. ~Upgrading' BY <2>1 DEF HandleOperationFinished, Upgrading
  <2>3. 1 \in Ends BY <1>2, <1>4 DEF Ends
  <2>4. Ends' = {}
    <3>1. \A i \in Ends' : i \in Nat /\ 1 <= i BY <1>2 DEF Ends
    <3> QED BY <1>2, <2>3, <3>1 DEF FlightInv, Once
  <2>5. Tokens = {} /\ pc \notin UpgradeOps /\ txs = {} /\ timers = 0
    BY <2>3 DEF FlightInv, OnePlace
  <2>6. AppliesFirst'
    <3> SUFFICES ASSUME NEW i \in DOMAIN gq', gq'[i].n = "applyStarted" PROVE FALSE
      BY DEF AppliesFirst
    <3>1. i + 1 < 1 BY <1>2, <2>3 DEF FlightInv, AppliesFirst
    <3> QED BY <1>2, <3>1
  <2> QED
    BY <1>1, <1>3, <2>2, <2>4, <2>5, <2>6
    DEF FlightInv, OnePlace, Once, Indicated
<1>5. CASE Head(gq).n # "finished"
  <2>1. Ends' = {} <=> Ends = {}
    <3>1. 1 \notin Ends BY <1>2, <1>5 DEF Ends
    <3> QED BY <1>2, <3>1
  <2>2. Upgrading' <=> Upgrading
    <3>1. CASE HandleInPlaceApplyStarted
      <4>1. Upgrading
        BY <1>2, <3>1
        DEF HandleInPlaceApplyStarted, Receive, FlightInv, AppliesFirst
      <4> QED BY <3>1, <4>1 DEF HandleInPlaceApplyStarted, Upgrading
    <3>2. CASE HandleOperationFinished \/ HandleCleanFinished \/ HandleAutoremoveFinished
      BY <1>2, <1>5, <3>2 DEF HandleOperationFinished, HandleCleanFinished,
         HandleAutoremoveFinished, Receive, FlightInv, FlightKinds
    <3>3. CASE HandleCheckStarted \/ HandleCheckFinished
      BY <3>3 DEF HandleCheckStarted, HandleCheckFinished, Upgrading
    <3>4. CASE UNCHANGED busy BY <3>4 DEF Upgrading
    <3> QED
      BY <3>1, <3>2, <3>3, <3>4
      DEF GuiNext, HandleProgressStageUpdated, HandleRepoKeyImportRequested,
          HandleOfflineStagedReady, HandleChangelogFetched
  <2>3. AppliesFirst'
    <3> SUFFICES ASSUME NEW i \in DOMAIN gq', gq'[i].n = "applyStarted"
                 PROVE  Upgrading' /\ \A j \in Ends' : i < j
      BY DEF AppliesFirst
    <3>1. Upgrading /\ \A j \in Ends : i + 1 < j
      BY <1>2 DEF FlightInv, AppliesFirst
    <3>2. \A j \in Ends' : j \in Nat /\ i \in Nat /\ i + 1 < j + 1
      BY <1>2, <3>1 DEF Ends
    <3> QED BY <2>2, <3>1, <3>2
  <2> QED
    BY <1>1, <1>3, <2>1, <2>2, <2>3 DEF FlightInv, OnePlace, Once, Indicated
<1> QED BY <1>4, <1>5

(* The daemon's reply is the one thing of its that moves the upgrade.      *)
LEMMA DaemonFlight ==
    ASSUME TypeOK, FlightInv, DaemonStep
    PROVE  FlightInv'
<1>1. /\ UNCHANGED <<pc, timers, gq>> /\ (Upgrading' <=> Upgrading)
      /\ gq' = gq \o <<>> /\ <<>> \in Seq(Notice) /\ Idles(<<>>)
      /\ pc' \notin {"check", "autoremove"}
  BY TellNothing, IdleNotices
  DEF DaemonStep, DaemonNext, workerVars, guiVars, Upgrading, FlightInv, FlightKinds
<1>2. ASSUME NEW t \in txs, NEW u, u.kind = t.kind, txs' = (txs \ {t}) \cup {u}
      PROVE  /\ txs' = {} <=> txs = {}
             /\ \A v, w \in txs' : v = w
             /\ \A v \in txs' : v.kind \in UpgradeOps
  BY <1>2 DEF FlightInv, FlightKinds, Once
<1>3. \A t \in txs : \A p, k : /\ [t EXCEPT !.phase = p].kind = t.kind
                                /\ [t EXCEPT !.key = k].kind = t.kind
  BY DEF TypeOK, Transaction
<1>4. ASSUME NEW t \in txs, NEW x, Hear(t, x),
             x.e \in Signals \cup {"keyRequest"}
      PROVE  Quiet
  <2>1. Passes(x) BY <1>4 DEF Passes, UpgradeOps, Signals
  <2> QED BY <1>4, <2>1 DEF Quiet, Hear
<1>5. ASSUME NEW t \in txs, DaemonDownloads(t) \/ DaemonBegins(t) \/ DaemonCompletes(t)
      PROVE  FlightInv'
  <2>1. PICK p : \E n \in Signals : Advance(t, p) /\ Hear(t, [e |-> n])
    BY <1>5 DEF DaemonDownloads, DaemonBegins, DaemonCompletes, Signals
  <2>2. Quiet BY <1>4, <2>1
  <2>3. /\ txs' = {} <=> txs = {}
        /\ \A v, w \in txs' : v = w
        /\ \A v \in txs' : v.kind \in UpgradeOps
    BY <1>2, <1>3, <2>1 DEF Advance
  <2> QED BY <1>1, <2>2, <2>3, QuietStep
<1>6. ASSUME NEW t \in txs, DaemonAsksKey(t) PROVE FlightInv'
  <2>1. PICK k : /\ txs' = (txs \ {t}) \cup {[t EXCEPT !.key = k]}
                 /\ Hear(t, [e |-> "keyRequest", key |-> k])
    BY <1>6 DEF DaemonAsksKey
  <2>2. Quiet BY <1>4, <2>1
  <2>3. /\ txs' = {} <=> txs = {}
        /\ \A v, w \in txs' : v = w
        /\ \A v \in txs' : v.kind \in UpgradeOps
    BY <1>2, <1>3, <2>1
  <2> QED BY <1>1, <2>2, <2>3, QuietStep
<1>7. CASE DaemonAsksEarly
  <2>1. PICK k : wq' = Append(wq, [e |-> "keyRequest", key |-> k])
    BY <1>7 DEF DaemonAsksEarly
  <2>2. Passes([e |-> "keyRequest", key |-> k])
    BY DEF Passes, UpgradeOps, Signals
  <2>3. Quiet BY <2>1, <2>2 DEF Quiet
  <2>4. /\ txs' = {} <=> txs = {}
        /\ \A v, w \in txs' : v = w
        /\ \A v \in txs' : v.kind \in UpgradeOps
    BY <1>7 DEF DaemonAsksEarly, FlightInv, FlightKinds, Once
  <2> QED BY <1>1, <2>3, <2>4, QuietStep
<1>8. ASSUME NEW t \in txs, DaemonReplies(t) PROVE FlightInv'
  <2>1. PICK res : wq' = Append(wq, [e |-> "reply", kind |-> t.kind,
                                     sess |-> t.sess, res |-> res])
    BY <1>8 DEF DaemonReplies
  <2> DEFINE x == [e |-> "reply", kind |-> t.kind, sess |-> t.sess, res |-> res]
  <2>2. /\ wq' = Append(wq, x) /\ x.e = "reply" /\ x.kind \in UpgradeOps
    BY <2>1 DEF FlightInv, FlightKinds
  <2> HIDE DEF x
  <2>3. Tokens = {} /\ pc \notin UpgradeOps /\ timers = 0 /\ Ends = {} /\ Upgrading
    BY DEF FlightInv, OnePlace, Indicated
  <2>4. txs' = {} BY <1>8 DEF DaemonReplies, FlightInv, Once
  <2>5. /\ Tokens' = {Len(wq) + 1} /\ Replies' = {Len(wq) + 1}
        /\ \A i \in DOMAIN wq' :
              \/ i \in DOMAIN wq /\ wq'[i] = wq[i] /\ i < Len(wq) + 1
              \/ i = Len(wq) + 1 /\ wq'[i] = x
    BY <2>2, <2>3, PostToken
  <2>6. SignalsFirst' BY <2>2, <2>5 DEF SignalsFirst, Signals
  <2>7. Ends' = {} /\ AppliesFirst'
    BY <1>1, <2>3 DEF Ends, AppliesFirst, FlightInv
  <2>8. FlightKinds'
    BY <1>1, <2>2, <2>4, <2>5 DEF FlightInv, FlightKinds
  <2> QED
    BY <1>1, <2>3, <2>4, <2>5, <2>6, <2>7, <2>8
    DEF FlightInv, OnePlace, Once, Indicated
<1> QED BY <1>5, <1>6, <1>7, <1>8 DEF DaemonStep, DaemonNext

(* The handlers of the operations that are not asked for.                  *)
LEMMA OtherOperations ==
    ASSUME TypeOK, FlightInv, AutoremoveReply \/ RebootAndApply \/ CleanCache
    PROVE  FALSE
<1>1. /\ 1 \in DOMAIN wq /\ wq[1] = Head(wq)
      /\ \/ Head(wq).e \in {"clean", "reboot"}
         \/ Head(wq).e = "reply" /\ Head(wq).kind = "autoremove"
  BY TakeType, TailAt
  DEF AutoremoveReply, TakeReply, RebootAndApply, CleanCache, TypeOK
<1> QED BY <1>1 DEF FlightInv, FlightKinds, UpgradeOps

(* Every step preserves the invariant.                                     *)
LEMMA FlightStep ==
    ASSUME UserOps \subseteq FlightOps, TypeOK, FlightInv, [Next]_vars
    PROVE  FlightInv'
<1>1. CASE UserNext BY <1>1, UserFlight
<1>2. CASE GuiNext BY <1>2, GuiFlight
<1>3. CASE DaemonStep BY <1>3, DaemonFlight
<1>4. CASE WorkerStep
  <2>1. CASE HandleSignal
    BY <1>4, <2>1, BeginWorker, QuietWorker DEF WorkerStep
  <2> QED
    BY <1>4, <2>1, QuietWorker, BeginUpgrade, SendUpgrade, ReplyUpgrade,
       VerifyUpgrade, OtherOperations
    DEF WorkerStep, WorkerNext
<1>5. CASE UNCHANGED vars
  BY <1>5
  DEF vars, wdVars, workerVars, daemonVars, guiVars, FlightInv, FlightKinds,
      OnePlace, Once, Indicated, SignalsFirst, AppliesFirst, Tokens, Replies,
      Ends, Upgrading
<1> QED BY <1>1, <1>2, <1>3, <1>4, <1>5 DEF Next

(* Initially no upgrade is anywhere.                                       *)
LEMMA FlightInit == Init => FlightInv
BY DEF Init, WorkerInit, FlightInv, FlightKinds, OnePlace, Once, Indicated,
       SignalsFirst, AppliesFirst, Tokens, Replies, Ends, Upgrading, UpgradeOps

(* The invariant holds in every reachable state.                           *)
LEMMA FlightInvariance ==
    ASSUME UserOps \subseteq FlightOps
    PROVE  Spec => []FlightInv
<1>1. Init => FlightInv BY FlightInit
<1>2. TypeOK /\ FlightInv /\ [Next]_vars => FlightInv' BY FlightStep
<1> QED BY <1>1, <1>2, TypeCorrect, PTL DEF Spec

-----------------------------------------------------------------------------
(* The refinement.  Where the upgrade is says how far the flight has come. *)
Requested == \E i \in DOMAIN wq : wq[i].e \in UpgradeOps
Running == pc \in UpgradeOps \/ txs # {} \/ Replies # {} \/ timers # 0

FlightShows ==
    /\ Requested => UpgradeFlight = "requested"
    /\ Running => UpgradeFlight = "running"
    /\ Ends # {} => UpgradeFlight = "answered"
    /\ ~Upgrading => UpgradeFlight = "idle"
    /\ Upgrading <=> (Requested \/ Running \/ Ends # {})

(* The state function is what the places say.                              *)
LEMMA FlightIs == TypeOK /\ FlightInv => FlightShows
<1> SUFFICES ASSUME TypeOK, FlightInv PROVE FlightShows
  OBVIOUS
<1>1. Replying # {} <=> Replies # {} BY DEF Replying, Replies
<1>2. timers > 0 <=> timers # 0 BY DEF TypeOK
<1>3. /\ Requested => Tokens # {} /\ Replies = {}
      /\ Replies # {} => Tokens # {}
      /\ Tokens # {} => Requested \/ Replies # {}
  <2>1. \A i, j \in Tokens : i = j BY DEF FlightInv, Once
  <2>2. "reply" \notin UpgradeOps BY DEF UpgradeOps
  <2> QED BY <2>1, <2>2 DEF Requested, Tokens, Replies
<1>4. /\ Requested => ~Running /\ Ends = {}
      /\ Running => ~Requested /\ Ends = {}
      /\ Upgrading <=> (Requested \/ Running \/ Ends # {})
  BY <1>3 DEF Running, FlightInv, OnePlace, Indicated
<1>5. Ends # {} <=> \E i \in DOMAIN gq : gq[i].n = "finished" BY DEF Ends
<1>6. UpgradeFlight = IF Requested THEN "requested"
                      ELSE IF Running THEN "running"
                      ELSE IF Ends # {} THEN "answered" ELSE "idle"
  BY <1>1, <1>2, <1>4, <1>5 DEF UpgradeFlight, Requested, Running
<1> QED BY <1>4, <1>6 DEF FlightShows

(* Requests enter the worker's queue by a click on an idle panel only.     *)
LEMMA PostsNoRequest ==
    ASSUME TypeOK, NEW x, wq' = Append(wq, x), x.e \notin UpgradeOps
    PROVE  Requested' => Requested
<1>1. wq \in Seq(Event) BY DEF TypeOK
<1> QED BY <1>1, AppendAt DEF Requested

(* Taking an event adds neither a request nor a reply.                     *)
LEMMA TakesNoRequest ==
    ASSUME TypeOK, NEW e, Take(e)
    PROVE  /\ Requested' => Requested
           /\ Replies' # {} => Replies # {}
           /\ e \in UpgradeOps => Requested
           /\ e = "reply" => Replies # {}
<1>1. wq \in Seq(Event) /\ wq # <<>> /\ wq' = Tail(wq) /\ Head(wq).e = e
  BY TakeType DEF TypeOK
<1>2. /\ 1 \in DOMAIN wq /\ wq[1].e = e
      /\ \A i \in DOMAIN wq' : i + 1 \in DOMAIN wq /\ wq'[i] = wq[i + 1]
  BY <1>1, TailAt
<1> QED BY <1>2 DEF Requested, Replies

(* What starts to run was requested, and what is requested anew, or shown  *)
(* anew, had not been shown.                                               *)
LEMMA WorkerMoves ==
    ASSUME TypeOK, FlightInv, WorkerStep
    PROVE  /\ Running' => Running \/ Requested
           /\ Requested' => Requested
           /\ Upgrading' <=> Upgrading
<1> USE DEF Running, guiVars, workerVars, daemonVars
<1>1. Upgrading' <=> Upgrading BY DEF WorkerStep, Upgrading
<1>2. UNCHANGED wq => /\ Requested' => Requested
                      /\ Replies' = Replies
  BY DEF Requested, Replies
<1>3. CASE CheckBegin \/ CheckEnd \/ ChangelogBegin \/ ChangelogEnd
  <2>1. /\ Replies' # {} => Replies # {}
        /\ Requested' => Requested
    BY <1>2, <1>3, TakesNoRequest DEF CheckBegin, CheckEnd, ChangelogBegin, ChangelogEnd
  <2>2. pc' \notin UpgradeOps \/ pc' = pc
    BY <1>3 DEF CheckBegin, CheckEnd, ChangelogBegin, ChangelogEnd, UpgradeOps
  <2>3. UNCHANGED <<txs, timers>>
    BY <1>3 DEF CheckBegin, CheckEnd, ChangelogBegin, ChangelogEnd
  <2> QED BY <1>1, <2>1, <2>2, <2>3
<1>4. ASSUME NEW kind \in TxKinds, TransactionBegin(kind)
      PROVE  (Running' => Running \/ Requested) /\ (Requested' => Requested)
  <2>1. 1 \in DOMAIN wq /\ wq[1].e = kind
    BY <1>4, TakeType, TailAt DEF TransactionBegin, TypeOK
  <2>2. Requested
    BY <2>1 DEF TxKinds, UpgradeOps, FlightInv, FlightKinds, Requested
  <2> QED BY <2>2
<1>5. ASSUME NEW kind \in TxKinds, TransactionSend(kind)
      PROVE  (Running' => Running \/ Requested) /\ (Requested' => Requested)
  <2>1. pc \in UpgradeOps /\ UNCHANGED wq
    BY <1>5 DEF TransactionSend, TxKinds, UpgradeOps, FlightInv, FlightKinds
  <2> QED BY <1>2, <2>1
<1>6. CASE StageReply \/ InPlaceReply
  <2>1. Take("reply") BY <1>6 DEF StageReply, InPlaceReply, TakeReply
  <2> QED BY <1>1, <2>1, TakesNoRequest
<1>7. CASE Verify
  <2>1. UNCHANGED wq /\ timers # 0 BY <1>7 DEF Verify, TypeOK
  <2> QED BY <1>1, <1>2, <2>1
<1>8. CASE SelfPost
  <2>1. /\ wq' = Append(wq, [e |-> "check"]) /\ pc' \notin UpgradeOps
        /\ UNCHANGED <<txs, timers>>
    BY <1>8 DEF SelfPost, UpgradeOps
  <2>2. [e |-> "check"].e \notin UpgradeOps \cup {"reply"} BY DEF UpgradeOps
  <2>3. Requested' => Requested BY <2>1, <2>2, PostsNoRequest
  <2>4. Replies' = Replies BY <2>1, <2>2, PostOther
  <2> QED BY <1>1, <2>1, <2>3, <2>4
<1>9. CASE CancelOperation \/ CleanOffline \/ ConfirmRepoKey \/ HandleSignal
           \/ HandleKeyRequest
  <2>1. \E e : Take(e)
    BY <1>9 DEF CancelOperation, CleanOffline, ConfirmRepoKey, HandleSignal,
                HandleKeyRequest
  <2>2. /\ Replies' # {} => Replies # {}
        /\ Requested' => Requested
    BY <2>1, TakesNoRequest
  <2>3. UNCHANGED <<pc, timers>> /\ (txs' # {} => txs # {})
    BY <1>9 DEF CancelOperation, CleanOffline, ConfirmRepoKey, HandleSignal,
                HandleKeyRequest
  <2> QED BY <1>1, <2>2, <2>3
<1> QED
  BY <1>1, <1>3, <1>4, <1>5, <1>6, <1>7, <1>8, <1>9, OtherOperations
  DEF WorkerStep, WorkerNext

(* The daemon moves nothing but what it works on.                          *)
LEMMA DaemonMoves ==
    ASSUME TypeOK, DaemonStep
    PROVE  /\ Running' => Running
           /\ Requested' => Requested
           /\ Upgrading' <=> Upgrading
<1> USE DEF guiVars, workerVars
<1>1. (Upgrading' <=> Upgrading) /\ UNCHANGED <<pc, timers>> /\ (txs' # {} => txs # {})
  BY DEF DaemonStep, DaemonNext, Upgrading, DaemonAsksEarly
<1>2. \/ UNCHANGED wq
      \/ \E x : /\ wq' = Append(wq, x) /\ x.e \notin UpgradeOps
                /\ x.e = "reply" => txs # {}
  <2>1. ASSUME NEW t, NEW x, Hear(t, x), x.e \in Signals \cup {"keyRequest"} PROVE <1>2!:
    BY <2>1 DEF Hear, UpgradeOps, Signals
  <2>2. ASSUME NEW t \in txs, DaemonReplies(t) PROVE <1>2!:
    <3>1. PICK res : wq' = Append(wq, [e |-> "reply", kind |-> t.kind,
                                       sess |-> t.sess, res |-> res])
      BY <2>2 DEF DaemonReplies
    <3> DEFINE x == [e |-> "reply", kind |-> t.kind, sess |-> t.sess, res |-> res]
    <3>2. wq' = Append(wq, x) /\ x.e = "reply" BY <3>1
    <3> HIDE DEF x
    <3> QED BY <3>2 DEF UpgradeOps
  <2>3. ASSUME NEW t \in txs, DaemonDownloads(t) \/ DaemonBegins(t) \/ DaemonCompletes(t)
        PROVE  <1>2!:
    <3>1. PICK n \in Signals : Hear(t, [e |-> n])
      BY <2>3 DEF DaemonDownloads, DaemonBegins, DaemonCompletes, Signals
    <3> QED BY <2>1, <3>1
  <2>4. ASSUME NEW t \in txs, DaemonAsksKey(t) PROVE <1>2!:
    <3>1. PICK k : Hear(t, [e |-> "keyRequest", key |-> k])
      BY <2>4 DEF DaemonAsksKey
    <3> QED BY <2>1, <3>1
  <2>5. CASE DaemonAsksEarly
    <3>1. PICK k : wq' = Append(wq, [e |-> "keyRequest", key |-> k])
      BY <2>5 DEF DaemonAsksEarly
    <3> QED BY <3>1 DEF UpgradeOps
  <2> QED BY <2>2, <2>3, <2>4, <2>5 DEF DaemonStep, DaemonNext
<1>3. CASE UNCHANGED wq BY <1>1, <1>3 DEF Requested, Running, Replies
<1>4. ASSUME NEW x, wq' = Append(wq, x), x.e \notin UpgradeOps,
             x.e = "reply" => txs # {}
      PROVE  (Requested' => Requested) /\ (Running' => Running)
  <2>1. Requested' => Requested BY <1>4, PostsNoRequest
  <2>2. x.e # "reply" => Replies' = Replies BY <1>4, PostOther
  <2> QED BY <1>1, <1>4, <2>1, <2>2 DEF Running
<1>5. CASE ~UNCHANGED wq
  <2>1. PICK x : /\ wq' = Append(wq, x) /\ x.e \notin UpgradeOps
                 /\ x.e = "reply" => txs # {}
    BY <1>2, <1>5
  <2> QED BY <1>1, <1>4, <2>1
<1> QED BY <1>1, <1>3, <1>5

(* The user requests an upgrade when none is shown.                        *)
LEMMA UserMoves ==
    ASSUME TypeOK, UserNext
    PROVE  /\ Running' => Running
           /\ Upgrading => (Requested' => Requested)
           /\ Upgrading => Upgrading'
           /\ Upgrading' => Upgrading \/ Requested'
<1>1. UNCHANGED <<pc, timers, txs>> BY DEF UserNext, workerVars, daemonVars
<1>2. wq \in Seq(Event) BY DEF TypeOK
<1> DEFINE Moves == /\ Running' => Running
                    /\ Upgrading => (Requested' => Requested)
                    /\ Upgrading => Upgrading'
                    /\ Upgrading' => Upgrading \/ Requested'
<1>3. ASSUME NEW x, wq' = Append(wq, x), x.e \notin UpgradeOps \cup {"reply"},
             Upgrading' <=> Upgrading
      PROVE  Moves
  <2>1. Replies' = Replies BY <1>3, PostOther
  <2>2. Requested' => Requested BY <1>3, PostsNoRequest
  <2> QED BY <1>1, <1>3, <2>1, <2>2 DEF Running
<1>4. ASSUME NEW x, wq' = Append(wq, x), x.e \in UpgradeOps, ~Upgrading
      PROVE  Moves
  <2>1. Replies' = Replies BY <1>2, <1>4, AppendAt DEF Replies, UpgradeOps
  <2>2. Requested' BY <1>2, <1>4, AppendAt DEF Requested
  <2> QED BY <1>1, <1>4, <2>1, <2>2 DEF Running
<1> HIDE DEF Moves
<1>5. ASSUME NEW op \in {"check", "clean", "autoremove"}, NEW f, f # "downloading",
             f # "applying", StartOperation(op, f)
      PROVE  Moves
  <2>1. wq' = Append(wq, [e |-> op]) /\ (Upgrading' <=> Upgrading)
    BY <1>5 DEF StartOperation, isBusy, Post, Upgrading
  <2>2. [e |-> op].e \notin UpgradeOps \cup {"reply"} BY DEF UpgradeOps
  <2> QED BY <1>3, <2>1, <2>2
<1>6. ASSUME NEW op \in UpgradeOps, NEW f, StartOperation(op, f) PROVE Moves
  <2>1. wq' = Append(wq, [e |-> op]) /\ ~Upgrading
    BY <1>6 DEF StartOperation, isBusy, Post, Upgrading
  <2>2. [e |-> op].e \in UpgradeOps OBVIOUS
  <2> QED BY <1>4, <2>1, <2>2
<1>7. ASSUME NEW op \in {"changelog", "cancel", "reboot", "discard"}, PostAnyway(op)
      PROVE  Moves
  <2>1. wq' = Append(wq, [e |-> op]) /\ (Upgrading' <=> Upgrading)
    BY <1>7 DEF PostAnyway, Post, Upgrading
  <2>2. [e |-> op].e \notin UpgradeOps \cup {"reply"} BY DEF UpgradeOps
  <2> QED BY <1>3, <2>1, <2>2
<1>8. ASSUME ConfirmClicked PROVE Moves
  <2> DEFINE x == [e |-> "confirm", key |-> prompt]
  <2>1. wq' = Append(wq, x) /\ (Upgrading' <=> Upgrading)
    BY <1>8 DEF ConfirmClicked, Post, Upgrading
  <2>2. x.e \notin UpgradeOps \cup {"reply"} BY DEF UpgradeOps
  <2> HIDE DEF x
  <2> QED BY <1>3, <2>1, <2>2
<1>9. Moves
  <2>1. CASE CheckForUpdates \/ CleanAll \/ Autoremove
    BY <1>5, <2>1 DEF CheckForUpdates, CleanAll, Autoremove
  <2>2. CASE StageOfflineUpgrade \/ StartInPlaceUpgrade
    BY <1>6, <2>2 DEF StageOfflineUpgrade, StartInPlaceUpgrade, UpgradeOps
  <2>3. CASE FetchChangelog \/ CancelClicked \/ RebootClicked \/ DiscardClicked
    BY <1>7, <2>3 DEF FetchChangelog, CancelClicked, RebootClicked, DiscardClicked
  <2> QED BY <1>8, <2>1, <2>2, <2>3 DEF UserNext
<1> QED BY <1>9 DEF Moves

(* The indicator falls with the end of the upgrade.                        *)
LEMMA GuiMoves ==
    ASSUME TypeOK, FlightInv, GuiNext
    PROVE  /\ Running' <=> Running
           /\ Requested' <=> Requested
           /\ Upgrading' => Upgrading
           /\ Upgrading /\ ~Upgrading' => Ends # {}
<1>1. UNCHANGED <<wq, pc, timers, txs>> BY DEF GuiNext, workerVars, daemonVars
<1>2. (Running' <=> Running) /\ (Requested' <=> Requested)
  BY <1>1 DEF Running, Requested, Replies
<1>3. gq # <<>> /\ 1 \in DOMAIN gq /\ gq[1] = Head(gq)
  <2>1. gq # <<>>
    BY DEF GuiNext, Receive, HandleCheckStarted,
         HandleCheckFinished, HandleProgressStageUpdated, HandleInPlaceApplyStarted,
         HandleRepoKeyImportRequested, HandleOperationFinished,
         HandleCleanFinished, HandleAutoremoveFinished,
         HandleOfflineStagedReady, HandleChangelogFetched
  <2> QED BY <2>1, TailAt DEF TypeOK
<1>4. CASE HandleInPlaceApplyStarted
  <2>1. Upgrading
    BY <1>3, <1>4 DEF HandleInPlaceApplyStarted, Receive, FlightInv, AppliesFirst
  <2> QED BY <1>2, <1>4, <2>1 DEF HandleInPlaceApplyStarted, Upgrading
<1>5. CASE HandleOperationFinished
  <2>1. Ends # {} BY <1>3, <1>5 DEF HandleOperationFinished, Receive, Ends
  <2> QED BY <1>2, <1>5, <2>1 DEF HandleOperationFinished, Upgrading
<1>6. CASE HandleCheckStarted \/ HandleCheckFinished \/ HandleCleanFinished
           \/ HandleAutoremoveFinished
  BY <1>2, <1>6
  DEF HandleCheckStarted, HandleCheckFinished, HandleCleanFinished,
      HandleAutoremoveFinished, Upgrading
<1>7. CASE UNCHANGED busy BY <1>2, <1>7 DEF Upgrading
<1> QED
  BY <1>4, <1>5, <1>6, <1>7
  DEF GuiNext, HandleProgressStageUpdated, HandleRepoKeyImportRequested,
      HandleOfflineStagedReady, HandleChangelogFetched

(* Every step of the system is one of the flight, or none.                 *)
LEMMA FlightSimulates ==
    ASSUME TypeOK, TypeOK', FlightInv, FlightInv', [Next]_vars
    PROVE  [Flight!Next]_<<UpgradeFlight, Upgrading>>
<1>1. /\ Running' => Running \/ Requested
      /\ Upgrading => (Requested' => Requested)
      /\ Upgrading /\ ~Upgrading' => Ends # {}
      /\ Upgrading' => Upgrading \/ Requested'
  <2>1. CASE WorkerStep BY <2>1, WorkerMoves
  <2>2. CASE DaemonStep BY <2>2, DaemonMoves
  <2>3. CASE UserNext BY <2>3, UserMoves
  <2>4. CASE GuiNext BY <2>4, GuiMoves
  <2>5. CASE UNCHANGED vars
    BY <2>5 DEF vars, wdVars, workerVars, daemonVars, guiVars, Running, Requested,
                Replies, Upgrading
  <2> QED BY <2>1, <2>2, <2>3, <2>4, <2>5 DEF Next
<1>2. FlightShows BY FlightIs
<1>3. FlightShows' BY FlightIs, PTL
<1> /\ Upgrading \in BOOLEAN /\ Upgrading' \in BOOLEAN
  BY DEF Upgrading
<1> USE <1>2, <1>3 DEF FlightShows
<1>4. CASE ~Upgrading /\ ~Upgrading' BY <1>4
<1>5. CASE ~Upgrading /\ Upgrading'
  <2>1. Requested' BY <1>1, <1>5
  <2> QED BY <1>5, <2>1 DEF Flight!Next, Flight!Request
<1>6. CASE Upgrading /\ ~Upgrading'
  <2>1. Ends # {} BY <1>1, <1>6
  <2> QED BY <1>6, <2>1 DEF Flight!Next, Flight!Deliver
<1>7. CASE Upgrading /\ Upgrading'
  <2>1. CASE Requested'
    BY <1>1, <1>7, <2>1
  <2>2. CASE Running'
    BY <1>1, <1>7, <2>2 DEF Flight!Next, Flight!Start
  <2>3. CASE Ends' # {}
    BY <1>1, <1>7, <2>3 DEF Flight!Next, Flight!Answer
  <2> QED BY <1>7, <2>1, <2>2, <2>3
<1> QED BY <1>4, <1>5, <1>6, <1>7

(* An upgrade, staged or in place, is one flight: it is asked for on an    *)
(* idle panel, worked on and answered once, and the indicator is on from   *)
(* the click until the answer is delivered (isDownloading, isApplying of   *)
(* UpdateManager.h).  This is the safety of OneFlight; that the answer     *)
(* comes needs fairness.                                                   *)
THEOREM UpgradeIsOneFlight ==
    ASSUME UserOps \subseteq FlightOps
    PROVE  Spec => Flight!Init /\ [][Flight!Next]_<<UpgradeFlight, Upgrading>>
<1>1. Init => Flight!Init
  <2> SUFFICES ASSUME Init PROVE UpgradeFlight = "idle" /\ Upgrading = FALSE
    BY DEF Flight!Init
  <2>1. /\ pc = "idle" /\ txs = {} /\ timers = 0 /\ wq = <<>> /\ gq = <<>>
        /\ busy = {}
    BY DEF Init, WorkerInit
  <2>2. DOMAIN wq = {} /\ DOMAIN gq = {} BY <2>1
  <2>3. Replying = {} /\ pc \notin UpgradeOps /\ ~(timers > 0)
    BY <2>1, <2>2 DEF Replying, UpgradeOps
  <2> QED BY <2>1, <2>2, <2>3 DEF UpgradeFlight, Upgrading
<1>2. /\ TypeOK /\ TypeOK' /\ FlightInv /\ FlightInv' /\ [Next]_vars
      => [Flight!Next]_<<UpgradeFlight, Upgrading>>
  BY FlightSimulates
<1> QED BY <1>1, <1>2, TypeCorrect, FlightInvariance, PTL DEF Spec
=============================================================================
