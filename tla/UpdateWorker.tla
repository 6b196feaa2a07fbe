---------------------------- MODULE UpdateWorker ----------------------------
(***************************************************************************)
(* The worker thread of the updatemanager plugin (UpdateWorker.cpp) and    *)
(* the package daemon it drives over D-Bus (dnf5daemon, external).         *)
(*                                                                         *)
(* The worker's event loop takes one event at a time from wq: a request    *)
(* posted by the GUI thread, a D-Bus signal, or the reply of the           *)
(* asynchronous do_transaction call.  Its D-Bus calls block, so while a    *)
(* handler runs nothing else does on this thread; a handler that holds a   *)
(* session across long calls is split into a begin and an end step, with   *)
(* pc naming the handler in progress, because the daemon, the GUI and the  *)
(* user act in between.  What the handlers emit is queued for the GUI      *)
(* thread in gq.  Wording, percentages and byte counts are left out.       *)
(***************************************************************************)
EXTENDS Naturals, Sequences

CONSTANTS
    Sessions,   \* object paths the daemon gives its sessions
    NoSession,  \* the empty m_sessionPath
    Keys,       \* repository keys the daemon may ask about, each at most once
    NoKey,      \* the empty key id
    AsksEarly   \* may the daemon ask while `upgrade` and `resolve` still run?

ASSUME NoSessionAssumption == NoSession \notin Sessions
ASSUME NoKeyAssumption == NoKey \notin Keys
ASSUME AsksEarlyAssumption == AsksEarly \in BOOLEAN

VARIABLES
    pc,         \* the handler in progress, or "idle": in the event loop
    session,    \* m_sessionPath
    connected,  \* m_transactionSignalsConnected
    inhibited,  \* m_inhibitFd holds logind's shutdown/sleep inhibitor
    cancelled,  \* m_cancelled
    workerKey,  \* m_pendingKeyId
    ephemeral,  \* the session fetchChangelog opened for itself
    timers,     \* 1.5 s timers that will run verifyTransactionResult
    wq,         \* events posted to the worker thread
    gq,         \* events posted to the GUI thread
    dsess,      \* sessions open in the daemon
    txs,        \* do_transaction calls the daemon has not answered
    asked,      \* keys the daemon has asked about
    staged,     \* an offline transaction is ready for the next boot
    avail       \* the upgrades there are: none, plain, or one needing a reboot

workerVars == <<pc, session, connected, inhibited, cancelled, workerKey,
                ephemeral, timers>>
daemonVars == <<dsess, txs, asked, staged, avail>>
wdVars == <<workerVars, daemonVars, wq, gq>>

-----------------------------------------------------------------------------
(* What travels in the two queues.                                         *)

TxKinds == {"stage", "inplace", "autoremove"}
Plain == {"check", "changelog", "cancel", "discard", "reboot", "clean"}
         \cup TxKinds
Signals == {"progress", "beforeBegin", "afterComplete"}
Results == {"ok", "error", "denied"}
Upgrades == {"none", "plain", "reboot"}
Phases == {"sent", "downloading", "applying", "complete"}

Event == [e : Plain \cup Signals]
         \cup [e : {"confirm", "keyRequest"}, key : Keys]
         \cup [e : {"reply"}, kind : TxKinds, sess : Sessions, res : Results]

Notice == [n : {"checkStarted", "applyStarted", "stageShown", "stageCleared",
                "changelogFetched"}]
          \cup [n : {"checkFinished"}, items : Upgrades \cup {"failed"}]
          \cup [n : {"keyRequested"}, key : Keys]
          \cup [n : {"offlineReady", "finished", "cleanFinished",
                     "autoremoveFinished"}, ok : BOOLEAN]

Transaction == [kind : TxKinds, sess : Sessions, phase : Phases,
                key : Keys \cup {NoKey}]

Note(n) == [n |-> n]
Told(n, ok) == [n |-> n, ok |-> ok]
CheckDone(items) == [n |-> "checkFinished", items |-> items]

(* The signals that end an operation: autoremove and clean emit two.       *)
Answer(kind, ok) ==
    CASE kind = "autoremove" -> <<Told("autoremoveFinished", ok), Told("finished", ok)>>
      [] kind = "clean"      -> <<Told("cleanFinished", ok), Told("finished", ok)>>
      [] OTHER               -> <<Told("finished", ok)>>

WorkerInit ==
    /\ pc = "idle" /\ session = NoSession /\ ephemeral = NoSession
    /\ connected = FALSE /\ inhibited = FALSE /\ cancelled = FALSE
    /\ workerKey = NoKey /\ timers = 0
    /\ wq = <<>> /\ gq = <<>>
    /\ dsess = {} /\ txs = {} /\ asked = {}
    /\ staged \in BOOLEAN       \* left by an earlier run of the shell
    /\ avail \in Upgrades

-----------------------------------------------------------------------------
(* The session and what is held with it.                                   *)

(* A session path the daemon may return: not one that is open or that an   *)
(* unanswered transaction, or its queued reply, still refers to.           *)
Replying == {wq[i].sess : i \in {j \in DOMAIN wq : wq[j].e = "reply"}}
Fresh == Sessions \ (dsess \cup {t.sess : t \in txs} \cup Replying)

(* Mutants of closeSession: one that forgets releaseSystemdInhibition, and *)
(* one that forgets to call close_session.                                 *)
CloseSessionKeepsInhibitor ==
    /\ workerKey' = NoKey /\ session' = NoSession /\ UNCHANGED inhibited
    /\ connected' = (connected /\ session = NoSession)
    /\ dsess' = dsess \ {session}

CloseSessionForgets ==
    /\ inhibited' = FALSE /\ workerKey' = NoKey /\ session' = NoSession
    /\ connected' = (connected /\ session = NoSession)
    /\ UNCHANGED dsess

(* closeSession: the inhibitor and the pending key go first; signals are   *)
(* only disconnected when there is a session.                              *)
CloseSession ==
    /\ inhibited' = FALSE
    /\ workerKey' = NoKey
    /\ session' = NoSession
    /\ connected' = (connected /\ session = NoSession)
    /\ dsess' = dsess \ {session}

(* openSession when every attempt fails: the old session is closed all the *)
(* same, and so it is by a handler that opens a session and closes it.     *)
OpenFails == CloseSession /\ cancelled' = FALSE
OpenAndClose == Fresh # {} /\ CloseSession /\ cancelled' = FALSE

(* openSession when it succeeds, in a handler that keeps the session: the  *)
(* transactions connect the signals and ask logind, who may refuse.        *)
OpenSession(forTransaction) ==
    \E s \in Fresh :
        /\ session' = s
        /\ dsess' = (dsess \ {session}) \cup {s}
        /\ connected' = (forTransaction \/ (connected /\ session = NoSession))
        /\ inhibited' \in (IF forTransaction THEN BOOLEAN ELSE {FALSE})
        /\ workerKey' = NoKey
        /\ cancelled' = FALSE

KeepSession ==
    UNCHANGED <<session, connected, inhibited, cancelled, workerKey, dsess>>

Take(e) ==
    /\ pc = "idle" /\ wq # <<>> /\ Head(wq).e = e
    /\ wq' = Tail(wq)

Emit(notices) == gq' = gq \o notices

-----------------------------------------------------------------------------
(* checkForUpdates: posted, or called directly at the end of cleanCache.   *)

CheckBegin ==
    /\ Take("check") \/ (pc = "check" /\ UNCHANGED wq)
    /\ \/ /\ OpenSession(FALSE)
          /\ Emit(<<Note("checkStarted")>>)
          /\ pc' = "checking"
       \/ /\ OpenFails
          /\ Emit(<<Note("checkStarted"), CheckDone("failed")>>)
          /\ pc' = "idle"
    /\ UNCHANGED <<ephemeral, timers, txs, asked, staged, avail>>

(* Any call may fail.  An empty answer skips the query of the staged       *)
(* transaction; with upgrades the query may fail, which is ignored.        *)
CheckEnd ==
    /\ pc = "checking"
    /\ \/ /\ Emit(<<CheckDone("failed")>>)
          /\ UNCHANGED avail
       \/ /\ ~cancelled
          /\ avail' \in Upgrades
          /\ \/ Emit(<<CheckDone(avail')>>)
             \/ /\ avail' # "none"
                /\ Emit(<<Told("offlineReady", staged), CheckDone(avail')>>)
    /\ CloseSession
    /\ pc' = "idle"
    /\ UNCHANGED <<cancelled, ephemeral, timers, wq, txs, asked, staged>>

(* fetchChangelog: with a transaction in its session, or with no session,  *)
(* it opens one of its own.                                                *)
ChangelogBegin ==
    /\ Take("changelog")
    /\ \/ /\ session # NoSession /\ ~connected
          /\ pc' = "changelog"
          /\ UNCHANGED <<ephemeral, dsess, gq>>
       \/ /\ session = NoSession \/ connected
          /\ \/ /\ ephemeral' \in Fresh
                /\ dsess' = dsess \cup {ephemeral'}
                /\ pc' = "changelog"
                /\ UNCHANGED gq
             \/ /\ Emit(<<Note("changelogFetched")>>)
                /\ UNCHANGED <<pc, ephemeral, dsess>>
    /\ UNCHANGED <<session, connected, inhibited, cancelled, workerKey, timers,
                   txs, asked, staged, avail>>

(* Mutant: closes m_sessionPath where it should close its own session.     *)
ChangelogEndClosesSession ==
    /\ pc = "changelog" /\ pc' = "idle"
    /\ dsess' = dsess \ {session} /\ ephemeral' = NoSession
    /\ Emit(<<Note("changelogFetched")>>)
    /\ UNCHANGED <<session, connected, inhibited, cancelled, workerKey, timers,
                   wq, txs, asked, staged, avail>>

ChangelogEnd ==
    /\ pc = "changelog"
    /\ dsess' = dsess \ {ephemeral}
    /\ ephemeral' = NoSession
    /\ Emit(<<Note("changelogFetched")>>)
    /\ pc' = "idle"
    /\ UNCHANGED <<session, connected, inhibited, cancelled, workerKey, timers,
                   wq, txs, asked, staged, avail>>

-----------------------------------------------------------------------------
(* The three operations that run a daemon transaction.                     *)

(* Up to the blocking `upgrade`/`remove` and `resolve` calls.  autoremove  *)
(* first lists the packages, which may fail or find nothing to do.         *)
TransactionBegin(kind) ==
    /\ Take(kind)
    /\ LET preparing == IF kind = "stage" THEN <<>> ELSE <<Note("stageShown")>>
       IN \/ /\ OpenSession(TRUE)
             /\ Emit(preparing \o <<Note("stageShown")>>)
             /\ pc' = kind
          \/ /\ OpenFails
             /\ Emit(preparing \o Answer(kind, FALSE))
             /\ UNCHANGED pc
          \/ /\ kind = "autoremove"
             /\ \E ok \in BOOLEAN : Emit(Answer(kind, ok))
             /\ KeepSession
             /\ UNCHANGED pc
    /\ UNCHANGED <<ephemeral, timers, txs, asked, staged, avail>>

(* `resolve` has answered.  An error, unresolvable dependencies, nothing   *)
(* to do or too little disk space ends the operation; otherwise the        *)
(* transaction is sent and the worker returns to its event loop.           *)
TransactionSend(kind) ==
    /\ pc = kind
    /\ pc' = "idle"
    /\ \/ /\ CloseSession
          /\ \E ok \in (IF kind = "autoremove" THEN BOOLEAN ELSE {FALSE}) :
                Emit(Answer(kind, ok))
          /\ UNCHANGED txs
       \/ /\ txs' = txs \cup {[kind |-> kind, sess |-> session,
                               phase |-> "sent", key |-> NoKey]}
          /\ Emit(<<Note("stageShown")>>)
          /\ UNCHANGED <<session, connected, inhibited, workerKey, dsess>>
    /\ UNCHANGED <<cancelled, ephemeral, timers, wq, asked, staged, avail>>

TakeReply(kind) == Take("reply") /\ Head(wq).kind = kind

(* The offline download is answered.  When it was cancelled cleanOffline   *)
(* runs inside the handler; success is reported after that all the same.   *)
StageReply ==
    /\ TakeReply("stage")
    /\ CloseSession
    /\ cancelled' = FALSE
    /\ LET ok == Head(wq).res = "ok"
           outcome == IF ok THEN <<Told("offlineReady", TRUE), Told("finished", TRUE)>>
                            ELSE <<Told("finished", FALSE)>>
       IN \/ Emit(outcome) /\ UNCHANGED staged    \* no cancel, or no session
          \/ /\ cancelled
             /\ staged' \in {FALSE, staged}
             /\ Emit(<<Told("offlineReady", FALSE)>> \o outcome)
    /\ UNCHANGED <<pc, ephemeral, timers, txs, asked, avail>>

(* The in-place upgrade is answered.  An error other than a cancelled or   *)
(* denied one is not believed: a timer will look at what is installed.     *)
InPlaceReply ==
    /\ TakeReply("inplace")
    /\ CloseSession
    /\ LET res == Head(wq).res
       IN \/ /\ res = "ok"
             /\ Emit(Answer("inplace", TRUE))
             /\ pc' = "selfpost"
             /\ UNCHANGED timers
          \/ /\ res = "denied" \/ (res = "error" /\ cancelled)
             /\ Emit(Answer("inplace", FALSE))
             /\ UNCHANGED <<pc, timers>>
          \/ /\ res = "error" /\ ~cancelled
             /\ timers' = timers + 1
             /\ UNCHANGED <<pc, gq>>
    /\ UNCHANGED <<cancelled, ephemeral, txs, asked, staged, avail>>

AutoremoveReply ==
    /\ TakeReply("autoremove")
    /\ CloseSession
    /\ LET ok == Head(wq).res = "ok"
       IN /\ Emit(Answer("autoremove", ok))
          /\ pc' = IF ok THEN "selfpost" ELSE "idle"
    /\ UNCHANGED <<cancelled, ephemeral, timers, txs, asked, staged, avail>>

(* verifyTransactionResult: no upgrades left means success, and so does a  *)
(* list call that fails, for its answer is then left empty.                *)
Verify ==
    /\ pc = "idle" /\ timers > 0
    /\ timers' = timers - 1
    /\ \/ /\ OpenFails
          /\ Emit(Answer("inplace", FALSE))
          /\ UNCHANGED pc
       \/ /\ OpenAndClose
          /\ \E listed \in BOOLEAN :
                IF listed => avail = "none"
                THEN Emit(<<Note("stageCleared")>> \o Answer("inplace", TRUE))
                ELSE Emit(Answer("inplace", FALSE))
          /\ pc' = "selfpost"
    /\ UNCHANGED <<ephemeral, wq, txs, asked, staged, avail>>

(* The check a finished operation queues for its own thread, after the     *)
(* signal that told the GUI the operation was over.                        *)
SelfPost ==
    /\ pc = "selfpost"
    /\ pc' = "idle"
    /\ wq' = Append(wq, [e |-> "check"])
    /\ UNCHANGED <<session, connected, inhibited, cancelled, workerKey,
                   ephemeral, timers, gq, daemonVars>>

-----------------------------------------------------------------------------
(* The operations that finish within one handler.                          *)

(* When scheduling succeeds the machine reboots and nothing is emitted.    *)
RebootAndApply ==
    /\ Take("reboot")
    /\ \/ OpenFails /\ Emit(Answer("reboot", FALSE))
       \/ OpenAndClose /\ Emit(Answer("reboot", FALSE))
       \/ OpenAndClose /\ UNCHANGED gq
    /\ UNCHANGED <<pc, ephemeral, timers, txs, asked, staged, avail>>

(* The daemon is asked to cancel; whether it still can is its affair.      *)
CancelOperation ==
    /\ Take("cancel")
    /\ cancelled' = TRUE
    /\ UNCHANGED <<pc, session, connected, inhibited, workerKey, ephemeral,
                   timers, gq, daemonVars>>

(* cleanOffline: the answer of clean_with_options is not looked at.        *)
CleanOffline ==
    /\ Take("discard")
    /\ \/ OpenFails /\ UNCHANGED <<gq, staged>>
       \/ /\ OpenAndClose
          /\ staged' \in {FALSE, staged}
          /\ Emit(<<Told("offlineReady", FALSE)>>)
    /\ UNCHANGED <<pc, ephemeral, timers, txs, asked, avail>>

(* cleanCache goes straight on to checkForUpdates when it succeeded.       *)
CleanCache ==
    /\ Take("clean")
    /\ \/ OpenFails /\ Emit(Answer("clean", FALSE)) /\ UNCHANGED pc
       \/ OpenAndClose /\ Emit(Answer("clean", FALSE)) /\ UNCHANGED pc
       \/ OpenAndClose /\ Emit(Answer("clean", TRUE)) /\ pc' = "check"
    /\ UNCHANGED <<ephemeral, timers, txs, asked, staged, avail>>

(* confirmRepoKey: an answer for another key, or for no session, is lost.  *)
ConfirmRepoKey ==
    /\ Take("confirm")
    /\ LET key == Head(wq).key
           live == session # NoSession /\ key = workerKey
           waits(t) == live /\ t.sess = session /\ t.key = key
       IN /\ workerKey' = IF live THEN NoKey ELSE workerKey
          /\ txs' = {IF waits(t) THEN [t EXCEPT !.key = NoKey] ELSE t : t \in txs}
    /\ UNCHANGED <<pc, session, connected, inhibited, cancelled, ephemeral,
                   timers, gq, dsess, asked, staged, avail>>

(* The signal handlers, none of which looks at the session it came from.   *)
HandleSignal ==
    /\ \/ /\ Take("progress")
          /\ Emit(<<Note("stageShown")>>)
       \/ /\ Take("beforeBegin")
          /\ Emit(<<Note("applyStarted"), Note("stageShown")>>)
       \/ /\ Take("afterComplete")
          /\ Emit(<<Note("stageCleared")>>)
    /\ UNCHANGED <<workerVars, daemonVars>>

HandleKeyRequest ==
    /\ Take("keyRequest")
    /\ workerKey' = Head(wq).key
    /\ Emit(<<[n |-> "keyRequested", key |-> Head(wq).key]>>)
    /\ UNCHANGED <<pc, session, connected, inhibited, cancelled, ephemeral,
                   timers, daemonVars>>

WorkerNext ==
    \/ CheckBegin \/ CheckEnd \/ ChangelogBegin \/ ChangelogEnd
    \/ \E kind \in TxKinds : TransactionBegin(kind) \/ TransactionSend(kind)
    \/ StageReply \/ InPlaceReply \/ AutoremoveReply \/ Verify \/ SelfPost
    \/ RebootAndApply \/ CancelOperation \/ CleanOffline \/ CleanCache
    \/ ConfirmRepoKey \/ HandleSignal \/ HandleKeyRequest

-----------------------------------------------------------------------------
(* The daemon.  Its signals reach the worker while that is connected to    *)
(* the session; one already queued is delivered after a disconnect too.    *)

Hear(t, event) ==
    wq' = IF connected /\ session = t.sess THEN Append(wq, event) ELSE wq

Advance(t, phase) == txs' = (txs \ {t}) \cup {[t EXCEPT !.phase = phase]}

DaemonDownloads(t) ==
    /\ t.phase = "sent" /\ t.key = NoKey
    /\ Advance(t, "downloading")
    /\ Hear(t, [e |-> "progress"])
    /\ UNCHANGED <<dsess, asked, staged, avail>>

DaemonBegins(t) ==
    /\ t.kind # "stage" /\ t.phase \in {"sent", "downloading"} /\ t.key = NoKey
    /\ Advance(t, "applying")
    /\ Hear(t, [e |-> "beforeBegin"])
    /\ UNCHANGED <<dsess, asked, staged, avail>>

DaemonCompletes(t) ==
    /\ t.phase = "applying"
    /\ Advance(t, "complete")
    /\ Hear(t, [e |-> "afterComplete"])
    /\ avail' \in (IF t.kind = "inplace" THEN {avail, "none"} ELSE {avail})
    /\ UNCHANGED <<dsess, asked, staged>>

DaemonAsksKey(t) ==
    /\ t.phase \in {"sent", "downloading"} /\ t.key = NoKey
    /\ \E k \in Keys \ asked :
        /\ txs' = (txs \ {t}) \cup {[t EXCEPT !.key = k]}
        /\ asked' = asked \cup {k}
        /\ Hear(t, [e |-> "keyRequest", key |-> k])
    /\ UNCHANGED <<dsess, staged, avail>>

(* A key asked for while the worker is blocked in `upgrade` or `resolve`.  *)
DaemonAsksEarly ==
    /\ AsksEarly /\ pc \in TxKinds /\ connected
    /\ \E k \in Keys \ asked :
        /\ asked' = asked \cup {k}
        /\ wq' = Append(wq, [e |-> "keyRequest", key |-> k])
    /\ UNCHANGED <<dsess, txs, staged, avail>>

(* do_transaction answers.  It may fail at any time: refused by polkit     *)
(* before it starts, cancelled, a restarting daemon (which drops every     *)
(* session), a key never confirmed, or at last the two-hour timeout of the *)
(* call; and it may fail when everything is installed already.             *)
DaemonReplies(t) ==
    /\ txs' = txs \ {t}
    /\ \E res \in Results :
        /\ res = "ok" => /\ t.key = NoKey
                         /\ IF t.kind = "stage" THEN TRUE ELSE t.phase = "complete"
        /\ res = "denied" => t.phase = "sent"
        /\ staged' = (staged \/ (t.kind = "stage" /\ res = "ok"))
        /\ dsess' \in {dsess, IF res = "error" THEN {} ELSE dsess}
        /\ wq' = Append(wq, [e |-> "reply", kind |-> t.kind, sess |-> t.sess,
                             res |-> res])
    /\ UNCHANGED <<asked, avail>>

DaemonNext ==
    /\ \/ \E t \in txs : \/ DaemonDownloads(t) \/ DaemonBegins(t)
                         \/ DaemonCompletes(t) \/ DaemonAsksKey(t)
                         \/ DaemonReplies(t)
       \/ DaemonAsksEarly
    /\ UNCHANGED <<workerVars, gq>>
=============================================================================
