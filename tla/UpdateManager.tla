---------------------------- MODULE UpdateManager ---------------------------
(***************************************************************************)
(* The update subsystem: UpdateManager on the GUI thread, with the buttons *)
(* of UpdateControlCenter.qml that call it, composed with the worker       *)
(* thread and the daemon of UpdateWorker.  The two threads share nothing   *)
(* but the queues wq and gq: isBusy() is a guess the GUI keeps from the    *)
(* signals it was sent, and it is all that keeps operations apart.         *)
(***************************************************************************)
EXTENDS UpdateWorker, FiniteSets

CONSTANTS
    UserOps,     \* what the user and the daily timer may ask for
    MaxRequests  \* bound: how often they ask

ASSUME UserOpsAssumption == UserOps \subseteq Plain \cup {"confirm"}
ASSUME MaxRequestsAssumption == MaxRequests \in Nat

VARIABLES
    busy,      \* which of m_isChecking ... m_isAutoremoving are set
    stage,     \* m_progressStage is not empty
    ready,     \* m_offlineStagedReady
    prompt,    \* m_pendingKeyId, NoKey when m_hasPendingKeyPrompt is false
    model,     \* what m_model lists
    requests   \* requests made so far

guiVars == <<busy, stage, ready, prompt, model, requests>>
vars == <<wdVars, guiVars>>

Flags == {"checking", "downloading", "applying", "cleaning", "autoremoving"}

isBusy == busy # {}

Init ==
    /\ WorkerInit
    /\ busy = {} /\ stage = FALSE /\ ready = FALSE /\ prompt = NoKey
    /\ model = "none" /\ requests = 0

-----------------------------------------------------------------------------
(* What the user asks for.  The footer is shown with updates in the list   *)
(* and no check running.                                                   *)

FooterVisible == model # "none" /\ "checking" \notin busy

Post(event) ==
    /\ event.e \in UserOps
    /\ requests < MaxRequests
    /\ requests' = requests + 1
    /\ wq' = Append(wq, event)

(* Mutant: an operation that does not return when isBusy().                *)
StartUnguarded(op, flag) ==
    /\ busy' = busy \cup {flag}
    /\ stage' = TRUE
    /\ Post([e |-> op])
    /\ UNCHANGED <<ready, prompt, model>>

(* The operations that return at once when isBusy().                       *)
StartOperation(op, flag) ==
    /\ ~isBusy
    /\ busy' = {flag}
    /\ stage' = TRUE
    /\ Post([e |-> op])
    /\ UNCHANGED <<ready, prompt, model>>

CheckForUpdates == StartOperation("check", "checking")
CleanAll == StartOperation("clean", "cleaning")
Autoremove == StartOperation("autoremove", "autoremoving")

StartVisible == FooterVisible /\ ~ready

StageOfflineUpgrade == StartVisible /\ StartOperation("stage", "downloading")
StartInPlaceUpgrade == StartVisible /\ StartOperation("inplace", "downloading")

(* The operations that are posted whatever isBusy() says.                  *)
PostAnyway(op) == Post([e |-> op]) /\ UNCHANGED <<busy, stage, ready, prompt, model>>

FetchChangelog == model # "none" /\ PostAnyway("changelog")
CancelClicked == FooterVisible /\ "downloading" \in busy /\ PostAnyway("cancel")
RebootClicked == FooterVisible /\ ready /\ PostAnyway("reboot")
DiscardClicked == FooterVisible /\ ready /\ PostAnyway("discard")

(* Mutant: does not look whether there is a question.                      *)
ConfirmUnguarded ==
    /\ prompt' = NoKey
    /\ Post([e |-> "confirm", key |-> prompt])
    /\ UNCHANGED <<busy, stage, ready, model>>

ConfirmClicked ==
    /\ prompt # NoKey
    /\ prompt' = NoKey
    /\ Post([e |-> "confirm", key |-> prompt])
    /\ UNCHANGED <<busy, stage, ready, model>>

UserNext ==
    /\ \/ CheckForUpdates \/ CleanAll \/ Autoremove
       \/ StageOfflineUpgrade \/ StartInPlaceUpgrade
       \/ FetchChangelog \/ CancelClicked \/ RebootClicked \/ DiscardClicked
       \/ ConfirmClicked
    /\ UNCHANGED <<workerVars, daemonVars, gq>>

-----------------------------------------------------------------------------
(* The slots the worker's signals are queued to.                           *)

Receive(n) == gq # <<>> /\ Head(gq).n = n

HandleCheckStarted ==
    /\ Receive("checkStarted")
    /\ busy' = busy \cup {"checking"}
    /\ stage' = TRUE
    /\ UNCHANGED <<ready, prompt, model>>

(* Mutant: leaves the progress on the screen.                              *)
CheckFinishedKeepsStage ==
    /\ Receive("checkFinished")
    /\ busy' = busy \ {"checking"}
    /\ model' = IF Head(gq).items = "failed" THEN model ELSE Head(gq).items
    /\ UNCHANGED <<stage, ready, prompt>>

(* The busy flag falls before the list and its totals change.              *)
HandleCheckFinished ==
    /\ Receive("checkFinished")
    /\ busy' = busy \ {"checking"}
    /\ stage' = FALSE
    /\ model' = IF Head(gq).items = "failed" THEN model ELSE Head(gq).items
    /\ UNCHANGED <<ready, prompt>>

HandleProgressStageUpdated ==
    /\ \/ Receive("stageShown") /\ stage' = TRUE
       \/ Receive("stageCleared") /\ stage' = FALSE
    /\ UNCHANGED <<busy, ready, prompt, model>>

(* Mutant: forgets to flag the operation as applying.                      *)
ApplyStartedUnflagged ==
    /\ Receive("applyStarted")
    /\ busy' = busy \ {"downloading"}
    /\ UNCHANGED <<stage, ready, prompt, model>>

HandleInPlaceApplyStarted ==
    /\ Receive("applyStarted")
    /\ busy' = (busy \ {"downloading"}) \cup {"applying"}
    /\ UNCHANGED <<stage, ready, prompt, model>>

HandleRepoKeyImportRequested ==
    /\ Receive("keyRequested")
    /\ prompt' = Head(gq).key
    /\ UNCHANGED <<busy, stage, ready, model>>

(* Mutants: one that resets the flags only on success, one that leaves the *)
(* question about a key on the screen.                                     *)
FinishedOnlyOnSuccess ==
    /\ Receive("finished")
    /\ prompt' = NoKey
    /\ busy' = IF Head(gq).ok THEN busy \cap {"checking"} ELSE busy
    /\ stage' = FALSE
    /\ model' = IF Head(gq).ok /\ "applying" \in busy THEN "none" ELSE model
    /\ UNCHANGED ready

FinishedKeepsPrompt ==
    /\ Receive("finished")
    /\ busy' = busy \cap {"checking"}
    /\ stage' = FALSE
    /\ model' = IF Head(gq).ok /\ "applying" \in busy THEN "none" ELSE model
    /\ UNCHANGED <<prompt, ready>>

(* Ends whatever operation is flagged, and empties the list when a         *)
(* transaction that was being applied succeeded.                           *)
HandleOperationFinished ==
    /\ Receive("finished")
    /\ prompt' = NoKey
    /\ busy' = busy \cap {"checking"}
    /\ stage' = FALSE
    /\ model' = IF Head(gq).ok /\ "applying" \in busy THEN "none" ELSE model
    /\ UNCHANGED ready

HandleCleanFinished ==
    /\ Receive("cleanFinished")
    /\ busy' = busy \ {"cleaning"}
    /\ stage' = FALSE
    /\ UNCHANGED <<ready, prompt, model>>

HandleAutoremoveFinished ==
    /\ Receive("autoremoveFinished")
    /\ busy' = busy \ {"autoremoving"}
    /\ stage' = FALSE
    /\ UNCHANGED <<ready, prompt, model>>

(* Mutant: once ready, always ready.                                       *)
ReadySticks ==
    /\ Receive("offlineReady")
    /\ ready' = (ready \/ Head(gq).ok)
    /\ UNCHANGED <<busy, stage, prompt, model>>

HandleOfflineStagedReady ==
    /\ Receive("offlineReady")
    /\ ready' = Head(gq).ok
    /\ UNCHANGED <<busy, stage, prompt, model>>

(* The entries of one list row, which the model does not hold.             *)
HandleChangelogFetched ==
    /\ Receive("changelogFetched")
    /\ UNCHANGED <<busy, stage, ready, prompt, model>>

GuiNext ==
    /\ \/ HandleCheckStarted \/ HandleCheckFinished
       \/ HandleProgressStageUpdated \/ HandleInPlaceApplyStarted
       \/ HandleRepoKeyImportRequested \/ HandleOperationFinished
       \/ HandleCleanFinished \/ HandleAutoremoveFinished
       \/ HandleOfflineStagedReady \/ HandleChangelogFetched
    /\ gq' = Tail(gq)
    /\ UNCHANGED <<workerVars, daemonVars, wq, requests>>

-----------------------------------------------------------------------------
WorkerStep == WorkerNext /\ UNCHANGED guiVars
DaemonStep == DaemonNext /\ UNCHANGED guiVars

Next == UserNext \/ GuiNext \/ WorkerStep \/ DaemonStep

Spec == Init /\ [][Next]_vars

(* Both event loops keep running, timers fire, and every pending call is   *)
(* answered, at the latest by the timeout the code gives it.  The user     *)
(* owes nothing.                                                           *)
Answers == (\E t \in txs : DaemonReplies(t)) /\ UNCHANGED <<workerVars, gq, guiVars>>

Fairness ==
    /\ WF_vars(GuiNext)
    /\ WF_vars(WorkerStep)
    /\ WF_vars(Answers)

FairSpec == Spec /\ Fairness

-----------------------------------------------------------------------------
TypeOK ==
    /\ pc \in {"idle", "check", "checking", "changelog", "selfpost"} \cup TxKinds
    /\ session \in Sessions \cup {NoSession}
    /\ ephemeral \in Sessions \cup {NoSession}
    /\ connected \in BOOLEAN /\ inhibited \in BOOLEAN /\ cancelled \in BOOLEAN
    /\ workerKey \in Keys \cup {NoKey}
    /\ timers \in Nat
    /\ wq \in Seq(Event) /\ gq \in Seq(Notice)
    /\ dsess \subseteq Sessions /\ txs \subseteq Transaction /\ asked \subseteq Keys
    /\ staged \in BOOLEAN /\ avail \in Upgrades
    /\ busy \subseteq Flags /\ stage \in BOOLEAN /\ ready \in BOOLEAN
    /\ prompt \in Keys \cup {NoKey} /\ model \in Upgrades
    /\ requests \in 0..MaxRequests

-----------------------------------------------------------------------------
(* Properties of the worker and the daemon, whatever the user does.        *)

(* Between two events the worker holds its session, the signal connections *)
(* and logind's inhibitor only on behalf of a transaction whose reply, the *)
(* event that releases them (UpdateWorker::closeSession), is still to come *)
(* or in the queue: none is held for nothing, and the worker does hear the *)
(* signals of the session it holds.                                        *)
InEventLoop == pc \in {"idle", "check", "changelog", "selfpost"}

ResourcesOwned ==
    /\ (connected \/ inhibited) => session # NoSession
    /\ InEventLoop /\ session # NoSession =>
           session \in {t.sess : t \in txs} \cup Replying /\ connected

(* No session is left open in the daemon that the worker has forgotten:    *)
(* each is the one in m_sessionPath or the one a changelog is read with.   *)
NoSessionLeak == dsess \subseteq {session, ephemeral}

(* Whatever fails, the interface does not stay busy for ever, and the      *)
(* machine can be shut down and put to sleep again.                        *)
BusyEnds == isBusy ~> ~isBusy
InhibitionEnds == inhibited ~> ~inhibited

-----------------------------------------------------------------------------
(* Properties of the operations as the user sees them.                     *)

(* Checks, downloads and upgrades never run two at a time: none begins     *)
(* while the daemon still works on a transaction (the comment in           *)
(* UpdateControlCenter.qml, onRecommendedMethodChanged).                   *)
NoOverlap ==
    /\ Cardinality(txs) <= 1
    /\ pc \in TxKinds \cup {"checking"} => txs = {}

(* The session of a transaction the daemon is working on is never closed   *)
(* by the worker.                                                          *)
TransactionUndisturbed ==
    [][\A t \in txs, u \in txs' :
          t.sess = u.sess /\ t.sess \in dsess => t.sess \in dsess']_vars

(* A key the interface asks about is one the daemon waits for, so that the *)
(* answer reaches it, or else the end of the operation, which takes the    *)
(* question away, is on its way.                                           *)
PromptIsLive ==
    prompt # NoKey =>
        \/ /\ workerKey = prompt
           /\ \E t \in txs : t.sess = session /\ t.key = prompt
        \/ Replying # {}
        \/ \E i \in DOMAIN gq : gq[i].n = "finished"

(* An idle interface shows no progress.                                    *)
IdleShowsNoStage == ~isBusy => ~stage

(* When the interface says (once it has read its queue) that updates are   *)
(* downloaded and wait for the restart, the daemon does have them.         *)
ShownReady ==
    LET said == {i \in DOMAIN gq : gq[i].n = "offlineReady"}
    IN IF said = {} THEN ready
                    ELSE \E i \in said : gq[i].ok /\ \A j \in said : j <= i

ReadyIsStaged == ShownReady => staged

-----------------------------------------------------------------------------
(* An upgrade, staged or in place, is one flight of an operation: the      *)
(* footer's progress (isDownloading, isApplying) is on exactly from the    *)
(* click until the answer to that click is delivered.                      *)
UpgradeOps == {"stage", "inplace"}
Upgrading == busy \cap {"downloading", "applying"} # {}

UpgradeFlight ==
    IF \E i \in DOMAIN wq : wq[i].e \in UpgradeOps THEN "requested"
    ELSE IF pc \in UpgradeOps \/ txs # {} \/ Replying # {} \/ timers > 0 THEN "running"
    ELSE IF \E i \in DOMAIN gq : gq[i].n = "finished" THEN "answered" ELSE "idle"

Flight == INSTANCE OperationFlight WITH flight <- UpgradeFlight, shown <- Upgrading

OneFlight == Flight!Spec
=============================================================================
