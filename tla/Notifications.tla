---------------------------- MODULE Notifications ---------------------------
(***************************************************************************)
(* The notification centre: NotificationStore (history, toasts, unread     *)
(* count, Do Not Disturb), NotificationService.qml, which owns the server  *)
(* and the live notification objects, and the toasts of                    *)
(* NotificationOverlay.qml with their timers.  All of it runs on the GUI   *)
(* thread; what interleaves are the applications, the user, the timers and *)
(* reloads of the shell.  The server reports that a notification is closed *)
(* before dismiss() or expire() returns, so the store's handlers are       *)
(* entered again (handleClosed) from the middle of their own loops.        *)
(***************************************************************************)
EXTENDS Integers, Sequences, FiniteSets, Collections

CONSTANTS
    Kinds,          \* the sets of hints notifications come with
    MaxToasts,      \* kMaxToasts
    MaxHistory,     \* m_max
    MaxDeliveries,  \* bound: how often an application sends something
    MaxReloads      \* bound: how often the shell is reloaded

Hints == {"critical", "persist", "transient", "resident", "default", "feedback"}

ASSUME KindsAssumption == Kinds \subseteq SUBSET Hints
ASSUME LimitsAssumption == {MaxToasts, MaxHistory} \subseteq Nat \ {0}
ASSUME BoundsAssumption == {MaxDeliveries, MaxReloads} \subseteq Nat

VARIABLES
    history,    \* m_history
    toasts,     \* m_toasts
    unread,     \* m_unread
    dnd,        \* m_dnd
    until,      \* m_dndUntil: "none", or whether it has passed
    silenced,   \* m_silencedCount
    sweep,      \* m_sweepTimer is active
    live,       \* the keys of _live
    exits,      \* the toasts on their way out, and what follows
    takeover,   \* takeoverEnabled
    tracked,    \* what the server holds: the hints by id
    carried,    \* the ids it has still to hand over after a reload
    told,       \* whose application the step told of an action or a reply; 0: none
    deliveries, reloads

lists == <<history, toasts, unread>>
quiet == <<dnd, until, silenced>>
vars == <<lists, quiet, sweep, live, exits, takeover, tracked, told, carried,
          deliveries, reloads>>

Ids == 1 .. MaxDeliveries

IdsIn(s) == {s[i].id : i \in DOMAIN s}

Without(s, ids) == Picked(s, {i \in DOMAIN s : s[i].id \notin ids})
Last(s, n) == IF Len(s) <= n THEN s ELSE SubSeq(s, Len(s) - n + 1, Len(s))
(* Mutant: drops the oldest toast one too late.                            *)
OneTooMany(s) == Last(s, MaxToasts + 1)

(* while (m_toasts.size() > kMaxToasts) m_toasts.removeFirst()             *)
Capped(s) == Last(s, MaxToasts)

Entry(ids, s) == CHOOSE e \in {s[i] : i \in DOMAIN s} : e.id \in ids
Unread(s) == Cardinality({i \in DOMAIN s : ~s[i].read})

Critical(hints) == "critical" \in hints
Timed(hints) == {"critical", "persist"} \cap hints = {}

Tracked == DOMAIN tracked
Untrack(ids) == [i \in Tracked \ ids |-> tracked[i]]
Track(id, hints) == [i \in Tracked \cup {id} |-> IF i = id THEN hints ELSE tracked[i]]

Listed == IdsIn(history) \cup IdsIn(toasts)

Init ==
    /\ history = <<>> /\ toasts = <<>> /\ unread = 0
    /\ dnd = FALSE /\ until = "none" /\ silenced = 0
    /\ sweep = FALSE /\ live = {} /\ exits = {} /\ takeover = TRUE
    /\ tracked = <<>> /\ carried = {} /\ told = 0
    /\ deliveries = 0 /\ reloads = 0

-----------------------------------------------------------------------------
(* Parts of the handlers.                                                  *)

NeedSweep(ts, d, u) ==
    (\E i \in DOMAIN ts : Timed(ts[i].hints)) \/ (d /\ u # "none")

(* syncModels(), after which a toast that has gone has no delegate.        *)
SyncModels ==
    /\ sweep' = NeedSweep(toasts', dnd', until')
    /\ exits' = {x \in exits : x[1] \in IdsIn(toasts')}

(* Mutant: what is only in the history is thought to need no object.       *)
GcToastsOnly(objects, h, t) == objects \cap IdsIn(t)

(* _gcLive().                                                              *)
GcLive(objects, h, t) == objects \cap (IdsIn(h) \cup IdsIn(t))

(* The server closes ids, those of them that have a live object, and       *)
(* _onQsClosed() runs for each, before the handler changes the lists.      *)
Close(ids) ==
    /\ tracked' = Untrack(ids \cap live)
    /\ live' = IF ids \cap live = {} THEN live ELSE GcLive(live \ ids, history, toasts)

(* No application is told of anything.                                     *)
Silent == told' = 0

Toast(id, hints) == [id |-> id, hints |-> hints, due |-> FALSE]
Item(id, hints, read) == [id |-> id, hints |-> hints, read |-> read]

Shows(hints) == ~dnd \/ Critical(hints)

-----------------------------------------------------------------------------
(* A notification arrives: _onQsNotification() and ingestSnapshot().       *)

(* One the store does not know.  What overflows the history is dismissed,  *)
(* and _onQsClosed() looks for live objects to drop before the lists show  *)
(* the one that has just arrived; the unread ones are counted with it, and *)
(* then it is counted once more.                                           *)
IngestNew(id, hints, carry) ==
    LET lasting == "transient" \notin hints
        read == carry \/ "feedback" \in hints
        h == IF lasting THEN Append(history, Item(id, hints, read)) ELSE history
        out == IdsIn(h) \ IdsIn(Last(h, MaxHistory))
        base == IF out = {} THEN unread ELSE Unread(Last(h, MaxHistory))
        left == Without(toasts, out)
        toasted == Shows(hints) /\ (lasting => ~carry)
    IN /\ history' = Last(h, MaxHistory)
       /\ unread' = IF lasting /\ ~read THEN base + 1 ELSE base
       /\ toasts' = IF toasted THEN Capped(Append(left, Toast(id, hints))) ELSE left
       /\ silenced' = IF toasted \/ carry THEN silenced ELSE silenced + 1
       /\ tracked' = [i \in (Tracked \cup {id}) \ (out \cap live) |-> Track(id, hints)[i]]
       /\ live' = GcLive(IF out \cap live = {} THEN live \cup {id} ELSE live \ (out \cup {id}),
                         history', toasts')

(* Mutant: the toast stays where it was.                                   *)
UpdateInPlace(id, hints) ==
    LET h == Append(Without(history, {id}), Item(id, hints, FALSE))
        t == [i \in DOMAIN toasts |->
                IF toasts[i].id = id THEN Toast(id, hints) ELSE toasts[i]]
    IN /\ history' = IF id \in IdsIn(history) THEN h ELSE history
       /\ toasts' = IF id \in IdsIn(toasts) THEN t
                    ELSE IF Shows(hints) /\ "transient" \notin hints
                    THEN Capped(Append(toasts, Toast(id, hints))) ELSE toasts
       /\ unread' = Unread(history')
       /\ tracked' = Track(id, hints)
       /\ live' = GcLive(live \cup {id}, history', toasts')
       /\ UNCHANGED silenced

(* One that replaces what is listed.  It moves to the end, unread.         *)
Update(id, hints) ==
    LET h == Append(Without(history, {id}), Item(id, hints, FALSE))
        t == Append(Without(toasts, {id}), Toast(id, hints))
        again == id \in IdsIn(toasts) \/ (Shows(hints) /\ "transient" \notin hints)
    IN /\ history' = IF id \in IdsIn(history) THEN h ELSE history
       /\ toasts' = IF again THEN Capped(t) ELSE toasts
       /\ unread' = Unread(history')
       /\ tracked' = Track(id, hints)
       /\ live' = GcLive(live \cup {id}, history', toasts')
       /\ UNCHANGED silenced

Notify(id, hints) ==
    /\ UNCHANGED <<dnd, until, takeover, carried, reloads>> /\ Silent
    /\ takeover /\ deliveries < MaxDeliveries
    /\ id \in Tracked \/ id = deliveries + 1
    /\ deliveries' = deliveries + 1
    /\ IF id \in Listed THEN Update(id, hints) ELSE IngestNew(id, hints, FALSE)
    /\ SyncModels

(* The application takes it back; _onQsClosed(), handleClosed().           *)
AppCloses(id) ==
    /\ UNCHANGED <<quiet, takeover, carried, deliveries, reloads>> /\ Silent
    /\ id \in Tracked
    /\ tracked' = Untrack({id})
    /\ history' = Without(history, {id}) /\ toasts' = Without(toasts, {id})
    /\ live' = GcLive(live \ {id}, history, toasts)
    /\ IF id \in Listed THEN unread' = Unread(history') /\ SyncModels
                       ELSE UNCHANGED <<unread, sweep, exits>>

AppNext ==
    /\ carried = {}
    /\ \/ \E id \in Ids, hints \in Kinds : Notify(id, hints)
       \/ \E id \in Ids : AppCloses(id)

-----------------------------------------------------------------------------
(* Timers.                                                                 *)

(* A toast's deadline, expiresAt, passes; so does that of Do Not Disturb.  *)
DeadlinePasses(i) ==
    /\ Timed(toasts[i].hints) /\ ~toasts[i].due
    /\ toasts' = [toasts EXCEPT ![i].due = TRUE]
    /\ UNCHANGED until

DndDeadlinePasses ==
    /\ until = "running" /\ until' = "passed"
    /\ UNCHANGED toasts

OthersStand ==
    /\ UNCHANGED <<history, unread, dnd, silenced, sweep, live, exits, takeover, tracked,
                   carried, deliveries, reloads>>
    /\ Silent

ToastClock == carried = {} /\ (\E i \in DOMAIN toasts : DeadlinePasses(i)) /\ OthersStand
DndClock == carried = {} /\ DndDeadlinePasses /\ OthersStand

(* setDnd(false): what was silenced is told by a toast the shell sends to  *)
(* itself, under an id of its own.                                         *)
Summary == Toast(-deliveries, {"transient"})

EndDnd(ts) == IF silenced > 0 THEN Capped(Append(ts, Summary)) ELSE ts

(* A loop over a list from which handleClosed() removes, at the positions  *)
(* closed, what the loop has just closed.  The first removal moves what    *)
(* follows it, unless it is at the head, and after the second the loop     *)
(* reads an array that was freed: behind those anything may be missed.     *)
Reliable(j, closed) == {i \in closed : i < j} \subseteq {1}

(* Mutant: takes the toasts to be in the order of their deadlines.         *)
ExpireFromHead(ts) ==
    LET over == ts # <<>> /\ ts[1].due
        ended == IF over THEN {ts[1].id} ELSE {}
    IN /\ toasts' = Without(ts, ended)
       /\ unread' = IF over THEN Unread(history) ELSE unread
       /\ tracked' = Untrack(ended \cap live)
       /\ live' = IF ended \cap live = {} THEN live ELSE GcLive(live \ ended, history, ts)

(* onSweepTick(), whose toasts ts are those after the end of Do Not        *)
(* Disturb.  What the loop misses is neither expired nor kept.             *)
Expire(ts) ==
    LET due == {i \in DOMAIN ts : ts[i].due}
        closed == {i \in due : ts[i].id \in live}
    IN \E missed \in SUBSET {i \in DOMAIN ts : ~Reliable(i, closed)} :
        LET ended == {ts[i].id : i \in due \ missed}
            kept == Without(ts, ended \cup {ts[i].id : i \in missed})
        IN /\ toasts' = IF due = {} THEN ts ELSE kept
           /\ unread' = IF due = {} THEN unread ELSE Unread(history)
           /\ tracked' = Untrack(ended \cap live)
           /\ live' = IF ended \cap live = {} THEN live
                      ELSE GcLive(live \ ended, history, ts)

SweepTick ==
    /\ sweep
    /\ IF dnd /\ until = "passed"
       THEN dnd' = FALSE /\ until' = "none" /\ silenced' = 0 /\ Expire(EndDnd(toasts))
       ELSE UNCHANGED quiet /\ Expire(toasts)
    /\ IF toasts' = toasts THEN UNCHANGED <<sweep, exits>> ELSE SyncModels
    /\ UNCHANGED <<history, takeover, carried, deliveries, reloads>> /\ Silent

-----------------------------------------------------------------------------
(* The toasts of the overlay.  A toast that leaves is animated first, and  *)
(* what was asked for is done afterwards, if the toast is still there.     *)

Leaving(id) == \E x \in exits : x[1] = id

Answers == {"default", "button", "reply"}

(* Its own timer, which stands still while the pointer is over it, or the  *)
(* middle button.                                                          *)
RequestDismiss(id) ==
    /\ id \in IdsIn(toasts) /\ ~Leaving(id)
    /\ exits' = exits \cup {<<id, "dismiss">>}

RequestExit(id, ident) ==
    /\ id \in IdsIn(toasts) /\ ~Leaving(id)
    /\ LET hints == Entry({id}, toasts).hints
       IN \/ ident = "default" /\ "default" \in hints
          \/ ident = "button" /\ "resident" \notin hints /\ id \in Ids
          \/ ident = "reply" /\ id \in Ids
    /\ exits' = exits \cup {<<id, ident>>}

OverlayNext ==
    /\ \E id \in IdsIn(toasts) :
          RequestDismiss(id) \/ \E ident \in Answers : RequestExit(id, ident)
    /\ UNCHANGED <<lists, quiet, sweep, live, takeover, tracked, carried, deliveries, reloads>>
    /\ Silent

(* dismissToast(): the server need not hold on to a transient one.         *)
DismissToast(id) ==
    /\ toasts' = Without(toasts, {id})
    /\ UNCHANGED <<history, unread>> /\ Silent
    /\ Close(IF "transient" \in Entry({id}, toasts).hints THEN {id} ELSE {})
    /\ SyncModels

Remove(ids) ==
    /\ history' = Without(history, ids) /\ toasts' = Without(toasts, ids)
    /\ unread' = Unread(history')
    /\ SyncModels

DismissNotification(id) ==
    /\ Remove({id}) /\ Close({id})
    /\ Silent

(* The actions the store keeps of a notification: _snapshotOf() leaves out *)
(* the default one and the settings.                                       *)
KeptActions == {"button"}

ListedEntry(id) == IF id \in IdsIn(history) THEN Entry({id}, history) ELSE Entry({id}, toasts)

(* invokeAction().  An identifier the store has not kept means dismissal;  *)
(* the application is told through the live object, and the server closes  *)
(* what is not resident.                                                   *)
InvokeAction(id, ident) ==
    LET resident == "resident" \in ListedEntry(id).hints
        matched == ident \in KeptActions
        closing == IF matched /\ resident THEN {} ELSE {id}
    IN /\ told' = IF matched /\ id \in live THEN id ELSE 0
       /\ IF ~resident \/ closing \cap live # {} THEN Remove({id})
                                                 ELSE UNCHANGED <<lists, sweep, exits>>
       /\ Close(closing)

InvokeDefaultAction(id) ==
    IF "default" \in ListedEntry(id).hints THEN InvokeAction(id, "default")
                                           ELSE DismissNotification(id)

(* Mutant: the unread ones are not counted again.                          *)
ReplyUncounted(id) ==
    /\ told' = IF id \in live THEN id ELSE 0
    /\ history' = [i \in DOMAIN history |->
                     IF history[i].id = id THEN [history[i] EXCEPT !.read = TRUE] ELSE history[i]]
    /\ toasts' = Without(toasts, {id})
    /\ UNCHANGED unread
    /\ SyncModels
    /\ UNCHANGED <<live, tracked>>

(* sendInlineReply().  The server closes a notification that is answered,  *)
(* unless it is resident.                                                  *)
SendInlineReply(id) ==
    LET read(e) == IF e.id = id THEN [e EXCEPT !.read = TRUE] ELSE e
    IN /\ told' = IF id \in live THEN id ELSE 0
       /\ IF id \in live /\ "resident" \notin ListedEntry(id).hints
          THEN Remove({id}) /\ Close({id})
          ELSE /\ history' = [i \in DOMAIN history |-> read(history[i])]
               /\ toasts' = Without(toasts, {id})
               /\ unread' = Unread(history')
               /\ SyncModels
               /\ UNCHANGED <<live, tracked>>

(* The exit animation of a toast has ended.                                *)
ExitDone(x) ==
    /\ x \in exits
    /\ CASE x[2] = "dismiss" -> DismissToast(x[1])
         [] x[2] = "default" -> InvokeDefaultAction(x[1])
         [] x[2] = "button" -> InvokeAction(x[1], "button")
         [] x[2] = "reply" -> SendInlineReply(x[1])

ExitNext ==
    /\ UNCHANGED <<quiet, takeover, carried, deliveries, reloads>>
    /\ \E x \in exits : ExitDone(x)

-----------------------------------------------------------------------------
(* The notification centre, and the shell.                                 *)

MarkAllRead ==
    /\ unread # 0
    /\ history' = [i \in DOMAIN history |-> [history[i] EXCEPT !.read = TRUE]]
    /\ unread' = 0
    /\ UNCHANGED <<toasts, live, tracked>> /\ Silent
    /\ SyncModels

(* clearApp(): ids are those of one application; which ones have it in     *)
(* common is left open.  Only those in the history are dismissed, and one  *)
(* that is alone is dismissed as DismissNotification does.                 *)
ClearApp(ids) ==
    /\ ids \cap IdsIn(history) # {}
    /\ Remove(ids) /\ Close(ids \cap IdsIn(history))
    /\ Silent

ClearAll ==
    /\ history' = <<>> /\ toasts' = <<>> /\ unread' = 0
    /\ LET closed == {i \in DOMAIN history : history[i].id \in live}
       IN \E missed \in SUBSET {i \in DOMAIN history : ~Reliable(i, closed)} :
            LET ended == {history[i].id : i \in closed \ missed}
            IN /\ tracked' = Untrack(ended)
               /\ live' = IF ended = {} THEN live ELSE GcLive(live \ ended, history, toasts)
    /\ SyncModels
    /\ Silent

(* In the popup all of a notification's buttons act at once, in its toast   *)
(* those of a resident one.                                                *)
OfferedAtOnce(id) == id \in IdsIn(history) \/ "resident" \in ListedEntry(id).hints

CenterNext ==
    /\ UNCHANGED <<quiet, takeover, carried, deliveries, reloads>>
    /\ \/ \E id \in IdsIn(history) :
            DismissNotification(id) \/ InvokeDefaultAction(id) \/ SendInlineReply(id)
       \/ \E id \in Ids \cap Listed :
            \/ InvokeAction(id, "settings")
            \/ OfferedAtOnce(id) /\ InvokeAction(id, "button")
       \/ \E ids \in SUBSET Listed : Cardinality(ids) > 1 /\ ClearApp(ids)
       \/ ClearAll \/ MarkAllRead

(* setDnd().  Critical toasts stay.                                        *)
SetDnd(on, deadline) ==
    /\ dnd' = on /\ until' = deadline
    /\ IF on
       THEN /\ toasts' = IF dnd THEN toasts
                         ELSE Picked(toasts, {i \in DOMAIN toasts : Critical(toasts[i].hints)})
            /\ UNCHANGED silenced
       ELSE toasts' = EndDnd(toasts) /\ silenced' = 0
    /\ UNCHANGED <<history, unread, live, takeover, tracked, carried, deliveries, reloads>>
    /\ Silent

ToggleDnd ==
    /\ SetDnd(~dnd, IF dnd THEN "none" ELSE until)
    /\ IF dnd /\ silenced = 0 THEN UNCHANGED <<sweep, exits>> ELSE SyncModels

(* Mutant: leaves the timer to setDnd(), which returns when it is on.      *)
SetDndTimedUnswept ==
    /\ SetDnd(TRUE, "running")
    /\ IF dnd THEN UNCHANGED <<sweep, exits>> ELSE SyncModels

SetDndTimed ==
    /\ SetDnd(TRUE, "running")
    /\ IF dnd THEN sweep' = TRUE /\ UNCHANGED exits ELSE SyncModels

SetDndUntilOff ==
    /\ SetDnd(TRUE, "none")
    /\ IF dnd THEN UNCHANGED <<sweep, exits>> ELSE SyncModels

(* onTakeoverEnabledChanged: the server and all it holds come and go.      *)
TakeoverOff ==
    /\ UNCHANGED <<quiet, carried, deliveries, reloads>> /\ Silent
    /\ takeover /\ takeover' = FALSE
    /\ history' = <<>> /\ toasts' = <<>> /\ unread' = 0
    /\ live' = {} /\ tracked' = <<>>
    /\ SyncModels

(* The new server tracks nothing, so pruneToIds() drops every toast.       *)
TakeoverOn ==
    /\ UNCHANGED <<history, unread, quiet, live, tracked, carried, deliveries, reloads>>
    /\ Silent
    /\ ~takeover /\ takeover' = TRUE
    /\ toasts' = <<>>
    /\ IF toasts = <<>> THEN UNCHANGED <<sweep, exits>> ELSE SyncModels

(* A reload of the shell: dnd is all that persists; the server keeps what  *)
(* it tracks and hands it to the new store.                                *)
Reload ==
    /\ reloads < MaxReloads /\ reloads' = reloads + 1
    /\ history' = <<>> /\ toasts' = <<>> /\ unread' = 0
    /\ until' = "none" /\ silenced' = 0 /\ sweep' = FALSE
    /\ live' = {} /\ exits' = {} /\ carried' = Tracked
    /\ UNCHANGED <<dnd, takeover, tracked, deliveries>> /\ Silent

HandOver ==
    \E id \in carried :
        /\ UNCHANGED <<dnd, until, takeover, deliveries, reloads>> /\ Silent
        /\ carried' = carried \ {id}
        /\ IngestNew(id, tracked[id], TRUE)
        /\ SyncModels

ShellNext ==
    \/ ToggleDnd \/ SetDndTimed \/ SetDndUntilOff
    \/ TakeoverOff \/ TakeoverOn \/ Reload

Next ==
    \/ HandOver \/ ToastClock \/ DndClock
    \/ /\ carried = {}
       /\ AppNext \/ SweepTick \/ OverlayNext \/ ExitNext \/ CenterNext \/ ShellNext

Spec == Init /\ [][Next]_vars

(* Time passes, the timers of the store fire, the server hands over what   *)
(* it holds.  Applications and the user owe nothing, and the overlay's own *)
(* timers may be held up by the pointer.                                   *)
FairSpec == Spec /\ WF_vars(HandOver) /\ WF_vars(ToastClock) /\ WF_vars(SweepTick)

-----------------------------------------------------------------------------
TypeOK ==
    /\ history \in Seq([id : Ids, hints : Kinds, read : BOOLEAN])
    /\ toasts \in Seq([id : Int, hints : Kinds \cup {{"transient"}}, due : BOOLEAN])
    /\ Len(history) <= MaxHistory /\ Len(toasts) <= MaxToasts
    /\ {dnd, sweep, takeover} \subseteq BOOLEAN /\ until \in {"none", "running", "passed"}
    /\ {unread, silenced} \subseteq 0 .. MaxDeliveries
    /\ Tracked \subseteq Ids /\ \A id \in Tracked : tracked[id] \in Kinds
    /\ live \subseteq Ids /\ carried \subseteq Tracked /\ told \in Ids \cup {0}
    /\ exits \subseteq IdsIn(toasts) \X (Answers \cup {"dismiss"})
    /\ deliveries \in 0 .. MaxDeliveries /\ reloads \in 0 .. MaxReloads

(* The counter on the bar is the number of unread entries of the history,  *)
(* although it is kept up in some handlers and counted again in others;    *)
(* one too many, as ingestSnapshot() adds what evictOverflow() has counted *)
(* already, only when the history is full.                                 *)
UnreadExact ==
    unread - Unread(history) \in (IF Len(history) = MaxHistory THEN {0, 1} ELSE {0})

(* While a toast that must not stay is shown, or Do Not Disturb is to end, *)
(* the timer that sees to it runs, however that came about.                *)
SweepRuns == NeedSweep(toasts, dnd, until) => sweep

(* Whatever the popup or a toast offers can be answered: a notification    *)
(* that is listed, and that the server still has, keeps its live object    *)
(* through whatever _gcLive() follows, and one that was not listed comes   *)
(* with one unless its arrival made a full history overflow.               *)
ListedAnswerable ==
    [][\A id \in (Listed' \cap Tracked') \ live' :
            IF id \in Listed THEN id \notin live ELSE Len(history) = MaxHistory]_vars

(* Toasts appear in the order of the history, the newest last, also after  *)
(* replacements, closings and sweeps in any order.                         *)
OrdersAgree ==
    \A i, j \in DOMAIN toasts, k, l \in DOMAIN history :
        toasts[i].id = history[k].id /\ toasts[j].id = history[l].id /\ i < j => k < l

(* A toast with a timeout goes, whatever happens to the others.            *)
TimedToast(id) == \E i \in DOMAIN toasts : toasts[i].id = id /\ Timed(toasts[i].hints)

ToastsEnd == \A id \in Ids : TimedToast(id) ~> ~TimedToast(id)

(* Clicking a notification that has a default action runs it (invokeAction *)
(* emits the request, the service executes it on the live object).         *)
DefaultInvoked ==
    [][\A id \in live : ExitDone(<<id, "default">>) => id = told']_vars
=============================================================================
