----------------------------- MODULE PowerManager -----------------------------
(***************************************************************************)
(* src/plugins/powermanager: the reboot into Windows.  The firmware's next *)
(* boot is set by efibootmgr, through sudo without a password or else      *)
(* through pkexec, and only then is logind asked to reboot; the other      *)
(* requests go to logind at once.                                          *)
(***************************************************************************)
EXTENDS Naturals, FiniteSets

CONSTANT MaxRequests    \* bound on the requests

VARIABLES
    firmware,   \* outside: a Windows entry exists; it is the next boot
    logind,     \* calls it has not answered: [method, its answer comes]; a reboot it accepted
    tools,      \* processes that run: efibootmgr, sudo and pkexec, by number
    power,      \* PowerManager: entry, isRebooting; whether a failure was told
    requests

powerVars == <<firmware, logind, tools, power, requests>>

Methods == {"PowerOff", "Reboot", "Suspend", "LockSessions", "logout"}

Init ==
    /\ firmware \in [entry : BOOLEAN, next : {FALSE}]
    /\ logind = [calls |-> {}, sent |-> 0, accepted |-> FALSE]
    /\ tools = [list |-> TRUE, sudo |-> 0, pkexec |-> 0]
    /\ power = [entry |-> FALSE, rebooting |-> FALSE, told |-> FALSE, asked |-> FALSE]
    /\ requests = 0

Requested == requests < MaxRequests /\ requests' = requests + 1

-----------------------------------------------------------------------------
\* refreshBootEntries, at the start and on request; a list that fails changes nothing.
RefreshBootEntries ==
    /\ Requested /\ ~tools.list
    /\ tools' = [tools EXCEPT !.list = TRUE]
    /\ UNCHANGED <<firmware, logind, power>>

ListEnds ==
    /\ tools.list
    /\ tools' = [tools EXCEPT !.list = FALSE]
    /\ power' \in {power, [power EXCEPT !.entry = firmware.entry]}
    /\ UNCHANGED <<firmware, logind, requests>>

\* A reboot that could not be asked for, or was refused, ends the one into Windows.
Refused(p, method) ==
    IF p.rebooting /\ method = "Reboot" THEN [p EXCEPT !.rebooting = FALSE, !.told = TRUE] ELSE p

\* callLogindMethod: the call is answered later, or fails at once.  (The logout
\* goes to another service, in the same way.)
Call(p, method) ==
    \/ /\ logind' = [logind EXCEPT !.calls = @ \cup {<<method, logind.sent>>}, !.sent = @ + 1]
       /\ power' = p
    \/ UNCHANGED logind /\ power' = Refused(p, method)

RequestMethod ==
    /\ Requested
    /\ \E m \in Methods : Call(power, m)
    /\ UNCHANGED <<firmware, tools>>

LogindAnswers ==
    /\ \E c \in logind.calls :
          /\ \/ /\ logind' = [logind EXCEPT !.calls = @ \ {c}, !.accepted = @ \/ c[1] = "Reboot"]
                /\ UNCHANGED power
             \/ /\ logind' = [logind EXCEPT !.calls = @ \ {c}]
                /\ power' = Refused(power, c[1])
    /\ UNCHANGED <<firmware, tools, requests>>

-----------------------------------------------------------------------------
RequestRebootToWindows ==
    /\ Requested
    /\ IF power.entry
       THEN /\ tools' = [tools EXCEPT !.sudo = @ + 1]
            /\ power' = [power EXCEPT !.asked = TRUE, !.told = FALSE]
       ELSE /\ power' = [power EXCEPT !.told = TRUE]
            /\ UNCHANGED tools
    /\ UNCHANGED <<firmware, logind>>

\* The next boot is set, and then the reboot asked for.
Succeeds(tool) ==
    /\ tools[tool] > 0
    /\ tools' = [tools EXCEPT ![tool] = @ - 1]
    /\ firmware' = [firmware EXCEPT !.next = TRUE]
    /\ Call([power EXCEPT !.rebooting = TRUE], "Reboot")
    /\ UNCHANGED requests

\* A process that crashes reports an error and its end, and each starts pkexec.
SudoFails ==
    /\ tools.sudo > 0
    /\ \E started \in {1, 2} :
          tools' = [tools EXCEPT !.sudo = @ - 1, !.pkexec = @ + started]
    /\ UNCHANGED <<firmware, logind, power, requests>>

PkexecFails ==
    /\ tools.pkexec > 0
    /\ tools' = [tools EXCEPT !.pkexec = @ - 1]
    /\ power' = [power EXCEPT !.told = TRUE]
    /\ UNCHANGED <<firmware, logind, requests>>

Next ==
    \/ RefreshBootEntries \/ ListEnds \/ RequestMethod \/ LogindAnswers
    \/ RequestRebootToWindows \/ Succeeds("sudo") \/ Succeeds("pkexec") \/ SudoFails \/ PkexecFails

Spec == Init /\ [][Next]_powerVars

-----------------------------------------------------------------------------

\* The manager's variables have their types.
TypeOK ==
    /\ firmware \in [entry : BOOLEAN, next : BOOLEAN]
    /\ tools.list \in BOOLEAN /\ {tools.sudo, tools.pkexec} \subseteq 0..2 * MaxRequests
    /\ power \in [entry : BOOLEAN, rebooting : BOOLEAN, told : BOOLEAN, asked : BOOLEAN]
    /\ \A c \in logind.calls : c[1] \in Methods

Rebooting == logind.accepted \/ \E c \in logind.calls : c[1] = "Reboot"

\* The shell says it reboots into Windows only when the next boot is set and a reboot
\* is on its way or accepted; and a reboot into Windows that was asked for has not
\* vanished: a program still works at it, or it goes on, or its failure was told.
RebootHonest ==
    /\ power.rebooting => firmware.next /\ Rebooting
    /\ power.asked => tools.sudo > 0 \/ tools.pkexec > 0 \/ Rebooting \/ power.told
=============================================================================
