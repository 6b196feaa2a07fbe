---------------------------- MODULE DockerSample ----------------------------
(***************************************************************************)
(* A DockerWorker that samples the daemon through its UnixHttpClient, and  *)
(* ~DockerMonitor, which interrupts it from the GUI thread.  sample() runs *)
(* fetchFullState: a ping, whose failure ends it, and further requests,    *)
(* whose failures only leave their part of the state empty.                *)
(***************************************************************************)
EXTENDS UnixHttpClient, Naturals

CONSTANTS
    Requests,   \* how many requests fetchFullState makes
    MaxSamples  \* bound: how many samples are asked for

ASSUME RequestsAssumption == Requests \in Nat \ {0}
ASSUME MaxSamplesAssumption == MaxSamples \in Nat

VARIABLES
    left,        \* requests of this sample still to make
    whole,       \* every request of it so far was answered in full
    sampling,    \* m_isSampling: where sample() stands
    samples,     \* samples begun
    shown,       \* what the last stateChanged carried
    dtor         \* where ~DockerMonitor stands

sampleVars == <<left, whole, sampling, samples, shown>>
vars == <<clientVars, sampleVars, dtor>>

Init ==
    /\ ClientInit
    /\ left = 0 /\ whole = TRUE /\ sampling = "no"
    /\ samples = 0 /\ shown = "nothing" /\ dtor = "no"

-----------------------------------------------------------------------------
(* The worker thread.  quit() ends its event loop, not the handler it is   *)
(* in, so a sample begins only before that.                                *)

BeginSample ==
    /\ sampling = "no" /\ samples < MaxSamples
    /\ dtor \in {"no", "cancelling", "cancelled"}
    /\ samples' = samples + 1
    /\ sampling' = "fetching"
    /\ left' = Requests /\ whole' = TRUE
    /\ UNCHANGED <<clientVars, shown, dtor>>

BeginRequest ==
    /\ sampling = "fetching"
    /\ Socket
    /\ left' = left - 1
    /\ UNCHANGED <<whole, sampling, samples, shown, dtor>>

(* A request has returned, with `more` still to make: on to the next, or   *)
(* to the end of the fetch, at once when it was the ping that failed.      *)
Continue(res, more) ==
    LET pingFailed == more = Requests - 1 /\ res = "error"
    IN /\ whole' = (whole /\ res = "ok")
       /\ left' = IF pingFailed THEN 0 ELSE more
       /\ sampling' = IF pingFailed \/ more = 0 THEN "publishing" ELSE "fetching"
       /\ UNCHANGED <<samples, shown, dtor>>

(* Mutant: counts the request a second time.                               *)
EndRequestTwice == sampling = "fetching" /\ Close /\ Continue(result, left - 1)

EndRequest == sampling = "fetching" /\ Close /\ Continue(result, left)

FailRequest ==
    /\ sampling = "fetching" /\ NoDescriptor
    /\ Continue("error", left - 1)
    /\ UNCHANGED clientVars

(* A cancelled sample is not published, as far as cancelled() can tell.    *)
Publish ==
    /\ sampling = "publishing"
    /\ sampling' = "no"
    /\ shown' = IF cancelled THEN shown ELSE IF whole THEN "whole" ELSE "partial"
    /\ UNCHANGED <<clientVars, left, whole, samples, dtor>>

InRequest == (PublishFd \/ Send \/ CheckCancelled \/ ReadShut \/ WithdrawFd)
             /\ UNCHANGED <<sampleVars, dtor>>

Waiting == Peer /\ UNCHANGED <<sampleVars, dtor>>

-----------------------------------------------------------------------------
(* ~DockerMonitor: cancel(), quit(), wait(3000), and terminate() when that *)
(* is not enough: the wait is shorter than the timeout of a read, so it    *)
(* runs out if nothing but that timeout will end the read.                 *)

DtorCancel ==
    /\ dtor = "no"
    /\ CancelMark
    /\ dtor' = "cancelling"
    /\ UNCHANGED sampleVars

(* Mutant: only the flag, which a thread in its read does not look at.     *)
DtorSkipsShutdown ==
    /\ dtor = "cancelling"
    /\ dtor' = "cancelled"
    /\ UNCHANGED <<clientVars, sampleVars>>

DtorShutdown ==
    /\ dtor = "cancelling"
    /\ IF cfd = NoFd THEN UNCHANGED clientVars ELSE CancelShutdown
    /\ dtor' = "cancelled"
    /\ UNCHANGED sampleVars

DtorQuit ==
    /\ dtor = "cancelled"
    /\ dtor' = "waiting"
    /\ UNCHANGED <<clientVars, sampleVars>>

DtorJoin ==
    /\ dtor = "waiting" /\ sampling = "no"
    /\ dtor' = "joined"
    /\ UNCHANGED <<clientVars, sampleVars>>

(* Mutant: a wait() without a limit.                                       *)
DtorWaitsForever == dtor = "waiting" /\ FALSE /\ UNCHANGED vars

DtorTerminate ==
    /\ dtor = "waiting" /\ rq = "reading" /\ fd \notin shut
    /\ dtor' = "terminated"
    /\ UNCHANGED <<clientVars, sampleVars>>

Worker == BeginRequest \/ EndRequest \/ FailRequest \/ Publish \/ InRequest
Alive == dtor # "terminated"

Next ==
    \/ Alive /\ (BeginSample \/ Worker \/ Waiting)
    \/ DtorCancel \/ DtorShutdown \/ DtorQuit \/ DtorJoin \/ DtorTerminate
    \/ Others /\ UNCHANGED <<sampleVars, dtor>>

Spec == Init /\ [][Next]_vars

(* The threads run and wait(3000) lasts no longer than it says; the daemon *)
(* owes no answer, and the timeout of a read is longer than that.          *)
FairSpec ==
    /\ Spec
    /\ WF_vars(Alive /\ Worker)
    /\ WF_vars(DtorShutdown) /\ WF_vars(DtorQuit) /\ WF_vars(DtorJoin)
    /\ SF_vars(DtorTerminate)

-----------------------------------------------------------------------------
TypeOK ==
    /\ ClientTypeOK
    /\ left \in 0..Requests /\ whole \in BOOLEAN
    /\ sampling \in {"no", "fetching", "publishing"}
    /\ samples \in 0..MaxSamples /\ shown \in {"nothing", "whole", "partial"}
    /\ dtor \in {"no", "cancelling", "cancelled", "waiting", "joined", "terminated"}

(* The destructor returns, whatever the daemon does.                       *)
TeardownEnds == dtor = "cancelling" ~> dtor \in {"joined", "terminated"}

(* The worker thread is killed only in a request that began after it was   *)
(* interrupted: one that cancel() found in progress ends by itself         *)
(* (~DockerMonitor: a worker parked in a read would outlast the wait).     *)
InterruptReachesRead == dtor = "terminated" => ~cancelled
=============================================================================
