--------------------------- MODULE UnixHttpClient ---------------------------
(***************************************************************************)
(* libs/unixsocket: one HTTP request over a Unix socket, made by a worker  *)
(* thread, and cancel(), called by another.  The two meet in m_activeFd    *)
(* and m_cancelRequested, which m_fdMutex guards; every step below is one  *)
(* critical section or one system call.  A descriptor that request() has   *)
(* closed may be given to anyone else in the process that opens a file.    *)
(***************************************************************************)
CONSTANTS
    Fds,        \* descriptor numbers
    NoFd        \* -1

ASSUME NoFdAssumption == NoFd \notin Fds

VARIABLES
    rq,         \* where request() stands
    fd,         \* its descriptor
    got,        \* how much of the response it has read
    result,     \* what the last request returned
    activeFd,   \* m_activeFd
    cancelled,  \* m_cancelRequested
    cfd,        \* the descriptor cancel() is about to shut down
    owner,      \* who has each descriptor open
    shut        \* the descriptors shut down

requestVars == <<rq, fd, got, result>>
clientVars == <<requestVars, activeFd, cancelled, cfd, owner, shut>>

Steps == {"idle", "created", "sending", "checking", "reading", "returning", "closing"}

(* A truncated response is one whose body ends early and is accepted.      *)
Responses == {"none", "ok", "truncated", "error"}

ClientInit ==
    /\ rq = "idle" /\ fd = NoFd /\ got = "nothing" /\ result = "none"
    /\ activeFd = NoFd /\ cancelled = FALSE /\ cfd = NoFd
    /\ owner = [f \in Fds |-> "free"] /\ shut = {}

-----------------------------------------------------------------------------
(* request().                                                              *)

Socket ==
    /\ rq = "idle"
    /\ \E f \in Fds :
        /\ owner[f] = "free"
        /\ fd' = f
        /\ owner' = [owner EXCEPT ![f] = "request"]
    /\ rq' = "created" /\ got' = "nothing" /\ result' = "none"
    /\ UNCHANGED <<activeFd, cancelled, cfd, shut>>

(* socket() fails, and the request is over before publishFd.               *)
NoDescriptor == rq = "idle" /\ \A f \in Fds : owner[f] # "free"

(* publishFd forgets an earlier cancel().                                  *)
PublishFd ==
    /\ rq = "created"
    /\ activeFd' = fd /\ cancelled' = FALSE
    /\ rq' = "sending"
    /\ UNCHANGED <<fd, got, result, cfd, owner, shut>>

Return(res) == rq' = "returning" /\ result' = res

(* connect and send, which fail on a socket shut down.                     *)
Send ==
    /\ rq = "sending"
    /\ \/ Return("error")
       \/ fd \notin shut /\ rq' = "checking" /\ UNCHANGED result
    /\ UNCHANGED <<fd, got, activeFd, cancelled, cfd, owner, shut>>

(* The head of the read loop.                                              *)
CheckCancelled ==
    /\ rq = "checking"
    /\ IF cancelled THEN Return("error")
                    ELSE rq' = "reading" /\ UNCHANGED result
    /\ UNCHANGED <<fd, got, activeFd, cancelled, cfd, owner, shut>>

(* The daemon's bytes: any number of pieces, but after a shutdown only     *)
(* what had already arrived.                                               *)
ReadData ==
    /\ rq = "reading" /\ got # "all"
    /\ got' \in {"some", "all"} /\ (fd \in shut => got' # got)
    /\ rq' = "checking"
    /\ UNCHANGED <<fd, result, activeFd, cancelled, cfd, owner, shut>>

(* read() returns 0: the daemon has closed, too early perhaps, or the      *)
(* socket is shut down.  Nothing is compared with Content-Length; a        *)
(* chunked body or a header cut short is an error.                         *)
EndOfFile ==
    /\ rq = "reading"
    /\ \/ got = "all" /\ Return("ok")
       \/ got = "some" /\ \E res \in {"truncated", "error"} : Return(res)
       \/ got = "nothing" /\ Return("error")
    /\ UNCHANGED <<fd, got, activeFd, cancelled, cfd, owner, shut>>

DaemonCloses == fd \notin shut /\ EndOfFile
ReadShut == fd \in shut /\ EndOfFile

(* SO_RCVTIMEO has expired.                                                *)
ReadTimeout ==
    /\ rq = "reading" /\ fd \notin shut
    /\ Return("error")
    /\ UNCHANGED <<fd, got, activeFd, cancelled, cfd, owner, shut>>

(* Mutant: close() before m_activeFd is taken back.                        *)
WithdrawLate ==
    /\ rq = "returning"
    /\ owner' = [owner EXCEPT ![fd] = "free"] /\ shut' = shut \ {fd}
    /\ rq' = "closing"
    /\ UNCHANGED <<fd, got, result, activeFd, cancelled, cfd>>

(* withdrawFd, up to the end of its critical section, and its close().     *)
WithdrawFd ==
    /\ rq = "returning"
    /\ activeFd' = (IF activeFd = fd THEN NoFd ELSE activeFd)
    /\ rq' = "closing"
    /\ UNCHANGED <<fd, got, result, cancelled, cfd, owner, shut>>

Close ==
    /\ rq = "closing"
    /\ owner' = [owner EXCEPT ![fd] = "free"]
    /\ shut' = shut \ {fd}
    /\ rq' = "idle" /\ fd' = NoFd
    /\ UNCHANGED <<got, result, activeFd, cancelled, cfd>>

(* What the daemon and the clock do for a request.                         *)
Peer == ReadData \/ DaemonCloses \/ ReadTimeout

-----------------------------------------------------------------------------
(* cancel(): one critical section, and shutdown() after it.                *)

CancelMark ==
    /\ cfd = NoFd
    /\ cancelled' = TRUE
    /\ cfd' = activeFd
    /\ UNCHANGED <<requestVars, activeFd, owner, shut>>

(* Mutant: a cancel() that relies on the flag alone.                       *)
CancelNoShutdown ==
    /\ cfd # NoFd
    /\ cfd' = NoFd
    /\ UNCHANGED <<requestVars, activeFd, cancelled, owner, shut>>

CancelShutdown ==
    /\ cfd # NoFd
    /\ shut' = IF owner[cfd] = "free" THEN shut ELSE shut \cup {cfd}
    /\ cfd' = NoFd
    /\ UNCHANGED <<requestVars, activeFd, cancelled, owner>>

(* Everyone else in the process that opens and closes files.               *)
Others ==
    /\ \E f \in Fds :
        \/ owner[f] = "free" /\ owner' = [owner EXCEPT ![f] = "other"] /\ UNCHANGED shut
        \/ owner[f] = "other" /\ owner' = [owner EXCEPT ![f] = "free"]
           /\ shut' = shut \ {f}
    /\ UNCHANGED <<requestVars, activeFd, cancelled, cfd>>

-----------------------------------------------------------------------------
ClientTypeOK ==
    /\ rq \in Steps /\ fd \in Fds \cup {NoFd}
    /\ got \in {"nothing", "some", "all"} /\ result \in Responses
    /\ activeFd \in Fds \cup {NoFd} /\ cancelled \in BOOLEAN
    /\ cfd \in Fds \cup {NoFd}
    /\ owner \in [Fds -> {"free", "request", "other"}]
    /\ shut \subseteq Fds

(* m_activeFd, which cancel() acts on, is never a descriptor that was      *)
(* closed or passed on to somebody else, and no request leaves its own     *)
(* open behind: at most the one of the request in flight is.               *)
FdsOwned ==
    /\ activeFd # NoFd => activeFd = fd /\ owner[activeFd] = "request"
    /\ \A f \in Fds : owner[f] = "request" => f = fd /\ rq # "idle"

(* A cancel() that finds a request in its read ends it even if the daemon  *)
(* is silent and the timeout of the socket never comes.                    *)
CancelStopsRequest == (rq = "reading" /\ cfd = fd) ~> rq # "reading"
=============================================================================
