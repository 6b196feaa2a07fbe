------------------------ MODULE DockerSampleProofs --------------------------
(***************************************************************************)
(* The descriptor discipline of UnixHttpClient, proved for any number of   *)
(* descriptors, of requests in a sample and of samples.                    *)
(***************************************************************************)
EXTENDS DockerSample, TLAPS

(* The inductive invariant: a request has its descriptor open from         *)
(* socket() to close(), and has it published only in between.              *)
Published == {"sending", "checking", "reading", "returning"}

FdInv ==
    /\ owner \in [Fds -> {"free", "request", "other"}]
    /\ rq \in Steps
    /\ rq = "idle" => fd = NoFd
    /\ rq # "idle" => fd \in Fds /\ owner[fd] = "request"
    /\ activeFd # NoFd => activeFd = fd /\ rq \in Published
    /\ \A f \in Fds : owner[f] = "request" => f = fd

(* Initially nothing is open.                                              *)
LEMMA FdInit == Init => FdInv
BY DEF Init, ClientInit, FdInv, Steps

(* The steps of request() up to the last read.                             *)
LEMMA RequestSteps ==
    ASSUME FdInv, Socket \/ PublishFd \/ Send \/ CheckCancelled
                  \/ ReadData \/ EndOfFile \/ ReadTimeout
    PROVE  FdInv'
<1>1. CASE Socket
  <2>1. PICK f \in Fds : /\ owner[f] = "free" /\ fd' = f
                         /\ owner' = [owner EXCEPT ![f] = "request"]
    BY <1>1 DEF Socket
  <2>2. rq = "idle" /\ rq' = "created" /\ UNCHANGED activeFd /\ activeFd = NoFd
    BY <1>1 DEF Socket, FdInv, Published
  <2>3. \A g \in Fds : owner[g] # "request"
    BY <2>2, NoFdAssumption DEF FdInv
  <2> QED BY <2>1, <2>2, <2>3 DEF FdInv, Steps
<1>2. CASE PublishFd
  BY <1>2 DEF PublishFd, FdInv, Steps, Published
<1>3. CASE Send \/ CheckCancelled \/ ReadData \/ EndOfFile \/ ReadTimeout
  <2>1. /\ rq \in {"sending", "checking", "reading"}
        /\ rq' \in {"checking", "reading", "returning"}
        /\ UNCHANGED <<fd, activeFd, owner>>
    BY <1>3 DEF Send, CheckCancelled, ReadData, EndOfFile, ReadTimeout, Return
  <2> QED BY <2>1 DEF FdInv, Steps, Published
<1> QED BY <1>1, <1>2, <1>3

(* The end of a request: withdrawn first, closed afterwards.               *)
LEMMA ClosingFdSteps ==
    ASSUME FdInv, WithdrawFd \/ Close
    PROVE  FdInv'
<1>1. CASE WithdrawFd
  BY <1>1 DEF WithdrawFd, FdInv, Steps, Published
<1>2. CASE Close
  <2>1. /\ rq = "closing" /\ rq' = "idle" /\ fd' = NoFd /\ UNCHANGED activeFd
        /\ owner' = [owner EXCEPT ![fd] = "free"]
    BY <1>2 DEF Close
  <2>2. activeFd = NoFd BY <2>1 DEF FdInv, Published
  <2>3. fd \in Fds /\ \A f \in Fds : f # fd => owner[f] # "request"
    BY <2>1 DEF FdInv
  <2> QED BY <2>1, <2>2, <2>3 DEF FdInv, Steps
<1> QED BY <1>1, <1>2

(* cancel() and the other users of descriptors.                            *)
LEMMA BystanderSteps ==
    ASSUME FdInv, CancelMark \/ CancelShutdown \/ Others
    PROVE  FdInv'
<1>1. CASE CancelMark \/ CancelShutdown
  BY <1>1 DEF CancelMark, CancelShutdown, requestVars, FdInv
<1>2. CASE Others
  <2>1. PICK f \in Fds : /\ owner[f] \in {"free", "other"}
                         /\ \/ owner' = [owner EXCEPT ![f] = "other"]
                            \/ owner' = [owner EXCEPT ![f] = "free"]
    BY <1>2 DEF Others
  <2>2. UNCHANGED <<rq, fd, activeFd>> BY <1>2 DEF Others, requestVars
  <2> QED BY <2>1, <2>2 DEF FdInv
<1> QED BY <1>1, <1>2

(* Every step of the worker and of the destructor preserves it.            *)
LEMMA FdStep == FdInv /\ [Next]_vars => FdInv'
<1> SUFFICES ASSUME FdInv, [Next]_vars PROVE FdInv'
  OBVIOUS
<1>1. CASE BeginSample \/ Publish \/ FailRequest \/ DtorQuit \/ DtorJoin \/ DtorTerminate
  <2>1. UNCHANGED clientVars
    BY <1>1 DEF BeginSample, Publish, FailRequest, DtorQuit, DtorJoin, DtorTerminate
  <2> QED BY <2>1 DEF clientVars, requestVars, FdInv
<1>2. CASE BeginRequest \/ EndRequest \/ InRequest \/ Waiting
  BY <1>2, RequestSteps, ClosingFdSteps
  DEF BeginRequest, EndRequest, InRequest, Waiting, Peer, ReadShut, DaemonCloses
<1>3. CASE DtorCancel \/ Others
  BY <1>3, BystanderSteps DEF DtorCancel
<1>4. CASE DtorShutdown
  <2>1. CASE UNCHANGED clientVars
    BY <2>1 DEF clientVars, requestVars, FdInv
  <2> QED BY <1>4, <2>1, BystanderSteps DEF DtorShutdown
<1>5. CASE UNCHANGED vars
  BY <1>5 DEF vars, clientVars, requestVars, FdInv
<1> QED BY <1>1, <1>2, <1>3, <1>4, <1>5 DEF Next, Worker

(* cancel() never finds in m_activeFd a descriptor that was closed or      *)
(* given to somebody else, and no request leaks the one it opened.         *)
THEOREM DescriptorsOwned == Spec => []FdsOwned
<1>1. Init => FdInv BY FdInit
<1>2. FdInv /\ [Next]_vars => FdInv' BY FdStep
<1>3. FdInv => FdsOwned
  BY NoFdAssumption DEF FdInv, FdsOwned, Published
<1> QED BY <1>1, <1>2, <1>3, PTL DEF Spec

-----------------------------------------------------------------------------
(* Types.  That the requests still to make are never counted below zero    *)
(* needs to be known of a fetch between two requests, and that a request   *)
(* is only under way in a fetch.                                           *)
SampleInv ==
    /\ TypeOK
    /\ rq # "idle" => sampling = "fetching"
    /\ sampling = "fetching" /\ rq = "idle" => left # 0

(* What follows a request that has returned.                               *)
LEMMA Continued ==
    ASSUME SampleInv, NEW res \in Responses, NEW more \in 0..Requests,
           Continue(res, more), rq' = "idle", ClientTypeOK'
    PROVE  SampleInv'
<1> USE RequestsAssumption
<1>1. left' \in 0..Requests /\ whole' \in BOOLEAN /\ sampling' \in {"fetching", "publishing"}
  BY DEF SampleInv, TypeOK, Continue
<1>2. sampling' = "fetching" => left' # 0
  BY DEF Continue
<1> QED BY <1>1, <1>2 DEF SampleInv, TypeOK, Continue

(* Every step of request() and cancel() keeps the client's types.          *)
LEMMA ClientTypes ==
    ASSUME ClientTypeOK,
           \/ Socket \/ PublishFd \/ Send \/ CheckCancelled \/ ReadData \/ EndOfFile \/ ReadTimeout
           \/ WithdrawFd \/ Close \/ CancelMark \/ CancelShutdown \/ Others
    PROVE  ClientTypeOK'
<1>1. CASE Socket \/ PublishFd \/ WithdrawFd \/ Close \/ ReadData
  BY <1>1 DEF Socket, PublishFd, WithdrawFd, Close, ReadData, ClientTypeOK, Steps, Responses
<1>2. CASE Send \/ CheckCancelled \/ EndOfFile \/ ReadTimeout
  BY <1>2 DEF Send, CheckCancelled, EndOfFile, ReadTimeout, Return, ClientTypeOK, Steps, Responses
<1>3. CASE CancelMark \/ CancelShutdown \/ Others
  BY <1>3 DEF CancelMark, CancelShutdown, Others, requestVars, ClientTypeOK
<1> QED BY <1>1, <1>2, <1>3

(* Between socket() and close() a request stays a request.                 *)
LEMMA StillRequest ==
    ASSUME PublishFd \/ Send \/ CheckCancelled \/ ReadData \/ EndOfFile \/ ReadTimeout \/ WithdrawFd
    PROVE  rq # "idle" /\ rq' # "idle"
BY DEF PublishFd, Send, CheckCancelled, ReadData, EndOfFile, ReadTimeout, WithdrawFd, Return

(* Every step of the worker and of the destructor keeps the types.         *)
LEMMA SampleStep == SampleInv /\ [Next]_vars => SampleInv'
<1> SUFFICES ASSUME SampleInv, [Next]_vars PROVE SampleInv'
  OBVIOUS
<1> USE RequestsAssumption, MaxSamplesAssumption
<1>1. CASE BeginSample
  <2>1. ClientTypeOK' BY <1>1 DEF BeginSample, SampleInv, TypeOK, ClientTypeOK, clientVars, requestVars
  <2>2. samples' \in 0..MaxSamples /\ left' \in 0..Requests /\ left' # 0
    BY <1>1 DEF BeginSample, SampleInv, TypeOK
  <2> QED BY <1>1, <2>1, <2>2 DEF BeginSample, SampleInv, TypeOK, clientVars, requestVars
<1>2. CASE BeginRequest
  <2>1. ClientTypeOK' BY <1>2, ClientTypes DEF BeginRequest, SampleInv, TypeOK
  <2>2. left' \in 0..Requests /\ rq' = "created"
    BY <1>2 DEF BeginRequest, Socket, SampleInv, TypeOK
  <2> QED BY <1>2, <2>1, <2>2 DEF BeginRequest, SampleInv, TypeOK
<1>3. CASE EndRequest
  <2>1. ClientTypeOK' /\ rq' = "idle"
    BY <1>3, ClientTypes DEF EndRequest, Close, SampleInv, TypeOK
  <2>2. left \in 0..Requests /\ result \in Responses /\ Continue(result, left)
    BY <1>3 DEF EndRequest, SampleInv, TypeOK, ClientTypeOK
  <2> QED BY <2>1, <2>2, Continued
<1>4. CASE FailRequest
  <2>1. ClientTypeOK' /\ rq' = "idle"
    BY <1>4 DEF FailRequest, NoDescriptor, SampleInv, TypeOK, ClientTypeOK, clientVars, requestVars
  <2>2. left - 1 \in 0..Requests /\ Continue("error", left - 1)
    BY <1>4 DEF FailRequest, NoDescriptor, SampleInv, TypeOK
  <2>3. "error" \in Responses BY DEF Responses
  <2> QED BY <2>1, <2>2, <2>3, Continued
<1>5. CASE InRequest \/ Waiting
  <2>1. ClientTypeOK'
    BY <1>5, ClientTypes DEF InRequest, Waiting, Peer, ReadShut, DaemonCloses, SampleInv, TypeOK
  <2>2. rq # "idle" /\ rq' # "idle" /\ UNCHANGED <<sampleVars, dtor>>
    BY <1>5, StillRequest DEF InRequest, Waiting, Peer, ReadShut, DaemonCloses
  <2> QED BY <2>1, <2>2 DEF SampleInv, TypeOK, sampleVars
<1>6. CASE Publish \/ DtorQuit \/ DtorJoin \/ DtorTerminate \/ UNCHANGED vars
  <2>1. ClientTypeOK' /\ rq' = rq
    BY <1>6 DEF Publish, DtorQuit, DtorJoin, DtorTerminate, vars, SampleInv, TypeOK, ClientTypeOK,
                clientVars, requestVars
  <2> QED BY <1>6, <2>1 DEF Publish, DtorQuit, DtorJoin, DtorTerminate, vars, sampleVars, SampleInv, TypeOK
<1>7. CASE DtorCancel \/ DtorShutdown \/ (Others /\ UNCHANGED <<sampleVars, dtor>>)
  <2>1. ClientTypeOK' /\ rq' = rq
    <3>1. CASE CancelMark \/ CancelShutdown \/ Others
      BY <3>1, ClientTypes DEF SampleInv, TypeOK, CancelMark, CancelShutdown, Others, requestVars
    <3>2. CASE UNCHANGED clientVars
      BY <3>2 DEF SampleInv, TypeOK, ClientTypeOK, clientVars, requestVars
    <3> QED BY <1>7, <3>1, <3>2 DEF DtorCancel, DtorShutdown
  <2> QED BY <1>7, <2>1 DEF DtorCancel, DtorShutdown, sampleVars, SampleInv, TypeOK
<1> QED BY <1>1, <1>2, <1>3, <1>4, <1>5, <1>6, <1>7 DEF Next, Worker

(* The client, the sample and the destructor only ever hold values of      *)
(* their types; in particular fetchFullState never makes more requests     *)
(* than it has, however its requests end.                                  *)
THEOREM SampleTypeCorrect == Spec => []TypeOK
<1>1. Init => SampleInv
  <2> SUFFICES ASSUME Init PROVE SampleInv
    OBVIOUS
  <2>1. ClientTypeOK BY DEF Init, ClientInit, ClientTypeOK, Steps, Responses
  <2>2. left \in 0..Requests /\ samples \in 0..MaxSamples
    BY RequestsAssumption, MaxSamplesAssumption DEF Init
  <2> QED BY <2>1, <2>2 DEF Init, ClientInit, SampleInv, TypeOK
<1>2. SampleInv /\ [Next]_vars => SampleInv' BY SampleStep
<1>3. SampleInv => TypeOK BY DEF SampleInv
<1> QED BY <1>1, <1>2, <1>3, PTL DEF Spec

-----------------------------------------------------------------------------
(* The interruption.  As long as nobody forgets the mark of cancel(), a    *)
(* request that is in its read is the one cancel() has found: a read is    *)
(* entered through CheckCancelled, which looks at the mark.                *)
ReadIsCaught ==
    /\ dtor = "cancelling" => cfd = fd
    /\ dtor \in {"cancelled", "waiting"} => fd \in shut

InterruptInv ==
    /\ FdInv
    /\ rq \in Published => activeFd = fd
    /\ cancelled /\ rq = "reading" => ReadIsCaught
    /\ InterruptReachesRead

(* The worker's own steps: none enters a read with the mark set, none      *)
(* undoes the shutdown of its socket, and none follows its termination.    *)
LEMMA CaughtByWorker ==
    ASSUME InterruptInv, FdInv', Alive, UNCHANGED dtor,
           \/ Socket \/ PublishFd \/ Send \/ CheckCancelled \/ ReadData \/ EndOfFile \/ ReadTimeout
           \/ WithdrawFd \/ Close
    PROVE  InterruptInv'
<1>1. rq' \in Published => activeFd' = fd'
  BY DEF InterruptInv, Published, Socket, PublishFd, Send, CheckCancelled, ReadData, EndOfFile,
         ReadTimeout, WithdrawFd, Close, Return
<1>2. ~(cancelled' /\ rq' = "reading")
  BY DEF Socket, PublishFd, Send, CheckCancelled, ReadData, EndOfFile, ReadTimeout, WithdrawFd,
         Close, Return
<1> QED BY <1>1, <1>2 DEF InterruptInv, InterruptReachesRead, Alive

(* The destructor's steps: it finds the descriptor of the read published,  *)
(* and shuts it down because it is still the request's.                    *)
LEMMA CaughtByDtor ==
    ASSUME InterruptInv, FdInv', DtorCancel \/ DtorShutdown \/ DtorQuit \/ DtorJoin \/ DtorTerminate
    PROVE  InterruptInv'
<1>1. CASE DtorCancel
  BY <1>1 DEF DtorCancel, CancelMark, requestVars, InterruptInv, InterruptReachesRead, ReadIsCaught,
              Published
<1>2. CASE DtorShutdown
  <2>1. UNCHANGED <<rq, fd, activeFd, cancelled>> /\ dtor = "cancelling" /\ dtor' = "cancelled"
    BY <1>2 DEF DtorShutdown, CancelShutdown, clientVars, requestVars
  <2>2. ASSUME cancelled, rq = "reading" PROVE fd \in shut'
    <3>1. cfd = fd /\ fd \in Fds /\ owner[fd] = "request"
      BY <2>1, <2>2 DEF InterruptInv, ReadIsCaught, FdInv
    <3> QED BY <1>2, <3>1, NoFdAssumption DEF DtorShutdown, CancelShutdown
  <2> QED BY <2>1, <2>2 DEF InterruptInv, InterruptReachesRead, ReadIsCaught
<1>3. CASE DtorQuit \/ DtorJoin \/ DtorTerminate
  BY <1>3 DEF DtorQuit, DtorJoin, DtorTerminate, clientVars, requestVars, InterruptInv,
              InterruptReachesRead, ReadIsCaught
<1> QED BY <1>1, <1>2, <1>3

(* Steps that touch neither the request nor the destructor.                *)
LEMMA CaughtOtherwise ==
    ASSUME InterruptInv, FdInv', UNCHANGED dtor, UNCHANGED clientVars \/ Others
    PROVE  InterruptInv'
<1>1. CASE UNCHANGED clientVars
  BY <1>1 DEF clientVars, requestVars, InterruptInv, InterruptReachesRead, ReadIsCaught
<1>2. CASE Others
  <2>1. UNCHANGED <<rq, fd, activeFd, cancelled, cfd>> BY <1>2 DEF Others, requestVars
  <2>2. rq = "reading" /\ fd \in shut => fd \in shut'
    BY <1>2 DEF Others, InterruptInv, FdInv
  <2> QED BY <2>1, <2>2 DEF InterruptInv, InterruptReachesRead, ReadIsCaught
<1> QED BY <1>1, <1>2

(* The destructor kills its thread only in a request that has forgotten    *)
(* the interruption: a read that cancel() found in progress is ended by    *)
(* the shutdown of its socket, whoever else uses descriptors meanwhile.    *)
THEOREM InterruptReaches == Spec => []InterruptReachesRead
<1>1. Init => InterruptInv
  BY FdInit DEF Init, ClientInit, InterruptInv, InterruptReachesRead, Published
<1>2. InterruptInv /\ [Next]_vars => InterruptInv'
  <2> SUFFICES ASSUME InterruptInv, [Next]_vars PROVE InterruptInv'
    OBVIOUS
  <2>1. FdInv' BY FdStep DEF InterruptInv
  <2>2. CASE Alive /\ (BeginRequest \/ EndRequest \/ InRequest \/ Waiting)
    BY <2>1, <2>2, CaughtByWorker
    DEF BeginRequest, EndRequest, Continue, InRequest, Waiting, Peer, ReadShut, DaemonCloses
  <2>3. CASE BeginSample \/ FailRequest \/ Publish \/ UNCHANGED vars
    BY <2>1, <2>3, CaughtOtherwise DEF BeginSample, FailRequest, Continue, Publish, vars
  <2>4. CASE Others /\ UNCHANGED <<sampleVars, dtor>>
    BY <2>1, <2>4, CaughtOtherwise
  <2>5. CASE DtorCancel \/ DtorShutdown \/ DtorQuit \/ DtorJoin \/ DtorTerminate
    BY <2>1, <2>5, CaughtByDtor
  <2> QED BY <2>2, <2>3, <2>4, <2>5 DEF Next, Worker
<1>3. InterruptInv => InterruptReachesRead BY DEF InterruptInv
<1> QED BY <1>1, <1>2, <1>3, PTL DEF Spec
=============================================================================
