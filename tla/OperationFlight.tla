-------------------------- MODULE OperationFlight ---------------------------
(***************************************************************************)
(* What the update subsystem promises of one kind of operation, whatever   *)
(* threads, queues and daemons carry it out: one request is in flight at a *)
(* time, it is worked on and answered once, and the indicator the user     *)
(* sees is on from the request until the answer is delivered.              *)
(***************************************************************************)

VARIABLES
    flight,  \* how far the operation in flight has come
    shown    \* the indicator is on

Init == flight = "idle" /\ shown = FALSE

Request == flight = "idle" /\ flight' = "requested" /\ shown' = TRUE

Start == flight = "requested" /\ flight' = "running" /\ UNCHANGED shown

(* An operation may be refused before it starts.                           *)
Answer ==
    /\ flight \in {"requested", "running"}
    /\ flight' = "answered"
    /\ UNCHANGED shown

Deliver == flight = "answered" /\ flight' = "idle" /\ shown' = FALSE

Next == Request \/ Start \/ Answer \/ Deliver

Spec == Init /\ [][Next]_<<flight, shown>>
             /\ WF_<<flight, shown>>(Start \/ Answer \/ Deliver)
=============================================================================
