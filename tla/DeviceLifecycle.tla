--------------------------- MODULE DeviceLifecycle ---------------------------
(***************************************************************************)
(* What the device state machine promises to those who only look at the    *)
(* current state and at the user code: the states follow the documented    *)
(* life cycle, at most one state handler executes at a time, a transient   *)
(* state is left by its own handler alone, and Error is final.             *)
(***************************************************************************)

VARIABLES
    state,      \* what GetCurrentState returns
    executing   \* the handler the worker executes, or "none"

vars == <<state, executing>>

\* The transitions an event from outside may cause.
Requested == {
    <<"IDLE", "INITIALIZING_DEVICE">>, <<"IDLE", "EXITING">>,
    <<"DEVICE_READY", "INITIALIZING_TASK">>, <<"DEVICE_READY", "RESETTING_DEVICE">>,
    <<"READY", "RUNNING">>, <<"READY", "RESETTING_TASK">>,
    <<"RUNNING", "PAUSED">>, <<"RUNNING", "READY">>, <<"PAUSED", "RUNNING">> }

\* The transitions a handler causes itself: <<handler, from, to>>.
ByHandler == {
    <<"INIT_DEVICE", "INITIALIZING_DEVICE", "DEVICE_READY">>,
    <<"INIT_TASK", "INITIALIZING_TASK", "READY">>,
    <<"RUN", "RUNNING", "READY">>,
    <<"RESET_TASK", "RESETTING_TASK", "DEVICE_READY">>,
    <<"RESET_DEVICE", "RESETTING_DEVICE", "IDLE">> }

Init == state = "IDLE" /\ executing = "none"

Request == <<state, state'>> \in Requested /\ UNCHANGED executing

Complete == <<executing, state, state'>> \in ByHandler /\ UNCHANGED executing

Fail == state # "Error" /\ state' = "Error" /\ UNCHANGED executing

\* A transient handler starts only in its state, or after a failure.
Start ==
    /\ executing = "none"
    /\ \/ executing' \in {"RUN", "PAUSE"}
       \/ \E t \in ByHandler : executing' = t[1] /\ state \in {t[2], "Error"}
    /\ UNCHANGED state

Finish == executing # "none" /\ executing' = "none" /\ UNCHANGED state

Next == Request \/ Complete \/ Fail \/ Start \/ Finish

Spec == Init /\ [][Next]_vars
=============================================================================
