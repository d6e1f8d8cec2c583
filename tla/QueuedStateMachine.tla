------------------------- MODULE QueuedStateMachine -------------------------
(***************************************************************************)
(* fair::mq::StateMachine (fairmq/StateMachine.cxx): requests from any     *)
(* thread are checked against the state the machine will be in when its    *)
(* queue has been executed, and are queued; Run() executes the queue and   *)
(* tells the subscribers of every state it enters.                         *)
(***************************************************************************)
EXTENDS Naturals, Sequences

CONSTANTS
    Callers,        \* threads that call ChangeState
    MaxQueue        \* bound: length of the queue

ASSUME QueueAssumption == MaxQueue \in Nat /\ "runner" \notin Callers

VARIABLES
    fState, fErrorState,    \* the two orthogonal machines
    fNextStates,            \* the queue
    runner,                 \* where Run() is: "out", "loop", "wait", "emit"
    calling                 \* the callers that have queued and not yet notified

vars == <<fState, fErrorState, fNextStates, runner, calling>>

RegularStates == {"Idle", "InitializingDevice", "DeviceReady", "InitializingTask", "Ready",
    "Running", "ResettingTask", "ResettingDevice", "Exiting"}
States == RegularStates \cup {"Ok", "Error"}

Transitions == {"InitDevice", "InitTask", "Run", "Stop", "ResetTask", "ResetDevice", "End",
    "ErrorFound", "Automatic"}

\* The legal transitions; Transition throws IllegalTransition for all others.
Transition == {
    <<"Idle",               "InitDevice",  "InitializingDevice">>,
    <<"Idle",               "End",         "Exiting">>,
    <<"InitializingDevice", "Automatic",   "DeviceReady">>,
    <<"DeviceReady",        "InitTask",    "InitializingTask">>,
    <<"DeviceReady",        "ResetDevice", "ResettingDevice">>,
    <<"InitializingTask",   "Automatic",   "Ready">>,
    <<"Ready",              "Run",         "Running">>,
    <<"Ready",              "ResetTask",   "ResettingTask">>,
    <<"Running",            "Stop",        "Ready">>,
    <<"ResettingTask",      "Automatic",   "DeviceReady">>,
    <<"ResettingDevice",    "Automatic",   "Idle">>,
    <<"Ok",                 "ErrorFound",  "Error">> }

Init ==
    /\ fState = "Idle"
    /\ fErrorState = "Ok"
    /\ fNextStates = <<>>
    /\ runner = "out"
    /\ calling = {}

-----------------------------------------------------------------------------
Back(queue, otherwise) == IF queue = <<>> THEN otherwise ELSE queue[Len(queue)]

\* Variant: a request is checked against the current state.
LastStateIgnoringQueue(transition) ==
    IF transition = "ErrorFound" THEN fErrorState ELSE fState

\* The state from which a request is made.
LastState(transition) ==
    IF transition = "ErrorFound" THEN fErrorState ELSE Back(fNextStates, fState)

\* The critical section of ChangeState; an illegal request only throws.
Queue ==
    /\ Len(fNextStates) < MaxQueue
    /\ \E transition \in Transitions : \E next \in States :
          /\ <<LastState(transition), transition, next>> \in Transition
          /\ fNextStates' = Append(fNextStates, next)
    /\ UNCHANGED <<fState, fErrorState>>

ChangeState(c) ==
    /\ c \notin calling
    /\ Queue
    /\ calling' = calling \cup {c}
    /\ UNCHANGED runner

\* A subscriber of StateChange queues a request from inside Run().
CallbackChangesState ==
    /\ runner = "emit"
    /\ Queue
    /\ UNCHANGED <<runner, calling>>

\* Variant: no notification after the subscribers of StateQueued.
NotifyNobody(c) ==
    /\ c \in calling
    /\ calling' = calling \ {c}
    /\ UNCHANGED <<fState, fErrorState, fNextStates, runner>>

\* The subscribers of StateQueued have been called, without the lock; notify_one.
Notify(c) ==
    /\ c \in calling
    /\ calling' = calling \ {c}
    /\ runner' = IF runner = "wait" THEN "loop" ELSE runner
    /\ UNCHANGED <<fState, fErrorState, fNextStates>>

\* Run() is called; one thread runs the machine at a time.
Run ==
    /\ runner = "out"
    /\ runner' = "loop"
    /\ UNCHANGED <<fState, fErrorState, fNextStates, calling>>

Wait ==
    /\ runner = "loop"
    /\ fNextStates = <<>>
    /\ runner' = "wait"
    /\ UNCHANGED <<fState, fErrorState, fNextStates, calling>>

SpuriousWakeup ==
    /\ runner = "wait"
    /\ runner' = "loop"
    /\ UNCHANGED <<fState, fErrorState, fNextStates, calling>>

\* One of the two machines enters the state at the front of the queue.
Advance ==
    \/ /\ Head(fNextStates) = "Error"
       /\ fErrorState' = Head(fNextStates)
       /\ UNCHANGED fState
    \/ /\ Head(fNextStates) # "Error"
       /\ fState' = Head(fNextStates)
       /\ UNCHANGED fErrorState

Enter ==
    /\ runner = "loop"
    /\ fNextStates # <<>>
    /\ Advance
    /\ fNextStates' = Tail(fNextStates)
    /\ runner' = "emit"
    /\ UNCHANGED calling

\* The subscribers of StateChange have been called, without the lock.
Emitted ==
    /\ runner = "emit"
    /\ runner' = IF fState = "Exiting" \/ fErrorState = "Error" THEN "out" ELSE "loop"
    /\ UNCHANGED <<fState, fErrorState, fNextStates, calling>>

\* Reset, from any thread and at any time.
Reset ==
    /\ fState' = "Idle"
    /\ fErrorState' = "Ok"
    /\ fNextStates' = <<>>
    /\ UNCHANGED <<runner, calling>>

-----------------------------------------------------------------------------
RunnerStep == Wait \/ Enter \/ Emitted

Next ==
    \/ \E c \in Callers : ChangeState(c) \/ Notify(c)
    \/ CallbackChangesState
    \/ Run
    \/ RunnerStep
    \/ SpuriousWakeup
    \/ Reset

Spec == Init /\ [][Next]_vars

\* The thread in Run() and a thread inside ChangeState run when they can.
Fairness ==
    /\ WF_vars(RunnerStep)
    /\ \A c \in Callers : WF_vars(Notify(c))

LiveSpec == Spec /\ Fairness

-----------------------------------------------------------------------------
(* Properties.                                                             *)

\* Every variable keeps its type; the two machines never share a state.
TypeOK ==
    /\ fState \in RegularStates
    /\ fErrorState \in {"Ok", "Error"}
    /\ fNextStates \in Seq(RegularStates \cup {"Error"})
    /\ runner \in {"out", "loop", "wait", "emit"}
    /\ calling \subseteq Callers

Successors(s) == {t[3] : t \in {u \in Transition : u[1] = s}}

\* The state before the i-th of the queue.
Previous(i) == IF i = 1 THEN fState ELSE fNextStates[i - 1]

\* The queue is a legal continuation of the current state, whoever queued its
\* states and in whatever order they were accepted: every regular state follows
\* from the one before, and only errors stand behind an error.
LegalQueue ==
    \A i \in 1 .. Len(fNextStates) :
        fNextStates[i] = "Error" \/ fNextStates[i] \in Successors(Previous(i))

\* What Reset leaves behind.
IsReset == fState = "Idle" /\ fErrorState = "Ok" /\ fNextStates = <<>>

\* Run() enters only states that are legal from the current one, although they
\* were checked when they were queued; a Reset in between does not change that.
EntersLegally ==
    [][fState' # fState => fState' \in Successors(fState) \/ IsReset']_vars

\* Run() sleeps with states in its queue only while a caller that has queued
\* one is still on its way to notify_one.
NoLostNotification ==
    runner = "wait" /\ fNextStates # <<>> => calling # {}

\* A queued Exiting or Error ends Run(), unless the machine is reset.
QueuedEnds == \E i \in 1 .. Len(fNextStates) : fNextStates[i] \in {"Exiting", "Error"}
RunEnds ==
    QueuedEnds /\ runner # "out" ~> runner = "out" \/ IsReset
=============================================================================
