---------------------------- MODULE DeviceControl ----------------------------
(***************************************************************************)
(* The device of DeviceStateMachine driven by its plugins: the ownership   *)
(* of device control (fairmq/PluginServices.cxx), the threads of the       *)
(* builtin Control plugin (fairmq/plugins/Control.cxx) and the main thread *)
(* of DeviceRunner::Run, which is the worker.                              *)
(*                                                                         *)
(* The device calls the state-change callback of Control at the points     *)
(* where DeviceStateMachine announces a state; the callback pushes the     *)
(* state into fEvents.  Every ChangeState call is made by                  *)
(* ChangeDeviceState, which holds fDeviceControllerMutex until ChangeState *)
(* returns: the mutex is free if and only if no thread is in ChangeState.  *)
(***************************************************************************)
EXTENDS DeviceStateMachine, Naturals, Sequences

CONSTANTS
    Interactive,    \* --control interactive, else static
    Signals,        \* may SIGINT or SIGTERM arrive?
    MaxCalls        \* bound: calls of other plugins and keys pressed

\* Control's two threads; every other controller is a thread of another
\* plugin and stands for that plugin.
ControlThreads == {"controller", "signalHandler"}
OtherPlugins == Controllers \ ControlThreads

ASSUME ControlAssumption ==
    /\ ControlThreads \subseteq Controllers
    /\ {"INIT_DEVICE", "INIT_TASK", "RUN", "STOP", "RESET_TASK", "RESET_DEVICE", "END"} \subseteq Requests
    /\ "control" \notin Controllers
    /\ "nobody" \notin Controllers
    /\ Interactive \in BOOLEAN
    /\ Signals \in BOOLEAN
    /\ MaxCalls \in Nat

VARIABLES
    fDeviceController,          \* the owner of device control, or "nobody"
    fEvents,                    \* Control's queue of device states
    at,                         \* where each thread is in its own program
    nextState,                  \* the local variable of RunShutdownSequence
    fDeviceShutdownRequested, fDeviceHasShutdown, fPluginShutdownRequested,
    gSignalCount,
    main,                       \* where DeviceRunner::Run is
    calls                       \* calls and keys so far

flagVars == <<fDeviceShutdownRequested, fDeviceHasShutdown, fPluginShutdownRequested, gSignalCount>>
controlVars == <<fDeviceController, fEvents, at, nextState, flagVars, main, calls>>
allVars == <<vars, controlVars>>

PluginOf(t) == IF t \in ControlThreads THEN "control" ELSE t

\* Control's constructor: it takes control and starts its controller thread,
\* unless another plugin has taken control before.
ControlInit ==
    /\ Init
    /\ fDeviceController \in {"control"} \cup OtherPlugins
    /\ fEvents = <<>>
    /\ at = [t \in Controllers |->
                IF t = "controller"
                THEN IF fDeviceController = "control" THEN "start" ELSE "ended"
                ELSE IF t = "signalHandler" THEN "waitSignal" ELSE "plugin"]
    /\ nextState = "none"
    /\ fDeviceShutdownRequested = FALSE
    /\ fDeviceHasShutdown = FALSE
    /\ fPluginShutdownRequested = FALSE
    /\ gSignalCount = 0
    /\ main = "RunStateMachine"
    /\ calls = 0

-----------------------------------------------------------------------------
(* The device: what its steps push into fEvents.                           *)

\* Variant: a callback that overwrites the last state not yet read.
PushOverwriting(s) ==
    fEvents' = IF Len(fEvents) > 0 THEN [fEvents EXCEPT ![Len(fEvents)] = s] ELSE <<s>>

Push(s) == fEvents' = Append(fEvents, s)

\* ErrorFoundFct calls the callbacks when the machine enters the Error state.
ErrorStep ==
    \/ BindError \/ ConnectError \/ ErrorFound
    \/ \E c \in Controllers : ErrorFoundFct(c)

NotifyingStep ==
    \/ Announce /\ Push(HandlerState[fWork])
    \/ NotifyState /\ Push(fState)
    \/ (\E c \in Controllers : ExitingFct(c)) /\ Push("EXITING")
    \/ ErrorStep /\ IF errorRegion = "OK" THEN Push("Error") ELSE UNCHANGED fEvents

QuietCall(c) ==
    \/ no_transition(c) \/ DefaultFct(c) \/ StopFct(c)
    \/ UnblockTransports(c) \/ UnblockDevice(c)
    \/ WaitForWorkDone(c) \/ DefaultFctPost(c) \/ StopFctReturn(c)

QuietWork ==
    \/ TakeWork \/ Terminate \/ BindChannels \/ ConnectChannels \/ UserHook \/ AutomaticFct
    \/ RunWrapper \/ ResumeTransports \/ FirstCall \/ RunLoop \/ ReceiveInterrupted
    \/ WaitFor \/ RunReturned \/ InternalStopFct \/ PostRun \/ JoinRateLogger
    \/ Pause \/ WorkDone \/ Unwind \/ CatchException

QuietEnvironment == Receive \/ LogSocketRates \/ \E c \in Controllers : SpuriousWakeup(c)

DeviceStep ==
    /\ \/ NotifyingStep
       \/ /\ QuietWork \/ QuietEnvironment \/ \E c \in Controllers : QuietCall(c)
          /\ UNCHANGED fEvents
    /\ UNCHANGED <<fDeviceController, at, nextState, flagVars, main, calls>>

-----------------------------------------------------------------------------
(* PluginServices.                                                         *)

\* fDeviceControllerMutex
MutexFree == \A c \in Controllers : pc[c] = "idle"

At(t, where) == at[t] = where /\ pc[t] = "idle"

Proceed(t, where) == at' = [at EXCEPT ![t] = where]

\* The call proper; the thread continues at `next' when ChangeState returns.
ChangeDeviceState(t, event, next) ==
    /\ MutexFree
    /\ fDeviceController \in {"nobody", PluginOf(t)}
    /\ fDeviceController' = PluginOf(t)
    /\ ChangeState(t, event)
    /\ Proceed(t, next)

\* DeviceControlError is thrown: both threads of Control end.
ChangeDeviceStateThrows(t) ==
    /\ MutexFree
    /\ fDeviceController \notin {"nobody", PluginOf(t)}
    /\ Proceed(t, "ended")
    /\ UNCHANGED <<vars, fDeviceController>>

\* Variant: Steal does not take fDeviceControllerMutex.
StealDeviceControlUnlocked(t) == fDeviceController' = PluginOf(t)

StealDeviceControl(t) == MutexFree /\ fDeviceController' = PluginOf(t)

TakeDeviceControl(t) ==
    /\ MutexFree
    /\ fDeviceController \in {"nobody", PluginOf(t)}
    /\ fDeviceController' = PluginOf(t)

ReleaseDeviceControl(t) ==
    /\ MutexFree
    /\ fDeviceController' = IF fDeviceController = PluginOf(t) THEN "nobody" ELSE fDeviceController

\* A thread of another plugin makes any call.
PluginCall(t) ==
    /\ t \in OtherPlugins
    /\ At(t, "plugin")
    /\ main # "~Control" /\ main # "exited"
    /\ calls < MaxCalls
    /\ calls' = calls + 1
    /\ \/ /\ \/ TakeDeviceControl(t)
             \/ StealDeviceControl(t)
             \/ ReleaseDeviceControl(t)
          /\ UNCHANGED <<vars, at>>
       \/ \E e \in Requests : ChangeDeviceState(t, e, "plugin")
    /\ UNCHANGED <<fEvents, nextState, flagVars, main>>

-----------------------------------------------------------------------------
(* The threads of the Control plugin.                                      *)

\* RunStartupSequence: requests, and the states waited for in between.
StartupRequest == [
    start       |-> [event |-> "INIT_DEVICE", next |-> "initDevice"],
    deviceReady |-> [event |-> "INIT_TASK",   next |-> "initTask"],
    ready       |-> [event |-> "RUN",         next |-> "running"] ]

StartupWait == [
    initDevice |-> [state |-> "DEVICE_READY", next |-> "deviceReady"],
    initTask   |-> [state |-> "READY",        next |-> "ready"],
    running    |-> [state |-> "RUNNING",      next |-> "started"] ]

\* RunShutdownSequence: what it requests in each state it hears of.
ShutdownEvent == [
    IDLE         |-> "END",
    DEVICE_READY |-> "RESET_DEVICE",
    READY        |-> "RESET_TASK",
    RUNNING      |-> "STOP",
    PAUSED       |-> "RUN" ]

RunStartupSequence ==
    /\ \E p \in DOMAIN StartupRequest :
          /\ At("controller", p)
          /\ \/ ChangeDeviceState("controller", StartupRequest[p].event, StartupRequest[p].next)
             \/ ChangeDeviceStateThrows("controller")
    /\ UNCHANGED <<fEvents, nextState, flagVars, main, calls>>

\* WaitForNextState leaves an Error in the queue and throws DeviceErrorState.
WaitThrows(t) ==
    /\ fEvents # <<>>
    /\ Head(fEvents) = "Error"
    /\ Proceed(t, "ended")
    /\ UNCHANGED fEvents

WaitForNextState ==
    /\ fEvents # <<>>
    /\ Head(fEvents) # "Error"
    /\ fEvents' = Tail(fEvents)

StartupWaits ==
    /\ \E p \in DOMAIN StartupWait :
          /\ At("controller", p)
          /\ \/ WaitThrows("controller")
             \/ /\ WaitForNextState
                /\ Proceed("controller",
                           IF Head(fEvents) = StartupWait[p].state THEN StartupWait[p].next ELSE p)
    /\ UNCHANGED <<vars, fDeviceController, nextState, flagVars, main, calls>>

\* StaticMode waits for the next event or for the shutdown request, and then
\* looks at the front of the queue in both cases: of an empty queue that is any
\* value, Error included.
StaticMode ==
    /\ ~Interactive
    /\ At("controller", "started")
    /\ fEvents # <<>> \/ fDeviceShutdownRequested
    /\ \/ (fEvents # <<>> => Head(fEvents) = "Error") /\ Proceed("controller", "ended")
       \/ (fEvents # <<>> => Head(fEvents) # "Error") /\ Proceed("controller", "shutdown")
    /\ UNCHANGED <<vars, fDeviceController, fEvents, nextState, flagVars, main, calls>>

\* InteractiveMode: a key is read unless the shutdown has been requested, ...
ReadKey ==
    /\ Interactive
    /\ At("controller", "started")
    /\ ~fDeviceShutdownRequested
    /\ calls < MaxCalls
    /\ calls' = calls + 1
    /\ Proceed("controller", "key")
    /\ UNCHANGED <<vars, fDeviceController, fEvents, nextState, flagVars, main>>

\* ... and requests a transition, perhaps after the shutdown request.
KeyPressed ==
    /\ At("controller", "key")
    /\ \/ \E e \in Requests \ {"END", "ERROR_FOUND"} : ChangeDeviceState("controller", e, "started")
       \/ ChangeDeviceStateThrows("controller")
    /\ UNCHANGED <<fEvents, nextState, flagVars, main, calls>>

\* [q] leaves the loop; an Error state is noticed first.
QuitKey ==
    /\ Interactive
    /\ At("controller", "started")
    /\ Proceed("controller", IF fState = "Error" THEN "ended" ELSE "shutdown")
    /\ UNCHANGED <<vars, fDeviceController, fEvents, nextState, flagVars, main, calls>>

\* The loop notices the Error state or the shutdown request.
InteractiveModeEnds ==
    /\ Interactive
    /\ At("controller", "started")
    /\ \/ fState = "Error" /\ Proceed("controller", "ended")
       \/ fDeviceShutdownRequested /\ Proceed("controller", "shutdown")
    /\ UNCHANGED <<vars, fDeviceController, fEvents, nextState, flagVars, main, calls>>

\* RunShutdownSequence reads the current state and then empties the queue.
ReadCurrentState(t) ==
    /\ At(t, "shutdown")
    /\ nextState' = fState
    /\ Proceed(t, "emptyQueue")
    /\ UNCHANGED <<vars, fDeviceController, fEvents, flagVars, main, calls>>

EmptyEventQueue(t) ==
    /\ At(t, "emptyQueue")
    /\ fEvents' = <<>>
    /\ Proceed(t, "request")
    /\ UNCHANGED <<vars, fDeviceController, nextState, flagVars, main, calls>>

ShutdownRequest(t) ==
    /\ At(t, "request")
    /\ nextState \notin {"EXITING", "Error"}
    /\ \/ /\ nextState \in DOMAIN ShutdownEvent
          /\ \/ ChangeDeviceState(t, ShutdownEvent[nextState], "nextState")
             \/ ChangeDeviceStateThrows(t)
       \/ /\ nextState \notin DOMAIN ShutdownEvent
          /\ Proceed(t, "nextState")
          /\ UNCHANGED <<vars, fDeviceController>>
    /\ UNCHANGED <<fEvents, nextState, flagVars, main, calls>>

ShutdownWaits(t) ==
    /\ At(t, "nextState")
    /\ \/ WaitThrows(t) /\ UNCHANGED nextState
       \/ WaitForNextState /\ nextState' = Head(fEvents) /\ Proceed(t, "request")
    /\ UNCHANGED <<vars, fDeviceController, flagVars, main, calls>>

\* fDeviceHasShutdown is set, then control is released.
ShutdownDone(t) ==
    /\ At(t, "request")
    /\ nextState \in {"EXITING", "Error"}
    /\ ReleaseDeviceControl(t)
    /\ fDeviceHasShutdown' = TRUE
    /\ Proceed(t, "ended")
    /\ UNCHANGED <<vars, fEvents, nextState, fDeviceShutdownRequested, fPluginShutdownRequested, gSignalCount, main, calls>>

RunShutdownSequence(t) ==
    \/ ReadCurrentState(t) \/ EmptyEventQueue(t) \/ ShutdownRequest(t)
    \/ ShutdownWaits(t) \/ ShutdownDone(t)

\* The first signal; a second one aborts the process.
signal_handler ==
    /\ Signals
    /\ gSignalCount = 0
    /\ gSignalCount' = 1
    /\ UNCHANGED <<vars, fDeviceController, fEvents, at, nextState, fDeviceShutdownRequested,
                   fDeviceHasShutdown, fPluginShutdownRequested, main, calls>>

\* Variant: the controller thread is not told.
SignalHandlerForgets ==
    /\ At("signalHandler", "waitSignal")
    /\ gSignalCount > 0
    /\ ~fPluginShutdownRequested
    /\ Proceed("signalHandler", "join")
    /\ UNCHANGED <<vars, fDeviceController, fEvents, nextState, flagVars, main, calls>>

SignalHandler ==
    /\ At("signalHandler", "waitSignal")
    /\ gSignalCount > 0
    /\ ~fPluginShutdownRequested
    /\ fDeviceShutdownRequested' = TRUE
    /\ Proceed("signalHandler", "join")
    /\ UNCHANGED <<vars, fDeviceController, fEvents, nextState, fDeviceHasShutdown,
                   fPluginShutdownRequested, gSignalCount, main, calls>>

SignalHandlerEnds ==
    /\ \/ At("signalHandler", "waitSignal") /\ fPluginShutdownRequested
       \/ At("signalHandler", "join") /\ at["controller"] = "ended" /\ fDeviceHasShutdown
    /\ Proceed("signalHandler", "ended")
    /\ UNCHANGED <<vars, fDeviceController, fEvents, nextState, flagVars, main, calls>>

\* The controller thread is over and has not shut the device down.
SignalHandlerSteals ==
    /\ At("signalHandler", "join")
    /\ at["controller"] = "ended"
    /\ ~fDeviceHasShutdown
    /\ StealDeviceControl("signalHandler")
    /\ Proceed("signalHandler", "shutdown")
    /\ UNCHANGED <<vars, fEvents, nextState, flagVars, main, calls>>

-----------------------------------------------------------------------------
(* DeviceRunner::Run.                                                      *)

\* RunStateMachine returned: wait for the release of device control.
RunStateMachineReturns ==
    /\ main = "RunStateMachine"
    /\ worker = "exited"
    /\ main' = "WaitForRelease"
    /\ UNCHANGED <<vars, fDeviceController, fEvents, at, nextState, flagVars, calls>>

\* Variant: the destructor does not tell the signal handler to end.
DestroyPluginsSilently ==
    /\ \/ main = "WaitForRelease" /\ MutexFree /\ fDeviceController = "nobody"
       \/ main = "RunStateMachine" /\ worker = "failed"
    /\ main' = "~Control"
    /\ UNCHANGED <<vars, fDeviceController, fEvents, at, nextState, flagVars, calls>>

\* Control's destructor starts, after the release or after an exception.
DestroyPlugins ==
    /\ \/ main = "WaitForRelease" /\ MutexFree /\ fDeviceController = "nobody"
       \/ main = "RunStateMachine" /\ worker = "failed"
    /\ fPluginShutdownRequested' = TRUE
    /\ main' = "~Control"
    /\ UNCHANGED <<vars, fDeviceController, fEvents, at, nextState, fDeviceShutdownRequested,
                   fDeviceHasShutdown, gSignalCount, calls>>

\* It joins both threads.
Exit ==
    /\ main = "~Control"
    /\ \A t \in ControlThreads : at[t] = "ended"
    /\ main' = "exited"
    /\ UNCHANGED <<vars, fDeviceController, fEvents, at, nextState, flagVars, calls>>

-----------------------------------------------------------------------------
ControlThreadStep ==
    \/ RunStartupSequence \/ StartupWaits \/ StaticMode \/ KeyPressed \/ InteractiveModeEnds
    \/ SignalHandler \/ SignalHandlerEnds \/ SignalHandlerSteals
    \/ \E t \in ControlThreads : RunShutdownSequence(t)

MainStep == RunStateMachineReturns \/ DestroyPlugins \/ Exit

ControlNext ==
    \/ DeviceStep
    \/ ControlThreadStep
    \/ MainStep
    \/ ReadKey
    \/ QuitKey
    \/ signal_handler
    \/ \E t \in OtherPlugins : PluginCall(t)

ControlSpec == ControlInit /\ [][ControlNext]_allVars

\* The threads of the process run when they can.  Nobody has to press a key,
\* to send a signal or to deliver data.
ControlFairness ==
    /\ WF_allVars(DeviceStep /\ WorkerStep)
    /\ \A c \in Controllers : WF_allVars(DeviceStep /\ ControllerStep(c))
    /\ SF_allVars(DeviceStep /\ ErrorFound)
    /\ WF_allVars(DeviceStep /\ LogSocketRates)
    /\ WF_allVars(RunStartupSequence \/ StartupWaits \/ StaticMode \/ KeyPressed \/ InteractiveModeEnds)
    /\ WF_allVars(SignalHandler \/ SignalHandlerEnds \/ SignalHandlerSteals)
    /\ \A t \in ControlThreads : WF_allVars(RunShutdownSequence(t))
    /\ WF_allVars(MainStep)

ControlLiveSpec == ControlSpec /\ ControlFairness

-----------------------------------------------------------------------------
(* Properties.                                                             *)

ControlPoints == {"start", "initDevice", "deviceReady", "initTask", "ready", "running",
    "started", "key", "shutdown", "emptyQueue", "request", "nextState", "ended",
    "waitSignal", "join", "plugin"}

\* Every variable keeps its type.
ControlTypeOK ==
    /\ fDeviceController \in {"nobody", "control"} \cup OtherPlugins
    /\ fEvents \in Seq(States)
    /\ at \in [Controllers -> ControlPoints]
    /\ nextState \in States \cup {"none"}
    /\ fDeviceShutdownRequested \in BOOLEAN
    /\ fDeviceHasShutdown \in BOOLEAN
    /\ fPluginShutdownRequested \in BOOLEAN
    /\ gSignalCount \in {0, 1}
    /\ main \in {"RunStateMachine", "WaitForRelease", "~Control", "exited"}
    /\ calls \in 0 .. MaxCalls

\* While a ChangeState call is in progress, however long it waits for the
\* worker, its plugin owns device control: control cannot be stolen, taken or
\* released under it, and no second call is made.
OwnerRequests ==
    \A t \in Controllers : pc[t] # "idle" =>
        /\ fDeviceController = PluginOf(t)
        /\ \A u \in Controllers \ {t} : pc[u] = "idle"

\* The two threads of Control never use the event queue and the shutdown
\* sequence at the same time: the signal handler joins the controller first.
OneShutdownAtATime ==
    at["signalHandler"] \in {"shutdown", "emptyQueue", "request", "nextState"} =>
        at["controller"] = "ended"

\* A thread of Control that says the device has shut down is right.
HasShutdown ==
    fDeviceHasShutdown => fState \in {"EXITING", "Error"}

\* The startup sequence reaches RUNNING or ends because of an error.
StartupEnds == at["controller"] = "start" ~> at["controller"] \in {"started", "ended"}

\* A Run() that returns, or a handler that throws, ends the process; no signal
\* is needed for it.
ProcessEnds == [](gSignalCount = 0) => (worker \in {"returned", "failed"} ~> main = "exited")

\* Run() returned although nobody stopped it, or user code threw.
RunEndsByItself == worker = "unwind" \/ (worker = "returned" /\ fState = "RUNNING")

\* A signal ends a process whose Run() does not end by itself: the shutdown sequence
\* leads to EXITING, control is released and the destructor of Control joins both
\* threads. The exception: STOP may come before RunWrapper resumes the transports, and a
\* Run() that receives without a look at the state then waits for data for ever.
SignalEndsProcess ==
    []~RunEndsByItself => (gSignalCount = 1 ~> (main = "exited" \/ []MissedStop))
=============================================================================
