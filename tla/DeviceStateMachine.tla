------------------------- MODULE DeviceStateMachine -------------------------
(***************************************************************************)
(* The FairMQ device state machine (fairmq/FairMQStateMachine.cxx) with    *)
(* the state handlers of FairMQDevice.cxx.                                 *)
(*                                                                         *)
(* Any thread may call ChangeState; the boost::msm machine behind it is    *)
(* serialised by fChangeStateMutex.  The transition actions DefaultFct and *)
(* StopFct block, still holding that mutex, until the worker (the thread   *)
(* inside ProcessWork) has finished the handler it executes.  The worker   *)
(* runs one handler at a time and calls ChangeState itself, from inside a  *)
(* handler, to leave the transient states.                                 *)
(*                                                                         *)
(* Granularity.  fWorkMutex protects only short critical sections: each is *)
(* one step.  Taking fChangeStateMutex and writing fState are one step,    *)
(* and so are the last effect of a transition action, the msm update of    *)
(* the active state and the release of the mutex: no other thread can see  *)
(* the difference.                                                         *)
(***************************************************************************)
CONSTANTS
    Controllers,        \* threads that call ChangeState(event)
    Waiters,            \* threads that call WaitForEndOfState[ForMs]
    Requests,           \* the events the controllers ask for
    RunMayReturn,       \* Run() may return while the state is RUNNING
    UserCodeMayThrow,   \* user hooks may throw
    ChannelsMayFail,    \* binding or connecting a channel may fail
    RateLogging,        \* some channel has rateLogging > 0 (the default)
    NoThread            \* "fChangeStateMutex is free"

States == {"IDLE", "INITIALIZING_DEVICE", "DEVICE_READY", "INITIALIZING_TASK",
           "READY", "RUNNING", "PAUSED", "RESETTING_TASK", "RESETTING_DEVICE",
           "EXITING", "Error"}

ExternalEvents == {"INIT_DEVICE", "INIT_TASK", "RUN", "PAUSE", "STOP",
                   "RESET_TASK", "RESET_DEVICE", "END", "ERROR_FOUND"}

ASSUME ConstantsAssumption ==
    /\ NoThread \notin Controllers
    /\ Controllers \cap Waiters = {}
    /\ Requests \subseteq ExternalEvents
    /\ RunMayReturn \in BOOLEAN
    /\ UserCodeMayThrow \in BOOLEAN
    /\ ChannelsMayFail \in BOOLEAN
    /\ RateLogging \in BOOLEAN

Row(from, event, to, action) ==
    [from |-> from, event |-> event, to |-> to, action |-> action]

\* The rows of the main region.  The single row of the other region,
\* OK --ERROR_FOUND--> ERROR, is ErrorFoundFct below.
transition_table == {
    Row("IDLE",                "INIT_DEVICE",           "INITIALIZING_DEVICE", "DefaultFct"),
    Row("IDLE",                "END",                   "EXITING",             "ExitingFct"),
    Row("INITIALIZING_DEVICE", "internal_DEVICE_READY", "DEVICE_READY",        "AutomaticFct"),
    Row("DEVICE_READY",        "INIT_TASK",             "INITIALIZING_TASK",   "DefaultFct"),
    Row("DEVICE_READY",        "RESET_DEVICE",          "RESETTING_DEVICE",    "DefaultFct"),
    Row("INITIALIZING_TASK",   "internal_READY",        "READY",               "AutomaticFct"),
    Row("READY",               "RUN",                   "RUNNING",             "DefaultFct"),
    Row("READY",               "RESET_TASK",            "RESETTING_TASK",      "DefaultFct"),
    Row("RUNNING",             "PAUSE",                 "PAUSED",              "DefaultFct"),
    Row("RUNNING",             "STOP",                  "READY",               "StopFct"),
    Row("RUNNING",             "internal_READY",        "READY",               "InternalStopFct"),
    Row("PAUSED",              "RUN",                   "RUNNING",             "DefaultFct"),
    Row("RESETTING_TASK",      "internal_DEVICE_READY", "DEVICE_READY",        "AutomaticFct"),
    Row("RESETTING_DEVICE",    "internal_IDLE",         "IDLE",                "AutomaticFct") }

\* fStateHandlers: a handler is named by the event that posts it.
Handlers == {"INIT_DEVICE", "INIT_TASK", "RUN", "PAUSE", "RESET_TASK", "RESET_DEVICE"}

\* The state each handler announces with CallStateChangeCallbacks.
HandlerState == [
    INIT_DEVICE  |-> "INITIALIZING_DEVICE",
    INIT_TASK    |-> "INITIALIZING_TASK",
    RUN          |-> "RUNNING",
    PAUSE        |-> "PAUSED",
    RESET_TASK   |-> "RESETTING_TASK",
    RESET_DEVICE |-> "RESETTING_DEVICE" ]

\* The handlers whose last statement leaves their state with an internal event.
TransientHandlers == {"INIT_DEVICE", "INIT_TASK", "RESET_TASK", "RESET_DEVICE"}

InternalEvent == [
    INIT_DEVICE  |-> "internal_DEVICE_READY",
    INIT_TASK    |-> "internal_READY",
    RESET_TASK   |-> "internal_DEVICE_READY",
    RESET_DEVICE |-> "internal_IDLE" ]

TransientStates == {"INITIALIZING_DEVICE", "INITIALIZING_TASK",
                    "RESETTING_TASK", "RESETTING_DEVICE"}

VARIABLES
    fState,                 \* the atomic every thread reads
    activeState,            \* msm: active state of the main region
    errorRegion,            \* msm: active state of the OK/ERROR region
    fChangeStateMutex,      \* the controller holding it, or NoThread
    pc,                     \* where each controller and waiter is
    request,                \* the event each controller passed to ChangeState
    worker,                 \* where the worker thread is
    fWork, fWorkActive, fWorkAvailable, fWorkerTerminated,
    fInterrupted,           \* device flag read by WaitFor
    transportsInterrupted,  \* transport flags read by Send/Receive
    rateLogger              \* is the LogSocketRates thread alive?

msmVars       == <<fState, activeState, errorRegion>>
callVars      == <<fChangeStateMutex, pc, request>>
workVars      == <<fWork, fWorkActive, fWorkAvailable, fWorkerTerminated>>
interruptVars == <<fInterrupted, transportsInterrupted>>
vars == <<msmVars, callVars, worker, workVars, interruptVars, rateLogger>>

Threads == Controllers \cup Waiters

Init ==
    /\ fState = "IDLE"
    /\ activeState = "IDLE"
    /\ errorRegion = "OK"
    /\ fChangeStateMutex = NoThread
    /\ pc = [t \in Threads |-> "idle"]
    /\ request = [c \in Controllers |-> "none"]
    /\ worker = "wait"
    /\ fWork = "none"
    /\ fWorkActive = FALSE
    /\ fWorkAvailable = FALSE
    /\ fWorkerTerminated = FALSE
    /\ fInterrupted = FALSE
    /\ transportsInterrupted = FALSE
    /\ rateLogger = FALSE

-----------------------------------------------------------------------------
(* Callers of ChangeState.                                                 *)

Goto(t, where) == pc' = [pc EXCEPT ![t] = where]

Return(c) == Goto(c, "idle") /\ request' = [request EXCEPT ![c] = "none"]

\* msm finds the row of event e in the active state; a terminated machine
\* (ERROR is a terminate state) swallows every event.
Fires(r, e) ==
    /\ errorRegion = "OK"
    /\ r \in transition_table
    /\ r.from = activeState
    /\ r.event = e

NoRow(e) == ~ \E r \in transition_table : Fires(r, e)

ChangeState(c, e) ==
    /\ pc[c] = "idle"
    /\ request' = [request EXCEPT ![c] = e]
    /\ Goto(c, "lock")
    /\ UNCHANGED <<msmVars, fChangeStateMutex, worker, workVars, interruptVars, rateLogger>>

\* Variant: ChangeState without fChangeStateMutex.
LockingWithoutMutex(c) == pc[c] = "lock"

Locking(c) == pc[c] = "lock" /\ fChangeStateMutex = NoThread

\* no_transition only logs, and ChangeState returns true all the same.
no_transition(c) ==
    /\ Locking(c)
    /\ NoRow(request[c])
    /\ request[c] = "ERROR_FOUND" => errorRegion = "Error"
    /\ Return(c)
    /\ UNCHANGED <<msmVars, fChangeStateMutex, worker, workVars, interruptVars, rateLogger>>

\* A blocking action starts: fState is written at once, the msm state stays.
BeginAction(c, action, next) ==
    /\ Locking(c)
    /\ \E r \in transition_table :
          /\ Fires(r, request[c])
          /\ r.action = action
          /\ fState' = r.to
    /\ fChangeStateMutex' = c
    /\ Goto(c, next)
    /\ UNCHANGED <<activeState, errorRegion, request, worker, workVars, interruptVars, rateLogger>>

DefaultFct(c) == BeginAction(c, "DefaultFct", "wait")

\* Variant: STOP does not unblock the worker, as PAUSE does not.
StopFctWithoutUnblock(c) == BeginAction(c, "StopFct", "wait")

StopFct(c) == BeginAction(c, "StopFct", "unblock")

\* StopFct calls Unblock() after the state write and before it waits.
UnblockTransports(c) ==
    /\ pc[c] = "unblock"
    /\ transportsInterrupted' = TRUE
    /\ Goto(c, "unblockDevice")
    /\ UNCHANGED <<msmVars, fChangeStateMutex, request, worker, workVars, fInterrupted, rateLogger>>

UnblockDevice(c) ==
    /\ pc[c] = "unblockDevice"
    /\ fInterrupted' = TRUE
    /\ Goto(c, "wait")
    /\ UNCHANGED <<msmVars, fChangeStateMutex, request, worker, workVars, transportsInterrupted, rateLogger>>

\* while (fWorkActive) fWorkDoneCondition.wait(lock)
WaitForWorkDone(c) ==
    /\ pc[c] = "wait"
    /\ fWorkActive
    /\ Goto(c, "sleep")
    /\ UNCHANGED <<msmVars, fChangeStateMutex, request, worker, workVars, interruptVars, rateLogger>>

\* The action returns: msm enters the target state, the mutex is released.
EndAction(c) ==
    /\ pc[c] = "wait"
    /\ ~fWorkActive
    /\ \E r \in transition_table : Fires(r, request[c]) /\ activeState' = r.to
    /\ fChangeStateMutex' = NoThread
    /\ Return(c)
    /\ UNCHANGED <<fState, errorRegion, worker, fWorkActive, fWorkerTerminated, interruptVars, rateLogger>>

\* The last lines of DefaultFct overwrite whatever work is still posted.
DefaultFctPost(c) ==
    /\ EndAction(c)
    /\ request[c] # "STOP"
    /\ fWorkAvailable' = TRUE
    /\ fWork' = request[c]

StopFctReturn(c) ==
    /\ EndAction(c)
    /\ request[c] = "STOP"
    /\ UNCHANGED <<fWork, fWorkAvailable>>

\* Variant: END does not tell the worker.
ExitingFctSilent(c) ==
    /\ Locking(c)
    /\ \E r \in transition_table :
          /\ Fires(r, request[c])
          /\ r.action = "ExitingFct"
          /\ fState' = r.to
          /\ activeState' = r.to
    /\ Return(c)
    /\ UNCHANGED <<errorRegion, fChangeStateMutex, worker, workVars, interruptVars, rateLogger>>

ExitingFct(c) ==
    /\ Locking(c)
    /\ \E r \in transition_table :
          /\ Fires(r, request[c])
          /\ r.action = "ExitingFct"
          /\ fState' = r.to
          /\ activeState' = r.to
    /\ fWorkerTerminated' = TRUE
    /\ Return(c)
    /\ UNCHANGED <<errorRegion, fChangeStateMutex, worker, fWork, fWorkActive, fWorkAvailable, interruptVars, rateLogger>>

SetError ==
    /\ errorRegion = "OK"
    /\ errorRegion' = "Error"
    /\ fState' = "Error"

ErrorFoundFct(c) ==
    /\ Locking(c)
    /\ request[c] = "ERROR_FOUND"
    /\ SetError
    /\ Return(c)
    /\ UNCHANGED <<activeState, fChangeStateMutex, worker, workVars, interruptVars, rateLogger>>

\* A condition variable may wake a sleeper for no reason.
SpuriousWakeup(c) ==
    /\ pc[c] = "sleep"
    /\ Goto(c, "wait")
    /\ UNCHANGED <<msmVars, fChangeStateMutex, request, worker, workVars, interruptVars, rateLogger>>

-----------------------------------------------------------------------------
(* WaitForEndOfState and WaitForEndOfStateForMs share fWorkDoneCondition.  *)

WaiterStep(q, from, to) ==
    /\ q \in Waiters
    /\ pc[q] = from
    /\ Goto(q, to)
    /\ UNCHANGED <<msmVars, fChangeStateMutex, request, worker, workVars, interruptVars, rateLogger>>

WaitForEndOfState(q) == WaiterStep(q, "idle", "wait")

WaiterSleeps(q) == (fWorkActive \/ fWorkAvailable) /\ WaiterStep(q, "wait", "sleep")

WaiterTimeout(q) == WaiterStep(q, "sleep", "wait")

WaiterReturns(q) == ~(fWorkActive \/ fWorkAvailable) /\ WaiterStep(q, "wait", "idle")

\* The ForMs variant gives up when it wakes while a handler is active.
WaitForEndOfStateForMsGivesUp(q) == fWorkActive /\ WaiterStep(q, "wait", "idle")

-----------------------------------------------------------------------------
(* The worker thread: ProcessWork and the handlers it calls.               *)

\* The worker moves on without touching shared state.
Advance(from, to) ==
    /\ worker = from
    /\ worker' = to
    /\ UNCHANGED <<msmVars, callVars, workVars, interruptVars, rateLogger>>

\* fWorkDoneCondition.notify_one() wakes at most one sleeper, whichever it is.
NotifyOne ==
    LET asleep == {t \in Threads : pc[t] = "sleep"}
    IN  IF asleep = {} THEN UNCHANGED pc
                       ELSE \E t \in asleep : Goto(t, "wait")

\* ProcessWork: fWork is called after fWorkMutex has been released.
TakeWork ==
    /\ worker = "wait"
    /\ ~fWorkerTerminated
    /\ fWorkAvailable
    /\ fWorkActive' = TRUE
    /\ worker' = IF fWork = "INIT_DEVICE" THEN "bind" ELSE "announce"
    /\ UNCHANGED <<msmVars, callVars, fWork, fWorkAvailable, fWorkerTerminated, interruptVars, rateLogger>>

Terminate == fWorkerTerminated /\ Advance("wait", "exited")

\* InitWrapper: ERROR_FOUND is requested, and the handler carries on.
BindChannels == \/ Advance("bind", "announce")
                \/ ChannelsMayFail /\ Advance("bind", "bindError")

RequestError(from, to) ==
    /\ worker = from
    /\ fChangeStateMutex = NoThread
    /\ IF errorRegion = "OK" THEN SetError ELSE UNCHANGED <<errorRegion, fState>>
    /\ worker' = to
    /\ UNCHANGED <<activeState, callVars, workVars, interruptVars, rateLogger>>

BindError == RequestError("bindError", "announce")

\* CallStateChangeCallbacks, the first statement of the other handlers.
Announce ==
    \/ fWork = "INIT_DEVICE" /\ Advance("announce", "connect")
    \/ fWork = "RUN" /\ Advance("announce", "resume")
    \/ fWork = "PAUSE" /\ Advance("announce", "paused")
    \/ fWork \in TransientHandlers \ {"INIT_DEVICE"} /\ Advance("announce", "user")

\* The connecting loop: after the last attempt every further one requests
\* ERROR_FOUND, and the loop goes on.
ConnectChannels == \/ Advance("connect", "user")
                   \/ ChannelsMayFail /\ Advance("connect", "connectError")

\* Variant: the connecting loop goes on silently after its last attempt.
ConnectErrorIgnored == Advance("connectError", "connect")

ConnectError == RequestError("connectError", "connect")

\* Init(), InitTask(), ResetTask(), Reset()
UserHook == \/ Advance("user", "leave")
            \/ UserCodeMayThrow /\ Advance("user", "unwind")

\* ChangeState(internal_...) at the end of a transient handler.
AutomaticFct ==
    /\ worker = "leave"
    /\ fChangeStateMutex = NoThread
    /\ fWork \in TransientHandlers
    /\ \/ \E r \in transition_table :
              /\ Fires(r, InternalEvent[fWork])
              /\ fState' = r.to
              /\ activeState' = r.to
       \/ NoRow(InternalEvent[fWork]) /\ UNCHANGED <<fState, activeState>>
    /\ worker' = "done"
    /\ UNCHANGED <<errorRegion, callVars, workVars, interruptVars, rateLogger>>

\* RunWrapper starts LogSocketRates and clears the interruption flags.
RunWrapper ==
    /\ worker = "resume"
    /\ rateLogger' = RateLogging
    /\ fInterrupted' = FALSE
    /\ worker' = "resumeTransports"
    /\ UNCHANGED <<msmVars, callVars, workVars, transportsInterrupted>>

\* A STOP that came before is forgotten; the points that are called late
\* remember that the device had left RUNNING by then.
ResumeTransports ==
    /\ worker = "resumeTransports"
    /\ transportsInterrupted' = FALSE
    /\ worker' = IF fState = "RUNNING" THEN "firstCall" ELSE "lateCall"
    /\ UNCHANGED <<msmVars, callVars, workVars, fInterrupted, rateLogger>>

\* PreRun() and Run() are called whatever the state is, and may block at once.
\* One such call stands for the calls made before the first look at the state.
FirstCall ==
    \/ Advance("firstCall", "receive") \/ Advance("lateCall", "lateReceive")
    \/ Advance("firstCall", "waitFor") \/ Advance("lateCall", "lateWaitFor")
    \/ \E p \in {"firstCall", "lateCall"} : Advance(p, "run")

\* ConditionalRun(), the data callbacks and the rest of Run() look at the state
\* before each blocking call.
RunLoop ==
    \/ fState = "RUNNING" /\ Advance("run", "receive")
    \/ fState = "RUNNING" /\ Advance("run", "waitFor")
    \/ (fState # "RUNNING" \/ RunMayReturn) /\ Advance("run", "returned")
    \/ UserCodeMayThrow /\ Advance("run", "unwind")

Receive ==
    \E p \in {"receive", "lateReceive"} :
        \/ Advance(p, "run")
        \/ RunMayReturn /\ Advance(p, "returned")
        \/ UserCodeMayThrow /\ Advance(p, "unwind")

ReceiveInterrupted ==
    transportsInterrupted /\ \E p \in {"receive", "lateReceive"} : Advance(p, "returned")

WaitFor == Advance("waitFor", "run") \/ Advance("lateWaitFor", "run")

\* The state is checked, then ChangeState is called: two steps.
RunReturned ==
    \/ fState = "RUNNING" /\ Advance("returned", "stopSelf")
    \/ fState # "RUNNING" /\ Advance("returned", "postRun")

InternalStopFct ==
    /\ worker = "stopSelf"
    /\ fChangeStateMutex = NoThread
    /\ \/ \E r \in transition_table :
              /\ Fires(r, "internal_READY")
              /\ fState' = r.to
              /\ activeState' = r.to
              /\ transportsInterrupted' = TRUE
              /\ fInterrupted' = TRUE
       \/ NoRow("internal_READY") /\ UNCHANGED <<fState, activeState, interruptVars>>
    /\ worker' = "postRun"
    /\ UNCHANGED <<errorRegion, callVars, workVars, rateLogger>>

PostRun == \/ Advance("postRun", "join")
           \/ UserCodeMayThrow /\ Advance("postRun", "unwind")

JoinRateLogger == ~rateLogger /\ Advance("join", "done")

Pause == fState # "PAUSED" /\ Advance("paused", "done")

\* Variant: the worker forgets to notify.
ClearWorkSilently(from, to) ==
    /\ worker = from
    /\ fWorkActive' = FALSE
    /\ fWorkAvailable' = FALSE
    /\ worker' = to
    /\ UNCHANGED <<msmVars, callVars, fWork, fWorkerTerminated, interruptVars, rateLogger>>

ClearWork(from, to) ==
    /\ worker = from
    /\ fWorkActive' = FALSE
    /\ fWorkAvailable' = FALSE
    /\ NotifyOne
    /\ worker' = to
    /\ UNCHANGED <<msmVars, fChangeStateMutex, request, fWork, fWorkerTerminated, interruptVars, rateLogger>>

WorkDone == ClearWork("done", "notify")

\* CallStateChangeCallbacks(fState), after the mutex has been released.
NotifyState == Advance("notify", "wait")

\* An exception leaves the handler: the future of the rate logger joins its
\* thread in its destructor, then ProcessWork's handler runs.
Unwind == ~rateLogger /\ Advance("unwind", "catch")

\* Variant: the exception handler leaves fWorkActive set.
CatchExceptionKeepingWork == Advance("catch", "error")

CatchException == ClearWork("catch", "error")

ErrorFound == RequestError("error", "failed")

LogSocketRates ==
    /\ rateLogger
    /\ fState # "RUNNING"
    /\ rateLogger' = FALSE
    /\ UNCHANGED <<msmVars, callVars, worker, workVars, interruptVars>>

-----------------------------------------------------------------------------
ControllerStep(c) ==
    \/ no_transition(c) \/ DefaultFct(c) \/ StopFct(c)
    \/ UnblockTransports(c) \/ UnblockDevice(c)
    \/ WaitForWorkDone(c) \/ DefaultFctPost(c) \/ StopFctReturn(c)
    \/ ExitingFct(c) \/ ErrorFoundFct(c)

WaiterNext(q) ==
    \/ WaitForEndOfState(q) \/ WaiterSleeps(q) \/ WaiterTimeout(q)
    \/ WaiterReturns(q) \/ WaitForEndOfStateForMsGivesUp(q)

\* Everything the worker does without waiting for data to arrive.
WorkerStep ==
    \/ TakeWork \/ Terminate \/ BindChannels \/ BindError \/ Announce
    \/ ConnectChannels \/ ConnectError \/ UserHook \/ AutomaticFct
    \/ RunWrapper \/ ResumeTransports \/ FirstCall \/ RunLoop \/ ReceiveInterrupted
    \/ WaitFor \/ RunReturned \/ InternalStopFct \/ PostRun \/ JoinRateLogger
    \/ Pause \/ WorkDone \/ NotifyState \/ Unwind \/ CatchException \/ ErrorFound

Next ==
    \/ \E c \in Controllers :
          \/ \E e \in Requests : ChangeState(c, e)
          \/ ControllerStep(c)
          \/ SpuriousWakeup(c)
    \/ \E q \in Waiters : WaiterNext(q)
    \/ WorkerStep
    \/ Receive
    \/ LogSocketRates

Spec == Init /\ [][Next]_vars

\* Threads that can run do run, and a thread that wants a mutex which is
\* released again and again gets it in the end.  No fairness for the requests,
\* for data arriving, for spurious wakeups and for WaitForEndOfState.
Fairness ==
    /\ WF_vars(WorkerStep)
    /\ SF_vars(ErrorFound)
    /\ WF_vars(LogSocketRates)
    /\ \A c \in Controllers : WF_vars(ControllerStep(c))

LiveSpec == Spec /\ Fairness

-----------------------------------------------------------------------------
(* Properties.                                                             *)

WorkerPoints == {"wait", "bind", "bindError", "announce", "connect",
    "connectError", "user", "leave", "resume", "resumeTransports", "firstCall",
    "lateCall", "run", "receive", "lateReceive", "waitFor", "lateWaitFor", "returned", "stopSelf", "postRun", "join", "paused",
    "done", "notify", "unwind", "catch", "error", "exited", "failed"}

\* Every variable keeps its type; a waiter never takes part in ChangeState.
TypeOK ==
    /\ fState \in States
    /\ activeState \in States \ {"Error"}
    /\ errorRegion \in {"OK", "Error"}
    /\ fChangeStateMutex \in Controllers \cup {NoThread}
    /\ pc \in [Threads -> {"idle", "lock", "unblock", "unblockDevice", "wait", "sleep"}]
    /\ \A q \in Waiters : pc[q] \in {"idle", "wait", "sleep"}
    /\ request \in [Controllers -> ExternalEvents \cup {"none"}]
    /\ worker \in WorkerPoints
    /\ fWork \in Handlers \cup {"none"}
    /\ fWorkActive \in BOOLEAN
    /\ fWorkAvailable \in BOOLEAN
    /\ fWorkerTerminated \in BOOLEAN
    /\ fInterrupted \in BOOLEAN
    /\ transportsInterrupted \in BOOLEAN
    /\ rateLogger \in BOOLEAN

\* StopFct writes fState before it interrupts the transports, and RunWrapper
\* resumes them before Run() makes its first call. A worker that blocks in
\* Receive (or sleeps in WaitFor) although a STOP has moved the device to READY
\* has been interrupted, or the stopping thread is just about to do it, unless
\* the STOP came before the transports were resumed and Run() made the call
\* without a look at the state (lateReceive, lateWaitFor).
NoLostInterrupt ==
    fState = "READY" =>
      /\ worker = "receive" =>
           transportsInterrupted \/ \E c \in Controllers : pc[c] = "unblock"
      /\ worker = "waitFor" =>
           fInterrupted \/ \E c \in Controllers : pc[c] \in {"unblock", "unblockDevice"}

\* In a transient state somebody is always responsible for leaving it: the
\* ChangeState call that entered it and is still about to post the handler, or
\* the worker, to which exactly that handler is posted and which has not yet
\* passed its internal event; failing that, the worker is about to report the
\* exception that ended the handler.  Otherwise the device hangs there, as no
\* external event is accepted in a transient state.
TransientStateOwned ==
    fState \in TransientStates =>
      \/ \E c \in Controllers :
            /\ fChangeStateMutex = c
            /\ request[c] \in TransientHandlers
            /\ HandlerState[request[c]] = fState
      \/ /\ fWorkAvailable
         /\ fWork \in TransientHandlers
         /\ HandlerState[fWork] = fState
         /\ worker \in {"wait", "notify", "bind", "bindError", "announce", "connect",
                       "connectError", "user", "leave", "unwind", "catch"}
      \/ worker = "error"

\* A worker that leaves ProcessWork abandons nothing: after END no handler is
\* posted or running, and after an exception the device is in the Error state.
NoAbandonedWork ==
    /\ worker = "exited" => ~fWorkAvailable /\ ~fWorkActive /\ fState \in {"EXITING", "Error"}
    /\ worker = "failed" => ~fWorkActive /\ fState = "Error"

\* While a handler executes nobody replaces fWork or withdraws fWorkAvailable:
\* DefaultFct waits for fWorkActive, so the flags ProcessWork clears at the end
\* are those of the handler it has executed.
ActiveHandlerKept ==
    [][fWorkActive => /\ fWork' = fWork
                      /\ fWorkAvailable' \/ ~fWorkActive']_vars

\* The states other threads see follow the transition table, one handler
\* executes at a time, and a transient state is left only by its own handler.
Lifecycle ==
    INSTANCE DeviceLifecycle WITH
        state <- fState,
        executing <- IF fWorkActive THEN fWork ELSE "none"

LifecycleSpec == Lifecycle!Spec

\* Run() waits for data in a call that a STOP came too early to interrupt.
MissedStop == worker = "lateReceive"

\* Every transient state ends, with its handler's internal event or in Error,
\* unless the worker has missed a STOP and no data arrives any more.
TransientStatesEnd ==
    fState \in TransientStates ~> (fState \notin TransientStates \/ []MissedStop)

\* A ChangeState call that sleeps on fWorkDoneCondition returns once the handler
\* it waits for is over.
WaitingCallReturns ==
    \A c \in Controllers :
        pc[c] = "sleep" /\ worker \in {"done", "catch"} ~> pc[c] = "idle"

\* An exception thrown by user code ends in the Error state, outside ProcessWork.
ExceptionReachesError == worker = "unwind" ~> worker = "failed" /\ fState = "Error"

\* END makes the worker leave ProcessWork.
EndTerminatesWorker == fState = "EXITING" ~> worker = "exited"

\* A Run() that returned in RUNNING takes the device to READY.
SelfStopCompletes == worker = "stopSelf" ~> worker = "postRun"
=============================================================================
