------------------------- MODULE DeviceControlProofs -------------------------
(***************************************************************************)
(* Proofs about device control, for any set of plugins besides Control and *)
(* any number of keys and calls.                                           *)
(***************************************************************************)
EXTENDS DeviceControl, DeviceStateMachineProofs

-----------------------------------------------------------------------------
(* The device under control is the device of DeviceStateMachine.           *)

\* The events Control requests are requests of the device.
LEMMA ControlEvents ==
    /\ \A p \in DOMAIN StartupRequest : StartupRequest[p].event \in Requests
    /\ \A s \in DOMAIN ShutdownEvent : ShutdownEvent[s] \in Requests
  BY ControlAssumption DEF StartupRequest, ShutdownEvent

\* A call of ChangeDeviceState starts a call of ChangeState.
LEMMA CallStep ==
    ASSUME NEW t \in Controllers, NEW e \in Requests, NEW next, ChangeDeviceState(t, e, next)
    PROVE  Next
  BY DEF ChangeDeviceState, Next

\* Every step is a step of the device or leaves its variables alone.
LEMMA ControlNextStep == [ControlNext]_allVars => [Next]_vars
<1> SUFFICES ASSUME [ControlNext]_allVars PROVE Next \/ UNCHANGED vars
  OBVIOUS
<1>0. "controller" \in Controllers /\ "signalHandler" \in Controllers
  BY ControlAssumption DEF ControlThreads
<1>1. CASE DeviceStep
  BY <1>1, Zenon DEF DeviceStep, NotifyingStep, ErrorStep, QuietWork, QuietEnvironment, QuietCall,
     Next, ControllerStep, WorkerStep
<1>2. CASE RunStartupSequence
  BY <1>0, <1>2, CallStep, ControlEvents DEF RunStartupSequence, ChangeDeviceStateThrows
<1>3. ASSUME NEW t \in ControlThreads, RunShutdownSequence(t) PROVE Next \/ UNCHANGED vars
  <2>1. t \in Controllers
    BY ControlAssumption
  <2>2. CASE ShutdownRequest(t)
    BY <2>1, <2>2, CallStep, ControlEvents DEF ShutdownRequest, ChangeDeviceStateThrows
  <2> QED
    BY <1>3, <2>2, Zenon DEF RunShutdownSequence, ReadCurrentState, EmptyEventQueue, ShutdownWaits,
       ShutdownDone
<1>4. CASE KeyPressed
  BY <1>0, <1>4, CallStep DEF KeyPressed, ChangeDeviceStateThrows
<1>5. ASSUME NEW t \in OtherPlugins, PluginCall(t) PROVE Next \/ UNCHANGED vars
  BY <1>5, CallStep DEF PluginCall, OtherPlugins
<1>6. CASE \/ StartupWaits \/ StaticMode \/ InteractiveModeEnds \/ SignalHandler
           \/ SignalHandlerEnds \/ SignalHandlerSteals \/ MainStep \/ ReadKey \/ QuitKey \/ signal_handler
  BY <1>6, Zenon DEF StartupWaits, StaticMode, InteractiveModeEnds, SignalHandler,
     SignalHandlerEnds, SignalHandlerSteals, MainStep, ReadKey, QuitKey, signal_handler,
     RunStateMachineReturns, DestroyPlugins, Exit
<1>7. CASE UNCHANGED allVars
  BY <1>7 DEF allVars
<1> QED
  BY <1>1, <1>2, <1>3, <1>4, <1>5, <1>6, <1>7, Zenon DEF ControlNext, ControlThreadStep

\* Whatever the plugins do, the device behaves as DeviceStateMachine allows: the
\* theorems about it hold under the control of any plugins.
THEOREM ControlledDevice == ControlSpec => Spec
<1>1. ControlInit => Init
  BY DEF ControlInit
<1> QED
  BY <1>1, ControlNextStep, PTL DEF ControlSpec, Spec

\* So does the inductive invariant of the device.
LEMMA ControlledInvariance == ControlSpec => []IInv
  BY ControlledDevice, Invariance, PTL
-----------------------------------------------------------------------------
(* Ownership of device control.                                            *)

\* The steps of a call in progress, of the worker and of the environment move
\* only threads that are inside ChangeState.
LEMMA IdleStaysIdle ==
    ASSUME TypeOK, DeviceStep, NEW t \in Controllers, pc[t] = "idle"
    PROVE  pc'[t] = "idle"
<1> USE DEF TypeOK, Threads
<1>1. ASSUME NEW c \in Controllers, pc[c] # "idle", NEW x, Goto(c, x) PROVE pc'[t] = "idle"
  BY <1>1 DEF Goto
<1>2. ASSUME NEW c \in Controllers,
             QuietCall(c) \/ ExitingFct(c) \/ ErrorFoundFct(c) \/ SpuriousWakeup(c)
      PROVE  pc'[t] = "idle"
  <2>1. pc[c] # "idle"
    BY <1>2 DEF QuietCall, ExitingFct, ErrorFoundFct, SpuriousWakeup, no_transition, DefaultFct,
       StopFct, BeginAction, Locking, UnblockTransports, UnblockDevice, WaitForWorkDone,
       DefaultFctPost, StopFctReturn, EndAction
  <2>2. \E x : Goto(c, x)
    BY <1>2, Zenon DEF QuietCall, ExitingFct, ErrorFoundFct, SpuriousWakeup, no_transition, DefaultFct,
       StopFct, BeginAction, Return, UnblockTransports, UnblockDevice, WaitForWorkDone,
       DefaultFctPost, StopFctReturn, EndAction
  <2> QED
    BY <1>1, <2>1, <2>2
<1>3. CASE WorkDone \/ CatchException
  <2>1. NotifyOne
    BY <1>3, Zenon DEF WorkDone, CatchException, ClearWork
  <2> QED
    BY <2>1 DEF NotifyOne, Goto
<1>4. CASE \/ Announce \/ NotifyState \/ BindError \/ ConnectError \/ ErrorFound
           \/ Receive \/ LogSocketRates \/ (QuietWork /\ ~WorkDone /\ ~CatchException)
  <2>1. UNCHANGED pc
    BY <1>4, Zenon DEF Announce, NotifyState, BindError, ConnectError, ErrorFound, RequestError,
       Receive, LogSocketRates, QuietWork, TakeWork, Terminate, BindChannels, ConnectChannels,
       UserHook, AutomaticFct, RunWrapper, ResumeTransports, FirstCall, RunLoop, ReceiveInterrupted, WaitFor,
       RunReturned, InternalStopFct, PostRun, JoinRateLogger, Pause, Unwind, Advance, callVars
  <2> QED
    BY <2>1
<1> QED
  BY <1>2, <1>3, <1>4, Zenon DEF DeviceStep, NotifyingStep, ErrorStep, QuietWork, QuietEnvironment

\* Control changes hands only while no ChangeState call is in progress, and a call
\* starts only then.
LEMMA OwnerStep == TypeOK /\ OwnerRequests /\ [ControlNext]_allVars => OwnerRequests'
<1> SUFFICES ASSUME TypeOK, OwnerRequests, [ControlNext]_allVars PROVE OwnerRequests'
  OBVIOUS
<1>0. "controller" \in Controllers /\ "signalHandler" \in Controllers
  BY ControlAssumption DEF ControlThreads
<1>1. ASSUME UNCHANGED pc, UNCHANGED fDeviceController \/ MutexFree PROVE OwnerRequests'
  BY <1>1 DEF OwnerRequests, MutexFree
<1>2. ASSUME NEW t \in Controllers, NEW e, NEW next, ChangeDeviceState(t, e, next) PROVE OwnerRequests'
  BY <1>2 DEF ChangeDeviceState, MutexFree, ChangeState, Goto, OwnerRequests, TypeOK, Threads
<1>3. CASE DeviceStep
  <2>1. UNCHANGED fDeviceController
    BY <1>3, Zenon DEF DeviceStep
  <2> QED
    BY <1>3, <2>1, IdleStaysIdle DEF OwnerRequests
<1>4. CASE RunStartupSequence
  BY <1>0, <1>1, <1>2, <1>4 DEF RunStartupSequence, ChangeDeviceStateThrows, vars, callVars
<1>5. ASSUME NEW t \in ControlThreads, RunShutdownSequence(t) PROVE OwnerRequests'
  <2>1. t \in Controllers
    BY ControlAssumption
  <2>2. CASE ShutdownRequest(t)
    BY <1>1, <1>2, <2>1, <2>2 DEF ShutdownRequest, ChangeDeviceStateThrows, vars, callVars
  <2>3. CASE ReadCurrentState(t) \/ EmptyEventQueue(t) \/ ShutdownWaits(t)
    BY <1>1, <2>3, Zenon DEF ReadCurrentState, EmptyEventQueue, ShutdownWaits, vars, callVars
  <2>4. CASE ShutdownDone(t)
    BY <1>1, <2>4, Zenon DEF ShutdownDone, ReleaseDeviceControl, vars, callVars
  <2> QED
    BY <1>5, <2>2, <2>3, <2>4 DEF RunShutdownSequence
<1>6. CASE KeyPressed
  BY <1>0, <1>1, <1>2, <1>6 DEF KeyPressed, ChangeDeviceStateThrows, vars, callVars
<1>7. ASSUME NEW t \in OtherPlugins, PluginCall(t) PROVE OwnerRequests'
  BY <1>1, <1>2, <1>7 DEF PluginCall, OtherPlugins, TakeDeviceControl, StealDeviceControl,
     ReleaseDeviceControl, vars, callVars
<1>8. CASE SignalHandlerSteals
  BY <1>1, <1>8, Zenon DEF SignalHandlerSteals, StealDeviceControl, vars, callVars
<1>9. CASE \/ StartupWaits \/ StaticMode \/ InteractiveModeEnds \/ SignalHandler
           \/ SignalHandlerEnds \/ MainStep \/ ReadKey \/ QuitKey \/ signal_handler
           \/ UNCHANGED allVars
  BY <1>1, <1>9, Zenon DEF StartupWaits, StaticMode, InteractiveModeEnds, SignalHandler,
     SignalHandlerEnds, MainStep, ReadKey, QuitKey, signal_handler, RunStateMachineReturns,
     DestroyPlugins, Exit, allVars, controlVars, vars, callVars
<1> QED
  BY <1>3, <1>4, <1>5, <1>6, <1>7, <1>8, <1>9, Zenon DEF ControlNext, ControlThreadStep

\* Only the owner of device control is ever inside ChangeState, and it stays the
\* owner until ChangeState returns: StealDeviceControl, TakeDeviceControl and
\* ReleaseDeviceControl wait for fDeviceControllerMutex.
THEOREM OwnerOnly == ControlSpec => []OwnerRequests
<1>1. ControlInit => OwnerRequests
  BY DEF ControlInit, Init, OwnerRequests, Threads
<1>2. IInv => TypeOK
  BY DEF IInv
<1> QED
  BY <1>1, <1>2, OwnerStep, ControlledInvariance, PTL DEF ControlSpec

-----------------------------------------------------------------------------
(* The shutdown sequence.                                                  *)

FinalState == {"EXITING", "Error"}

\* Control's variables that are not flags keep their types.
ControlValuesOK ==
    /\ fEvents \in Seq(States)
    /\ at \in [Controllers -> ControlPoints]
    /\ nextState \in States \cup {"none"}

\* Control has heard of the end only when the device has reached it.
EventInv ==
    /\ \A i \in 1 .. Len(fEvents) : fEvents[i] \in FinalState => fState \in FinalState
    /\ nextState \in FinalState => fState \in FinalState
    /\ fDeviceHasShutdown => fState \in FinalState

\* The inductive invariant of the Control plugin.
ControlIInv == ControlValuesOK /\ EventInv /\ OneShutdownAtATime

\* Pushing a state keeps the queue's type and adds only that state.
LEMMA PushFacts ==
    ASSUME fEvents \in Seq(States), NEW s \in States, Push(s)
    PROVE  /\ fEvents' \in Seq(States)
           /\ \A i \in 1 .. Len(fEvents') :
                 fEvents'[i] = s \/ (i \in 1 .. Len(fEvents) /\ fEvents'[i] = fEvents[i])
  BY DEF Push

\* Popping a state keeps the queue's type and the other states.
LEMMA PopFacts ==
    ASSUME fEvents \in Seq(States), WaitForNextState
    PROVE  /\ fEvents' \in Seq(States)
           /\ 1 \in 1 .. Len(fEvents) /\ Head(fEvents) = fEvents[1] /\ fEvents[1] \in States
           /\ \A i \in 1 .. Len(fEvents') :
                 i + 1 \in 1 .. Len(fEvents) /\ fEvents'[i] = fEvents[i + 1]
  BY DEF WaitForNextState

\* A step that leaves queue and flags alone preserves what Control has heard.
LEMMA HeardKept ==
    ASSUME IInv, [Next]_vars, EventInv, UNCHANGED <<fEvents, nextState, fDeviceHasShutdown>>
    PROVE  EventInv'
  BY FinalStates DEF EventInv, FinalState

\* The device: every final state it announces, it has reached.
LEMMA DeviceControlStep ==
    ASSUME IInv, ControlIInv, DeviceStep, [Next]_vars
    PROVE  ControlIInv'
<1>1. UNCHANGED <<at, nextState, fDeviceHasShutdown>>
  BY Zenon DEF DeviceStep, flagVars
<1>2. OneShutdownAtATime'
  BY <1>1 DEF ControlIInv, OneShutdownAtATime
<1>3. ASSUME NEW s \in States, Push(s), s \in FinalState => fState' \in FinalState
      PROVE  ControlValuesOK' /\ EventInv'
  BY <1>1, <1>3, PushFacts, FinalStates DEF ControlIInv, ControlValuesOK, EventInv, FinalState
<1>4. CASE UNCHANGED fEvents
  <2>1. EventInv'
    BY <1>1, <1>4, HeardKept DEF ControlIInv
  <2> QED
    BY <1>1, <1>2, <1>4, <2>1 DEF ControlIInv, ControlValuesOK
<1>5. CASE Announce /\ Push(HandlerState[fWork])
  <2>1. HandlerState[fWork] \in States /\ HandlerState[fWork] \notin FinalState
    BY <1>5 DEF Announce, Advance, TransientHandlers, HandlerState, States, FinalState
  <2> QED
    BY <1>2, <1>3, <1>5, <2>1 DEF ControlIInv
<1>6. CASE NotifyState /\ Push(fState)
  <2>1. fState \in States /\ fState' = fState
    BY <1>6 DEF NotifyState, Advance, msmVars, IInv, TypeOK
  <2> QED
    BY <1>2, <1>3, <1>6, <2>1 DEF ControlIInv
<1>7. CASE (\E c \in Controllers : ExitingFct(c)) /\ Push("EXITING")
  <2>1. fState' = "EXITING"
    BY <1>7 DEF ExitingFct, Fires, transition_table, Row
  <2> QED
    BY <1>2, <1>3, <1>7, <2>1 DEF ControlIInv, States, FinalState
<1>8. CASE ErrorStep /\ errorRegion = "OK" /\ Push("Error")
  <2>1. fState' = "Error"
    BY <1>8 DEF ErrorStep, BindError, ConnectError, ErrorFound, RequestError, ErrorFoundFct, SetError
  <2> QED
    BY <1>2, <1>3, <1>8, <2>1 DEF ControlIInv, States, FinalState
<1> QED
  BY <1>4, <1>5, <1>6, <1>7, <1>8, Zenon DEF DeviceStep, NotifyingStep

\* The threads that only move on: the controller moves while the signal handler
\* is not in its shutdown sequence.
LEMMA MoveStep ==
    ASSUME IInv, ControlIInv, [Next]_vars, UNCHANGED <<fEvents, nextState, fDeviceHasShutdown>>,
           NEW t \in Controllers, NEW where \in ControlPoints, Proceed(t, where),
           t = "controller" => at[t] # "ended",
           t = "signalHandler" /\ where \in {"shutdown", "emptyQueue", "request", "nextState"} =>
               at["controller"] = "ended"
    PROVE  ControlIInv'
<1>1. EventInv'
  BY HeardKept DEF ControlIInv
<1>2. ControlValuesOK'
  BY DEF ControlIInv, ControlValuesOK, Proceed
<1>3. OneShutdownAtATime'
  BY ControlAssumption DEF ControlIInv, ControlValuesOK, OneShutdownAtATime, Proceed, ControlThreads
<1> QED
  BY <1>1, <1>2, <1>3 DEF ControlIInv

\* The steps of the shutdown sequence, in either thread.
LEMMA ShutdownStep ==
    ASSUME IInv, ControlIInv, [Next]_vars, NEW t \in ControlThreads, RunShutdownSequence(t)
    PROVE  ControlIInv'
<1> USE DEF ControlPoints
<1>0. t \in Controllers
  BY ControlAssumption
<1>1. /\ t = "controller" => at[t] # "ended"
      /\ t = "signalHandler" => at["controller"] = "ended"
  BY DEF RunShutdownSequence, ReadCurrentState, EmptyEventQueue, ShutdownRequest, ShutdownWaits,
     ShutdownDone, At, ControlIInv, OneShutdownAtATime
<1>2. CASE ReadCurrentState(t)
  <2>1. nextState' = fState /\ UNCHANGED <<vars, fEvents, fDeviceHasShutdown>>
        /\ Proceed(t, "emptyQueue")
    BY <1>2, Zenon DEF ReadCurrentState, flagVars
  <2>2. fState' = fState /\ fState \in States
    BY <2>1 DEF vars, msmVars, IInv, TypeOK
  <2>3. EventInv' /\ ControlValuesOK'
    BY <1>0, <2>1, <2>2 DEF EventInv, ControlIInv, ControlValuesOK, Proceed
  <2>4. OneShutdownAtATime'
    BY <1>0, <1>1, <2>1, ControlAssumption DEF ControlIInv, ControlValuesOK, OneShutdownAtATime,
       Proceed, ControlThreads
  <2> QED
    BY <2>3, <2>4 DEF ControlIInv
<1>3. CASE EmptyEventQueue(t)
  <2>1. fEvents' = <<>> /\ UNCHANGED <<vars, nextState, fDeviceHasShutdown>>
        /\ Proceed(t, "request")
    BY <1>3, Zenon DEF EmptyEventQueue, flagVars
  <2>2. fState' = fState
    BY <2>1 DEF vars, msmVars
  <2>3. EventInv' /\ ControlValuesOK'
    BY <1>0, <2>1, <2>2 DEF EventInv, ControlIInv, ControlValuesOK, Proceed
  <2>4. OneShutdownAtATime'
    BY <1>0, <1>1, <2>1, ControlAssumption DEF ControlIInv, ControlValuesOK, OneShutdownAtATime,
       Proceed, ControlThreads
  <2> QED
    BY <2>3, <2>4 DEF ControlIInv
<1>4. CASE ShutdownRequest(t)
  <2>1. UNCHANGED <<fEvents, nextState, fDeviceHasShutdown>>
    BY <1>4, Zenon DEF ShutdownRequest, flagVars
  <2>2. Proceed(t, "nextState") \/ Proceed(t, "ended")
    BY <1>4, Zenon DEF ShutdownRequest, ChangeDeviceState, ChangeDeviceStateThrows
  <2> QED
    BY <1>0, <1>1, <2>1, <2>2, MoveStep
<1>5. CASE ShutdownWaits(t) /\ WaitThrows(t)
  <2>1. UNCHANGED <<nextState, fDeviceHasShutdown>> \/ WaitForNextState
    BY <1>5, Zenon DEF ShutdownWaits, flagVars
  <2>2. UNCHANGED <<fEvents, nextState, fDeviceHasShutdown>> /\ Proceed(t, "ended")
    BY <1>5, <2>1, Zenon DEF WaitThrows, WaitForNextState
  <2> QED
    BY <1>0, <1>1, <2>2, MoveStep
<1>6. CASE ShutdownWaits(t) /\ ~WaitThrows(t)
  <2>1. /\ WaitForNextState /\ nextState' = Head(fEvents) /\ Proceed(t, "request")
        /\ UNCHANGED <<vars, fDeviceHasShutdown>>
    BY <1>6, Zenon DEF ShutdownWaits, flagVars
  <2>2. fState' = fState
    BY <2>1 DEF vars, msmVars
  <2>3. EventInv' /\ ControlValuesOK'
    BY <1>0, <2>1, <2>2, PopFacts DEF EventInv, ControlIInv, ControlValuesOK, Proceed
  <2>4. OneShutdownAtATime'
    BY <1>0, <1>1, <2>1, ControlAssumption DEF ControlIInv, ControlValuesOK, OneShutdownAtATime,
       Proceed, ControlThreads
  <2> QED
    BY <2>3, <2>4 DEF ControlIInv
<1>7. CASE ShutdownDone(t)
  <2>1. /\ nextState \in FinalState /\ Proceed(t, "ended")
        /\ UNCHANGED <<vars, fEvents, nextState>>
    BY <1>7, Zenon DEF ShutdownDone, FinalState
  <2>2. fState' = fState
    BY <2>1 DEF vars, msmVars
  <2>3. EventInv' /\ ControlValuesOK'
    BY <1>0, <2>1, <2>2 DEF EventInv, ControlIInv, ControlValuesOK, Proceed
  <2>4. OneShutdownAtATime'
    BY <1>0, <1>1, <2>1, ControlAssumption DEF ControlIInv, ControlValuesOK, OneShutdownAtATime,
       Proceed, ControlThreads
  <2> QED
    BY <2>3, <2>4 DEF ControlIInv
<1> QED
  BY <1>2, <1>3, <1>4, <1>5, <1>6, <1>7 DEF RunShutdownSequence

\* Every step preserves the invariant of the Control plugin.
LEMMA ControlStep ==
    ASSUME IInv, ControlIInv, [ControlNext]_allVars
    PROVE  ControlIInv'
<1> USE DEF ControlPoints
<1>0. "controller" \in Controllers /\ "signalHandler" \in Controllers
  BY ControlAssumption DEF ControlThreads
<1>1. [Next]_vars
  BY ControlNextStep
<1>2. ASSUME NEW t \in OtherPlugins, PluginCall(t) PROVE ControlIInv'
  <2>1. UNCHANGED <<fEvents, nextState, fDeviceHasShutdown>>
    BY <1>2, Zenon DEF PluginCall, flagVars
  <2>2. t \in Controllers /\ t \notin ControlThreads
    BY DEF OtherPlugins
  <2>3. UNCHANGED at \/ Proceed(t, "plugin")
    BY <1>2, Zenon DEF PluginCall, ChangeDeviceState
  <2>4. CASE UNCHANGED at
    <3>1. EventInv'
      BY <1>1, <2>1, HeardKept DEF ControlIInv
    <3> QED
      BY <2>1, <2>4, <3>1 DEF ControlIInv, ControlValuesOK, OneShutdownAtATime
  <2> QED
    BY <1>0, <1>1, <2>1, <2>2, <2>3, <2>4, MoveStep DEF ControlThreads
<1>3. ASSUME UNCHANGED <<at, fEvents, nextState, fDeviceHasShutdown>> PROVE ControlIInv'
  <2>1. EventInv'
    BY <1>1, <1>3, HeardKept DEF ControlIInv
  <2> QED
    BY <1>3, <2>1 DEF ControlIInv, ControlValuesOK, OneShutdownAtATime
<1>4. ASSUME UNCHANGED <<fEvents, nextState, fDeviceHasShutdown>>, at["controller"] # "ended",
             NEW where \in ControlPoints, Proceed("controller", where)
      PROVE  ControlIInv'
  BY <1>0, <1>1, <1>4, MoveStep
<1>5. CASE RunStartupSequence
  <2>1. UNCHANGED <<fEvents, nextState, fDeviceHasShutdown>>
    BY <1>5, Zenon DEF RunStartupSequence, flagVars
  <2>2. PICK p \in DOMAIN StartupRequest : At("controller", p) /\
              (Proceed("controller", StartupRequest[p].next) \/ Proceed("controller", "ended"))
    BY <1>5, Zenon DEF RunStartupSequence, ChangeDeviceState, ChangeDeviceStateThrows
  <2>3. p # "ended" /\ StartupRequest[p].next \in ControlPoints
    BY DEF StartupRequest
  <2> QED
    BY <1>4, <2>1, <2>2, <2>3 DEF At
<1>6. CASE StartupWaits
  <2>1. UNCHANGED <<vars, nextState, fDeviceHasShutdown>>
    BY <1>6, Zenon DEF StartupWaits, flagVars
  <2>2. PICK p \in DOMAIN StartupWait : At("controller", p) /\
              \/ WaitThrows("controller")
              \/ /\ WaitForNextState
                 /\ Proceed("controller",
                       IF Head(fEvents) = StartupWait[p].state THEN StartupWait[p].next ELSE p)
    BY <1>6, Zenon DEF StartupWaits
  <2>3. p # "ended" /\ p \in ControlPoints /\ StartupWait[p].next \in ControlPoints
    BY DEF StartupWait
  <2>4. CASE WaitThrows("controller")
    BY <1>4, <2>1, <2>2, <2>3, <2>4 DEF WaitThrows, At
  <2>5. ASSUME WaitForNextState, NEW where \in ControlPoints, Proceed("controller", where)
        PROVE  ControlIInv'
    <3>1. fState' = fState
      BY <2>1 DEF vars, msmVars
    <3>2. EventInv' /\ ControlValuesOK'
      BY <1>0, <2>1, <2>5, <3>1, PopFacts DEF EventInv, ControlIInv, ControlValuesOK, Proceed
    <3>3. OneShutdownAtATime'
      BY <1>0, <2>2, <2>3, <2>5 DEF ControlIInv, ControlValuesOK, OneShutdownAtATime, Proceed, At
    <3> QED
      BY <3>2, <3>3 DEF ControlIInv
  <2> QED
    BY <2>2, <2>3, <2>4, <2>5
<1>7. CASE StaticMode \/ ReadKey \/ KeyPressed \/ QuitKey \/ InteractiveModeEnds
  <2>1. UNCHANGED <<fEvents, nextState, fDeviceHasShutdown>>
    BY <1>7, Zenon DEF StaticMode, ReadKey, KeyPressed, QuitKey, InteractiveModeEnds, flagVars
  <2>2. at["controller"] \in {"started", "key"}
    BY <1>7, Zenon DEF StaticMode, ReadKey, KeyPressed, QuitKey, InteractiveModeEnds, At
  <2>3. \E where \in {"ended", "shutdown", "started", "key"} : Proceed("controller", where)
    BY <1>7 DEF StaticMode, ReadKey, KeyPressed, QuitKey, InteractiveModeEnds, ChangeDeviceState,
       ChangeDeviceStateThrows
  <2> QED
    BY <1>4, <2>1, <2>2, <2>3
<1>8. CASE SignalHandler \/ SignalHandlerEnds \/ SignalHandlerSteals
  <2>1. UNCHANGED <<fEvents, nextState, fDeviceHasShutdown>>
    BY <1>8, Zenon DEF SignalHandler, SignalHandlerEnds, SignalHandlerSteals, flagVars
  <2>2. \/ Proceed("signalHandler", "join") \/ Proceed("signalHandler", "ended")
        \/ Proceed("signalHandler", "shutdown") /\ at["controller"] = "ended"
    BY <1>8, Zenon DEF SignalHandler, SignalHandlerEnds, SignalHandlerSteals
  <2> QED
    BY <1>0, <1>1, <2>1, <2>2, MoveStep
<1>9. CASE MainStep \/ signal_handler \/ UNCHANGED allVars
  BY <1>3, <1>9, Zenon DEF MainStep, signal_handler, RunStateMachineReturns, DestroyPlugins, Exit,
     allVars, controlVars, flagVars
<1> QED
  BY <1>1, <1>2, <1>5, <1>6, <1>7, <1>8, <1>9, DeviceControlStep, ShutdownStep, Zenon
     DEF ControlNext, ControlThreadStep

\* The invariant of the Control plugin holds in every reachable state.
LEMMA ControlInvariance == ControlSpec => []ControlIInv
<1>1. ControlInit => ControlIInv
  <2> SUFFICES ASSUME ControlInit PROVE ControlIInv
    OBVIOUS
  <2>1. ControlValuesOK
    BY DEF ControlInit, ControlValuesOK, ControlPoints
  <2>2. EventInv /\ OneShutdownAtATime
    BY ControlAssumption DEF ControlInit, EventInv, FinalState, OneShutdownAtATime, ControlThreads
  <2> QED
    BY <2>1, <2>2 DEF ControlIInv
<1> QED
  BY <1>1, ControlStep, ControlledInvariance, PTL DEF ControlSpec

\* The signal handler enters the shutdown sequence only after the controller
\* thread has ended: the two never consume the event queue together.
THEOREM OneShutdown == ControlSpec => []OneShutdownAtATime
<1>1. ControlIInv => OneShutdownAtATime
  BY DEF ControlIInv
<1> QED
  BY <1>1, ControlInvariance, PTL

\* fDeviceHasShutdown is never set before the device is in EXITING or Error.
THEOREM ShutdownIsReal == ControlSpec => []HasShutdown
<1>1. ControlIInv => HasShutdown
  BY DEF ControlIInv, EventInv, HasShutdown, FinalState
<1> QED
  BY <1>1, ControlInvariance, PTL
=============================================================================
