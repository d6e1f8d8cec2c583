---------------------- MODULE DeviceStateMachineProofs ----------------------
(***************************************************************************)
(* Proofs about the device state machine, for any sets of controllers and  *)
(* waiters, any requests and any user code.                                *)
(***************************************************************************)
EXTENDS DeviceStateMachine, TLAPS

\* The points at which a handler, or its unwinding, is in progress.
ActivePoints == WorkerPoints \ {"wait", "notify", "error", "exited", "failed"}

\* The points of RunWrapper.
RunPoints == {"resume", "resumeTransports", "firstCall", "lateCall", "run", "receive",
              "lateReceive", "waitFor", "lateWaitFor", "returned", "stopSelf", "postRun", "join"}

\* Who holds fChangeStateMutex, and what fState is meanwhile.
MutexInv ==
    /\ \A c \in Controllers :
          pc[c] \in {"unblock", "unblockDevice", "wait", "sleep"} <=> fChangeStateMutex = c
    /\ \A c \in Controllers : fChangeStateMutex = c =>
          /\ errorRegion = "OK"
          /\ \E r \in transition_table :
                /\ r.from = activeState
                /\ r.event = request[c]
                /\ r.to = fState
                /\ r.action = IF request[c] = "STOP" THEN "StopFct" ELSE "DefaultFct"
    /\ fChangeStateMutex = NoThread /\ errorRegion = "OK" => fState = activeState
    /\ errorRegion = "Error" <=> fState = "Error"

\* What the worker's position says of the work slot.
WorkInv ==
    /\ fWorkActive <=> worker \in ActivePoints
    /\ fWorkActive => fWorkAvailable
    /\ fWorkAvailable => fWork \in Handlers
    /\ worker \in {"bind", "bindError", "connect", "connectError"} => fWork = "INIT_DEVICE"
    /\ worker \in {"user", "leave"} => fWork \in TransientHandlers
    /\ worker \in RunPoints => fWork = "RUN"
    /\ worker = "paused" => fWork = "PAUSE"

\* Posted work of a transient state and the end of the worker.
PostedInv ==
    /\ fWorkAvailable /\ fWork \in TransientHandlers /\ worker # "done" =>
          fState \in {HandlerState[fWork], "Error"}
    /\ activeState \in {"IDLE", "EXITING"} /\ fWorkAvailable => worker = "done"
    /\ fWorkerTerminated => activeState = "EXITING"
    /\ worker = "exited" => fWorkerTerminated /\ ~fWorkAvailable
    /\ worker = "failed" => errorRegion = "Error"

\* The steps of the worker that only move it.
QuietStep ==
    \/ Terminate \/ BindChannels \/ Announce \/ ConnectChannels \/ UserHook
    \/ FirstCall \/ RunLoop \/ Receive \/ ReceiveInterrupted \/ WaitFor \/ RunReturned
    \/ PostRun \/ JoinRateLogger \/ Pause \/ NotifyState \/ Unwind

\* TypeOK in two parts: positions, states and requests ...
ValuesOK ==
    /\ fState \in States
    /\ activeState \in States \ {"Error"}
    /\ errorRegion \in {"OK", "Error"}
    /\ fChangeStateMutex \in Controllers \cup {NoThread}
    /\ pc \in [Threads -> {"idle", "lock", "unblock", "unblockDevice", "wait", "sleep"}]
    /\ \A q \in Waiters : pc[q] \in {"idle", "wait", "sleep"}
    /\ request \in [Controllers -> ExternalEvents \cup {"none"}]
    /\ worker \in WorkerPoints
    /\ fWork \in Handlers \cup {"none"}

\* ... and flags.
FlagsOK ==
    /\ fWorkActive \in BOOLEAN
    /\ fWorkAvailable \in BOOLEAN
    /\ fWorkerTerminated \in BOOLEAN
    /\ fInterrupted \in BOOLEAN
    /\ transportsInterrupted \in BOOLEAN
    /\ rateLogger \in BOOLEAN

\* What is known when DefaultFct writes fState.
DefaultFctBegins(c) ==
    /\ request[c] \in Handlers
    /\ fState = activeState
    /\ fState \notin TransientStates \cup {"Error"}
    /\ fState' = HandlerState[request[c]]
    /\ fState' \notin {"IDLE", "READY", "EXITING", "Error"}
    /\ fState' \in TransientStates => request[c] \in TransientHandlers

\* What is known when DefaultFct posts its handler and returns.
DefaultFctPosts(c) ==
    /\ fChangeStateMutex = c
    /\ errorRegion = "OK"
    /\ request[c] \in Handlers
    /\ activeState # "EXITING"
    /\ activeState' = fState
    /\ fState = HandlerState[request[c]]
    /\ fState \in States \ {"IDLE", "READY", "EXITING", "Error"}
    /\ fState \in TransientStates => request[c] \in TransientHandlers
    /\ worker \in {"wait", "notify", "error"}

\* The work slot, the interruption flags and the rate logger.
flags == <<workVars, interruptVars, rateLogger>>

\* What NoLostInterrupt says, before the first call of Run(): once the transports are
\* resumed in RUNNING, a STOP that comes before the call interrupts it all the same.
FirstCallInv ==
    fState = "READY" /\ worker = "firstCall" =>
      /\ transportsInterrupted \/ \E c \in Controllers : pc[c] = "unblock"
      /\ fInterrupted \/ \E c \in Controllers : pc[c] \in {"unblock", "unblockDevice"}

\* The inductive invariant.
IInv ==
    /\ TypeOK /\ MutexInv /\ WorkInv /\ PostedInv /\ TransientStateOwned
    /\ NoLostInterrupt /\ FirstCallInv

-----------------------------------------------------------------------------
(* What the transition table says.                                         *)

\* Rows start and end in proper states.
LEMMA TableFacts ==
    \A r \in transition_table :
      /\ r.from \in States \ {"Error", "EXITING"}
      /\ r.to \in States \ {"Error"}
      /\ r.event # "ERROR_FOUND"
      /\ r.event = "STOP" => r.action = "StopFct"
      /\ r.action = "StopFct" => r.from = "RUNNING" /\ r.event = "STOP" /\ r.to = "READY"
      /\ r.action = "ExitingFct" => r.from = "IDLE" /\ r.event = "END" /\ r.to = "EXITING"
      /\ r.event = "internal_READY" => r.to = "READY" /\ r.from \in {"INITIALIZING_TASK", "RUNNING"}
  BY DEF transition_table, Row, States

\* Only DefaultFct rows post a handler; they never start in a transient state
\* and lead to the state of the handler they post.
LEMMA DefaultRows ==
    \A r \in transition_table : r.action = "DefaultFct" =>
      /\ r.event \in Handlers
      /\ r.event # "STOP"
      /\ r.from \notin TransientStates
      /\ r.to = HandlerState[r.event]
      /\ r.to \notin {"IDLE", "READY", "EXITING"}
      /\ r.to \in TransientStates => r.event \in TransientHandlers
  BY DEF transition_table, Row, Handlers, TransientHandlers, TransientStates,
     HandlerState

\* msm is deterministic: a state and an event determine the row.
LEMMA RowUnique ==
    \A r, s \in transition_table : r.from = s.from /\ r.event = s.event => r = s
  BY DEF transition_table, Row

\* A transient handler belongs to a transient state, where its internal event
\* has a row, and that event leads out of the transient states.
LEMMA InternalRow ==
    \A h \in TransientHandlers :
      /\ h \in Handlers
      /\ HandlerState[h] \in TransientStates
      /\ \E r \in transition_table : r.from = HandlerState[h] /\ r.event = InternalEvent[h]
      /\ \A r \in transition_table : r.event = InternalEvent[h] => r.to \notin TransientStates
  BY DEF transition_table, Row, TransientHandlers, Handlers, HandlerState,
     InternalEvent, TransientStates

-----------------------------------------------------------------------------
(* One lemma per part of the invariant; one step per action.               *)

\* What DefaultFct has established when it starts ...
LEMMA BeginFacts ==
    IInv => \A c \in Controllers : DefaultFct(c) => DefaultFctBegins(c)
  BY ConstantsAssumption, TableFacts, DefaultRows
     DEF DefaultFctBegins, IInv, TypeOK, MutexInv, DefaultFct, BeginAction, Fires, Locking

\* ... and when it posts its handler: the worker is between two handlers.
LEMMA PostFacts ==
    IInv => \A c \in Controllers : DefaultFctPost(c) => DefaultFctPosts(c)
<1> SUFFICES ASSUME IInv, NEW c \in Controllers, DefaultFctPost(c)
             PROVE  DefaultFctPosts(c)
  OBVIOUS
<1>1. fChangeStateMutex = c
  BY ConstantsAssumption DEF IInv, TypeOK, MutexInv, DefaultFctPost, EndAction
<1>2. PICK r \in transition_table : r.from = activeState /\ r.event = request[c]
                                    /\ r.to = fState /\ r.action = "DefaultFct"
  BY <1>1 DEF IInv, MutexInv, DefaultFctPost
<1>3. activeState' = fState
  BY <1>2, RowUnique DEF DefaultFctPost, EndAction, Fires
<1>4. worker \in {"wait", "notify", "error", "exited", "failed"}
  BY DEF IInv, TypeOK, WorkInv, ActivePoints, DefaultFctPost, EndAction
<1>5. errorRegion = "OK" /\ activeState # "EXITING"
  BY <1>1, <1>2, TableFacts DEF IInv, MutexInv
<1>6. worker \notin {"exited", "failed"}
  BY <1>5 DEF IInv, PostedInv
<1> QED
  BY <1>1, <1>2, <1>3, <1>4, <1>5, <1>6, TableFacts, DefaultRows DEF DefaultFctPosts

\* Flags are only ever set and cleared.
LEMMA FlagsStep == FlagsOK /\ [Next]_vars => FlagsOK'
<1> SUFFICES ASSUME FlagsOK, [Next]_vars PROVE FlagsOK'
  OBVIOUS
<1> USE DEF FlagsOK, workVars, interruptVars
<1>1. CASE UNCHANGED flags
  BY <1>1, Zenon DEF flags
<1>2. ASSUME NEW c \in Controllers, UnblockTransports(c) PROVE FlagsOK'
  BY <1>2, Zenon DEF UnblockTransports
<1>3. ASSUME NEW c \in Controllers, UnblockDevice(c) PROVE FlagsOK'
  BY <1>3, Zenon DEF UnblockDevice
<1>4. ASSUME NEW c \in Controllers, DefaultFctPost(c) PROVE FlagsOK'
  BY <1>4, Zenon DEF DefaultFctPost, EndAction
<1>5. ASSUME NEW c \in Controllers, ExitingFct(c) PROVE FlagsOK'
  BY <1>5, Zenon DEF ExitingFct
<1>6. CASE TakeWork
  BY <1>6, Zenon DEF TakeWork
<1>7. CASE RunWrapper
  BY <1>7, ConstantsAssumption, Zenon DEF RunWrapper
<1>8. CASE ResumeTransports
  BY <1>8, Zenon DEF ResumeTransports
<1>9. CASE InternalStopFct
  BY <1>9, Zenon DEF InternalStopFct
<1>10. CASE WorkDone \/ CatchException
  BY <1>10, Zenon DEF WorkDone, CatchException, ClearWork
<1>11. CASE LogSocketRates
  BY <1>11, Zenon DEF LogSocketRates
<1>12. CASE QuietStep
  <2>1. UNCHANGED flags
    BY <1>12, Zenon DEF flags, QuietStep, Advance, Terminate, BindChannels,
       Announce,
       ConnectChannels, UserHook, FirstCall, RunLoop, Receive, ReceiveInterrupted, WaitFor,
       RunReturned, PostRun, JoinRateLogger, Pause, NotifyState, Unwind
  <2> QED
    BY <2>1, <1>1
<1>13. ASSUME NEW c \in Controllers, \/ \E e \in Requests : ChangeState(c, e)
             \/ no_transition(c) \/ DefaultFct(c) \/ StopFct(c) \/ WaitForWorkDone(c)
             \/ StopFctReturn(c) \/ ErrorFoundFct(c) \/ SpuriousWakeup(c)
       PROVE FlagsOK'
  <2>1. UNCHANGED flags
    BY <1>13, Zenon DEF flags, ChangeState, no_transition, DefaultFct, StopFct,
       BeginAction, WaitForWorkDone, StopFctReturn, EndAction, ErrorFoundFct,
       SpuriousWakeup
  <2> QED
    BY <2>1, <1>1
<1>14. ASSUME NEW q \in Waiters, WaiterNext(q) PROVE FlagsOK'
  <2>1. UNCHANGED flags
    BY <1>14, Zenon DEF flags, WaiterNext, WaitForEndOfState, WaiterSleeps,
       WaiterTimeout,
       WaiterReturns, WaitForEndOfStateForMsGivesUp, WaiterStep
  <2> QED
    BY <2>1, <1>1
<1>15. CASE BindError \/ ConnectError \/ ErrorFound \/ AutomaticFct
  <2>1. UNCHANGED flags
    BY <1>15, Zenon DEF flags, BindError, ConnectError, ErrorFound, RequestError,
       AutomaticFct
  <2> QED
    BY <2>1, <1>1
<1>16. CASE UNCHANGED vars
  BY <1>16, Zenon DEF vars
<1> QED
  BY <1>2, <1>3, <1>4, <1>5, <1>6, <1>7, <1>8, <1>9, <1>10, <1>11, <1>12, <1>13,
     <1>14, <1>15, <1>16, Zenon
     DEF Next, ControllerStep, WorkerStep, QuietStep

\* Positions, states and requests keep their types under every step.
LEMMA ValuesStep == IInv /\ [Next]_vars => ValuesOK'
<1> SUFFICES ASSUME IInv, [Next]_vars PROVE ValuesOK'
  OBVIOUS
<1>b. \A c \in Controllers : DefaultFctPost(c) => DefaultFctPosts(c)
  BY PostFacts
<1> USE ConstantsAssumption DEF IInv, TypeOK, ValuesOK, MutexInv, WorkerPoints,
        Threads,
        ExternalEvents, msmVars, callVars, workVars, interruptVars
<1>1. CASE \E c \in Controllers : \E e \in Requests : ChangeState(c, e)
  BY <1>1 DEF ChangeState, Goto
<1>2. CASE \E c \in Controllers : no_transition(c)
  BY <1>2 DEF no_transition, Locking, Return, Goto
<1>3. CASE \E c \in Controllers : DefaultFct(c)
  BY <1>3, TableFacts, DefaultRows DEF DefaultFct, BeginAction, Locking, Goto, Fires
<1>4. CASE \E c \in Controllers : StopFct(c)
  BY <1>4, TableFacts DEF StopFct, BeginAction, Fires, Locking, Goto
<1>5. CASE \E c \in Controllers : UnblockTransports(c)
  BY <1>5 DEF UnblockTransports, Goto
<1>6. CASE \E c \in Controllers : UnblockDevice(c)
  BY <1>6 DEF UnblockDevice, Goto
<1>7. CASE \E c \in Controllers : WaitForWorkDone(c)
  BY <1>7 DEF WaitForWorkDone, Goto
<1>8. CASE \E c \in Controllers : DefaultFctPost(c)
  <2> PICK c \in Controllers : DefaultFctPost(c)
    BY <1>8
  <2>1. DefaultFctPosts(c)
    BY <1>b
  <2> QED
    BY <2>1 DEF DefaultFctPosts, DefaultFctPost, EndAction, Return, Goto
<1>9. CASE \E c \in Controllers : StopFctReturn(c)
  BY <1>9, TableFacts DEF StopFctReturn, EndAction, Fires, Return, Goto
<1>10. CASE \E c \in Controllers : ExitingFct(c)
  BY <1>10, TableFacts DEF ExitingFct, Fires, Locking, Return, Goto
<1>11. CASE \E c \in Controllers : ErrorFoundFct(c)
  BY <1>11 DEF States, ErrorFoundFct, SetError, Locking, Return, Goto
<1>12. CASE \E c \in Controllers : SpuriousWakeup(c)
  BY <1>12 DEF SpuriousWakeup, Goto
<1>13. CASE \E q \in Waiters : WaiterNext(q)
  BY <1>13 DEF WaiterNext, WaitForEndOfState, WaiterSleeps, WaiterTimeout,
       WaiterReturns, WaitForEndOfStateForMsGivesUp, WaiterStep, Goto
<1>14. CASE TakeWork
  BY <1>14 DEF TakeWork
<1>15. CASE BindError \/ ConnectError \/ ErrorFound
  BY <1>15 DEF States, BindError, ConnectError, ErrorFound, RequestError, SetError
<1>16. CASE AutomaticFct
  BY <1>16, TableFacts DEF AutomaticFct, Fires, NoRow
<1>17. CASE RunWrapper \/ ResumeTransports
  BY <1>17 DEF RunWrapper, ResumeTransports
<1>18. CASE InternalStopFct
  BY <1>18, TableFacts DEF InternalStopFct, Fires, NoRow
<1>19. CASE WorkDone \/ CatchException
  BY <1>19 DEF WorkDone, CatchException, ClearWork, NotifyOne, Goto
<1>20. CASE LogSocketRates
  BY <1>20 DEF LogSocketRates
<1>21. CASE QuietStep
  BY <1>21 DEF QuietStep, Advance, Terminate, BindChannels, Announce,
     ConnectChannels,
       UserHook, FirstCall, RunLoop, Receive, ReceiveInterrupted, WaitFor, RunReturned,
       PostRun, JoinRateLogger, Pause, NotifyState, Unwind
<1>22. CASE UNCHANGED vars
  BY <1>22 DEF vars
<1> QED
  BY <1>1, <1>2, <1>3, <1>4, <1>5, <1>6, <1>7, <1>8, <1>9, <1>10, <1>11, <1>12,
     <1>13, <1>14, <1>15, <1>16, <1>17, <1>18, <1>19, <1>20, <1>21, <1>22
     DEF Next, ControllerStep, WorkerStep, QuietStep

\* fChangeStateMutex serialises ChangeState: only its holder is inside an
\* action, and while it is held fState is the target of the row that fires.
LEMMA MutexStep == IInv /\ [Next]_vars => MutexInv'
<1> SUFFICES ASSUME IInv, [Next]_vars PROVE MutexInv'
  OBVIOUS
<1>b. \A c \in Controllers : DefaultFctPost(c) => DefaultFctPosts(c)
  BY PostFacts
<1> USE ConstantsAssumption DEF IInv, TypeOK, MutexInv, Threads, msmVars, callVars,
        workVars, interruptVars
<1>1. CASE \E c \in Controllers : \E e \in Requests : ChangeState(c, e)
  BY <1>1 DEF ChangeState, Goto
<1>2. CASE \E c \in Controllers : no_transition(c)
  BY <1>2 DEF no_transition, Locking, Return, Goto
<1>3. CASE \E c \in Controllers : DefaultFct(c)
  BY <1>3, TableFacts, DefaultRows DEF DefaultFct, BeginAction, Locking, Goto, Fires
<1>4. CASE \E c \in Controllers : StopFct(c)
  BY <1>4, TableFacts DEF StopFct, BeginAction, Fires, Locking, Goto
<1>5. CASE \E c \in Controllers : UnblockTransports(c)
  BY <1>5 DEF UnblockTransports, Goto
<1>6. CASE \E c \in Controllers : UnblockDevice(c)
  BY <1>6 DEF UnblockDevice, Goto
<1>7. CASE \E c \in Controllers : WaitForWorkDone(c)
  BY <1>7 DEF WaitForWorkDone, Goto
<1>8. CASE \E c \in Controllers : DefaultFctPost(c)
  <2> PICK c \in Controllers : DefaultFctPost(c)
    BY <1>8
  <2>1. DefaultFctPosts(c)
    BY <1>b
  <2> QED
    BY <2>1 DEF DefaultFctPosts, DefaultFctPost, EndAction, Return, Goto
<1>9. CASE \E c \in Controllers : StopFctReturn(c)
  BY <1>9, TableFacts, RowUnique DEF StopFctReturn, EndAction, Fires, Return, Goto
<1>10. CASE \E c \in Controllers : ExitingFct(c)
  BY <1>10, TableFacts DEF ExitingFct, Fires, Locking, Return, Goto
<1>11. CASE \E c \in Controllers : ErrorFoundFct(c)
  BY <1>11 DEF States, ErrorFoundFct, SetError, Locking, Return, Goto
<1>12. CASE \E c \in Controllers : SpuriousWakeup(c)
  BY <1>12 DEF SpuriousWakeup, Goto
<1>13. CASE \E q \in Waiters : WaiterNext(q)
  BY <1>13 DEF WaiterNext, WaitForEndOfState, WaiterSleeps, WaiterTimeout,
       WaiterReturns, WaitForEndOfStateForMsGivesUp, WaiterStep, Goto
<1>14. CASE TakeWork
  BY <1>14 DEF TakeWork
<1>15. CASE BindError \/ ConnectError \/ ErrorFound
  BY <1>15 DEF States, BindError, ConnectError, ErrorFound, RequestError, SetError
<1>16. CASE AutomaticFct
  BY <1>16, TableFacts DEF AutomaticFct, Fires, NoRow
<1>17. CASE RunWrapper \/ ResumeTransports
  BY <1>17 DEF RunWrapper, ResumeTransports
<1>18. CASE InternalStopFct
  BY <1>18, TableFacts DEF InternalStopFct, Fires, NoRow
<1>19. CASE WorkDone \/ CatchException
  BY <1>19 DEF WorkDone, CatchException, ClearWork, NotifyOne, Goto
<1>20. CASE LogSocketRates
  BY <1>20 DEF LogSocketRates
<1>21. CASE QuietStep
  BY <1>21 DEF QuietStep, Advance, Terminate, BindChannels, Announce,
     ConnectChannels,
       UserHook, FirstCall, RunLoop, Receive, ReceiveInterrupted, WaitFor, RunReturned,
       PostRun, JoinRateLogger, Pause, NotifyState, Unwind
<1>22. CASE UNCHANGED vars
  BY <1>22 DEF vars
<1> QED
  BY <1>1, <1>2, <1>3, <1>4, <1>5, <1>6, <1>7, <1>8, <1>9, <1>10, <1>11, <1>12,
     <1>13, <1>14, <1>15, <1>16, <1>17, <1>18, <1>19, <1>20, <1>21, <1>22
     DEF Next, ControllerStep, WorkerStep, QuietStep

\* The worker's position agrees with fWorkActive, fWorkAvailable and fWork.
LEMMA WorkStep == IInv /\ [Next]_vars => WorkInv'
<1> SUFFICES ASSUME IInv, [Next]_vars PROVE WorkInv'
  OBVIOUS
<1>b. \A c \in Controllers : DefaultFctPost(c) => DefaultFctPosts(c)
  BY PostFacts
<1> USE ConstantsAssumption DEF IInv, TypeOK, WorkInv, ActivePoints,
        RunPoints, WorkerPoints, msmVars, callVars, workVars, interruptVars
<1>1. CASE \E c \in Controllers : \E e \in Requests : ChangeState(c, e)
  BY <1>1 DEF ChangeState, Goto
<1>2. CASE \E c \in Controllers : no_transition(c)
  BY <1>2 DEF no_transition, Locking, Return, Goto
<1>3. CASE \E c \in Controllers : DefaultFct(c)
  BY <1>3 DEF DefaultFct, BeginAction, Locking, Goto
<1>4. CASE \E c \in Controllers : StopFct(c)
  BY <1>4 DEF StopFct, BeginAction, Fires, Locking, Goto
<1>5. CASE \E c \in Controllers : UnblockTransports(c)
  BY <1>5 DEF UnblockTransports, Goto
<1>6. CASE \E c \in Controllers : UnblockDevice(c)
  BY <1>6 DEF UnblockDevice, Goto
<1>7. CASE \E c \in Controllers : WaitForWorkDone(c)
  BY <1>7 DEF WaitForWorkDone, Goto
<1>8. CASE \E c \in Controllers : DefaultFctPost(c)
  <2> PICK c \in Controllers : DefaultFctPost(c)
    BY <1>8
  <2>1. DefaultFctPosts(c)
    BY <1>b
  <2> QED
    BY <2>1 DEF DefaultFctPosts, DefaultFctPost, EndAction, Return, Goto
<1>9. CASE \E c \in Controllers : StopFctReturn(c)
  BY <1>9 DEF StopFctReturn, EndAction, Fires, Return, Goto
<1>10. CASE \E c \in Controllers : ExitingFct(c)
  BY <1>10 DEF ExitingFct, Fires, Locking, Return, Goto
<1>11. CASE \E c \in Controllers : ErrorFoundFct(c)
  BY <1>11 DEF States, ErrorFoundFct, SetError, Locking, Return, Goto
<1>12. CASE \E c \in Controllers : SpuriousWakeup(c)
  BY <1>12 DEF SpuriousWakeup, Goto
<1>13. CASE \E q \in Waiters : WaiterNext(q)
  BY <1>13 DEF WaiterNext, WaitForEndOfState, WaiterSleeps, WaiterTimeout,
       WaiterReturns, WaitForEndOfStateForMsGivesUp, WaiterStep, Goto
<1>14. CASE TakeWork
  BY <1>14 DEF TakeWork
<1>15. CASE BindError \/ ConnectError \/ ErrorFound
  BY <1>15 DEF States, BindError, ConnectError, ErrorFound, RequestError, SetError
<1>16. CASE AutomaticFct
  BY <1>16 DEF AutomaticFct, Fires, NoRow
<1>17. CASE RunWrapper \/ ResumeTransports
  BY <1>17 DEF RunWrapper, ResumeTransports
<1>18. CASE InternalStopFct
  BY <1>18 DEF InternalStopFct, Fires, NoRow
<1>19. CASE WorkDone \/ CatchException
  BY <1>19 DEF WorkDone, CatchException, ClearWork, NotifyOne, Goto
<1>20. CASE LogSocketRates
  BY <1>20 DEF LogSocketRates
<1>21. CASE QuietStep
  <2>1. CASE Terminate
    BY <2>1 DEF Terminate, Advance, TransientHandlers
  <2>2. CASE BindChannels
    BY <2>2 DEF BindChannels, Advance, TransientHandlers
  <2>3. CASE Announce
    BY <2>3 DEF Announce, Advance, TransientHandlers
  <2>4. CASE ConnectChannels
    BY <2>4 DEF ConnectChannels, Advance, TransientHandlers
  <2>5. CASE UserHook
    BY <2>5 DEF UserHook, Advance, TransientHandlers
  <2>6. CASE FirstCall \/ RunLoop
    BY <2>6 DEF FirstCall, RunLoop, Advance, TransientHandlers
  <2>7. CASE Receive \/ ReceiveInterrupted \/ WaitFor
    BY <2>7 DEF Receive, ReceiveInterrupted, WaitFor, Advance, TransientHandlers
  <2>8. CASE RunReturned \/ PostRun \/ JoinRateLogger
    BY <2>8 DEF RunReturned, PostRun, JoinRateLogger, Advance, TransientHandlers
  <2>9. CASE Pause \/ NotifyState \/ Unwind
    BY <2>9 DEF Pause, NotifyState, Unwind, Advance, TransientHandlers
  <2> QED
    BY <1>21, <2>1, <2>2, <2>3, <2>4, <2>5, <2>6, <2>7, <2>8, <2>9 DEF QuietStep
<1>22. CASE UNCHANGED vars
  BY <1>22 DEF vars
<1> QED
  BY <1>1, <1>2, <1>3, <1>4, <1>5, <1>6, <1>7, <1>8, <1>9, <1>10, <1>11, <1>12,
     <1>13, <1>14, <1>15, <1>16, <1>17, <1>18, <1>19, <1>20, <1>21, <1>22
     DEF Next, ControllerStep, WorkerStep, QuietStep

\* Posted work of a transient state is the work of the current state, and the
\* worker ends only after END or ERROR_FOUND.
LEMMA PostedStep == IInv /\ [Next]_vars => PostedInv'
<1> SUFFICES ASSUME IInv, [Next]_vars PROVE PostedInv'
  OBVIOUS
<1>a. \A c \in Controllers : DefaultFct(c) => DefaultFctBegins(c)
  BY BeginFacts
<1>b. \A c \in Controllers : DefaultFctPost(c) => DefaultFctPosts(c)
  BY PostFacts
<1> USE ConstantsAssumption DEF IInv, TypeOK, MutexInv, WorkInv, PostedInv,
        ActivePoints, msmVars, callVars, workVars, interruptVars
<1>1. CASE \E c \in Controllers : \E e \in Requests : ChangeState(c, e)
  BY <1>1 DEF ChangeState, Goto
<1>2. CASE \E c \in Controllers : no_transition(c)
  BY <1>2 DEF no_transition, Locking, Return, Goto
<1>3. CASE \E c \in Controllers : DefaultFct(c)
  <2> PICK c \in Controllers : DefaultFct(c)
    BY <1>3
  <2>1. DefaultFctBegins(c)
    BY <1>a
  <2> QED
    BY <2>1, InternalRow DEF DefaultFctBegins, DefaultFct, BeginAction, Locking,
       Goto
<1>4. CASE \E c \in Controllers : StopFct(c)
  BY <1>4, TableFacts, InternalRow DEF StopFct, BeginAction, Fires, Locking, Goto,
     TransientStates
<1>5. CASE \E c \in Controllers : UnblockTransports(c)
  BY <1>5 DEF UnblockTransports, Goto
<1>6. CASE \E c \in Controllers : UnblockDevice(c)
  BY <1>6 DEF UnblockDevice, Goto
<1>7. CASE \E c \in Controllers : WaitForWorkDone(c)
  BY <1>7 DEF WaitForWorkDone, Goto
<1>8. CASE \E c \in Controllers : DefaultFctPost(c)
  <2> PICK c \in Controllers : DefaultFctPost(c)
    BY <1>8
  <2>1. DefaultFctPosts(c)
    BY <1>b
  <2> QED
    BY <2>1 DEF DefaultFctPosts, DefaultFctPost, EndAction, Return, Goto
<1>9. CASE \E c \in Controllers : StopFctReturn(c)
  BY <1>9, TableFacts, InternalRow, RowUnique DEF StopFctReturn, EndAction, Fires,
     Return, Goto
<1>10. CASE \E c \in Controllers : ExitingFct(c)
  BY <1>10, TableFacts, InternalRow DEF ExitingFct, Fires, Locking, Return, Goto
<1>11. CASE \E c \in Controllers : ErrorFoundFct(c)
  BY <1>11 DEF States, ErrorFoundFct, SetError, Locking, Return, Goto
<1>12. CASE \E c \in Controllers : SpuriousWakeup(c)
  BY <1>12 DEF SpuriousWakeup, Goto
<1>13. CASE \E q \in Waiters : WaiterNext(q)
  BY <1>13 DEF WaiterNext, WaitForEndOfState, WaiterSleeps, WaiterTimeout,
       WaiterReturns, WaitForEndOfStateForMsGivesUp, WaiterStep, Goto
<1>14. CASE TakeWork
  BY <1>14, TableFacts, InternalRow DEF TakeWork, WorkerPoints
<1>15. CASE BindError \/ ConnectError \/ ErrorFound
  BY <1>15 DEF States, BindError, ConnectError, ErrorFound, RequestError, SetError
<1>16. CASE AutomaticFct
  BY <1>16, TableFacts, InternalRow DEF AutomaticFct, Fires, NoRow
<1>17. CASE RunWrapper \/ ResumeTransports
  BY <1>17 DEF RunWrapper, ResumeTransports
<1>18. CASE InternalStopFct
  BY <1>18, TableFacts, InternalRow DEF InternalStopFct, Fires, NoRow, RunPoints,
     TransientHandlers
<1>19. CASE WorkDone \/ CatchException
  BY <1>19 DEF WorkDone, CatchException, ClearWork, NotifyOne, Goto
<1>20. CASE LogSocketRates
  BY <1>20 DEF LogSocketRates
<1>21. CASE QuietStep
  <2>1. CASE Terminate
    BY <2>1 DEF Terminate, Advance
  <2>2. CASE BindChannels
    BY <2>2 DEF BindChannels, Advance
  <2>3. CASE Announce
    BY <2>3 DEF Announce, Advance
  <2>4. CASE ConnectChannels
    BY <2>4 DEF ConnectChannels, Advance
  <2>5. CASE UserHook
    BY <2>5 DEF UserHook, Advance
  <2>6. CASE FirstCall \/ RunLoop
    BY <2>6 DEF FirstCall, RunLoop, Advance
  <2>7. CASE Receive \/ ReceiveInterrupted \/ WaitFor
    BY <2>7 DEF Receive, ReceiveInterrupted, WaitFor, Advance
  <2>8. CASE RunReturned \/ PostRun \/ JoinRateLogger
    BY <2>8 DEF RunReturned, PostRun, JoinRateLogger, Advance
  <2>9. CASE Pause \/ NotifyState \/ Unwind
    BY <2>9 DEF Pause, NotifyState, Unwind, Advance
  <2> QED
    BY <1>21, <2>1, <2>2, <2>3, <2>4, <2>5, <2>6, <2>7, <2>8, <2>9 DEF QuietStep
<1>22. CASE UNCHANGED vars
  BY <1>22 DEF vars
<1> QED
  BY <1>1, <1>2, <1>3, <1>4, <1>5, <1>6, <1>7, <1>8, <1>9, <1>10, <1>11, <1>12,
     <1>13, <1>14, <1>15, <1>16, <1>17, <1>18, <1>19, <1>20, <1>21, <1>22
     DEF Next, ControllerStep, WorkerStep, QuietStep

\* A transient state keeps somebody responsible for leaving it.
LEMMA OwnedStep == IInv /\ [Next]_vars => TransientStateOwned'
<1> SUFFICES ASSUME IInv, [Next]_vars PROVE TransientStateOwned'
  OBVIOUS
<1>a. \A c \in Controllers : DefaultFct(c) => DefaultFctBegins(c)
  BY BeginFacts
<1>b. \A c \in Controllers : DefaultFctPost(c) => DefaultFctPosts(c)
  BY PostFacts
<1> USE ConstantsAssumption DEF IInv, TypeOK, MutexInv, WorkInv, PostedInv,
        TransientStateOwned, ActivePoints, msmVars, callVars, workVars, interruptVars
<1>1. CASE \E c \in Controllers : \E e \in Requests : ChangeState(c, e)
  BY <1>1 DEF ChangeState, Goto
<1>2. CASE \E c \in Controllers : no_transition(c)
  BY <1>2 DEF no_transition, Locking, Return, Goto
<1>3. CASE \E c \in Controllers : DefaultFct(c)
  <2> PICK c \in Controllers : DefaultFct(c)
    BY <1>3
  <2>1. DefaultFctBegins(c)
    BY <1>a
  <2> QED
    BY <2>1 DEF DefaultFctBegins, DefaultFct, BeginAction, Locking, Goto
<1>4. CASE \E c \in Controllers : StopFct(c)
  BY <1>4, TableFacts DEF StopFct, BeginAction, Fires, Locking, Goto,
     TransientStates
<1>5. CASE \E c \in Controllers : UnblockTransports(c)
  BY <1>5 DEF UnblockTransports, Goto
<1>6. CASE \E c \in Controllers : UnblockDevice(c)
  BY <1>6 DEF UnblockDevice, Goto
<1>7. CASE \E c \in Controllers : WaitForWorkDone(c)
  BY <1>7 DEF WaitForWorkDone, Goto
<1>8. CASE \E c \in Controllers : DefaultFctPost(c)
  <2> PICK c \in Controllers : DefaultFctPost(c)
    BY <1>8
  <2>1. DefaultFctPosts(c)
    BY <1>b
  <2> QED
    BY <2>1 DEF DefaultFctPosts, DefaultFctPost, EndAction, Return, Goto
<1>9. CASE \E c \in Controllers : StopFctReturn(c)
  BY <1>9, TableFacts, RowUnique DEF StopFctReturn, EndAction, Fires, Return, Goto,
     TransientStates
<1>10. CASE \E c \in Controllers : ExitingFct(c)
  BY <1>10, TableFacts DEF ExitingFct, Fires, Locking, Return, Goto, TransientStates
<1>11. CASE \E c \in Controllers : ErrorFoundFct(c)
  BY <1>11 DEF States, ErrorFoundFct, SetError, Locking, Return, Goto,
     TransientStates
<1>12. CASE \E c \in Controllers : SpuriousWakeup(c)
  BY <1>12 DEF SpuriousWakeup, Goto
<1>13. CASE \E q \in Waiters : WaiterNext(q)
  BY <1>13 DEF WaiterNext, WaitForEndOfState, WaiterSleeps, WaiterTimeout,
       WaiterReturns, WaitForEndOfStateForMsGivesUp, WaiterStep, Goto
<1>14. CASE TakeWork
  BY <1>14, TableFacts, InternalRow DEF TakeWork, WorkerPoints
<1>15. CASE BindError \/ ConnectError \/ ErrorFound
  BY <1>15 DEF States, BindError, ConnectError, ErrorFound, RequestError, SetError,
     TransientStates
<1>16. CASE AutomaticFct
  BY <1>16, TableFacts, InternalRow DEF AutomaticFct, Fires, NoRow
<1>17. CASE RunWrapper \/ ResumeTransports
  BY <1>17 DEF RunWrapper, ResumeTransports
<1>18. CASE InternalStopFct
  BY <1>18, TableFacts DEF InternalStopFct, Fires, NoRow, TransientStates
<1>19. CASE WorkDone \/ CatchException
  BY <1>19 DEF WorkDone, CatchException, ClearWork, NotifyOne, Goto
<1>20. CASE LogSocketRates
  BY <1>20 DEF LogSocketRates
<1>21. CASE QuietStep
  <2>1. CASE Terminate
    BY <2>1 DEF Terminate, Advance, TransientHandlers
  <2>2. CASE BindChannels
    BY <2>2 DEF BindChannels, Advance, TransientHandlers
  <2>3. CASE Announce
    BY <2>3 DEF Announce, Advance, TransientHandlers
  <2>4. CASE ConnectChannels
    BY <2>4 DEF ConnectChannels, Advance, TransientHandlers
  <2>5. CASE UserHook
    BY <2>5 DEF UserHook, Advance, TransientHandlers
  <2>6. CASE FirstCall \/ RunLoop
    BY <2>6 DEF FirstCall, RunLoop, Advance, TransientHandlers
  <2>7. CASE Receive \/ ReceiveInterrupted \/ WaitFor
    BY <2>7 DEF Receive, ReceiveInterrupted, WaitFor, Advance, TransientHandlers
  <2>8. CASE RunReturned \/ PostRun \/ JoinRateLogger
    BY <2>8 DEF RunReturned, PostRun, JoinRateLogger, Advance, TransientHandlers
  <2>9. CASE Pause \/ NotifyState \/ Unwind
    BY <2>9 DEF Pause, NotifyState, Unwind, Advance, TransientHandlers
  <2> QED
    BY <1>21, <2>1, <2>2, <2>3, <2>4, <2>5, <2>6, <2>7, <2>8, <2>9 DEF QuietStep
<1>22. CASE UNCHANGED vars
  BY <1>22 DEF vars
<1> QED
  BY <1>1, <1>2, <1>3, <1>4, <1>5, <1>6, <1>7, <1>8, <1>9, <1>10, <1>11, <1>12,
     <1>13, <1>14, <1>15, <1>16, <1>17, <1>18, <1>19, <1>20, <1>21, <1>22
     DEF Next, ControllerStep, WorkerStep, QuietStep

\* A stopped device has interrupted its worker or is about to interrupt it.
LEMMA InterruptStep == IInv /\ [Next]_vars => NoLostInterrupt' /\ FirstCallInv'
<1> SUFFICES ASSUME IInv, [Next]_vars PROVE NoLostInterrupt' /\ FirstCallInv'
  OBVIOUS
<1>a. \A c \in Controllers : DefaultFct(c) => DefaultFctBegins(c)
  BY BeginFacts
<1>b. \A c \in Controllers : DefaultFctPost(c) => DefaultFctPosts(c)
  BY PostFacts
<1> USE ConstantsAssumption DEF IInv, TypeOK, MutexInv, NoLostInterrupt, FirstCallInv, Threads,
        msmVars, callVars, workVars, interruptVars
<1>1. CASE \E c \in Controllers : \E e \in Requests : ChangeState(c, e)
  BY <1>1 DEF ChangeState, Goto
<1>2. CASE \E c \in Controllers : no_transition(c)
  BY <1>2 DEF no_transition, Locking, Return, Goto
<1>3. CASE \E c \in Controllers : DefaultFct(c)
  <2> PICK c \in Controllers : DefaultFct(c)
    BY <1>3
  <2>1. DefaultFctBegins(c)
    BY <1>a
  <2> QED
    BY <2>1 DEF DefaultFctBegins, DefaultFct, BeginAction, Locking, Goto
<1>4. CASE \E c \in Controllers : StopFct(c)
  BY <1>4, TableFacts DEF StopFct, BeginAction, Fires, Locking, Goto
<1>5. CASE \E c \in Controllers : UnblockTransports(c)
  BY <1>5 DEF UnblockTransports, Goto
<1>6. CASE \E c \in Controllers : UnblockDevice(c)
  BY <1>6 DEF UnblockDevice, Goto
<1>7. CASE \E c \in Controllers : WaitForWorkDone(c)
  BY <1>7 DEF WaitForWorkDone, Goto
<1>8. CASE \E c \in Controllers : DefaultFctPost(c)
  <2> PICK c \in Controllers : DefaultFctPost(c)
    BY <1>8
  <2>1. DefaultFctPosts(c)
    BY <1>b
  <2> QED
    BY <2>1 DEF DefaultFctPosts, DefaultFctPost, EndAction, Return, Goto
<1>9. CASE \E c \in Controllers : StopFctReturn(c)
  BY <1>9, TableFacts, RowUnique DEF StopFctReturn, EndAction, Fires, Return, Goto
<1>10. CASE \E c \in Controllers : ExitingFct(c)
  BY <1>10, TableFacts DEF ExitingFct, Fires, Locking, Return, Goto
<1>11. CASE \E c \in Controllers : ErrorFoundFct(c)
  BY <1>11 DEF States, ErrorFoundFct, SetError, Locking, Return, Goto
<1>12. CASE \E c \in Controllers : SpuriousWakeup(c)
  BY <1>12 DEF SpuriousWakeup, Goto
<1>13. CASE \E q \in Waiters : WaiterNext(q)
  BY <1>13 DEF WaiterNext, WaitForEndOfState, WaiterSleeps, WaiterTimeout,
       WaiterReturns, WaitForEndOfStateForMsGivesUp, WaiterStep, Goto
<1>14. CASE TakeWork
  BY <1>14 DEF TakeWork
<1>15. CASE BindError \/ ConnectError \/ ErrorFound
  BY <1>15 DEF States, BindError, ConnectError, ErrorFound, RequestError, SetError
<1>16. CASE AutomaticFct
  BY <1>16, TableFacts DEF AutomaticFct, Fires, NoRow
<1>17. CASE RunWrapper \/ ResumeTransports
  BY <1>17 DEF RunWrapper, ResumeTransports
<1>18. CASE InternalStopFct
  BY <1>18, TableFacts DEF InternalStopFct, Fires, NoRow
<1>19. CASE WorkDone \/ CatchException
  BY <1>19 DEF WorkDone, CatchException, ClearWork, NotifyOne, Goto
<1>20. CASE LogSocketRates
  BY <1>20 DEF LogSocketRates
<1>21. CASE QuietStep
  <2>1. CASE Terminate
    BY <2>1 DEF Terminate, Advance
  <2>2. CASE BindChannels
    BY <2>2 DEF BindChannels, Advance
  <2>3. CASE Announce
    BY <2>3 DEF Announce, Advance
  <2>4. CASE ConnectChannels
    BY <2>4 DEF ConnectChannels, Advance
  <2>5. CASE UserHook
    BY <2>5 DEF UserHook, Advance
  <2>6. CASE FirstCall \/ RunLoop
    BY <2>6 DEF FirstCall, RunLoop, Advance
  <2>7. CASE Receive \/ ReceiveInterrupted \/ WaitFor
    BY <2>7 DEF Receive, ReceiveInterrupted, WaitFor, Advance
  <2>8. CASE RunReturned \/ PostRun \/ JoinRateLogger
    BY <2>8 DEF RunReturned, PostRun, JoinRateLogger, Advance
  <2>9. CASE Pause \/ NotifyState \/ Unwind
    BY <2>9 DEF Pause, NotifyState, Unwind, Advance
  <2> QED
    BY <1>21, <2>1, <2>2, <2>3, <2>4, <2>5, <2>6, <2>7, <2>8, <2>9 DEF QuietStep
<1>22. CASE UNCHANGED vars
  BY <1>22 DEF vars
<1> QED
  BY <1>1, <1>2, <1>3, <1>4, <1>5, <1>6, <1>7, <1>8, <1>9, <1>10, <1>11, <1>12,
     <1>13, <1>14, <1>15, <1>16, <1>17, <1>18, <1>19, <1>20, <1>21, <1>22
     DEF Next, ControllerStep, WorkerStep, QuietStep

-----------------------------------------------------------------------------
(* The theorems.                                                           *)

\* The initial state, with every thread idle and no work, satisfies IInv.
LEMMA InitIInv == Init => IInv
<1> SUFFICES ASSUME Init PROVE IInv
  OBVIOUS
<1>1. FlagsOK
  BY Zenon DEF Init, FlagsOK
<1>2. ValuesOK
  BY ConstantsAssumption DEF Init, ValuesOK, States, Threads, WorkerPoints
<1>3. MutexInv
  BY ConstantsAssumption DEF Init, MutexInv, Threads
<1>4. WorkInv /\ PostedInv
  BY DEF Init, WorkInv, PostedInv, ActivePoints, RunPoints
<1>5. TransientStateOwned /\ NoLostInterrupt /\ FirstCallInv
  BY DEF Init, TransientStateOwned, NoLostInterrupt, FirstCallInv, TransientStates
<1> QED
  BY <1>1, <1>2, <1>3, <1>4, <1>5 DEF IInv, TypeOK, FlagsOK, ValuesOK

\* Every step of ChangeState, of the worker and of the waiters preserves IInv.
LEMMA NextIInv == IInv /\ [Next]_vars => IInv'
<1> SUFFICES ASSUME IInv, [Next]_vars PROVE IInv'
  OBVIOUS
<1>1. FlagsOK'
  BY FlagsStep, Zenon DEF IInv, TypeOK, FlagsOK
<1>2. TypeOK'
  BY <1>1, ValuesStep DEF TypeOK, FlagsOK, ValuesOK
<1> QED
  BY <1>2, MutexStep, WorkStep, PostedStep, OwnedStep, InterruptStep DEF IInv

\* IInv holds in every reachable state of the device.
LEMMA Invariance == Spec => []IInv
  BY InitIInv, NextIInv, PTL DEF Spec

\* The state machine's variables, the work slot of ProcessWork and the positions
\* of all threads keep their types.
THEOREM TypeCorrect == Spec => []TypeOK
<1>1. IInv => TypeOK
  BY DEF IInv
<1> QED
  BY <1>1, Invariance, PTL

\* A STOP does not miss a worker that blocks in Receive or sleeps in WaitFor,
\* whichever way StopFct and RunWrapper interleave, if Run() looks at the state
\* before it makes the call or the transports were resumed before the STOP.
THEOREM InterruptNotLost == Spec => []NoLostInterrupt
<1>1. IInv => NoLostInterrupt
  BY DEF IInv
<1> QED
  BY <1>1, Invariance, PTL

\* A transient state always has a ChangeState call or the worker about to leave
\* it, however many threads call ChangeState.
THEOREM TransientOwned == Spec => []TransientStateOwned
<1>1. IInv => TransientStateOwned
  BY DEF IInv
<1> QED
  BY <1>1, Invariance, PTL

\* ProcessWork returns only after END, with nothing posted, or after an exception
\* that has put the device into the Error state.
THEOREM NothingAbandoned == Spec => []NoAbandonedWork
<1>1. IInv => NoAbandonedWork
  <2> SUFFICES ASSUME IInv PROVE NoAbandonedWork
    OBVIOUS
  <2>1. worker \in {"exited", "failed"} => ~fWorkActive
    BY DEF IInv, WorkInv, ActivePoints
  <2>2. worker = "failed" => fState = "Error"
    BY DEF IInv, PostedInv, MutexInv
  <2>3. ASSUME worker = "exited" PROVE fState \in {"EXITING", "Error"}
    <3>1. activeState = "EXITING"
      BY <2>3 DEF IInv, PostedInv
    <3>2. errorRegion = "OK" => fChangeStateMutex = NoThread
      BY <3>1, TableFacts DEF IInv, TypeOK, MutexInv
    <3> QED
      BY <3>1, <3>2 DEF IInv, TypeOK, MutexInv
  <2>4. worker = "exited" => ~fWorkAvailable
    BY DEF IInv, PostedInv
  <2> QED
    BY <2>1, <2>2, <2>3, <2>4 DEF NoAbandonedWork
<1> QED
  BY <1>1, Invariance, PTL

\* Nobody replaces or withdraws the handler that is executing: DefaultFct posts
\* only after it has seen fWorkActive cleared, and ProcessWork clears both flags
\* together.
THEOREM HandlerKept == Spec => ActiveHandlerKept
<1> DEFINE Kept == fWorkActive => /\ fWork' = fWork
                                  /\ fWorkAvailable' \/ ~fWorkActive'
<1>1. IInv /\ [Next]_vars => Kept
  <2> SUFFICES ASSUME IInv, [Next]_vars, fWorkActive PROVE Kept
    OBVIOUS
  <2>1. fWorkAvailable
    BY DEF IInv, WorkInv
  <2>2. fWorkAvailable' \/ ~fWorkActive'
    BY <2>1, WorkStep DEF WorkInv
  <2>3. fWork' = fWork
    <3> USE DEF workVars
    <3>1. ASSUME NEW c \in Controllers, DefaultFctPost(c) PROVE FALSE
      BY <3>1 DEF DefaultFctPost, EndAction
    <3>2. ASSUME NEW c \in Controllers, ControllerStep(c) \/ SpuriousWakeup(c)
                   \/ \E e \in Requests : ChangeState(c, e)
          PROVE  fWork' = fWork
      BY <3>1, <3>2, Zenon DEF ControllerStep, ChangeState, no_transition,
         DefaultFct,
         StopFct, BeginAction, UnblockTransports, UnblockDevice, WaitForWorkDone,
         StopFctReturn, ExitingFct, ErrorFoundFct, SpuriousWakeup
    <3>3. ASSUME NEW q \in Waiters, WaiterNext(q) PROVE fWork' = fWork
      BY <3>3, Zenon DEF WaiterNext, WaitForEndOfState, WaiterSleeps, WaiterTimeout,
         WaiterReturns, WaitForEndOfStateForMsGivesUp, WaiterStep
    <3>4. CASE WorkerStep \/ Receive \/ LogSocketRates
      BY <3>4, Zenon DEF WorkerStep, Receive, LogSocketRates, TakeWork, Terminate,
         BindChannels, BindError, RequestError, Announce, ConnectChannels, ConnectError,
         UserHook, AutomaticFct, RunWrapper, ResumeTransports, FirstCall, RunLoop,
         ReceiveInterrupted, WaitFor, RunReturned, InternalStopFct, PostRun,
         JoinRateLogger, Pause, WorkDone, NotifyState, Unwind, CatchException,
         ErrorFound, ClearWork, Advance
    <3>5. CASE UNCHANGED vars
      BY <3>5, Zenon DEF vars
    <3> QED
      BY <3>2, <3>3, <3>4, <3>5, Zenon DEF Next
  <2> QED
    BY <2>2, <2>3
<1> QED
  BY <1>1, Invariance, PTL DEF Spec, ActiveHandlerKept

\* DefaultFct, StopFct and ExitingFct perform requested transitions as soon as
\* they write fState, the internal events complete the handler that is executing,
\* and everything else changes neither the state other threads see nor the handler.
LEMMA LifecycleStep == IInv /\ [Next]_vars => [Lifecycle!Next]_(Lifecycle!vars)
<1> SUFFICES ASSUME IInv, [Next]_vars PROVE Lifecycle!Next \/ UNCHANGED Lifecycle!vars
  OBVIOUS
<1>1. ASSUME UNCHANGED <<fState, fWork, fWorkActive>> PROVE UNCHANGED Lifecycle!vars
  BY <1>1 DEF Lifecycle!vars
<1>2. ASSUME <<fState, fState'>> \in Lifecycle!Requested, UNCHANGED <<fWork, fWorkActive>>
      PROVE  Lifecycle!Next
  BY <1>2 DEF Lifecycle!Next, Lifecycle!Request
<1>3. ASSUME NEW c \in Controllers, DefaultFct(c) \/ StopFct(c) \/ ExitingFct(c)
      PROVE  Lifecycle!Next
  <2>1. fState = activeState
    BY <1>3 DEF IInv, MutexInv, DefaultFct, StopFct, BeginAction, ExitingFct,
       Locking, Fires
  <2>2. PICK r \in transition_table : r.from = activeState /\ r.to = fState'
               /\ r.action \in {"DefaultFct", "StopFct", "ExitingFct"}
    BY <1>3 DEF DefaultFct, StopFct, BeginAction, ExitingFct, Fires
  <2>3. <<r.from, r.to>> \in Lifecycle!Requested
    BY <2>2 DEF transition_table, Row, Lifecycle!Requested
  <2>4. UNCHANGED <<fWork, fWorkActive>>
    BY <1>3 DEF DefaultFct, StopFct, BeginAction, ExitingFct, workVars
  <2> QED
    BY <1>2, <2>1, <2>2, <2>3, <2>4
<1>4. ASSUME NEW c \in Controllers, DefaultFctPost(c) PROVE UNCHANGED Lifecycle!vars
  BY <1>4 DEF DefaultFctPost, EndAction, Lifecycle!vars
<1>5. CASE BindError \/ ConnectError \/ ErrorFound
           \/ \E c \in Controllers : ErrorFoundFct(c)
  <2>1. UNCHANGED <<fWork, fWorkActive>>
    BY <1>5, Zenon DEF BindError, ConnectError, ErrorFound, RequestError,
       ErrorFoundFct, workVars
  <2>2. UNCHANGED fState \/ (fState # "Error" /\ fState' = "Error")
    BY <1>5 DEF BindError, ConnectError, ErrorFound, RequestError, ErrorFoundFct,
       SetError,
                IInv, MutexInv
  <2> QED
    BY <1>1, <2>1, <2>2 DEF Lifecycle!Next, Lifecycle!Fail
<1>6. CASE AutomaticFct \/ InternalStopFct
  <2>1. UNCHANGED <<fWork, fWorkActive>>
    BY <1>6, Zenon DEF AutomaticFct, InternalStopFct, workVars
  <2>2. fWorkActive
    BY <1>6 DEF AutomaticFct, InternalStopFct, IInv, WorkInv, ActivePoints,
       WorkerPoints
  <2>3. \/ UNCHANGED fState
        \/ \E r \in transition_table :
              /\ r.from = fState
              /\ r.to = fState'
              /\ \/ fWork \in TransientHandlers /\ r.event = InternalEvent[fWork]
                                                /\ fState = HandlerState[fWork]
                 \/ fWork = "RUN" /\ r.event = "internal_READY"
    <3>1. CASE AutomaticFct
      BY <3>1, <2>2 DEF AutomaticFct, Fires, IInv, MutexInv, WorkInv, PostedInv
    <3>2. CASE InternalStopFct
      BY <3>2 DEF InternalStopFct, Fires, IInv, MutexInv, WorkInv, RunPoints
    <3> QED
      BY <1>6, <3>1, <3>2
  <2>4. ASSUME NEW r \in transition_table, r.from = fState, r.to = fState',
               fWork \in TransientHandlers, r.event = InternalEvent[fWork],
               fState = HandlerState[fWork]
        PROVE  <<fWork, fState, fState'>> \in Lifecycle!ByHandler
    BY <2>4 DEF transition_table, Row, TransientHandlers, InternalEvent,
       HandlerState,
                Lifecycle!ByHandler
  <2>5. ASSUME NEW r \in transition_table, r.from = fState, r.to = fState',
               fWork = "RUN", r.event = "internal_READY", fState # "INITIALIZING_TASK"
        PROVE  <<fWork, fState, fState'>> \in Lifecycle!ByHandler
    BY <2>5 DEF transition_table, Row, Lifecycle!ByHandler
  <2>6. fWork = "RUN" => fState # "INITIALIZING_TASK"
    BY <1>6, ConstantsAssumption DEF AutomaticFct, InternalStopFct, IInv,
       TransientStateOwned,
       TransientStates, TransientHandlers
  <2> QED
    BY <2>1, <2>2, <2>3, <2>4, <2>5, <2>6, <1>1 DEF Lifecycle!Next,
       Lifecycle!Complete
<1>7. CASE TakeWork
  <2>1. UNCHANGED fState /\ UNCHANGED fWork /\ fWorkActive'
    BY <1>7 DEF TakeWork, msmVars
  <2>2. ~fWorkActive
    BY <1>7 DEF TakeWork, IInv, WorkInv, ActivePoints
  <2>3. \/ fWork \in {"RUN", "PAUSE"}
        \/ (fWork \in TransientHandlers /\ fState \in {HandlerState[fWork], "Error"})
    BY <1>7 DEF TakeWork, IInv, WorkInv, PostedInv, Handlers, TransientHandlers
  <2>4. fWork \in TransientHandlers =>
          \E t \in Lifecycle!ByHandler : fWork = t[1] /\ HandlerState[fWork] = t[2]
    BY DEF TransientHandlers, HandlerState, Lifecycle!ByHandler
  <2> QED
    BY <2>1, <2>2, <2>3, <2>4 DEF Lifecycle!Next, Lifecycle!Start
<1>8. CASE WorkDone \/ CatchException
  <2>1. UNCHANGED fState /\ ~fWorkActive'
    BY <1>8 DEF WorkDone, CatchException, ClearWork, msmVars
  <2>2. fWorkActive /\ fWork \in Handlers
    BY <1>8 DEF WorkDone, CatchException, ClearWork, IInv, WorkInv, ActivePoints,
       WorkerPoints
  <2> QED
    BY <2>1, <2>2 DEF Handlers, Lifecycle!Next, Lifecycle!Finish
<1>9. ASSUME NEW c \in Controllers, \/ no_transition(c) \/ UnblockTransports(c) \/ UnblockDevice(c)
           \/ WaitForWorkDone(c) \/ StopFctReturn(c) \/ SpuriousWakeup(c)
           \/ \E e \in Requests : ChangeState(c, e)
      PROVE  UNCHANGED Lifecycle!vars
  <2>1. UNCHANGED <<fState, fWork, fWorkActive>>
    BY <1>9, Zenon DEF no_transition, UnblockTransports, UnblockDevice,
       WaitForWorkDone,
       StopFctReturn, EndAction, SpuriousWakeup, ChangeState, msmVars, workVars
  <2> QED
    BY <2>1, <1>1
<1>10. ASSUME NEW q \in Waiters, WaiterNext(q) PROVE UNCHANGED Lifecycle!vars
  <2>1. UNCHANGED <<fState, fWork, fWorkActive>>
    BY <1>10, Zenon DEF WaiterNext, WaitForEndOfState, WaiterSleeps,
       WaiterTimeout,
       WaiterReturns, WaitForEndOfStateForMsGivesUp, WaiterStep, msmVars, workVars
  <2> QED
    BY <2>1, <1>1
<1>11. CASE QuietStep \/ RunWrapper \/ ResumeTransports \/ LogSocketRates \/ UNCHANGED vars
  <2>1. UNCHANGED <<fState, fWork, fWorkActive>>
    BY <1>11, Zenon DEF QuietStep, Advance, Terminate, BindChannels, Announce,
       ConnectChannels,
       UserHook, FirstCall, RunLoop, Receive, ReceiveInterrupted, WaitFor, RunReturned,
       PostRun, JoinRateLogger, Pause, NotifyState, Unwind, RunWrapper, ResumeTransports,
       LogSocketRates, vars, msmVars, workVars
  <2> QED
    BY <2>1, <1>1
<1> QED
  BY <1>3, <1>4, <1>5, <1>6, <1>7, <1>8, <1>9, <1>10, <1>11, Zenon
     DEF Next, ControllerStep, WorkerStep, QuietStep

\* EXITING is left for Error alone, and Error never.
LEMMA FinalStates ==
    ASSUME IInv, [Next]_vars, fState \in {"EXITING", "Error"}
    PROVE  fState' \in {"EXITING", "Error"}
  BY LifecycleStep DEF Lifecycle!Next, Lifecycle!vars, Lifecycle!Request, Lifecycle!Requested,
     Lifecycle!Complete, Lifecycle!ByHandler, Lifecycle!Fail, Lifecycle!Start, Lifecycle!Finish

\* The device implements DeviceLifecycle: every step of ChangeState, of the worker
\* and of the waiters is one of its steps or leaves state and handler alone.
THEOREM Refinement == Spec => LifecycleSpec
<1>1. Init => Lifecycle!Init
  BY DEF Init, Lifecycle!Init
<1> QED
  BY <1>1, LifecycleStep, Invariance, PTL DEF Spec, LifecycleSpec, Lifecycle!Spec
=============================================================================
