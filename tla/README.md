# Formal models of FairMQ

TLA+ models of the FairMQ device framework (`src/fairmq`), the TLC instances
that check them and the theorems TLAPS proves about them. Paths below are
relative to the repository root.

## 1. Inventory

FairMQ runs *devices*: processes that execute user code in a fixed life cycle and
exchange messages over channels. The parts, with the state they keep and the
operations that change it:

| part | source | state | operations |
|---|---|---|---|
| device state machine | `fairmq/FairMQStateMachine.*` | `fState`, the boost::msm regions, the work slot (`fWork`, `fWorkActive`, `fWorkAvailable`, `fWorkerTerminated`), two mutexes, two condition variables | `ChangeState` (any thread), `ProcessWork` (worker), `WaitForEndOfState[ForMs]` |
| device handlers | `fairmq/FairMQDevice.*` | interruption flags, transports, rate logger thread | `InitWrapper`, `InitTaskWrapper`, `RunWrapper`, `PauseWrapper`, `ResetTaskWrapper`, `ResetWrapper`, `Unblock` |
| channels and their attachment | `FairMQDevice.cxx:82-465`, `FairMQChannel.cxx` | channel configuration, `fIsValid`, sockets | `AttachChannels`, `ValidateChannel`, `Update*`, `BindEndpoint` with port retries |
| input polling | `FairMQDevice.cxx:556-751` | poller, multi-transport mutex, result flag | `HandleSingleChannelInput`, `HandleMultipleChannelInput`, `PollForTransport` |
| queue-based state machine | `fairmq/StateMachine.*` | `fState`, queue of next states | `ChangeState`, `Run`, `Reset` |
| plugin services | `fairmq/PluginServices.*` | `fDeviceController` | `Take-`, `Steal-`, `ReleaseDeviceControl`, `ChangeDeviceState`, `WaitForReleaseDeviceControl` |
| Control plugin | `fairmq/plugins/Control.*` | event queue, shutdown flags, two threads | startup and shutdown sequences, `SignalHandler` |
| device runner, plugin manager | `fairmq/DeviceRunner.*`, `PluginManager.*` | loaded plugins | start and destruction order |
| event manager | `fairmq/EventManager.h` | signals, connections | `Subscribe`, `Unsubscribe`, `Emit` |
| shared memory session | `fairmq/shmem/FairMQTransportFactorySHM.cxx`, `Manager.cxx` | segment, device counter, named mutexes | factory constructor and destructor, `StartMonitor`, heartbeats |
| shared memory monitor | `fairmq/shmem/Monitor.cxx` | heartbeat flag, timestamps | `MonitorHeartbeats`, `CheckSegment`, `Cleanup` |
| shared memory messages, sockets | `FairMQMessageSHM.cxx`, `FairMQSocketSHM.cxx` | handle, region id, `fQueued` | construct, `Rebuild`, `Copy`, `CloseMessage`, `Send`, `Receive` |
| unmanaged regions | `Region.cxx`, `FairMQUnmanagedRegionSHM.cxx` | region counter, acknowledgement queue | create, `ReceiveAcks`, destroy |
| ZeroMQ, nanomsg, OFI transports | `fairmq/zeromq`, `nanomsg`, `ofi` | sockets, interruption flag | `Send`, `Receive`, `Interrupt`, `Resume` |
| program options | `fairmq/options` | variable map, channel map, subscribers | `ParseAll`, `SetValue`, `Subscribe` |
| DDS plugin | `fairmq/plugins/DDS` | address maps, subscribers | `HandleControl`, property exchange, commands |
| SCHEDULER-FLP-EPN example | `examples/SCHEDULER-FLP-EPN` | free slots, history, schedules | `ConditionalRun` of scheduler, `Run` of FLP, `receive` of EPN |

How they interact: plugins call `ChangeDeviceState` of the plugin services, which
calls `ChangeState` of the device; the device's worker thread executes handlers and
calls the state-change callbacks, which push events into the Control plugin's
queue; the handlers use channels, which use sockets of a transport; `STOP`
interrupts the transports.

What is hard: several threads request state changes while the worker changes
the state itself; two mutexes are held across waits; condition variables are shared
and notified with `notify_one`; flags are reset by one thread and set by another;
joins in destructors; interprocess objects outlive the processes that created
them; retries and timeouts in channel attachment, sockets and acknowledgements.
`PROJECT.json` lists these hazards at their lines.

## 2. The modules

| module | models | theorems in | instances |
|---|---|---|---|
| `DeviceStateMachine`, `DeviceLifecycle` | device state machine, handlers; the life cycle they implement | `DeviceStateMachineProofs` | `MCDevice` |
| `DeviceControl` (extends the former) | plugin services, Control plugin, device runner | `DeviceControlProofs` | `MCControl` |
| `QueuedStateMachine` | queue-based state machine | `QueuedStateMachineProofs` | `MCQueue` |
| `ShmSession` | shared memory session, monitor | `ShmSessionProofs` | `MCSession` |
| `ShmTransfer`, `ChunkOwnership` | shared memory messages, sockets, regions; the ownership they implement | `ShmTransferProofs` | `MCTransfer` |
| `ChannelSetup` | attachment of channels, program options, DDS plugin | `ChannelSetupProofs` | `MCSetup` |
| `Messages`, `Pipeline` (extends the former) | ZeroMQ and nanomsg messages, sockets and pollers, input loops, the devices of `fairmq/devices` and of the examples | `PipelineProofs` | `MCPipeline` |
| `FrameScheduling` | the example SCHEDULER-FLP-EPN | `FrameSchedulingProofs` | `MCFrames` |

Definitions whose comment begins with "Variant" or "Mutation" are used by no
specification. Each is the definition after it with a plausible mistake;
`PROJECT.json` names the property that the mistake breaks.

A property that is proved for all values of the constants is not always also an
invariant of a run: `TransientStateOwned`, `NoAbandonedWork`,
`ActiveHandlerKept`, `OneShutdownAtATime`, `HasShutdown` and `EntersLegally` have
theorems only.

## 3. The device state machine

`DeviceStateMachine.tla` models `FairMQStateMachine.cxx` and the handlers in
`FairMQDevice.cxx` that the worker executes.

State. `fState` is the atomic all threads read; `activeState` and `errorRegion` are
the two regions of the boost::msm machine, which change later than `fState`
because the transition actions run first. `fChangeStateMutex` is held by a caller
of `ChangeState` across a blocking action. `fWork`, `fWorkActive`,
`fWorkAvailable` and `fWorkerTerminated` are the members of `Machine_`.
`fInterrupted` and `transportsInterrupted` are what `Unblock` sets. `worker` and
`pc` are program counters of the worker, of the callers of `ChangeState`
(`Controllers`) and of `WaitForEndOfState` (`Waiters`).

Actions. A call of `ChangeState` takes the mutex, finds its row in
`transition_table` and executes the row's action: `DefaultFct` writes the state,
waits until no handler is active and posts the next one; `StopFct` writes the
state, unblocks the worker and waits; `ExitingFct` and `ErrorFoundFct` do not
block; without a row `no_transition` only logs. The worker takes posted work
(`TakeWork`), goes through the handler's phases, leaves transient states with
`AutomaticFct`, ends the run by itself with `InternalStopFct`, clears the slot and
notifies one sleeper (`WorkDone`). An exception unwinds the handler, which joins
the rate logger, and ends in `ErrorFound`.

`RunWrapper` resumes the transports (`ResumeTransports`) and calls `PreRun()` and `Run()`
whatever the state is by then. `FirstCall` is a blocking call that user code makes
before it has looked at the state, as in a `Run()` that receives at once; `RunLoop` is
everything after that: `ConditionalRun()`, the data callbacks and a `Run()` with a loop
over `CheckCurrentState`. The points `lateCall`, `lateReceive` and `lateWaitFor` are those of
a first call made although the device had left `RUNNING` before the transports were
resumed. One first call stands for any number: a second one blocks in the same way as the
first, and a worker that waits for ever does so in one call.

Atomicity. A critical section of `fWorkMutex` is one step; a blocking
action is several, because other threads run while it waits. Reading the state and
requesting the internal transition at the end of `RunWrapper` are two steps, as
they are in the code.

Data abstraction. Channels are reduced to "binding or connecting may fail",
messages to "a receive may return", user code to "may return, may throw". The
callbacks of subscribers are steps of their own (`Announce`, `NotifyState`); what a
subscriber does with them is in `DeviceControl`.

`DeviceLifecycle.tla` is what the component promises to an observer of the
state and of the executing handler: the documented transitions, one handler at a
time, transient states left by their own handler, `Error` final.

### Runs

| run | result | what it shows |
|---|---|---|
| `device_safety` | holds | with two controllers, a waiter, the worker and the rate logger in any interleaving, a worker that blocks after a `STOP` has been interrupted or is about to be (`NoLostInterrupt`), but for the late first call below; the device implements `DeviceLifecycle` |
| `device_live` | holds | transient states end (`TransientStatesEnd`, but for the same case), a sleeping `ChangeState` returns (`WaitingCallReturns`), exceptions reach `Error` (`ExceptionReachesError`), `END` ends the worker (`EndTerminatesWorker`) |
| `device_self_stop` | violated | `Run()` returning while another thread requests `STOP` or `PAUSE` deadlocks on `fChangeStateMutex` (`SelfStopCompletes`) |

Bounds. Two controllers suffice for a request that arrives while another one
holds the mutex and waits; a third would only queue for the mutex. One waiter is
enough to compete for a notification. The state space is finite without further
bounds: nothing in the component counts.

Fairness. The worker, the rate logger and a thread inside `ChangeState` run
when they can (weak fairness: they are operating system threads). The worker's
request after an exception also gets the mutex in the end, although others take
it again and again (strong fairness for `ErrorFound`). Nobody is obliged to
request a state, no data is obliged to arrive, `WaitForEndOfState` gets no fairness
and no spurious wakeup is relied on.

`device_live` is run without waiters and without rate logging because with them
the request of a state may hang:

- with a thread in `WaitForEndOfState` (`Waiters` not empty), `notify_one` may
  wake that thread instead of the `ChangeState` call that waits for the handler
  (`WaitingCallReturns`);
- with rate logging an exception in `Run()` waits for the rate logger, which
  waits for the state to change (`ExceptionReachesError`), and a `RUN` right after a self-stop keeps the rate logger
  of the last run alive, so that `RunWrapper` never returns.

The model also has behaviours in which a `RUN` is followed by a `STOP` before the
worker picks the work up: `PreRun`, `Run` and `PostRun` are then executed in
`READY`, although `FairMQDevice.h:473` says they are called in `RUNNING`.

Such a `STOP` may even be lost. `Unblock` sets the interruption flags, `RunWrapper`
resets them (`FairMQDevice.cxx:497-505`) and calls `Run()` without another look at the
state. A `Run()` that receives at once (`test/helper/devices/TestPull.cxx:39`) then waits for data with nobody
left to interrupt it, and the thread that requested the `STOP` waits for it with
`fChangeStateMutex` locked. The model has this behaviour. `MissedStop` is the worker in
that wait. `NoLostInterrupt` speaks of the calls other than the late first one;
`TransientStatesEnd`, and in section 4 `SignalEndsProcess`, except a worker that
stays in `MissedStop` for ever, so that they say: nothing else keeps the device. Both
are violated without the exception. A late `WaitFor` needs none, because its time passes.

### Proofs

`DeviceStateMachineProofs.tla` proves, for any sets of controllers and waiters and
any choice of the other constants:

- `InterruptNotLost`: the invariant of `device_safety`, with the same exception;
- `TypeCorrect`; `TransientOwned`: a transient state has its handler, posted or
  executing; `NothingAbandoned`: the worker does not end with work posted;
- `HandlerKept`: the handler that executes is neither exchanged nor withdrawn;
- `Refinement`: `Spec => LifecycleSpec`.

The only assumption is `ConstantsAssumption` of `DeviceStateMachine`: controllers
and waiters are different threads, `NoThread` is none of the controllers, the
switches are Booleans.

None of the invariants is inductive alone. `IInv` joins them with four facts.
`MutexInv` ties the mutex to the caller that is between the start and the end of a
blocking action, and `fState` to the row it is executing. `WorkInv` ties
`fWorkActive` and `fWorkAvailable` to the point the worker has reached, so that
the flags cleared at the end of a handler are its own. `PostedInv` says which
handler may be posted in which state. `FirstCallInv` says of a first call that is not late
what `NoLostInterrupt` says once it blocks. `TypeOK` is proved as `ValuesOK` and
`FlagsOK`, because SMT and Zenon are each good at one half. The proof has one
lemma for each conjunct of `IInv` with one step for each action; `NextIInv` puts them
together and the theorems follow.

The liveness properties are checked by TLC only.

## 4. Device control

`DeviceControl.tla` extends `DeviceStateMachine` with the plugin services, the two
threads of the Control plugin, another plugin and the main thread.

State. `fDeviceController` and the flags are the members of the same name. `fEvents`
is Control's queue of announced states, `nextState` the local variable of
`RunShutdownSequence`. `at` says where each thread is in its own program, `pc` of
the device model where it is inside `ChangeState`. `main` is the progress of
`DeviceRunner::Run`; the main thread is the device's worker until
`RunStateMachine` returns. `fDeviceControllerMutex` has no variable: `ChangeDeviceState`
holds it exactly as long as `ChangeState` lasts, the other operations for one
step (`MutexFree`).

Actions. `DeviceStep` is any step of the device; those that call the callbacks
(`NotifyingStep`) also push the state. `ChangeDeviceState`, `TakeDeviceControl`,
`StealDeviceControl` and `ReleaseDeviceControl` are the operations of the plugin
services; another plugin (`PluginCall`) uses them in any order. The controller
thread goes through `RunStartupSequence` and `StartupWaits`, then `StaticMode` or
the keys of the interactive mode, then `RunShutdownSequence`, whose reading of
the state, emptying of the queue, request and wait are separate steps. The signal
handler (`SignalHandler`, `SignalHandlerSteals`) joins the controller and, if the
device has not shut down, steals control and executes the shutdown sequence.
`DestroyPlugins` and `Exit` are the end of `Run` and Control's destructor.

| run | result | what it shows |
|---|---|---|
| `control_safety` | holds | interactive mode with another plugin: a request in progress belongs to the owner of device control |
| `control_progress` | holds | static mode with exceptions, a `Run()` that may return and a signal at any point: the startup sequence ends (`StartupEnds`); a `Run()` that returns or a handler that throws (`ProcessEnds`) and a signal during the run (`SignalEndsProcess`, unless its `STOP` is lost on a late first call) end the process |

Bounds. `MaxCalls` bounds the keys and the calls of the other plugin; 3 allow it to
take control, request a state and steal or release. A second signal aborts the
process and is not a behaviour. When a signal ends the wait of `StaticMode`, the
code looks at `front()` of a queue that may be empty; the model lets it go either way. The queue is bounded by the number of
announcements the device can make.

Fairness. The threads of the process run when they can; nobody has to press a
key, send a signal or deliver data. `SignalEndsProcess` speaks of a `Run()` that
goes on: `device_self_stop` shows that one that returns just then may deadlock with
the `STOP` of the shutdown sequence. It excepts the `STOP` that is lost on a late first
call (section 3): a signal right after `RUN` may leave the process waiting for data.

The interactive mode has no progress property, because it can hang.
`RunShutdownSequence` reads the state (`Control.cxx:353`) and then empties the
event queue (354). A state announced in between is dropped, and
`WaitForNextState` (379) waits for an event that has been and gone, although line
322 has announced "Waiting for graceful device shutdown.". With the pause key there
is a second way: a `PAUSED` that is announced late makes the shutdown sequence
request `RUN` while `Run()` returns.

Proofs (`DeviceControlProofs.tla`), for any number of other plugins.
`ControlledDevice` shows that the composition implements `DeviceStateMachine`
(`ControlSpec => Spec`), so that every theorem of section 3 carries over.
`OwnerOnly` proves `OwnerRequests`, by induction with the facts that only the
caller that begins leaves `idle` and that ownership changes only while all are idle.
`OneShutdown` and `ShutdownIsReal` prove `OneShutdownAtATime` and `HasShutdown`
from the inductive `ControlIInv`: an `EXITING` or `Error` in the queue or in
`nextState` means that the device is in one of the two states (`EventInv`), because
events are pushed after the state is written and both states are final
(`FinalStates`, a consequence of the device's invariant). The assumption beyond
that of section 3 is `ControlAssumption`. Liveness is checked by TLC only.

## 5. The queue-based state machine

`QueuedStateMachine.tla` models `fair::mq::StateMachine` (`StateMachine.cxx`).
`fNextStates` is the queue; `Transition` is the table of the function of that name.
`ChangeState(c)` is the critical section of a request, `Notify(c)` the
notification that follows after the subscribers of `StateQueued` were called
without the lock. `Run()` goes round `Wait`, `Enter` (with `Advance`, which
chooses the regular or the error machine) and `Emitted`; while its subscribers
are called they may request transitions themselves (`CallbackChangesState`). `Reset`
may come from any thread at any time. An illegal request throws and changes nothing, so it is
not a step.

`state_queue` shows that every queued state is a legal successor of the one
before it (`LegalQueue`), that a sleeping runner with a state in its queue is
about to be notified (`NoLostNotification`), and that a queued end or error ends
`Run()` unless the machine is reset (`RunEnds`). That the machine therefore only
enters successors of its state (`EntersLegally`) is proved. Two callers suffice for a
notification that overtakes another; a queue of 4 (`MaxQueue`) holds a regular
state, an error, and requests on both sides. Fairness: the thread in `Run()` and a
thread inside `ChangeState` run when they can; no spurious wakeup is relied on.
The system may stop (after `Exiting`), so deadlock is not checked.

`QueuedStateMachineProofs.tla` proves `QueueIsLegal`, `NotificationNotLost` and
`LegalStates` for any number of callers and any `MaxQueue`. The inductive
invariant is the conjunction of `TypeOK`, `LegalQueue` and `NoLostNotification`;
the steps that matter are appending (`QueueStep`: the new state succeeds the back of the queue) and
entering the front (`EnterStep`: the second element succeeds the first, which has become the state).

## 6. The shared memory session

`ShmSession.tla` models what the processes of a session do with the four names
in shared memory: `main` and `mng` (segments), `mtx` (named mutex), `cq` (control
queue). A name refers to at most one object; `OpenOrCreate` and `Remove` are those of
boost::interprocess: removing a name leaves the object to whoever has opened
it. Objects of a kind are numbered in the order they are made.

A device goes through the constructor of `FairMQTransportFactorySHM`
(`OpenMutex`, `OpenSegment`, `OpenManagementSegment`, then under the lock
`FindCounter`, `Increment` or `Construct`, `StartMonitor`, `Started`), sends heartbeats, and goes
through its destructor (`Stop`, `Decrement`, `OthersPresent` or
`RemoveSegment`, `RemoveManagementSegment`, `RemoveMutex`). Each of these is one
step, so that devices interleave wherever the mutex, which is itself opened by name,
does not keep them apart. `ConstructFails` is the exception of a second construction,
`NoResponse` the exit when the monitor does not answer. With
`CrashesAllowed` a device may die at any point, with the mutex locked or not.
The monitor is the self-destructing daemon that devices launch
(`-x -d -t 2000`); `silence` counts timeouts since the last heartbeat, as far as
`CheckSegment` tells them apart.

| run | result | what it shows |
|---|---|---|
| `session_safety` | holds | four devices start and stop in any order: a counter is never below the number of its users, although they may hold different mutexes; when all have ended nothing is left |
| `session_monitor` | holds | two devices that may crash and a monitor: a segment whose devices were heard of and are gone is removed |

Bounds. No process opens a name twice, so there are at most as many objects of a kind
as processes. Three devices are needed for a removal that overlaps
two starts; the fourth adds a second such round. Devices are interchangeable
(`DeviceSymmetry`, only in `session_safety`, which checks no liveness). One
monitor is enough to be launched into a management segment newer than the
device's (`NoResponse`).

Fairness is assumed of the monitor only: its two threads run and its clock
ticks. Devices may stop, hang or die.

`AbandonedCleanedUp` speaks of a monitor that has received a heartbeat. Without
that condition it does not hold: `CheckSegment` counts the timeout from the first
heartbeat, so that devices that crash before they have sent one leave a segment
that the monitor watches for ever, although `shmem/README.md:13` says it will
"clean up shared memory segment if it is open and no heartbeats from devices
arrive within a timeout period".

A device may remove the segment of others although it is the last user of its own
only: one that opened the segment just before its last user removed the name counts
itself in the old object, and when it stops it removes, by name, the new segment of
devices that are running (`FairMQTransportFactorySHM.cxx:299-301`, "last segment
user, removing segment.").

Left out: the zmq context (a destructor that cannot terminate it returns early
and does not decrement the counter), the monitor's interactive mode and its
other options, the names of the regions, and the 100 ms in which the monitor's
heartbeat thread may not have opened its queue when the segment is first checked.

`ShmSessionProofs.tla` proves `CounterCoversUsers`, that is `Spec => []NeverUndercounts`,
for any finite sets of devices and monitors, with and without crashes; the
assumption is `SessionAssumption`. `NeverUndercounts` is not inductive: an absent
counter could have users, and a counter could grow to the value that stands for
"absent". `SessionIInv` adds that there are no users without a counter, that a
counter is at most the number of devices that have got past the counting
(`CounterInv`), and that a device about to increment has found a counter
(`FoundInv`). Mutual exclusion is not used: the devices may hold different
mutexes, and that `fCount` is a `std::atomic` (`Common.h:33`) suffices. `IncrementStep`,
`ConstructStep` and `DecrementStep` are the three steps that write a counter; all
other steps of devices and monitors are instances of `DeviceMoves` and
`DevicesRest`.

`SegmentRemoved` says that devices which all end regularly leave neither the main
segment nor the mutex, with any number of monitors; `NothingLeaks`, that without
monitors they leave nothing (`Monitors = {} => (Spec => []NoLeak)`; a monitor may make
the management segment again after the last device has removed it). The invariant,
`LeakIInv`, says that while no device is dead a counter is exactly the number of its
users, and that for each name there is a device that minds it (`Minds`): one that has
yet to decide whether it was the last user of its segment (`Keeper`), or one on its way
through the removals. `SegmentInv` bounds the numbers of the segments. The
difficult step is the end of a destructor: a device that reads another value than 0
leaves the names to a remaining user of the same counter, and one that reads 0 removes
them all, whichever objects they name by then.
`AbandonedCleanedUp` is liveness and is checked by TLC only.

## 7. Shared memory messages and regions

`ShmTransfer.tla` models the message objects of the processes (`msg`), the
chunks of the segment in use (`allocated`), the zmq messages on their way
(`wire`, sequences of headers) and one unmanaged region with its acknowledgement
queue. A header is `<<fRegionId, fHandle>>`; region 0 is the segment.

Every operation of `FairMQMessageSHM` and `FairMQSocketSHM` that moves a body is
an action: the constructors (`Construct`, `ConstructSize`, `ConstructFromRegion`),
`Copy`, `GetData` (of a region message, which opens the region), `Rebuild`, `RebuildSize`, `Destroy`, and the single and multipart sends
and receives. A receive of parts leaves its messages `"unsized"`: the headers are
copied into zmq messages of size 0. `CloseMessage` deallocates a chunk or
acknowledges a block (`SendAck`); it retries until the queue has room or the
transfers are interrupted. `Region` is `CreateRegion`, `ReceiveAcks` (its thread
and the callback that returns a block to the application) and `DestroyRegion`.

`fRegionPtr` is the pointer of a message into its process's map of regions: none, to an
entry, or dangling. `GetData` and `CloseMessage` set it, `Manager::Resume` and the end of the region erase the
entry and leave it dangling, and `CloseMessage` uses it without asking the manager again.
What happens then is undefined: the acknowledgement may be sent, because the next entry is
often put in the same place, or not. `fLocalPtr` is the set of messages that know their
address, for which `GetData` does not ask again.

`ChunkOwnership.tla` is the promise: a chunk belongs to one process or to the
transport. `OwnershipSpec` states that `ShmTransfer` implements it, with `owner`
computed from the messages and the wire.

| run | result | what it shows |
|---|---|---|
| `transfer_safety` | holds | a chunk in use has exactly one owner, a region block at most one; blocks are lost only by an interruption or over a dangling pointer (`BlocksKept`); `ChunkOwnership` is implemented |

Bounds. Two processes with two message objects each (parts need two), one chunk,
one block, one message on the way to each process (`MaxWire`). Waiting for room
happens with one chunk; a queue full of other blocks is represented by the
choice in `SendAck`. The objects of a process are interchangeable.

The run uses a message object for one body (`Reuse = FALSE`: no `Rebuild` of, no
receive into and no second send of a message that has had one). With `Reuse = TRUE`
`OneOwner` fails: `ConstructSize`, `Send`, `Rebuild` makes the sender hold the
chunk again, because `Rebuild` resets `fQueued` and not `fHandle`; and after a
deallocation `fHandle` is 0, so that `Rebuild(size)` allocates nothing.

In the model, as in the code, a part received in a multipart message and sent on
by itself (`FairMQSocketSHM.cxx:252` also sends a vector of one part this way)
goes out as an empty message and its body stays with the sender, although
`docs/Transport.md:65` says "After queuing a message for sending in FairMQ, the
transport takes ownership over the message body".

A message of a remote region that was looked at, then kept across a `Resume`, is closed
over freed memory (`FairMQMessageSHM.cxx:366-372`, `Manager.cxx:48`): its block may never come
back. `BlocksKept` and `NoBlockIsLost` make no claim for a block held by such a message;
they cover the retries on a full queue, and a `Resume` under messages that have not been
looked at, which open the region again.

Left out: sizes and `SetUsedSize`, statistics, messages lost when sockets close,
region ids (incremented without a lock), a crash over a dangling pointer, and the
assertion against a single receive of several parts, which is not a step of the model.

`ShmTransferProofs.tla` proves `ChunkHasOneOwner`, that is
`~Reuse => (Spec => []OneOwner)`, for any sets of processes, messages, chunks and
blocks and any `MaxWire`; the assumption is `TransferAssumption`. `OneOwner` is not
inductive: a message with a header to send could have no handle, and one without a
body could count as sent. `BodyInv` excludes this. `ChunkInv` says of one chunk what
`OneOwner` says, in terms of who holds it (`HoldsChunk`) and which place on the wire
carries it (`Carries`). `AppendWire` and `TailWire` are what a send and a receive do
to the places on the wire. `Untouched`, `Allocated`, `Deallocated`, `Sent`, `MovesUp`
and `Received` are all that can happen to one chunk in a step, and each action of the
model is shown to do one of these to every chunk.

Three more theorems rest on the same invariant, which then covers the headers of region
blocks too (`Alone`: a header is in one place), under the same condition `~Reuse`.
`StepShape` says that every step has one of six shapes: a body passes on, a chunk is
allocated, a new message is filled, a chunk is deallocated, a block is acknowledged, or
the region acts. `BlockHasOneOwner` proves `BlockOneOwner`; it needs that a block
that the application has is in nobody's hands (`BlockInv`), also while there is no
region. `NoBlockIsLost` proves the action property `BlocksKept` by counting the owners
of a block before and after each shape (`BlockCount`), for a block that no message with a dangling
pointer holds (`Tracked`). `ImplementsOwnership` proves
`OwnershipSpec`: `OwnerOf` computes the owner of a chunk from `ChunkInv`, and
`OwnershipStep` shows that each shape is a step of `ChunkOwnership` or leaves all owners.

## 8. Setting up a topology

`ChannelSetup.tla` models how devices find each other: `InitWrapper` with
`AttachChannels` and `BindEndpoint`, the channel properties in the program options,
and the DDS plugin. A device is a process with three threads: the worker, the
controller thread of the plugin (`HandleControl`) and the thread that delivers DDS
updates and commands. The devices share one host and its ports.

State. `fChannels` holds the channels of a device with what their sockets are bound
and connected to; `config` the two copies of the channel properties,
`fFairMQChannelMap` and `fVarMap`; `worker` the handler that is executed (`at`), the one
that is available (`work`), the list `InitWrapper` works on and the attempt; `subscriber`
what the client knows and the state its reply will carry; `plugin` the containers of the DDS plugin; `published` and `arrived` what
DDS carries. An address is a sequence of endpoints; a port that is taken makes a
bind fail, 1 stands for a port that cannot be bound.

Actions. `FillUninitialized`, `AttachEndpoint` (one endpoint, with the retries of
`BindEndpoint` and the address written back by `Attached`), `ChannelInvalid`,
`ValidateChannelExits`, `BindingDone`, `Retry`, `InitWrapperReturns`; of the
plugin's thread `InitDevice`, `WaitForNextState`, `FillChannelContainers`,
`ExchangeAddresses` (with `PublishBoundChannels`), `RequestState`, `ControlEnds`; of
the DDS thread `ReceiveUpdate`, `SetProperty`, `Command`, `Subscribe`, `SubscribeReads`,
`SubscribeReplied`, `Unsubscribe`. `SetChannelProperty` is another plugin that sets a
property.

The life cycle is that of section 3, reduced to what the plugin sees. A request
(`Transition`) writes `fState` and leaves a handler to the worker. `TakeWork` takes it and
announces the state the handler belongs to, which the device may have left again;
`HandlerDone` and `HandlerLeft` are the handler's return; `ProcessWork` then announces
the state the device is in by that time (`FairMQStateMachine.cxx:399`). Only `EXITING` and
`Error` are announced where they are entered. A request that ends `RUNNING` or
`PAUSED` and the return of that handler are one step: the request waits for it with the
state machine locked. That `Run()` returns by itself is left to section 3.

Run `channel_setup` (holds). A topology is chosen in `Init`; there are nine.

| property | says |
|---|---|
| `ConfigAgrees` | the two copies agree whoever sets properties, and an initialized device's channel agrees with them |
| `SocketsMatch` | a socket with one endpoint is attached exactly once, to the address its channel states, after any retries |
| `PublishedIsBound` | what was published is bound |
| `ConnectsAsConfigured` | a device connects to what was published for it, with `dds-i` and `dds-i-n`, in whatever order values arrive |
| `SubscriberKnowsState` | a client with an acknowledged subscription was told the state, or the worker is about to announce it |
| `InitializationEnds`, `TopologyComesUp` | initialization ends; with a long enough time-out the whole topology runs |

Bounds. Three devices give two publishers and one that connects; three ports make
two binders collide and leave one free; two attempts of `InitWrapper`
(`MaxAttempts`), two initializations of a device. A client sends two commands to a device
that connects to a publisher (enough to have it initialized again), and four to a device
on its own (the way from `RUNNING` back to `INITIALIZING_DEVICE`). Fairness: the
three threads of every device run and DDS delivers; clients and the other plugin
need not do anything. The system may stop when all devices run or have failed, so
deadlock is not checked.

What the code does that these properties leave out:

- The order of sub-channels depends on the iteration of a hash map and on the order
  of arrival, although `DDS.cxx:271` says it is the same everywhere.
- A channel with several endpoints that is attached again after one of them failed
  keeps the bindings of the first attempt; `SocketsMatch` speaks of one endpoint.
- A device that failed to bind still publishes its addresses, and the DDS thread of
  control skips `Error` and waits on for ever.
- A device initialized a second time does not publish again.
- `SetValue` releases the lock before it notifies: two writers of one property may be
  notified in the other order. Kernel buffer sizes set this way never reach the
  channel map (`UpdateChannelValue` has no case for them), so `ConfigAgrees` leaves
  them out. Properties other than the address that are set while the device
  initializes take effect at the next initialization.
- The reply to a subscription is sent after the state was read. A notification may overtake
  it, so that the last state a client hears of is not the one the device is in;
  `SubscriberKnowsState` says that it was told the right one, not that this came last.
- A state that is left before its announcement is not announced. If a client requests
  `INIT TASK` in that moment, `HandleControl` goes on waiting for `DEVICE_READY`, and gets it
  only if the device is brought back there; `TopologyComesUp` speaks of topologies
  without commands.
- The connecting loop goes on after the error of the time-out has been announced.

Not modelled: the heartbeats, `check-state` and `dump-config` of the DDS plugin, a
plugin that sets the address of a channel that is bound already, `GetFairMQMap`
copying without the lock, `Subscribe` of the event manager during an `Emit`.

`ChannelSetupProofs.tla` proves `SubscriberIsNotLeftBehind` (`SubscriberKnowsState`) for
every set of topologies and all bounds. `SubscriberIInv` adds to the property a client
that has no answer yet: it was told, the worker will announce the state, or the reply
has not read the state or has read this one. Whether the worker will announce it
(`AnnouncementDue`) depends on how its handler relates to the state: a transient handler
runs in its own state with nothing else available, a handler that is available belongs
to the state or to `RUNNING` or `PAUSED`, and in these two the handler is executed or
available. The channels and the configuration play no part. The other properties of
the run are checked by TLC only: they speak of what loops over channels and addresses
compute, for topologies that are set up in a sensible way.

## 9. Messages and running devices

`Messages.tla` models the message classes of the ZeroMQ and nanomsg transports as
functions from a heap and a message to a heap and a message. A buffer has its
content, length, number of references, and the buffer its free function gives up
(`keeps`): the view of `ApplyUsedSize` keeps the original, the wrapper of
`CheckSendCompatibility` keeps the message of the other transport.

`Pipeline.tla` models devices that run. A device is a record, its *program*: whether
it sends, receives, polls or has callbacks, from and to which channels, what it
sends, and when it has done its iterations. The records are those of the devices in
`fairmq/devices` and in ten of the examples; `Application` uses a channel in every way it
may be used. The loop they share is the code they share: `LoopHead`, `Poll`,
`Lock`, `Join` are `RunWrapper`, `HandleSingleChannelInput`,
`HandleMultipleChannelInput` and `PollForTransport`; `SendImpl`, `SendEagain`,
`ReceiveImpl`, `ReceiveEagain` one round of the loops in the sockets, with time-out
and interruption; `STOP` and `Unblock` the request from outside. A link is a queue of
messages, each a sequence of frames: libzmq and libnanomsg are external. Which of
several links a push socket takes is a free choice.

Run `pipeline` (holds): forty-six topologies of up to four devices, one chosen in
`Init`; some left alone, some stopped at any point, some interrupted by a signal.

| property | says |
|---|---|
| `ReferencesCounted` | a buffer ZeroMQ counts lives exactly as long as somebody refers to it; a nanomsg buffer at least as long |
| `SentAsGiven` | what is on a link is what the message said when it was given to `Send`, wrapped or cut or not |
| `ReceivedOnce`, `WholeMessages`, `Forwarded` | nothing arrives twice or in parts; proxies, mergers, splitters and multipliers forward in order |
| `HandlersExclusive` | handlers of several transports exclude each other, and none starts after one returned false |
| `RunEnds`, `TopologyCompletes` | a device that leaves `RUNNING` ends its run; left alone, everybody gets to its number of iterations |

Bounds. Links hold one message (`capacity`), so that senders wait; two messages per
sampler make the second meet the first; eight buffers are more than are in use at a
time. Time-outs take two rounds. Fairness: a device goes on as long as one of its
threads can, and who sends `STOP` also unblocks; the guards are written out in
`CanStep`. Nothing obliges a topology that is stopped to deliver. Runs end, so
deadlock is not checked.

What the code does that these properties leave out:

- In multiple-transports the sink waits for room for acknowledgements while it holds the
  lock of its handlers, and Sampler1 stops reading them after its last message.
  The instance gives that link room for all of them.
- nanomsg: a message that is neither sent nor received, parts of a multipart message
  that are forwarded (`FairMQSocketNN.cxx:271`) and the empty buffer replaced by a
  receive are leaked, so `ReferencesCounted` has only one direction for it; a
  message rebuilt after it was sent frees the buffer twice, so the application does
  not do that; the region callback is called for every attempt, also for
  one that failed and is repeated, although the comment at `FairMQSocketNN.cxx:146`
  assumes that the data has been copied.
- ZeroMQ: a message reused after `SetUsedSize` keeps the old size.
- The benchmark sampler and sink transfer one message more than `FairMQSink.h:54`
  announces; both count the same way, so they agree.
- Time-limited sends and receives do not check the transport of the message;
  a multiplier whose channels have different transports is not instantiated.
- The scheduler of epn-to-scheduler receives a second message in its handler, so
  that only every other report is handled. `HandleMultipartInput` passes index 0.
- An error in one input thread does not unblock another one that waits in `Send`.
- An interrupted send of a region message leaves the unsigned counter of the region
  sampler at its maximum, and `ResetTask` then waits 500 ms.

Not modelled: `ETERM`, the check of transports in `NewPoller`, receiving parts into a
vector that is not empty, a second run of the same device, a request that was
interrupted before its answer and is repeated.

`PipelineProofs.tla` proves `HandlersExclude` (`HandlersExclusive`) for every set of
topologies, from `ProgramsAssumption` (how a device counts is one of `Counts`). The
invariant `LockIInv` says that an input thread in a handler (in `Send` or `Receive`) holds
the lock of its device, and that no handler has returned false. A step of a thread
is a chain of functions on what the thread sees (`StartSend`, `Handle`, `EndRound`, ...);
one lemma for each says that it leaves the lock and the flag alone, or gives the lock
back and is in no handler any more (`Follows`). The other safety properties of the run
are about folds over messages and buffers, which needs an induction over data; they are
checked by TLC only.

## 10. The example SCHEDULER-FLP-EPN

`FrameScheduling.tla` models `scheduler.cxx`, `flp.cxx` and `epn.cxx`. Time is in
units of `getHistKey`. The scheduler (`CheckTime`, `ReceiveReport`, `Generate`,
`ClearVector`) starts a detached sender for each schedule, which reads the vector it
was given a pointer to (`LoadVector`, `SendSchedule`). Nobody waits for the senders: once
the run of the scheduler is over (`Over`) the transports may be interrupted, so that a
send fails and the sender goes on to the next FLP (`SendFails`), and the process may end with
its threads (`SendersKilled`). `cut` is the set of the schedules whose sender was at
work at that time. What was sent before arrives: the sockets linger for
a second (`FairMQSocketZMQ.cxx:47`). An FLP receives a schedule and
sends one sub-time-frame per entry. An EPN has its run, a thread that reports
(`send`) and a detached thread per time frame. `freeSlots` is not atomic, so that
each increment, decrement and reset is a load and a store of its own. Memory that was freed
holds anything. Threads may be slow: the clock goes on while they have
something to do if their configuration says so, up to a deadline.

Run `frame_scheduling` (holds): nine configurations of up to three EPNs and two FLPs.

| property | says |
|---|---|
| `ScheduleIsBest` | a schedule names, once each and in order, the EPNs with most free slots among the recent reports |
| `SchedulesArrive` | every schedule reaches every FLP that still runs, except those whose sender was still at work when the scheduler ended |
| `SameSchedules` | all FLPs work through the same schedules, unless a sender was still at work when the next schedule was made |
| `SlotsAccounted` | free slots and time frames in process add up, unless an increment overlapped another access |
| `NoExtraParts` | an EPN never gets more parts of a time frame than there are FLPs (the assertion in `epn::receive`) |

The two conditions "unless" are races of the code: an overtaken sender sends the next schedule or
freed memory, so that the parts of a time frame go to different EPNs; overlapping
accesses of `freeSlots` gain or lose a slot for good. Bounds: the configurations
(see `MCFrames`), `HistoryMax` and `Validity` small enough that entries grow old.
Fairness: time passes and threads run (`WF_vars(Next)`; no thread can go on for ever
while the clock stands still).

Other behaviours of the code: `ChangeState("READY")` names no event and throws,
which `RunWrapper` turns into the end of the run, so that devices end in `READY`; the
scheduler ends early when a round ends in the second of the last schedule
(`scheduler.cxx:137`); the loop that trims the history uses an erased iterator
(253-259; nothing is said of what follows); FLPs wait for ever once the scheduler
has stopped; a report of -1 in the middle of an update makes an entry of a schedule
that is no EPN, and the FLP's run ends with an exception. Left out: files, the
sleeps at the end of the run, a `STOP` by the user, messages of a wrong size.

`FrameSchedulingProofs.tla` proves three of the properties for any set of
configurations, `HistoryMax` and `Validity`, from the assumption `ConfigurationsOK`
(numbers of devices, slots and times are positive). Each has its own invariant.

- `SlotsAreAccounted` (`SlotsAccounted`): the property speaks of an EPN between two
  messages only. `SlotsInv` also covers an EPN that is taking a slot (`Taking`) and a
  thread that has loaded `freeSlots` and not stored it (`Storing`; while nothing raced
  there is at most one, and what it loaded is still there).
- `NoPartIsCountedTwice` (`NoExtraParts`): the numbers in a channel grow and are at most
  the last number that the FLP has sent (`InOrder`), so that a part is queued at most once. What an EPN has
  counted for a time frame is at most the number of FLPs that have sent that part and
  whose part is not in the channel any more (`Given`), of which there are at most as
  many as FLPs. That an EPN finds a message where its poll has seen one is `ReadyInv`.
- `FlpsGetTheSameSchedules` (`SameSchedules`): while no sender was late there is at most
  one sender, for the current schedule, and an FLP that it has served has been sent all
  schedules up to this one, the others all but this one (after the end of the run also an
  FLP to which the send failed); the k-th schedules of two FLPs
  are the same (`SchedulesInv`, over what was received and what is in the channel).

`ScheduleIsBest` is about what a loop computes, which needs an induction over data, and
`SchedulesArrive` is liveness: both are checked by TLC only.

## 11. Not modelled

- The OFI transport: most of its behaviour is in libfabric and asiofi.
- The plugin manager: it loads libraries.
- Parsing of command lines and JSON, logging, and the tools (host names, child
  processes, uuids): input and output. `tools/RateLimit.h` has a small algorithm
  over measured time that TLC could check for chosen durations only.
- `runDDSCommandUI`: a terminal program that sends the commands of section 8.
- `FLP` of epn-to-scheduler, which is connected to nothing.

Liveness, `ENABLED` and recursive definitions are outside what TLAPS can do here; all
liveness properties are checked by TLC only. Nothing is proved of `Messages`, and of
`ChannelSetup` and `Pipeline` one property each.
