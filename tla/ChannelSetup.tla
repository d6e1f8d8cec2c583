---------------------------- MODULE ChannelSetup ----------------------------
(***************************************************************************)
(* How the devices of a topology find each other: the attachment of        *)
(* channels in FairMQDevice::InitWrapper, the channel addresses in the     *)
(* configuration (FairMQProgOptions), and the DDS plugin, which publishes  *)
(* the addresses a device has bound and hands the addresses published by   *)
(* others to the configuration of a connecting device.                     *)
(*                                                                         *)
(* Every device is a process with three threads: the worker that executes  *)
(* InitWrapper, the controller thread of the plugin (HandleControl), and   *)
(* the thread that delivers DDS updates and commands.  All devices run on  *)
(* one host and compete for its ports.                                     *)
(*                                                                         *)
(* The lifecycle is the one of DeviceStateMachine, reduced to what the     *)
(* plugin can see.  A transition writes fState and leaves a handler to the *)
(* worker; the state is announced later: by its handler when it starts (by *)
(* InitWrapper after binding), and, whatever it is then, when a handler    *)
(* has returned.  Only EXITING and Error are announced where they are      *)
(* entered.  Taking a handler and its announcement are one step; so are a  *)
(* request that ends RUNNING or PAUSED and the return of that handler, for *)
(* which the request waits with the state machine locked.                  *)
(* The device has one channel name, so the DDS property of that name needs *)
(* no identifier; a sub-channel is an index.                               *)
(***************************************************************************)
EXTENDS Naturals, FiniteSets, Sequences, SequencesExt

CONSTANTS
    Devices,            \* process names
    Topologies,         \* the configurations to start from, see TopologyOK
    PortRange,          \* port-range-min .. port-range-max
    MaxAttempts,        \* maxAttempts of InitWrapper
    NamesMayFail,       \* resolving a host name may fail
    MaxInits,           \* bound: how often a device enters INITIALIZING_DEVICE
    MaxQueries          \* bound: commands that do not change the device state

\* An endpoint is a modifier, a host and a port; port 0 stands for a text
\* without a port.  An address is a comma-separated list of endpoints.
Endpoint(mod, host, port) == [mod |-> mod, host |-> host, port |-> port]
Unspecified == <<>>

\* A topology: per device the configured sub-channels (a device without any
\* is not part of it), the devices that publish, dds-i (fI) and dds-i-n
\* (fIofN) of the connecting devices (0 = option not given; indices count
\* from 1 here), the ports other programs hold, whether the option
\* initialization-timeout outlasts every delay, how many commands that change
\* the state a client sends to the connecting devices (a bound; 0 = there is
\* no client), and the channel properties that another
\* plugin sets.
TopologyOK(t) ==
    /\ DOMAIN t.chans = Devices
    /\ \A d \in Devices : \A i \in DOMAIN t.chans[d] :
          t.chans[d][i].method \in {"bind", "connect", "unspecified"}
    /\ t.publishers \subseteq Devices
    /\ t.i \in Nat /\ t.iOfN \in Nat
    /\ t.taken \subseteq Nat
    /\ t.patient \in BOOLEAN /\ t.client \in Nat
    /\ \A s \in t.sets : s.device \in Devices /\ s.i \in DOMAIN t.chans[s.device]

ASSUME SetupAssumption ==
    /\ \A t \in Topologies : TopologyOK(t)
    /\ PortRange \subseteq Nat \ {0, 1}
    /\ MaxAttempts \in Nat /\ MaxInits \in Nat /\ MaxQueries \in Nat
    /\ NamesMayFail \in BOOLEAN

\* The transitions the worker does not make itself.
Requested == {
    <<"IDLE", "INIT DEVICE", "INITIALIZING_DEVICE">>,
    <<"DEVICE_READY", "INIT TASK", "INITIALIZING_TASK">>,
    <<"READY", "RUN", "RUNNING">>,
    <<"RUNNING", "STOP", "READY">>,
    <<"RUNNING", "PAUSE", "PAUSED">>,
    <<"PAUSED", "RUN", "RUNNING">>,
    <<"READY", "RESET TASK", "RESETTING_TASK">>,
    <<"DEVICE_READY", "RESET DEVICE", "RESETTING_DEVICE">> }

\* The internal event a handler ends with, by the state it leaves.
Automatic == [
    INITIALIZING_TASK |-> "READY",
    RESETTING_TASK    |-> "DEVICE_READY",
    RESETTING_DEVICE  |-> "IDLE" ]

NoCallback == [order |-> <<>>, i |-> 0]

VARIABLES
    topology,       \* constant: the topology of this behaviour
    state,          \* fState of each device ("exited": the process is gone)
    worker,         \* the worker: handler, where in InitWrapper, its list, the attempt
    fChannels,      \* the device's channels, with what their sockets did
    config,         \* the channel properties in fFairMQChannelMap and in fVarMap
    inits,          \* how often InitWrapper was started
    control,        \* where HandleControl is
    fEvents,        \* states announced to the plugin and not yet read
    plugin,         \* fBindingChans, fConnectingChans, fIofN and the callback
    published,      \* DDS: the values put under the channel name, by device
    arrived,        \* DDS: whose values each device has received
    subscriber,     \* the client: subscribed, answered, told the state; the reply
    commands,       \* commands so far that change the device state
    queries         \* commands so far that do not

deviceVars == <<state, worker, fChannels, config, inits>>
pluginVars == <<control, fEvents, plugin>>
clientVars == <<subscriber, commands, queries>>
vars == <<deviceVars, pluginVars, published, arrived, clientVars, topology>>

Channel(c) == [
    method    |-> c.method,     \* fMethod
    type      |-> c.type,       \* fType is one of the socket types
    transport |-> c.transport,  \* fTransportType
    sizes     |-> c.sizes,      \* buffer sizes and rateLogging are not negative
    kernel    |-> c.kernel,     \* kernel sizes are not negative
    addr      |-> c.addr,       \* fAddress
    fIsValid  |-> FALSE,
    bound     |-> {},           \* ports fSocket is bound to
    connected |-> <<>> ]        \* endpoints fSocket was connected to, in order

\* ProcessWork waits; work is the handler that is available to it, named after
\* the state it belongs to.
Idle == [at |-> "idle", work |-> "none", todo |-> <<>>, i |-> 1, endpoints |-> <<>>, attempts |-> 1]

NoChannels == [binding |-> <<>>, missing |-> 0, values |-> {}, entries |-> <<>>,
               callback |-> NoCallback]

\* told: the client was sent the state the device is in since it entered it;
\* read: the state the reply to the subscription will carry.
Unsubscribed == [on |-> FALSE, acked |-> FALSE, told |-> FALSE, read |-> "none"]

\* The configured channels, and chans.<name>.<i>.<member> in the variable map.
UpdateMQValues(chans) == [fFairMQChannelMap |-> chans, fVarMap |-> chans]

Init ==
    /\ topology \in Topologies
    /\ state = [d \in Devices |-> "IDLE"]
    /\ worker = [d \in Devices |-> Idle]
    /\ fChannels = [d \in Devices |-> <<>>]
    /\ config = [d \in Devices |-> UpdateMQValues(topology.chans[d])]
    /\ inits = [d \in Devices |-> 0]
    /\ control = [d \in Devices |-> IF topology.chans[d] = <<>> THEN "ended" ELSE "start"]
    /\ fEvents = [d \in Devices |-> <<>>]
    /\ plugin = [d \in Devices |-> NoChannels]
    /\ published = {}
    /\ arrived = [d \in Devices |-> {}]
    /\ subscriber = [d \in Devices |-> Unsubscribed]
    /\ commands = 0
    /\ queries = 0

-----------------------------------------------------------------------------
(* The device: states and their announcement.                              *)

\* What the subscribed client knows when states are announced in a step.
Publish(d, states) ==
    subscriber' = [subscriber EXCEPT ![d].told =
        /\ subscriber[d].on
        /\ state'[d] \in ToSet(states) \/ (subscriber[d].told /\ state'[d] = state[d])]

\* The plugin's state-change callback.  Nobody reads fEvents any more once
\* the startup is over: what is pushed then is not kept.
Callbacks(d, states) ==
    /\ fEvents' = [fEvents EXCEPT ![d] = IF control[d] \in {"started", "ended"} THEN <<>> ELSE @ \o states]
    /\ Publish(d, states)

NoCallbacks == UNCHANGED <<fEvents, subscriber>>

\* What ChangeState(ERROR_FOUND) announces: only the first one has an effect.
ErrorFound(d) == IF state[d] = "Error" THEN <<>> ELSE <<"Error">>

Enter(d, s) == state' = [state EXCEPT ![d] = s]

\* A request of the table is made: DefaultFct writes the state, waits for the
\* handler that runs and leaves the next one to the worker.  StopFct leaves none.
Transition(d, event) ==
    \E row \in Requested :
        /\ row[1] = state[d] /\ row[2] = event
        /\ Enter(d, row[3])
        /\ Publish(d, <<>>)
        /\ worker' = [worker EXCEPT ![d].at = IF @ \in {"RUNNING", "PAUSED"} THEN "returned" ELSE @,
                                   ![d].work = IF event = "STOP" THEN @ ELSE row[3]]
        /\ inits' = [inits EXCEPT ![d] = IF event = "INIT DEVICE" THEN @ + 1 ELSE @]

\* The worker takes the handler available; all but InitWrapper begin with the
\* announcement of their state, even if the device has left it again.
TakeWork(d) ==
    /\ worker[d].at = "idle" /\ worker[d].work # "none"
    /\ UNCHANGED state
    /\ IF worker[d].work = "INITIALIZING_DEVICE"
       THEN worker' = [worker EXCEPT ![d] = [Idle EXCEPT !.at = "fill"]] /\ NoCallbacks
       ELSE /\ worker' = [worker EXCEPT ![d] = [Idle EXCEPT !.at = worker[d].work]]
            /\ Callbacks(d, <<worker[d].work>>)
    /\ UNCHANGED <<topology, fChannels, config, inits, control, plugin, published, arrived, commands, queries>>

\* The handlers of the other transient states end with an internal event; Reset
\* destroys the sockets.
HandlerDone(d) ==
    /\ worker[d].at \in DOMAIN Automatic
    /\ Enter(d, Automatic[worker[d].at])
    /\ Publish(d, <<>>)
    /\ worker' = [worker EXCEPT ![d].at = "returned"]
    /\ fChannels' = IF worker[d].at = "RESETTING_DEVICE"
                    THEN [fChannels EXCEPT ![d] = [i \in DOMAIN @ |->
                             [@[i] EXCEPT !.bound = {}, !.connected = <<>>]]]
                    ELSE fChannels
    /\ UNCHANGED <<topology, config, inits, control, fEvents, plugin, published, arrived, commands, queries>>

\* RunWrapper or PauseWrapper started in a state that was left before.
HandlerLeft(d) ==
    /\ worker[d].at \in {"RUNNING", "PAUSED"} /\ state[d] # worker[d].at
    /\ worker' = [worker EXCEPT ![d].at = "returned"]
    /\ UNCHANGED <<topology, state, fChannels, config, inits, pluginVars, published, arrived, clientVars>>

\* ProcessWork announces the state the device is in by then.
ProcessWork(d) ==
    /\ worker[d].at = "returned"
    /\ worker' = [worker EXCEPT ![d].at = "idle"]
    /\ UNCHANGED state
    /\ Callbacks(d, <<state[d]>>)
    /\ UNCHANGED <<topology, fChannels, config, inits, control, plugin, published, arrived, commands, queries>>

-----------------------------------------------------------------------------
(* The worker in InitWrapper.                                              *)

Modified(a) == \E i \in DOMAIN a : a[i].mod # "none"

\* The two lists of uninitialized channels.
Binding(chans) == SetToSortSeq({i \in DOMAIN chans : chans[i].method = "bind"}, <)
Connecting(chans) ==
    SetToSortSeq({i \in DOMAIN chans :
        \/ chans[i].method = "connect"
        \/ (chans[i].method = "unspecified" /\ Modified(chans[i].addr))}, <)

\* Copy the configured channels and sort them into the lists; a channel
\* without method and modifier is an error, but the worker goes on.
FillUninitialized(d) ==
    /\ worker[d].at = "fill"
    /\ LET configured(i) == Channel(config[d].fFairMQChannelMap[i])
           chans == [i \in DOMAIN topology.chans[d] |->
                       IF configured(i).method = "bind" /\ configured(i).addr = Unspecified
                       THEN [configured(i) EXCEPT !.addr = <<Endpoint("none", "ip", 1)>>]
                       ELSE configured(i)]
       IN  /\ fChannels' = [fChannels EXCEPT ![d] = chans]
           /\ worker' = [worker EXCEPT ![d] = [Idle EXCEPT !.at = "bind", !.todo = Binding(chans)]]
           /\ IF \E i \in DOMAIN chans : chans[i].method = "unspecified" /\ ~Modified(chans[i].addr)
              THEN Enter(d, "Error") /\ Callbacks(d, ErrorFound(d))
              ELSE UNCHANGED state /\ NoCallbacks
    /\ UNCHANGED <<topology, config, inits, control, plugin, published, arrived, commands, queries>>

Attaching(d) == worker[d].at \in {"bind", "connect"} /\ worker[d].i <= Len(worker[d].todo)
Current(d) == worker[d].todo[worker[d].i]

\* Go on with the next channel of the list, whose length may have changed.
NextChannel(d) == worker' = [worker EXCEPT ![d].i = @ + 1, ![d].endpoints = <<>>]

\* ValidateChannel splits the address at another separator than AttachChannel:
\* it looks at the first modifier, and at the port of a single endpoint only.
Validates(c) ==
    \/ c.fIsValid
    \/ /\ c.addr # Unspecified
       /\ Len(c.addr) > 1 \/ c.addr[1].port # 0

ValidationExits(c) ==
    /\ ~c.fIsValid
    /\ \/ ~c.type
       \/ c.addr # Unspecified /\ c.addr[1].mod = "none" /\ c.method = "unspecified"
       \/ Validates(c) /\ ~(c.sizes /\ c.kernel)

\* exit(EXIT_FAILURE) closes every socket of the process.
Exit(d) ==
    /\ Enter(d, "exited")
    /\ worker' = [worker EXCEPT ![d] = [Idle EXCEPT !.at = "exited"]]
    /\ control' = [control EXCEPT ![d] = "ended"]
    /\ fChannels' = [fChannels EXCEPT ![d] = <<>>]
    /\ UNCHANGED <<topology, config, inits, fEvents, plugin, published, arrived, clientVars>>

ValidateChannelExits(d) ==
    /\ Attaching(d)
    /\ ValidationExits(fChannels[d][Current(d)])
    /\ Exit(d)

\* AttachChannels skips the channel.
ChannelInvalid(d) ==
    /\ Attaching(d)
    /\ ~ValidationExits(fChannels[d][Current(d)])
    /\ ~Validates(fChannels[d][Current(d)])
    /\ NextChannel(d)
    /\ UNCHANGED <<topology, state, fChannels, config, inits, pluginVars, published, arrived, clientVars>>

Usable(p) == p # 1 /\ p \notin topology.taken /\ \A d \in Devices :
                 \A i \in DOMAIN fChannels[d] : p \notin fChannels[d][i].bound

\* The ports BindEndpoint may end up with; 0 = none.  Port 1 is privileged.
\* It tries the configured port, then 1000 times a random one of the range:
\* it fails only if some port of the range cannot be bound.
BindEndpoint(p) ==
    IF Usable(p) THEN {p}
    ELSE {q \in PortRange : Usable(q)}
         \cup (IF \E q \in PortRange : ~Usable(q) THEN {0} ELSE {})

Binds(c, e) == e.mod = "@" \/ (e.mod = "none" /\ c.method = "bind")

\* Variant: the port asked for is put back instead of the port bound.
RewrittenAsAsked(c, e, port) ==
    Endpoint(IF e.mod = "none" THEN "none" ELSE IF Binds(c, e) THEN "@" ELSE "+", "ip", e.port)

\* The endpoint as it is put back into the address: the resolved host, the
\* port really bound and a normalised modifier.
Rewritten(c, e, port) ==
    Endpoint(IF e.mod = "none" THEN "none" ELSE IF Binds(c, e) THEN "@" ELSE "+", "ip", port)

\* UpdateAddress of FairMQChannel.
UpdateAddress(c, a) == IF a = c.addr THEN c ELSE [c EXCEPT !.addr = a, !.fIsValid = FALSE]

\* Variant: the key is not recognised as the key of a channel.
UpdateChannelValueIgnored(chans, i, member, val) == chans

\* The setters of FairMQChannel; the kernel sizes have none here.
Members == {"type", "method", "addr", "transport", "sizes"}

UpdateChannelValue(chans, i, member, val) ==
    IF member \in Members THEN [chans EXCEPT ![i][member] = val] ELSE chans

\* Both maps of the configuration change under one lock.
SetValue(d, i, member, val) ==
    config' = [config EXCEPT ![d].fVarMap[i][member] = val,
                             ![d].fFairMQChannelMap = UpdateChannelValue(@, i, member, val)]

RecordAddress(d, i, c, endpoints) ==
    IF endpoints = c.addr THEN UNCHANGED config ELSE SetValue(d, i, "addr", endpoints)

EraseChannel(w) == [w EXCEPT !.todo = RemoveAt(@, w.i), !.endpoints = <<>>]

\* After the last endpoint AttachChannel returns true: the address found goes
\* to the channel and to the configuration, and AttachChannels erases the
\* channel from its list.
Attached(d, c, endpoints) ==
    IF Len(endpoints) < Len(c.addr)
    THEN /\ worker' = [worker EXCEPT ![d].endpoints = endpoints]
         /\ fChannels' = [fChannels EXCEPT ![d][Current(d)] = c]
         /\ UNCHANGED config
    ELSE /\ worker' = [worker EXCEPT ![d] = EraseChannel(@)]
         /\ fChannels' = [fChannels EXCEPT ![d][Current(d)] = UpdateAddress(c, endpoints)]
         /\ RecordAddress(d, Current(d), c, endpoints)

\* One endpoint of AttachChannel, for a channel that validates.  A failure
\* leaves the endpoints before it attached.
AttachEndpoint(d) ==
    /\ Attaching(d)
    /\ LET c == [fChannels[d][Current(d)] EXCEPT !.fIsValid = TRUE]
           e == c.addr[Len(worker[d].endpoints) + 1]
           with(port) == Append(worker[d].endpoints, Rewritten(c, e, port))
           failed == /\ NextChannel(d)
                     /\ fChannels' = [fChannels EXCEPT ![d][Current(d)] = c]
                     /\ UNCHANGED config
       IN  /\ ~ValidationExits(fChannels[d][Current(d)])
           /\ Validates(fChannels[d][Current(d)])
           /\ \/ e.host = "name" /\ NamesMayFail /\ failed
              \/ Binds(c, e) /\ \E port \in BindEndpoint(e.port) :
                    IF port = 0 THEN failed
                    ELSE Attached(d, [c EXCEPT !.bound = @ \cup {port}], with(port))
              \/ /\ ~Binds(c, e)
                 /\ Attached(d, [c EXCEPT !.connected = Append(@, Rewritten(c, e, e.port))], with(e.port))
    /\ UNCHANGED <<topology, state, inits, pluginVars, published, arrived, clientVars>>

ListDone(d, list) == worker[d].at = list /\ worker[d].i > Len(worker[d].todo)

\* All binding channels tried: an error if one is left.  Then, after a failed
\* binding too, CallStateChangeCallbacks(INITIALIZING_DEVICE).
BindingDone(d) ==
    /\ ListDone(d, "bind")
    /\ worker' = [worker EXCEPT ![d] = [Idle EXCEPT !.at = "connect", !.todo = Connecting(fChannels[d])]]
    /\ IF worker[d].todo # <<>>
       THEN Enter(d, "Error") /\ Callbacks(d, ErrorFound(d) \o <<"INITIALIZING_DEVICE">>)
       ELSE UNCHANGED state /\ Callbacks(d, <<"INITIALIZING_DEVICE">>)
    /\ UNCHANGED <<topology, fChannels, config, inits, control, plugin, published, arrived,
                   commands, queries>>

\* Variant: attempts are not counted.
NoTimeout(d) == FALSE

\* numAttempts > maxAttempts; the counter is not kept beyond that point.
Timeout(d) == ~topology.patient /\ worker[d].attempts > MaxAttempts

\* Some channels are left: sleep, read their addresses from the configuration
\* again and start over.  Too many attempts are an error, but the loop goes on.
Retry(d) ==
    /\ ListDone(d, "connect")
    /\ worker[d].todo # <<>>
    /\ fChannels' = [fChannels EXCEPT ![d] = [i \in DOMAIN @ |->
                        IF i \in ToSet(worker[d].todo) THEN UpdateAddress(@[i], config[d].fVarMap[i].addr) ELSE @[i]]]
    /\ worker' = [worker EXCEPT ![d].i = 1,
                               ![d].attempts = IF topology.patient \/ @ > MaxAttempts THEN @ ELSE @ + 1]
    /\ IF Timeout(d)
       THEN Enter(d, "Error") /\ Callbacks(d, ErrorFound(d))
       ELSE UNCHANGED state /\ NoCallbacks
    /\ UNCHANGED <<topology, config, inits, control, plugin, published, arrived, commands, queries>>

\* Init() and ChangeState(internal_DEVICE_READY), without effect after an error.
InitWrapperReturns(d) ==
    /\ ListDone(d, "connect")
    /\ worker[d].todo = <<>>
    /\ worker' = [worker EXCEPT ![d] = [Idle EXCEPT !.at = "returned"]]
    /\ IF state[d] = "Error" THEN UNCHANGED state ELSE Enter(d, "DEVICE_READY")
    /\ Publish(d, <<>>)
    /\ UNCHANGED <<topology, fChannels, config, inits, control, fEvents, plugin, published, arrived,
                   commands, queries>>

InitWrapper(d) ==
    \/ FillUninitialized(d) \/ ValidateChannelExits(d) \/ ChannelInvalid(d) \/ AttachEndpoint(d)
    \/ BindingDone(d) \/ Retry(d) \/ InitWrapperReturns(d)

-----------------------------------------------------------------------------
(* The plugin's controller thread, HandleControl.                          *)

Control(d, next) == control' = [control EXCEPT ![d] = next]

\* HandleControl starts with a request.
InitDevice(d) ==
    /\ control[d] = "start"
    /\ Control(d, "initDevice")
    /\ Transition(d, "INIT DEVICE")
    /\ UNCHANGED <<topology, fChannels, config, fEvents, plugin, published, arrived, commands, queries>>

\* The states waited for, and what follows: an exchange of addresses or a
\* request.  An Error is one of the states skipped.
ControlWait == [
    initDevice |-> "INITIALIZING_DEVICE",
    published  |-> "DEVICE_READY",
    initTask   |-> "READY" ]

WaitForNextState(d) ==
    /\ fEvents[d] # <<>>
    /\ control[d] \in DOMAIN ControlWait
    /\ Head(fEvents[d]) # ControlWait[control[d]]
    /\ fEvents' = [fEvents EXCEPT ![d] = Tail(@)]
    /\ UNCHANGED <<topology, deviceVars, control, plugin, published, arrived, clientVars>>

Heard(d, where) ==
    /\ control[d] = where
    /\ fEvents[d] # <<>>
    /\ Head(fEvents[d]) = ControlWait[where]

\* The method of the last sub-channel decides for the channel.
FillChannelContainers(d) ==
    LET chans == config[d].fVarMap
        n == Len(chans)
        method == IF n = 0 THEN "unspecified" ELSE chans[n].method
    IN  CASE method = "bind"    -> [NoChannels EXCEPT !.binding = [i \in 1 .. n |-> chans[i].addr]]
          [] method = "connect" -> [NoChannels EXCEPT !.missing = n]
          [] OTHER              -> NoChannels

\* Variant: nothing is published.
PublishNothing(d, binding) == published' = published

\* The addresses of all sub-channels are joined into one value.
PublishBoundChannels(d, binding) ==
    published' = IF binding = <<>> THEN published
                 ELSE published \cup {[from |-> d, value |-> binding]}

\* The DDS service is started between filling the containers and publishing:
\* subscriptions fire from here on.
ExchangeAddresses(d) ==
    /\ Heard(d, "initDevice")
    /\ Control(d, "published")
    /\ fEvents' = [fEvents EXCEPT ![d] = Tail(@)]
    /\ plugin' = [plugin EXCEPT ![d] = FillChannelContainers(d)]
    /\ PublishBoundChannels(d, FillChannelContainers(d).binding)
    /\ UNCHANGED <<topology, deviceVars, arrived, clientVars>>

ServiceStarted(d) == control[d] \in {"published", "initTask", "started"}

\* InitTask when the device is ready, Run when the task is: requests that are
\* refused if a client was faster.  The state heard of is taken off the queue.
RequestState(d, where, event, next) ==
    /\ Heard(d, where)
    /\ Control(d, next)
    /\ fEvents' = [fEvents EXCEPT ![d] = IF next = "started" THEN <<>> ELSE Tail(@)]
    /\ \/ Transition(d, event)
       \/ /\ ~ \E row \in Requested : row[1] = state[d] /\ row[2] = event
          /\ UNCHANGED <<state, worker, inits, subscriber>>
    /\ UNCHANGED <<topology, fChannels, config, plugin, published, arrived, commands, queries>>

\* The loop on fDeviceTerminationRequested ends; the plugin unsubscribes.
ControlEnds(d) ==
    /\ control[d] = "started"
    /\ state[d] = "EXITING"
    /\ Control(d, "ended")
    /\ UNCHANGED <<topology, deviceVars, fEvents, plugin, published, arrived, clientVars>>

HandleControl(d) ==
    \/ InitDevice(d) \/ WaitForNextState(d) \/ ExchangeAddresses(d)
    \/ RequestState(d, "published", "INIT TASK", "initTask")
    \/ RequestState(d, "initTask", "RUN", "started")
    \/ ControlEnds(d)

-----------------------------------------------------------------------------
(* The thread that delivers DDS updates and commands.                      *)

\* The order of the addresses as strings; "unspecified" is the last.
SortKey(value) == IF value[1] = Unspecified THEN 65536 ELSE value[1][1].port
Before(v, w) == SortKey(v) <= SortKey(w)

\* dds-i-n: all n values must be there; the i-th in their order is taken.
\* Variant: in the order they arrived.
IofNUnsorted(entries) == entries[topology.iOfN]

IofN(entries) == SortSeq(entries, Before)[topology.iOfN]

\* Of several addresses in a value dds-i takes the i-th, else the first is taken.
ConnectionString(value) == IF Len(value) > 1 /\ topology.i > 0 THEN value[topology.i] ELSE value[1]

\* What insert() into fDDSValues leads to; .at() throws when the channel is
\* no longer (or not) among the connecting ones.  The iteration order of the
\* hash map is arbitrary.
ValueInserted(d, key, value) ==
    IF plugin[d].missing = 0
    THEN UNCHANGED plugin
    ELSE LET old == plugin[d].values
             new == IF \E v \in old : v.key = key THEN old
                    ELSE old \cup {[key |-> key, addr |-> ConnectionString(value)]}
         IN  \E order \in SetToSeqs(new) :
                plugin' = [plugin EXCEPT ![d].values = new,
                               ![d].callback = IF Cardinality(new) = plugin[d].missing
                                               THEN [order |-> order, i |-> 1] ELSE NoCallback]

Connects(d) == \E i \in DOMAIN topology.chans[d] : topology.chans[d][i].method = "connect"

\* The key-value callback: an update reaches the device once.
ReceiveUpdate(d) ==
    /\ ServiceStarted(d)
    /\ Connects(d)
    /\ plugin[d].callback = NoCallback
    /\ \E p \in published :
          /\ p.from \notin arrived[d]
          /\ arrived' = [arrived EXCEPT ![d] = @ \cup {p.from}]
          /\ IF topology.iOfN = 0
             THEN ValueInserted(d, p.from, p.value)
             ELSE LET entries == Append(plugin[d].entries, p.value)
                  IN  IF Len(entries) = Cardinality(topology.publishers)
                      THEN ValueInserted(d, p.from, IofN(entries))
                      ELSE plugin' = [plugin EXCEPT ![d].entries = entries]
    /\ UNCHANGED <<topology, deviceVars, control, fEvents, published, clientVars>>

\* The loop over SetProperty, which refuses any other state; then the channel
\* is erased from fConnectingChans.
SetProperty(d) ==
    LET cb == plugin[d].callback
    IN  /\ cb # NoCallback
        /\ IF state[d] # "INITIALIZING_DEVICE"
           THEN plugin' = [plugin EXCEPT ![d].callback = NoCallback] /\ UNCHANGED config
           ELSE /\ SetValue(d, cb.i, "addr", cb.order[cb.i].addr)
                /\ plugin' = [plugin EXCEPT
                      ![d].callback = IF cb.i < Len(cb.order) THEN [cb EXCEPT !.i = @ + 1] ELSE NoCallback,
                      ![d].missing = IF cb.i < Len(cb.order) THEN @ ELSE 0]
        /\ UNCHANGED <<topology, state, worker, fChannels, inits, control, fEvents,
                       published, arrived, clientVars>>

\* Another plugin sets a property of a channel, in the state that allows it.
\* UpdateTransport ends the process when the transport is unknown.
SetChannelProperty(d) ==
    /\ state[d] = "INITIALIZING_DEVICE"
    /\ \E s \in topology.sets :
          /\ s.device = d
          /\ config[d].fVarMap[s.i][s.member] # s.value
          /\ IF s.member = "transport" /\ s.value = "unknown"
             THEN Exit(d)
             ELSE /\ SetValue(d, s.i, s.member, s.value)
                  /\ UNCHANGED <<topology, state, worker, fChannels, inits, pluginVars, published,
                                 arrived, clientVars>>

Commanded(d) == topology.client > 0 /\ ServiceStarted(d) /\ Connects(d)

\* A command that asks for a state; one without a transition changes nothing.
Command(d) ==
    /\ Commanded(d)
    /\ \/ \E row \in Requested :
             /\ row[2] = "INIT DEVICE" => inits[d] < MaxInits
             /\ Transition(d, row[2])
             /\ UNCHANGED fEvents
       \/ /\ state[d] = "IDLE"
          /\ Enter(d, "EXITING")
          /\ Callbacks(d, <<"EXITING">>)
          /\ UNCHANGED <<worker, inits>>
    /\ commands < topology.client
    /\ commands' = commands + 1
    /\ UNCHANGED <<topology, fChannels, config, control, plugin, published, arrived, queries>>

\* subscribe-to-state-changes: the client is inserted first ...
Subscribe(d) ==
    /\ Commanded(d)
    /\ queries < MaxQueries
    /\ ~subscriber[d].on
    /\ queries' = queries + 1
    /\ subscriber' = [subscriber EXCEPT ![d] = [Unsubscribed EXCEPT !.on = TRUE]]
    /\ UNCHANGED <<topology, deviceVars, pluginVars, published, arrived, commands>>

\* ... then the state is read ...
SubscribeReads(d) ==
    /\ subscriber[d].on /\ ~subscriber[d].acked /\ subscriber[d].read = "none"
    /\ subscriber' = [subscriber EXCEPT ![d].read = state[d]]
    /\ UNCHANGED <<topology, deviceVars, pluginVars, published, arrived, commands, queries>>

Replying(d) == subscriber[d].on /\ ~subscriber[d].acked /\ subscriber[d].read # "none"

\* Variant: the reply does not carry the state.
SubscribeRepliedBare(d) ==
    /\ Replying(d)
    /\ subscriber' = [subscriber EXCEPT ![d].acked = TRUE, ![d].read = "none"]
    /\ UNCHANGED <<topology, deviceVars, pluginVars, published, arrived, commands, queries>>

\* ... and sent, when the device may have gone on and announced another one.
SubscribeReplied(d) ==
    /\ Replying(d)
    /\ subscriber' = [subscriber EXCEPT ![d].acked = TRUE, ![d].read = "none",
                                       ![d].told = @ \/ subscriber[d].read = state[d]]
    /\ UNCHANGED <<topology, deviceVars, pluginVars, published, arrived, commands, queries>>

Unsubscribe(d) ==
    /\ Commanded(d)
    /\ subscriber[d].acked
    /\ subscriber' = [subscriber EXCEPT ![d] = Unsubscribed]
    /\ UNCHANGED <<topology, deviceVars, pluginVars, published, arrived, commands, queries>>

DDSThread(d) == ReceiveUpdate(d) \/ SetProperty(d) \/ SubscribeReads(d) \/ SubscribeReplied(d)

Worker(d) == TakeWork(d) \/ HandlerDone(d) \/ HandlerLeft(d) \/ ProcessWork(d) \/ InitWrapper(d)

Next == \E d \in Devices :
    \/ Worker(d)
    \/ HandleControl(d)
    \/ DDSThread(d) \/ SetChannelProperty(d) \/ Command(d) \/ Subscribe(d) \/ Unsubscribe(d)

\* Threads that can run do so, and DDS delivers what was published; clients
\* need not send anything.
Fairness == \A d \in Devices :
    /\ WF_vars(Worker(d))
    /\ WF_vars(HandleControl(d))
    /\ WF_vars(DDSThread(d))

Spec == Init /\ [][Next]_vars /\ Fairness

-----------------------------------------------------------------------------
(* Properties.                                                             *)

Settled(d) == state[d] \in {"DEVICE_READY", "INITIALIZING_TASK", "READY", "RUNNING", "PAUSED", "RESETTING_TASK"}

\* What the variable map, which plugins read and publish, and the channel map,
\* which the next initialization starts from, say of a channel is the same
\* whoever sets properties, but for the kernel sizes; and once a device is
\* initialized the address is the one of its channel (AttachChannel: "put the
\* (possibly) modified address back").
ConfigAgrees == \A d \in Devices : \A i \in DOMAIN fChannels[d] :
    /\ \A member \in Members : config[d].fVarMap[i][member] = config[d].fFairMQChannelMap[i][member]
    /\ Settled(d) => config[d].fVarMap[i].addr = fChannels[d][i].addr

\* Once a device is initialized, the socket of a channel with one endpoint is
\* attached exactly once, to the address the channel states: bound to that
\* port or connected to that endpoint and to nothing else.
SocketsMatch == \A d \in Devices : Settled(d) =>
    \A i \in DOMAIN fChannels[d] :
        LET c == fChannels[d][i]
        IN  Len(c.addr) = 1 =>
               IF Binds(c, c.addr[1])
               THEN c.bound = {c.addr[1].port} /\ c.connected = <<>>
               ELSE c.bound = {} /\ c.connected = <<c.addr[1]>>

\* What a device has published through DDS is what its sockets are bound to,
\* unless its initialization failed or it is gone: the plugin waits for the announcement
\* that InitWrapper makes after binding.
PublishedIsBound == \A p \in published :
    state[p.from] \notin {"Error", "exited"} =>
        \A i \in DOMAIN p.value :
            /\ Len(p.value[i]) = 1
            /\ p.value[i][1].port \in fChannels[p.from][i].bound

Healthy == \A b \in topology.publishers : state[b] \notin {"Error", "exited"}

\* The addresses to connect to are left to DDS.
ThroughDDS(d) == Connects(d) /\ \A i \in DOMAIN topology.chans[d] : topology.chans[d][i].addr = Unspecified

\* A device that connects through DDS is, once initialized, connected to what
\* the publishers bound: one publisher per sub-channel, with dds-i-n the i-th
\* in the order of addresses whatever order they arrived in, with dds-i the
\* i-th sub-channel of the publisher.
ConnectsAsConfigured == \A d \in Devices : Settled(d) /\ ThroughDDS(d) /\ Healthy =>
    LET peers(i) == {b \in topology.publishers : \E j \in DOMAIN fChannels[b] :
                        fChannels[d][i].connected[1].port \in fChannels[b][j].bound}
        ports == UNION {fChannels[b][1].bound : b \in topology.publishers}
    IN  /\ \A i \in DOMAIN fChannels[d] : peers(i) # {}
        /\ \A i, j \in DOMAIN fChannels[d] : i # j => peers(i) \cap peers(j) = {}
        /\ topology.iOfN > 0 =>
              Cardinality({p \in ports : p < fChannels[d][1].connected[1].port}) = topology.iOfN - 1
        /\ topology.i > 0 => \A b \in topology.publishers :
              fChannels[d][1].connected[1].port \in fChannels[b][topology.i].bound

\* The worker will announce the state the device is in: a handler is waiting
\* for it, InitWrapper has not bound yet, or the handler it executes has
\* returned or belongs to a state that was left.
AnnouncementDue(d) ==
    \/ worker[d].work # "none"
    \/ worker[d].at \in {"fill", "bind", "returned"}
    \/ worker[d].at \in {"RUNNING", "PAUSED"} /\ worker[d].at # state[d]

\* A client whose subscription to state changes was acknowledged has been told
\* the state the device is in, or the worker is about to announce it: the
\* client is inserted before the state for the reply is read, so a change is
\* in the reply or among the notifications.  (A reply that was overtaken by a
\* notification still arrives after it.)
SubscriberKnowsState == \A d \in Devices :
    subscriber[d].acked /\ state[d] # "exited" =>
        subscriber[d].told \/ (state[d] # "Error" /\ AnnouncementDue(d))

\* The initialization of a device ends, with DEVICE_READY or with an error,
\* unless the time-out is longer than anything else.
InitializationEnds == ~topology.patient =>
    \A d \in Devices : (state[d] = "INITIALIZING_DEVICE") ~> (state[d] # "INITIALIZING_DEVICE")

\* With a time-out long enough every device of the topology runs in the end,
\* unless a device fails to bind or a client interferes: the plugins exchange
\* their addresses and request the states without waiting for each other.
TopologyComesUp ==
    /\ topology.patient
    /\ [](\A d \in Devices : state[d] \notin {"Error", "exited"})
    /\ [](commands = 0)
    => \A d \in Devices : <>(state[d] = "RUNNING" \/ topology.chans[d] = <<>>)

=============================================================================
