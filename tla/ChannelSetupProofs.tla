-------------------------- MODULE ChannelSetupProofs --------------------------
(***************************************************************************)
(* A client that subscribed to the state changes of a device is not left   *)
(* behind: a proof for every topology and every bound.  The channels, the  *)
(* addresses and the configuration play no part in it: the proof follows   *)
(* the state, the worker and the subscription.                             *)
(***************************************************************************)
EXTENDS ChannelSetup, TLAPS

WorkerFields == {"at", "work", "todo", "i", "endpoints", "attempts"}
SubscriberFields == {"on", "acked", "told", "read"}
Long == {"RUNNING", "PAUSED"}
States == {"IDLE", "INITIALIZING_DEVICE", "DEVICE_READY", "INITIALIZING_TASK", "READY", "RUNNING",
           "PAUSED", "RESETTING_TASK", "RESETTING_DEVICE", "EXITING", "Error", "exited"}

\* Device d: what the handler at work or available says of the state, and who
\* tells the client: somebody did, the worker will, or the reply does.
Follows(d) ==
    /\ DOMAIN worker[d] = WorkerFields
    /\ DOMAIN subscriber[d] = SubscriberFields
    /\ state[d] \in States
    /\ subscriber[d].acked => subscriber[d].on
    /\ worker[d].at \in DOMAIN Automatic => state[d] = worker[d].at /\ worker[d].work = "none"
    /\ worker[d].at \in {"fill", "bind", "connect"} =>
          state[d] \in {"INITIALIZING_DEVICE", "Error"} /\ worker[d].work = "none"
    /\ worker[d].work \in {"none", state[d]} \cup Long /\ worker[d].work # "IDLE"
    /\ state[d] \in Long => state[d] \in {worker[d].at, worker[d].work}
    /\ subscriber[d].on /\ state[d] # "exited" =>
          \/ subscriber[d].told
          \/ state[d] # "Error" /\ AnnouncementDue(d)
          \/ ~subscriber[d].acked /\ subscriber[d].read \in {"none", state[d]}

SubscriberIInv ==
    /\ DOMAIN state = Devices /\ DOMAIN worker = Devices /\ DOMAIN subscriber = Devices
    /\ \A d \in Devices : Follows(d)

\* A step of the threads of d leaves the other devices alone.
Only(d) ==
    /\ DOMAIN state' = Devices /\ DOMAIN worker' = Devices /\ DOMAIN subscriber' = Devices
    /\ \A e \in Devices \ {d} :
          state'[e] = state[e] /\ worker'[e] = worker[e] /\ subscriber'[e] = subscriber[e]

-----------------------------------------------------------------------------
(* Facts used in every step.                                               *)

\* The invariant is kept if the device that makes the step keeps its part.
LEMMA StepOfOne ==
    ASSUME SubscriberIInv, NEW d \in Devices, Only(d), Follows(d)'
    PROVE  SubscriberIInv'
<1>1. ASSUME NEW e \in Devices, e # d
      PROVE  Follows(e)'
  <2>1. state'[e] = state[e] /\ worker'[e] = worker[e] /\ subscriber'[e] = subscriber[e]
    BY <1>1 DEF Only
  <2>2. Follows(e)
    BY DEF SubscriberIInv
  <2>3. QED
    BY <2>1, <2>2 DEF Follows, AnnouncementDue
<1>2. QED
  BY <1>1 DEF SubscriberIInv, Only

\* What announcements are made of.
LEMMA AnnouncedStates ==
    /\ ToSet(<<>>) = {}
    /\ \A x : ToSet(<<x>>) = {x}
    /\ \A x, y : ToSet(<<x, y>>) = {x, y}
  BY DEF ToSet

\* Publish changes whether the client was told, nothing else.
LEMMA PublishTells ==
    ASSUME SubscriberIInv, NEW d \in Devices, NEW states, Publish(d, states)
    PROVE  /\ DOMAIN subscriber' = Devices
           /\ \A e \in Devices \ {d} : subscriber'[e] = subscriber[e]
           /\ DOMAIN subscriber'[d] = SubscriberFields
           /\ subscriber'[d].on = subscriber[d].on
           /\ subscriber'[d].acked = subscriber[d].acked
           /\ subscriber'[d].read = subscriber[d].read
           /\ subscriber'[d].told <=>
                 /\ subscriber[d].on
                 /\ state'[d] \in ToSet(states) \/ (subscriber[d].told /\ state'[d] = state[d])
<1>1. DOMAIN subscriber = Devices /\ DOMAIN subscriber[d] = SubscriberFields
  BY DEF SubscriberIInv, Follows
<1>2. QED
  BY <1>1 DEF Publish, SubscriberFields

\* A state entered without an announcement is one the worker will announce.
LEMMA EnteredSilently ==
    ASSUME SubscriberIInv, NEW d \in Devices, NEW s, Enter(d, s), Publish(d, <<>>),
           DOMAIN worker' = Devices, \A e \in Devices \ {d} : worker'[e] = worker[e],
           DOMAIN worker'[d] = WorkerFields, s \in States \ {"Error", "exited"},
           AnnouncementDue(d)',
           worker'[d].at \notin DOMAIN Automatic \cup {"fill", "bind", "connect"},
           worker'[d].work \in {"none", s} \cup Long, worker'[d].work # "IDLE",
           s \in Long => worker'[d].work = s
    PROVE  SubscriberIInv'
<1>1. DOMAIN state = Devices /\ Follows(d)
  BY DEF SubscriberIInv
<1>2. DOMAIN state' = Devices /\ state'[d] = s /\ \A e \in Devices \ {d} : state'[e] = state[e]
  BY <1>1 DEF Enter
<1>3. Only(d)
  BY <1>2, PublishTells DEF Only
<1>4. Follows(d)'
  BY <1>1, <1>2, PublishTells DEF Follows
<1>5. QED
  BY <1>3, <1>4, StepOfOne

-----------------------------------------------------------------------------
(* The state machine and its worker.                                       *)

\* The states with a handler that ends in an internal event.
LEMMA TransientStates ==
    DOMAIN Automatic = {"INITIALIZING_TASK", "RESETTING_TASK", "RESETTING_DEVICE"}
  BY DEF Automatic

\* The rows of the table: no request starts in a transient state or in Error or
\* leads to Error or IDLE, and STOP is the one without a handler.
LEMMA RequestedRows ==
    ASSUME NEW row \in Requested
    PROVE  /\ row[3] \in States \ {"Error", "exited", "IDLE"}
           /\ row[1] \in {"IDLE", "DEVICE_READY", "READY", "RUNNING", "PAUSED"}
           /\ row[2] = "STOP" => row[1] = "RUNNING" /\ row[3] = "READY"
<1>1. CASE row = <<"IDLE", "INIT DEVICE", "INITIALIZING_DEVICE">>
  BY <1>1 DEF States
<1>2. CASE row = <<"DEVICE_READY", "INIT TASK", "INITIALIZING_TASK">>
  BY <1>2 DEF States
<1>3. CASE row = <<"READY", "RUN", "RUNNING">>
  BY <1>3 DEF States
<1>4. CASE row = <<"RUNNING", "STOP", "READY">>
  BY <1>4 DEF States
<1>5. CASE row = <<"RUNNING", "PAUSE", "PAUSED">>
  BY <1>5 DEF States
<1>6. CASE row = <<"PAUSED", "RUN", "RUNNING">>
  BY <1>6 DEF States
<1>7. CASE row = <<"READY", "RESET TASK", "RESETTING_TASK">>
  BY <1>7 DEF States
<1>8. CASE row = <<"DEVICE_READY", "RESET DEVICE", "RESETTING_DEVICE">>
  BY <1>8 DEF States
<1>9. QED
  BY <1>1, <1>2, <1>3, <1>4, <1>5, <1>6, <1>7, <1>8 DEF Requested

\* A request: the handler left to the worker, or the one that returns, will
\* announce the state.
LEMMA TransitionFollows ==
    ASSUME SubscriberIInv, NEW d \in Devices, NEW event, Transition(d, event)
    PROVE  SubscriberIInv'
<1>1. PICK row \in Requested :
        /\ row[1] = state[d] /\ row[2] = event
        /\ Enter(d, row[3])
        /\ Publish(d, <<>>)
        /\ worker' = [worker EXCEPT ![d].at = IF @ \in {"RUNNING", "PAUSED"} THEN "returned" ELSE @,
                                   ![d].work = IF event = "STOP" THEN @ ELSE row[3]]
  BY DEF Transition
<1>2. DOMAIN worker = Devices /\ DOMAIN worker[d] = WorkerFields /\ Follows(d)
  BY DEF SubscriberIInv, Follows
<1>3. /\ DOMAIN worker' = Devices /\ DOMAIN worker'[d] = WorkerFields
      /\ \A e \in Devices \ {d} : worker'[e] = worker[e]
      /\ worker'[d].at = IF worker[d].at \in Long THEN "returned" ELSE worker[d].at
      /\ worker'[d].work = IF event = "STOP" THEN worker[d].work ELSE row[3]
  BY <1>1, <1>2 DEF WorkerFields, Long
<1>4. /\ row[3] \in States \ {"Error", "exited", "IDLE"} /\ row[3] # "none"
      /\ row[1] \notin DOMAIN Automatic \cup {"INITIALIZING_DEVICE", "Error"}
      /\ row[2] = "STOP" => row[1] = "RUNNING" /\ row[3] = "READY"
  BY RequestedRows, TransientStates DEF States
<1>5. worker'[d].at \notin DOMAIN Automatic \cup {"fill", "bind", "connect"}
  BY <1>1, <1>2, <1>3, <1>4 DEF Follows, Automatic
<1>6. CASE event = "STOP"
  <2>1. worker[d].work \in {"none"} \cup Long
    BY <1>1, <1>2, <1>4, <1>6 DEF Follows, Long
  <2>2. worker'[d].at = "returned" \/ worker'[d].work # "none"
    BY <1>1, <1>2, <1>3, <1>4, <1>6 DEF Follows, Long
  <2>3. AnnouncementDue(d)'
    BY <2>2 DEF AnnouncementDue
  <2>4. QED
    BY <1>1, <1>3, <1>4, <1>5, <1>6, <2>1, <2>3, EnteredSilently DEF Long
<1>7. CASE event # "STOP"
  <2>1. AnnouncementDue(d)'
    BY <1>3, <1>4, <1>7 DEF AnnouncementDue
  <2>2. QED
    BY <1>1, <1>3, <1>4, <1>5, <1>7, <2>1, EnteredSilently
<1>8. QED
  BY <1>6, <1>7

\* The worker takes a handler: what it announces is the state, or a state that
\* was left, and then it will return.
LEMMA TakeWorkFollows ==
    ASSUME SubscriberIInv, NEW d \in Devices, TakeWork(d)
    PROVE  SubscriberIInv'
<1>1. DOMAIN worker = Devices /\ DOMAIN state = Devices /\ DOMAIN subscriber = Devices /\ Follows(d)
  BY DEF SubscriberIInv
<1>2. worker[d].work \in {state[d]} \cup Long /\ state' = state
  BY <1>1 DEF TakeWork, Follows
<1>3. CASE worker[d].work = "INITIALIZING_DEVICE"
  <2>1. worker' = [worker EXCEPT ![d] = [Idle EXCEPT !.at = "fill"]] /\ subscriber' = subscriber
    BY <1>3 DEF TakeWork, NoCallbacks
  <2>2. worker'[d].at = "fill" /\ worker'[d].work = "none" /\ DOMAIN worker'[d] = WorkerFields
    BY <1>1, <2>1 DEF Idle, WorkerFields
  <2>3. state[d] = "INITIALIZING_DEVICE"
    BY <1>2, <1>3 DEF Long
  <2>4. Only(d)
    BY <1>1, <1>2, <2>1 DEF Only
  <2>5. Follows(d)'
    BY <1>1, <1>2, <2>1, <2>2, <2>3, TransientStates DEF Follows, AnnouncementDue, Long
  <2>6. QED
    BY <2>4, <2>5, StepOfOne
<1>4. CASE worker[d].work # "INITIALIZING_DEVICE"
  <2>1. /\ worker' = [worker EXCEPT ![d] = [Idle EXCEPT !.at = worker[d].work]]
        /\ Publish(d, <<worker[d].work>>)
    BY <1>4 DEF TakeWork, Callbacks
  <2>2. worker'[d].at = worker[d].work /\ worker'[d].work = "none" /\ DOMAIN worker'[d] = WorkerFields
    BY <1>1, <2>1 DEF Idle, WorkerFields
  <2>3. PICK h : h = worker[d].work
    OBVIOUS
  <2>4. /\ subscriber'[d].told <=> subscriber[d].on /\ (state[d] = h \/ subscriber[d].told)
        /\ subscriber'[d].on = subscriber[d].on /\ subscriber'[d].acked = subscriber[d].acked
        /\ subscriber'[d].read = subscriber[d].read /\ DOMAIN subscriber'[d] = SubscriberFields
    BY <1>2, <2>1, <2>3, PublishTells, AnnouncedStates
  <2>5. Only(d)
    BY <1>1, <1>2, <2>1, PublishTells DEF Only
  <2>6. worker'[d].at \notin {"fill", "bind", "connect"}
    <3>1. h \in {state[d]} \cup Long
      BY <1>2, <2>3
    <3>2. state[d] \notin {"fill", "bind", "connect"}
      BY <1>1 DEF Follows, States
    <3>3. QED
      BY <2>2, <2>3, <3>1, <3>2 DEF Long
  <2>7. Follows(d)'
    <3>1. h \in {state[d]} \cup Long /\ worker[d].at = "idle" /\ state'[d] = state[d]
      BY <1>2, <2>3 DEF TakeWork
    <3>2. worker'[d].at \in DOMAIN Automatic => state'[d] = worker'[d].at
      BY <2>2, <2>3, <3>1, TransientStates DEF Long
    <3>3. state'[d] \in Long => state'[d] = worker'[d].at
      BY <1>1, <2>2, <2>3, <3>1 DEF Follows, Long
    <3>4. \/ h = state[d]
          \/ AnnouncementDue(d)'
      BY <2>2, <2>3, <3>1 DEF AnnouncementDue, Long
    <3>5. subscriber'[d].on /\ state'[d] # "exited" =>
            \/ subscriber'[d].told
            \/ state'[d] # "Error" /\ AnnouncementDue(d)'
            \/ ~subscriber'[d].acked /\ subscriber'[d].read \in {"none", state'[d]}
      BY <1>1, <2>4, <3>1, <3>4 DEF Follows
    <3>6. QED
      BY <1>1, <2>2, <2>4, <2>6, <3>1, <3>2, <3>3, <3>5 DEF Follows
  <2>8. QED
    BY <2>5, <2>7, StepOfOne
<1>5. QED
  BY <1>3, <1>4

\* A transient handler ends: the state it leaves to is announced on its return.
LEMMA HandlerDoneFollows ==
    ASSUME SubscriberIInv, NEW d \in Devices, HandlerDone(d)
    PROVE  SubscriberIInv'
<1>1. DOMAIN worker = Devices /\ Follows(d)
  BY DEF SubscriberIInv
<1>2. PICK s : s = Automatic[worker[d].at]
  OBVIOUS
<1>3. s \in {"READY", "DEVICE_READY", "IDLE"}
  <2>1. worker[d].at \in {"INITIALIZING_TASK", "RESETTING_TASK", "RESETTING_DEVICE"}
    BY TransientStates DEF HandlerDone
  <2>2. \A x \in {"INITIALIZING_TASK", "RESETTING_TASK", "RESETTING_DEVICE"} :
          Automatic[x] \in {"READY", "DEVICE_READY", "IDLE"}
    BY DEF Automatic
  <2>3. QED
    BY <1>2, <2>1, <2>2
<1>4. worker' = [worker EXCEPT ![d].at = "returned"] /\ Enter(d, s) /\ Publish(d, <<>>)
  BY <1>2 DEF HandlerDone
<1>5. /\ DOMAIN worker' = Devices /\ DOMAIN worker'[d] = WorkerFields
      /\ \A e \in Devices \ {d} : worker'[e] = worker[e]
      /\ worker'[d].at = "returned" /\ worker'[d].work = "none"
  BY <1>1, <1>4 DEF HandlerDone, Follows, WorkerFields
<1>6. AnnouncementDue(d)'
  BY <1>5 DEF AnnouncementDue
<1>7. QED
  BY <1>3, <1>4, <1>5, <1>6, TransientStates, EnteredSilently DEF Long, States

\* So is the state when RunWrapper or PauseWrapper started too late.
LEMMA HandlerLeftFollows ==
    ASSUME SubscriberIInv, NEW d \in Devices, HandlerLeft(d)
    PROVE  SubscriberIInv'
<1>1. /\ DOMAIN worker = Devices /\ DOMAIN state = Devices /\ DOMAIN subscriber = Devices /\ Follows(d)
      /\ state' = state /\ subscriber' = subscriber
  BY DEF SubscriberIInv, HandlerLeft, clientVars
<1>2. worker' = [worker EXCEPT ![d].at = "returned"] /\ worker[d].at # state[d]
  BY DEF HandlerLeft
<1>3. /\ DOMAIN worker' = Devices /\ DOMAIN worker'[d] = WorkerFields
      /\ \A e \in Devices \ {d} : worker'[e] = worker[e]
      /\ worker'[d].at = "returned" /\ worker'[d].work = worker[d].work
  BY <1>1, <1>2 DEF Follows, WorkerFields
<1>4. Only(d)
  BY <1>1, <1>3 DEF Only
<1>5. worker[d].at \in Long
  BY DEF HandlerLeft, Long
<1>6. AnnouncementDue(d)'
  BY <1>3 DEF AnnouncementDue
<1>7. Follows(d)'
  BY <1>1, <1>2, <1>3, <1>6, TransientStates DEF Follows
<1>8. QED
  BY <1>4, <1>7, StepOfOne

\* The announcement after a handler's return tells the client the state.
LEMMA ProcessWorkFollows ==
    ASSUME SubscriberIInv, NEW d \in Devices, ProcessWork(d)
    PROVE  SubscriberIInv'
<1>1. DOMAIN worker = Devices /\ DOMAIN state = Devices /\ DOMAIN subscriber = Devices /\ Follows(d)
  BY DEF SubscriberIInv
<1>2. worker' = [worker EXCEPT ![d].at = "idle"] /\ state' = state /\ worker[d].at = "returned"
  BY DEF ProcessWork
<1>3. /\ DOMAIN worker' = Devices /\ DOMAIN worker'[d] = WorkerFields
      /\ \A e \in Devices \ {d} : worker'[e] = worker[e]
      /\ worker'[d].at = "idle" /\ worker'[d].work = worker[d].work
  BY <1>1, <1>2 DEF Follows, WorkerFields
<1>4. PICK s : s = state[d]
  OBVIOUS
<1>5. Publish(d, <<s>>)
  BY <1>4 DEF ProcessWork, Callbacks
<1>6. Only(d)
  BY <1>1, <1>2, <1>3, <1>5, PublishTells DEF Only
<1>7. /\ subscriber'[d].told <=> subscriber[d].on
      /\ subscriber'[d].on = subscriber[d].on /\ subscriber'[d].acked = subscriber[d].acked
      /\ DOMAIN subscriber'[d] = SubscriberFields
  <2>1. state'[d] \in ToSet(<<s>>)
    BY <1>2, <1>4, AnnouncedStates
  <2>2. QED
    BY <1>5, <2>1, PublishTells
<1>8. Follows(d)'
  BY <1>1, <1>2, <1>3, <1>7, TransientStates DEF Follows, Long
<1>9. QED
  BY <1>6, <1>8, StepOfOne

-----------------------------------------------------------------------------
(* InitWrapper.                                                            *)

\* A step that moves neither the state nor the handler nor the subscription.
LEMMA NothingSeen ==
    ASSUME SubscriberIInv, NEW d \in Devices, state' = state, subscriber' = subscriber,
           DOMAIN worker' = Devices, \A e \in Devices \ {d} : worker'[e] = worker[e],
           DOMAIN worker'[d] = WorkerFields,
           worker'[d].at = worker[d].at, worker'[d].work = worker[d].work
    PROVE  SubscriberIInv'
<1>1. Only(d) /\ Follows(d)
  BY DEF SubscriberIInv, Only
<1>2. Follows(d)'
  BY <1>1 DEF Follows, AnnouncementDue
<1>3. QED
  BY <1>1, <1>2, StepOfOne

\* ERROR_FOUND during InitWrapper: announced at once, the first time.
LEMMA ErrorFollows ==
    ASSUME SubscriberIInv, NEW d \in Devices, NEW states, Enter(d, "Error"), Publish(d, states),
           state[d] # "Error" => "Error" \in ToSet(states),
           DOMAIN worker' = Devices, \A e \in Devices \ {d} : worker'[e] = worker[e],
           DOMAIN worker'[d] = WorkerFields,
           worker'[d].at \in {"bind", "connect"}, worker'[d].work = "none"
    PROVE  SubscriberIInv'
<1>1. DOMAIN state = Devices /\ Follows(d)
  BY DEF SubscriberIInv
<1>2. DOMAIN state' = Devices /\ state'[d] = "Error" /\ \A e \in Devices \ {d} : state'[e] = state[e]
  BY <1>1 DEF Enter
<1>3. Only(d)
  BY <1>2, PublishTells DEF Only
<1>4. subscriber'[d].on =>
         subscriber'[d].told \/ (~subscriber'[d].acked /\ subscriber'[d].read \in {"none", "Error"})
  <2>1. CASE state[d] = "Error"
    BY <1>1, <1>2, <2>1, PublishTells DEF Follows
  <2>2. CASE state[d] # "Error"
    BY <1>2, <2>2, PublishTells
  <2>3. QED
    BY <2>1, <2>2
<1>5. Follows(d)'
  BY <1>1, <1>2, <1>4, PublishTells, TransientStates DEF Follows, States, Long
<1>6. QED
  BY <1>3, <1>5, StepOfOne

\* What ErrorFound announces, alone and before INITIALIZING_DEVICE.
LEMMA ErrorAnnounced ==
    ASSUME NEW d, state[d] # "Error"
    PROVE  /\ "Error" \in ToSet(ErrorFound(d))
           /\ "Error" \in ToSet(ErrorFound(d) \o <<"INITIALIZING_DEVICE">>)
<1>1. ErrorFound(d) = <<"Error">>
  BY DEF ErrorFound
<1>2. "Error" \in ToSet(<<"Error">>)
  BY DEF ToSet
<1>3. "Error" \in ToSet(<<"Error">> \o <<"INITIALIZING_DEVICE">>)
  <2>1. PICK e \in Seq({"Error", "INITIALIZING_DEVICE"}), f \in Seq({"Error", "INITIALIZING_DEVICE"}) :
          e = <<"Error">> /\ f = <<"INITIALIZING_DEVICE">>
    <3>1. <<"Error">> \in Seq({"Error", "INITIALIZING_DEVICE"})
      OBVIOUS
    <3>2. <<"INITIALIZING_DEVICE">> \in Seq({"Error", "INITIALIZING_DEVICE"})
      OBVIOUS
    <3>3. QED
      BY <3>1, <3>2, Zenon
  <2>2. e \o f \in Seq({"Error", "INITIALIZING_DEVICE"}) /\ Len(e \o f) = Len(e) + Len(f) /\ Len(e) = 1 /\ Len(f) = 1
    BY <2>1
  <2>3. 1 \in DOMAIN (e \o f) /\ (e \o f)[1] = "Error"
    BY <2>1, <2>2
  <2>4. QED
    BY <2>1, <2>3 DEF ToSet
<1>4. QED
  BY <1>1, <1>2, <1>3, Zenon

\* The lists are filled: InitWrapper has still to announce its state.
LEMMA FillFollows ==
    ASSUME SubscriberIInv, NEW d \in Devices, FillUninitialized(d)
    PROVE  SubscriberIInv'
<1>1. DOMAIN worker = Devices /\ DOMAIN state = Devices /\ DOMAIN subscriber = Devices /\ Follows(d)
  BY DEF SubscriberIInv
<1>2. PICK todo : worker' = [worker EXCEPT ![d] = [Idle EXCEPT !.at = "bind", !.todo = todo]]
  BY DEF FillUninitialized
<1>3. /\ DOMAIN worker' = Devices /\ DOMAIN worker'[d] = WorkerFields
      /\ \A e \in Devices \ {d} : worker'[e] = worker[e]
      /\ worker'[d].at = "bind" /\ worker'[d].work = "none"
  BY <1>1, <1>2 DEF Idle, WorkerFields
<1>4. CASE Enter(d, "Error") /\ Callbacks(d, ErrorFound(d))
  BY <1>3, <1>4, ErrorFollows, ErrorAnnounced DEF Callbacks
<1>5. CASE state' = state /\ subscriber' = subscriber
  <2>1. Only(d)
    BY <1>1, <1>3, <1>5 DEF Only
  <2>2. Follows(d)'
    BY <1>1, <1>3, <1>5, TransientStates DEF Follows, AnnouncementDue, FillUninitialized, Long
  <2>3. QED
    BY <2>1, <2>2, StepOfOne
<1>6. QED
  BY <1>4, <1>5 DEF FillUninitialized, NoCallbacks

\* exit(): there is no device any more that the client could be told of.
LEMMA ExitFollows ==
    ASSUME SubscriberIInv, NEW d \in Devices, Exit(d)
    PROVE  SubscriberIInv'
<1>1. DOMAIN worker = Devices /\ DOMAIN state = Devices /\ DOMAIN subscriber = Devices /\ Follows(d)
  BY DEF SubscriberIInv
<1>2. /\ DOMAIN worker' = Devices /\ DOMAIN worker'[d] = WorkerFields
      /\ \A e \in Devices \ {d} : worker'[e] = worker[e]
      /\ worker'[d].at = "exited" /\ worker'[d].work = "none"
  BY <1>1 DEF Exit, Idle, WorkerFields
<1>3. /\ DOMAIN state' = Devices /\ state'[d] = "exited" /\ subscriber' = subscriber
      /\ \A e \in Devices \ {d} : state'[e] = state[e]
  BY <1>1 DEF Exit, Enter, clientVars
<1>4. Only(d)
  BY <1>1, <1>2, <1>3 DEF Only
<1>5. Follows(d)'
  BY <1>1, <1>2, <1>3, TransientStates DEF Follows, States, Long
<1>6. QED
  BY <1>4, <1>5, StepOfOne

\* After binding, INITIALIZING_DEVICE is announced, or an error was.
LEMMA BindingDoneFollows ==
    ASSUME SubscriberIInv, NEW d \in Devices, BindingDone(d)
    PROVE  SubscriberIInv'
<1>1. DOMAIN worker = Devices /\ DOMAIN state = Devices /\ DOMAIN subscriber = Devices /\ Follows(d)
  BY DEF SubscriberIInv
<1>2. PICK todo : worker' = [worker EXCEPT ![d] = [Idle EXCEPT !.at = "connect", !.todo = todo]]
  BY DEF BindingDone
<1>3. /\ DOMAIN worker' = Devices /\ DOMAIN worker'[d] = WorkerFields
      /\ \A e \in Devices \ {d} : worker'[e] = worker[e]
      /\ worker'[d].at = "connect" /\ worker'[d].work = "none"
  BY <1>1, <1>2 DEF Idle, WorkerFields
<1>4. state[d] \in {"INITIALIZING_DEVICE", "Error"}
  BY <1>1 DEF BindingDone, ListDone, Follows
<1>5. CASE Enter(d, "Error") /\ Publish(d, ErrorFound(d) \o <<"INITIALIZING_DEVICE">>)
  BY <1>3, <1>5, ErrorFollows, ErrorAnnounced
<1>6. CASE state' = state /\ Publish(d, <<"INITIALIZING_DEVICE">>)
  <2>1. Only(d)
    BY <1>1, <1>3, <1>6, PublishTells DEF Only
  <2>2. subscriber'[d].told <=>
          subscriber[d].on /\ (state[d] = "INITIALIZING_DEVICE" \/ subscriber[d].told)
    BY <1>6, PublishTells, AnnouncedStates
  <2>3. Follows(d)'
    BY <1>1, <1>3, <1>4, <1>6, <2>2, PublishTells, TransientStates DEF Follows, Long
  <2>4. QED
    BY <2>1, <2>3, StepOfOne
<1>7. QED
  BY <1>5, <1>6 DEF BindingDone, Callbacks

\* Another attempt to connect, or one too many.
LEMMA RetryFollows ==
    ASSUME SubscriberIInv, NEW d \in Devices, Retry(d)
    PROVE  SubscriberIInv'
<1>1. DOMAIN worker = Devices /\ Follows(d)
  BY DEF SubscriberIInv
<1>2. PICK n : worker' = [worker EXCEPT ![d].i = 1, ![d].attempts = n]
  BY DEF Retry
<1>3. /\ DOMAIN worker' = Devices /\ DOMAIN worker'[d] = WorkerFields
      /\ \A e \in Devices \ {d} : worker'[e] = worker[e]
      /\ worker'[d].at = worker[d].at /\ worker'[d].work = worker[d].work
  BY <1>1, <1>2 DEF Follows, WorkerFields
<1>4. worker[d].at = "connect" /\ worker[d].work = "none"
  BY <1>1 DEF Retry, ListDone, Follows
<1>5. CASE Enter(d, "Error") /\ Publish(d, ErrorFound(d))
  BY <1>3, <1>4, <1>5, ErrorFollows, ErrorAnnounced
<1>6. CASE state' = state /\ subscriber' = subscriber
  BY <1>3, <1>6, NothingSeen
<1>7. QED
  BY <1>5, <1>6 DEF Retry, Callbacks, NoCallbacks

\* InitWrapper returns: DEVICE_READY, or the error again, is yet to be announced.
LEMMA InitWrapperReturnsFollows ==
    ASSUME SubscriberIInv, NEW d \in Devices, InitWrapperReturns(d)
    PROVE  SubscriberIInv'
<1>1. DOMAIN worker = Devices /\ DOMAIN state = Devices /\ DOMAIN subscriber = Devices /\ Follows(d)
  BY DEF SubscriberIInv
<1>2. /\ DOMAIN worker' = Devices /\ DOMAIN worker'[d] = WorkerFields
      /\ \A e \in Devices \ {d} : worker'[e] = worker[e]
      /\ worker'[d].at = "returned" /\ worker'[d].work = "none"
  BY <1>1 DEF InitWrapperReturns, Idle, WorkerFields
<1>3. Publish(d, <<>>)
  BY DEF InitWrapperReturns
<1>4. CASE state[d] = "Error" /\ state' = state
  <2>1. Only(d)
    BY <1>1, <1>2, <1>3, <1>4, PublishTells DEF Only
  <2>2. Follows(d)'
    BY <1>1, <1>2, <1>3, <1>4, PublishTells, TransientStates DEF Follows, Long
  <2>3. QED
    BY <2>1, <2>2, StepOfOne
<1>5. CASE Enter(d, "DEVICE_READY")
  <2>1. AnnouncementDue(d)'
    BY <1>2 DEF AnnouncementDue
  <2>2. QED
    BY <1>2, <1>3, <1>5, <2>1, EnteredSilently, TransientStates DEF States, Long
<1>6. QED
  BY <1>4, <1>5 DEF InitWrapperReturns

\* Attaching an endpoint or skipping a channel.
LEMMA AttachFollows ==
    ASSUME SubscriberIInv, NEW d \in Devices, ChannelInvalid(d) \/ AttachEndpoint(d)
    PROVE  SubscriberIInv'
<1>1. DOMAIN worker = Devices /\ DOMAIN worker[d] = WorkerFields
  BY DEF SubscriberIInv, Follows
<1>2. state' = state /\ subscriber' = subscriber
  BY DEF ChannelInvalid, AttachEndpoint, clientVars
<1>3. \/ NextChannel(d)
      \/ \E es : worker' = [worker EXCEPT ![d].endpoints = es]
      \/ worker' = [worker EXCEPT ![d] = EraseChannel(@)]
  BY DEF ChannelInvalid, AttachEndpoint, Attached
<1>4. /\ DOMAIN worker' = Devices /\ DOMAIN worker'[d] = WorkerFields
      /\ \A e \in Devices \ {d} : worker'[e] = worker[e]
      /\ worker'[d].at = worker[d].at /\ worker'[d].work = worker[d].work
  BY <1>1, <1>3 DEF NextChannel, EraseChannel, WorkerFields
<1>5. QED
  BY <1>2, <1>4, NothingSeen

-----------------------------------------------------------------------------
(* The plugin and the client.                                              *)

\* A step of the plugin in which the device and the subscription stay.
LEMMA PluginFollows ==
    ASSUME SubscriberIInv, state' = state, worker' = worker, subscriber' = subscriber
    PROVE  SubscriberIInv'
  BY DEF SubscriberIInv, Follows, AnnouncementDue

\* END in IDLE is announced at once.
LEMMA EndFollows ==
    ASSUME SubscriberIInv, NEW d \in Devices, state[d] = "IDLE", Enter(d, "EXITING"),
           Publish(d, <<"EXITING">>), worker' = worker
    PROVE  SubscriberIInv'
<1>1. DOMAIN worker = Devices /\ DOMAIN state = Devices /\ Follows(d)
  BY DEF SubscriberIInv
<1>2. DOMAIN state' = Devices /\ state'[d] = "EXITING" /\ \A e \in Devices \ {d} : state'[e] = state[e]
  BY <1>1 DEF Enter
<1>3. Only(d)
  BY <1>1, <1>2, PublishTells DEF Only
<1>4. subscriber'[d].told <=> subscriber[d].on
  BY <1>2, PublishTells, AnnouncedStates
<1>5. worker[d].work \in {"none"} \cup Long
  BY <1>1 DEF Follows
<1>6. Follows(d)'
  BY <1>1, <1>2, <1>4, <1>5, PublishTells, TransientStates DEF Follows, States, Long
<1>7. QED
  BY <1>3, <1>6, StepOfOne

\* The steps of a subscription: the client is inserted before the state is read.
LEMMA SubscriptionFollows ==
    ASSUME SubscriberIInv, NEW d \in Devices,
           Subscribe(d) \/ SubscribeReads(d) \/ SubscribeReplied(d) \/ Unsubscribe(d)
    PROVE  SubscriberIInv'
<1>1. /\ DOMAIN worker = Devices /\ DOMAIN state = Devices /\ DOMAIN subscriber = Devices /\ Follows(d)
      /\ DOMAIN subscriber[d] = SubscriberFields
  BY DEF SubscriberIInv, Follows
<1>2. state' = state /\ worker' = worker
  BY DEF Subscribe, SubscribeReads, SubscribeReplied, Unsubscribe, deviceVars
<1>3. SUFFICES Only(d) /\ Follows(d)'
  BY StepOfOne
<1>4. CASE Subscribe(d)
  <2>1. subscriber' = [subscriber EXCEPT ![d] = [Unsubscribed EXCEPT !.on = TRUE]]
    BY <1>4 DEF Subscribe
  <2>2. /\ DOMAIN subscriber'[d] = SubscriberFields /\ subscriber'[d].on
        /\ ~subscriber'[d].acked /\ subscriber'[d].read = "none"
    BY <1>1, <2>1 DEF Unsubscribed, SubscriberFields
  <2>3. QED
    BY <1>1, <1>2, <2>1, <2>2 DEF Only, Follows
<1>5. CASE SubscribeReads(d)
  <2>1. subscriber' = [subscriber EXCEPT ![d].read = state[d]] /\ ~subscriber[d].acked
    BY <1>5 DEF SubscribeReads
  <2>2. /\ DOMAIN subscriber'[d] = SubscriberFields /\ subscriber'[d].read = state[d]
        /\ subscriber'[d].acked = subscriber[d].acked
    BY <1>1, <2>1 DEF SubscriberFields
  <2>3. QED
    BY <1>1, <1>2, <2>1, <2>2 DEF Only, Follows
<1>6. CASE SubscribeReplied(d)
  <2>1. /\ subscriber' = [subscriber EXCEPT ![d].acked = TRUE, ![d].read = "none",
                                           ![d].told = @ \/ subscriber[d].read = state[d]]
        /\ subscriber[d].on /\ ~subscriber[d].acked /\ subscriber[d].read # "none"
    BY <1>6 DEF SubscribeReplied, Replying
  <2>2. /\ DOMAIN subscriber'[d] = SubscriberFields /\ subscriber'[d].on = subscriber[d].on
        /\ subscriber'[d].told <=> subscriber[d].told \/ subscriber[d].read = state[d]
    BY <1>1, <2>1 DEF SubscriberFields
  <2>3. QED
    BY <1>1, <1>2, <2>1, <2>2 DEF Only, Follows, AnnouncementDue
<1>7. CASE Unsubscribe(d)
  <2>1. subscriber' = [subscriber EXCEPT ![d] = Unsubscribed]
    BY <1>7 DEF Unsubscribe
  <2>2. DOMAIN subscriber'[d] = SubscriberFields /\ ~subscriber'[d].on /\ ~subscriber'[d].acked
    BY <1>1, <2>1 DEF Unsubscribed, SubscriberFields
  <2>3. QED
    BY <1>1, <1>2, <2>1, <2>2 DEF Only, Follows
<1>8. QED
  BY <1>4, <1>5, <1>6, <1>7

\* HandleControl changes the state only by a request.
LEMMA ControlFollows ==
    ASSUME SubscriberIInv, NEW d \in Devices, HandleControl(d)
    PROVE  SubscriberIInv'
<1>1. \/ \E event : Transition(d, event)
      \/ state' = state /\ worker' = worker /\ subscriber' = subscriber
  BY DEF HandleControl, InitDevice, WaitForNextState, ExchangeAddresses, RequestState, ControlEnds,
         deviceVars, clientVars
<1>2. QED
  BY <1>1, TransitionFollows, PluginFollows

\* So do the commands, but for END.
LEMMA CommandFollows ==
    ASSUME SubscriberIInv, NEW d \in Devices, Command(d)
    PROVE  SubscriberIInv'
<1>1. \/ \E event : Transition(d, event)
      \/ state[d] = "IDLE" /\ Enter(d, "EXITING") /\ Publish(d, <<"EXITING">>) /\ worker' = worker
  BY DEF Command, Callbacks
<1>2. QED
  BY <1>1, TransitionFollows, EndFollows

\* Before a client subscribes there is nothing to tell.
LEMMA SubscriberInit ==
    Init => SubscriberIInv
<1>1. SUFFICES ASSUME Init PROVE SubscriberIInv
  OBVIOUS
<1>2. DOMAIN state = Devices /\ DOMAIN worker = Devices /\ DOMAIN subscriber = Devices
  BY <1>1 DEF Init
<1>3. ASSUME NEW d \in Devices
      PROVE  Follows(d)
  <2>1. state[d] = "IDLE" /\ worker[d] = Idle /\ subscriber[d] = Unsubscribed
    BY <1>1 DEF Init
  <2>2. /\ DOMAIN worker[d] = WorkerFields /\ worker[d].at = "idle" /\ worker[d].work = "none"
        /\ DOMAIN subscriber[d] = SubscriberFields /\ ~subscriber[d].on /\ ~subscriber[d].acked
    BY <2>1 DEF Idle, Unsubscribed, WorkerFields, SubscriberFields
  <2>3. QED
    BY <2>1, <2>2, TransientStates DEF Follows, States, Long
<1>4. QED
  BY <1>2, <1>3 DEF SubscriberIInv

\* Every step keeps the inductive invariant.
LEMMA SubscriberNext ==
    SubscriberIInv /\ [Next]_vars => SubscriberIInv'
<1>1. SUFFICES ASSUME SubscriberIInv, [Next]_vars PROVE SubscriberIInv'
  OBVIOUS
<1>2. CASE UNCHANGED vars
  BY <1>1, <1>2, PluginFollows DEF vars, deviceVars, clientVars
<1>3. ASSUME NEW d \in Devices, Worker(d)
      PROVE  SubscriberIInv'
  <2>1. ASSUME InitWrapper(d)
        PROVE  SubscriberIInv'
    BY <1>1, <2>1, FillFollows, ExitFollows, AttachFollows, BindingDoneFollows, RetryFollows,
       InitWrapperReturnsFollows DEF InitWrapper, ValidateChannelExits
  <2>2. QED
    BY <1>1, <1>3, <2>1, TakeWorkFollows, HandlerDoneFollows, HandlerLeftFollows, ProcessWorkFollows DEF Worker
<1>4. ASSUME NEW d \in Devices, ReceiveUpdate(d) \/ SetProperty(d)
      PROVE  SubscriberIInv'
  BY <1>1, <1>4, PluginFollows DEF ReceiveUpdate, SetProperty, deviceVars, clientVars
<1>5. ASSUME NEW d \in Devices, SetChannelProperty(d)
      PROVE  SubscriberIInv'
  <2>1. Exit(d) \/ (state' = state /\ worker' = worker /\ subscriber' = subscriber)
    BY <1>5 DEF SetChannelProperty, clientVars
  <2>2. QED
    BY <1>1, <2>1, ExitFollows, PluginFollows
<1>6. QED
  BY <1>1, <1>2, <1>3, <1>4, <1>5, ControlFollows, CommandFollows, SubscriptionFollows DEF Next, DDSThread

\* An acknowledged client was told the state or will be.
LEMMA SubscriberIsTold ==
    SubscriberIInv => SubscriberKnowsState
  BY DEF SubscriberIInv, Follows, SubscriberKnowsState

\* In every topology and whatever a client commands, a client whose
\* subscription to state changes the DDS plugin has acknowledged was told the
\* state the device is in, or the worker is about to announce it: no change
\* falls between the reply and the notifications.
THEOREM SubscriberIsNotLeftBehind ==
    Spec => []SubscriberKnowsState
<1>1. QED
  BY SubscriberInit, SubscriberNext, SubscriberIsTold, PTL DEF Spec
=============================================================================
