----------------------------- MODULE ShmSession -----------------------------
(***************************************************************************)
(* The shared memory of a session (fairmq/shmem): the processes of its     *)
(* devices create, share and remove the main segment, the management       *)
(* segment and the named mutex (FairMQTransportFactorySHM, Manager), and   *)
(* fairmq-shmmonitor watches their heartbeats (Monitor).                   *)
(*                                                                         *)
(* A name refers to the object last created under it.  Removing a name     *)
(* leaves the object to the processes that have opened it, and the next    *)
(* open_or_create makes a new object: objects of a kind are numbered.      *)
(***************************************************************************)
EXTENDS Integers, FiniteSets

CONSTANTS
    Devices,            \* processes with a shared memory transport
    Monitors,           \* processes of fairmq-shmmonitor
    CrashesAllowed      \* may a device die at any point?

ASSUME SessionAssumption ==
    /\ IsFiniteSet(Devices)
    /\ IsFiniteSet(Monitors)
    /\ Devices \cap Monitors = {}
    /\ CrashesAllowed \in BOOLEAN

Kinds == {"main", "mng", "mtx", "cq"}

\* Bound: no process creates two objects of a kind.
Objects == 1 .. Cardinality(Devices \cup Monitors)

VARIABLES
    name,           \* the object each name refers to, 0 for none
    made,           \* objects of each kind made so far
    fCount,         \* the DeviceCounter in each main segment, NoCounter before
    locked,         \* the mutexes that are locked
    status,         \* the management segments with a MonitorStatus
    heartbeats,     \* the control queues with a heartbeat in them
    pc,             \* where each device and each monitor is
    opened,         \* the objects each process has opened
    fHeartbeatTriggered, fSeenOnce,
    silence         \* timeouts since the last heartbeat, 2 for more

sharedVars == <<name, made, fCount, locked, status, heartbeats>>
monitorVars == <<fHeartbeatTriggered, fSeenOnce, silence>>
vars == <<sharedVars, pc, opened, monitorVars>>

\* A value that no counter reaches.
NoCounter == Cardinality(Devices) + 1

Init ==
    /\ name = [k \in Kinds |-> 0]
    /\ made = [k \in Kinds |-> 0]
    /\ fCount = [o \in Objects |-> NoCounter]
    /\ locked = {}
    /\ status = {}
    /\ heartbeats = {}
    /\ pc = [p \in Devices \cup Monitors |-> "off"]
    /\ opened = [p \in Devices \cup Monitors |-> [k \in Kinds |-> 0]]
    /\ fHeartbeatTriggered = [m \in Monitors |-> FALSE]
    /\ fSeenOnce = [m \in Monitors |-> FALSE]
    /\ silence = [m \in Monitors |-> 0]

Goto(p, from, to) == pc[p] = from /\ pc' = [pc EXCEPT ![p] = to]

\* open_or_create
OpenOrCreate(p, k) ==
    LET o == IF name[k] = 0 THEN made[k] + 1 ELSE name[k] IN
    /\ name' = [name EXCEPT ![k] = o]
    /\ made' = [made EXCEPT ![k] = IF @ < o THEN o ELSE @]
    /\ opened' = [opened EXCEPT ![p][k] = o]

Remove(k) == name' = [name EXCEPT ![k] = 0]

-----------------------------------------------------------------------------
(* A device: the constructor of FairMQTransportFactorySHM.                 *)

OpenMutex(d) ==
    /\ Goto(d, "off", "openMain")
    /\ OpenOrCreate(d, "mtx")
    /\ UNCHANGED <<fCount, locked, status, heartbeats, monitorVars>>

OpenSegment(d) ==
    /\ Goto(d, "openMain", "openManagement")
    /\ OpenOrCreate(d, "main")
    /\ UNCHANGED <<fCount, locked, status, heartbeats, monitorVars>>

OpenManagementSegment(d) ==
    /\ Goto(d, "openManagement", "lock")
    /\ OpenOrCreate(d, "mng")
    /\ UNCHANGED <<fCount, locked, status, heartbeats, monitorVars>>

Lock(d, from, to) ==
    /\ Goto(d, from, to)
    /\ opened[d]["mtx"] \notin locked
    /\ locked' = locked \cup {opened[d]["mtx"]}
    /\ UNCHANGED <<name, made, fCount, status, heartbeats, opened, monitorVars>>

\* Two devices that have opened different mutexes may both find no counter; the
\* second one fails to construct it.
FindCounter(d) ==
    /\ Goto(d, "find", IF fCount[opened[d]["main"]] = NoCounter THEN "construct" ELSE "increment")
    /\ UNCHANGED <<sharedVars, opened, monitorVars>>

\* Variant: a counter that is found is not incremented.
JustFound(d) ==
    /\ pc[d] = "increment"
    /\ pc' = [pc EXCEPT ![d] = "launch"]
    /\ UNCHANGED <<sharedVars, opened, monitorVars>>

Increment(d) ==
    /\ Goto(d, "increment", "launch")
    /\ fCount' = [fCount EXCEPT ![opened[d]["main"]] = @ + 1]
    /\ UNCHANGED <<name, made, locked, status, heartbeats, opened, monitorVars>>

Construct(d) ==
    /\ Goto(d, "construct", "launch")
    /\ fCount[opened[d]["main"]] = NoCounter
    /\ fCount' = [fCount EXCEPT ![opened[d]["main"]] = 1]
    /\ UNCHANGED <<name, made, locked, status, heartbeats, opened, monitorVars>>

Unlock(d) == locked' = locked \ {opened[d]["mtx"]}

ConstructFails(d) ==
    /\ Goto(d, "construct", "failed")
    /\ fCount[opened[d]["main"]] # NoCounter
    /\ Unlock(d)
    /\ UNCHANGED <<name, made, fCount, status, heartbeats, opened, monitorVars>>

\* A monitor is launched unless one has left its status; the mutex is held until
\* its status appears.
StartMonitor(d) ==
    /\ opened[d]["mng"] \notin status
    /\ \E m \in Monitors :
          /\ pc[d] = "launch" /\ pc[m] = "off"
          /\ pc' = [pc EXCEPT ![d] = "await", ![m] = "start"]
    /\ UNCHANGED <<sharedVars, opened, monitorVars>>

\* The monitor has answered; or there is one already, the option shm-monitor is
\* off, or there is no program fairmq-shmmonitor in the path.
Started(d) ==
    /\ \/ Goto(d, "await", "running") /\ opened[d]["mng"] \in status
       \/ Goto(d, "launch", "running")
    /\ Unlock(d)
    /\ UNCHANGED <<name, made, fCount, status, heartbeats, opened, monitorVars>>

\* No answer from the monitor for ten seconds: exit, with the mutex locked.
NoResponse(d) ==
    /\ opened[d]["mng"] \notin status
    /\ \A m \in Monitors : pc[m] # "start"
    /\ Goto(d, "await", "dead")
    /\ UNCHANGED <<sharedVars, opened, monitorVars>>

SendHeartbeats(d) ==
    /\ pc[d] = "running"
    /\ name["cq"] # 0
    /\ heartbeats' = heartbeats \cup {name["cq"]}
    /\ UNCHANGED <<name, made, fCount, locked, status, pc, opened, monitorVars>>

-----------------------------------------------------------------------------
(* Its destructor.                                                         *)

Stop(d) ==
    /\ Goto(d, "running", "relock")
    /\ UNCHANGED <<sharedVars, opened, monitorVars>>

Decrement(d) ==
    /\ Goto(d, "decrement", "test")
    /\ fCount' = [fCount EXCEPT ![opened[d]["main"]] = @ - 1]
    /\ UNCHANGED <<name, made, locked, status, heartbeats, opened, monitorVars>>

OthersPresent(d) ==
    /\ Goto(d, "test", "gone")
    /\ fCount[opened[d]["main"]] # 0
    /\ Unlock(d)
    /\ UNCHANGED <<name, made, fCount, status, heartbeats, opened, monitorVars>>

\* Manager::RemoveSegment removes two names.
RemoveSegment(d) ==
    /\ Goto(d, "test", "removeManagement")
    /\ fCount[opened[d]["main"]] = 0
    /\ Remove("main")
    /\ UNCHANGED <<made, fCount, locked, status, heartbeats, opened, monitorVars>>

\* Variant: the management segment stays.
KeepManagementSegment(d) ==
    /\ Goto(d, "removeManagement", "removeMutex")
    /\ Unlock(d)
    /\ UNCHANGED <<name, made, fCount, status, heartbeats, opened, monitorVars>>

RemoveManagementSegment(d) ==
    /\ Goto(d, "removeManagement", "removeMutex")
    /\ Remove("mng")
    /\ Unlock(d)
    /\ UNCHANGED <<made, fCount, status, heartbeats, opened, monitorVars>>

RemoveMutex(d) ==
    /\ Goto(d, "removeMutex", "gone")
    /\ Remove("mtx")
    /\ UNCHANGED <<made, fCount, locked, status, heartbeats, opened, monitorVars>>

\* A crash leaves everything as it is, a locked mutex included.
Crash(d) ==
    /\ CrashesAllowed
    /\ pc[d] \notin {"off", "gone", "failed", "dead"}
    /\ pc' = [pc EXCEPT ![d] = "dead"]
    /\ UNCHANGED <<sharedVars, opened, monitorVars>>

-----------------------------------------------------------------------------
(* The monitor, as devices launch it: --self-destruct and --daemonize.     *)

\* The constructor: a status that is there already makes the monitor exit.
MonitorStarts(m) ==
    /\ OpenOrCreate(m, "mng")
    /\ IF opened'[m]["mng"] \in status
       THEN Goto(m, "start", "gone") /\ UNCHANGED status
       ELSE Goto(m, "start", "removeQueue") /\ status' = status \cup {opened'[m]["mng"]}
    /\ UNCHANGED <<fCount, locked, heartbeats, monitorVars>>

MonitorRemovesOldQueue(m) ==
    /\ Goto(m, "removeQueue", "openQueue")
    /\ Remove("cq")
    /\ UNCHANGED <<made, fCount, locked, status, heartbeats, opened, monitorVars>>

MonitorHeartbeats(m) ==
    /\ Goto(m, "openQueue", "running")
    /\ OpenOrCreate(m, "cq")
    /\ UNCHANGED <<fCount, locked, status, heartbeats, monitorVars>>

ReceiveHeartbeat(m) ==
    /\ pc[m] \in {"running", "cleanMng", "cleanMain", "cleanMtx"}
    /\ opened[m]["cq"] \in heartbeats
    /\ heartbeats' = heartbeats \ {opened[m]["cq"]}
    /\ fHeartbeatTriggered' = [fHeartbeatTriggered EXCEPT ![m] = TRUE]
    /\ silence' = [silence EXCEPT ![m] = 0]
    /\ UNCHANGED <<name, made, fCount, locked, status, pc, opened, fSeenOnce>>

\* The timeout passes without a heartbeat.
Timeout(m) ==
    /\ pc[m] = "running"
    /\ opened[m]["cq"] \notin heartbeats
    /\ silence[m] < 2
    /\ silence' = [silence EXCEPT ![m] = @ + 1]
    /\ UNCHANGED <<sharedVars, pc, opened, fHeartbeatTriggered, fSeenOnce>>

\* Variant: the monitor does not look at the time.
CheckSegmentIgnoringTime(m) ==
    /\ name["main"] # 0
    /\ Goto(m, "running", "running")
    /\ fSeenOnce' = [fSeenOnce EXCEPT ![m] = TRUE]
    /\ UNCHANGED <<sharedVars, opened, fHeartbeatTriggered, silence>>

\* CheckSegment finds the segment.
CheckSegment(m) ==
    /\ name["main"] # 0
    /\ Goto(m, "running", IF fHeartbeatTriggered[m] /\ silence[m] > 0 THEN "cleanMng" ELSE "running")
    /\ fSeenOnce' = [fSeenOnce EXCEPT ![m] = TRUE]
    /\ UNCHANGED <<sharedVars, opened, fHeartbeatTriggered, silence>>

\* CheckSegment does not find the segment.
CheckNoSegment(m) ==
    /\ name["main"] = 0
    /\ Goto(m, "running", IF silence[m] > 1 THEN "cleanMng"
                          ELSE IF fSeenOnce[m] THEN "closeQueue" ELSE "running")
    /\ fHeartbeatTriggered' = [fHeartbeatTriggered EXCEPT ![m] = FALSE]
    /\ UNCHANGED <<sharedVars, opened, fSeenOnce, silence>>

\* Cleanup removes three names, then the monitor ends.
Cleanup(m) ==
    /\ \/ Goto(m, "cleanMng", "cleanMain") /\ Remove("mng") /\ UNCHANGED fHeartbeatTriggered
       \/ Goto(m, "cleanMain", "cleanMtx") /\ Remove("main") /\ UNCHANGED fHeartbeatTriggered
       \/ /\ Goto(m, "cleanMtx", "closeQueue")
          /\ Remove("mtx")
          /\ fHeartbeatTriggered' = [fHeartbeatTriggered EXCEPT ![m] = FALSE]
    /\ UNCHANGED <<made, fCount, locked, status, heartbeats, opened, fSeenOnce, silence>>

MonitorClosesQueue(m) ==
    /\ Goto(m, "closeQueue", "destroy")
    /\ Remove("cq")
    /\ UNCHANGED <<made, fCount, locked, status, heartbeats, opened, monitorVars>>

MonitorEnds(m) ==
    /\ Goto(m, "destroy", "gone")
    /\ status' = status \ {opened[m]["mng"]}
    /\ UNCHANGED <<name, made, fCount, locked, heartbeats, opened, monitorVars>>

-----------------------------------------------------------------------------
Starting(d) ==
    \/ OpenMutex(d) \/ OpenSegment(d) \/ OpenManagementSegment(d) \/ Lock(d, "lock", "find")
    \/ FindCounter(d) \/ Increment(d) \/ Construct(d) \/ ConstructFails(d)
    \/ StartMonitor(d) \/ Started(d) \/ NoResponse(d)

Stopping(d) ==
    \/ Lock(d, "relock", "decrement") \/ Decrement(d) \/ OthersPresent(d)
    \/ RemoveSegment(d) \/ RemoveManagementSegment(d) \/ RemoveMutex(d)

MonitorStep(m) ==
    \/ MonitorStarts(m) \/ MonitorRemovesOldQueue(m) \/ MonitorHeartbeats(m)
    \/ CheckSegment(m) \/ CheckNoSegment(m) \/ Cleanup(m)
    \/ MonitorClosesQueue(m) \/ MonitorEnds(m)

Next ==
    \/ \E d \in Devices : Starting(d) \/ SendHeartbeats(d) \/ Stop(d) \/ Stopping(d) \/ Crash(d)
    \/ \E m \in Monitors : MonitorStep(m) \/ ReceiveHeartbeat(m) \/ Timeout(m)

Spec == Init /\ [][Next]_vars

\* The threads of a monitor run and its clock ticks.
Fairness ==
    \A m \in Monitors :
        /\ WF_vars(MonitorStep(m))
        /\ WF_vars(ReceiveHeartbeat(m))
        /\ WF_vars(Timeout(m))

LiveSpec == Spec /\ Fairness

-----------------------------------------------------------------------------
(* Properties.                                                             *)

Counted == {"launch", "await", "running", "relock", "decrement"}

\* A segment's counter is never below the number of devices that use it, even
\* when they have locked different mutexes: no device that counts itself loses
\* its segment because of the counter.
NeverUndercounts ==
    \A o \in Objects :
        fCount[o] # NoCounter =>
            fCount[o] >= Cardinality({d \in Devices : opened[d]["main"] = o /\ pc[d] \in Counted})

\* When every device has ended regularly, however their starts and ends
\* overlapped, they have removed all that they created.
NoLeak ==
    (\A d \in Devices : pc[d] \in {"off", "gone", "failed"}) =>
        \A k \in {"main", "mng", "mtx"} : name[k] = 0

Alive(d) == pc[d] \notin {"off", "gone", "failed", "dead"}

\* A segment that no living device uses is removed by a monitor that has heard of
\* its devices, or a device comes.
AbandonedCleanedUp ==
    (\E m \in Monitors : pc[m] = "running" /\ fHeartbeatTriggered[m]) ~>
        (name["main"] = 0 \/ \E d \in Devices : Alive(d))
=============================================================================
