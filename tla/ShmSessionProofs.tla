-------------------------- MODULE ShmSessionProofs --------------------------
(***************************************************************************)
(* The device counter of a session, for any number of devices and          *)
(* monitors, with and without crashes.                                     *)
(***************************************************************************)
EXTENDS ShmSession, FiniteSetTheorems, TLAPS

\* Devices that have counted themselves in segment o and not withdrawn.
Users(o) == {d \in Devices : opened[d]["main"] = o /\ pc[d] \in Counted}

\* Devices that have not reached the counter yet, and those that have.
Uncounted == {"off", "openMain", "openManagement", "lock", "find", "increment", "construct"}
Past == {d \in Devices : pc[d] \notin Uncounted}

\* A device that is about to increment has found a counter.
FoundInv ==
    \A d \in Devices :
        pc[d] = "increment" /\ opened[d]["main"] \in Objects => fCount[opened[d]["main"]] # NoCounter

\* A counter lies between the number of its users and the number of devices that have
\* got as far as the counter: it never reaches NoCounter, and without a counter
\* there are no users.
CounterInv ==
    \A o \in Objects :
        /\ fCount[o] = NoCounter => Users(o) = {}
        /\ fCount[o] # NoCounter => /\ Cardinality(Users(o)) <= fCount[o]
                                    /\ fCount[o] <= Cardinality(Past)

\* Where a device or a monitor can be.
Places ==
    Uncounted \cup Counted
    \cup {"test", "removeManagement", "removeMutex", "gone", "failed", "dead"}
    \cup {"start", "removeQueue", "openQueue", "cleanMng", "cleanMain", "cleanMtx", "closeQueue", "destroy"}

\* The part of the types that the argument needs; a counter does not fall below 0.
CounterTypes ==
    /\ fCount \in [Objects -> Nat]
    /\ name \in [Kinds -> Nat]
    /\ made \in [Kinds -> Nat]
    /\ pc \in [Devices \cup Monitors -> Places]
    /\ opened \in [Devices \cup Monitors -> [Kinds -> Nat]]

SessionIInv == CounterTypes /\ FoundInv /\ CounterInv

-----------------------------------------------------------------------------
(* Cardinalities.                                                          *)

\* Users of a segment and the devices past the counter are sets of devices: finite,
\* and at most as many as there are devices.
LEMMA Finite ==
    /\ Cardinality(Devices) \in Nat
    /\ \A S \in SUBSET Devices : IsFiniteSet(S) /\ Cardinality(S) \in Nat /\ Cardinality(S) <= Cardinality(Devices)
    /\ \A S, T \in SUBSET Devices : S \subseteq T => Cardinality(S) <= Cardinality(T)
BY SessionAssumption, FS_CardinalityType, FS_Subset

\* One device more, and one less.
LEMMA OneMore ==
    ASSUME NEW S \in SUBSET Devices, NEW d \in Devices
    PROVE  /\ d \notin S => Cardinality(S \cup {d}) = Cardinality(S) + 1
           /\ d \in S => Cardinality(S \ {d}) = Cardinality(S) - 1
           /\ Cardinality({d}) = 1
           /\ Cardinality({}) = 0
BY Finite, FS_AddElement, FS_RemoveElement, FS_Singleton, FS_EmptySet

\* A step that changes no counter, adds no user and takes nobody back to before the
\* counter keeps CounterInv: most steps of devices, crashes, and all steps of monitors.
LEMMA QuietStep ==
    ASSUME SessionIInv, fCount' = fCount,
           \A o \in Objects : Users(o)' \subseteq Users(o),
           Past \subseteq Past'
    PROVE  CounterInv'
<1>1. /\ Past \in SUBSET Devices /\ Past' \in SUBSET Devices
      /\ \A o \in Objects : Users(o) \in SUBSET Devices /\ Users(o)' \in SUBSET Devices
  BY DEF Past, Users
<1>2. Cardinality(Past) <= Cardinality(Past') /\ Cardinality(Past) \in Nat /\ Cardinality(Past') \in Nat
  BY <1>1, Finite
<1>3. \A o \in Objects :
        /\ Cardinality(Users(o)') <= Cardinality(Users(o))
        /\ Cardinality(Users(o)') \in Nat /\ Cardinality(Users(o)) \in Nat
  BY <1>1, Finite
<1>4. SUFFICES ASSUME NEW o \in Objects
               PROVE  /\ fCount[o] = NoCounter => Users(o)' = {}
                      /\ fCount[o] # NoCounter => /\ Cardinality(Users(o)') <= fCount[o]
                                                  /\ fCount[o] <= Cardinality(Past')
  BY DEF CounterInv, NoCounter, Objects
<1>5. fCount[o] \in Nat
  BY DEF SessionIInv, CounterTypes
<1>6. fCount[o] = NoCounter => Users(o)' = {}
  BY DEF SessionIInv, CounterInv
<1>7. ASSUME fCount[o] # NoCounter
      PROVE  Cardinality(Users(o)') <= fCount[o] /\ fCount[o] <= Cardinality(Past')
  <2>1. Cardinality(Users(o)) <= fCount[o] /\ fCount[o] <= Cardinality(Past)
    BY <1>7 DEF SessionIInv, CounterInv
  <2>2. QED
    BY <2>1, <1>2, <1>3, <1>5
<1>8. QED
  BY <1>6, <1>7

-----------------------------------------------------------------------------
(* The three steps that write a counter.                                   *)

\* The objects that have a counter are numbers, and so is NoCounter.
LEMMA NoCounterType == NoCounter \in Nat /\ NoCounter > Cardinality(Devices)
BY Finite DEF NoCounter

\* A device that counts itself in is a new user of its segment; the counter has room,
\* because every device increments once.
LEMMA IncrementStep ==
    ASSUME SessionIInv, NEW d \in Devices, Increment(d)
    PROVE  SessionIInv'
<1> DEFINE s == opened[d]["main"]
<1>1. /\ pc[d] = "increment" /\ pc' = [pc EXCEPT ![d] = "launch"] /\ opened' = opened
      /\ fCount' = [fCount EXCEPT ![s] = @ + 1] /\ name' = name /\ made' = made
  BY DEF Increment, Goto
<1>2. CounterTypes /\ FoundInv /\ CounterInv
  BY DEF SessionIInv
<1>3. CounterTypes'
  <2>1. fCount' \in [Objects -> Nat]
    <3>1. CASE s \in Objects
      BY <1>1, <1>2, <3>1 DEF CounterTypes
    <3>2. CASE s \notin Objects
      BY <1>1, <1>2, <3>2 DEF CounterTypes
    <3>3. QED
      BY <3>1, <3>2
  <2>2. pc' \in [Devices \cup Monitors -> Places]
    BY <1>1, <1>2 DEF CounterTypes, Places, Counted
  <2>3. QED
    BY <1>1, <1>2, <2>1, <2>2 DEF CounterTypes, Objects
<1>4. /\ Past \in SUBSET Devices /\ d \notin Past /\ Past' = Past \cup {d}
      /\ \A o \in Objects : Users(o) \in SUBSET Devices /\ d \notin Users(o)
      /\ \A o \in Objects : Users(o)' = IF o = s THEN Users(o) \cup {d} ELSE Users(o)
  BY <1>1, <1>2 DEF CounterTypes, Past, Users, Uncounted, Counted
<1>5. /\ Cardinality(Past') = Cardinality(Past) + 1 /\ Cardinality(Past) \in Nat
      /\ Cardinality(Past') <= Cardinality(Devices)
  BY <1>4, Finite, OneMore
<1>6. \A o \in Objects :
        /\ Cardinality(Users(o)) \in Nat
        /\ Cardinality(Users(o)') = IF o = s THEN Cardinality(Users(o)) + 1 ELSE Cardinality(Users(o))
  BY <1>4, Finite, OneMore
<1>7. \A o \in Objects : fCount[o] \in Nat /\ fCount'[o] = IF o = s THEN fCount[o] + 1 ELSE fCount[o]
  BY <1>1, <1>2 DEF CounterTypes
<1>8. s \in Objects => fCount[s] # NoCounter
  BY <1>1, <1>2 DEF FoundInv
<1>9. ASSUME NEW o \in Objects
      PROVE  /\ fCount'[o] = NoCounter <=> fCount[o] = NoCounter
             /\ fCount'[o] = NoCounter => Users(o)' = {}
             /\ fCount'[o] # NoCounter => /\ Cardinality(Users(o)') <= fCount'[o]
                                          /\ fCount'[o] <= Cardinality(Past')
  <2>1. CASE o = s
    <3>1. fCount[o] # NoCounter /\ fCount[o] <= Cardinality(Past) /\ Cardinality(Users(o)) <= fCount[o]
      BY <2>1, <1>8, <1>2, <1>9 DEF CounterInv
    <3>2. fCount'[o] # NoCounter
      BY <3>1, <2>1, <1>5, <1>7, <1>9, NoCounterType, Finite
    <3>3. QED
      BY <3>1, <3>2, <2>1, <1>5, <1>6, <1>7, <1>9
  <2>2. CASE o # s
    <3>1. fCount'[o] = fCount[o] /\ Users(o)' = Users(o)
      BY <2>2, <1>4, <1>7, <1>9
    <3>2. fCount[o] # NoCounter => fCount[o] <= Cardinality(Past) /\ Cardinality(Users(o)) <= fCount[o]
      BY <1>2, <1>9 DEF CounterInv
    <3>3. fCount[o] = NoCounter => Users(o) = {}
      BY <1>2, <1>9 DEF CounterInv
    <3>4. QED
      BY <3>1, <3>2, <3>3, <1>5, <1>6, <1>7, <1>9
  <2>3. QED
    BY <2>1, <2>2
<1>10. CounterInv'
  BY <1>9 DEF CounterInv, NoCounter, Objects
<1>11. FoundInv'
  BY <1>1, <1>2, <1>9 DEF FoundInv, CounterTypes, NoCounter, Objects
<1>12. QED
  BY <1>3, <1>10, <1>11 DEF SessionIInv

\* The device that constructs the counter is its only user: without a counter there
\* was none.
LEMMA ConstructStep ==
    ASSUME SessionIInv, NEW d \in Devices, Construct(d)
    PROVE  SessionIInv'
<1> DEFINE s == opened[d]["main"]
<1>1. /\ pc[d] = "construct" /\ pc' = [pc EXCEPT ![d] = "launch"] /\ opened' = opened
      /\ fCount[s] = NoCounter
      /\ fCount' = [fCount EXCEPT ![s] = 1] /\ name' = name /\ made' = made
  BY DEF Construct, Goto
<1>2. CounterTypes /\ FoundInv /\ CounterInv
  BY DEF SessionIInv
<1>3. CounterTypes'
  <2>1. fCount' \in [Objects -> Nat]
    BY <1>1, <1>2 DEF CounterTypes
  <2>2. pc' \in [Devices \cup Monitors -> Places]
    BY <1>1, <1>2 DEF CounterTypes, Places, Counted
  <2>3. QED
    BY <1>1, <1>2, <2>1, <2>2 DEF CounterTypes, Objects
<1>4. /\ Past \in SUBSET Devices /\ d \notin Past /\ Past' = Past \cup {d}
      /\ \A o \in Objects : Users(o) \in SUBSET Devices
      /\ \A o \in Objects : Users(o)' = IF o = s THEN Users(o) \cup {d} ELSE Users(o)
  BY <1>1, <1>2 DEF CounterTypes, Past, Users, Uncounted, Counted
<1>5. /\ Cardinality(Past') = Cardinality(Past) + 1 /\ Cardinality(Past) \in Nat
      /\ Cardinality(Past') <= Cardinality(Devices)
  BY <1>4, Finite, OneMore
<1>6. \A o \in Objects : fCount[o] \in Nat /\ fCount'[o] = IF o = s THEN 1 ELSE fCount[o]
  BY <1>1, <1>2 DEF CounterTypes
<1>7. ASSUME NEW o \in Objects
      PROVE  /\ fCount'[o] = NoCounter => Users(o)' = {} /\ fCount[o] = NoCounter
             /\ fCount'[o] # NoCounter => /\ Cardinality(Users(o)') <= fCount'[o]
                                          /\ fCount'[o] <= Cardinality(Past')
  <2>1. CASE o = s
    <3>1. Users(o)' = {d}
      BY <2>1, <1>1, <1>2, <1>4, <1>7 DEF CounterInv
    <3>2. Cardinality(Users(o)') = 1
      BY <3>1, OneMore
    <3>3. fCount'[o] = 1 /\ 1 # NoCounter
      BY <2>1, <1>5, <1>6, <1>7, NoCounterType, Finite
    <3>4. QED
      BY <3>2, <3>3, <1>5
  <2>2. CASE o # s
    <3>1. fCount'[o] = fCount[o] /\ Users(o)' = Users(o)
      BY <2>2, <1>4, <1>6, <1>7
    <3>2. fCount[o] # NoCounter => fCount[o] <= Cardinality(Past) /\ Cardinality(Users(o)) <= fCount[o]
      BY <1>2, <1>7 DEF CounterInv
    <3>3. fCount[o] = NoCounter => Users(o) = {}
      BY <1>2, <1>7 DEF CounterInv
    <3>4. QED
      BY <3>1, <3>2, <3>3, <1>5, <1>6, <1>7
  <2>3. QED
    BY <2>1, <2>2
<1>8. CounterInv'
  BY <1>7 DEF CounterInv, NoCounter, Objects
<1>9. FoundInv'
  BY <1>1, <1>2, <1>7 DEF FoundInv, CounterTypes, NoCounter, Objects
<1>10. QED
  BY <1>3, <1>8, <1>9 DEF SessionIInv

\* A device that counts itself out was a user, so the counter is not 0 and does not wrap.
LEMMA DecrementStep ==
    ASSUME SessionIInv, NEW d \in Devices, Decrement(d)
    PROVE  SessionIInv'
<1> DEFINE s == opened[d]["main"]
<1>1. /\ pc[d] = "decrement" /\ pc' = [pc EXCEPT ![d] = "test"] /\ opened' = opened
      /\ fCount' = [fCount EXCEPT ![s] = @ - 1] /\ name' = name /\ made' = made
  BY DEF Decrement, Goto
<1>2. CounterTypes /\ FoundInv /\ CounterInv
  BY DEF SessionIInv
<1>3. /\ Past \in SUBSET Devices /\ Past' = Past
      /\ \A o \in Objects : Users(o) \in SUBSET Devices
      /\ \A o \in Objects : Users(o)' = IF o = s THEN Users(o) \ {d} ELSE Users(o)
      /\ s \in Objects => d \in Users(s)
  BY <1>1, <1>2 DEF CounterTypes, Past, Users, Uncounted, Counted
<1>4. Cardinality(Past) \in Nat /\ Cardinality(Past) <= Cardinality(Devices)
  BY <1>3, Finite
<1>5. \A o \in Objects :
        /\ Cardinality(Users(o)) \in Nat
        /\ Cardinality(Users(o)') \in Nat
        /\ Cardinality(Users(o)') = IF o = s THEN Cardinality(Users(o)) - 1 ELSE Cardinality(Users(o))
  BY <1>3, Finite, OneMore
<1>6. s \in Objects => /\ fCount[s] # NoCounter /\ fCount[s] \in Nat /\ fCount[s] > 0
                       /\ Cardinality(Users(s)) <= fCount[s] /\ fCount[s] <= Cardinality(Past)
  <2>1. ASSUME s \in Objects PROVE fCount[s] # NoCounter /\ fCount[s] \in Nat
    BY <2>1, <1>2, <1>3 DEF CounterInv, CounterTypes
  <2>2. ASSUME s \in Objects
        PROVE  Cardinality(Users(s)) <= fCount[s] /\ fCount[s] <= Cardinality(Past)
    BY <2>1, <2>2, <1>2 DEF CounterInv
  <2>3. QED
    BY <2>1, <2>2, <1>5
<1>7. CounterTypes'
  <2>1. fCount' \in [Objects -> Nat]
    <3>1. CASE s \in Objects
      <4>1. fCount[s] - 1 \in Nat
        BY <3>1, <1>6
      <4>2. QED
        BY <1>1, <1>2, <3>1, <4>1 DEF CounterTypes
    <3>2. CASE s \notin Objects
      BY <1>1, <1>2, <3>2 DEF CounterTypes
    <3>3. QED
      BY <3>1, <3>2
  <2>2. pc' \in [Devices \cup Monitors -> Places]
    BY <1>1, <1>2 DEF CounterTypes, Places
  <2>3. QED
    BY <1>1, <1>2, <2>1, <2>2 DEF CounterTypes, Objects
<1>8. \A o \in Objects : fCount[o] \in Nat /\ fCount'[o] = IF o = s THEN fCount[o] - 1 ELSE fCount[o]
  BY <1>1, <1>2 DEF CounterTypes
<1>9. ASSUME NEW o \in Objects
      PROVE  /\ fCount'[o] = NoCounter => Users(o)' = {} /\ fCount[o] = NoCounter
             /\ fCount'[o] # NoCounter => /\ Cardinality(Users(o)') <= fCount'[o]
                                          /\ fCount'[o] <= Cardinality(Past')
  <2>1. CASE o = s
    <3>1. fCount'[o] # NoCounter
      BY <2>1, <1>4, <1>6, <1>8, <1>9, NoCounterType, Finite
    <3>2. QED
      BY <3>1, <2>1, <1>3, <1>4, <1>5, <1>6, <1>8, <1>9
  <2>2. CASE o # s
    <3>1. fCount'[o] = fCount[o] /\ Users(o)' = Users(o) /\ Past' = Past
      BY <2>2, <1>3, <1>8, <1>9
    <3>2. QED
      BY <3>1, <1>2, <1>9 DEF CounterInv
  <2>3. QED
    BY <2>1, <2>2
<1>10. CounterInv'
  BY <1>9 DEF CounterInv, NoCounter, Objects
<1>11. FoundInv'
  BY <1>1, <1>2, <1>9 DEF FoundInv, CounterTypes, NoCounter, Objects
<1>12. QED
  BY <1>7, <1>10, <1>11 DEF SessionIInv

-----------------------------------------------------------------------------
(* The steps that leave the counters alone.                                *)

\* Opening changes what this process has opened of this kind, nothing else.
LEMMA OpenTypes ==
    ASSUME CounterTypes, NEW p \in Devices \cup Monitors, NEW k \in Kinds, OpenOrCreate(p, k)
    PROVE  /\ name' \in [Kinds -> Nat] /\ made' \in [Kinds -> Nat]
           /\ opened' \in [Devices \cup Monitors -> [Kinds -> Nat]]
           /\ \A q \in Devices \cup Monitors :
                 q # p \/ k # "main" => opened'[q]["main"] = opened[q]["main"]
<1> DEFINE o == IF name[k] = 0 THEN made[k] + 1 ELSE name[k]
<1>1. name[k] \in Nat /\ made[k] \in Nat /\ o \in Nat
  BY DEF CounterTypes
<1>2. /\ name' = [name EXCEPT ![k] = o]
      /\ made' = [made EXCEPT ![k] = IF @ < o THEN o ELSE @]
      /\ opened' = [opened EXCEPT ![p][k] = o]
  BY DEF OpenOrCreate
<1> HIDE DEF o
<1>3. name' \in [Kinds -> Nat] /\ made' \in [Kinds -> Nat]
  BY <1>1, <1>2 DEF CounterTypes
<1>4. opened' \in [Devices \cup Monitors -> [Kinds -> Nat]]
  BY <1>1, <1>2 DEF CounterTypes
<1>5. ASSUME NEW q \in Devices \cup Monitors, q # p \/ k # "main"
      PROVE  opened'[q]["main"] = opened[q]["main"]
  BY <1>2, <1>5 DEF CounterTypes, Kinds
<1>6. QED
  BY <1>3, <1>4, <1>5

\* A device that moves on without writing a counter: it neither becomes a user nor goes
\* back, and it goes to increment only what it has found.
LEMMA DeviceMoves ==
    ASSUME SessionIInv, CounterTypes', fCount' = fCount, NEW d \in Devices,
           \A q \in Devices \ {d} : pc'[q] = pc[q] /\ opened'[q]["main"] = opened[q]["main"],
           pc'[d] \in Uncounted => pc[d] \in Uncounted,
           pc'[d] \in Counted => pc[d] \in Counted /\ opened'[d]["main"] = opened[d]["main"],
           pc'[d] = "increment" => fCount[opened'[d]["main"]] # NoCounter
    PROVE  SessionIInv'
<1>1. \A o \in Objects : Users(o)' \subseteq Users(o)
  BY DEF Users, Objects
<1>2. Past \subseteq Past'
  BY DEF Past
<1>3. CounterInv'
  BY <1>1, <1>2, QuietStep
<1>4. FoundInv'
  BY DEF SessionIInv, FoundInv, NoCounter, Objects
<1>5. QED
  BY <1>3, <1>4 DEF SessionIInv

\* A step that no device takes and that opens nothing for one.
LEMMA DevicesRest ==
    ASSUME SessionIInv, CounterTypes', fCount' = fCount,
           \A q \in Devices : pc'[q] = pc[q] /\ opened'[q]["main"] = opened[q]["main"]
    PROVE  SessionIInv'
<1>1. \A o \in Objects : Users(o)' \subseteq Users(o)
  BY DEF Users, Objects
<1>2. Past \subseteq Past'
  BY DEF Past
<1>3. CounterInv'
  BY <1>1, <1>2, QuietStep
<1>4. FoundInv'
  BY DEF SessionIInv, FoundInv, NoCounter, Objects
<1>5. QED
  BY <1>3, <1>4 DEF SessionIInv

\* The steps of a device in its constructor.
LEMMA StartingStep ==
    ASSUME SessionIInv, NEW d \in Devices, Starting(d)
    PROVE  SessionIInv'
<1>0. CounterTypes
  BY DEF SessionIInv
<1>1. CASE OpenMutex(d)
  <2>1. OpenOrCreate(d, "mtx") /\ fCount' = fCount /\ pc[d] = "off" /\ pc' = [pc EXCEPT ![d] = "openMain"]
    BY <1>1 DEF OpenMutex, Goto
  <2>2. CounterTypes'
    BY <1>0, <2>1, OpenTypes DEF CounterTypes, Places, Kinds, Objects, Uncounted
  <2>3. QED
    BY <1>0, <2>1, <2>2, OpenTypes, DeviceMoves DEF CounterTypes, Kinds, Uncounted, Counted
<1>2. CASE OpenSegment(d)
  <2>1. OpenOrCreate(d, "main") /\ fCount' = fCount /\ pc[d] = "openMain" /\ pc' = [pc EXCEPT ![d] = "openManagement"]
    BY <1>2 DEF OpenSegment, Goto
  <2>2. CounterTypes'
    BY <1>0, <2>1, OpenTypes DEF CounterTypes, Places, Kinds, Objects, Uncounted
  <2>3. QED
    BY <1>0, <2>1, <2>2, OpenTypes, DeviceMoves DEF CounterTypes, Kinds, Uncounted, Counted
<1>3. CASE OpenManagementSegment(d)
  <2>1. OpenOrCreate(d, "mng") /\ fCount' = fCount /\ pc[d] = "openManagement" /\ pc' = [pc EXCEPT ![d] = "lock"]
    BY <1>3 DEF OpenManagementSegment, Goto
  <2>2. CounterTypes'
    BY <1>0, <2>1, OpenTypes DEF CounterTypes, Places, Kinds, Objects, Uncounted
  <2>3. QED
    BY <1>0, <2>1, <2>2, OpenTypes, DeviceMoves DEF CounterTypes, Kinds, Uncounted, Counted
<1>4. CASE Lock(d, "lock", "find")
  <2>1. /\ name' = name /\ made' = made /\ opened' = opened /\ fCount' = fCount
        /\ pc[d] = "lock" /\ pc' = [pc EXCEPT ![d] = "find"]
    BY <1>4 DEF Lock, Goto
  <2>2. CounterTypes'
    BY <1>0, <2>1 DEF CounterTypes, Places, Objects, Uncounted
  <2>3. QED
    BY <1>0, <2>1, <2>2, DeviceMoves DEF CounterTypes, Uncounted, Counted
<1>5. CASE FindCounter(d)
  <2>1. /\ name' = name /\ made' = made /\ opened' = opened /\ fCount' = fCount /\ pc[d] = "find"
        /\ \/ pc' = [pc EXCEPT ![d] = "construct"]
           \/ pc' = [pc EXCEPT ![d] = "increment"] /\ fCount[opened[d]["main"]] # NoCounter
    BY <1>5 DEF FindCounter, Goto, sharedVars
  <2>2. CounterTypes'
    BY <1>0, <2>1 DEF CounterTypes, Places, Objects, Uncounted
  <2>3. QED
    BY <1>0, <2>1, <2>2, DeviceMoves DEF CounterTypes, Uncounted, Counted
<1>6. CASE Increment(d)
  BY <1>6, IncrementStep
<1>7. CASE Construct(d)
  BY <1>7, ConstructStep
<1>8. CASE ConstructFails(d) \/ NoResponse(d)
  <2>1. /\ name' = name /\ made' = made /\ opened' = opened /\ fCount' = fCount
        /\ \/ pc' = [pc EXCEPT ![d] = "failed"]
           \/ pc' = [pc EXCEPT ![d] = "dead"]
    BY <1>8 DEF ConstructFails, NoResponse, Goto, sharedVars
  <2>2. CounterTypes'
    BY <1>0, <2>1 DEF CounterTypes, Places, Objects
  <2>3. QED
    BY <1>0, <2>1, <2>2, DeviceMoves DEF CounterTypes, Uncounted, Counted
<1>9. CASE StartMonitor(d)
  <2>1. PICK m \in Monitors : pc[d] = "launch" /\ pc' = [pc EXCEPT ![d] = "await", ![m] = "start"]
    BY <1>9 DEF StartMonitor
  <2>2. name' = name /\ made' = made /\ opened' = opened /\ fCount' = fCount
    BY <1>9 DEF StartMonitor, sharedVars
  <2>3. CounterTypes'
    BY <1>0, <2>1, <2>2 DEF CounterTypes, Places, Objects, Counted
  <2>4. d # m /\ \A q \in Devices : q # m
    BY SessionAssumption
  <2>5. pc'[d] = "await" /\ \A q \in Devices \ {d} : pc'[q] = pc[q]
    BY <1>0, <2>1, <2>4 DEF CounterTypes
  <2>6. QED
    BY <1>0, <2>1, <2>2, <2>3, <2>5, DeviceMoves DEF CounterTypes, Uncounted, Counted
<1>10. CASE Started(d)
  <2>1. /\ name' = name /\ made' = made /\ opened' = opened /\ fCount' = fCount
        /\ pc[d] \in {"await", "launch"} /\ pc' = [pc EXCEPT ![d] = "running"]
    BY <1>10 DEF Started, Goto
  <2>2. CounterTypes'
    BY <1>0, <2>1 DEF CounterTypes, Places, Objects, Counted
  <2>3. QED
    BY <1>0, <2>1, <2>2, DeviceMoves DEF CounterTypes, Uncounted, Counted
<1>11. QED
  BY <1>1, <1>2, <1>3, <1>4, <1>5, <1>6, <1>7, <1>8, <1>9, <1>10 DEF Starting

\* The other steps of a device: heartbeats, its destructor and its death.
LEMMA StoppingStep ==
    ASSUME SessionIInv, NEW d \in Devices,
           SendHeartbeats(d) \/ Stop(d) \/ Stopping(d) \/ Crash(d)
    PROVE  SessionIInv'
<1>0. CounterTypes
  BY DEF SessionIInv
<1>1. CASE SendHeartbeats(d)
  <2>1. name' = name /\ made' = made /\ opened' = opened /\ fCount' = fCount /\ pc' = pc
    BY <1>1 DEF SendHeartbeats
  <2>2. CounterTypes'
    BY <1>0, <2>1 DEF CounterTypes, Places, Objects
  <2>3. QED
    BY <2>1, <2>2, DevicesRest
<1>2. CASE Stop(d) \/ Lock(d, "relock", "decrement")
  <2>1. /\ name' = name /\ made' = made /\ opened' = opened /\ fCount' = fCount
        /\ pc[d] \in {"running", "relock"}
        /\ pc' = [pc EXCEPT ![d] = "relock"] \/ pc' = [pc EXCEPT ![d] = "decrement"]
    BY <1>2 DEF Stop, Lock, Goto, sharedVars
  <2>2. CounterTypes'
    BY <1>0, <2>1 DEF CounterTypes, Places, Objects, Counted
  <2>3. QED
    BY <1>0, <2>1, <2>2, DeviceMoves DEF CounterTypes, Uncounted, Counted
<1>3. CASE Decrement(d)
  BY <1>3, DecrementStep
<1>4. CASE OthersPresent(d) \/ Crash(d)
  <2>1. /\ name' = name /\ made' = made /\ opened' = opened /\ fCount' = fCount
        /\ pc' = [pc EXCEPT ![d] = "gone"] \/ pc' = [pc EXCEPT ![d] = "dead"]
    BY <1>4 DEF OthersPresent, Crash, Goto, sharedVars
  <2>2. CounterTypes'
    BY <1>0, <2>1 DEF CounterTypes, Places, Objects
  <2>3. QED
    BY <1>0, <2>1, <2>2, DeviceMoves DEF CounterTypes, Uncounted, Counted
<1>5. CASE RemoveSegment(d) \/ RemoveManagementSegment(d) \/ RemoveMutex(d)
  <2>1. /\ made' = made /\ opened' = opened /\ fCount' = fCount
        /\ \E k \in Kinds : name' = [name EXCEPT ![k] = 0]
        /\ \E to \in {"removeManagement", "removeMutex", "gone"} : pc' = [pc EXCEPT ![d] = to]
    BY <1>5 DEF RemoveSegment, RemoveManagementSegment, RemoveMutex, Remove, Goto, Kinds
  <2>2. CounterTypes'
    <3>1. name' \in [Kinds -> Nat]
      BY <1>0, <2>1 DEF CounterTypes
    <3>2. pc' \in [Devices \cup Monitors -> Places]
      BY <1>0, <2>1 DEF CounterTypes, Places, Counted
    <3>3. QED
      BY <1>0, <2>1, <3>1, <3>2 DEF CounterTypes, Objects
  <2>3. QED
    BY <1>0, <2>1, <2>2, DeviceMoves DEF CounterTypes, Uncounted, Counted
<1>6. QED
  BY <1>1, <1>2, <1>3, <1>4, <1>5 DEF Stopping

\* A monitor writes no counter, and what it opens and removes are names.
LEMMA MonitorsStep ==
    ASSUME SessionIInv, NEW m \in Monitors,
           MonitorStep(m) \/ ReceiveHeartbeat(m) \/ Timeout(m)
    PROVE  SessionIInv'
<1>0. CounterTypes /\ \A q \in Devices : q # m
  BY SessionAssumption DEF SessionIInv
<1>1. CASE MonitorStarts(m) \/ MonitorHeartbeats(m)
  <2>1. /\ OpenOrCreate(m, "mng") \/ OpenOrCreate(m, "cq")
        /\ fCount' = fCount
        /\ \E to \in {"gone", "removeQueue", "running"} : pc' = [pc EXCEPT ![m] = to]
    BY <1>1 DEF MonitorStarts, MonitorHeartbeats, Goto
  <2>2. CounterTypes'
    BY <1>0, <2>1, OpenTypes DEF CounterTypes, Places, Kinds, Objects, Counted
  <2>3. \A q \in Devices : pc'[q] = pc[q] /\ opened'[q]["main"] = opened[q]["main"]
    BY <1>0, <2>1, OpenTypes DEF CounterTypes, Kinds
  <2>4. QED
    BY <2>1, <2>2, <2>3, DevicesRest
<1>2. CASE MonitorRemovesOldQueue(m) \/ Cleanup(m) \/ MonitorClosesQueue(m)
  <2>1. /\ made' = made /\ opened' = opened /\ fCount' = fCount
        /\ \E k \in Kinds : name' = [name EXCEPT ![k] = 0]
        /\ \E to \in {"openQueue", "cleanMain", "cleanMtx", "closeQueue", "destroy"} : pc' = [pc EXCEPT ![m] = to]
    BY <1>2 DEF MonitorRemovesOldQueue, Cleanup, MonitorClosesQueue, Remove, Goto, Kinds
  <2>2. CounterTypes'
    <3>1. name' \in [Kinds -> Nat]
      BY <1>0, <2>1 DEF CounterTypes
    <3>2. pc' \in [Devices \cup Monitors -> Places]
      BY <1>0, <2>1 DEF CounterTypes, Places, Counted
    <3>3. QED
      BY <1>0, <2>1, <3>1, <3>2 DEF CounterTypes, Objects
  <2>3. \A q \in Devices : pc'[q] = pc[q] /\ opened'[q]["main"] = opened[q]["main"]
    BY <1>0, <2>1 DEF CounterTypes
  <2>4. QED
    BY <2>1, <2>2, <2>3, DevicesRest
<1>3. CASE CheckSegment(m) \/ CheckNoSegment(m) \/ MonitorEnds(m)
  <2>1. /\ name' = name /\ made' = made /\ opened' = opened /\ fCount' = fCount
        /\ \E to \in {"running", "cleanMng", "closeQueue", "gone"} : pc' = [pc EXCEPT ![m] = to]
    BY <1>3 DEF CheckSegment, CheckNoSegment, MonitorEnds, Goto, sharedVars
  <2>2. CounterTypes'
    BY <1>0, <2>1 DEF CounterTypes, Places, Objects, Counted
  <2>3. \A q \in Devices : pc'[q] = pc[q] /\ opened'[q]["main"] = opened[q]["main"]
    BY <1>0, <2>1 DEF CounterTypes
  <2>4. QED
    BY <2>1, <2>2, <2>3, DevicesRest
<1>4. CASE ReceiveHeartbeat(m) \/ Timeout(m)
  <2>1. name' = name /\ made' = made /\ opened' = opened /\ fCount' = fCount /\ pc' = pc
    BY <1>4 DEF ReceiveHeartbeat, Timeout, sharedVars
  <2>2. CounterTypes'
    BY <1>0, <2>1 DEF CounterTypes, Places, Objects
  <2>3. QED
    BY <2>1, <2>2, DevicesRest
<1>5. QED
  BY <1>1, <1>2, <1>3, <1>4 DEF MonitorStep

-----------------------------------------------------------------------------
(* The theorem.                                                            *)

\* Nobody has counted, and there is no counter.
LEMMA InitSession == Init => SessionIInv
<1> SUFFICES ASSUME Init PROVE SessionIInv
  OBVIOUS
<1>1. CounterTypes
  BY NoCounterType DEF Init, CounterTypes, Places, Uncounted
<1>2. FoundInv
  BY DEF Init, FoundInv
<1>3. CounterInv
  BY DEF Init, CounterInv, Users, Counted
<1>4. QED
  BY <1>1, <1>2, <1>3 DEF SessionIInv

\* Every step of a device or a monitor keeps the invariant.
LEMMA NextSession == SessionIInv /\ [Next]_vars => SessionIInv'
<1> SUFFICES ASSUME SessionIInv, [Next]_vars PROVE SessionIInv'
  OBVIOUS
<1>1. CASE UNCHANGED vars
  <2>1. name' = name /\ made' = made /\ opened' = opened /\ fCount' = fCount /\ pc' = pc
    BY <1>1 DEF vars, sharedVars
  <2>2. CounterTypes'
    BY <2>1 DEF SessionIInv, CounterTypes, Places, Objects
  <2>3. QED
    BY <2>1, <2>2, DevicesRest
<1>2. CASE Next
  BY <1>2, StartingStep, StoppingStep, MonitorsStep DEF Next
<1>3. QED
  BY <1>1, <1>2

\* However many devices start, stop and crash, holding whichever mutexes they have
\* opened, and whatever the monitors remove, the counter of a segment is at least the
\* number of devices that have counted themselves in it (FairMQTransportFactorySHM,
\* constructor and destructor), and it does not wrap.
THEOREM CounterCoversUsers == Spec => []NeverUndercounts
<1>1. SessionIInv => NeverUndercounts
  BY DEF SessionIInv, CounterInv, NeverUndercounts, Users
<1>2. QED
  BY <1>1, InitSession, NextSession, PTL DEF Spec

-----------------------------------------------------------------------------
(* Nothing is left behind.                                                 *)

NoneDead == \A d \in Devices : pc[d] # "dead"

\* Devices that have opened the main segment, or died.
Opened == {d \in Devices : pc[d] \notin {"off", "openMain"}}

\* A main segment is made by a device that opens it, so their numbers are in Objects.
SegmentInv ==
    /\ name["main"] <= made["main"]
    /\ made["main"] <= Cardinality(Opened)
    /\ \A d \in Opened : pc[d] # "dead" => opened[d]["main"] \in 1 .. made["main"]

\* A device that has yet to decide whether it was the last one of its segment: it has
\* not counted itself out, or it has and reads 0.  One that waits to construct a
\* counter which is there by now will fail.
Keeper(d) ==
    \/ pc[d] \in {"openManagement", "lock", "find", "increment"} \cup Counted
    \/ pc[d] = "construct" /\ fCount[opened[d]["main"]] = NoCounter
    \/ pc[d] = "test" /\ fCount[opened[d]["main"]] = 0

\* Where a device that is no Keeper still has the name of kind k to remove, or goes on
\* to become a Keeper.
Removing ==
    [main |-> {},
     mng |-> {"removeManagement"},
     mtx |-> {"openMain", "removeManagement", "removeMutex"}]

Minds(d, k) == Keeper(d) \/ pc[d] \in Removing[k]

\* Monitors make a management segment too.
MadeByDevices == {"main", "mtx"} \cup IF Monitors = {} THEN {"mng"} ELSE {}

ExactInv == \A o \in Objects : fCount[o] # NoCounter => fCount[o] = Cardinality(Users(o))

\* For every name there is a device that has still to remove it.
MindedInv == \A k \in MadeByDevices : name[k] # 0 => \E d \in Devices : Minds(d, k)

\* With nobody dead a counter is the number of its users, and every name is minded.
LeakIInv == SegmentInv /\ (NoneDead => ExactInv /\ MindedInv)

\* The segment of a device that has opened one is an object with a counter or the
\* value NoCounter.
LEMMA SegmentInObjects ==
    ASSUME SessionIInv, SegmentInv, NEW d \in Opened, pc[d] # "dead"
    PROVE  opened[d]["main"] \in Objects
<1>1. IsFiniteSet(Devices \cup Monitors) /\ Devices \subseteq Devices \cup Monitors
  BY SessionAssumption, FS_Union
<1>2. Cardinality(Devices) <= Cardinality(Devices \cup Monitors) /\ Cardinality(Devices \cup Monitors) \in Nat
  BY <1>1, FS_Subset, FS_CardinalityType
<1>3. Cardinality(Opened) <= Cardinality(Devices) /\ Cardinality(Opened) \in Nat /\ Cardinality(Devices) \in Nat
  BY Finite DEF Opened
<1>4. opened[d]["main"] \in 1 .. made["main"] /\ made["main"] <= Cardinality(Opened) /\ made["main"] \in Nat
  BY DEF SegmentInv, SessionIInv, CounterTypes, Kinds
<1>5. QED
  BY <1>2, <1>3, <1>4 DEF Objects

\* A step that opens no main segment.
LEMMA SegmentRest ==
    ASSUME SessionIInv, SegmentInv,
           name'["main"] \in {name["main"], 0}, made'["main"] = made["main"],
           \A q \in Devices : opened'[q]["main"] = opened[q]["main"],
           \A q \in Opened : pc'[q] \notin {"off", "openMain"},
           \A q \in Devices \ Opened : pc'[q] \in {"off", "openMain", "dead"},
           \A q \in Devices : pc[q] = "dead" => pc'[q] = "dead"
    PROVE  SegmentInv'
<1>1. Opened \in SUBSET Devices /\ Opened' \in SUBSET Devices /\ Opened \subseteq Opened'
  BY DEF Opened
<1>2. Cardinality(Opened) <= Cardinality(Opened') /\ Cardinality(Opened) \in Nat /\ Cardinality(Opened') \in Nat
  BY <1>1, Finite
<1>3. name["main"] \in Nat /\ made["main"] \in Nat
  BY DEF SessionIInv, CounterTypes, Kinds
<1>4. name'["main"] <= made'["main"] /\ made'["main"] <= Cardinality(Opened')
  BY <1>2, <1>3 DEF SegmentInv
<1>5. ASSUME NEW d \in Opened', pc'[d] # "dead" PROVE opened'[d]["main"] \in 1 .. made'["main"]
  BY <1>5 DEF SegmentInv, Opened
<1>6. QED
  BY <1>4, <1>5 DEF SegmentInv

\* A device's step that writes no counter and opens no main segment.  What the other
\* devices mind they go on to mind.
LEMMA LeakMoves ==
    ASSUME SessionIInv, SessionIInv', LeakIInv, NEW d \in Devices,
           fCount' = fCount, made'["main"] = made["main"], name'["main"] \in {name["main"], 0},
           \A q \in Devices : opened'[q]["main"] = opened[q]["main"],
           \A q \in Devices \ {d} : pc'[q] = pc[q],
           pc[d] \in {"off", "openMain"} => pc'[d] \in {"off", "openMain", "dead"},
           pc[d] \notin {"off", "openMain"} => pc'[d] \notin {"off", "openMain"},
           pc[d] = "dead" => pc'[d] = "dead",
           pc'[d] # "dead" => (pc[d] \in Counted <=> pc'[d] \in Counted),
           \A k \in MadeByDevices :
              name'[k] # 0 /\ pc'[d] # "dead" =>
                 \/ Minds(d, k)'
                 \/ name[k] # 0 /\ ~Minds(d, k)
    PROVE  LeakIInv'
<1>1. SegmentInv'
  BY SegmentRest DEF LeakIInv, Opened
<1>2. SUFFICES ASSUME NoneDead' PROVE ExactInv' /\ MindedInv'
  BY <1>1 DEF LeakIInv
<1>3. NoneDead /\ pc'[d] # "dead"
  BY <1>2 DEF NoneDead
<1>4. \A o : Users(o)' = Users(o)
  BY <1>3 DEF Users
<1>5. ExactInv'
  BY <1>3, <1>4 DEF LeakIInv, ExactInv, Objects, NoCounter
<1>6. ASSUME NEW k \in MadeByDevices, name'[k] # 0 PROVE \E q \in Devices : Minds(q, k)'
  <2>1. CASE Minds(d, k)'
    BY <2>1
  <2>2. CASE name[k] # 0 /\ ~Minds(d, k)
    <3>1. PICK q \in Devices : Minds(q, k)
      BY <1>3, <2>2 DEF LeakIInv, MindedInv
    <3>2. q # d
      BY <2>2, <3>1
    <3>3. Minds(q, k)'
      BY <3>1, <3>2 DEF Minds, Keeper, NoCounter
    <3>4. QED
      BY <3>3
  <2>3. QED
    BY <1>3, <1>6, <2>1, <2>2
<1>7. QED
  BY <1>5, <1>6 DEF MindedInv, MadeByDevices

\* A step of the monitors removes names and makes none but its own; so does one in
\* which nothing happens.
LEMMA LeakRest ==
    ASSUME SessionIInv, SessionIInv', LeakIInv,
           fCount' = fCount, made'["main"] = made["main"],
           \A q \in Devices : pc'[q] = pc[q] /\ opened'[q]["main"] = opened[q]["main"],
           \A k \in MadeByDevices : name'[k] \in {name[k], 0}
    PROVE  LeakIInv'
<1>1. SegmentInv'
  BY SegmentRest DEF LeakIInv, Opened, MadeByDevices
<1>2. SUFFICES ASSUME NoneDead' PROVE ExactInv' /\ MindedInv'
  BY <1>1 DEF LeakIInv
<1>3. NoneDead
  BY <1>2 DEF NoneDead
<1>4. \A o : Users(o)' = Users(o)
  BY DEF Users
<1>5. ExactInv'
  BY <1>3, <1>4 DEF LeakIInv, ExactInv, Objects, NoCounter
<1>6. \A q \in Devices, k \in MadeByDevices : Minds(q, k)' <=> Minds(q, k)
  BY DEF Minds, Keeper, NoCounter
<1>7. MindedInv'
  BY <1>3, <1>6 DEF LeakIInv, MindedInv, MadeByDevices
<1>8. QED
  BY <1>5, <1>7

\* The device that opens the main segment minds all names from then on.
LEMMA LeakOpenSegment ==
    ASSUME SessionIInv, SessionIInv', LeakIInv, NEW d \in Devices, OpenSegment(d)
    PROVE  LeakIInv'
<1> DEFINE o == IF name["main"] = 0 THEN made["main"] + 1 ELSE name["main"]
<1>0. CounterTypes
  BY DEF SessionIInv
<1>1. /\ pc[d] = "openMain" /\ pc' = [pc EXCEPT ![d] = "openManagement"] /\ fCount' = fCount
      /\ name' = [name EXCEPT !["main"] = o]
      /\ made' = [made EXCEPT !["main"] = IF @ < o THEN o ELSE @]
      /\ opened' = [opened EXCEPT ![d]["main"] = o]
  BY DEF OpenSegment, Goto, OpenOrCreate
<1>2. name["main"] \in Nat /\ made["main"] \in Nat
  BY <1>0 DEF CounterTypes, Kinds
<1>3. /\ o \in 1 .. made["main"] + 1
      /\ name'["main"] = o
      /\ made'["main"] = IF made["main"] < o THEN o ELSE made["main"]
  BY <1>0, <1>1, <1>2 DEF CounterTypes, Kinds, LeakIInv, SegmentInv
<1>4. /\ opened'[d]["main"] = o
      /\ \A q \in Devices \ {d} : opened'[q]["main"] = opened[q]["main"]
  BY <1>0, <1>1 DEF CounterTypes, Kinds
<1> HIDE DEF o
<1>5. Opened \in SUBSET Devices /\ d \notin Opened /\ Opened' = Opened \cup {d}
  BY <1>0, <1>1 DEF Opened, CounterTypes
<1>6. Cardinality(Opened') = Cardinality(Opened) + 1 /\ Cardinality(Opened) \in Nat
  BY <1>5, Finite, OneMore
<1>7. SegmentInv'
  <2>1. made["main"] <= Cardinality(Opened)
    BY DEF LeakIInv, SegmentInv
  <2>2. name'["main"] <= made'["main"] /\ made'["main"] <= Cardinality(Opened')
    BY <2>1, <1>2, <1>3, <1>6
  <2>3. ASSUME NEW q \in Opened', pc'[q] # "dead" PROVE opened'[q]["main"] \in 1 .. made'["main"]
    <3>1. CASE q = d
      BY <3>1, <1>2, <1>3, <1>4
    <3>2. CASE q # d
      <4>1. q \in Opened /\ pc[q] # "dead"
        BY <3>2, <2>3, <1>0, <1>1, <1>5 DEF CounterTypes
      <4>2. opened[q]["main"] \in 1 .. made["main"]
        BY <4>1 DEF LeakIInv, SegmentInv
      <4>3. QED
        BY <4>1, <4>2, <3>2, <1>2, <1>3, <1>4, <1>5
    <3>3. QED
      BY <3>1, <3>2
  <2>4. QED
    BY <2>2, <2>3 DEF SegmentInv
<1>8. SUFFICES ASSUME NoneDead' PROVE ExactInv' /\ MindedInv'
  BY <1>7 DEF LeakIInv
<1>9. NoneDead
  BY <1>8, <1>0, <1>1 DEF NoneDead, CounterTypes
<1>10. \A x : Users(x)' = Users(x)
  BY <1>0, <1>1, <1>4 DEF Users, Counted, CounterTypes
<1>11. ExactInv'
  BY <1>1, <1>9, <1>10 DEF LeakIInv, ExactInv, Objects, NoCounter
<1>12. Keeper(d)'
  BY <1>0, <1>1 DEF Keeper, CounterTypes
<1>13. QED
  BY <1>11, <1>12 DEF MindedInv, Minds

\* A step that writes a counter and leaves the names alone: one Keeper is enough for
\* all of them.
LEMMA LeakCounts ==
    ASSUME SessionIInv, SessionIInv', LeakIInv, NEW d \in Devices,
           name' = name, made' = made, opened' = opened,
           \A q \in Devices \ {d} : pc'[q] = pc[q],
           pc[d] \notin {"off", "openMain", "dead"}, pc'[d] \notin {"off", "openMain", "dead"},
           NoneDead => ExactInv' /\ \E q \in Devices : Keeper(q)'
    PROVE  LeakIInv'
<1>1. SegmentInv'
  BY SegmentRest DEF LeakIInv, Opened
<1>2. NoneDead' => NoneDead
  BY DEF NoneDead
<1>3. (\E q \in Devices : Keeper(q)') => MindedInv'
  BY DEF MindedInv, Minds
<1>4. QED
  BY <1>1, <1>2, <1>3 DEF LeakIInv

\* The device that counts itself in.
LEMMA LeakIncrement ==
    ASSUME SessionIInv, SessionIInv', LeakIInv, NEW d \in Devices, Increment(d)
    PROVE  LeakIInv'
<1> DEFINE s == opened[d]["main"]
<1>1. /\ pc[d] = "increment" /\ pc' = [pc EXCEPT ![d] = "launch"] /\ opened' = opened
      /\ fCount' = [fCount EXCEPT ![s] = @ + 1] /\ name' = name /\ made' = made
  BY DEF Increment, Goto
<1>2. CounterTypes /\ FoundInv /\ SegmentInv
  BY DEF SessionIInv, LeakIInv
<1>3. s \in Objects
  <2>1. d \in Opened /\ pc[d] # "dead"
    BY <1>1 DEF Opened
  <2>2. QED
    BY <2>1, <1>2, SegmentInObjects
<1>4. fCount[s] # NoCounter
  BY <1>1, <1>2, <1>3 DEF FoundInv
<1>5. /\ \A o \in Objects : Users(o) \in SUBSET Devices /\ d \notin Users(o)
      /\ \A o \in Objects : Users(o)' = IF o = s THEN Users(o) \cup {d} ELSE Users(o)
  BY <1>1, <1>2 DEF CounterTypes, Users, Counted
<1>6. \A o \in Objects :
        Cardinality(Users(o)') = IF o = s THEN Cardinality(Users(o)) + 1 ELSE Cardinality(Users(o))
  BY <1>5, OneMore
<1>7. \A o \in Objects : fCount'[o] = IF o = s THEN fCount[o] + 1 ELSE fCount[o]
  BY <1>1, <1>2 DEF CounterTypes
<1>8. NoneDead => ExactInv'
  BY <1>4, <1>6, <1>7 DEF LeakIInv, ExactInv, Objects, NoCounter
<1>9. Keeper(d)'
  BY <1>1, <1>2 DEF Keeper, Counted, CounterTypes
<1>10. (\A q \in Devices \ {d} : pc'[q] = pc[q]) /\ pc'[d] = "launch"
  BY <1>1, <1>2 DEF CounterTypes
<1>11. QED
  BY <1>1, <1>8, <1>9, <1>10, LeakCounts

\* The device that constructs the counter is its one user.
LEMMA LeakConstruct ==
    ASSUME SessionIInv, SessionIInv', LeakIInv, NEW d \in Devices, Construct(d)
    PROVE  LeakIInv'
<1> DEFINE s == opened[d]["main"]
<1>1. /\ pc[d] = "construct" /\ pc' = [pc EXCEPT ![d] = "launch"] /\ opened' = opened
      /\ fCount[s] = NoCounter
      /\ fCount' = [fCount EXCEPT ![s] = 1] /\ name' = name /\ made' = made
  BY DEF Construct, Goto
<1>2. CounterTypes /\ CounterInv
  BY DEF SessionIInv
<1>3. /\ \A o \in Objects : Users(o) \in SUBSET Devices
      /\ \A o \in Objects : Users(o)' = IF o = s THEN Users(o) \cup {d} ELSE Users(o)
  BY <1>1, <1>2 DEF CounterTypes, Users, Counted
<1>4. s \in Objects => Users(s)' = {d}
  BY <1>1, <1>2, <1>3 DEF CounterInv
<1>5. \A o \in Objects : fCount'[o] = IF o = s THEN 1 ELSE fCount[o]
  BY <1>1, <1>2 DEF CounterTypes
<1>6. Cardinality({d}) = 1
  BY OneMore
<1>7. NoneDead => ExactInv'
  <2>1. SUFFICES ASSUME NoneDead, NEW o \in Objects, fCount'[o] # NoCounter
                 PROVE  fCount'[o] = Cardinality(Users(o)')
    BY DEF ExactInv, Objects, NoCounter
  <2>2. CASE o = s
    BY <2>2, <1>1, <1>4, <1>5, <1>6
  <2>3. CASE o # s
    BY <2>1, <2>3, <1>3, <1>5 DEF LeakIInv, ExactInv
  <2>4. QED
    BY <2>2, <2>3
<1>8. Keeper(d)'
  BY <1>1, <1>2 DEF Keeper, Counted, CounterTypes
<1>9. (\A q \in Devices \ {d} : pc'[q] = pc[q]) /\ pc'[d] = "launch"
  BY <1>1, <1>2 DEF CounterTypes
<1>10. QED
  BY <1>1, <1>7, <1>8, <1>9, LeakCounts

\* The device that counts itself out reads 0 and is the Keeper, or another user is.
LEMMA LeakDecrement ==
    ASSUME SessionIInv, SessionIInv', LeakIInv, NEW d \in Devices, Decrement(d)
    PROVE  LeakIInv'
<1> DEFINE s == opened[d]["main"]
<1>1. /\ pc[d] = "decrement" /\ pc' = [pc EXCEPT ![d] = "test"] /\ opened' = opened
      /\ fCount' = [fCount EXCEPT ![s] = @ - 1] /\ name' = name /\ made' = made
  BY DEF Decrement, Goto
<1>2. CounterTypes /\ CounterInv /\ SegmentInv
  BY DEF SessionIInv, LeakIInv
<1>3. s \in Objects
  <2>1. d \in Opened /\ pc[d] # "dead"
    BY <1>1 DEF Opened
  <2>2. QED
    BY <2>1, <1>2, SegmentInObjects
<1>4. /\ \A o \in Objects : Users(o) \in SUBSET Devices
      /\ \A o \in Objects : Users(o)' = IF o = s THEN Users(o) \ {d} ELSE Users(o)
      /\ d \in Users(s)
  BY <1>1, <1>2, <1>3 DEF CounterTypes, Users, Counted
<1>5. fCount[s] # NoCounter
  BY <1>2, <1>3, <1>4 DEF CounterInv
<1>6. \A o \in Objects :
        Cardinality(Users(o)') = IF o = s THEN Cardinality(Users(o)) - 1 ELSE Cardinality(Users(o))
  BY <1>4, OneMore
<1>7. \A o \in Objects : fCount'[o] = IF o = s THEN fCount[o] - 1 ELSE fCount[o]
  BY <1>1, <1>2 DEF CounterTypes
<1>8. NoneDead => ExactInv'
  BY <1>5, <1>6, <1>7 DEF LeakIInv, ExactInv, Objects, NoCounter
<1>9. ASSUME NoneDead PROVE \E q \in Devices : Keeper(q)'
  <2>1. fCount[s] = Cardinality(Users(s))
    BY <1>3, <1>5, <1>9 DEF LeakIInv, ExactInv
  <2>2. CASE Users(s)' = {}
    <3>1. Cardinality(Users(s)') = 0
      BY <2>2, OneMore
    <3>2. fCount'[s] = 0
      BY <2>1, <3>1, <1>1, <1>3, <1>4, <1>6, <1>7, Finite
    <3>3. Keeper(d)'
      BY <3>2, <1>1, <1>2 DEF Keeper, CounterTypes
    <3>4. QED
      BY <3>3
  <2>3. CASE Users(s)' # {}
    <3>1. PICK q \in Users(s)' : TRUE
      BY <2>3
    <3>2. q \in Devices /\ Keeper(q)'
      BY <3>1 DEF Users, Keeper
    <3>3. QED
      BY <3>2
  <2>4. QED
    BY <2>2, <2>3
<1>10. (\A q \in Devices \ {d} : pc'[q] = pc[q]) /\ pc'[d] = "test"
  BY <1>1, <1>2 DEF CounterTypes
<1>11. QED
  BY <1>1, <1>8, <1>9, <1>10, LeakCounts

\* The steps of a device in its constructor.
LEMMA LeakStarting ==
    ASSUME SessionIInv, SessionIInv', LeakIInv, NEW d \in Devices, Starting(d)
    PROVE  LeakIInv'
<1>0. CounterTypes /\ pc[d] \in Places
  BY DEF SessionIInv, CounterTypes
<1>1. CASE OpenMutex(d)
  <2>1. OpenOrCreate(d, "mtx") /\ fCount' = fCount /\ pc[d] = "off" /\ pc' = [pc EXCEPT ![d] = "openMain"]
    BY <1>1 DEF OpenMutex, Goto
  <2>2. \A k \in {"main", "mng"} : name'[k] = name[k] /\ made'[k] = made[k]
    BY <1>0, <2>1 DEF OpenOrCreate, CounterTypes, Kinds
  <2>3. \A q \in Devices : opened'[q]["main"] = opened[q]["main"]
    BY <1>0, <2>1, OpenTypes DEF Kinds
  <2>4. pc'[d] = "openMain" /\ \A q \in Devices \ {d} : pc'[q] = pc[q]
    BY <1>0, <2>1 DEF CounterTypes
  <2>5. Minds(d, "mtx")' /\ \A k \in MadeByDevices : ~Minds(d, k)
    BY <2>1, <2>4 DEF Minds, Removing, Keeper, Counted, MadeByDevices
  <2>6. QED
    BY <2>1, <2>2, <2>3, <2>4, <2>5, LeakMoves DEF MadeByDevices, Counted
<1>2. CASE OpenSegment(d)
  BY <1>2, LeakOpenSegment
<1>3. CASE OpenManagementSegment(d)
  <2>1. OpenOrCreate(d, "mng") /\ fCount' = fCount /\ pc[d] = "openManagement" /\ pc' = [pc EXCEPT ![d] = "lock"]
    BY <1>3 DEF OpenManagementSegment, Goto
  <2>2. name'["main"] = name["main"] /\ made'["main"] = made["main"]
    BY <1>0, <2>1 DEF OpenOrCreate, CounterTypes, Kinds
  <2>3. \A q \in Devices : opened'[q]["main"] = opened[q]["main"]
    BY <1>0, <2>1, OpenTypes DEF Kinds
  <2>4. pc'[d] = "lock" /\ \A q \in Devices \ {d} : pc'[q] = pc[q]
    BY <1>0, <2>1 DEF CounterTypes
  <2>5. \A k \in MadeByDevices : Minds(d, k)'
    BY <2>4 DEF Minds, Keeper
  <2>6. QED
    BY <2>1, <2>2, <2>3, <2>4, <2>5, LeakMoves DEF Counted
<1>4. CASE Lock(d, "lock", "find") \/ FindCounter(d) \/ Started(d)
  <2>1. /\ name' = name /\ made' = made /\ opened' = opened /\ fCount' = fCount
        /\ \/ pc[d] = "lock" /\ pc' = [pc EXCEPT ![d] = "find"]
           \/ pc[d] = "find" /\ pc' = [pc EXCEPT ![d] = "construct"] /\ fCount[opened[d]["main"]] = NoCounter
           \/ pc[d] = "find" /\ pc' = [pc EXCEPT ![d] = "increment"]
           \/ pc[d] \in {"await", "launch"} /\ pc' = [pc EXCEPT ![d] = "running"]
    BY <1>4 DEF Lock, FindCounter, Started, Goto, sharedVars
  <2>2. \A q \in Devices \ {d} : pc'[q] = pc[q]
    BY <1>0, <2>1 DEF CounterTypes
  <2>3. \/ pc[d] = "lock" /\ pc'[d] = "find"
        \/ pc[d] = "find" /\ pc'[d] = "construct" /\ fCount[opened[d]["main"]] = NoCounter
        \/ pc[d] = "find" /\ pc'[d] = "increment"
        \/ pc[d] \in {"await", "launch"} /\ pc'[d] = "running"
    BY <1>0, <2>1 DEF CounterTypes
  <2>4. \A k \in MadeByDevices : Minds(d, k)'
    BY <2>1, <2>3 DEF Minds, Keeper, Counted, NoCounter
  <2>5. QED
    BY <2>1, <2>2, <2>3, <2>4, LeakMoves DEF Counted
<1>5. CASE Increment(d)
  BY <1>5, LeakIncrement
<1>6. CASE Construct(d)
  BY <1>6, LeakConstruct
<1>7. CASE ConstructFails(d)
  <2>1. /\ name' = name /\ made' = made /\ opened' = opened /\ fCount' = fCount
        /\ pc[d] = "construct" /\ pc' = [pc EXCEPT ![d] = "failed"] /\ fCount[opened[d]["main"]] # NoCounter
    BY <1>7 DEF ConstructFails, Goto
  <2>2. pc'[d] = "failed" /\ \A q \in Devices \ {d} : pc'[q] = pc[q]
    BY <1>0, <2>1 DEF CounterTypes
  <2>3. \A k \in MadeByDevices : ~Minds(d, k)
    BY <2>1 DEF Minds, Keeper, Counted, Removing, MadeByDevices
  <2>4. QED
    BY <2>1, <2>2, <2>3, LeakMoves DEF Counted
<1>8. CASE NoResponse(d)
  <2>1. /\ name' = name /\ made' = made /\ opened' = opened /\ fCount' = fCount
        /\ pc[d] = "await" /\ pc' = [pc EXCEPT ![d] = "dead"]
    BY <1>8 DEF NoResponse, Goto, sharedVars
  <2>2. pc'[d] = "dead" /\ \A q \in Devices \ {d} : pc'[q] = pc[q]
    BY <1>0, <2>1 DEF CounterTypes
  <2>3. QED
    BY <2>1, <2>2, LeakMoves
<1>9. CASE StartMonitor(d)
  <2>1. PICK m \in Monitors : pc[d] = "launch" /\ pc' = [pc EXCEPT ![d] = "await", ![m] = "start"]
    BY <1>9 DEF StartMonitor
  <2>2. name' = name /\ made' = made /\ opened' = opened /\ fCount' = fCount
    BY <1>9 DEF StartMonitor, sharedVars
  <2>3. d # m /\ \A q \in Devices : q # m
    BY SessionAssumption
  <2>4. pc'[d] = "await" /\ \A q \in Devices \ {d} : pc'[q] = pc[q]
    BY <1>0, <2>1, <2>3 DEF CounterTypes
  <2>5. \A k \in MadeByDevices : Minds(d, k)'
    BY <2>4 DEF Minds, Keeper, Counted
  <2>6. QED
    BY <2>1, <2>2, <2>4, <2>5, LeakMoves DEF Counted
<1>10. QED
  BY <1>1, <1>2, <1>3, <1>4, <1>5, <1>6, <1>7, <1>8, <1>9 DEF Starting

\* The other steps of a device: it stops being a Keeper only when it removes the name
\* of the main segment, and then it has the other names to remove.
LEMMA LeakStopping ==
    ASSUME SessionIInv, SessionIInv', LeakIInv, NEW d \in Devices,
           SendHeartbeats(d) \/ Stop(d) \/ Stopping(d) \/ Crash(d)
    PROVE  LeakIInv'
<1>0. CounterTypes
  BY DEF SessionIInv
<1>1. CASE SendHeartbeats(d)
  <2>1. name' = name /\ made' = made /\ opened' = opened /\ fCount' = fCount /\ pc' = pc
    BY <1>1 DEF SendHeartbeats
  <2>2. QED
    BY <2>1, LeakRest
<1>2. CASE Stop(d) \/ Lock(d, "relock", "decrement")
  <2>1. /\ name' = name /\ made' = made /\ opened' = opened /\ fCount' = fCount
        /\ pc[d] \in {"running", "relock"}
        /\ pc' = [pc EXCEPT ![d] = "relock"] \/ pc' = [pc EXCEPT ![d] = "decrement"]
    BY <1>2 DEF Stop, Lock, Goto, sharedVars
  <2>2. pc'[d] \in {"relock", "decrement"} /\ \A q \in Devices \ {d} : pc'[q] = pc[q]
    BY <1>0, <2>1 DEF CounterTypes
  <2>3. \A k \in MadeByDevices : Minds(d, k)'
    BY <2>2 DEF Minds, Keeper, Counted
  <2>4. QED
    BY <2>1, <2>2, <2>3, LeakMoves DEF Counted
<1>3. CASE Decrement(d)
  BY <1>3, LeakDecrement
<1>4. CASE OthersPresent(d)
  <2>1. /\ name' = name /\ made' = made /\ opened' = opened /\ fCount' = fCount
        /\ pc[d] = "test" /\ pc' = [pc EXCEPT ![d] = "gone"] /\ fCount[opened[d]["main"]] # 0
    BY <1>4 DEF OthersPresent, Goto
  <2>2. pc'[d] = "gone" /\ \A q \in Devices \ {d} : pc'[q] = pc[q]
    BY <1>0, <2>1 DEF CounterTypes
  <2>3. \A k \in MadeByDevices : ~Minds(d, k)
    BY <2>1 DEF Minds, Keeper, Counted, Removing, MadeByDevices
  <2>4. QED
    BY <2>1, <2>2, <2>3, LeakMoves DEF Counted
<1>5. CASE RemoveSegment(d)
  <2>1. /\ name' = [name EXCEPT !["main"] = 0] /\ made' = made /\ opened' = opened /\ fCount' = fCount
        /\ pc[d] = "test" /\ pc' = [pc EXCEPT ![d] = "removeManagement"]
    BY <1>5 DEF RemoveSegment, Remove, Goto
  <2>2. pc'[d] = "removeManagement" /\ \A q \in Devices \ {d} : pc'[q] = pc[q]
    BY <1>0, <2>1 DEF CounterTypes
  <2>3. name'["main"] = 0
    BY <1>0, <2>1 DEF CounterTypes, Kinds
  <2>4. Minds(d, "mng")' /\ Minds(d, "mtx")'
    BY <2>2 DEF Minds, Removing
  <2>5. QED
    BY <2>1, <2>2, <2>3, <2>4, LeakMoves DEF Counted, MadeByDevices
<1>6. CASE RemoveManagementSegment(d)
  <2>1. /\ name' = [name EXCEPT !["mng"] = 0] /\ made' = made /\ opened' = opened /\ fCount' = fCount
        /\ pc[d] = "removeManagement" /\ pc' = [pc EXCEPT ![d] = "removeMutex"]
    BY <1>6 DEF RemoveManagementSegment, Remove, Goto
  <2>2. pc'[d] = "removeMutex" /\ \A q \in Devices \ {d} : pc'[q] = pc[q]
    BY <1>0, <2>1 DEF CounterTypes
  <2>3. name'["mng"] = 0 /\ name'["main"] = name["main"]
    BY <1>0, <2>1 DEF CounterTypes, Kinds
  <2>4. ~Minds(d, "main") /\ Minds(d, "mtx")'
    BY <2>1, <2>2 DEF Minds, Keeper, Counted, Removing
  <2>5. QED
    BY <2>1, <2>2, <2>3, <2>4, LeakMoves DEF Counted, MadeByDevices
<1>7. CASE RemoveMutex(d)
  <2>1. /\ name' = [name EXCEPT !["mtx"] = 0] /\ made' = made /\ opened' = opened /\ fCount' = fCount
        /\ pc[d] = "removeMutex" /\ pc' = [pc EXCEPT ![d] = "gone"]
    BY <1>7 DEF RemoveMutex, Remove, Goto
  <2>2. pc'[d] = "gone" /\ \A q \in Devices \ {d} : pc'[q] = pc[q]
    BY <1>0, <2>1 DEF CounterTypes
  <2>3. name'["mtx"] = 0 /\ name'["main"] = name["main"] /\ name'["mng"] = name["mng"]
    BY <1>0, <2>1 DEF CounterTypes, Kinds
  <2>4. ~Minds(d, "main") /\ ~Minds(d, "mng")
    BY <2>1 DEF Minds, Keeper, Counted, Removing
  <2>5. QED
    BY <2>1, <2>2, <2>3, <2>4, LeakMoves DEF Counted, MadeByDevices
<1>8. CASE Crash(d)
  <2>1. /\ name' = name /\ made' = made /\ opened' = opened /\ fCount' = fCount
        /\ pc' = [pc EXCEPT ![d] = "dead"]
    BY <1>8 DEF Crash, sharedVars
  <2>2. pc'[d] = "dead" /\ \A q \in Devices \ {d} : pc'[q] = pc[q]
    BY <1>0, <2>1 DEF CounterTypes
  <2>3. QED
    BY <2>1, <2>2, LeakMoves
<1>9. QED
  BY <1>1, <1>2, <1>3, <1>4, <1>5, <1>6, <1>7, <1>8 DEF Stopping

\* A monitor makes a management segment and a queue, and removes.
LEMMA LeakMonitor ==
    ASSUME SessionIInv, SessionIInv', LeakIInv, NEW m \in Monitors,
           MonitorStep(m) \/ ReceiveHeartbeat(m) \/ Timeout(m)
    PROVE  LeakIInv'
<1>0. CounterTypes /\ (\A q \in Devices : q # m) /\ MadeByDevices = {"main", "mtx"}
  BY SessionAssumption DEF SessionIInv, MadeByDevices
<1>1. CASE MonitorStarts(m) \/ MonitorHeartbeats(m)
  <2>1. /\ OpenOrCreate(m, "mng") \/ OpenOrCreate(m, "cq")
        /\ fCount' = fCount
        /\ \E to \in {"gone", "removeQueue", "running"} : pc' = [pc EXCEPT ![m] = to]
    BY <1>1 DEF MonitorStarts, MonitorHeartbeats, Goto
  <2>2. \A q \in Devices : pc'[q] = pc[q] /\ opened'[q]["main"] = opened[q]["main"]
    BY <1>0, <2>1, OpenTypes DEF CounterTypes, Kinds
  <2>3. \A k \in {"main", "mtx"} : name'[k] = name[k] /\ made'[k] = made[k]
    BY <1>0, <2>1 DEF OpenOrCreate, CounterTypes, Kinds
  <2>4. QED
    BY <1>0, <2>1, <2>2, <2>3, LeakRest
<1>2. CASE MonitorRemovesOldQueue(m) \/ Cleanup(m) \/ MonitorClosesQueue(m)
  <2>1. /\ made' = made /\ opened' = opened /\ fCount' = fCount
        /\ \E k \in Kinds : name' = [name EXCEPT ![k] = 0]
        /\ \E to \in {"openQueue", "cleanMain", "cleanMtx", "closeQueue", "destroy"} : pc' = [pc EXCEPT ![m] = to]
    BY <1>2 DEF MonitorRemovesOldQueue, Cleanup, MonitorClosesQueue, Remove, Goto, Kinds
  <2>2. \A q \in Devices : pc'[q] = pc[q] /\ opened'[q]["main"] = opened[q]["main"]
    BY <1>0, <2>1 DEF CounterTypes
  <2>3. \A k \in {"main", "mtx"} : name'[k] \in {name[k], 0}
    BY <1>0, <2>1 DEF CounterTypes, Kinds
  <2>4. QED
    BY <1>0, <2>1, <2>2, <2>3, LeakRest
<1>3. CASE CheckSegment(m) \/ CheckNoSegment(m) \/ MonitorEnds(m) \/ ReceiveHeartbeat(m) \/ Timeout(m)
  <2>1. /\ name' = name /\ made' = made /\ opened' = opened /\ fCount' = fCount
        /\ pc' = pc \/ \E to \in {"running", "cleanMng", "closeQueue", "gone"} : pc' = [pc EXCEPT ![m] = to]
    BY <1>3 DEF CheckSegment, CheckNoSegment, MonitorEnds, ReceiveHeartbeat, Timeout, Goto, sharedVars
  <2>2. \A q \in Devices : pc'[q] = pc[q] /\ opened'[q]["main"] = opened[q]["main"]
    BY <1>0, <2>1 DEF CounterTypes
  <2>3. QED
    BY <2>1, <2>2, LeakRest
<1>4. QED
  BY <1>1, <1>2, <1>3 DEF MonitorStep

\* At first there is no name.
LEMMA InitLeak == Init => LeakIInv
<1> SUFFICES ASSUME Init PROVE LeakIInv
  OBVIOUS
<1>1. Opened = {}
  BY DEF Init, Opened
<1>2. SegmentInv
  BY <1>1, FS_EmptySet DEF Init, SegmentInv, Kinds
<1>3. ExactInv /\ MindedInv
  BY DEF Init, ExactInv, MindedInv, MadeByDevices, Kinds
<1>4. QED
  BY <1>2, <1>3 DEF LeakIInv

\* Every step of a device or a monitor keeps it.
LEMMA NextLeak == SessionIInv /\ SessionIInv' /\ LeakIInv /\ [Next]_vars => LeakIInv'
<1> SUFFICES ASSUME SessionIInv, SessionIInv', LeakIInv, [Next]_vars PROVE LeakIInv'
  OBVIOUS
<1>1. CASE UNCHANGED vars
  BY <1>1, LeakRest DEF vars, sharedVars
<1>2. CASE Next
  BY <1>2, LeakStarting, LeakStopping, LeakMonitor DEF Next
<1>3. QED
  BY <1>1, <1>2

\* Once all devices have ended and none of them died, nothing minds a name.
LEMMA NobodyMinds ==
    ASSUME LeakIInv, \A d \in Devices : pc[d] \in {"off", "gone", "failed"}
    PROVE  \A k \in MadeByDevices : name[k] = 0
<1>1. NoneDead
  BY DEF NoneDead
<1>2. \A d \in Devices, k \in MadeByDevices : ~Minds(d, k)
  BY DEF Minds, Keeper, Counted, Removing, MadeByDevices
<1>3. QED
  BY <1>1, <1>2 DEF LeakIInv, MindedInv

\* Devices that all end regularly leave no main segment and no mutex behind, whichever
\* mutexes they locked and however their constructors and destructors overlapped, with
\* monitors or without: the last one to count itself out removes them.
THEOREM SegmentRemoved ==
    Spec => []((\A d \in Devices : pc[d] \in {"off", "gone", "failed"}) =>
                  name["main"] = 0 /\ name["mtx"] = 0)
<1>1. SessionIInv /\ LeakIInv =>
        ((\A d \in Devices : pc[d] \in {"off", "gone", "failed"}) => name["main"] = 0 /\ name["mtx"] = 0)
  BY NobodyMinds DEF MadeByDevices
<1>2. QED
  BY <1>1, InitSession, NextSession, InitLeak, NextLeak, PTL DEF Spec

\* Where no monitor is launched they leave nothing at all, for any number of devices;
\* a monitor can make the management segment anew after the last device has removed it.
THEOREM NothingLeaks == Monitors = {} => (Spec => []NoLeak)
<1>1. CASE Monitors = {}
  <2>1. SessionIInv /\ LeakIInv => NoLeak
    <3>1. MadeByDevices = {"main", "mng", "mtx"}
      BY <1>1 DEF MadeByDevices
    <3>2. QED
      BY <3>1, NobodyMinds DEF NoLeak
  <2>2. QED
    BY <2>1, InitSession, NextSession, InitLeak, NextLeak, PTL DEF Spec
<1>2. QED
  BY <1>1
=============================================================================
