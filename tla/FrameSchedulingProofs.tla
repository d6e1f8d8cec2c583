------------------------ MODULE FrameSchedulingProofs -----------------------
(***************************************************************************)
(* The example SCHEDULER-FLP-EPN for any configurations: the slots of an   *)
(* EPN are accounted for, no EPN counts more parts of a time frame than    *)
(* there are FLPs, and all FLPs get the same schedules, as long as no      *)
(* thread overlapped another one in the way that the properties name.      *)
(***************************************************************************)
EXTENDS FrameScheduling, FiniteSetTheorems, TLAPS

SchedulerFields == {"pc", "i", "history", "tooOld", "keyForGeneratingArray", "keyForExiting",
                    "vectorForFlps", "scheduleNumber", "EpnsInSchedule", "cut"}
FlpFields == {"pc", "i", "arrayofEpns", "sTF", "startTime", "wake"}
EpnFields == {"pc", "freeSlots", "rcvdSTFs", "ready", "loaded", "startTime", "sender", "wake"}
EpnPcs == {"idle", "loop", "receive", "load", "store", "compare", "reset", "done"}
Threads == [pc : {"asleep", "store"}, loaded : Int]

EpnTypes ==
    /\ conf \in Configurations
    /\ DOMAIN epn = EPNs
    /\ \A e \in EPNs : /\ DOMAIN epn[e] = EpnFields
                       /\ epn[e].pc \in EpnPcs /\ epn[e].freeSlots \in Int /\ epn[e].loaded \in Int

-----------------------------------------------------------------------------
(* The slots.                                                              *)

WorkTypes ==
    /\ DOMAIN work = EPNs /\ raced \in [EPNs -> BOOLEAN]
    /\ \A e \in EPNs : IsFiniteSet(DOMAIN work[e]) /\ \A w \in DOMAIN work[e] : work[e][w] \in Threads

Storing(e) == {w \in DOMAIN work[e] : work[e][w].pc = "store"}
InProcess(e) == Cardinality(DOMAIN work[e])

\* Where the run of an EPN is, the free slots and the time frames in process make up all
\* slots, but for the one that is being taken. A thread that is giving its slot back has
\* loaded what is there, and is the only one; it does not do so while one is being taken.
AtRest(e) ==
    /\ epn[e].freeSlots + InProcess(e) = conf.maxSlots /\ epn[e].freeSlots >= 0
    /\ \A w \in Storing(e) : work[e][w].loaded = epn[e].freeSlots
    /\ \A w, o \in Storing(e) : w = o

Taking(e) ==
    CASE epn[e].pc = "store" -> /\ epn[e].freeSlots + InProcess(e) = conf.maxSlots
                                /\ epn[e].freeSlots >= 0 /\ epn[e].loaded = epn[e].freeSlots
      [] epn[e].pc = "compare" -> /\ epn[e].freeSlots + InProcess(e) = conf.maxSlots - 1
                                  /\ epn[e].freeSlots >= -1 /\ epn[e].loaded = epn[e].freeSlots + 1
      [] epn[e].pc = "reset" -> InProcess(e) = conf.maxSlots

SlotsInv(e) ==
    ~raced[e] =>
        /\ epn[e].pc = "idle" => DOMAIN work[e] = {}
        /\ epn[e].pc \in {"loop", "receive", "load", "done"} => AtRest(e)
        /\ epn[e].pc \in {"store", "compare", "reset"} => Storing(e) = {} /\ Taking(e)

SlotsIInv == EpnTypes /\ WorkTypes /\ \A e \in EPNs : SlotsInv(e)

-----------------------------------------------------------------------------
(* The parts of a time frame.                                              *)

Queued(f, e, s) == \E i \in 1 .. Len(data[f][e]) : data[f][e][i] = s

\* The FLPs whose part s is not on its way to the EPN any more.
Given(e, s) == {f \in FLPs : s <= flp[f].sTF /\ ~Queued(f, e, s)}

DataTypes ==
    /\ DOMAIN flp = FLPs /\ DOMAIN data = FLPs
    /\ \A f \in FLPs : DOMAIN flp[f] = FlpFields /\ flp[f].sTF \in Nat /\ DOMAIN data[f] = EPNs
    /\ \A f \in FLPs, e \in EPNs : data[f][e] \in Seq(Nat)

\* An FLP numbers its parts upwards.
InOrder(f, e) ==
    /\ \A i \in 1 .. Len(data[f][e]) : data[f][e][i] <= flp[f].sTF
    /\ \A i, j \in 1 .. Len(data[f][e]) : i < j => data[f][e][i] < data[f][e][j]

\* What an EPN found by its poll is there; what it counted was given.
ReadyInv(e) ==
    /\ epn[e].ready \subseteq FLPs
    /\ \A f \in epn[e].ready : data[f][e] # <<>>
    /\ epn[e].pc = "receive" => epn[e].ready # {}

CountInv(e) ==
    /\ DOMAIN epn[e].rcvdSTFs \subseteq Nat
    /\ \A s \in DOMAIN epn[e].rcvdSTFs :
          epn[e].rcvdSTFs[s] \in Nat /\ epn[e].rcvdSTFs[s] <= Cardinality(Given(e, s))

PartsIInv ==
    /\ DataTypes
    /\ \A f \in FLPs, e \in EPNs : InOrder(f, e)
    /\ \A e \in EPNs : ReadyInv(e) /\ CountInv(e)

-----------------------------------------------------------------------------
(* The schedules.                                                          *)

\* The k-th schedule that FLP f gets, has got or will get.
Total(f) == Len(got[f]) + Len(schedflp[f])
Nth(f, k) == IF k <= Len(got[f]) THEN got[f][k] ELSE schedflp[f][k - Len(got[f])]

\* The sender of the current schedule has sent it to f, or has ended.
SentTo(f) == LET n == sched.scheduleNumber IN n \in DOMAIN senders => f < senders[n].i

ScheduleTypes ==
    /\ conf \in Configurations /\ late \in BOOLEAN
    /\ DOMAIN sched = SchedulerFields /\ sched.scheduleNumber \in Nat
    /\ \A n \in DOMAIN senders : DOMAIN senders[n] = {"i", "vec"}
    /\ DOMAIN got = FLPs /\ DOMAIN schedflp = FLPs
    /\ \E V : \A f \in FLPs : got[f] \in Seq(V) /\ schedflp[f] \in Seq(V)

\* While no sender was late, there is one sender at most, of the current schedule; an FLP
\* has got all schedules before it and, once the sender was there, this one, unless the
\* run of the scheduler is over; and the k-th schedule of any two FLPs is the same.
SchedulesInv ==
    LET n == sched.scheduleNumber IN
    ~late =>
        /\ DOMAIN senders \subseteq {n}
        /\ n \in DOMAIN senders => n > 0 /\ senders[n].i \in FLPs /\ senders[n].vec \in {0, n}
        /\ \A f \in FLPs : (Total(f) = n /\ SentTo(f)) \/ (Total(f) = n - 1 /\ (SentTo(f) => Over))
        /\ \A f \in FLPs : Total(f) = n /\ n > 0 => Nth(f, n) = sched.vectorForFlps
        /\ \A f, g \in FLPs, k \in 1 .. n : k <= Total(f) /\ k <= Total(g) => Nth(f, k) = Nth(g, k)

-----------------------------------------------------------------------------
(* Proofs.                                                                 *)

LEMMA ConfOf ==
    ASSUME conf \in Configurations
    PROVE  conf.epns \in Nat \ {0} /\ conf.flps \in Nat \ {0} /\ conf.maxSlots \in Nat \ {0}
BY ConfigurationsOK

\* A step that changes one EPN.
LEMMA OneEpn ==
    ASSUME EpnTypes, NEW e \in EPNs, NEW v, UNCHANGED conf, epn' = [epn EXCEPT ![e] = v],
           DOMAIN v = EpnFields, v.pc \in EpnPcs, v.freeSlots \in Int, v.loaded \in Int
    PROVE  /\ EpnTypes'
           /\ epn'[e] = v /\ \A o \in EPNs \ {e} : epn'[o] = epn[o]
BY DEF EpnTypes, EPNs

\* What an EPN does with its own record and threads does not concern the others.
LEMMA OtherSlots ==
    ASSUME NEW o \in EPNs, SlotsInv(o), UNCHANGED conf, epn'[o] = epn[o], work'[o] = work[o],
           raced'[o] = raced[o]
    PROVE  SlotsInv(o)'
BY Zenon DEF SlotsInv, AtRest, Taking, Storing, InProcess

\* Steps of the scheduler, of its senders, of an FLP and of the clock.
LEMMA SlotsQuiet ==
    ASSUME SlotsIInv, UNCHANGED <<conf, epn, work, raced>>
    PROVE  SlotsIInv'
<1>1. EpnTypes' /\ WorkTypes' /\ EPNs' = EPNs
  BY DEF SlotsIInv, EpnTypes, WorkTypes, EPNs
<1>2. \A o \in EPNs : SlotsInv(o)'
  BY OtherSlots DEF SlotsIInv
<1>3. QED
  BY <1>1, <1>2 DEF SlotsIInv

\* Steps of an EPN that start or end no thread and race with none.
LEMMA SlotsRun ==
    ASSUME SlotsIInv, NEW e \in EPNs, NEW v, UNCHANGED <<conf, work>>, epn' = [epn EXCEPT ![e] = v],
           DOMAIN v = EpnFields, v.pc \in EpnPcs, v.freeSlots \in Int, v.loaded \in Int,
           raced' \in [EPNs -> BOOLEAN], \A o \in EPNs \ {e} : raced'[o] = raced[o],
           ~raced'[e] =>
               /\ ~raced[e]
               /\ \/ v.pc = epn[e].pc /\ v.freeSlots = epn[e].freeSlots /\ v.loaded = epn[e].loaded
                  \/ SlotsInv(e)'
    PROVE  SlotsIInv'
<1>1. /\ EpnTypes' /\ epn'[e] = v /\ \A o \in EPNs \ {e} : epn'[o] = epn[o]
  BY Zenon, OneEpn DEF SlotsIInv
<1>2. WorkTypes' /\ EPNs' = EPNs
  BY DEF SlotsIInv, WorkTypes, EPNs
<1>3. ASSUME NEW o \in EPNs PROVE SlotsInv(o)'
  <2>1. CASE o # e
    BY <1>1, <2>1, OtherSlots DEF SlotsIInv
  <2>2. CASE o = e /\ raced'[e]
    BY <2>2 DEF SlotsInv
  <2>3. CASE o = e /\ ~raced'[e] /\ v.pc = epn[e].pc /\ v.freeSlots = epn[e].freeSlots /\ v.loaded = epn[e].loaded
    <3>1. SlotsInv(e)
      BY DEF SlotsIInv
    <3>2. Storing(e)' = Storing(e) /\ InProcess(e)' = InProcess(e)
      BY DEF Storing, InProcess
    <3>3. AtRest(e) => AtRest(e)'
      BY <1>1, <2>3, <3>2 DEF AtRest
    <3>4. Taking(e) => Taking(e)'
      BY Zenon, <1>1, <2>3, <3>2 DEF Taking
    <3>5. QED
      BY <1>1, <2>3, <3>1, <3>2, <3>3, <3>4 DEF SlotsInv
  <2>4. QED
    BY <2>1, <2>2, <2>3
<1>4. QED
  BY <1>1, <1>2, <1>3 DEF SlotsIInv

LEMMA EpnInitSlots ==
    ASSUME SlotsIInv, NEW e \in EPNs, epn_InitTask(e)
    PROVE  SlotsIInv'
<1> DEFINE v == [epn[e] EXCEPT !.pc = "loop", !.freeSlots = conf.maxSlots, !.startTime = now, !.sender = "loop"]
<1>1. /\ epn[e].pc = "idle" /\ DOMAIN epn[e] = EpnFields /\ epn[e].loaded \in Int /\ conf.maxSlots \in Nat
      /\ UNCHANGED <<conf, work, raced>>
  BY ConfOf DEF epn_InitTask, epnOnly, SlotsIInv, EpnTypes
<1>2. /\ DOMAIN v = EpnFields /\ v.pc = "loop" /\ v.freeSlots = conf.maxSlots /\ v.loaded = epn[e].loaded
  BY <1>1 DEF EpnFields
<1>3. epn' = [epn EXCEPT ![e] = v]
  BY Zenon DEF epn_InitTask, SlotsIInv, EpnTypes
<1> HIDE DEF v
<1>4. epn'[e] = v
  BY <1>3 DEF SlotsIInv, EpnTypes
<1>5. ASSUME ~raced[e] PROVE SlotsInv(e)'
  <2>1. DOMAIN work[e] = {} /\ work'[e] = work[e]
    BY <1>1, <1>5 DEF SlotsIInv, SlotsInv
  <2>2. InProcess(e)' = 0 /\ Storing(e)' = {}
    BY <2>1, FS_EmptySet DEF InProcess, Storing
  <2>3. AtRest(e)'
    BY <1>1, <1>2, <1>4, <2>2 DEF AtRest
  <2>4. QED
    BY <1>2, <1>4, <2>3 DEF SlotsInv
<1>6. v.pc \in EpnPcs /\ v.freeSlots \in Int /\ v.loaded \in Int /\ raced \in [EPNs -> BOOLEAN]
  BY <1>1, <1>2 DEF EpnPcs, SlotsIInv, WorkTypes
<1>7. QED
  BY Zenon, <1>1, <1>2, <1>3, <1>5, <1>6, SlotsRun

\* A report, a poll, and the receipt of a part change no slots.
LEMMA EpnMessagesSlots ==
    ASSUME SlotsIInv, NEW e \in EPNs, EpnReport(e) \/ EpnPoll(e) \/ EpnReceive(e)
    PROVE  SlotsIInv'
<1>1. DOMAIN epn[e] = EpnFields /\ epn[e].pc \in EpnPcs /\ epn[e].freeSlots \in Int /\ epn[e].loaded \in Int
      /\ UNCHANGED <<conf, work, raced>> /\ raced \in [EPNs -> BOOLEAN] /\ DOMAIN epn = EPNs
  BY DEF EpnReport, EpnPoll, EpnReceive, epnOnly, SlotsIInv, EpnTypes, WorkTypes
<1>2. PICK v : /\ epn' = [epn EXCEPT ![e] = v]
               /\ DOMAIN v = EpnFields /\ v.pc \in EpnPcs /\ v.freeSlots = epn[e].freeSlots /\ v.loaded = epn[e].loaded
               /\ \/ v.pc = epn[e].pc
                  \/ {v.pc, epn[e].pc} \subseteq {"loop", "receive", "load", "done"}
  <2>1. CASE EpnReport(e)
    <3>1. CASE epn' = [epn EXCEPT ![e].wake = now + 1]
      <4>1. WITNESS [epn[e] EXCEPT !.wake = now + 1]
      <4>2. QED
        BY <1>1, <3>1 DEF EpnFields
    <3>2. CASE epn' = [epn EXCEPT ![e].sender = "done"]
      <4>1. WITNESS [epn[e] EXCEPT !.sender = "done"]
      <4>2. QED
        BY <1>1, <3>2 DEF EpnFields
    <3>3. QED
      BY <2>1, <3>1, <3>2 DEF EpnReport
  <2>2. CASE EpnPoll(e)
    <3>0. PICK pc \in {"done", "receive"} : \E r : epn' = [epn EXCEPT ![e].pc = pc, ![e].ready = r]
      BY <2>2 DEF EpnPoll
    <3>1. PICK r : epn' = [epn EXCEPT ![e].pc = pc, ![e].ready = r]
      BY <3>0
    <3>2. epn[e].pc = "loop"
      BY <2>2 DEF EpnPoll
    <3>3. WITNESS [epn[e] EXCEPT !.pc = pc, !.ready = r]
    <3>4. QED
      BY Zenon, <1>1, <3>1, <3>2 DEF EpnFields, EpnPcs
  <2>3. CASE EpnReceive(e)
    <3>0. PICK pc \in {"load", "loop", "receive"} : \E r, m :
              epn' = [epn EXCEPT ![e] = [[epn[e] EXCEPT !.ready = r] EXCEPT !.rcvdSTFs = m, !.pc = pc]]
      BY Zenon, <2>3 DEF EpnReceive, NextInput
    <3>1. PICK r, m :
              epn' = [epn EXCEPT ![e] = [[epn[e] EXCEPT !.ready = r] EXCEPT !.rcvdSTFs = m, !.pc = pc]]
      BY <3>0
    <3>2. epn[e].pc = "receive"
      BY <2>3 DEF EpnReceive
    <3>3. WITNESS [[epn[e] EXCEPT !.ready = r] EXCEPT !.rcvdSTFs = m, !.pc = pc]
    <3>4. QED
      BY <1>1, <3>1, <3>2 DEF EpnFields, EpnPcs
  <2>4. QED
    BY <2>1, <2>2, <2>3
<1>3. epn'[e] = v
  BY <1>1, <1>2
<1>4. ASSUME ~raced[e], v.pc # epn[e].pc PROVE SlotsInv(e)'
  <2>1. AtRest(e)
    BY <1>2, <1>4 DEF SlotsIInv, SlotsInv
  <2>2. Storing(e)' = Storing(e) /\ InProcess(e)' = InProcess(e)
    BY <1>1 DEF Storing, InProcess
  <2>3. AtRest(e)'
    BY <1>1, <1>2, <1>3, <2>1, <2>2 DEF AtRest
  <2>4. QED
    BY <1>2, <1>3, <1>4, <2>3 DEF SlotsInv
<1>5. QED
  BY Zenon, <1>1, <1>2, <1>4, SlotsRun

\* The slot that a time frame takes: load, store.
LEMMA EpnTakeSlots ==
    ASSUME SlotsIInv, NEW e \in EPNs, EpnLoad(e) \/ EpnStore(e)
    PROVE  SlotsIInv'
<1>1. DOMAIN epn[e] = EpnFields /\ epn[e].freeSlots \in Int /\ epn[e].loaded \in Int
      /\ UNCHANGED <<conf, work>> /\ raced \in [EPNs -> BOOLEAN] /\ DOMAIN epn = EPNs
  BY DEF EpnLoad, EpnStore, epnOnly, SlotsIInv, EpnTypes, WorkTypes
<1>2. Storing(e)' = Storing(e) /\ InProcess(e)' = InProcess(e)
  BY <1>1 DEF Storing, InProcess
<1>3. conf.maxSlots \in Nat /\ InProcess(e) \in Nat
  BY ConfOf, FS_CardinalityType DEF SlotsIInv, EpnTypes, WorkTypes, InProcess
<1>4. CASE EpnLoad(e)
  <2> DEFINE v == [epn[e] EXCEPT !.loaded = epn[e].freeSlots, !.pc = "store"]
  <2>1. DOMAIN v = EpnFields /\ v.pc = "store" /\ v.freeSlots = epn[e].freeSlots /\ v.loaded = epn[e].freeSlots
    BY <1>1 DEF EpnFields
  <2>2. epn' = [epn EXCEPT ![e] = v] /\ epn[e].pc = "load"
    BY Zenon, <1>1, <1>4 DEF EpnLoad
  <2> HIDE DEF v
  <2>3. epn'[e] = v
    BY <1>1, <2>2
  <2>4. /\ raced' \in [EPNs -> BOOLEAN] /\ \A o \in EPNs \ {e} : raced'[o] = raced[o]
        /\ raced'[e] <=> raced[e] \/ Incrementing(e)
    BY Zenon, <1>1, <1>4 DEF EpnLoad, Incrementing
  <2>5. ASSUME ~raced'[e] PROVE SlotsInv(e)'
    <3>1. AtRest(e) /\ Storing(e) = {}
      BY <2>2, <2>4, <2>5 DEF SlotsIInv, SlotsInv, Storing, Incrementing
    <3>2. Taking(e)'
      BY Zenon, <1>1, <1>2, <2>1, <2>3, <3>1 DEF AtRest, Taking
    <3>3. QED
      BY <1>2, <2>1, <2>3, <3>1, <3>2 DEF SlotsInv
  <2>6. v.pc \in EpnPcs
    BY <2>1 DEF EpnPcs
  <2>7. QED
    BY Zenon, <1>1, <2>1, <2>2, <2>4, <2>5, <2>6, SlotsRun
<1>5. CASE EpnStore(e)
  <2> DEFINE v == [epn[e] EXCEPT !.freeSlots = epn[e].loaded - 1, !.pc = "compare"]
  <2>1. DOMAIN v = EpnFields /\ v.pc = "compare" /\ v.freeSlots = epn[e].loaded - 1 /\ v.loaded = epn[e].loaded
    BY <1>1 DEF EpnFields
  <2>2. epn' = [epn EXCEPT ![e] = v] /\ epn[e].pc = "store" /\ UNCHANGED raced
    BY Zenon, <1>1, <1>5 DEF EpnStore
  <2> HIDE DEF v
  <2>3. epn'[e] = v
    BY <1>1, <2>2
  <2>4. ASSUME ~raced[e] PROVE SlotsInv(e)'
    <3>1. Taking(e) /\ Storing(e) = {}
      BY <2>2, <2>4 DEF SlotsIInv, SlotsInv
    <3>2. epn[e].freeSlots + InProcess(e) = conf.maxSlots /\ epn[e].freeSlots >= 0 /\ epn[e].loaded = epn[e].freeSlots
      BY <2>2, <3>1 DEF Taking
    <3>3. /\ v.freeSlots + InProcess(e) = conf.maxSlots - 1 /\ v.freeSlots >= -1
          /\ v.loaded = v.freeSlots + 1
      BY <1>1, <1>3, <2>1, <3>2
    <3>4. Taking(e)'
      BY Zenon, <1>1, <1>2, <2>1, <2>3, <3>3 DEF Taking
    <3>5. QED
      BY <1>2, <2>1, <2>3, <3>1, <3>4 DEF SlotsInv
  <2>5. v.pc \in EpnPcs /\ v.freeSlots \in Int
    BY <1>1, <2>1 DEF EpnPcs
  <2>6. QED
    BY Zenon, <1>1, <2>1, <2>2, <2>4, <2>5, SlotsRun
<1>6. QED
  BY <1>4, <1>5

\* The number of a new thread is not in use.
LEMMA NewThread ==
    ASSUME NEW W, IsFiniteSet(W)
    PROVE  (CHOOSE w \in 1 .. (Cardinality(W) + 1) : w \notin W) \notin W
<1> DEFINE n == Cardinality(W)
<1>1. n \in Nat
  BY FS_CardinalityType
<1>2. IsFiniteSet(1 .. (n + 1)) /\ Cardinality(1 .. (n + 1)) = n + 1
  BY <1>1, FS_Interval
<1>3. \E w \in 1 .. (n + 1) : w \notin W
  <2>1. SUFFICES ASSUME (1 .. (n + 1)) \subseteq W PROVE FALSE
    OBVIOUS
  <2>2. Cardinality(1 .. (n + 1)) <= n
    BY Zenon, <2>1, FS_Subset
  <2>3. QED
    BY <1>1, <1>2, <2>2
<1>4. QED
  BY <1>3

\* A step that changes an EPN and its threads.
LEMMA SlotsThreads ==
    ASSUME SlotsIInv, NEW e \in EPNs, UNCHANGED conf,
           EpnTypes', \A o \in EPNs \ {e} : epn'[o] = epn[o],
           NEW t, work' = [work EXCEPT ![e] = t], IsFiniteSet(DOMAIN t), \A w \in DOMAIN t : t[w] \in Threads,
           raced' \in [EPNs -> BOOLEAN], \A o \in EPNs \ {e} : raced'[o] = raced[o],
           ~raced'[e] => SlotsInv(e)'
    PROVE  SlotsIInv'
<1>1. EPNs' = EPNs /\ work'[e] = t /\ \A o \in EPNs \ {e} : work'[o] = work[o]
  BY DEF SlotsIInv, WorkTypes, EPNs
<1>2. WorkTypes'
  BY Zenon, <1>1 DEF SlotsIInv, WorkTypes
<1>3. ASSUME NEW o \in EPNs PROVE SlotsInv(o)'
  <2>1. CASE o # e
    BY <1>1, <2>1, OtherSlots DEF SlotsIInv
  <2>2. CASE o = e
    BY <2>2 DEF SlotsInv
  <2>3. QED
    BY <2>1, <2>2
<1>4. QED
  BY <1>1, <1>2, <1>3 DEF SlotsIInv

\* With a slot a thread is started; without one the time frame is lost.
LEMMA EpnCompareSlots ==
    ASSUME SlotsIInv, NEW e \in EPNs, EpnCompare(e)
    PROVE  SlotsIInv'
<1> DEFINE W == DOMAIN work[e]
           w == CHOOSE w \in 1 .. (Cardinality(W) + 1) : w \notin W
           t == With(work[e], w, [pc |-> "asleep", loaded |-> 0])
<1>1. /\ DOMAIN epn[e] = EpnFields /\ epn[e].freeSlots \in Int /\ epn[e].loaded \in Int /\ epn[e].pc = "compare"
      /\ UNCHANGED <<conf, raced>> /\ raced \in [EPNs -> BOOLEAN] /\ DOMAIN epn = EPNs /\ IsFiniteSet(W)
      /\ DOMAIN work = EPNs
  BY DEF EpnCompare, epnOnly, SlotsIInv, EpnTypes, WorkTypes
<1>2. conf.maxSlots \in Nat /\ InProcess(e) \in Nat
  BY ConfOf, FS_CardinalityType DEF SlotsIInv, EpnTypes, WorkTypes, InProcess
<1>3. ASSUME ~raced[e]
      PROVE  /\ Storing(e) = {} /\ epn[e].freeSlots + InProcess(e) = conf.maxSlots - 1
             /\ epn[e].freeSlots >= -1 /\ epn[e].loaded = epn[e].freeSlots + 1
  BY Zenon, <1>1, <1>3 DEF SlotsIInv, SlotsInv, Taking
<1>4. PICK slots \in {epn[e].loaded - 1, epn[e].freeSlots} :
          IF slots >= 0
          THEN /\ work' = [work EXCEPT ![e] = t]
               /\ epn' = [epn EXCEPT ![e].pc = NextInput(epn[e]), ![e].loaded = 0]
          ELSE /\ epn' = [epn EXCEPT ![e].pc = "reset", ![e].loaded = 0]
               /\ UNCHANGED work
  BY <1>1 DEF EpnCompare
<1>5. ASSUME ~raced[e] PROVE slots = epn[e].freeSlots
  BY <1>1, <1>3, <1>4, <1>5
<1>6. w \notin W
  BY <1>1, NewThread
<1>7. DOMAIN t = W \cup {w} /\ \A o \in DOMAIN t : t[o] = IF o = w THEN [pc |-> "asleep", loaded |-> 0] ELSE work[e][o]
  BY DEF With
<1> HIDE DEF w, t
<1>8. CASE slots >= 0
  <2> DEFINE v == [epn[e] EXCEPT !.pc = NextInput(epn[e]), !.loaded = 0]
  <2>1. DOMAIN v = EpnFields /\ v.pc = NextInput(epn[e]) /\ v.freeSlots = epn[e].freeSlots /\ v.loaded = 0
        /\ 0 \in Int
    BY <1>1 DEF EpnFields
  <2>2. v.pc \in {"loop", "receive"} /\ v.pc \in EpnPcs
    BY <2>1 DEF NextInput, EpnPcs
  <2>3. epn' = [epn EXCEPT ![e] = v] /\ work' = [work EXCEPT ![e] = t]
    BY Zenon, <1>1, <1>4, <1>8
  <2> HIDE DEF v
  <2>4. EpnTypes' /\ epn'[e] = v /\ \A o \in EPNs \ {e} : epn'[o] = epn[o]
    BY Zenon, <1>1, <2>1, <2>2, <2>3, OneEpn DEF SlotsIInv
  <2>5. IsFiniteSet(DOMAIN t) /\ Cardinality(DOMAIN t) = InProcess(e) + 1
    BY <1>1, <1>6, <1>7, FS_AddElement DEF InProcess
  <2>6. \A o \in DOMAIN t : t[o] \in Threads
    BY <1>7 DEF Threads, SlotsIInv, WorkTypes
  <2>7. work'[e] = t
    BY <1>1, <2>3
  <2>8. ASSUME ~raced[e] PROVE SlotsInv(e)'
    <3>1. InProcess(e)' = InProcess(e) + 1
      BY <2>5, <2>7 DEF InProcess
    <3>2. Storing(e)' = {}
      BY <1>3, <1>7, <2>7, <2>8 DEF Storing
    <3>3. epn'[e].freeSlots + InProcess(e)' = conf.maxSlots /\ epn'[e].freeSlots >= 0
      BY <1>1, <1>2, <1>3, <1>5, <1>8, <2>1, <2>4, <2>8, <3>1
    <3>4. AtRest(e)'
      BY <1>1, <3>2, <3>3 DEF AtRest
    <3>5. QED
      BY <2>2, <2>4, <3>4 DEF SlotsInv
  <2>9. QED
    BY Zenon, <1>1, <2>3, <2>4, <2>5, <2>6, <2>8, SlotsThreads
<1>9. CASE ~(slots >= 0)
  <2> DEFINE v == [epn[e] EXCEPT !.pc = "reset", !.loaded = 0]
  <2>1. DOMAIN v = EpnFields /\ v.pc = "reset" /\ v.freeSlots = epn[e].freeSlots /\ v.loaded = 0 /\ v.pc \in EpnPcs
        /\ 0 \in Int
    BY <1>1 DEF EpnFields, EpnPcs
  <2>2. epn' = [epn EXCEPT ![e] = v] /\ work' = work
    BY Zenon, <1>1, <1>4, <1>9
  <2> HIDE DEF v
  <2>3. epn'[e] = v
    BY <1>1, <2>2
  <2>4. ASSUME ~raced[e] PROVE SlotsInv(e)'
    <3>1. InProcess(e)' = InProcess(e) /\ Storing(e)' = {}
      BY <1>3, <2>2, <2>4 DEF InProcess, Storing
    <3>2. InProcess(e) = conf.maxSlots
      BY <1>1, <1>2, <1>3, <1>5, <1>9, <2>4
    <3>3. Taking(e)'
      BY Zenon, <1>1, <2>1, <2>3, <3>1, <3>2 DEF Taking
    <3>4. QED
      BY <2>1, <2>3, <3>1, <3>3 DEF SlotsInv
  <2>5. QED
    BY Zenon, <1>1, <2>1, <2>2, <2>4, SlotsRun
<1>10. QED
  BY <1>8, <1>9

LEMMA EpnResetSlots ==
    ASSUME SlotsIInv, NEW e \in EPNs, EpnReset(e)
    PROVE  SlotsIInv'
<1> DEFINE v == [epn[e] EXCEPT !.freeSlots = 0, !.pc = NextInput(epn[e])]
<1>1. /\ DOMAIN epn[e] = EpnFields /\ epn[e].loaded \in Int /\ epn[e].pc = "reset"
      /\ UNCHANGED <<conf, work, raced>> /\ raced \in [EPNs -> BOOLEAN] /\ DOMAIN epn = EPNs
  BY DEF EpnReset, epnOnly, SlotsIInv, EpnTypes, WorkTypes
<1>2. DOMAIN v = EpnFields /\ v.pc = NextInput(epn[e]) /\ v.freeSlots = 0 /\ v.loaded = epn[e].loaded /\ 0 \in Int
  BY <1>1 DEF EpnFields
<1>3. v.pc \in {"loop", "receive"} /\ v.pc \in EpnPcs
  BY <1>2 DEF NextInput, EpnPcs
<1>4. epn' = [epn EXCEPT ![e] = v]
  BY Zenon, <1>1 DEF EpnReset, NoSlots
<1> HIDE DEF v
<1>5. epn'[e] = v
  BY <1>1, <1>4
<1>6. ASSUME ~raced[e] PROVE SlotsInv(e)'
  <2>1. Storing(e) = {} /\ InProcess(e) = conf.maxSlots /\ conf.maxSlots \in Nat
    BY Zenon, <1>1, <1>6, ConfOf DEF SlotsIInv, SlotsInv, Taking, EpnTypes
  <2>2. InProcess(e)' = InProcess(e) /\ Storing(e)' = {}
    BY <1>1, <2>1 DEF InProcess, Storing
  <2>3. AtRest(e)'
    BY <1>1, <1>2, <1>5, <2>1, <2>2 DEF AtRest
  <2>4. QED
    BY <1>3, <1>5, <2>3 DEF SlotsInv
<1>7. QED
  BY Zenon, <1>1, <1>2, <1>3, <1>4, <1>6, SlotsRun

\* MyDelayedFun loads freeSlots; unless it races it is the only one, at rest.
LEMMA DelayedLoadSlots ==
    ASSUME SlotsIInv, NEW e \in EPNs, NEW w \in DOMAIN work[e], DelayedLoad(e, w)
    PROVE  SlotsIInv'
<1> DEFINE r == [pc |-> "store", loaded |-> epn[e].freeSlots]
           t == [work[e] EXCEPT ![w] = r]
<1>1. /\ epn[e].freeSlots \in Int /\ epn[e].pc \in EpnPcs /\ UNCHANGED <<conf, epn>> /\ DOMAIN work = EPNs
      /\ raced \in [EPNs -> BOOLEAN] /\ IsFiniteSet(DOMAIN work[e])
  BY DEF DelayedLoad, epnOnly, SlotsIInv, EpnTypes, WorkTypes
<1>2. EpnTypes' /\ \A o \in EPNs \ {e} : epn'[o] = epn[o]
  BY <1>1 DEF SlotsIInv, EpnTypes, EPNs
<1>3. DOMAIN t = DOMAIN work[e] /\ \A o \in DOMAIN t : t[o] = IF o = w THEN r ELSE work[e][o]
  OBVIOUS
<1>4. r \in Threads /\ r.pc = "store" /\ r.loaded = epn[e].freeSlots
  BY <1>1 DEF Threads
<1>5. work' = [work EXCEPT ![e] = t]
  BY <1>1 DEF DelayedLoad
<1>6. /\ raced' \in [EPNs -> BOOLEAN] /\ \A o \in EPNs \ {e} : raced'[o] = raced[o]
      /\ raced'[e] <=> raced[e] \/ Incrementing(e) \/ epn[e].pc \in {"store", "compare", "reset"}
  BY Zenon, <1>1 DEF DelayedLoad, Incrementing
<1> HIDE DEF t, r
<1>7. work'[e] = t
  BY <1>1, <1>5
<1>8. ASSUME ~raced'[e] PROVE SlotsInv(e)'
  <2>1. ~raced[e] /\ Storing(e) = {} /\ epn[e].pc \notin {"store", "compare", "reset", "idle"}
    BY <1>6, <1>8 DEF Storing, Incrementing, SlotsIInv, SlotsInv
  <2>2. AtRest(e)
    BY <1>1, <2>1 DEF SlotsIInv, SlotsInv, EpnPcs
  <2>3. InProcess(e)' = InProcess(e)
    BY <1>3, <1>7 DEF InProcess
  <2>4. Storing(e)' = {w}
    BY <1>3, <1>4, <1>7, <2>1 DEF Storing
  <2>5. AtRest(e)'
    BY <1>1, <1>3, <1>4, <1>7, <2>2, <2>3, <2>4 DEF AtRest
  <2>6. QED
    BY <1>1, <2>1, <2>5 DEF SlotsInv
<1>9. \A o \in DOMAIN t : t[o] \in Threads
  BY <1>3, <1>4 DEF SlotsIInv, WorkTypes
<1>10. IsFiniteSet(DOMAIN t)
  BY <1>1, <1>3
<1>11. QED
  BY Zenon, <1>1, <1>2, <1>5, <1>6, <1>8, <1>9, <1>10, SlotsThreads

\* It stores what it loaded and one more, and ends.
LEMMA DelayedStoreSlots ==
    ASSUME SlotsIInv, NEW e \in EPNs, NEW w \in DOMAIN work[e], DelayedStore(e, w)
    PROVE  SlotsIInv'
<1> DEFINE t == [o \in DOMAIN work[e] \ {w} |-> work[e][o]]
           v == [epn[e] EXCEPT !.freeSlots = work[e][w].loaded + 1]
<1>1. /\ DOMAIN epn[e] = EpnFields /\ epn[e].pc \in EpnPcs /\ epn[e].freeSlots \in Int /\ epn[e].loaded \in Int
      /\ UNCHANGED <<conf, raced>> /\ DOMAIN work = EPNs /\ DOMAIN epn = EPNs /\ raced \in [EPNs -> BOOLEAN]
      /\ IsFiniteSet(DOMAIN work[e]) /\ work[e][w] \in Threads /\ work[e][w].pc = "store"
  BY DEF DelayedStore, epnOnly, SlotsIInv, EpnTypes, WorkTypes
<1>2. work[e][w].loaded \in Int
  BY <1>1 DEF Threads
<1>3. DOMAIN v = EpnFields /\ v.pc = epn[e].pc /\ v.freeSlots = work[e][w].loaded + 1 /\ v.loaded = epn[e].loaded
  BY <1>1 DEF EpnFields
<1>4. epn' = [epn EXCEPT ![e] = v] /\ work' = [work EXCEPT ![e] = t]
  BY <1>1 DEF DelayedStore
<1>5. DOMAIN t = DOMAIN work[e] \ {w} /\ \A o \in DOMAIN t : t[o] = work[e][o]
  OBVIOUS
<1> HIDE DEF t, v
<1>6. v.freeSlots \in Int
  BY <1>2, <1>3
<1>7. EpnTypes' /\ epn'[e] = v /\ \A o \in EPNs \ {e} : epn'[o] = epn[o]
  BY Zenon, <1>1, <1>3, <1>4, <1>6, OneEpn DEF SlotsIInv
<1>8. IsFiniteSet(DOMAIN t) /\ Cardinality(DOMAIN t) = InProcess(e) - 1 /\ InProcess(e) \in Nat
  BY <1>1, <1>5, FS_RemoveElement, FS_CardinalityType DEF InProcess
<1>9. work'[e] = t /\ \A o \in DOMAIN t : t[o] \in Threads
  BY <1>1, <1>4, <1>5 DEF SlotsIInv, WorkTypes
<1>10. ASSUME ~raced[e] PROVE SlotsInv(e)'
  <2>1. w \in Storing(e)
    BY <1>1 DEF Storing
  <2>2. epn[e].pc \in {"loop", "receive", "load", "done"} /\ AtRest(e)
    BY <1>1, <1>10, <2>1 DEF SlotsIInv, SlotsInv, EpnPcs
  <2>3. v.freeSlots = epn[e].freeSlots + 1
    BY <1>3, <2>1, <2>2 DEF AtRest
  <2>4. InProcess(e)' = InProcess(e) - 1
    BY <1>8, <1>9 DEF InProcess
  <2>5. Storing(e)' = {}
    <3>1. \A o \in DOMAIN work[e] : o \in Storing(e) => o = w
      BY <2>1, <2>2 DEF AtRest
    <3>2. QED
      BY <1>5, <1>9, <3>1 DEF Storing
  <2>6. epn[e].freeSlots + InProcess(e) = conf.maxSlots /\ epn[e].freeSlots >= 0 /\ conf.maxSlots \in Nat
    BY <2>2, ConfOf DEF AtRest, SlotsIInv, EpnTypes
  <2>7. AtRest(e)'
    BY <1>1, <1>7, <1>8, <2>3, <2>4, <2>5, <2>6 DEF AtRest
  <2>8. QED
    BY <1>3, <1>7, <2>2, <2>7 DEF SlotsInv
<1>11. QED
  BY Zenon, <1>1, <1>4, <1>7, <1>8, <1>9, <1>10, SlotsThreads

LEMMA SlotsInit ==
    ASSUME Init
    PROVE  SlotsIInv
<1>1. \A e \in EPNs : /\ DOMAIN epn[e] = EpnFields /\ epn[e].pc = "idle"
                      /\ epn[e].freeSlots = 0 /\ epn[e].loaded = 0
  BY DEF Init, EpnFields
<1>2. EpnTypes
  BY <1>1 DEF Init, EpnTypes, EpnPcs
<1>3. \A e \in EPNs : DOMAIN work[e] = {}
  BY DEF Init
<1>4. WorkTypes
  BY <1>3, FS_EmptySet DEF Init, WorkTypes
<1>5. QED
  BY <1>1, <1>2, <1>3, <1>4 DEF SlotsIInv, SlotsInv

LEMMA SlotsStep ==
    ASSUME SlotsIInv, [Next]_vars
    PROVE  SlotsIInv'
<1>1. CASE Tick \/ Scheduler \/ Sender \/ UNCHANGED vars
  <2>1. UNCHANGED <<conf, epn, work, raced>>
    BY Zenon, <1>1 DEF Tick, Scheduler, Sender, vars, scheduler_InitTask, CheckTime, ReceiveReport, Generate,
                ClearVector, LoadVector, SendSchedule, SendFails, SendersKilled, schedulerOnly
  <2>2. QED
    BY <2>1, SlotsQuiet
<1>2. ASSUME NEW f \in FLPs, Flp(f) PROVE SlotsIInv'
  <2>1. UNCHANGED <<conf, epn, work, raced>>
    BY Zenon, <1>2 DEF Flp, flp_InitTask, FlpLoop, FlpReceive, FlpSend, flpOnly
  <2>2. QED
    BY <2>1, SlotsQuiet
<1>3. ASSUME NEW e \in EPNs, Epn(e) \/ EpnReport(e) \/ Delayed(e) PROVE SlotsIInv'
  BY <1>3, EpnInitSlots, EpnMessagesSlots, EpnTakeSlots, EpnCompareSlots, EpnResetSlots,
     DelayedLoadSlots, DelayedStoreSlots DEF Epn, Delayed
<1>4. QED
  BY <1>1, <1>2, <1>3 DEF Next

\* epn::receive and MyDelayedFun: for any numbers of devices and slots and any times, the
\* free slots and the time frames in process make up all slots between two messages, until
\* an increment overlaps another access of freeSlots.
THEOREM SlotsAreAccounted == Spec => []SlotsAccounted
<1>1. Init => SlotsIInv
  BY SlotsInit
<1>2. SlotsIInv /\ [Next]_vars => SlotsIInv'
  BY SlotsStep
<1>3. SlotsIInv => SlotsAccounted
  BY DEF SlotsIInv, SlotsInv, AtRest, InProcess, SlotsAccounted
<1>4. QED
  BY <1>1, <1>2, <1>3, PTL DEF Spec

-----------------------------------------------------------------------------
(* The parts of a time frame.                                              *)

\* A message added to a queue.
LEMMA Longer ==
    ASSUME NEW V, NEW q \in Seq(V), NEW v
    PROVE  /\ q \in Seq(V \cup {v}) /\ Append(q, v) \in Seq(V \cup {v})
           /\ Len(q) \in Nat /\ Len(Append(q, v)) = Len(q) + 1 /\ Append(q, v)[Len(q) + 1] = v
           /\ \A i \in 1 .. Len(q) : Append(q, v)[i] = q[i]
OBVIOUS

\* A message taken from a queue.
LEMMA Shorter ==
    ASSUME NEW V, NEW q \in Seq(V), q # <<>>
    PROVE  /\ Head(q) \in V /\ Head(q) = q[1] /\ Tail(q) \in Seq(V)
           /\ Len(q) \in Nat \ {0} /\ Len(Tail(q)) = Len(q) - 1
           /\ \A i \in 1 .. (Len(q) - 1) : Tail(q)[i] = q[i + 1]
OBVIOUS

LEMMA FlpsFinite ==
    ASSUME conf \in Configurations
    PROVE  IsFiniteSet(FLPs) /\ Cardinality(FLPs) = conf.flps /\ conf.flps \in Nat
<1>1. conf.flps \in Nat \ {0}
  BY ConfOf
<1>2. IsFiniteSet(FLPs) /\ Cardinality(FLPs) = conf.flps
  BY <1>1, FS_Interval DEF FLPs
<1>3. QED
  BY <1>1, <1>2

LEMMA GivenFinite ==
    ASSUME conf \in Configurations, NEW e, NEW s
    PROVE  /\ IsFiniteSet(Given(e, s)) /\ Cardinality(Given(e, s)) \in Nat
           /\ Cardinality(Given(e, s)) <= conf.flps
<1>1. conf.flps \in Nat
  BY FlpsFinite
<1>2. IsFiniteSet(FLPs) /\ Cardinality(FLPs) = conf.flps
  BY FlpsFinite
<1>3. Given(e, s) \in SUBSET FLPs
  BY DEF Given
<1>4. QED
  BY <1>1, <1>2, <1>3, FS_Subset, FS_CardinalityType

\* What was given to an EPN stays given.
LEMMA CountKept ==
    ASSUME conf \in Configurations, UNCHANGED conf, DataTypes, DataTypes', NEW e \in EPNs, CountInv(e),
           epn'[e].rcvdSTFs = epn[e].rcvdSTFs,
           \A f \in FLPs : flp[f].sTF <= flp'[f].sTF,
           \A f \in FLPs, s \in Nat : s <= flp[f].sTF /\ Queued(f, e, s)' => Queued(f, e, s)
    PROVE  CountInv(e)'
<1> SUFFICES ASSUME NEW s \in DOMAIN epn[e].rcvdSTFs
             PROVE  epn[e].rcvdSTFs[s] <= Cardinality(Given(e, s)')
  BY DEF CountInv
<1>1. s \in Nat /\ epn[e].rcvdSTFs[s] \in Nat /\ epn[e].rcvdSTFs[s] <= Cardinality(Given(e, s))
  BY DEF CountInv
<1>2. Given(e, s) \subseteq Given(e, s)'
  <2>1. ASSUME NEW f \in Given(e, s) PROVE f \in Given(e, s)'
    <3>1. f \in FLPs /\ s <= flp[f].sTF /\ ~Queued(f, e, s) /\ FLPs' = FLPs
      BY DEF Given, FLPs
    <3>2. flp[f].sTF \in Nat /\ flp'[f].sTF \in Nat /\ flp[f].sTF <= flp'[f].sTF
      BY <3>1 DEF DataTypes
    <3>3. s <= flp'[f].sTF
      BY <1>1, <3>1, <3>2
    <3>4. QED
      BY <1>1, <3>1, <3>3 DEF Given
  <2>2. QED
    BY <2>1
<1>3. /\ IsFiniteSet(Given(e, s)') /\ Cardinality(Given(e, s)') \in Nat
  <2>1. IsFiniteSet(FLPs)
    BY FlpsFinite
  <2>2. Given(e, s)' \subseteq FLPs
    BY DEF Given, FLPs
  <2>3. QED
    BY <2>1, <2>2, FS_Subset, FS_CardinalityType
<1>4. Cardinality(Given(e, s)) <= Cardinality(Given(e, s)') /\ Cardinality(Given(e, s)) \in Nat
  BY <1>2, <1>3, FS_Subset, GivenFinite
<1>5. QED
  BY <1>1, <1>3, <1>4

\* Steps that neither send nor receive a part.
LEMMA PartsQuiet ==
    ASSUME conf \in Configurations, PartsIInv, UNCHANGED <<conf, data>>,
           DOMAIN flp' = FLPs, \A f \in FLPs : DOMAIN flp'[f] = FlpFields /\ flp'[f].sTF = flp[f].sTF,
           \A e \in EPNs : epn'[e].rcvdSTFs = epn[e].rcvdSTFs /\ ReadyInv(e)'
    PROVE  PartsIInv'
<1>1. EPNs' = EPNs /\ FLPs' = FLPs
  BY DEF EPNs, FLPs
<1>2. DataTypes'
  BY <1>1 DEF PartsIInv, DataTypes
<1>3. \A f \in FLPs, e \in EPNs : InOrder(f, e)'
  BY DEF PartsIInv, InOrder
<1>4. ASSUME NEW e \in EPNs PROVE CountInv(e)'
  <2>1. \A f \in FLPs, s \in Nat : Queued(f, e, s)' => Queued(f, e, s)
    BY DEF Queued
  <2>2. \A f \in FLPs : flp[f].sTF <= flp'[f].sTF
    BY DEF PartsIInv, DataTypes
  <2>3. DataTypes /\ CountInv(e)
    BY DEF PartsIInv
  <2>4. QED
    BY <1>2, <2>1, <2>2, <2>3, CountKept
<1>5. QED
  BY <1>1, <1>2, <1>3, <1>4 DEF PartsIInv

\* An FLP that does not send.
LEMMA FlpQuietParts ==
    ASSUME conf \in Configurations, PartsIInv, NEW f \in FLPs, flp_InitTask(f) \/ FlpLoop(f) \/ FlpReceive(f)
    PROVE  PartsIInv'
<1>1. UNCHANGED <<conf, data, epn>> /\ DOMAIN flp = FLPs
      /\ \A g \in FLPs : DOMAIN flp[g] = FlpFields
  BY DEF flp_InitTask, FlpLoop, FlpReceive, flpOnly, PartsIInv, DataTypes
<1>2. DOMAIN flp' = FLPs /\ \A g \in FLPs : DOMAIN flp'[g] = FlpFields /\ flp'[g].sTF = flp[g].sTF
  <2>1. CASE flp_InitTask(f)
    BY <1>1, <2>1 DEF flp_InitTask, FlpFields
  <2>2. CASE FlpLoop(f)
    BY <1>1, <2>2 DEF FlpLoop, FlpFields
  <2>3. CASE FlpReceive(f)
    BY <1>1, <2>3 DEF FlpReceive, FlpFields
  <2>4. QED
    BY <2>1, <2>2, <2>3
<1>3. \A e \in EPNs : ReadyInv(e)'
  BY <1>1 DEF PartsIInv, ReadyInv, FLPs
<1>4. QED
  BY <1>1, <1>2, <1>3, PartsQuiet

\* The other devices.
LEMMA OtherQuietParts ==
    ASSUME conf \in Configurations, PartsIInv, UNCHANGED <<conf, data, epn, flp>>
    PROVE  PartsIInv'
<1>1. \A e \in EPNs : ReadyInv(e)'
  BY DEF PartsIInv, ReadyInv, FLPs
<1>2. DOMAIN flp' = FLPs /\ \A g \in FLPs : DOMAIN flp'[g] = FlpFields /\ flp'[g].sTF = flp[g].sTF
  BY DEF PartsIInv, DataTypes
<1>3. QED
  BY <1>1, <1>2, PartsQuiet

\* An EPN that does not receive.
LEMMA EpnQuietParts ==
    ASSUME SlotsIInv, PartsIInv, NEW e \in EPNs,
           \/ epn_InitTask(e) \/ EpnReport(e) \/ EpnPoll(e) \/ EpnLoad(e) \/ EpnStore(e) \/ EpnCompare(e)
           \/ EpnReset(e) \/ Delayed(e)
    PROVE  PartsIInv'
<1>1. DOMAIN epn = EPNs /\ DOMAIN epn[e] = EpnFields
  BY Zenon DEF SlotsIInv, EpnTypes
<1>2. conf \in Configurations /\ UNCHANGED <<conf, data, flp>> /\ FLPs' = FLPs
  BY Zenon DEF epn_InitTask, EpnReport, EpnPoll, EpnLoad, EpnStore, EpnCompare, EpnReset, Delayed, DelayedLoad,
         DelayedStore, epnOnly, SlotsIInv, EpnTypes, FLPs
<1> DEFINE Quiet ==
        /\ \A o \in EPNs \ {e} : epn'[o] = epn[o]
        /\ epn'[e].rcvdSTFs = epn[e].rcvdSTFs
        /\ \/ epn'[e].ready = epn[e].ready /\ (epn'[e].pc = "receive" => epn[e].pc = "receive" \/ epn[e].ready # {})
           \/ epn'[e].ready = {f \in FLPs : data[f][e] # <<>>} /\ epn'[e].ready # {}
           \/ epn'[e].ready = {} /\ epn'[e].pc # "receive"
<1>3. Quiet
  <2>1. CASE epn_InitTask(e)
    <3>1. epn' = [epn EXCEPT ![e].pc = "loop", ![e].freeSlots = conf.maxSlots, ![e].startTime = now,
                             ![e].sender = "loop"]
      BY <2>1 DEF epn_InitTask
    <3>2. QED
      BY <1>1, <3>1 DEF EpnFields
  <2>2. CASE EpnReport(e)
    <3>1. epn' = [epn EXCEPT ![e].wake = now + 1] \/ epn' = [epn EXCEPT ![e].sender = "done"]
      BY <2>2 DEF EpnReport
    <3>2. QED
      BY <1>1, <3>1 DEF EpnFields
  <2>3. CASE EpnPoll(e)
    <3>0. PICK over \in BOOLEAN : \E ready :
              /\ ready = {f \in FLPs : data[f][e] # <<>>} /\ (over \/ ready # {})
              /\ epn' = [epn EXCEPT ![e].pc = IF over THEN "done" ELSE "receive",
                                    ![e].ready = IF over THEN {} ELSE ready]
      BY Zenon, <2>3 DEF EpnPoll, OutOfTime
    <3>1. PICK ready :
              /\ ready = {f \in FLPs : data[f][e] # <<>>} /\ (over \/ ready # {})
              /\ epn' = [epn EXCEPT ![e].pc = IF over THEN "done" ELSE "receive",
                                    ![e].ready = IF over THEN {} ELSE ready]
      BY Zenon, <3>0
    <3>2. QED
      BY <1>1, <3>1 DEF EpnFields
  <2>4. CASE EpnLoad(e)
    BY <1>1, <2>4 DEF EpnLoad, EpnFields
  <2>5. CASE EpnStore(e)
    BY <1>1, <2>5 DEF EpnStore, EpnFields
  <2>6. CASE EpnCompare(e)
    <3>1. PICK pc \in {"reset", NextInput(epn[e])} : epn' = [epn EXCEPT ![e].pc = pc, ![e].loaded = 0]
      BY <2>6 DEF EpnCompare
    <3>2. QED
      BY <1>1, <3>1 DEF NextInput, EpnFields
  <2>7. CASE EpnReset(e)
    BY <1>1, <2>7 DEF EpnReset, NextInput, EpnFields
  <2>8. CASE Delayed(e)
    <3>1. PICK slots : epn' = [epn EXCEPT ![e].freeSlots = slots] \/ epn' = epn
      BY <2>8 DEF Delayed, DelayedLoad, DelayedStore
    <3>2. CASE epn' = epn
      BY <3>2
    <3>3. CASE epn' = [epn EXCEPT ![e].freeSlots = slots]
      BY <1>1, <3>3 DEF EpnFields
    <3>4. QED
      BY <3>1, <3>2, <3>3
  <2>9. QED
    BY <2>1, <2>2, <2>3, <2>4, <2>5, <2>6, <2>7, <2>8
<1>4. ASSUME NEW o \in EPNs PROVE epn'[o].rcvdSTFs = epn[o].rcvdSTFs /\ ReadyInv(o)'
  <2>1. ReadyInv(o)
    BY DEF PartsIInv
  <2>2. CASE o # e
    BY <1>2, <1>3, <2>1, <2>2 DEF ReadyInv
  <2>3. CASE o = e
    BY <1>2, <1>3, <2>1, <2>3 DEF ReadyInv
  <2>4. QED
    BY <2>2, <2>3
<1>5. DOMAIN flp' = FLPs /\ \A g \in FLPs : DOMAIN flp'[g] = FlpFields /\ flp'[g].sTF = flp[g].sTF
  BY <1>2 DEF PartsIInv, DataTypes
<1>6. QED
  BY <1>2, <1>4, <1>5, PartsQuiet

\* FlpSend: the number is greater than all before, so that nothing given is queued again.
LEMMA FlpSendParts ==
    ASSUME conf \in Configurations, PartsIInv, NEW f \in FLPs, FlpSend(f)
    PROVE  PartsIInv'
<1>1. PICK c, n : c = flp[f].arrayofEpns[flp[f].i] /\ n = flp[f].sTF + 1
  BY Zenon
<1>2. /\ UNCHANGED <<conf, epn>> /\ EPNs' = EPNs /\ FLPs' = FLPs
      /\ \/ data' = data /\ flp' = [flp EXCEPT ![f].pc = "done", ![f].sTF = n]
         \/ /\ data' = [data EXCEPT ![f][c] = Append(@, n)]
            /\ flp' = [flp EXCEPT ![f].sTF = n, ![f].i = @ + 1, ![f].wake = now + 1,
                                  ![f].pc = IF flp[f].i = conf.amount THEN "loop" ELSE "send"]
  BY Zenon, <1>1 DEF FlpSend, flpOnly, NextSTF, EPNs, FLPs
<1>3. DataTypes /\ flp[f].sTF \in Nat /\ n \in Nat /\ flp[f].sTF < n
  BY <1>1 DEF PartsIInv, DataTypes
<1>4. /\ DOMAIN flp' = FLPs /\ \A g \in FLPs : DOMAIN flp'[g] = FlpFields
      /\ flp'[f].sTF = n /\ \A g \in FLPs \ {f} : flp'[g] = flp[g]
  <2>1. DOMAIN flp = FLPs /\ \A g \in FLPs : DOMAIN flp[g] = FlpFields
    BY <1>3 DEF DataTypes
  <2>2. CASE flp' = [flp EXCEPT ![f].pc = "done", ![f].sTF = n]
    BY <2>1, <2>2 DEF FlpFields
  <2>3. CASE flp' = [flp EXCEPT ![f].sTF = n, ![f].i = @ + 1, ![f].wake = now + 1,
                                ![f].pc = IF flp[f].i = conf.amount THEN "loop" ELSE "send"]
    <3>1. PICK i, wake, pc : flp' = [flp EXCEPT ![f].sTF = n, ![f].i = i, ![f].wake = wake, ![f].pc = pc]
      BY Zenon, <2>3
    <3>2. QED
      BY Zenon, <2>1, <3>1 DEF FlpFields
  <2>4. QED
    BY <1>2, <2>2, <2>3
<1>5. /\ DOMAIN data' = FLPs /\ \A g \in FLPs : DOMAIN data'[g] = EPNs
      /\ \A g \in FLPs, e \in EPNs : \/ data'[g][e] = data[g][e]
                                     \/ g = f /\ data'[g][e] = Append(data[g][e], n)
  <2>1. CASE data' = data
    BY <1>3, <2>1 DEF DataTypes
  <2>2. CASE data' = [data EXCEPT ![f][c] = Append(@, n)] /\ c \in EPNs
    BY <1>3, <2>2 DEF DataTypes
  <2>3. CASE data' = [data EXCEPT ![f][c] = Append(@, n)] /\ c \notin EPNs
    BY <1>3, <2>3 DEF DataTypes
  <2>4. QED
    BY <1>2, <2>1, <2>2, <2>3
<1>6. ASSUME NEW g \in FLPs, NEW e \in EPNs
      PROVE  /\ data'[g][e] \in Seq(Nat) /\ InOrder(g, e)'
             /\ data[g][e] # <<>> => data'[g][e] # <<>>
             /\ \A s \in Nat : s <= flp[g].sTF /\ Queued(g, e, s)' => Queued(g, e, s)
  <2>1. data[g][e] \in Seq(Nat) /\ InOrder(g, e) /\ flp[g].sTF \in Nat
    BY <1>3 DEF PartsIInv, DataTypes
  <2>2. CASE data'[g][e] = data[g][e]
    <3>1. flp'[g].sTF \in Nat /\ flp[g].sTF <= flp'[g].sTF
      BY <1>3, <1>4, <2>1
    <3>2. \A i \in 1 .. Len(data[g][e]) : data[g][e][i] \in Nat
      BY <2>1
    <3>3. InOrder(g, e)'
      <4>1. \A i \in 1 .. Len(data[g][e]) : data[g][e][i] <= flp[g].sTF
        BY <2>1 DEF InOrder
      <4>2. \A i \in 1 .. Len(data[g][e]) : data[g][e][i] <= flp'[g].sTF
        BY <2>1, <3>1, <3>2, <4>1
      <4>3. QED
        BY Zenon, <2>1, <2>2, <4>2 DEF InOrder
    <3>4. QED
      BY <2>1, <2>2, <3>3 DEF Queued
  <2>3. CASE g = f /\ data'[g][e] = Append(data[g][e], n)
    <3> DEFINE q == data[g][e]
    <3>1. /\ data'[g][e] \in Seq(Nat) /\ Len(data'[g][e]) = Len(q) + 1 /\ Len(q) \in Nat
          /\ data'[g][e][Len(q) + 1] = n
          /\ \A i \in 1 .. Len(q) : data'[g][e][i] = q[i] /\ q[i] \in Nat
      <4>1. PICK p \in Seq(Nat) : p = q
        BY <2>1
      <4>2. /\ Append(p, n) \in Seq(Nat \cup {n}) /\ Len(p) \in Nat /\ Len(Append(p, n)) = Len(p) + 1
            /\ Append(p, n)[Len(p) + 1] = n /\ \A i \in 1 .. Len(p) : Append(p, n)[i] = p[i]
        BY SMTT(20), Longer
      <4>3. Nat \cup {n} = Nat
        BY <1>3
      <4>4. \A i \in 1 .. Len(p) : p[i] \in Nat
        OBVIOUS
      <4>5. QED
        BY Zenon, <2>3, <4>1, <4>2, <4>3, <4>4
    <3>2. flp'[g].sTF = n /\ \A i \in 1 .. Len(q) : q[i] <= flp[f].sTF /\ q[i] < n
      <4>1. flp'[g].sTF = n
        BY <1>4, <2>3
      <4>2. \A i \in 1 .. Len(q) : q[i] <= flp[f].sTF
        BY <2>1, <2>3 DEF InOrder
      <4>3. QED
        BY <1>3, <3>1, <4>1, <4>2
    <3>3. \A i \in 1 .. (Len(q) + 1) : i \in 1 .. Len(q) \/ i = Len(q) + 1
      BY <3>1
    <3>4. InOrder(g, e)'
      <4>1. \A i \in 1 .. (Len(q) + 1) : data'[g][e][i] <= n
        <5>1. SUFFICES ASSUME NEW i \in 1 .. (Len(q) + 1) PROVE data'[g][e][i] <= n
          OBVIOUS
        <5>2. CASE i \in 1 .. Len(q)
          <6>1. data'[g][e][i] = q[i] /\ q[i] \in Nat /\ q[i] < n
            BY Zenon, <3>1, <3>2, <5>2
          <6>2. QED
            BY <1>3, <6>1
        <5>3. CASE i = Len(q) + 1
          BY <1>3, <3>1, <5>3
        <5>4. QED
          BY <3>3, <5>2, <5>3
      <4>2. \A i, j \in 1 .. (Len(q) + 1) : i < j => data'[g][e][i] < data'[g][e][j]
        <5>1. SUFFICES ASSUME NEW i \in 1 .. (Len(q) + 1), NEW j \in 1 .. (Len(q) + 1), i < j
                       PROVE  data'[g][e][i] < data'[g][e][j]
          OBVIOUS
        <5>2. i \in 1 .. Len(q)
          BY <3>1, <5>1
        <5>3. CASE j = Len(q) + 1
          BY Zenon, <3>1, <3>2, <5>2, <5>3
        <5>4. CASE j \in 1 .. Len(q)
          BY <2>1, <3>1, <5>1, <5>2, <5>4 DEF InOrder
        <5>5. QED
          BY <3>3, <5>3, <5>4
      <4>3. QED
        BY <3>1, <3>2, <4>1, <4>2 DEF InOrder
    <3>5. ASSUME NEW s \in Nat, s <= flp[g].sTF, Queued(g, e, s)' PROVE Queued(g, e, s)
      <4>1. PICK i \in 1 .. (Len(q) + 1) : data'[g][e][i] = s
        BY <3>1, <3>5 DEF Queued
      <4>2. i # Len(q) + 1
        BY <1>3, <2>3, <3>1, <3>5, <4>1
      <4>3. QED
        BY Zenon, <3>1, <3>3, <4>1, <4>2 DEF Queued
    <3>6. data'[g][e] # <<>>
      BY <3>1
    <3>7. QED
      BY <3>1, <3>4, <3>5, <3>6
  <2>4. QED
    BY <1>5, <2>2, <2>3
<1>7. DataTypes'
  BY Zenon, <1>2, <1>3, <1>4, <1>5, <1>6 DEF DataTypes
<1>8. ASSUME NEW e \in EPNs PROVE ReadyInv(e)' /\ CountInv(e)'
  <2>1. ReadyInv(e) /\ CountInv(e)
    BY DEF PartsIInv
  <2>2. ReadyInv(e)'
    BY <1>2, <1>6, <2>1 DEF ReadyInv
  <2>3. ASSUME NEW g \in FLPs PROVE flp[g].sTF <= flp'[g].sTF
    <3>1. flp[g].sTF \in Nat
      BY <1>3 DEF DataTypes
    <3>2. CASE g = f
      BY <1>3, <1>4, <3>2
    <3>3. CASE g # f
      BY <1>4, <3>1, <3>3
    <3>4. QED
      BY <3>2, <3>3
  <2>4. CountInv(e)'
    BY <1>2, <1>3, <1>6, <1>7, <2>1, <2>3, CountKept
  <2>5. QED
    BY <2>2, <2>4
<1>9. QED
  BY <1>2, <1>6, <1>7, <1>8 DEF PartsIInv

LEMMA MinIn ==
    ASSUME NEW S, S \subseteq Nat, S # {}
    PROVE  Min(S) \in S
<1>1. PICK x \in S : \A y \in S : ~(<<y, x>> \in OpToRel(<, Nat))
  BY NatLessThanWellFounded, WFMin
<1>2. ASSUME NEW y \in S PROVE x <= y
  <2>1. x \in Nat /\ y \in Nat
    OBVIOUS
  <2>2. ~(y < x)
    <3>1. SUFFICES ASSUME y < x PROVE <<y, x>> \in OpToRel(<, Nat)
      BY <1>1
    <3>2. QED
      BY <2>1, <3>1 DEF OpToRel
  <2>3. QED
    BY <2>1, <2>2
<1>3. QED
  BY Zenon, <1>2 DEF Min

\* EpnReceive: the part was queued and not counted; now it is given.
LEMMA EpnReceiveParts ==
    ASSUME SlotsIInv, PartsIInv, NEW e \in EPNs, EpnReceive(e)
    PROVE  PartsIInv'
<1>1. /\ conf \in Configurations /\ UNCHANGED <<conf, flp>> /\ EPNs' = EPNs /\ FLPs' = FLPs
      /\ DOMAIN epn = EPNs /\ DOMAIN epn[e] = EpnFields /\ DataTypes
  BY DEF EpnReceive, epnOnly, SlotsIInv, EpnTypes, PartsIInv, EPNs, FLPs
<1>2. PICK f, q, rcvd : f = Min(epn[e].ready) /\ q = data[f][e] /\ rcvd = epn[e].rcvdSTFs
  OBVIOUS
<1>3. /\ f \in epn[e].ready /\ f \in FLPs /\ q \in Seq(Nat) /\ q # <<>>
      /\ flp[f].sTF \in Nat /\ InOrder(f, e)
  <2>1. ReadyInv(e) /\ epn[e].ready # {} /\ epn[e].ready \subseteq FLPs
    BY DEF PartsIInv, ReadyInv, EpnReceive
  <2>2. FLPs \subseteq Nat
    BY <1>1, ConfOf DEF FLPs
  <2>3. f \in epn[e].ready
    BY Zenon, <1>2, <2>1, <2>2, MinIn
  <2>4. QED
    BY <1>1, <1>2, <2>1, <2>3 DEF ReadyInv, DataTypes, PartsIInv
<1>4. PICK s, n : s = Head(q) /\ n = Count(rcvd, s) + 1
  OBVIOUS
<1>5. PICK pc : /\ data' = [data EXCEPT ![f][e] = Tail(@)]
                /\ epn' = [epn EXCEPT ![e] = [epn[e] EXCEPT !.ready = @ \ {f}, !.rcvdSTFs = With(rcvd, s, n), !.pc = pc]]
                /\ pc = "receive" => epn[e].ready \ {f} # {}
  <2> DEFINE v == [epn[e] EXCEPT !.ready = @ \ {f}]
  <2>1. v.ready = epn[e].ready \ {f} /\ v.rcvdSTFs = rcvd
    BY Zenon, <1>1, <1>2 DEF EpnFields
  <2>2. PICK pc : /\ data' = [data EXCEPT ![f][e] = Tail(@)]
                  /\ epn' = [epn EXCEPT ![e] = [v EXCEPT !.rcvdSTFs = With(@, s, n), !.pc = pc]]
                  /\ pc = IF n = conf.flps THEN "load" ELSE NextInput(v)
    BY Zenon, <1>2, <1>4, <2>1 DEF EpnReceive
  <2>3. [v EXCEPT !.rcvdSTFs = With(@, s, n), !.pc = pc]
        = [epn[e] EXCEPT !.ready = @ \ {f}, !.rcvdSTFs = With(rcvd, s, n), !.pc = pc]
    BY <1>1, <1>2 DEF EpnFields
  <2>4. pc = "receive" => epn[e].ready \ {f} # {}
    BY <2>1, <2>2 DEF NextInput
  <2>5. QED
    BY Zenon, <2>2, <2>3, <2>4
<1>6. /\ epn'[e].ready = epn[e].ready \ {f} /\ epn'[e].rcvdSTFs = With(rcvd, s, n) /\ epn'[e].pc = pc
      /\ \A o \in EPNs \ {e} : epn'[o] = epn[o]
  BY <1>1, <1>5 DEF EpnFields
<1>7. /\ DOMAIN data' = FLPs /\ (\A g \in FLPs : DOMAIN data'[g] = EPNs) /\ data'[f][e] = Tail(q)
      /\ \A g \in FLPs, o \in EPNs : g # f \/ o # e => data'[g][o] = data[g][o]
  BY <1>1, <1>2, <1>3, <1>5 DEF DataTypes
<1>8. /\ Tail(q) \in Seq(Nat) /\ Len(q) \in Nat \ {0} /\ Len(Tail(q)) = Len(q) - 1 /\ s = q[1] /\ s \in Nat
      /\ \A i \in 1 .. Len(q) : q[i] \in Nat
      /\ \A i \in 1 .. (Len(q) - 1) : Tail(q)[i] = q[i + 1]
  BY <1>3, <1>4
<1>9. DataTypes'
  <2>1. \A g \in FLPs, o \in EPNs : data'[g][o] \in Seq(Nat)
    BY Zenon, <1>1, <1>7, <1>8 DEF DataTypes
  <2>2. QED
    BY <1>1, <1>7, <2>1 DEF DataTypes
<1>10. /\ \A i \in 1 .. Len(q) : q[i] <= flp[f].sTF
       /\ \A i, j \in 1 .. Len(q) : i < j => q[i] < q[j]
  BY <1>2, <1>3 DEF InOrder
<1>11. InOrder(f, e)'
  <2>1. \A i \in 1 .. (Len(q) - 1) : i + 1 \in 1 .. Len(q)
    BY <1>8
  <2>2. \A i \in 1 .. (Len(q) - 1) : Tail(q)[i] <= flp[f].sTF
    BY <1>8, <1>10, <2>1
  <2>3. ASSUME NEW i \in 1 .. (Len(q) - 1), NEW j \in 1 .. (Len(q) - 1), i < j PROVE Tail(q)[i] < Tail(q)[j]
    <3>1. i + 1 < j + 1 /\ i + 1 \in 1 .. Len(q) /\ j + 1 \in 1 .. Len(q)
      BY <1>8, <2>1, <2>3
    <3>2. q[i + 1] < q[j + 1]
      BY <1>10, <3>1
    <3>3. QED
      BY <1>8, <3>2
  <2>4. QED
    BY <1>1, <1>7, <1>8, <2>2, <2>3 DEF InOrder
<1>12. \A g \in FLPs, o \in EPNs : InOrder(g, o)'
  <2>1. \A g \in FLPs, o \in EPNs : InOrder(g, o)
    BY DEF PartsIInv
  <2>2. \A g \in FLPs, o \in EPNs : g # f \/ o # e => InOrder(g, o)'
    BY <1>1, <1>7, <2>1 DEF InOrder
  <2>3. QED
    BY <1>11, <2>2
<1>13. \A g \in FLPs, o \in EPNs, u \in Nat : Queued(g, o, u)' => Queued(g, o, u)
  <2>1. SUFFICES ASSUME NEW g \in FLPs, NEW o \in EPNs, NEW u \in Nat, Queued(g, o, u)' PROVE Queued(g, o, u)
    OBVIOUS
  <2>2. CASE g = f /\ o = e
    <3>1. PICK i \in 1 .. (Len(q) - 1) : Tail(q)[i] = u
      BY Zenon, <1>7, <1>8, <2>1, <2>2 DEF Queued
    <3>2. i + 1 \in 1 .. Len(q) /\ q[i + 1] = u
      BY <1>8, <3>1
    <3>3. QED
      BY <1>2, <2>2, <3>2 DEF Queued
  <2>3. CASE g # f \/ o # e
    BY <1>7, <2>1, <2>3 DEF Queued
  <2>4. QED
    BY <2>2, <2>3
<1>14. Queued(f, e, s) /\ ~Queued(f, e, s)' /\ s <= flp[f].sTF
  <2>1. 1 \in 1 .. Len(q) /\ q[1] = s
    BY <1>8
  <2>2. Queued(f, e, s) /\ s <= flp[f].sTF
    BY <1>2, <1>10, <2>1 DEF Queued
  <2>3. ASSUME NEW i \in 1 .. (Len(q) - 1) PROVE Tail(q)[i] # s
    <3>1. i + 1 \in 1 .. Len(q) /\ 1 < i + 1
      BY <1>8
    <3>2. q[1] < q[i + 1] /\ q[1] \in Nat /\ q[i + 1] \in Nat
      BY <1>8, <1>10, <2>1, <3>1
    <3>3. QED
      BY <1>8, <3>2
  <2>4. ~Queued(f, e, s)'
    BY <1>7, <1>8, <2>3 DEF Queued
  <2>5. QED
    BY <2>2, <2>4
<1>15. ASSUME NEW o \in EPNs PROVE ReadyInv(o)'
  <2>1. ReadyInv(o)
    BY DEF PartsIInv
  <2>2. CASE o # e
    BY <1>1, <1>6, <1>7, <2>1, <2>2 DEF ReadyInv
  <2>3. CASE o = e
    BY <1>1, <1>5, <1>6, <1>7, <2>1, <2>3 DEF ReadyInv
  <2>4. QED
    BY <2>2, <2>3
<1>16. \A g \in FLPs : flp[g].sTF <= flp'[g].sTF
  BY <1>1 DEF DataTypes
<1>17. ASSUME NEW o \in EPNs, o # e PROVE CountInv(o)'
  BY Zenon, <1>1, <1>6, <1>9, <1>13, <1>16, <1>17, CountKept DEF PartsIInv
<1>18. CountInv(e)'
  <2>1. CountInv(e) /\ DOMAIN rcvd \subseteq Nat
    BY <1>2 DEF PartsIInv, CountInv
  <2>2. DOMAIN With(rcvd, s, n) = DOMAIN rcvd \cup {s}
    BY DEF With
  <2>3. \A u \in DOMAIN rcvd : rcvd[u] \in Nat /\ rcvd[u] <= Cardinality(Given(e, u))
    BY <1>2, <2>1 DEF CountInv
  <2>4. ASSUME NEW u \in Nat
        PROVE  /\ Given(e, u) \subseteq Given(e, u)' /\ Cardinality(Given(e, u)) \in Nat
               /\ IsFiniteSet(Given(e, u)') /\ Cardinality(Given(e, u)') \in Nat
               /\ Cardinality(Given(e, u)) <= Cardinality(Given(e, u)')
    <3>1. Given(e, u) \subseteq Given(e, u)'
      BY <1>1, <1>13 DEF Given
    <3>2. IsFiniteSet(FLPs)
      BY <1>1, FlpsFinite
    <3>3. Given(e, u)' \subseteq FLPs
      BY <1>1 DEF Given
    <3>4. IsFiniteSet(Given(e, u)') /\ Cardinality(Given(e, u)') \in Nat
      BY <3>2, <3>3, FS_Subset, FS_CardinalityType
    <3>5. Cardinality(Given(e, u)) <= Cardinality(Given(e, u)') /\ Cardinality(Given(e, u)) \in Nat
      BY <1>1, <3>1, <3>4, FS_Subset, GivenFinite
    <3>6. QED
      BY <3>1, <3>4, <3>5
  <2>5. n \in Nat /\ n <= Cardinality(Given(e, s)')
    <3>1. f \in Given(e, s)' /\ f \notin Given(e, s)
      BY <1>1, <1>3, <1>14 DEF Given
    <3>2. IsFiniteSet(Given(e, s)) /\ Cardinality(Given(e, s)) \in Nat
      BY <1>1, GivenFinite
    <3>3. Cardinality(Given(e, s) \cup {f}) = Cardinality(Given(e, s)) + 1
      BY Zenon, <3>1, <3>2, FS_AddElement
    <3>4. Given(e, s) \cup {f} \subseteq Given(e, s)'
      BY Zenon, <1>8, <2>4, <3>1
    <3>5. /\ Cardinality(Given(e, s) \cup {f}) <= Cardinality(Given(e, s)')
          /\ Cardinality(Given(e, s)') \in Nat
      BY Zenon, <1>8, <2>4, <3>4, FS_Subset
    <3>6. Count(rcvd, s) \in Nat /\ Count(rcvd, s) <= Cardinality(Given(e, s))
      BY <2>3, <3>2 DEF Count
    <3>7. QED
      BY <1>4, <3>2, <3>3, <3>5, <3>6
  <2>6. ASSUME NEW u \in DOMAIN rcvd \cup {s}
        PROVE  With(rcvd, s, n)[u] \in Nat /\ With(rcvd, s, n)[u] <= Cardinality(Given(e, u)')
    <3>1. CASE u = s
      BY <2>5, <3>1 DEF With
    <3>2. CASE u # s
      <4>1. With(rcvd, s, n)[u] = rcvd[u] /\ u \in DOMAIN rcvd /\ u \in Nat
        BY <2>1, <3>2 DEF With
      <4>2. rcvd[u] \in Nat /\ rcvd[u] <= Cardinality(Given(e, u))
        BY <2>3, <4>1
      <4>3. QED
        BY <2>4, <4>1, <4>2
    <3>3. QED
      BY <3>1, <3>2
  <2>7. QED
    BY Zenon, <1>6, <1>8, <2>1, <2>2, <2>6 DEF CountInv
<1>19. QED
  BY <1>1, <1>9, <1>12, <1>15, <1>17, <1>18 DEF PartsIInv

LEMMA PartsInit ==
    ASSUME Init
    PROVE  PartsIInv
<1>1. DataTypes
  BY DEF Init, DataTypes, FlpFields
<1>2. \A f \in FLPs, e \in EPNs : InOrder(f, e)
  BY DEF Init, InOrder
<1>3. \A e \in EPNs : ReadyInv(e) /\ CountInv(e)
  BY DEF Init, ReadyInv, CountInv
<1>4. QED
  BY <1>1, <1>2, <1>3 DEF PartsIInv

LEMMA PartsStep ==
    ASSUME SlotsIInv, PartsIInv, [Next]_vars
    PROVE  PartsIInv'
<1>0. conf \in Configurations
  BY DEF SlotsIInv, EpnTypes
<1>1. CASE Tick \/ Scheduler \/ Sender \/ UNCHANGED vars
  <2>1. UNCHANGED <<conf, data, epn, flp>>
    BY Zenon, <1>1 DEF Tick, Scheduler, Sender, vars, scheduler_InitTask, CheckTime, ReceiveReport, Generate,
                ClearVector, LoadVector, SendSchedule, SendFails, SendersKilled, schedulerOnly
  <2>2. QED
    BY <1>0, <2>1, OtherQuietParts
<1>2. ASSUME NEW f \in FLPs, Flp(f) PROVE PartsIInv'
  BY <1>0, <1>2, FlpQuietParts, FlpSendParts DEF Flp
<1>3. ASSUME NEW e \in EPNs, Epn(e) \/ EpnReport(e) \/ Delayed(e) PROVE PartsIInv'
  BY <1>3, EpnQuietParts, EpnReceiveParts DEF Epn
<1>4. QED
  BY <1>1, <1>2, <1>3 DEF Next

\* flp::ConditionalRun and epn::receive: for any numbers of devices and slots and any times,
\* an EPN never counts more parts of a time frame than there are FLPs, so that a time frame
\* that is complete is not counted past its end.
THEOREM NoPartIsCountedTwice == Spec => []NoExtraParts
<1>1. Init => SlotsIInv /\ PartsIInv
  BY SlotsInit, PartsInit
<1>2. SlotsIInv /\ PartsIInv /\ [Next]_vars => SlotsIInv' /\ PartsIInv'
  BY SlotsStep, PartsStep
<1>3. SlotsIInv /\ PartsIInv => NoExtraParts
  <2> SUFFICES ASSUME SlotsIInv, PartsIInv, NEW e \in EPNs, NEW s \in DOMAIN epn[e].rcvdSTFs
               PROVE  epn[e].rcvdSTFs[s] <= conf.flps
    BY DEF NoExtraParts
  <2>1. conf \in Configurations /\ conf.flps \in Nat
    BY ConfOf DEF SlotsIInv, EpnTypes
  <2>2. epn[e].rcvdSTFs[s] \in Nat /\ epn[e].rcvdSTFs[s] <= Cardinality(Given(e, s))
    BY DEF PartsIInv, CountInv
  <2>3. Cardinality(Given(e, s)) \in Nat /\ Cardinality(Given(e, s)) <= conf.flps
    BY <2>1, GivenFinite
  <2>4. QED
    BY <2>1, <2>2, <2>3
<1>4. QED
  BY <1>1, <1>2, <1>3, PTL DEF Spec

-----------------------------------------------------------------------------
(* The same schedules.                                                     *)

LEMMA TotalType ==
    ASSUME ScheduleTypes, NEW f \in FLPs
    PROVE  /\ Len(got[f]) \in Nat /\ Len(schedflp[f]) \in Nat /\ Total(f) \in Nat
           /\ DOMAIN got[f] = 1 .. Len(got[f])
<1>1. PICK V : \A g \in FLPs : got[g] \in Seq(V) /\ schedflp[g] \in Seq(V)
  BY DEF ScheduleTypes
<1>2. got[f] \in Seq(V) /\ schedflp[f] \in Seq(V)
  BY <1>1
<1>3. Len(got[f]) \in Nat /\ Len(schedflp[f]) \in Nat /\ DOMAIN got[f] = 1 .. Len(got[f])
  BY <1>2
<1>4. PICK r \in Nat, l \in Nat : r = Len(got[f]) /\ l = Len(schedflp[f])
  BY <1>3
<1>5. Total(f) = r + l
  BY <1>4 DEF Total
<1>6. Total(f) \in Nat
  BY SMTT(20), <1>5
<1>7. QED
  BY <1>3, <1>6

\* Steps that leave the schedules of every FLP and their sender.
LEMMA SchedulesKept ==
    ASSUME ScheduleTypes, SchedulesInv, ScheduleTypes', UNCHANGED <<conf, senders, late>>,
           sched'.scheduleNumber = sched.scheduleNumber, sched'.vectorForFlps = sched.vectorForFlps,
           Over => Over',
           \A f \in FLPs : Total(f)' = Total(f) /\ \A k \in 1 .. Total(f) : Nth(f, k)' = Nth(f, k)
    PROVE  SchedulesInv'
<1> SUFFICES ASSUME ~late PROVE SchedulesInv'
  BY DEF SchedulesInv
<1>1. PICK n \in Nat : n = sched.scheduleNumber
  BY DEF ScheduleTypes
<1>2. FLPs' = FLPs /\ \A f \in FLPs : (SentTo(f)' <=> SentTo(f)) /\ Total(f) \in Nat
  <2>1. FLPs' = FLPs
    BY DEF FLPs
  <2>2. \A f \in FLPs : SentTo(f)' <=> SentTo(f)
    BY DEF SentTo
  <2>3. QED
    BY <2>1, <2>2, TotalType
<1>3. /\ DOMAIN senders \subseteq {n}
      /\ n \in DOMAIN senders => n > 0 /\ senders[n].i \in FLPs /\ senders[n].vec \in {0, n}
      /\ \A f \in FLPs : (Total(f) = n /\ SentTo(f)) \/ (Total(f) = n - 1 /\ (SentTo(f) => Over))
      /\ \A f \in FLPs : Total(f) = n /\ n > 0 => Nth(f, n) = sched.vectorForFlps
      /\ \A f, g \in FLPs, k \in 1 .. n : k <= Total(f) /\ k <= Total(g) => Nth(f, k) = Nth(g, k)
  BY <1>1 DEF SchedulesInv
<1>4. \A f \in FLPs : \/ Total(f)' = n /\ SentTo(f)'
                      \/ Total(f)' = n - 1 /\ (SentTo(f)' => Over')
  BY <1>2, <1>3
<1>5. ASSUME NEW f \in FLPs, Total(f)' = n, n > 0 PROVE Nth(f, n)' = sched.vectorForFlps
  <2>1. Total(f) = n /\ n \in 1 .. Total(f)
    BY <1>2, <1>3, <1>5
  <2>2. QED
    BY <1>3, <1>5, <2>1
<1>6. ASSUME NEW f \in FLPs, NEW g \in FLPs, NEW k \in 1 .. n, k <= Total(f)', k <= Total(g)'
      PROVE  Nth(f, k)' = Nth(g, k)'
  <2>1. k \in 1 .. Total(f) /\ k \in 1 .. Total(g)
    BY <1>1, <1>2, <1>6
  <2>2. k <= Total(f) /\ k <= Total(g)
    BY <1>6
  <2>3. Nth(f, k) = Nth(g, k)
    BY <1>3, <2>2
  <2>4. QED
    BY <2>1, <2>3
<1>7. QED
  BY SMTT(20), <1>1, <1>2, <1>3, <1>4, <1>5, <1>6 DEF SchedulesInv

LEMMA SchedulesQuiet ==
    ASSUME ScheduleTypes, SchedulesInv, UNCHANGED <<conf, senders, late, schedflp, got>>,
           DOMAIN sched' = SchedulerFields, Over => Over',
           sched'.scheduleNumber = sched.scheduleNumber, sched'.vectorForFlps = sched.vectorForFlps
    PROVE  ScheduleTypes' /\ SchedulesInv'
<1>1. ScheduleTypes'
  BY DEF ScheduleTypes, FLPs
<1>2. \A f \in FLPs : Total(f)' = Total(f) /\ \A k \in 1 .. Total(f) : Nth(f, k)' = Nth(f, k)
  BY DEF Total, Nth
<1>3. QED
  BY <1>1, <1>2, SchedulesKept

\* FlpReceive: the schedule moves from the channel to those that the FLP has got.
LEMMA FlpReceiveSchedules ==
    ASSUME ScheduleTypes, SchedulesInv, NEW f \in FLPs, FlpReceive(f)
    PROVE  ScheduleTypes' /\ SchedulesInv'
<1>1. PICK V : \A g \in FLPs : got[g] \in Seq(V) /\ schedflp[g] \in Seq(V)
  BY DEF ScheduleTypes
<1>2. PICK q, r : q = schedflp[f] /\ r = got[f]
  OBVIOUS
<1>3. q \in Seq(V) /\ q # <<>> /\ r \in Seq(V)
  BY <1>1, <1>2 DEF FlpReceive
<1>4. /\ UNCHANGED <<conf, sched, senders, late>> /\ FLPs' = FLPs
      /\ DOMAIN got' = FLPs /\ DOMAIN schedflp' = FLPs
      /\ got'[f] = Append(r, Head(q)) /\ schedflp'[f] = Tail(q)
      /\ \A g \in FLPs \ {f} : got'[g] = got[g] /\ schedflp'[g] = schedflp[g]
  BY <1>2 DEF FlpReceive, flpOnly, ScheduleTypes, FLPs
<1>5. /\ Head(q) = q[1] /\ Len(q) \in Nat \ {0} /\ Len(Tail(q)) = Len(q) - 1 /\ Tail(q) \in Seq(V)
      /\ \A i \in 1 .. (Len(q) - 1) : Tail(q)[i] = q[i + 1]
  BY <1>3, Shorter
<1>6. /\ Append(r, Head(q)) \in Seq(V) /\ Len(r) \in Nat /\ Len(Append(r, Head(q))) = Len(r) + 1
      /\ Append(r, Head(q))[Len(r) + 1] = Head(q)
      /\ \A i \in 1 .. Len(r) : Append(r, Head(q))[i] = r[i]
  <2>1. Head(q) \in V
    BY <1>3, Shorter
  <2>2. V \cup {Head(q)} = V
    BY <2>1
  <2>3. QED
    BY <1>3, <2>2, Longer
<1>7. ScheduleTypes'
  <2>1. \A g \in FLPs : got'[g] \in Seq(V) /\ schedflp'[g] \in Seq(V)
    BY Zenon, <1>1, <1>4, <1>5, <1>6
  <2>2. QED
    BY <1>4, <2>1 DEF ScheduleTypes
<1>8. ASSUME NEW g \in FLPs
      PROVE  Total(g)' = Total(g) /\ \A k \in 1 .. Total(g) : Nth(g, k)' = Nth(g, k)
  <2>1. CASE g # f
    BY Zenon, <1>4, <2>1 DEF Total, Nth
  <2>2. CASE g = f
    <3>1. Total(g) = Len(r) + Len(q) /\ Total(g)' = Len(r) + Len(q)
      <4>1. Total(g) = Len(r) + Len(q)
        BY <1>2, <2>2 DEF Total
      <4>2. Total(g)' = Len(Append(r, Head(q))) + Len(Tail(q))
        BY Zenon, <1>4, <2>2 DEF Total
      <4>3. QED
        BY <1>5, <1>6, <4>1, <4>2
    <3>2. ASSUME NEW k \in 1 .. (Len(r) + Len(q)) PROVE Nth(g, k)' = Nth(g, k)
      <4>1. CASE k <= Len(r)
        BY <1>2, <1>4, <1>6, <2>2, <4>1 DEF Nth
      <4>2. CASE k = Len(r) + 1
        BY <1>2, <1>4, <1>5, <1>6, <2>2, <4>2 DEF Nth
      <4>3. CASE k > Len(r) + 1
        <5>1. k - (Len(r) + 1) \in 1 .. (Len(q) - 1) /\ (k - (Len(r) + 1)) + 1 = k - Len(r)
          BY <1>5, <1>6, <4>3
        <5>2. Tail(q)[k - (Len(r) + 1)] = q[k - Len(r)]
          BY <1>5, <5>1
        <5>3. Nth(g, k) = q[k - Len(r)]
          BY <1>2, <1>6, <2>2, <4>3 DEF Nth
        <5>4. Nth(g, k)' = Tail(q)[k - Len(Append(r, Head(q)))]
          <6>1. ~(k <= Len(Append(r, Head(q))))
            BY <1>5, <1>6, <4>3
          <6>2. QED
            BY <1>4, <2>2, <6>1 DEF Nth
        <5>5. QED
          BY Zenon, <1>6, <5>2, <5>3, <5>4
      <4>4. QED
        BY <1>6, <4>1, <4>2, <4>3
    <3>3. QED
      BY <3>1, <3>2
  <2>3. QED
    BY <2>1, <2>2
<1>9. Over => Over'
  BY <1>4 DEF Over
<1>10. QED
  BY <1>4, <1>7, <1>8, <1>9, SchedulesKept

\* Ended: the schedules of the scheduler stay as they are.
LEMMA EndedFields ==
    ASSUME NEW s, NEW pc \in {"done", "undefined"}, DOMAIN s = SchedulerFields, sched' = Ended(s, pc)
    PROVE  /\ DOMAIN sched' = SchedulerFields /\ Over'
           /\ sched'.scheduleNumber = s.scheduleNumber /\ sched'.vectorForFlps = s.vectorForFlps
BY DEF Ended, Over, SchedulerFields

\* Generate: when no sender is left, every FLP was sent the last schedule.
LEMMA GenerateSchedules ==
    ASSUME ScheduleTypes, SchedulesInv, Generate
    PROVE  ScheduleTypes' /\ SchedulesInv'
<1>0. UNCHANGED <<conf, schedflp, got>> /\ FLPs' = FLPs /\ DOMAIN sched = SchedulerFields
  BY DEF Generate, schedulerOnly, FLPs, ScheduleTypes
<1>1. CASE ~TimeToGenerate
  <2>1. sched' = Ended(sched, "done") /\ UNCHANGED <<senders, late>>
    BY Zenon, <1>1 DEF Generate
  <2>2. QED
    BY <1>0, <2>1, EndedFields, SchedulesQuiet
<1>2. CASE TimeToGenerate
  <2>1. PICK n \in Nat : n = sched.scheduleNumber
    BY Zenon DEF ScheduleTypes
  <2>2. PICK vec, epns :
           sched' = [sched EXCEPT !.pc = "clear", !.keyForGeneratingArray = now, !.scheduleNumber = n + 1,
                                  !.vectorForFlps = vec, !.EpnsInSchedule = epns]
    BY Zenon, <1>2, <2>1 DEF Generate
  <2>3. senders' = With(senders, n + 1, [i |-> 1, vec |-> 0])
    BY <1>2, <2>1 DEF Generate
  <2>4. late' = (late \/ DOMAIN senders # {})
    BY <1>2 DEF Generate
  <2>5. DOMAIN sched' = SchedulerFields /\ sched'.scheduleNumber = n + 1 /\ n + 1 \in Nat /\ n + 1 > 0
    BY <1>0, <2>1, <2>2 DEF SchedulerFields
  <2>6. /\ DOMAIN senders' = DOMAIN senders \cup {n + 1} /\ senders'[n + 1] = [i |-> 1, vec |-> 0]
        /\ \A m \in DOMAIN senders \ {n + 1} : senders'[m] = senders[m]
    BY <2>3 DEF With
  <2>7. ScheduleTypes'
    <3>1. \A m \in DOMAIN senders' : DOMAIN senders'[m] = {"i", "vec"}
      BY <2>6 DEF ScheduleTypes
    <3>2. late' \in BOOLEAN
      BY Zenon, <2>4
    <3>3. QED
      BY <1>0, <2>5, <3>1, <3>2 DEF ScheduleTypes
  <2>8. ASSUME ~late' PROVE SchedulesInv'
    <3>1. ~late /\ DOMAIN senders = {}
      BY Zenon, <2>4, <2>8
    <3>2. \A f \in FLPs : SentTo(f) /\ Total(f) = n
      <4>1. \A f \in FLPs : SentTo(f)
        BY <3>1 DEF SentTo
      <4>2. QED
        BY <2>1, <3>1, <4>1 DEF SchedulesInv, Generate, Over
    <3>3. \A f, g \in FLPs, k \in 1 .. n : k <= Total(f) /\ k <= Total(g) => Nth(f, k) = Nth(g, k)
      BY <2>1, <3>1 DEF SchedulesInv
    <3>4. \A f \in FLPs : Total(f)' = n /\ \A k : Nth(f, k)' = Nth(f, k)
      BY Zenon, <1>0, <3>2 DEF Total, Nth
    <3>5. \A f \in FLPs : ~SentTo(f)'
      <4>1. SUFFICES ASSUME NEW f \in FLPs PROVE ~(f < senders'[n + 1].i)
        BY <2>5, <2>6 DEF SentTo
      <4>2. f \in Nat \ {0}
        BY ConfOf DEF FLPs, ScheduleTypes
      <4>3. QED
        BY <2>6, <4>2
    <3>6. DOMAIN senders' = {n + 1} /\ senders'[n + 1].i = 1 /\ senders'[n + 1].vec = 0 /\ 1 \in FLPs
      BY <2>6, <3>1, ConfOf DEF FLPs, ScheduleTypes
    <3>7. \A f \in FLPs : Total(f)' = (n + 1) - 1
      BY <3>4
    <3>8. ASSUME NEW f \in FLPs, NEW g \in FLPs, NEW k \in 1 .. (n + 1), k <= Total(f)', k <= Total(g)'
          PROVE  Nth(f, k)' = Nth(g, k)'
      <4>1. k \in 1 .. n
        BY <3>4, <3>8
      <4>2. QED
        BY <3>2, <3>3, <3>4, <4>1
    <3>9. QED
      BY <1>0, <2>5, <3>5, <3>6, <3>7, <3>8 DEF SchedulesInv
  <2>9. QED
    BY <2>7, <2>8 DEF SchedulesInv
<1>3. QED
  BY <1>1, <1>2

\* LoadVector: the sender takes the address of the current schedule.
LEMMA LoadVectorSchedules ==
    ASSUME ScheduleTypes, SchedulesInv, NEW m \in DOMAIN senders, LoadVector(m)
    PROVE  ScheduleTypes' /\ SchedulesInv'
<1>1. /\ UNCHANGED <<conf, sched, schedflp, got, late>> /\ FLPs' = FLPs
      /\ senders' = [senders EXCEPT ![m].vec = sched.scheduleNumber]
  BY DEF LoadVector, schedulerOnly, FLPs
<1>2. /\ DOMAIN senders' = DOMAIN senders /\ \A o \in DOMAIN senders : DOMAIN senders'[o] = {"i", "vec"}
      /\ \A o \in DOMAIN senders : senders'[o].i = senders[o].i
      /\ senders'[m].vec = sched.scheduleNumber
  BY <1>1 DEF ScheduleTypes
<1>3. ScheduleTypes'
  BY <1>1, <1>2 DEF ScheduleTypes
<1>4. ASSUME ~late PROVE SchedulesInv'
  <2>1. PICK n \in Nat : n = sched.scheduleNumber
    BY DEF ScheduleTypes
  <2>2. m = n /\ DOMAIN senders = {n} /\ n > 0 /\ senders[n].i \in FLPs
    BY Zenon, <1>4, <2>1 DEF SchedulesInv
  <2>3. \A f \in FLPs : (SentTo(f)' <=> SentTo(f)) /\ Total(f)' = Total(f) /\ \A k : Nth(f, k)' = Nth(f, k)
    BY <1>1, <1>2, <2>1, <2>2 DEF SentTo, Total, Nth
  <2>4. /\ \A f \in FLPs : (Total(f) = n /\ SentTo(f)) \/ (Total(f) = n - 1 /\ (SentTo(f) => Over))
        /\ \A f \in FLPs : Total(f) = n /\ n > 0 => Nth(f, n) = sched.vectorForFlps
        /\ \A f, g \in FLPs, k \in 1 .. n : k <= Total(f) /\ k <= Total(g) => Nth(f, k) = Nth(g, k)
    BY <1>4, <2>1 DEF SchedulesInv
  <2>5. DOMAIN senders' = {n} /\ senders'[n].i \in FLPs
    BY Zenon, <1>2, <2>2
  <2>6. senders'[n].vec \in {0, n}
    BY Zenon, <1>2, <2>1, <2>2
  <2>7. Over => Over'
    BY <1>1 DEF Over
  <2>8. QED
    BY <1>1, <2>1, <2>2, <2>3, <2>4, <2>5, <2>6, <2>7 DEF SchedulesInv
<1>5. QED
  BY <1>1, <1>3, <1>4 DEF SchedulesInv

\* SendSchedule: one more FLP gets the current schedule, whose vector is still there.
LEMMA SendScheduleSchedules ==
    ASSUME ScheduleTypes, SchedulesInv, NEW m \in DOMAIN senders, SendSchedule(m)
    PROVE  ScheduleTypes' /\ SchedulesInv'
<1>1. PICK vec \in IF senders[m].vec = sched.scheduleNumber THEN {sched.vectorForFlps} ELSE Schedules :
        /\ senders[m].vec # 0
        /\ schedflp' = [schedflp EXCEPT ![senders[m].i] = Append(@, vec)]
        /\ senders' = IF MoreFlps(m) THEN [senders EXCEPT ![m] = [i |-> @.i + 1, vec |-> 0]]
                      ELSE [o \in DOMAIN senders \ {m} |-> senders[o]]
        /\ UNCHANGED <<schedulerOnly, sched, epnsched, late>>
  BY Zenon DEF SendSchedule, NextFlp
<1>2. UNCHANGED <<conf, got, sched, late>> /\ FLPs' = FLPs
  BY <1>1 DEF schedulerOnly, FLPs
<1>3. PICK d : d = senders[m].i
  OBVIOUS
<1>4. PICK V : \A f \in FLPs : got[f] \in Seq(V) /\ schedflp[f] \in Seq(V)
  BY DEF ScheduleTypes
<1>5. /\ DOMAIN schedflp' = FLPs
      /\ d \in FLPs => schedflp'[d] = Append(schedflp[d], vec)
      /\ \A f \in FLPs \ {d} : schedflp'[f] = schedflp[f]
  BY <1>1, <1>3 DEF ScheduleTypes
<1>6. ScheduleTypes'
  <2>1. \A o \in DOMAIN senders' : DOMAIN senders'[o] = {"i", "vec"}
    <3>1. CASE MoreFlps(m)
      BY <1>1, <3>1 DEF ScheduleTypes
    <3>2. CASE ~MoreFlps(m)
      BY <1>1, <3>2 DEF ScheduleTypes
    <3>3. QED
      BY <3>1, <3>2
  <2>2. ASSUME NEW f \in FLPs PROVE got[f] \in Seq(V \cup {vec}) /\ schedflp'[f] \in Seq(V \cup {vec})
    <3>1. /\ got[f] \in Seq(V \cup {vec}) /\ schedflp[f] \in Seq(V \cup {vec})
          /\ Append(schedflp[f], vec) \in Seq(V \cup {vec})
      BY Zenon, <1>4, Longer
    <3>2. QED
      BY <1>5, <3>1
  <2>3. QED
    BY <1>2, <1>5, <2>1, <2>2 DEF ScheduleTypes
<1>7. ASSUME ~late PROVE SchedulesInv'
  <2>1. PICK n \in Nat : n = sched.scheduleNumber
    BY DEF ScheduleTypes
  <2>2. m = n /\ DOMAIN senders = {n} /\ n > 0 /\ d \in FLPs /\ senders[n].vec = n /\ d = senders[n].i
    BY Zenon, <1>1, <1>3, <1>7, <2>1 DEF SchedulesInv
  <2>3. vec = sched.vectorForFlps
    BY SMTT(20), <1>1, <2>1, <2>2
  <2>4. /\ \A f \in FLPs : (Total(f) = n /\ SentTo(f)) \/ (Total(f) = n - 1 /\ (SentTo(f) => Over))
        /\ \A f \in FLPs : Total(f) = n /\ n > 0 => Nth(f, n) = sched.vectorForFlps
        /\ \A f, g \in FLPs, k \in 1 .. n : k <= Total(f) /\ k <= Total(g) => Nth(f, k) = Nth(g, k)
    BY <1>7, <2>1 DEF SchedulesInv
  <2>5. conf.flps \in Nat /\ \A f \in FLPs : f \in Nat /\ f <= conf.flps
    BY ConfOf DEF FLPs, ScheduleTypes
  <2>6. \A f \in FLPs : SentTo(f) <=> f < d
    BY <2>1, <2>2 DEF SentTo
  <2>7. \A f \in FLPs : SentTo(f)' <=> (f < d \/ f = d)
    <3>1. CASE MoreFlps(m)
      <4>1. n \in DOMAIN senders' /\ senders'[n].i = d + 1
        BY <1>1, <2>2, <3>1
      <4>2. \A f \in FLPs : SentTo(f)' <=> f < d + 1
        BY <1>2, <2>1, <4>1 DEF SentTo
      <4>3. QED
        BY <2>2, <2>5, <4>2
    <3>2. CASE ~MoreFlps(m)
      <4>1. DOMAIN senders' = {}
        BY <1>1, <2>2, <3>2
      <4>2. \A f \in FLPs : SentTo(f)'
        BY <4>1 DEF SentTo
      <4>3. ~(d < conf.flps)
        BY <2>2, <3>2 DEF MoreFlps
      <4>4. QED
        BY <2>2, <2>5, <4>2, <4>3
    <3>3. QED
      BY <3>1, <3>2
  <2>8. /\ DOMAIN senders' \subseteq {n}
        /\ n \in DOMAIN senders' => senders'[n].i \in FLPs /\ senders'[n].vec \in {0, n}
    <3>1. CASE MoreFlps(m)
      <4>1. DOMAIN senders' = {n} /\ senders'[n].i = d + 1 /\ senders'[n].vec = 0
        BY <1>1, <2>2, <3>1
      <4>2. d + 1 \in FLPs
        BY <2>2, <2>5, <3>1 DEF MoreFlps, FLPs
      <4>3. QED
        BY <4>1, <4>2
    <3>2. CASE ~MoreFlps(m)
      BY <1>1, <2>2, <3>2
    <3>3. QED
      BY <3>1, <3>2
  <2>9. \A f \in FLPs \ {d} : Total(f)' = Total(f) /\ \A k : Nth(f, k)' = Nth(f, k)
    BY Zenon, <1>2, <1>5 DEF Total, Nth
  <2>10. /\ Total(d) = n - 1 /\ Total(d)' = n /\ Nth(d, n)' = vec
         /\ \A k \in 1 .. (n - 1) : Nth(d, k)' = Nth(d, k)
    <3>1. PICK q : q = schedflp[d]
      OBVIOUS
    <3>2. q \in Seq(V)
      BY <1>4, <2>2, <3>1
    <3>3. PICK r \in Nat, l \in Nat : r = Len(got[d]) /\ l = Len(q)
      BY <2>2, <3>1, TotalType
    <3>4. /\ Len(Append(q, vec)) = l + 1 /\ Append(q, vec)[l + 1] = vec
          /\ \A i \in 1 .. l : Append(q, vec)[i] = q[i]
      BY <3>2, <3>3, Longer
    <3>5. Total(d) = n - 1
      BY <2>2, <2>4, <2>5, <2>6
    <3>6. r + l = n - 1
      BY Zenon, <3>1, <3>3, <3>5 DEF Total
    <3>7. schedflp'[d] = Append(q, vec) /\ got'[d] = got[d]
      BY <1>2, <1>5, <2>2, <3>1
    <3>8. Total(d)' = n
      <4>1. Total(d)' = r + (l + 1)
        BY <3>3, <3>4, <3>7 DEF Total
      <4>2. QED
        BY <3>6, <4>1
    <3>9. Nth(d, n)' = vec
      <4>1. ~(n <= r) /\ n - r = l + 1
        BY <3>6
      <4>2. Nth(d, n)' = Append(q, vec)[n - r]
        BY <3>3, <3>7, <4>1 DEF Nth
      <4>3. QED
        BY <3>4, <4>1, <4>2
    <3>10. ASSUME NEW k \in 1 .. (n - 1) PROVE Nth(d, k)' = Nth(d, k)
      <4>1. CASE k <= r
        BY <3>3, <3>7, <4>1 DEF Nth
      <4>2. CASE ~(k <= r)
        <5>1. k - r \in 1 .. l
          BY <3>6, <4>2
        <5>2. Nth(d, k)' = Append(q, vec)[k - r] /\ Nth(d, k) = q[k - r]
          BY Zenon, <3>1, <3>3, <3>7, <4>2 DEF Nth
        <5>3. QED
          BY <3>4, <5>1, <5>2
      <4>3. QED
        BY <4>1, <4>2
    <3>11. QED
      BY <3>5, <3>8, <3>9, <3>10
  <2>11. \A f \in FLPs : \/ Total(f)' = n /\ SentTo(f)'
                         \/ Total(f)' = n - 1 /\ (SentTo(f)' => Over')
    <3>1. Over => Over'
      BY <1>2 DEF Over
    <3>2. QED
      BY SMTT(20), <2>4, <2>6, <2>7, <2>9, <2>10, <3>1
  <2>12. \A f \in FLPs : Total(f)' = n => Nth(f, n)' = vec
    BY <2>2, <2>3, <2>4, <2>9, <2>10
  <2>13. ASSUME NEW f \in FLPs, NEW g \in FLPs, NEW k \in 1 .. n, k <= Total(f)', k <= Total(g)'
         PROVE  Nth(f, k)' = Nth(g, k)'
    <3>1. CASE k = n
      <4>1. Total(f)' = n /\ Total(g)' = n
        BY <2>11, <2>13, <3>1
      <4>2. QED
        BY <2>12, <3>1, <4>1
    <3>2. CASE k \in 1 .. (n - 1)
      <4>1. \A h \in FLPs : k <= Total(h) /\ Nth(h, k)' = Nth(h, k)
        BY <2>4, <2>9, <2>10, <3>2
      <4>2. QED
        BY <2>4, <4>1
    <3>3. QED
      BY <3>1, <3>2
  <2>14. QED
    BY <1>2, <2>1, <2>2, <2>3, <2>8, <2>11, <2>12, <2>13 DEF SchedulesInv
<1>8. QED
  BY <1>2, <1>6, <1>7 DEF SchedulesInv

\* SendFails and SendersKilled: a sender goes on without a send, or ends. The run of the
\* scheduler is over, so that there will be no other schedule.
LEMMA SendersGiveUp ==
    ASSUME ScheduleTypes, SchedulesInv, Over, UNCHANGED <<conf, sched, late, schedflp, got>>,
           DOMAIN senders' \subseteq DOMAIN senders,
           \A o \in DOMAIN senders' :
               /\ DOMAIN senders'[o] = {"i", "vec"}
               /\ ~late => /\ senders'[o].i \in FLPs /\ senders'[o].vec \in {0, senders[o].vec}
                           /\ \A f \in FLPs : f < senders[o].i => f < senders'[o].i
    PROVE  ScheduleTypes' /\ SchedulesInv'
<1>1. FLPs' = FLPs /\ Over'
  BY DEF FLPs, Over
<1>2. ScheduleTypes'
  BY <1>1 DEF ScheduleTypes
<1>3. ASSUME ~late PROVE SchedulesInv'
  <2>1. PICK n \in Nat : n = sched.scheduleNumber
    BY DEF ScheduleTypes
  <2>2. /\ DOMAIN senders \subseteq {n}
        /\ n \in DOMAIN senders => n > 0 /\ senders[n].i \in FLPs /\ senders[n].vec \in {0, n}
    BY <1>3, <2>1 DEF SchedulesInv
  <2>3. /\ DOMAIN senders' \subseteq {n}
        /\ n \in DOMAIN senders' => n > 0 /\ senders'[n].i \in FLPs /\ senders'[n].vec \in {0, n}
    BY Zenon, <1>3, <2>2
  <2>4. \A f \in FLPs : SentTo(f) => SentTo(f)'
    BY Zenon, <1>3, <2>1 DEF SentTo
  <2>5. \A f \in FLPs : Total(f)' = Total(f) /\ \A k : Nth(f, k)' = Nth(f, k)
    BY Zenon DEF Total, Nth
  <2>6. /\ \A f \in FLPs : (Total(f) = n /\ SentTo(f)) \/ Total(f) = n - 1
        /\ \A f \in FLPs : Total(f) = n /\ n > 0 => Nth(f, n) = sched.vectorForFlps
        /\ \A f, g \in FLPs, k \in 1 .. n : k <= Total(f) /\ k <= Total(g) => Nth(f, k) = Nth(g, k)
    BY <1>3, <2>1 DEF SchedulesInv
  <2>7. QED
    BY <1>1, <2>1, <2>3, <2>4, <2>5, <2>6 DEF SchedulesInv
<1>4. QED
  BY <1>2, <1>3 DEF SchedulesInv

\* A send that fails after the end of the run: the FLP has all schedules but this one.
LEMMA SendFailsSchedules ==
    ASSUME ScheduleTypes, SchedulesInv, NEW m \in DOMAIN senders, SendFails(m)
    PROVE  ScheduleTypes' /\ SchedulesInv'
<1>1. Over /\ UNCHANGED <<conf, sched, late, schedflp, got>>
  BY DEF SendFails, schedulerOnly
<1>2. CASE MoreFlps(m)
  <2>1. senders' = [senders EXCEPT ![m] = [i |-> @.i + 1, vec |-> 0]]
    BY Zenon, <1>2 DEF SendFails, NextFlp
  <2>2. /\ DOMAIN senders' = DOMAIN senders /\ senders'[m] = [i |-> senders[m].i + 1, vec |-> 0]
        /\ \A o \in DOMAIN senders \ {m} : senders'[o] = senders[o]
    BY <2>1
  <2>3. conf.flps \in Nat /\ \A f \in FLPs : f \in Nat
    BY ConfOf DEF FLPs, ScheduleTypes
  <2>4. ASSUME ~late, NEW o \in DOMAIN senders
        PROVE  /\ senders'[o].i \in FLPs /\ senders'[o].vec \in {0, senders[o].vec}
               /\ \A f \in FLPs : f < senders[o].i => f < senders'[o].i
    <3>1. senders[o].i \in FLPs
      BY Zenon, <2>4 DEF SchedulesInv
    <3>2. CASE o = m
      <4>1. senders[m].i \in FLPs /\ senders[m].i < conf.flps
        BY <1>2, <3>1, <3>2 DEF MoreFlps
      <4>2. senders[m].i + 1 \in FLPs
        BY <2>3, <4>1 DEF FLPs
      <4>3. \A f \in FLPs : f < senders[m].i => f < senders[m].i + 1
        BY <2>3, <4>1
      <4>4. QED
        BY <2>2, <3>2, <4>2, <4>3
    <3>3. CASE o # m
      BY <2>2, <3>1, <3>3
    <3>4. QED
      BY <3>2, <3>3
  <2>5. \A o \in DOMAIN senders : DOMAIN senders'[o] = {"i", "vec"}
    BY <2>2 DEF ScheduleTypes
  <2>6. QED
    BY <1>1, <2>2, <2>4, <2>5, SendersGiveUp
<1>3. CASE ~MoreFlps(m)
  <2>1. senders' = [o \in DOMAIN senders \ {m} |-> senders[o]]
    BY Zenon, <1>3 DEF SendFails, NextFlp
  <2>2. DOMAIN senders' \subseteq DOMAIN senders /\ \A o \in DOMAIN senders' : senders'[o] = senders[o]
    BY <2>1
  <2>3. ~late => \A o \in DOMAIN senders : senders[o].i \in FLPs
    BY Zenon DEF SchedulesInv
  <2>4. \A o \in DOMAIN senders' : DOMAIN senders'[o] = {"i", "vec"}
    BY <2>2 DEF ScheduleTypes
  <2>5. QED
    BY <1>1, <2>2, <2>3, <2>4, SendersGiveUp
<1>4. QED
  BY <1>2, <1>3

\* The end of the process: no sender is left.
LEMMA SendersKilledSchedules ==
    ASSUME ScheduleTypes, SchedulesInv, SendersKilled
    PROVE  ScheduleTypes' /\ SchedulesInv'
<1>1. Over /\ UNCHANGED <<conf, sched, late, schedflp, got>> /\ DOMAIN senders' = {}
  BY DEF SendersKilled, schedulerOnly
<1>2. QED
  BY <1>1, SendersGiveUp

LEMMA SchedulesInit ==
    ASSUME Init
    PROVE  ScheduleTypes /\ SchedulesInv
<1>1. \A f \in FLPs : got[f] = <<>> /\ schedflp[f] = <<>>
  BY DEF Init
<1>2. \A f \in FLPs : got[f] \in Seq({}) /\ schedflp[f] \in Seq({})
  <2>1. <<>> \in Seq({})
    BY SMTT(20)
  <2>2. QED
    BY Zenon, <1>1, <2>1
<1>3. sched.scheduleNumber = 0 /\ DOMAIN sched = SchedulerFields
  BY DEF Init, SchedulerFields
<1>4. DOMAIN senders = {}
  BY DEF Init
<1>5. ScheduleTypes
  BY Zenon, <1>2, <1>3, <1>4 DEF Init, ScheduleTypes
<1>6. \A f \in FLPs : SentTo(f) /\ Total(f) = 0
  <2>1. \A f \in FLPs : SentTo(f)
    BY <1>4 DEF SentTo
  <2>2. Len(<<>>) = 0
    OBVIOUS
  <2>3. \A f \in FLPs : Total(f) = 0 + 0
    BY Zenon, <1>1, <2>2 DEF Total
  <2>4. QED
    BY <2>1, <2>3
<1>7. SchedulesInv
  BY <1>3, <1>4, <1>6 DEF SchedulesInv
<1>8. QED
  BY Zenon, <1>5, <1>7

LEMMA SchedulesStep ==
    ASSUME ScheduleTypes, SchedulesInv, [Next]_vars
    PROVE  ScheduleTypes' /\ SchedulesInv'
<1>1. DOMAIN sched = SchedulerFields
  BY Zenon DEF ScheduleTypes
<1>2. CASE Tick \/ UNCHANGED vars
  BY Zenon, <1>1, <1>2, SchedulesQuiet DEF Tick, vars, Over
<1>3. CASE Scheduler
  <2>1. CASE scheduler_InitTask \/ CheckTime
    <3>1. UNCHANGED <<conf, senders, late, schedflp, got>>
      BY <2>1 DEF scheduler_InitTask, CheckTime, schedulerOnly
    <3>2. CASE scheduler_InitTask
      <4>1. PICK h : sched' = [sched EXCEPT !.pc = "loop", !.keyForGeneratingArray = now, !.keyForExiting = now,
                                            !.history = h]
        BY Zenon, <3>2 DEF scheduler_InitTask
      <4>2. ~Over
        BY <3>2 DEF scheduler_InitTask, Over
      <4>3. QED
        BY Zenon, <1>1, <3>1, <4>1, <4>2, SchedulesQuiet DEF SchedulerFields
    <3>3. CASE CheckTime
      <4>1. \/ sched' = Ended(sched, "done")
            \/ \E pc, i : sched' = [sched EXCEPT !.pc = pc, !.i = i] \/ sched' = [sched EXCEPT !.pc = pc]
        BY Zenon, <3>3 DEF CheckTime
      <4>2. ~Over
        BY <3>3 DEF CheckTime, Over
      <4>3. CASE sched' = Ended(sched, "done")
        BY <1>1, <3>1, <4>2, <4>3, EndedFields, SchedulesQuiet
      <4>4. CASE \E pc, i : sched' = [sched EXCEPT !.pc = pc, !.i = i] \/ sched' = [sched EXCEPT !.pc = pc]
        BY Zenon, <1>1, <3>1, <4>2, <4>4, SchedulesQuiet DEF SchedulerFields
      <4>5. QED
        BY <4>1, <4>3, <4>4
    <3>4. QED
      BY <2>1, <3>2, <3>3
  <2>2. CASE ReceiveReport
    <3>1. UNCHANGED <<conf, senders, late, schedflp, got>>
      BY Zenon, <2>2 DEF ReceiveReport, schedulerOnly
    <3>2. PICK s : /\ s = update(sched, sched.i, Head(epnsched[sched.i]))
                   /\ \/ sched' = Ended(s, "undefined")
                      \/ sched' = [s EXCEPT !.i = sched.i + 1,
                                            !.pc = IF sched.i = conf.epns THEN "generate" ELSE "check"]
      BY Zenon, <2>2 DEF ReceiveReport
    <3>3. PICK h, t, pc : s = [sched EXCEPT !.history = h, !.tooOld = t, !.pc = pc]
      BY Zenon, <3>2 DEF update
    <3>4. DOMAIN s = SchedulerFields /\ s.scheduleNumber = sched.scheduleNumber
          /\ s.vectorForFlps = sched.vectorForFlps
      BY <1>1, <3>3 DEF SchedulerFields
    <3>5. DOMAIN sched' = SchedulerFields /\ sched'.scheduleNumber = s.scheduleNumber
          /\ sched'.vectorForFlps = s.vectorForFlps
      <4>1. CASE sched' = Ended(s, "undefined")
        BY <3>4, <4>1, EndedFields
      <4>2. CASE sched' # Ended(s, "undefined")
        BY Zenon, <3>2, <3>4, <4>2 DEF SchedulerFields
      <4>3. QED
        BY <4>1, <4>2
    <3>6. ~Over
      BY Zenon, <2>2 DEF ReceiveReport, Over
    <3>7. QED
      BY <3>1, <3>4, <3>5, <3>6, SchedulesQuiet
  <2>3. CASE Generate
    BY <2>3, GenerateSchedules
  <2>4. CASE ClearVector
    <3>1. UNCHANGED <<conf, senders, late, schedflp, got>>
          /\ sched' = [sched EXCEPT !.pc = "loop", !.vectorForFlps = @]
      BY <2>4 DEF ClearVector, schedulerOnly, Cleared
    <3>2. ~Over
      BY <2>4 DEF ClearVector, Over
    <3>3. QED
      BY <1>1, <3>1, <3>2, SchedulesQuiet DEF SchedulerFields
  <2>5. QED
    BY <1>3, <2>1, <2>2, <2>3, <2>4 DEF Scheduler
<1>4. CASE Sender
  BY <1>4, LoadVectorSchedules, SendScheduleSchedules, SendFailsSchedules, SendersKilledSchedules DEF Sender
<1>5. ASSUME NEW f \in FLPs, Flp(f) PROVE ScheduleTypes' /\ SchedulesInv'
  <2>1. CASE flp_InitTask(f) \/ FlpLoop(f) \/ FlpSend(f)
    BY Zenon, <1>1, <2>1, SchedulesQuiet DEF flp_InitTask, FlpLoop, FlpSend, flpOnly, Over
  <2>2. CASE FlpReceive(f)
    BY <2>2, FlpReceiveSchedules
  <2>3. QED
    BY <1>5, <2>1, <2>2 DEF Flp
<1>6. ASSUME NEW e \in EPNs, Epn(e) \/ EpnReport(e) \/ Delayed(e) PROVE ScheduleTypes' /\ SchedulesInv'
  <2>1. UNCHANGED <<conf, sched, senders, late, schedflp, got>>
    BY Zenon, <1>6 DEF Epn, epn_InitTask, EpnReport, EpnPoll, EpnReceive, EpnLoad, EpnStore, EpnCompare, EpnReset,
                Delayed, DelayedLoad, DelayedStore, epnOnly
  <2>2. QED
    BY Zenon, <1>1, <2>1, SchedulesQuiet DEF Over
<1>7. QED
  BY <1>2, <1>3, <1>4, <1>5, <1>6 DEF Next

\* scheduler::ConditionalRun, its sender threads and flp::ConditionalRun: for any numbers of
\* devices and any times, all FLPs work through the same schedules until a sender thread is
\* still at work when the scheduler makes its next schedule, although a sender reads the
\* vector after it was cleared.
THEOREM FlpsGetTheSameSchedules == Spec => []SameSchedules
<1>1. Init => ScheduleTypes /\ SchedulesInv
  BY SchedulesInit
<1>2. ScheduleTypes /\ SchedulesInv /\ [Next]_vars => ScheduleTypes' /\ SchedulesInv'
  BY SchedulesStep
<1>3. ScheduleTypes /\ SchedulesInv => SameSchedules
  <2> SUFFICES ASSUME ScheduleTypes, SchedulesInv, ~late, NEW f \in FLPs, NEW g \in FLPs,
                      NEW k \in DOMAIN got[f] \cap DOMAIN got[g]
               PROVE  got[f][k] = got[g][k]
    BY DEF SameSchedules
  <2>1. PICK n \in Nat : n = sched.scheduleNumber
    BY DEF ScheduleTypes
  <2>2. ASSUME NEW h \in {f, g} PROVE k \in 1 .. n /\ k <= Total(h) /\ Nth(h, k) = got[h][k]
    <3>1. PICK r \in Nat, l \in Nat : r = Len(got[h]) /\ l = Len(schedflp[h]) /\ DOMAIN got[h] = 1 .. r
      BY TotalType
    <3>2. k \in 1 .. r
      BY <3>1
    <3>3. Total(h) = r + l
      BY <3>1 DEF Total
    <3>4. Total(h) <= n
      BY <2>1, <3>3 DEF SchedulesInv
    <3>5. k <= r + l /\ k <= n
      BY <3>2, <3>3, <3>4
    <3>6. Nth(h, k) = got[h][k]
      BY <3>1, <3>2 DEF Nth
    <3>7. QED
      BY <2>1, <3>2, <3>3, <3>5, <3>6
  <2>3. QED
    BY <2>1, <2>2 DEF SchedulesInv
<1>4. QED
  BY <1>1, <1>2, <1>3, PTL DEF Spec
=============================================================================
