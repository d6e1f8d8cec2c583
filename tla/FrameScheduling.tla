--------------------------- MODULE FrameScheduling ---------------------------
(***************************************************************************)
(* The example SCHEDULER-FLP-EPN. Every EPN reports its free slots to the  *)
(* scheduler once a second. The scheduler keeps a history of the reports   *)
(* and sends the FLPs a schedule, the EPNs with most free slots first. An  *)
(* FLP sends one sub-time-frame to every EPN of the schedule it received.  *)
(* An EPN that has the sub-time-frames of all FLPs processes the time      *)
(* frame in a thread of its own, which takes one slot.                     *)
(*                                                                         *)
(* Time is in units of intMs, the granularity of getHistKey. freeSlots is  *)
(* shared by the threads of an EPN without a lock, so its increments and   *)
(* decrements are a load and a store. The schedule is shared by the        *)
(* scheduler and its sender threads without a lock, too.                   *)
(***************************************************************************)
EXTENDS Integers, Sequences, FiniteSetsExt

CONSTANTS
    Configurations, \* the instances to choose from, see below
    HistoryMax,     \* historyMaxMs
    Validity        \* the 5000 of generateArray1

\* A configuration has the options numEPNS (epns), numFLPS (flps), amountEPNs (amount) and
\* programTime, maxSlots, the times at which the scheduler, the FLPs and the EPNs start, and
\* the parties that may be slow: the others do what they can do before the clock goes on.
Parties == {"scheduler", "senders", "flps", "epns", "reports", "work"}

ASSUME ConfigurationsOK ==
    /\ {HistoryMax, Validity} \subseteq Nat \ {0}
    /\ \A c \in Configurations :
          /\ {c.epns, c.flps, c.amount, c.maxSlots, c.programTime} \subseteq Nat \ {0}
          /\ Range(c.start) \subseteq Nat \ {0}
          /\ c.slow \subseteq Parties

VARIABLES
    conf,       \* the configuration
    now,        \* getHistKey()
    sched,      \* the scheduler
    senders,    \* its sender threads that have not ended, by schedule number
    flp,        \* the FLPs
    epn,        \* the EPNs: the device and its thread send
    work,       \* the threads MyDelayedFun of every EPN
    epnsched, schedflp, data,   \* the channels
    got, late, raced            \* what the properties are about, see below

vars == <<conf, now, sched, senders, flp, epn, work, epnsched, schedflp, data, got, late, raced>>

EPNs == 1..conf.epns
FLPs == 1..conf.flps

\* An entry of a schedule that is no EPN: -1, or what freed memory holds.
NoEpn == -1
Schedules == [1..conf.amount -> EPNs \cup {NoEpn}]

EpnInfo == [ts |-> 0, memVal |-> 0]

\* A map with one entry more, or another one.
With(map, key, value) == [k \in DOMAIN map \cup {key} |-> IF k = key THEN value ELSE map[k]]

Init ==
    /\ conf \in Configurations
    /\ now = 1
    /\ sched = [pc |-> "idle", i |-> 1, history |-> <<>>, tooOld |-> 0, keyForGeneratingArray |-> 0,
                keyForExiting |-> 0, vectorForFlps |-> <<>>, scheduleNumber |-> 0, EpnsInSchedule |-> 0, cut |-> {}]
    /\ senders = <<>>
    /\ flp = [f \in FLPs |-> [pc |-> "idle", i |-> 1, arrayofEpns |-> <<>>, sTF |-> 0, startTime |-> 0, wake |-> 0]]
    /\ epn = [e \in EPNs |-> [pc |-> "idle", freeSlots |-> 0, rcvdSTFs |-> <<>>, ready |-> {}, loaded |-> 0,
                              startTime |-> 0, sender |-> "idle", wake |-> 0]]
    /\ work = [e \in EPNs |-> <<>>]
    /\ epnsched = [e \in EPNs |-> <<>>]
    /\ schedflp = [f \in FLPs |-> <<>>]
    /\ data = [f \in FLPs |-> [e \in EPNs |-> <<>>]]
    /\ got = [f \in FLPs |-> <<>>] /\ late = FALSE /\ raced = [e \in EPNs |-> FALSE]

-----------------------------------------------------------------------------
(* Time.                                                                   *)

\* Bounds: nobody is slow any more once the time of every device is up, and after MaxTime
\* nobody has anything to do.
Deadline == Max(Range(conf.start)) + conf.programTime
MaxTime == Deadline + conf.amount + 1

OutOfTime(startTime) == now - startTime >= conf.programTime

\* Whether a party can do something now.
Busy(p) ==
    CASE p = "scheduler" -> \/ sched.pc \in {"loop", "check", "generate", "clear"}
                            \/ sched.pc = "receive" /\ epnsched[sched.i] # <<>>
      [] p = "senders" -> DOMAIN senders # {}
      [] p = "flps" -> \E f \in FLPs : \/ flp[f].pc \in {"loop", "send"} /\ now >= flp[f].wake
                                       \/ flp[f].pc = "receive" /\ schedflp[f] # <<>>
      [] p = "epns" -> \E e \in EPNs :
            \/ epn[e].pc \in {"receive", "load", "store", "compare", "reset"}
            \/ epn[e].pc = "loop" /\ (OutOfTime(epn[e].startTime) \/ \E f \in FLPs : data[f][e] # <<>>)
      [] p = "reports" -> \E e \in EPNs : epn[e].sender = "loop" /\ now >= epn[e].wake
      [] p = "work" -> \E e \in EPNs : \E w \in DOMAIN work[e] : work[e][w].pc = "store"

Starts(d) == now = conf.start[d]

\* Every device that starts at this time has started.
AllStarted ==
    /\ Starts("scheduler") => sched.pc # "idle"
    /\ Starts("flps") => \A f \in FLPs : flp[f].pc # "idle"
    /\ Starts("epns") => \A e \in EPNs : epn[e].pc # "idle"

Tick ==
    /\ now < MaxTime
    /\ AllStarted
    /\ \A p \in Parties : Busy(p) => p \in conf.slow /\ now < Deadline
    /\ now' = now + 1
    /\ UNCHANGED <<conf, sched, senders, flp, epn, work, epnsched, schedflp, data, got, late, raced>>

-----------------------------------------------------------------------------
(* The scheduler. ChangeState("READY") names no event: it throws           *)
(* out_of_range, which RunWrapper catches, and the run is over ("done").   *)

schedulerOnly == <<conf, now, flp, epn, work, data, got, raced>>

\* InitTask and initialize: the history begins with an entry without reports.
scheduler_InitTask ==
    /\ sched.pc = "idle" /\ Starts("scheduler")
    /\ sched' = [sched EXCEPT !.pc = "loop", !.keyForGeneratingArray = now, !.keyForExiting = now,
                              !.history = With(<<>>, now, [e \in EPNs |-> EpnInfo])]
    /\ UNCHANGED <<schedulerOnly, senders, epnsched, schedflp, late>>

\* The run of the scheduler is over; cut: the sender threads that are still at work then.
Over == sched.pc \in {"done", "undefined"}
Ended(s, pc) == [s EXCEPT !.pc = pc, !.cut = DOMAIN senders]

TimeIsUp == now - sched.keyForExiting > conf.programTime - 1

\* ConditionalRun, and for every EPN, looks at the time first.
CheckTime ==
    /\ sched.pc \in {"loop", "check"}
    /\ sched' = CASE TimeIsUp -> Ended(sched, "done")
                  [] ~TimeIsUp /\ sched.pc = "loop" -> [sched EXCEPT !.pc = "check", !.i = 1]
                  [] OTHER -> [sched EXCEPT !.pc = "receive"]
    /\ UNCHANGED <<schedulerOnly, senders, epnsched, schedflp, late>>

\* A new entry of the history: what is known of an EPN, unless it is too old.
CopyOf(entry, tooOld) == [e \in EPNs |-> IF entry[e].ts < tooOld THEN EpnInfo ELSE entry[e]]

\* update: the report goes into the entry of the current time; then the history is
\* trimmed. The loop that trims erases the same iterator each time, which is undefined
\* when it has to erase more than one entry.
update(s, e, mem) ==
    LET h == s.history
        entry == IF now \in DOMAIN h THEN h[now] ELSE CopyOf(h[Max(DOMAIN h)], s.tooOld)
        more == With(h, now, [entry EXCEPT ![e] = [ts |-> now, memVal |-> mem]])
        keep == {k \in DOMAIN more : now < k + HistoryMax}
        trimmed == [k \in keep |-> more[k]]
    IN  [s EXCEPT !.history = trimmed, !.tooOld = Min(keep),
                  !.pc = IF Cardinality(DOMAIN more \ keep) > 1 THEN "undefined" ELSE @]

\* Receive waits for the next report of EPN i.
ReceiveReport ==
    LET e == sched.i
        s == update(sched, e, Head(epnsched[e]))
    IN  /\ sched.pc = "receive" /\ epnsched[e] # <<>>
        /\ epnsched' = [epnsched EXCEPT ![e] = Tail(@)]
        /\ sched' = IF s.pc = "undefined" THEN Ended(s, "undefined")
                    ELSE [s EXCEPT !.i = e + 1, !.pc = IF e = conf.epns THEN "generate" ELSE "check"]
        /\ UNCHANGED <<schedulerOnly, senders, schedflp, late>>

\* The slots that the EPNs reported; -1 for an EPN whose report is not recent.
generateArray1 ==
    LET key == Max(DOMAIN sched.history)
    IN  [e \in EPNs |-> LET info == sched.history[key][e]
                        IN  IF info.ts + Validity >= key THEN info.memVal ELSE -1]

\* Mutation: an EPN that was chosen stays.
MaxStays(arr) ==
    LET e == CHOOSE e \in EPNs : \A o \in EPNs : arr[o] < arr[e] \/ (arr[o] = arr[e] /\ o >= e)
    IN  [arr |-> arr, max |-> IF arr[e] = -1 THEN NoEpn ELSE e]

\* The first EPN with the most free slots, which is taken out of the array.
maxSearch(arr) ==
    LET e == CHOOSE e \in EPNs : \A o \in EPNs : arr[o] < arr[e] \/ (arr[o] = arr[e] /\ o >= e)
    IN  IF arr[e] = -1 THEN [arr |-> arr, max |-> NoEpn] ELSE [arr |-> [arr EXCEPT ![e] = -1], max |-> e]

generateSchedule ==
    LET best[i \in 0..conf.amount] ==
            IF i = 0 THEN [arr |-> generateArray1, vec |-> <<>>]
            ELSE LET m == maxSearch(best[i - 1].arr) IN [arr |-> m.arr, vec |-> Append(best[i - 1].vec, m.max)]
    IN  best[conf.amount].vec

availableEpns(arr) == Cardinality({e \in EPNs : arr[e] > 0})
EpnsInSchedule(aE) == IF aE >= conf.amount THEN conf.amount ELSE aE

\* Half a unit has gone by since the last schedule; otherwise the run is over.
TimeToGenerate ==
    now >= sched.keyForGeneratingArray + 1 /\ now - sched.keyForExiting < conf.programTime - 1

\* The new schedule takes the place of the old one, whose memory is freed, and a thread
\* begins to send it.
Generate ==
    LET n == sched.scheduleNumber + 1
    IN  /\ sched.pc = "generate"
        /\ IF TimeToGenerate
           THEN /\ sched' = [sched EXCEPT !.pc = "clear", !.keyForGeneratingArray = now, !.scheduleNumber = n,
                                          !.vectorForFlps = generateSchedule,
                                          !.EpnsInSchedule = EpnsInSchedule(availableEpns(generateArray1))]
                /\ senders' = With(senders, n, [i |-> 1, vec |-> 0])
                /\ late' = (late \/ DOMAIN senders # {})
           ELSE /\ sched' = Ended(sched, "done")
                /\ UNCHANGED <<senders, late>>
        /\ UNCHANGED <<schedulerOnly, epnsched, schedflp>>

\* Mutation: the elements are gone.
Erased(vec) == [i \in DOMAIN vec |-> NoEpn]

\* vectorForFlps.clear(): the elements stay where they are, and data() points to them.
Cleared(vec) == vec

ClearVector ==
    /\ sched.pc = "clear"
    /\ sched' = [sched EXCEPT !.pc = "loop", !.vectorForFlps = Cleared(@)]
    /\ UNCHANGED <<schedulerOnly, senders, epnsched, schedflp, late>>

\* vec->data() of a sender thread: the memory of the schedule of that moment.
LoadVector(n) ==
    /\ senders[n].vec = 0
    /\ senders' = [senders EXCEPT ![n].vec = sched.scheduleNumber]
    /\ UNCHANGED <<schedulerOnly, sched, epnsched, schedflp, late>>

\* Mutation: the last FLP is forgotten.
FlpsBeforeLast(n) == senders[n].i + 1 < conf.flps

\* for (i = 0; i < *num; i++)
MoreFlps(n) == senders[n].i < conf.flps

NextFlp(n) ==
    senders' = IF MoreFlps(n) THEN [senders EXCEPT ![n] = [i |-> @.i + 1, vec |-> 0]]
               ELSE [m \in DOMAIN senders \ {n} |-> senders[m]]

\* memcpy and Send to the next FLP. Memory that was freed holds anything.
SendSchedule(n) ==
    \E vec \in IF senders[n].vec = sched.scheduleNumber THEN {sched.vectorForFlps} ELSE Schedules :
        /\ senders[n].vec # 0
        /\ schedflp' = [schedflp EXCEPT ![senders[n].i] = Append(@, vec)]
        /\ NextFlp(n)
        /\ UNCHANGED <<schedulerOnly, sched, epnsched, late>>

\* The end of the run interrupts the transports: Send fails, which the thread ignores.
SendFails(n) ==
    /\ Over /\ senders[n].vec # 0
    /\ NextFlp(n)
    /\ UNCHANGED <<schedulerOnly, sched, epnsched, schedflp, late>>

\* The process ends, and with it the threads that were detached.
SendersKilled ==
    /\ Over /\ DOMAIN senders # {}
    /\ senders' = <<>>
    /\ UNCHANGED <<schedulerOnly, sched, epnsched, schedflp, late>>

-----------------------------------------------------------------------------
(* An FLP.                                                                 *)

flpOnly == <<conf, now, sched, senders, epn, work, epnsched, late, raced>>

flp_InitTask(f) ==
    /\ flp[f].pc = "idle" /\ Starts("flps")
    /\ flp' = [flp EXCEPT ![f].pc = "loop", ![f].startTime = now]
    /\ UNCHANGED <<flpOnly, schedflp, data, got>>

FlpLoop(f) ==
    /\ flp[f].pc = "loop" /\ now >= flp[f].wake
    /\ flp' = [flp EXCEPT ![f].pc = IF OutOfTime(flp[f].startTime) THEN "done" ELSE "receive"]
    /\ UNCHANGED <<flpOnly, schedflp, data, got>>

\* Receive waits for a schedule, however long it takes.
FlpReceive(f) ==
    /\ flp[f].pc = "receive" /\ schedflp[f] # <<>>
    /\ flp' = [flp EXCEPT ![f].pc = "send", ![f].i = 1, ![f].arrayofEpns = Head(schedflp[f])]
    /\ schedflp' = [schedflp EXCEPT ![f] = Tail(@)]
    /\ got' = [got EXCEPT ![f] = Append(@, Head(schedflp[f]))]
    /\ UNCHANGED <<flpOnly, data>>

\* Mutation: the numbers start again with every schedule.
StartsAgain(v) == v.i

NextSTF(v) == v.sTF + 1

\* The next sub-time-frame, followed by a sleep. GetChannel throws out_of_range for an
\* entry that is no EPN, and the run is over.
FlpSend(f) ==
    LET v == flp[f]
        c == v.arrayofEpns[v.i]
        sTF == NextSTF(v)
    IN  /\ v.pc = "send" /\ now >= v.wake
        /\ IF c = NoEpn
           THEN /\ flp' = [flp EXCEPT ![f].pc = "done", ![f].sTF = sTF]
                /\ UNCHANGED data
           ELSE /\ flp' = [flp EXCEPT ![f].sTF = sTF, ![f].i = @ + 1, ![f].wake = now + 1,
                                      ![f].pc = IF v.i = conf.amount THEN "loop" ELSE "send"]
                /\ data' = [data EXCEPT ![f][c] = Append(@, sTF)]
        /\ UNCHANGED <<flpOnly, schedflp, got>>

-----------------------------------------------------------------------------
(* An EPN: its run, its thread that reports, and its threads that process. *)

epnOnly == <<conf, now, sched, senders, flp, schedflp, got, late>>

epn_InitTask(e) ==
    /\ epn[e].pc = "idle" /\ Starts("epns")
    /\ epn' = [epn EXCEPT ![e].pc = "loop", ![e].freeSlots = conf.maxSlots, ![e].startTime = now,
                          ![e].sender = "loop"]
    /\ UNCHANGED <<epnOnly, work, epnsched, data, raced>>

StillReports(e) == ~OutOfTime(epn[e].startTime)

\* send: a report and a sleep, until the time is up.
EpnReport(e) ==
    /\ epn[e].sender = "loop" /\ now >= epn[e].wake
    /\ IF StillReports(e)
       THEN /\ epnsched' = [epnsched EXCEPT ![e] = Append(@, epn[e].freeSlots)]
            /\ epn' = [epn EXCEPT ![e].wake = now + 1]
       ELSE /\ epn' = [epn EXCEPT ![e].sender = "done"]
            /\ UNCHANGED epnsched
    /\ UNCHANGED <<epnOnly, work, data, raced>>

\* ConditionalRun: the time, then the poll of receive(). A poll that finds nothing leads
\* back here.
EpnPoll(e) ==
    LET ready == {f \in FLPs : data[f][e] # <<>>}
        over == OutOfTime(epn[e].startTime)
    IN  /\ epn[e].pc = "loop"
        /\ over \/ ready # {}
        /\ epn' = [epn EXCEPT ![e].pc = IF over THEN "done" ELSE "receive",
                              ![e].ready = IF over THEN {} ELSE ready]
        /\ UNCHANGED <<epnOnly, work, epnsched, data, raced>>

\* After the message of an FLP: the next one that is ready.
NextInput(v) == IF v.ready = {} THEN "loop" ELSE "receive"

Count(rcvd, sTF) == IF sTF \in DOMAIN rcvd THEN rcvd[sTF] ELSE 0

\* A sub-time-frame arrives; the last one of a time frame takes a slot.
EpnReceive(e) ==
    LET f == Min(epn[e].ready)
        v == [epn[e] EXCEPT !.ready = @ \ {f}]
        sTF == Head(data[f][e])
        n == Count(v.rcvdSTFs, sTF) + 1
    IN  /\ epn[e].pc = "receive"
        /\ data' = [data EXCEPT ![f][e] = Tail(@)]
        /\ epn' = [epn EXCEPT ![e] = [v EXCEPT !.rcvdSTFs = With(@, sTF, n),
                                               !.pc = IF n = conf.flps THEN "load" ELSE NextInput(v)]]
        /\ UNCHANGED <<epnOnly, work, epnsched, raced>>

\* Whether a thread of the EPN has loaded freeSlots and not stored it yet.
Incrementing(e) == \E w \in DOMAIN work[e] : work[e][w].pc = "store"

\* freeSlots--
EpnLoad(e) ==
    /\ epn[e].pc = "load"
    /\ epn' = [epn EXCEPT ![e].loaded = epn[e].freeSlots, ![e].pc = "store"]
    /\ raced' = [raced EXCEPT ![e] = @ \/ Incrementing(e)]
    /\ UNCHANGED <<epnOnly, work, epnsched, data>>

EpnStore(e) ==
    /\ epn[e].pc = "store"
    /\ epn' = [epn EXCEPT ![e].freeSlots = epn[e].loaded - 1, ![e].pc = "compare"]
    /\ UNCHANGED <<epnOnly, work, epnsched, data, raced>>

\* if (freeSlots >= 0), on what was stored or on what is there by now. The time frame is
\* processed for a time that is random, or lost.
EpnCompare(e) ==
    LET w == CHOOSE w \in 1..(Cardinality(DOMAIN work[e]) + 1) : w \notin DOMAIN work[e]
    IN  /\ epn[e].pc = "compare"
        /\ \E slots \in {epn[e].loaded - 1, epn[e].freeSlots} :
              IF slots >= 0
              THEN /\ work' = [work EXCEPT ![e] = With(@, w, [pc |-> "asleep", loaded |-> 0])]
                   /\ epn' = [epn EXCEPT ![e].pc = NextInput(epn[e]), ![e].loaded = 0]
              ELSE /\ epn' = [epn EXCEPT ![e].pc = "reset", ![e].loaded = 0]
                   /\ UNCHANGED work
        /\ UNCHANGED <<epnOnly, epnsched, data, raced>>

\* Mutation: what was taken is not given back.
StaysNegative(v) == v.freeSlots

NoSlots(v) == 0

\* freeSlots = 0
EpnReset(e) ==
    /\ epn[e].pc = "reset"
    /\ epn' = [epn EXCEPT ![e].freeSlots = NoSlots(epn[e]), ![e].pc = NextInput(epn[e])]
    /\ UNCHANGED <<epnOnly, work, epnsched, data, raced>>

\* (*memory)++ of MyDelayedFun
DelayedLoad(e, w) ==
    /\ work[e][w].pc = "asleep"
    /\ work' = [work EXCEPT ![e][w] = [pc |-> "store", loaded |-> epn[e].freeSlots]]
    /\ raced' = [raced EXCEPT ![e] = @ \/ Incrementing(e) \/ epn[e].pc \in {"store", "compare", "reset"}]
    /\ UNCHANGED <<epnOnly, epn, epnsched, data>>

DelayedStore(e, w) ==
    /\ work[e][w].pc = "store"
    /\ epn' = [epn EXCEPT ![e].freeSlots = work[e][w].loaded + 1]
    /\ work' = [work EXCEPT ![e] = [o \in DOMAIN work[e] \ {w} |-> work[e][o]]]
    /\ UNCHANGED <<epnOnly, epnsched, data, raced>>

-----------------------------------------------------------------------------

Scheduler == scheduler_InitTask \/ CheckTime \/ ReceiveReport \/ Generate \/ ClearVector
Sender == SendersKilled \/ \E n \in DOMAIN senders : LoadVector(n) \/ SendSchedule(n) \/ SendFails(n)
Flp(f) == flp_InitTask(f) \/ FlpLoop(f) \/ FlpReceive(f) \/ FlpSend(f)
Epn(e) == epn_InitTask(e) \/ EpnPoll(e) \/ EpnReceive(e) \/ EpnLoad(e) \/ EpnStore(e) \/ EpnCompare(e) \/ EpnReset(e)
Delayed(e) == \E w \in DOMAIN work[e] : DelayedLoad(e, w) \/ DelayedStore(e, w)

Next ==
    \/ Tick \/ Scheduler \/ Sender
    \/ \E f \in FLPs : Flp(f)
    \/ \E e \in EPNs : Epn(e) \/ EpnReport(e) \/ Delayed(e)

\* Time passes and the operating system runs every thread. No party can go on for ever
\* while the clock waits, so this is as good as fairness to each of them.
Fairness == WF_vars(Next)

Spec == Init /\ [][Next]_vars /\ Fairness

-----------------------------------------------------------------------------
(* Properties.                                                             *)

\* No EPN gets more sub-time-frames of a time frame than there are FLPs: the assertion at
\* the end of the counting in epn::receive, whatever the schedules and the order in which
\* the messages of the FLPs arrive.
NoExtraParts ==
    \A e \in EPNs : \A s \in DOMAIN epn[e].rcvdSTFs : epn[e].rcvdSTFs[s] <= conf.flps

\* As long as no sender thread was still at work when the scheduler made its next
\* schedule, all FLPs work through the same schedules: the sub-time-frames of a time frame
\* go to one EPN, although the sender reads the vector after it was cleared.
SameSchedules ==
    ~late => \A f, g \in FLPs : \A k \in DOMAIN got[f] \cap DOMAIN got[g] : got[f][k] = got[g][k]

\* Between two messages of an EPN the free slots and the time frames in process make up
\* all slots, as long as no increment of MyDelayedFun overlapped another access of
\* freeSlots, also after time frames were lost for want of a slot.
SlotsAccounted ==
    \A e \in EPNs :
        epn[e].pc \in {"loop", "receive", "load", "done"} /\ ~raced[e]
            => epn[e].freeSlots + Cardinality(DOMAIN work[e]) = conf.maxSlots

\* What a schedule should be: the EPNs of which the history has a recent report, those with
\* most free slots first, each once, and no EPN only where there are no more; the number
\* that is logged is that of the EPNs in it that have a free slot.
Best(vec, history, logged) ==
    LET key == Max(DOMAIN history)
        info(e) == history[key][e]
        valid == {e \in EPNs : info(e).ts + Validity >= key /\ info(e).memVal >= 0}
        chosen == Range(vec) \ {NoEpn}
    IN  /\ chosen \subseteq valid
        /\ Cardinality(chosen) = Min({Cardinality(valid), conf.amount})
        /\ \A i \in DOMAIN vec : vec[i] # NoEpn <=> i <= Cardinality(chosen)
        /\ \A i, j \in 1..Cardinality(chosen) : i < j => info(vec[i]).memVal >= info(vec[j]).memVal
        /\ \A e \in chosen, o \in valid \ chosen : info(e).memVal >= info(o).memVal
        /\ logged = Cardinality({e \in chosen : info(e).memVal > 0})

\* Every schedule that scheduler::ConditionalRun makes is the best one for the reports
\* that it has, whichever EPNs reported late or in the middle of an update of freeSlots.
ScheduleIsBest ==
    [][sched'.scheduleNumber # sched.scheduleNumber =>
        Best(sched'.vectorForFlps, sched'.history, sched'.EpnsInSchedule)]_vars

\* In the end every schedule has reached every FLP that is still running, except those whose
\* sender thread, which nobody waits for, was still at work when the run of the scheduler
\* ended: its sends may fail then, and the end of the process ends it.
SchedulesArrive ==
    <>[](\A f \in FLPs :
            \/ flp[f].pc = "done"
            \/ Len(got[f]) \in (sched.scheduleNumber - Cardinality(sched.cut)) .. sched.scheduleNumber)

=============================================================================
