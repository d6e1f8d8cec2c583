--------------------------- MODULE PipelineProofs ---------------------------
(***************************************************************************)
(* The handlers of a device whose inputs have several transports exclude   *)
(* each other: a proof for every topology, every number of buffers and     *)
(* every time-out. What a step does to the heap and to the messages is not *)
(* looked at: the proof follows where a thread is (pc), the lock and the   *)
(* flag "proceed" through everything a thread does in a step.              *)
(***************************************************************************)
EXTENDS Pipeline, FiniteSetTheorems, TLAPS

ThreadFields == {"pc", "at", "mode", "elapsed", "parts", "what", "in", "todo", "ready"}
DeviceFields == {"n", "seen", "fDirection", "fNumUnackedMsgs", "lock", "proceed", "got"}

\* S is what a thread sees and changes in a step.
View(S) ==
    /\ DOMAIN S = {"h", "l", "v", "r"}
    /\ DOMAIN S.l = ThreadFields
    /\ DOMAIN S.v = DeviceFields

Busy == {"send", "recv"}

\* An input thread that handles a message holds the lock, and no handler has
\* returned false.
LockIInv ==
    /\ top \in Topologies
    /\ DOMAIN thr = Threads /\ DOMAIN dev = Devices
    /\ \A t \in Threads : DOMAIN thr[t] = ThreadFields
    /\ \A d \in Devices : DOMAIN dev[d] = DeviceFields
    /\ \A t \in Threads : thr[t].pc = "lock" => IsInputThread(t)
    /\ \A t \in Threads : IsInputThread(t) /\ thr[t].pc \in Busy =>
          dev[t[1]].lock = t[2] /\ dev[t[1]].proceed

\* How lock and proceed may change from S to X: not at all, or an input thread
\* gives the lock back and is no longer in a handler.
Keeps(S, X) == X.v.lock = S.v.lock /\ X.v.proceed = S.v.proceed
Gives(X) == X.v.lock = "none" /\ X.l.pc \notin Busy
Follows(S, X, t) ==
    /\ View(X)
    /\ X.l.pc = "lock" => IsInputThread(t)
    /\ Keeps(S, X) \/ (IsInputThread(t) /\ Gives(X))

-----------------------------------------------------------------------------
(* Threads.                                                                *)

\* A thread belongs to a device and is a pair.
LEMMA ThreadIsPair ==
    ASSUME NEW t \in Threads
    PROVE  t[1] \in Devices /\ t = <<t[1], t[2]>>
<1>1. PICK d \in Devices : t \in {<<d, "worker">>} \cup Helpers(d)
  BY DEF Threads
<1>2. \A u \in Helpers(d) : \E x : u = <<d, x>>
  BY DEF Helpers
<1>3. QED
  BY <1>1, <1>2

\* Only a device with OnData handlers has threads for its transports.
LEMMA InputThreadCallsBack ==
    ASSUME NEW t \in Threads, IsInputThread(t)
    PROVE  Of(t[1]).loop = "callback"
<1>1. PICK d \in Devices : t \in {<<d, "worker">>} \cup Helpers(d)
  BY DEF Threads
<1>2. t[2] # "worker" /\ t[2] # "listener"
  BY DEF IsInputThread
<1>3. t \in Helpers(d)
  BY <1>1, <1>2
<1>4. MultiTransport(d)
  BY <1>2, <1>3 DEF Helpers
<1>5. t[1] = d
  BY <1>3, <1>4 DEF Helpers
<1>6. QED
  BY <1>4, <1>5 DEF MultiTransport

-----------------------------------------------------------------------------
(* What the parts of a step do to pc, lock and proceed.                    *)

\* Send starts: the thread is in the socket, the lock is kept.
LEMMA StartSendKeeps ==
    ASSUME NEW S, NEW ms, NEW s, NEW mode, View(S)
    PROVE  /\ View(StartSend(S, ms, s, mode))
           /\ Keeps(S, StartSend(S, ms, s, mode))
           /\ StartSend(S, ms, s, mode).l.pc = "send"
<1>1. PICK h, parts, what :
          StartSend(S, ms, s, mode) =
              [S EXCEPT !.h = h,
                        !.l = [S.l EXCEPT !.pc = "send", !.at = s, !.mode = mode, !.elapsed = 0, !.parts = parts, !.what = what]]
  BY Zenon DEF StartSend
<1>2. QED
  BY <1>1 DEF View, Keeps, ThreadFields, DeviceFields

\* So does the next Send of a round.
LEMMA BeginSendKeeps ==
    ASSUME NEW S, NEW t, View(S)
    PROVE  /\ View(BeginSend(S, t))
           /\ Keeps(S, BeginSend(S, t))
           /\ BeginSend(S, t).l.pc = "send"
<1> DEFINE s == S.l.todo[1][1]
           how == S.l.todo[1][2]
           p == CASE how = "move" -> [heap |-> S.h, ms |-> S.l.in]
                  [] how = "copy" -> CopyParts(S, t[1], s)
                  [] OTHER -> NewParts(S, t[1], s)
           in == IF how = "move" THEN <<>> ELSE S.l.in
           v == IF Of(t[1]).how = "region" /\ TransportOf(s) = "zeromq" THEN RegionCallback(S.v) ELSE S.v
           R == [S EXCEPT !.h = p.heap, !.l = [S.l EXCEPT !.todo = Tail(@), !.in = in], !.v = v]
<1>1. BeginSend(S, t) = StartSend(R, p.ms, s, "wait")
  BY Zenon DEF BeginSend
<1>2. DOMAIN v = DeviceFields /\ v.lock = S.v.lock /\ v.proceed = S.v.proceed
  BY DEF View, RegionCallback, DeviceFields
<1> HIDE DEF s, how, p, in, v
<1>3. View(R) /\ Keeps(S, R)
  BY <1>2 DEF View, Keeps, ThreadFields
<1> HIDE DEF R
<1>4. View(StartSend(R, p.ms, s, "wait")) /\ Keeps(R, StartSend(R, p.ms, s, "wait"))
      /\ StartSend(R, p.ms, s, "wait").l.pc = "send"
  BY <1>3, StartSendKeeps
<1>5. QED
  BY <1>1, <1>3, <1>4 DEF Keeps

\* Receive starts.
LEMMA StartReceiveKeeps ==
    ASSUME NEW S, NEW t, NEW s, View(S)
    PROVE  /\ View(StartReceive(S, t, s))
           /\ Keeps(S, StartReceive(S, t, s))
           /\ StartReceive(S, t, s).l.pc = "recv"
  BY DEF StartReceive, View, Keeps, ThreadFields, DeviceFields

\* The next ready item: an input thread takes the lock before it looks at it.
LEMMA NextReadyKeeps ==
    ASSUME NEW S, NEW t, View(S)
    PROVE  /\ View(NextReady(S, t))
           /\ Keeps(S, NextReady(S, t))
           /\ IF IsInputThread(t) THEN NextReady(S, t).l.pc \notin Busy ELSE NextReady(S, t).l.pc # "lock"
<1>1. CASE S.l.ready = <<>>
  BY <1>1 DEF NextReady, View, Keeps, Busy, ThreadFields, DeviceFields
<1>2. CASE S.l.ready # <<>> /\ IsInputThread(t)
  BY <1>2 DEF NextReady, View, Keeps, Busy, ThreadFields, DeviceFields
<1>3. CASE S.l.ready # <<>> /\ ~IsInputThread(t)
  <2> DEFINE R == [S EXCEPT !.l.ready = Tail(@)]
             Q == [R EXCEPT !.l.todo = Sends(t[1], R.v, S.l.ready[1])]
  <2>1. NextReady(S, t) = StartReceive(R, t, S.l.ready[1]) \/ NextReady(S, t) = BeginSend(Q, t)
    BY Zenon, <1>3 DEF NextReady
  <2>2. View(R) /\ Keeps(S, R)
    BY DEF View, Keeps, ThreadFields, DeviceFields
  <2>3. View(Q) /\ Keeps(S, Q)
    <3> HIDE DEF R
    <3> QED
      BY <2>2 DEF View, Keeps, ThreadFields, DeviceFields
  <2> HIDE DEF R, Q
  <2>4. View(StartReceive(R, t, S.l.ready[1])) /\ Keeps(R, StartReceive(R, t, S.l.ready[1]))
        /\ StartReceive(R, t, S.l.ready[1]).l.pc = "recv"
    BY <2>2, StartReceiveKeeps
  <2>5. View(BeginSend(Q, t)) /\ Keeps(Q, BeginSend(Q, t)) /\ BeginSend(Q, t).l.pc = "send"
    BY <2>3, BeginSendKeeps
  <2>6. QED
    BY <1>3, <2>1, <2>2, <2>3, <2>4, <2>5 DEF Keeps
<1>4. QED
  BY <1>1, <1>2, <1>3

\* A thread that leaves its loop.
LEMMA LeaveKeeps ==
    ASSUME NEW S, NEW t, View(S)
    PROVE  /\ View(Leave(S, t))
           /\ Keeps(S, Leave(S, t))
           /\ Leave(S, t).l.pc \in {"join", "done"}
  BY DEF Leave, Thread, View, Keeps, ThreadFields, DeviceFields

\* The end of a round: an input thread gives the lock back, any other keeps off it.
LEMMA ReturnedFollows ==
    ASSUME NEW S, NEW t, NEW p, View(S)
    PROVE  Follows(S, Returned(S, t, p), t)
<1> DEFINE keep == Of(t[1]).how = "base" \/ Of(t[1]).loop = "api"
           R == [S EXCEPT !.h = IF keep THEN @ ELSE DestroyAll(@, S.l.in),
                          !.l = [S.l EXCEPT !.in = IF keep THEN @ ELSE <<>>, !.todo = <<>>, !.parts = <<>>]]
           Q == [R EXCEPT !.v = [S.v EXCEPT !.proceed = p, !.lock = "none"]]
           X == Returned(S, t, p)
           Looping(U) == U = [R EXCEPT !.l.pc = "loop"] \/ U = [R EXCEPT !.l = [R.l EXCEPT !.pc = "loop", !.ready = <<>>]]
<1> SUFFICES Follows(S, X, t)
  OBVIOUS
<1>1. /\ IsInputThread(t) => X = NextReady(Q, t) \/ X = [Q EXCEPT !.l = [R.l EXCEPT !.pc = "loop", !.ready = <<>>]]
      /\ ~IsInputThread(t) => X = NextReady(R, t) \/ X = Leave(R, t) \/ Looping(X)
  BY Zenon DEF Returned
<1>2. View(R) /\ Keeps(S, R)
  BY DEF View, Keeps, ThreadFields, DeviceFields
<1> HIDE DEF R
<1>3. View(Q) /\ Q.v.lock = "none" /\ Q.l = R.l
  BY <1>2 DEF View, ThreadFields, DeviceFields
<1> HIDE DEF Q, X
<1>4. CASE IsInputThread(t)
  <2>1. CASE X = NextReady(Q, t)
    BY <1>3, <1>4, <2>1, NextReadyKeeps DEF Follows, Gives, Keeps
  <2>2. CASE X = [Q EXCEPT !.l = [R.l EXCEPT !.pc = "loop", !.ready = <<>>]]
    BY <1>3, <1>4, <2>2 DEF Follows, Gives, View, Busy, ThreadFields
  <2>3. QED
    BY <1>1, <1>4, <2>1, <2>2
<1>5. CASE ~IsInputThread(t)
  <2>1. CASE X = NextReady(R, t)
    BY <1>2, <1>5, <2>1, NextReadyKeeps DEF Follows, Keeps
  <2>2. CASE X = Leave(R, t)
    BY <1>2, <1>5, <2>2, LeaveKeeps DEF Follows, Keeps
  <2>3. CASE Looping(X)
    BY <1>2, <1>5, <2>3 DEF Follows, Keeps, View, ThreadFields
  <2>4. QED
    BY <1>1, <1>5, <2>1, <2>2, <2>3
<1>6. QED
  BY <1>4, <1>5

\* Counting a round changes a counter at most.
LEMMA CountedKeeps ==
    ASSUME NEW S, NEW d, NEW s, NEW ok, Of(d).counts \in Counts
    PROVE  Counted(S, d, s, ok).v \in {S.v, [S.v EXCEPT !.n = @ + 1]}
  BY DEF Counted, Counts

\* So does what is noted of a Send.
LEMMA NotedKeeps ==
    ASSUME NEW d, NEW v, NEW ok, DOMAIN v = DeviceFields
    PROVE  /\ DOMAIN Noted(d, v, ok) = DeviceFields
           /\ Noted(d, v, ok).lock = v.lock
           /\ Noted(d, v, ok).proceed = v.proceed
  BY DEF Noted, DeviceFields

\* The end of a round, with its count: the lock is given back when the handler is done.
LEMMA EndRoundFollows ==
    ASSUME NEW S, NEW t, NEW s, NEW ok, View(S), Of(t[1]).counts \in Counts
    PROVE  Follows(S, EndRound(S, t, s, ok), t)
<1> DEFINE R == [S EXCEPT !.v = Noted(t[1], @, ok)]
           c == Counted(R, t[1], s, ok)
           Q == [R EXCEPT !.v = c.v]
<1>1. EndRound(S, t, s, ok) = Returned(Q, t, c.go)
  BY DEF EndRound
<1>2. View(R) /\ Keeps(S, R)
  BY NotedKeeps DEF View, Keeps
<1> HIDE DEF R
<1>3. c.v \in {R.v, [R.v EXCEPT !.n = @ + 1]}
  BY CountedKeeps
<1> HIDE DEF c
<1>4. View(Q) /\ Keeps(S, Q)
  BY <1>2, <1>3 DEF View, Keeps, DeviceFields
<1> HIDE DEF Q
<1>5. Follows(Q, Returned(Q, t, c.go), t)
  BY <1>4, ReturnedFollows
<1>6. QED
  BY <1>1, <1>4, <1>5 DEF Follows, Keeps

\* Send returned: the lock is kept for the next Send of the round or given back.
LEMMA AfterSendFollows ==
    ASSUME NEW S, NEW t, NEW ok, View(S), Of(t[1]).counts \in Counts
    PROVE  Follows(S, AfterSend(S, t, ok), t)
<1> DEFINE R == [S EXCEPT !.h = DestroyAll(@, S.l.parts), !.l = [S.l EXCEPT !.parts = <<>>, !.what = <<>>]]
           X == AfterSend(S, t, ok)
<1> SUFFICES Follows(S, X, t)
  OBVIOUS
<1>1. \/ X = [S EXCEPT !.l.pc = "failed"]
      \/ X = StartReceive(R, t, S.l.at)
      \/ X = BeginSend(R, t)
      \/ X = EndRound(R, t, S.l.at, ok)
  BY Zenon DEF AfterSend
<1>2. View(R) /\ Keeps(S, R)
  BY DEF View, Keeps, ThreadFields
<1> HIDE DEF R, X
<1>3. CASE X = [S EXCEPT !.l.pc = "failed"]
  BY <1>3 DEF Follows, View, Keeps, ThreadFields
<1>4. CASE X = StartReceive(R, t, S.l.at)
  <2>1. View(X) /\ Keeps(R, X) /\ X.l.pc = "recv"
    BY <1>2, <1>4, StartReceiveKeeps
  <2>2. QED
    BY <1>2, <2>1 DEF Follows, Keeps
<1>5. CASE X = BeginSend(R, t)
  <2>1. View(X) /\ Keeps(R, X) /\ X.l.pc = "send"
    BY <1>2, <1>5, BeginSendKeeps
  <2>2. QED
    BY <1>2, <2>1 DEF Follows, Keeps
<1>6. CASE X = EndRound(R, t, S.l.at, ok)
  <2>1. Follows(R, X, t)
    BY <1>2, <1>6, EndRoundFollows
  <2>2. QED
    BY <1>2, <2>1 DEF Follows, Keeps
<1>7. QED
  BY <1>1, <1>3, <1>4, <1>5, <1>6

\* The handler of the data, or what Run() does with it.
LEMMA HandleFollows ==
    ASSUME NEW S, NEW t, View(S), Of(t[1]).counts \in Counts
    PROVE  Follows(S, Handle(S, t), t)
<1> DEFINE s == S.l.at
           R == Taken(S, t[1])
           Q == [R EXCEPT !.l.todo = Sends(t[1], R.v, s)]
           X == Handle(S, t)
<1> SUFFICES Follows(S, X, t)
  OBVIOUS
<1>1. \/ X = Returned(R, t, TRUE)
      \/ X = StartReceive(R, t, s)
      \/ X = BeginSend(Q, t)
      \/ X = EndRound(R, t, s, TRUE)
  BY Zenon DEF Handle
<1>2. View(R) /\ Keeps(S, R)
  BY DEF Taken, View, Keeps, ThreadFields, DeviceFields
<1> HIDE DEF R
<1>3. View(Q) /\ Keeps(R, Q)
  BY <1>2 DEF View, Keeps, ThreadFields
<1> HIDE DEF Q, X
<1>4. CASE X = Returned(R, t, TRUE)
  <2>1. Follows(R, X, t)
    BY <1>2, <1>4, ReturnedFollows
  <2>2. QED
    BY <1>2, <2>1 DEF Follows, Keeps
<1>5. CASE X = StartReceive(R, t, s)
  <2>1. View(X) /\ Keeps(R, X) /\ X.l.pc = "recv"
    BY <1>2, <1>5, StartReceiveKeeps
  <2>2. QED
    BY <1>2, <2>1 DEF Follows, Keeps
<1>6. CASE X = BeginSend(Q, t)
  <2>1. View(X) /\ Keeps(Q, X) /\ X.l.pc = "send"
    BY <1>3, <1>6, BeginSendKeeps
  <2>2. QED
    BY <1>2, <1>3, <2>1 DEF Follows, Keeps
<1>7. CASE X = EndRound(R, t, s, TRUE)
  <2>1. Follows(R, X, t)
    BY <1>2, <1>7, EndRoundFollows
  <2>2. QED
    BY <1>2, <2>1 DEF Follows, Keeps
<1>8. QED
  BY <1>1, <1>4, <1>5, <1>6, <1>7

\* Receive returned.
LEMMA AfterReceiveFollows ==
    ASSUME NEW S, NEW t, NEW ok, View(S), Of(t[1]).counts \in Counts
    PROVE  Follows(S, AfterReceive(S, t, ok), t)
<1> DEFINE R == [S EXCEPT !.h = DestroyAll(@, S.l.parts), !.l.parts = <<>>]
           p == Of(t[1]).counts \in {"benchmark", "sent"} \/ Of(t[1]).loop = "api" \/ S.l.in # <<>>
           X == AfterReceive(S, t, ok)
<1> SUFFICES Follows(S, X, t)
  OBVIOUS
<1>1. X = Handle(S, t) \/ X = EndRound(R, t, S.l.at, FALSE) \/ X = Returned(R, t, p)
  BY Zenon DEF AfterReceive
<1>2. View(R) /\ Keeps(S, R)
  BY DEF View, Keeps, ThreadFields
<1> HIDE DEF R, p, X
<1>3. CASE X = Handle(S, t)
  BY <1>3, HandleFollows
<1>4. CASE X = EndRound(R, t, S.l.at, FALSE)
  <2>1. Follows(R, X, t)
    BY <1>2, <1>4, EndRoundFollows
  <2>2. QED
    BY <1>2, <2>1 DEF Follows, Keeps
<1>5. CASE X = Returned(R, t, p)
  <2>1. Follows(R, X, t)
    BY <1>2, <1>5, ReturnedFollows
  <2>2. QED
    BY <1>2, <2>1 DEF Follows, Keeps
<1>6. QED
  BY <1>1, <1>3, <1>4, <1>5

\* An attempt of nn_send calls back for a region at most.
LEMMA AttemptedKeeps ==
    ASSUME NEW S, View(S)
    PROVE  View(Attempted(S)) /\ Keeps(S, Attempted(S)) /\ Attempted(S).l = S.l
  BY DEF Attempted, RegionCallback, View, Keeps, DeviceFields

-----------------------------------------------------------------------------
(* The steps.                                                              *)

\* The threads are those of the topology, which no step changes.
LEMMA ThreadsStay ==
    ASSUME top' = top
    PROVE  Threads' = Threads /\ Devices' = Devices
<1>1. Links' = Links /\ Devices' = Devices /\ \A d : Of(d)' = Of(d)
  BY DEF Links, Devices, Of
<1>2. Sockets' = Sockets
  BY <1>1 DEF Sockets
<1>3. \A s : TransportOf(s)' = TransportOf(s)
  BY <1>1 DEF TransportOf
<1>4. \A d, ch : Channel(d, ch)' = Channel(d, ch)
  BY <1>2 DEF Channel
<1>5. \A d : InputTransports(d)' = InputTransports(d)
  BY <1>1, <1>3, <1>4 DEF InputTransports
<1>6. \A d : MultiTransport(d)' = MultiTransport(d) /\ Listens(d)' = Listens(d)
  BY <1>1, <1>5 DEF MultiTransport, Listens
<1>7. \A d : Helpers(d)' = Helpers(d)
  BY <1>5, <1>6 DEF Helpers
<1>8. QED
  BY <1>1, <1>7 DEF Threads

\* What a thread sees at the beginning of a step.
LEMMA NowIsView ==
    ASSUME LockIInv, NEW t \in Threads
    PROVE  View(Now(t)) /\ Now(t).l = thr[t] /\ Now(t).v = dev[t[1]] /\ Of(t[1]).counts \in Counts
<1>1. t[1] \in Devices
  BY ThreadIsPair
<1>2. QED
  BY <1>1, ProgramsAssumption DEF Now, View, LockIInv, Devices, Of

\* A step keeps the invariant if it leaves lock and proceed alone and does not
\* start a handler of an input thread, ends a handler and gives the lock back, or
\* takes the lock when it is free and no handler has returned false.
LEMMA StepKeepsLock ==
    ASSUME LockIInv, NEW t \in Threads, NEW X, Become(t, X), View(X),
           X.l.pc = "lock" => IsInputThread(t),
           \/ Keeps(Now(t), X) /\ (IsInputThread(t) /\ X.l.pc \in Busy => thr[t].pc \in Busy)
           \/ IsInputThread(t) /\ thr[t].pc \in Busy /\ Gives(X)
           \/ /\ IsInputThread(t) /\ dev[t[1]].lock = "none" /\ dev[t[1]].proceed
              /\ X.v.lock = t[2] /\ X.v.proceed = dev[t[1]].proceed
    PROVE  LockIInv'
<1>1. /\ top' = top
      /\ thr' = [thr EXCEPT ![t] = X.l]
      /\ dev' = [dev EXCEPT ![t[1]] = X.v]
  BY DEF Become
<1>2. Threads' = Threads /\ Devices' = Devices
  BY <1>1, ThreadsStay
<1>3. t[1] \in Devices /\ t = <<t[1], t[2]>>
  BY ThreadIsPair
<1>4. Now(t).v = dev[t[1]]
  BY NowIsView
<1>5. /\ thr'[t] = X.l /\ \A u \in Threads : u # t => thr'[u] = thr[u]
      /\ dev'[t[1]] = X.v /\ \A d \in Devices : d # t[1] => dev'[d] = dev[d]
      /\ DOMAIN thr' = Threads /\ DOMAIN dev' = Devices
  BY <1>1, <1>3 DEF LockIInv
<1>6. /\ top' \in Topologies
      /\ \A u \in Threads : DOMAIN thr'[u] = ThreadFields
      /\ \A d \in Devices : DOMAIN dev'[d] = DeviceFields
      /\ \A u \in Threads : thr'[u].pc = "lock" => IsInputThread(u)
  BY <1>1, <1>5 DEF LockIInv, View
<1>7. ASSUME NEW u \in Threads, IsInputThread(u), thr'[u].pc \in Busy
      PROVE  dev'[u[1]].lock = u[2] /\ dev'[u[1]].proceed
  <2>1. u[1] \in Devices /\ u = <<u[1], u[2]>>
    BY ThreadIsPair
  <2>2. u[2] # "none"
    BY <1>7 DEF IsInputThread
  <2>3. thr[u].pc \in Busy => dev[u[1]].lock = u[2] /\ dev[u[1]].proceed
    BY <1>7 DEF LockIInv
  <2>4. CASE u[1] # t[1]
    BY <1>5, <1>7, <2>1, <2>3, <2>4
  <2>5. CASE u = t
    BY <1>4, <1>5, <1>7, <2>3, <2>5 DEF Keeps, Gives
  <2>6. CASE u # t /\ u[1] = t[1]
    <3>1. u[2] # t[2] /\ thr[u].pc \in Busy
      BY <1>3, <1>5, <1>7, <2>1, <2>6
    <3>2. dev[t[1]].lock = u[2] /\ dev[t[1]].proceed
      BY <2>3, <2>6, <3>1
    <3>3. ~(IsInputThread(t) /\ thr[t].pc \in Busy) /\ dev[t[1]].lock # "none"
      BY <2>2, <3>1, <3>2 DEF LockIInv
    <3>4. Keeps(Now(t), X)
      BY <3>3
    <3>5. QED
      BY <1>4, <1>5, <2>6, <3>2, <3>4 DEF Keeps
  <2>7. QED
    BY <2>4, <2>5, <2>6
<1>8. \A u : IsInputThread(u)' = IsInputThread(u)
  BY DEF IsInputThread
<1>9. QED
  BY <1>2, <1>5, <1>6, <1>7, <1>8 DEF LockIInv

\* In particular, a step that goes on from a view of a thread in its handler, or of a
\* thread that is none of the input threads.
LEMMA FollowingKeepsLock ==
    ASSUME LockIInv, NEW t \in Threads, NEW S, NEW X, Become(t, X), Keeps(Now(t), S), Follows(S, X, t),
           IsInputThread(t) => thr[t].pc \in Busy
    PROVE  LockIInv'
<1>1. View(X) /\ (X.l.pc = "lock" => IsInputThread(t))
  BY DEF Follows
<1>2. Keeps(Now(t), X) \/ (IsInputThread(t) /\ Gives(X))
  BY DEF Follows, Keeps
<1>3. QED
  BY <1>1, <1>2, StepKeepsLock

\* The head of a loop: an input thread polls or ends, and is in no handler.
LEMMA LoopHeadKeepsLock ==
    ASSUME LockIInv, NEW t \in Threads, LoopHead(t)
    PROVE  LockIInv'
<1> DEFINE S == Now(t)
           B == BaseMessage(S, t)
           Q == [B EXCEPT !.l.todo = Sends(t[1], B.v, <<>>)]
           input == Channel(t[1], Of(t[1]).in[1])[1]
<1>1. \/ Become(t, Leave(S, t))
      \/ Become(t, [S EXCEPT !.l.pc = "poll"])
      \/ ~IsInputThread(t) /\ Become(t, BeginSend(Q, t))
      \/ ~IsInputThread(t) /\ Become(t, StartReceive(S, t, input))
  <2>1. IsInputThread(t) => Polls(t) /\ t[2] # "worker"
    BY DEF IsInputThread, Polls
  <2>2. QED
    BY Zenon, <2>1 DEF LoopHead
<1>2. View(S)
  BY NowIsView
<1> HIDE DEF S
<1>3. View(B) /\ Keeps(S, B)
  <2>1. B = S \/ \E h, in : B = [S EXCEPT !.h = h, !.l.in = in]
    BY Zenon DEF BaseMessage
  <2> HIDE DEF B
  <2>2. QED
    BY <1>2, <2>1 DEF View, Keeps, ThreadFields
<1> HIDE DEF B
<1>4. View(Q) /\ Keeps(S, Q)
  BY <1>3 DEF View, Keeps, ThreadFields
<1> HIDE DEF Q, input
<1>5. PICK X :
          /\ Become(t, X)
          /\ \/ X = Leave(S, t)
             \/ X = [S EXCEPT !.l.pc = "poll"]
             \/ ~IsInputThread(t) /\ X = BeginSend(Q, t)
             \/ ~IsInputThread(t) /\ X = StartReceive(S, t, input)
  BY Zenon, <1>1
<1>6. /\ View(X) /\ Keeps(S, X) /\ X.l.pc # "lock"
      /\ IsInputThread(t) => X.l.pc \notin Busy
  <2>1. CASE X = Leave(S, t)
    <3>1. View(X) /\ Keeps(S, X) /\ X.l.pc \in {"join", "done"}
      BY <1>2, <2>1, LeaveKeeps
    <3>2. QED
      BY <3>1 DEF Busy
  <2>2. CASE X = [S EXCEPT !.l.pc = "poll"]
    BY <1>2, <2>2 DEF View, Keeps, Busy, ThreadFields
  <2>3. CASE ~IsInputThread(t) /\ X = BeginSend(Q, t)
    <3>1. View(X) /\ Keeps(Q, X) /\ X.l.pc = "send"
      BY <1>4, <2>3, BeginSendKeeps
    <3>2. QED
      BY <1>4, <2>3, <3>1 DEF Keeps
  <2>4. CASE ~IsInputThread(t) /\ X = StartReceive(S, t, input)
    <3>1. View(X) /\ Keeps(S, X) /\ X.l.pc = "recv"
      BY <1>2, <2>4, StartReceiveKeeps
    <3>2. QED
      BY <2>4, <3>1
  <2>5. QED
    BY <1>5, <2>1, <2>2, <2>3, <2>4
<1>7. Keeps(Now(t), X)
  BY <1>6 DEF S
<1>8. QED
  BY <1>5, <1>6, <1>7, StepKeepsLock

\* Poll returns: a ready input thread only queues for the lock.
LEMMA PollKeepsLock ==
    ASSUME LockIInv, NEW t \in Threads, Poll(t) \/ PollThrows(t)
    PROVE  LockIInv'
<1>1. View(Now(t))
  BY NowIsView
<1>2. CASE Poll(t)
  <2> DEFINE Q == [Now(t) EXCEPT !.l.ready = Found(t)]
             X == NextReady(Q, t)
  <2>1. Become(t, X)
    BY <1>2 DEF Poll
  <2>2. View(Q) /\ Keeps(Now(t), Q)
    BY <1>1 DEF View, Keeps, ThreadFields
  <2> HIDE DEF Q
  <2>3. View(X) /\ Keeps(Q, X)
        /\ IF IsInputThread(t) THEN X.l.pc \notin Busy ELSE X.l.pc # "lock"
    BY <2>2, NextReadyKeeps
  <2> HIDE DEF X
  <2>4. Keeps(Now(t), X)
    BY <2>2, <2>3 DEF Keeps
  <2>5. QED
    BY <2>1, <2>3, <2>4, StepKeepsLock
<1>3. CASE PollThrows(t)
  <2> DEFINE X == [Now(t) EXCEPT !.r.state = "ERROR", !.l = Thread(IF t[2] = "worker" THEN "join" ELSE "done")]
  <2>1. Become(t, X)
    BY Zenon, <1>3 DEF PollThrows
  <2>2. View(X) /\ Keeps(Now(t), X) /\ X.l.pc \in {"join", "done"}
    BY <1>1 DEF Thread, View, Keeps, ThreadFields
  <2> HIDE DEF X
  <2>3. X.l.pc # "lock" /\ X.l.pc \notin Busy
    BY <2>2 DEF Busy
  <2>4. QED
    BY <2>1, <2>2, <2>3, StepKeepsLock
<1>4. QED
  BY <1>2, <1>3

\* lock_guard: the one step that makes an input thread the holder.
LEMMA LockKeepsLock ==
    ASSUME LockIInv, NEW t \in Threads, Lock(t)
    PROVE  LockIInv'
<1>1. View(Now(t)) /\ Now(t).v = dev[t[1]] /\ Now(t).l = thr[t]
  BY NowIsView
<1>2. IsInputThread(t) /\ dev[t[1]].lock = "none"
  BY DEF Lock, TakesLock, LockIInv
<1>3. CASE dev[t[1]].proceed
  <2> DEFINE R == [Now(t) EXCEPT !.l.ready = Tail(@)]
             Q == [R EXCEPT !.v.lock = t[2]]
             X == StartReceive(Q, t, Now(t).l.ready[1])
  <2>1. Become(t, X)
    BY Zenon, <1>3 DEF Lock
  <2>2. View(R) /\ Keeps(Now(t), R)
    BY <1>1 DEF View, Keeps, ThreadFields
  <2> HIDE DEF R
  <2>3. View(Q) /\ Q.v.lock = t[2] /\ Q.v.proceed = R.v.proceed
    BY <2>2 DEF View, DeviceFields
  <2> HIDE DEF Q
  <2>4. View(X) /\ Keeps(Q, X) /\ X.l.pc = "recv"
    BY <2>3, StartReceiveKeeps
  <2> HIDE DEF X
  <2>5. X.v.lock = t[2] /\ X.v.proceed = dev[t[1]].proceed
    BY <1>1, <2>2, <2>3, <2>4 DEF Keeps
  <2>6. QED
    BY <1>2, <1>3, <2>1, <2>4, <2>5, StepKeepsLock
<1>4. CASE ~dev[t[1]].proceed
  <2> DEFINE S == Now(t)
             X == [S EXCEPT !.l = [S.l EXCEPT !.pc = "loop", !.ready = <<>>]]
  <2>1. Become(t, X)
    BY Zenon, <1>4 DEF Lock
  <2>2. View(X) /\ Keeps(Now(t), X) /\ X.l.pc = "loop"
    BY <1>1 DEF View, Keeps, ThreadFields
  <2> HIDE DEF X
  <2>3. QED
    BY <1>2, <2>1, <2>2, StepKeepsLock DEF Busy
<1>5. QED
  BY <1>3, <1>4

\* A time-out that has not passed: the thread stays where it is.
LEMMA WaitingKeepsLock ==
    ASSUME LockIInv, NEW t \in Threads, WaitsOn(t)
    PROVE  LockIInv'
<1>1. top' = top /\ dev' = dev /\ thr' = [thr EXCEPT ![t].elapsed = @ + 1]
  BY DEF WaitsOn
<1>2. Threads' = Threads /\ Devices' = Devices
  BY <1>1, ThreadsStay
<1>3. DOMAIN thr' = Threads /\ \A u \in Threads : DOMAIN thr'[u] = ThreadFields /\ thr'[u].pc = thr[u].pc
  BY <1>1 DEF LockIInv, ThreadFields
<1>4. \A u : IsInputThread(u)' = IsInputThread(u)
  BY DEF IsInputThread
<1>5. QED
  BY <1>1, <1>2, <1>3, <1>4 DEF LockIInv

\* A Send that returns or waits: its thread keeps what it held until the round ends.
LEMMA SendKeepsLock ==
    ASSUME LockIInv, NEW t \in Threads, SendImpl(t) \/ SendEagain(t)
    PROVE  LockIInv'
<1>1. View(Now(t)) /\ Now(t).l = thr[t] /\ Of(t[1]).counts \in Counts
  BY NowIsView
<1>2. thr[t].pc = "send" /\ thr[t].pc \in Busy
  BY DEF SendImpl, SendEagain, Busy
<1> DEFINE S == Attempted(Now(t))
<1>3. View(S) /\ Keeps(Now(t), S) /\ S.l = thr[t]
  BY <1>1, AttemptedKeeps
<1>4. CASE SendImpl(t)
  <2>1. PICK h, ms : Become(t, AfterSend([S EXCEPT !.h = h, !.l.parts = ms], t, TRUE))
    BY Zenon, <1>4 DEF SendImpl
  <2> DEFINE Q == [S EXCEPT !.h = h, !.l.parts = ms]
  <2> HIDE DEF S
  <2>2. View(Q) /\ Keeps(S, Q)
    BY <1>3 DEF View, Keeps, ThreadFields
  <2>3. Keeps(Now(t), Q)
    BY <1>3, <2>2 DEF Keeps
  <2> HIDE DEF Q
  <2>4. Follows(Q, AfterSend(Q, t, TRUE), t)
    BY <1>1, <2>2, AfterSendFollows
  <2>5. Become(t, AfterSend(Q, t, TRUE))
    BY <2>1 DEF Q
  <2>6. QED
    BY <1>2, <2>3, <2>4, <2>5, FollowingKeepsLock
<1>5. CASE SendEagain(t)
  <2>1. CASE WaitsOn(t)
    BY <2>1, WaitingKeepsLock
  <2>2. CASE Become(t, S)
    <3> HIDE DEF S
    <3>1. S.l.pc # "lock"
      BY <1>2, <1>3
    <3>2. QED
      BY <1>2, <1>3, <2>2, <3>1, StepKeepsLock
  <2>3. CASE Become(t, AfterSend(S, t, FALSE))
    <3> HIDE DEF S
    <3>1. Follows(S, AfterSend(S, t, FALSE), t)
      BY <1>1, <1>3, AfterSendFollows
    <3>2. QED
      BY <1>2, <1>3, <2>3, <3>1, FollowingKeepsLock
  <2>4. QED
    BY Zenon, <1>5, <2>1, <2>2, <2>3 DEF SendEagain
<1>6. QED
  BY <1>4, <1>5

\* A Receive that returns or waits: the same.
LEMMA ReceiveKeepsLock ==
    ASSUME LockIInv, NEW t \in Threads, ReceiveImpl(t) \/ ReceiveEagain(t)
    PROVE  LockIInv'
<1>1. View(Now(t)) /\ Of(t[1]).counts \in Counts
  BY NowIsView
<1>2. thr[t].pc \in Busy
  BY DEF ReceiveImpl, ReceiveEagain, Busy
<1>3. CASE ReceiveImpl(t)
  <2> DEFINE S == Now(t)
  <2>1. PICK h, ms : Become(t, AfterReceive([S EXCEPT !.h = h, !.l.parts = ms], t, TRUE))
    BY Zenon, <1>3 DEF ReceiveImpl
  <2> DEFINE Q == [S EXCEPT !.h = h, !.l.parts = ms]
  <2>2. View(Q) /\ Keeps(Now(t), Q)
    BY <1>1 DEF View, Keeps, ThreadFields
  <2> HIDE DEF Q
  <2>3. Follows(Q, AfterReceive(Q, t, TRUE), t)
    BY <1>1, <2>2, AfterReceiveFollows
  <2>4. Become(t, AfterReceive(Q, t, TRUE))
    BY <2>1 DEF Q
  <2>5. QED
    BY <1>2, <2>2, <2>3, <2>4, FollowingKeepsLock
<1>4. CASE ReceiveEagain(t)
  <2>1. CASE WaitsOn(t)
    BY <2>1, WaitingKeepsLock
  <2>2. CASE Become(t, AfterReceive(Now(t), t, FALSE))
    <3>1. Follows(Now(t), AfterReceive(Now(t), t, FALSE), t) /\ Keeps(Now(t), Now(t))
      BY <1>1, AfterReceiveFollows DEF Keeps
    <3>2. QED
      BY <1>2, <2>2, <3>1, FollowingKeepsLock
  <2>3. QED
    BY Zenon, <1>4, <2>1, <2>2 DEF ReceiveEagain
<1>5. QED
  BY <1>3, <1>4

\* Run() joins the input threads: it never holds the lock.
LEMMA JoinKeepsLock ==
    ASSUME LockIInv, NEW t \in Threads, Join(t)
    PROVE  LockIInv'
<1>1. View(Now(t))
  BY NowIsView
<1> DEFINE X == [Now(t) EXCEPT !.l.pc = "done", !.r = InternalStop(@)]
<1>2. Become(t, X)
  BY Zenon DEF Join
<1>3. View(X) /\ Keeps(Now(t), X) /\ X.l.pc = "done"
  BY <1>1 DEF View, Keeps, ThreadFields
<1> HIDE DEF X
<1>4. X.l.pc # "lock" /\ X.l.pc \notin Busy
  BY <1>3 DEF Busy
<1>5. QED
  BY <1>2, <1>3, <1>4, StepKeepsLock

\* An application has no input threads: its steps leave the lock alone.
LEMMA ApplicationKeepsLock ==
    ASSUME LockIInv, NEW t \in Threads,
           ApiSend(t) \/ ApiSendAgain(t) \/ ApiDrop(t) \/ ApiReceive(t) \/ ApiEnd(t)
    PROVE  LockIInv'
<1>1. View(Now(t)) /\ Of(t[1]).counts \in Counts
  BY NowIsView
<1>2. ~IsInputThread(t)
  <2>1. Of(t[1]).loop = "api"
    BY Zenon DEF ApiSend, ApiSendAgain, ApiDrop, ApiReceive, ApiEnd, Application_at
  <2>2. QED
    BY <2>1, InputThreadCallsBack
<1>3. ASSUME NEW X, Become(t, X), View(X), Keeps(Now(t), X), X.l.pc # "lock"
      PROVE  LockIInv'
  BY <1>2, <1>3, StepKeepsLock
<1>4. CASE ApiSend(t)
  <2> DEFINE S == Now(t)
  <2>1. PICK h, ms, s, mode : Become(t, StartSend([S EXCEPT !.h = h], ms, s, mode))
    BY Zenon, <1>4 DEF ApiSend
  <2> DEFINE Q == [S EXCEPT !.h = h]
             X == StartSend(Q, ms, s, mode)
  <2>2. View(Q) /\ Keeps(Now(t), Q)
    BY <1>1 DEF View, Keeps
  <2>3. Become(t, X)
    BY <2>1
  <2> HIDE DEF Q
  <2>4. View(X) /\ Keeps(Q, X) /\ X.l.pc = "send"
    BY <2>2, StartSendKeeps
  <2> HIDE DEF X
  <2>5. Keeps(Now(t), X)
    BY <2>2, <2>4 DEF Keeps
  <2>6. QED
    BY <1>3, <2>3, <2>4, <2>5
<1>5. CASE ApiSendAgain(t)
  <2>1. PICK ms, s, mode : Become(t, StartSend(Now(t), ms, s, mode))
    BY Zenon, <1>5 DEF ApiSendAgain
  <2> DEFINE X == StartSend(Now(t), ms, s, mode)
  <2>2. View(X) /\ Keeps(Now(t), X) /\ X.l.pc = "send"
    BY <1>1, StartSendKeeps
  <2>3. QED
    BY <1>3, <2>1, <2>2
<1>6. CASE ApiDrop(t)
  <2> DEFINE S == Now(t)
             Q == [S EXCEPT !.h = DestroyAll(@, S.l.parts), !.l.what = <<>>]
             X == EndRound(Q, t, S.l.at, FALSE)
  <2>1. Become(t, X)
    BY Zenon, <1>6 DEF ApiDrop
  <2>2. View(Q) /\ Keeps(Now(t), Q)
    BY <1>1 DEF View, Keeps, ThreadFields
  <2> HIDE DEF Q
  <2>3. Follows(Q, X, t)
    BY <1>1, <2>2, EndRoundFollows
  <2> HIDE DEF X
  <2>4. QED
    BY <1>2, <2>1, <2>2, <2>3, FollowingKeepsLock
<1>7. CASE ApiReceive(t)
  <2> DEFINE S == Now(t)
  <2>1. PICK h, s, mode, ms, X :
            /\ X = [S EXCEPT !.h = h, !.l = [S.l EXCEPT !.pc = "recv", !.at = s, !.mode = mode, !.elapsed = 0,
                                                        !.in = <<>>, !.parts = ms]]
            /\ Become(t, X)
    BY Zenon, <1>7 DEF ApiReceive
  <2>2. View(X) /\ Keeps(Now(t), X) /\ X.l.pc = "recv"
    BY <1>1, <2>1 DEF View, Keeps, ThreadFields
  <2>3. QED
    BY <1>3, <2>1, <2>2
<1>8. CASE ApiEnd(t)
  <2> DEFINE Q == [Now(t) EXCEPT !.h = DestroyAll(@, thr[t].parts)]
             X == Leave(Q, t)
  <2>1. Become(t, X)
    BY Zenon, <1>8 DEF ApiEnd
  <2>2. View(Q) /\ Keeps(Now(t), Q)
    BY <1>1 DEF View, Keeps
  <2> HIDE DEF Q
  <2>3. View(X) /\ Keeps(Q, X) /\ X.l.pc \in {"join", "done"}
    BY <2>2, LeaveKeeps
  <2> HIDE DEF X
  <2>4. Keeps(Now(t), X) /\ X.l.pc # "lock"
    BY <2>2, <2>3 DEF Keeps
  <2>5. QED
    BY <1>3, <2>1, <2>3, <2>4
<1>9. QED
  BY <1>4, <1>5, <1>6, <1>7, <1>8

-----------------------------------------------------------------------------
(* The theorem.                                                            *)

\* At the start no thread holds the lock.
LEMMA LockInit ==
    Init => LockIInv
<1> SUFFICES ASSUME Init PROVE LockIInv
  OBVIOUS
<1>1. top \in Topologies /\ DOMAIN thr = Threads /\ DOMAIN dev = Devices
  BY DEF Init
<1>2. \A t \in Threads : DOMAIN thr[t] = ThreadFields /\ thr[t].pc \in {"join", "loop"}
  BY DEF Init, Thread, ThreadFields
<1>3. \A d \in Devices : DOMAIN dev[d] = DeviceFields
  BY DEF Init, DeviceFields
<1>4. QED
  BY <1>1, <1>2, <1>3 DEF LockIInv, Busy

\* Every step keeps the inductive invariant.
LEMMA LockNext ==
    LockIInv /\ [Next]_vars => LockIInv'
<1> SUFFICES ASSUME LockIInv, [Next]_vars PROVE LockIInv'
  OBVIOUS
<1>1. ASSUME NEW t \in Threads, Step(t) \/ PollThrows(t) PROVE LockIInv'
  BY Zenon, <1>1, LoopHeadKeepsLock, PollKeepsLock, LockKeepsLock, JoinKeepsLock, SendKeepsLock, ReceiveKeepsLock,
     ApplicationKeepsLock DEF Step
<1>2. ASSUME top' = top, thr' = thr, dev' = dev PROVE LockIInv'
  <2>1. Threads' = Threads /\ Devices' = Devices
    BY <1>2, ThreadsStay
  <2>2. \A u : IsInputThread(u)' = IsInputThread(u)
    BY DEF IsInputThread
  <2>3. QED
    BY <1>2, <2>1, <2>2 DEF LockIInv
<1>3. ASSUME NEW d, STOP(d) \/ Unblock(d) PROVE LockIInv'
  BY <1>2, <1>3 DEF STOP, Unblock
<1>4. CASE UNCHANGED vars
  BY <1>2, <1>4 DEF vars
<1>5. QED
  BY Zenon, <1>1, <1>3, <1>4 DEF Next

\* Two handlers of a device would both hold its lock.
LEMMA LockExcludes ==
    LockIInv => HandlersExclusive
<1> SUFFICES ASSUME LockIInv, NEW d \in Devices
             PROVE  LET inside == {t \in Helpers(d) : IsInputThread(t) /\ thr[t].pc \in {"send", "recv"}}
                    IN  Cardinality(inside) <= 1 /\ (~dev[d].proceed => inside = {})
  BY DEF HandlersExclusive
<1> DEFINE inside == {t \in Helpers(d) : IsInputThread(t) /\ thr[t].pc \in {"send", "recv"}}
<1>1. \A t \in Helpers(d) : t \in Threads /\ t = <<d, t[2]>>
  <2>1. \A t \in Helpers(d) : \E x : t = <<d, x>>
    BY DEF Helpers
  <2>2. QED
    BY <2>1 DEF Threads
<1>2. \A t \in inside : dev[d].lock = t[2] /\ dev[d].proceed
  BY <1>1 DEF LockIInv, Busy
<1>3. \A t, u \in inside : t = u
  BY <1>1, <1>2
<1> HIDE DEF inside
<1>4. inside = {} \/ \E t : inside = {t}
  BY <1>3
<1>5. Cardinality(inside) <= 1
  <2>1. CASE inside = {}
    BY <2>1, FS_EmptySet
  <2>2. ASSUME NEW t, inside = {t} PROVE Cardinality(inside) <= 1
    <3>1. Cardinality({t}) = 1
      BY FS_Singleton
    <3>2. QED
      BY <2>2, <3>1
  <2>3. QED
    BY <1>4, <2>1, <2>2
<1>6. ~dev[d].proceed => inside = {}
  BY <1>2
<1>7. QED
  BY <1>5, <1>6 DEF inside

\* The handlers of a device with inputs of several transports, each in a thread of its
\* own (PollForTransport), run one at a time, and none runs after one of them returned
\* false, in every topology.
THEOREM HandlersExclude ==
    Spec => []HandlersExclusive
<1>1. Init => LockIInv
  BY LockInit
<1>2. LockIInv /\ [Next]_vars => LockIInv'
  BY LockNext
<1>3. LockIInv => HandlersExclusive
  BY LockExcludes
<1>4. QED
  BY <1>1, <1>2, <1>3, PTL DEF Spec
=============================================================================
