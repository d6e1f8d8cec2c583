------------------------------ MODULE Pipeline ------------------------------
(***************************************************************************)
(* Devices that run and exchange messages: the sending and the receiving   *)
(* of the ZeroMQ and the nanomsg sockets with their time-outs and their    *)
(* interruption, the pollers, the data callbacks of FairMQDevice on one    *)
(* channel, on several and on several transports, and the devices of       *)
(* fairmq/devices and of the examples, each as the program it runs.        *)
(*                                                                         *)
(* A topology names its devices, the program and the default transport of  *)
(* each, and the links between their sockets. A socket is a device, a      *)
(* channel and a sub-channel. A message on a link is a sequence of frames; *)
(* ZeroMQ and nanomsg themselves are external: a link is a queue.          *)
(***************************************************************************)
EXTENDS Messages

CONSTANTS
    Topologies,     \* the topologies to choose from
    Timeout,        \* sndTimeoutInMs / rcvTimeoutInMs in units of fSndTimeout
    AckRange        \* stands for 2^64, the range of fNumUnackedMsgs

\* When a round of a program counts: see Counted.
Counts == {"round", "sent", "benchmark", "anyway", "never", "stopFlag", "both", "each"}

ASSUME ProgramsAssumption ==
    \A u \in Topologies : \A d \in DOMAIN u.program : u.program[d].counts \in Counts

VARIABLES
    top,    \* the topology
    heap,   \* the buffers of all devices
    wire,   \* what was sent and not received yet, by link
    run,    \* by device: state, fInterrupted, the STOP in progress
    dev,    \* by device: the fields of its class
    thr     \* by thread: where it is, and its local variables

vars == <<top, heap, wire, run, dev, thr>>

Devices == DOMAIN top.program
Links == DOMAIN top.links
Sockets == {top.links[l].from : l \in Links} \cup {top.links[l].to : l \in Links}
Outgoing(s) == {l \in Links : top.links[l].from = s}
Incoming(s) == {l \in Links : top.links[l].to = s}
TransportOf(s) == LET l == CHOOSE l \in Links : s \in {top.links[l].from, top.links[l].to}
                  IN  top.links[l].transport

\* The sub-channels of a channel, in order.
Channel(d, ch) ==
    [i \in 1..Cardinality({s \in Sockets : s[1] = d /\ s[2] = ch}) |-> <<d, ch, i>>]

-----------------------------------------------------------------------------
(* The programs.                                                           *)
(*   loop    "source": sends once per round; "request": sends and receives *)
(*           an answer; "receive": Run() receives; "poll": Run() polls;    *)
(*           "callback": OnData handlers; "api": an application that uses  *)
(*           the channel in every way it may be used                       *)
(*   in      the channels it receives from, in the order it looks at them  *)
(*   out     the channels it sends to                                      *)
(*   how     what it sends: "new" messages, its input ("move"), "copies"   *)
(*           with the input last, copies of one message ("base"), one      *)
(*           output after the other ("split"), nothing; "again" receives   *)
(*           a second message instead                                      *)
(*   by      whether the "channel" or the "device" creates its messages    *)
(*   stops   whether a failed Send ends the round with false               *)
(*   counts  when a round counts and when it is the last                   *)

Program(loop, in, out, how, by, stops, counts) ==
    [loop |-> loop, in |-> in, out |-> out, how |-> how, by |-> by,
     stops |-> stops, counts |-> counts]

Sampler_1_1 == Program("source", <<>>, <<"data">>, "new", "device", TRUE, "round")
Sink_1_1 == Program("callback", <<"data">>, <<>>, "none", "channel", FALSE, "round")
Sampler_1_n_1 == Program("source", <<>>, <<"data1">>, "new", "device", TRUE, "round")
Processor_1_n_1 == Program("callback", <<"data1">>, <<"data2">>, "new", "device", TRUE, "never")
Sink_1_n_1 == Program("callback", <<"data2">>, <<>>, "none", "channel", FALSE, "round")
Sampler_copypush == Program("source", <<>>, <<"data">>, "copies", "device", FALSE, "round")
Sink_copypush == Program("callback", <<"data">>, <<>>, "none", "channel", FALSE, "round")
Sampler_multipart == Program("source", <<>>, <<"data">>, "new", "device", FALSE, "round")
Sink_multipart == Program("callback", <<"data">>, <<>>, "none", "channel", FALSE, "stopFlag")
Sampler_channels == Program("poll", <<"broadcast">>, <<"data">>, "new", "device", FALSE, "sent")
Broadcaster == Program("source", <<>>, <<"broadcast">>, "new", "device", FALSE, "never")
Sink_channels == Program("callback", <<"broadcast", "data">>, <<>>, "none", "channel", FALSE, "both")
Sampler1 == Program("source", <<"ack">>, <<"data1">>, "new", "channel", TRUE, "round")
Sampler2 == Program("source", <<>>, <<"data2">>, "new", "device", TRUE, "round")
Sink_transports == Program("callback", <<"data1", "data2">>, <<"ack">>, "ack", "channel", TRUE, "each")
Sampler_region == Program("source", <<>>, <<"data">>, "region", "channel", FALSE, "sent")
Sink_region == Program("receive", <<"data">>, <<>>, "none", "channel", FALSE, "anyway")
Client == Program("request", <<"data">>, <<"data">>, "new", "device", TRUE, "round")
Server == Program("callback", <<"data">>, <<"data">>, "new", "device", TRUE, "round")
Sampler_dds == Program("source", <<>>, <<"data1">>, "new", "device", TRUE, "never")
Processor_dds == Program("callback", <<"data1">>, <<"data2">>, "new", "device", TRUE, "never")
Sink_dds == Program("callback", <<"data2">>, <<>>, "none", "channel", FALSE, "never")
EPN == Program("source", <<>>, <<"data">>, "new", "channel", FALSE, "never")
Scheduler == Program("callback", <<"data">>, <<>>, "again", "channel", FALSE, "never")
FairMQBenchmarkSampler(same) ==
    Program("source", <<>>, <<"data">>, IF same THEN "base" ELSE "new", "channel", FALSE, "benchmark")
FairMQSink == Program("receive", <<"data">>, <<>>, "none", "channel", FALSE, "benchmark")
FairMQProxy == Program("receive", <<"data-in">>, <<"data-out">>, "move", "device", TRUE, "never")
FairMQMerger == Program("poll", <<"data-in">>, <<"data-out">>, "move", "device", TRUE, "never")
FairMQSplitter == Program("callback", <<"data-in">>, <<"data-out">>, "split", "channel", FALSE, "never")
FairMQMultiplier ==
    Program("callback", <<"data-in">>, <<"data-out1", "data-out2">>, "copies", "device", FALSE, "never")
Application == Program("api", <<"data">>, <<"data">>, "none", "device", FALSE, "round")

-----------------------------------------------------------------------------
(* Threads.                                                                *)

Of(d) == top.program[d]

\* The transports of the input channels: that of the first sub-channel each.
InputTransports(d) == {TransportOf(Channel(d, ch)[1]) : ch \in Range(Of(d).in)}

MultiTransport(d) == Of(d).loop = "callback" /\ Cardinality(InputTransports(d)) > 1

Listens(d) == Of(d).loop = "source" /\ Of(d).in # <<>>

Helpers(d) ==
    CASE MultiTransport(d) -> {<<d, t>> : t \in InputTransports(d)}
      [] Listens(d) -> {<<d, "listener">>}
      [] OTHER -> {}

Threads == UNION {{<<d, "worker">>} \cup Helpers(d) : d \in Devices}

Thread(pc) ==
    [pc |-> pc, at |-> <<>>, mode |-> "wait", elapsed |-> 0, parts |-> <<>>,
     what |-> <<>>, in |-> <<>>, todo |-> <<>>, ready |-> <<>>]

\* Mutation: the offset of the second channel is that of the first.
ItemsOfFirstChannel(t) == Channel(t[1], Of(t[1]).in[1])

\* What the poller of a thread watches, in the order of its items.
Items(t) ==
    FoldLeft(LAMBDA acc, ch : acc \o Channel(t[1], ch), <<>>,
        SelectSeq(Of(t[1]).in, LAMBDA ch :
            t[2] \in {"worker", TransportOf(Channel(t[1], ch)[1])}))

\* Whether the input is polled, or received without: HandleSingleChannelInput.
Polls(t) ==
    \/ Of(t[1]).loop = "poll"
    \/ Of(t[1]).loop = "callback" /\ Len(Items(t)) > 1
    \/ t[2] \in {"zeromq", "nanomsg"}

Init ==
    /\ top \in Topologies
    /\ heap = EmptyHeap
    /\ wire = [l \in Links |-> <<>>]
    /\ run = [d \in Devices |-> [state |-> "RUNNING", fInterrupted |-> FALSE, stopping |-> FALSE]]
    /\ dev = [d \in Devices |-> [n |-> 0, seen |-> [ch \in Range(Of(d).in) |-> 0], fDirection |-> 1,
                fNumUnackedMsgs |-> 0, lock |-> "none", proceed |-> TRUE, got |-> <<>>]]
    /\ thr = [t \in Threads |-> Thread(IF t[2] = "worker" /\ MultiTransport(t[1]) THEN "join" ELSE "loop")]

-----------------------------------------------------------------------------
(* What a thread sees and changes in a step: the heap, its local variables,*)
(* the fields of its device and the state of its device.                   *)

Now(t) == [h |-> heap, l |-> thr[t], v |-> dev[t[1]], r |-> run[t[1]]]

Become(t, S) ==
    /\ heap' = S.h
    /\ thr' = [thr EXCEPT ![t] = S.l]
    /\ dev' = [dev EXCEPT ![t[1]] = S.v]
    /\ run' = [run EXCEPT ![t[1]] = S.r]
    /\ UNCHANGED top

\* An operation on every part of a multi-part message.
EachPart(h, ms, Op(_, _)) ==
    FoldLeft(LAMBDA acc, m : LET r == Op(acc.heap, m)
                             IN  [heap |-> r.heap, ms |-> Append(acc.ms, r.msg)],
             [heap |-> h, ms |-> <<>>], ms)

-----------------------------------------------------------------------------
(* Leaving the run.                                                        *)

\* Mutation: the sockets are not interrupted.
LeftBlocked(r) == [r EXCEPT !.stopping = FALSE]

Unblocked(r) == [r EXCEPT !.fInterrupted = TRUE, !.stopping = FALSE]

\* A run that ends by itself: internal_READY and InternalStopFct.
InternalStop(r) ==
    IF r.state = "RUNNING" THEN [Unblocked(r) EXCEPT !.state = "READY"] ELSE r

\* The local messages are destroyed; the worker then joins its helpers.
Leave(S, t) ==
    [S EXCEPT !.h = DestroyAll(@, S.l.in),
              !.l = Thread(IF t[2] = "worker" THEN "join" ELSE "done"),
              !.r = IF t[2] = "worker" THEN InternalStop(@) ELSE @]

-----------------------------------------------------------------------------
(* Sending.                                                                *)

CreatedBy(d, s) == IF Of(d).by = "channel" THEN TransportOf(s) ELSE top.default[d]

\* The header of a multi-part message carries the stop flag.
StopFlag(d, v) == IF top.max[d] > 0 /\ v.n = top.max[d] - 1 THEN 1 ELSE 0

\* Every message of a source has a content of its own; what a processor makes of
\* its input is told apart from the input.
Serial(d, v) == top.base[d] + v.n + 1
Modified(v) == v + 100

NewParts(S, d, s) ==
    LET t == CreatedBy(d, s)
        One(r) == [heap |-> r.heap, ms |-> <<r.msg>>]
    IN  CASE Of(d).how = "ack" -> One(NewMessage(S.h, t))
          [] Of(d).how = "region" -> One(NewRegionMessage(S.h, t, 2))
          [] S.l.in # <<>> -> One(NewMessageOf(S.h, t, Modified(Content(S.h, S.l.in[1].buf)), 2))
          [] S.l.in = <<>> /\ ~top.multipart -> One(NewMessageOf(S.h, t, Serial(d, S.v), 2))
          [] OTHER -> LET a == NewMessageOf(S.h, t, StopFlag(d, S.v), 1)
                          b == NewMessageOf(a.heap, t, Serial(d, S.v), 2)
                      IN  [heap |-> b.heap, ms |-> <<a.msg, b.msg>>]

CopyParts(S, d, s) ==
    EachPart(S.h, S.l.in, LAMBDA h, m :
        LET r == NewMessage(h, CreatedBy(d, s)) IN Copy(r.heap, r.msg, m))

\* The region of the ZeroMQ transport calls back when the message is created.
RegionCallback(v) == [v EXCEPT !.fNumUnackedMsgs = (@ - 1) % AckRange]

\* FairMQChannel::Send, SendAsync and Send with a time-out, up to the first
\* attempt of the socket. With a time-out nothing is wrapped.
Prepare(h, m, t, mode, multi) ==
    LET c == IF mode = "timed" THEN Result(h, m) ELSE CheckSendCompatibility(h, m, t)
    IN  CASE t = "zeromq" -> ApplyUsedSize(c.heap, c.msg)
          [] t = "nanomsg" /\ multi -> Result(c.heap, [c.msg EXCEPT !.receiving = FALSE])
          [] OTHER -> c

PreparedParts(h, ms, t, mode) ==
    EachPart(h, ms, LAMBDA g, m : Prepare(g, m, t, mode, Len(ms) > 1))

StartSend(S, ms, s, mode) ==
    LET p == PreparedParts(S.h, ms, TransportOf(s), mode)
    IN  [S EXCEPT !.h = p.heap,
                  !.l = [S.l EXCEPT !.pc = "send", !.at = s, !.mode = mode, !.elapsed = 0, !.parts = p.ms,
                            !.what = [i \in DOMAIN ms |-> <<Content(S.h, ms[i].buf), GetSize(S.h, ms[i])>>]]]

\* The next message of the round.
BeginSend(S, t) ==
    LET d == t[1]
        s == S.l.todo[1][1]
        how == S.l.todo[1][2]
        p == CASE how = "move" -> [heap |-> S.h, ms |-> S.l.in]
               [] how = "copy" -> CopyParts(S, d, s)
               [] OTHER -> NewParts(S, d, s)
        R == [S EXCEPT !.h = p.heap,
                       !.l = [S.l EXCEPT !.todo = Tail(@), !.in = IF how = "move" THEN <<>> ELSE S.l.in],
                       !.v = IF Of(d).how = "region" /\ TransportOf(s) = "zeromq"
                             THEN RegionCallback(S.v) ELSE S.v]
    IN  StartSend(R, p.ms, s, "wait")

\* Mutation: the loop over the outputs does not leave the last one to the original.
CopiesToAll(outs) ==
    [i \in 1..(Len(outs) + 1) |->
        IF i <= Len(outs) THEN <<outs[i], "copy">> ELSE <<outs[Len(outs)], "move">>]

\* A copy for every output but the last, which gets the original.
CopiesTo(outs) ==
    [i \in 1..Len(outs) |-> <<outs[i], IF i < Len(outs) THEN "copy" ELSE "move">>]

\* What the program sends in a round with input from socket s.
Sends(d, v, s) ==
    LET p == Of(d)
        outs == FoldLeft(LAMBDA acc, ch : acc \o Channel(d, ch), <<>>, p.out)
    IN  CASE p.how \in {"none", "again"} -> <<>>
          [] p.how = "ack" -> IF s[2] = "data1" THEN <<<<outs[1], "new">>>> ELSE <<>>
          [] p.how = "base" -> <<<<outs[1], "copy">>>>
          [] p.how = "move" -> <<<<outs[1], "move">>>>
          [] p.how = "split" -> <<<<outs[v.fDirection], "move">>>>
          [] p.how = "copies" -> CopiesTo(outs)
          [] OTHER -> <<<<outs[1], "new">>>>

-----------------------------------------------------------------------------
(* Receiving.                                                              *)

StartReceive(S, t, s) ==
    LET by == IF Of(t[1]).loop = "callback" THEN TransportOf(s) ELSE CreatedBy(t[1], s)
        r == NewMessage(S.h, by)
        c == CheckReceiveCompatibility(r.heap, r.msg, TransportOf(s))
        L == [S.l EXCEPT !.pc = "recv", !.at = s, !.mode = "wait", !.elapsed = 0]
    IN  IF top.multipart
        THEN [S EXCEPT !.l = [L EXCEPT !.parts = <<>>]]
        ELSE [S EXCEPT !.h = c.heap, !.l = [L EXCEPT !.parts = <<c.msg>>]]

IsInputThread(t) == t[2] \in {"zeromq", "nanomsg"}

\* The next item that the poller found ready.
NextReady(S, t) ==
    IF S.l.ready = <<>> THEN [S EXCEPT !.l.pc = "loop"]
    ELSE IF IsInputThread(t) THEN [S EXCEPT !.l.pc = "lock"]
    ELSE LET s == S.l.ready[1]
             R == [S EXCEPT !.l.ready = Tail(@)]
         IN  IF s[2] \in Range(Of(t[1]).in) THEN StartReceive(R, t, s)
             ELSE BeginSend([R EXCEPT !.l.todo = Sends(t[1], R.v, s)], t)

\* The end of a round: the handler or ConditionalRun returned p.
Returned(S, t, p) ==
    LET d == t[1]
        keep == Of(d).how = "base" \/ Of(d).loop = "api"
        R == [S EXCEPT !.h = IF keep THEN @ ELSE DestroyAll(@, S.l.in),
                       !.l = [S.l EXCEPT !.in = IF keep THEN @ ELSE <<>>, !.todo = <<>>, !.parts = <<>>]]
        Q == [R EXCEPT !.v = [S.v EXCEPT !.proceed = p, !.lock = "none"]]
    IN  CASE IsInputThread(t) /\ p -> NextReady(Q, t)
          [] IsInputThread(t) /\ ~p -> [Q EXCEPT !.l = [R.l EXCEPT !.pc = "loop", !.ready = <<>>]]
          [] ~IsInputThread(t) /\ p /\ Polls(t) -> NextReady(R, t)
          [] ~IsInputThread(t) /\ ~p /\ Of(d) = FairMQMerger -> [R EXCEPT !.l = [R.l EXCEPT !.pc = "loop", !.ready = <<>>]]
          [] ~IsInputThread(t) /\ ~p /\ Of(d) # FairMQMerger -> Leave(R, t)
          [] OTHER -> [R EXCEPT !.l.pc = "loop"]

\* The counters of the device and whether it goes on, after a round with input
\* from socket s whose Send succeeded or not (TRUE when it sends nothing).
Counted(S, d, s, ok) ==
    LET p == Of(d)
        v == S.v
        max == top.max[d]
        more == [v EXCEPT !.n = @ + 1]
        below == max = 0 \/ more.n < max
        To(w, go) == [v |-> w, go |-> go]
    IN  CASE p.counts = "round" -> IF p.stops /\ ~ok THEN To(v, FALSE) ELSE To(more, below)
          [] p.counts = "sent" -> IF ok THEN To(more, below) ELSE To(v, TRUE)
          [] p.counts = "benchmark" ->
                IF ~ok THEN To(v, TRUE) ELSE IF max > 0 /\ v.n >= max THEN To(v, FALSE) ELSE To(more, TRUE)
          [] p.counts = "anyway" -> To(more, below)
          [] p.counts = "never" -> To(IF p.loop = "source" THEN more ELSE v, ok \/ ~p.stops)
          [] p.counts = "stopFlag" -> To(v, Content(S.h, S.l.in[1].buf) # 1)
          [] p.counts = "both" ->
                IF \A ch \in Range(p.in) : v.seen[ch] > 0 THEN To(more, below) ELSE To(v, TRUE)
          [] p.counts = "each" -> To(v, ok /\ \E ch \in Range(p.in) : v.seen[ch] < max)

\* Mutation: the callback of the region is not waited for, the splitter stays.
NotNoted(d, v, ok) == v

\* A region message that was sent waits for its callback; the splitter goes on to
\* its next output.
Noted(d, v, ok) ==
    CASE Of(d).how = "region" /\ ok -> [v EXCEPT !.fNumUnackedMsgs = (@ + 1) % AckRange]
      [] Of(d).how = "split" ->
            [v EXCEPT !.fDirection = (@ % Len(Channel(d, Of(d).out[1]))) + 1]
      [] OTHER -> v

EndRound(S, t, s, ok) ==
    LET R == [S EXCEPT !.v = Noted(t[1], @, ok)]
        c == Counted(R, t[1], s, ok)
    IN  Returned([R EXCEPT !.v = c.v], t, c.go)

\* Send returned.
AfterSend(S, t, ok) ==
    LET R == [S EXCEPT !.h = DestroyAll(@, S.l.parts), !.l = [S.l EXCEPT !.parts = <<>>, !.what = <<>>]]
    IN  IF Of(t[1]).loop = "api" /\ ~ok THEN [S EXCEPT !.l.pc = "failed"]
        ELSE IF Of(t[1]).loop = "request" /\ ok THEN StartReceive(R, t, S.l.at)
        ELSE IF S.l.todo # <<>> THEN BeginSend(R, t)
        ELSE EndRound(R, t, S.l.at, ok)

\* What was received becomes the input of the handler.
Taken(S, d) ==
    LET vals == [i \in DOMAIN S.l.parts |-> Content(S.h, S.l.parts[i].buf)]
    IN  [S EXCEPT !.l = [S.l EXCEPT !.in = @ \o S.l.parts, !.parts = <<>>],
                  !.v = [S.v EXCEPT !.got = Append(@, <<S.l.at, vals>>),
                                    !.seen[S.l.at[2]] = IF Of(d).counts = "each" THEN @ + 1 ELSE 1]]

\* The handler of the data, or what Run() does with it.
Handle(S, t) ==
    LET d == t[1]
        s == S.l.at
        R == Taken(S, d)
        todo == Sends(d, R.v, s)
    IN  IF t[2] = "listener" \/ (Of(d).loop = "poll" /\ Of(d).how = "new") THEN Returned(R, t, TRUE)
        ELSE IF Of(d).how = "again" /\ S.l.in = <<>> THEN StartReceive(R, t, s)
        ELSE IF todo # <<>> /\ Of(d).loop # "request" THEN BeginSend([R EXCEPT !.l.todo = todo], t)
        ELSE EndRound(R, t, s, TRUE)

\* Receive returned.
AfterReceive(S, t, ok) ==
    LET d == t[1]
        R == [S EXCEPT !.h = DestroyAll(@, S.l.parts), !.l.parts = <<>>]
    IN  CASE ok -> Handle(S, t)
          [] ~ok /\ Of(d).counts = "anyway" -> EndRound(R, t, S.l.at, FALSE)
          [] OTHER -> Returned(R, t, Of(d).counts \in {"benchmark", "sent"} \/ Of(d).loop = "api" \/ S.l.in # <<>>)

-----------------------------------------------------------------------------
(* The steps of a thread.                                                  *)

Runs(t) == run[t[1]].state = "RUNNING"

Goes(t) == Runs(t) /\ (IsInputThread(t) => dev[t[1]].proceed)

\* A source that never stops by itself makes top.max messages here.
Exhausted(t) ==
    /\ Of(t[1]).loop = "source" /\ Of(t[1]).counts = "never"
    /\ Runs(t) /\ dev[t[1]].n >= top.max[t[1]]

\* The message that is copied is made before the loop.
BaseMessage(S, t) ==
    IF Of(t[1]).how \in {"base", "copies"} /\ Of(t[1]).loop = "source" /\ S.l.in = <<>>
    THEN LET r == NewMessageOf(S.h, CreatedBy(t[1], Channel(t[1], Of(t[1]).out[1])[1]), Serial(t[1], S.v), 2)
         IN  [S EXCEPT !.h = r.heap, !.l.in = <<r.msg>>]
    ELSE S

\* while (CheckCurrentState(RUNNING) && proceed)
LoopHead(t) ==
    LET S == Now(t)
        B == BaseMessage(S, t)
        input == Channel(t[1], Of(t[1]).in[1])[1]
    IN  /\ thr[t].pc = "loop" /\ Of(t[1]).loop # "api"
        /\ ~Exhausted(t)
        /\ UNCHANGED wire
        /\ Become(t,
             CASE ~Goes(t) -> Leave(S, t)
               [] Goes(t) /\ Polls(t) -> [S EXCEPT !.l.pc = "poll"]
               [] Goes(t) /\ ~Polls(t) /\ t[2] = "worker" /\ Of(t[1]).loop \in {"source", "request"} ->
                    BeginSend([B EXCEPT !.l.todo = Sends(t[1], B.v, <<>>)], t)
               [] OTHER -> StartReceive(S, t, input))

WithRoom(s) == {l \in Outgoing(s) : Len(wire[l]) < top.capacity}
WithData(s) == {l \in Incoming(s) : wire[l] # <<>>}
Publishes(s) == \A l \in Outgoing(s) : top.links[l].type = "pub"

\* The events that an item of a poller waits for, by the type of its socket, and those
\* that have occurred.
ItemEvents(s) == {e \in {"in", "out"} : IF e = "in" THEN Incoming(s) # {} ELSE Outgoing(s) # {}}

Occurred(s) == {e \in ItemEvents(s) : IF e = "in" THEN WithData(s) # {} ELSE WithRoom(s) # {}}

\* The nanomsg poller takes a socket that can send for one that can receive.
CheckInput(s) == "in" \in Occurred(s)
NnCheckInput(s) == Occurred(s) # {}
CheckOutput(s) == "out" \in Occurred(s)

\* What the loop over the channels finds ready.
Found(t) ==
    SelectSeq(Items(t), LAMBDA s : IF TransportOf(s) = "nanomsg" THEN NnCheckInput(s) ELSE CheckInput(s))
    \o (IF Of(t[1]).loop = "poll" /\ Of(t[1]).how = "new"
        THEN SelectSeq(Channel(t[1], Of(t[1]).out[1]), CheckOutput)
        ELSE <<>>)

\* poller->Poll and the CheckInput / CheckOutput that follow it. A poll that finds
\* nothing leads back here as long as the loop goes on.
Poll(t) ==
    /\ thr[t].pc = "poll"
    /\ Found(t) # <<>> \/ ~Goes(t)
    /\ UNCHANGED wire
    /\ Become(t, NextReady([Now(t) EXCEPT !.l.ready = Found(t)], t))

\* A signal interrupts the poll, which throws: the device goes to the error state.
PollThrows(t) ==
    LET S == Now(t)
    IN  /\ top.signals
        /\ thr[t].pc = "poll"
        /\ UNCHANGED wire
        /\ Become(t, [S EXCEPT !.r.state = "ERROR",
                               !.l = Thread(IF t[2] = "worker" THEN "join" ELSE "done")])

\* Mutation: no lock.
NoLock(t) == TRUE

\* The handlers of all transports exclude each other.
TakesLock(t) == dev[t[1]].lock = "none"

\* PollForTransport: the lock for the handler of a ready item.
Lock(t) ==
    LET S == Now(t)
        R == [S EXCEPT !.l.ready = Tail(@)]
    IN  /\ thr[t].pc = "lock"
        /\ TakesLock(t)
        /\ UNCHANGED wire
        /\ Become(t, IF dev[t[1]].proceed
                     THEN StartReceive([R EXCEPT !.v.lock = t[2]], t, S.l.ready[1])
                     ELSE [S EXCEPT !.l = [S.l EXCEPT !.pc = "loop", !.ready = <<>>]])

\* The frame of a message and what is left in the message object: zmq_msg_send takes
\* the buffer out of it, nn_send takes the buffer over or copies the data of a region.
Frame(h, b, m) == [heap |-> h, frame |-> b, msg |-> m]

ZmqFrame(h, m) == Frame(h, m.buf, [m EXCEPT !.buf = NoBuffer])

NnCopied(h, m) ==
    Frame(Allocate(h, "nanomsg", Content(h, m.buf), m.used, NoBuffer), NewBuffer(h), m)

NnFrame(h, m) ==
    IF m.region THEN NnCopied(h, m) ELSE Frame(h, m.buf, [m EXCEPT !.sent = TRUE, !.receiving = FALSE])

\* The frames of all parts; nanomsg gets them packed into one message, by copying.
Frames(S, Op(_, _)) ==
    FoldLeft(LAMBDA acc, m :
        LET r == Op(acc.heap, m)
        IN  [heap |-> r.heap, frames |-> Append(acc.frames, r.frame), ms |-> Append(acc.ms, r.msg)],
        [heap |-> S.h, frames |-> <<>>, ms |-> <<>>], S.l.parts)

ZmqFrames(S) == Frames(S, ZmqFrame)
NnFrames(S) == IF Len(S.l.parts) > 1 THEN Frames(S, NnCopied) ELSE Frames(S, NnFrame)

\* nn_send of a region message calls back whether it succeeds or not.
Attempted(S) ==
    IF \E i \in DOMAIN S.l.parts : S.l.parts[i].type = "nanomsg" /\ S.l.parts[i].region
    THEN [S EXCEPT !.v = RegionCallback(@)] ELSE S

References(h, frames, n) ==
    FoldLeft(LAMBDA g, b : IF n = 0 THEN Release(g, b) ELSE [g EXCEPT ![b].ref = @ + n - 1],
             h, SelectSeq(frames, LAMBDA b : b # NoBuffer))

\* The socket takes the message: into one queue with room, or, when it publishes,
\* into every one.
SendImpl(t) ==
    LET S == Attempted(Now(t))
        p == IF TransportOf(S.l.at) = "zeromq" THEN ZmqFrames(S) ELSE NnFrames(S)
        entry == [frames |-> p.frames, what |-> S.l.what]
        To(ls) == /\ wire' = [l \in Links |-> IF l \in ls THEN Append(wire[l], entry) ELSE wire[l]]
                  /\ Become(t, AfterSend([S EXCEPT !.h = References(p.heap, p.frames, Cardinality(ls)),
                                                   !.l.parts = p.ms], t, TRUE))
    IN  /\ thr[t].pc = "send"
        /\ \/ ~Publishes(thr[t].at) /\ \E l \in WithRoom(thr[t].at) : To({l})
           \/ Publishes(thr[t].at) /\ To(WithRoom(thr[t].at))

\* Whether a socket that cannot transfer returns: EAGAIN when it does not wait, is
\* interrupted or has waited for the time-out, or a signal.
GivesUp(t) ==
    \/ run[t[1]].fInterrupted
    \/ thr[t].mode = "async"
    \/ thr[t].mode = "timed" /\ thr[t].elapsed + 1 >= Timeout
    \/ top.signals

\* EAGAIN: nothing has been transferred for fSndTimeout or fRcvTimeout.
WaitsOn(t) ==
    /\ thr[t].mode = "timed" /\ ~GivesUp(t)
    /\ thr' = [thr EXCEPT ![t].elapsed = @ + 1]
    /\ UNCHANGED <<top, heap, run, dev>>

SendEagain(t) ==
    /\ thr[t].pc = "send"
    /\ WithRoom(thr[t].at) = {} /\ ~Publishes(thr[t].at)
    /\ UNCHANGED wire
    /\ \/ WaitsOn(t)
       \/ ~GivesUp(t) /\ Attempted(Now(t)) # Now(t) /\ Become(t, Attempted(Now(t)))
       \/ GivesUp(t) /\ Become(t, AfterSend(Attempted(Now(t)), t, FALSE))

-----------------------------------------------------------------------------

\* The message object after the frame arrived in it. zmq_msg_recv closes what was in
\* it; after nn_recv, SetMessage replaces the buffer.
ZmqFilled(h, m, b) == Result(Release(h, m.buf), [m EXCEPT !.buf = b])

NnFilled(h, m, b) ==
    Result(IF m.sent THEN h ELSE Release(h, m.buf),
           [m EXCEPT !.buf = b, !.used = Length(h, b), !.receiving = TRUE, !.sent = FALSE])

\* Mutation: ZMQ_RCVMORE is not looked at.
ZmqFirstPart(h, frames) == LET r == ZmqFilled(h, Message("zeromq"), frames[1])
                           IN  [heap |-> r.heap, ms |-> <<r.msg>>]

\* A message for every part; nanomsg unpacks each into a message of its own and frees
\* the one that was received.
ZmqParts(h, frames) ==
    FoldLeft(LAMBDA acc, b : LET r == ZmqFilled(acc.heap, Message("zeromq"), b)
                             IN  [heap |-> r.heap, ms |-> Append(acc.ms, r.msg)],
             [heap |-> h, ms |-> <<>>], frames)

NnParts(h, frames) ==
    FoldLeft(LAMBDA acc, b : LET r == NnMessage(Release(acc.heap, b), Content(acc.heap, b), Length(acc.heap, b))
                             IN  [heap |-> r.heap, ms |-> Append(acc.ms, [r.msg EXCEPT !.receiving = TRUE])],
             [heap |-> h, ms |-> <<>>], frames)

ReceiveImpl(t) ==
    LET S == Now(t)
        zmq == TransportOf(S.l.at) = "zeromq"
        frames(l) == wire[l][1].frames
        one(l) == IF zmq THEN ZmqFilled(S.h, S.l.parts[1], frames(l)[1])
                  ELSE NnFilled(S.h, S.l.parts[1], frames(l)[1])
        all(l) == IF zmq THEN ZmqParts(S.h, frames(l)) ELSE NnParts(S.h, frames(l))
    IN  /\ thr[t].pc = "recv"
        /\ \E l \in WithData(thr[t].at) :
              /\ wire' = [wire EXCEPT ![l] = Tail(@)]
              /\ Become(t, AfterReceive(
                    IF top.multipart THEN [S EXCEPT !.h = all(l).heap, !.l.parts = all(l).ms]
                    ELSE [S EXCEPT !.h = one(l).heap, !.l.parts = <<one(l).msg>>], t, TRUE))

ReceiveEagain(t) ==
    /\ thr[t].pc = "recv"
    /\ WithData(thr[t].at) = {}
    /\ UNCHANGED wire
    /\ \/ WaitsOn(t)
       \/ GivesUp(t) /\ Become(t, AfterReceive(Now(t), t, FALSE))

\* RunWrapper after Run(): the threads are joined, a device that still runs goes
\* back to READY by itself.
Join(t) ==
    LET S == Now(t)
    IN  /\ thr[t].pc = "join"
        /\ \A h \in Helpers(t[1]) : thr[h].pc = "done"
        /\ UNCHANGED wire
        /\ Become(t, [S EXCEPT !.l.pc = "done", !.r = InternalStop(@)])

-----------------------------------------------------------------------------
(* An application that uses the messages and the channel in other ways than*)
(* the devices do.                                                         *)

\* A message with content v that is made by size, around data, rebuilt, cut to a
\* smaller size, or a copy.
Made(h, t, how, v) ==
    LET data == NewMessageOf(h, t, v, 2)
        sized == IF t = "zeromq" THEN ZmqMessage(h, v, 2) ELSE NnMessage(h, v, 2)
        used == SetUsedSize(sized.heap, sized.msg, 1)
        CopyOf(a) == LET r == NewMessage(a.heap, t)
                         c == Copy(r.heap, r.msg, a.msg)
                     IN  Result(Destroy(c.heap, a.msg), c.msg)
    IN  CASE how = "sized" -> sized
          [] how = "data" -> data
          [] how = "rebuilt" -> Rebuild(data.heap, data.msg, v, 1)
          [] how = "used" -> used
          [] how = "copy" -> CopyOf(data)
          [] how = "used copy" -> CopyOf(used)

Modes == {"wait", "timed", "async"}
Uses == {"sized", "data", "rebuilt", "used", "copy", "used copy"}

Application_at(t, pc) ==
    /\ Of(t[1]).loop = "api" /\ thr[t].pc = pc
    /\ Runs(t)
    /\ UNCHANGED wire

\* With a time-out, Send and Receive want a message of the channel's own transport.
ApiSend(t) ==
    \E s \in {l.from : l \in Range(top.links)}, type \in {"zeromq", "nanomsg"}, how \in Uses, mode \in Modes :
        LET S == Now(t)
            m == Made(S.h, type, how, Serial(t[1], S.v))
            header == NewMessageOf(m.heap, type, StopFlag(t[1], S.v), 1)
        IN  /\ Application_at(t, "loop")
            /\ s[1] = t[1]
            /\ mode = "timed" => type = TransportOf(s)
            /\ Become(t, IF top.multipart
                         THEN StartSend([S EXCEPT !.h = header.heap], <<header.msg, m.msg>>, s, mode)
                         ELSE StartSend([S EXCEPT !.h = m.heap], <<m.msg>>, s, mode))

\* A message that was not sent is still there: it may be sent again or destroyed.
ApiSendAgain(t) ==
    \E mode \in Modes :
        /\ Application_at(t, "failed")
        /\ Become(t, StartSend(Now(t), thr[t].parts, thr[t].at, mode))

ApiDrop(t) ==
    LET S == Now(t)
    IN  /\ Application_at(t, "failed")
        /\ Become(t, EndRound([S EXCEPT !.h = DestroyAll(@, S.l.parts), !.l.what = <<>>], t, S.l.at, FALSE))

\* Into an empty vector, into a new message, or into the one that was received last.
ApiReceive(t) ==
    \E s \in {l.to : l \in Range(top.links)}, type \in {"zeromq", "nanomsg"}, again \in BOOLEAN, mode \in Modes :
        LET S == Now(t)
            r == IF again THEN Result(S.h, S.l.in[1])
                 ELSE NewMessage(DestroyAll(S.h, S.l.in), type)
            c == CheckReceiveCompatibility(r.heap, r.msg, TransportOf(s))
        IN  /\ Application_at(t, "loop")
            /\ s[1] = t[1]
            /\ again => S.l.in # <<>> /\ ~top.multipart
            /\ mode = "timed" => type = TransportOf(s)
            /\ Become(t, [S EXCEPT !.h = IF top.multipart THEN DestroyAll(@, S.l.in) ELSE c.heap,
                                   !.l = [S.l EXCEPT !.pc = "recv", !.at = s, !.mode = mode, !.elapsed = 0, !.in = <<>>,
                                                   !.parts = IF top.multipart THEN <<>> ELSE <<c.msg>>]])

\* The run of an application ends when it sees that the state changed.
ApiEnd(t) ==
    /\ Of(t[1]).loop = "api" /\ thr[t].pc \in {"loop", "failed"} /\ ~Runs(t)
    /\ UNCHANGED wire
    /\ Become(t, Leave([Now(t) EXCEPT !.h = DestroyAll(@, thr[t].parts)], t))

-----------------------------------------------------------------------------
(* Stopping a device.                                                      *)

\* STOP from outside: the state changes first, then StopFct unblocks the sockets.
STOP(d) ==
    /\ d \in top.stops /\ run[d].state = "RUNNING"
    /\ run' = [run EXCEPT ![d].state = "READY", ![d].stopping = TRUE]
    /\ UNCHANGED <<top, heap, wire, dev, thr>>

Unblock(d) ==
    /\ run[d].stopping
    /\ run' = [run EXCEPT ![d] = Unblocked(@)]
    /\ UNCHANGED <<top, heap, wire, dev, thr>>

Step(t) ==
    \/ LoopHead(t) \/ Poll(t) \/ Lock(t) \/ Join(t)
    \/ SendImpl(t) \/ SendEagain(t) \/ ReceiveImpl(t) \/ ReceiveEagain(t)
    \/ ApiSend(t) \/ ApiSendAgain(t) \/ ApiDrop(t) \/ ApiReceive(t) \/ ApiEnd(t)

Next ==
    \/ \E t \in Threads : Step(t) \/ PollThrows(t)
    \/ \E d \in Devices : STOP(d) \/ Unblock(d)

\* Whether a thread can take a step: the guards of the above.
CanStep(t) ==
    CASE thr[t].pc = "loop" -> ~Exhausted(t)
      [] thr[t].pc = "poll" -> Found(t) # <<>> \/ ~Goes(t)
      [] thr[t].pc = "lock" -> TakesLock(t)
      [] thr[t].pc = "send" ->
            WithRoom(thr[t].at) # {} \/ Publishes(thr[t].at) \/ GivesUp(t) \/ thr[t].mode = "timed"
            \/ Attempted(Now(t)) # Now(t)
      [] thr[t].pc = "recv" -> WithData(thr[t].at) # {} \/ GivesUp(t) \/ thr[t].mode = "timed"
      [] thr[t].pc = "failed" -> TRUE
      [] thr[t].pc = "join" -> \A h \in Helpers(t[1]) : thr[h].pc = "done"
      [] thr[t].pc = "done" -> FALSE

ThreadsOf(d) == {t \in Threads : t[1] = d}

\* Weak fairness of the steps of a device, with the guards written out: it goes on as
\* long as one of its threads can. Whoever sends STOP also unblocks the sockets.
Fairness(d) ==
    /\ \/ []<>(\A t \in ThreadsOf(d) : ~CanStep(t))
       \/ []<><<\E t \in ThreadsOf(d) : thr'[t] # thr[t] \/ dev'[d] # dev[d]>>_vars
    /\ WF_vars(d \in Devices /\ Unblock(d))

AllDevices == UNION {DOMAIN u.program : u \in Topologies}

Spec == Init /\ [][Next]_vars /\ \A d \in AllDevices : Fairness(d)

-----------------------------------------------------------------------------
(* Properties.                                                             *)

\* The references to a buffer: frames under way, messages that own it, buffers
\* whose free function gives it up.
Holders(b) ==
    LET InSeq(ms) == Cardinality({i \in DOMAIN ms : ms[i].buf = b /\ ~ms[i].sent})
        OnLink(l) == FoldLeft(LAMBDA n, e : n + Cardinality({i \in DOMAIN e.frames : e.frames[i] = b}), 0, wire[l])
    IN  MapThenSumSet(OnLink, Links)
        + MapThenSumSet(LAMBDA t : InSeq(thr[t].parts) + InSeq(thr[t].in), Threads)
        + Cardinality({c \in Buffers : heap[c].ref > 0 /\ heap[c].keeps = b})

\* The references to a buffer are those that are counted: a message can be copied, cut
\* to a smaller size, wrapped for another transport, sent or given up after a failed
\* Send in any order, by devices that share the buffer, and a buffer is freed with the
\* last reference to it (FairMQMessageZMQ::Copy, ApplyUsedSize and CloseMessage,
\* FairMQChannel::CheckSendCompatibility). A nanomsg buffer is not freed earlier.
ReferencesCounted ==
    \A b \in Buffers : IF heap[b].by = "zeromq" THEN heap[b].ref = Holders(b) ELSE Holders(b) <= heap[b].ref

\* What lies on a link is what GetData and GetSize of the message gave when it was
\* handed to Send: SetUsedSize is honoured by both transports and by the wrapper
\* between them.
SentAsGiven ==
    \A l \in Links : \A i \in DOMAIN wire[l] :
        LET e == wire[l][i] IN
        /\ Len(e.frames) = Len(e.what)
        /\ \A j \in DOMAIN e.frames :
              e.what[j] = <<Content(heap, e.frames[j]), Length(heap, e.frames[j])>>

\* What a device received, on all sockets or on one.
ReceivedBy(d) == [i \in DOMAIN dev[d].got |-> dev[d].got[i][2]]
ReceivedOn(s) ==
    LET g == SelectSeq(dev[s[1]].got, LAMBDA e : e[1] = s) IN [i \in DOMAIN g |-> g[i][2]]

\* What was sent on the only link to a socket.
SentOn(l) ==
    ReceivedOn(top.links[l].to) \o
    [i \in DOMAIN wire[l] |-> [j \in DOMAIN wire[l][i].what |-> wire[l][i].what[j][1]]]

Forwards(d) == Of(d).how \in {"move", "copies", "split"} /\ Of(d).in # <<>>

\* A proxy, a merger and a multiplier send what they receive, in the order they
\* receive it, on every output; a splitter sends its n-th input on the output whose
\* turn it is. The outputs are at most the current message behind the input.
Forwarded ==
    \A d \in {e \in Devices : Forwards(e) /\ top.stops = {} /\ ~top.signals} :
        LET in == ReceivedBy(d)
            outs == FoldLeft(LAMBDA acc, ch : acc \o Channel(d, ch), <<>>, Of(d).out)
            Part(k, n) == IF Of(d).how = "split"
                          THEN SelectSeq([i \in 1..n |-> <<i, in[i]>>],
                                         LAMBDA e : (e[1] - 1) % Len(outs) = k - 1)
                          ELSE [i \in 1..n |-> <<i, in[i]>>]
        IN  \A k \in DOMAIN outs : \A l \in Outgoing(outs[k]) :
                \E n \in {m \in {Len(in) - 1, Len(in)} : m >= 0} :
                    SentOn(l) = [i \in DOMAIN Part(k, n) |-> Part(k, n)[i][2]]

\* Nobody receives a message twice, or one that no source made: copies for several
\* sinks, repeated attempts of a Send and the retry of one that failed put every
\* message on a link at most once (the same message again and again is what a benchmark
\* may be told to send). Answers match the requests.
ReceivedOnce ==
    \A d \in Devices :
        LET r == ReceivedBy(d)
            last(i) == r[i][Len(r[i])]
            Made_by(v) == \E e \in Devices : v \in (top.base[e] + 1)..(top.base[e] + dev[e].n + 1)
            same == \E e \in Devices : Of(e).how = "base"
        IN  /\ \A i, j \in DOMAIN r : i < j /\ last(i) > 0 /\ ~same => last(i) # last(j)
            /\ \A i \in DOMAIN r : last(i) = 0 \/ Made_by(last(i) % 100)
            /\ Of(d).loop = "request" =>
                  \A i \in DOMAIN r : last(i) = Modified(top.base[d] + i)

\* A multi-part message arrives with all its parts, and the header that ends the
\* sink is the one of the last message.
WholeMessages ==
    top.multipart =>
        \A d \in Devices : \A i \in DOMAIN dev[d].got :
            LET parts == dev[d].got[i][2] IN
            /\ Len(parts) = 2
            /\ (parts[1] = 1) <=> (\E e \in Devices : parts[2] = top.base[e] + top.max[e])

\* The handlers of a device with inputs of several transports run one at a time, and
\* none starts after one of them returned false.
HandlersExclusive ==
    \A d \in Devices :
        LET inside == {t \in Helpers(d) : IsInputThread(t) /\ thr[t].pc \in {"send", "recv"}}
        IN  Cardinality(inside) <= 1 /\ (~dev[d].proceed => inside = {})

Done(d) == thr[<<d, "worker">>].pc = "done"

\* A device that leaves RUNNING, by STOP or by itself, ends its run: no Send, Receive,
\* Poll, lock or join keeps one of its threads.
RunEnds == <>[](\A d \in Devices : run[d].state = "READY" => Done(d))

\* Left alone, every device with a number of iterations reaches it: the numbers that
\* samplers and sinks count agree, and no thread waits for ever for a message, for
\* room or for another thread.
TopologyCompletes ==
    <>(\A d \in Devices :
          top.stops # {} \/ top.signals \/ Of(d).counts = "never" \/ Of(d).loop = "api" \/ Done(d))

=============================================================================
