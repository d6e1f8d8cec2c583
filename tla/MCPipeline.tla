----------------------------- MODULE MCPipeline -----------------------------
EXTENDS Pipeline

\* A link from a sub-channel of one device to one of another.
Link(from, to, transport) == [from |-> from, to |-> to, transport |-> transport, type |-> "queue"]
Broadcast(from, to, transport) == [Link(from, to, transport) EXCEPT !.type = "pub"]

\* Devices are called "a", "b", ...; each source has serial numbers of its own.
Topology(programs, links, default, max) ==
    LET ds == {"a", "b", "c", "d"}
        nth(d) == CASE d = "a" -> 1 [] d = "b" -> 2 [] d = "c" -> 3 [] d = "d" -> 4
        devices == {d \in ds : nth(d) <= Len(programs)}
    IN  [program |-> [d \in devices |-> programs[nth(d)]], links |-> links,
         default |-> [d \in devices |-> default], max |-> [d \in devices |-> max[nth(d)]],
         base |-> [d \in devices |-> 10 * nth(d)],
         multipart |-> FALSE, capacity |-> 1, stops |-> {}, signals |-> FALSE]

OneToOne(t, default) ==
    Topology(<<Sampler_1_1, Sink_1_1>>, <<Link(<<"a", "data", 1>>, <<"b", "data", 1>>, t)>>, default, <<2, 2>>)

OneToN(sampler, processor, sink, max) ==
    Topology(<<sampler, sink, processor, processor>>,
             <<Link(<<"a", "data1", 1>>, <<"c", "data1", 1>>, "zeromq"),
               Link(<<"a", "data1", 1>>, <<"d", "data1", 1>>, "zeromq"),
               Link(<<"c", "data2", 1>>, <<"b", "data2", 1>>, "zeromq"),
               Link(<<"d", "data2", 1>>, <<"b", "data2", 1>>, "zeromq")>>, "zeromq", <<max, max, 0, 0>>)

CopyPush(t, default) ==
    Topology(<<Sampler_copypush, Sink_copypush, Sink_copypush>>,
             <<Link(<<"a", "data", 1>>, <<"b", "data", 1>>, t),
               Link(<<"a", "data", 2>>, <<"c", "data", 1>>, t)>>, default, <<2, 2, 2>>)

MultiPart(t) ==
    [Topology(<<Sampler_multipart, Sink_multipart>>,
              <<Link(<<"a", "data", 1>>, <<"b", "data", 1>>, t)>>, t, <<2, 0>>) EXCEPT !.multipart = TRUE]

MultiPartVia(program, in, out) ==
    [Topology(<<Sampler_multipart, Sink_multipart, program>>,
              <<Link(<<"a", "data", 1>>, <<"c", "data-in", 1>>, in),
                Link(<<"c", "data-out", 1>>, <<"b", "data", 1>>, out)>>, in, <<2, 0, 0>>)
        EXCEPT !.multipart = TRUE]

Channels ==
    Topology(<<Sampler_channels, Sink_channels, Broadcaster>>,
             <<Link(<<"a", "data", 1>>, <<"b", "data", 1>>, "zeromq"),
               Broadcast(<<"c", "broadcast", 1>>, <<"a", "broadcast", 1>>, "zeromq"),
               Broadcast(<<"c", "broadcast", 1>>, <<"b", "broadcast", 1>>, "zeromq")>>, "zeromq", <<1, 1, 2>>)

\* The queue has room for every acknowledgement: Sampler1 stops to listen for them as
\* soon as it has sent its last message, and the sink waits for room while it holds
\* the lock.
Transports(max) ==
    [Topology(<<Sampler1, Sink_transports, Sampler2>>,
             <<Link(<<"a", "data1", 1>>, <<"b", "data1", 1>>, "zeromq"),
               Link(<<"c", "data2", 1>>, <<"b", "data2", 1>>, "nanomsg"),
               Link(<<"b", "ack", 1>>, <<"a", "ack", 1>>, "zeromq")>>, "nanomsg", <<max, max, max>>)
        EXCEPT !.capacity = max]

Region(t) ==
    Topology(<<Sampler_region, Sink_region>>, <<Link(<<"a", "data", 1>>, <<"b", "data", 1>>, t)>>, t, <<2, 2>>)

ReqRep(t) ==
    Topology(<<Client, Server>>,
             <<Link(<<"a", "data", 1>>, <<"b", "data", 1>>, t),
               Link(<<"b", "data", 1>>, <<"a", "data", 1>>, t)>>, t, <<2, 2>>)

Benchmark(same, t) ==
    Topology(<<FairMQBenchmarkSampler(same), FairMQSink>>,
             <<Link(<<"a", "data", 1>>, <<"b", "data", 1>>, t)>>, t, <<1, 1>>)

\* The merger gets its input over nanomsg and sends it over ZeroMQ.
Merge(n) ==
    Topology(<<Sampler_1_1, Sink_1_1, Sampler_1_1, FairMQMerger>>,
             <<Link(<<"a", "data", 1>>, <<"d", "data-in", 1>>, "nanomsg"),
               Link(<<"c", "data", 1>>, <<"d", "data-in", 2>>, "nanomsg"),
               Link(<<"d", "data-out", 1>>, <<"b", "data", 1>>, "zeromq")>>, "zeromq", <<n, n + 1, 1, 0>>)

Split(t) ==
    Topology(<<Sampler_1_1, Sink_1_1, Sink_1_1, FairMQSplitter>>,
             <<Link(<<"a", "data", 1>>, <<"d", "data-in", 1>>, t),
               Link(<<"d", "data-out", 1>>, <<"b", "data", 1>>, t),
               Link(<<"d", "data-out", 2>>, <<"c", "data", 1>>, t)>>, t, <<3, 2, 1, 0>>)

Multiply(t) ==
    Topology(<<Sampler_1_1, Sink_1_1, Sink_1_1, FairMQMultiplier>>,
             <<Link(<<"a", "data", 1>>, <<"d", "data-in", 1>>, t),
               Link(<<"d", "data-out1", 1>>, <<"b", "data", 1>>, t),
               Link(<<"d", "data-out2", 1>>, <<"c", "data", 1>>, t)>>, t, <<2, 2, 2, 0>>)

Proxied(in, out) ==
    Topology(<<Sampler_1_1, Sink_1_1, FairMQProxy>>,
             <<Link(<<"a", "data", 1>>, <<"c", "data-in", 1>>, in),
               Link(<<"c", "data-out", 1>>, <<"b", "data", 1>>, out)>>, "zeromq", <<2, 2, 0>>)

Api(t, max) ==
    Topology(<<Application, Application>>, <<Link(<<"a", "data", 1>>, <<"b", "data", 1>>, t)>>, t, <<max, max>>)

Reports(t, n) ==
    Topology(<<EPN, Scheduler, EPN>>,
             <<Link(<<"a", "data", 1>>, <<"b", "data", 1>>, t),
               Link(<<"c", "data", 1>>, <<"b", "data", 1>>, t)>>, t, <<n, 0, 1>>)

Stopped(u) == [u EXCEPT !.stops = {"a", "b"}]
Signalled(u) == [u EXCEPT !.signals = TRUE]

MCTopologies ==
    {OneToOne("zeromq", "zeromq"), OneToOne("nanomsg", "nanomsg"), OneToOne("nanomsg", "zeromq"),
     OneToN(Sampler_1_n_1, Processor_1_n_1, Sink_1_n_1, 2), Stopped(OneToN(Sampler_dds, Processor_dds, Sink_dds, 1)),
     CopyPush("zeromq", "zeromq"), CopyPush("nanomsg", "zeromq"), Stopped(CopyPush("zeromq", "zeromq")),
     MultiPart("zeromq"), MultiPart("nanomsg"), MultiPartVia(FairMQProxy, "zeromq", "nanomsg"),
     MultiPartVia(FairMQMerger, "nanomsg", "zeromq"), MultiPartVia(FairMQSplitter, "zeromq", "zeromq"), Stopped(MultiPart("zeromq")),
     Reports("zeromq", 2), Stopped(Reports("zeromq", 2)), Stopped(Reports("nanomsg", 1)),
     Channels, Stopped(Channels), Signalled(Channels),
     Transports(2), Stopped(Transports(1)), Signalled(Transports(1)),
     Region("zeromq"), Region("nanomsg"), Stopped(Region("zeromq")),
     ReqRep("zeromq"), ReqRep("nanomsg"), Stopped(ReqRep("zeromq")),
     Benchmark(TRUE, "zeromq"), Benchmark(FALSE, "nanomsg"), Stopped(Benchmark(TRUE, "nanomsg")),
     Merge(2), Signalled(Merge(1)), Split("zeromq"), Multiply("zeromq"), Multiply("nanomsg"),
     [Multiply("zeromq") EXCEPT !.multipart = TRUE, !.program["a"] = Sampler_multipart,
        !.program["b"] = Sink_multipart, !.program["c"] = Sink_multipart],
     Stopped(Multiply("zeromq")),
     Proxied("zeromq", "nanomsg"), Proxied("nanomsg", "zeromq"),
     Api("zeromq", 2), Api("nanomsg", 2), Stopped(Api("zeromq", 1)),
     [Api("zeromq", 2) EXCEPT !.multipart = TRUE], [Api("nanomsg", 2) EXCEPT !.multipart = TRUE]}
=============================================================================
