------------------------------ MODULE MCSetup ------------------------------
(* Instances of the channel setup for TLC: what a binding or connecting    *)
(* device can be configured with, and the topologies built from it.        *)
EXTENDS ChannelSetup

Sub(method, addr) ==
    [method |-> method, type |-> TRUE, transport |-> "zeromq", sizes |-> TRUE, kernel |-> TRUE, addr |-> addr]
Binder == Sub("bind", Unspecified)
Connector == Sub("connect", Unspecified)
Fixed(port) == Sub("bind", <<Endpoint("none", "name", port)>>)

Topology(one, two, three, publishers, i, iOfN, taken, patient) ==
    [chans |-> ("b1" :> one @@ "b2" :> two @@ "c" :> three), publishers |-> publishers,
     i |-> i, iOfN |-> iOfN, taken |-> taken, patient |-> patient, client |-> 0,
     sets |-> {}]

\* Two publishers and a device with two sub-channels, or with dds-i-n; one
\* publisher with two sub-channels and dds-i; one publisher, a time-out and a
\* client that can have the device initialized again.
Exchanges == {
    Topology(<<Binder>>, <<Binder>>, <<Connector, Connector>>, {"b1", "b2"}, 0, 0, {4}, TRUE),
    Topology(<<Fixed(2)>>, <<Fixed(2)>>, <<Connector>>, {"b1", "b2"}, 0, 2, {3}, TRUE),
    Topology(<<Binder, Fixed(3)>>, <<>>, <<Connector>>, {"b1"}, 2, 0, {}, TRUE),
    [Topology(<<Sub("bind", <<Endpoint("none", "ip", 3)>>)>>, <<>>, <<Connector>>, {"b1"}, 0, 0, {2, 4}, FALSE) EXCEPT !.client = 2] }

\* A device on its own and a client, with commands enough for the way from
\* RUNNING back to INITIALIZING_DEVICE.
Commanding == {
    [Topology(<<>>, <<>>, <<Sub("connect", <<Endpoint("none", "ip", 3)>>)>>, {}, 0, 0, {}, FALSE) EXCEPT
        !.client = 4] }

\* Channels with modifiers and several endpoints, without method, without
\* port, of an unknown type or with a negative size.
Configured == {
    Topology(<<Sub("unspecified", <<Endpoint("@", "ip", 2), Endpoint(">", "name", 3)>>)>>, <<Fixed(3)>>,
             <<[Connector EXCEPT !.type = FALSE]>>, {"b2"}, 0, 0, {}, FALSE),
    Topology(<<Sub("unspecified", <<Endpoint("none", "ip", 2)>>)>>,
             <<Sub("connect", <<Endpoint("none", "ip", 0)>>)>>,
             <<[Binder EXCEPT !.sizes = FALSE]>>, {}, 0, 0, {}, FALSE) }

\* Another plugin sets properties while the devices initialize: a method that
\* was missing, sizes that are refused, or a transport nobody knows.
Property(device, member, value) == [device |-> device, i |-> 1, member |-> member, value |-> value]
Set == {
    [Topology(<<Sub("unspecified", <<Endpoint("none", "ip", 2)>>)>>, <<>>, <<Connector>>,
              {"b1"}, 1, 0, {}, FALSE) EXCEPT
        !.sets = {Property("b1", "method", "bind"), Property("c", "sizes", FALSE)}],
    [Topology(<<Binder>>, <<Binder>>, <<>>, {"b1", "b2"}, 0, 0, {}, FALSE) EXCEPT
        !.sets = {Property("b1", "kernel", FALSE), Property("b2", "transport", "unknown")}] }

AllTopologies == Exchanges \cup Commanding \cup Configured \cup Set
ThreeDevices == {"b1", "b2", "c"}
Ports == 2 .. 4
=============================================================================
