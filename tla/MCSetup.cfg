SPECIFICATION Spec
CONSTANTS
    Devices <- ThreeDevices
    Topologies <- AllTopologies
    PortRange <- Ports
    MaxAttempts = 1
    NamesMayFail = TRUE
    MaxInits = 2
    MaxQueries = 1
INVARIANTS
    ConfigAgrees
    SocketsMatch
    PublishedIsBound
    ConnectsAsConfigured
    SubscriberKnowsState
PROPERTIES
    InitializationEnds
    TopologyComesUp
CHECK_DEADLOCK FALSE
