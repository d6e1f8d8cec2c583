SPECIFICATION Spec
CONSTANTS
    sampler = sampler
    sink = sink
    s1 = s1
    s2 = s2
    k1 = k1
    k2 = k2
    Processes <- TwoProcesses
    RegionOwner = sampler
    Messages <- TwoEach
    Home <- HomeTwoEach
    Handles = {1}
    Blocks = {0}
    MaxWire = 1
    Reuse = FALSE
    NoMessage = NoMessage
SYMMETRY PlaceSymmetry
INVARIANTS
    OneOwner
    BlockOneOwner
PROPERTIES
    BlocksKept
    OwnershipSpec
    
