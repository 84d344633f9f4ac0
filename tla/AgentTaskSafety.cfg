CONSTANTS
    s1 = s1
    s2 = s2
    k1 = k1
    k2 = k2
    Sessions = {s1, s2}
    Conns = {k1, k2}
    None = None
    EventsCap = 1
    MaxOutput = 0
    AgentMaxOutput = 0
    MaxFaults = 1
SPECIFICATION MCSpec
SYMMETRY Symmetry
INVARIANTS
    TypeOK
    NoOverlappingExec
    SingleProcess
    AtMostOnce
    SlotOwned
    ServingIsRegistered
PROPERTY
    ImplementsRemoteExec
