CONSTANTS
    s1 = s1
    k1 = k1
    k2 = k2
    Sessions = {s1}
    Conns = {k1, k2}
    None = None
    EventsCap = 1
    MaxOutput = 1
    AgentMaxOutput = 2
    MaxFaults = 1
SPECIFICATION MCFairSpec
INVARIANT
    CompleteOutput
PROPERTIES
    SessionEnds
    NoOrphan
    AgentComesBack
