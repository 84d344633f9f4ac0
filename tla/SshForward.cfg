CONSTANTS
    c1 = c1
    Channels = {c1}
    MaxIn = 2
    MaxOut = 2
    MaxDetail = 1
    MaxFaults = 1
SPECIFICATION FairSpec
CHECK_DEADLOCK FALSE
INVARIANTS OnRecord  OutputDelivered SessionsCounted
PROPERTY EndsWithBoth
CONSTRAINT OneOverLimit
