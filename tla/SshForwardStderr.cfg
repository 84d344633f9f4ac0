CONSTANTS
    c1 = c1
    Channels = {c1}
    MaxIn = 1
    MaxOut = 2
    MaxDetail = 1
    MaxFaults = 1
SPECIFICATION Spec
CHECK_DEADLOCK FALSE
INVARIANT StderrDelivered
