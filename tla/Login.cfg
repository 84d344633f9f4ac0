CONSTANTS
    p1 = p1
    r1 = r1
    l1 = l1
    l2 = l2
    Names <- MCNames
    DynamicNames <- MCDynamicNames
    Secrets = {p1}
    Blank = Blank
    None = None
    MaxServers = 2
    MaxCreds = 0
    MaxClients = 1
    Requests = {r1}
    Logins = {l1, l2}
    Users <- MCUsers
    Text <- MCText
    PortMin <- MCPortMin
    PortMax <- MCPortMax
    PoolSize = 2
SPECIFICATION FairSpec
CHECK_DEADLOCK FALSE
INVARIANTS TypeOK OneTarget DialledAsGranted
PROPERTY LoginEnds
