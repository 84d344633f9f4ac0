CONSTANTS
    n1 = n1
    n2 = n2
    p1 = p1
    r1 = r1
    r2 = r2
    Names = {n1, n2}
    DynamicNames = {}
    Secrets = {p1}
    Blank = Blank
    None = None
    MaxServers = 2
    MaxCreds = 1
    MaxClients = 1
    Requests = {r1, r2}
SPECIFICATION StoreSpec
SYMMETRY Symmetry
CHECK_DEADLOCK FALSE
CONSTRAINT NoOverlapOnCred
INVARIANTS Listable GrantsRefer
PROPERTY BlankKeepsSecret
