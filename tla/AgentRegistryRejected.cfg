CONSTANTS
    h1 = h1
    k1 = k1
    t1 = t1
    c1 = c1
    c2 = c2
    a1 = a1
    Hosts = {h1}
    Keys = {k1}
    Tokens = {t1}
    MaxServers = 2
    MaxSuffix = 2
    Conns = {c1, c2}
    Admins = {a1}
    Clients = {}
    None = None
SPECIFICATION Spec
SYMMETRY Symmetry
INVARIANT
    ConnectedStaysUsable
