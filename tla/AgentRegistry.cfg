CONSTANTS
    h1 = h1
    k1 = k1
    k2 = k2
    t1 = t1
    c1 = c1
    a1 = a1
    s1 = s1
    Hosts = {h1}
    Keys = {k1, k2}
    Tokens = {t1}
    MaxServers = 2
    MaxSuffix = 2
    Conns = {c1}
    Admins = {a1}
    Clients = {s1}
    None = None
SPECIFICATION Spec
SYMMETRY Symmetry
INVARIANTS
    TypeOK
    HashIdentifiesRoute
    SameRoute
    RevokedIsDisconnected
PROPERTY
    DeletedStaysDeleted
