CONSTANTS
    r1 = r1
    r2 = r2
    None = None
    Random = Random
    Requests = {r1, r2}
    SshAddrs <- MCSshAddrs
    WebAddrs <- MCWebAddrs
    Unusable <- MCUnusable
    ForeignAddrs <- MCForeignAddrs
    Defaults <- MCDefaults
    MaxForeign = 1
    MaxFaults = 1
SPECIFICATION Spec
SYMMETRY RequestSymmetry
INVARIANTS TypeOK SocketsAccounted KeepsServing SavedIsServed Restartable
