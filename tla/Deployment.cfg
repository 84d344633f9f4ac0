CONSTANTS
    c1 = c1
    c2 = c2
    d1 = d1
    d2 = d2
    u1 = u1
    u2 = u2
    NoFile = NoFile
    Torn = Torn
    Calls = {c1, c2}
    CADir = CADir
    OutDirs = {d1, d2}
    MaxKeys = 4
    Upgrades = {u1, u2}
    Releases <- MCReleases
    Dev = Dev
    NoEmbedded = NoEmbedded
    MaxAttempts = 2
SPECIFICATION Spec
CHECK_DEADLOCK FALSE
INVARIANTS TypeOK Verifiable StillTrusted SomeCopy TargetKept
PROPERTIES NeverDowngraded UpgradeEnds
CONSTRAINT OneDeployment
