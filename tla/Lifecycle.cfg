SPECIFICATION FairSpec
CONSTANTS
    t1 = t1
    t2 = t2
    Version = {v1, v2}
    Instance = {i1, i2}
    Row = {r1, r2}
    Server = {s1, s2}
    Admin = {t1, t2}
    Inspector = inspector
    Scripts <- AllScripts
    InitialServers = {1}
    MaxBoots = 2
    NoVersion = NoVersion
    NoInstance = NoInstance
    NoRow = NoRow
    NoServer = NoServer
INVARIANTS
    TypeOK
    OneLiveRowPerServer
PROPERTIES
    UnreachableAreStoped
    VersionsFollowInstances
    AppFollowsVersions
    GivenUpAreSilent
CHECK_DEADLOCK FALSE
