SPECIFICATION FairSpec
CONSTANTS
    t1 = t1
    t2 = t2
    Version = {v1, v2}
    Instance = {i1, i2}
    Row = {r1}
    Server = {s1}
    Admin = {t1, t2}
    Inspector = inspector
    Scripts <- UpgradeScripts
    InitialServers = {1}
    MaxBoots = 1
    NoVersion = NoVersion
    NoInstance = NoInstance
    NoRow = NoRow
    NoServer = NoServer
PROPERTY
    RetiredAreReclaimed
CHECK_DEADLOCK FALSE
