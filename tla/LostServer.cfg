SPECIFICATION FairSpec
CONSTANTS
    t1 = t1
    t2 = t2
    Version = {v1}
    Instance = {i1}
    Row = {r1, r2}
    Server = {s1}
    Admin = {t1, t2}
    Inspector = inspector
    Scripts <- PublishScripts
    InitialServers = {1}
    MaxBoots = 2
    NoVersion = NoVersion
    NoInstance = NoInstance
    NoRow = NoRow
    NoServer = NoServer
PROPERTY
    DeadAreStoped
CHECK_DEADLOCK FALSE
