SPECIFICATION FairSpec
CONSTANTS
    c1 = c1  c2 = c2  c3 = c3
    v1 = v1  v2 = v2
    Cattle = {c1, c2}
    AppVersion = {v1, v2}
    NoVersion = NoVersion
    VersionOf <- MCVersionOf
    Testing = {}
    Ip <- MCEndPoint
    Port <- MCEndPoint
    NoCattle = NoCattle
    DeployedAfter <- InOrder
    ViewsDuringStart = FALSE
    Commands <- VersionCommands
    MaxRunning = 2
    MaxCrashes = 1
    MaxStops = 1
    MaxRestarts = 1
    MaxCommands = 1
    MaxEvents = 2
    MaxQueue = 1
INVARIANTS
    TypeOK
    OnlyFirstSpeaks
    ReportsMembersOnly
PROPERTIES
    ConnectedIsRouted
    DepartedIsDropped
CHECK_DEADLOCK FALSE
