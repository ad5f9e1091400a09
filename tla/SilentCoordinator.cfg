SPECIFICATION FairSpec
CONSTANTS
    c1 = c1  c2 = c2  c3 = c3
    v1 = v1  v2 = v2
    Cattle = {c1, c2, c3}
    AppVersion = {v1, v2}
    NoVersion = NoVersion
    VersionOf <- MCVersionOf
    Testing = {}
    Ip <- MCEndPoint
    Port <- MCEndPoint
    NoCattle = NoCattle
    DeployedAfter <- InOrder
    ViewsDuringStart = FALSE
    Commands <- NoCommands
    MaxRunning = 2
    MaxCrashes = 1
    MaxStops = 0
    MaxRestarts = 0
    MaxCommands = 0
    MaxEvents = 1
    MaxQueue = 1
PROPERTIES
    RunningIsRouted
CHECK_DEADLOCK FALSE
