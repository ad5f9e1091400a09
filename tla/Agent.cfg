CONSTANTS
    s1 = s1
    d1 = d1
    Instance <- MCInstance
    AppServer <- MCAppServer
    Recorded <- MCRecorded
    Absent = Absent
    MaxPid = 2
    MaxTrouble = 1
SPECIFICATION Spec
CHECK_DEADLOCK FALSE
INVARIANTS
    TypeOK
    KillNamesOwn
    PidIsRecorded
PROPERTIES
    SilentIsStoped
    BeatingIsListed
