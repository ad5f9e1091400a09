SPECIFICATION FairSpec
CONSTANTS
    c1 = c1  c2 = c2  c3 = c3
    v1 = v1  v2 = v2  w1 = w1
    h1 = h1  h2 = h2  h3 = h3
    a1 = a1  a2 = a2
    Cattle = {c1, c2}
    AppVersion = {v1, v2}
    NoVersion = NoVersion
    VersionOf <- MCVersionOf
    Testing = {v2}
    Ip <- MCIp
    Port <- MCPort
    Host = {h1}
    PublicHosts = {}
    Paths <- NoPaths
    HostsOf <- MCHostsOf
    Address = {a1, a2}
    Request = {r1}
    ShedId = {s1, s2}
    Inbound <- HandOver
    Cookies <- NoCookies
    SessionSticky = FALSE
    MaxMessages = 3
    NoHost = NoHost
    NoShed = NoShed
    NoCattle = NoCattle
    NoAddress = NoAddress
INVARIANTS
    TypeOK
    RegisteredIsRoutable
    ReloadIsExclusive
    AttemptsAvoidFailed
    RetryNeverCrashes
PROPERTIES
    SettledDefaultKept
    SettledHostKept
    RequestEnds
    AtomicTable
