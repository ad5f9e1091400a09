--------------------------- MODULE CattleManager ---------------------------
(***************************************************************************)
(* The routing side of a task dispatcher: td/CattleManager.java and the    *)
(* request loop of td/io/TaskDispathcer6.java that calls its findCattle.   *)
(*                                                                         *)
(* Two kinds of threads share the sheds.  A receiver thread handles the    *)
(* messages of one group member, one at a time and in order; the messages  *)
(* of different members are handled concurrently.  A request thread looks  *)
(* an instance up and connects to it.  A step of either is the longest     *)
(* piece of code that touches the shared maps once, or that runs under one *)
(* acquisition of a shed's lock.  reload is several steps under the write  *)
(* lock, because the list that Shed.service returns is a live view, which  *)
(* request threads read without the lock.                                  *)
(***************************************************************************)
EXTENDS Shed

CONSTANTS
    Host,            \* host names; the first part of a path may be used as one
    PublicHosts,     \* the hosts that several applications share
    Paths,           \* the paths of the requests, as the host names they spell
    HostsOf,         \* App.getHosts of the application an instance runs
    Address,         \* the group members that send to this dispatcher
    Request,         \* the request threads
    ShedId,          \* Shed objects; how many there are bounds their creation
    Inbound,         \* the messages each member may send
    Cookies,         \* the cookies of the requests
    SessionSticky,   \* the parameter session.sticky
    MaxMessages,     \* bound: messages received in a behaviour
    NoHost, NoShed, NoCattle, NoAddress

Operator == {"REGISTER", "UNREGISTER", "RANCH_LOAD", "APP_PAUSE", "APP_RESTART",
             "APP_STOP", "APP_SET_DEFAULT_VERSION"}

RanchMessage == [op : Operator, cattle : Cattle, version : AppVersion,
                 load : SUBSET Cattle]

\* The cookies the routing looks at: the sticky end point and two version names.
Cookie == [server : Seq(Nat), test : AppVersion \cup {NoVersion},
           version : AppVersion \cup {NoVersion}]

\* A coordinator only reports instances of its own application, itself included.
ASSUME CattleManagerAssumption ==
    /\ HostsOf \in [Cattle -> SUBSET Host]
    /\ PublicHosts \subseteq Host
    /\ Paths \subseteq Seq(Host)
    /\ Inbound \in [Address -> SUBSET RanchMessage]
    /\ \A a \in Address : \A m \in Inbound[a] : m.op = "RANCH_LOAD" =>
          m.cattle \in m.load /\ \A c \in m.load : HostsOf[c] = HostsOf[m.cattle]
    /\ Cookies \subseteq Cookie
    /\ SessionSticky \in BOOLEAN
    /\ MaxMessages \in Nat
    /\ NoHost \notin Host /\ NoShed \notin ShedId
    /\ NoCattle \notin Cattle /\ NoAddress \notin Address

VARIABLES
    hostsMapping,       \* host -> Shed object
    sheds,              \* the Shed objects
    allocated,          \* those created so far
    writer,             \* who holds the write lock of a Shed across steps
    pausedHosts,
    ranchManagerAddrs,  \* member -> the instance its last message was about
    rx,                 \* the receiver threads
    received,           \* number of messages received
    req                 \* the request threads

rxVars  == <<ranchManagerAddrs, rx, received>>
mapVars == <<hostsMapping, sheds, allocated, writer, pausedHosts>>
vars    == <<hostsMapping, sheds, allocated, writer, pausedHosts,
             ranchManagerAddrs, rx, received, req>>

-----------------------------------------------------------------------------
(* Receiver threads. *)

RxState == [pc : {"idle", "hosts", "create", "apply", "locked"}, op : Operator,
            cattle : Cattle \cup {NoCattle}, version : AppVersion \cup {NoVersion},
            load : SUBSET Cattle, hosts : SUBSET Host, host : Host \cup {NoHost},
            shed : ShedId \cup {NoShed}, todo : SUBSET Cattle,
            adopts : AppVersion \cup {NoVersion}]

IdleRx == [pc |-> "idle", op |-> "REGISTER", cattle |-> NoCattle,
           version |-> NoVersion, load |-> {}, hosts |-> {}, host |-> NoHost,
           shed |-> NoShed, todo |-> {}, adopts |-> NoVersion]

\* Slip: the message is taken for every host, not for those of its application.
ReceiveForAllHosts(a, m) ==
    /\ rx[a].pc = "idle"
    /\ received < MaxMessages
    /\ received' = received + 1
    /\ ranchManagerAddrs' = [ranchManagerAddrs EXCEPT ![a] = m.cattle]
    /\ rx' = [rx EXCEPT ![a] = [IdleRx EXCEPT !.pc = "hosts", !.op = m.op,
                                  !.cattle = m.cattle, !.version = m.version,
                                  !.load = m.load, !.hosts = Host]]
    /\ UNCHANGED <<mapVars, req>>

\* receive: note who sent it, then handle it for every host of its application.
Receive(a, m) ==
    /\ rx[a].pc = "idle"
    /\ received < MaxMessages
    /\ received' = received + 1
    /\ ranchManagerAddrs' = [ranchManagerAddrs EXCEPT ![a] = m.cattle]
    /\ rx' = [rx EXCEPT ![a] = [IdleRx EXCEPT !.pc = "hosts", !.op = m.op,
                                  !.cattle = m.cattle, !.version = m.version,
                                  !.load = m.load, !.hosts = HostsOf[m.cattle]]]
    /\ UNCHANGED <<mapVars, req>>

\* suspect: a member failed; unregister the instance recorded for it.
Suspect(a) ==
    /\ rx[a].pc = "idle"
    /\ ranchManagerAddrs[a] # NoCattle
    /\ ranchManagerAddrs' = [ranchManagerAddrs EXCEPT ![a] = NoCattle]
    /\ rx' = [rx EXCEPT ![a] = [IdleRx EXCEPT !.pc = "hosts", !.op = "UNREGISTER",
                                  !.cattle = ranchManagerAddrs[a],
                                  !.hosts = HostsOf[ranchManagerAddrs[a]]]]
    /\ UNCHANGED <<mapVars, received, req>>

\* The loop of a handler moves on to host h of the message.
TakesHost(a, h) == rx[a].pc = "hosts" /\ h \in rx[a].hosts

RestOfHosts(a, h) == [rx[a] EXCEPT !.hosts = @ \ {h}]

\* Slip: a shed is made whether the host has one or not.
LookupToReplace(a, h) ==
    /\ TakesHost(a, h)
    /\ rx[a].op \in {"REGISTER", "RANCH_LOAD"}
    /\ rx' = [rx EXCEPT ![a] = [RestOfHosts(a, h) EXCEPT
                 !.pc = "create", !.host = h, !.shed = NoShed]]
    /\ UNCHANGED <<mapVars, ranchManagerAddrs, received, req>>

\* register and makeLoad: find the shed of the host; it is created if missing.
LookupToFill(a, h) ==
    /\ TakesHost(a, h)
    /\ rx[a].op \in {"REGISTER", "RANCH_LOAD"}
    /\ rx' = [rx EXCEPT ![a] = [RestOfHosts(a, h) EXCEPT
                 !.pc   = IF hostsMapping[h] = NoShed THEN "create" ELSE "apply",
                 !.host = h, !.shed = hostsMapping[h]]]
    /\ UNCHANGED <<mapVars, ranchManagerAddrs, received, req>>

\* ... which happens later, without a lock between the look up and the put.
CreateShed(a) ==
    /\ rx[a].pc = "create"
    /\ \E s \in ShedId \ allocated :
          /\ allocated' = allocated \cup {s}
          /\ hostsMapping' = [hostsMapping EXCEPT ![rx[a].host] = s]
          /\ rx' = [rx EXCEPT ![a].pc = "apply", ![a].shed = s]
    /\ UNCHANGED <<sheds, writer, pausedHosts, ranchManagerAddrs, received, req>>

\* unregister and setDefaultVersion: a host without a shed is skipped.
LookupToUpdate(a, h) ==
    /\ TakesHost(a, h)
    /\ rx[a].op \in {"UNREGISTER", "APP_SET_DEFAULT_VERSION"}
    /\ rx' = [rx EXCEPT ![a] =
                 IF hostsMapping[h] = NoShed THEN RestOfHosts(a, h)
                 ELSE [RestOfHosts(a, h) EXCEPT
                          !.pc = "apply", !.host = h, !.shed = hostsMapping[h]]]
    /\ UNCHANGED <<mapVars, ranchManagerAddrs, received, req>>

\* The handlers that work on the host maps alone.
PauseApp(a, h) ==
    /\ TakesHost(a, h) /\ rx[a].op = "APP_PAUSE"
    /\ pausedHosts' = pausedHosts \cup {h}
    /\ rx' = [rx EXCEPT ![a] = RestOfHosts(a, h)]
    /\ UNCHANGED <<hostsMapping, sheds, allocated, writer, ranchManagerAddrs,
                   received, req>>

RestartApp(a, h) ==
    /\ TakesHost(a, h) /\ rx[a].op = "APP_RESTART"
    /\ pausedHosts' = pausedHosts \ {h}
    /\ rx' = [rx EXCEPT ![a] = RestOfHosts(a, h)]
    /\ UNCHANGED <<hostsMapping, sheds, allocated, writer, ranchManagerAddrs,
                   received, req>>

StopApp(a, h) ==
    /\ TakesHost(a, h) /\ rx[a].op = "APP_STOP"
    /\ hostsMapping' = [hostsMapping EXCEPT ![h] = NoShed]
    /\ rx' = [rx EXCEPT ![a] = RestOfHosts(a, h)]
    /\ UNCHANGED <<sheds, allocated, writer, pausedHosts, ranchManagerAddrs,
                   received, req>>

HandlerDone(a) ==
    /\ rx[a].pc = "hosts" /\ rx[a].hosts = {}
    /\ rx' = [rx EXCEPT ![a] = IdleRx]
    /\ UNCHANGED <<mapVars, ranchManagerAddrs, received, req>>

-----------------------------------------------------------------------------
(* The effects on a shed; s is the Shed object found before, which may by   *)
(* now have been replaced in hostsMapping.                                  *)

Applies(a, op) == rx[a].pc = "apply" /\ rx[a].op = op

\* Slip: the shed is changed without its lock.
WriteUnlockedAlways(s) == TRUE

WriteUnlocked(s) == writer[s] = NoAddress

NextHost(a) == rx' = [rx EXCEPT ![a].pc = "hosts", ![a].host = NoHost, ![a].shed = NoShed]

\* Shed.addCattle up to its look at the default version; the lock is kept.
RegisterCattle(a) ==
    LET s == rx[a].shed
        c == rx[a].cattle
    IN  /\ Applies(a, "REGISTER") /\ WriteUnlocked(s)
        /\ writer' = [writer EXCEPT ![s] = a]
        /\ sheds' = [sheds EXCEPT ![s] = PutCattle(@, c)]
        /\ rx' = [rx EXCEPT ![a].pc = "locked", ![a].todo = {},
                            ![a].adopts = FoundDefault(sheds[s], c)]
        /\ UNCHANGED <<hostsMapping, allocated, pausedHosts, ranchManagerAddrs,
                       received, req>>

UnregisterCattle(a) ==
    LET s == rx[a].shed
    IN  /\ Applies(a, "UNREGISTER") /\ WriteUnlocked(s)
        /\ sheds' = [sheds EXCEPT ![s] = RemoveCattle(@, rx[a].cattle)]
        /\ NextHost(a)
        /\ UNCHANGED <<hostsMapping, allocated, writer, pausedHosts,
                       ranchManagerAddrs, received, req>>

\* Shed.setDefaultVersion takes no lock.
ChangeDefaultVersion(a) ==
    LET s == rx[a].shed
    IN  /\ Applies(a, "APP_SET_DEFAULT_VERSION")
        /\ sheds' = [sheds EXCEPT ![s] = SetDefaultVersion(@, rx[a].version)]
        /\ NextHost(a)
        /\ UNCHANGED <<hostsMapping, allocated, writer, pausedHosts,
                       ranchManagerAddrs, received, req>>

\* reload empties the shed under its lock, and adds what it was given one by one.
ReloadClear(a) ==
    LET s == rx[a].shed
    IN  /\ Applies(a, "RANCH_LOAD") /\ WriteUnlocked(s)
        /\ writer' = [writer EXCEPT ![s] = a]
        /\ sheds' = [sheds EXCEPT ![s] = ClearCattles(@)]
        /\ rx' = [rx EXCEPT ![a].pc = "locked", ![a].todo = rx[a].load]
        /\ UNCHANGED <<hostsMapping, allocated, pausedHosts, ranchManagerAddrs,
                       received, req>>

ReloadAdd(a, c) ==
    LET s == rx[a].shed
    IN  /\ rx[a].pc = "locked" /\ rx[a].adopts = NoVersion /\ c \in rx[a].todo
        /\ sheds' = [sheds EXCEPT ![s] = PutCattle(@, c)]
        /\ rx' = [rx EXCEPT ![a].todo = @ \ {c}, ![a].adopts = FoundDefault(sheds[s], c)]
        /\ UNCHANGED <<hostsMapping, allocated, writer, pausedHosts,
                       ranchManagerAddrs, received, req>>

\* addCattle found no default version and writes one, whatever was commanded since.
AdoptDefault(a) ==
    LET s == rx[a].shed
    IN  /\ rx[a].pc = "locked" /\ rx[a].adopts # NoVersion
        /\ sheds' = [sheds EXCEPT ![s] = SetDefaultVersion(@, rx[a].adopts)]
        /\ rx' = [rx EXCEPT ![a].adopts = NoVersion]
        /\ UNCHANGED <<hostsMapping, allocated, writer, pausedHosts,
                       ranchManagerAddrs, received, req>>

\* addCattle or reload is done.
Unlock(a) ==
    LET s == rx[a].shed
    IN  /\ rx[a].pc = "locked" /\ rx[a].adopts = NoVersion /\ rx[a].todo = {}
        /\ writer' = [writer EXCEPT ![s] = NoAddress]
        /\ NextHost(a)
        /\ UNCHANGED <<hostsMapping, sheds, allocated, pausedHosts,
                       ranchManagerAddrs, received, req>>

-----------------------------------------------------------------------------
(* Request threads: Processor6.run and CattleManager.findCattle.            *)

ReqState == [pc : {"idle", "paused", "shed", "sticky", "service", "check", "index",
                   "take", "connect", "done"},
             asked : Host \cup {NoHost}, path : Seq(Host), host : Host \cup {NoHost},
             cookie : Cookie, excluded : SUBSET Cattle,
             shed : ShedId \cup {NoShed}, version : AppVersion \cup {NoVersion},
             copied : BOOLEAN, view : SUBSET Cattle, index : Nat,
             picked : Cattle \cup {NoCattle},
             result : {"none", "served", "404", "503", "503 paused", "crashed"}]

NoCookie == [server |-> <<>>, test |-> NoVersion, version |-> NoVersion]

IdleReq == [pc |-> "idle", asked |-> NoHost, path |-> <<>>, host |-> NoHost, cookie |-> NoCookie, excluded |-> {},
            shed |-> NoShed, version |-> NoVersion, copied |-> FALSE, view |-> {},
            index |-> 0, picked |-> NoCattle, result |-> "none"]

At(r, pc) == req[r].pc = pc

Moves(r, new) ==
    /\ req' = [req EXCEPT ![r] = new]
    /\ UNCHANGED <<mapVars, rxVars>>

\* The thread ends; what it leaves is the instances it failed to reach.
Ended(r, result) ==
    [IdleReq EXCEPT !.pc = "done", !.result = result, !.excluded = req[r].excluded]

\* computeHost: below a public host the first name of the path is the host.
ComputeHost(asked, path) ==
    IF asked \notin PublicHosts THEN asked
    ELSE IF path = <<>>         THEN NoHost ELSE Head(path)

\* ... and that name is taken out of the path of the request.
ContextPath(asked, path) ==
    IF asked \in PublicHosts /\ path # <<>> THEN Tail(path) ELSE path

\* findCattle up to the first access to the shared maps.
LooksUp(r, asked, path, cookie, excluded) ==
    LET host == ComputeHost(asked, path)
    IN  IF host = NoHost
        THEN Moves(r, [IdleReq EXCEPT !.pc = "done", !.result = "404",
                                      !.excluded = excluded])
        ELSE Moves(r, [IdleReq EXCEPT !.pc = "paused", !.asked = asked,
                                      !.path = ContextPath(asked, path), !.host = host,
                                      !.cookie = cookie, !.excluded = excluded])

Arrive(r, h, p, k) ==
    /\ At(r, "idle") \/ At(r, "done")
    /\ LooksUp(r, h, p, k, {})

CheckPaused(r) ==
    /\ At(r, "paused")
    /\ Moves(r, IF req[r].host \in pausedHosts THEN Ended(r, "503 paused")
                ELSE [req[r] EXCEPT !.pc = "shed"])

FindShed(r) ==
    LET s == hostsMapping[req[r].host]
    IN  /\ At(r, "shed")
        /\ Moves(r, IF s = NoShed THEN Ended(r, "404")
                    ELSE [req[r] EXCEPT
                             !.shed = s,
                             !.pc = IF SessionSticky THEN "sticky" ELSE "service"])

\* A sticky instance is returned whatever the caller excludes.
FindSticked(r) ==
    LET sticked == StickedCattles(sheds[req[r].shed], req[r].cookie.server)
    IN  /\ At(r, "sticky") /\ WriteUnlocked(req[r].shed)
        /\ \/ sticked = {} /\ Moves(r, [req[r] EXCEPT !.pc = "service"])
           \/ \E c \in sticked :
                 Moves(r, [req[r] EXCEPT !.pc = "connect", !.picked = c])

\* Slip: the caller always gets the live list.
ServiceLive(r) ==
    /\ At(r, "service") /\ WriteUnlocked(req[r].shed)
    /\ Moves(r, [req[r] EXCEPT !.pc = "check", !.view = {},
                    !.version = Select(sheds[req[r].shed], req[r].cookie)])

\* Slip: the excluded instances stay in the copy.
ServiceCopyingAll(r) ==
    LET shed == sheds[req[r].shed]
        ver  == Select(shed, req[r].cookie)
        copy == req[r].excluded # {}
    IN  /\ At(r, "service") /\ WriteUnlocked(req[r].shed)
        /\ Moves(r, [req[r] EXCEPT !.pc = "check", !.version = ver, !.copied = copy,
                        !.view = IF copy THEN CattlesOf(shed, ver) ELSE {}])

\* Shed.service: without exclusions the caller gets the live list of the
\* version, otherwise a copy of it without the excluded instances.
Service(r) ==
    LET shed == sheds[req[r].shed]
        ver  == Select(shed, req[r].cookie)
        copy == req[r].excluded # {}
    IN  /\ At(r, "service") /\ WriteUnlocked(req[r].shed)
        /\ Moves(r, [req[r] EXCEPT !.pc = "check", !.version = ver, !.copied = copy,
                        !.view = IF copy THEN CattlesOf(shed, ver) \ req[r].excluded
                                 ELSE {}])

\* What size() and toArray() of the returned collection see now.
ViewSize(r) == IF req[r].copied THEN Cardinality(req[r].view)
               ELSE ListSize(sheds[req[r].shed], req[r].version)

ViewCattles(r) == IF req[r].copied THEN req[r].view
                  ELSE CattlesOf(sheds[req[r].shed], req[r].version)

CheckEmpty(r) ==
    /\ At(r, "check")
    /\ Moves(r, IF ViewSize(r) = 0 THEN Ended(r, "503")
                ELSE [req[r] EXCEPT !.pc = "index"])

\* random.nextInt(size()) throws for an empty collection.
ChooseIndex(r) ==
    /\ At(r, "index")
    /\ \/ ViewSize(r) = 0 /\ Moves(r, Ended(r, "crashed"))
       \/ \E i \in 0 .. (ViewSize(r) - 1) :
             Moves(r, [req[r] EXCEPT !.pc = "take", !.index = i])

\* toArray()[index]: past the end it is an exception, or a null that fails on
\* the first use; neither is caught and the client gets no response.
TakeElement(r) ==
    /\ At(r, "take")
    /\ \/ req[r].index >= ViewSize(r) /\ Moves(r, Ended(r, "crashed"))
       \/ /\ req[r].index < ViewSize(r)
          /\ \E c \in ViewCattles(r) :
                Moves(r, [req[r] EXCEPT !.pc = "connect", !.picked = c])

Connect(r) == At(r, "connect") /\ Moves(r, Ended(r, "served"))

\* The thread calls findCattle again, with the request as the last call left it.
LooksAgain(r, excluded) ==
    LooksUp(r, req[r].asked, req[r].path, req[r].cookie, excluded)

\* Slip: the instance that failed is not excluded.
ConnectFailsForgetful(r) == At(r, "connect") /\ LooksAgain(r, req[r].excluded)

\* The instance cannot be reached: exclude it too.
ConnectFails(r) ==
    At(r, "connect") /\ LooksAgain(r, req[r].excluded \cup {req[r].picked})

-----------------------------------------------------------------------------
Init ==
    /\ hostsMapping = [h \in Host |-> NoShed]
    /\ sheds = [s \in ShedId |-> EmptyShed]
    /\ allocated = {}
    /\ writer = [s \in ShedId |-> NoAddress]
    /\ pausedHosts = {}
    /\ ranchManagerAddrs = [a \in Address |-> NoCattle]
    /\ rx = [a \in Address |-> IdleRx]
    /\ received = 0
    /\ req = [r \in Request |-> IdleReq]

\* What a receiver thread does once it has a message.
Handle(a) ==
    \/ \E h \in Host : \/ LookupToFill(a, h) \/ LookupToUpdate(a, h)
                       \/ PauseApp(a, h) \/ RestartApp(a, h) \/ StopApp(a, h)
    \/ CreateShed(a) \/ RegisterCattle(a) \/ UnregisterCattle(a)
    \/ ChangeDefaultVersion(a)
    \/ ReloadClear(a) \/ (\E c \in Cattle : ReloadAdd(a, c))
    \/ AdoptDefault(a) \/ Unlock(a)
    \/ HandlerDone(a)

\* What a request thread does once it has a request.
Process(r) ==
    \/ CheckPaused(r) \/ FindShed(r) \/ FindSticked(r) \/ Service(r)
    \/ CheckEmpty(r) \/ ChooseIndex(r) \/ TakeElement(r)
    \/ Connect(r) \/ ConnectFails(r)

Next ==
    \/ \E a \in Address : (\E m \in Inbound[a] : Receive(a, m)) \/ Suspect(a) \/ Handle(a)
    \/ \E r \in Request : (\E h \in Host, p \in Paths, k \in Cookies : Arrive(r, h, p, k)) \/ Process(r)

\* The JVM schedules every thread that can run.
Fairness ==
    /\ \A a \in Address : WF_vars(Handle(a))
    /\ \A r \in Request : WF_vars(Process(r))

Spec == Init /\ [][Next]_vars

FairSpec == Spec /\ Fairness

-----------------------------------------------------------------------------
(* Properties. *)

TypeOK ==
    /\ hostsMapping \in [Host -> ShedId \cup {NoShed}]
    /\ sheds \in [ShedId -> ShedRecord]
    /\ allocated \subseteq ShedId
    /\ writer \in [ShedId -> Address \cup {NoAddress}]
    /\ pausedHosts \subseteq Host
    /\ ranchManagerAddrs \in [Address -> Cattle \cup {NoCattle}]
    /\ rx \in [Address -> RxState]
    /\ received \in Nat
    /\ req \in [Request -> ReqState]

\* The two indexes of a shed agree this far: an instance that the sticky look up
\* can return is also one that the choice by version can return (Shed.java:127,
\* 150, 206).
RegisteredIsRoutable ==
    \A s \in ShedId : \A c \in sheds[s].cattles : sheds[s].versionsMap[c] > 0

\* A reload replaces the instances of a shed by exactly those reported, each
\* once, whatever the other receiver threads do meanwhile (Shed.java:199-216).
ReloadIsExclusive ==
    \A a \in Address : rx[a].pc = "locked" /\ rx[a].op = "RANCH_LOAD" =>
        LET shed  == sheds[rx[a].shed]
            added == rx[a].load \ rx[a].todo
        IN  /\ shed.cattles = added
            /\ \A c \in Cattle : shed.versionsMap[c] = IF c \in added THEN 1 ELSE 0

\* A shed has its default version for good: one that no thread which found none is
\* about to overwrite.
DefaultSettled(s) ==
    /\ sheds[s].defaultVersion # NoVersion
    /\ \A a \in Address : rx[a].shed = s => rx[a].adopts = NoVersion

\* addCattle checks for a default version and sets it under the lock, the command
\* for it takes none (Shed.java:129-131, 218-224).  Once no thread is between the
\* two, the default changes only because a message says so: not because its
\* instances leave, not by a reload without them, and no thread gets between the
\* two again (Shed.java:155).
SettledDefaultKept ==
    [][\A s \in ShedId : DefaultSettled(s) =>
          /\ DefaultSettled(s)'
          /\ \/ sheds'[s].defaultVersion = sheds[s].defaultVersion
             \/ \E a \in Address : /\ Applies(a, "APP_SET_DEFAULT_VERSION")
                                  /\ rx[a].shed = s
                                  /\ sheds'[s].defaultVersion = rx[a].version]_vars

\* All threads that register for a host agree on its shed: none is about to make
\* another, and those that have one have the one requests find.
HostSettled(h) ==
    /\ hostsMapping[h] # NoShed
    /\ \A a \in Address : rx[a].host = h =>
          /\ rx[a].pc # "create"
          /\ rx[a].pc \in {"apply", "locked"} /\ rx[a].op \in {"REGISTER", "RANCH_LOAD"} =>
                rx[a].shed = hostsMapping[h]

\* register and makeLoad look the shed of a host up and put a new one without a
\* lock, so that of two members who report a new host one may fill a shed that
\* requests never find (CattleManager.java:315, 321-326).  That can only happen
\* around the first report of a host: once the threads agree they agree until the
\* application is stopped.
SettledHostKept ==
    [][\A h \in Host : HostSettled(h) /\ hostsMapping'[h] # NoShed => HostSettled(h)']_vars

\* A request never reaches an instance of an application that does not own the
\* host it asked for (CattleManager.java:219, 240).
HostServedByItsApp ==
    \A r \in Request :
        req[r].pc = "connect" => req[r].host \in HostsOf[req[r].picked]

\* An instance that could not be reached is not tried again for the same request
\* (TaskDispathcer6.java:225-236, Shed.java:98-106).
AttemptsAvoidFailed ==
    \A r \in Request : req[r].pc = "connect" => req[r].picked \notin req[r].excluded

\* The race between the size and the contents of a live list can only hit the
\* first attempt of a request: a retry works on a copy (CattleManager.java:249-252).
RetryNeverCrashes ==
    \A r \in Request : req[r].result = "crashed" => req[r].excluded = {}

\* The retry loop of a request ends: with a response, or with an error once all
\* instances have been tried (TaskDispathcer6.java:229-236).
RequestEnds ==
    \A r \in Request : (req[r].pc \notin {"idle", "done"}) ~> (req[r].pc = "done")

-----------------------------------------------------------------------------
(* What the sheds promise. *)

\* The shed that a reload is filling counts as filled: nobody who takes the lock
\* sees it before.
Filled(s, todo) ==
    [cattles        |-> s.cattles \cup todo,
     versionsMap    |-> [c \in Cattle |-> IF c \in todo THEN 1 ELSE s.versionsMap[c]],
     defaultVersion |-> s.defaultVersion]

TableOf(s) == IF writer[s] = NoAddress THEN sheds[s]
              ELSE Filled(sheds[s], rx[writer[s]].todo)

TaskOf(a) ==
    IF rx[a].pc # "apply" THEN [op |-> "none"]
    ELSE [op |-> rx[a].op, shed |-> rx[a].shed, cattle |-> rx[a].cattle,
          version |-> rx[a].version, load |-> rx[a].load]

AdoptionOf(a) ==
    IF rx[a].adopts = NoVersion THEN [op |-> "none"]
    ELSE [op |-> "adopt", shed |-> rx[a].shed, version |-> rx[a].adopts]

Table == INSTANCE RoutingTable WITH
            table    <- [s \in ShedId |-> TableOf(s)],
            pending  <- [a \in Address |-> TaskOf(a)],
            adopting <- [a \in Address |-> AdoptionOf(a)],
            chosen   <- [r \in Request |-> req[r].version]

\* The instances of the sheds are an atomic table: a message changes them at once
\* for all who use the lock, although a reload empties a shed and fills it again
\* step by step, and a request takes its version from a shed no reload is filling.
\* The default version is not: a member that found none when it added an instance
\* may write one later, over a command that came between (Shed.java:80-110,
\* 129-131, 199-224).
AtomicTable == Table!Spec

=============================================================================
