---------------------------- MODULE AppLifecycle ----------------------------
(***************************************************************************)
(* The life of an application: app/AppService.java and                     *)
(* resource/ResourceService.java in the console, which keep the state the  *)
(* system is meant to be in as rows of a database; the application servers *)
(* (resource/ServerService.java, resource/ServerManager.java,              *)
(* worker/TomcatServerController.java), which are what really runs; and    *)
(* the inspectors of bg/impl, which repair rows that no longer agree with  *)
(* it.                                                                     *)
(*                                                                         *)
(* A call of the console is a transaction that calls servers while it      *)
(* runs, one step per remote call.  Its writes become visible when it      *)
(* commits; an exception, which every call of a server that is down        *)
(* raises, rolls back what was not committed, while what the servers did   *)
(* stays done.  An App row is written as a whole, from a copy read earlier.*)
(* Deploying is one step with the choice of the server.  There is one      *)
(* application.                                                            *)
(***************************************************************************)
EXTENDS Integers, Sequences, FiniteSets
Ext == INSTANCE FiniteSetsExt

CONSTANTS
    Version, Instance, Row,  \* the oids of versions, instances and servers
    Server,                  \* the configured ids of the application servers
    Admin,                   \* the threads that serve administrators
    Inspector,               \* the thread of the inspectors
    Scripts,                 \* bound: what they may call, one call after the other
    InitialServers,          \* PublishInfo.initialServers, as they may ask for
    MaxBoots,                \* bound: starts of servers
    NoVersion, NoInstance, NoRow, NoServer

\* CUSTOMIZED is handled as PROGRESSIVE.
UpdateMode == {"GRACEFUL", "PROGRESSIVE", "SHOCKED"}

Operation == UpdateMode \cup
    {"registerVersion", "publish", "publishTest", "stopVersion", "stopApp", "stopInstance",
     "restartInstance", "removeVersion", "setVersion", "removeServer", "checkStopedVersion",
     "updateApp", "pauseApp", "resumeApp", "removeApp", "restart", "alterCapacity"}

Removal == {"removeVersion", "removeApp"}

ASSUME LifecycleAssumption ==
    /\ Inspector \notin Admin
    /\ Scripts \subseteq [Admin -> Seq(SUBSET (Operation \ {"checkStopedVersion"}))]
    /\ InitialServers \subseteq Nat /\ MaxBoots \in Nat
    /\ NoVersion \notin Version /\ NoInstance \notin Instance
    /\ NoRow \notin Row /\ NoServer \notin Server

VARIABLES
    \* the database
    app,           \* the row of the application
    versions,      \* the state of each version
    instances,     \* the rows of the instances
    servers,       \* the rows of the servers
    cached,        \* the versions that have a cache id
    \* what runs
    process,       \* the process of each application server
    registered,    \* those that know that their registration succeeded
    deployedOn,    \* the server whose process has a controller for an instance
    serving,       \* the instances whose Tomcat service runs
    reporting,     \* the instances whose Ranch is in its group
    \* the console
    task,          \* the transaction of each thread
    unreachable,   \* the rows whose server did not answer the inspector
    calls, boots

database == <<app, versions, instances, servers, cached>>
running  == <<process, registered, deployedOn, serving, reporting>>
console  == <<task, unreachable, calls, boots>>
vars     == <<app, versions, instances, servers, cached, process, registered,
              deployedOn, serving, reporting, task, unreachable, calls, boots>>

-----------------------------------------------------------------------------
AppRow      == [state : {"REGISTERED", "RUNNING", "PAUSED", "TESTING", "STOPED", "deleted"},
                version : Version \cup {NoVersion}]
VersionState == {"new", "REGISTERED", "RUNNING", "TESTING", "STOPED", "deleted"}
InstanceRow == [state : {"new", "RUNNING", "STOPED", "deleted"},
                server : Row \cup {NoRow}, version : Version \cup {NoVersion}]
ServerRow   == [state : {"new", "AVAILABLE", "STOPED", "deleted"},
                id : Server \cup {NoServer}]

TaskState == [pc : {"idle", "open", "publish", "record", "switch", "retire", "counted"},
              op : Operation, caller : AppRow, loaded : AppRow,
              loadedState : VersionState, version : Version \cup {NoVersion},
              old : Version \cup {NoVersion}, left : Nat,
              fresh : Instance \cup {NoInstance}, row : Row \cup {NoRow},
              queue : SUBSET Version, stopped : SUBSET Version,
              silence : SUBSET Instance, todo : SUBSET Instance, done : SUBSET Instance]

\* registerApp leaves the state that the form sends: none, or REGISTERED.
NewApp == [state |-> "REGISTERED", version |-> NoVersion]

IdleTask == [pc |-> "idle", op |-> "publish", caller |-> NewApp, loaded |-> NewApp,
             loadedState |-> "new", version |-> NoVersion, old |-> NoVersion, left |-> 0,
             fresh |-> NoInstance, row |-> NoRow, queue |-> {}, stopped |-> {},
             silence |-> {}, todo |-> {}, done |-> {}]

At(t, pc) == task[t].pc = pc

Becomes(t, new) == task' = [task EXCEPT ![t] = new]

\* An exception ends the call; what it wrote since the last commit is undone.
Rollback(t) == Becomes(t, IdleTask)

AppExists        == app.state # "deleted"
VersionExists(v) == versions[v] \notin {"new", "deleted"}
ServerExists(r)  == r # NoRow /\ servers[r].state \in {"AVAILABLE", "STOPED"}
ServerLive(r)    == r # NoRow /\ servers[r].state = "AVAILABLE"

RunningOf(v) == {i \in Instance : instances[i].state = "RUNNING" /\ instances[i].version = v}

\* The rows of the instances of a version, whether they run or not.
RowsOf(v) == {i \in Instance : /\ instances[i].state \in {"RUNNING", "STOPED"}
                               /\ instances[i].version = v}

\* A call of a server reaches whatever process listens at its address now.
Answers(r) == process[servers[r].id] # "down"

\* UPDATE of rows that exist.
WriteApp(row) == app' = IF AppExists THEN row ELSE app

InstancesStoped(done) ==
    [i \in Instance |-> IF i \in done /\ instances[i].state = "RUNNING"
                        THEN [instances[i] EXCEPT !.state = "STOPED"] ELSE instances[i]]

VersionsWritten(set, state) ==
    [v \in Version |-> IF v \in set /\ VersionExists(v) THEN state ELSE versions[v]]

-----------------------------------------------------------------------------
(* Application servers. *)

\* Slip: only a server whose process is known to run is refused.
RefusedWhenRegistered(s) == s \in registered

\* registerServer refuses an id that has a row which is not STOPED.
Refused(s) == \E r \in Row : ServerLive(r) /\ servers[r].id = s

\* The process starts and registers; ServerRegister only logs a refusal.
Boot(s) ==
    /\ process[s] = "down" /\ boots < MaxBoots
    /\ boots' = boots + 1
    /\ process' = [process EXCEPT ![s] = "up"]
    /\ IF Refused(s)
       THEN registered' = registered \ {s} /\ UNCHANGED servers
       ELSE /\ \E r \in Row : servers[r].state = "new"
            /\ LET r == CHOOSE r \in Row : servers[r].state = "new"
               IN  servers' = [servers EXCEPT ![r] = [state |-> "AVAILABLE", id |-> s]]
            /\ registered' = registered \cup {s}
    /\ UNCHANGED <<app, versions, instances, cached, deployedOn, serving, reporting,
                   task, unreachable, calls>>

\* onDestroy: unregisterServer deletes the rows of the id, first stopping theirs.
Shutdown(s) ==
    LET rows == {r \in Row : ServerExists(r) /\ servers[r].id = s}
    IN  /\ process[s] = "up"
        /\ process' = [process EXCEPT ![s] = "stopping"]
        /\ IF s \in registered
           THEN /\ servers' = [r \in Row |-> IF r \in rows
                                  THEN [servers[r] EXCEPT !.state = "deleted"] ELSE servers[r]]
                /\ instances' = InstancesStoped({i \in Instance : instances[i].server \in rows})
           ELSE UNCHANGED <<servers, instances>>
        /\ UNCHANGED <<app, versions, cached, registered, deployedOn, serving, reporting,
                       console>>

\* The process ends, with everything that runs in it.
Ends(s) ==
    LET lost == {i \in Instance : deployedOn[i] = s}
    IN  /\ process' = [process EXCEPT ![s] = "down"]
        /\ registered' = registered \ {s}
        /\ deployedOn' = [i \in Instance |-> IF i \in lost THEN NoServer ELSE deployedOn[i]]
        /\ serving' = serving \ lost
        /\ reporting' = reporting \ lost
        /\ UNCHANGED <<database, console>>

Exit(s)  == process[s] = "stopping" /\ Ends(s)
Crash(s) == process[s] = "up" /\ Ends(s)

-----------------------------------------------------------------------------
(* What a server does when it is called; an instance it does not have, it ignores. *)

\* deploy starts a Tomcat service and the Ranch of the instance.
Deployed(s, i) ==
    /\ deployedOn' = [deployedOn EXCEPT ![i] = s]
    /\ serving' = serving \cup {i}
    /\ reporting' = reporting \cup {i}

\* Slip: the Ranch is not stopped with the service.
UndeployedService(s, i) ==
    /\ serving' = IF deployedOn[i] = s THEN serving \ {i} ELSE serving
    /\ UNCHANGED reporting

\* undeploy stops both, and the controller is kept.
Undeployed(s, i) ==
    IF deployedOn[i] = s THEN serving' = serving \ {i} /\ reporting' = reporting \ {i}
                         ELSE UNCHANGED <<serving, reporting>>

\* The controller stops its service and then finds it started already: the field
\* service is never reset.
Restarted(s, i) == serving' = IF deployedOn[i] = s THEN serving \ {i} ELSE serving

\* unregister: the instance leaves the groups.
Unregistered(s, i) == reporting' = IF deployedOn[i] = s THEN reporting \ {i} ELSE reporting

-----------------------------------------------------------------------------
(* Operations of one step, and the start of the others. *)

\* An administrator has the application on the screen when he calls an operation.
Open(t) ==
    /\ At(t, "idle") /\ calls[t] # <<>> /\ AppExists
    /\ calls' = [calls EXCEPT ![t] = Tail(@)]
    /\ \E op \in Head(calls[t]) :
          Becomes(t, [IdleTask EXCEPT !.pc = "open", !.op = op, !.caller = app])
    /\ UNCHANGED <<database, running, unreachable, boots>>

Calls(t, op) == At(t, "open") /\ task[t].op = op

\* registerAppVersion.  Its last test is the opposite of its comment: a version
\* becomes the default one when the present default exists.
RegisterAppVersion(t) ==
    LET v == CHOOSE v \in Version : versions[v] = "new"
    IN  /\ Calls(t, "registerVersion") /\ AppExists
        /\ \E w \in Version : versions[w] = "new"
        /\ versions' = [versions EXCEPT ![v] = "REGISTERED"]
        /\ app' = IF app.version # NoVersion /\ VersionExists(app.version)
                  THEN [app EXCEPT !.version = v] ELSE app
        /\ Rollback(t)
        /\ UNCHANGED <<instances, servers, cached, running, unreachable, calls, boots>>

\* A call that ends with the row of the application.
SaveApp(t, row) ==
    /\ WriteApp(row)
    /\ Rollback(t)
    /\ UNCHANGED <<versions, instances, servers, cached, running, unreachable, calls, boots>>

\* A call that ends with an exception before anything was written.
EndInVain(t) ==
    /\ Rollback(t)
    /\ UNCHANGED <<database, running, unreachable, calls, boots>>

SetVersion(t, v) ==
    /\ Calls(t, "setVersion") /\ VersionExists(v)
    /\ SaveApp(t, [task[t].caller EXCEPT !.version = v])

\* The form of the basic data sends the whole row.
UpdateApp(t) == Calls(t, "updateApp") /\ SaveApp(t, task[t].caller)

\* The instances that run are told in turn until two of them count: those whose
\* Ranch is found, and those whose server is gone.
PauseApp(t) ==
    LET alive   == UNION {RunningOf(v) : v \in Version}
        counted(S) == {i \in S : LET r == instances[i].server
                                IN  ServerExists(r) => deployedOn[i] = servers[r].id}
    IN  /\ Calls(t, "pauseApp") /\ AppExists
        /\ \E called \in SUBSET alive :
              /\ \/ Cardinality(counted(called)) = 2
                 \/ called = alive /\ Cardinality(counted(called)) < 2
              /\ IF \A i \in called : LET r == instances[i].server
                                      IN  ServerExists(r) => Answers(r)
                 THEN SaveApp(t, [task[t].caller EXCEPT !.state = "PAUSED"])
                 ELSE EndInVain(t)

\* Nobody is told.
ResumeApp(t) ==
    /\ Calls(t, "resumeApp") /\ AppExists
    /\ SaveApp(t, [task[t].caller EXCEPT !.state = "RUNNING"])

RestartInstance(t, i) ==
    /\ Calls(t, "restartInstance")
    /\ instances[i].state \in {"RUNNING", "STOPED"}
    /\ ServerExists(instances[i].server)
    /\ Restarted(servers[instances[i].server].id, i)
    /\ Rollback(t)
    /\ UNCHANGED <<database, process, registered, deployedOn, reporting, unreachable,
                   calls, boots>>

\* removeServer deletes the rows of a server and of its instances.
RemoveServer(t, r) ==
    /\ Calls(t, "removeServer") /\ ServerExists(r)
    /\ servers' = [servers EXCEPT ![r].state = "deleted"]
    /\ instances' = [i \in Instance |-> IF instances[i].server = r
                        THEN [instances[i] EXCEPT !.state = "deleted"] ELSE instances[i]]
    /\ Rollback(t)
    /\ UNCHANGED <<app, versions, cached, running, unreachable, calls, boots>>

Starts(t, op, new) ==
    /\ Calls(t, op)
    /\ Becomes(t, [new EXCEPT !.loaded = app])
    /\ UNCHANGED <<app, versions, instances, servers, running, unreachable, calls, boots>>

PublishAppVersion(t, op, v, n) ==
    /\ AppExists /\ VersionExists(v)
    /\ cached' = cached \cup {v}
    /\ Starts(t, op, [task[t] EXCEPT !.pc = "publish", !.version = v,
                         !.loadedState = versions[v], !.left = n])

\* A graceful upgrade needs the cache id of the old version.
Upgrade(t, mode, old, new, n) ==
    /\ AppExists /\ VersionExists(old) /\ VersionExists(new) /\ old # new
    /\ mode = "GRACEFUL" => old \in cached
    /\ cached' = cached \cup {new}
    /\ Starts(t, mode, [task[t] EXCEPT !.pc = "publish", !.version = new, !.old = old,
                           !.loadedState = versions[new], !.left = n])

StopAppVersion(t, v) ==
    /\ AppExists /\ VersionExists(v)
    /\ Starts(t, "stopVersion", [task[t] EXCEPT !.pc = "retire", !.queue = {v}])
    /\ UNCHANGED cached

\* stopApp, removeApp: one version after the other.
EveryVersion(t, op) ==
    /\ AppExists
    /\ Starts(t, op, [task[t] EXCEPT !.pc = "retire",
                          !.queue = {v \in Version : VersionExists(v)}])
    /\ UNCHANGED cached

StopApp(t)   == EveryVersion(t, "stopApp")
RemoveApp(t) == EveryVersion(t, "removeApp")

StopInstance(t, i) ==
    /\ instances[i].state \in {"RUNNING", "STOPED"}
    /\ Starts(t, "stopInstance", [task[t] EXCEPT !.pc = "retire", !.todo = {i}])
    /\ UNCHANGED cached

RemoveAppVersion(t, v) ==
    /\ AppExists /\ VersionExists(v)
    /\ Starts(t, "removeVersion", [task[t] EXCEPT !.pc = "retire", !.queue = {v}])
    /\ UNCHANGED cached

\* restart of a version
Restart(t, v) ==
    /\ VersionExists(v)
    /\ Starts(t, "restart", [task[t] EXCEPT !.pc = "retire", !.todo = RunningOf(v)])
    /\ UNCHANGED cached

\* What is missing is published; of what is too much, any are stopped.
AlterCapacity(t, v, initial, max) ==
    LET count == Cardinality(RunningOf(v))
        extra == IF count > max THEN count - max ELSE 0
    IN  /\ VersionExists(v)
        /\ \/ /\ count < initial
              /\ Starts(t, "alterCapacity", [task[t] EXCEPT !.pc = "publish", !.version = v,
                                                !.left = initial - count])
           \/ /\ count >= initial
              /\ \E some \in Ext!kSubset(extra, RunningOf(v)) :
                    Starts(t, "alterCapacity", [task[t] EXCEPT !.pc = "retire", !.todo = some])
        /\ UNCHANGED cached

-----------------------------------------------------------------------------
(* Publishing. *)

\* findServer: the available server with the fewest instances of the application.
Load(r) == Cardinality({i \in Instance : /\ instances[i].state \in {"RUNNING", "STOPED"}
                                         /\ instances[i].server = r})

Candidates == {r \in Row : ServerLive(r) /\ \A s \in Row : ServerLive(s) => Load(r) <= Load(s)}

Unused == {i \in Instance : instances[i].state = "new" /\ \A u \in DOMAIN task : task[u].fresh # i}

\* Slip: one instance too many.
OneMoreToPublish(t) == At(t, "publish") /\ task[t].left >= 0

ToPublish(t) == At(t, "publish") /\ task[t].left > 0

\* applyFor: no server, a server that is down, and a package that is no longer
\* there are exceptions.
Deploy(t) ==
    /\ ToPublish(t)
    /\ \/ /\ Candidates = {}
          /\ Rollback(t) /\ UNCHANGED <<deployedOn, serving, reporting>>
       \/ \E r \in Candidates :
             IF Answers(r) /\ VersionExists(task[t].version)
             THEN /\ Unused # {}
                  /\ LET i == CHOOSE i \in Unused : TRUE
                     IN  /\ Deployed(servers[r].id, i)
                         /\ Becomes(t, [task[t] EXCEPT !.pc = "record", !.fresh = i, !.row = r])
             ELSE Rollback(t) /\ UNCHANGED <<deployedOn, serving, reporting>>
    /\ UNCHANGED <<database, process, registered, unreachable, calls, boots>>

\* saveAppInstance commits.
SaveAppInstance(t) ==
    /\ At(t, "record")
    /\ instances' = [instances EXCEPT ![task[t].fresh] =
                        [state |-> "RUNNING", server |-> task[t].row,
                         version |-> task[t].version]]
    /\ Becomes(t, [task[t] EXCEPT !.pc = "publish", !.left = @ - 1,
                                  !.fresh = NoInstance, !.row = NoRow])
    /\ UNCHANGED <<app, versions, servers, cached, running, unreachable, calls, boots>>

\* A version that was being tested stays so.
PublishedVersions(t) ==
    VersionsWritten({task[t].version},
                    IF task[t].loadedState = "TESTING" THEN "TESTING" ELSE "RUNNING")

\* publishTestVersion writes the caller's App afterwards, not the version.
Published(t) ==
    /\ At(t, "publish") /\ task[t].left = 0
    /\ task[t].op \in {"publish", "publishTest"}
    /\ versions' = PublishedVersions(t)
    /\ WriteApp(IF task[t].op = "publishTest" THEN task[t].caller
                ELSE [task[t].loaded EXCEPT !.state = "RUNNING"])
    /\ Rollback(t)
    /\ UNCHANGED <<instances, servers, cached, running, unreachable, calls, boots>>

\* A larger capacity changes neither the version nor the application.
Enlarged(t) ==
    /\ At(t, "publish") /\ task[t].left = 0 /\ task[t].op = "alterCapacity"
    /\ EndInVain(t)

-----------------------------------------------------------------------------
(* Upgrading, stopping and removing. *)

\* An upgrade has published: it goes on with the running instances of the old one.
NewVersionRuns(t) ==
    /\ At(t, "publish") /\ task[t].left = 0 /\ task[t].op \in UpdateMode
    /\ Becomes(t, [task[t] EXCEPT !.pc = "switch", !.todo = RunningOf(task[t].old)])
    /\ UNCHANGED <<database, running, unreachable, calls, boots>>

\* When the old version was the default one, two instances are told; a graceful
\* upgrade then unregisters those that run.
SwitchDefault(t) ==
    LET there   == {i \in task[t].todo : ServerExists(instances[i].server)}
        next    == [task[t] EXCEPT !.pc = "retire",
                       !.silence = IF task[t].op = "GRACEFUL"
                                   THEN RunningOf(task[t].old) ELSE {}]
        ignored == task[t].caller.version # task[t].old
        count   == IF ignored THEN 0 ELSE IF Cardinality(there) < 2 THEN Cardinality(there) ELSE 2
    IN  /\ At(t, "switch")
        /\ \E told \in Ext!kSubset(count, there) :
              IF \A i \in told : Answers(instances[i].server)
              THEN Becomes(t, next) ELSE Rollback(t)
        /\ UNCHANGED <<database, running, unreachable, calls, boots>>

Unregister(t, i) ==
    LET r == instances[i].server
    IN  /\ At(t, "retire") /\ i \in task[t].silence
        /\ IF ServerExists(r) /\ ~Answers(r)
           THEN Rollback(t) /\ UNCHANGED reporting
           ELSE /\ Becomes(t, [task[t] EXCEPT !.silence = @ \ {i}])
                /\ IF ServerExists(r) THEN Unregistered(servers[r].id, i)
                                      ELSE UNCHANGED reporting
        /\ UNCHANGED <<database, process, registered, deployedOn, serving, unreachable,
                       calls, boots>>

\* An upgrade only calls the servers when it is SHOCKED.
CallsServer(t) == task[t].op \notin {"GRACEFUL", "PROGRESSIVE"}

\* The turn of an instance in restart.
RestartNext(t, i) ==
    LET r == instances[i].server
    IN  /\ At(t, "retire") /\ task[t].op = "restart" /\ i \in task[t].todo
        /\ IF ServerExists(r) /\ ~Answers(r)
           THEN Rollback(t) /\ UNCHANGED serving
           ELSE /\ Becomes(t, [task[t] EXCEPT !.todo = @ \ {i}])
                /\ IF ServerExists(r) THEN Restarted(servers[r].id, i) ELSE UNCHANGED serving
        /\ UNCHANGED <<database, process, registered, deployedOn, reporting, unreachable,
                       calls, boots>>

\* The turn of an instance: stopInstance and the loops of upgrade and
\* removeAppVersion.  The row is written when the call commits.
Undeploy(t, i) ==
    LET r      == instances[i].server
        next   == [task[t] EXCEPT !.todo = @ \ {i}, !.done = @ \cup {i}]
        called == CallsServer(t) /\ ServerExists(r)
        op     == task[t].op
    IN  /\ At(t, "retire") /\ task[t].silence = {} /\ i \in task[t].todo /\ op # "restart"
        /\ IF \/ called /\ ~Answers(r) /\ op \notin Removal
              \/ instances[i].state = "deleted" /\ op \notin UpdateMode \cup Removal
           THEN Rollback(t)
           ELSE Becomes(t, IF op \in UpdateMode /\ ~ServerExists(r)
                           THEN [next EXCEPT !.done = task[t].done] ELSE next)
        /\ IF called /\ Answers(r) THEN Undeployed(servers[r].id, i)
                                   ELSE UNCHANGED <<serving, reporting>>
        /\ UNCHANGED <<database, process, registered, deployedOn, unreachable, calls, boots>>

\* _stopAppVersion and removeAppVersion read the instances of one version.
NextVersion(t, v) ==
    /\ At(t, "retire") /\ task[t].todo = {} /\ v \in task[t].queue
    /\ Becomes(t, IF AppExists /\ VersionExists(v)
                  THEN [task[t] EXCEPT !.queue = @ \ {v}, !.stopped = @ \cup {v},
                                       !.todo = IF task[t].op \in Removal THEN RowsOf(v)
                                                ELSE RunningOf(v)]
                  ELSE IdleTask)
    /\ UNCHANGED <<database, running, unreachable, calls, boots>>

Finished(t) == /\ At(t, "retire")
               /\ task[t].silence = {} /\ task[t].todo = {} /\ task[t].queue = {}

FinishUpgrade(t) ==
    /\ Finished(t) /\ task[t].op \in UpdateMode
    /\ instances' = InstancesStoped(task[t].done)
    /\ versions' = PublishedVersions(t)
    /\ WriteApp(IF task[t].caller.version = task[t].old
                THEN [task[t].loaded EXCEPT !.version = task[t].version]
                ELSE [task[t].loaded EXCEPT !.state = "RUNNING"])
    /\ Rollback(t)
    /\ UNCHANGED <<servers, cached, running, unreachable, calls, boots>>

FinishStop(t) ==
    LET all == \A v \in Version : VersionExists(v) =>
                  v \in task[t].stopped \/ versions[v] = "STOPED"
    IN  /\ Finished(t)
        /\ task[t].op \in {"stopVersion", "stopApp", "stopInstance", "checkStopedVersion",
                           "restart", "alterCapacity"}
        /\ instances' = InstancesStoped(task[t].done)
        /\ versions' = VersionsWritten(task[t].stopped, "STOPED")
        /\ WriteApp(IF task[t].op = "stopApp" THEN [task[t].caller EXCEPT !.state = "STOPED"]
                    ELSE IF task[t].op = "stopVersion" /\ all
                         THEN [task[t].loaded EXCEPT !.state = "STOPED"] ELSE app)
        /\ Rollback(t)
        /\ UNCHANGED <<servers, cached, running, unreachable, calls, boots>>

\* A removed default version is replaced by any other; with the last one the
\* application is deleted when it is what is removed.
FinishRemove(t) ==
    LET gone == task[t].stopped
        rest == {w \in Version \ gone : VersionExists(w)}
    IN  /\ Finished(t) /\ task[t].op \in Removal
        /\ instances' = [i \in Instance |-> IF i \in task[t].done
                            THEN [instances[i] EXCEPT !.state = "deleted"] ELSE instances[i]]
        /\ versions' = VersionsWritten(gone, "deleted")
        /\ cached' = cached \ gone
        /\ IF task[t].op = "removeApp"
           THEN app' = [state |-> "deleted", version |-> NoVersion]
           ELSE \E w \in IF rest = {} THEN {NoVersion} ELSE rest :
                   WriteApp(IF task[t].loaded.version \in gone
                            THEN [task[t].loaded EXCEPT !.version = w] ELSE app)
        /\ Rollback(t)
        /\ UNCHANGED <<servers, running, unreachable, calls, boots>>

-----------------------------------------------------------------------------
(* The inspectors. *)

\* ServerStatusInspector calls every server in turn, then its writes commit.
EchoFails(r) ==
    /\ ServerLive(r) /\ ~Answers(r) /\ r \notin unreachable
    /\ unreachable' = unreachable \cup {r}
    /\ UNCHANGED <<database, running, task, calls, boots>>

MarkServers ==
    /\ unreachable # {}
    /\ servers' = [r \in Row |-> IF r \in unreachable /\ ServerExists(r)
                      THEN [servers[r] EXCEPT !.state = "STOPED"] ELSE servers[r]]
    /\ unreachable' = {}
    /\ UNCHANGED <<app, versions, instances, cached, running, task, calls, boots>>

\* Slip: only a server whose row is gone counts as stopped.
OnGoneServer == {i \in Instance : /\ instances[i].state = "RUNNING"
                                  /\ ~ServerExists(instances[i].server)}

OnStopedServer == {i \in Instance : /\ instances[i].state = "RUNNING"
                                    /\ ~ServerLive(instances[i].server)}

\* AppInstanceInspector: what belongs to a server that is stopped or gone ...
CheckStopedServer ==
    /\ OnStopedServer # {}
    /\ instances' = InstancesStoped(OnStopedServer)
    /\ UNCHANGED <<app, versions, servers, cached, running, console>>

\* ... and what belongs to a stopped version is stopped.
CheckStopedVersion ==
    LET left == {i \in Instance : \E v \in Version : i \in RunningOf(v) /\ versions[v] = "STOPED"}
    IN  /\ At(Inspector, "idle") /\ left # {}
        /\ Becomes(Inspector, [IdleTask EXCEPT !.pc = "retire", !.op = "checkStopedVersion",
                                               !.todo = left])
        /\ UNCHANGED <<database, running, unreachable, calls, boots>>

\* Slip: the stopped instances of a version are counted too.
VersionsWithoutRows ==
    {v \in Version : /\ versions[v] \in {"RUNNING", "TESTING"}
                     /\ \A i \in Instance : instances[i].version = v =>
                                             instances[i].state = "deleted"}

VersionsWithoutInstance ==
    {v \in Version : versions[v] \in {"RUNNING", "TESTING"} /\ RunningOf(v) = {}}

\* AppVersionInspector counts the running instances of versions ...
CountInstances ==
    /\ At(Inspector, "idle") /\ VersionsWithoutInstance # {}
    /\ Becomes(Inspector, [IdleTask EXCEPT !.pc = "counted", !.queue = VersionsWithoutInstance])
    /\ UNCHANGED <<database, running, unreachable, calls, boots>>

\* ... and stops those without one, even if one was published since.
StopVersions ==
    /\ At(Inspector, "counted")
    /\ versions' = VersionsWritten(task[Inspector].queue, "STOPED")
    /\ Becomes(Inspector, IdleTask)
    /\ UNCHANGED <<app, instances, servers, cached, running, unreachable, calls, boots>>

\* AppStateInspector.
StateOfVersions == IF \E v \in Version : versions[v] = "RUNNING" THEN "RUNNING"
                   ELSE IF \E v \in Version : versions[v] = "TESTING" THEN "TESTING"
                   ELSE "STOPED"

\* Slip: an application without versions is not looked at.
CheckAppStateOfSome ==
    /\ AppExists /\ \E v \in Version : versions[v] = "RUNNING"
    /\ app.state # StateOfVersions
    /\ app' = [app EXCEPT !.state = StateOfVersions]
    /\ UNCHANGED <<versions, instances, servers, cached, running, console>>

CheckAppState ==
    /\ AppExists /\ app.state # StateOfVersions
    /\ app' = [app EXCEPT !.state = StateOfVersions]
    /\ UNCHANGED <<versions, instances, servers, cached, running, console>>

-----------------------------------------------------------------------------
Init ==
    /\ app = NewApp
    /\ versions = [v \in Version |-> "new"]
    /\ instances = [i \in Instance |-> [state |-> "new", server |-> NoRow, version |-> NoVersion]]
    /\ servers = [r \in Row |-> [state |-> "new", id |-> NoServer]]
    /\ cached = {}
    /\ process = [s \in Server |-> "down"]
    /\ registered = {}
    /\ deployedOn = [i \in Instance |-> NoServer]
    /\ serving = {} /\ reporting = {}
    /\ task = [t \in Admin \cup {Inspector} |-> IdleTask]
    /\ unreachable = {}
    /\ calls \in Scripts /\ boots = 0

Choose(t) ==
    \/ RegisterAppVersion(t)
    \/ UpdateApp(t) \/ PauseApp(t) \/ ResumeApp(t) \/ StopApp(t) \/ RemoveApp(t)
    \/ \E v \in Version : \/ SetVersion(t, v) \/ StopAppVersion(t, v)
                          \/ RemoveAppVersion(t, v) \/ Restart(t, v)
    \/ \E v \in Version, initial, max \in InitialServers : AlterCapacity(t, v, initial, max)
    \/ \E v \in Version, n \in InitialServers : PublishAppVersion(t, "publish", v, n)
    \/ \E v \in Version : PublishAppVersion(t, "publishTest", v, 1)
    \/ \E mode \in UpdateMode, old, new \in Version, n \in InitialServers :
          Upgrade(t, mode, old, new, n)
    \/ \E i \in Instance : StopInstance(t, i) \/ RestartInstance(t, i)
    \/ \E r \in Row : RemoveServer(t, r)

\* What a thread does once it has been called.
Continue(t) ==
    \/ Deploy(t) \/ SaveAppInstance(t) \/ Published(t) \/ Enlarged(t)
    \/ NewVersionRuns(t) \/ SwitchDefault(t)
    \/ \E i \in Instance : Unregister(t, i) \/ RestartNext(t, i) \/ Undeploy(t, i)
    \/ \E v \in Version : NextVersion(t, v)
    \/ FinishUpgrade(t) \/ FinishStop(t) \/ FinishRemove(t)

Inspect ==
    \/ \E r \in Row : EchoFails(r)
    \/ MarkServers \/ CheckStopedServer \/ CheckStopedVersion \/ CountInstances \/ StopVersions
    \/ CheckAppState

Next ==
    \/ \E s \in Server : Boot(s) \/ Shutdown(s) \/ Exit(s) \/ Crash(s)
    \/ \E t \in Admin : Open(t) \/ Choose(t)
    \/ \E t \in Admin \cup {Inspector} : Continue(t)
    \/ Inspect

\* A call of a server returns or fails, a process that shuts down ends, and the
\* inspectors run again and again.
Fairness ==
    /\ \A s \in Server : WF_vars(Exit(s))
    /\ \A t \in Admin \cup {Inspector} : WF_vars(Continue(t))
    /\ \A r \in Row : WF_vars(EchoFails(r))
    /\ WF_vars(MarkServers) /\ WF_vars(CheckStopedServer) /\ WF_vars(CheckStopedVersion)
    /\ WF_vars(CountInstances) /\ WF_vars(StopVersions) /\ WF_vars(CheckAppState)

Spec == Init /\ [][Next]_vars

FairSpec == Spec /\ Fairness

-----------------------------------------------------------------------------
(* Properties. *)

TypeOK ==
    /\ app \in AppRow
    /\ versions \in [Version -> VersionState]
    /\ instances \in [Instance -> InstanceRow]
    /\ servers \in [Row -> ServerRow]
    /\ cached \subseteq Version
    /\ process \in [Server -> {"down", "up", "stopping"}]
    /\ registered \subseteq Server
    /\ deployedOn \in [Instance -> Server \cup {NoServer}]
    /\ serving \subseteq Instance /\ reporting \subseteq Instance
    /\ task \in [Admin \cup {Inspector} -> TaskState]
    /\ unreachable \subseteq Row
    /\ calls \in [Admin -> Seq(SUBSET Operation)] /\ boots \in 0 .. MaxBoots

\* However often servers crash, restart and are inspected, an id never has two
\* rows that may be chosen for a deployment (ResourceService.java:64-69).
OneLiveRowPerServer ==
    \A q, r \in Row : ServerLive(q) /\ ServerLive(r) /\ servers[q].id = servers[r].id => q = r

\* An instance is not shown as running for ever on a server that nobody can reach,
\* whichever calls and inspections the failure interrupts
\* (AppInstanceInspector.java:113-138, ServerStatusInspector.java:31-58).
UnreachableAreStoped ==
    <>[](\A i \in Instance : instances[i].state = "RUNNING" =>
            ServerLive(instances[i].server) /\ Answers(instances[i].server))

\* The rows of versions come to agree with those of their instances: no version
\* runs without one, and none of a stopped version does (AppVersionInspector.java:29-43,
\* AppInstanceInspector.java:73-82).
VersionsFollowInstances ==
    <>[](\A v \in Version :
            /\ versions[v] \in {"RUNNING", "TESTING"} => RunningOf(v) # {}
            /\ versions[v] = "STOPED" => RunningOf(v) = {})

\* ... and the row of the application with those of its versions, after whatever
\* stale copies of it were written (AppStateInspector.java:34-64).  The instances
\* of a paused application go on running (AppState.java:31).
AppFollowsVersions ==
    <>[](AppExists => \/ app.state = StateOfVersions
                      \/ app.state = "PAUSED" /\ StateOfVersions # "STOPED")

\* An instance that an operation gave up or deleted, on a server that is in use, ends
\* up out of the groups, so that no request is sent to it (AppService.java:231-244,
\* 252-275, 324-333, 859-888, 897-912).  A server that the inspector marked is not in use: its answer may be old
\* by then, and the process runs again.
GivenUpAreSilent ==
    <>[](\A i \in Instance :
            instances[i].state \in {"STOPED", "deleted"} /\ ServerLive(instances[i].server)
            => i \notin reporting)

\* An instance that is only marked by an upgrade is stopped later
\* (AppService.java:878).
RetiredAreReclaimed ==
    <>[](\A i \in Instance : instances[i].state = "STOPED" => i \notin serving)

\* Instances of a server process that ended are not shown as running for ever
\* (AppInstanceInspector.java:31).
DeadAreStoped ==
    <>[](\A i \in Instance : instances[i].state = "RUNNING" => deployedOn[i] # NoServer)

=============================================================================
