------------------------- MODULE AppLifecycleProofs -------------------------
(***************************************************************************)
(* Theorems about AppLifecycle, for any number of servers, rows, versions  *)
(* and administrators, and any scripts: a server's id has one live row,    *)
(* and the types are kept.  The second needs that a transaction that is to *)
(* record instances still owes some, so that it never counts below zero.   *)
(***************************************************************************)
EXTENDS AppLifecycle, FiniteSetTheorems, TLAPS

\* What the rows of the servers need: their type, and one live row per id.
RowInv ==
    /\ servers \in [Row -> ServerRow]
    /\ unreachable \subseteq Row
    /\ OneLiveRowPerServer

\* Most steps of the console and of the inspectors leave these two alone.
LEMMA OthersKeepRows ==
    ASSUME RowInv, UNCHANGED <<servers, unreachable>>
    PROVE  RowInv'
  BY DEF RowInv, OneLiveRowPerServer, ServerLive

\* A row that goes from live to stopped or deleted cannot give an id a second one.
LEMMA FewerLiveRows ==
    ASSUME RowInv, NEW gone \in SUBSET Row, NEW state \in {"STOPED", "deleted"},
           servers' = [r \in Row |-> IF r \in gone
                          THEN [servers[r] EXCEPT !.state = state] ELSE servers[r]],
           unreachable' \subseteq Row
    PROVE  RowInv'
  <1>1. servers' \in [Row -> ServerRow]
    BY DEF RowInv, ServerRow
  <1>2. ASSUME NEW r \in Row, ServerLive(r)'
        PROVE  ServerLive(r) /\ servers'[r] = servers[r]
    BY <1>2 DEF RowInv, ServerRow, ServerLive
  <1>3. OneLiveRowPerServer'
    BY <1>2 DEF RowInv, OneLiveRowPerServer
  <1> QED
    BY <1>1, <1>3 DEF RowInv

\* A registration that is not refused gives an id its only live row.
LEMMA BootKeepsRows ==
    ASSUME RowInv, NEW s \in Server, Boot(s)
    PROVE  RowInv'
  <1>0. unreachable' = unreachable
    BY DEF Boot
  <1>1. CASE Refused(s)
    BY <1>0, <1>1, OthersKeepRows DEF Boot
  <1>2. CASE ~Refused(s)
    <2> DEFINE new == CHOOSE r \in Row : servers[r].state = "new"
    <2>1. /\ new \in Row
          /\ servers' = [servers EXCEPT ![new] = [state |-> "AVAILABLE", id |-> s]]
      BY <1>2 DEF Boot
    <2> HIDE DEF new
    <2>2. servers' \in [Row -> ServerRow]
      BY <2>1 DEF RowInv, ServerRow
    <2>3. ASSUME NEW r \in Row, r # new
          PROVE  servers'[r] = servers[r]
      BY <2>1, <2>3 DEF RowInv
    <2>4. servers'[new] = [state |-> "AVAILABLE", id |-> s]
      BY <2>1 DEF RowInv
    <2>5. ASSUME NEW r \in Row, r # new, ServerLive(r)'
          PROVE  ServerLive(r) /\ servers'[r].id # s
      BY <1>2, <2>3, <2>5 DEF Refused, ServerLive
    <2>6. OneLiveRowPerServer'
      BY <2>3, <2>4, <2>5 DEF RowInv, OneLiveRowPerServer
    <2> QED
      BY <1>0, <2>2, <2>6 DEF RowInv
  <1> QED
    BY <1>1, <1>2

\* Steps of the administrators' calls, apart from removeServer.
LEMMA ChooseKeepsRows ==
    ASSUME RowInv, NEW t \in Admin, Choose(t)
    PROVE  RowInv'
  <1>1. CASE \E r \in Row : RemoveServer(t, r)
    <2>1. PICK r \in Row : RemoveServer(t, r)
      BY <1>1
    <2>2. servers' = [q \in Row |-> IF q \in {r}
                         THEN [servers[q] EXCEPT !.state = "deleted"] ELSE servers[q]]
      BY <2>1 DEF RemoveServer, RowInv
    <2>3. unreachable' \subseteq Row
      BY <2>1 DEF RemoveServer, RowInv
    <2> QED
      BY <2>2, <2>3, FewerLiveRows
  <1>2. ASSUME NEW op, NEW new, Starts(t, op, new)
        PROVE  UNCHANGED <<servers, unreachable>>
    BY <1>2 DEF Starts
  <1>3. CASE RegisterAppVersion(t) \/ StopApp(t) \/ RemoveApp(t)
    BY <1>2, <1>3, OthersKeepRows DEF RegisterAppVersion, StopApp, RemoveApp, EveryVersion
  <1>4. CASE UpdateApp(t) \/ PauseApp(t) \/ ResumeApp(t)
    <2>1. ASSUME NEW row, SaveApp(t, row)
          PROVE  UNCHANGED <<servers, unreachable>>
      BY <2>1 DEF SaveApp
    <2>2. EndInVain(t) => UNCHANGED <<servers, unreachable>>
      BY DEF EndInVain, database
    <2> QED
      BY <1>4, <2>1, <2>2, OthersKeepRows DEF UpdateApp, PauseApp, ResumeApp
  <1>5. CASE \E v \in Version : \/ SetVersion(t, v) \/ StopAppVersion(t, v)
                               \/ RemoveAppVersion(t, v) \/ Restart(t, v)
    BY <1>2, <1>5, OthersKeepRows
       DEF SetVersion, SaveApp, StopAppVersion, RemoveAppVersion, Restart
  <1>6. CASE \E v, initial, max : AlterCapacity(t, v, initial, max)
    BY <1>2, <1>6, OthersKeepRows DEF AlterCapacity
  <1>7. CASE \E v, op, n : PublishAppVersion(t, op, v, n)
    BY <1>2, <1>7, OthersKeepRows DEF PublishAppVersion
  <1>8. CASE \E mode, old, new, n : Upgrade(t, mode, old, new, n)
    BY <1>2, <1>8, OthersKeepRows DEF Upgrade
  <1>9. CASE \E i \in Instance : StopInstance(t, i) \/ RestartInstance(t, i)
    BY <1>2, <1>9, OthersKeepRows DEF StopInstance, RestartInstance, database
  <1> QED
    BY <1>1, <1>3, <1>4, <1>5, <1>6, <1>7, <1>8, <1>9 DEF Choose

\* The console's calls write no rows of servers.
LEMMA ContinueKeepsRows ==
    ASSUME NEW t, Continue(t)
    PROVE  UNCHANGED <<servers, unreachable>>
  BY DEF Continue, Deploy, SaveAppInstance, Published, Enlarged, EndInVain, NewVersionRuns,
     SwitchDefault, Unregister, RestartNext, Undeploy, NextVersion, FinishUpgrade, FinishStop, FinishRemove, database

\* The inspector marks rows of servers as stopped, and gives no server a second one.
LEMMA InspectKeepsRows ==
    ASSUME RowInv, Inspect
    PROVE  RowInv'
  <1>1. CASE \E r \in Row : EchoFails(r)
    BY <1>1 DEF EchoFails, database, RowInv, OneLiveRowPerServer, ServerLive
  <1>2. CASE MarkServers
    <2> DEFINE gone == {r \in unreachable : ServerExists(r)}
    <2>1. gone \in SUBSET Row
      BY DEF RowInv
    <2>2. servers' = [r \in Row |-> IF r \in gone
                         THEN [servers[r] EXCEPT !.state = "STOPED"] ELSE servers[r]]
      BY <1>2 DEF MarkServers
    <2>3. unreachable' \subseteq Row
      BY <1>2 DEF MarkServers
    <2> HIDE DEF gone
    <2> QED
      BY <2>1, <2>2, <2>3, FewerLiveRows
  <1>3. CASE UNCHANGED <<servers, unreachable>>
    BY <1>3, OthersKeepRows
  <1> QED
    BY <1>1, <1>2, <1>3 DEF Inspect, CheckStopedServer, CheckStopedVersion, CountInstances,
       StopVersions, CheckAppState, database, console

\* A server that ends takes its row out of use; one that crashes leaves it.
LEMMA ServersKeepRows ==
    ASSUME RowInv, NEW s \in Server, Shutdown(s) \/ Exit(s) \/ Crash(s)
    PROVE  RowInv'
  <1>1. CASE Shutdown(s)
    <2>1. unreachable' = unreachable
      BY <1>1 DEF Shutdown, console
    <2>2. CASE s \in registered
      <3> DEFINE rows == {r \in Row : ServerExists(r) /\ servers[r].id = s}
      <3>1. servers' = [r \in Row |-> IF r \in rows
                           THEN [servers[r] EXCEPT !.state = "deleted"] ELSE servers[r]]
        BY <1>1, <2>2 DEF Shutdown
      <3>2. rows \in SUBSET Row /\ unreachable' \subseteq Row
        BY <2>1 DEF RowInv
      <3> HIDE DEF rows
      <3> QED
        BY <3>1, <3>2, FewerLiveRows
    <2>3. CASE s \notin registered
      BY <1>1, <2>1, <2>3, OthersKeepRows DEF Shutdown
    <2> QED
      BY <2>2, <2>3
  <1>2. CASE Exit(s) \/ Crash(s)
    BY <1>2, OthersKeepRows DEF Exit, Crash, Ends, database, console
  <1> QED
    BY <1>1, <1>2

\* RowInv is inductive.
THEOREM RowsInvariant == Spec => []RowInv
  <1>1. Init => RowInv
    BY LifecycleAssumption DEF Init, RowInv, ServerRow, OneLiveRowPerServer, ServerLive
  <1>2. RowInv /\ [Next]_vars => RowInv'
    <2> SUFFICES ASSUME RowInv, [Next]_vars PROVE RowInv'
      OBVIOUS
    <2>1. CASE \E s \in Server : Boot(s)
      BY <2>1, BootKeepsRows
    <2>2. CASE \E s \in Server : Shutdown(s) \/ Exit(s) \/ Crash(s)
      BY <2>2, ServersKeepRows
    <2>3. CASE \E t \in Admin : Open(t)
      BY <2>3, OthersKeepRows DEF Open, database
    <2>4. CASE \E t \in Admin : Choose(t)
      BY <2>4, ChooseKeepsRows
    <2>5. CASE \E t \in Admin \cup {Inspector} : Continue(t)
      BY <2>5, ContinueKeepsRows, OthersKeepRows
    <2>6. CASE Inspect
      BY <2>6, InspectKeepsRows
    <2>7. CASE UNCHANGED vars
      BY <2>7, OthersKeepRows DEF vars
    <2> QED
      BY <2>1, <2>2, <2>3, <2>4, <2>5, <2>6, <2>7 DEF Next
  <1> QED
    BY <1>1, <1>2, PTL DEF Spec

\* A configured server id never has two rows that a deployment may choose, however
\* its processes crash, restart, are inspected or removed.
THEOREM OneLiveRow == Spec => []OneLiveRowPerServer
  <1>1. RowInv => OneLiveRowPerServer
    BY DEF RowInv
  <1> QED
    BY <1>1, RowsInvariant, PTL

-----------------------------------------------------------------------------
(* Type correctness. *)

Threads == Admin \cup {Inspector}

\* The instances that were recorded for a version: finitely many, so that the running
\* ones of a version can be counted.
Recorded == {i \in Instance : instances[i].version # NoVersion}

\* The rows of the database, the processes, and the transactions: a transaction that
\* has deployed an instance still owes its row.
DataInv ==
    /\ app \in AppRow
    /\ versions \in [Version -> VersionState]
    /\ instances \in [Instance -> InstanceRow]
    /\ cached \subseteq Version
    /\ IsFiniteSet(Recorded)

ProcessInv ==
    /\ process \in [Server -> {"down", "up", "stopping"}]
    /\ registered \subseteq Server
    /\ deployedOn \in [Instance -> Server \cup {NoServer}]
    /\ serving \subseteq Instance /\ reporting \subseteq Instance

Owing(k) == k.pc = "record" => k.left > 0

TaskInv ==
    /\ task \in [Threads -> TaskState]
    /\ \A t \in Threads : Owing(task[t])

CallsInv == calls \in [Admin -> Seq(SUBSET Operation)] /\ boots \in 0 .. MaxBoots

TypeInv == DataInv /\ ProcessInv /\ TaskInv /\ CallsInv

\* Nothing that a part speaks about changes.
LEMMA KeepsData ==
    ASSUME DataInv, UNCHANGED <<app, versions, instances, cached>>
    PROVE  DataInv'
  BY DEF DataInv, Recorded

\* The part about processes speaks of nothing else,
LEMMA KeepsProcesses ==
    ASSUME ProcessInv, UNCHANGED running
    PROVE  ProcessInv'
  BY DEF ProcessInv, running

\* nor the one about transactions,
LEMMA KeepsTasks ==
    ASSUME TaskInv, UNCHANGED task
    PROVE  TaskInv'
  BY DEF TaskInv

\* nor the one about calls.
LEMMA KeepsCalls ==
    ASSUME CallsInv, UNCHANGED <<calls, boots>>
    PROVE  CallsInv'
  BY DEF CallsInv

\* The task of a thread becomes another one.
LEMMA BecomesTask ==
    ASSUME TaskInv, NEW t \in Threads, NEW k \in TaskState, Owing(k), Becomes(t, k)
    PROVE  TaskInv'
  <1>1. task' \in [Threads -> TaskState]
    BY DEF TaskInv, Becomes
  <1>2. ASSUME NEW u \in Threads
        PROVE  task'[u] = IF u = t THEN k ELSE task[u]
    BY DEF TaskInv, Becomes
  <1>3. \A u \in Threads : Owing(task'[u])
    BY <1>2 DEF TaskInv
  <1> QED
    BY <1>1, <1>3 DEF TaskInv

\* A thread without a transaction owes nothing.
LEMMA IdleTaskType == IdleTask \in TaskState /\ Owing(IdleTask)
  BY DEF IdleTask, TaskState, Owing, AppRow, NewApp, Operation, VersionState

\* A transaction that is rolled back leaves an idle thread.
LEMMA RollbackTask ==
    ASSUME TaskInv, NEW t \in Threads, Rollback(t)
    PROVE  TaskInv'
  BY IdleTaskType, BecomesTask DEF Rollback

\* The rows of the instances are written, but none gets a version.
LEMMA RowsWritten ==
    ASSUME DataInv, app' \in AppRow, versions' \in [Version -> VersionState],
           cached' \subseteq Version, instances' \in [Instance -> InstanceRow],
           \A i \in Instance : instances'[i].version = instances[i].version
    PROVE  DataInv'
  <1>1. Recorded' = Recorded
    BY DEF Recorded
  <1> QED
    BY <1>1 DEF DataInv

\* Marking instances as stopped keeps their versions.
LEMMA StopedRows ==
    ASSUME instances \in [Instance -> InstanceRow], NEW gone
    PROVE  /\ InstancesStoped(gone) \in [Instance -> InstanceRow]
           /\ \A i \in Instance : InstancesStoped(gone)[i].version = instances[i].version
  BY DEF InstancesStoped, InstanceRow

\* Rows of versions are written with states.
LEMMA WrittenVersions ==
    ASSUME versions \in [Version -> VersionState], NEW set, NEW state \in VersionState
    PROVE  VersionsWritten(set, state) \in [Version -> VersionState]
  BY DEF VersionsWritten

\* The row of the application is written with a row, if it is still there.
LEMMA WrittenApp ==
    ASSUME app \in AppRow, NEW row \in AppRow, WriteApp(row)
    PROVE  app' \in AppRow
  BY DEF WriteApp

\* Steps of the application servers.
LEMMA ServersKeepType ==
    ASSUME TypeInv, NEW s \in Server, Boot(s) \/ Shutdown(s) \/ Exit(s) \/ Crash(s)
    PROVE  TypeInv'
  <1>1. CASE Boot(s)
    <2>1. UNCHANGED <<app, versions, instances, cached>> /\ UNCHANGED <<task, calls>>
      BY <1>1 DEF Boot
    <2>2. ProcessInv'
      BY <1>1 DEF Boot, TypeInv, ProcessInv
    <2>3. CallsInv'
      <3>1. boots \in 0 .. MaxBoots /\ boots < MaxBoots /\ boots' = boots + 1
        BY <1>1 DEF Boot, TypeInv, CallsInv
      <3>2. boots' \in 0 .. MaxBoots
        BY <3>1, LifecycleAssumption
      <3> QED
        BY <2>1, <3>2 DEF TypeInv, CallsInv
    <2> QED
      BY <2>1, <2>2, <2>3, KeepsData, KeepsTasks DEF TypeInv
  <1>2. CASE Shutdown(s)
    <2>1. /\ UNCHANGED <<app, versions, cached>> /\ UNCHANGED <<task, calls, boots>>
          /\ UNCHANGED <<registered, deployedOn, serving, reporting>>
          /\ process' = [process EXCEPT ![s] = "stopping"]
      BY <1>2 DEF Shutdown, console
    <2>2. ProcessInv'
      BY <2>1 DEF TypeInv, ProcessInv
    <2>3. DataInv'
      <3>1. CASE s \in registered
        <4>1. PICK gone : instances' = InstancesStoped(gone)
          BY <1>2, <3>1 DEF Shutdown
        <4>2. DataInv
          BY DEF TypeInv
        <4>3. /\ instances' \in [Instance -> InstanceRow]
              /\ \A i \in Instance : instances'[i].version = instances[i].version
          BY <4>1, <4>2, StopedRows DEF DataInv
        <4> QED
          BY <2>1, <4>2, <4>3, RowsWritten DEF DataInv
      <3>2. CASE s \notin registered
        BY <1>2, <2>1, <3>2, KeepsData DEF Shutdown, TypeInv
      <3> QED
        BY <3>1, <3>2
    <2> QED
      BY <2>1, <2>2, <2>3, KeepsTasks, KeepsCalls DEF TypeInv
  <1>3. CASE Exit(s) \/ Crash(s)
    <2>1. Ends(s)
      BY <1>3 DEF Exit, Crash
    <2>2. /\ UNCHANGED <<app, versions, instances, cached>>
          /\ UNCHANGED <<task, calls, boots>>
      BY <2>1 DEF Ends, database, console
    <2>3. process' \in [Server -> {"down", "up", "stopping"}] /\ registered' \subseteq Server
      BY <2>1 DEF Ends, TypeInv, ProcessInv
    <2>4. deployedOn' \in [Instance -> Server \cup {NoServer}]
      BY <2>1 DEF Ends, TypeInv, ProcessInv
    <2>5. serving' \subseteq Instance /\ reporting' \subseteq Instance
      BY <2>1 DEF Ends, TypeInv, ProcessInv
    <2> QED
      BY <2>2, <2>3, <2>4, <2>5, KeepsData, KeepsTasks, KeepsCalls DEF TypeInv, ProcessInv
  <1> QED
    BY <1>1, <1>2, <1>3

\* A thread is called: the operation is one of those its script offers.
LEMMA OpenKeepsType ==
    ASSUME TypeInv, NEW t \in Admin, Open(t)
    PROVE  TypeInv'
  <1>0. t \in Threads
    BY DEF Threads
  <1>1. /\ UNCHANGED <<app, versions, instances, cached>> /\ UNCHANGED running
        /\ boots' = boots /\ calls[t] # <<>> /\ calls' = [calls EXCEPT ![t] = Tail(@)]
    BY DEF Open, database
  <1>2. calls[t] \in Seq(SUBSET Operation)
    BY DEF TypeInv, CallsInv
  <1>3. Head(calls[t]) \in SUBSET Operation /\ Tail(calls[t]) \in Seq(SUBSET Operation)
    BY <1>1, <1>2
  <1>4. CallsInv'
    BY <1>1, <1>3 DEF TypeInv, CallsInv
  <1>5. PICK op \in Head(calls[t]) :
           Becomes(t, [IdleTask EXCEPT !.pc = "open", !.op = op, !.caller = app])
    BY DEF Open
  <1> DEFINE k == [IdleTask EXCEPT !.pc = "open", !.op = op, !.caller = app]
  <1>6. op \in Operation /\ app \in AppRow
    BY <1>3 DEF TypeInv, DataInv
  <1>7. k \in TaskState /\ Owing(k)
    BY <1>6, IdleTaskType DEF TaskState, Owing, IdleTask
  <1>8. TaskInv /\ Becomes(t, k)
    BY <1>5 DEF TypeInv
  <1> HIDE DEF k
  <1>9. TaskInv'
    BY <1>0, <1>7, <1>8, BecomesTask
  <1> QED
    BY <1>1, <1>4, <1>9, KeepsData, KeepsProcesses DEF TypeInv

\* A call that only writes the row of the application.
LEMMA SaveAppKeepsType ==
    ASSUME TypeInv, NEW t \in Threads, NEW row \in AppRow, SaveApp(t, row)
    PROVE  TypeInv'
  <1>1. WriteApp(row) /\ Rollback(t) /\ DataInv /\ TaskInv
    BY DEF SaveApp, TypeInv
  <1>2. UNCHANGED <<versions, instances, cached>> /\ UNCHANGED running /\ UNCHANGED <<calls, boots>>
    BY DEF SaveApp
  <1>3. app' \in AppRow
    BY <1>1, WrittenApp DEF DataInv
  <1>4. DataInv'
    BY <1>1, <1>2, <1>3 DEF DataInv, Recorded
  <1> QED
    BY <1>1, <1>2, <1>4, RollbackTask, KeepsProcesses, KeepsCalls DEF TypeInv

\* A call that ends in an exception before anything was written only ends its
\* transaction.
LEMMA EndInVainKeepsType ==
    ASSUME TypeInv, NEW t \in Threads, EndInVain(t)
    PROVE  TypeInv'
  <1>1. /\ UNCHANGED <<app, versions, instances, cached>> /\ UNCHANGED running
        /\ UNCHANGED <<calls, boots>> /\ Rollback(t)
    BY DEF EndInVain, database
  <1> QED
    BY <1>1, RollbackTask, KeepsData, KeepsProcesses, KeepsCalls DEF TypeInv

\* A call that goes on in further steps.
LEMMA StartsKeepsType ==
    ASSUME TypeInv, NEW t \in Threads, NEW op, NEW k \in TaskState, k.pc # "record",
           Starts(t, op, k), cached' \subseteq Version
    PROVE  TypeInv'
  <1> DEFINE l == [k EXCEPT !.loaded = app]
  <1>1. /\ UNCHANGED <<app, versions, instances>> /\ UNCHANGED running
        /\ UNCHANGED <<calls, boots>> /\ Becomes(t, l)
    BY DEF Starts
  <1>2. l \in TaskState /\ Owing(l)
    BY DEF TypeInv, DataInv, TaskState, Owing
  <1>3. TaskInv /\ DataInv
    BY DEF TypeInv
  <1> HIDE DEF l
  <1>4. TaskInv'
    BY <1>1, <1>2, <1>3, BecomesTask
  <1>5. DataInv'
    BY <1>1, <1>3 DEF DataInv, Recorded
  <1> QED
    BY <1>1, <1>4, <1>5, KeepsProcesses, KeepsCalls DEF TypeInv

\* The running instances of a version are instances.
LEMMA RunningType == ASSUME NEW v PROVE RunningOf(v) \in SUBSET Instance
  BY DEF RunningOf

\* Of a version only finitely many instances run.
LEMMA RunningCount ==
    ASSUME DataInv, NEW v \in Version
    PROVE  Cardinality(RunningOf(v)) \in Nat
  <1>1. RunningOf(v) \in SUBSET Recorded
    BY LifecycleAssumption DEF RunningOf, Recorded
  <1>2. IsFiniteSet(RunningOf(v))
    BY <1>1, FS_Subset DEF DataInv
  <1> QED
    BY <1>2, FS_CardinalityType

\* Calls of one step.
LEMMA OneStepKeepsType ==
    ASSUME TypeInv, NEW t \in Admin,
           \/ RegisterAppVersion(t) \/ UpdateApp(t) \/ PauseApp(t) \/ ResumeApp(t)
           \/ \E v \in Version : SetVersion(t, v)
           \/ \E i \in Instance : RestartInstance(t, i)
           \/ \E r \in Row : RemoveServer(t, r)
    PROVE  TypeInv'
  <1>0. /\ t \in Threads /\ DataInv /\ TaskInv
        /\ task[t] \in TaskState /\ task[t].caller \in AppRow /\ app \in AppRow
    BY DEF Threads, TypeInv, TaskInv, TaskState, DataInv
  <1>1. CASE RegisterAppVersion(t)
    <2> DEFINE v == CHOOSE v \in Version : versions[v] = "new"
    <2>1. v \in Version
      BY <1>1 DEF RegisterAppVersion
    <2>2. /\ versions' = [versions EXCEPT ![v] = "REGISTERED"]
          /\ app' = app \/ app' = [app EXCEPT !.version = v]
          /\ Rollback(t) /\ UNCHANGED <<instances, cached>> /\ UNCHANGED running
          /\ UNCHANGED <<calls, boots>>
      BY <1>1 DEF RegisterAppVersion
    <2> HIDE DEF v
    <2>3. versions' \in [Version -> VersionState] /\ app' \in AppRow
      BY <1>0, <2>1, <2>2 DEF DataInv, VersionState, AppRow
    <2>4. DataInv'
      BY <1>0, <2>2, <2>3 DEF DataInv, Recorded
    <2> QED
      BY <1>0, <2>2, <2>4, RollbackTask, KeepsProcesses, KeepsCalls DEF TypeInv
  <1>2. CASE UpdateApp(t)
    BY <1>0, <1>2, SaveAppKeepsType DEF UpdateApp
  <1>3. CASE PauseApp(t)
    <2>1. SaveApp(t, [task[t].caller EXCEPT !.state = "PAUSED"]) \/ EndInVain(t)
      BY <1>3 DEF PauseApp
    <2>2. [task[t].caller EXCEPT !.state = "PAUSED"] \in AppRow
      BY <1>0 DEF AppRow
    <2> QED
      BY <1>0, <2>1, <2>2, SaveAppKeepsType, EndInVainKeepsType
  <1>4. CASE ResumeApp(t)
    <2>1. [task[t].caller EXCEPT !.state = "RUNNING"] \in AppRow
      BY <1>0 DEF AppRow
    <2> QED
      BY <1>0, <1>4, <2>1, SaveAppKeepsType DEF ResumeApp
  <1>5. CASE \E v \in Version : SetVersion(t, v)
    <2>1. PICK v \in Version : SetVersion(t, v)
      BY <1>5
    <2>2. [task[t].caller EXCEPT !.version = v] \in AppRow
      BY <1>0 DEF AppRow
    <2> QED
      BY <1>0, <2>1, <2>2, SaveAppKeepsType DEF SetVersion
  <1>6. CASE \E i \in Instance : RestartInstance(t, i)
    <2>1. PICK i \in Instance : RestartInstance(t, i)
      BY <1>6
    <2>2. /\ UNCHANGED <<app, versions, instances, cached>>
          /\ UNCHANGED <<process, registered, deployedOn, reporting>>
          /\ UNCHANGED <<calls, boots>> /\ Rollback(t) /\ serving' \subseteq serving
      BY <2>1 DEF RestartInstance, Restarted, database
    <2>3. ProcessInv'
      BY <2>2 DEF TypeInv, ProcessInv
    <2> QED
      BY <1>0, <2>2, <2>3, RollbackTask, KeepsData, KeepsCalls DEF TypeInv
  <1>7. CASE \E r \in Row : RemoveServer(t, r)
    <2>1. PICK r \in Row : RemoveServer(t, r)
      BY <1>7
    <2>2. /\ instances' = [i \in Instance |-> IF instances[i].server = r
                        THEN [instances[i] EXCEPT !.state = "deleted"] ELSE instances[i]]
          /\ UNCHANGED <<app, versions, cached>> /\ UNCHANGED running
          /\ UNCHANGED <<calls, boots>> /\ Rollback(t)
      BY <2>1 DEF RemoveServer
    <2>3. /\ instances' \in [Instance -> InstanceRow]
          /\ \A i \in Instance : instances'[i].version = instances[i].version
      BY <1>0, <2>2 DEF DataInv, InstanceRow
    <2>4. DataInv'
      BY <1>0, <2>2, <2>3, RowsWritten DEF DataInv
    <2> QED
      BY <1>0, <2>2, <2>4, RollbackTask, KeepsProcesses, KeepsCalls DEF TypeInv
  <1> QED
    BY <1>1, <1>2, <1>3, <1>4, <1>5, <1>6, <1>7

\* Calls that publish, upgrade, stop, remove or restart begin.
LEMMA BeginningKeepsType ==
    ASSUME TypeInv, NEW t \in Admin,
           \/ StopApp(t) \/ RemoveApp(t)
           \/ \E v \in Version : StopAppVersion(t, v) \/ RemoveAppVersion(t, v) \/ Restart(t, v)
           \/ \E v \in Version, n \in InitialServers \cup {1} : \E op : PublishAppVersion(t, op, v, n)
           \/ \E old, new \in Version, n \in InitialServers : \E mode : Upgrade(t, mode, old, new, n)
           \/ \E i \in Instance : StopInstance(t, i)
           \/ \E v \in Version, initial, max \in InitialServers : AlterCapacity(t, v, initial, max)
    PROVE  TypeInv'
  <1>0. /\ t \in Threads /\ DataInv /\ cached \subseteq Version
        /\ task[t] \in TaskState /\ versions \in [Version -> VersionState]
    BY DEF Threads, TypeInv, TaskInv, DataInv
  <1>1. CASE StopApp(t) \/ RemoveApp(t)
    <2> DEFINE k == [task[t] EXCEPT !.pc = "retire",
                         !.queue = {v \in Version : VersionExists(v)}]
    <2>1. PICK op : Starts(t, op, k) /\ UNCHANGED cached
      BY <1>1 DEF StopApp, RemoveApp, EveryVersion
    <2>2. k \in TaskState /\ k.pc # "record"
      BY <1>0 DEF TaskState
    <2> HIDE DEF k
    <2> QED
      BY <1>0, <2>1, <2>2, StartsKeepsType
  <1>2. CASE \E v \in Version : StopAppVersion(t, v) \/ RemoveAppVersion(t, v)
    <2>1. PICK v \in Version : StopAppVersion(t, v) \/ RemoveAppVersion(t, v)
      BY <1>2
    <2> DEFINE k == [task[t] EXCEPT !.pc = "retire", !.queue = {v}]
    <2>2. PICK op : Starts(t, op, k) /\ UNCHANGED cached
      BY <2>1 DEF StopAppVersion, RemoveAppVersion
    <2>3. k \in TaskState /\ k.pc # "record"
      BY <1>0 DEF TaskState
    <2> HIDE DEF k
    <2> QED
      BY <1>0, <2>2, <2>3, StartsKeepsType
  <1>3. CASE \E v \in Version : Restart(t, v)
    <2>1. PICK v \in Version : Restart(t, v)
      BY <1>3
    <2> DEFINE k == [task[t] EXCEPT !.pc = "retire", !.todo = RunningOf(v)]
    <2>2. Starts(t, "restart", k) /\ UNCHANGED cached
      BY <2>1 DEF Restart
    <2>3. k \in TaskState /\ k.pc # "record"
      BY <1>0, RunningType DEF TaskState
    <2> HIDE DEF k
    <2> QED
      BY <1>0, <2>2, <2>3, StartsKeepsType
  <1>4. CASE \E v \in Version, n \in InitialServers \cup {1} : \E op : PublishAppVersion(t, op, v, n)
    <2>1. PICK v \in Version, n \in InitialServers \cup {1} : \E op : PublishAppVersion(t, op, v, n)
      BY <1>4
    <2> DEFINE k == [task[t] EXCEPT !.pc = "publish", !.version = v,
                         !.loadedState = versions[v], !.left = n]
    <2>2. PICK op : Starts(t, op, k) /\ cached' \subseteq Version
      BY <1>0, <2>1 DEF PublishAppVersion
    <2>3. n \in Nat /\ versions[v] \in VersionState
      BY <1>0, LifecycleAssumption
    <2>4. k \in TaskState /\ k.pc # "record"
      BY <1>0, <2>3 DEF TaskState
    <2> HIDE DEF k
    <2> QED
      BY <1>0, <2>2, <2>4, StartsKeepsType
  <1>5. CASE \E old, new \in Version, n \in InitialServers : \E mode : Upgrade(t, mode, old, new, n)
    <2>1. PICK old \in Version, new \in Version, n \in InitialServers :
             \E mode : Upgrade(t, mode, old, new, n)
      BY <1>5
    <2> DEFINE k == [task[t] EXCEPT !.pc = "publish", !.version = new, !.old = old,
                         !.loadedState = versions[new], !.left = n]
    <2>2. PICK mode : Starts(t, mode, k) /\ cached' \subseteq Version
      BY <1>0, <2>1 DEF Upgrade
    <2>3. k \in TaskState /\ k.pc # "record"
      BY <1>0, LifecycleAssumption DEF TaskState
    <2> HIDE DEF k
    <2> QED
      BY <1>0, <2>2, <2>3, StartsKeepsType
  <1>6. CASE \E i \in Instance : StopInstance(t, i)
    <2>1. PICK i \in Instance : StopInstance(t, i)
      BY <1>6
    <2> DEFINE k == [task[t] EXCEPT !.pc = "retire", !.todo = {i}]
    <2>2. Starts(t, "stopInstance", k) /\ UNCHANGED cached
      BY <2>1 DEF StopInstance
    <2>3. k \in TaskState /\ k.pc # "record"
      BY <1>0 DEF TaskState
    <2> HIDE DEF k
    <2> QED
      BY <1>0, <2>2, <2>3, StartsKeepsType
  <1>7. CASE \E v \in Version, initial, max \in InitialServers : AlterCapacity(t, v, initial, max)
    <2>1. PICK v \in Version, initial \in InitialServers, max \in InitialServers :
             AlterCapacity(t, v, initial, max)
      BY <1>7
    <2> DEFINE count == Cardinality(RunningOf(v))
               more  == [task[t] EXCEPT !.pc = "publish", !.version = v, !.left = initial - count]
    <2>2. count \in Nat /\ initial \in Nat
      BY <1>0, RunningCount, LifecycleAssumption
    <2>3. CASE count < initial /\ Starts(t, "alterCapacity", more) /\ UNCHANGED cached
      <3>1. initial - count \in Nat
        BY <2>2, <2>3
      <3> HIDE DEF count
      <3>2. more \in TaskState /\ more.pc # "record"
        BY <1>0, <3>1 DEF TaskState
      <3> HIDE DEF more
      <3> QED
        BY <1>0, <2>3, <3>2, StartsKeepsType
    <2>4. ASSUME NEW some \in SUBSET RunningOf(v),
                 Starts(t, "alterCapacity", [task[t] EXCEPT !.pc = "retire", !.todo = some]),
                 UNCHANGED cached
          PROVE  TypeInv'
      <3> DEFINE k == [task[t] EXCEPT !.pc = "retire", !.todo = some]
      <3>1. some \in SUBSET Instance
        BY RunningType
      <3>2. k \in TaskState /\ k.pc # "record"
        BY <1>0, <3>1 DEF TaskState
      <3>3. Starts(t, "alterCapacity", k)
        BY <2>4
      <3> HIDE DEF k
      <3> QED
        BY <1>0, <2>4, <3>2, <3>3, StartsKeepsType
    <2> QED
      BY <2>1, <2>3, <2>4 DEF AlterCapacity, Ext!kSubset
  <1> QED
    BY <1>1, <1>2, <1>3, <1>4, <1>5, <1>6, <1>7

\* What an administrator can begin.
LEMMA ChooseKeepsType ==
    ASSUME TypeInv, NEW t \in Admin, Choose(t)
    PROVE  TypeInv'
  <1>1. CASE \/ RegisterAppVersion(t) \/ UpdateApp(t) \/ PauseApp(t) \/ ResumeApp(t)
             \/ \E v \in Version : SetVersion(t, v)
             \/ \E i \in Instance : RestartInstance(t, i)
             \/ \E r \in Row : RemoveServer(t, r)
    BY <1>1, OneStepKeepsType
  <1>2. CASE \E v \in Version, n \in InitialServers : PublishAppVersion(t, "publish", v, n)
    BY <1>2, BeginningKeepsType
  <1>3. CASE \E v \in Version : PublishAppVersion(t, "publishTest", v, 1)
    BY <1>3, BeginningKeepsType
  <1>4. CASE \E mode \in UpdateMode, old, new \in Version, n \in InitialServers :
                Upgrade(t, mode, old, new, n)
    BY <1>4, BeginningKeepsType
  <1>5. CASE \/ StopApp(t) \/ RemoveApp(t)
             \/ \E v \in Version : StopAppVersion(t, v) \/ RemoveAppVersion(t, v) \/ Restart(t, v)
             \/ \E i \in Instance : StopInstance(t, i)
             \/ \E v \in Version, initial, max \in InitialServers : AlterCapacity(t, v, initial, max)
    BY <1>5, BeginningKeepsType
  <1> QED
    BY <1>1, <1>2, <1>3, <1>4, <1>5 DEF Choose

\* The instances that a process runs after it was asked to change one of them.
LEMMA SmallerSets ==
    ASSUME ProcessInv, UNCHANGED <<process, registered, deployedOn>>,
           serving' \subseteq serving, reporting' \subseteq reporting
    PROVE  ProcessInv'
  BY DEF ProcessInv

\* Steps that only end or move a transaction.
LEMMA OnlyTaskMoves ==
    ASSUME TypeInv, NEW t \in Threads, NEW k \in TaskState, Owing(k), Becomes(t, k),
           UNCHANGED <<app, versions, instances, cached>>, UNCHANGED running,
           UNCHANGED <<calls, boots>>
    PROVE  TypeInv'
  <1>1. TaskInv'
    BY BecomesTask DEF TypeInv
  <1> QED
    BY <1>1, KeepsData, KeepsProcesses, KeepsCalls DEF TypeInv

\* A step that only ends a transaction.
LEMMA OnlyRollback ==
    ASSUME TypeInv, NEW t \in Threads, Rollback(t),
           UNCHANGED <<app, versions, instances, cached>>, UNCHANGED running,
           UNCHANGED <<calls, boots>>
    PROVE  TypeInv'
  BY IdleTaskType, OnlyTaskMoves DEF Rollback

\* Publishing: what was deployed is recorded by a step of its own.
LEMMA PublishingKeepsType ==
    ASSUME TypeInv, RowInv, NEW t \in Threads,
           Deploy(t) \/ SaveAppInstance(t) \/ Published(t) \/ Enlarged(t)
    PROVE  TypeInv'
  <1>0. /\ DataInv /\ TaskInv /\ task[t] \in TaskState /\ Owing(task[t])
        /\ app \in AppRow /\ versions \in [Version -> VersionState]
    BY DEF TypeInv, TaskInv, DataInv
  <1>1. CASE Deploy(t)
    <2>1. /\ UNCHANGED <<app, versions, instances, cached>> /\ UNCHANGED <<process, registered>>
          /\ UNCHANGED <<calls, boots>> /\ task[t].left > 0
      BY <1>1 DEF Deploy, ToPublish, database
    <2>2. CASE Rollback(t) /\ UNCHANGED <<deployedOn, serving, reporting>>
      BY <2>1, <2>2, OnlyRollback DEF running
    <2>3. CASE ~(Rollback(t) /\ UNCHANGED <<deployedOn, serving, reporting>>)
      <3> DEFINE i == CHOOSE i \in Unused : TRUE
                 k(r) == [task[t] EXCEPT !.pc = "record", !.fresh = i, !.row = r]
      <3>1. PICK r \in Candidates : /\ Unused # {} /\ Deployed(servers[r].id, i)
                                    /\ Becomes(t, k(r)) /\ r \in Row
                                    /\ ServerLive(r) /\ Answers(r)
        BY <1>1, <2>3 DEF Deploy, Candidates
      <3>2. i \in Instance
        BY <3>1 DEF Unused
      <3> HIDE DEF i
      <3>3. k(r) \in TaskState
        BY <1>0, <3>1, <3>2 DEF TaskState
      <3>4. Owing(k(r))
        BY <1>0, <2>1 DEF Owing, TaskState
      <3>5. TaskInv'
        BY <1>0, <3>1, <3>3, <3>4, BecomesTask
      <3>6. servers[r].id \in Server \cup {NoServer}
        BY <3>1 DEF RowInv, ServerRow
      <3>7. ProcessInv'
        BY <2>1, <3>1, <3>2, <3>6 DEF TypeInv, ProcessInv, Deployed
      <3> QED
        BY <2>1, <3>5, <3>7, KeepsData, KeepsCalls DEF TypeInv
    <2> QED
      BY <2>2, <2>3
  <1>2. CASE SaveAppInstance(t)
    <2> DEFINE row == [state |-> "RUNNING", server |-> task[t].row,
                       version |-> task[t].version]
               k   == [task[t] EXCEPT !.pc = "publish", !.left = @ - 1,
                                      !.fresh = NoInstance, !.row = NoRow]
    <2>1. /\ instances' = [instances EXCEPT ![task[t].fresh] = row]
          /\ Becomes(t, k) /\ UNCHANGED <<app, versions, cached>> /\ UNCHANGED running
          /\ UNCHANGED <<calls, boots>> /\ task[t].pc = "record"
      BY <1>2 DEF SaveAppInstance, At
    <2>2. row \in InstanceRow
      BY <1>0 DEF TaskState, InstanceRow
    <2>3. task[t].left - 1 \in Nat
      BY <1>0, <2>1 DEF Owing, TaskState
    <2>4. k \in TaskState /\ Owing(k)
      BY <1>0, <2>3 DEF TaskState, Owing
    <2> HIDE DEF row, k
    <2>5. TaskInv'
      BY <1>0, <2>1, <2>4, BecomesTask
    <2>6. instances' \in [Instance -> InstanceRow]
      BY <1>0, <2>1, <2>2 DEF DataInv
    <2>7. ASSUME NEW i \in Instance, i # task[t].fresh
          PROVE  instances'[i] = instances[i]
      BY <1>0, <2>1, <2>7 DEF DataInv
    <2>8. Recorded' \in SUBSET (Recorded \cup {task[t].fresh})
      BY <2>7 DEF Recorded
    <2>9. IsFiniteSet(Recorded')
      <3>1. IsFiniteSet(Recorded \cup {task[t].fresh})
        BY <1>0, FS_AddElement DEF DataInv
      <3> QED
        BY <2>8, <3>1, FS_Subset
    <2>10. DataInv'
      BY <1>0, <2>1, <2>6, <2>9 DEF DataInv
    <2> QED
      BY <2>1, <2>5, <2>10, KeepsProcesses, KeepsCalls DEF TypeInv
  <1>3. CASE Published(t)
    <2>1. /\ versions' = PublishedVersions(t) /\ Rollback(t)
          /\ UNCHANGED <<instances, cached>> /\ UNCHANGED running /\ UNCHANGED <<calls, boots>>
      BY <1>3 DEF Published
    <2>2. versions' \in [Version -> VersionState]
      BY <1>0, <2>1, WrittenVersions DEF PublishedVersions, VersionState
    <2>3. PICK row \in AppRow : WriteApp(row)
      <3>1. task[t].caller \in AppRow /\ [task[t].loaded EXCEPT !.state = "RUNNING"] \in AppRow
        BY <1>0 DEF TaskState, AppRow
      <3> QED
        BY <1>3, <3>1 DEF Published
    <2>4. app' \in AppRow
      BY <1>0, <2>3, WrittenApp
    <2>5. DataInv'
      BY <1>0, <2>1, <2>2, <2>4 DEF DataInv, Recorded
    <2> QED
      BY <1>0, <2>1, <2>5, RollbackTask, KeepsProcesses, KeepsCalls DEF TypeInv
  <1>4. CASE Enlarged(t)
    BY <1>4, EndInVainKeepsType DEF Enlarged
  <1> QED
    BY <1>1, <1>2, <1>3, <1>4

\* The turns of an upgrade, and of the instances that are stopped, removed or restarted.
LEMMA RetiringKeepsType ==
    ASSUME TypeInv, NEW t \in Threads,
           \/ NewVersionRuns(t) \/ SwitchDefault(t)
           \/ \E i \in Instance : Unregister(t, i) \/ RestartNext(t, i) \/ Undeploy(t, i)
           \/ \E v \in Version : NextVersion(t, v)
    PROVE  TypeInv'
  <1>0. /\ DataInv /\ TaskInv /\ ProcessInv /\ task[t] \in TaskState
        /\ RunningOf(task[t].old) \in SUBSET Instance
    BY RunningType DEF TypeInv, TaskInv
  <1>1. CASE NewVersionRuns(t)
    <2> DEFINE k == [task[t] EXCEPT !.pc = "switch", !.todo = RunningOf(task[t].old)]
    <2>1. /\ UNCHANGED <<app, versions, instances, cached>> /\ UNCHANGED running
          /\ UNCHANGED <<calls, boots>> /\ Becomes(t, k)
      BY <1>1 DEF NewVersionRuns, database
    <2>2. k \in TaskState /\ Owing(k)
      BY <1>0 DEF TaskState, Owing
    <2> HIDE DEF k
    <2> QED
      BY <2>1, <2>2, OnlyTaskMoves
  <1>2. CASE SwitchDefault(t)
    <2> DEFINE some == IF task[t].op = "GRACEFUL" THEN RunningOf(task[t].old) ELSE {}
               k    == [task[t] EXCEPT !.pc = "retire", !.silence = some]
    <2>1. /\ UNCHANGED <<app, versions, instances, cached>> /\ UNCHANGED running
          /\ UNCHANGED <<calls, boots>> /\ (Becomes(t, k) \/ Rollback(t))
      BY <1>2 DEF SwitchDefault, database
    <2>2. some \in SUBSET Instance
      BY <1>0
    <2> HIDE DEF some
    <2>3. k \in TaskState /\ Owing(k)
      BY <1>0, <2>2 DEF TaskState, Owing
    <2> HIDE DEF k
    <2> QED
      BY <2>1, <2>3, OnlyTaskMoves, OnlyRollback
  <1>3. CASE \E i \in Instance : Unregister(t, i)
    <2>1. PICK i \in Instance : Unregister(t, i)
      BY <1>3
    <2> DEFINE k == [task[t] EXCEPT !.silence = @ \ {i}]
    <2>2. /\ UNCHANGED <<app, versions, instances, cached>> /\ UNCHANGED <<calls, boots>>
          /\ UNCHANGED <<process, registered, deployedOn, serving>>
          /\ task[t].pc = "retire" /\ (Becomes(t, k) \/ Rollback(t)) /\ reporting' \subseteq reporting
      BY <2>1 DEF Unregister, Unregistered, At, database
    <2>3. k \in TaskState /\ Owing(k)
      BY <1>0, <2>2 DEF TaskState, Owing
    <2> HIDE DEF k
    <2>4. TaskInv'
      BY <1>0, <2>2, <2>3, BecomesTask, RollbackTask
    <2>5. ProcessInv'
      BY <1>0, <2>2, SmallerSets
    <2> QED
      BY <2>2, <2>4, <2>5, KeepsData, KeepsCalls DEF TypeInv
  <1>4. CASE \E i \in Instance : RestartNext(t, i)
    <2>1. PICK i \in Instance : RestartNext(t, i)
      BY <1>4
    <2> DEFINE k == [task[t] EXCEPT !.todo = @ \ {i}]
    <2>2. /\ UNCHANGED <<app, versions, instances, cached>> /\ UNCHANGED <<calls, boots>>
          /\ UNCHANGED <<process, registered, deployedOn, reporting>>
          /\ task[t].pc = "retire" /\ (Becomes(t, k) \/ Rollback(t)) /\ serving' \subseteq serving
      BY <2>1 DEF RestartNext, Restarted, At, database
    <2>3. k \in TaskState /\ Owing(k)
      BY <1>0, <2>2 DEF TaskState, Owing
    <2> HIDE DEF k
    <2>4. TaskInv'
      BY <1>0, <2>2, <2>3, BecomesTask, RollbackTask
    <2>5. ProcessInv'
      BY <1>0, <2>2, SmallerSets
    <2> QED
      BY <2>2, <2>4, <2>5, KeepsData, KeepsCalls DEF TypeInv
  <1>5. CASE \E i \in Instance : Undeploy(t, i)
    <2>1. PICK i \in Instance : Undeploy(t, i)
      BY <1>5
    <2> DEFINE k == [task[t] EXCEPT !.todo = @ \ {i}, !.done = @ \cup {i}]
               l == [k EXCEPT !.done = task[t].done]
    <2>2. /\ UNCHANGED <<app, versions, instances, cached>> /\ UNCHANGED <<calls, boots>>
          /\ UNCHANGED <<process, registered, deployedOn>>
          /\ task[t].pc = "retire" /\ (Becomes(t, k) \/ Becomes(t, l) \/ Rollback(t))
      BY <2>1 DEF Undeploy, At, database
    <2>3. serving' \subseteq serving /\ reporting' \subseteq reporting
      BY <2>1 DEF Undeploy, Undeployed
    <2>4. k \in TaskState /\ Owing(k)
      BY <1>0, <2>2 DEF TaskState, Owing
    <2>5. l \in TaskState /\ Owing(l)
      BY <1>0, <2>2 DEF TaskState, Owing
    <2> HIDE DEF k, l
    <2>6. TaskInv'
      BY <1>0, <2>2, <2>4, <2>5, BecomesTask, RollbackTask
    <2>7. ProcessInv'
      BY <1>0, <2>2, <2>3, SmallerSets
    <2> QED
      BY <2>2, <2>6, <2>7, KeepsData, KeepsCalls DEF TypeInv
  <1>6. CASE \E v \in Version : NextVersion(t, v)
    <2>1. PICK v \in Version : NextVersion(t, v)
      BY <1>6
    <2> DEFINE all == IF task[t].op \in Removal THEN RowsOf(v) ELSE RunningOf(v)
               k   == [task[t] EXCEPT !.queue = @ \ {v}, !.stopped = @ \cup {v}, !.todo = all]
    <2>2. /\ UNCHANGED <<app, versions, instances, cached>> /\ UNCHANGED running
          /\ UNCHANGED <<calls, boots>> /\ task[t].pc = "retire"
          /\ (Becomes(t, k) \/ Becomes(t, IdleTask))
      BY <2>1 DEF NextVersion, At, database
    <2>3. all \in SUBSET Instance
      BY RunningType DEF RowsOf
    <2> HIDE DEF all
    <2>4. k \in TaskState /\ Owing(k)
      BY <1>0, <2>2, <2>3 DEF TaskState, Owing
    <2> HIDE DEF k
    <2> QED
      BY <2>2, <2>4, IdleTaskType, OnlyTaskMoves
  <1> QED
    BY <1>1, <1>2, <1>3, <1>4, <1>5, <1>6

\* The end of an upgrade, a stop or a removal writes all its rows.
LEMMA FinishKeepsType ==
    ASSUME TypeInv, NEW t \in Threads, FinishUpgrade(t) \/ FinishStop(t) \/ FinishRemove(t)
    PROVE  TypeInv'
  <1>0. /\ DataInv /\ TaskInv /\ task[t] \in TaskState /\ app \in AppRow
        /\ versions \in [Version -> VersionState] /\ instances \in [Instance -> InstanceRow]
        /\ task[t].caller \in AppRow /\ task[t].loaded \in AppRow /\ cached \subseteq Version
        /\ task[t].version \in Version \cup {NoVersion}
    BY DEF TypeInv, TaskInv, DataInv, TaskState
  <1>1. /\ UNCHANGED running /\ UNCHANGED <<calls, boots>> /\ Rollback(t)
        /\ cached' \subseteq cached
    BY DEF FinishUpgrade, FinishStop, FinishRemove
  <1>2. versions' \in [Version -> VersionState]
    <2>1. \/ versions' = VersionsWritten({task[t].version}, "TESTING")
          \/ versions' = VersionsWritten({task[t].version}, "RUNNING")
          \/ versions' = VersionsWritten(task[t].stopped, "STOPED")
          \/ versions' = VersionsWritten(task[t].stopped, "deleted")
      BY DEF FinishUpgrade, FinishStop, FinishRemove, PublishedVersions
    <2>2. {"TESTING", "RUNNING", "STOPED", "deleted"} \subseteq VersionState
      BY DEF VersionState
    <2> QED
      BY <1>0, <2>1, <2>2, WrittenVersions
  <1>3. /\ instances' \in [Instance -> InstanceRow]
        /\ \A i \in Instance : instances'[i].version = instances[i].version
    <2>1. CASE FinishUpgrade(t) \/ FinishStop(t)
      <3>1. PICK gone : instances' = InstancesStoped(gone)
        BY <2>1 DEF FinishUpgrade, FinishStop
      <3> QED
        BY <1>0, <3>1, StopedRows
    <2>2. CASE FinishRemove(t)
      BY <1>0, <2>2 DEF FinishRemove, InstanceRow
    <2> QED
      BY <2>1, <2>2
  <1>4. app' \in AppRow
    <2>1. CASE FinishUpgrade(t)
      <3>1. PICK row : /\ WriteApp(row)
                       /\ \/ row = [task[t].loaded EXCEPT !.version = task[t].version]
                          \/ row = [task[t].loaded EXCEPT !.state = "RUNNING"]
        BY <2>1 DEF FinishUpgrade
      <3>2. row \in AppRow
        BY <1>0, <3>1 DEF AppRow
      <3> QED
        BY <1>0, <3>1, <3>2, WrittenApp
    <2>2. CASE FinishStop(t)
      <3>1. PICK row : /\ WriteApp(row)
                       /\ \/ row = [task[t].caller EXCEPT !.state = "STOPED"]
                          \/ row = [task[t].loaded EXCEPT !.state = "STOPED"]
                          \/ row = app
        BY <2>2 DEF FinishStop
      <3>2. row \in AppRow
        BY <1>0, <3>1 DEF AppRow
      <3> QED
        BY <1>0, <3>1, <3>2, WrittenApp
    <2>3. CASE FinishRemove(t)
      <3>1. CASE app' = [state |-> "deleted", version |-> NoVersion]
        BY <3>1 DEF AppRow
      <3>2. CASE \E w \in Version \cup {NoVersion} :
                    WriteApp(IF task[t].loaded.version \in task[t].stopped
                             THEN [task[t].loaded EXCEPT !.version = w] ELSE app)
        <4>1. PICK w \in Version \cup {NoVersion} :
                 WriteApp(IF task[t].loaded.version \in task[t].stopped
                          THEN [task[t].loaded EXCEPT !.version = w] ELSE app)
          BY <3>2
        <4>2. PICK row : /\ WriteApp(row)
                         /\ row = [task[t].loaded EXCEPT !.version = w] \/ row = app
          BY <4>1
        <4>3. row \in AppRow
          BY <1>0, <4>2 DEF AppRow
        <4> QED
          BY <1>0, <4>2, <4>3, WrittenApp
      <3> QED
        BY <2>3, <3>1, <3>2 DEF FinishRemove
    <2> QED
      BY <2>1, <2>2, <2>3
  <1>5. DataInv'
    <2>1. cached' \subseteq Version
      BY <1>0, <1>1
    <2> QED
      BY <1>0, <1>2, <1>3, <1>4, <2>1, RowsWritten
  <1> QED
    BY <1>0, <1>1, <1>5, RollbackTask, KeepsProcesses, KeepsCalls DEF TypeInv

\* The inspectors: they write states only, and CheckStopedVersion begins a transaction.
LEMMA InspectKeepsType ==
    ASSUME TypeInv, Inspect
    PROVE  TypeInv'
  <1>0. /\ DataInv /\ app \in AppRow /\ versions \in [Version -> VersionState]
        /\ instances \in [Instance -> InstanceRow]
    BY DEF TypeInv, DataInv
  <1>1. CASE (\E r \in Row : EchoFails(r)) \/ MarkServers
    <2>1. /\ UNCHANGED <<app, versions, instances, cached>> /\ UNCHANGED running
          /\ UNCHANGED <<task, calls, boots>>
      BY <1>1 DEF EchoFails, MarkServers, database
    <2> QED
      BY <2>1, KeepsData, KeepsProcesses, KeepsTasks, KeepsCalls DEF TypeInv
  <1>2. CASE CheckStopedServer
    <2>1. /\ UNCHANGED <<app, versions, cached>> /\ UNCHANGED running
          /\ UNCHANGED <<task, calls, boots>> /\ instances' = InstancesStoped(OnStopedServer)
      BY <1>2 DEF CheckStopedServer, console
    <2>2. /\ instances' \in [Instance -> InstanceRow]
          /\ \A i \in Instance : instances'[i].version = instances[i].version
      BY <1>0, <2>1, StopedRows
    <2>3. DataInv'
      BY <1>0, <2>1, <2>2, RowsWritten DEF DataInv
    <2> QED
      BY <2>1, <2>3, KeepsProcesses, KeepsTasks, KeepsCalls DEF TypeInv
  <1>3. CASE CheckStopedVersion
    <2>1. PICK left \in SUBSET Instance :
             Becomes(Inspector, [IdleTask EXCEPT !.pc = "retire", !.op = "checkStopedVersion",
                                                 !.todo = left])
      BY <1>3 DEF CheckStopedVersion
    <2> DEFINE k == [IdleTask EXCEPT !.pc = "retire", !.op = "checkStopedVersion", !.todo = left]
    <2>2. /\ UNCHANGED <<app, versions, instances, cached>> /\ UNCHANGED running
          /\ UNCHANGED <<calls, boots>> /\ Inspector \in Threads
      BY <1>3 DEF CheckStopedVersion, database, Threads
    <2>3. k \in TaskState /\ Owing(k)
      BY IdleTaskType DEF TaskState, Owing, Operation, IdleTask
    <2>4. Becomes(Inspector, k)
      BY <2>1
    <2> HIDE DEF k
    <2> QED
      BY <2>2, <2>3, <2>4, OnlyTaskMoves
  <1>4. CASE CountInstances
    <2> DEFINE k == [IdleTask EXCEPT !.pc = "counted", !.queue = VersionsWithoutInstance]
    <2>1. /\ UNCHANGED <<app, versions, instances, cached>> /\ UNCHANGED running
          /\ UNCHANGED <<calls, boots>> /\ Inspector \in Threads /\ Becomes(Inspector, k)
      BY <1>4 DEF CountInstances, database, Threads
    <2>2. VersionsWithoutInstance \in SUBSET Version
      BY DEF VersionsWithoutInstance
    <2>3. k \in TaskState /\ Owing(k)
      BY <2>2, IdleTaskType DEF TaskState, Owing, IdleTask
    <2> HIDE DEF k
    <2> QED
      BY <2>1, <2>3, OnlyTaskMoves
  <1>6. CASE StopVersions
    <2>1. /\ UNCHANGED <<app, instances, cached>> /\ UNCHANGED running
          /\ UNCHANGED <<calls, boots>> /\ Inspector \in Threads
          /\ versions' = VersionsWritten(task[Inspector].queue, "STOPED")
          /\ Becomes(Inspector, IdleTask)
      BY <1>6 DEF StopVersions, Threads
    <2>2. versions' \in [Version -> VersionState]
      BY <1>0, <2>1, WrittenVersions DEF VersionState
    <2>3. DataInv'
      BY <1>0, <2>1, <2>2 DEF DataInv, Recorded
    <2>4. TaskInv'
      BY <2>1, IdleTaskType, BecomesTask DEF TypeInv
    <2> QED
      BY <2>1, <2>3, <2>4, KeepsProcesses, KeepsCalls DEF TypeInv
  <1>5. CASE CheckAppState
    <2>1. /\ UNCHANGED <<versions, instances, cached>> /\ UNCHANGED running
          /\ UNCHANGED <<task, calls, boots>>
          /\ app' = [app EXCEPT !.state = StateOfVersions]
      BY <1>5 DEF CheckAppState, console
    <2>2. app' \in AppRow
      BY <1>0, <2>1 DEF AppRow, StateOfVersions
    <2>3. DataInv'
      BY <1>0, <2>1, <2>2 DEF DataInv, Recorded
    <2> QED
      BY <2>1, <2>3, KeepsProcesses, KeepsTasks, KeepsCalls DEF TypeInv
  <1> QED
    BY <1>1, <1>2, <1>3, <1>4, <1>5, <1>6 DEF Inspect

\* TypeInv is inductive, given the rows of the servers.
THEOREM TypeInvariant == Spec => []TypeInv
  <1>1. Init => TypeInv
    <2> SUFFICES ASSUME Init PROVE TypeInv
      OBVIOUS
    <2>1. instances \in [Instance -> InstanceRow] /\ Recorded = {}
      BY DEF Init, InstanceRow, Recorded
    <2>2. DataInv
      BY <2>1, FS_EmptySet DEF Init, DataInv, AppRow, NewApp, VersionState
    <2>3. ProcessInv
      BY DEF Init, ProcessInv
    <2>4. TaskInv
      BY IdleTaskType DEF Init, TaskInv, Threads
    <2>5. CallsInv
      <3>1. calls \in [Admin -> Seq(SUBSET (Operation \ {"checkStopedVersion"}))]
        BY LifecycleAssumption DEF Init
      <3>2. Seq(SUBSET (Operation \ {"checkStopedVersion"})) \subseteq Seq(SUBSET Operation)
        OBVIOUS
      <3>3. boots \in 0 .. MaxBoots
        BY LifecycleAssumption DEF Init
      <3> QED
        BY <3>1, <3>2, <3>3 DEF CallsInv
    <2> QED
      BY <2>2, <2>3, <2>4, <2>5 DEF TypeInv
  <1>2. RowInv /\ TypeInv /\ [Next]_vars => TypeInv'
    <2> SUFFICES ASSUME RowInv, TypeInv, [Next]_vars PROVE TypeInv'
      OBVIOUS
    <2>1. CASE \E s \in Server : Boot(s) \/ Shutdown(s) \/ Exit(s) \/ Crash(s)
      BY <2>1, ServersKeepType
    <2>2. CASE \E t \in Admin : Open(t)
      BY <2>2, OpenKeepsType
    <2>3. CASE \E t \in Admin : Choose(t)
      BY <2>3, ChooseKeepsType
    <2>4. CASE \E t \in Admin \cup {Inspector} : Continue(t)
      <3>1. PICK t \in Threads : Continue(t)
        BY <2>4 DEF Threads
      <3>2. CASE Deploy(t) \/ SaveAppInstance(t) \/ Published(t) \/ Enlarged(t)
        BY <3>2, PublishingKeepsType
      <3>3. CASE \/ NewVersionRuns(t) \/ SwitchDefault(t)
                 \/ \E i \in Instance : Unregister(t, i) \/ RestartNext(t, i) \/ Undeploy(t, i)
                 \/ \E v \in Version : NextVersion(t, v)
        BY <3>3, RetiringKeepsType
      <3>4. CASE FinishUpgrade(t) \/ FinishStop(t) \/ FinishRemove(t)
        BY <3>4, FinishKeepsType
      <3> QED
        BY <3>1, <3>2, <3>3, <3>4 DEF Continue
    <2>5. CASE Inspect
      BY <2>5, InspectKeepsType
    <2>6. CASE UNCHANGED vars
      <3>1. /\ UNCHANGED <<app, versions, instances, cached>> /\ UNCHANGED running
            /\ UNCHANGED <<task, calls, boots>>
        BY <2>6 DEF vars, running
      <3> QED
        BY <3>1, KeepsData, KeepsProcesses, KeepsTasks, KeepsCalls DEF TypeInv
    <2> QED
      BY <2>1, <2>2, <2>3, <2>4, <2>5, <2>6 DEF Next
  <1> QED
    BY <1>1, <1>2, RowsInvariant, PTL DEF Spec

\* The rows, the processes and the transactions stay what their types say, through every
\* race of administrators, servers and inspectors; a transaction never publishes more
\* instances than it was asked to.
THEOREM LifecycleTypeCorrect == Spec => []TypeOK
  <1>1. RowInv /\ TypeInv => TypeOK
    BY DEF RowInv, TypeInv, DataInv, ProcessInv, TaskInv, CallsInv, Threads, TypeOK
  <1> QED
    BY <1>1, RowsInvariant, TypeInvariant, PTL

=============================================================================
