# A formal model of B-Cloud

B-Cloud runs web applications on a pool of Tomcat servers. Administrators register applications and
versions of them in a console and publish, upgrade and stop them; the console deploys *instances* ("cattle")
on *application servers*; the instances of an application form a JGroups group, whose first member reports
all of them to the *task dispatchers*; a dispatcher is an HTTP proxy that sends each request to one instance.
On each physical server an *agent* starts and watches the processes.
This directory holds TLA+ modules of the parts where that is hard, the TLC runs that check them, and
proofs checked by TLAPS. Paths of source files are below `src/src/com/xt/bcloud/`, those of `gt_*.js` below
`src/workspace/appAndResourceMgr/apache-tomcat-6.0.16/webapps/arMgr/js/core/`.

## Modules

| module | what it is | source |
| --- | --- | --- |
| `Shed` | the routing table of one host, as operators on a record | `td/Shed.java`, `td/impl/DefaultVersionSelection.java` |
| `CattleManager` | a dispatcher: receiver and request threads over the sheds | `td/CattleManager.java`, `td/io/TaskDispathcer6.java` |
| `RoutingTable` | what a dispatcher's sheds promise: the abstract specification of `CattleManager` | `td/Shed.java` |
| `CattleManagerProofs` | theorems about `CattleManager` | |
| `HostProofs` | requests only reach instances of the application that owns their host, and the race for a new shed does not come back | |
| `RoutingTableProofs` | `CattleManager` implements `RoutingTable` | |
| `Ranch` | the group of one application's instances, and one dispatcher | `worker/Ranch.java`, `worker/RanchMessage.java` |
| `RanchProofs` | theorems about `Ranch` | |
| `AppLifecycle` | console, database, application servers and inspectors | `app/AppService.java`, `resource/`, `bg/impl/` |
| `AppLifecycleProofs` | theorems about `AppLifecycle` | |
| `MduManager` | the agent of a physical server, its processes, the manager and the inspector | `mdu/`, `comm/HeartBeating.java`, `bg/impl/MduInspector.java` |
| `MduManagerProofs` | theorems about `MduManager` | |
| `TablePage` | a page of the web console with an editable table | `gt_table.js`, `gt_base.js`, `BookService.java` |
| `TablePageProofs` | theorems about `TablePage` | |
| `HttpParser` | the parser of a message, byte by byte, as operators on a record | `td7/impl/AbstractHttpParser.java`, `HttpResponseParser.java` |
| `HttpExchange` | a request through the dispatcher td7 and its response | `td7/impl/AbstractBlockingConnector.java`, `DefaultSyncTransmitter.java` |
| `HttpExchangeProofs` | theorems about `HttpExchange` | |
| `MCCattleManager`, `MCRanch`, `MCAppLifecycle`, `MCMduManager`, `MCTablePage`, `MCHttpExchange` | small instances for TLC | |

`CattleManager` and `Ranch` extend `Shed`: a routing table is the same value in both. `CattleManager` takes
the messages of coordinators as an input (`Inbound`) and has every interleaving of the threads that handle
them; `Ranch` produces these messages, and its dispatcher handles one at a time. What `AppLifecycle` calls
*reporting* is that the Ranch of an instance is in the group of `Ranch`. `HttpExchange` extends `HttpParser`, and
has as one step (`Choose`) the look up that `CattleManager` has in detail. `MduManager` and `TablePage` stand on their
own: the agent starts the processes that `AppLifecycle` has booting, and a page is where its calls come from.

To run: `tlc -config HandOver.cfg MCCattleManager.tla` and so on, the modules and configurations as in the
table of runs; `tlapm CattleManagerProofs.tla` and so on for the modules named *Proofs*.

## The system's components

For each: its state, its operations, whom it talks to, what is hard, and what makes it correct.

**Shed** keeps, for one host name, a set of instances, a multimap from versions to instances, and the
default version. Operations: add, remove, reload, set the default version, choose by version, find by
session cookie. Hard: two indexes updated side by side, duplicates in one of them only, a default version that is
looked at and set under a lock that the command for it does not take, an end point compared by prefix and suffix.
Correct when what is registered can be chosen, and the default version, once there, changes on command only.

**CattleManager** keeps the map from hosts to sheds, the paused hosts, and the instance each sender last
spoke about. One thread per sender handles its messages; one per request calls `findCattle`. Hard: check
then put without a lock; a live list read after its lock was released; a reload of several steps;
look ups repeated after a failed connection, with a request that the first one changed. Correct when a request
only reaches an instance of the application that owns the host, a failed instance is not tried again,
and every request ends.

**Ranch** runs in each instance; it keeps two JGroups channels, the coordinator's address, and the loads of
the others. Operations: start, view change, suspicion, messages, the loop of every ten seconds, commands from
`ServerService`, stop. Hard: the coordinator changes while messages are under way; views before or after
suspicions; views and messages on threads of their own that share two maps; callbacks before the constructor has
ended; a dispatcher that restarts with nothing. Correct
when exactly the first member speaks to the dispatchers, and they end up routing to the members of the group.

**AppService, ResourceService** (console) keep the rows of applications, versions, instances and
servers in a database. Calls are transactions that call application servers over HTTP while they run. Hard: a
remote effect cannot be rolled back; rows are written whole from old copies; calls run concurrently, and
servers crash between their steps. **ServerService, ServerManager** are the console's counterpart in a server
process: registration, deployment, undeployment. **Inspectors** run one after the other under Quartz
and repair rows. Correct when the rows come to agree with each other and with what really runs.

**MduManager, MduService** are the agent of a physical server and its side of the manager. The agent registers and
beats, starts the instances recorded for its server, deploys others, and takes the reports of processes, from
which it completes the commands that stop and kill them. Hard: a report, the deployment it belongs to and the row on the
manager come about in three threads in any order; commands are objects that all connections share; timers
that end on an exception; an inspector that writes back what it read. Correct when a kill names the
process of its instance, reported numbers reach the row, and the list of agents follows their beats.

**Web console tables** (`gt_table.js`) keep the rows of a page, what is drawn of them, a selection by position, the
paging parameters, and a dialog made once. Hard: three sets of positions used for one another; rows edited in place
before they are saved; calls that fail or whose answers are lost; other administrators. Correct when the
page shows what the service stores.

**td7** is a second dispatcher, which repeats the table of the first. A thread of its blocking connector reads a
request into buffers, parses it as it comes, has an instance chosen, writes the request to it, and reads and parses the response
before it passes it on. Hard: reads end anywhere; what ends a message depends on its headers; peers close or break off in the
middle; buffers are shared between the parser and the list that is forwarded. Correct when a message ends where HTTP puts its
end, an instance gets the request whole, a client the response whole or an error, and no thread waits for ever.

**Sessions and cache**, **configuration**, **ports** and **profiling** are not modelled; see the end of this file. `PROJECT.json` lists every component with its
sources, and the hazards of the code at their lines, with the properties that would catch them.

## Shed and CattleManager

State: `hostsMapping`, `sheds`, `pausedHosts`, `ranchManagerAddrs` are the fields of those names; `writer`
is the write lock of a shed while it is held across steps; `rx[a]` and `req[r]` are the program counter and
the local variables of a receiver and a request thread. A step is the longest piece of code that touches a shared
map once, or that runs under one acquisition of a lock: `Receive` takes a message, `Handle` carries it
out host by host, and `LooksUp`, `CheckPaused`, `FindShed`, `FindSticked`, `Service`, `ViewSize`, `ViewCattles`,
`Connect`, `ConnectFails` are the pieces of a request. `addCattle` is two steps under the write lock: `RegisterCattle`
enters the instance and looks whether there is a default version, `AdoptDefault` sets the one it found missing (`adopts`); the
command for the default version, `ChangeDefaultVersion`, takes no lock and may come between them (`Shed.java:129-131`, 218-224). `reload` is a step
for the clearing, these two for each instance, and one for the unlocking, because the list that `Shed.service` returns without exclusions is a view that
request threads read without the lock, too. Instances only appear in messages; a message of a
coordinator names instances of its own application, itself included (`CattleManagerAssumption`), which is
what `Ranch.sendMessage` builds.

Properties:

- `RegisteredIsRoutable`: an instance that the sticky look up can return is also one that the choice by
  version can return. The converse is false, as said below.
- `ReloadIsExclusive`: a reload replaces the instances by exactly those reported, each once, whatever other
  receiver threads do.
- `SettledDefaultKept`: once a shed has a default version and no thread is about to write one that it found missing, the default version
  changes on command only, not because instances leave or by a reload, and no thread comes to be about to write one again.
- `SettledHostKept`: once the threads that register for a host agree on its shed, they agree until the application is stopped.
- `HostServedByItsApp`, `AttemptsAvoidFailed`, `RetryNeverCrashes`, `RequestEnds`: as named; comments in the module.
  `RetryNeverCrashes` speaks of the attempts after the first: the first one reads a live list and may fail with an exception.

Two races of the code are in the model, and the two properties above say how far they reach, not that they are absent. A default version that is
commanded between the look and the write of `addCattle` is overwritten by the version of the instance that registers, although the
comment at `Shed.java:155` says that only a message changes it; TLC shows it in nine states (a command is received
while an instance registers in a new shed). And of two coordinators that report a new host at once, each may put a shed of its own, so that what one of them registers is in a
shed that no request finds (`CattleManager.java:315`, 321-326), until its next report. `HandOver`, where two coordinators share a host, has both.

`AttemptsAvoidFailed` holds without sticky sessions (`HandOver`). With them it does not: `Shed.service` answers the sticky
instance before it looks at the exclusions, and TLC shows the failed instance tried again when `SessionSticky` is TRUE and a request carries
a session cookie (the cookies of `TwoApps`).

What the model shows and no property forbids: an instance that was registered twice, as happens when it registers with a coordinator that also
reports it, stays in the multimap after one UNREGISTER (`Shed.java:151`), though `CattleManager.java:334` says that one removes it; and below
a public host `computeHost` takes the first part off the path of the request itself (`CattleManager.java:282`), so that a
retry looks up the next part as the host, though line 85 says it is the first.

`RoutingTable` is what those who use the sheds may rely on: a message changes the instances of a shed at once, and a request takes its
version from a shed that no message has half changed. `AtomicTable` says that `CattleManager` implements it. Under the mapping
a reload takes effect when it empties the shed: until the unlocking, `TableOf` counts the instances still to be
added as there, once each; `pending` is the task of a handler that has found its shed, `adopting` the default version that it found
missing, and `chosen` the version a request was given. Of the default version the table promises less, because the code does: a registration or a
reload that finds none (`Perform`, `MissDefault`) writes one later (`AdoptDefault`), over what was commanded meanwhile. `Shed.setDefaultVersion` would need the lock
for more to hold. What the abstraction leaves open is how a message finds its shed; of that, `SettledHostKept` speaks.

Bounds. Two instances of two versions, so that choosing by version, by default version and at random differ; three
messages of two senders, the least with which a reload runs beside a registration and is followed by one more;
one request, because request threads share nothing but what they read; two sheds, so that in `HandOver` each
sender may make one for the same host. One of the two senders there commands a default version. In `TwoApps` a second application, a public host and every kind of cookie are added. `TwoApps`
uses the symmetry of sheds, and has no liveness property. Fairness: weak, for each receiver and request
thread (the JVM schedules what can run); messages need not arrive.

## Ranch

State: `ranch[n]` are the fields of the Ranch of instance n and where its threads are; `group`, `views`, `suspects`, `chan`, `toTd` are JGroups;
`syn`, `tdSuspects`, `shed`, `paused`, `managers` are the dispatcher. Actions: `Join`/`Started` (the constructor, two
steps because callbacks may run before it ends), `InstallView`/`AcceptView` (the channel has the view before the
callback runs), `ScanMember`, `ScanEnds`, `ScanFails` (its loops over the addresses, `Ranch.java:381-401`), `Deliver`/`StoreLoad` (a load is put into `cattleAddress`
and later into `cattleLoad`, lines 323-331), `Suspect`, `SendRanchLoad`/`SendLocalLoad` (the loop of ten seconds), `AnswerSyn`, `Command`,
`Unregister`/`Stop`, `Crash`, `Dispatch`, `SuspectManager`, `RestartDispatcher`. The views of a member are handled by one thread, the messages of each sender by
another, so a view may be handled between the two puts of a load, and an address may be put while the loop iterates the map; the iterator then throws and the
callback ends there. The removal of the addresses, after the loop, is one step.

Assumed of JGroups: the membership is agreed on and each member gets the views in order, later; messages
between two members are reliable and in order, but those of a departed member are dropped when the view without it
is installed, except one that a thread has in its hands; a crash is suspected by the others before or after that view; nobody is suspected who did not
crash, and the group does not split. The source of a message to the dispatchers is the sender's own
channel. The `==` between addresses in `Ranch.java:251` may go either way. `autoSendRanchLoad` has its default, true.

Properties: `OnlyFirstSpeaks`, `ReportsMembersOnly` (safety, once the views are handled), `ConnectedIsRouted`
and `DepartedIsDropped` (liveness). The code does keep the load of an instance that is gone, and reports it for ever, though the comment at
`Ranch.java:392` takes that load away: when the load is stored after the view
without its sender was handled, when an address that comes during the loop ends the loop before it reached the sender, or when a first member handles that view
before it knows its own address. `leftover` is a history variable that notes in `StoreLoad`, `ScanFails`, `ScanEnds` and `AcceptView` for
which instances this happened at a Ranch, and never changes what a Ranch does. `ReportsMembersOnly` and `DepartedIsDropped` say that nothing else has that effect; both are violated, in `Failures`,
without `leftover`. `DepartedIsDropped` also asks for one remaining member: with none, nobody can
tell a dispatcher of a departure that its own suspicion missed. `RunningIsRouted` is what `Ranch.java:35` says, and is
violated in two ways: an instance may run outside its group after it closed its channels on a suspicion of
*another* instance (`SilentCoordinator`), and the first instance is silenced by a view that comes before its
constructor has set `localAddress` (TLC shows it with `ViewsDuringStart` TRUE, where `ConnectedIsRouted` fails). `Failures` therefore has `ViewsDuringStart = FALSE`, and
states its liveness of instances in the group; the safety properties are proved for TRUE, too.

Bounds: two instances, at most one crash, one stop, one restart of the dispatcher and one command, two of these
in a behaviour (`MaxEvents`); a periodic message is not sent while `MaxQueue` messages wait, which merges equal
reports. The command is for a default version, the one that a shed keeps; what pauses do is in `TwoApps`. Two events are enough for a take-over that fails again half way. `SilentCoordinator` has three
instances in turn, two at a time. Fairness: weak for the thread of the views of each member, for the one of each sender's messages, for suspicions and loops, not for crashes, stops,
commands and deployments. Deadlock is not checked: when all instances have stopped and nothing is under way, the
system rests.

## AppLifecycle

State: `app`, `versions`, `instances`, `servers`, `cached` are rows of the database; `process`, `registered`, `deployedOn`, `serving`,
`reporting` are what really runs; `task[t]` is the transaction of a thread of the console, with the copies
it has read; `unreachable` are the rows the server inspector is about to mark. A row is *new* before it is
inserted and *deleted* after.

Actions: `Boot`, `Shutdown`, `Exit`, `Crash` are an application server; `Open` an administrator with the application
on his screen, whose copy some calls write back; `RegisterAppVersion`, `SetVersion`, `UpdateApp`, `PauseApp`, `ResumeApp`, `RestartInstance`,
`RemoveServer` calls of one step; the others (`PublishAppVersion`, `Upgrade`, `StopAppVersion`, `StopApp`, `StopInstance`,
`RemoveAppVersion`, `RemoveApp`, `Restart`, `AlterCapacity`) begin with an action of their name and go on, a remote call at a time, with
`Deploy`, `SaveAppInstance` (which commits), `Published`, `Enlarged`, `NewVersionRuns`, `SwitchDefault`, `Unregister`, `RestartNext`, `Undeploy`,
`NextVersion`, and the commit in `FinishUpgrade`, `FinishStop` or `FinishRemove`. A call of a server that is
down is an exception, and `Rollback` ends the call there, except where an instance is removed, which catches it. The inspectors are
`EchoFails` and `MarkServers` (`ServerStatusInspector`), `CheckStopedServer` and `CheckStopedVersion` (`AppInstanceInspector`),
`CountInstances` and `StopVersions` (`AppVersionInspector`, which counts and then writes, so that a publication may come between) and
`CheckAppState`. The last one reads and writes in one step, which the code does in two: splitting it, too, makes the run too long, and what a stale write of it does is
done by the stale copies that calls write.

`removeApp` and `stopApp` go through the versions they read when they began; every one of them is then checked and its
instances are read. `pauseApp` is one step: its calls change nothing here (what a Ranch does with a pause is `Command` in `Ranch`), and
what the model keeps of them is which exceptions end the call. The state PAUSED lasts until `AppStateInspector` looks next: it derives the state
of an application from those of its versions and overwrites PAUSED with RUNNING (`AppStateInspector.java:34-64`), although instances do run
while an application is paused (`app/AppState.java:30-35`); the dispatchers go on refusing its requests. The model has this loss of a pause, and `AppFollowsVersions` does not
ask for it: it allows PAUSED as well, as that comment does. `resumeApp`
only writes the row, and tells nobody. `restart` of an instance or a version stops a Tomcat service and then
does not start it, because `TomcatServerController.start` returns at once when the field `service` is set, which `stop` never resets.
`alterCapacity` changes neither the row of the version nor that of the application.

Assumed: an update of a row that was deleted meanwhile changes nothing; deployment is one step with the
choice of the server; a restarted process answers at the same address; a running one answers the echo; the
console itself does not crash. The inspectors are separate processes here, though one Quartz thread runs them in turn:
that allows more than the code does. `checkInstanceCount` is off, as by default. `publishTestVersion` sets the
state TESTING on an object it never writes, so that the state does not occur. Rows of instances and versions that are
deleted are not used again, nor is the application registered anew.

Properties:

- `OneLiveRowPerServer`: a configured server id never has two rows that deployments choose from (and so count twice).
- `UnreachableAreStoped`: an instance is not shown as running for ever on a server that nobody can reach.
- `VersionsFollowInstances`, `AppFollowsVersions`: the rows of versions come to agree with those of instances, and the row
  of the application, while there is one, with those of versions, after whatever old copies of it were written; it may
  instead stay paused while a version runs.
- `GivenUpAreSilent`: an instance that an operation gave up, or deleted, leaves the groups. It is said of servers that are
  in use: the server inspector may mark a row after the process behind it restarted and got an instance, which then
  stays in its group with a STOPED row (`AppInstanceInspector.java:134` asks what to do about it). Progressive upgrades are not
  among the calls of this run, since they leave the old version routed, as a comment in the code says.
- `RetiredAreReclaimed` (`GracefulUpgrade`) and `DeadAreStoped` (`LostServer`) are what comments of the code say, and are violated.

Bounds: two versions, instances, servers and rows of servers; two starts of servers, of one server twice or of
both; one instance for a publication, and a capacity of one. Two instances are the least with which an upgrade, a publication that
follows a failed one, and a version above its capacity happen; more of them repeat the same loops. The calls are scripts (`MCAppLifecycle`): one
administrator publishes a version and then calls any operation; or publishes twice and then changes the capacity or
pauses; or two race a publication with another one, with stopping and removing the version, the application or a server, and with
saving the form of the application. Fairness: weak for `Exit`, for the steps of a call (an HTTP call returns or fails) and for
each inspector, which Quartz repeats; not for `Boot`, `Shutdown`, `Crash` and `Open`. Deadlock is not checked: the scripts end.

## MduManager

State: `rows` are the instances of this physical server on the manager, `phy` its own row with the age of its last
beat, `suspect` what the inspector has read; `processes` are those of the operating system, which outlive the agent; `agent`
is the timer task that registers, the command port and the heart beat; `todo` the list that `startupServers` goes through;
`instanceMap` and `instanceProcessesMap` are the maps of those names; `param` is the parameter of the one `ProcessCommand` that
`CommandFactory` hands to every connection; `deploying[i]`, `reports[p]` and `updates[t]` are the program counters
of deployments, reports and calls of `updateProcessInfo`. Of an instance only its command to kill is kept: it lacks a
process number (`NoPid`) or names one.

Actions: `Register`, `StartBeat`, `List`, `Startup`, `StartupFails`, `Started` are the timer task of `MduManager.start`, which starts over when a
call fails; `Beat`, `BeatFails`, `Bind`, `Unregister` the beat and the port; `Age`, `Inspect`, `MarkStoped` the inspector and the
time that passes; `Deploy`, `RegisterInstance`, `CheckProcess`, `Updated`, `Answer`, `FindInstance`, `InsertInstance` a deployment,
which ends on the manager; `Report`, `ReportFails`, `Execute` the report of a process; `GetInstance`, `CompleteFetched`, `FindRow`,
`WriteRow` the call of `updateProcessInfo` that a report or a deployment makes, and `CallFails` an exception of one of its two remote calls (`MduManager.java:321`, 342), before
they have done anything; that an answer is lost is in `WriteRow`; `Serve`, `Die`, `Crash`, `Restart` processes
and the agent.

Assumed: a call that has reached the manager is carried out though the agent crashes; `executeCommand` and the entry into the map are
one step; the console deploys one instance after the other (`deployServerTemplate`); the check of the work
path, which refuses a deployment before it does anything, is left out. The console's commands to stop, start, kill and restart do
not reach an agent: their classes never set the `name` that `CommandFactory.build` requires, which throws. The command objects of the
console are not modelled.

Properties:

- `KillNamesOwn`: the command to kill an instance never names another one's process, although reports share a command
  object, so that a report may be carried out twice and another one not at all.
- `PidIsRecorded`: once the agent knows an instance and its last process, and no thread is at work, the manager has a process
  number, whether the report or the deployment came first. Two excuses are in it: a report that was replaced in the shared command (`HasReported`), and
  a call of the thread that had to record the number that failed (`Unsettled`): because the manager could not be reached, its answer was lost, or
  the insertion was refused since another thread had inserted the row. Nothing repeats such a call, so that the row then stays without a number while agent and process run.
- `SilentIsStoped`, `BeatingIsListed`: an agent that does not beat ends up STOPED, one that beats is listed, although the inspector
  writes back a row that it read before a beat or a registration.

What the model shows and no property forbids: when the agent starts an instance a second time, the number of its first process stays in
the command to kill, since `VarTemplate.format` replaces the variable only once; an agent that restarts starts
every recorded dispatcher once more while the first one runs, because only application servers have a row that `isAlive` looks at.

Bounds: one application server that is deployed and one dispatcher that an earlier agent deployed and whose report was lost; two
processes, one crash of the agent, death of a process, lost call or taken port. Fairness: weak for `Beat`, `Age`, `Inspect` and
`MarkStoped`, which timers and time bring about; the agent, the console and the processes may stop anywhere.

## TablePage

State: `books` and `nextOid` are the table of the service; `rows`, `heap`, `drawn`, `selected` are the rows of a page, the objects they
are, what the browser shows, and the selected positions; `pagination`, `filter`, `buttons`, `options` the paging parameters and their
controls; `dialog` the one edit dialog, with the parameters its buttons closed over when it was made (`first`) and those of the present
call (`last`). A row is an object that the table, the form and the dialog share, and a form writes into it as the user types: so
rows are cells of a heap, and what is drawn is kept apart from what the object holds.

Actions: `AutoLoad`, `Query`, `TurnPage`, `TurnToPage`, `Select`, `OpenAdd`, `OpenUpdate`, `Edit`, `Cancel`, `Ok`, `RemoveRow` are the handlers; a
handler is one step, since the page has one thread and a remote call blocks it. A call fails before or after it is
carried out. `Foreign` is another administrator. `book_list.html` of the demo is the page with all the controls; the pages of the console use subsets.

Properties: `DrawnMatchesRows` (positions of the screen and of the table agree), `ShownIsStored` (a page shows the rows it loaded as the
service has them, whatever was edited, cancelled or refused), `NextPageFollows` (from a page that shows a book, paging
skips and repeats nothing as long as the page is as it was loaded). The last two are said while nobody else writes, and while the dialog writes the row it was
opened for; that it need not is `OkActsOnOpened`, which says what a comment of the code says and is violated (`CachedDialog`).

What the model shows and no property forbids: a page turn that fails leaves the index of the page it did not load, so that the next turn
skips one; every addition edits the same object, so that an earlier row changes with the next one once it is drawn
again; `lastPage` computes an index and does not go there; a count that is kept while books are removed offers pages that begin behind the last book, and the next of
such an empty page is empty too (TLC shows it with pages of one row). Not modelled: master and detail tables, renderers, validation,
uploads, the selection of several rows.

Bounds: pages of two rows, three books, so that there is a second page; a dialog opened twice; one write of somebody else
or one failed call. A title is one of two, which is enough to tell an edited row from a stored one. No fairness: there is no liveness. Deadlock is
checked: a page always takes an event.

## HttpParser and HttpExchange

State: `parser` is the record of the fields of `AbstractHttpParser` that decide anything: the row so far, the index of the row,
what the head announced, how much of the body was counted, whether a last chunk was seen. `TakeByte` is one turn of the loop
of `parse`; a method that both tests and notes something, `isMessageEnd`, is split into `IsMessageEnd` and `NoteLastChunk`. The text
of a row of the head, a chunk size and a delimiter are one byte each. `client` and `server` are the two connections: the bytes the peer
means to send, how many it has sent, how many were read, where the last buffer begins, how many were parsed, and whether the peer closed
or broke the connection. `body` stands for `bodyBuffers`: the bytes that writing will find in them, given where
the positions of the buffers are. `forwarded` is what the instance received, `answer` what the client received.

Actions: `ReadRequest`, `ParseRequest`, `RequestEnds`, `ClientBroken` are `read`; `Choose` is `select` and the connection to the instance;
`Send`, `ServerBroken`, `ReadResponse`, `ParseResponse`, `ResponseEnds` are `send`; `Respond` is `writeToClient`; `Answers` and `Fails` are what
`writeException` and it write. `ClientMoves` and `ServerMoves` are the peers. A connection has a thread, a parser and
a connection to an instance of its own, and buffers are not used again (`BufferFactory`), so one exchange is all there is to see.

Properties:

- `EndsWhereFramed`: a parser finishes on the very byte on which the message ends by the rules of RFC 2616 that are quoted above `isMessageEnd`
  (`AbstractHttpParser.java:175-217`), but for the messages below. The rules are stated on whole messages (`MessageLength`), with no parser, as the reference, and in their
  order: no body after HEAD or a status without one, chunks, Content-Length, parts, and for a response that announces nothing the closing of the connection.
- `AnswerIsWhole`, `SilentOnlyWhenBroken`: a client gets its response whole or an error of the dispatcher, but for the messages below; nothing only when a
  connection broke.
- `ExchangeEnds`: when a client has sent its request, or will send no more, the thread ends; unless the request is one of those below and the client stays, or the response is and
  the instance has sent it and keeps the connection.
- `BodyIsForwarded`: the instance gets the body of a request that was read whole. Violated (`SplitBody`): every buffer after the one the head ends in is
  put into `bodyBuffers` as the object whose position the parser moves.

What the model shows and no property forbids: a client that closes in the middle of its request has it forwarded as it is, although
`AbstractBlockingConnector.java:62` says that it is discarded; a time-out is looked at only after a read, and for a request that was begun ends
in a null pointer, so that the client gets 500 and not 408; an instance that cannot be reached is not
replaced by another one (line 66 says it is).

The parser departs from the rules that the comment above it quotes in four ways, which `Misread` and `ResponseMisread` define, by the message and not by what the parser does:

- Chunked data with a row that begins with 0 just before the last chunk, or just before an empty row: the row is taken for the last chunk, or the last chunk after it is not noticed (line 263).
  In the first case the message ends early, in the second never. `PostZero` and `OkZero`.
- Several parts with a Content-Length: the length is not looked at, only the delimiter in a row (line 272), although the rules put the length before the parts. `OkMultipart`.
- A response without any length: it ends with its head (lines 272 and 293), and the client gets as much of the body as
  came in the same read, instead of all that comes until the instance closes. `OkClosing`.
- The response to HEAD: the parser does not know the request (line 240) and waits for the body that the head announces. `HeadOk`.

All four are in `Exchange`. With any one of them left out of the exceptions, TLC finds `EndsWhereFramed` violated; without the exception of `ResponseMisread`,
`AnswerIsWhole` (a client gets a part of `OkClosing` as if it were whole), and without those of `Misread` and `ResponseMisread`, `ExchangeEnds` (a thread reads
on while its client is connected, with the request there in full).

Bounds: buffers of three bytes, so that a row, an empty row and a body are cut at every place, and read in up to as many pieces as they have
bytes; seven requests (without a body after a blank row and with the start of another one behind it, with a length, two in chunks,
multipart, without a host, HEAD) and seven responses (length, two in chunks, parts with a length, 204 with a length, nothing announced, the one to HEAD). GET meets every
response, and every other request the one with a length, HEAD its own (`MCExchanges`): the thread has read a request before it reads the response. What a peer sends while nobody reads is
only seen by the next read, so peers send when the thread reads. Fairness: weak for the thread, and for the instance to send its
response to the end, close or break off, since nothing in the dispatcher ends a read that waits; it need not close when it has sent it. None for the client. Deadlock is not checked: a thread waits for its
client for ever, and ends when done.

## Runs

| run | checks | shows |
| --- | --- | --- |
| `HandOver` | `TypeOK`, `RegisteredIsRoutable`, `ReloadIsExclusive`, `AttemptsAvoidFailed`, `RetryNeverCrashes`, `SettledDefaultKept`, `SettledHostKept`, `RequestEnds`, `AtomicTable` | two coordinators of one application report at the same time, one commands a default version, a request is routed and retried; about 690,000 states |
| `TwoApps` | `HostServedByItsApp` | two applications, a public host, pauses and stops; about 730,000 states |
| `Failures` | `TypeOK`, `OnlyFirstSpeaks`, `ReportsMembersOnly`, `ConnectedIsRouted`, `DepartedIsDropped` | instances join, stop and crash, the dispatcher restarts, loads and views on threads of their own; about 630,000 states |
| `Lifecycle` | `TypeOK`, `OneLiveRowPerServer`, `UnreachableAreStoped`, `VersionsFollowInstances`, `AppFollowsVersions`, `GivenUpAreSilent` | calls of administrators, failing servers, inspectors; about 850,000 states |
| `Agent` | `TypeOK`, `KillNamesOwn`, `PidIsRecorded`, `SilentIsStoped`, `BeatingIsListed` | an agent starts and deploys, processes report, things fail once; about 1,080,000 states |
| `ConsolePage` | `TypeOK`, `DrawnMatchesRows`, `ShownIsStored`, `NextPageFollows` | a page is paged, edited and saved, once with trouble; about 770,000 states |
| `Exchange` | `TypeOK`, `EndsWhereFramed`, `AnswerIsWhole`, `SilentOnlyWhenBroken`, `ExchangeEnds` | requests and responses of each framing in reads of every size, peers that close or break off, and messages that are misread; about 500,000 states |
| `SplitBody` | `BodyIsForwarded` (violated) | a body that comes in a read of its own is not forwarded |
| `SilentCoordinator` | `RunningIsRouted` (violated) | a coordinator that learns of a failure closes its own channels |
| `GracefulUpgrade` | `RetiredAreReclaimed` (violated) | nobody stops the instances that an upgrade marks as stopped |
| `LostServer` | `DeadAreStoped` (violated) | instances that died with a server that restarted in time stay RUNNING |
| `CachedDialog` | `OkActsOnOpened` (violated) | a dialog opened again writes the row it was first opened for |

Definitions called a *slip* in a comment are plausible mistakes: putting one in place of the definition
that follows it makes the run find the property violated that `PROJECT.json` names with it.

## Proofs

All are for any hosts, instances, senders, requests, servers, processes and so on, from the assumptions on the constants
in `Shed`, `CattleManager`, `AppLifecycle`, `MduManager`, `HttpParser`, `HttpExchange`, `TablePage` and `Ranch`. `FailedAreAvoided` also assumes that sessions
are not sticky, `EndsWhereLengthSays` and `LengthAnswersAreWhole` that the messages are framed by a length. The theorems about hosts and groups assume nothing of how many members report a host, or when views come.

- `TypeInvariance`, `TypeCorrect`: the type invariant needs to know what a thread's local variables are at each program
  location (`HandlersReady`, `RequestsReady`): for instance that a handler that applies a message has a shed.
- `RegisteredRoutable`: inductive relative to the type invariant; the argument is on the operators of `Shed`. One direction, as the property.
- `ReloadExclusive`: a thread that loads a shed holds its write lock, and then no other thread
  changes that shed. `LoaderHoldsLock` is the strengthening.
- `RetriesAreSafe`, `FailedAreAvoided`: `RetryInv` says that a request that has excluded an instance works on a copy without
  the excluded ones, which is not empty when it chooses and as large as when its size was read.
- `HostsServedByOwners`: a shed is made for one host, and the map, the handlers and the requests that hold it hold it for that host.
  The maps do not say which one, since a stop takes a shed out of them while threads use it; `HostInv` says that some assignment of
  hosts to sheds agrees with all of them. All steps keep the assignment, except the creation of a shed, which extends it (`CreateStep`).
  The assumption on messages is the code's: a load report lists instances of one application.
- `DefaultStays`: an action property, step by step from the operators of `Shed`. A step that adds an instance is about to write a default version only if it found none (`FoundDefault`),
  and what `AdoptDefault` writes was about to be written before the step, so that the shed was not settled.
- `HostStaysSettled`: also an action property. Only a handler that found no shed makes one, and only for its own host; a settled host has a shed, so that
  whoever looks it up afterwards finds that one, and nobody who looked before is left without. It holds for any number of members that report one host.
- `AtomicTableImplemented`: initial states map to initial states, and each step of `CattleManager` to a step of `RoutingTable` or to none.
  The mapping is sound because the lock of a shed is held by the reload that fills it (`LoaderHoldsLock`) and by nobody
  else (`WriterLoads`), and then `ReloadIsExclusive` says what the shed contains. A registration is a step that changes the instances and may find no default, and then one
  that writes it; a reload finds none as often as it adds an instance to a shed without one. Steps are sorted by what they do to the
  sheds: most do nothing (`QuietSteps`), a request's step gives it a version, none, or the one it had (`VersionStep`).
- `OneSpeaker`: `GroupInv` says that what a member will know when it has handled its views is the membership (`ViewsAgree`), and
  that a member whose channel to the dispatchers is open is the first of the view it has (`SpeakerIsFirst`).
- `MembersReported`: `Swept` says whose loads a member can have: those of addresses it knows, its own, or left over ones; while it goes over the addresses, those of its view, those it has not
  come to, or left over ones; and when it is first and has handled its view, those of its view or left over ones. Views, stores, loops and their failures each keep it, also
  during a constructor.
- `AgentInvariant`, with `AgentTypeCorrect` and `KillIsOwn`: a process number moves from a report into the shared command, a call, the agent's
  maps, a deployment's answer and the rows, so `NamesOwn` and `CallsAgree` say of all these places what
  `KillNamesOwn` says of two. `StartedHaveInstance` makes a process belong to one instance from its start, `ParsedIsReport` that a
  command that is executed holds some report, and `RegisteredIsMapped` that a deployment's answer is an instance.
- `PidRecorded`: `PidIsRecorded` speaks of moments when no thread is at work for an instance, and an instance becomes recorded, or stays so, with each step only if
  nobody else's work ends unseen. `RecordInv` adds that process numbers are given out in order, so that the last process of an instance has its greatest
  (`StartedInOrder`); that a thread that does not run, and did not fail, holds no process (`RestingHoldNothing`); that the thread that a report or a deployment will
  enter has not run (`FreshThreads`); and that what is about to be written is a number (`WritesPid`).
- `RowsInvariant`, `OneLiveRow`: a registration is refused exactly when the id has a live row, and no other step
  makes a row live; `RowInv` adds the type of the rows.
- `ExchangeTypes`, `NeverSilent`: an answer could be empty when the thread passes on nothing. `ExchangeInv` therefore orders
  what is parsed, read, sent and the message's length on both connections, and says that a response that is passed on has been read.
  The parser takes one byte at a time; its lemmas say that each of its steps keeps its state well typed.
- `EndsWhereLengthSays`, `LengthAnswersAreWhole`: for requests without chunks and parts (`WithoutParts`), and responses that announce their Content-Length or have no body (`FramedByLength`);
  a response that announces nothing is not among them. The run's `AreFramedByLength` shows that its messages meet the hypotheses. `FramedInv` says where the parser is after each byte: in the blank rows before the start line, in a row of
  the head with what the rows before it announced noted, or in the body with its bytes counted. `ParserStep` takes it from one byte to the next, and
  `FramedLength` shows that the reference, `MessageLength`, finds the same end by looking for the first empty row of the whole message. The reads do not occur in
  the argument, and so their sizes do not matter.
- `RanchTypeCorrect`, `LifecycleTypeCorrect`: `WireType` needs `GroupInv` for the views and the leaders that messages are sent to. `TypeInv` of `AppLifecycle` says what a
  transaction holds at each of its steps; that `left` never goes below zero needs `Owing` (who is to record instances owes some), and that the capacity of a version can be compared with
  the number of its instances needs that only finitely many have a version.
- `PageTypeCorrect`, `DrawnAreRows`, `ShownAreStored`, `NextFollows`: `PageInv` has three parts. `TypeInv` adds to the types that an open dialog was opened for a row that
  is still where it was, since a modal dialog lets nobody else move it, and that the object all additions edit has no key: otherwise a load could
  hand out an object that is in use. `ShownInv` is `ShownIsStored` row by row, with each book drawn once (`OidsOnce`), without which removing one row
  would leave its book on the screen. `LoadedInv` says that a page as it was loaded is the slice of the matching books at its start, with the buttons that belong there.
  Each of append, update and delete then does to the rows, the screen and the service what keeps these equal (`AppendShows`, `UpdateShows`, `DeleteShows`).
- The order in which a query answers is `Ascending`, a choice; that there is something to choose, and one thing only, is `CanBeOrdered` and `OneOrder`. Both take a least counterexample
  (`Least`, from the well-foundedness of the numbers), which stands for the induction that the provers cannot instantiate. `AscendingRest` is what paging needs: what
  is behind the first k members is the ascending sequence of what is left.

Only model-checked: `EndsWhereFramed` and `AnswerIsWhole` for messages in chunks or parts (where the chunks end is a
recursive function of the message). Liveness (`RequestEnds`, `ExchangeEnds`, `ConnectedIsRouted`, `DepartedIsDropped`, the four of
`AppLifecycle`, the two of `MduManager`) is out of the prover's reach, as are ENABLED and what a recursive definition computes for every input.

## Plan

Done, in this order: 1. `Shed` and `CattleManager`; 2. `Ranch`; 3. `AppLifecycle`, all calls that change the state of an application; 4. `MduManager`;
5. `TablePage`; 6. `RoutingTable` and the refinement; 7. `HttpParser` and `HttpExchange`; and the theorems above.

Left:

- td7: the NIO connector with the asynchronous transmitters, and the registration timer of `TaskDispatcher7` (the scheme of `MduManager`).
  Its `Commnunicator` repeats `CattleManager`.
- Proofs: the end of a chunked and of a multipart message.

## Not modelled

Choosing ports, unpacking archives, profiling: input and output, or data without control. Sessions: an adapter between Tomcat and
Ehcache, where the library decides what is replicated and when. Of td7 the accept loop with its pool: when 100 requests wait and all threads are busy, `execute`
throws and the loop ends, which the source says as well as a model. The older dispatchers
call `findCattle` once and are covered by its first attempt. Configuration services read and write single rows.

By lines, most of the repository's JavaScript is jQuery, jQuery UI, json2 and upload widgets, in one copy for each Tomcat directory of
`workspace/` that was checked in, and copies of `gt_*.js` that are identical to the ones modelled here; of the
project's own JavaScript, `gt_table.js` and `gt_base.js` hold the state and the control; `df.js` is an unfinished form editor that no page uses, and the rest is layout. What the modules say about those 77,855 lines is therefore a small share of them; the part of the system with state, threads and failures is the
Java code, which most of the modules are about.
