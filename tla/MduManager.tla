----------------------------- MODULE MduManager -----------------------------
(***************************************************************************)
(* The agent of one physical server (mdu/MduManager), what it shares with  *)
(* the manager through mdu/MduService, and the inspector of agents         *)
(* (bg/impl/MduInspector).                                                 *)
(*                                                                         *)
(* The agent deploys application servers and dispatchers for the console,  *)
(* starts those it finds recorded when it starts itself, and writes the    *)
(* process number that each process reports into the commands that stop    *)
(* and kill it.  A deployment and the report of its process are handled by *)
(* two threads, in either order; the manager stores what both send.        *)
(*                                                                         *)
(* Of an instance only its command to kill is kept: it lacks a process     *)
(* number (NoPid) or names one.                                            *)
(***************************************************************************)
EXTENDS Naturals, FiniteSets

CONSTANTS
    Instance,     \* the instances that can be deployed on this server
    AppServer,    \* those that are application servers; the others are dispatchers
    Recorded,     \* those that were deployed before, and did not report
    Absent,       \* no row, or nothing in a map
    MaxPid,       \* bound: processes ever started
    MaxTrouble    \* bound: crashes of the agent and of processes, calls that fail

ASSUME MduManagerAssumption ==
    /\ AppServer \subseteq Instance /\ Recorded \subseteq Instance /\ Absent \notin Instance \cup Nat
    /\ MaxPid \in Nat /\ MaxTrouble \in Nat

VARIABLES
    rows,        \* APP_SERVER_INSTANCE: instance -> its command to kill
    phy,         \* PHY_SERVER: STOPED, or AVAILABLE with a fresh or a stale time
    suspect,     \* the inspector has found this row stale and not STOPED
    processes,   \* the processes that were started
    agent,       \* the agent: its thread that registers, its port, its beat
    todo,        \* startupServers: the instances that are left, as they were listed
    instanceMap, instanceProcessesMap,
    param,       \* the agent's one ProcessCommand: the report it was last given
    deploying,   \* the deployment of each instance
    reports,     \* what has become of the report of each process
    updates,     \* the calls of updateProcessInfo: one thread each
    trouble

armed  == <<rows, phy, suspect>>
maps   == <<instanceMap, instanceProcessesMap, param>>
work   == <<deploying, reports, updates>>
vars   == <<armed, processes, agent, todo, maps, work, trouble>>

NoPid  == 0
Pid    == 1 .. MaxPid

KillCmd == Pid \cup {NoPid}

\* A report is handled by a thread of its own, and a deployment may have to
\* handle one too: <<"report", pid>> and <<"deploy", instance>>.
Thread == ({"report"} \X Pid) \cup ({"deploy"} \X Instance)

Call(pc, pid, cmd) == [pc |-> pc, pid |-> pid, cmd |-> cmd, missing |-> FALSE]

Idle == Call("idle", NoPid, NoPid)

\* How far a deployment is, and a call of updateProcessInfo.
DeployPc == {"none", "waiting", "checking", "updating", "answering", "find", "insert", "ended"}
UpdatePc == {"idle", "get", "fetched", "find", "write", "failed"}

Deployment(pc) == [pc |-> pc, result |-> NoPid, missing |-> FALSE]

InstanceOf(p) == processes[p].of

Trouble == trouble < MaxTrouble /\ trouble' = trouble + 1

\* VarTemplate.format: the variable is replaced once, and is then gone.
Format(cmd, pid) == IF cmd = NoPid THEN pid ELSE cmd

-----------------------------------------------------------------------------
(* Processes of this server; they outlive the agent that started them. *)

Unused(p) == processes[p].state = "unused"

\* executeCommand
Start(i) ==
    \E p \in Pid :
        /\ Unused(p) /\ \A q \in Pid : q < p => ~Unused(q)
        /\ processes' = [processes EXCEPT ![p] = [of |-> i, state |-> "starting"]]

\* The server has started: it is recorded in SERVER_INFO, and it answers.
Serve(p) ==
    /\ processes[p].state = "starting"
    /\ processes' = [processes EXCEPT ![p].state = "up"]
    /\ UNCHANGED <<armed, agent, todo, maps, work, trouble>>

Die(p) ==
    /\ processes[p].state \in {"starting", "up"}
    /\ processes' = [processes EXCEPT ![p].state = "gone"]
    /\ Trouble
    /\ UNCHANGED <<armed, agent, todo, maps, work>>

\* isAlive: only an application server has a row in SERVER_INFO.
IsAlive(i) ==
    i \in AppServer /\ \E p \in Pid : processes[p] = [of |-> i, state |-> "up"]

-----------------------------------------------------------------------------
(* Registration of the agent. *)

Beating == agent.beat = "on"

\* What register and the beat write: the whole row, AVAILABLE and of now.
Available == phy' = "fresh"

\* A call that fails sends the task of registerTimer back to its beginning,
\* where register does nothing when it has succeeded before.
Retry == agent' = [agent EXCEPT !.pc = IF @ = "register" THEN "register" ELSE "heart"]

Register ==
    /\ agent.pc = "register"
    /\ \/ Available /\ agent' = [agent EXCEPT !.pc = "heart"] /\ UNCHANGED trouble
       \/ Available /\ Retry /\ Trouble
       \/ UNCHANGED phy /\ Retry /\ Trouble
    /\ UNCHANGED <<rows, suspect, processes, todo, maps, work>>

\* HeartBeating.start throws on a timer that is dead, every time.
StartBeat ==
    /\ agent.pc = "heart" /\ agent.beat # "dead"
    /\ agent' = [agent EXCEPT !.pc = "list", !.beat = "on"]
    /\ UNCHANGED <<armed, processes, todo, maps, work, trouble>>

List ==
    /\ agent.pc = "list"
    /\ \/ /\ todo' = rows
          /\ agent' = [agent EXCEPT !.pc = "start"]
          /\ UNCHANGED trouble
       \/ Retry /\ Trouble /\ UNCHANGED todo
    /\ UNCHANGED <<armed, processes, maps, work>>

\* One turn of startupServers; the process is started in a thread of its own,
\* and reports after this turn.
Startup(i) ==
    /\ agent.pc = "start" /\ todo[i] # Absent
    /\ IF IsAlive(i)
       THEN UNCHANGED <<processes, instanceMap>>
       ELSE Start(i) /\ instanceMap' = [instanceMap EXCEPT ![i] = todo[i]]
    /\ todo' = [todo EXCEPT ![i] = Absent]
    /\ UNCHANGED <<armed, agent, instanceProcessesMap, param, work, trouble>>

StartupFails ==
    /\ agent.pc = "start" /\ \E i \in Instance : todo[i] # Absent
    /\ Retry /\ Trouble
    /\ todo' = [i \in Instance |-> Absent]
    /\ UNCHANGED <<armed, processes, maps, work>>

Started ==
    /\ agent.pc = "start" /\ \A i \in Instance : todo[i] = Absent
    /\ agent' = [agent EXCEPT !.pc = "up"]
    /\ UNCHANGED <<armed, processes, todo, maps, work, trouble>>

\* Slip: psBeat writes the time of the beat only.
BeatTimeOnly ==
    /\ Beating
    /\ phy' = IF phy = "stale" THEN "fresh" ELSE phy
    /\ UNCHANGED <<rows, suspect, processes, agent, todo, maps, work, trouble>>

\* psBeat
Beat ==
    /\ Beating
    /\ IF phy = Absent THEN UNCHANGED phy ELSE Available
    /\ UNCHANGED <<rows, suspect, processes, agent, todo, maps, work, trouble>>

\* An exception in a beat ends the timer.
BeatFails ==
    /\ Beating /\ Trouble
    /\ agent' = [agent EXCEPT !.beat = "dead"]
    /\ UNCHANGED <<armed, processes, todo, maps, work>>

\* commandServer.startServer; when the port is taken the agent stops: the
\* timers are cancelled at once, the row is written when the call arrives.
Bind ==
    /\ agent.pc # "down" /\ agent.port = "closed"
    /\ \/ agent' = [agent EXCEPT !.port = "open"] /\ UNCHANGED trouble
       \/ agent' = [agent EXCEPT !.port = "taken", !.beat = "dead"] /\ Trouble
    /\ UNCHANGED <<armed, processes, todo, maps, work>>

Unregister ==
    /\ agent.port = "taken"
    /\ agent' = [agent EXCEPT !.port = "left"]
    /\ phy' = IF phy = Absent THEN phy ELSE "STOPED"
    /\ UNCHANGED <<rows, suspect, processes, todo, maps, work, trouble>>

-----------------------------------------------------------------------------
(* The inspector, and the time that passes without a beat. *)

Age ==
    /\ phy = "fresh"
    /\ phy' = "stale"
    /\ UNCHANGED <<rows, suspect, processes, agent, todo, maps, work, trouble>>

\* Slip: the age is compared the wrong way round.
InspectFresh ==
    /\ ~suspect /\ phy = "fresh"
    /\ suspect' = TRUE
    /\ UNCHANGED <<rows, phy, processes, agent, todo, maps, work, trouble>>

Inspect ==
    /\ ~suspect /\ phy = "stale"
    /\ suspect' = TRUE
    /\ UNCHANGED <<rows, phy, processes, agent, todo, maps, work, trouble>>

\* The row is written as it was read, whatever has been written since.
MarkStoped ==
    /\ suspect
    /\ phy' = "STOPED"
    /\ suspect' = FALSE
    /\ UNCHANGED <<rows, processes, agent, todo, maps, work, trouble>>

-----------------------------------------------------------------------------
(* updateProcessInfo, in the thread t. *)

Enter(t, p) == updates' = [updates EXCEPT ![t] = Call("get", p, NoPid)]

\* An exception ends it.
Fail(t) == updates' = [updates EXCEPT ![t] = Call("failed", updates[t].pid, NoPid)]

\* The commands of the instance are completed with the process number, and
\* sent to the manager.
Complete(t, cmd, pid) ==
    LET new == Format(cmd, pid)
    IN /\ instanceMap' = [instanceMap EXCEPT ![InstanceOf(pid)] = new]
       /\ updates' = [updates EXCEPT ![t] = Call("find", pid, new)]

\* Slip: an instance that the manager does not know is not noticed.
GetUnknownInstance(t) ==
    LET u == updates[t]
        i == InstanceOf(u.pid)
    IN /\ u.pc = "get"
       /\ IF instanceMap[i] # Absent THEN Complete(t, instanceMap[i], u.pid)
          ELSE /\ updates' = [updates EXCEPT ![t] = Call("fetched", u.pid, rows[i])]
               /\ UNCHANGED instanceMap
       /\ UNCHANGED <<armed, processes, agent, todo, instanceProcessesMap, param,
                      deploying, reports, trouble>>

\* The instance is looked up in the map, and then on the manager.
GetInstance(t) ==
    LET u == updates[t]
        i == InstanceOf(u.pid)
    IN /\ u.pc = "get"
       /\ IF instanceMap[i] # Absent THEN Complete(t, instanceMap[i], u.pid)
          ELSE /\ updates' = [updates EXCEPT ![t] =
                     IF rows[i] = Absent THEN Idle
                     ELSE Call("fetched", u.pid, rows[i])]
               /\ UNCHANGED instanceMap
       /\ UNCHANGED <<armed, processes, agent, todo, instanceProcessesMap, param,
                      deploying, reports, trouble>>

\* Slip: the process number is taken from the shared command again.
CompleteFetchedShared(t) ==
    LET u == updates[t]
        new == Format(u.cmd, param)
    IN /\ u.pc = "fetched"
       /\ instanceMap' = [instanceMap EXCEPT ![InstanceOf(u.pid)] = new]
       /\ updates' = [updates EXCEPT ![t] = Call("find", u.pid, new)]
       /\ UNCHANGED <<armed, processes, agent, todo, instanceProcessesMap, param,
                      deploying, reports, trouble>>

\* The copy that the manager gave goes into the map.
CompleteFetched(t) ==
    /\ updates[t].pc = "fetched"
    /\ Complete(t, updates[t].cmd, updates[t].pid)
    /\ UNCHANGED <<armed, processes, agent, todo, instanceProcessesMap, param,
                   deploying, reports, trouble>>

\* updateAppServerInstance: is there a row?
FindRow(t) ==
    /\ updates[t].pc = "find"
    /\ updates' = [updates EXCEPT ![t] =
          [@ EXCEPT !.pc = "write", !.missing = rows[InstanceOf(updates[t].pid)] = Absent]]
    /\ UNCHANGED <<armed, processes, agent, todo, maps, deploying, reports, trouble>>

\* It is inserted if there was none, and written; two cannot insert it.  The
\* answer may be lost.
WriteRow(t) ==
    LET u == updates[t]
        i == InstanceOf(u.pid)
    IN /\ u.pc = "write"
       /\ IF u.missing /\ rows[i] # Absent
          THEN Fail(t) /\ UNCHANGED <<rows, trouble>>
          ELSE /\ rows' = [rows EXCEPT ![i] = u.cmd]
               /\ \/ updates' = [updates EXCEPT ![t] = Idle] /\ UNCHANGED trouble
                  \/ Fail(t) /\ Trouble
       /\ UNCHANGED <<phy, suspect, processes, agent, todo, maps, deploying, reports>>

\* getAppServerInstance, or updateAppServerInstance, fails before it does anything.
CallFails(t) ==
    LET u == updates[t]
    IN /\ \/ u.pc = "get" /\ instanceMap[InstanceOf(u.pid)] = Absent
          \/ u.pc \in {"find", "write"}
       /\ Fail(t) /\ Trouble
       /\ UNCHANGED <<armed, processes, agent, todo, maps, deploying, reports>>

-----------------------------------------------------------------------------
(* The report of a process: ProcessRegister.onInit, ProcessCommand. *)

\* CommandFactory.parse: the parameter goes into the command all share.
Report(p) ==
    /\ processes[p].state \in {"starting", "up"} /\ reports[p] = "none"
    /\ agent.port = "open"
    /\ param' = p
    /\ reports' = [reports EXCEPT ![p] = "parsed"]
    /\ UNCHANGED <<armed, processes, agent, todo, instanceMap, instanceProcessesMap,
                   deploying, updates, trouble>>

\* After five attempts the process gives up.
ReportFails(p) ==
    /\ processes[p].state \in {"starting", "up"} /\ reports[p] = "none"
    /\ agent.port # "open"
    /\ reports' = [reports EXCEPT ![p] = "ended"]
    /\ UNCHANGED <<armed, processes, agent, todo, maps, deploying, updates, trouble>>

\* What is executed is whatever the command holds now; it is forgotten here
\* when nobody is left to read it.
Execute(p) ==
    LET q == param
    IN /\ reports[p] = "parsed"
       /\ reports' = [reports EXCEPT ![p] = "ended"]
       /\ instanceProcessesMap' = [instanceProcessesMap EXCEPT ![InstanceOf(q)] = q]
       /\ param' = IF \E r \in Pid \ {p} : reports[r] = "parsed" THEN q ELSE NoPid
       /\ Enter(<<"report", p>>, q)
       /\ UNCHANGED <<armed, processes, agent, todo, instanceMap, deploying, trouble>>

-----------------------------------------------------------------------------
(* A deployment: MduService.deployToServer, DeployCommand. *)

Go(i, from, to) ==
    /\ deploying[i].pc = from
    /\ deploying' = [deploying EXCEPT ![i].pc = to]

\* The console deploys to servers of a list it may have read long ago, one
\* after the other (deployServerTemplate).
Deploy(i) ==
    /\ phy # Absent /\ agent.port = "open"
    /\ \A j \in Instance : deploying[j].pc \in {"none", "ended"}
    /\ Go(i, "none", "waiting")
    /\ Start(i)
    /\ UNCHANGED <<armed, agent, todo, maps, reports, updates, trouble>>

\* registerAppServerInstance, when the server is up, has been waited for long
\* enough, or is a dispatcher.
RegisterInstance(i) ==
    /\ Go(i, "waiting", "checking")
    /\ instanceMap' = [instanceMap EXCEPT ![i] = IF @ = Absent THEN NoPid ELSE @]
    /\ UNCHANGED <<armed, processes, agent, todo, instanceProcessesMap, param,
                   reports, updates, trouble>>

\* Slip: the process of a new instance is expected to report later.
CheckNoProcess(i) ==
    /\ Go(i, "checking", "answering")
    /\ UNCHANGED <<armed, processes, agent, todo, maps, reports, updates, trouble>>

\* The process may have reported before.
CheckProcess(i) ==
    /\ IF instanceProcessesMap[i] = NoPid
       THEN Go(i, "checking", "answering") /\ UNCHANGED updates
       ELSE Go(i, "checking", "updating") /\ Enter(<<"deploy", i>>, instanceProcessesMap[i])
    /\ UNCHANGED <<armed, processes, agent, todo, maps, reports, trouble>>

\* An exception of updateProcessInfo is one of the deployment.
Updated(i) ==
    LET end == updates[<<"deploy", i>>].pc
    IN /\ end \in {"idle", "failed"}
       /\ Go(i, "updating", IF end = "idle" THEN "answering" ELSE "ended")
       /\ UNCHANGED <<armed, processes, agent, todo, maps, reports, updates, trouble>>

\* The answer carries the instance as it is now.
Answer(i) ==
    /\ deploying[i].pc = "answering"
    /\ deploying' = [deploying EXCEPT ![i].pc = "find", ![i].result = instanceMap[i]]
    /\ UNCHANGED <<armed, processes, agent, todo, maps, reports, updates, trouble>>

\* MduService.registerAppServerInstance: nothing is done to a row there is.
FindInstance(i) ==
    /\ deploying[i].pc = "find"
    /\ deploying' = [deploying EXCEPT ![i].pc = "insert", ![i].missing = rows[i] = Absent]
    /\ UNCHANGED <<armed, processes, agent, todo, maps, reports, updates, trouble>>

InsertInstance(i) ==
    LET d == deploying[i]
    IN /\ d.pc = "insert"
       /\ rows' = IF d.missing /\ rows[i] = Absent THEN [rows EXCEPT ![i] = d.result] ELSE rows
       /\ deploying' = [deploying EXCEPT ![i] = Deployment("ended")]
       /\ UNCHANGED <<phy, suspect, processes, agent, todo, maps,
                      reports, updates, trouble>>

-----------------------------------------------------------------------------
(* The agent stops and starts again. *)

\* A call that has reached the manager is carried out all the same, and so is
\* a deployment that was answered.
Crash ==
    /\ agent.pc # "down" /\ Trouble
    /\ agent' = [pc |-> "down", port |-> "closed", beat |-> "off"]
    /\ todo' = [i \in Instance |-> Absent]
    /\ instanceMap' = [i \in Instance |-> Absent]
    /\ instanceProcessesMap' = [i \in Instance |-> NoPid]
    /\ param' = NoPid
    /\ updates' = [t \in Thread |-> IF updates[t].pc = "write" THEN updates[t] ELSE Idle]
    /\ reports' = [p \in Pid |-> IF reports[p] = "parsed" THEN "ended" ELSE reports[p]]
    /\ deploying' = [i \in Instance |->
          IF deploying[i].pc \in {"waiting", "checking", "updating", "answering"}
          THEN [deploying[i] EXCEPT !.pc = "ended"] ELSE deploying[i]]
    /\ UNCHANGED <<armed, processes>>

Restart ==
    /\ agent.pc = "down"
    /\ agent' = [agent EXCEPT !.pc = "register"]
    /\ UNCHANGED <<armed, processes, todo, maps, work, trouble>>

-----------------------------------------------------------------------------
Init ==
    /\ rows = [i \in Instance |-> IF i \in Recorded THEN NoPid ELSE Absent]
    /\ phy = Absent /\ suspect = FALSE
    /\ processes = [p \in Pid |-> [of |-> Absent, state |-> "unused"]]
    /\ agent = [pc |-> "down", port |-> "closed", beat |-> "off"]
    /\ todo = [i \in Instance |-> Absent]
    /\ instanceMap = [i \in Instance |-> Absent]
    /\ instanceProcessesMap = [i \in Instance |-> NoPid]
    /\ param = NoPid
    /\ deploying = [i \in Instance |-> Deployment(IF i \in Recorded THEN "ended" ELSE "none")]
    /\ reports = [p \in Pid |-> "none"]
    /\ updates = [t \in Thread |-> Idle]
    /\ trouble = 0

Next ==
    \/ Register \/ StartBeat \/ List \/ StartupFails \/ Started
    \/ Beat \/ BeatFails \/ Bind \/ Unregister
    \/ Age \/ Inspect \/ MarkStoped
    \/ Crash \/ Restart
    \/ \E i \in Instance :
          \/ Startup(i)
          \/ Deploy(i) \/ RegisterInstance(i) \/ CheckProcess(i) \/ Updated(i)
          \/ Answer(i) \/ FindInstance(i) \/ InsertInstance(i)
    \/ \E p \in Pid : Serve(p) \/ Die(p) \/ Report(p) \/ ReportFails(p) \/ Execute(p)
    \/ \E t \in Thread : \/ GetInstance(t) \/ CompleteFetched(t)
                         \/ FindRow(t) \/ WriteRow(t) \/ CallFails(t)

\* The beat and the inspector are run by timers, and time passes; the agent,
\* the console and the servers may stop anywhere.
Fairness == WF_vars(Beat) /\ WF_vars(Age) /\ WF_vars(Inspect) /\ WF_vars(MarkStoped)

Spec == Init /\ [][Next]_vars /\ Fairness

-----------------------------------------------------------------------------
(* Properties. *)

TypeOK ==
    /\ rows \in [Instance -> KillCmd \cup {Absent}]
    /\ phy \in {Absent, "fresh", "stale", "STOPED"}
    /\ suspect \in BOOLEAN
    /\ processes \in [Pid -> [of : Instance \cup {Absent},
                             state : {"unused", "starting", "up", "gone"}]]
    /\ agent \in [pc : {"down", "register", "heart", "list", "start", "up"},
                  port : {"closed", "open", "taken", "left"}, beat : {"off", "on", "dead"}]
    /\ todo \in [Instance -> KillCmd \cup {Absent}]
    /\ instanceMap \in [Instance -> KillCmd \cup {Absent}]
    /\ instanceProcessesMap \in [Instance -> KillCmd]
    /\ param \in KillCmd
    /\ deploying \in [Instance -> [pc : DeployPc, result : KillCmd, missing : BOOLEAN]]
    /\ reports \in [Pid -> {"none", "parsed", "ended"}]
    /\ updates \in [Thread -> [pc : UpdatePc, pid : KillCmd, cmd : KillCmd, missing : BOOLEAN]]
    /\ trouble \in 0 .. MaxTrouble

\* The command to kill an instance never names a process of another one, on
\* the manager or in the agent, whatever the reports that share a command do to
\* each other (CommandFactory.parse) and however often the agent crashes.
KillNamesOwn ==
    \A i \in Instance : \A cmd \in {rows[i], instanceMap[i]} \cap Pid :
        InstanceOf(cmd) = i

\* A thread is at work on the instance, or an exception has ended one that was.
Unsettled(i) ==
    \/ deploying[i].pc = "checking"
    \/ \E t \in Thread : updates[t].pid # NoPid /\ InstanceOf(updates[t].pid) = i

HasReported(i) ==
    /\ instanceProcessesMap[i] # NoPid
    /\ \A p \in Pid : InstanceOf(p) = i => p <= instanceProcessesMap[i]

\* "The process may be known before the instance" (MduManager.java:75): once
\* the agent knows the instance and its last process, and no thread is at work
\* on them, the manager has a process number, whichever came first and however
\* often the agent has crashed.  Nothing repeats a call that failed: if one did
\* for this instance, its row may stay without a number (MduManager.java:321, 342).
PidIsRecorded ==
    \A i \in Instance :
        instanceMap[i] # Absent /\ HasReported(i) /\ ~Unsettled(i) => rows[i] \in Pid

\* An agent that does not beat is marked STOPED in the end, however its
\* registration, its withdrawal and the inspector fall together.
SilentIsStoped ==
    (~Beating /\ phy # Absent) ~> (Beating \/ phy = "STOPED")

\* An agent that beats is listed for deployments again, though the inspector
\* may have marked it STOPED over a beat it had not read.
BeatingIsListed ==
    Beating ~> (~Beating \/ phy \in {"fresh", "stale"})
=============================================================================
